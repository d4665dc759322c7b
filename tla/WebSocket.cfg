CONSTANT Users = {u1, u2, u3}
SPECIFICATION FairSpec
INVARIANTS TypeOK ClosureHasStream DeleterLast ReleasedByMember
PROPERTY EndTold
CHECK_DEADLOCK FALSE
