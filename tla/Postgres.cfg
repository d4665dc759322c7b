CONSTANTS
  q1 = q1
  q2 = q2
  q3 = q3
  q4 = q4
  s1 = s1
  s2 = s2
  Queries = {q1, q2, q3, q4}
  Deletes = {q4}
  Conns = {c1, c2, c3}
  Stmts = {s1, s2}
  stmtOf <- MCStmtOf
  NoConn = NoConn
  Worker = 2
SPECIFICATION FairSpec
INVARIANTS TypeOK Exclusive NoLeak WakeupsCover PreparedBeforeExec
PROPERTY QueryReturns
CHECK_DEADLOCK FALSE
