CONSTANTS
  Calls = {c1, c2, c3, c4}
  Ids = {a, b}
  NoFun = NoFun
SPECIFICATION FairSpec
INVARIANTS TypeOK NoResurrection EveryLossAsked
PROPERTIES RemoveTakesEffect Converges
CHECK_DEADLOCK FALSE
