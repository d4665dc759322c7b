CONSTANTS
  Threads = {t1, t2}
  MaxLines = 2
SPECIFICATION LiveSpec
INVARIANTS TypeOK LinesOnce InOrder
PROPERTY ListDrained
CHECK_DEADLOCK FALSE
