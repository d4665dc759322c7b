CONSTANTS
  MaxWorker = 2
  MaxRuns = 2
  Requests = {r1, r2}
  Fetching = {r1}
SPECIFICATION Spec
INVARIANTS TypeOK
PROPERTIES EveryAnswered FailedListenerRests
CHECK_DEADLOCK FALSE
