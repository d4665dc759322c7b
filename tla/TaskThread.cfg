CONSTANTS
  loop = loop
  once = once
  Tasks = {loop, once}
  NoTask = NoTask
  Ms <- MCMs
  Outcomes <- MCOutcomes
  MaxTime = 2
SPECIFICATION FairSpec
INVARIANTS TypeOK NoPopEmpty OnePlace RecurringTaskKept RoundCovers WakeupPending
PROPERTIES NotEarly ServiceSpec DueTaskStarts StopReachesWorker
CHECK_DEADLOCK FALSE
