CONSTANTS
  Tasks = {loop}
  NoTask = NoTask
  Ms <- MCMs
  Outcomes <- MCOutcomes
  MaxTime = 0
SPECIFICATION DFairSpec
PROPERTY DestructorReturns
CHECK_DEADLOCK FALSE
