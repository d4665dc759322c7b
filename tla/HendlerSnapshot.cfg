CONSTANTS
  Readers = {r1, r2}
  MaxVersion = 2
SPECIFICATION Spec
INVARIANT LookupInLiveMap
CHECK_DEADLOCK FALSE
