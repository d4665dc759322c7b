CONSTANTS
  Segments = {"a", "b", "head", ""}
  Empty = ""
  Requests <- MCRequests
  Hdrs = {"x", "y"}
  NoHdr = "none"
  NoQuery = NoQuery
  LessenPath <- MCHead
  Ids <- MCIds
  NoId = NoId
  MaxRequests = 2
SPECIFICATION Spec
INVARIANTS TypeOK LongestStable OwnData ClosedOnlyAsked
CHECK_DEADLOCK FALSE
