SPECIFICATION Spec
CONSTANTS
  Clients = {c1, c2}
  Requests <- AllRequests
  MaxRequests = 2
  SockCap = 1
  PageSize = 2
  U64 = 16
  OverflowChecks = FALSE
  Nobody = Nobody
INVARIANTS TypeOK OrderedReplies AllocHonoured OkMeansAll PanicJustified
PROPERTY RefsStable
SYMMETRY Symmetry
CHECK_DEADLOCK FALSE
