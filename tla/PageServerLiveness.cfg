SPECIFICATION Spec
CONSTANTS
  Clients = {c1, c2}
  Requests <- FewRequests
  MaxRequests = 2
  SockCap = 1
  PageSize = 2
  U64 = 16
  OverflowChecks = TRUE
  Nobody = Nobody
PROPERTY Answered
CHECK_DEADLOCK FALSE
