SPECIFICATION Spec
CONSTANTS
  Clients = {c1, c2}
  Requests <- SharedBuffer
  MaxRequests = 2
  SockCap = 1
  PageSize = 2
  U64 = 16
  OverflowChecks = FALSE
  Nobody = Nobody
INVARIANT NoDataRace
CHECK_DEADLOCK FALSE
