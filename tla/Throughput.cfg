SPECIFICATION TSpec
CONSTANTS
  c1 = c1
  c2 = c2
  Clients = {c1, c2}
  Requests <- MCRequests
  MaxRequests = 5
  SockCap = 1
  PageSize = 2
  U64 = 16
  OverflowChecks = FALSE
  Nobody = Nobody
  Fill <- MCFill
  ChunkSize = 2
  Ports = {9090, 9091}
INVARIANTS TTypeOK ReadBack StoredWhole NoDataRace
PROPERTIES Completion ServerStarts
CHECK_DEADLOCK FALSE
