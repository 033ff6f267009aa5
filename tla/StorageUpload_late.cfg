CONSTANTS
  a = a  b = b  p = p  d1 = d1  d2 = d2
  NoUpload = NoUpload  NoPath = NoPath
  Uploads <- MCOneUpload
  Paths <- MCPaths
  Size <- MCOneSize
  Allocated = 2
  Deleters <- OneDeleter
  Transports = {"Direct"}
  LateRequests = TRUE
  MaxFaults = 1
SPECIFICATION Spec
CHECK_DEADLOCK FALSE
INVARIANTS PublishedStored
