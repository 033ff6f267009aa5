SPECIFICATION FairSpec
CHECK_DEADLOCK FALSE
CONSTANTS
  q1 = q1  q2 = q2
  Recordings = {"r1"}
  Requests <- MCRequests
  Asks <- MCAsks
  Quota = 1
  Allocated = 1
  MaxSanctions = 0
  MaxFailures = 0
PROPERTIES NoStuckAccount
