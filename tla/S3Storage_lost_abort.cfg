SPECIFICATION FairSpec
CHECK_DEADLOCK FALSE
CONSTANTS
  Sessions = {"s1"}
  Quota = 1
  MaxFaults = 2
PROPERTIES NoStrandedQuota
