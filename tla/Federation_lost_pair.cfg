SPECIFICATION FairSpec
CHECK_DEADLOCK FALSE
CONSTANTS
  MaxPairs = 2
  MaxModes = 0
  MaxLost = 1
PROPERTIES Repairable
