SPECIFICATION RecoverSpec
CHECK_DEADLOCK FALSE
CONSTANTS
  Payloads = {"media"}
  MaxWrites = 1
PROPERTIES LateWorkReopens
