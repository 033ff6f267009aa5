SPECIFICATION FairSpec
CHECK_DEADLOCK FALSE
CONSTANTS
  Payloads = {"media", "recordings"}
  MaxWrites = 1
PROPERTIES SurvivesDeath
