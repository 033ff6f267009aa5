SPECIFICATION Spec
CONSTANTS
  Files = {"a", "b"}
  FolderNames = {"old", "new"}
  Local = "master"
  MaxRenames = 1
  MaxFaults = 0
  Home <- MCHome
INVARIANTS EveryMemberMoves
CHECK_DEADLOCK FALSE
