SPECIFICATION PlaySpec
CONSTANTS
  Models = {"m", "down"}
  Refused = {"down"}
  MaxSandboxes = 1
  MaxStack = 1
  MaxOwnEdits = 1
PROPERTIES UndoStaysHome
CHECK_DEADLOCK FALSE
