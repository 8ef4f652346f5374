SPECIFICATION Spec
CONSTANTS
  f1 = f1
  f2 = f2
  text = text
  blob = blob
  Absent = Absent
  Folder = Folder
  Opaque = Opaque
  NotTaken = NotTaken
  Files <- MCFiles
  Contents <- MCText
  Size <- MCSize
  Binary = {}
  MaxTurns = 2
  MaxBytes = 4
  MaxFileBytes = 2
  MaxBatch = 1
  TurnLimit = 3
  Faults = {"error"}
PROPERTY LastTurnCanBeUndone
CHECK_DEADLOCK FALSE
