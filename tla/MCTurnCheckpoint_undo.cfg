SPECIFICATION Spec
CONSTANTS
  f1 = f1
  f2 = f2
  text = text
  blob = blob
  Absent = Absent
  Folder = Folder
  Opaque = Opaque
  NotTaken = NotTaken
  Files <- MCFiles
  Contents <- MCAll
  Size <- MCSize
  Binary <- MCBinary
  MaxTurns = 2
  MaxBytes = 4
  MaxFileBytes = 2
  MaxBatch = 1
  TurnLimit = 3
  Faults = {"restore", "error", "hidden", "off"}
SYMMETRY Symmetry
INVARIANTS StackRewinds WithinBounds
CHECK_DEADLOCK FALSE
