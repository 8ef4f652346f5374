SPECIFICATION Spec
CONSTANTS
  f1 = f1
  f2 = f2
  text = text
  blob = blob
  Absent = Absent
  Folder = Folder
  Opaque = Opaque
  NotTaken = NotTaken
  Files <- MCFiles
  Contents <- MCText
  Size <- MCSize
  Binary = {}
  MaxTurns = 1
  MaxBytes = 3
  MaxFileBytes = 2
  MaxBatch = 2
  TurnLimit = 1
  Faults = {"read", "torn", "outside", "rename", "off"}
SYMMETRY Symmetry
INVARIANT CheckpointSound
CHECK_DEADLOCK FALSE
