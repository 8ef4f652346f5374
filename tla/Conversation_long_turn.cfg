SPECIFICATION CvSpec
CONSTANTS
  KeepMessages = 2
  Contexts = {}
  CvRestarts = {"resume"}
  CompactLimit = 2
  RoundLimit = 2
  WordLimit = 1
  FileLimit = 2
INVARIANTS NothingForgotten
CHECK_DEADLOCK FALSE
