SPECIFICATION AnswersSpec
CONSTANTS
  KeepMessages = 2
  Contexts = {"map"}
  CvRestarts = {"resume", "continue"}
  CompactLimit = 1
  RoundLimit = 1
  WordLimit = 3
  FileLimit = 3
  CallIds = {c1, c2}
  MaxLen = 6
  Keeps = {1, 2, 3}
  WireForms = {"chat", "anthropic", "codex", "bare"}
  MaxCalls = 2
  MaxParts = 2
  SaidTexts = {"none", "plain", "json"}
  ApTools = {"file_write", "file_read", "apply_patch", "shell", "verify"}
  Outside = {"out"}
  Inside = {"in", "ls"}
  Harmless = {"ls"}
  MaxAsked = 2
  MaxNew = 1
  Paths = {1, 2}
  FtTexts <- TextsOfFiles
  FtCalls <- CallsOfModel
  Missing = missing
  Bad = bad
  MaxRun = 2
  MaxSaves = 1
  PyTests = {"test_a.py", "test_b.py"}
  RsTests = {"tests/a.rs"}
  Others = {"a.py", "lib/b.rs"}
  Unwritten = {"test_b.py"}
  Named <- NamedFiles
  Below <- BelowFiles
  Covers <- CoveredFiles
  MaxChanges = 1
  Weights <- RubricWeights
  PassAt = 7
  Limits = {4, 7, 9, 12}
  Marker = 2
  Locals = {"llamacpp"}
  Clouds = {"openrouter"}
  Keyed = {"openrouter"}
  Models = {"small", "big"}
  Params <- TriedParams
  Bits <- TriedBits
  FileName <- FileOfModel
  UsualModel <- UsualOf
  Sizes <- RankedSizes
  Finds <- ProbeFinds
  Speeds <- BenchSpeeds
  MemorySizes = {0, 8, 16, 24, 32, 64}
  MaxCommands = 2
  MaxKills = 1
  LgSessions = {here, there}
  LgModels = {"unpriced", "priced"}
  CostOf <- Prices
  MaxEvents = 3
  MaxRoutes = 2
  MaxLost = 1
  NoRoute = NoRoute
SYMMETRY Interchangeable
INVARIANTS TranscriptKept CutsSound StreamSound FilesSound VerdictsSound  
 
CHECK_DEADLOCK FALSE
