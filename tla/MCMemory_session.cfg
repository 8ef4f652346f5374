SPECIFICATION MemorySpec
CONSTANTS
  KeepMessages = 2
  Contexts = {"hook"}
  CvRestarts = {"resume"}
  CompactLimit = 1
  RoundLimit = 2
  WordLimit = 3
  FileLimit = 3
  PmNames = {"f"}
  PmTexts <- TextsOfTree
  MaxIndexed = 5
  MaxSeconds = 2
  NoIndex = NoIndex
  TornIndex = TornIndex
  PmUsers = {u1, u2}
  MaxNotes = 3
  PmEnd = 0
  CfProcs = {p1, p2}
  CfBackends = {b1, b2}
  CfModes = {"explore"}
  CfPolicies = {"always"}
  Unset = Unset
  Broken = Broken
  MaxTurns = 3
  Handles = {h1}
  MaxStaged = 2
  MaxPrompts = 2
  Slash = "/"
  Space = " "
  Letters = {"a"}
  LeCommands <- Commands
  MaxLine = 2
  MaxKept = 2
  MaxLines = 2
  MaxRows = 3
  MaxDigit = 4
  MaxOptions = 5
  MaxKeys = 5
  Pieces <- PiecesOf
  MaxPieces = 4
  Width = 3
  MaxWrapped = 6
  MaxCalls = 2
  MaxShown = 5
  RqBackends = {"openai", "anthropic", "codex"}
  MaxSteps = 2
  MaxBatches = 2
  Models = {"m", "down"}
  Refused = {"down"}
  MaxSandboxes = 1
  MaxStack = 1
  MaxOwnEdits = 1
  SkillFiles <- SkillPlaces
  PromptNames = {"n"}
  OddNames = {"odd name"}
  Templates <- TemplatesOf
  HoleNames = {"x", "y"}
  Manifests <- Offers
  BuiltInCommands = {"/help"}
  HookGroups <- GroupsOf
  Never = Never
INVARIANTS HistoryKept  HostTurnsEnd StagingHolds EditorSound ViewSound RequestsSound ResourcesSound
PROPERTIES  PlaySound
CHECK_DEADLOCK FALSE
