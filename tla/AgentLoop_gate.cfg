SPECIFICATION Spec
CONSTANTS
  Tools = {"file_read", "file_write", "task"}
  HookEvents = {"PreToolUse", "PermissionRequest", "SubagentStart", "PreCompact", "PostCompact"}
  HasProvider = TRUE
  Capturing = TRUE
  Guarded = TRUE
  KeepMessages = 4
  MaxSteps = 2
  MaxCalls = 2
  Earlier <- OneExchange
INVARIANTS LoopSound RequestsValid
PROPERTY KeepsGate
CHECK_DEADLOCK FALSE
