SPECIFICATION CommandsSpec
CONSTANTS
  TaskCount = 3
  MaxFaults = 1
  MaxRounds = 4
  Pass = 1
  Budget = 4
  TurnCosts = {1}
  Diffs = {1, 2}
  Backends = {"local", "cloud"}
  OpenBackends = {"local"}
  Router = "cloud"
  Names = {"a", "b"}
  FusionName = "fusion"
  Default = ""
  MaxRoutes = 1
  Tools = {"update_plan", "missing", "task", "shell"}
  HookEvents = {"PlanUpdated", "SubagentStart", "SubagentStop", "PostToolUse"}
  HasProvider = FALSE
  Capturing = FALSE
  Guarded = FALSE
  KeepMessages = 4
  MaxSteps = 2
  MaxCalls = 2
  Earlier <- OneExchange
  
PROPERTIES ModelSound CommandsEnd
CHECK_DEADLOCK FALSE
