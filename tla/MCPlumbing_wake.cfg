SPECIFICATION PlumbingSpec
CONSTANTS
  Streams = {"s1", "s2"}
  Shells = {"c1"}
  Calls = {"c1"}
  Hello = "hello"
  List = "list"
  Nobody = "nobody"
  PipeRoom = 1
  HookCount = 2
  MaxConcurrent = 2
  HookEvents = {"PreToolUse"}
  Printed = {"rewrite"}
  ExitCodes = {"two", "infra"}
  MaxOutput = 1
INVARIANTS RpcSound HooksSound ShellSound
PROPERTY PlumbingEnds
CHECK_DEADLOCK FALSE
