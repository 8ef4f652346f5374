SPECIFICATION Spec
CONSTANTS
    Files = {"f"}
    Contents = {"empty", "a", "big"}
    Empty = "empty"
    Binary = {}
    Unfit = {"big"}
    Absent = "absent"
    Opaque = "opaque"
    NoKey = "nokey"
    Paths = {"main", "p", "q"}
    Main = "main"
    NoPath = "nopath"
    MaxPaths = 3
    Restarts = TRUE
    Compacts = TRUE
    TurnLimit = 2
PROPERTIES KeepsWorlds PathsSound
