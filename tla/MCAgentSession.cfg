CONSTANTS
    Texts = {"a", "b"}
    Tasks = {1, 2}
    Cleanups = {}
    MaxSubmits = 4
    MaxRetries = 2
    MaxTurns = 2
    MaxQueue = 2
    NoTask = NoTask
    NoMessage = NoMessage
SPECIFICATION Spec
INVARIANTS
    TypeOK
    OneLiveTask
    PromptsAccounted
CHECK_DEADLOCK FALSE
