CONSTANTS
    Texts = {"a"}
    Tasks = {1, 2}
    Cleanups = {1, 2}
    MaxSubmits = 2
    MaxRetries = 0
    MaxTurns = 1
    MaxQueue = 1
    NoTask = NoTask
    NoMessage = NoMessage
SPECIFICATION FairSpec
PROPERTIES
    BecomesIdle
CHECK_DEADLOCK FALSE
