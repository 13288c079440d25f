CONSTANTS
    KeepMessages = 4
    PruneBuffer = 1
    EmergencyKeep = 4
    SaveEvery = 2
    MaxPrompts = 2
    MaxReplies = 2
    MaxCalls = 2
    MaxNotes = 1
    MaxRestarts = 1
    MaxUndos = 1
SPECIFICATION Spec
INVARIANTS
    TypeOK
    CallsPaired
    CrashLosesLittle
PROPERTIES
    TruncationProgress
CHECK_DEADLOCK FALSE
