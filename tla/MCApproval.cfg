CONSTANTS
    MaxCalls = 2
    MaxKeys = 4
    None = None
SPECIFICATION Spec
INVARIANTS
    TypeOK
PROPERTIES
    DecisionOnScreen
    RefusedOnlyByLeftover
    Settles
CHECK_DEADLOCK FALSE
