CONSTANTS
    Reads = {r}
    Edits = {e}
    Commands = {c}
    External = {r}
    Unsafe = {c}
    Concurrency = 2
    MaxCalls = 3
    MaxPrompts = 2
    r = r
    e = e
    c = c
SPECIFICATION Spec
INVARIANTS
    TypeOK
    Scheduled
    OutcomesPaired
    DeniedHasNoEffect
    EditsWhole
PROPERTIES
    CancelledBatchEnds
CHECK_DEADLOCK FALSE
