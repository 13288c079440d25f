CONSTANTS
    MaxChildren = 2
    MaxRuns = 2
    MaxCancels = 2
    None = None
SPECIFICATION ProcessSpec
INVARIANTS
    ProcessTypeOK
    NothingSurvives
    NeverStuck
CHECK_DEADLOCK FALSE
