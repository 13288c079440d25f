SPECIFICATION Spec
CONSTANTS
    Files = {1, 2}
    Jobs = {1, 2}
    Fsync = FALSE
    MaxCalls = 2
    MaxFaults = 1
INVARIANTS TypeOK NoLostUpdate ResultIsTrue NoCircularWait
CHECK_DEADLOCK FALSE
