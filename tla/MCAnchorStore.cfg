CONSTANTS
    Managers = {m1, m2}
    Texts = {x, y}
    MaxTracked = 2
    MaxLines = 3
    MaxOps = 2
    MaxFaults = 1
    NoDoc = NoDoc
    Unloaded = Unloaded
    Right = Right
    NoAnchor = NoAnchor
    Idle = Idle
SYMMETRY Symmetry
SPECIFICATION AnchorSpec
INVARIANTS AnchorTypeOK RightLine
PROPERTIES GenerationsGrow
CHECK_DEADLOCK FALSE
