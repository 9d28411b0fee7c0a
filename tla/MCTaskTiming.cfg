CONSTANTS
    e1 = e1
    e2 = e2
    Explicit = {e1, e2}
    MaxLoops = 2
    MaxChunks = 3
    MaxTime = 2
    InLoopSwitch = FALSE
SPECIFICATION Spec
INVARIANTS
    TypeOK
    TimeAccounted
    FinalReachable
SYMMETRY TaskSymmetry
