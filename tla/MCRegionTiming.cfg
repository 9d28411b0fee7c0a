CONSTANTS
    e1 = e1
    e2 = e2
    NThreads = 2
    Explicit = {e1, e2}
    NBarriers = 2
    MaxTime = 2
    InBarrierTasks = FALSE
SYMMETRY TaskSymmetry
SPECIFICATION Spec
INVARIANTS
    TypeOK
    ThreadTimeAccounted
    RegistryTime
    CriticalPathWithinElapsed
