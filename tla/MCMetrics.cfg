CONSTANTS
    Ids = {0, 1, 2, 3}
    Times = {0, 1, 2}
    EnvValues <- AllMetrics
    ChunkIds = {2, 3}
SPECIFICATION Spec
INVARIANTS TypeOK TopoLeveled CriticalPathReported CriticalPathFlagged
