CONSTANTS
    NThreads = 3
    TeamSizes = {3}
    MaxRegions = 2
    MaxLoops = 2
SPECIFICATION Spec
INVARIANTS
    LoopCounterAgrees
