CONSTANTS
    NThreads = 3
    TeamSizes = {2, 3}
    MaxRegions = 2
    MaxLoops = 2
SPECIFICATION Spec
INVARIANT LoopCounterAgrees
