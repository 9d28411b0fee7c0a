CONSTANTS
    None = None
    MaxTeam = 2
    RequestSizes = {2}
    TeamSizes <- FullTeam
    NBarriers = 1
SPECIFICATION Spec
INVARIANT NoUseAfterFree
