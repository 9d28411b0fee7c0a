CONSTANTS
    None = None
    MaxTeam = 2
    RequestSizes = {2}
    TeamSizes <- AnyTeam
    NBarriers = 2
SPECIFICATION Spec
INVARIANT Acyclic
