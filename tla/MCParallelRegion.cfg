CONSTANTS
    None = None
    MaxTeam = 3
    RequestSizes = {1, 3}
    TeamSizes <- FullTeam
    NBarriers = 2
SPECIFICATION Spec
INVARIANTS
    TypeOK
    Acyclic
    BarrierMerge
    NoDanglingNode
    SinkJoinsRegion
PROPERTIES
    RegionCompletes
