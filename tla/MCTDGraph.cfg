CONSTANTS
    t1 = t1
    t2 = t2
    t3 = t3
    a = a
    b = b
    c = c
    None = None
    Threads = {t1, t2, t3}
    Nodes = {a, b, c}
    Owns <- DistinctPairs
    MaxOps = 3
SPECIFICATION Spec
INVARIANTS
    TypeOK
    NoOneSidedEdge
    NoDeadlock
PROPERTIES
    CallsReturn
    Linearizable
