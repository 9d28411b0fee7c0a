CONSTANTS
    Times = {0, 1, 2, 3}
    MaxNodes = 4
SPECIFICATION Spec
INVARIANTS
    TypeOK
    OrderStatsPrinted
    MomentsPrinted
