--------------------------- MODULE MCRegionTiming ---------------------------
EXTENDS RegionTiming, TLC

CONSTANTS e1, e2

TaskSymmetry == Permutations({e1, e2})
=============================================================================
