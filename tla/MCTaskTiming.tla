---------------------------- MODULE MCTaskTiming ----------------------------
EXTENDS TaskTiming

CONSTANTS e1, e2

\* Explicit tasks are interchangeable until created.
TaskSymmetry == Permutations({e1, e2})
=============================================================================
