-------------------------- MODULE MCParallelRegion --------------------------
(***************************************************************************)
(* Model-checking instances of ParallelRegion.                             *)
(***************************************************************************)
EXTENDS ParallelRegion

\* The runtime starts as many threads as requested.
FullTeam(r) == {r}

\* The runtime may start fewer threads than requested (thread limits,
\* dynamic adjustment, nested regions).
AnyTeam(r) == 1 .. r
=============================================================================
