----------------------------- MODULE MCTDGraph -----------------------------
(***************************************************************************)
(* Model-checking instances of TDGraph.                                    *)
(***************************************************************************)
EXTENDS TDGraph

CONSTANTS t1, t2, t3, a, b, c

\* As the callbacks use the Graph: each pair has one calling thread, but
\* threads share endpoints (a fan-in on b, a fan-out from a) and one pair
\* is the reverse of another.
DistinctPairs(th) ==
    CASE th = t1 -> {<<a, b>>, <<a, c>>}
      [] th = t2 -> {<<c, b>>, <<b, a>>}
      [] th = t3 -> {<<b, c>>}

=============================================================================
