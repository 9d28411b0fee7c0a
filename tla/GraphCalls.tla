----------------------------- MODULE GraphCalls -----------------------------
(***************************************************************************)
(* Calls of the Graph's edge interface, as records, and their effect on a  *)
(* set of edges.  Shared by AbstractGraph and the detailed specifications. *)
(***************************************************************************)

CallSet(N) == [op : {"connect", "disconnect"}, src : N, tgt : N]

ApplyCall(E, c) ==
    IF c.op = "connect" THEN E \cup {<<c.src, c.tgt>>}
                        ELSE E \ {<<c.src, c.tgt>>}
=============================================================================
