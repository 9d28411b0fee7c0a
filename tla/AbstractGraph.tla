--------------------------- MODULE AbstractGraph ---------------------------
(***************************************************************************)
(* What libtdg's Graph promises its callers about edges (graph.h,          *)
(* Graph::connectNodes / Graph::disconnectNodes): the edge relation is a   *)
(* set of ordered pairs; each call of a thread takes effect at one instant *)
(* between its invocation and its return; connect of a present pair and    *)
(* disconnect of an absent pair are no-ops.                                *)
(***************************************************************************)
EXTENDS Naturals, GraphCalls

CONSTANTS Threads, Nodes, None

VARIABLES edges,     \* the set of pairs <<s, t>> that are edges
          apending,  \* per thread, the call made but not yet in effect
          taken,     \* per thread, the number of its calls now in effect
          acall      \* per thread, the call it made last

vars == <<edges, apending, taken, acall>>

Init ==
    /\ edges = {}
    /\ apending = [th \in Threads |-> None]
    /\ taken = [th \in Threads |-> 0]
    /\ acall = [th \in Threads |-> None]

\* A call is made; its effect comes later, at Take.
Begin(th, c) ==
    /\ apending[th] = None
    /\ apending' = [apending EXCEPT ![th] = c]
    /\ acall' = [acall EXCEPT ![th] = c]
    /\ UNCHANGED <<edges, taken>>

\* The pending call of th takes effect.
Take(th) ==
    /\ apending[th] # None
    /\ edges' = ApplyCall(edges, apending[th])
    /\ apending' = [apending EXCEPT ![th] = None]
    /\ taken' = [taken EXCEPT ![th] = @ + 1]
    /\ UNCHANGED acall

\* A call that takes effect at the instant it is made.
Atomic(th, c) ==
    /\ apending[th] = None
    /\ edges' = ApplyCall(edges, c)
    /\ taken' = [taken EXCEPT ![th] = @ + 1]
    /\ acall' = [acall EXCEPT ![th] = c]
    /\ UNCHANGED apending

Next ==
    \E th \in Threads :
        \/ \E c \in CallSet(Nodes) : Begin(th, c) \/ Atomic(th, c)
        \/ Take(th)

Spec == Init /\ [][Next]_vars
=============================================================================
