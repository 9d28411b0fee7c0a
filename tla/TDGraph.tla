------------------------------ MODULE TDGraph ------------------------------
(***************************************************************************)
(* The edge operations of libtdg's Graph (src/graph.cc), as executed by    *)
(* concurrent worker threads.                                              *)
(*                                                                         *)
(* Each Node owns two vectors of Edge*, _exitEdges and _entryEdges, each   *)
(* guarded by its own std::mutex.  An edge <<s, t>> is pushed to s's exits *)
(* and t's entries.  The vectors are abstracted to multiplicities:         *)
(* exits[s][t] is the number of Edge* in s->_exitEdges whose target is t,  *)
(* entries[t][s] the number in t->_entryEdges whose source is s.  Erasing  *)
(* the first matching element of a vector decrements the multiplicity;     *)
(* the position of edges in the vectors is left out.                       *)
(*                                                                         *)
(* A thread makes at most MaxOps calls, each connect or disconnect of a    *)
(* pair it may use (Owns(th)).  A call is split into the steps between     *)
(* which another thread can act: one step per lock-protected section.      *)
(***************************************************************************)
EXTENDS Naturals, FiniteSets, GraphCalls

CONSTANTS Threads,     \* worker threads
          Nodes,       \* graph vertices
          Owns(_),     \* Owns(th): the pairs th connects and disconnects
          MaxOps,      \* bound on the calls each thread makes
          None         \* no thread / no call

ASSUME None \notin Threads
ASSUME MaxOps \in Nat

VARIABLES exits,          \* exits[s][t]: multiplicity of s->t in s's exits
          entries,        \* entries[t][s]: multiplicity of s->t in t's entries
          exitsMutex,     \* holder of Node::_exitsMutex of each node
          entriesMutex,   \* holder of Node::_entriesMutex of each node
          pc,             \* where each thread is in its current call
          call,           \* the call each thread is executing
          opsDone         \* calls each thread has completed

vars == <<exits, entries, exitsMutex, entriesMutex, pc, call, opsDone>>

Pcs == {"idle", "conn_lock_exits", "conn_lock_entries", "conn_push", "disc_entries"}

Free(m, n) == m[n] = None

Acquire(m, n, th) == [m EXCEPT ![n] = th]

Release(m, n) == [m EXCEPT ![n] = None]

Inc(f, a, b) == [f EXCEPT ![a][b] = @ + 1]

\* Erase the first matching element, if any (std::vector::erase in the loop).
EraseFirst(f, a, b) == [f EXCEPT ![a][b] = IF @ > 0 THEN @ - 1 ELSE 0]

Init ==
    /\ exits = [s \in Nodes |-> [t \in Nodes |-> 0]]
    /\ entries = [t \in Nodes |-> [s \in Nodes |-> 0]]
    /\ exitsMutex = [n \in Nodes |-> None]
    /\ entriesMutex = [n \in Nodes |-> None]
    /\ pc = [th \in Threads |-> "idle"]
    /\ call = [th \in Threads |-> None]
    /\ opsDone = [th \in Threads |-> 0]

CanCall(th) == pc[th] = "idle" /\ opsDone[th] < MaxOps

Finish(th) ==
    /\ pc' = [pc EXCEPT ![th] = "idle"]
    /\ opsDone' = [opsDone EXCEPT ![th] = @ + 1]

-----------------------------------------------------------------------------
(* Graph::connectNodes(source, target)                                     *)

\* Faulty variant (connect without the isConnectedWith guard).
isConnectedWithSkipped(th, s, t) ==
    /\ CanCall(th)
    /\ <<s, t>> \in Owns(th)
    /\ Free(exitsMutex, s)
    /\ pc' = [pc EXCEPT ![th] = "conn_lock_exits"]
    /\ call' = [call EXCEPT ![th] = [op |-> "connect", src |-> s, tgt |-> t]]
    /\ UNCHANGED <<exits, entries, exitsMutex, entriesMutex, opsDone>>

\* The guard `if (!source->isConnectedWith(target))`: Node::isConnectedWith
\* scans source's exits under its exits mutex and releases it again.  A
\* present edge ends the call.
isConnectedWith(th, s, t) ==
    /\ CanCall(th)
    /\ <<s, t>> \in Owns(th)
    /\ Free(exitsMutex, s)
    /\ call' = [call EXCEPT ![th] = [op |-> "connect", src |-> s, tgt |-> t]]
    /\ IF exits[s][t] > 0
         THEN Finish(th)
         ELSE /\ pc' = [pc EXCEPT ![th] = "conn_lock_exits"]
              /\ UNCHANGED opsDone
    /\ UNCHANGED <<exits, entries, exitsMutex, entriesMutex>>

\* source->getExitsMutex().lock()
ConnectLockExits(th) ==
    LET s == call[th].src IN
    /\ pc[th] = "conn_lock_exits"
    /\ Free(exitsMutex, s)
    /\ exitsMutex' = Acquire(exitsMutex, s, th)
    /\ pc' = [pc EXCEPT ![th] = "conn_lock_entries"]
    /\ UNCHANGED <<exits, entries, entriesMutex, call, opsDone>>

\* Faulty variant (target->getExitsMutex() locked instead of its entries).
ConnectLockWrongMutex(th) ==
    LET t == call[th].tgt IN
    /\ pc[th] = "conn_lock_entries"
    /\ Free(exitsMutex, t)
    /\ exitsMutex' = Acquire(exitsMutex, t, th)
    /\ pc' = [pc EXCEPT ![th] = "conn_push"]
    /\ UNCHANGED <<exits, entries, entriesMutex, call, opsDone>>

\* target->getEntriesMutex().lock(), taken while holding source's exits.
ConnectLockEntries(th) ==
    LET t == call[th].tgt IN
    /\ pc[th] = "conn_lock_entries"
    /\ Free(entriesMutex, t)
    /\ entriesMutex' = Acquire(entriesMutex, t, th)
    /\ pc' = [pc EXCEPT ![th] = "conn_push"]
    /\ UNCHANGED <<exits, entries, exitsMutex, call, opsDone>>

\* Faulty variant (the source's exits mutex is never unlocked).
ConnectPushNoUnlock(th) ==
    LET s == call[th].src
        t == call[th].tgt
    IN
    /\ pc[th] = "conn_push"
    /\ exits' = Inc(exits, s, t)
    /\ entries' = Inc(entries, t, s)
    /\ entriesMutex' = Release(entriesMutex, t)
    /\ Finish(th)
    /\ UNCHANGED <<exitsMutex, call>>

\* Both push_backs and both unlocks: no other thread can observe either
\* vector between them, since both mutexes are held.
ConnectPush(th) ==
    LET s == call[th].src
        t == call[th].tgt
    IN
    /\ pc[th] = "conn_push"
    /\ exits' = Inc(exits, s, t)
    /\ entries' = Inc(entries, t, s)
    /\ entriesMutex' = Release(entriesMutex, t)
    /\ exitsMutex' = Release(exitsMutex, s)
    /\ Finish(th)
    /\ UNCHANGED <<call>>

-----------------------------------------------------------------------------
(* Graph::disconnectNodes(source, target)                                  *)

\* Faulty variant (erases without the `getTarget() == target` match found).
DisconnectExitsUnchecked(th, s, t) ==
    /\ CanCall(th)
    /\ <<s, t>> \in Owns(th)
    /\ Free(exitsMutex, s)
    /\ exits' = [exits EXCEPT ![s][t] = @ - 1]
    /\ pc' = [pc EXCEPT ![th] = "disc_entries"]
    /\ call' = [call EXCEPT ![th] = [op |-> "disconnect", src |-> s, tgt |-> t]]
    /\ UNCHANGED <<entries, exitsMutex, entriesMutex, opsDone>>

\* First critical section: erase the first exit edge of source whose
\* target is target, under source's exits mutex.
DisconnectExits(th, s, t) ==
    /\ CanCall(th)
    /\ <<s, t>> \in Owns(th)
    /\ Free(exitsMutex, s)
    /\ exits' = EraseFirst(exits, s, t)
    /\ pc' = [pc EXCEPT ![th] = "disc_entries"]
    /\ call' = [call EXCEPT ![th] = [op |-> "disconnect", src |-> s, tgt |-> t]]
    /\ UNCHANGED <<entries, exitsMutex, entriesMutex, opsDone>>

\* Faulty variant (the entries loop matches getSource() against target).
DisconnectEntriesSwapped(th) ==
    LET s == call[th].src
        t == call[th].tgt
    IN
    /\ pc[th] = "disc_entries"
    /\ Free(entriesMutex, t)
    /\ entries' = EraseFirst(entries, t, t)
    /\ Finish(th)
    /\ UNCHANGED <<exits, exitsMutex, entriesMutex, call>>

\* Second critical section, after the exits mutex was released: erase the
\* first entry edge of target whose source is source.
DisconnectEntries(th) ==
    LET s == call[th].src
        t == call[th].tgt
    IN
    /\ pc[th] = "disc_entries"
    /\ Free(entriesMutex, t)
    /\ entries' = EraseFirst(entries, t, s)
    /\ Finish(th)
    /\ UNCHANGED <<exits, exitsMutex, entriesMutex, call>>

-----------------------------------------------------------------------------

\* Every thread has made all its calls: the program stops here.
Terminated ==
    /\ \A th \in Threads : pc[th] = "idle" /\ opsDone[th] = MaxOps
    /\ UNCHANGED vars

Next ==
    \/ \E th \in Threads :
          \/ \E s, t \in Nodes : isConnectedWith(th, s, t) \/ DisconnectExits(th, s, t)
          \/ ConnectLockExits(th)
          \/ ConnectLockEntries(th)
          \/ ConnectPush(th)
          \/ DisconnectEntries(th)
    \/ Terminated

\* A std::mutex is not fair, but every thread makes finitely many calls, so
\* a mutex some thread waits for is eventually free for good: weak fairness
\* of each thread's steps is enough.
Fairness ==
    \A th \in Threads :
        /\ WF_vars(ConnectLockExits(th))
        /\ WF_vars(ConnectLockEntries(th))
        /\ WF_vars(ConnectPush(th))
        /\ WF_vars(DisconnectEntries(th))

Spec == Init /\ [][Next]_vars /\ Fairness

-----------------------------------------------------------------------------
(* Properties                                                              *)

TypeOK ==
    /\ exits \in [Nodes -> [Nodes -> 0..Cardinality(Threads) * MaxOps]]
    /\ entries \in [Nodes -> [Nodes -> 0..Cardinality(Threads) * MaxOps]]
    /\ exitsMutex \in [Nodes -> Threads \cup {None}]
    /\ entriesMutex \in [Nodes -> Threads \cup {None}]
    /\ pc \in [Threads -> Pcs]
    /\ call \in [Threads -> CallSet(Nodes) \cup {None}]
    /\ opsDone \in [Threads -> 0..MaxOps]

\* When no call is in progress, every edge is in both adjacency lists the
\* same number of times: connectNodes and disconnectNodes never leave a
\* one-sided edge behind.
Quiescent == \A th \in Threads : pc[th] = "idle"

NoOneSidedEdge ==
    Quiescent => \A s, t \in Nodes : exits[s][t] = entries[t][s]

\* The steps of a call in progress.
InCall(th) ==
    \/ ConnectLockExits(th)
    \/ ConnectLockEntries(th)
    \/ ConnectPush(th)
    \/ DisconnectEntries(th)

\* Whenever calls are in progress, one of them can take its next step: the
\* fixed order of connectNodes (source's exits mutex, then target's entries
\* mutex) and disconnectNodes holding one mutex at a time rule out a
\* circular wait between threads.
NoDeadlock ==
    (\E th \in Threads : pc[th] # "idle") =>
        \E th \in Threads : pc[th] # "idle" /\ ENABLED InCall(th)

\* Every call that starts returns (no thread is blocked forever).
CallsReturn ==
    \A th \in Threads : pc[th] # "idle" ~> pc[th] = "idle"

\* The pending call of a thread, as AbstractGraph sees it: a connect that
\* passed its check and has not pushed yet.  A disconnect takes effect at
\* its exits erase, a connect that finds the edge at its check; taken
\* counts the calls of a thread that have taken effect.
AbstractPending ==
    [th \in Threads |->
        IF pc[th] \in {"conn_lock_exits", "conn_lock_entries", "conn_push"}
        THEN call[th] ELSE None]

Abstract == INSTANCE AbstractGraph WITH
    edges <- {<<s, t>> \in Nodes \X Nodes : exits[s][t] > 0},
    apending <- AbstractPending,
    acall <- call,
    taken <- [th \in Threads |->
                 opsDone[th] + (IF pc[th] = "disc_entries" THEN 1 ELSE 0)]

\* The exits lists, read as a set of edges, behave like a graph in which
\* each call takes effect atomically between its invocation and return.
Linearizable == Abstract!Spec
=============================================================================
