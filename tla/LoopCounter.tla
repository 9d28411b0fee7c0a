---------------------------- MODULE LoopCounter ----------------------------
(***************************************************************************)
(* ThreadData::_loopCounter (src/callbacks.cc): each OpenMP thread counts  *)
(* the worksharing loops it has finished, and every chunk node it creates  *)
(* records the count (Node::setLoopCounter), which LogFileMetric prints to *)
(* tell the loops apart.                                                   *)
(*                                                                         *)
(* cb_thread_begin sets the count to 0, cb_ext_loop end increments it,     *)
(* cb_ext_chunk stamps chunk nodes with it, cb_thread_end frees it.  The   *)
(* runtime is the environment: a parallel region of team size k runs on    *)
(* threads 0 .. k-1 of its pool (thread 0 the initial thread), and every   *)
(* team thread runs each of the region's loops.                            *)
(***************************************************************************)
EXTENDS Integers, FiniteSets

CONSTANTS NThreads,     \* threads of the runtime's pool
          TeamSizes,    \* team sizes the program's regions get
          MaxRegions,   \* parallel regions the program runs
          MaxLoops      \* worksharing loops in a region

ASSUME TeamSizes \subseteq 1 .. NThreads /\ MaxRegions \in Nat /\ MaxLoops \in Nat

Threads == 0 .. NThreads - 1
NULL == -1

VARIABLES
    loopCounter,   \* ThreadData::_loopCounter of each thread, NULL if none
    region,        \* regions begun
    team,          \* the current region's threads, {} outside a region
    nLoops,        \* loops of the current region
    loopsDone,     \* loops each thread has finished in the current region
    inLoop,        \* the thread is between cb_ext_loop begin and end
    chunkLog       \* chunk nodes: the loop they belong to and their count

vars == <<loopCounter, region, team, nLoops, loopsDone, inLoop, chunkLog>>

Init ==
    /\ loopCounter = [t \in Threads |-> NULL]
    /\ region = 0
    /\ team = {}
    /\ nLoops = 0
    /\ loopsDone = [t \in Threads |-> 0]
    /\ inLoop = [t \in Threads |-> FALSE]
    /\ chunkLog = {}

\* cb_thread_begin: a new ThreadData with _loopCounter 0.  The PAPI event
\* set it also creates (exiting the process on a PAPI error) is left out.
ThreadBegin(t) ==
    /\ loopCounter[t] = NULL
    /\ region < MaxRegions
    /\ loopCounter' = [loopCounter EXCEPT ![t] = 0]
    /\ UNCHANGED <<region, team, nLoops, loopsDone, inLoop, chunkLog>>

\* The runtime starts a region of k threads running L loops.
ParallelBegin(k, L) ==
    /\ team = {}
    /\ region < MaxRegions
    /\ \A t \in 0 .. k - 1 : loopCounter[t] # NULL
    /\ region' = region + 1
    /\ team' = 0 .. k - 1
    /\ nLoops' = L
    /\ loopsDone' = [t \in Threads |-> 0]
    /\ UNCHANGED <<loopCounter, inLoop, chunkLog>>

\* cb_ext_loop begin.
LoopBegin(t) ==
    /\ t \in team
    /\ ~inLoop[t]
    /\ loopsDone[t] < nLoops
    /\ inLoop' = [inLoop EXCEPT ![t] = TRUE]
    /\ UNCHANGED <<loopCounter, region, team, nLoops, loopsDone, chunkLog>>

\* cb_ext_chunk with last_chunk unset: a chunk node stamped with the
\* thread's _loopCounter.
Chunk(t) ==
    /\ inLoop[t]
    /\ chunkLog' = chunkLog \cup {[loop |-> <<region, loopsDone[t]>>,
                                   counter |-> loopCounter[t]]}
    /\ UNCHANGED <<loopCounter, region, team, nLoops, loopsDone, inLoop>>

\* Mutant: only the master thread counts its loops.
LoopEndMasterOnly(t) ==
    /\ inLoop[t]
    /\ inLoop' = [inLoop EXCEPT ![t] = FALSE]
    /\ loopsDone' = [loopsDone EXCEPT ![t] = @ + 1]
    /\ loopCounter' = IF t = 0 THEN [loopCounter EXCEPT ![t] = @ + 1]
                      ELSE loopCounter
    /\ UNCHANGED <<region, team, nLoops, chunkLog>>

\* cb_ext_loop end: ++_loopCounter; _curr_ws_data is deleted and reset.
LoopEnd(t) ==
    /\ inLoop[t]
    /\ inLoop' = [inLoop EXCEPT ![t] = FALSE]
    /\ loopsDone' = [loopsDone EXCEPT ![t] = @ + 1]
    /\ loopCounter' = [loopCounter EXCEPT ![t] = @ + 1]
    /\ UNCHANGED <<region, team, nLoops, chunkLog>>

\* The region ends when every team thread has run its loops.
ParallelEnd ==
    /\ team # {}
    /\ \A t \in team : loopsDone[t] = nLoops /\ ~inLoop[t]
    /\ team' = {}
    /\ UNCHANGED <<loopCounter, region, nLoops, loopsDone, inLoop, chunkLog>>

\* cb_thread_end at program end: the ThreadData is deleted (the PAPI event
\* set's cleanup before it is left out).
ThreadEnd(t) ==
    /\ region = MaxRegions
    /\ team = {}
    /\ loopCounter[t] # NULL
    /\ loopCounter' = [loopCounter EXCEPT ![t] = NULL]
    /\ UNCHANGED <<region, team, nLoops, loopsDone, inLoop, chunkLog>>

Terminated ==
    /\ region = MaxRegions
    /\ team = {}
    /\ \A t \in Threads : loopCounter[t] = NULL
    /\ UNCHANGED vars

Next ==
    \/ \E t \in Threads :
          ThreadBegin(t) \/ LoopBegin(t) \/ Chunk(t) \/ LoopEnd(t) \/ ThreadEnd(t)
    \/ \E k \in TeamSizes, L \in 1 .. MaxLoops : ParallelBegin(k, L)
    \/ ParallelEnd
    \/ Terminated

Spec == Init /\ [][Next]_vars

-----------------------------------------------------------------------------
(* Properties                                                              *)

\* The comment at cb_ext_loop's ++_loopCounter: each thread increases the
\* counter independently, "so the value should be the same for each
\* thread": chunk nodes of one loop, whichever threads ran them, carry one
\* count, and chunk nodes of different loops carry different counts.
LoopCounterAgrees ==
    \A c1, c2 \in chunkLog : (c1.loop = c2.loop) <=> (c1.counter = c2.counter)
=============================================================================
