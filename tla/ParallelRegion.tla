--------------------------- MODULE ParallelRegion ---------------------------
(***************************************************************************)
(* How libtdg's OMPT callbacks (src/callbacks.cc) build the task graph of  *)
(* one parallel region: the initial task, cb_parallel_begin, each team     *)
(* thread's cb_implicit_task begin, its NBarriers barriers                 *)
(* (cb_sync_region begin and end), its cb_implicit_task end, and the       *)
(* master's cb_parallel_end.                                               *)
(*                                                                         *)
(* Graph operations are atomic here: in this protocol each pair is         *)
(* connected or disconnected by one thread only, and for such callers      *)
(* TDGraph refines AbstractGraph.  Node timing (addTime, setLastTime) is   *)
(* left out; no property here reads it.                                    *)
(*                                                                         *)
(* The OpenMP runtime is the environment: a thread leaves barrier round r  *)
(* (its sync-region end callback) only after every team thread entered     *)
(* round r, and the master's cb_parallel_end follows its own implicit      *)
(* task end.  A worker's barrier-end and implicit-task-end callbacks may   *)
(* come after cb_parallel_end (TaskData copies the sink for that reason).  *)
(***************************************************************************)
EXTENDS Naturals, FiniteSets

CONSTANTS MaxTeam,         \* bound on the team size
          RequestSizes,    \* the requested_team_size values the program uses
          TeamSizes(_),    \* TeamSizes(r): team sizes the runtime gives for r
          NBarriers,       \* barriers each thread passes, the last one implicit
          None

ASSUME RequestSizes \subseteq 1 .. MaxTeam /\ NBarriers \in Nat \ {0}
ASSUME \A r \in RequestSizes : TeamSizes(r) \subseteq 1 .. r

Team == 0 .. MaxTeam - 1                \* thread_num of each possible thread

\* Ids: the root has id 0 (create_new_node with no parent passes gen_id
\* FALSE); every other node draws Node::nextId(), which starts at 1.  A
\* region creates the sink, one implicit-task node per thread, and per
\* barrier round one barrier node and one continuation per thread.
MaxId == 1 + MaxTeam + NBarriers * (MaxTeam + 1)
Ids == 0 .. MaxId

Types == {"ROOT_TASK", "IMP_TASK", "BARRIER"}

VARIABLES
    nextId,       \* Node::_nextId
    ntype,        \* type of every Node object ever allocated
    registry,     \* ids in Graph::_graphNodes
    freed,        \* ids of Node objects that were deleted
    edges,        \* the graph's edges
    par,          \* the ParallelRegionData object: "none", "live" or "freed"
    parSink,      \* par_info->_sink_node
    barrierCnt,   \* par_info->_barrier_cnt
    parBarrier,   \* par_info->_curr_barrier_node
    barrierMutex, \* holder of par_info->_barrier_mutex
    rootTask,     \* TaskData of the initial task: _curr_task_node
    finalNode,    \* g_finalNode
    requested,    \* par_info->_team_size (requested_team_size)
    teamSize,     \* threads the runtime started for the region
    pc,           \* per thread, the next callback step
    currTask,     \* per thread, TaskData::_curr_task_node
    currBarrier,  \* per thread, TaskData::_curr_barrier_node
    parLocal,     \* per thread, local par_info read at barrier end
    arrived,      \* per thread, barrier rounds entered
    newBarrier    \* per thread, the callback's local new_barrier

vars == <<nextId, ntype, registry, freed, edges, par, parSink, barrierCnt,
          parBarrier, barrierMutex, rootTask, finalNode, requested, teamSize,
          pc, currTask, currBarrier, parLocal, arrived, newBarrier>>

Pcs == {"task_create", "parallel_begin", "implicit_begin", "work",
        "barrier_count", "barrier_publish", "barrier_continue", "in_barrier", "barrier_end", "parallel_end",
        "done"}

Init ==
    /\ nextId = 1
    /\ ntype = [i \in Ids |-> None]
    /\ registry = {}
    /\ freed = {}
    /\ edges = {}
    /\ par = "none"
    /\ parSink = None
    /\ barrierCnt = 0
    /\ parBarrier = None
    /\ barrierMutex = None
    /\ rootTask = None
    /\ finalNode = None
    /\ requested = 0
    /\ teamSize = 0
    /\ pc = [t \in Team |-> IF t = 0 THEN "task_create" ELSE "implicit_begin"]
    /\ currTask = [t \in Team |-> None]
    /\ currBarrier = [t \in Team |-> None]
    /\ parLocal = [t \in Team |-> None]
    /\ arrived = [t \in Team |-> 0]
    /\ newBarrier = [t \in Team |-> FALSE]

-----------------------------------------------------------------------------
(* Node creation (create_clean_node, create_new_node) as operators on the  *)
(* next state: id is the new node's id.                                    *)

\* create_clean_node(type, gen_id): allocate, draw an id if gen_id, addNode.
CreateClean(id, type, genId) ==
    /\ id = IF genId THEN nextId ELSE 0
    /\ nextId' = IF genId THEN nextId + 1 ELSE nextId
    /\ ntype' = [ntype EXCEPT ![id] = type]
    /\ registry' = registry \cup {id}

\* create_new_node(type, parent): a clean node with an id when there is a
\* parent, connected from the parent.
CreateNew(id, type, parent) ==
    /\ CreateClean(id, type, parent # None)
    /\ edges' = IF parent # None THEN edges \cup {<<parent, id>>} ELSE edges

SetPc(t, p) == pc' = [pc EXCEPT ![t] = p]

InTeam == 0 .. teamSize - 1     \* the threads of the region's team

\* Every thread of the team has finished its callbacks.
AllDone == \A t \in InTeam : pc[t] = "done"

-----------------------------------------------------------------------------

\* cb_task_create with ompt_task_initial: the root node, g_finalNode.
TaskCreateInitial ==
    /\ pc[0] = "task_create"
    /\ CreateNew(0, "ROOT_TASK", None)
    /\ rootTask' = 0
    /\ finalNode' = 0
    /\ SetPc(0, "parallel_begin")
    /\ UNCHANGED <<newBarrier, freed, par, parSink, barrierCnt, parBarrier, barrierMutex,
                   currTask, currBarrier, parLocal, arrived, requested, teamSize>>

\* cb_parallel_begin: ParallelRegionData with a fresh sink node (no edge
\* yet) and _team_size = requested_team_size.  The runtime then starts a
\* team of some size it may give for that request.
ParallelBegin ==
    /\ pc[0] = "parallel_begin"
    /\ par = "none"
    /\ CreateClean(nextId, "IMP_TASK", TRUE)
    /\ par' = "live"
    /\ parSink' = nextId
    /\ \E r \in RequestSizes :
          /\ requested' = r
          /\ teamSize' \in TeamSizes(r)
    /\ SetPc(0, "implicit_begin")
    /\ UNCHANGED <<newBarrier, freed, edges, barrierCnt, parBarrier, barrierMutex, rootTask,
                   finalNode, currTask, currBarrier, parLocal, arrived>>

\* cb_implicit_task, ompt_scope_begin: a node for the implicit task,
\* connected from the parent task's current node.
ImplicitTaskBegin(t) ==
    /\ pc[t] = "implicit_begin"
    /\ par = "live"
    /\ t < teamSize
    /\ CreateNew(nextId, "IMP_TASK", rootTask)
    /\ currTask' = [currTask EXCEPT ![t] = nextId]
    /\ SetPc(t, "work")
    /\ UNCHANGED <<newBarrier, freed, par, parSink, barrierCnt, parBarrier, barrierMutex,
                   rootTask, finalNode, currBarrier, parLocal, arrived, requested, teamSize>>

\* Mutant: the counter and the published node are touched without taking
\* _barrier_mutex.
BarrierLockSkipped(t) ==
    /\ pc[t] = "work"
    /\ arrived[t] < NBarriers
    /\ requested > 1
    /\ arrived' = [arrived EXCEPT ![t] = @ + 1]
    /\ SetPc(t, "barrier_count")
    /\ UNCHANGED <<nextId, ntype, registry, freed, edges, par, parSink, barrierCnt,
                   parBarrier, barrierMutex, rootTask, finalNode, requested, teamSize,
                   currTask, currBarrier, parLocal, newBarrier>>

\* cb_sync_region, barrier, ompt_scope_begin, with `par_info->_team_size
\* > 1`: the thread enters the round and takes _barrier_mutex.
BarrierLock(t) ==
    /\ pc[t] = "work"
    /\ arrived[t] < NBarriers
    /\ requested > 1
    /\ barrierMutex = None
    /\ barrierMutex' = t
    /\ arrived' = [arrived EXCEPT ![t] = @ + 1]
    /\ SetPc(t, "barrier_count")
    /\ UNCHANGED <<nextId, ntype, registry, freed, edges, par, parSink, barrierCnt,
                   parBarrier, rootTask, finalNode, requested, teamSize, currTask,
                   currBarrier, parLocal, newBarrier>>

\* The same callback with a team of one: nothing is recorded.
BarrierSkip(t) ==
    /\ pc[t] = "work"
    /\ arrived[t] < NBarriers
    /\ requested <= 1
    /\ arrived' = [arrived EXCEPT ![t] = @ + 1]
    /\ SetPc(t, "in_barrier")
    /\ UNCHANGED <<nextId, ntype, registry, freed, edges, par, parSink, barrierCnt,
                   parBarrier, barrierMutex, rootTask, finalNode, requested,
                   teamSize, currTask, currBarrier, parLocal, newBarrier>>

\* `par_info->_barrier_cnt++ == 0`: the first thread of a round.
BarrierCount(t) ==
    /\ pc[t] = "barrier_count"
    /\ barrierCnt' = barrierCnt + 1
    /\ newBarrier' = [newBarrier EXCEPT ![t] = (barrierCnt = 0)]
    /\ SetPc(t, "barrier_publish")
    /\ UNCHANGED <<nextId, ntype, registry, freed, edges, par, parSink, parBarrier,
                   barrierMutex, rootTask, finalNode, requested, teamSize, currTask,
                   currBarrier, parLocal, arrived>>

\* Mutants of the critical section's end: the reset test off by one
\* (`>` for `>=`), the reset left out, the unlock left out.
BarrierPublishWith(t, reset(_), unlock) ==
    /\ pc[t] = "barrier_publish"
    /\ IF newBarrier[t]
         THEN /\ CreateNew(nextId, "BARRIER", currTask[t])
              /\ parBarrier' = nextId
              /\ currBarrier' = [currBarrier EXCEPT ![t] = nextId]
              /\ UNCHANGED barrierCnt
         ELSE /\ edges' = edges \cup {<<currTask[t], parBarrier>>}
              /\ currBarrier' = [currBarrier EXCEPT ![t] = parBarrier]
              /\ barrierCnt' = reset(barrierCnt)
              /\ UNCHANGED <<nextId, ntype, registry, parBarrier>>
    /\ barrierMutex' = IF unlock THEN None ELSE barrierMutex
    /\ SetPc(t, "barrier_continue")
    /\ UNCHANGED <<freed, par, parSink, rootTask, finalNode, requested, teamSize,
                   currTask, parLocal, arrived, newBarrier>>

CodeReset(c) == IF c >= requested THEN 0 ELSE c
LateReset(c) == IF c > requested THEN 0 ELSE c
NoReset(c) == c
BarrierPublishLateReset(t) == BarrierPublishWith(t, LateReset, TRUE)
BarrierPublishNoReset(t) == BarrierPublishWith(t, NoReset, TRUE)
BarrierPublishNoUnlock(t) == BarrierPublishWith(t, CodeReset, FALSE)

\* The rest of the critical section, up to the unlock.  The first thread
\* creates the barrier node from its current node and publishes it; a later
\* one connects to the published node, and resets the counter once it
\* reaches _team_size.
BarrierPublish(t) ==
    /\ pc[t] = "barrier_publish"
    /\ IF newBarrier[t]
         THEN /\ CreateNew(nextId, "BARRIER", currTask[t])
              /\ parBarrier' = nextId
              /\ currBarrier' = [currBarrier EXCEPT ![t] = nextId]
              /\ UNCHANGED barrierCnt
         ELSE /\ edges' = edges \cup {<<currTask[t], parBarrier>>}
              /\ currBarrier' = [currBarrier EXCEPT ![t] = parBarrier]
              /\ barrierCnt' = IF barrierCnt >= requested THEN 0 ELSE barrierCnt
              /\ UNCHANGED <<nextId, ntype, registry, parBarrier>>
    /\ barrierMutex' = None
    /\ SetPc(t, "barrier_continue")
    /\ UNCHANGED <<freed, par, parSink, rootTask, finalNode, requested, teamSize,
                   currTask, parLocal, arrived, newBarrier>>

\* The rest of the barrier-begin callback, after the unlock: a continuation
\* node connected from the barrier node becomes the current task node.  The
\* creator's second connectNodes(barrier, continuation) finds the edge.
BarrierContinue(t) ==
    /\ pc[t] = "barrier_continue"
    /\ CreateNew(nextId, "IMP_TASK", currBarrier[t])
    /\ currTask' = [currTask EXCEPT ![t] = nextId]
    /\ SetPc(t, "in_barrier")
    /\ UNCHANGED <<newBarrier, freed, par, parSink, barrierCnt, parBarrier, barrierMutex,
                   rootTask, finalNode, currBarrier, parLocal, arrived, requested, teamSize>>

\* The runtime ends round arrived[t] for t once every thread entered it.
\* cb_sync_region, barrier, ompt_scope_end, reads parallel_data->ptr.
BarrierEndRead(t) ==
    /\ pc[t] = "in_barrier"
    /\ \A u \in InTeam : arrived[u] >= arrived[t]
    /\ parLocal' = [parLocal EXCEPT ![t] = IF par = "live" THEN "ptr" ELSE None]
    /\ SetPc(t, "barrier_end")
    /\ UNCHANGED <<newBarrier, nextId, ntype, registry, freed, edges, par, parSink, barrierCnt,
                   parBarrier, barrierMutex, rootTask, finalNode, currTask,
                   currBarrier, arrived, requested, teamSize>>

\* `if (par_info && par_info->_team_size > 1)`: dereferences the pointer
\* read before; the setLastTime it guards is timing only.
BarrierEndUse(t) ==
    /\ pc[t] = "barrier_end"
    /\ parLocal' = [parLocal EXCEPT ![t] = None]
    /\ SetPc(t, "work")
    /\ UNCHANGED <<newBarrier, nextId, ntype, registry, freed, edges, par, parSink, barrierCnt,
                   parBarrier, barrierMutex, rootTask, finalNode, currTask,
                   currBarrier, arrived, requested, teamSize>>

\* Mutants of the implicit-task end with a barrier node: the continuation
\* deleted while still connected, and no thread connecting the last
\* barrier node to the sink.
ImplicitTaskEndWith(t, disconnect, joinSink) ==
    /\ pc[t] = "work"
    /\ arrived[t] = NBarriers
    /\ LET b == currBarrier[t]
           n == currTask[t]
       IN IF b # None
            THEN /\ edges' = (IF disconnect THEN edges \ {<<b, n>>} ELSE edges)
                               \cup (IF t = 0 /\ joinSink THEN {<<b, parSink>>} ELSE {})
                 /\ registry' = registry \ {n}
                 /\ freed' = freed \cup {n}
            ELSE /\ edges' = edges \cup {<<n, parSink>>}
                 /\ UNCHANGED <<registry, freed>>
    /\ SetPc(t, IF t = 0 THEN "parallel_end" ELSE "done")
    /\ UNCHANGED <<newBarrier, nextId, ntype, par, parSink, barrierCnt, parBarrier,
                   barrierMutex, rootTask, finalNode, currTask, currBarrier,
                   parLocal, arrived, requested, teamSize>>

ImplicitTaskEndNoDisconnect(t) == ImplicitTaskEndWith(t, FALSE, TRUE)
ImplicitTaskEndNoSinkEdge(t) == ImplicitTaskEndWith(t, TRUE, FALSE)

\* cb_implicit_task, ompt_scope_end, after the thread's last barrier.  With
\* a barrier node: the continuation is disconnected, unregistered and
\* deleted, and thread 0 connects the barrier node to the sink.  Without
\* one: the current node is connected to the sink.  The sink comes from
\* the TaskData copy, valid after cb_parallel_end.
ImplicitTaskEnd(t) ==
    /\ pc[t] = "work"
    /\ arrived[t] = NBarriers
    /\ LET b == currBarrier[t]
           n == currTask[t]
       IN IF b # None
            THEN /\ edges' = (edges \ {<<b, n>>})
                               \cup (IF t = 0 THEN {<<b, parSink>>} ELSE {})
                 /\ registry' = registry \ {n}
                 /\ freed' = freed \cup {n}
            ELSE /\ edges' = edges \cup {<<n, parSink>>}
                 /\ UNCHANGED <<registry, freed>>
    /\ SetPc(t, IF t = 0 THEN "parallel_end" ELSE "done")
    /\ UNCHANGED <<newBarrier, nextId, ntype, par, parSink, barrierCnt, parBarrier,
                   barrierMutex, rootTask, finalNode, currTask, currBarrier,
                   parLocal, arrived, requested, teamSize>>

\* cb_parallel_end (master): the sink becomes the parent's current node and
\* g_finalNode; ParallelRegionData is deleted and parallel_data->ptr cleared.
ParallelEnd ==
    /\ pc[0] = "parallel_end"
    /\ rootTask' = parSink
    /\ finalNode' = parSink
    /\ par' = "freed"
    /\ SetPc(0, "done")
    /\ UNCHANGED <<newBarrier, nextId, ntype, registry, freed, edges, parSink, barrierCnt,
                   parBarrier, barrierMutex, currTask, currBarrier,
                   parLocal, arrived, requested, teamSize>>

\* Every callback of the region has run.
Terminated ==
    /\ par = "freed"
    /\ AllDone
    /\ UNCHANGED vars

Next ==
    \/ TaskCreateInitial
    \/ ParallelBegin
    \/ ParallelEnd
    \/ \E t \in Team :
          \/ ImplicitTaskBegin(t)
          \/ BarrierLock(t)
          \/ BarrierSkip(t)
          \/ BarrierCount(t)
          \/ BarrierPublish(t)
          \/ BarrierContinue(t)
          \/ BarrierEndRead(t)
          \/ BarrierEndUse(t)
          \/ ImplicitTaskEnd(t)
    \/ Terminated

ThreadStep(t) ==
    \/ ImplicitTaskBegin(t)
    \/ BarrierLock(t)
    \/ BarrierSkip(t)
    \/ BarrierCount(t)
    \/ BarrierPublish(t)
    \/ BarrierContinue(t)
    \/ BarrierEndRead(t)
    \/ BarrierEndUse(t)
    \/ ImplicitTaskEnd(t)

\* Every team thread keeps executing its callbacks (nothing in them waits
\* except for _barrier_mutex, held for one step), and the runtime ends a
\* barrier round once every thread has entered it.
Fairness ==
    /\ WF_vars(TaskCreateInitial \/ ParallelBegin \/ ParallelEnd)
    /\ \A t \in Team : WF_vars(ThreadStep(t))

Spec == Init /\ [][Next]_vars /\ Fairness

-----------------------------------------------------------------------------
(* Properties                                                              *)

TypeOK ==
    /\ nextId \in 1 .. MaxId + 1
    /\ ntype \in [Ids -> Types \cup {None}]
    /\ registry \subseteq Ids /\ freed \subseteq Ids
    /\ edges \subseteq Ids \X Ids
    /\ par \in {"none", "live", "freed"}
    /\ parSink \in Ids \cup {None} /\ parBarrier \in Ids \cup {None}
    /\ barrierCnt \in 0 .. MaxTeam
    /\ requested \in RequestSizes \cup {0}
    /\ teamSize \in 0 .. MaxTeam
    /\ barrierMutex \in Team \cup {None}
    /\ rootTask \in Ids \cup {None} /\ finalNode \in Ids \cup {None}
    /\ pc \in [Team -> Pcs]
    /\ currTask \in [Team -> Ids \cup {None}]
    /\ currBarrier \in [Team -> Ids \cup {None}]
    /\ parLocal \in [Team -> {"ptr", None}]
    /\ arrived \in [Team -> 0 .. NBarriers]
    /\ newBarrier \in [Team -> BOOLEAN]

RECURSIVE Closure(_)
\* The nodes reachable from S along edges, S included.
Closure(S) ==
    LET S2 == S \cup {e[2] : e \in {x \in edges : x[1] \in S}}
    IN IF S2 = S THEN S ELSE Closure(S2)

Succ(n) == {e[2] : e \in {x \in edges : x[1] = n}}

Preds(n) == {e[1] : e \in {x \in edges : x[2] = n}}

\* The graph stays acyclic (spec 3): no node reaches itself.
Acyclic ==
    \A n \in registry : n \notin Closure(Succ(n))

\* Barrier rounds whose barrier node thread t has joined: a round is
\* entered at the lock and joined at the end of the critical section.
Joined(t) ==
    arrived[t] - (IF pc[t] \in {"barrier_count", "barrier_publish"} THEN 1 ELSE 0)

\* Barrier merge (spec 5, "sole creator of the merge vertex"): whatever the
\* arrival order, the threads that joined one round share one barrier node,
\* threads of different rounds do not, and a barrier node has one in-edge
\* per thread that has joined its round.
BarrierMerge ==
    \A t \in Team : currBarrier[t] # None =>
        /\ \A u \in Team :
              currBarrier[u] = currBarrier[t] <=> Joined(u) = Joined(t)
        /\ Cardinality(Preds(currBarrier[t]))
              = Cardinality({u \in InTeam : Joined(u) >= Joined(t)})

\* No edge, registry entry or live TaskData refers to a deleted Node: the
\* continuation deleted at implicit-task end is first disconnected.
NoDanglingNode ==
    /\ \A e \in edges : e[1] \notin freed /\ e[2] \notin freed
    /\ registry \cap freed = {}
    /\ \A t \in Team : pc[t] \notin {"parallel_end", "done"} => currTask[t] \notin freed

\* Once every callback has run, every registered node reaches the region's
\* sink: the implicit tasks join there, through the last barrier node.
SinkJoinsRegion ==
    AllDone /\ par = "freed" =>
        \A n \in registry : parSink \in Closure({n})

\* cb_sync_region's end never dereferences a ParallelRegionData that
\* cb_parallel_end has deleted: the NULL check and the dereference see the
\* same live object.
NoUseAfterFree ==
    \A t \in Team : pc[t] = "barrier_end" /\ parLocal[t] = "ptr" => par = "live"

\* The region's callbacks all run to the end.
RegionCompletes ==
    <>(AllDone /\ par = "freed")
=============================================================================
