---------------------------- MODULE RegionTiming ----------------------------
(***************************************************************************)
(* Node time accounting in a parallel region whose team threads pass      *)
(* barriers and run explicit tasks (src/callbacks.cc).                     *)
(*                                                                         *)
(* The initial task's node exists (cb_task_create has run).  The master    *)
(* forks the region (cb_parallel_begin); every thread begins its implicit  *)
(* task, runs user code, creates explicit tasks, runs tasks at task        *)
(* scheduling points (cb_task_schedule), and passes NBarriers barriers,    *)
(* the last the region's implicit one (cb_sync_region begin and end).      *)
(* After it the implicit task ends (cb_implicit_task end); the master then *)
(* joins (cb_parallel_end) and finalize_libtdg closes g_finalNode.         *)
(*                                                                         *)
(* now is ftimer_msec(); Tick is time passing.  busy[t] is the time        *)
(* thread t spent running user code or a task, credit[t] the time its     *)
(* addTime calls added to nodes: both are bookkeeping, not program state.  *)
(* A thread waiting in a barrier is not busy (the comment at cb_sync_region *)
(* begin: the wait is not measured).                                      *)
(*                                                                         *)
(* The runtime is the environment: a barrier ends once every thread has    *)
(* entered it and every task is done.  InBarrierTasks says whether a       *)
(* thread waiting in a barrier runs pending tasks, as the runtime does     *)
(* when a program leaves its tasks to the barrier; otherwise the program   *)
(* waits for its tasks (taskwait) before the barrier.                      *)
(***************************************************************************)
EXTENDS Naturals, FiniteSets, Functions, FiniteSetsExt

CONSTANTS NThreads,       \* the team size, requested and granted
          Explicit,       \* explicit tasks the region creates
          NBarriers,      \* barriers each thread passes, the last implicit
          MaxTime,        \* bound on ftimer_msec()
          InBarrierTasks  \* a waiting thread may run a pending task

ASSUME NThreads \in Nat \ {0, 1} /\ NBarriers \in Nat \ {0}
ASSUME MaxTime \in Nat /\ InBarrierTasks \in BOOLEAN

Team == 0 .. NThreads - 1
NULL == -1
None == "none"
\* the root 0, the sink, an implicit-task node per thread, per barrier a
\* barrier node and a continuation per thread, a node per explicit task
MaxId == 1 + NThreads + NBarriers * (NThreads + 1) + Cardinality(Explicit)
Ids == 0 .. MaxId

VARIABLES
    now,          \* ftimer_msec()
    nextId,       \* Node::_nextId
    registry,     \* ids in Graph::_graphNodes
    totalTime,    \* Node::_totalTime
    lastTime,     \* Node::_lastTime
    edges,        \* the graph's edges
    rootNode,     \* the initial task's _curr_task_node
    sink,         \* par_info->_sink_node
    finalNode,    \* g_finalNode
    barrierCnt,   \* par_info->_barrier_cnt
    parBarrier,   \* par_info->_curr_barrier_node
    phase,        \* serial, region, after or final
    tpc,          \* per thread: idle, user, wait, end or gone
    round,        \* per thread, barriers begun
    currTask,     \* per thread, TaskData::_curr_task_node
    currBarrier,  \* per thread, TaskData::_curr_barrier_node
    running,      \* per thread, the explicit task it runs, or None
    taskNode,     \* per explicit task, its TaskData::_curr_task_node
    tstate,       \* per explicit task: none, pending, running or done
    busy,         \* per thread, time spent running code (bookkeeping)
    credit        \* per thread, time its addTime calls added (bookkeeping)

vars == <<now, nextId, registry, totalTime, lastTime, edges, rootNode, sink,
          finalNode, barrierCnt, parBarrier, phase, tpc, round, currTask,
          currBarrier, running, taskNode, tstate, busy, credit>>

Init ==
    /\ now = 0
    /\ nextId = 1
    /\ registry = {0}
    /\ totalTime = [n \in Ids |-> 0]
    /\ lastTime = [n \in Ids |-> 0]
    /\ edges = {}
    /\ rootNode = 0
    /\ sink = NULL
    /\ finalNode = 0
    /\ barrierCnt = 0
    /\ parBarrier = NULL
    /\ phase = "serial"
    /\ tpc = [t \in Team |-> "idle"]
    /\ round = [t \in Team |-> 0]
    /\ currTask = [t \in Team |-> NULL]
    /\ currBarrier = [t \in Team |-> NULL]
    /\ running = [t \in Team |-> None]
    /\ taskNode = [e \in Explicit |-> NULL]
    /\ tstate = [e \in Explicit |-> "none"]
    /\ busy = [t \in Team |-> 0]
    /\ credit = [t \in Team |-> 0]

\* Node::addTime(now) on n by thread t: the interval since _lastTime is
\* added to n's total (and credited to t), and _lastTime becomes now.
AddTime(t, n) ==
    /\ totalTime' = [totalTime EXCEPT ![n] = @ + (now - lastTime[n])]
    /\ credit' = [credit EXCEPT ![t] = @ + (now - lastTime[n])]

\* _lastTime of the nodes S becomes now (addTime or setLastTime on each).
Stamp(S) == [n \in Ids |-> IF n \in S THEN now ELSE lastTime[n]]

\* The thread runs its implicit task's code, not a task or a barrier.
InUser(t) == tpc[t] = "user" /\ running[t] = None

-----------------------------------------------------------------------------
\* cb_parallel_begin by the initial task: time is added to its node and
\* the sink is created clean (gen_id, _lastTime left 0).
ParallelBegin ==
    /\ phase = "serial"
    /\ AddTime(0, rootNode)
    /\ lastTime' = Stamp({rootNode})
    /\ registry' = registry \cup {nextId}
    /\ sink' = nextId
    /\ nextId' = nextId + 1
    /\ phase' = "region"
    /\ UNCHANGED <<now, edges, rootNode, finalNode, barrierCnt, parBarrier,
                   tpc, round, currTask, currBarrier, running, taskNode,
                   tstate, busy>>

\* cb_implicit_task begin: thread t's node, connected from the parent
\* task's current node, _lastTime now.
ImplicitTaskBegin(t) ==
    /\ phase = "region"
    /\ tpc[t] = "idle"
    /\ registry' = registry \cup {nextId}
    /\ edges' = edges \cup {<<rootNode, nextId>>}
    /\ lastTime' = Stamp({nextId})
    /\ currTask' = [currTask EXCEPT ![t] = nextId]
    /\ nextId' = nextId + 1
    /\ tpc' = [tpc EXCEPT ![t] = "user"]
    /\ UNCHANGED <<now, totalTime, rootNode, sink, finalNode, barrierCnt,
                   parBarrier, phase, round, currBarrier, running, taskNode,
                   tstate, busy, credit>>

\* cb_task_create, ompt_task_explicit, by thread t's implicit task: an
\* EXP_TASK node connected from its current node, _lastTime now.
TaskCreate(t, e) ==
    /\ InUser(t)
    /\ tstate[e] = "none"
    /\ registry' = registry \cup {nextId}
    /\ edges' = edges \cup {<<currTask[t], nextId>>}
    /\ lastTime' = Stamp({nextId})
    /\ taskNode' = [taskNode EXCEPT ![e] = nextId]
    /\ nextId' = nextId + 1
    /\ tstate' = [tstate EXCEPT ![e] = "pending"]
    /\ UNCHANGED <<now, totalTime, rootNode, sink, finalNode, barrierCnt,
                   parBarrier, phase, tpc, round, currTask, currBarrier,
                   running, busy, credit>>

\* cb_task_schedule(first, second) by thread t: time is added to first's
\* node n1 and second's node n2 restarts its interval.
Schedule(t, n1, n2) ==
    /\ AddTime(t, n1)
    /\ lastTime' = Stamp({n1, n2})

\* Thread t starts pending task e at a scheduling point of its implicit
\* task: in its code, or while it waits in a barrier.
TaskStart(t, e) ==
    /\ tstate[e] = "pending"
    /\ running[t] = None
    /\ tpc[t] = "user" \/ (tpc[t] = "wait" /\ InBarrierTasks)
    /\ Schedule(t, currTask[t], taskNode[e])
    /\ running' = [running EXCEPT ![t] = e]
    /\ tstate' = [tstate EXCEPT ![e] = "running"]
    /\ UNCHANGED <<now, nextId, registry, edges, rootNode, sink, finalNode,
                   barrierCnt, parBarrier, phase, tpc, round, currTask,
                   currBarrier, taskNode, busy>>

\* The task thread t runs completes and the implicit task resumes.
TaskEnd(t) ==
    /\ running[t] # None
    /\ Schedule(t, taskNode[running[t]], currTask[t])
    /\ tstate' = [tstate EXCEPT ![running[t]] = "done"]
    /\ running' = [running EXCEPT ![t] = None]
    /\ UNCHANGED <<now, nextId, registry, edges, rootNode, sink, finalNode,
                   barrierCnt, parBarrier, phase, tpc, round, currTask,
                   currBarrier, taskNode, busy>>

\* Mutant: the count is reset only past the team size.
BarrierCountLate(first) ==
    IF first THEN 1 ELSE IF barrierCnt + 1 > NThreads THEN 0 ELSE barrierCnt + 1

\* par_info->_barrier_cnt after an arrival: 1 for the first (the test
\* _barrier_cnt++ == 0), 0 once _barrier_cnt >= _team_size, else one more.
BarrierCount(first) ==
    IF first THEN 1 ELSE IF barrierCnt + 1 >= NThreads THEN 0 ELSE barrierCnt + 1

\* Mutant: the continuation is never made; the thread stays on its node.
BarrierBeginNoContinuation(t) ==
    /\ InUser(t)
    /\ round[t] < NBarriers
    /\ InBarrierTasks \/ \A e \in Explicit : tstate[e] # "pending"
    /\ AddTime(t, currTask[t])
    /\ LET first == barrierCnt = 0
           b == IF first THEN nextId ELSE parBarrier
       IN /\ registry' = registry \cup (IF first THEN {b} ELSE {})
          /\ edges' = edges \cup {<<currTask[t], b>>}
          /\ lastTime' = Stamp({currTask[t], b})
          /\ barrierCnt' = BarrierCount(first)
          /\ parBarrier' = b
          /\ currBarrier' = [currBarrier EXCEPT ![t] = b]
          /\ nextId' = IF first THEN nextId + 1 ELSE nextId
    /\ tpc' = [tpc EXCEPT ![t] = "wait"]
    /\ round' = [round EXCEPT ![t] = @ + 1]
    /\ UNCHANGED <<now, rootNode, sink, finalNode, phase, currTask, running,
                   taskNode, tstate, busy>>

\* cb_sync_region begin of a barrier (_team_size > 1): time is added to the
\* current node; under _barrier_mutex the first thread (_barrier_cnt++ == 0)
\* creates the BARRIER node from its node and publishes it, a later one
\* connects its node to it and resets the count when all have arrived;
\* the continuation node is created from the barrier node (_lastTime now)
\* and becomes the current node.  The program waits for its tasks first
\* unless the barrier runs them.
BarrierBegin(t) ==
    /\ InUser(t)
    /\ round[t] < NBarriers
    /\ InBarrierTasks \/ \A e \in Explicit : tstate[e] # "pending"
    /\ AddTime(t, currTask[t])
    /\ LET first == barrierCnt = 0
           b == IF first THEN nextId ELSE parBarrier
           c == IF first THEN nextId + 1 ELSE nextId
       IN /\ registry' = registry \cup (IF first THEN {b, c} ELSE {c})
          /\ edges' = edges \cup {<<currTask[t], b>>, <<b, c>>}
          /\ lastTime' = Stamp({currTask[t], b, c})
          /\ barrierCnt' = BarrierCount(first)
          /\ parBarrier' = b
          /\ currBarrier' = [currBarrier EXCEPT ![t] = b]
          /\ currTask' = [currTask EXCEPT ![t] = c]
          /\ nextId' = c + 1
    /\ tpc' = [tpc EXCEPT ![t] = "wait"]
    /\ round' = [round EXCEPT ![t] = @ + 1]
    /\ UNCHANGED <<now, rootNode, sink, finalNode, phase, running, taskNode,
                   tstate, busy>>

\* Every thread has entered thread t's current barrier round.
RoundComplete(t) == \A u \in Team : round[u] >= round[t]

\* Mutant: the continuation's _lastTime is not set at barrier end.
BarrierEndNoStamp(t) ==
    /\ tpc[t] = "wait"
    /\ running[t] = None
    /\ RoundComplete(t)
    /\ \A e \in Explicit : tstate[e] \notin {"pending", "running"}
    /\ tpc' = [tpc EXCEPT ![t] = IF round[t] = NBarriers THEN "end" ELSE "user"]
    /\ UNCHANGED <<now, nextId, registry, totalTime, lastTime, edges, rootNode,
                   sink, finalNode, barrierCnt, parBarrier, phase, round,
                   currTask, currBarrier, running, taskNode, tstate, busy,
                   credit>>

\* cb_sync_region end of a barrier (_team_size > 1): the continuation's
\* interval starts.  After the region's last barrier the implicit task ends.
BarrierEnd(t) ==
    /\ tpc[t] = "wait"
    /\ running[t] = None
    /\ RoundComplete(t)
    /\ \A e \in Explicit : tstate[e] \notin {"pending", "running"}
    /\ lastTime' = Stamp({currTask[t]})
    /\ tpc' = [tpc EXCEPT ![t] = IF round[t] = NBarriers THEN "end" ELSE "user"]
    /\ UNCHANGED <<now, nextId, registry, totalTime, edges, rootNode, sink,
                   finalNode, barrierCnt, parBarrier, phase, round, currTask,
                   currBarrier, running, taskNode, tstate, busy, credit>>

\* cb_implicit_task end with a barrier node: the unused continuation is
\* disconnected from the barrier node, removed from the graph and deleted;
\* thread 0 connects the last barrier node to the sink.
ImplicitTaskEnd(t) ==
    /\ tpc[t] = "end"
    /\ edges' = (edges \ {<<currBarrier[t], currTask[t]>>})
                  \cup (IF t = 0 THEN {<<currBarrier[t], sink>>} ELSE {})
    /\ registry' = registry \ {currTask[t]}
    /\ tpc' = [tpc EXCEPT ![t] = "gone"]
    /\ UNCHANGED <<now, nextId, totalTime, lastTime, rootNode, sink, finalNode,
                   barrierCnt, parBarrier, phase, round, currTask, currBarrier,
                   running, taskNode, tstate, busy, credit>>

\* Mutant: the sink's _lastTime is left at 0.
ParallelEndNoStamp ==
    /\ phase = "region"
    /\ tpc[0] = "gone"
    /\ rootNode' = sink
    /\ finalNode' = sink
    /\ phase' = "after"
    /\ UNCHANGED <<now, nextId, registry, totalTime, lastTime, edges, sink,
                   barrierCnt, parBarrier, tpc, round, currTask, currBarrier,
                   running, taskNode, tstate, busy, credit>>

\* cb_parallel_end, after the master's implicit task: the sink becomes the
\* initial task's current node and g_finalNode, with _lastTime now.
ParallelEnd ==
    /\ phase = "region"
    /\ tpc[0] = "gone"
    /\ rootNode' = sink
    /\ finalNode' = sink
    /\ lastTime' = Stamp({sink})
    /\ phase' = "after"
    /\ UNCHANGED <<now, nextId, registry, totalTime, edges, sink, barrierCnt,
                   parBarrier, tpc, round, currTask, currBarrier, running,
                   taskNode, tstate, busy, credit>>

\* finalize_libtdg, once every thread is done: time is added to
\* g_finalNode.
Finalize ==
    /\ phase = "after"
    /\ \A t \in Team : tpc[t] = "gone"
    /\ AddTime(0, finalNode)
    /\ lastTime' = Stamp({finalNode})
    /\ phase' = "final"
    /\ UNCHANGED <<now, nextId, registry, edges, rootNode, sink, finalNode,
                   barrierCnt, parBarrier, tpc, round, currTask, currBarrier,
                   running, taskNode, tstate, busy>>

\* The threads running code: the initial task outside the region, and in
\* it every thread in its code or running a task.
Busy(t) ==
    \/ t = 0 /\ phase \in {"serial", "after"}
    \/ phase = "region" /\ (tpc[t] = "user" \/ running[t] # None)

\* Time passes.
Tick ==
    /\ phase \in {"serial", "region", "after"}
    /\ now < MaxTime
    /\ now' = now + 1
    /\ busy' = [t \in Team |-> IF Busy(t) THEN busy[t] + 1 ELSE busy[t]]
    /\ UNCHANGED <<nextId, registry, totalTime, lastTime, edges, rootNode,
                   sink, finalNode, barrierCnt, parBarrier, phase, tpc, round,
                   currTask, currBarrier, running, taskNode, tstate, credit>>

Terminated ==
    /\ phase = "final"
    /\ UNCHANGED vars

Next ==
    \/ ParallelBegin
    \/ \E t \in Team :
          \/ ImplicitTaskBegin(t) \/ BarrierBegin(t) \/ BarrierEnd(t)
          \/ ImplicitTaskEnd(t) \/ TaskEnd(t)
          \/ \E e \in Explicit : TaskCreate(t, e) \/ TaskStart(t, e)
    \/ ParallelEnd
    \/ Finalize
    \/ Tick
    \/ Terminated

Spec == Init /\ [][Next]_vars

-----------------------------------------------------------------------------
(* Properties                                                              *)

TypeOK ==
    /\ now \in 0 .. MaxTime
    /\ registry \subseteq Ids
    /\ edges \subseteq Ids \X Ids
    /\ barrierCnt \in 0 .. NThreads - 1
    /\ tpc \in [Team -> {"idle", "user", "wait", "end", "gone"}]
    /\ round \in [Team -> 0 .. NBarriers]
    /\ running \in [Team -> Explicit \cup {None}]
    /\ tstate \in [Explicit -> {"none", "pending", "running", "done"}]

\* The node whose interval thread t's running code is timed in.
OpenNode(t) ==
    IF running[t] # None THEN taskNode[running[t]]
    ELSE IF phase = "region" /\ tpc[t] = "user" THEN currTask[t]
    ELSE IF t = 0 /\ phase \in {"serial", "after"} THEN rootNode
    ELSE NULL

Open(t) == IF OpenNode(t) = NULL THEN 0 ELSE now - lastTime[OpenNode(t)]

\* Every thread's time goes to the nodes it works in and nowhere else:
\* what its addTime calls (at barrier begin, cb_task_schedule, region
\* fork and finalize) added, plus its open interval, is the time it spent
\* running code; a barrier wait is not measured (the comment at
\* cb_sync_region begin) and another thread's time is never charged.
ThreadTimeAccounted ==
    \A t \in Team : credit[t] + Open(t) = busy[t]

\* The time added to nodes stays in the graph: cb_implicit_task end
\* removes and deletes only a continuation that holds no time, so the
\* registered nodes' totals are all that the threads' addTime calls added.
RegistryTime ==
    SumFunctionOnSet(totalTime, registry) = SumFunctionOnSet(credit, Team)

\* Nodes of explicit tasks.
TaskNodes == {taskNode[e] : e \in Explicit}

\* Registered nodes other than explicit tasks'.
WorkNodes == registry \ TaskNodes

\* The heaviest weight of a path ending in n through nodes of S.
RECURSIVE PathTime(_, _)
PathTime(S, n) ==
    totalTime[n] + Max({0} \cup {PathTime(S, p) : p \in {q \in S : <<q, n>> \in edges}})

\* The critical path CriticalPathMetric reports, over the nodes other than
\* explicit tasks', never exceeds the elapsed time: along every path the
\* node times were measured one after another (the continuation's interval
\* starts at barrier end, the sink's at cb_parallel_end).
CriticalPathWithinElapsed ==
    \A n \in WorkNodes : PathTime(WorkNodes, n) <= now
=============================================================================
