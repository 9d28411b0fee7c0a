----------------------------- MODULE TaskTiming -----------------------------
(***************************************************************************)
(* Node time accounting along one thread of control: the master thread of *)
(* a program whose parallel region has a team of one (src/callbacks.cc).   *)
(*                                                                         *)
(* The initial task (cb_task_create, ompt_task_initial) runs serial code,  *)
(* may create and run explicit tasks (cb_task_create, cb_task_schedule),   *)
(* and may enter one parallel region (cb_parallel_begin, cb_implicit_task  *)
(* begin).  The implicit task runs worksharing loops (cb_ext_loop begin    *)
(* and end, cb_ext_chunk) and explicit tasks, and ends (cb_implicit_task   *)
(* end, cb_parallel_end).  finalize_libtdg closes the last interval.       *)
(* With a team of one, cb_sync_region returns at its _team_size > 1 test.  *)
(*                                                                         *)
(* ftimer_msec() is the clock now.  Time passes (Tick) only while user     *)
(* code runs; a callback, and the runtime between the fork callbacks and   *)
(* between the join callbacks, take no time.                              *)
(*                                                                         *)
(* The OpenMP runtime is the environment: it runs tied tasks, a task       *)
(* started at a scheduling point being a descendant of the running one.    *)
(* InLoopSwitch says whether it reaches a task scheduling point (a task    *)
(* construct run at once, a taskyield) inside a loop chunk.               *)
(***************************************************************************)
EXTENDS Naturals, Sequences, FiniteSets, SequencesExt

CONSTANTS Explicit,      \* explicit tasks the program creates
          MaxLoops,      \* worksharing loops run by the implicit task
          MaxChunks,     \* cb_ext_chunk calls in all
          MaxTime,       \* bound on the clock
          InLoopSwitch   \* task switches happen inside loop chunks

ASSUME IsFiniteSet(Explicit) /\ MaxLoops \in Nat /\ MaxChunks \in Nat
ASSUME MaxTime \in Nat /\ InLoopSwitch \in BOOLEAN

NULL == -1
Tasks == {"root", "imp"} \cup Explicit
\* _curr_ws_data = NULL
NoWs == [start |-> NULL, sink |-> NULL, last |-> NULL]
\* ids: the root's 0 and Node::_nextId from 1; at most 3 + 2 per loop nodes
MaxId == 3 + 2 * MaxLoops + MaxChunks + Cardinality(Explicit)
Ids == 0 .. MaxId
\* Node::NodeType, less BARRIER (a team of one makes no barrier node) and
\* TASKWAIT (no callback creates one).
Types == {"ROOT_TASK", "IMP_TASK", "WS_TASK", "CHUNK_TASK", "EXP_TASK"}

VARIABLES
    now,          \* ftimer_msec()
    nextId,       \* Node::_nextId
    registry,     \* ids in Graph::_graphNodes
    ntype,        \* Node::_type
    totalTime,    \* Node::_totalTime
    lastTime,     \* Node::_lastTime
    edges,        \* the graph's edges
    taskNode,     \* TaskData::_curr_task_node of each task, or NULL
    ws,           \* the implicit task's _curr_ws_data, or NULL
    finalNode,    \* g_finalNode
    regionSink,   \* ParallelRegionData::_sink_node
    stack,        \* the runtime: the thread's suspended tasks, running last
    tstate,       \* the runtime: state of each explicit task
    parentOf,     \* the runtime: the task that created each explicit task
    loops,        \* loops begun
    chunks,       \* cb_ext_chunk calls made
    phase         \* where the program is

vars == <<now, nextId, registry, ntype, totalTime, lastTime, edges, taskNode,
          ws, finalNode, regionSink, stack, tstate, parentOf, loops, chunks,
          phase>>

Phases == {"start", "serial", "fork", "region", "join", "after", "final"}

Init ==
    /\ now = 0
    /\ nextId = 1
    /\ registry = {}
    /\ ntype = [n \in Ids |-> "IMP_TASK"]
    /\ totalTime = [n \in Ids |-> 0]
    /\ lastTime = [n \in Ids |-> 0]
    /\ edges = {}
    /\ taskNode = [t \in Tasks |-> NULL]
    /\ ws = NoWs
    /\ finalNode = NULL
    /\ regionSink = NULL
    /\ stack = <<>>
    /\ tstate = [e \in Explicit |-> "none"]
    /\ parentOf = [e \in Explicit |-> "root"]
    /\ loops = 0
    /\ chunks = 0
    /\ phase = "start"

\* Node::addTime(now): the interval since _lastTime is added to n's total.
addTime(n) == [totalTime EXCEPT ![n] = @ + (now - lastTime[n])]

\* _lastTime of the nodes S becomes now (addTime or setLastTime on each).
Stamp(S) == [n \in Ids |-> IF n \in S THEN now ELSE lastTime[n]]

\* create_clean_node / create_new_node of the nodes S with types ty:
\* registered (Graph::addNode) with their _type.
Register(S, ty) ==
    /\ registry' = registry \cup S
    /\ ntype' = [n \in Ids |-> IF n \in S THEN ty[n] ELSE ntype[n]]

Running == Last(stack)

RECURSIVE IsDescendant(_, _)
\* Explicit task e was created by t or by a descendant of t.
IsDescendant(e, t) ==
    \/ parentOf[e] = t
    \/ parentOf[e] \in Explicit /\ IsDescendant(parentOf[e], t)

\* The implicit task is in a worksharing loop and is the running task.
InChunk == Running = "imp" /\ ws # NoWs

-----------------------------------------------------------------------------
(* cb_task_create, ompt_task_initial: the root node, created with          *)
(* gen_id false (id 0), _lastTime now; it is g_finalNode.                  *)
TaskCreateInitial ==
    /\ phase = "start"
    /\ Register({0}, [n \in {0} |-> "ROOT_TASK"])
    /\ lastTime' = Stamp({0})
    /\ taskNode' = [taskNode EXCEPT !["root"] = 0]
    /\ finalNode' = 0
    /\ stack' = <<"root">>
    /\ phase' = "serial"
    /\ UNCHANGED <<now, nextId, totalTime, edges, ws, regionSink, tstate,
                   parentOf, loops, chunks>>

\* Mutant: the edge comes from the new task's own TaskData, not yet set.
TaskCreateExplicitFromOwn(e) ==
    /\ phase \in {"serial", "region", "after"}
    /\ tstate[e] = "none"
    /\ LET n == nextId IN
       /\ Register({n}, [x \in {n} |-> "EXP_TASK"])
       /\ edges' = edges \cup {<<taskNode[e], n>>}
       /\ lastTime' = Stamp({n})
       /\ taskNode' = [taskNode EXCEPT ![e] = n]
       /\ nextId' = nextId + 1
    /\ tstate' = [tstate EXCEPT ![e] = "pending"]
    /\ parentOf' = [parentOf EXCEPT ![e] = Running]
    /\ UNCHANGED <<now, totalTime, ws, finalNode, regionSink, stack, loops,
                   chunks, phase>>

\* cb_task_create, ompt_task_explicit, by the running task: a new EXP_TASK
\* node connected from the parent's current node, _lastTime now.
TaskCreateExplicit(e) ==
    /\ phase \in {"serial", "region", "after"}
    /\ tstate[e] = "none"
    /\ LET n == nextId IN
       /\ Register({n}, [x \in {n} |-> "EXP_TASK"])
       /\ edges' = edges \cup {<<taskNode[Running], n>>}
       /\ lastTime' = Stamp({n})
       /\ taskNode' = [taskNode EXCEPT ![e] = n]
       /\ nextId' = nextId + 1
    /\ tstate' = [tstate EXCEPT ![e] = "pending"]
    /\ parentOf' = [parentOf EXCEPT ![e] = Running]
    /\ UNCHANGED <<now, totalTime, ws, finalNode, regionSink, stack, loops,
                   chunks, phase>>

\* cb_task_schedule(first, second): time is added to first's current node
\* and second's current node restarts its interval.
Schedule(first, second) ==
    /\ totalTime' = addTime(taskNode[first])
    /\ lastTime' = Stamp({taskNode[first], taskNode[second]})

\* A task scheduling point of the running task starts pending task e.
TaskSwitch(e) ==
    /\ phase \in {"serial", "region", "after"}
    /\ tstate[e] = "pending"
    /\ IsDescendant(e, Running)
    /\ InLoopSwitch \/ ~InChunk
    /\ Schedule(Running, e)
    /\ stack' = Append(stack, e)
    /\ tstate' = [tstate EXCEPT ![e] = "started"]
    /\ UNCHANGED <<now, nextId, registry, ntype, edges, taskNode, ws,
                   finalNode, regionSink, parentOf, loops, chunks, phase>>

\* The running explicit task completes; the thread resumes the task below
\* it or starts a pending descendant of that task.
TaskComplete(next) ==
    /\ phase \in {"serial", "region", "after"}
    /\ Running \in Explicit
    /\ LET below == stack[Len(stack) - 1] IN
       \/ next = below
       \/ next \in Explicit /\ tstate[next] = "pending" /\ IsDescendant(next, below)
    /\ Schedule(Running, next)
    /\ stack' = IF next = stack[Len(stack) - 1] THEN Front(stack)
                                                ELSE Append(Front(stack), next)
    /\ tstate' = [t \in Explicit |->
                    CASE t = Running -> "done"
                      [] t = next    -> "started"
                      [] OTHER       -> tstate[t]]
    /\ UNCHANGED <<now, nextId, registry, ntype, edges, taskNode, ws,
                   finalNode, regionSink, parentOf, loops, chunks, phase>>

\* cb_parallel_begin by the root: time is added to its current node and
\* the region's sink is created clean (gen_id, _lastTime left 0).
ParallelBegin ==
    /\ phase = "serial"
    /\ Running = "root"
    /\ regionSink = NULL
    /\ totalTime' = addTime(taskNode["root"])
    /\ lastTime' = Stamp({taskNode["root"]})
    /\ Register({nextId}, [x \in {nextId} |-> "IMP_TASK"])
    /\ regionSink' = nextId
    /\ nextId' = nextId + 1
    /\ phase' = "fork"
    /\ UNCHANGED <<now, edges, taskNode, ws, finalNode, stack, tstate,
                   parentOf, loops, chunks>>

\* cb_implicit_task begin: the implicit task's node, connected from the
\* parent task's current node, _lastTime now.
ImplicitTaskBegin ==
    /\ phase = "fork"
    /\ LET n == nextId IN
       /\ Register({n}, [x \in {n} |-> "IMP_TASK"])
       /\ edges' = edges \cup {<<taskNode["root"], n>>}
       /\ lastTime' = Stamp({n})
       /\ taskNode' = [taskNode EXCEPT !["imp"] = n]
       /\ nextId' = nextId + 1
    /\ stack' = Append(stack, "imp")
    /\ phase' = "region"
    /\ UNCHANGED <<now, totalTime, ws, finalNode, regionSink, tstate,
                   parentOf, loops, chunks>>

\* cb_ext_loop begin: time is added to the current node; a WS_TASK start
\* node is connected from it (_lastTime now) and a sink is created clean.
LoopBegin ==
    /\ phase = "region"
    /\ Running = "imp"
    /\ ws = NoWs
    /\ loops < MaxLoops
    /\ LET s == nextId
           k == nextId + 1
       IN /\ Register({s, k}, [x \in {s, k} |-> IF x = s THEN "WS_TASK"
                                                         ELSE "IMP_TASK"])
          /\ edges' = edges \cup {<<taskNode["imp"], s>>}
          /\ totalTime' = addTime(taskNode["imp"])
          /\ lastTime' = Stamp({taskNode["imp"], s})
          /\ ws' = [start |-> s, sink |-> k, last |-> NULL]
    /\ nextId' = nextId + 2
    /\ loops' = loops + 1
    /\ UNCHANGED <<now, taskNode, finalNode, regionSink, stack, tstate,
                   parentOf, chunks, phase>>

\* cb_ext_chunk(last): the previous chunk node's time ends unless last is
\* set (with no previous chunk the start node's time ends); unless last is
\* set, a CHUNK_TASK node is connected from the start node and to the sink.
Chunk(last) ==
    /\ phase = "region"
    /\ InChunk
    /\ chunks < MaxChunks
    /\ LET ended == IF ws.last # NULL THEN IF last THEN {} ELSE {ws.last}
                                      ELSE {ws.start}
           c == nextId
       IN /\ totalTime' = IF ended = {} THEN totalTime
                          ELSE addTime(CHOOSE n \in ended : TRUE)
          /\ IF last
               THEN /\ lastTime' = Stamp(ended)
                    /\ UNCHANGED <<nextId, registry, ntype, edges, ws>>
               ELSE /\ Register({c}, [x \in {c} |-> "CHUNK_TASK"])
                    /\ edges' = edges \cup {<<ws.start, c>>, <<c, ws.sink>>}
                    /\ lastTime' = Stamp(ended \cup {c})
                    /\ ws' = [ws EXCEPT !.last = c]
                    /\ nextId' = nextId + 1
    /\ chunks' = chunks + 1
    /\ UNCHANGED <<now, taskNode, finalNode, regionSink, stack, tstate,
                   parentOf, loops, phase>>

\* Mutant: with no chunk the start node is not connected to the sink.
LoopEndUnjoined ==
    /\ phase = "region"
    /\ InChunk
    /\ LET ended == IF ws.last # NULL THEN ws.last ELSE ws.start IN
       /\ totalTime' = addTime(ended)
       /\ lastTime' = Stamp({ended, ws.sink})
       /\ UNCHANGED edges
    /\ taskNode' = [taskNode EXCEPT !["imp"] = ws.sink]
    /\ ws' = NoWs
    /\ UNCHANGED <<now, nextId, registry, ntype, finalNode, regionSink, stack,
                   tstate, parentOf, loops, chunks, phase>>

\* cb_ext_loop end: the last chunk node's time ends, or with no chunk the
\* start node's, connected to the sink; the sink becomes the current node
\* with _lastTime now, and _curr_ws_data is deleted.
LoopEnd ==
    /\ phase = "region"
    /\ InChunk
    /\ LET ended == IF ws.last # NULL THEN ws.last ELSE ws.start IN
       /\ totalTime' = addTime(ended)
       /\ lastTime' = Stamp({ended, ws.sink})
       /\ edges' = IF ws.last # NULL THEN edges
                   ELSE edges \cup {<<ws.start, ws.sink>>}
    /\ taskNode' = [taskNode EXCEPT !["imp"] = ws.sink]
    /\ ws' = NoWs
    /\ UNCHANGED <<now, nextId, registry, ntype, finalNode, regionSink, stack,
                   tstate, parentOf, loops, chunks, phase>>

\* cb_implicit_task end with no barrier node: time is added to the current
\* node, which is connected to the region's sink.  The runtime ends the
\* implicit task once every task created in the region is done.
ImplicitTaskEnd ==
    /\ phase = "region"
    /\ Running = "imp"
    /\ ws = NoWs
    /\ \A e \in Explicit : IsDescendant(e, "imp") => tstate[e] \in {"none", "done"}
    /\ totalTime' = addTime(taskNode["imp"])
    /\ lastTime' = Stamp({taskNode["imp"]})
    /\ edges' = edges \cup {<<taskNode["imp"], regionSink>>}
    /\ stack' = Front(stack)
    /\ phase' = "join"
    /\ UNCHANGED <<now, nextId, registry, ntype, taskNode, ws, finalNode,
                   regionSink, tstate, parentOf, loops, chunks>>

\* Mutant: the sink's _lastTime is not set (line 300 missing).
ParallelEndNoStamp ==
    /\ phase = "join"
    /\ taskNode' = [taskNode EXCEPT !["root"] = regionSink]
    /\ finalNode' = regionSink
    /\ phase' = "after"
    /\ UNCHANGED <<now, nextId, registry, ntype, totalTime, lastTime, edges,
                   ws, regionSink, stack, tstate, parentOf, loops, chunks>>

\* cb_parallel_end: the sink becomes the parent's current node and
\* g_finalNode, with _lastTime now; ParallelRegionData is deleted.
ParallelEnd ==
    /\ phase = "join"
    /\ taskNode' = [taskNode EXCEPT !["root"] = regionSink]
    /\ lastTime' = Stamp({regionSink})
    /\ finalNode' = regionSink
    /\ phase' = "after"
    /\ UNCHANGED <<now, nextId, registry, ntype, totalTime, edges, ws,
                   regionSink, stack, tstate, parentOf, loops, chunks>>

\* finalize_libtdg: time is added to g_finalNode.  The program ends with
\* every task done.
Finalize ==
    /\ phase \in {"serial", "after"}
    /\ Running = "root"
    /\ \A e \in Explicit : tstate[e] \in {"none", "done"}
    /\ totalTime' = addTime(finalNode)
    /\ lastTime' = Stamp({finalNode})
    /\ phase' = "final"
    /\ UNCHANGED <<now, nextId, registry, ntype, edges, taskNode, ws,
                   finalNode, regionSink, stack, tstate, parentOf, loops,
                   chunks>>

\* User code runs.
Tick ==
    /\ phase \in {"serial", "region", "after"}
    /\ now < MaxTime
    /\ now' = now + 1
    /\ UNCHANGED <<nextId, registry, ntype, totalTime, lastTime, edges,
                   taskNode, ws, finalNode, regionSink, stack, tstate,
                   parentOf, loops, chunks, phase>>

Terminated ==
    /\ phase = "final"
    /\ UNCHANGED vars

Next ==
    \/ TaskCreateInitial
    \/ \E e \in Explicit : TaskCreateExplicit(e) \/ TaskSwitch(e)
    \/ \E t \in Tasks : TaskComplete(t)
    \/ ParallelBegin
    \/ ImplicitTaskBegin
    \/ LoopBegin
    \/ \E last \in BOOLEAN : Chunk(last)
    \/ LoopEnd
    \/ ImplicitTaskEnd
    \/ ParallelEnd
    \/ Finalize
    \/ Tick
    \/ Terminated

Spec == Init /\ [][Next]_vars

-----------------------------------------------------------------------------
(* Properties                                                              *)

TypeOK ==
    /\ now \in 0 .. MaxTime
    /\ nextId \in 1 .. MaxId + 1
    /\ registry \subseteq Ids
    /\ ntype \in [Ids -> Types]
    /\ totalTime \in [Ids -> Nat]
    /\ lastTime \in [Ids -> 0 .. MaxTime]
    /\ edges \subseteq registry \X registry
    /\ taskNode \in [Tasks -> registry \cup {NULL}]
    /\ ws \in [start : Ids, sink : Ids, last : Ids \cup {NULL}] \cup {NoWs}
    /\ tstate \in [Explicit -> {"none", "pending", "started", "done"}]
    /\ phase \in Phases

\* The node whose interval is open: the last chunk node (else the start
\* node) in a loop, the running task's current node otherwise.
OpenNode ==
    CASE phase \in {"start", "fork", "join", "final"} -> NULL
      [] InChunk -> IF ws.last # NULL THEN ws.last ELSE ws.start
      [] OTHER -> taskNode[Running]

\* Time each node holds, the open interval included.
Attributed ==
    SumFunctionOnSet(totalTime, registry)
      + (IF OpenNode = NULL THEN 0 ELSE now - lastTime[OpenNode])

\* Every instant of the thread's user code is counted in exactly one node
\* (spec: open/close interval accounting of _totalTime and _lastTime, the
\* time of a node written only while its unit of work runs): the nodes'
\* times, with the open interval, add up to the elapsed time, so the total
\* TotalTimeMetric prints after finalize is the program's run time.
TimeAccounted == Attributed = now

\* After finalize, every node but an explicit task's reaches g_finalNode:
\* loop start, chunk, loop sink, implicit task and region sink nodes are all
\* joined into the path the critical path metric walks.
RECURSIVE Reach(_)
\* The nodes reachable from S along edges, S included.
Reach(S) ==
    LET S2 == S \cup {e[2] : e \in {x \in edges : x[1] \in S}}
    IN IF S2 = S THEN S ELSE Reach(S2)

FinalReachable ==
    phase = "final" =>
        \A n \in registry :
            ntype[n] # "EXP_TASK" =>
                finalNode \in Reach({n})
=============================================================================
