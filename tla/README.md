# TLA+ models of libtdg

libtdg is an OMPT tool. The OpenMP runtime loads it. While the program runs, its
callbacks build a task dependency graph (TDG). At program end, finalize computes
metrics over that graph. This directory holds TLA+ models of the tool's
concurrent graph construction and of its metric computation, and the TLC runs
that check them.

## The system

| Part | Source | What it does |
|---|---|---|
| Graph, Node, Edge | `src/graph.h`, `src/graph.cc` | Nodes are registered in `Graph::_graphNodes`, a `std::map` guarded by `_addMutex`. Each node has `_exitEdges` and `_entryEdges`, each with its own mutex. `connectNodes` checks `isConnectedWith`, then pushes one `Edge*` to both vectors. `disconnectNodes` erases the edge from each vector, in two separate critical sections. |
| OMPT callbacks | `src/callbacks.cc` | Runtime threads call these concurrently. `cb_task_create` makes the root node. `cb_parallel_begin` makes the region's sink and its `ParallelRegionData`. Each thread's `cb_implicit_task` begin makes its task node. At each barrier, `cb_sync_region` merges the threads' nodes into one barrier node: the first thread to arrive creates it under `_barrier_mutex`, and later threads connect to it. Each thread then gets a continuation node. `cb_implicit_task` end removes the unused continuation and joins the sink. `cb_parallel_end` frees `ParallelRegionData`. Explicit tasks, task switches and worksharing loops and chunks add further nodes and time. |
| Metrics | `src/metrics.h`, `src/metrics.cc`, `Graph::topoSort` | `CriticalPathMetric` topologically sorts the graph (DFS with `_visited`, then levels), scans it for the heaviest path, and flags that path. `TotalTimeMetric` sums times and computes statistics. `SimpleDotFileMetric` writes the graph. `LogFileMetric` writes the chunk nodes. |
| Initialisation and finalisation | `src/init.cc` | `init_libtdg` registers the callbacks. `finalize_libtdg` splits `TDG_TOOL_METRICS` into comma-separated tokens, creates one metric per token, runs every `init`, then every `printMetric`. |
| Timer, PAPI, test programs, empty tool | `src/timer/*`, PAPI calls, `src/fib`, `src/mm`, `src/task_test`, `*_empty.cc` | These are I/O, hardware counters and example programs. |

The two phases interact only through the graph. The callbacks build it
concurrently. Finalize reads it after every thread has stopped, together with
the scratch fields the metrics leave on its nodes.

## Modules

- **GraphCalls**: the calls `connect(s,t)` and `disconnect(s,t)`, and their
  effect on an edge multiset.
- **AbstractGraph**: what the graph operations promise. Each call takes effect
  atomically at some point between its invocation and its return.
- **TDGraph** models `graph.cc` lines 48-60 and 241-282.
  - State:
    - `exits[s][t]` and `entries[t][s]` count the `Edge*` in the two vectors;
    - `exitsMutex` and `entriesMutex` hold the owner of each node's mutex;
    - a `pc` per thread.
  - One action per critical section:
    - `ConnectLockExits`: lock the exits mutex and test `isConnectedWith`. Return if the pair is connected.
    - `ConnectLockEntries`: lock exits and entries, as `connectNodes` does at 246-247.
    - `ConnectPush`: push to both vectors and unlock.
    - `DisconnectExits`: erase from the exits.
    - `DisconnectEntries`: erase from the entries.
  - `Abstract` instantiates AbstractGraph with the refinement mapping. The edges are the exits multiset. A call's linearisation point is the push, or the exits erase, or a connect's failed check.
- **ParallelRegion** models `callbacks.cc` for one parallel region: the initial
  task, `cb_parallel_begin`, up to `MaxTeam` threads through `NBarriers` barriers,
  implicit-task end and `cb_parallel_end`.
  - Node ids come from `Node::_nextId`.
  - `registry` is `_graphNodes`. `freed` records deleted nodes.
  - `par` says whether `ParallelRegionData` exists, or has been freed.
  - Thread-local state: `currTask`, `currBarrier`, and the `par_info` pointer read at line 398 (`parLocal`).
  - `cb_sync_region` begin is split where another thread can act:
    - `BarrierLock`: lock the mutex.
    - `BarrierCount`: `_barrier_cnt++ == 0`.
    - `BarrierPublish`: create or connect, reset, unlock.
    - `BarrierContinue`: the continuation node.
  - Barrier end is split into `BarrierEndRead` (line 398) and `BarrierEndUse` (line 446).
  - Graph operations are atomic here. In this protocol each pair is touched by one thread only, and for such callers TDGraph refines AbstractGraph.
- **Metrics** models `finalize_libtdg` and the metrics over the frozen graph.
  - Init chooses any DAG over `Ids`, with node times from `Times` and a `TDG_TOOL_METRICS` value.
  - `ParseTokens` is `parse_tokens`. `CreateMetrics` is the if-chain at 190-214. An unmatched token gives `"garbage"`.
  - `InitMetric` runs one metric's `init`. Calling through garbage is `"crashed"`.
  - `PrintMetric` records what each metric prints. For `tim` it records only the sums; Stats models that metric in full.
  - `PrintCritical` is `CriticalPathMetric::printMetric`. It computes the path there, lazily, as `getMetric` does when `_critical_path_time_len` is still -1: `topoSort` (`visitNode` and `VisitAll`, recursive, then `Leveled` and `Regroup`), then `CriticalScan` and `CriticalChain`.
  - `EntrySeq` and `ExitSeq` put each node's adjacency in ascending id order. The code keeps arrival order: a barrier node's entries come in the order the threads arrived. No property depends on that order: the critical-path tie-break runs over the entries of each node, and `CriticalPathReported` and `CriticalPathFlagged` hold whichever heaviest predecessor wins.
  - `printDotFile` is `Graph::printDotFile`. For each registered node in id order it writes the node's line (`printToStream`: id, time, `idToStr` label, doublecircle when critical), then a line per exit edge.
  - `LogLines` is `LogFileMetric::printMetric`: a line per chunk node in registry order.
  - `_visited`, `_level`, `_pathLength`, `_pathTime`, `_prevCritical` and `_isCritical` are variables, because they outlive a metric.
  - The reference definitions are independent of the code:
    - `Paths` enumerates every path;
    - `RefCriticalTime` is the heaviest path weight;
    - `RefLevel` is the longest path to a node.

- **TaskTiming** models node time accounting on the master thread of a
  program whose parallel region has a team of one (so `cb_sync_region` returns
  at its `_team_size > 1` test).
  - `now` is `ftimer_msec()`. `Tick` is user code running; callbacks take no time.
  - `totalTime` and `lastTime` are `_totalTime` and `_lastTime`. `addTime(n)` and `Stamp(S)` are `Node::addTime` and `setLastTime`.
  - `taskNode[t]` is each task's `_curr_task_node`. `ws` is the implicit task's `WorksharingData` (`NoWs` for NULL). `finalNode` is `g_finalNode`.
  - Actions, one per callback:
    - `TaskCreateInitial`, `TaskCreateExplicit(e)`;
    - `TaskSwitch(e)` and `TaskComplete(next)`, both through `Schedule` = `cb_task_schedule`;
    - `ParallelBegin`, `ImplicitTaskBegin`, `LoopBegin`, `Chunk(last)`, `LoopEnd`, `ImplicitTaskEnd`, `ParallelEnd`;
    - `Finalize` (init.cc 174-175).
  - The runtime is the environment. It runs tied tasks: a task started at a scheduling point descends from the running one (`stack`, `parentOf`). `InLoopSwitch` says whether a scheduling point can occur inside a loop chunk.
- **RegionTiming** models the node time accounting of one parallel region with a team of `NThreads` threads. They pass `NBarriers` barriers and run the explicit tasks `Explicit`, created by any thread.
  - `now`, `totalTime`, `lastTime`, `AddTime` and `Stamp` are as in TaskTiming.
  - `cb_sync_region` begin is one action, `BarrierBegin`: `addTime` on the current node, the barrier node (created by the first arrival, `BarrierCount`), and the continuation stamped at creation. `BarrierEnd` stamps the continuation again (line 448).
  - `ImplicitTaskEnd` removes the last continuation from `_graphNodes` (lines 252-254). `ParallelEnd` and `Finalize` close the root and `g_finalNode`.
  - The runtime is the environment. A barrier ends once every thread has reached it and no task is pending or running. `InBarrierTasks` says whether a waiting thread may run a pending task (`TaskStart` from `tpc = "wait"`). Without that, every task must be done before a thread enters a barrier.
  - Two bookkeeping variables hold what each thread should be charged: `busy[t]` counts the ticks while thread t runs code outside a barrier wait, and `credit[t]` counts the time `addTime` has given to nodes on its behalf.
- **LoopCounter** models `ThreadData::_loopCounter` across a pool of threads, regions of chosen team sizes and loops:
  - `cb_thread_begin` and `cb_thread_end`;
  - the counter's increment at `cb_ext_loop` end;
  - the stamp `cb_ext_chunk` puts on each chunk node (`chunkLog`).
- **Stats** models `TotalTimeMetric` (constructor, `init`, `printMetric`) and `compute_stats`.
  - Init chooses any registry of up to `MaxNodes` nodes, each with a type and a time.
  - Doubles are exact rationals `<<num, den>>`. A double never assigned is `Undef`.
  - The variance stands for the printed deviation, which is its square root.
  - `OrderStat(k)`, the k-th smallest by counting, is the reference for the sort-based min, max, quartiles and median.

MC modules (MCTDGraph, MCParallelRegion, MCMetrics, MCTaskTiming,
MCLoopCounter, MCStats, MCRegionTiming) give the constants their values.

## Runs

| Run | Expect | What it shows |
|---|---|---|
| graph_ops (`MCTDGraph.cfg`) | pass | There are 3 threads, each making up to 3 calls on its own pairs among nodes {a,b,c}: t1 owns a→b and a→c, t2 owns c→b and b→a, t3 owns b→c. The pairs give a fan-in on b, a fan-out from a, and a→b against b→a. Under every interleaving, nobody deadlocks (`NoDeadlock`). Every call returns (`CallsReturn`, under weak fairness). When no call is in flight, every edge is on both sides (`NoOneSidedEdge`). The implementation refines AbstractGraph (`Linearizable`). |
| region (`MCParallelRegion.cfg`) | pass | Requested team sizes 1 and 3, each granted in full, with 2 barriers. `Acyclic`: the graph stays acyclic. `BarrierMerge`: each barrier round has one node, with an in-edge from every thread that has joined it. `NoDanglingNode`: no edge or registry entry names a deleted node. `SinkJoinsRegion`: once the region ends, every node reaches the sink. `RegionCompletes`: every run reaches the end. |
| region_short_team | violation | The runtime gives 1 thread where 2 were requested, and the graph gets a cycle (`Acyclic`). |
| region_late_barrier_end | violation | A worker's barrier-end callback dereferences the `ParallelRegionData` that `cb_parallel_end` has deleted (`NoUseAfterFree`). |
| metrics (`MCMetrics.cfg`) | pass | Runs over every DAG on ids {0..3} with times {0,1,2}, and `tim,cri,dot,log` selected. `TopoLeveled`: topoSort gives a topological order whose levels are the longest-path depths, grouped by level. `CriticalPathReported`: the printed critical time is the heaviest path weight. `CriticalPathFlagged`: the flagged nodes form such a path, and a dot file written after the critical path draws exactly those nodes as doublecircles. |
| task_timing (`MCTaskTiming.cfg`) | pass | Two explicit tasks, which may nest, two loops and three chunks, on one thread. `TimeAccounted`: the node times plus the open interval always equal the elapsed time. `FinalReachable`: at the end, every node except explicit-task nodes reaches `g_finalNode`. |
| task_timing_in_loop | violation | With a task switch inside a chunk, the explicit task's time is also counted in the open chunk or start node (`TimeAccounted`). |
| loop_counter (`MCLoopCounter.cfg`) | pass | Three threads, two regions with the full team, up to two loops each. `LoopCounterAgrees`: chunk nodes of one loop carry one counter, and different loops carry different counters. |
| loop_counter_teams | violation | A region with a team of two leaves thread 2's counter behind, and a later loop's chunks carry two counters (`LoopCounterAgrees`). This is what the comment at `callbacks.cc:512` says cannot happen. |
| region_timing (`MCRegionTiming.cfg`) | pass | Two threads, two barriers and two explicit tasks run in user code. `ThreadTimeAccounted`: each thread's time in the nodes plus its open interval equals the time it ran outside barrier waits. `RegistryTime`: the node times in `_graphNodes` sum to everything `addTime` charged, so no removed continuation took time with it. `CriticalPathWithinElapsed`: no path through nodes other than explicit tasks' weighs more than the elapsed time, because the intervals along such a path were measured one after another. |
| region_timing_barrier_tasks | violation | A thread waiting in a barrier runs a pending task. `cb_task_schedule` adds its wait to its continuation node (`ThreadTimeAccounted`). The comment at `callbacks.cc:431-433` says barrier time is not measured. The run checks `ThreadTimeAccounted` only. Checked under the same cfg, `RegistryTime` and `CriticalPathWithinElapsed` are violated too: at the last barrier the continuation is deleted with the wait time in it, and the wait is counted on a path after the other thread's work before the barrier. |
| stats (`MCStats.cfg`) | pass | Every registry of up to 4 nodes with times 0..3. `OrderStatsPrinted`: min, max, quartiles and median are the order statistics spec.md 4.3 names. `MomentsPrinted`: total, average and variance are the population moments, and the chunk and explicit sums cover their nodes. |

The findings in `PROJECT.json` describe each violation.

Every property of a passing run has a mutant in `PROJECT.json`: a plausible bug
in the mapped definition, which TLC must catch. Examples:

- the barrier counter reset with `>` instead of `>=`;
- barrier arrival without the mutex;
- a disconnect that erases the exits entry even when none is present;
- a connect that skips `isConnectedWith`.

## Bounds

- **graph_ops.** 3 threads and 3 nodes is the smallest setting where:
  - two calls contend for the same exits mutex while a third contends for the entries mutex;
  - the lock order could form a cycle (a→c, c→b and b→a, or a→b against b→a).

  3 calls per thread lets a pair be connected, disconnected and connected again.
- **region.**
  - A team of 3 has one first arrival and two later ones. This covers the reset on the last arrival and a middle arrival that must not reset.
  - 2 barrier rounds cover reuse of the counter after a reset.
  - The team of 1 covers the `_team_size > 1` early returns.
- **metrics.** 4 nodes give diamonds, chains, tie-breaks between equally heavy predecessors, and level skips. Times 0..2 give ties and zero-time nodes.
- **task_timing.** Two explicit tasks let a task create and run a child and let a task complete into a pending sibling. Two loops with three chunks cover:
  - a loop with no chunk (start joined to the sink);
  - a chunk closed by the next chunk, by a `last` chunk, and by the loop end.

  `MaxTime` 2 lets time pass in two different intervals. All ids fit in `Ids`.
- **loop_counter.** Three threads and two regions are the least that lets a thread miss a region and then share a later loop. The pass run gives every region the whole team, as `OMP_NUM_THREADS` does. The violation run adds a team of 2.
- **region_timing.** Two threads give one first and one later barrier arrival. Two barriers cover the reset of `_barrier_cnt` and a continuation that is not the last. Two tasks let the threads run tasks at the same time. `MaxTime` 2 lets time pass in two intervals.
- **stats.** 4 nodes cover even and odd sizes, the quartile indices 0..3 and repeated times. Times 0..3 give distinct and equal values.
- **Violation runs.** These use the smallest setting that shows the violation.

## Fairness

- **TDGraph.** Each thread's lock steps are weakly fair. A `std::mutex` held for one push is eventually released, and a runnable thread is eventually scheduled.
- **ParallelRegion.** Each team thread's callback steps, and the master's region steps, are weakly fair. Nothing in a callback waits, except on `_barrier_mutex`, which is held for one step. The runtime ends a barrier round once every thread has entered it; this is part of the barrier-end guard.
- **TaskTiming, RegionTiming, LoopCounter, Stats.** These check safety only, with no fairness. Their runs are finite and end in `Terminated`, so deadlock checking also shows that every run reaches the end.
- **Metrics.** Finalize is sequential and its run stops. Its only liveness is termination, and the finite model reaches it.

## Known issues without a run

- **Critical path length.** `CriticalPathMetric` prints the number of edges on the critical path (metrics.cc:83). spec.md counts its vertices.
- **Malformed `TDG_TOOL_METRICS`.** A trailing comma or an unknown token such as `timcri` leaves a `g_metrics` entry uninitialised (init.cc 190-214), and finalize calls through it. Metrics models the crash branch (`InitMetric`). These two are plain sequential bugs, which a unit test reaches.

- **Duplicate edges.** Two threads connecting the same pair both pass `isConnectedWith` and both push. The callbacks never do this: each pair is connected by one thread, which is the case `graph_ops` checks.
- **Repeated `cri`.** With `TDG_TOOL_METRICS=cri,cri`, the second critical-path metric finds every `_visited` flag set and prints 0.
- **Empty graph.** With an empty registry, `TotalTimeMetric::printMetric` prints `_nodes_avg_time`, `_nodes_time_stddev` and `_nodes_med_time`, which nothing assigned (metrics.cc 175-177). This needs a finalize without an initial-task callback.
- **Critical path longer than the run.** An explicit task's node hangs off the node its creator was in (callbacks.cc 330-331). That node keeps accumulating time while the task runs on another thread. So the path from the creator's node to the task node can weigh more than the elapsed time, and so can the reported critical path. TLC shows this in RegionTiming when the property covers all nodes: with 1 ms elapsed, a path of weight 2. `CriticalPathWithinElapsed` therefore excludes explicit-task nodes.
- **Tasks created in a chunk.** An explicit task created inside a loop chunk is connected from the implicit task's `_curr_task_node`, which is the node before the loop, not the chunk (callbacks.cc 330-331). TaskTiming reproduces this.

## Not modelled

- **Timing of loops in larger teams.** RegionTiming times barriers and tasks for a team of two, and TaskTiming times loops for a team of one. No model combines loops, barriers and times.
  - Each thread's loop has its own `WorksharingData`, start node and sink. A loop's nodes are timed by that thread alone, so in a team a loop's time behaves as in TaskTiming.
  - The loop's end is followed by a barrier of the kind RegionTiming models.
  - A combined model would repeat TaskTiming's loop actions and multiply RegionTiming's state space, which is already about 1.2 million states, without a new question.
- **Callbacks the runtime refuses.** `INIT_CALLBACK` only prints when `ompt_set_callback` does not return `ompt_set_always` (init.cc 39-45). Without `implicit_task`, later callbacks read a NULL `TaskData`. An explicit task whose parent has no `TaskData` then gets id 0 from `create_clean_node`. The models assume the runtime delivers every callback the tool registers.
- **Nested parallel regions.** An inner region's `ParallelRegionData` is its own: its own sink, barrier counter and barrier node. Its parent task is the encountering thread's implicit task, whose `_curr_task_node` becomes the inner sink at `cb_parallel_end`. So an inner region is a region as ParallelRegion and RegionTiming model it, started from a thread's current node instead of the root.
  - The one shared state is `g_finalNode`. Inner regions ending on different threads write it without a lock. The outer `cb_parallel_end` writes it after the join, so the final value is the outer sink.
  - A nested region that the runtime serialises to one thread, while `requested_team_size` is larger, is the short-team case of `region_short_team`, provided the runtime reports its barriers.
  - A model with two levels would repeat the region actions per level without a new question, so none is written.
- **The id-0 branch of `create_clean_node`.** An explicit task whose parent has no `TaskData` would get id 0, the root's id. Under the runtime every encountering task has `TaskData`: the initial task from `cb_task_create`, implicit tasks from `cb_implicit_task` begin. So the branch is dead while the runtime delivers every callback (see below), and nothing models it.
- **Text formats.** The dot and log files are modelled as sequences of line records. The models leave out the punctuation, type names, fill colours, PAPI values, and a chunk's thread, loop counter and iteration bounds (`setLowerUpper`). No property tells these apart. An export file that cannot be opened exits with status -2, which the model does not distinguish from the run's end.
- **Timer calibration.** `init_clock_time` reads `.cpu_freq` with `strtod`. A file that does not start with a number gives `g_timerfreq` 0 (timer.c), and every `ftimer_msec` then divides by zero. This is sequential I/O; the timing models take `now` as exact.
- **Empty callbacks.** `cb_task_dependences`, `cb_task_dependence` and `cb_work` have empty bodies.

Timer, PAPI, the empty tool variant and the test programs are out of scope: they are I/O, hardware or code that only traces.
