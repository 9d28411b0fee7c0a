------------------------------ MODULE Metrics ------------------------------
(***************************************************************************)
(* finalize_libtdg (src/init.cc) and the metrics it runs over the frozen   *)
(* task graph (src/metrics.cc, Graph::topoSort in src/graph.cc).           *)
(*                                                                         *)
(* The graph is chosen in Init: the registered ids, the edges (a DAG) and  *)
(* each node's _totalTime.  Adjacency vectors are in ascending id order of *)
(* the other endpoint, the order in which nodes are created.  The value of *)
(* TDG_TOOL_METRICS is a sequence of words and ","s: a token is the words  *)
(* between two commas, and names a metric only if it is one known word.   *)
(*                                                                         *)
(* Node's scratch fields (_visited, _level, _pathLength, _pathTime,        *)
(* _prevCritical, _isCritical) are variables: they outlive a metric.       *)
(***************************************************************************)
EXTENDS Integers, Graphs, Functions

CONSTANTS Ids,        \* ids in Graph::_graphNodes (std::map: ascending)
          Times,      \* values of Node::_totalTime
          EnvValues,  \* values of TDG_TOOL_METRICS
          ChunkIds    \* ids of CHUNK_TASK nodes

ASSUME Ids \subseteq Nat /\ Times \subseteq Nat /\ ChunkIds \subseteq Ids

NULL == -1

Words == {"tim", "cri", "dot", "log"}

VARIABLES
    edges,         \* the graph's edges
    time,          \* time[n]: n->_totalTime
    env,           \* the TDG_TOOL_METRICS string
    visited,       \* Node::_visited
    level,         \* Node::_level
    pathLength,    \* Node::_pathLength
    pathTime,      \* Node::_pathTime
    prevCritical,  \* Node::_prevCritical
    isCritical,    \* Node::_isCritical
    tokens,        \* tokens_v
    metrics,       \* g_metrics[i]: the kind of object, or "garbage"
    pc,            \* finalize_libtdg's step
    i,             \* index of its current loop
    topo,          \* topo_list of the last computeCriticalPath
    out            \* what printMetric printed, in order

vars == <<edges, time, env, visited, level, pathLength, pathTime,
          prevCritical, isCritical, tokens, metrics, pc, i, topo, out>>

Dags == {E \in SUBSET {e \in Ids \X Ids : e[1] # e[2]} :
            IsDag([node |-> Ids, edge |-> E])}

\* Sources of n's entry edges and targets of its exit edges, in vector order.
EntrySeq(n) == SetToSortSeq({p \in Ids : <<p, n>> \in edges}, <)
ExitSeq(n) == SetToSortSeq({s \in Ids : <<n, s>> \in edges}, <)

Init ==
    /\ edges \in Dags
    /\ time \in [Ids -> Times]
    /\ env \in EnvValues
    /\ visited = [n \in Ids |-> FALSE]
    /\ level = [n \in Ids |-> -1]
    /\ pathLength = [n \in Ids |-> 0]
    /\ pathTime = [n \in Ids |-> 0]
    /\ prevCritical = [n \in Ids |-> NULL]
    /\ isCritical = [n \in Ids |-> FALSE]
    /\ tokens = <<>>
    /\ metrics = <<>>
    /\ pc = "parse"
    /\ i = 1
    /\ topo = <<>>
    /\ out = <<>>

-----------------------------------------------------------------------------
(* parse_tokens: commas + 1 tokens if the string is not empty.             *)

RECURSIVE SplitTokens(_)
SplitTokens(s) ==
    LET k == SelectInSeq(s, LAMBDA w : w = ",")
    IN IF k = 0 THEN <<s>>
       ELSE <<SubSeq(s, 1, k - 1)>> \o SplitTokens(SubSeq(s, k + 1, Len(s)))

ParseTokens(s) == IF s = <<>> THEN <<>> ELSE SplitTokens(s)

\* The object the if-chain of finalize_libtdg allocates for a token: none
\* of the ifs matches an unknown token, and g_metrics[i] stays as new[]
\* left it, uninitialised.
MetricOf(tok) ==
    IF Len(tok) = 1 /\ tok[1] \in Words THEN tok[1] ELSE "garbage"

-----------------------------------------------------------------------------
(* Graph::topoSort                                                         *)

RECURSIVE visitNode(_, _), VisitAll(_, _)

\* Faulty variant (push_back for push_front).
visitNodeAppend(n, st) ==
    LET st2 == VisitAll(ExitSeq(n), [st EXCEPT !.vis = @ \cup {n}])
    IN [st2 EXCEPT !.lst = @ \o <<n>>]

\* Graph::visitNode: mark n, visit its unvisited exit targets in order,
\* then push n to the front.  st is [vis, lst].
visitNode(n, st) ==
    LET st2 == VisitAll(ExitSeq(n), [st EXCEPT !.vis = @ \cup {n}])
    IN [st2 EXCEPT !.lst = <<n>> \o @]

VisitAll(ns, st) ==
    IF ns = <<>> THEN st
    ELSE VisitAll(Tail(ns), IF Head(ns) \in st.vis THEN st
                            ELSE visitNode(Head(ns), st))

\* The level loop: 1 + the greatest level of an entry source, 0 if none.
Leveled(lst, lvl) ==
    FoldLeft(LAMBDA l, n : [l EXCEPT ![n] =
                 Max({0} \cup {l[p] + 1 : p \in ToSet(EntrySeq(n))})],
             lvl, lst)

\* `while (... getLevel() == i) ++start_iter`
RECURSIVE SkipLevel(_, _, _, _)
SkipLevel(seq, k, lv, lvl) ==
    IF k <= Len(seq) /\ lvl[seq[k]] = lv THEN SkipLevel(seq, k + 1, lv, lvl) ELSE k

\* The regrouping loop: for lv in 0 .. maxLevel-1, every later node of
\* level lv is moved, in order, before start_iter, which stays on its node.
RECURSIVE Regroup(_, _, _, _, _)
Regroup(seq, k, lv, maxLevel, lvl) ==
    IF lv >= maxLevel THEN seq
    ELSE LET k2 == SkipLevel(seq, k, lv, lvl)
         IN IF k2 > Len(seq) THEN seq
            ELSE LET rest == SubSeq(seq, k2 + 1, Len(seq))
                     moved == SelectSeq(rest, LAMBDA n : lvl[n] = lv)
                     kept == SelectSeq(rest, LAMBDA n : lvl[n] # lv)
                 IN Regroup(SubSeq(seq, 1, k2 - 1) \o moved \o <<seq[k2]>> \o kept,
                            k2 + Len(moved), lv + 1, maxLevel, lvl)

\* Graph::topoSort over the std::map of nodes, from the nodes already
\* _visited and the current _level: [vis, lst, lvl].
topoSort(vis, lvl) ==
    LET st == VisitAll(SetToSortSeq(Ids, <), [vis |-> vis, lst |-> <<>>])
        lv == Leveled(st.lst, lvl)
        maxLevel == Max({-1} \cup {lv[n] : n \in ToSet(st.lst)})
    IN [vis |-> st.vis, lvl |-> lv,
        lst |-> Regroup(st.lst, 1, 0, maxLevel, lv)]

-----------------------------------------------------------------------------
(* CriticalPathMetric::computeCriticalPath                                 *)

\* Faulty variants: the candidate adds the running maximum instead of the
\* node's own time; the running maximum starts at 0, not the node's time.
BestPredAccumulate(n, pt, prev) ==
    FoldLeft(LAMBDA acc, p : IF pt[p] + acc[1] > acc[1]
                             THEN <<pt[p] + acc[1], p>> ELSE acc,
             <<time[n], prev[n]>>, EntrySeq(n))

BestPredFromZero(n, pt, prev) ==
    FoldLeft(LAMBDA acc, p : IF pt[p] + time[n] > acc[1]
                             THEN <<pt[p] + time[n], p>> ELSE acc,
             <<0, prev[n]>>, EntrySeq(n))

\* The entry-edge loop's time part: strict `>`, starting from the node's
\* own time, so the first maximal source wins and a source whose path
\* time is 0 is never recorded.  Returns <<pathTime, prevCritical>>.
BestPred(n, pt, prev) ==
    FoldLeft(LAMBDA acc, p : IF pt[p] + time[n] > acc[1]
                             THEN <<pt[p] + time[n], p>> ELSE acc,
             <<time[n], prev[n]>>, EntrySeq(n))

\* Faulty variant: _prevCritical recorded where the path length grows (the
\* commented-out line of the length branch), not where the time does.
ScanNodePrevByLength(st, n) ==
    LET len == Max({0} \cup {st.len[p] + 1 : p \in ToSet(EntrySeq(n))})
        best == BestPred(n, st.time, st.prev)
        byLen == FoldLeft(LAMBDA acc, p : IF st.len[p] + 1 > acc[1]
                                          THEN <<st.len[p] + 1, p>> ELSE acc,
                          <<0, st.prev[n]>>, EntrySeq(n))
    IN [st EXCEPT !.len[n] = len, !.time[n] = best[1], !.prev[n] = byLen[2],
                  !.cpLen = IF len > @ THEN len ELSE @,
                  !.last = IF best[1] > st.cpTime THEN n ELSE @,
                  !.cpTime = IF best[1] > @ THEN best[1] ELSE @]

\* The scan of topo_list: each node's path length and time, and the
\* running maxima (strict `>`), with the node reaching the time maximum.
ScanNode(st, n) ==
    LET len == Max({0} \cup {st.len[p] + 1 : p \in ToSet(EntrySeq(n))})
        best == BestPred(n, st.time, st.prev)
    IN [st EXCEPT !.len[n] = len, !.time[n] = best[1], !.prev[n] = best[2],
                  !.cpLen = IF len > @ THEN len ELSE @,
                  !.last = IF best[1] > st.cpTime THEN n ELSE @,
                  !.cpTime = IF best[1] > @ THEN best[1] ELSE @]

CriticalScan(lst) ==
    FoldLeft(ScanNode,
             [len |-> pathLength, time |-> pathTime, prev |-> prevCritical,
              cpLen |-> 0, cpTime |-> 0, last |-> NULL],
             lst)

\* The marking loop: from the last critical node back along _prevCritical.
RECURSIVE CriticalChain(_, _)
CriticalChain(n, prev) ==
    IF n = NULL THEN {} ELSE {n} \cup CriticalChain(prev[n], prev)

-----------------------------------------------------------------------------
(* finalize_libtdg                                                         *)

\* parse_tokens(metrics_env, tokens_v).
Parse ==
    /\ pc = "parse"
    /\ tokens' = ParseTokens(env)
    /\ pc' = "create"
    /\ UNCHANGED <<edges, time, env, visited, level, pathLength, pathTime,
                   prevCritical, isCritical, metrics, i, topo, out>>

\* g_metrics = new Metric*[num_metrics] and the if-chain per token.
CreateMetrics ==
    /\ pc = "create"
    /\ metrics' = [k \in 1 .. Len(tokens) |-> MetricOf(tokens[k])]
    /\ pc' = IF tokens = <<>> THEN "done" ELSE "init"
    /\ i' = 1
    /\ UNCHANGED <<edges, time, env, visited, level, pathLength, pathTime,
                   prevCritical, isCritical, tokens, topo, out>>

\* g_metrics[i]->init(g_tdg).  A garbage pointer's virtual call is
\* undefined; the build takes the crash.  TotalTimeMetric::init sums the
\* times once; it is printed later and no later step changes a time.
InitMetric ==
    /\ pc = "init"
    /\ IF metrics[i] = "garbage"
         THEN /\ pc' = "crashed"
              /\ UNCHANGED i
         ELSE /\ pc' = IF i = Len(metrics) THEN "print" ELSE "init"
              /\ i' = IF i = Len(metrics) THEN 1 ELSE i + 1
    /\ UNCHANGED <<edges, time, env, visited, level, pathLength, pathTime,
                   prevCritical, isCritical, tokens, metrics, topo, out>>

\* g_metrics[i]->printMetric(std::cout).  "cri": getMetric finds the new
\* object's _critical_path_time_len < 0 and runs computeCriticalPath: the
\* topological sort, the scan and the marking, then prints time and length.
PrintCritical ==
    LET ts == topoSort({n \in Ids : visited[n]}, level)
        cp == CriticalScan(ts.lst)
    IN /\ visited' = [n \in Ids |-> n \in ts.vis]
       /\ level' = ts.lvl
       /\ topo' = ts.lst
       /\ pathLength' = cp.len
       /\ pathTime' = cp.time
       /\ prevCritical' = cp.prev
       /\ isCritical' = [n \in Ids |->
                            isCritical[n] \/ n \in CriticalChain(cp.last, cp.prev)]
       /\ out' = Append(out, [kind |-> "cri", time |-> cp.cpTime, len |-> cp.cpLen])

\* The registry in std::map order.
RegistryOrder == SetToSortSeq(Ids, <)

\* Node::idToStr: a chunk is labelled by its _loopCounter and iteration
\* bounds (one label here, as nothing tells them apart), any other node
\* by its id.
idToStr(n) == IF n \in ChunkIds THEN "counter [lower, upper]" ELSE n

\* Node::printToStream: the node's line with its id, _totalTime, label and
\* the doublecircle shape when _isCritical (type and fill colour follow
\* the type and are left out).
printToStream(n) ==
    [kind |-> "node", id |-> n, time |-> time[n], label |-> idToStr(n),
     critical |-> isCritical[n]]

\* Graph::printDotFile: for each registered node, its line followed by a
\* line per exit edge, in the exits vector's order.
printDotFile ==
    FlattenSeq([k \in 1 .. Len(RegistryOrder) |->
        LET n == RegistryOrder[k]
        IN <<printToStream(n)>>
             \o [j \in 1 .. Len(ExitSeq(n)) |->
                    [kind |-> "edge", from |-> n, to |-> ExitSeq(n)[j]]]])

\* LogFileMetric::printMetric: a line per CHUNK_TASK node in registry
\* order, with its id and _totalTime (thread, loop counter and bounds are
\* labels).
LogLines ==
    LET chunks == SelectSeq(RegistryOrder, LAMBDA n : n \in ChunkIds)
    IN [k \in 1 .. Len(chunks) |-> [id |-> chunks[k], time |-> time[chunks[k]]]]

\* "tim": the sums TotalTimeMetric::init computed; "dot": the dot file's
\* lines; "log": the log file's lines.
PrintOther(m) ==
    /\ out' = Append(out,
         CASE m = "tim" -> [kind |-> "tim",
                            total |-> SumFunctionOnSet(time, Ids),
                            tasks |-> Cardinality(Ids),
                            chunks |-> SumFunctionOnSet(time, ChunkIds)]
           [] m = "dot" -> [kind |-> "dot", lines |-> printDotFile]
           [] m = "log" -> [kind |-> "log", lines |-> LogLines])
    /\ UNCHANGED <<visited, level, pathLength, pathTime, prevCritical,
                   isCritical, topo>>

PrintMetric ==
    /\ pc = "print"
    /\ IF metrics[i] = "cri" THEN PrintCritical ELSE PrintOther(metrics[i])
    /\ pc' = IF i = Len(metrics) THEN "done" ELSE "print"
    /\ i' = IF i = Len(metrics) THEN i ELSE i + 1
    /\ UNCHANGED <<edges, time, env, tokens, metrics>>

\* finalize_libtdg has returned, or the process has crashed.
Terminated ==
    /\ pc \in {"done", "crashed"}
    /\ UNCHANGED vars

Next == Parse \/ CreateMetrics \/ InitMetric \/ PrintMetric \/ Terminated

Spec == Init /\ [][Next]_vars

-----------------------------------------------------------------------------
(* Properties, against reference definitions over the graph's paths        *)

Pcs == {"parse", "create", "init", "print", "done", "crashed"}

MaxWeight == Cardinality(Ids) * Max(Times)

TypeOK ==
    /\ edges \subseteq Ids \X Ids
    /\ time \in [Ids -> Times]
    /\ visited \in [Ids -> BOOLEAN]
    /\ level \in [Ids -> -1 .. Cardinality(Ids) - 1]
    /\ pathLength \in [Ids -> 0 .. Cardinality(Ids) - 1]
    /\ pathTime \in [Ids -> 0 .. MaxWeight]
    /\ prevCritical \in [Ids -> Ids \cup {NULL}]
    /\ isCritical \in [Ids -> BOOLEAN]
    /\ metrics \in Seq(Words \cup {"garbage"})
    /\ pc \in Pcs
    /\ topo \in Seq(Ids)

\* The paths of the graph (all simple, as it is acyclic): every node, and
\* every path extended along an edge, up to |Ids| nodes.
RECURSIVE PathsUpTo(_)
PathsUpTo(k) ==
    IF k = 1 THEN {<<n>> : n \in Ids}
    ELSE LET P == PathsUpTo(k - 1)
         IN P \cup UNION {{p \o <<m>> : m \in {m2 \in Ids : <<p[Len(p)], m2>> \in edges}}
                          : p \in P}

Paths == PathsUpTo(Cardinality(Ids))

\* The total time of a path, and the reference heaviest path weight.
Weight(p) == FoldLeft(LAMBDA a, n : a + time[n], 0, p)

RefCriticalTime == Max({0} \cup {Weight(p) : p \in Paths})

\* Spec 4.1: the length of the longest path ending at n, in edges.
RefLevel(n) ==
    Max({Len(p) - 1 : p \in {q \in Paths : q[Len(q)] = n}})

CriRan == \E k \in 1 .. Len(out) : out[k].kind = "cri"

Flagged == {n \in Ids : isCritical[n]}

\* The nodes a dot file draws as doublecircles.
DotCritical(lines) ==
    {lines[k].id : k \in {j \in 1 .. Len(lines) : lines[j].kind = "node" /\ lines[j].critical}}

\* After CriticalPathMetric ran, topoSort's list holds every node once,
\* every edge points forward in it, each node's _level is the length of
\* the longest path to it, and the regrouping left the levels in
\* non-decreasing order (spec 4.1 and 8).
TopoLeveled ==
    CriRan =>
        /\ Len(topo) = Cardinality(Ids) /\ ToSet(topo) = Ids
        /\ \A n \in Ids : level[n] = RefLevel(n)
        /\ \A j, k \in 1 .. Len(topo) :
              /\ j < k => level[topo[j]] <= level[topo[k]]
              /\ <<topo[k], topo[j]>> \in edges => k < j

\* Every critical-path time CriticalPathMetric prints is the greatest
\* total time of a path of the graph, whatever the other selected metrics
\* (spec 4.2; spec 6: selections run independently).
CriticalPathReported ==
    \A k \in 1 .. Len(out) : out[k].kind = "cri" => out[k].time = RefCriticalTime


\* The nodes flagged critical are the nodes of one path of greatest total
\* time (spec 4.2; spec 8: in a diamond only the heavier branch), and a
\* graph description printed after the critical path shows those flags.
CriticalPathFlagged ==
    /\ CriRan /\ RefCriticalTime > 0 =>
          \E p \in Paths :
              ToSet(p) = Flagged /\ Weight(p) = RefCriticalTime
    /\ \A j, k \in 1 .. Len(out) :
          j < k /\ out[j].kind = "cri" /\ out[k].kind = "dot" =>
              DotCritical(out[k].lines) = Flagged
=============================================================================
