------------------------------- MODULE Stats -------------------------------
(***************************************************************************)
(* TotalTimeMetric (src/metrics.h, src/metrics.cc) and compute_stats       *)
(* (src/graph.cc) over the frozen graph's registry.                        *)
(*                                                                         *)
(* The registry is a sequence of nodes in id order, each a type and a      *)
(* _totalTime.  Times are whole numbers; the doubles computed from them    *)
(* (average, variance, median) are exact rationals <<num, den>>, rounding  *)
(* left out; the printed deviation is the square root of the variance,     *)
(* and the variance is what is modelled.  A double never assigned is the   *)
(* empty tuple Undef.                                                      *)
(***************************************************************************)
EXTENDS Integers, Sequences, SequencesExt, TLC

CONSTANTS Times,      \* values of Node::_totalTime
          MaxNodes    \* bound on the registry's size

ASSUME Times \subseteq Nat /\ MaxNodes \in Nat

\* The types init tells apart; IMP_TASK stands for every other type.
NodeTypes == {"CHUNK_TASK", "EXP_TASK", "IMP_TASK"}
Undef == <<>>

VARIABLES
    nodes,      \* Graph::_graphNodes, in id order
    arr,        \* _node_times_arr
    total,      \* _nodes_total_time
    avg,        \* _nodes_avg_time
    variance,   \* _nodes_time_stddev squared
    median,     \* _nodes_med_time
    numChunks, totalChunkTimes, numExplicit, totalExplicitTimes,
    pc,         \* init, print or done
    out         \* the printed record

vars == <<nodes, arr, total, avg, variance, median, numChunks,
          totalChunkTimes, numExplicit, totalExplicitTimes, pc, out>>

\* TotalTimeMetric's constructor: the total -1, counts and sums 0; the
\* average, deviation and median are left unassigned.
Init ==
    /\ nodes \in BoundedSeq([type : NodeTypes, time : Times], MaxNodes)
    /\ arr = <<>>
    /\ total = -1
    /\ avg = Undef
    /\ variance = Undef
    /\ median = Undef
    /\ numChunks = 0
    /\ totalChunkTimes = 0
    /\ numExplicit = 0
    /\ totalExplicitTimes = 0
    /\ pc = "init"
    /\ out = <<>>

SeqSum(s) == FoldLeft(+, 0, s)

\* The times of the nodes of type ty, in registry order.
TimesOf(ty) == [k \in 1 .. Len(SelectSeq(nodes, LAMBDA x : x.type = ty)) |->
                    SelectSeq(nodes, LAMBDA x : x.type = ty)[k].time]

\* Mutant: the median of an even-sized array is not averaged.
MedianOfUpper(s) == <<s[Len(s) \div 2 + 1], 1>>

\* Mutant: the sample variance (divided by n - 1).
VarianceSample(a, t) ==
    LET n == Len(a)
    IN <<SeqSum([k \in 1 .. n |-> (n * a[k] - t) * (n * a[k] - t)]),
         n * n * (n - 1)>>

\* The median of sorted s: s[size/2], averaged with s[size/2 - 1] when
\* the size is even (indices from 0 in the code, from 1 here).
MedianOf(s) ==
    LET h == Len(s) \div 2
    IN IF Len(s) % 2 = 0 THEN <<s[h + 1] + s[h], 2>> ELSE <<s[h + 1], 1>>

\* variance = sum of (a[k] - avg)^2, divided by n; with avg = t / n this
\* is sum of (n a[k] - t)^2 over n^3.
VarianceOf(a, t) ==
    LET n == Len(a)
    IN <<SeqSum([k \in 1 .. n |-> (n * a[k] - t) * (n * a[k] - t)]), n * n * n>>

\* compute_stats(arr, total, avg, stddev, median): the sums, then the
\* array sorted in place and its median.
ComputeStats(a) ==
    LET t == SeqSum(a)
        sorted == SortSeq(a, <)
    IN [total |-> t, avg |-> <<t, Len(a)>>, variance |-> VarianceOf(a, t),
        sorted |-> sorted, median |-> MedianOf(sorted)]

\* TotalTimeMetric::init: every node's time pushed in registry order,
\* chunk and explicit-task counts and sums; compute_stats when non-empty.
TotalInit ==
    /\ pc = "init"
    /\ LET a == [k \in 1 .. Len(nodes) |-> nodes[k].time]
           st == ComputeStats(a)
       IN IF a # <<>>
            THEN /\ arr' = st.sorted
                 /\ total' = st.total
                 /\ avg' = st.avg
                 /\ variance' = st.variance
                 /\ median' = st.median
            ELSE /\ arr' = a
                 /\ total' = 0
                 /\ UNCHANGED <<avg, variance, median>>
    /\ numChunks' = Len(TimesOf("CHUNK_TASK"))
    /\ totalChunkTimes' = SeqSum(TimesOf("CHUNK_TASK"))
    /\ numExplicit' = Len(TimesOf("EXP_TASK"))
    /\ totalExplicitTimes' = SeqSum(TimesOf("EXP_TASK"))
    /\ pc' = "print"
    /\ UNCHANGED <<nodes, out>>

\* TotalTimeMetric::printMetric: the sums, counts, average, deviation and
\* median; min, max and quartiles indexed into the array when non-empty.
TotalPrint ==
    /\ pc = "print"
    /\ LET n == Len(arr)
           base == [total |-> total, tasks |-> n,
                    chunkTime |-> totalChunkTimes, chunks |-> numChunks,
                    explicitTime |-> totalExplicitTimes, explicit |-> numExplicit,
                    avg |-> avg, variance |-> variance, median |-> median]
       IN out' = IF n > 0
                   THEN [f \in DOMAIN base \cup {"min", "max", "q1", "q2", "q3"} |->
                           CASE f = "min" -> arr[1]
                             [] f = "max" -> arr[n]
                             [] f = "q1"  -> arr[n \div 4 + 1]
                             [] f = "q2"  -> arr[n \div 2 + 1]
                             [] f = "q3"  -> arr[(n * 3) \div 4 + 1]
                             [] OTHER     -> base[f]]
                   ELSE base
    /\ pc' = "done"
    /\ UNCHANGED <<nodes, arr, total, avg, variance, median, numChunks,
                   totalChunkTimes, numExplicit, totalExplicitTimes>>

Terminated ==
    /\ pc = "done"
    /\ UNCHANGED vars

Next == TotalInit \/ TotalPrint \/ Terminated

Spec == Init /\ [][Next]_vars
-----------------------------------------------------------------------------
(* Properties, against definitions by counting rather than sorting         *)

Rationals == {Undef} \cup (Int \X (Nat \ {0}))

TypeOK ==
    /\ arr \in Seq(Times)
    /\ total \in Int
    /\ {avg, variance, median} \subseteq Rationals
    /\ pc \in {"init", "print", "done"}

RatEq(p, q) == p # Undef /\ q # Undef /\ p[1] * q[2] = q[1] * p[2]

Vals == [k \in 1 .. Len(nodes) |-> nodes[k].time]
N == Len(nodes)

\* How many of the registry's times are below v, and at most v.
Below(v) == Len(SelectSeq(Vals, LAMBDA x : x < v))
AtMost(v) == Len(SelectSeq(Vals, LAMBDA x : x <= v))

\* The k-th smallest time, counting from 0.
OrderStat(k) == CHOOSE v \in Times : Below(v) <= k /\ k < AtMost(v)

RefMedian ==
    IF N % 2 = 0 THEN <<OrderStat(N \div 2 - 1) + OrderStat(N \div 2), 2>>
                 ELSE <<OrderStat(N \div 2), 1>>

\* TotalTimeMetric prints min, max and quartiles by indexing the array
\* compute_stats sorted in place, and the median compute_stats took from
\* it (spec.md 4.3: min/max and quartiles at n/4, n/2, 3n/4 of the sorted
\* times, the median averaging the central two when n is even): each is
\* the order statistic of the registry's times it names.
OrderStatsPrinted ==
    pc = "done" /\ N > 0 =>
        /\ out.min = OrderStat(0)
        /\ out.max = OrderStat(N - 1)
        /\ out.q1 = OrderStat(N \div 4)
        /\ out.q2 = OrderStat(N \div 2)
        /\ out.q3 = OrderStat((3 * N) \div 4)
        /\ RatEq(out.median, RefMedian)

\* The printed total, average and deviation are those of the population
\* of node times (spec.md 4.3: divide by n): variance = E[x^2] - E[x]^2;
\* the chunk and explicit-task sums cover exactly the nodes of that type.
MomentsPrinted ==
    pc = "done" /\ N > 0 =>
        LET sum == SeqSum(Vals)
            sq == SeqSum([k \in 1 .. N |-> Vals[k] * Vals[k]])
        IN /\ out.total = sum
           /\ RatEq(out.avg, <<sum, N>>)
           /\ RatEq(out.variance, <<N * sq - sum * sum, N * N>>)
           /\ out.chunkTime + out.explicitTime
                = sum - SeqSum(TimesOf("IMP_TASK"))
=============================================================================
