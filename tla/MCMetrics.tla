----------------------------- MODULE MCMetrics -----------------------------
EXTENDS Metrics

\* TDG_TOOL_METRICS values.
AllMetrics == {<<"tim", ",", "cri", ",", "dot", ",", "log">>}
DotFirst == {<<"dot", ",", "cri", ",", "dot">>}
=============================================================================
