--------------------------- MODULE MCExecutorLoop ---------------------------
(***************************************************************************)
(* Small instances of ExecutorLoop for TLC.                                *)
(***************************************************************************)
EXTENDS ExecutorLoop, TLC

CONSTANT j1

\* Two bands: j1 in the first, everything else in the last.
SplitPrio == [x \in Jobs \cup Timers |-> IF x = j1 THEN 1 ELSE 2]

Sym == Permutations(Threads) \cup Permutations(FlowTimers)
=============================================================================
