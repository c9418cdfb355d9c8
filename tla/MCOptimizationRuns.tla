-------------------------- MODULE MCOptimizationRuns --------------------------
(* OptimizationRuns on a small instance with two tables: that of p1 is full    *)
(* with one job, so that the second is refused; that of p2 takes both, so that *)
(* one waits in the pool while the other has the only thread, or is ahead.     *)
EXTENDS OptimizationRuns, TLC

CONSTANTS r1, r2, p1, p2, c1

SmallTables == [p \in Processes |-> IF p = p1 THEN 1 ELSE 2]
=============================================================================
