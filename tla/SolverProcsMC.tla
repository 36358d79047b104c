--------------------------- MODULE SolverProcsMC ---------------------------
(* Two batches: a long one that may be interrupted, and a short one.        *)
EXTENDS SolverProcs
MCBatches == {"b1", "b2"}
MCTasks == [b \in MCBatches |-> IF b = "b1" THEN 2 ELSE 1]
=============================================================================
