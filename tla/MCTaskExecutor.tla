--------------------------- MODULE MCTaskExecutor ---------------------------
(* TaskExecutor on small instances for TLC. *)
EXTENDS TaskExecutor, TLC

(* Task and key ids are only compared for equality. *)
Symmetry == Permutations(Tasks) \cup Permutations(Keys)
=============================================================================
