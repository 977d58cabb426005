-------------------------- MODULE MCTaskDelivery --------------------------
(* Small instances of TaskDelivery for TLC. *)
EXTENDS TaskDelivery, TLC

Symmetry == Permutations(TaskId)
=============================================================================
