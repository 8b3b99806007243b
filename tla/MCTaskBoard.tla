---------------------------- MODULE MCTaskBoard ----------------------------
(* TaskBoard for TLC: the callers and the task ids are interchangeable.     *)
EXTENDS TaskBoard, TLC

Interchangeable == Permutations(Tasks) \cup Permutations(Callers)
=============================================================================
