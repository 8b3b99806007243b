------------------------------- MODULE MCCron -------------------------------
(* Cron for TLC: the slots of the async tasks are interchangeable.          *)
EXTENDS Cron, TLC

AnySlot == Permutations(Slots)
=============================================================================
