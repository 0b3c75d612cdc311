-------------------------- MODULE MCCycleConversation --------------------------
(* One cycle on small instances. *)
EXTENDS CycleConversation, TLC

ThreadSymmetry == Permutations(Threads)
=============================================================================
