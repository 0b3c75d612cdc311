-------------------------- MODULE MCPreparationQueue --------------------------
(* The preparation queue on small instances. *)
EXTENDS PreparationQueue, TLC

WorkerSymmetry == Permutations(Workers)
=============================================================================
