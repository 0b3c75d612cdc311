--------------------------- MODULE MCAnalysisQueue ---------------------------
(* The analysis queue on small instances. *)
EXTENDS AnalysisQueue, TLC

WorkerSymmetry == Permutations(Workers)
=============================================================================
