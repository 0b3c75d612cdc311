-------------------------- MODULE MCProductCycleQueue --------------------------
(* The product cycle's queue on small instances. *)
EXTENDS ProductCycleQueue
=============================================================================
