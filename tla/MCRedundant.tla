---------------------------- MODULE MCRedundant ----------------------------
(* Model checking instance of Redundant.  The clients are interchangeable. *)
EXTENDS Redundant, TLC

Interchangeable == Permutations(Clients)
=============================================================================
