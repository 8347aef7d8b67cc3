----------------------------- MODULE MCAlgorand -----------------------------
(* Model checking instance of AlgorandClient. *)
EXTENDS AlgorandClient
=============================================================================
