--------------------------- MODULE MCClientIndex ---------------------------
(* Model checking instance of ClientIndex. *)
EXTENDS ClientIndex
=============================================================================
