------------------------------ MODULE MCStream ------------------------------
(* Model checking instance of StreamConfirmer. *)
EXTENDS StreamConfirmer
=============================================================================
