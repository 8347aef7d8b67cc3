----------------------------- MODULE MCEthereum -----------------------------
(* Model checking instance of EthereumClient. *)
EXTENDS EthereumClient
=============================================================================
