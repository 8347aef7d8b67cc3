--------------------------- MODULE ReportContract ---------------------------
(***************************************************************************)
(* What core.Interaction (core/blockchain.go) expects of the code that     *)
(* runs BlockchainClient.TriggerInteraction, as an abstract specification: *)
(* an interaction is reported submitted at most once, then committed or    *)
(* aborted at most once and never both, and every report is made before    *)
(* TriggerInteraction returns.  A client may return without an outcome.    *)
(*                                                                         *)
(* The confirmers of the blockchains are shown to implement this module    *)
(* (EthereumClient, AlgorandClient); the redundancy wrapper (Redundant)    *)
(* over clients that keep it is shown to implement it again.               *)
(***************************************************************************)
CONSTANT Interactions

VARIABLES
    stage,      \* the reports each interaction has received
    over        \* the interactions whose TriggerInteraction has returned

vars == <<stage, over>>

Stages == {"idle", "submitted", "committed", "aborted"}

Init ==
    /\ stage = [i \in Interactions |-> "idle"]
    /\ over = {}

Advance(i, from, to) ==
    /\ i \notin over
    /\ stage[i] = from
    /\ stage' = [stage EXCEPT ![i] = to]
    /\ UNCHANGED over

Submit(i) == Advance(i, "idle", "submitted")

Commit(i) == Advance(i, "submitted", "committed")

Abort(i) == Advance(i, "submitted", "aborted")

Return(i) ==
    /\ i \notin over
    /\ over' = over \cup {i}
    /\ UNCHANGED stage

Next ==
    \E i \in Interactions : Submit(i) \/ Commit(i) \/ Abort(i) \/ Return(i)

Spec == Init /\ [][Next]_vars
=============================================================================
