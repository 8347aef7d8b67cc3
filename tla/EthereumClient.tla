--------------------------- MODULE EthereumClient ---------------------------
(***************************************************************************)
(* nethereum.BlockchainClient with its pollblkTransactionConfirmer         *)
(* (navalanche has the same code): TriggerInteraction accepts the answer   *)
(* "already known", and run() follows the head events of a subscription.   *)
(***************************************************************************)
EXTENDS BlockConfirmer

(* A faulty Subscribe: it counts the head block as unread.                 *)
SubscribeBeforeHead ==
    /\ poller = "start"
    /\ poller' = "loop"
    /\ seen' = Len(chain) - 1
    /\ UNCHANGED <<pc, log, table, toReport, toWake, node>>

Subscribe ==
    /\ poller = "start"
    /\ poller' = "loop"
    /\ seen' = Len(chain)
    /\ UNCHANGED <<pc, log, table, toReport, toWake, node>>

SubscribeFails == poller = "start" /\ FlushPendings

ProcessBlock ==
    /\ poller = "loop"
    /\ seen < Len(chain)
    /\ seen' = seen + 1
    /\ IF chain[seen + 1] = {}
       THEN UNCHANGED <<pc, log, table, poller, toReport, toWake, node>>
       ELSE ReportHashes(chain[seen + 1])

LoopBreaks == poller = "loop" /\ FlushPendings

RunReports(t) == toWake = {} /\ ReportNext(t)

Run ==
    \/ Subscribe \/ SubscribeFails \/ ProcessBlock \/ LoopBreaks
    \/ \E t \in Txs : RunReports(t) \/ Wake(t)

TriggerInteraction(t) ==
    \/ TriggerFails(t) \/ Trigger(t)
    \/ \E arrives \in BOOLEAN : Send(t, arrives)
    \/ SendAccepted(t) \/ SendFails(t) \/ Return(t)
    \/ Confirm(t)

Next ==
    \/ Run
    \/ \E t \in Txs : TriggerInteraction(t) \/ PeerSubmits(t)
    \/ \E block \in SUBSET Txs : Seal(block)

Spec == Init /\ [][Next]_vars

(* Goroutines are scheduled and the node answers; the poller reads the     *)
(* blocks it is told of.  Its loop need not break.                         *)
FairSpec ==
    /\ Spec
    /\ WF_vars(Subscribe \/ ProcessBlock)
    /\ \A t \in Txs :
        /\ WF_vars(TriggerInteraction(t))
        /\ WF_vars(RunReports(t))
        /\ WF_vars(Wake(t))

(* The blocks run() will be told of: those sealed since it subscribed. *)
Unread ==
    IF poller = "start" THEN {}
    ELSE UNION {chain[b] : b \in (seen + 1)..Len(chain)}

(* A submitted transaction in a block run() has yet to read is settled     *)
(* (reported by run(), by confirm() from `committed`, or given up with an  *)
(* error), even when run() reads the block before confirm() registers the  *)
(* transaction.  The one exception is a goroutine parked with the lock.    *)
MissedOnlyWhenParked ==
    \A t \in Txs :
        (InFlight(t) /\ t \in Unread) ~> (Settled(t) \/ lock # NoTx)
=============================================================================
