--------------------------- MODULE AlgorandClient ---------------------------
(***************************************************************************)
(* nalgorand.BlockchainClient with either of its confirmers.  polltx asks  *)
(* the node about one transaction from its own goroutine; pollblk is a     *)
(* BlockConfirmer whose run() reads the rounds that are followed by        *)
(* another one.  TriggerInteraction takes the answer "transaction already  *)
(* in ledger" for a commit.                                                *)
(***************************************************************************)
EXTENDS BlockConfirmer

VARIABLE method     \* parameter "confirm" of the client

algorandVars == <<vars, method>>

AlgorandInit == Init /\ method \in {"polltx", "pollblk"}

(* A faulty AlreadyInLedger: it goes on to confirm() after the commit.     *)
AlreadyInLedgerContinues(t) ==
    /\ pc[t] = "sending"
    /\ t \in Included
    /\ Report(t, "commit")
    /\ Goto(t, "confirm")
    /\ UNCHANGED <<table, work, node>>

AlreadyInLedger(t) ==
    /\ pc[t] = "sending"
    /\ t \in Included
    /\ Report(t, "commit")
    /\ Goto(t, "returning")
    /\ UNCHANGED <<table, work, node>>

SendRaw(t) ==
    \/ TriggerFails(t) \/ Trigger(t)
    \/ \E arrives \in BOOLEAN : Send(t, arrives)
    \/ SendAccepted(t) \/ AlreadyInLedger(t) \/ SendFails(t) \/ Return(t)

-----------------------------------------------------------------------------
(* polltxTransactionConfirmer.confirm: the three ways out of its loop.     *)

PollFails(t) ==
    /\ pc[t] = "confirm"
    /\ Goto(t, "returned")
    /\ UNCHANGED <<log, table, work, node>>

PollPoolError(t) ==
    /\ pc[t] = "confirm"
    /\ t \notin Included
    /\ Report(t, "abort")
    /\ Goto(t, "returning")
    /\ UNCHANGED <<table, work, node>>

PollConfirmed(t) ==
    /\ pc[t] = "confirm"
    /\ t \in Included
    /\ Report(t, "commit")
    /\ Goto(t, "returning")
    /\ UNCHANGED <<table, work, node>>

PollTx(t) == PollFails(t) \/ PollPoolError(t) \/ PollConfirmed(t)

-----------------------------------------------------------------------------
(* pollblkTransactionConfirmer.run.  A block that cannot be fetched is     *)
(* asked for again; round is seen + 1.                                     *)

(* A faulty Status: it counts the last round as unread.                    *)
StatusBeforeLast ==
    /\ poller = "start"
    /\ poller' = "loop"
    /\ seen' = Len(chain) - 1
    /\ UNCHANGED <<pc, log, table, toReport, toWake, node>>

Status ==
    /\ poller = "start"
    /\ poller' = "loop"
    /\ seen' = Len(chain)
    /\ UNCHANGED <<pc, log, table, toReport, toWake, node>>

StatusFails == poller = "start" /\ FlushPendings

Rounds(first, lastRound) == UNION {chain[r] : r \in first..(lastRound - 1)}

(* A faulty PollRounds: it takes the last round as read.                   *)
PollRoundsSkips(lastRound) ==
    /\ poller = "loop"
    /\ seen + 1 < lastRound
    /\ lastRound <= Len(chain)
    /\ seen' = lastRound
    /\ ReportHashes(Rounds(seen + 1, lastRound))

PollRounds(lastRound) ==
    /\ poller = "loop"
    /\ seen + 1 < lastRound
    /\ lastRound <= Len(chain)
    /\ seen' = lastRound - 1
    /\ ReportHashes(Rounds(seen + 1, lastRound))

StatusAfterBlockFails == poller = "loop" /\ FlushPendings

(* reportTransactions reports the whole batch before it wakes anybody;     *)
(* flushPendings wakes each transaction as it reports it.                  *)
ReportUid(t) == (poller = "commit" \/ toWake = {}) /\ ReportNext(t)

WakeUid(t) == (poller = "abort" \/ toReport = {}) /\ Wake(t)

Poll ==
    \/ Status
    \/ \E lastRound \in 1..MaxBlocks : PollRounds(lastRound)

PollblkRun ==
    \/ Poll \/ StatusFails \/ StatusAfterBlockFails
    \/ \E t \in Txs : ReportUid(t) \/ WakeUid(t)

-----------------------------------------------------------------------------
AlgorandTrigger(t) ==
    \/ SendRaw(t)
    \/ method = "polltx" /\ PollTx(t)
    \/ method = "pollblk" /\ Confirm(t)

AlgorandNext ==
    \/ method = "pollblk" /\ PollblkRun /\ UNCHANGED method
    \/ \E t \in Txs : AlgorandTrigger(t) /\ UNCHANGED method
    \/ \E t \in Txs : PeerSubmits(t) /\ UNCHANGED method
    \/ \E block \in SUBSET Txs : Seal(block) /\ UNCHANGED method

AlgorandSpec == AlgorandInit /\ [][AlgorandNext]_algorandVars

(* Goroutines are scheduled, the node answers and run() keeps polling.     *)
AlgorandFairSpec ==
    /\ AlgorandSpec
    /\ WF_algorandVars(method = "pollblk" /\ Poll /\ UNCHANGED method)
    /\ \A t \in Txs :
        /\ WF_algorandVars(AlgorandTrigger(t) /\ UNCHANGED method)
        /\ WF_algorandVars(method = "pollblk" /\ ReportUid(t) /\ UNCHANGED method)
        /\ WF_algorandVars(method = "pollblk" /\ WakeUid(t) /\ UNCHANGED method)

-----------------------------------------------------------------------------
(* The rounds run() can read: sealed since it started, and not the last. *)
Readable ==
    IF method = "polltx" THEN Included
    ELSE IF poller = "start" THEN {}
    ELSE Rounds(seen + 1, Len(chain))

(* A submitted transaction in a round that can be read is settled, with    *)
(* either confirmer and whichever of run() and confirm() comes first,      *)
(* unless a goroutine is parked with the lock of the confirmer.            *)
RoundsMissedOnlyWhenParked ==
    \A t \in Txs :
        (InFlight(t) /\ t \in Readable) ~> (Settled(t) \/ lock # NoTx)

(* What the description of the parameter "confirm" says of both methods:   *)
(* the client checks "that a submitted transaction has been committed",    *)
(* pollblk "once for all transactions by parsing the committed blocks".    *)
CommitsNoticed ==
    \A t \in Txs : (InFlight(t) /\ t \in Readable) ~> Settled(t)
=============================================================================
