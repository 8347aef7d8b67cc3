--------------------------- MODULE BlockConfirmer ---------------------------
(***************************************************************************)
(* The confirmer that nethereum, navalanche and nalgorand share in form:   *)
(* pollblkTransactionConfirmer.  One goroutine per transaction runs        *)
(* TriggerInteraction and ends in confirm(), where it registers in         *)
(* `pendings` and waits on a channel; one goroutine, run(), reads the      *)
(* blocks of the chain, takes the transactions it finds out of `pendings`, *)
(* reports them committed and wakes their goroutines.  Transactions found  *)
(* before their goroutine has registered go to `committed`.                *)
(*                                                                         *)
(* This module has the shared state and steps; EthereumClient and          *)
(* AlgorandClient add TriggerInteraction and run() of each chain.          *)
(***************************************************************************)
EXTENDS Naturals, Sequences, FiniteSets

CONSTANTS
    Txs,            \* transactions of one client, one interaction each
    NoTx,           \* nobody
    MaxBlocks       \* bound on the length of the chain

ASSUME NoTxAssumption == NoTx \notin Txs
ASSUME BlocksAssumption == MaxBlocks \in Nat

VARIABLES
    pc,             \* where the goroutine of each transaction stands
    log,            \* the reports each interaction has received, in order
    pendings,       \* transactions registered in the map `pendings`
    committed,      \* transactions seen in a block, not registered then
    flushed,        \* pendings = nil
    lock,           \* the goroutine parked while it holds `lock`
    poller,         \* state of run()
    toReport,       \* local `pendings` of reportHashes and flushPendings: to report
    toWake,         \* ... reported, its channel not yet written
    seen,           \* number of blocks run() is done with
    mempool,        \* transactions the blockchain node has ever accepted
    chain           \* blocks, each a set of transactions

table == <<pendings, committed, flushed, lock>>
work == <<poller, toReport, toWake, seen>>
node == <<mempool, chain>>
vars == <<pc, log, table, work, node>>

Init ==
    /\ pc = [t \in Txs |-> "idle"]
    /\ log = [t \in Txs |-> <<>>]
    /\ pendings = {} /\ committed = {}
    /\ flushed = FALSE
    /\ lock = NoTx
    /\ poller = "start"
    /\ toReport = {} /\ toWake = {}
    /\ seen = 0
    /\ mempool = {}
    /\ chain = <<>>

Goto(t, label) == pc' = [pc EXCEPT ![t] = label]

Report(t, report) == log' = [log EXCEPT ![t] = Append(@, report)]

-----------------------------------------------------------------------------
(* The blockchain node, and the sibling clients of a redundant client,     *)
(* which submit the same transaction through other nodes.                  *)

Included == UNION {chain[b] : b \in 1..Len(chain)}

PeerSubmits(t) ==
    /\ t \notin mempool
    /\ mempool' = mempool \cup {t}
    /\ UNCHANGED <<pc, log, table, work, chain>>

Seal(block) ==
    /\ Len(chain) < MaxBlocks
    /\ block \subseteq mempool \ Included
    /\ chain' = Append(chain, block)
    /\ UNCHANGED <<pc, log, table, work, mempool>>

-----------------------------------------------------------------------------
(* TriggerInteraction up to the answer of the node.                        *)

TriggerFails(t) ==
    /\ pc[t] = "idle"
    /\ Goto(t, "returned")
    /\ UNCHANGED <<log, table, work, node>>

Trigger(t) ==
    /\ pc[t] = "idle"
    /\ Report(t, "submit")
    /\ Goto(t, "send")
    /\ UNCHANGED <<table, work, node>>

Send(t, arrives) ==
    /\ pc[t] = "send"
    /\ mempool' = IF arrives THEN mempool \cup {t} ELSE mempool
    /\ Goto(t, "sending")
    /\ UNCHANGED <<log, table, work, chain>>

SendAccepted(t) ==
    /\ pc[t] = "sending"
    /\ t \in mempool
    /\ Goto(t, "confirm")
    /\ UNCHANGED <<log, table, work, node>>

(* A faulty SendFails: it does not return after the abort.                 *)
SendFailsContinues(t) ==
    /\ pc[t] = "sending"
    /\ Report(t, "abort")
    /\ Goto(t, "confirm")
    /\ UNCHANGED <<table, work, node>>

SendFails(t) ==
    /\ pc[t] = "sending"
    /\ Report(t, "abort")
    /\ Goto(t, "returning")
    /\ UNCHANGED <<table, work, node>>

Return(t) ==
    /\ pc[t] = "returning"
    /\ Goto(t, "returned")
    /\ UNCHANGED <<log, table, work, node>>

-----------------------------------------------------------------------------
(* confirm(): its three branches under the lock.  In the second one the    *)
(* goroutine writes to an unbuffered channel that only it would read, with *)
(* the lock held: it stays there.                                          *)

ConfirmFlushed(t) ==
    /\ pc[t] = "confirm" /\ lock = NoTx
    /\ flushed
    /\ Goto(t, "returned")
    /\ UNCHANGED <<log, table, work, node>>

ConfirmCommitted(t) ==
    /\ pc[t] = "confirm" /\ lock = NoTx
    /\ ~flushed /\ t \in committed
    /\ committed' = committed \ {t}
    /\ Report(t, "commit")
    /\ Goto(t, "parked")
    /\ lock' = t
    /\ UNCHANGED <<pendings, flushed, work, node>>

ConfirmPending(t) ==
    /\ pc[t] = "confirm" /\ lock = NoTx
    /\ ~flushed /\ t \notin committed
    /\ pendings' = pendings \cup {t}
    /\ Goto(t, "waiting")
    /\ UNCHANGED <<log, committed, flushed, lock, work, node>>

Confirm(t) == ConfirmFlushed(t) \/ ConfirmCommitted(t) \/ ConfirmPending(t)

-----------------------------------------------------------------------------
(* run(): the locked parts of reportHashes and flushPendings, then the     *)
(* reports and the writes to the channels, one transaction at a time.      *)

(* Faulty forms of ReportHashes: it leaves the transactions in `pendings`, *)
(* or forgets those that are not registered.                               *)
ReportHashesKeepsPendings(hashes) ==
    /\ lock = NoTx
    /\ committed' = committed \cup (hashes \ pendings)
    /\ toReport' = hashes \cap pendings
    /\ poller' = IF hashes \cap pendings = {} THEN "loop" ELSE "commit"
    /\ UNCHANGED <<pc, log, pendings, flushed, lock, toWake, node>>

ReportHashesForgets(hashes) ==
    /\ lock = NoTx
    /\ pendings' = pendings \ hashes
    /\ toReport' = hashes \cap pendings
    /\ poller' = IF hashes \cap pendings = {} THEN "loop" ELSE "commit"
    /\ UNCHANGED <<pc, log, committed, flushed, lock, toWake, node>>

ReportHashes(hashes) ==
    /\ lock = NoTx
    /\ committed' = committed \cup (hashes \ pendings)
    /\ pendings' = pendings \ hashes
    /\ toReport' = hashes \cap pendings
    /\ poller' = IF hashes \cap pendings = {} THEN "loop" ELSE "commit"
    /\ UNCHANGED <<pc, log, flushed, lock, toWake, node>>

(* A faulty FlushPendings: `pendings` is not set to nil.                   *)
FlushKeepsPendings ==
    /\ lock = NoTx
    /\ toReport' = pendings
    /\ flushed' = TRUE
    /\ poller' = IF pendings = {} THEN "dead" ELSE "abort"
    /\ UNCHANGED <<pc, log, pendings, committed, lock, toWake, seen, node>>

FlushPendings ==
    /\ lock = NoTx
    /\ toReport' = pendings
    /\ pendings' = {}
    /\ flushed' = TRUE
    /\ poller' = IF pendings = {} THEN "dead" ELSE "abort"
    /\ UNCHANGED <<pc, log, committed, lock, toWake, seen, node>>

ReportNext(t) ==
    /\ poller \in {"commit", "abort"}
    /\ t \in toReport
    /\ Report(t, poller)
    /\ toReport' = toReport \ {t}
    /\ toWake' = toWake \cup {t}
    /\ UNCHANGED <<pc, table, poller, seen, node>>

Wake(t) ==
    /\ t \in toWake
    /\ pc[t] = "waiting"
    /\ Goto(t, "returned")
    /\ toWake' = toWake \ {t}
    /\ poller' = IF toReport # {} \/ toWake # {t} THEN poller
                 ELSE IF poller = "commit" THEN "loop" ELSE "dead"
    /\ UNCHANGED <<log, table, toReport, seen, node>>

-----------------------------------------------------------------------------
Labels == {"idle", "send", "sending", "confirm", "waiting", "parked",
           "returning", "returned"}

(* The type invariant. *)
TypeOK ==
    /\ pc \in [Txs -> Labels]
    /\ log \in [Txs -> Seq({"submit", "commit", "abort"})]
    /\ pendings \subseteq Txs /\ committed \subseteq Txs
    /\ flushed \in BOOLEAN
    /\ lock \in Txs \cup {NoTx}
    /\ poller \in {"start", "loop", "commit", "abort", "dead"}
    /\ toReport \subseteq Txs /\ toWake \subseteq Txs
    /\ seen \in Nat
    /\ mempool \subseteq Txs
    /\ chain \in Seq(SUBSET Txs)

StageOf(reports) ==
    CASE reports = <<>> -> "idle"
      [] reports = <<"submit">> -> "submitted"
      [] reports = <<"submit", "commit">> -> "committed"
      [] reports = <<"submit", "abort">> -> "aborted"
      [] OTHER -> "broken"

Contract == INSTANCE ReportContract
    WITH Interactions <- Txs,
         stage <- [t \in Txs |-> StageOf(log[t])],
         over <- {t \in Txs : pc[t] = "returned"}

(* Both goroutines together keep the report contract: submit first, then   *)
(* one outcome at most, reported by TriggerInteraction or by run() but     *)
(* never by both, and always before TriggerInteraction returns.            *)
ReportsOnce == Contract!Spec

(* The goroutines waiting on a channel are exactly the ones some reference *)
(* of run() or of the table leads to, each through one of them: run()      *)
(* never writes to a channel nobody reads, and nobody waits forgotten,     *)
(* not even after flushPendings.                                           *)
WaitersKnown ==
    /\ {t \in Txs : pc[t] = "waiting"} = pendings \cup toReport \cup toWake
    /\ pendings \cap (toReport \cup toWake) = {}
    /\ toReport \cap toWake = {}
    /\ flushed => pendings = {}

InFlight(t) == pc[t] \in {"send", "sending", "confirm", "waiting"}

Settled(t) == pc[t] \in {"parked", "returning", "returned"}
=============================================================================
