-------------------------- MODULE StreamConfirmer ---------------------------
(***************************************************************************)
(* The clients of ndiem, naptos and nsolana.  Unlike BlockConfirmer, their *)
(* confirmer is told of a transaction BEFORE it is submitted: prepare()    *)
(* registers it in `pendings`, confirm() waits for it afterwards, and a    *)
(* reader goroutine follows the ledger, version by version (Diem, Aptos)   *)
(* or slot by slot (Solana).  With method "poll" (polltx, of Diem and    *)
(* Aptos) there is no reader: confirm() asks the node about its own        *)
(* transaction.                                                            *)
(***************************************************************************)
EXTENDS Naturals, Sequences, FiniteSets

CONSTANTS
    Txs,            \* transactions of one client, one interaction each
    NoTx,           \* nobody
    History,        \* versions the ledger has before the benchmark
    MaxVersions,    \* bound on the length of the ledger
    Batch           \* versions asked for at a time, 10 in the code

ASSUME StreamAssumption ==
    /\ NoTx \notin Txs
    /\ History \in Nat \ {0} /\ MaxVersions \in Nat
    /\ Batch \in Nat \ {0}

VARIABLES
    kind,           \* "diem", "aptos" or "solana"
    method,         \* parameter "confirm": "poll" or "stream"
    failing,        \* included but not executed; only "poll" looks at it
    pc,             \* where TriggerInteraction stands for each transaction
    log,            \* the reports each interaction has received, in order
    pendings,       \* keys of the map `pendings`
    committed,      \* keys of the map `committed`
    lock,           \* the goroutine parked while it holds `lock`
    reader,         \* state of the goroutine run()
    batch,          \* versions fetched and not yet looked at
    taken,          \* transactions taken out of `pendings`, to be reported
    waking,         \* the transaction whose channel is being written
    seen,           \* versions (or slots) run() is done with
    root,           \* the last slot run() may ask for: subSlot or a skip
    skipped,        \* transactions of the versions run() passed over on an error
    mempool,        \* transactions a node has accepted
    peers,          \* transactions a sibling client has submitted
    ledger          \* versions, each with its user transactions

setting == <<kind, method, failing>>
table == <<pendings, committed, lock>>
hands == <<batch, taken, waking>>
place == <<seen, root, skipped>>
node == <<mempool, peers, ledger>>
streamVars == <<setting, pc, log, table, reader, hands, place, node>>

Init ==
    /\ kind \in {"diem", "aptos", "solana"} /\ method \in {"poll", "stream"}
    /\ kind = "solana" => method = "stream"
    /\ failing \in IF method = "poll" THEN SUBSET Txs ELSE {{}}
    /\ pc = [t \in Txs |-> "idle"]
    /\ log = [t \in Txs |-> <<>>]
    /\ pendings = {} /\ committed = {} /\ lock = NoTx
    /\ reader = "start"
    /\ batch = <<>> /\ taken = {} /\ waking = NoTx
    /\ seen = 0 /\ root = 1 /\ skipped = {}
    /\ mempool = {} /\ peers = {}
    /\ ledger = [v \in 1..History |-> {}]

Goto(t, label) == pc' = [pc EXCEPT ![t] = label]

Report(t, report) == log' = [log EXCEPT ![t] = Append(@, report)]

Included == UNION {ledger[v] : v \in 1..Len(ledger)}

-----------------------------------------------------------------------------
(* The blockchain, and the sibling clients of a redundant client.  A Diem  *)
(* or Aptos version holds one transaction.                                 *)

PeerSubmits(t) ==
    /\ t \notin mempool
    /\ mempool' = mempool \cup {t}
    /\ peers' = peers \cup {t}
    /\ UNCHANGED <<setting, pc, log, table, reader, hands, place, ledger>>

Extend(txs) ==
    /\ Len(ledger) < MaxVersions
    /\ txs \subseteq mempool \ Included
    /\ kind # "solana" => Cardinality(txs) <= 1
    /\ ledger' = Append(ledger, txs)
    /\ UNCHANGED <<setting, pc, log, table, reader, hands, place, mempool, peers>>

-----------------------------------------------------------------------------
(* prepare(), after the transaction is signed.                             *)

(* getTx or getSigned fails.                                               *)
PrepareFails(t) ==
    /\ pc[t] = "idle"
    /\ Goto(t, "failed")
    /\ UNCHANGED <<setting, log, table, reader, hands, place, node>>

Prepared(t) == pc[t] = "idle" /\ lock = NoTx /\ Goto(t, "prepared")

PollPrepare(t) ==
    /\ method = "poll"
    /\ Prepared(t)
    /\ UNCHANGED <<setting, log, table, reader, hands, place, node>>

DiemPrepare(t) ==
    /\ kind = "diem" /\ method = "stream"
    /\ Prepared(t)
    /\ pendings' = pendings \cup {t}
    /\ UNCHANGED <<setting, log, committed, lock, reader, hands, place, node>>

(* A transaction found in `committed` is reported, and the goroutine then  *)
(* writes to a channel only it would read, with the lock held.             *)
Park(t) ==
    /\ pc[t] = "idle" /\ lock = NoTx
    /\ t \in committed
    /\ committed' = committed \ {t}
    /\ lock' = t
    /\ Report(t, "commit")
    /\ Goto(t, "parked")
    /\ UNCHANGED <<setting, pendings, reader, hands, place, node>>

Register(t) ==
    /\ Prepared(t)
    /\ t \notin committed
    /\ pendings' = pendings \cup {t}
    /\ UNCHANGED <<setting, log, committed, lock, reader, hands, place, node>>

(* A faulty AptosPrepare: it leaves the registration to confirm().         *)
AptosPrepareRegistersNothing(t) ==
    /\ kind = "aptos" /\ method = "stream"
    /\ Prepared(t)
    /\ UNCHANGED <<setting, log, table, reader, hands, place, node>>

AptosPrepare(t) ==
    /\ kind = "aptos" /\ method = "stream"
    /\ Park(t) \/ Register(t)

(* reader = "flush" is pendings = nil: prepare() returns the error.        *)
SolanaPrepare(t) ==
    /\ kind = "solana" /\ method = "stream"
    /\ reader # "flush"
    /\ Park(t) \/ Register(t)

SolanaPrepareFlushed(t) ==
    /\ kind = "solana" /\ method = "stream"
    /\ reader = "flush" /\ lock = NoTx
    /\ PrepareFails(t)

-----------------------------------------------------------------------------
(* TriggerInteraction from ReportSubmit to the answer of the node.         *)

Submit(t) ==
    /\ pc[t] = "prepared"
    /\ Report(t, "submit")
    /\ Goto(t, "send")
    /\ UNCHANGED <<setting, table, reader, hands, place, node>>

Send(t, arrives) ==
    /\ pc[t] = "send"
    /\ mempool' = IF arrives THEN mempool \cup {t} ELSE mempool
    /\ Goto(t, "sending")
    /\ UNCHANGED <<setting, log, table, reader, hands, place, peers, ledger>>

(* A faulty DiemSendFails: it aborts the interaction, as nsolana does, and *)
(* leaves it in `pendings`.                                                *)
DiemSendFailsAborts(t) ==
    /\ kind = "diem"
    /\ pc[t] = "sending"
    /\ Report(t, "abort")
    /\ Goto(t, "sendfailed")
    /\ UNCHANGED <<setting, table, reader, hands, place, node>>

(* SubmitTransaction fails: no report, and `pendings` is left as it is.    *)
DiemSendFails(t) ==
    /\ kind = "diem"
    /\ pc[t] = "sending"
    /\ Goto(t, "sendfailed")
    /\ UNCHANGED <<setting, log, table, reader, hands, place, node>>

AptosSendFails(t) ==
    /\ kind = "aptos"
    /\ pc[t] = "sending"
    /\ Goto(t, "sendfailed")
    /\ UNCHANGED <<setting, log, table, reader, hands, place, node>>

SolanaSendFails(t) ==
    /\ kind = "solana"
    /\ pc[t] = "sending"
    /\ Report(t, "abort")
    /\ Goto(t, "sendfailed")
    /\ UNCHANGED <<setting, table, reader, hands, place, node>>

(* The node took the transaction or, in Solana, has not found its          *)
(* blockhash, which the client does not hold against the transaction.      *)
SendAccepted(t) ==
    /\ pc[t] = "sending"
    /\ t \in mempool \/ kind = "solana"
    /\ Goto(t, "confirm")
    /\ UNCHANGED <<setting, log, table, reader, hands, place, node>>

-----------------------------------------------------------------------------
(* confirm() of the pollblk confirmers.  Diem and Aptos look the key up    *)
(* again; Solana kept the channel.                                         *)

LookUpAgain(t) ==
    /\ method = "stream"
    /\ pc[t] = "confirm" /\ lock = NoTx
    /\ Goto(t, IF t \in pendings THEN "waiting" ELSE "returned")
    /\ UNCHANGED <<setting, log, table, reader, hands, place, node>>

DiemConfirm(t) == kind = "diem" /\ LookUpAgain(t)

AptosConfirm(t) == kind = "aptos" /\ LookUpAgain(t)

SolanaConfirm(t) ==
    /\ kind = "solana" /\ method = "stream"
    /\ pc[t] = "confirm"
    /\ Goto(t, "waiting")
    /\ UNCHANGED <<setting, log, table, reader, hands, place, node>>

(* confirm() of polltx: the node is asked about the transaction and        *)
(* answers with the state of its execution, or not in time.                *)

PollFails(t) ==
    /\ method = "poll"
    /\ pc[t] = "confirm"
    /\ Goto(t, "failed")
    /\ UNCHANGED <<setting, log, table, reader, hands, place, node>>

(* A faulty Executed: the status of the execution is not read.             *)
ExecutedUnchecked(t) ==
    /\ method = "poll"
    /\ pc[t] = "confirm"
    /\ t \in Included
    /\ Report(t, "commit")
    /\ Goto(t, "returned")
    /\ UNCHANGED <<setting, table, reader, hands, place, node>>

Executed(t) ==
    /\ method = "poll"
    /\ pc[t] = "confirm"
    /\ t \in Included
    /\ Report(t, IF t \in failing THEN "abort" ELSE "commit")
    /\ Goto(t, "returned")
    /\ UNCHANGED <<setting, table, reader, hands, place, node>>

DiemPollTx(t) == kind = "diem" /\ (PollFails(t) \/ Executed(t))

AptosPollTx(t) == kind = "aptos" /\ (PollFails(t) \/ Executed(t))

-----------------------------------------------------------------------------
(* run(): what it does with the transactions of one version or slot.       *)

ReaderIdle == batch = <<>> /\ taken = {} /\ waking = NoTx

Parsing ==
    /\ batch # <<>> /\ taken = {} /\ waking = NoTx
    /\ lock = NoTx
    /\ batch' = Tail(batch)
    /\ pendings' = pendings \ Head(batch)
    /\ taken' = Head(batch) \cap pendings
    /\ UNCHANGED <<setting, pc, log, lock, reader, waking, place, node>>

(* The sender, or the number of an Aptos transaction, is not one that can  *)
(* be read: the transaction of this version is passed over.                *)
NotParsed ==
    /\ batch # <<>> /\ taken = {} /\ waking = NoTx
    /\ Head(batch) # {}
    /\ batch' = Tail(batch)
    /\ skipped' = skipped \cup Head(batch)
    /\ UNCHANGED <<setting, pc, log, table, reader, taken, waking, seen, root, node>>

DiemParseTransaction ==
    /\ kind = "diem"
    /\ \/ Parsing /\ UNCHANGED committed
       \/ NotParsed

(* A faulty AptosParseTransaction: the transaction leaves `pendings` and   *)
(* is filed as committed instead of being reported.                        *)
AptosParseForgets ==
    /\ kind = "aptos"
    /\ batch # <<>> /\ taken = {} /\ waking = NoTx
    /\ lock = NoTx
    /\ batch' = Tail(batch)
    /\ pendings' = pendings \ Head(batch)
    /\ committed' = committed \cup Head(batch)
    /\ UNCHANGED <<setting, pc, log, lock, reader, taken, waking, place, node>>

AptosParseTransaction ==
    /\ kind = "aptos"
    /\ \/ Parsing /\ committed' = committed \cup (Head(batch) \ pendings)
       \/ NotParsed

SolanaReportHashes ==
    /\ kind = "solana"
    /\ Parsing
    /\ committed' = committed \cup (Head(batch) \ pendings)

(* The report, then the write to the channel, which waits for its reader.  *)
ReportNext(t) ==
    /\ t \in taken /\ waking = NoTx
    /\ Report(t, IF reader = "flush" THEN "abort" ELSE "commit")
    /\ taken' = taken \ {t}
    /\ waking' = t
    /\ UNCHANGED <<setting, pc, table, reader, batch, place, node>>

Wake(t) ==
    /\ waking = t
    /\ pc[t] = "waiting"
    /\ waking' = NoTx
    /\ Goto(t, IF reader = "flush" THEN "failed" ELSE "returned")
    /\ UNCHANGED <<setting, log, table, reader, batch, taken, place, node>>

-----------------------------------------------------------------------------
(* run() of Diem and Aptos: from the version of the first answer on, up to *)
(* Batch versions at a time.  A failed GetTransactions has already moved v *)
(* past one version; a failed GetMetadata ends the goroutine.              *)

Ledger(chains) == kind \in chains /\ method = "stream"

GetMetadata(chains) ==
    /\ Ledger(chains)
    /\ reader = "start"
    /\ reader' = "loop"
    /\ seen' = Len(ledger)
    /\ UNCHANGED <<setting, pc, log, table, hands, root, skipped, node>>

MetadataFails(chains) ==
    /\ Ledger(chains)
    /\ reader \in {"start", "loop"} /\ ReaderIdle
    /\ reader' = "dead"
    /\ UNCHANGED <<setting, pc, log, table, hands, place, node>>

LastOf(first) == IF first + Batch - 1 <= Len(ledger) THEN first + Batch - 1
                 ELSE Len(ledger)

(* A faulty GetTransactions: it advances by the number asked for.          *)
GetTransactionsOvershoots(chains) ==
    /\ Ledger(chains)
    /\ reader = "loop" /\ ReaderIdle
    /\ seen < Len(ledger)
    /\ batch' = SubSeq(ledger, seen + 1, LastOf(seen + 1))
    /\ seen' = seen + Batch
    /\ UNCHANGED <<setting, pc, log, table, reader, taken, waking, root, skipped,
                   node>>

GetTransactions(chains) ==
    /\ Ledger(chains)
    /\ reader = "loop" /\ ReaderIdle
    /\ seen < Len(ledger)
    /\ batch' = SubSeq(ledger, seen + 1, LastOf(seen + 1))
    /\ seen' = LastOf(seen + 1)
    /\ UNCHANGED <<setting, pc, log, table, reader, taken, waking, root, skipped,
                   node>>

GetTransactionsFails(chains) ==
    /\ Ledger(chains)
    /\ reader = "loop" /\ ReaderIdle
    /\ seen < Len(ledger)
    /\ seen' = seen + 1
    /\ skipped' = skipped \cup ledger[seen + 1]
    /\ UNCHANGED <<setting, pc, log, table, reader, hands, root, node>>

DiemRun ==
    \/ GetMetadata({"diem"}) \/ MetadataFails({"diem"})
    \/ GetTransactions({"diem"}) \/ GetTransactionsFails({"diem"})

(* A version that is not a number ends the goroutine within its batch.     *)
VersionFails ==
    /\ Ledger({"aptos"})
    /\ reader = "loop"
    /\ batch # <<>> /\ taken = {} /\ waking = NoTx
    /\ batch' = <<>>
    /\ reader' = "dead"
    /\ UNCHANGED <<setting, pc, log, table, taken, waking, place, node>>

AptosRun ==
    \/ GetMetadata({"aptos"}) \/ MetadataFails({"aptos"})
    \/ GetTransactions({"aptos"}) \/ GetTransactionsFails({"aptos"})
    \/ VersionFails

-----------------------------------------------------------------------------
(* run() of Solana: from slot 0 on, each slot once its root is announced.  *)

RootSubscribe ==
    /\ Ledger({"solana"})
    /\ reader = "start"
    /\ reader' = "loop"
    /\ UNCHANGED <<setting, pc, log, table, hands, place, node>>

ProcessBlock ==
    /\ Ledger({"solana"})
    /\ reader = "loop" /\ ReaderIdle
    /\ seen < root /\ seen < Len(ledger)
    /\ batch' = <<ledger[seen + 1]>>
    /\ seen' = seen + 1
    /\ UNCHANGED <<setting, pc, log, table, reader, taken, waking, root, skipped,
                   node>>

(* ErrNotConfirmed: the slot is passed over, whatever its block will hold. *)
NotConfirmed ==
    /\ Ledger({"solana"})
    /\ reader = "loop" /\ ReaderIdle
    /\ seen < root /\ seen < Len(ledger)
    /\ seen' = seen + 1
    /\ skipped' = skipped \cup ledger[seen + 1]
    /\ UNCHANGED <<setting, pc, log, table, reader, hands, root, node>>

(* The node has deleted the old slots before `slot` (-32001), or the one   *)
(* before it has no block (-32007): `slot` is next, its root announced or  *)
(* not.                                                                    *)
SkipTo(slot) ==
    /\ Ledger({"solana"})
    /\ reader = "loop" /\ ReaderIdle
    /\ seen < root /\ seen + 1 < slot
    /\ \/ slot <= History
       \/ slot = seen + 2 /\ slot <= Len(ledger) + 1 /\ ledger[seen + 1] = {}
    /\ seen' = slot - 1
    /\ root' = IF root < slot THEN slot ELSE root
    /\ UNCHANGED <<setting, pc, log, table, reader, hands, skipped, node>>

ReceiveRoot ==
    /\ Ledger({"solana"})
    /\ reader = "loop" /\ ReaderIdle
    /\ seen >= root /\ root < Len(ledger)
    /\ root' = Len(ledger)
    /\ UNCHANGED <<setting, pc, log, table, reader, hands, seen, skipped, node>>

(* run() returns an error: flushPendings takes all of `pendings`.          *)
FlushPendings ==
    /\ Ledger({"solana"})
    /\ reader \in {"start", "loop"} /\ ReaderIdle
    /\ lock = NoTx
    /\ taken' = pendings
    /\ pendings' = {}
    /\ reader' = "flush"
    /\ UNCHANGED <<setting, pc, log, committed, lock, batch, waking, place, node>>

SolanaRun ==
    \/ RootSubscribe \/ ProcessBlock \/ NotConfirmed
    \/ ReceiveRoot \/ FlushPendings
    \/ \E slot \in 1..(MaxVersions + 1) : SkipTo(slot)

-----------------------------------------------------------------------------
Parse == DiemParseTransaction \/ AptosParseTransaction \/ SolanaReportHashes

Read ==
    \/ GetMetadata({"diem", "aptos"}) \/ GetTransactions({"diem", "aptos"})
    \/ RootSubscribe \/ ProcessBlock \/ ReceiveRoot

Run ==
    \/ DiemRun \/ AptosRun \/ SolanaRun \/ Parse
    \/ \E t \in Txs : ReportNext(t) \/ Wake(t)

Proceed(t) ==
    \/ PollPrepare(t)
    \/ DiemPrepare(t) \/ AptosPrepare(t)
    \/ SolanaPrepare(t) \/ SolanaPrepareFlushed(t)
    \/ Submit(t)
    \/ \E arrives \in BOOLEAN : Send(t, arrives)
    \/ SendAccepted(t)
    \/ DiemSendFails(t) \/ AptosSendFails(t) \/ SolanaSendFails(t)
    \/ DiemConfirm(t) \/ AptosConfirm(t) \/ SolanaConfirm(t)
    \/ DiemPollTx(t) \/ AptosPollTx(t)

Next ==
    \/ Run
    \/ \E t \in Txs : Proceed(t) \/ PrepareFails(t) \/ PeerSubmits(t)
    \/ \E txs \in SUBSET Txs : Extend(txs)

Spec == Init /\ [][Next]_streamVars

(* Goroutines are scheduled and the node answers: run() keeps reading.     *)
FairSpec ==
    /\ Spec
    /\ WF_streamVars(Read) /\ WF_streamVars(Parse)
    /\ \A t \in Txs :
        /\ WF_streamVars(Proceed(t))
        /\ WF_streamVars(ReportNext(t)) /\ WF_streamVars(Wake(t))

-----------------------------------------------------------------------------
Over == {"returned", "failed", "sendfailed"}

Reported(t, report) == \E i \in DOMAIN log[t] : log[t][i] = report

HasOutcome(t) == Reported(t, "commit") \/ Reported(t, "abort")

(* An interaction has one outcome, whoever reports it, and only once: the  *)
(* reader never commits what TriggerInteraction or the flush has aborted,  *)
(* except in Solana after a failed SendTransaction, which leaves the entry *)
(* of the transaction in `pendings`.  An outcome precedes the submission   *)
(* only for a sibling's transaction or in a flush.                         *)
OneOutcome ==
    \A t \in Txs :
        /\ \A i, j \in DOMAIN log[t] :
              /\ log[t][i] = log[t][j] /\ log[t][i] # "abort" => i = j
              /\ log[t][i] # "submit" /\ log[t][j] # "submit" =>
                    i = j \/ (kind = "solana" /\ pc[t] = "sendfailed")
        /\ log[t] # <<>> /\ log[t][1] # "submit" =>
              t \in peers \/ reader = "flush"

(* A commit is reported only for what the ledger has; confirm() by polling *)
(* tells executed transactions from failed ones.                           *)
OutcomesTrue ==
    \A t \in Txs :
        /\ Reported(t, "commit") => t \in Included
        /\ method = "poll" /\ Reported(t, "commit") => t \notin failing
        /\ method = "poll" /\ pc[t] = "returned" /\ t \in failing =>
              Reported(t, "abort")

(* TriggerInteraction returns without an error only when the outcome has   *)
(* been reported, or when the reader has the transaction in its hands and  *)
(* is about to report it: Diem and Aptos look the key up a second time and *)
(* may find it gone.  Solana does not have that window.                    *)
ReturnsWithOutcome ==
    \A t \in Txs :
        pc[t] = "returned" => HasOutcome(t) \/ (kind # "solana" /\ t \in taken)

(* Nobody waits forgotten: a goroutine on its channel is registered, or in *)
(* the hands of the reader, and in one of these places only.               *)
WaitersKnown ==
    /\ \A t \in Txs : pc[t] = "waiting" => t \in pendings \cup taken \cup {waking}
    /\ pendings \cap taken = {} /\ waking \notin pendings \cup taken

(* The reader writes to the channel of a goroutine that has returned.      *)
Stuck == waking # NoTx /\ pc[waking] \in Over

(* A version that is still to be read, or being looked at. *)
Ahead(t) ==
    \/ \E v \in (seen + 1)..Len(ledger) : t \in ledger[v]
    \/ \E i \in 1..Len(batch) : t \in batch[i]

(* The outcome is reported and TriggerInteraction over, unless one of the  *)
(* four things that stop these confirmers has happened: the reader blocked *)
(* for good on the channel of a transaction that has returned, a goroutine *)
(* parked with the lock, the reader ended by an error (which flushes       *)
(* `pendings` in Solana only), or the version passed over: its request     *)
(* failed, its transaction was not read, its slot was not confirmed yet.   *)
Settled(t) ==
    \/ HasOutcome(t) /\ pc[t] \in Over
    \/ Stuck \/ lock # NoTx \/ reader \in {"dead", "flush"}
    \/ t \in skipped

(* A transaction registered while the reader runs and has not passed its   *)
(* version is settled in the end, if the ledger ever includes it.          *)
ReadIsSettled ==
    \A t \in Txs :
        <>(/\ method = "stream" /\ reader = "loop"
           /\ t \in pendings
           /\ t \notin Included \/ Ahead(t)) =>
            <>Settled(t) \/ [](t \notin Included)
=============================================================================
