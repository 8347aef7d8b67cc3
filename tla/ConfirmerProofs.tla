-------------------------- MODULE ConfirmerProofs --------------------------
(***************************************************************************)
(* Facts about the steps of the block-polling confirmer that do not depend *)
(* on the chain: each keeps the inductive invariant IInv and is a step of  *)
(* the report contract, or leaves it alone.  The argument: a transaction   *)
(* belongs to its own goroutine until it waits; from then on it is in      *)
(* exactly one of pendings, toReport and toWake, and what has been         *)
(* reported of it is determined by which.                                  *)
(***************************************************************************)
EXTENDS EthereumClient, AlgorandClient, TLAPS

USE ZenonT(40)

(* What has been reported when the goroutine stands at a label of its own. *)
Logs(label) ==
    IF label = "idle" THEN {<<>>}
    ELSE IF label \in {"send", "sending", "confirm"} THEN {<<"submit">>}
    ELSE IF label = "parked" THEN {<<"submit", "commit">>}
    ELSE IF label = "returning" THEN {<<"submit", "commit">>, <<"submit", "abort">>}
    ELSE {<<>>, <<"submit">>, <<"submit", "commit">>, <<"submit", "abort">>}

(* ... and when it waits: run() has made its report between the moment it  *)
(* took the transaction and the moment it wakes the goroutine.             *)
Logged ==
    \A t \in Txs :
        IF pc[t] = "waiting"
        THEN log[t] = IF t \in toWake THEN <<"submit", poller>> ELSE <<"submit">>
        ELSE log[t] \in Logs(pc[t])

(* run() holds transactions only while it reports them. *)
Busy == toReport \cup toWake # {} => poller \in {"commit", "abort"}

IInv == TypeOK /\ WaitersKnown /\ Logged /\ Busy

(* A new confirmer satisfies the invariant. *)
LEMMA InitIInv == Init => IInv
<1> SUFFICES ASSUME Init PROVE IInv
    OBVIOUS
<1>1. log \in [Txs -> Seq({"submit", "commit", "abort"})] /\ chain \in Seq(SUBSET Txs)
    BY SMTT(30) DEF Init
<1>2. TypeOK
    BY <1>1 DEF Init, TypeOK, Labels
<1>3. WaitersKnown /\ Logged /\ Busy
    BY DEF Init, WaitersKnown, Logged, Logs, Busy
<1>4. QED
    BY <1>2, <1>3 DEF IInv

(* A step that changes nothing keeps the invariant. *)
LEMMA StutterKeeps == IInv /\ UNCHANGED vars => IInv'
    BY SMTT(30) DEF IInv, TypeOK, WaitersKnown, Logged, Busy, vars, table, work, node

-----------------------------------------------------------------------------
(* Reports extend a log that only has the submit, or nothing. *)
LEMMA Appended ==
    ASSUME NEW r
    PROVE  /\ Append(<<>>, "submit") = <<"submit">>
           /\ Append(<<"submit">>, r) = <<"submit", r>>
<1>1. Append(<<"submit">>, r) = [i \in 1..2 |-> IF i = 2 THEN r ELSE <<"submit">>[i]]
    BY SMTT(30)
<1>2. <<"submit", r>> = [i \in 1..2 |-> IF i = 2 THEN r ELSE <<"submit">>[i]]
    BY SMTT(30)
<1>3. Append(<<>>, "submit") = <<"submit">>
    BY SMTT(30)
<1>4. QED
    BY <1>1, <1>2, <1>3

(* A goroutine that moves between labels of its own disturbs nothing, as   *)
(* long as its log suits the new label.                                    *)
LEMMA MoveKeeps ==
    ASSUME IInv, NEW t \in Txs, pc[t] # "waiting",
           NEW label \in Labels \ {"waiting"}, Goto(t, label),
           NEW reports \in Logs(label), log' = [log EXCEPT ![t] = reports],
           UNCHANGED <<pendings, flushed, work, chain>>,
           committed' \subseteq Txs, lock' \in Txs \cup {NoTx}, mempool' \subseteq Txs
    PROVE  IInv'
<1>1. reports \in Seq({"submit", "commit", "abort"})
  <2>1. \/ reports = <<>> \/ reports = <<"submit">>
        \/ reports = <<"submit", "commit">> \/ reports = <<"submit", "abort">>
      BY DEF Logs
  <2>2. /\ <<>> \in Seq({"submit", "commit", "abort"})
        /\ <<"submit">> \in Seq({"submit", "commit", "abort"})
      BY SMTT(30)
  <2>3. <<"submit", "commit">> \in Seq({"submit", "commit", "abort"})
      BY SMTT(30)
  <2>4. <<"submit", "abort">> \in Seq({"submit", "commit", "abort"})
      BY SMTT(30)
  <2>5. QED
      BY <2>1, <2>2, <2>3, <2>4
<1>2. TypeOK'
    BY <1>1 DEF IInv, TypeOK, Goto, work
<1>3. {u \in Txs : pc'[u] = "waiting"} = {u \in Txs : pc[u] = "waiting"}
    BY DEF IInv, TypeOK, Goto
<1>4. WaitersKnown' /\ Busy'
    BY <1>3 DEF IInv, WaitersKnown, Busy, work
<1>5. Logged'
    BY DEF IInv, TypeOK, Logged, Goto, work
<1>6. QED
    BY <1>2, <1>4, <1>5 DEF IInv

(* The steps of a goroutine up to the answer of the node. *)
LEMMA TriggerKeeps ==
    ASSUME IInv, NEW t \in Txs, NEW arrives \in BOOLEAN,
           \/ TriggerFails(t) \/ Trigger(t) \/ Send(t, arrives)
           \/ SendAccepted(t) \/ SendFails(t) \/ Return(t)
    PROVE  IInv'
<1> USE DEF table, node
<1>1. log = [log EXCEPT ![t] = log[t]]
    BY DEF IInv, TypeOK
<1>2. CASE TriggerFails(t)
    BY <1>1, <1>2, MoveKeeps DEF TriggerFails, IInv, TypeOK, Labels, Logged, Logs
<1>3. CASE Trigger(t)
  <2>1. log[t] = <<>>
      BY <1>3 DEF Trigger, IInv, Logged, Logs
  <2>2. log' = [log EXCEPT ![t] = <<"submit">>]
      BY <1>3, <2>1, Appended DEF Trigger, Report
  <2>3. QED
      BY <1>3, <2>2, MoveKeeps DEF Trigger, IInv, TypeOK, Labels, Logged, Logs
<1>4. CASE Send(t, arrives)
    BY <1>1, <1>4, MoveKeeps DEF Send, IInv, TypeOK, Labels, Logged, Logs
<1>5. CASE SendAccepted(t)
    BY <1>1, <1>5, MoveKeeps DEF SendAccepted, IInv, TypeOK, Labels, Logged, Logs
<1>6. CASE SendFails(t)
  <2>1. log[t] = <<"submit">>
      BY <1>6 DEF SendFails, IInv, Logged, Logs
  <2>2. log' = [log EXCEPT ![t] = <<"submit", "abort">>]
      BY <1>6, <2>1, Appended DEF SendFails, Report
  <2>3. <<"submit", "abort">> \in Logs("returning")
      BY DEF Logs
  <2>4. QED
      BY <1>6, <2>2, <2>3, MoveKeeps DEF SendFails, IInv, TypeOK, Labels
<1>7. CASE Return(t)
    BY <1>1, <1>7, MoveKeeps DEF Return, IInv, TypeOK, Labels, Logged, Logs
<1>8. QED
    BY <1>2, <1>3, <1>4, <1>5, <1>6, <1>7

(* confirm(): a flushed table ends the goroutine, a committed transaction  *)
(* parks it, any other registers it.                                       *)
LEMMA ConfirmKeeps ==
    ASSUME IInv, NEW t \in Txs, Confirm(t)
    PROVE  IInv'
<1> USE DEF table, node
<1>1. pc[t] = "confirm" /\ log[t] = <<"submit">>
    BY DEF Confirm, ConfirmFlushed, ConfirmCommitted, ConfirmPending, IInv, Logged, Logs
<1>2. CASE ConfirmFlushed(t)
  <2>1. log' = [log EXCEPT ![t] = <<"submit">>]
      BY <1>1, <1>2 DEF ConfirmFlushed, IInv, TypeOK
  <2>2. <<"submit">> \in Logs("returned")
      BY DEF Logs
  <2>3. QED
      BY <1>1, <1>2, <2>1, <2>2, MoveKeeps DEF ConfirmFlushed, IInv, TypeOK, Labels
<1>3. CASE ConfirmCommitted(t)
  <2>1. log' = [log EXCEPT ![t] = <<"submit", "commit">>]
      BY <1>1, <1>3, Appended DEF ConfirmCommitted, Report
  <2>2. <<"submit", "commit">> \in Logs("parked")
      BY DEF Logs
  <2>3. QED
      BY <1>1, <1>3, <2>1, <2>2, MoveKeeps DEF ConfirmCommitted, IInv, TypeOK, Labels
<1>4. CASE ConfirmPending(t)
  <2> USE <1>1, <1>4 DEF ConfirmPending, Goto, IInv, work
  <2>1. TypeOK'
      BY DEF TypeOK, Labels
  <2>2. {u \in Txs : pc'[u] = "waiting"} = {u \in Txs : pc[u] = "waiting"} \cup {t}
      BY DEF TypeOK
  <2>3. t \notin pendings \cup toReport \cup toWake
      BY DEF WaitersKnown
  <2>4. WaitersKnown' /\ Busy'
      BY <2>2, <2>3 DEF WaitersKnown, Busy
  <2>5. Logged'
      BY <2>3 DEF TypeOK, Logged
  <2>6. QED
      BY <2>1, <2>4, <2>5
<1>5. QED
    BY <1>2, <1>3, <1>4 DEF Confirm

(* The locked part of reportHashes, and what its caller does to `seen`. *)
LEMMA ReportHashesKeeps ==
    ASSUME IInv, poller = "loop", NEW hashes \in SUBSET Txs, ReportHashes(hashes),
           seen' \in Nat
    PROVE  IInv'
<1>1. toReport = {} /\ toWake = {}
    BY DEF IInv, Busy
<1> USE <1>1 DEF ReportHashes, IInv, node
<1>2. TypeOK'
    BY DEF TypeOK
<1>3. WaitersKnown' /\ Busy'
    BY DEF WaitersKnown, Busy
<1>4. Logged'
    BY DEF Logged
<1>5. QED
    BY <1>2, <1>3, <1>4

(* The locked part of flushPendings. *)
LEMMA FlushKeeps ==
    ASSUME IInv, poller \in {"start", "loop"}, FlushPendings
    PROVE  IInv'
<1>1. toReport = {} /\ toWake = {}
    BY DEF IInv, Busy
<1> USE <1>1 DEF FlushPendings, IInv, node
<1>2. TypeOK'
    BY DEF TypeOK
<1>3. WaitersKnown' /\ Busy'
    BY DEF WaitersKnown, Busy
<1>4. Logged'
    BY DEF Logged
<1>5. QED
    BY <1>2, <1>3, <1>4

(* run() reports a transaction it has taken, and wakes its goroutine. *)
LEMMA ReportNextKeeps ==
    ASSUME IInv, NEW t \in Txs, ReportNext(t)
    PROVE  IInv'
<1>1. pc[t] = "waiting" /\ t \notin toWake /\ log[t] = <<"submit">>
    BY DEF ReportNext, IInv, WaitersKnown, Logged
<1>2. log' = [log EXCEPT ![t] = <<"submit", poller>>]
    BY <1>1, Appended DEF ReportNext, Report
<1> USE <1>1 DEF ReportNext, IInv, table, node
<1>3. TypeOK'
  <2>1. Append(log[t], poller) \in Seq({"submit", "commit", "abort"})
      BY SMTT(30) DEF TypeOK
  <2>2. QED
      BY <2>1 DEF TypeOK, Report
<1>4. WaitersKnown' /\ Busy'
    BY DEF WaitersKnown, Busy
<1>5. Logged'
    BY <1>2 DEF TypeOK, Logged
<1>6. QED
    BY <1>3, <1>4, <1>5

(* run() writes to a channel and the goroutine returns from confirm(). *)
LEMMA WakeKeeps ==
    ASSUME IInv, NEW t \in Txs, Wake(t)
    PROVE  IInv'
<1>1. poller \in {"commit", "abort"} /\ log[t] = <<"submit", poller>>
    BY DEF Wake, IInv, Busy, Logged
<1> USE <1>1 DEF Wake, Goto, IInv, table, node
<1>2. TypeOK'
    BY DEF TypeOK, Labels
<1>3. {u \in Txs : pc'[u] = "waiting"} = {u \in Txs : pc[u] = "waiting"} \ {t}
    BY DEF TypeOK
<1>4. WaitersKnown' /\ Busy'
    BY <1>3 DEF WaitersKnown, Busy
<1>5. Logged'
  <2>1. log[t] \in Logs("returned")
      BY DEF Logs
  <2>2. poller' = poller \/ toWake' = {}
      OBVIOUS
  <2>3. ASSUME NEW u \in Txs \ {t}, pc[u] = "waiting"
        PROVE  log[u] = IF u \in toWake' THEN <<"submit", poller'>> ELSE <<"submit">>
      BY <2>2, <2>3 DEF Logged
  <2>4. ASSUME NEW u \in Txs \ {t}
        PROVE  pc'[u] = pc[u] /\ log'[u] = log[u] /\ (pc[u] # "waiting" => log[u] \in Logs(pc[u]))
      BY DEF TypeOK, Logged
  <2>5. pc'[t] = "returned" /\ log'[t] = log[t]
      BY DEF TypeOK
  <2>6. QED
      BY <2>1, <2>3, <2>4, <2>5 DEF Logged
<1>6. QED
    BY <1>2, <1>4, <1>5

(* The node's steps, and the start of run(). *)
LEMMA NodeKeeps ==
    ASSUME IInv,
           \/ \E t \in Txs : PeerSubmits(t)
           \/ \E block \in SUBSET Txs : Seal(block)
    PROVE  IInv'
<1> USE DEF PeerSubmits, Seal, IInv, table, work
<1>1. TypeOK'
  <2>1. \A block \in SUBSET Txs : Append(chain, block) \in Seq(SUBSET Txs)
      BY SMTT(30) DEF TypeOK
  <2>2. QED
      BY <2>1 DEF TypeOK
<1>2. WaitersKnown' /\ Busy' /\ Logged'
    BY SMTT(30) DEF WaitersKnown, Busy, Logged
<1>3. QED
    BY <1>1, <1>2

(* run() enters its loop, or moves on past an empty block. *)
LEMMA StartKeeps ==
    ASSUME IInv, poller \in {"start", "loop"}, poller' = "loop", seen' \in Nat,
           UNCHANGED <<pc, log, table, toReport, toWake, node>>
    PROVE  IInv'
    BY DEF IInv, TypeOK, WaitersKnown, Busy, Logged, table, node

-----------------------------------------------------------------------------
(* Each step under the refinement mapping.                                 *)

(* The four logs of the contract and their stages. *)
LEMMA StageOfLogs ==
    /\ StageOf(<<>>) = "idle"
    /\ StageOf(<<"submit">>) = "submitted"
    /\ StageOf(<<"submit", "commit">>) = "committed"
    /\ StageOf(<<"submit", "abort">>) = "aborted"
    BY DEF StageOf

(* A goroutine that returns ends its interaction. *)
LEMMA ReturnStep ==
    ASSUME IInv, NEW t \in Txs, pc[t] # "returned", Goto(t, "returned"), UNCHANGED log
    PROVE  [Contract!Next]_(Contract!vars)
<1>1. {u \in Txs : pc'[u] = "returned"} = {u \in Txs : pc[u] = "returned"} \cup {t}
    BY DEF IInv, TypeOK, Goto
<1>2. Contract!Return(t)
    BY <1>1 DEF Contract!Return
<1>3. QED
    BY <1>2 DEF Contract!Next

(* A report, by the goroutine or by run(), advances the interaction. *)
LEMMA ReportStep ==
    ASSUME IInv, NEW t \in Txs, pc[t] # "returned",
           {u \in Txs : pc'[u] = "returned"} = {u \in Txs : pc[u] = "returned"},
           NEW report, Report(t, report),
           \/ log[t] = <<>> /\ report = "submit"
           \/ log[t] = <<"submit">> /\ report \in {"commit", "abort"}
    PROVE  [Contract!Next]_(Contract!vars)
<1>1. ASSUME NEW reports, log' = [log EXCEPT ![t] = reports]
      PROVE  Contract!Advance(t, StageOf(log[t]), StageOf(reports))
    BY <1>1 DEF IInv, TypeOK, Contract!Advance
<1>2. CASE log[t] = <<>>
  <2>1. log' = [log EXCEPT ![t] = <<"submit">>]
      BY SMTT(30), <1>2, Appended DEF Report
  <2>2. Contract!Submit(t)
      BY <1>1, <1>2, <2>1, StageOfLogs DEF Contract!Submit
  <2>3. QED
      BY <2>2 DEF Contract!Next
<1>3. CASE log[t] = <<"submit">> /\ report \in {"commit", "abort"}
  <2>1. log' = [log EXCEPT ![t] = <<"submit", report>>]
      BY <1>3, Appended DEF Report
  <2>2. Contract!Commit(t) \/ Contract!Abort(t)
      BY <1>1, <1>3, <2>1, StageOfLogs DEF Contract!Commit, Contract!Abort
  <2>3. QED
      BY <2>2 DEF Contract!Next
<1>4. QED
    BY <1>2, <1>3

(* A step that reports nothing and returns from nothing is invisible. *)
LEMMA SilentStep ==
    ASSUME {u \in Txs : pc'[u] = "returned"} = {u \in Txs : pc[u] = "returned"},
           UNCHANGED log
    PROVE  [Contract!Next]_(Contract!vars)
    BY DEF Contract!vars

(* The steps of TriggerInteraction are steps of the contract or silent. *)
LEMMA TriggerImplements ==
    ASSUME IInv, NEW t \in Txs, NEW arrives \in BOOLEAN,
           \/ TriggerFails(t) \/ Trigger(t) \/ Send(t, arrives)
           \/ SendAccepted(t) \/ SendFails(t) \/ Return(t) \/ Confirm(t)
    PROVE  [Contract!Next]_(Contract!vars)
<1>1. /\ pc[t] = "idle" => log[t] = <<>>
      /\ pc[t] \in {"send", "sending", "confirm"} => log[t] = <<"submit">>
    BY DEF IInv, Logged, Logs
<1>2. ASSUME NEW label \in Labels \ {"returned"}, pc[t] # "returned", Goto(t, label)
      PROVE  {u \in Txs : pc'[u] = "returned"} = {u \in Txs : pc[u] = "returned"}
    BY <1>2 DEF IInv, TypeOK, Goto
<1> USE DEF Labels
<1>3. CASE TriggerFails(t) \/ Return(t) \/ ConfirmFlushed(t)
    BY <1>3, ReturnStep DEF TriggerFails, Return, ConfirmFlushed
<1>4. CASE Trigger(t)
    BY <1>1, <1>2, <1>4, ReportStep DEF Trigger
<1>5. CASE SendFails(t)
    BY <1>1, <1>2, <1>5, ReportStep DEF SendFails
<1>6. CASE ConfirmCommitted(t)
    BY <1>1, <1>2, <1>6, ReportStep DEF ConfirmCommitted
<1>7. CASE Send(t, arrives) \/ SendAccepted(t) \/ ConfirmPending(t)
    BY <1>2, <1>7, SilentStep DEF Send, SendAccepted, ConfirmPending
<1>8. QED
    BY <1>3, <1>4, <1>5, <1>6, <1>7 DEF Confirm

(* So are the reports of run() and its writes to the channels. *)
LEMMA RunImplements ==
    ASSUME IInv, NEW t \in Txs, ReportNext(t) \/ Wake(t)
    PROVE  [Contract!Next]_(Contract!vars)
<1>1. CASE ReportNext(t)
  <2>1. pc[t] = "waiting" /\ log[t] = <<"submit">>
      BY <1>1 DEF ReportNext, IInv, WaitersKnown, Logged
  <2>2. QED
      BY <1>1, <2>1, ReportStep DEF ReportNext
<1>2. CASE Wake(t)
    BY <1>2, ReturnStep DEF Wake
<1>3. QED
    BY <1>1, <1>2

-----------------------------------------------------------------------------
(* The client of nethereum and navalanche keeps the report contract, for   *)
(* any set of transactions and any chain.                                  *)

(* The steps of run() keep the invariant. *)
LEMMA EthereumRunKeeps ==
    ASSUME IInv, Run
    PROVE  IInv'
<1>1. CASE Subscribe
  <2>1. seen' \in Nat
      BY SMTT(30), <1>1 DEF Subscribe, IInv, TypeOK
  <2>2. QED
      BY <1>1, <2>1, StartKeeps DEF Subscribe
<1>2. CASE SubscribeFails \/ LoopBreaks
    BY <1>2, FlushKeeps DEF SubscribeFails, LoopBreaks
<1>3. CASE ProcessBlock
  <2>1. seen' \in Nat /\ chain[seen + 1] \in SUBSET Txs
      BY SMTT(30), <1>3 DEF ProcessBlock, IInv, TypeOK
  <2>2. QED
      BY <1>3, <2>1, StartKeeps, ReportHashesKeeps DEF ProcessBlock
<1>4. CASE \E t \in Txs : RunReports(t) \/ Wake(t)
    BY <1>4, ReportNextKeeps, WakeKeeps DEF RunReports
<1>5. QED
    BY <1>1, <1>2, <1>3, <1>4 DEF Run

(* IInv is inductive. *)
LEMMA EthereumNextKeeps == IInv /\ [Next]_vars => IInv'
<1> SUFFICES ASSUME IInv, [Next]_vars PROVE IInv'
    OBVIOUS
<1>1. ASSUME NEW t \in Txs, TriggerInteraction(t)
      PROVE  IInv'
    BY <1>1, TriggerKeeps, ConfirmKeeps DEF TriggerInteraction
<1>2. QED
    BY <1>1, EthereumRunKeeps, NodeKeeps, StutterKeeps DEF Next

(* Every step is a step of the report contract or a stutter. *)
LEMMA EthereumStepImplements == IInv /\ [Next]_vars => [Contract!Next]_(Contract!vars)
<1> SUFFICES ASSUME IInv, [Next]_vars PROVE [Contract!Next]_(Contract!vars)
    OBVIOUS
<1>1. ASSUME NEW t \in Txs, TriggerInteraction(t)
      PROVE  [Contract!Next]_(Contract!vars)
    BY <1>1, TriggerImplements DEF TriggerInteraction
<1>2. ASSUME NEW t \in Txs, RunReports(t) \/ Wake(t)
      PROVE  [Contract!Next]_(Contract!vars)
    BY <1>2, RunImplements DEF RunReports
<1>3. CASE UNCHANGED <<pc, log>>
    BY <1>3, SilentStep
<1>4. QED
    BY <1>1, <1>2, <1>3
    DEF Next, Run, Subscribe, SubscribeFails, ProcessBlock, LoopBreaks, FlushPendings,
        ReportHashes, PeerSubmits, Seal, vars

(* IInv holds in every reachable state. *)
LEMMA EthereumInvariant == Spec => []IInv
    BY InitIInv, EthereumNextKeeps, PTL DEF Spec

-----------------------------------------------------------------------------
(* The confirmer's fields, the reports and the chain keep their types. *)
THEOREM EthereumTypeCorrect == Spec => []TypeOK
    BY EthereumInvariant, PTL DEF IInv

(* Every goroutine waiting in confirm() is known to the table or to run(), *)
(* through exactly one of them.                                            *)
THEOREM EthereumNobodyForgotten == Spec => []WaitersKnown
    BY EthereumInvariant, PTL DEF IInv

(* The goroutines of TriggerInteraction and run() together implement the   *)
(* report contract the redundancy wrapper and the secondary rely on.       *)
THEOREM EthereumKeepsContract == Spec => ReportsOnce
<1>1. Init => Contract!Init
    BY StageOfLogs DEF Init, Contract!Init
<1>2. QED
    BY <1>1, EthereumStepImplements, EthereumInvariant, PTL DEF Spec, ReportsOnce, Contract!Spec

-----------------------------------------------------------------------------
(* The client of nalgorand keeps the report contract with either of its    *)
(* confirmers, for any set of transactions and any chain.                  *)

(* What goroutines report by themselves, without the table. *)
Answered(t) == AlreadyInLedger(t) \/ PollPoolError(t) \/ PollConfirmed(t)

(* A goroutine that reports its own outcome keeps the invariant. *)
LEMMA AnsweredKeeps ==
    ASSUME IInv, NEW t \in Txs, Answered(t)
    PROVE  IInv'
<1> USE DEF Answered, AlreadyInLedger, PollPoolError, PollConfirmed
<1>1. pc[t] \in {"sending", "confirm"} /\ log[t] = <<"submit">>
    BY DEF IInv, Logged, Logs
<1>2. PICK report \in {"commit", "abort"} : Report(t, report)
    OBVIOUS
<1>3. log' = [log EXCEPT ![t] = <<"submit", report>>]
    BY <1>1, <1>2, Appended DEF Report
<1>4. <<"submit", report>> \in Logs("returning")
    BY DEF Logs
<1>5. QED
    BY <1>1, <1>3, <1>4, MoveKeeps DEF IInv, TypeOK, Labels, table, node

(* ... and advances its interaction in the contract. *)
LEMMA AnsweredImplements ==
    ASSUME IInv, NEW t \in Txs, Answered(t)
    PROVE  [Contract!Next]_(Contract!vars)
<1> USE DEF Answered, AlreadyInLedger, PollPoolError, PollConfirmed
<1>1. pc[t] \in {"sending", "confirm"} /\ log[t] = <<"submit">>
    BY DEF IInv, Logged, Logs
<1>2. {u \in Txs : pc'[u] = "returned"} = {u \in Txs : pc[u] = "returned"}
    BY <1>1 DEF IInv, TypeOK, Goto
<1>3. QED
    BY <1>1, <1>2, ReportStep

(* polltx that gives up returns without an outcome. *)
LEMMA PollFailsKeeps ==
    ASSUME IInv, NEW t \in Txs, PollFails(t)
    PROVE  IInv'
<1> USE DEF PollFails
<1>1. log[t] = <<"submit">> /\ log' = [log EXCEPT ![t] = <<"submit">>]
    BY DEF IInv, TypeOK, Logged, Logs
<1>2. <<"submit">> \in Logs("returned")
    BY DEF Logs
<1>3. QED
    BY <1>1, <1>2, MoveKeeps DEF IInv, TypeOK, Labels, table, node

-----------------------------------------------------------------------------
(* The steps of run() keep the invariant. *)
LEMMA AlgorandRunKeeps ==
    ASSUME IInv, PollblkRun
    PROVE  IInv'
<1>1. CASE Status
  <2>1. seen' \in Nat
      BY SMTT(30), <1>1 DEF Status, IInv, TypeOK
  <2>2. QED
      BY <1>1, <2>1, StartKeeps DEF Status
<1>2. CASE StatusFails \/ StatusAfterBlockFails
    BY <1>2, FlushKeeps DEF StatusFails, StatusAfterBlockFails
<1>3. ASSUME NEW lastRound \in 1..MaxBlocks, PollRounds(lastRound)
      PROVE  IInv'
  <2>1. seen' \in Nat
      BY SMTT(30), <1>3, BlocksAssumption DEF PollRounds
  <2>2. Rounds(seen + 1, lastRound) \in SUBSET Txs
      BY SMTT(30), <1>3, BlocksAssumption DEF PollRounds, Rounds, IInv, TypeOK
  <2>3. QED
      BY <1>3, <2>1, <2>2, ReportHashesKeeps DEF PollRounds
<1>4. CASE \E t \in Txs : ReportUid(t) \/ WakeUid(t)
    BY <1>4, ReportNextKeeps, WakeKeeps DEF ReportUid, WakeUid
<1>5. QED
    BY <1>1, <1>2, <1>3, <1>4 DEF PollblkRun, Poll

(* IInv is inductive. *)
LEMMA AlgorandNextKeeps == IInv /\ [AlgorandNext]_algorandVars => IInv'
<1> SUFFICES ASSUME IInv, [AlgorandNext]_algorandVars PROVE IInv'
    OBVIOUS
<1>1. ASSUME NEW t \in Txs, AlgorandTrigger(t)
      PROVE  IInv'
    BY <1>1, TriggerKeeps, ConfirmKeeps, AnsweredKeeps, PollFailsKeeps
    DEF AlgorandTrigger, SendRaw, PollTx, Answered
<1>2. QED
    BY <1>1, AlgorandRunKeeps, NodeKeeps, StutterKeeps DEF AlgorandNext, algorandVars

(* Every step is a step of the report contract or a stutter. *)
LEMMA AlgorandStepImplements == IInv /\ [AlgorandNext]_algorandVars => [Contract!Next]_(Contract!vars)
<1> SUFFICES ASSUME IInv, [AlgorandNext]_algorandVars PROVE [Contract!Next]_(Contract!vars)
    OBVIOUS
<1>1. ASSUME NEW t \in Txs, AlgorandTrigger(t)
      PROVE  [Contract!Next]_(Contract!vars)
  <2>1. CASE PollFails(t)
      BY <2>1, ReturnStep DEF PollFails
  <2>2. QED
      BY <1>1, <2>1, TriggerImplements, AnsweredImplements
      DEF AlgorandTrigger, SendRaw, PollTx, Answered
<1>2. ASSUME NEW t \in Txs, ReportUid(t) \/ WakeUid(t)
      PROVE  [Contract!Next]_(Contract!vars)
    BY <1>2, RunImplements DEF ReportUid, WakeUid
<1>3. CASE UNCHANGED <<pc, log>>
    BY <1>3, SilentStep
<1>4. QED
    BY <1>1, <1>2, <1>3
    DEF AlgorandNext, PollblkRun, Poll, Status, StatusFails, PollRounds, StatusAfterBlockFails,
        FlushPendings, ReportHashes, PeerSubmits, Seal, vars, algorandVars

(* IInv holds in every reachable state. *)
LEMMA AlgorandInvariant == AlgorandSpec => []IInv
    BY InitIInv, AlgorandNextKeeps, PTL DEF AlgorandSpec, AlgorandInit

-----------------------------------------------------------------------------
(* The confirmer's fields, the reports and the chain keep their types. *)
THEOREM AlgorandTypeCorrect == AlgorandSpec => []TypeOK
    BY AlgorandInvariant, PTL DEF IInv

(* Every goroutine waiting in pollblk's confirm() is known to the table or *)
(* to run(), through exactly one of them.                                  *)
THEOREM AlgorandNobodyForgotten == AlgorandSpec => []WaitersKnown
    BY AlgorandInvariant, PTL DEF IInv

(* TriggerInteraction, with either confirmer, implements the contract. *)
THEOREM AlgorandKeepsContract == AlgorandSpec => ReportsOnce
<1>1. Init => Contract!Init
    BY StageOfLogs DEF Init, Contract!Init
<1>2. QED
    BY <1>1, AlgorandStepImplements, AlgorandInvariant, PTL
    DEF AlgorandSpec, AlgorandInit, ReportsOnce, Contract!Spec
=============================================================================
