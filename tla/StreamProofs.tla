----------------------------- MODULE StreamProofs -----------------------------
(***************************************************************************)
(* Proofs about StreamConfirmer, for any transactions, history, ledger and *)
(* batch.  Types, Held (who knows a transaction), Ledgered (what is in the *)
(* reader's hands is on the ledger) and Logs (what each label knows of the *)
(* reports) are the strengthening that makes the four invariants of the    *)
(* module inductive.                                                       *)
(***************************************************************************)
EXTENDS StreamConfirmer, TLAPS

USE ZenonT(40)

Reports == {"submit", "commit", "abort"}
Live == {"prepared", "send", "sending", "confirm"}
Labels == {"idle", "waiting", "returned", "failed", "sendfailed", "parked"} \cup Live

Types ==
    /\ kind \in {"diem", "aptos", "solana"} /\ method \in {"poll", "stream"}
    /\ kind = "solana" => method = "stream"
    /\ pc \in [Txs -> Labels] /\ log \in [Txs -> Seq(Reports)]
    /\ pendings \in SUBSET Txs /\ taken \in SUBSET Txs /\ waking \in Txs \cup {NoTx}
    /\ batch \in Seq(SUBSET Txs) /\ ledger \in Seq(SUBSET Txs) /\ seen \in Nat

Held ==
    /\ pendings \cap taken = {} /\ waking \notin pendings \cup taken
    /\ \A t \in Txs :
        /\ t \in pendings \cup taken \cup {waking} => pc[t] # "idle"
        /\ pc[t] = "waiting" => t \in pendings \cup taken \cup {waking}
        /\ kind = "solana" /\ pc[t] \in Live => t \in pendings \cup taken \cup {waking}
    /\ method = "poll" => /\ pendings = {} /\ taken = {} /\ waking = NoTx
                          /\ batch = <<>> /\ committed = {}

Ledgered ==
    /\ \A i \in 1..Len(batch) : batch[i] \subseteq Included
    /\ committed \subseteq Included
    /\ reader # "flush" => taken \subseteq Included
    /\ Included \subseteq mempool

Logs ==
    \A t \in Txs :
        /\ pc[t] = "idle" => log[t] = <<>>
        /\ pc[t] = "prepared" => ~Reported(t, "submit")
        /\ pc[t] \in {"send", "sending", "confirm"} => log[t] # <<>>
        /\ t \in mempool => t \in peers \/ log[t] # <<>>
        /\ t \in pendings \cup taken => ~Reported(t, "commit")
        /\ t \in pendings \cup taken /\ Reported(t, "abort") =>
              kind = "solana" /\ pc[t] = "sendfailed"
        /\ method = "poll" /\ pc[t] # "returned" => ~HasOutcome(t)
        /\ waking = t => HasOutcome(t)
        /\ method = "stream" /\ pc[t] \in Live \cup {"waiting"} =>
              t \in pendings \cup taken \/ HasOutcome(t)

Inv ==
    /\ Types /\ Held /\ Ledgered /\ Logs
    /\ OneOutcome /\ OutcomesTrue /\ ReturnsWithOutcome

-----------------------------------------------------------------------------
(* Sequences. *)

LEMMA AppendSeq ==
    ASSUME NEW S, NEW l \in Seq(S), NEW r \in S
    PROVE  /\ Append(l, r) \in Seq(S) /\ Append(l, r) # <<>>
           /\ Len(l) \in Nat /\ Len(Append(l, r)) = Len(l) + 1
           /\ \A i \in 1..Len(l) : Append(l, r)[i] = l[i]
           /\ Append(l, r)[Len(l) + 1] = r
  BY SMTT(30)

LEMMA TailSeq ==
    ASSUME NEW S, NEW l \in Seq(S), l # <<>>
    PROVE  /\ Head(l) = l[1] /\ Head(l) \in S /\ Tail(l) \in Seq(S)
           /\ Len(l) \in Nat \ {0} /\ Len(Tail(l)) = Len(l) - 1
           /\ \A i \in 1..Len(Tail(l)) : Tail(l)[i] = l[i + 1]
  BY SMTT(30)

LEMMA SubSeqOf ==
    ASSUME NEW S, NEW l \in Seq(S), NEW m \in Nat, NEW n \in Nat, 1 <= m, n <= Len(l)
    PROVE  /\ SubSeq(l, m, n) \in Seq(S)
           /\ \A i \in 1..Len(SubSeq(l, m, n)) :
                \E j \in 1..Len(l) : SubSeq(l, m, n)[i] = l[j]
  BY SMTT(30)

(* What one more report changes. *)
LEMMA Reporting ==
    ASSUME Types, NEW t \in Txs, NEW r \in Reports, Report(t, r)
    PROVE  /\ log' \in [Txs -> Seq(Reports)] /\ log'[t] # <<>>
           /\ \A u \in Txs \ {t} : log'[u] = log[u]
           /\ DOMAIN log[t] = 1..Len(log[t]) /\ DOMAIN log'[t] = 1..(Len(log[t]) + 1)
           /\ Len(log[t]) \in Nat
           /\ \A i \in 1..Len(log[t]) : log'[t][i] = log[t][i]
           /\ log'[t][Len(log[t]) + 1] = r
<1>1. log[t] \in Seq(Reports) /\ log'[t] = Append(log[t], r)
  BY DEF Types, Report
<1>2. DOMAIN log[t] = 1..Len(log[t]) /\ DOMAIN log'[t] = 1..(Len(log[t]) + 1)
  BY SMTT(30), <1>1
<1>3. log' \in [Txs -> Seq(Reports)] /\ \A u \in Txs \ {t} : log'[u] = log[u]
  BY <1>1, AppendSeq DEF Types, Report
<1>. QED BY SMTT(30), <1>1, <1>2, <1>3, AppendSeq

LEMMA ReportedMore ==
    ASSUME Types, NEW t \in Txs, NEW r \in Reports, Report(t, r)
    PROVE  \A u \in Txs : \A x :
              Reported(u, x)' <=> Reported(u, x) \/ (u = t /\ x = r)
<1>1. ASSUME NEW x PROVE Reported(t, x)' <=> Reported(t, x) \/ x = r
  <2>1. PICK n \in Nat : /\ DOMAIN log[t] = 1..n /\ DOMAIN log'[t] = 1..(n + 1)
                         /\ \A i \in 1..n : log'[t][i] = log[t][i]
                         /\ log'[t][n + 1] = r
    BY Reporting
  <2>2. Reported(t, x)' <=> \E i \in 1..(n + 1) : log'[t][i] = x
    BY <2>1 DEF Reported
  <2>3. Reported(t, x) <=> \E i \in 1..n : log[t][i] = x
    BY <2>1 DEF Reported
  <2>4. ASSUME NEW i \in 1..(n + 1) PROVE i \in 1..n \/ i = n + 1
    BY SMTT(30)
  <2>5. n + 1 \in 1..(n + 1) /\ \A i \in 1..n : i \in 1..(n + 1)
    BY SMTT(30)
  <2>. QED BY <2>1, <2>2, <2>3, <2>4, <2>5
<1>2. ASSUME NEW u \in Txs \ {t}, NEW x PROVE Reported(u, x)' <=> Reported(u, x)
  BY Reporting DEF Reported
<1>. QED BY <1>1, <1>2

-----------------------------------------------------------------------------
(* Types. *)

LEMMA ProceedTypes ==
    ASSUME Types, NEW t \in Txs, Proceed(t) \/ PrepareFails(t)
    PROVE  Types'
<1>. USE DEF Types, Goto, setting, table, hands, place, node, Live, Labels
<1>2. CASE PrepareFails(t) \/ PollPrepare(t) \/ SolanaPrepareFlushed(t)
  BY <1>2 DEF PrepareFails, PollPrepare, SolanaPrepareFlushed, Prepared
<1>3. CASE DiemPrepare(t) \/ Register(t)
  BY <1>3 DEF DiemPrepare, Register, Prepared
<1>4. CASE Park(t)
  BY <1>4, Reporting DEF Park, Reports
<1>5. CASE Submit(t) \/ SolanaSendFails(t)
  BY <1>5, Reporting DEF Submit, SolanaSendFails, Reports
<1>6. CASE Executed(t)
  BY <1>6, Reporting DEF Executed, Reports
<1>7. CASE \E arrives \in BOOLEAN : Send(t, arrives)
  BY <1>7 DEF Send
<1>8. CASE SendAccepted(t) \/ DiemSendFails(t) \/ AptosSendFails(t) \/ SolanaConfirm(t)
  BY <1>8 DEF SendAccepted, DiemSendFails, AptosSendFails, SolanaConfirm
<1>9. CASE LookUpAgain(t) \/ PollFails(t)
  BY <1>9 DEF LookUpAgain, PollFails
<1>. QED BY <1>2, <1>3, <1>4, <1>5, <1>6, <1>7, <1>8, <1>9 DEF Proceed, AptosPrepare,
       SolanaPrepare, DiemConfirm, AptosConfirm, DiemPollTx, AptosPollTx

LEMMA RunTypes ==
    ASSUME Types, Run
    PROVE  Types'
<1>. USE DEF Types, Goto, setting, table, hands, place, node, Live, Labels
<1>1. CASE Parsing
  <2>1. Tail(batch) \in Seq(SUBSET Txs)
    BY <1>1, TailSeq DEF Parsing
  <2>. QED BY <1>1, <2>1 DEF Parsing
<1>2. ASSUME NEW t \in Txs, ReportNext(t) PROVE Types'
  BY <1>2, Reporting DEF ReportNext, Reports
<1>3. ASSUME NEW t \in Txs, Wake(t) PROVE Types'
  BY <1>3 DEF Wake
<1>4. ASSUME NEW c, GetMetadata(c) \/ MetadataFails(c) \/ GetTransactionsFails(c)
      PROVE  Types'
  BY SMTT(30), <1>4 DEF GetMetadata, MetadataFails, GetTransactionsFails
<1>5. ASSUME NEW c, GetTransactions(c) PROVE Types'
  <2>1. LastOf(seen + 1) \in Nat /\ LastOf(seen + 1) <= Len(ledger)
    BY SMTT(30), <1>5, StreamAssumption DEF GetTransactions, LastOf
  <2>2. SubSeq(ledger, seen + 1, LastOf(seen + 1)) \in Seq(SUBSET Txs)
    BY SMTT(30), <2>1, SubSeqOf
  <2>. QED BY <1>5, <2>1, <2>2 DEF GetTransactions
<1>6. CASE RootSubscribe \/ ReceiveRoot \/ FlushPendings
  BY <1>6 DEF RootSubscribe, ReceiveRoot, FlushPendings
<1>7. CASE ProcessBlock
  <2>1. ledger[seen + 1] \in SUBSET Txs
    BY SMTT(30), <1>7 DEF ProcessBlock
  <2>2. <<ledger[seen + 1]>> \in Seq(SUBSET Txs)
    BY SMTT(30), <2>1
  <2>. QED BY SMTT(30), <1>7, <2>2 DEF ProcessBlock
<1>8. ASSUME NEW slot \in 1..(MaxVersions + 1), SkipTo(slot) PROVE Types'
  BY SMTT(30), <1>8, StreamAssumption DEF SkipTo
<1>9. CASE NotConfirmed
  BY SMTT(30), <1>9 DEF NotConfirmed
<1>10. CASE NotParsed
  <2>1. Tail(batch) \in Seq(SUBSET Txs)
    BY <1>10, TailSeq DEF NotParsed
  <2>. QED BY <1>10, <2>1 DEF NotParsed
<1>11. CASE VersionFails
  <2>1. <<>> \in Seq(SUBSET Txs)
    BY SMTT(30)
  <2>. QED BY <1>11, <2>1 DEF VersionFails
<1>. QED BY <1>1, <1>2, <1>3, <1>4, <1>5, <1>6, <1>7, <1>8, <1>9, <1>10, <1>11
       DEF Run, DiemRun, AptosRun, SolanaRun, Parse, DiemParseTransaction,
           AptosParseTransaction, SolanaReportHashes

LEMMA TypesStep ==
    ASSUME Types, Next
    PROVE  Types'
<1>1. ASSUME NEW t \in Txs, PeerSubmits(t) PROVE Types'
  BY <1>1 DEF PeerSubmits, Types, setting, table, hands, place
<1>2. ASSUME NEW txs \in SUBSET Txs, Extend(txs) PROVE Types'
  BY <1>2, AppendSeq DEF Extend, Types, setting, table, hands, place
<1>. QED BY <1>1, <1>2, ProceedTypes, RunTypes DEF Next

-----------------------------------------------------------------------------
(* Who knows a transaction. *)

LEMMA ProceedHeld ==
    ASSUME Types, Held, NEW t \in Txs, Proceed(t) \/ PrepareFails(t)
    PROVE  Held'
<1>. USE StreamAssumption DEF Types, Held, Goto, setting, table, hands, place, node, Live, Labels
<1>1. CASE PrepareFails(t) \/ PollPrepare(t) \/ SolanaPrepareFlushed(t)
  BY <1>1 DEF PrepareFails, PollPrepare, SolanaPrepareFlushed, Prepared
<1>2. CASE DiemPrepare(t) \/ (Register(t) /\ method = "stream")
  BY <1>2 DEF DiemPrepare, Register, Prepared
<1>3. CASE Park(t) /\ method = "stream"
  BY <1>3 DEF Park
<1>4. CASE Submit(t) \/ SolanaSendFails(t)
  BY <1>4 DEF Submit, SolanaSendFails
<1>5. CASE Executed(t)
  BY <1>5 DEF Executed
<1>6. CASE \E arrives \in BOOLEAN : Send(t, arrives)
  BY <1>6 DEF Send
<1>7. CASE SendAccepted(t) \/ DiemSendFails(t) \/ AptosSendFails(t) \/ SolanaConfirm(t)
  BY <1>7 DEF SendAccepted, DiemSendFails, AptosSendFails, SolanaConfirm
<1>8. CASE LookUpAgain(t) \/ PollFails(t)
  BY ZenonT(30), <1>8 DEF LookUpAgain, PollFails
<1>. QED BY <1>1, <1>2, <1>3, <1>4, <1>5, <1>6, <1>7, <1>8 DEF Proceed, AptosPrepare,
       SolanaPrepare, DiemConfirm, AptosConfirm, DiemPollTx, AptosPollTx

LEMMA RunHeld ==
    ASSUME Types, Held, Run
    PROVE  Held'
<1>. USE StreamAssumption DEF Types, Held, Goto, setting, table, hands, place, node, Live, Labels
<1>1. CASE Parsing
  BY <1>1 DEF Parsing
<1>2. ASSUME NEW t \in Txs, ReportNext(t) PROVE Held'
  BY <1>2 DEF ReportNext
<1>3. ASSUME NEW t \in Txs, Wake(t) PROVE Held'
  BY <1>3 DEF Wake
<1>4. ASSUME NEW c, \/ GetMetadata(c) \/ MetadataFails(c)
                    \/ GetTransactionsFails(c) \/ GetTransactions(c)
      PROVE  Held'
  BY <1>4 DEF GetMetadata, MetadataFails, GetTransactionsFails, GetTransactions, Ledger
<1>5. CASE RootSubscribe \/ ReceiveRoot \/ ProcessBlock
  BY <1>5 DEF RootSubscribe, ReceiveRoot, ProcessBlock, Ledger
<1>6. CASE FlushPendings
  BY <1>6 DEF FlushPendings, Ledger, ReaderIdle
<1>7. ASSUME NEW slot \in 1..(MaxVersions + 1), SkipTo(slot) PROVE Held'
  BY <1>7 DEF SkipTo
<1>8. CASE NotConfirmed
  BY <1>8 DEF NotConfirmed
<1>9. CASE NotParsed
  BY <1>9 DEF NotParsed
<1>10. CASE VersionFails
  BY <1>10 DEF VersionFails
<1>. QED BY <1>1, <1>2, <1>3, <1>4, <1>5, <1>6, <1>7, <1>8, <1>9, <1>10 DEF Run, DiemRun, AptosRun,
       SolanaRun, Parse, DiemParseTransaction, AptosParseTransaction, SolanaReportHashes

LEMMA HeldStep ==
    ASSUME Types, Held, Next
    PROVE  Held'
<1>1. ASSUME NEW t \in Txs, PeerSubmits(t) PROVE Held'
  BY <1>1 DEF PeerSubmits, Held, setting, table, hands
<1>2. ASSUME NEW txs \in SUBSET Txs, Extend(txs) PROVE Held'
  BY <1>2 DEF Extend, Held, setting, table, hands
<1>. QED BY <1>1, <1>2, ProceedHeld, RunHeld DEF Next

-----------------------------------------------------------------------------
(* What the reader has is on the ledger. *)

LEMMA IncludedGrows ==
    ASSUME Types, Next
    PROVE  Included \subseteq Included'
<1>1. ledger' = ledger \/ \E txs \in SUBSET Txs : ledger' = Append(ledger, txs)
  BY DEF Next, PeerSubmits, Extend, Run, Parse, DiemParseTransaction, AptosParseTransaction,
       SolanaReportHashes, Parsing, ReportNext, Wake, DiemRun, AptosRun, SolanaRun,
       GetMetadata, MetadataFails, GetTransactions, GetTransactionsFails, RootSubscribe,
       ProcessBlock, ReceiveRoot, FlushPendings, NotParsed, NotConfirmed, VersionFails, SkipTo,
       Proceed, PrepareFails, PollPrepare,
       DiemPrepare, AptosPrepare, SolanaPrepare, SolanaPrepareFlushed, Park, Register, Submit,
       Send, SendAccepted, DiemSendFails, AptosSendFails, SolanaSendFails, DiemConfirm,
       AptosConfirm, SolanaConfirm, LookUpAgain, DiemPollTx, AptosPollTx, PollFails, Executed,
       node
<1>2. ASSUME NEW txs \in SUBSET Txs, ledger' = Append(ledger, txs)
      PROVE  \A v \in 1..Len(ledger) : v \in 1..Len(ledger') /\ ledger'[v] = ledger[v]
  BY SMTT(30), <1>2, AppendSeq DEF Types
<1>. QED BY <1>1, <1>2 DEF Included

LEMMA ExtendIncluded ==
    ASSUME Types, NEW txs \in SUBSET Txs, Extend(txs)
    PROVE  Included' \subseteq Included \cup txs
<1>1. ledger' = Append(ledger, txs)
  BY DEF Extend
<1>2. \A v \in 1..Len(ledger') : v \in 1..Len(ledger) \/ v = Len(ledger) + 1
  BY SMTT(30), <1>1, AppendSeq DEF Types
<1>3. \A v \in 1..Len(ledger') : (ledger'[v] = ledger[v] /\ v \in 1..Len(ledger)) \/ ledger'[v] = txs
  BY SMTT(30), <1>1, <1>2, AppendSeq DEF Types
<1>. QED BY <1>3 DEF Included

LEMMA ProceedLedgered ==
    ASSUME Types, Ledgered, NEW t \in Txs, Proceed(t) \/ PrepareFails(t)
    PROVE  Ledgered'
<1>1. UNCHANGED <<batch, taken, reader, ledger>> /\ mempool \subseteq mempool'
  BY DEF Proceed, PrepareFails, PollPrepare, DiemPrepare, AptosPrepare, SolanaPrepare,
       SolanaPrepareFlushed, Park, Register, Submit, Send, SendAccepted, DiemSendFails,
       AptosSendFails, SolanaSendFails, DiemConfirm, AptosConfirm, SolanaConfirm, LookUpAgain,
       DiemPollTx, AptosPollTx, PollFails, Executed, node, hands
<1>2. committed' \subseteq committed
  BY DEF Proceed, PrepareFails, PollPrepare, DiemPrepare, AptosPrepare, SolanaPrepare,
       SolanaPrepareFlushed, Park, Register, Submit, Send, SendAccepted, DiemSendFails,
       AptosSendFails, SolanaSendFails, DiemConfirm, AptosConfirm, SolanaConfirm, LookUpAgain,
       DiemPollTx, AptosPollTx, PollFails, Executed, table
<1>. QED BY <1>1, <1>2 DEF Ledgered, Included

LEMMA RunLedgered ==
    ASSUME Types, Ledgered, Run
    PROVE  Ledgered'
<1>1. UNCHANGED <<ledger, mempool>>
  BY DEF Run, Parse, DiemParseTransaction, AptosParseTransaction, SolanaReportHashes, Parsing,
       ReportNext, Wake, DiemRun, AptosRun, SolanaRun, GetMetadata, MetadataFails,
       GetTransactions, GetTransactionsFails, RootSubscribe, ProcessBlock, ReceiveRoot,
       FlushPendings, NotParsed, NotConfirmed, VersionFails, SkipTo, node
<1>2. Included' = Included
  BY <1>1 DEF Included
<1>. USE DEF Ledgered
<1>3. CASE Parsing /\ committed' \subseteq committed \cup Head(batch)
  <2>1. /\ Head(batch) \subseteq Included
        /\ \A i \in 1..Len(Tail(batch)) : Tail(batch)[i] \subseteq Included
    BY SMTT(30), <1>3, TailSeq DEF Parsing, Types
  <2>. QED BY <1>1, <1>2, <1>3, <2>1 DEF Parsing
<1>4. ASSUME NEW t \in Txs, ReportNext(t) \/ Wake(t) PROVE Ledgered'
  BY <1>1, <1>2, <1>4 DEF ReportNext, Wake, table
<1>5. ASSUME NEW c, GetMetadata(c) \/ MetadataFails(c) \/ GetTransactionsFails(c)
      PROVE  Ledgered'
  BY <1>1, <1>2, <1>5 DEF GetMetadata, MetadataFails, GetTransactionsFails, table, hands
<1>6. ASSUME NEW c, GetTransactions(c) PROVE Ledgered'
  <2>1. LastOf(seen + 1) \in Nat /\ LastOf(seen + 1) <= Len(ledger) /\ seen \in Nat
    BY SMTT(30), <1>6, StreamAssumption DEF GetTransactions, LastOf, Types
  <2>2. \A i \in 1..Len(batch') : \E j \in 1..Len(ledger) : batch'[i] = ledger[j]
    BY SMTT(30), <1>6, <2>1, SubSeqOf DEF GetTransactions, Types
  <2>3. \A i \in 1..Len(batch') : batch'[i] \subseteq Included
    BY <2>2 DEF Included
  <2>. QED BY <1>1, <1>2, <1>6, <2>3 DEF GetTransactions, table
<1>7. CASE ProcessBlock
  <2>1. seen + 1 \in 1..Len(ledger) /\ batch' = <<ledger[seen + 1]>>
    BY SMTT(30), <1>7 DEF ProcessBlock, Types
  <2>2. \A i \in 1..Len(batch') : batch'[i] = ledger[seen + 1]
    BY SMTT(30), <2>1
  <2>3. ledger[seen + 1] \subseteq Included
    BY <2>1 DEF Included
  <2>. QED BY <1>1, <1>2, <1>7, <2>2, <2>3 DEF ProcessBlock, table
<1>8. CASE RootSubscribe \/ ReceiveRoot
  BY <1>1, <1>2, <1>8 DEF RootSubscribe, ReceiveRoot, table, hands
<1>9. CASE FlushPendings
  BY <1>1, <1>2, <1>9 DEF FlushPendings
<1>10. ASSUME NEW slot \in 1..(MaxVersions + 1), SkipTo(slot) PROVE Ledgered'
  BY <1>1, <1>2, <1>10 DEF SkipTo, table, hands
<1>11. CASE NotConfirmed
  BY <1>1, <1>2, <1>11 DEF NotConfirmed, table, hands
<1>12. CASE NotParsed
  <2>1. \A i \in 1..Len(Tail(batch)) : Tail(batch)[i] \subseteq Included
    BY SMTT(30), <1>12, TailSeq DEF NotParsed, Types
  <2>. QED BY <1>1, <1>2, <1>12, <2>1 DEF NotParsed, table
<1>13. CASE VersionFails
  <2>1. \A i \in 1..Len(batch') : FALSE
    BY SMTT(30), <1>13 DEF VersionFails
  <2>. QED BY <1>1, <1>2, <1>13, <2>1 DEF VersionFails, table
<1>. QED BY <1>3, <1>4, <1>5, <1>6, <1>7, <1>8, <1>9, <1>10, <1>11, <1>12, <1>13
       DEF Run, DiemRun, AptosRun, SolanaRun, Parse, DiemParseTransaction,
           AptosParseTransaction, SolanaReportHashes

LEMMA LedgeredStep ==
    ASSUME Types, Ledgered, Next
    PROVE  Ledgered'
<1>1. ASSUME NEW t \in Txs, PeerSubmits(t) PROVE Ledgered'
  BY <1>1 DEF PeerSubmits, Ledgered, Included, table, hands
<1>2. ASSUME NEW txs \in SUBSET Txs, Extend(txs) PROVE Ledgered'
  BY <1>2, IncludedGrows, ExtendIncluded DEF Extend, Ledgered, table, hands
<1>. QED BY <1>1, <1>2, ProceedLedgered, RunLedgered DEF Next

-----------------------------------------------------------------------------
(* The reports, label by label. *)

LEMMA ReportedSame ==
    ASSUME log' = log
    PROVE  \A u, x : Reported(u, x)' <=> Reported(u, x)
  BY DEF Reported

LEMMA ProceedLogs ==
    ASSUME Types, Held, Ledgered, Logs, NEW t \in Txs, Proceed(t) \/ PrepareFails(t)
    PROVE  Logs'
<1>. USE DEF Types, Held, Logs, HasOutcome, Goto, setting, table, hands, place, node, Live, Labels
<1>0. ASSUME NEW u \in Txs, log[u] = <<>>, NEW x PROVE ~Reported(u, x)
  BY SMTT(30), <1>0 DEF Reported
<1>1. CASE PrepareFails(t) \/ PollPrepare(t) \/ SolanaPrepareFlushed(t)
  BY SMTT(30), <1>0, <1>1, ReportedSame DEF PrepareFails, PollPrepare, SolanaPrepareFlushed, Prepared
<1>2. CASE DiemPrepare(t) \/ (Register(t) /\ method = "stream")
  BY SMTT(30), <1>0, <1>2, ReportedSame DEF DiemPrepare, Register, Prepared
<1>3. CASE Park(t) /\ method = "stream"
  BY SMTT(30), <1>0, <1>3, Reporting, ReportedMore DEF Park, Reports
<1>4. CASE Submit(t)
  BY SMTT(30), <1>4, Reporting, ReportedMore DEF Submit, Reports
<1>5. CASE SolanaSendFails(t)
  BY SMTT(30), <1>5, Reporting, ReportedMore DEF SolanaSendFails, Reports
<1>6. CASE Executed(t)
  BY SMTT(30), <1>6, Reporting, ReportedMore DEF Executed, Reports
<1>7. CASE \E arrives \in BOOLEAN : Send(t, arrives)
  BY SMTT(30), <1>7, ReportedSame DEF Send
<1>8. CASE SendAccepted(t) \/ DiemSendFails(t) \/ AptosSendFails(t) \/ SolanaConfirm(t)
  BY SMTT(30), <1>8, ReportedSame DEF SendAccepted, DiemSendFails, AptosSendFails, SolanaConfirm
<1>9. CASE LookUpAgain(t) \/ PollFails(t)
  BY SMTT(30), <1>9, ReportedSame DEF LookUpAgain, PollFails
<1>. QED BY <1>1, <1>2, <1>3, <1>4, <1>5, <1>6, <1>7, <1>8, <1>9 DEF Proceed, AptosPrepare,
       SolanaPrepare, DiemConfirm, AptosConfirm, DiemPollTx, AptosPollTx

LEMMA RunLogs ==
    ASSUME Types, Held, Ledgered, Logs, Run
    PROVE  Logs'
<1>. USE StreamAssumption DEF Types, Held, Logs, HasOutcome, Goto, setting, table, hands,
       place, node, Live, Labels
<1>1. CASE Parsing
  BY <1>1, ReportedSame DEF Parsing
<1>2. ASSUME NEW t \in Txs, ReportNext(t) PROVE Logs'
  BY SMTT(30), <1>2, Reporting, ReportedMore DEF ReportNext, Reports
<1>3. ASSUME NEW t \in Txs, Wake(t) PROVE Logs'
  BY <1>3, ReportedSame DEF Wake
<1>4. ASSUME NEW c, \/ GetMetadata(c) \/ MetadataFails(c)
                    \/ GetTransactionsFails(c) \/ GetTransactions(c)
      PROVE  Logs'
  BY SMTT(30), <1>4, ReportedSame DEF GetMetadata, MetadataFails, GetTransactionsFails, GetTransactions
<1>5. CASE RootSubscribe \/ ReceiveRoot \/ ProcessBlock
  BY SMTT(30), <1>5, ReportedSame DEF RootSubscribe, ReceiveRoot, ProcessBlock
<1>6. CASE FlushPendings
  BY <1>6, ReportedSame DEF FlushPendings, ReaderIdle
<1>7. ASSUME NEW slot \in 1..(MaxVersions + 1), SkipTo(slot) PROVE Logs'
  BY <1>7, ReportedSame DEF SkipTo
<1>8. CASE NotConfirmed
  BY <1>8, ReportedSame DEF NotConfirmed
<1>9. CASE NotParsed
  BY <1>9, ReportedSame DEF NotParsed
<1>10. CASE VersionFails
  BY <1>10, ReportedSame DEF VersionFails
<1>. QED BY <1>1, <1>2, <1>3, <1>4, <1>5, <1>6, <1>7, <1>8, <1>9, <1>10 DEF Run, DiemRun, AptosRun,
       SolanaRun, Parse, DiemParseTransaction, AptosParseTransaction, SolanaReportHashes

LEMMA LogsStep ==
    ASSUME Types, Held, Ledgered, Logs, Next
    PROVE  Logs'
<1>1. ASSUME NEW t \in Txs, PeerSubmits(t) PROVE Logs'
  BY <1>1, ReportedSame DEF PeerSubmits, Logs, HasOutcome, setting, table, hands
<1>2. ASSUME NEW txs \in SUBSET Txs, Extend(txs) PROVE Logs'
  BY <1>2, ReportedSame DEF Extend, Logs, HasOutcome, setting, table, hands
<1>. QED BY <1>1, <1>2, ProceedLogs, RunLogs DEF Next

-----------------------------------------------------------------------------
(* When a report is made, and what stays. *)

MayReport(t, r) ==
    /\ r # "abort" => ~Reported(t, r)
    /\ r # "submit" /\ HasOutcome(t) => kind = "solana" /\ pc'[t] = "sendfailed"
    /\ r # "submit" /\ log[t] = <<>> => t \in peers' \/ reader' = "flush"
    /\ r = "commit" => t \in Included
    /\ method = "poll" /\ r = "commit" => t \notin failing

Stays ==
    /\ UNCHANGED setting
    /\ peers \subseteq peers'
    /\ reader = "flush" => reader' = "flush"
    /\ \A t \in Txs : pc[t] = "sendfailed" => pc'[t] = "sendfailed"

LEMMA StaysStep ==
    ASSUME Types, Next
    PROVE  Stays
<1>. USE DEF Stays, Types, Goto, node
<1>1. ASSUME NEW t \in Txs, Proceed(t) \/ PrepareFails(t) PROVE Stays
  BY <1>1 DEF Proceed, PrepareFails, PollPrepare, DiemPrepare, AptosPrepare, SolanaPrepare,
       SolanaPrepareFlushed, Prepared, Park, Register, Submit, Send, SendAccepted,
       DiemSendFails, AptosSendFails, SolanaSendFails, DiemConfirm, AptosConfirm,
       SolanaConfirm, LookUpAgain, DiemPollTx, AptosPollTx, PollFails, Executed
<1>2. CASE Run
  BY <1>2 DEF Run, Parse, DiemParseTransaction, AptosParseTransaction, SolanaReportHashes,
       Parsing, ReportNext, Wake, DiemRun, AptosRun, SolanaRun, GetMetadata, MetadataFails,
       GetTransactions, GetTransactionsFails, RootSubscribe, ProcessBlock, ReceiveRoot,
       FlushPendings, NotParsed, NotConfirmed, VersionFails, SkipTo
<1>3. ASSUME NEW t \in Txs, PeerSubmits(t) PROVE Stays
  BY <1>3 DEF PeerSubmits
<1>4. ASSUME NEW txs \in SUBSET Txs, Extend(txs) PROVE Stays
  BY <1>4 DEF Extend
<1>. QED BY <1>1, <1>2, <1>3, <1>4 DEF Next

LEMMA ReportStep ==
    ASSUME Types, Held, Ledgered, Logs, Next
    PROVE  \/ log' = log
           \/ \E t \in Txs, r \in Reports : Report(t, r) /\ MayReport(t, r)
<1>. USE DEF Types, Held, Logs, HasOutcome, MayReport, Reports, Goto, node, Live
<1>0. ASSUME NEW u \in Txs, log[u] = <<>>, NEW x PROVE ~Reported(u, x)
  BY SMTT(30), <1>0 DEF Reported
<1>1. ASSUME NEW t \in Txs, Park(t) PROVE Report(t, "commit") /\ MayReport(t, "commit")
  <2>1. method = "stream"
    BY <1>1 DEF Park
  <2>. QED BY <1>0, <1>1, <2>1 DEF Park, Ledgered
<1>2. ASSUME NEW t \in Txs, Submit(t) PROVE Report(t, "submit") /\ MayReport(t, "submit")
  BY <1>2 DEF Submit
<1>3. ASSUME NEW t \in Txs, SolanaSendFails(t)
      PROVE  Report(t, "abort") /\ MayReport(t, "abort")
  BY <1>3 DEF SolanaSendFails
<1>4. ASSUME NEW t \in Txs, Executed(t)
      PROVE  \E r \in Reports : Report(t, r) /\ MayReport(t, r)
  <2>1. ~HasOutcome(t) /\ log[t] # <<>>
    BY <1>4 DEF Executed
  <2>2. CASE t \in failing
    <3>1. Report(t, "abort") /\ MayReport(t, "abort")
      BY <1>4, <2>1, <2>2 DEF Executed
    <3>. QED BY <3>1
  <2>3. CASE t \notin failing
    <3>1. Report(t, "commit") /\ MayReport(t, "commit")
      BY <1>4, <2>1, <2>3 DEF Executed
    <3>. QED BY <3>1
  <2>. QED BY <2>2, <2>3
<1>5. ASSUME NEW t \in Txs, ReportNext(t)
      PROVE  \E r \in Reports : Report(t, r) /\ MayReport(t, r)
  <2>1. ~Reported(t, "commit") /\ (Reported(t, "abort") => kind = "solana" /\ pc[t] = "sendfailed")
    BY <1>5 DEF ReportNext
  <2>2. pc' = pc /\ reader' = reader /\ peers' = peers /\ method = "stream"
    BY <1>5 DEF ReportNext
  <2>3. CASE reader = "flush"
    <3>1. Report(t, "abort") /\ MayReport(t, "abort")
      BY <1>5, <2>1, <2>2, <2>3 DEF ReportNext
    <3>. QED BY <3>1
  <2>4. CASE reader # "flush"
    <3>1. t \in Included /\ t \in mempool
      BY <1>5, <2>4 DEF ReportNext, Ledgered
    <3>2. Report(t, "commit") /\ MayReport(t, "commit")
      BY <1>5, <2>1, <2>2, <2>4, <3>1 DEF ReportNext
    <3>. QED BY <3>2
  <2>. QED BY <2>3, <2>4
<1>6. \/ log' = log
      \/ \E t \in Txs : Park(t) \/ Submit(t) \/ SolanaSendFails(t) \/ Executed(t) \/ ReportNext(t)
  BY DEF Next, PeerSubmits, Extend, Run, Parse, DiemParseTransaction, AptosParseTransaction,
       SolanaReportHashes, Parsing, Wake, DiemRun, AptosRun, SolanaRun,
       GetMetadata, MetadataFails, GetTransactions, GetTransactionsFails, RootSubscribe,
       ProcessBlock, ReceiveRoot, FlushPendings, NotParsed, NotConfirmed, VersionFails, SkipTo,
       Proceed, PrepareFails, PollPrepare,
       DiemPrepare, AptosPrepare, SolanaPrepare, SolanaPrepareFlushed, Register,
       Send, SendAccepted, DiemSendFails, AptosSendFails, DiemConfirm,
       AptosConfirm, SolanaConfirm, LookUpAgain, DiemPollTx, AptosPollTx, PollFails
<1>. QED BY <1>1, <1>2, <1>3, <1>4, <1>5, <1>6

-----------------------------------------------------------------------------
(* The invariants of StreamConfirmer. *)

OneOf(t) ==
    /\ \A i, j \in DOMAIN log[t] :
          /\ log[t][i] = log[t][j] /\ log[t][i] # "abort" => i = j
          /\ log[t][i] # "submit" /\ log[t][j] # "submit" =>
                i = j \/ (kind = "solana" /\ pc[t] = "sendfailed")
    /\ log[t] # <<>> /\ log[t][1] # "submit" =>
          t \in peers \/ reader = "flush"

LEMMA OneMore ==
    ASSUME Types, Stays, NEW t \in Txs, NEW r \in Reports, Report(t, r), MayReport(t, r), OneOf(t)
    PROVE  OneOf(t)'
<1>. DEFINE n == Len(log[t])
<1>1. /\ n \in Nat /\ DOMAIN log[t] = 1..n /\ DOMAIN log'[t] = 1..(n + 1)
      /\ \A i \in 1..n : log'[t][i] = log[t][i]
      /\ log'[t][n + 1] = r
  BY Reporting
<1>2. \A i \in 1..n : log[t][i] = r => r = "abort"
  BY <1>1 DEF MayReport, Reported
<1>3. kind' = kind /\ (pc[t] = "sendfailed" => pc'[t] = "sendfailed")
  BY DEF Stays, setting
<1>4. ASSUME NEW i \in 1..n, r # "submit", log[t][i] # "submit"
      PROVE  kind = "solana" /\ pc'[t] = "sendfailed"
  <2>1. log[t][i] \in Reports
    BY SMTT(30), <1>1 DEF Types
  <2>. QED BY <1>1, <1>4, <2>1 DEF MayReport, HasOutcome, Reported, Reports
<1>. HIDE DEF n
<1>5. \A i \in 1..(n + 1) : i \in 1..n \/ i = n + 1
  BY SMTT(30), <1>1
<1>6. ASSUME NEW i \in 1..(n + 1), NEW j \in 1..(n + 1)
      PROVE  /\ log'[t][i] = log'[t][j] /\ log'[t][i] # "abort" => i = j
             /\ log'[t][i] # "submit" /\ log'[t][j] # "submit" =>
                   i = j \/ (kind' = "solana" /\ pc'[t] = "sendfailed")
  <2>1. CASE i \in 1..n /\ j \in 1..n
    BY <1>1, <1>3, <2>1 DEF OneOf
  <2>2. CASE i = n + 1 /\ j \in 1..n
    BY <1>1, <1>2, <1>3, <1>4, <2>2
  <2>3. CASE i \in 1..n /\ j = n + 1
    BY <1>1, <1>2, <1>3, <1>4, <2>3
  <2>4. CASE i = n + 1 /\ j = n + 1
    BY <2>4
  <2>. QED BY <1>5, <2>1, <2>2, <2>3, <2>4
<1>7. log'[t] # <<>> /\ log'[t][1] # "submit" => t \in peers' \/ reader' = "flush"
  <2>1. CASE n = 0
    <3>1. log[t] = <<>> /\ log'[t][1] = r
      BY SMTT(30), <1>1, <2>1 DEF Types, n
    <3>. QED BY <3>1 DEF MayReport
  <2>2. CASE n # 0
    <3>1. log'[t][1] = log[t][1]
      BY SMTT(30), <1>1, <2>2
    <3>2. log[t] # <<>>
      BY SMTT(30), <2>2 DEF n
    <3>. QED BY <3>1, <3>2 DEF OneOf, Stays
  <2>. QED BY <2>1, <2>2
<1>. QED BY <1>1, <1>6, <1>7 DEF OneOf

LEMMA OneKept ==
    ASSUME Stays, NEW t \in Txs, log'[t] = log[t], OneOf(t)
    PROVE  OneOf(t)'
  BY DEF OneOf, Stays, setting

LEMMA OneStep ==
    ASSUME Inv, Next
    PROVE  OneOutcome'
<1>. USE DEF Inv
<1>1. \A t \in Txs : OneOf(t)
  BY DEF OneOutcome, OneOf
<1>2. Stays
  BY StaysStep
<1>3. ASSUME NEW t \in Txs PROVE OneOf(t)'
  <2>1. CASE log' = log
    BY <1>1, <1>2, <2>1, OneKept
  <2>2. ASSUME NEW u \in Txs, NEW r \in Reports, Report(u, r), MayReport(u, r)
        PROVE  OneOf(t)'
    <3>1. CASE u = t
      BY <1>1, <1>2, <2>2, <3>1, OneMore
    <3>2. CASE u # t
      BY <1>1, <1>2, <2>2, <3>2, OneKept, Reporting
    <3>. QED BY <3>1, <3>2
  <2>. QED BY <2>1, <2>2, ReportStep
<1>. QED BY <1>3 DEF OneOutcome, OneOf

LEMMA ReportedStays ==
    ASSUME Types, Held, Ledgered, Logs, Next, NEW t \in Txs, NEW x, Reported(t, x)
    PROVE  Reported(t, x)'
  BY ReportStep, ReportedSame, ReportedMore

(* How an interaction gets to "returned". *)
LEMMA Returning ==
    ASSUME Types, Held, Logs, Next, NEW t \in Txs, pc[t] # "returned", pc'[t] = "returned"
    PROVE  \/ Executed(t)
           \/ Wake(t)
           \/ LookUpAgain(t) /\ kind # "solana"
<1>. USE DEF Types, Goto
<1>1. ASSUME NEW u \in Txs, Proceed(u) \/ PrepareFails(u)
      PROVE  Executed(t) \/ (LookUpAgain(t) /\ kind # "solana")
  <2>1. u = t
    BY <1>1 DEF Proceed, PrepareFails, PollPrepare, DiemPrepare, AptosPrepare, SolanaPrepare,
       SolanaPrepareFlushed, Prepared, Park, Register, Submit, Send, SendAccepted,
       DiemSendFails, AptosSendFails, SolanaSendFails, DiemConfirm, AptosConfirm,
       SolanaConfirm, LookUpAgain, DiemPollTx, AptosPollTx, PollFails, Executed
  <2>. QED
    BY <1>1, <2>1 DEF Proceed, PrepareFails, PollPrepare, DiemPrepare, AptosPrepare,
       SolanaPrepare, SolanaPrepareFlushed, Prepared, Park, Register, Submit, Send,
       SendAccepted, DiemSendFails, AptosSendFails, SolanaSendFails, DiemConfirm,
       AptosConfirm, SolanaConfirm, DiemPollTx, AptosPollTx, PollFails
<1>2. CASE Run
  <2>1. pc' = pc \/ \E u \in Txs : Wake(u)
    BY <1>2 DEF Run, Parse, DiemParseTransaction, AptosParseTransaction, SolanaReportHashes,
       Parsing, ReportNext, DiemRun, AptosRun, SolanaRun, GetMetadata, MetadataFails,
       GetTransactions, GetTransactionsFails, RootSubscribe, ProcessBlock, ReceiveRoot,
       FlushPendings, NotParsed, NotConfirmed, VersionFails, SkipTo
  <2>. QED BY <2>1 DEF Wake
<1>3. ASSUME NEW u \in Txs, PeerSubmits(u) PROVE FALSE
  BY <1>3 DEF PeerSubmits
<1>4. ASSUME NEW txs \in SUBSET Txs, Extend(txs) PROVE FALSE
  BY <1>4 DEF Extend
<1>. QED BY <1>1, <1>2, <1>3, <1>4 DEF Next

LEMMA TrueStep ==
    ASSUME Inv, Next
    PROVE  OutcomesTrue'
<1>. USE DEF Inv
<1>1. UNCHANGED <<kind, method, failing>>
  BY StaysStep DEF Stays, setting
<1>2. ASSUME NEW t \in Txs, Reported(t, "commit")'
      PROVE  t \in Included' /\ (method = "poll" => t \notin failing)
  <2>1. CASE Reported(t, "commit")
    BY <2>1, IncludedGrows DEF OutcomesTrue
  <2>2. CASE ~Reported(t, "commit")
    <3>1. PICK u \in Txs, r \in Reports : Report(u, r) /\ MayReport(u, r)
      BY <1>2, <2>2, ReportStep, ReportedSame
    <3>2. u = t /\ r = "commit"
      BY <1>2, <2>2, <3>1, ReportedMore
    <3>. QED BY <3>1, <3>2, IncludedGrows DEF MayReport
  <2>. QED BY <2>1, <2>2
<1>3. ASSUME NEW t \in Txs, method = "poll", pc'[t] = "returned", t \in failing
      PROVE  Reported(t, "abort")'
  <2>1. CASE pc[t] = "returned"
    BY <1>3, <2>1, ReportedStays DEF OutcomesTrue
  <2>2. CASE pc[t] # "returned"
    <3>1. Executed(t)
      <4>1. ~LookUpAgain(t)
        BY <1>3 DEF LookUpAgain
      <4>2. ~Wake(t)
        BY <1>3, StreamAssumption DEF Wake, Held
      <4>. QED BY <1>3, <2>2, <4>1, <4>2, Returning
    <3>2. Report(t, "abort")
      BY <1>3, <3>1 DEF Executed
    <3>. QED BY <3>2, ReportedMore DEF Reports
  <2>. QED BY <2>1, <2>2
<1>. QED BY <1>1, <1>2, <1>3 DEF OutcomesTrue

LEMMA ReturnsStep ==
    ASSUME Inv, Next
    PROVE  ReturnsWithOutcome'
<1>. USE DEF Inv
<1>1. kind' = kind
  BY StaysStep DEF Stays, setting
<1>2. ASSUME NEW t \in Txs, HasOutcome(t) PROVE HasOutcome(t)'
  BY <1>2, ReportedStays DEF HasOutcome
<1>3. ASSUME NEW t \in Txs, kind # "solana", t \in taken
      PROVE  t \in taken' \/ HasOutcome(t)'
  <2>1. CASE taken' = taken
    BY <1>3, <2>1
  <2>2. ASSUME NEW u \in Txs, ReportNext(u) PROVE t \in taken' \/ HasOutcome(t)'
    <3>1. CASE u # t
      BY <1>3, <2>2, <3>1 DEF ReportNext
    <3>2. CASE u = t
      <4>1. \E r \in {"commit", "abort"} : Report(t, r)
        BY <2>2, <3>2 DEF ReportNext
      <4>. QED BY SMTT(30), <4>1, ReportedMore DEF HasOutcome, Reports
    <3>. QED BY <3>1, <3>2
  <2>3. taken' = taken \/ \E u \in Txs : ReportNext(u)
    BY <1>3 DEF Next, PeerSubmits, Extend, Run, Parse, DiemParseTransaction,
       AptosParseTransaction, SolanaReportHashes, Parsing, Wake, DiemRun, AptosRun, SolanaRun,
       GetMetadata, MetadataFails, GetTransactions, GetTransactionsFails, RootSubscribe,
       ProcessBlock, ReceiveRoot, FlushPendings, Ledger, NotParsed, NotConfirmed, VersionFails,
       SkipTo, Proceed, PrepareFails,
       PollPrepare, DiemPrepare, AptosPrepare, SolanaPrepare, SolanaPrepareFlushed, Park,
       Register, Submit, Send, SendAccepted, DiemSendFails, AptosSendFails, SolanaSendFails,
       DiemConfirm, AptosConfirm, SolanaConfirm, LookUpAgain, DiemPollTx, AptosPollTx,
       PollFails, Executed, hands
  <2>. QED BY <2>1, <2>2, <2>3
<1>4. ASSUME NEW t \in Txs, pc[t] # "returned", pc'[t] = "returned"
      PROVE  HasOutcome(t)' \/ (kind # "solana" /\ t \in taken')
  <2>1. CASE Executed(t)
    <3>1. \E r \in {"commit", "abort"} : Report(t, r)
      BY <2>1 DEF Executed
    <3>. QED BY SMTT(30), <3>1, ReportedMore DEF HasOutcome, Reports
  <2>2. CASE Wake(t)
    BY <1>2, <2>2 DEF Wake, Logs
  <2>3. CASE LookUpAgain(t) /\ kind # "solana"
    <3>1. t \notin pendings /\ method = "stream" /\ pc[t] = "confirm" /\ taken' = taken
      BY <1>4, <2>3 DEF LookUpAgain, Goto, Types, hands
    <3>. QED BY <1>2, <2>3, <3>1 DEF Logs, Live
  <2>. QED BY <1>4, <2>1, <2>2, <2>3, Returning
<1>5. ASSUME NEW t \in Txs, pc'[t] = "returned"
      PROVE  HasOutcome(t)' \/ (kind # "solana" /\ t \in taken')
  BY <1>2, <1>3, <1>4, <1>5 DEF ReturnsWithOutcome
<1>. QED BY <1>1, <1>5 DEF ReturnsWithOutcome

-----------------------------------------------------------------------------
LEMMA InvInit ==
    Init => Inv
<1>. SUFFICES ASSUME Init PROVE Inv
  OBVIOUS
<1>1. \A t \in Txs : log[t] = <<>> /\ pc[t] = "idle"
  BY DEF Init
<1>2. \A t \in Txs : \A x : ~Reported(t, x)
  BY SMTT(30), <1>1 DEF Reported
<1>3. \A v \in 1..Len(ledger) : ledger[v] = {}
  <2>1. History \in Nat /\ ledger = [v \in 1..History |-> {}]
    BY StreamAssumption DEF Init
  <2>. QED BY SMTT(30), <2>1
<1>4. Types
  <2>1. History \in Nat
    BY StreamAssumption
  <2>2. [v \in 1..History |-> {}] \in Seq(SUBSET Txs)
    BY SMTT(30), <2>1
  <2>3. <<>> \in Seq(Reports) /\ <<>> \in Seq(SUBSET Txs)
    BY SMTT(30)
  <2>. QED BY <2>2, <2>3 DEF Init, Types, Labels, Live
<1>5. Held
  BY StreamAssumption DEF Init, Held, Live
<1>6. Ledgered
  <2>1. Included = {}
    BY <1>3 DEF Included
  <2>2. batch = <<>> /\ committed = {} /\ taken = {}
    BY DEF Init
  <2>3. \A i \in 1..Len(batch) : batch[i] \subseteq Included
    BY SMTT(30), <2>2
  <2>. QED BY <2>1, <2>2, <2>3 DEF Ledgered
<1>7. Logs
  BY <1>1, <1>2, StreamAssumption DEF Init, Logs, HasOutcome, Live
<1>8. OneOutcome
  BY SMTT(30), <1>1 DEF OneOutcome
<1>9. OutcomesTrue /\ ReturnsWithOutcome
  BY <1>1, <1>2 DEF OutcomesTrue, ReturnsWithOutcome
<1>. QED BY <1>4, <1>5, <1>6, <1>7, <1>8, <1>9 DEF Inv

LEMMA InvStep ==
    Inv /\ [Next]_streamVars => Inv'
<1>. SUFFICES ASSUME Inv, [Next]_streamVars PROVE Inv'
  OBVIOUS
<1>1. CASE Next
  BY <1>1, TypesStep, HeldStep, LedgeredStep, LogsStep, OneStep, TrueStep, ReturnsStep DEF Inv
<1>2. CASE UNCHANGED streamVars
  <2>. USE DEF Inv
  <2>1. /\ kind' = kind /\ method' = method /\ failing' = failing
        /\ pc' = pc /\ log' = log /\ reader' = reader
        /\ pendings' = pendings /\ committed' = committed /\ lock' = lock
        /\ batch' = batch /\ taken' = taken /\ waking' = waking
        /\ seen' = seen /\ root' = root /\ skipped' = skipped
        /\ mempool' = mempool /\ peers' = peers /\ ledger' = ledger
    BY <1>2 DEF streamVars, setting, table, hands, place, node
  <2>2. \A u, x : Reported(u, x)' <=> Reported(u, x)
    BY <2>1, ReportedSame
  <2>3. Types'
    BY <2>1 DEF Types
  <2>4. Held'
    BY <2>1, <2>2 DEF Held, HasOutcome
  <2>5. Ledgered'
    BY <2>1 DEF Ledgered, Included
  <2>6. Logs'
    BY <2>1, <2>2 DEF Logs, HasOutcome
  <2>7. OneOutcome'
    BY SMTT(30), <2>1 DEF OneOutcome
  <2>8. OutcomesTrue'
    BY <2>1, <2>2 DEF OutcomesTrue, Included
  <2>9. ReturnsWithOutcome'
    BY <2>1, <2>2 DEF ReturnsWithOutcome, HasOutcome
  <2>. QED BY <2>3, <2>4, <2>5, <2>6, <2>7, <2>8, <2>9
<1>. QED BY <1>1, <1>2

LEMMA InvAlways ==
    Spec => []Inv
<1>. QED BY InvInit, InvStep, PTL DEF Spec

(* The reader of the Diem, Aptos and Solana clients and TriggerInteraction *)
(* never both report an outcome, but after a failed SendTransaction.       *)
THEOREM OneOutcomeAlways ==
    Spec => []OneOutcome
<1>1. Inv => OneOutcome
  BY DEF Inv
<1>. QED BY <1>1, InvAlways, PTL

(* These clients commit nothing that is not on the ledger, and by polling  *)
(* nothing whose execution failed.                                         *)
THEOREM OutcomesTrueAlways ==
    Spec => []OutcomesTrue
<1>1. Inv => OutcomesTrue
  BY DEF Inv
<1>. QED BY <1>1, InvAlways, PTL

(* confirm() returns without an error only when the outcome is reported or *)
(* the reader is about to report it.                                       *)
THEOREM ReturnsWithOutcomeAlways ==
    Spec => []ReturnsWithOutcome
<1>1. Inv => ReturnsWithOutcome
  BY DEF Inv
<1>. QED BY <1>1, InvAlways, PTL

(* A goroutine that waits on its channel is in `pendings` or in the        *)
(* reader's hands.                                                         *)
THEOREM WaitersKnownAlways ==
    Spec => []WaitersKnown
<1>1. Inv => WaitersKnown
  BY DEF Inv, Held, WaitersKnown
<1>. QED BY <1>1, InvAlways, PTL
===============================================================================
