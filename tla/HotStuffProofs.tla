--------------------------- MODULE HotStuffProofs ---------------------------
(***************************************************************************)
(* Proofs about HotStuffClient, for any replicas, views, number of slots   *)
(* and attempts, and then about CommandCache.                              *)
(*                                                                         *)
(* The invariant of the client says what each label of TriggerInteraction  *)
(* knows: which reports were made, that a reply comes from a replica of    *)
(* the configuration read that has taken the command, and that the         *)
(* configuration in use only ever shrinks.  The order of the commands adds *)
(* to it that one interaction of nhotstuff has the slot, and that what it  *)
(* sends is above all that was sent before.                                *)
(***************************************************************************)
EXTENDS HotStuffClient, CommandCache, FiniteSetTheorems, TLAPS

USE ZenonT(40)

Unsent == {"idle", "slot", "selected", "frame", "sent"}
Sent == {"numbered", "exec", "get", "prune", "abort", "poll"}
Ended == {"release", "returned"}
Frames == {"selected", "frame", "sent", "poll"}

Types ==
    /\ kind \in {"gorums", "asonnino"} /\ view \in SUBSET Nodes /\ view # {}
    /\ pc \in [Txs -> Unsent \cup Sent \cup Ended]
    /\ DOMAIN log = Txs /\ DOMAIN decided = Txs
    /\ cmd \in [Txs -> Nat] /\ seq \in Nat
    /\ snap \in [Txs -> SUBSET view] /\ errs \in [Txs -> SUBSET view]
    /\ replies \in [Txs -> SUBSET Nodes]
    /\ queue \in [Nodes -> Seq(Nat)] /\ got \in [Nodes -> Seq(Nat)]
    /\ config \in SUBSET view /\ dead \in SUBSET view /\ cfgVersion \in Nat

Reports ==
    \A t \in Txs :
        /\ pc[t] \in Unsent => log[t] = <<>>
        /\ pc[t] \in Sent => log[t] = <<"submit">>
        /\ pc[t] \in Ended =>
              \/ log[t] \in {<<"submit", "commit">>, <<"submit", "abort">>}
              \/ kind = "asonnino" /\ log[t] = <<"abort">>
        /\ pc[t] \in Frames => kind = "asonnino"
        /\ pc[t] \in {"get", "abort", "prune"} => kind = "gorums"

Replied ==
    \A t \in Txs :
        /\ pc[t] \in {"idle", "slot", "numbered", "exec"} => replies[t] = {}
        /\ \A n \in replies[t] : n \in snap[t] /\ Accepts(n, cmd[t])

Inv == Types /\ Reports /\ Replied /\ ConfigMatches /\ CommitHasQuorum

-----------------------------------------------------------------------------
(* One more report makes these logs. *)
LEMMA Appended ==
    ASSUME NEW r
    PROVE  /\ Append(<<>>, r) = <<r>>
           /\ Append(<<"submit">>, r) = <<"submit", r>>
<1>1. Append(<<"submit">>, r) = [i \in 1..2 |-> IF i = 2 THEN r ELSE <<"submit">>[i]]
  BY SMTT(30)
<1>2. <<"submit", r>> = [i \in 1..2 |-> IF i = 2 THEN r ELSE <<"submit">>[i]]
  BY SMTT(30)
<1>3. Append(<<>>, r) = <<r>>
  BY SMTT(30)
<1>. QED BY <1>1, <1>2, <1>3

(* The only log that holds a commit. *)
LEMMA OtherLogs ==
    ASSUME NEW l \in {<<>>, <<"submit">>, <<"abort">>, <<"submit", "abort">>}
    PROVE  l # <<"submit", "commit">>
<1>1. <<"submit", "commit">>[2] = "commit" /\ Len(<<"submit", "commit">>) = 2
  OBVIOUS
<1>2. Len(<<>>) = 0 /\ Len(<<"submit">>) = 1 /\ Len(<<"abort">>) = 1
  OBVIOUS
<1>3. <<"submit", "abort">>[2] = "abort"
  OBVIOUS
<1>. QED BY SMTT(30), <1>1, <1>2, <1>3

(* A command a replica has accepted stays accepted when it receives more.  *)
LEMMA AcceptsStays ==
    ASSUME Types, Types', NEW n \in Nodes, NEW c \in Nat, Accepts(n, c),
           got' = got \/ \E m \in Nodes : \E x \in Nat : got' = [got EXCEPT ![m] = Append(@, x)]
    PROVE  Accepts(n, c)'
<1>1. CASE got' = got
  BY <1>1 DEF Accepts
<1>2. CASE \E m \in Nodes : \E x \in Nat : got' = [got EXCEPT ![m] = Append(@, x)]
  <2>1. PICK m \in Nodes, x \in Nat : got' = [got EXCEPT ![m] = Append(@, x)]
    BY <1>2
  <2>2. PICK i \in 1..Len(got[n]) : got[n][i] = c /\ \A j \in 1..(i - 1) : got[n][j] < c
    BY DEF Accepts
  <2>3. got[n] \in Seq(Nat) /\ (got'[n] = got[n] \/ got'[n] = Append(got[n], x))
    BY <2>1 DEF Types
  <2>4. CASE got'[n] = got[n]
    BY <2>2, <2>4 DEF Accepts
  <2>5. CASE got'[n] = Append(got[n], x)
    <3>1. Len(got'[n]) = Len(got[n]) + 1 /\ Len(got[n]) \in Nat
      BY SMTT(30), <2>3, <2>5
    <3>2. \A j \in 1..Len(got[n]) : got'[n][j] = got[n][j]
      BY SMTT(30), <2>3, <2>5
    <3>3. i \in 1..Len(got'[n]) /\ got'[n][i] = c
      BY SMTT(30), <2>2, <3>1, <3>2
    <3>4. \A j \in 1..(i - 1) : got'[n][j] < c
      BY SMTT(30), <2>2, <3>1, <3>2
    <3>. QED BY <3>3, <3>4 DEF Accepts
  <2>. QED BY <2>3, <2>4, <2>5
<1>. QED BY <1>1, <1>2

-----------------------------------------------------------------------------
(* Types, action by action; only a delivery changes what a replica has. *)
LEMMA QuorumTypes ==
    ASSUME Inv, NEW t \in Txs, Quorum(t)
    PROVE  Types' /\ got' = got
<1>. USE DEF Inv, Types, Goto, Report, quorumVars, networkVars, frameVars, Unsent, Sent, Ended
<1>1. CASE Acquire(t)                BY <1>1 DEF Acquire
<1>2. CASE Number(t)                 BY SMTT(30), <1>2 DEF Number
<1>3. CASE currentConfigSnapshot(t)  BY <1>3 DEF currentConfigSnapshot
<1>4. CASE ExecCommand(t)
  <2>1. \A n \in Nodes : Append(queue[n], cmd[t]) \in Seq(Nat)
    BY SMTT(30)
  <2>. QED BY <1>4, <2>1 DEF ExecCommand
<1>5. CASE Commit(t)                 BY <1>5 DEF Commit
<1>6. CASE ExecFails(t)              BY <1>6 DEF ExecFails
<1>7. CASE Abort(t)                  BY <1>7 DEF Abort
<1>8. CASE Release(t)                BY <1>8 DEF Release
<1>9. CASE \E built \in BOOLEAN : pruneUnavailableNodes(t, built)
  <2>1. PICK built \in BOOLEAN : pruneUnavailableNodes(t, built)
    BY <1>9
  <2>2. config' \in SUBSET view /\ cfgVersion' \in Nat
    BY SMTT(30), <2>1 DEF pruneUnavailableNodes, Rebuild
  <2>. QED BY <2>1, <2>2 DEF pruneUnavailableNodes
<1>. QED BY <1>1, <1>2, <1>3, <1>4, <1>5, <1>6, <1>7, <1>8, <1>9 DEF Quorum

LEMMA FrameTypes ==
    ASSUME Inv, NEW t \in Txs, Frame(t)
    PROVE  Types' /\ got' = got
<1>. USE DEF Inv, Types, Goto, Report, quorumVars, networkVars, frameVars, Unsent, Sent, Ended
<1>1. CASE selectEndpoint(t)         BY <1>1 DEF selectEndpoint
<1>2. CASE AcquireFrame(t)           BY <1>2 DEF AcquireFrame
<1>3. CASE \E written, through \in BOOLEAN : sendFrameOnce(t, written, through)
  BY <1>3 DEF sendFrameOnce
<1>4. CASE sendFrameFails(t)         BY <1>4 DEF sendFrameFails
<1>5. CASE FrameSubmitted(t)         BY <1>5 DEF FrameSubmitted
<1>6. CASE ConfirmCommitted(t)       BY <1>6 DEF ConfirmCommitted
<1>7. CASE ConfirmAborted(t)         BY <1>7 DEF ConfirmAborted
<1>. QED BY <1>1, <1>2, <1>3, <1>4, <1>5, <1>6, <1>7 DEF Frame

LEMMA ReplicaTypes ==
    ASSUME Inv, Replicas
    PROVE  /\ Types'
           /\ got' = got \/ \E m \in Nodes : \E x \in Nat : got' = [got EXCEPT ![m] = Append(@, x)]
<1>. USE DEF Inv, Types, quorumVars, networkVars, frameVars
<1>1. CASE \E n \in Nodes : Deliver(n)
  <2>1. PICK n \in Nodes : Deliver(n)
    BY <1>1
  <2>2. Head(queue[n]) \in Nat /\ Tail(queue[n]) \in Seq(Nat)
    <3>1. queue[n] \in Seq(Nat) /\ queue[n] # <<>>
      BY <2>1 DEF Deliver
    <3>. QED BY ONLY SMTT(30), Zenon, <3>1
  <2>3. Append(got[n], Head(queue[n])) \in Seq(Nat)
    BY SMTT(30), <2>2
  <2>4. queue' \in [Nodes -> Seq(Nat)] /\ got' \in [Nodes -> Seq(Nat)]
    BY <2>1, <2>2, <2>3 DEF Deliver
  <2>5. errs' \in [Txs -> SUBSET view]
    <3>1. CASE n \notin crashed
      BY <2>1, <3>1 DEF Deliver
    <3>2. CASE n \in crashed
      <4>1. \A t \in Calling(n) : errs[t] \cup {n} \in SUBSET view
        BY DEF Calling
      <4>. QED BY <2>1, <3>2, <4>1 DEF Deliver
    <3>. QED BY <3>1, <3>2
  <2>6. got' = got \/ got' = [got EXCEPT ![n] = Append(@, Head(queue[n]))]
    BY <2>1 DEF Deliver
  <2>. QED BY <2>1, <2>2, <2>4, <2>5, <2>6 DEF Deliver
<1>2. CASE \E n \in Nodes : Crash(n) \/ Restart(n)
  BY <1>2 DEF Crash, Restart
<1>3. CASE \E n \in Nodes, t \in Txs : Answer(n, t)
  BY SMTT(30), <1>3 DEF Answer
<1>4. CASE \E t \in Txs, outcome \in {"committed", "aborted"} : Decide(t, outcome)
  BY <1>4 DEF Decide
<1>. QED BY <1>1, <1>2, <1>3, <1>4 DEF Replicas

-----------------------------------------------------------------------------
(* The reports of each label. *)

LEMMA QuorumReports ==
    ASSUME Inv, NEW t \in Txs, Quorum(t)
    PROVE  Reports'
<1>. USE Appended DEF Inv, Types, Reports, Goto, Report, Unsent, Sent, Ended, Frames
<1>1. CASE Acquire(t)                BY <1>1 DEF Acquire
<1>2. CASE Number(t)                 BY <1>2 DEF Number
<1>3. CASE currentConfigSnapshot(t)  BY <1>3 DEF currentConfigSnapshot
<1>4. CASE ExecCommand(t)            BY <1>4 DEF ExecCommand
<1>5. CASE Commit(t)                 BY <1>5 DEF Commit
<1>6. CASE ExecFails(t)              BY <1>6 DEF ExecFails
<1>7. CASE Abort(t)                  BY <1>7 DEF Abort
<1>8. CASE Release(t)                BY <1>8 DEF Release
<1>9. CASE \E built \in BOOLEAN : pruneUnavailableNodes(t, built)
  BY <1>9 DEF pruneUnavailableNodes
<1>. QED BY <1>1, <1>2, <1>3, <1>4, <1>5, <1>6, <1>7, <1>8, <1>9 DEF Quorum

LEMMA FrameReports ==
    ASSUME Inv, NEW t \in Txs, Frame(t)
    PROVE  Reports'
<1>. USE Appended DEF Inv, Types, Reports, Goto, Report, Unsent, Sent, Ended, Frames
<1>1. CASE selectEndpoint(t)         BY <1>1 DEF selectEndpoint
<1>2. CASE AcquireFrame(t)           BY <1>2 DEF AcquireFrame
<1>3. CASE \E written, through \in BOOLEAN : sendFrameOnce(t, written, through)
  BY ZenonT(30), <1>3 DEF sendFrameOnce
<1>4. CASE sendFrameFails(t)         BY <1>4 DEF sendFrameFails
<1>5. CASE FrameSubmitted(t)         BY <1>5 DEF FrameSubmitted
<1>6. CASE ConfirmCommitted(t)       BY <1>6 DEF ConfirmCommitted
<1>7. CASE ConfirmAborted(t)         BY <1>7 DEF ConfirmAborted
<1>. QED BY <1>1, <1>2, <1>3, <1>4, <1>5, <1>6, <1>7 DEF Frame

-----------------------------------------------------------------------------
(* The replies an interaction has. *)

LEMMA RepliedStep ==
    ASSUME Inv, Next
    PROVE  Replied'
<1>. USE DEF Inv
<1>1. ASSUME NEW t \in Txs, Quorum(t) \/ Frame(t)
      PROVE  Replied'
  <2>1. got' = got
    BY <1>1, QuorumTypes, FrameTypes
  <2>2. \A n, c : Accepts(n, c)' <=> Accepts(n, c)
    BY <2>1 DEF Accepts
  <2>3. replies' = replies
    BY <1>1 DEF Quorum, Frame, Acquire, Number, currentConfigSnapshot, ExecCommand, Commit,
         ExecFails, Abort, Release, pruneUnavailableNodes, selectEndpoint, AcquireFrame,
         sendFrameOnce, sendFrameFails, FrameSubmitted, ConfirmCommitted, ConfirmAborted,
         networkVars
  <2>4. ASSUME NEW u \in Txs
        PROVE  /\ pc'[u] \in {"idle", "slot", "numbered", "exec"} =>
                    pc[u] \in {"idle", "slot", "numbered", "exec"}
               /\ cmd'[u] # cmd[u] \/ snap'[u] # snap[u] => replies[u] = {}
    <3>. USE DEF Types, Replied, Goto, quorumVars
    <3>1. CASE Quorum(t)
      BY <3>1 DEF Quorum, Acquire, Number, currentConfigSnapshot, ExecCommand, Commit,
           ExecFails, Abort, Release, pruneUnavailableNodes
    <3>2. CASE Frame(t)
      BY <3>2 DEF Frame, selectEndpoint, AcquireFrame, sendFrameOnce, sendFrameFails,
           FrameSubmitted, ConfirmCommitted, ConfirmAborted
    <3>. QED BY <1>1, <3>1, <3>2
  <2>. QED BY <2>2, <2>3, <2>4 DEF Replied
<1>2. CASE Replicas
  <2>1. /\ Types'
        /\ got' = got \/ \E m \in Nodes : \E x \in Nat : got' = [got EXCEPT ![m] = Append(@, x)]
    BY <1>2, ReplicaTypes
  <2>2. \A n \in Nodes, c \in Nat : Accepts(n, c) => Accepts(n, c)'
    BY <2>1, AcceptsStays
  <2>3. pc' = pc /\ cmd' = cmd /\ snap' = snap
    BY <1>2 DEF Replicas, Deliver, Crash, Restart, Answer, Decide, quorumVars
  <2>4. ASSUME NEW u \in Txs
        PROVE  /\ pc[u] # "get" => replies'[u] = replies[u]
               /\ \A n \in replies'[u] : n \in snap[u] /\ Accepts(n, cmd[u])
    <3>1. CASE replies' = replies
      BY <3>1 DEF Replied
    <3>2. CASE \E n \in Nodes, t \in Txs : Answer(n, t)
      BY SMTT(30), <3>2 DEF Answer, Calling, Replied, Types
    <3>. QED BY <1>2, <3>1, <3>2 DEF Replicas, Deliver, Crash, Restart, Decide, networkVars
  <2>5. \A u \in Txs : cmd[u] \in Nat /\ replies'[u] \subseteq Nodes
    BY <2>1 DEF Types
  <2>. QED BY <2>2, <2>3, <2>4, <2>5 DEF Replied
<1>. QED BY <1>1, <1>2 DEF Next

-----------------------------------------------------------------------------
(* The configuration. *)

LEMMA PruneConfig ==
    ASSUME Inv, NEW t \in Txs, NEW built \in BOOLEAN, pruneUnavailableNodes(t, built)
    PROVE  ConfigMatches'
<1>. USE DEF Inv, Types, Goto
<1>1. /\ pc[t] = "prune" /\ dead' = dead \cup errs[t] /\ view' = view /\ snap' = snap
      /\ pc' = [pc EXCEPT ![t] = "abort"] /\ errs[t] \subseteq view
  BY DEF pruneUnavailableNodes
<1>2. \A u \in Txs : pc'[u] \in {"exec", "get", "prune"} =>
        pc[u] \in {"exec", "get", "prune"} /\ config \subseteq snap[u]
  BY <1>1 DEF ConfigMatches
<1>3. CASE errs[t] \subseteq dead
  <2>1. dead' = dead /\ UNCHANGED <<config, cfgVersion, activeNodes, unbuilt>>
    BY <1>1, <1>3 DEF pruneUnavailableNodes
  <2>. QED BY <1>1, <1>2, <2>1 DEF ConfigMatches
<1>4. CASE ~(errs[t] \subseteq dead) /\ view \ dead' = {}
  <2>1. UNCHANGED <<config, cfgVersion, activeNodes>>
    BY <1>1, <1>4 DEF pruneUnavailableNodes, Rebuild
  <2>. QED BY <1>1, <1>2, <1>4, <2>1 DEF ConfigMatches
<1>5. CASE ~(errs[t] \subseteq dead) /\ view \ dead' # {} /\ ~built
  <2>1. UNCHANGED <<config, cfgVersion, activeNodes>> /\ unbuilt'
    BY <1>1, <1>5 DEF pruneUnavailableNodes, Rebuild
  <2>. QED BY <1>1, <1>2, <2>1 DEF ConfigMatches
<1>6. CASE ~(errs[t] \subseteq dead) /\ view \ dead' # {} /\ built
  <2>1. /\ config' = view \ dead' /\ cfgVersion' = cfgVersion + 1
        /\ activeNodes' = Cardinality(config')
    BY <1>1, <1>6 DEF pruneUnavailableNodes, Rebuild
  <2>2. config' # view /\ config' \subseteq config
    BY <1>1, <1>6, <2>1 DEF ConfigMatches
  <2>. QED BY SMTT(30), <1>1, <1>2, <1>6, <2>1, <2>2 DEF ConfigMatches
<1>. QED BY <1>3, <1>4, <1>5, <1>6

LEMMA ConfigStep ==
    ASSUME Inv, Next
    PROVE  ConfigMatches'
<1>. USE DEF Inv
<1>1. CASE \E t \in Txs, built \in BOOLEAN : pruneUnavailableNodes(t, built)
  BY <1>1, PruneConfig
<1>2. CASE \E t \in Txs : currentConfigSnapshot(t)
  BY SMTT(30), <1>2 DEF currentConfigSnapshot, Goto, ConfigMatches, Types
<1>3. CASE /\ UNCHANGED <<view, config, cfgVersion, activeNodes, dead, unbuilt, snap>>
           /\ \A u \in Txs : pc'[u] \in {"exec", "get", "prune"} =>
                                  pc[u] \in {"exec", "get", "prune"}
  BY <1>3 DEF ConfigMatches
<1>4. ASSUME NEW t \in Txs, Quorum(t), ~currentConfigSnapshot(t),
             ~ \E built \in BOOLEAN : pruneUnavailableNodes(t, built)
      PROVE  /\ UNCHANGED <<view, config, cfgVersion, activeNodes, dead, unbuilt, snap>>
             /\ \A u \in Txs : pc'[u] \in {"exec", "get", "prune"} =>
                                    pc[u] \in {"exec", "get", "prune"}
  BY <1>4 DEF Quorum, Acquire, Number, ExecCommand, Commit, ExecFails, Abort, Release,
       quorumVars, Goto, Types
<1>5. ASSUME NEW t \in Txs, Frame(t)
      PROVE  /\ UNCHANGED <<view, config, cfgVersion, activeNodes, dead, unbuilt, snap>>
             /\ \A u \in Txs : pc'[u] \in {"exec", "get", "prune"} =>
                                    pc[u] \in {"exec", "get", "prune"}
  BY <1>5 DEF Frame, selectEndpoint, AcquireFrame, sendFrameOnce, sendFrameFails,
       FrameSubmitted, ConfirmCommitted, ConfirmAborted, quorumVars, Goto, Types
<1>6. ASSUME Replicas
      PROVE  UNCHANGED <<view, config, cfgVersion, activeNodes, dead, unbuilt, snap, pc>>
  BY <1>6 DEF Replicas, Deliver, Crash, Restart, Answer, Decide, quorumVars
<1>. QED BY <1>1, <1>2, <1>3, <1>4, <1>5, <1>6 DEF Next

-----------------------------------------------------------------------------
(* The commits reported. *)

LEMMA QuorumStep ==
    ASSUME Inv, Next, Types'
    PROVE  CommitHasQuorum'
<1>. USE DEF Inv
<1>1. SUFFICES ASSUME NEW t \in Txs, log'[t] = <<"submit", "commit">>
               PROVE  IF kind' = "gorums"
                      THEN \E q \in SUBSET snap'[t] :
                              /\ Cardinality(q) >= numFaulty(Cardinality(snap'[t])) + 1
                              /\ \A n \in q : Accepts(n, cmd[t])'
                      ELSE decided'[t] = "committed"
  BY DEF CommitHasQuorum
<1>2. kind' = kind
  BY DEF Next, Replicas, Deliver, Crash, Restart, Answer, Decide, Quorum, Frame, Acquire,
       Number, currentConfigSnapshot, ExecCommand, Commit, ExecFails, Abort, Release,
       pruneUnavailableNodes, selectEndpoint, AcquireFrame, sendFrameOnce, sendFrameFails,
       FrameSubmitted, ConfirmCommitted, ConfirmAborted
<1>3. \A n \in Nodes, c \in Nat : Accepts(n, c) => Accepts(n, c)'
  BY QuorumTypes, FrameTypes, ReplicaTypes, AcceptsStays DEF Next
<1>4. CASE log[t] = <<"submit", "commit">>
  <2>1. pc[t] \in Ended
    BY <1>4, OtherLogs DEF Reports, Types
  <2>2. cmd'[t] = cmd[t] /\ snap'[t] = snap[t]
    BY ZenonT(30), <2>1 DEF Next, Replicas, Deliver, Crash, Restart, Answer, Decide, Quorum, Frame, Acquire,
       Number, currentConfigSnapshot, ExecCommand, Commit, ExecFails, Abort, Release,
       pruneUnavailableNodes, selectEndpoint, AcquireFrame, sendFrameOnce, sendFrameFails,
       FrameSubmitted, ConfirmCommitted, ConfirmAborted, quorumVars, Ended, Types
  <2>3. decided[t] = "committed" => decided'[t] = "committed"
    BY DEF Next, Replicas, Deliver, Crash, Restart, Answer, Decide, Quorum, Frame, Acquire,
       Number, currentConfigSnapshot, ExecCommand, Commit, ExecFails, Abort, Release,
       pruneUnavailableNodes, selectEndpoint, AcquireFrame, sendFrameOnce, sendFrameFails,
       FrameSubmitted, ConfirmCommitted, ConfirmAborted, frameVars, Types
  <2>4. CASE kind = "gorums"
    <3>1. PICK q \in SUBSET snap[t] : /\ Cardinality(q) >= numFaulty(Cardinality(snap[t])) + 1
                                      /\ \A n \in q : Accepts(n, cmd[t])
      BY <1>4, <2>4 DEF CommitHasQuorum
    <3>2. \A n \in q : n \in Nodes /\ cmd[t] \in Nat
      BY <3>1 DEF Types
    <3>3. \A n \in q : Accepts(n, cmd[t])'
      BY ZenonT(30), <1>3, <2>2, <3>1, <3>2 DEF Accepts
    <3>. QED BY <1>2, <2>2, <2>4, <3>1, <3>3
  <2>. QED BY <1>2, <1>4, <2>3, <2>4 DEF CommitHasQuorum
<1>5. CASE log[t] # <<"submit", "commit">>
  <2>1. Commit(t) \/ ConfirmCommitted(t)
    <3>1. PICK u \in Txs : Quorum(u) \/ Frame(u)
      BY <1>1, <1>5 DEF Next, Replicas, Deliver, Crash, Restart, Answer, Decide
    <3>2. u = t
      BY <1>1, <1>5, <3>1 DEF Quorum, Frame, Acquire, Number, currentConfigSnapshot, ExecCommand,
           Commit, ExecFails, Abort, Release, pruneUnavailableNodes, selectEndpoint,
           AcquireFrame, sendFrameOnce, sendFrameFails, FrameSubmitted, ConfirmCommitted,
           ConfirmAborted, Report, Types
    <3>3. ~Number(t) /\ ~FrameSubmitted(t) /\ ~sendFrameFails(t)
      <4>1. Number(t) => log[t] = <<>> /\ log'[t] = Append(log[t], "submit")
        BY DEF Number, Report, Reports, Unsent, Types
      <4>2. FrameSubmitted(t) => log[t] = <<>> /\ log'[t] = Append(log[t], "submit")
        BY DEF FrameSubmitted, Report, Reports, Unsent, Types
      <4>3. sendFrameFails(t) => log[t] = <<>> /\ log'[t] = Append(log[t], "abort")
        BY DEF sendFrameFails, Report, Reports, Unsent, Types
      <4>4. Append(<<>>, "submit") = <<"submit">> /\ Append(<<>>, "abort") = <<"abort">>
        BY Appended
      <4>. QED BY <1>1, <4>1, <4>2, <4>3, <4>4, OtherLogs
    <3>4. ~Abort(t) /\ ~ConfirmAborted(t)
      <4>1. Abort(t) => log[t] = <<"submit">> /\ log'[t] = Append(log[t], "abort")
        BY DEF Abort, Report, Reports, Sent, Types
      <4>2. ConfirmAborted(t) => log[t] = <<"submit">> /\ log'[t] = Append(log[t], "abort")
        BY DEF ConfirmAborted, Report, Reports, Sent, Types
      <4>3. Append(<<"submit">>, "abort") = <<"submit", "abort">>
        BY Appended
      <4>. QED BY <1>1, <4>1, <4>2, <4>3, OtherLogs
    <3>. QED BY <1>1, <1>5, <3>1, <3>2, <3>3, <3>4 DEF Quorum, Frame, Acquire,
           currentConfigSnapshot, ExecCommand, ExecFails, Release, pruneUnavailableNodes,
           selectEndpoint, AcquireFrame, sendFrameOnce
  <2>2. CASE Commit(t)
    <3>1. kind = "gorums" /\ UNCHANGED <<cmd, snap, got>>
      BY <2>2 DEF Commit, Reports, quorumVars, networkVars
    <3>2. /\ replies[t] \subseteq snap[t] /\ \A n \in replies[t] : Accepts(n, cmd[t])
          /\ Cardinality(replies[t]) >= numFaulty(Cardinality(snap[t])) + 1
      BY <2>2 DEF Commit, ExecCommandQF, Replied
    <3>. QED BY <1>2, <3>1, <3>2 DEF Accepts
  <2>3. CASE ConfirmCommitted(t)
    BY <1>2, <2>3 DEF ConfirmCommitted, Reports, Frames, frameVars
  <2>. QED BY <2>1, <2>2, <2>3
<1>. QED BY <1>4, <1>5

-----------------------------------------------------------------------------
LEMMA InvInit ==
    Init => Inv
<1>. SUFFICES ASSUME Init PROVE Inv
  OBVIOUS
<1>1. view \in SUBSET Nodes /\ view # {}
  BY HotStuffAssumption DEF Init
<1>2. Types
  BY SMTT(30), <1>1 DEF Init, Types, Unsent
<1>3. Reports /\ Replied
  BY DEF Init, Reports, Replied, Unsent, Sent, Ended, Frames
<1>4. ConfigMatches
  BY <1>1 DEF Init, ConfigMatches
<1>5. CommitHasQuorum
  BY OtherLogs DEF Init, CommitHasQuorum
<1>. QED BY <1>2, <1>3, <1>4, <1>5 DEF Inv

LEMMA InvStep ==
    Inv /\ [Next]_hotstuffVars => Inv'
<1>. SUFFICES ASSUME Inv, [Next]_hotstuffVars PROVE Inv'
  OBVIOUS
<1>1. CASE Next
  <2>1. Types'
    BY <1>1, QuorumTypes, FrameTypes, ReplicaTypes DEF Next
  <2>2. Reports'
    <3>1. CASE Replicas
      <4>1. UNCHANGED <<kind, pc, log>>
        BY <3>1 DEF Replicas, Deliver, Crash, Restart, Answer, Decide
      <4>. QED BY <4>1 DEF Inv, Reports
    <3>. QED BY <1>1, <3>1, QuorumReports, FrameReports DEF Next
  <2>. QED BY <1>1, <2>1, <2>2, RepliedStep, ConfigStep, QuorumStep DEF Inv
<1>2. CASE UNCHANGED hotstuffVars
  <2>. USE <1>2 DEF Inv, hotstuffVars, quorumVars, networkVars, frameVars
  <2>1. Types'            BY DEF Types
  <2>2. Reports'          BY DEF Reports
  <2>3. Replied'          BY DEF Replied, Accepts
  <2>4. ConfigMatches'    BY DEF ConfigMatches
  <2>5. CommitHasQuorum'  BY DEF CommitHasQuorum, Accepts
  <2>. QED BY <2>1, <2>2, <2>3, <2>4, <2>5
<1>. QED BY <1>1, <1>2

LEMMA InvAlways ==
    Spec => []Inv
<1>. QED BY InvInit, InvStep, PTL DEF Spec

(* Whatever the replicas, the bridges and the connections do, a trigger of *)
(* the HotStuff clients that has ended has reported exactly one outcome,   *)
(* last, and before that at most the submission.                           *)
THEOREM EveryReturnReportedAlways ==
    Spec => []EveryReturnReported
<1>1. Inv => EveryReturnReported
  BY DEF Inv, Types, Reports, EveryReturnReported, Unsent, Sent, Ended
<1>. QED BY <1>1, InvAlways, PTL

(* With any number of slots, of replicas and of prunings, the counters of  *)
(* pruneUnavailableNodes agree with the configuration, which only shrinks. *)
THEOREM ConfigMatchesAlways ==
    Spec => []ConfigMatches
<1>1. Inv => ConfigMatches
  BY DEF Inv
<1>. QED BY <1>1, InvAlways, PTL

(* A commit reported by nhotstuff was taken by f + 1 replicas of the       *)
(* configuration of its call, whatever was pruned since; one reported by   *)
(* nasonninohotstuff was committed by the bridge.                          *)
THEOREM CommitHasQuorumAlways ==
    Spec => []CommitHasQuorum
<1>1. Inv => CommitHasQuorum
  BY DEF Inv
<1>. QED BY <1>1, InvAlways, PTL

-----------------------------------------------------------------------------
(* The order of the commands. *)

Holds == {"slot", "numbered", "exec", "get", "prune", "abort", "release"}

(* The slot of nhotstuff has one holder at most. *)
OneSlot ==
    /\ \A t \in Txs : pc[t] \in {"slot", "numbered", "exec"} => kind = "gorums"
    /\ kind = "gorums" =>
          /\ inflight = {t \in Txs : pc[t] \in Holds}
          /\ \A t, u \in inflight : t = u

Increasing(l) == \A i, j \in 1..Len(l) : i < j => l[i] < l[j]

(* What a replica has and what is on its way to it. *)
InOrder ==
    \A n \in Nodes :
        /\ Increasing(got[n]) /\ Increasing(queue[n])
        /\ \A i \in 1..Len(got[n]), j \in 1..Len(queue[n]) : got[n][i] < queue[n][j]

Below(b) ==
    \A n \in Nodes :
        /\ \A i \in 1..Len(got[n]) : got[n][i] < b
        /\ \A i \in 1..Len(queue[n]) : queue[n][i] < b

(* The command about to be sent has the last number given, and every other *)
(* one a smaller number.                                                   *)
Numbers ==
    /\ Below(seq + 1)
    /\ \A t \in Txs : pc[t] \in {"numbered", "exec"} => cmd[t] = seq /\ Below(seq)

OrderInv == OneSlot /\ InOrder /\ Numbers

(* A slot that is free has no holder. *)
LEMMA FreeSlot ==
    ASSUME OneSlot, kind = "gorums", Cardinality(inflight) < inflightCap
    PROVE  inflight = {}
<1>1. SUFFICES ASSUME NEW t \in inflight PROVE FALSE
  OBVIOUS
<1>2. inflight = {t}
  BY <1>1 DEF OneSlot
<1>3. Cardinality({t}) = 1
  BY FS_Singleton
<1>. QED BY SMTT(30), <1>2, <1>3 DEF inflightCap

LEMMA SlotStep ==
    ASSUME Inv, OneSlot, Next
    PROVE  OneSlot'
<1>. USE DEF Inv, Types, OneSlot, Goto, Holds, Unsent, Sent, Ended
<1>1. CASE Replicas
  BY <1>1 DEF Replicas, Deliver, Crash, Restart, Answer, Decide
<1>2. ASSUME NEW t \in Txs, Quorum(t) PROVE OneSlot'
  <2>1. CASE Acquire(t)
    <3>1. inflight = {} /\ inflight' = {t}
      BY <2>1, FreeSlot DEF Acquire
    <3>. QED BY ZenonT(30), <2>1, <3>1 DEF Acquire
  <2>2. CASE Number(t) \/ currentConfigSnapshot(t) \/ ExecCommand(t)
    BY <2>2 DEF Number, currentConfigSnapshot, ExecCommand
  <2>3. CASE Commit(t) \/ ExecFails(t) \/ Abort(t)
    BY <2>3 DEF Commit, ExecFails, Abort
  <2>4. CASE \E built \in BOOLEAN : pruneUnavailableNodes(t, built)
    BY <2>4 DEF pruneUnavailableNodes
  <2>5. CASE Release(t)
    BY <2>5 DEF Release
  <2>. QED BY <1>2, <2>1, <2>2, <2>3, <2>4, <2>5 DEF Quorum
<1>3. ASSUME NEW t \in Txs, Frame(t) PROVE OneSlot'
  <2>1. kind = "asonnino"
    BY <1>3 DEF Frame, selectEndpoint, AcquireFrame, sendFrameOnce, sendFrameFails,
         FrameSubmitted, ConfirmCommitted, ConfirmAborted, Reports, Frames
  <2>. QED BY <1>3, <2>1 DEF Frame, selectEndpoint, AcquireFrame, sendFrameOnce, sendFrameFails,
         FrameSubmitted, ConfirmCommitted, ConfirmAborted
<1>. QED BY <1>1, <1>2, <1>3 DEF Next

(* The first of what is on its way joins what was received, or is lost. *)
LEMMA Moved ==
    ASSUME NEW g \in Seq(Nat), NEW q \in Seq(Nat), q # <<>>,
           Increasing(g), Increasing(q),
           \A i \in 1..Len(g), j \in 1..Len(q) : g[i] < q[j],
           NEW g2, g2 = g \/ g2 = Append(g, Head(q))
    PROVE  /\ Increasing(g2) /\ Increasing(Tail(q))
           /\ \A i \in 1..Len(g2), j \in 1..Len(Tail(q)) : g2[i] < Tail(q)[j]
           /\ \A i \in 1..Len(g2) : g2[i] = q[1] \/ (i \in 1..Len(g) /\ g2[i] = g[i])
           /\ \A i \in 1..Len(Tail(q)) : i + 1 \in 1..Len(q) /\ Tail(q)[i] = q[i + 1]
<1>1. Len(q) \in Nat \ {0} /\ Len(Tail(q)) = Len(q) - 1 /\ Len(g) \in Nat /\ Head(q) = q[1]
  BY SMTT(30)
<1>2. \A i \in 1..Len(Tail(q)) : i + 1 \in 1..Len(q) /\ Tail(q)[i] = q[i + 1]
  BY SMTT(30)
<1>3. \A i \in 1..Len(q) : q[i] \in Nat
  BY SMTT(30)
<1>4. Increasing(Tail(q))
  BY SMTT(30), <1>1, <1>2 DEF Increasing
<1>5. CASE g2 = g
  BY <1>1, <1>2, <1>4, <1>5
<1>6. CASE g2 = Append(g, q[1])
  <2>1. /\ Len(g2) = Len(g) + 1 /\ g2[Len(g) + 1] = q[1]
        /\ \A i \in 1..Len(g) : g2[i] = g[i]
    BY SMTT(30), <1>3, <1>1, <1>6
  <2>2. \A i \in 1..Len(g2) : i = Len(g) + 1 \/ i \in 1..Len(g)
    BY SMTT(30), <1>1, <2>1
  <2>3. ASSUME NEW i \in 1..Len(g2), NEW j \in 1..Len(g2), i < j
        PROVE  g2[i] < g2[j]
    <3>1. i \in 1..Len(g)
      BY ONLY SMTT(30), Zenon, <1>1, <2>1, <2>2, <2>3
    <3>2. CASE j \in 1..Len(g)
      BY ONLY Zenon, <2>1, <2>3, <3>1, <3>2, Increasing(g) DEF Increasing
    <3>3. CASE j = Len(g) + 1
      <4>1. 1 \in 1..Len(q)
        BY SMTT(30), <1>1
      <4>2. g[i] < q[1]
        BY <3>1, <4>1
      <4>. QED BY ONLY Zenon, <2>1, <3>1, <3>3, <4>2
    <3>. QED BY <2>2, <3>2, <3>3
  <2>4. ASSUME NEW i \in 1..Len(g2), NEW j \in 1..Len(Tail(q))
        PROVE  g2[i] < Tail(q)[j]
    <3>1. j + 1 \in 1..Len(q) /\ 1 \in 1..Len(q) /\ 1 < j + 1 /\ Tail(q)[j] = q[j + 1]
      BY ONLY SMTT(30), Zenon, <1>1, <1>2, <2>4
    <3>2. CASE i \in 1..Len(g)
      <4>1. g[i] < q[j + 1]
        BY <3>1, <3>2
      <4>. QED BY ONLY Zenon, <2>1, <3>1, <3>2, <4>1
    <3>3. CASE i = Len(g) + 1
      <4>1. q[1] < q[j + 1]
        BY ONLY Zenon, <3>1, Increasing(q) DEF Increasing
      <4>. QED BY ONLY Zenon, <2>1, <3>1, <3>3, <4>1
    <3>. QED BY <2>2, <3>2, <3>3
  <2>. QED BY <1>2, <1>4, <2>1, <2>2, <2>3, <2>4 DEF Increasing
<1>. QED BY <1>1, <1>5, <1>6

(* A replica takes the first command on its way to it, or refuses it. *)
LEMMA DeliverOrder ==
    ASSUME Inv, OrderInv, NEW n \in Nodes, Deliver(n)
    PROVE  InOrder' /\ Numbers'
<1>. USE DEF Inv, Types, OrderInv
<1>1. /\ queue[n] \in Seq(Nat) /\ queue[n] # <<>> /\ got[n] \in Seq(Nat)
      /\ queue' = [queue EXCEPT ![n] = Tail(@)]
      /\ got' = got \/ got' = [got EXCEPT ![n] = Append(@, Head(queue[n]))]
      /\ UNCHANGED <<pc, seq, cmd>>
  BY DEF Deliver, quorumVars
<1>2. /\ Increasing(got'[n]) /\ Increasing(queue'[n])
      /\ \A i \in 1..Len(got'[n]), j \in 1..Len(queue'[n]) : got'[n][i] < queue'[n][j]
      /\ \A i \in 1..Len(got'[n]) :
            got'[n][i] = queue[n][1] \/ (i \in 1..Len(got[n]) /\ got'[n][i] = got[n][i])
      /\ \A i \in 1..Len(queue'[n]) : i + 1 \in 1..Len(queue[n]) /\ queue'[n][i] = queue[n][i + 1]
  <2>1. /\ Increasing(got[n]) /\ Increasing(queue[n])
        /\ \A i \in 1..Len(got[n]), j \in 1..Len(queue[n]) : got[n][i] < queue[n][j]
    BY DEF InOrder
  <2>2. queue'[n] = Tail(queue[n]) /\ (got'[n] = got[n] \/ got'[n] = Append(got[n], Head(queue[n])))
    BY <1>1
  <2>. DEFINE g2 == got'[n]
  <2>3. g2 = got[n] \/ g2 = Append(got[n], Head(queue[n]))
    BY <2>2
  <2>. HIDE DEF g2
  <2>4. /\ Increasing(g2) /\ Increasing(Tail(queue[n]))
        /\ \A i \in 1..Len(g2), j \in 1..Len(Tail(queue[n])) : g2[i] < Tail(queue[n])[j]
        /\ \A i \in 1..Len(g2) :
              g2[i] = queue[n][1] \/ (i \in 1..Len(got[n]) /\ g2[i] = got[n][i])
        /\ \A i \in 1..Len(Tail(queue[n])) :
              i + 1 \in 1..Len(queue[n]) /\ Tail(queue[n])[i] = queue[n][i + 1]
    BY ONLY Zenon, <1>1, <2>1, <2>3, Moved
  <2>. QED BY ONLY Zenon, <2>2, <2>4 DEF g2
<1>3. \A m \in Nodes \ {n} : got'[m] = got[m] /\ queue'[m] = queue[m]
  BY <1>1
<1>4. 1 \in 1..Len(queue[n])
  BY SMTT(30), <1>1
<1>5. \A b \in Nat : Below(b) => Below(b)'
  <2>1. SUFFICES ASSUME NEW b \in Nat, Below(b), NEW m \in Nodes
                 PROVE  /\ \A i \in 1..Len(got'[m]) : got'[m][i] < b
                        /\ \A i \in 1..Len(queue'[m]) : queue'[m][i] < b
    BY DEF Below
  <2>2. CASE m = n
    BY ONLY Zenon, <1>2, <1>4, <2>1, <2>2 DEF Below
  <2>3. CASE m # n
    BY ONLY Zenon, <1>3, <2>1, <2>3 DEF Below
  <2>. QED BY <2>2, <2>3
<1>6. Numbers'
  BY SMTT(30), <1>1, <1>5 DEF Numbers
<1>7. InOrder'
  BY ONLY ZenonT(30), Zenon, <1>2, <1>3, InOrder DEF InOrder, Increasing
<1>. QED BY <1>6, <1>7

(* A call adds its command, which is above all the others. *)
LEMMA ExecOrder ==
    ASSUME Inv, OrderInv, NEW t \in Txs, ExecCommand(t)
    PROVE  InOrder' /\ Numbers'
<1>. USE DEF Inv, Types, OrderInv
<1>1. /\ pc[t] = "exec" /\ pc' = [pc EXCEPT ![t] = "get"] /\ kind = "gorums"
      /\ UNCHANGED <<got, seq, cmd>>
      /\ \A n \in Nodes : queue'[n] = queue[n] \/ queue'[n] = Append(queue[n], cmd[t])
  BY DEF ExecCommand, Goto, quorumVars
<1>2. cmd[t] = seq /\ Below(seq)
  BY <1>1 DEF Numbers
<1>3. ASSUME NEW n \in Nodes
      PROVE  /\ Increasing(queue'[n])
             /\ \A i \in 1..Len(got[n]), j \in 1..Len(queue'[n]) : got[n][i] < queue'[n][j]
             /\ \A i \in 1..Len(queue'[n]) : queue'[n][i] < seq + 1
  <2>1. CASE queue'[n] = queue[n]
    BY <2>1 DEF InOrder, Numbers, Below
  <2>2. CASE queue'[n] = Append(queue[n], seq)
    <3>1. queue[n] \in Seq(Nat) /\ seq \in Nat
      OBVIOUS
    <3>2. /\ Len(queue[n]) \in Nat /\ Len(queue'[n]) = Len(queue[n]) + 1
          /\ queue'[n][Len(queue[n]) + 1] = seq
          /\ \A i \in 1..Len(queue[n]) : queue'[n][i] = queue[n][i]
      BY SMTT(30), <2>2, <3>1
    <3>3. /\ Increasing(queue[n]) /\ \A i \in 1..Len(queue[n]) : queue[n][i] < seq
          /\ \A i \in 1..Len(got[n]) : got[n][i] < seq
          /\ \A i \in 1..Len(got[n]), j \in 1..Len(queue[n]) : got[n][i] < queue[n][j]
      BY <1>2 DEF InOrder, Below
    <3>4. \A i \in 1..Len(queue[n]) : queue[n][i] \in Nat
      BY SMTT(30), <3>1
    <3>5. \A i \in 1..Len(queue'[n]) : i \in 1..Len(queue[n]) \/ i = Len(queue[n]) + 1
      BY SMTT(30), <3>2
    <3>6. ASSUME NEW i \in 1..Len(queue'[n]), NEW j \in 1..Len(queue'[n]), i < j
          PROVE  queue'[n][i] < queue'[n][j]
      <4>1. i \in 1..Len(queue[n]) /\ queue'[n][i] = queue[n][i]
        BY ONLY SMTT(30), Zenon, <3>2, <3>5, <3>6
      <4>2. CASE j \in 1..Len(queue[n])
        BY ONLY Zenon, <3>2, <3>3, <3>6, <4>1, <4>2 DEF Increasing
      <4>3. CASE j = Len(queue[n]) + 1
        BY ONLY Zenon, <3>2, <3>3, <4>1, <4>3
      <4>. QED BY <3>5, <4>2, <4>3
    <3>7. ASSUME NEW i \in 1..Len(got[n]), NEW j \in 1..Len(queue'[n])
          PROVE  got[n][i] < queue'[n][j]
      BY ONLY Zenon, <3>2, <3>3, <3>5, <3>7
    <3>8. ASSUME NEW i \in 1..Len(queue'[n])
          PROVE  queue'[n][i] < seq + 1
      <4>1. CASE i \in 1..Len(queue[n])
        <5>1. queue'[n][i] < seq /\ queue'[n][i] \in Nat
          BY ONLY Zenon, <3>2, <3>3, <3>4, <4>1
        <5>. QED BY ONLY SMTT(30), Zenon, <3>1, <5>1
      <4>2. CASE i = Len(queue[n]) + 1
        BY ONLY SMTT(30), Zenon, <3>1, <3>2, <4>2
      <4>. QED BY <3>5, <3>8, <4>1, <4>2
    <3>. QED BY ONLY Zenon, <3>6, <3>7, <3>8 DEF Increasing
  <2>. QED BY <1>1, <1>2, <2>1, <2>2
<1>4. InOrder'
  BY <1>1, <1>3 DEF InOrder
<1>5. Below(seq + 1)'
  BY <1>1, <1>3 DEF Numbers, Below
<1>6. \A u \in Txs : pc'[u] \notin {"numbered", "exec"}
  <2>1. \A u \in Txs \ {t} : pc[u] \notin {"numbered", "exec"}
    BY <1>1 DEF OneSlot, Holds
  <2>. QED BY <1>1, <2>1
<1>. QED BY <1>1, <1>4, <1>5, <1>6 DEF Numbers

LEMMA OrderStep ==
    ASSUME Inv, OrderInv, Next
    PROVE  InOrder' /\ Numbers'
<1>. USE DEF Inv, Types, OrderInv
<1>1. CASE \E n \in Nodes : Deliver(n)
  BY <1>1, DeliverOrder
<1>2. CASE \E t \in Txs : ExecCommand(t)
  BY <1>2, ExecOrder
<1>3. CASE \E t \in Txs : Number(t)
  <2>1. PICK t \in Txs : Number(t)
    BY <1>3
  <2>2. /\ UNCHANGED <<queue, got>> /\ seq' = seq + 1 /\ cmd'[t] = seq + 1 /\ kind = "gorums"
        /\ pc[t] = "slot" /\ pc' = [pc EXCEPT ![t] = "numbered"]
    BY <2>1 DEF Number, Goto, networkVars
  <2>3. \A u \in Txs \ {t} : pc[u] \notin {"numbered", "exec"}
    BY <2>2 DEF OneSlot, Holds
  <2>4. Below(seq + 1) /\ Below(seq + 1 + 1)
    <3>1. ASSUME NEW n \in Nodes, NEW i \in 1..Len(got[n]) PROVE got[n][i] \in Nat
      BY ONLY SMTT(30), Zenon, <3>1, Types DEF Types
    <3>2. ASSUME NEW n \in Nodes, NEW i \in 1..Len(queue[n]) PROVE queue[n][i] \in Nat
      BY ONLY SMTT(30), Zenon, <3>2, Types DEF Types
    <3>3. Below(seq + 1) /\ seq \in Nat
      BY DEF Numbers
    <3>4. ASSUME NEW x \in Nat, x < seq + 1 PROVE x < seq + 1 + 1
      BY SMTT(30), <3>3, <3>4
    <3>. QED BY ONLY Zenon, <3>1, <3>2, <3>3, <3>4 DEF Below
  <2>5. InOrder'
    BY <2>2 DEF InOrder
  <2>. QED BY <2>2, <2>3, <2>4, <2>5 DEF Numbers, Below
<1>4. CASE /\ UNCHANGED <<queue, got, seq, cmd>>
           /\ \A u \in Txs : pc'[u] \in {"numbered", "exec"} => pc[u] \in {"numbered", "exec"}
  BY <1>4 DEF InOrder, Numbers, Below
<1>5. ASSUME NEW t \in Txs, Quorum(t), ~Number(t), ~ExecCommand(t)
      PROVE  /\ UNCHANGED <<queue, got, seq, cmd>>
             /\ \A u \in Txs : pc'[u] \in {"numbered", "exec"} => pc[u] \in {"numbered", "exec"}
  BY <1>5 DEF Quorum, Acquire, currentConfigSnapshot, Commit, ExecFails, Abort, Release,
       pruneUnavailableNodes, quorumVars, networkVars, Goto
<1>6. ASSUME NEW t \in Txs, Frame(t)
      PROVE  /\ UNCHANGED <<queue, got, seq, cmd>>
             /\ \A u \in Txs : pc'[u] \in {"numbered", "exec"} => pc[u] \in {"numbered", "exec"}
  BY <1>6 DEF Frame, selectEndpoint, AcquireFrame, sendFrameOnce, sendFrameFails,
       FrameSubmitted, ConfirmCommitted, ConfirmAborted, quorumVars, networkVars, Goto
<1>7. ASSUME Replicas, ~ \E n \in Nodes : Deliver(n)
      PROVE  UNCHANGED <<queue, got, seq, cmd, pc>>
  BY <1>7 DEF Replicas, Crash, Restart, Answer, Decide, quorumVars, networkVars
<1>. QED BY <1>1, <1>2, <1>3, <1>4, <1>5, <1>6, <1>7 DEF Next

(* A replica receives the commands of a client of nhotstuff in the order   *)
(* of their numbers, for any number of interactions, replicas, crashes,    *)
(* timeouts and late commands: the channel inflight has one slot, and a    *)
(* stream keeps its order.                                                 *)
THEOREM CommandsInOrderAlways ==
    Spec => []CommandsInOrder
<1>1. Init => OrderInv
  BY SMTT(30) DEF Init, OrderInv, OneSlot, InOrder, Numbers, Below, Increasing, Holds
<1>2. Inv /\ OrderInv /\ [Next]_hotstuffVars => OrderInv'
  <2>. SUFFICES ASSUME Inv, OrderInv, [Next]_hotstuffVars PROVE OrderInv'
    OBVIOUS
  <2>1. CASE Next
    BY <2>1, SlotStep, OrderStep DEF OrderInv
  <2>2. CASE UNCHANGED hotstuffVars
    BY <2>2 DEF OrderInv, OneSlot, InOrder, Numbers, Below, hotstuffVars, quorumVars, networkVars
  <2>. QED BY <2>1, <2>2
<1>3. OrderInv => CommandsInOrder
  BY DEF OrderInv, InOrder, Increasing, CommandsInOrder
<1>. QED BY <1>1, <1>2, <1>3, InvAlways, PTL DEF Spec

-----------------------------------------------------------------------------
(* The command cache. *)

(* Fresh positions are positions: there are at most Len(cache) of them. *)
LEMMA FreshBound ==
    ASSUME cache \in Seq(Commands)
    PROVE  /\ IsFiniteSet(Fresh)
           /\ Cardinality(Fresh) \in Nat
           /\ Cardinality(Fresh) <= Len(cache)
<1>1. Fresh \in SUBSET (1..Len(cache)) /\ Len(cache) \in Nat
    BY SMTT(30) DEF Fresh
<1>2. IsFiniteSet(1..Len(cache)) /\ Cardinality(1..Len(cache)) = Len(cache)
  <2>1. \A b \in Nat : IsFiniteSet(1..b) /\ Cardinality(1..b) = IF 1 > b THEN 0 ELSE b - 1 + 1
      BY SMTT(30), FS_Interval
  <2>2. QED
      BY SMTT(30), <1>1, <2>1
<1>3. IsFiniteSet(Fresh) /\ Cardinality(Fresh) <= Cardinality(1..Len(cache))
    BY <1>1, <1>2, FS_Subset
<1>4. QED
    BY <1>2, <1>3, FS_CardinalityType

(* A cache without a full batch has no supply of fresh commands. *)
LEMMA SupplyFull ==
    ASSUME CacheTypeOK, Supply
    PROVE  hasFullBatch(cache)
    BY SMTT(30), FreshBound, BatchAssumption DEF CacheTypeOK, Supply, hasFullBatch

-----------------------------------------------------------------------------
(* NewCommandCache establishes the three invariants. *)
LEMMA CacheInitKeeps == CacheInit => CacheTypeOK /\ NoLostWakeup /\ NothingDropped
<1> SUFFICES ASSUME CacheInit PROVE CacheTypeOK /\ NoLostWakeup /\ NothingDropped
    OBVIOUS
<1>1. CacheTypeOK
  <2>1. 0 \in 0..MaxSeq
      BY SMTT(30), SeqAssumption
  <2>2. cache \in Seq(Commands) /\ accepted \in Seq(Commands)
      BY SMTT(30) DEF CacheInit
  <2>3. batches \in Seq(SUBSET Nat)
      BY SMTT(30) DEF CacheInit
  <2>4. clientSeqNumbers \in [Ids -> 0..MaxSeq]
      BY <2>1 DEF CacheInit
  <2>5. QED
      BY <2>2, <2>3, <2>4 DEF CacheInit, CacheTypeOK
<1>2. NoLostWakeup
    BY SMTT(30), <1>1, SupplyFull, BatchAssumption DEF CacheInit, NoLostWakeup, hasFullBatch
<1>3. NothingDropped
    BY SMTT(30) DEF CacheInit, NothingDropped, Removed
<1>4. QED
    BY <1>1, <1>2, <1>3

(* The types are kept; Removed >= 0 makes batches sets of naturals. *)
LEMMA TypeKeeps == CacheTypeOK /\ NothingDropped /\ [CacheNext]_cacheVars => CacheTypeOK'
<1> SUFFICES ASSUME CacheTypeOK, NothingDropped, [CacheNext]_cacheVars PROVE CacheTypeOK'
    OBVIOUS
<1> USE DEF CacheTypeOK
<1>1. ASSUME NEW c \in Commands, Add(c)
      PROVE  CacheTypeOK'
    BY SMTT(30), <1>1 DEF Add, hasFullBatch
<1>2. ASSUME NEW g \in Getters, Get(g) \/ GetReady(g) \/ GetCancelled(g) \/ GetRetries(g)
      PROVE  CacheTypeOK'
    BY <1>2 DEF Get, GetReady, GetCancelled, GetRetries
<1>3. ASSUME NEW g \in Getters, GetReturns(g)
      PROVE  CacheTypeOK'
  <2>1. PICK extracted \in 1..Len(cache) :
            /\ cache' = SubSeq(cache, extracted + 1, Len(cache))
            /\ batches' = Append(batches, {Removed + i : i \in Fresh \cap 1..extracted})
      BY <1>3 DEF GetReturns, tryExtractBatch, Records
  <2>2. {Removed + i : i \in Fresh \cap 1..extracted} \in SUBSET Nat
      BY SMTT(30) DEF NothingDropped, Removed
  <2>3. cache' \in Seq(Commands) /\ batches' \in Seq(SUBSET Nat)
      BY SMTT(30), <2>1, <2>2
  <2>4. QED
      BY <1>3, <2>3 DEF GetReturns, hasFullBatch
<1>4. ASSUME NEW batch, Proposed(batch)
      PROVE  CacheTypeOK'
    BY <1>4 DEF Proposed
<1>5. QED
    BY <1>1, <1>2, <1>3, <1>4 DEF CacheNext, cacheVars

(* What Proposed marks is a duplicate for good: fresh commands only become *)
(* fewer.                                                                  *)
LEMMA ProposedRaises ==
    ASSUME CacheTypeOK, NEW batch, Proposed(batch)
    PROVE  /\ \A id \in Ids : clientSeqNumbers'[id] >= clientSeqNumbers[id]
           /\ \A c \in Commands : isDuplicate(c) => isDuplicate(c)'
           /\ Fresh' \subseteq Fresh
<1>1. \A id \in Ids : /\ clientSeqNumbers'[id] >= clientSeqNumbers[id]
                      /\ clientSeqNumbers'[id] \in Nat
    BY SMTT(30), SeqAssumption DEF Proposed, CacheTypeOK
<1>2. \A c \in Commands : isDuplicate(c) => isDuplicate(c)'
    BY SMTT(30), <1>1, CommandsAssumption, SeqAssumption DEF isDuplicate, CacheTypeOK
<1>3. cache' = cache /\ \A i \in DOMAIN cache : cache[i] \in Commands
    BY SMTT(30) DEF Proposed, CacheTypeOK
<1>4. Fresh' \subseteq Fresh
    BY <1>2, <1>3 DEF Fresh, isDuplicate
<1>5. QED
    BY <1>1, <1>2, <1>4

(* Every step that can fill a batch leaves a token or a Get behind it. *)
LEMMA WakeupKeeps == CacheTypeOK /\ CacheTypeOK' /\ NoLostWakeup /\ [CacheNext]_cacheVars => NoLostWakeup'
<1> SUFFICES ASSUME CacheTypeOK, CacheTypeOK', NoLostWakeup, [CacheNext]_cacheVars, Supply'
             PROVE  (ready \/ \E g \in Getters : getPc[g] = "check")'
    BY DEF NoLostWakeup
<1>0. hasFullBatch(cache)'
    BY SupplyFull, PTL
<1>1. ASSUME NEW c \in Commands, Add(c)
      PROVE  ready'
    BY <1>0, <1>1 DEF Add, hasFullBatch
<1>2. ASSUME UNCHANGED <<clientSeqNumbers, cache>>
      PROVE  Supply
    BY <1>2 DEF Supply, Fresh, isDuplicate
<1>3. ASSUME NEW g \in Getters, Get(g) \/ GetReady(g) \/ GetCancelled(g)
      PROVE  ready' \/ \E h \in Getters : getPc'[h] = "check"
    BY <1>2, <1>3 DEF Get, GetReady, GetCancelled, NoLostWakeup, CacheTypeOK
<1>4. ASSUME NEW g \in Getters
      PROVE  ~GetRetries(g)
  <2> SUFFICES ASSUME GetRetries(g) PROVE FALSE
      OBVIOUS
  <2>1. Supply
      BY <1>2 DEF GetRetries
  <2>2. hasFullBatch(cache) /\ ~(Cardinality(Fresh) < batchSize)
      BY SMTT(30), <2>1, SupplyFull, FreshBound, BatchAssumption DEF Supply, CacheTypeOK
  <2>3. QED
      BY <2>2 DEF GetRetries
<1>5. ASSUME NEW g \in Getters, GetReturns(g)
      PROVE  ready'
    BY <1>0, <1>5 DEF GetReturns, hasFullBatch
<1>6. ASSUME NEW batch, Proposed(batch)
      PROVE  ready' \/ \E h \in Getters : getPc'[h] = "check"
  <2>1. Fresh' \in SUBSET Fresh
      BY <1>6, ProposedRaises
  <2>2. Cardinality(Fresh') <= Cardinality(Fresh) /\ Cardinality(Fresh') \in Nat
      BY <2>1, FreshBound, FS_Subset, FS_CardinalityType DEF CacheTypeOK
  <2>3. Supply
      BY SMTT(30), <2>2, FreshBound, BatchAssumption DEF Supply, CacheTypeOK
  <2>4. QED
      BY <1>6, <2>3 DEF Proposed, NoLostWakeup
<1>7. CASE UNCHANGED cacheVars
    BY <1>2, <1>7 DEF cacheVars, NoLostWakeup
<1>8. QED
    BY <1>1, <1>3, <1>4, <1>5, <1>6, <1>7 DEF CacheNext

(* Only tryExtractBatch removes, and it batches what is not a duplicate. *)
LEMMA NothingDroppedKeeps ==
    CacheTypeOK /\ CacheTypeOK' /\ NothingDropped /\ [CacheNext]_cacheVars => NothingDropped'
<1> SUFFICES ASSUME CacheTypeOK, CacheTypeOK', NothingDropped, [CacheNext]_cacheVars
             PROVE  NothingDropped'
    OBVIOUS
<1> USE DEF NothingDropped, Removed
<1>1. ASSUME NEW c \in Commands, Add(c)
      PROVE  NothingDropped'
  <2>1. /\ Len(cache') = Len(cache) + 1 /\ Len(accepted') = Len(accepted) + 1
        /\ Removed' = Removed
      BY SMTT(30), <1>1 DEF Add, CacheTypeOK
  <2>2. \A i \in DOMAIN cache' : cache'[i] = accepted'[Removed + i]
      BY SMTT(30), <1>1, <2>1 DEF Add, CacheTypeOK
  <2>3. \A i \in 1..Removed : accepted'[i] = accepted[i]
      BY SMTT(30), <1>1, <2>1 DEF Add, CacheTypeOK
  <2>4. QED
      BY ZenonT(30), <1>1, <2>1, <2>2, <2>3 DEF Add, isDuplicate
<1>2. ASSUME NEW g \in Getters, GetReturns(g)
      PROVE  NothingDropped'
  <2>1. PICK extracted \in 1..Len(cache) :
            /\ cache' = SubSeq(cache, extracted + 1, Len(cache))
            /\ batches' = Append(batches, {Removed + i : i \in Fresh \cap 1..extracted})
      BY <1>2 DEF GetReturns, tryExtractBatch, Records
  <2>2. UNCHANGED <<clientSeqNumbers, accepted>>
      BY <1>2 DEF GetReturns
  <2>3. /\ Len(cache') = Len(cache) - extracted
        /\ \A i \in 1..Len(cache') : cache'[i] = cache[extracted + i]
        /\ Removed' = Removed + extracted
    <3>1. extracted \in Nat /\ extracted <= Len(cache) /\ Len(cache) \in Nat
        BY SMTT(30) DEF CacheTypeOK
    <3>2. Len(cache') = Len(cache) - extracted
        BY SMTT(30), <2>1, <3>1 DEF CacheTypeOK
    <3>3. \A i \in 1..Len(cache') : cache'[i] = cache[extracted + i]
        BY SMTT(30), <2>1, <3>1, <3>2 DEF CacheTypeOK
    <3>4. QED
        BY SMTT(30), <2>2, <3>1, <3>2, <3>3 DEF CacheTypeOK
  <2>4. /\ \A b \in DOMAIN batches : b \in DOMAIN batches' /\ batches'[b] = batches[b]
        /\ Len(batches') \in DOMAIN batches'
        /\ batches'[Len(batches')] = {Removed + i : i \in Fresh \cap 1..extracted}
      BY SMTT(30), <2>1 DEF CacheTypeOK
  <2>5. ASSUME NEW i \in 1..Removed'
        PROVE  (isDuplicate(accepted[i]) \/ \E b \in DOMAIN batches : i \in batches[b])'
    <3>1. CASE i \in 1..Removed
        BY <2>2, <2>4, <3>1 DEF isDuplicate
    <3>2. CASE i \notin 1..Removed
      <4>1. PICK k \in 1..extracted : i = Removed + k
        <5>1. Removed \in Nat /\ extracted \in Nat /\ i \in Nat
            BY SMTT(30), <2>3 DEF CacheTypeOK
        <5>2. i - Removed \in 1..extracted /\ i = Removed + (i - Removed)
            BY SMTT(30), <2>3, <3>2, <5>1 DEF CacheTypeOK
        <5>3. QED
            BY <5>2
      <4>2. cache[k] = accepted[i] /\ k \in DOMAIN cache
          BY SMTT(30), <4>1 DEF CacheTypeOK
      <4>3. CASE k \in Fresh
          BY <2>4, <4>1, <4>3
      <4>4. CASE k \notin Fresh
          BY <2>2, <4>2, <4>4 DEF Fresh, isDuplicate
      <4>5. QED
          BY <4>3, <4>4
    <3>3. QED
        BY <3>1, <3>2
  <2>6. \A i \in DOMAIN cache' : cache'[i] = accepted'[Removed' + i]
      BY SMTT(30), <2>1, <2>2, <2>3 DEF CacheTypeOK
  <2>7. QED
      BY SMTT(30), <2>2, <2>3, <2>5, <2>6 DEF CacheTypeOK
<1>3. ASSUME NEW batch, Proposed(batch)
      PROVE  NothingDropped'
  <2>1. \A i \in 1..Removed : accepted[i] \in Commands
      BY SMTT(30) DEF CacheTypeOK
  <2>2. QED
      BY <1>3, <2>1, ProposedRaises DEF Proposed, isDuplicate
<1>4. ASSUME UNCHANGED <<clientSeqNumbers, cache, accepted, batches>>
      PROVE  NothingDropped'
    BY <1>4 DEF isDuplicate
<1>5. QED
    BY <1>1, <1>2, <1>3, <1>4
    DEF CacheNext, cacheVars, Get, GetReady, GetCancelled, GetRetries

-----------------------------------------------------------------------------
(* The three invariants of the cache are inductive together. *)
LEMMA CacheInvariant == CacheSpec => [](CacheTypeOK /\ NoLostWakeup /\ NothingDropped)
    BY CacheInitKeeps, TypeKeeps, WakeupKeeps, NothingDroppedKeeps, PTL DEF CacheSpec

(* The fields of CommandCache, and the histories, keep their types. *)
THEOREM CacheTypeCorrect == CacheSpec => []CacheTypeOK
    BY CacheInvariant, PTL

(* A full batch of fresh commands is always announced to some Get, by a    *)
(* token in `ready` or by a Get between its token and the mutex.           *)
THEOREM WakeupsKept == CacheSpec => []NoLostWakeup
    BY CacheInvariant, PTL

(* The prefix tryExtractBatch removes holds only commands of the batch it  *)
(* returns and duplicates.                                                 *)
THEOREM CommandsKept == CacheSpec => []NothingDropped
    BY CacheInvariant, PTL
=============================================================================
