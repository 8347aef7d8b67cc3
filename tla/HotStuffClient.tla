--------------------------- MODULE HotStuffClient ---------------------------
(***************************************************************************)
(* The clients of the two HotStuff systems.  Both bound the interactions   *)
(* in flight with a channel of slots.                                      *)
(*   nhotstuff: a gorums quorum call to the replicas of a configuration    *)
(*   that is rebuilt without the replicas that refused a connection;       *)
(*   nasonninohotstuff: a frame written to the mempool of one node, over a *)
(*   pooled connection and with retries, then polls of that node's bridge. *)
(* Payloads are the bytes DecodePayload returns as they are, so the type   *)
(* and length checks that open TriggerInteraction cannot fail.             *)
(***************************************************************************)
EXTENDS Naturals, Sequences, FiniteSets

CONSTANTS
    Txs,            \* interactions of one client
    Nodes,          \* replicas
    Views,          \* views a client may be given: non-empty sets of nodes
    Crashable,      \* replicas that may crash and restart
    Cap,            \* slots of nasonninohotstuff, a parameter
    SendAttempts    \* mempoolSendAttempts

ASSUME HotStuffAssumption ==
    /\ Views \subseteq SUBSET Nodes /\ {} \notin Views
    /\ Cap \in Nat \ {0} /\ SendAttempts \in Nat \ {0}
    /\ \A v \in Views : IsFiniteSet(v)

VARIABLES
    kind,           \* "gorums" (nhotstuff) or "asonnino"
    view,           \* allNodes, or the endpoints
    pc, log,        \* as in the other clients
    inflight,       \* interactions that hold a slot
    \* nhotstuff
    seq,            \* atomic counter of commands
    cmd,            \* sequence number of each interaction's command, 0 if none
    snap,           \* the configuration each interaction has read
    config,         \* gorumsConfig
    cfgVersion, activeNodes, dead,
    unbuilt,        \* a rebuild of the configuration has failed
    queue,          \* commands on their way to each replica
    got,            \* commands each replica has received, in order
    replies, errs,  \* answers to the call of each interaction
    crashed,        \* replicas that refuse connections
    \* nasonninohotstuff
    rr,             \* endpoints handed out
    idx,            \* endpoint of each interaction, as a count
    conn,           \* endpoints with an open pooled connection
    attempt,        \* attempts left of sendFrame
    arrived,        \* interactions whose frame has reached the mempool
    decided         \* what the bridges say of each interaction

quorumVars == <<seq, cmd, snap, config, cfgVersion, activeNodes, dead, unbuilt>>
networkVars == <<queue, got, replies, errs, crashed>>
frameVars == <<rr, idx, conn, attempt, arrived, decided>>
hotstuffVars == <<kind, view, pc, log, inflight, quorumVars, networkVars, frameVars>>

numFaulty(n) == (n - 1) \div 3

Init ==
    /\ kind \in {"gorums", "asonnino"}
    /\ view \in Views
    /\ pc = [t \in Txs |-> "idle"] /\ log = [t \in Txs |-> <<>>]
    /\ inflight = {}
    /\ seq = 0 /\ cmd = [t \in Txs |-> 0] /\ snap = [t \in Txs |-> {}]
    /\ config = view /\ cfgVersion = 0 /\ activeNodes = Cardinality(view)
    /\ dead = {} /\ unbuilt = FALSE
    /\ queue = [n \in Nodes |-> <<>>] /\ got = [n \in Nodes |-> <<>>]
    /\ replies = [t \in Txs |-> {}] /\ errs = [t \in Txs |-> {}]
    /\ crashed = {}
    /\ rr = 0 /\ idx = [t \in Txs |-> 0]
    /\ conn = {} /\ attempt = [t \in Txs |-> 0]
    /\ arrived = {} /\ decided = [t \in Txs |-> "unknown"]

Goto(t, label) == pc' = [pc EXCEPT ![t] = label]

Report(t, report) == log' = [log EXCEPT ![t] = Append(@, report)]

-----------------------------------------------------------------------------
(* nhotstuff.TriggerInteraction up to the quorum call.                     *)

(* The slots of nhotstuff. *)
inflightCap == 1

(* A faulty Acquire: twice the slots, as a larger inflightCap would give.  *)
AcquireTwice(t) ==
    /\ kind = "gorums" /\ pc[t] = "idle"
    /\ Cardinality(inflight) < 2 * inflightCap
    /\ inflight' = inflight \cup {t}
    /\ Goto(t, "slot")
    /\ UNCHANGED <<kind, view, log, quorumVars, networkVars, frameVars>>

Acquire(t) ==
    /\ kind = "gorums" /\ pc[t] = "idle"
    /\ Cardinality(inflight) < inflightCap
    /\ inflight' = inflight \cup {t}
    /\ Goto(t, "slot")
    /\ UNCHANGED <<kind, view, log, quorumVars, networkVars, frameVars>>

Number(t) ==
    /\ kind = "gorums" /\ pc[t] = "slot"
    /\ Report(t, "submit")
    /\ seq' = seq + 1
    /\ cmd' = [cmd EXCEPT ![t] = seq + 1]
    /\ Goto(t, "numbered")
    /\ UNCHANGED <<kind, view, inflight, snap, config, cfgVersion, activeNodes,
                   dead, unbuilt, networkVars, frameVars>>

currentConfigSnapshot(t) ==
    /\ kind = "gorums" /\ pc[t] = "numbered"
    /\ snap' = [snap EXCEPT ![t] = config]
    /\ Goto(t, "exec")
    /\ UNCHANGED <<kind, view, log, inflight, seq, cmd, config, cfgVersion,
                   activeNodes, dead, unbuilt, networkVars, frameVars>>

(* ExecCommand puts the command on the stream of every replica.            *)
ExecCommand(t) ==
    /\ kind = "gorums" /\ pc[t] = "exec"
    /\ queue' = [n \in Nodes |-> IF n \in snap[t] THEN Append(queue[n], cmd[t])
                                 ELSE queue[n]]
    /\ Goto(t, "get")
    /\ UNCHANGED <<kind, view, log, inflight, quorumVars, got, replies, errs,
                   crashed, frameVars>>

-----------------------------------------------------------------------------
(* The replicas.  A stream keeps its order; a crashed replica refuses the  *)
(* command; one that runs takes it into its command cache, which drops a   *)
(* command not newer than one it has (see CommandCache), and answers once  *)
(* it has executed it.                                                     *)

Calling(n) == {t \in Txs : pc[t] = "get" /\ n \in snap[t]}

Deliver(n) ==
    /\ queue[n] # <<>>
    /\ queue' = [queue EXCEPT ![n] = Tail(@)]
    /\ IF n \in crashed
       THEN /\ errs' = [t \in Txs |-> IF t \in Calling(n) /\ cmd[t] = Head(queue[n])
                                      THEN errs[t] \cup {n} ELSE errs[t]]
            /\ UNCHANGED got
       ELSE /\ got' = [got EXCEPT ![n] = Append(@, Head(queue[n]))]
            /\ UNCHANGED errs
    /\ UNCHANGED <<kind, view, pc, log, inflight, quorumVars, replies, crashed,
                   frameVars>>

Accepts(n, command) ==
    \E i \in 1..Len(got[n]) :
        got[n][i] = command /\ \A j \in 1..(i - 1) : got[n][j] < command

Answer(n, t) ==
    /\ n \notin crashed
    /\ t \in Calling(n) /\ n \notin replies[t]
    /\ Accepts(n, cmd[t])
    /\ replies' = [replies EXCEPT ![t] = @ \cup {n}]
    /\ UNCHANGED <<kind, view, pc, log, inflight, quorumVars, queue, got, errs,
                   crashed, frameVars>>

Crash(n) ==
    /\ kind = "gorums" /\ n \in (view \cap Crashable) \ crashed
    /\ crashed' = crashed \cup {n}
    /\ UNCHANGED <<kind, view, pc, log, inflight, quorumVars, queue, got, replies,
                   errs, frameVars>>

Restart(n) ==
    /\ n \in crashed
    /\ crashed' = crashed \ {n}
    /\ UNCHANGED <<kind, view, pc, log, inflight, quorumVars, queue, got, replies,
                   errs, frameVars>>

-----------------------------------------------------------------------------
(* promise.Get() and what follows it.                                      *)

(* A faulty ExecCommandQF: f replies are enough. *)
ExecCommandQFWeak(t) == Cardinality(replies[t]) >= numFaulty(Cardinality(snap[t]))

ExecCommandQF(t) == Cardinality(replies[t]) >= numFaulty(Cardinality(snap[t])) + 1

Commit(t) ==
    /\ pc[t] = "get"
    /\ ExecCommandQF(t)
    /\ Report(t, "commit")
    /\ Goto(t, "release")
    /\ UNCHANGED <<kind, view, inflight, quorumVars, networkVars, frameVars>>

(* Every replica has answered or failed, or perCmdTimeout is over.         *)
ExecFails(t) ==
    /\ pc[t] = "get"
    /\ ~ExecCommandQF(t)
    /\ Goto(t, "prune")
    /\ UNCHANGED <<kind, view, log, inflight, quorumVars, networkVars, frameVars>>

(* The configuration without `gone`, if it can be built.                   *)
Rebuild(gone, built) ==
    LET active == view \ gone
    IN IF active = {} \/ ~built
       THEN /\ unbuilt' = (unbuilt \/ active # {})
            /\ UNCHANGED <<config, cfgVersion, activeNodes>>
       ELSE /\ config' = active
            /\ cfgVersion' = cfgVersion + 1
            /\ activeNodes' = Cardinality(active)
            /\ unbuilt' = FALSE

(* A faulty pruneUnavailableNodes: activeNodes is left as it was.          *)
pruneKeepsCount(t, built) ==
    /\ pc[t] = "prune"
    /\ dead' = dead \cup errs[t]
    /\ IF errs[t] \subseteq dead \/ ~built
       THEN UNCHANGED <<config, cfgVersion, unbuilt>>
       ELSE /\ config' = view \ (dead \cup errs[t])
            /\ cfgVersion' = cfgVersion + 1
            /\ UNCHANGED unbuilt
    /\ Goto(t, "abort")
    /\ UNCHANGED <<kind, view, log, inflight, seq, cmd, snap, activeNodes,
                   networkVars, frameVars>>

pruneUnavailableNodes(t, built) ==
    /\ pc[t] = "prune"
    /\ dead' = dead \cup errs[t]
    /\ IF errs[t] \subseteq dead
       THEN UNCHANGED <<config, cfgVersion, activeNodes, unbuilt>>
       ELSE Rebuild(dead \cup errs[t], built)
    /\ Goto(t, "abort")
    /\ UNCHANGED <<kind, view, log, inflight, seq, cmd, snap, networkVars, frameVars>>

Abort(t) ==
    /\ pc[t] = "abort"
    /\ Report(t, "abort")
    /\ Goto(t, "release")
    /\ UNCHANGED <<kind, view, inflight, quorumVars, networkVars, frameVars>>

(* A faulty Release: a path that returns without giving the slot back.     *)
ReleaseKeepsSlot(t) ==
    /\ pc[t] = "release"
    /\ inflight' = IF log[t] = <<"submit", "abort">> THEN inflight ELSE inflight \ {t}
    /\ Goto(t, "returned")
    /\ UNCHANGED <<kind, view, log, quorumVars, networkVars, frameVars>>

(* The deferred `<-c.inflight`. *)
Release(t) ==
    /\ pc[t] = "release"
    /\ inflight' = inflight \ {t}
    /\ Goto(t, "returned")
    /\ UNCHANGED <<kind, view, log, quorumVars, networkVars, frameVars>>

-----------------------------------------------------------------------------
(* nasonninohotstuff.TriggerInteraction.                                   *)

selectEndpoint(t) ==
    /\ kind = "asonnino" /\ pc[t] = "idle"
    /\ \/ rr' = rr + 1 /\ idx' = [idx EXCEPT ![t] = rr % Cardinality(view)]
       \/ UNCHANGED <<rr, idx>>           \* mempoolMode "single"
    /\ Goto(t, "selected")
    /\ UNCHANGED <<kind, view, log, inflight, quorumVars, networkVars, conn,
                   attempt, arrived, decided>>

AcquireFrame(t) ==
    /\ pc[t] = "selected"
    /\ Cardinality(inflight) < Cap
    /\ inflight' = inflight \cup {t}
    /\ attempt' = [attempt EXCEPT ![t] = SendAttempts]
    /\ Goto(t, "frame")
    /\ UNCHANGED <<kind, view, log, quorumVars, networkVars, rr, idx, conn,
                   arrived, decided>>

(* sendFrameOnce under the lock of the pooled connection: a write on the   *)
(* open connection or on one just dialled and, if it fails, a second write *)
(* on a new one.  A failed write may have put the frame through.           *)
sendFrameOnce(t, written, through) ==
    /\ pc[t] = "frame" /\ attempt[t] > 0
    /\ conn' = IF written THEN conn \cup {idx[t]} ELSE conn \ {idx[t]}
    /\ arrived' = IF through THEN arrived \cup {t} ELSE arrived
    /\ attempt' = [attempt EXCEPT ![t] = @ - 1]
    /\ Goto(t, IF written THEN "sent" ELSE "frame")
    /\ UNCHANGED <<kind, view, log, inflight, quorumVars, networkVars, rr, idx,
                   decided>>

(* A faulty sendFrame: it gives up after its attempts without an error.    *)
sendFrameSilent(t) ==
    /\ pc[t] = "frame" /\ attempt[t] = 0
    /\ Goto(t, "release")
    /\ UNCHANGED <<kind, view, log, inflight, quorumVars, networkVars, frameVars>>

sendFrameFails(t) ==
    /\ pc[t] = "frame" /\ attempt[t] = 0
    /\ Report(t, "abort")
    /\ Goto(t, "release")
    /\ UNCHANGED <<kind, view, inflight, quorumVars, networkVars, frameVars>>

FrameSubmitted(t) ==
    /\ pc[t] = "sent"
    /\ Report(t, "submit")
    /\ Goto(t, "poll")
    /\ UNCHANGED <<kind, view, inflight, quorumVars, networkVars, frameVars>>

(* The node orders the transaction, or drops it. *)
Decide(t, outcome) ==
    /\ t \in arrived /\ decided[t] = "unknown"
    /\ decided' = [decided EXCEPT ![t] = outcome]
    /\ UNCHANGED <<kind, view, pc, log, inflight, quorumVars, networkVars, rr, idx,
                   conn, attempt, arrived>>

ConfirmCommitted(t) ==
    /\ pc[t] = "poll" /\ decided[t] = "committed"
    /\ Report(t, "commit")
    /\ Goto(t, "release")
    /\ UNCHANGED <<kind, view, inflight, quorumVars, networkVars, frameVars>>

(* The bridge says aborted, or maxWait is over. *)
ConfirmAborted(t) ==
    /\ pc[t] = "poll"
    /\ Report(t, "abort")
    /\ Goto(t, "release")
    /\ UNCHANGED <<kind, view, inflight, quorumVars, networkVars, frameVars>>

-----------------------------------------------------------------------------
Quorum(t) ==
    \/ Acquire(t) \/ Number(t) \/ currentConfigSnapshot(t) \/ ExecCommand(t)
    \/ Commit(t) \/ ExecFails(t) \/ Abort(t) \/ Release(t)
    \/ \E built \in BOOLEAN : pruneUnavailableNodes(t, built)

Frame(t) ==
    \/ selectEndpoint(t) \/ AcquireFrame(t)
    \/ \E written, through \in BOOLEAN : sendFrameOnce(t, written, through)
    \/ sendFrameFails(t) \/ FrameSubmitted(t)
    \/ ConfirmCommitted(t) \/ ConfirmAborted(t)

Replicas ==
    \/ \E n \in Nodes : Deliver(n) \/ Crash(n) \/ Restart(n)
    \/ \E n \in Nodes, t \in Txs : Answer(n, t)
    \/ \E t \in Txs, outcome \in {"committed", "aborted"} : Decide(t, outcome)

Next == Replicas \/ \E t \in Txs : Quorum(t) \/ Frame(t)

Spec == Init /\ [][Next]_hotstuffVars

(* Each goroutine proceeds: perCmdTimeout, the attempts of sendFrame and   *)
(* maxWait bound all their waits but the one for a slot, which a channel   *)
(* gives to its senders in turn.  Nothing is assumed of the replicas.      *)
FairSpec ==
    /\ Spec
    /\ \A t \in Txs :
        WF_hotstuffVars(Quorum(t) \/ Frame(t)) /\ SF_hotstuffVars(Acquire(t) \/ AcquireFrame(t))

-----------------------------------------------------------------------------
(* An interaction that has left TriggerInteraction has exactly one outcome *)
(* and it is the last report; only an outcome "abort" of nasonninohotstuff *)
(* may come without a submission, when the frame could not be sent.        *)
EveryReturnReported ==
    \A t \in Txs :
        /\ pc[t] \in {"release", "returned"} =>
              \/ log[t] \in {<<"submit", "commit">>, <<"submit", "abort">>}
              \/ kind = "asonnino" /\ log[t] = <<"abort">>
        /\ pc[t] \notin {"release", "returned"} => log[t] \in {<<>>, <<"submit">>}

(* A replica receives the commands of a client in the order of their       *)
(* sequence numbers, so that its command cache takes none of them for a    *)
(* duplicate, although numbering, the configuration read and the call are  *)
(* separate steps and late commands of calls that timed out still arrive.  *)
CommandsInOrder ==
    \A n \in Nodes : \A i, j \in 1..Len(got[n]) : i < j => got[n][i] < got[n][j]

(* The configuration in use is the view without the dead replicas, unless  *)
(* that would leave none or it could not be built; activeNodes is its size *)
(* and cfgVersion counts its changes.  A configuration read earlier is     *)
(* never smaller than the one in use.                                      *)
ConfigMatches ==
    /\ view \ dead # {} /\ ~unbuilt => config = view \ dead
    /\ activeNodes = Cardinality(config)
    /\ config # {} /\ view \ dead \subseteq config
    /\ (cfgVersion = 0) = (config = view)
    /\ \A t \in Txs : pc[t] \in {"exec", "get", "prune"} => config \subseteq snap[t]

(* A commit is reported only when f + 1 replicas of the configuration the  *)
(* call was made with have taken the command, f being that of the replicas *)
(* still in it, or when the bridge has the transaction.                    *)
CommitHasQuorum ==
    \A t \in Txs :
        log[t] = <<"submit", "commit">> =>
            IF kind = "gorums"
            THEN \E q \in SUBSET snap[t] :
                    /\ Cardinality(q) >= numFaulty(Cardinality(snap[t])) + 1
                    /\ \A n \in q : Accepts(n, cmd[t])
            ELSE decided[t] = "committed"

(* Every interaction ends, whatever the replicas do: nobody keeps a slot.  *)
EveryTriggerEnds == \A t \in Txs : <>(pc[t] = "returned")
=============================================================================
