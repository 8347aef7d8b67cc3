------------------------------- MODULE Session -------------------------------
(***************************************************************************)
(* One benchmark session: Nprimary.Run and N processes of Nsecondary.Run   *)
(* over TCP connections (core/nprimary.go, core/nsecondary.go,             *)
(* core/net.go).  The primary accepts the secondaries one after the other, *)
(* accepts the observers, ships the prepared clients and interactions,     *)
(* synchronizes, starts everybody and collects the results.                *)
(*                                                                         *)
(* A connection is a pair of sequences of messages; what the primary (the  *)
(* secondary) has written and bufio has not flushed is in pbuf (sbuf).     *)
(* Any process may fail; the kernel then closes its connections.  A reader *)
(* of a connection whose other end failed gets the messages still in       *)
(* flight or an error, in any combination; a writer may or may not see an  *)
(* error.  How an interaction ends is the matter of Redundant.             *)
(***************************************************************************)
EXTENDS Naturals, Sequences, FiniteSets, Functions

CONSTANTS
    Secondaries,    \* the secondary processes
    NumObserver,
    Plan,           \* what parseBenchmark generates, in the order it sends it
    MaxFailures     \* bound on failing processes

NumSecondary == Cardinality(Secondaries)

(* Plan is a sequence of records: slot is the location (the index of an    *)
(* accepted secondary), kind "client" or "iact", index the client, time    *)
(* the schedule of the interaction.                                        *)
ASSUME PlanAssumption ==
    Plan \in Seq([slot : 1..NumSecondary, kind : {"client", "iact"},
                  index : Nat, time : Nat])
ASSUME SecondariesAssumption == IsFiniteSet(Secondaries) /\ Secondaries # {}
ASSUME BoundAssumption == NumObserver \in Nat /\ MaxFailures \in Nat

VARIABLES
    pphase, cursor,     \* the primary: statement of Run and loop variable
    slots,              \* accepted secondaries, in the order of acceptSecondaries
    observers, started, \* accepted observers, and those that got the start signal
    pclosed,            \* connections the primary has closed after collect
    results,            \* results of each secondary
    sphase,             \* the secondaries: statement of Run
    clients,            \* runtime.clients
    decoding,           \* interactions whose decoding goroutine is not done
    interactions,       \* runtime.interactions
    next,               \* loop variable of run() and stop()
    pbuf, toSec, sbuf, toPri,
    failures

primary == <<pphase, cursor, slots, observers, started, pclosed, results>>
secondary == <<sphase, clients, decoding, interactions, next>>
net == <<pbuf, toSec, sbuf, toPri>>
vars == <<primary, secondary, net, failures>>

Each(v) == [s \in Secondaries |-> v]

Init ==
    /\ pphase = "builder" /\ cursor = 1
    /\ slots = <<>> /\ observers = 0 /\ started = 0
    /\ pclosed = {} /\ results = Each(<<>>)
    /\ sphase = Each("dial")
    /\ clients = Each({}) /\ decoding = Each({})
    /\ interactions = Each(<<>>) /\ next = Each(1)
    /\ pbuf = Each(<<>>) /\ toSec = Each(<<>>)
    /\ sbuf = Each(<<>>) /\ toPri = Each(<<>>)
    /\ failures = 0

Msg(kind) == [kind |-> kind]

Listening == pphase \in {"accept", "handshake"}
Over(s) == sphase[s] \in {"over", "failed"}
PrimaryGone == pphase \in {"ok", "failed"}
Cut(s) == PrimaryGone \/ s \in pclosed

(* bufio.Writer: Buffer appends and may flush any prefix on the way, when  *)
(* the buffer fills; Flush appends and sends everything.                   *)
Buffer(buf, wire, s, msg) ==
    LET all == Append(buf[s], msg)
    IN  \E k \in 0..Len(all) :
            /\ wire' = [wire EXCEPT ![s] = @ \o SubSeq(all, 1, k)]
            /\ buf' = [buf EXCEPT ![s] = SubSeq(all, k + 1, Len(all))]

Flush(buf, wire, s, msg) ==
    /\ wire' = [wire EXCEPT ![s] = @ \o Append(buf[s], msg)]
    /\ buf' = [buf EXCEPT ![s] = <<>>]

Receive(wire, s, kind) ==
    /\ wire[s] # <<>>
    /\ Head(wire[s]).kind = kind
    /\ wire' = [wire EXCEPT ![s] = Tail(@)]

Fail == failures < MaxFailures /\ failures' = failures + 1

-----------------------------------------------------------------------------
(* The primary: connections.                                               *)

Listen ==
    /\ pphase = "builder"
    /\ pphase' = "accept"
    /\ UNCHANGED <<cursor, slots, observers, started, pclosed, results,
                   secondary, net, failures>>

(* Accept and the first half of secondaryConn.init. *)
Accept(s) ==
    /\ pphase = "accept"
    /\ sphase[s] # "dial" /\ s \notin Range(slots)
    /\ slots' = Append(slots, s)
    /\ Flush(pbuf, toSec, s, Msg("params"))
    /\ pphase' = "handshake"
    /\ UNCHANGED <<cursor, observers, started, pclosed, results, secondary,
                   sbuf, toPri, failures>>

Handshake ==
    /\ pphase = "handshake"
    /\ Receive(toPri, slots[Len(slots)], "params")
    /\ pphase' = IF Len(slots) = NumSecondary THEN "observers" ELSE "accept"
    /\ UNCHANGED <<cursor, slots, observers, started, pclosed, results,
                   secondary, pbuf, toSec, sbuf, failures>>

HandshakeFails ==
    /\ pphase = "handshake"
    /\ Over(slots[Len(slots)])
    /\ pphase' = "failed"
    /\ UNCHANGED <<cursor, slots, observers, started, pclosed, results,
                   secondary, net, failures>>

AcceptObserver ==
    /\ pphase = "observers"
    /\ observers < NumObserver
    /\ observers' = observers + 1
    /\ UNCHANGED <<pphase, cursor, slots, started, pclosed, results, secondary,
                   net, failures>>

ObserversAccepted ==
    /\ pphase = "observers"
    /\ observers = NumObserver
    /\ pphase' = "prepare"
    /\ UNCHANGED <<cursor, slots, observers, started, pclosed, results,
                   secondary, net, failures>>

-----------------------------------------------------------------------------
(* The primary: preparation.  createClient and sendInteraction write       *)
(* without flushing; an error ends Run.                                    *)

SendPrepare ==
    /\ pphase = "prepare"
    /\ cursor <= Len(Plan)
    /\ Buffer(pbuf, toSec, slots[Plan[cursor].slot],
              [kind |-> Plan[cursor].kind, index |-> Plan[cursor].index,
               time |-> Plan[cursor].time, id |-> cursor])
    /\ cursor' = cursor + 1
    /\ UNCHANGED <<pphase, slots, observers, started, pclosed, results,
                   secondary, sbuf, toPri, failures>>

SendPrepareFails ==
    /\ pphase = "prepare"
    /\ cursor <= Len(Plan)
    /\ Over(slots[Plan[cursor].slot])
    /\ pphase' = "failed"
    /\ UNCHANGED <<cursor, slots, observers, started, pclosed, results,
                   secondary, net, failures>>

Prepared ==
    /\ pphase = "prepare"
    /\ cursor > Len(Plan)
    /\ pphase' = "sync" /\ cursor' = 1
    /\ UNCHANGED <<slots, observers, started, pclosed, results, secondary, net,
                   failures>>

-----------------------------------------------------------------------------
(* The primary: ready() and start().  Run ignores their errors.            *)

NextSlot(phase, after) ==
    IF cursor = NumSecondary
    THEN pphase' = after /\ cursor' = 1
    ELSE pphase' = phase /\ cursor' = cursor + 1

(* A faulty Ready: it does not wait for the answer.                        *)
ReadyAtOnce ==
    /\ pphase = "sync"
    /\ Flush(pbuf, toSec, slots[cursor], Msg("done"))
    /\ NextSlot("sync", "start")
    /\ UNCHANGED <<slots, observers, started, pclosed, results, secondary,
                   sbuf, toPri, failures>>

Ready ==
    /\ pphase = "sync"
    /\ Flush(pbuf, toSec, slots[cursor], Msg("done"))
    /\ pphase' = "waitReady"
    /\ UNCHANGED <<cursor, slots, observers, started, pclosed, results,
                   secondary, sbuf, toPri, failures>>

ReadyAnswered ==
    /\ pphase = "waitReady"
    /\ Receive(toPri, slots[cursor], "done")
    /\ NextSlot("sync", "start")
    /\ UNCHANGED <<slots, observers, started, pclosed, results, secondary,
                   pbuf, toSec, sbuf, failures>>

ReadyFails ==
    /\ pphase \in {"sync", "waitReady"}
    /\ Over(slots[cursor])
    /\ NextSlot("sync", "start")
    /\ UNCHANGED <<slots, observers, started, pclosed, results, secondary, net,
                   failures>>

Start ==
    /\ pphase = "start"
    /\ Flush(pbuf, toSec, slots[cursor], Msg("start"))
    /\ NextSlot("start", "startObservers")
    /\ UNCHANGED <<slots, observers, started, pclosed, results, secondary,
                   sbuf, toPri, failures>>

(* A faulty StartObserver: it runs over the end of the list.               *)
StartObserverTooMany ==
    /\ pphase = "startObservers"
    /\ IF started <= observers
       THEN started' = started + 1 /\ UNCHANGED pphase
       ELSE pphase' = "collect" /\ UNCHANGED started
    /\ UNCHANGED <<cursor, slots, observers, pclosed, results, secondary, net,
                   failures>>

StartObserver ==
    /\ pphase = "startObservers"
    /\ IF started < observers
       THEN started' = started + 1 /\ UNCHANGED pphase
       ELSE pphase' = "collect" /\ UNCHANGED started
    /\ UNCHANGED <<cursor, slots, observers, pclosed, results, secondary, net,
                   failures>>

-----------------------------------------------------------------------------
(* The primary: collect(), whose error makes Run return no result at all.  *)

PullResult ==
    /\ pphase = "collect"
    /\ LET s == slots[cursor]
       IN  /\ Receive(toPri, s, "result")
           /\ results' = [results EXCEPT ![s] =
                    Append(@, [id |-> Head(toPri[s]).id, client |-> Head(toPri[s]).index])]
    /\ UNCHANGED <<pphase, cursor, slots, observers, started, pclosed,
                   secondary, pbuf, toSec, sbuf, failures>>

Collected ==
    /\ pphase = "collect"
    /\ Receive(toPri, slots[cursor], "resultDone")
    /\ pclosed' = pclosed \cup {slots[cursor]}
    /\ NextSlot("collect", "ok")
    /\ UNCHANGED <<slots, observers, started, results, secondary, pbuf, toSec,
                   sbuf, failures>>

CollectFails ==
    /\ pphase = "collect"
    /\ sphase[slots[cursor]] = "failed"
    /\ pphase' = "failed"
    /\ UNCHANGED <<cursor, slots, observers, started, pclosed, results,
                   secondary, net, failures>>

(* Any other error of Run (setup, builder, benchmark file) or a crash. *)
PrimaryFails ==
    /\ ~PrimaryGone
    /\ Fail
    /\ pphase' = "failed"
    /\ UNCHANGED <<cursor, slots, observers, started, pclosed, results,
                   secondary, net>>

-----------------------------------------------------------------------------
(* The secondaries.                                                        *)

Goto(s, phase) == sphase' = [sphase EXCEPT ![s] = phase]

Dial(s) ==
    /\ sphase[s] = "dial"
    /\ Listening
    /\ Goto(s, "init")
    /\ UNCHANGED <<primary, clients, decoding, interactions, next, net, failures>>

InitRuntime(s) ==
    /\ sphase[s] = "init"
    /\ Receive(toSec, s, "params")
    /\ Flush(sbuf, toPri, s, Msg("params"))
    /\ Goto(s, "prepare")
    /\ UNCHANGED <<primary, clients, decoding, interactions, next, pbuf, failures>>

PrepareClient(s) ==
    /\ sphase[s] = "prepare"
    /\ Receive(toSec, s, "client")
    /\ clients' = [clients EXCEPT ![s] = @ \cup {Head(toSec[s]).index}]
    /\ UNCHANGED <<primary, sphase, decoding, interactions, next, pbuf, sbuf,
                   toPri, failures>>

(* decodeMsgPrepareInteraction keeps 8 bits of the client index. *)
DecodedIndex(msg) == msg.index % 256

PrepareInteraction(s) ==
    /\ sphase[s] = "prepare"
    /\ Receive(toSec, s, "iact")
    /\ IF DecodedIndex(Head(toSec[s])) \in clients[s]
       THEN /\ decoding' = [decoding EXCEPT ![s] = @ \cup
                    {[id |-> Head(toSec[s]).id, client |-> DecodedIndex(Head(toSec[s]))]}]
            /\ UNCHANGED sphase
       ELSE Goto(s, "failed") /\ UNCHANGED decoding
    /\ UNCHANGED <<primary, clients, interactions, next, pbuf, sbuf, toPri,
                   failures>>

PrepareDone(s) ==
    /\ sphase[s] = "prepare"
    /\ Receive(toSec, s, "done")
    /\ Goto(s, "decode")
    /\ UNCHANGED <<primary, clients, decoding, interactions, next, pbuf, sbuf,
                   toPri, failures>>

(* prepare() receives the results of the goroutines, in any order. *)
Decoded(s) ==
    /\ sphase[s] = "decode"
    /\ \E iact \in decoding[s] :
        /\ decoding' = [decoding EXCEPT ![s] = @ \ {iact}]
        /\ interactions' = [interactions EXCEPT ![s] = Append(@, iact)]
    /\ UNCHANGED <<primary, sphase, clients, next, net, failures>>

(* sort.SliceStable by schedTime: an interaction is put after those that   *)
(* are due earlier, or at the same time and stood before it.               *)
Before(iacts, i, j) ==
    LET due(k) == Plan[iacts[k].id].time
    IN  due(i) < due(j) \/ (due(i) = due(j) /\ i < j)

Rank(iacts, j) == Cardinality({i \in DOMAIN iacts : Before(iacts, i, j)}) + 1

Sorted(iacts) ==
    [r \in DOMAIN iacts |-> iacts[CHOOSE j \in DOMAIN iacts : Rank(iacts, j) = r]]

(* A faulty SyncReady: the interactions are not sorted.                    *)
SyncReadyUnsorted(s) ==
    /\ sphase[s] = "decode"
    /\ decoding[s] = {}
    /\ Flush(sbuf, toPri, s, Msg("done"))
    /\ Goto(s, "waitStart")
    /\ UNCHANGED <<primary, clients, decoding, interactions, next, pbuf, toSec,
                   failures>>

SyncReady(s) ==
    /\ sphase[s] = "decode"
    /\ decoding[s] = {}
    /\ interactions' = [interactions EXCEPT ![s] = Sorted(@)]
    /\ Flush(sbuf, toPri, s, Msg("done"))
    /\ Goto(s, "waitStart")
    /\ UNCHANGED <<primary, clients, decoding, next, pbuf, toSec, failures>>

WaitStart(s) ==
    /\ sphase[s] = "waitStart"
    /\ Receive(toSec, s, "start")
    /\ Goto(s, "run")
    /\ UNCHANGED <<primary, clients, decoding, interactions, next, pbuf, sbuf,
                   toPri, failures>>

Trigger(s) ==
    /\ sphase[s] = "run"
    /\ next[s] <= Len(interactions[s])
    /\ next' = [next EXCEPT ![s] = @ + 1]
    /\ UNCHANGED <<primary, sphase, clients, decoding, interactions, net, failures>>

SleepOver(s) ==
    /\ sphase[s] = "run"
    /\ next[s] > Len(interactions[s])
    /\ next' = [next EXCEPT ![s] = 1]
    /\ Goto(s, "stop")
    /\ UNCHANGED <<primary, clients, decoding, interactions, net, failures>>

PushResult(s) ==
    /\ sphase[s] = "stop"
    /\ next[s] <= Len(interactions[s])
    /\ Buffer(sbuf, toPri, s, [kind |-> "result", id |-> interactions[s][next[s]].id,
                               index |-> interactions[s][next[s]].client])
    /\ next' = [next EXCEPT ![s] = @ + 1]
    /\ UNCHANGED <<primary, sphase, clients, decoding, interactions, pbuf,
                   toSec, failures>>

(* A faulty PushDone: it does not flush.                                   *)
PushDoneUnflushed(s) ==
    /\ sphase[s] = "stop"
    /\ next[s] > Len(interactions[s])
    /\ Buffer(sbuf, toPri, s, Msg("resultDone"))
    /\ Goto(s, "over")
    /\ UNCHANGED <<primary, clients, decoding, interactions, next, pbuf, toSec,
                   failures>>

PushDone(s) ==
    /\ sphase[s] = "stop"
    /\ next[s] > Len(interactions[s])
    /\ Flush(sbuf, toPri, s, Msg("resultDone"))
    /\ Goto(s, "over")
    /\ UNCHANGED <<primary, clients, decoding, interactions, next, pbuf, toSec,
                   failures>>

(* A faulty ConnectionLost: the wait for the start signal ignores it.      *)
ConnectionLostUnnoticed(s) ==
    /\ sphase[s] \in {"init", "prepare", "stop"}
    /\ Cut(s)
    /\ Goto(s, "failed")
    /\ UNCHANGED <<primary, clients, decoding, interactions, next, net, failures>>

(* The primary is gone: a read fails, a write may fail. *)
ConnectionLost(s) ==
    /\ sphase[s] \in {"init", "prepare", "waitStart", "stop"}
    /\ Cut(s)
    /\ Goto(s, "failed")
    /\ UNCHANGED <<primary, clients, decoding, interactions, next, net, failures>>

(* Any other error of Run (dial, client, decoding) or a crash. *)
SecondaryFails(s) ==
    /\ ~Over(s)
    /\ Fail
    /\ Goto(s, "failed")
    /\ UNCHANGED <<primary, clients, decoding, interactions, next, net>>

-----------------------------------------------------------------------------
PrimaryStep ==
    \/ Listen \/ (\E s \in Secondaries : Accept(s)) \/ Handshake \/ HandshakeFails
    \/ AcceptObserver \/ ObserversAccepted
    \/ SendPrepare \/ SendPrepareFails \/ Prepared
    \/ Ready \/ ReadyAnswered \/ ReadyFails \/ Start \/ StartObserver
    \/ PullResult \/ Collected \/ CollectFails

SecondaryStep(s) ==
    \/ Dial(s) \/ InitRuntime(s)
    \/ PrepareClient(s) \/ PrepareInteraction(s) \/ PrepareDone(s)
    \/ Decoded(s) \/ SyncReady(s) \/ WaitStart(s)
    \/ Trigger(s) \/ SleepOver(s) \/ PushResult(s) \/ PushDone(s)
    \/ ConnectionLost(s)

Next ==
    \/ PrimaryStep
    \/ \E s \in Secondaries : SecondaryStep(s) \/ SecondaryFails(s)
    \/ PrimaryFails

Spec == Init /\ [][Next]_vars

(* Every process takes its next step when it has one; observers connect.   *)
FairSpec ==
    /\ Spec
    /\ WF_vars(PrimaryStep)
    /\ \A s \in Secondaries : WF_vars(SecondaryStep(s))
-----------------------------------------------------------------------------
Entries == [id : DOMAIN Plan, client : 0..255]

(* What the benchmark generates for a slot. *)
Generated(slot) ==
    {[id |-> id, client |-> Plan[id].index] :
        id \in {i \in DOMAIN Plan : Plan[i].slot = slot /\ Plan[i].kind = "iact"}}

(* What travels on a connection, each way. *)
ToSecondary ==
    {Msg("params"), Msg("done"), Msg("start")} \cup
    [kind : {"client", "iact"}, index : Nat, time : Nat, id : DOMAIN Plan]

ToPrimary ==
    {Msg("params"), Msg("done"), Msg("resultDone")} \cup
    [kind : {"result"}, id : DOMAIN Plan, index : 0..255]

(* The types of the connections, and of the clients made from messages. *)
Connections ==
    /\ pbuf \in [Secondaries -> Seq(ToSecondary)]
    /\ toSec \in [Secondaries -> Seq(ToSecondary)]
    /\ sbuf \in [Secondaries -> Seq(ToPrimary)]
    /\ toPri \in [Secondaries -> Seq(ToPrimary)]
    /\ clients \in [Secondaries -> SUBSET Nat]

(* The type invariant: no message is read that the reader does not know,   *)
(* and what is stored of it has the type the code gives it.                *)
TypeOK ==
    /\ Connections
    /\ pphase \in {"builder", "accept", "handshake", "observers", "prepare",
                   "sync", "waitReady", "start", "startObservers", "collect",
                   "ok", "failed"}
    /\ cursor \in 1..(Len(Plan) + NumSecondary)
    /\ Range(slots) \subseteq Secondaries
    /\ observers \in 0..NumObserver /\ started \in 0..observers
    /\ pclosed \subseteq Secondaries
    /\ \A s \in Secondaries :
        /\ sphase[s] \in {"dial", "init", "prepare", "decode", "waitStart",
                          "run", "stop", "over", "failed"}
        /\ decoding[s] \subseteq Entries
        /\ Range(interactions[s]) \subseteq Entries
        /\ Range(results[s]) \subseteq Entries
        /\ next[s] \in 1..(Len(Plan) + 1)
    /\ failures \in 0..MaxFailures

(* No load before everybody is ready: when a secondary has been started,   *)
(* every other one has synchronized or is dead, although the primary skips *)
(* over a ready() that fails and starts the rest.                          *)
StartBarrier ==
    \A s, r \in Secondaries :
        sphase[s] \in {"run", "stop", "over"} =>
            sphase[r] \in {"waitStart", "run", "stop", "over", "failed"}

(* When Run of the primary returns a result, it holds one entry for every  *)
(* interaction generated for each secondary, under the client it was       *)
(* generated for and in the order of the schedule, whatever the order of   *)
(* the decoding goroutines, the flushes and the failures on the way: a     *)
(* result with entries missing is never returned.                          *)
ResultsComplete ==
    pphase = "ok" =>
        \A i \in 1..NumSecondary :
            LET r == results[slots[i]]
            IN  /\ Len(r) = Cardinality(Generated(i)) /\ Range(r) = Generated(i)
                /\ \A j, k \in DOMAIN r :
                    j < k => Plan[r[j].id].time <= Plan[r[k].id].time

(* No secondary outlives the session waiting: once all the secondaries are *)
(* accepted, the primary and every secondary end, whoever fails meanwhile. *)
EverybodyEnds ==
    Len(slots) = NumSecondary ~> PrimaryGone /\ \A s \in Secondaries : Over(s)

(* Without a failure the primary returns its result. *)
ResultReturned == <>(pphase = "ok" \/ failures > 0)
=============================================================================
