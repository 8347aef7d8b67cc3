-------------------------- MODULE SessionInvariant ---------------------------
(***************************************************************************)
(* The inductive invariant of Session.  Its parts: the barrier (who has    *)
(* synchronized when the primary writes "start"); the work (what the       *)
(* primary has shipped of the plan is on its way to the secondary that     *)
(* owns it, or stored there); the answers (what a secondary has written    *)
(* that the primary has not read, statement by statement of the two Run's);*)
(* the collection (the secondaries collected so far gave everything).      *)
(***************************************************************************)
EXTENDS Session

-----------------------------------------------------------------------------
(* A connection is a queue: the messages on the wire, then those in the    *)
(* buffer of the writer.                                                   *)

Says(q, k) == \E i \in 1..Len(q) : q[i].kind = k

(* A pair of a buffer and a wire for every secondary. *)
Wires(b, w) == \E S : b \in [Secondaries -> Seq(S)] /\ w \in [Secondaries -> Seq(S)]

Pipe(b, w, s) == w[s] \o b[s]

Down(s) == Pipe(pbuf, toSec, s)
Up(s) == Pipe(sbuf, toPri, s)

(* What Flush, Buffer and Receive make of the buffer b and the wire w. *)
Flushed(b, w, s, m) == [w EXCEPT ![s] = @ \o Append(b[s], m)]
Emptied(b, s) == [b EXCEPT ![s] = <<>>]

Sent(b, w, s, m, n) == [w EXCEPT ![s] = @ \o SubSeq(Append(b[s], m), 1, n)]
Kept(b, s, m, n) == [b EXCEPT ![s] = SubSeq(Append(b[s], m), n + 1, Len(Append(b[s], m)))]

Received(w, s) == [w EXCEPT ![s] = Tail(@)]

-----------------------------------------------------------------------------
(* The barrier. *)

Phases == {"dial", "init", "prepare", "decode", "waitStart", "run", "stop", "over", "failed"}
Late == {"observers", "prepare", "sync", "waitReady", "start", "startObservers", "collect", "ok"}

Synced(s) == sphase[s] \in {"waitStart", "run", "stop", "over", "failed"}
AllSynced == \A s \in Secondaries : Synced(s)

Types ==
    /\ sphase \in [Secondaries -> Phases]
    /\ slots \in Seq(Secondaries)
    /\ \A i, j \in 1..Len(slots) : slots[i] = slots[j] => i = j
    /\ cursor \in Nat \ {0}
    /\ Wires(pbuf, toSec) /\ Wires(sbuf, toPri)

Slots ==
    /\ pphase = "handshake" => Len(slots) >= 1
    /\ pphase \in Late => Len(slots) = NumSecondary /\ NumSecondary >= 1
    /\ pphase \in {"sync", "waitReady", "start", "collect"} => cursor <= NumSecondary
    /\ pphase = "startObservers" => cursor = 1

Barrier ==
    /\ \A s \in Secondaries : Says(Up(s), "done") => Synced(s)
    /\ pphase \in {"sync", "waitReady"} => \A i \in 1..(cursor - 1) : Synced(slots[i])
    /\ pphase \in {"start", "startObservers", "collect", "ok"} => AllSynced
    /\ \A s \in Secondaries : Says(Down(s), "start") => AllSynced
    /\ \A s \in Secondaries : sphase[s] \in {"run", "stop", "over"} => AllSynced

Inv == Types /\ Slots /\ Barrier

-----------------------------------------------------------------------------
(* The work.  What the primary has shipped are the entries of the plan     *)
(* before Limit.                                                           *)

DataTypes ==
    /\ decoding \in [Secondaries -> SUBSET Entries]
    /\ interactions \in [Secondaries -> Seq(Entries)]
    /\ results \in [Secondaries -> Seq(Entries)]
    /\ next \in [Secondaries -> Nat \ {0}]

Early == {"builder", "accept", "handshake", "observers"}
Shipping == pphase \in Early \cup {"prepare"}
Limit == IF Shipping THEN cursor ELSE Len(Plan) + 1

Counting ==
    /\ cursor <= Len(Plan) + NumSecondary
    /\ pphase \in Early => cursor = 1
    /\ pphase = "prepare" => cursor <= Len(Plan) + 1

Owner(id, s) == Plan[id].slot <= Len(slots) /\ slots[Plan[id].slot] = s
Share(s) == {id \in 1..Len(Plan) : Plan[id].kind = "iact" /\ Owner(id, s)}

Stored(id) == [id |-> id, client |-> Plan[id].index % 256]
Elements(l) == {l[i] : i \in 1..Len(l)}
Known(s) == decoding[s] \cup Elements(interactions[s])

(* A queue of interactions in the order of the plan, all before limit, and *)
(* none behind the end mark.                                               *)
Lot(q, ids, limit) ==
    /\ \A i \in 1..Len(q) : q[i].kind = "iact" =>
          q[i].id \in ids /\ q[i].id < limit /\ q[i].index = Plan[q[i].id].index
    /\ \A i, j \in 1..Len(q) : (i < j /\ q[j].kind = "iact") =>
          /\ q[i].kind # "done"
          /\ q[i].kind = "iact" => q[i].id < q[j].id

Holds(q, id) == \E i \in 1..Len(q) : q[i].kind = "iact" /\ q[i].id = id

(* Everything of the stock X was before what the queue holds. *)
Ahead(X, q) == \A e \in X : \A i \in 1..Len(q) : q[i].kind = "iact" => e.id < q[i].id

Due(l, i) == Plan[l[i].id].time
InTime(l) == \A i, j \in 1..Len(l) : i < j => Due(l, i) <= Due(l, j)
Distinct(l) == \A i, j \in 1..Len(l) : l[i] = l[j] => i = j

(* The secondaries that have read the end mark and not failed. *)
Past == {"decode", "waitStart", "run", "stop", "over"}

Load(s) ==
    /\ Lot(Down(s), Share(s), Limit)
    /\ Shipping => ~Says(Down(s), "done")
    /\ sphase[s] \in Past => ~Shipping /\ ~Says(Down(s), "iact")

Stock(s) ==
    /\ \A e \in Known(s) : e.id \in Share(s) /\ e.id < Limit /\ e = Stored(e.id)
    /\ Ahead(Known(s), Down(s))

Schedule(s) ==
    /\ Distinct(interactions[s])
    /\ \A e \in decoding[s] : e \notin Elements(interactions[s])
    /\ sphase[s] \in Past \ {"decode"} => decoding[s] = {} /\ InTime(interactions[s])
    /\ next[s] <= Len(interactions[s]) + 1

Lossless(s) ==
    (pphase # "failed" /\ sphase[s] # "failed") =>
        \A id \in Share(s) : id < Limit => Stored(id) \in Known(s) \/ Holds(Down(s), id)

Work(s) == Load(s) /\ Stock(s) /\ Schedule(s) /\ Lossless(s)

-----------------------------------------------------------------------------
(* The answers. *)

Accepted(s) == \E i \in 1..Len(slots) : slots[i] = s
Greeting(s) == pphase = "handshake" /\ slots[Len(slots)] = s
Awaited(s) == pphase = "waitReady" /\ slots[cursor] = s
Alive == pphase # "failed"

Quiet(s) == results[s] = <<>> /\ \A i \in 1..Len(Up(s)) : Up(s)[i].kind \in {"params", "done"}

(* The i-th message of stop(). *)
Report(s, i) ==
    [kind |-> "result", id |-> interactions[s][i].id, index |-> interactions[s][i].client]
Answer(s, i) == IF i <= Len(interactions[s]) THEN Report(s, i) ELSE Msg("resultDone")

Reporting(s) ==
    /\ Len(results[s]) <= Len(interactions[s])
    /\ \A i \in 1..Len(results[s]) : results[s][i] = interactions[s][i]
    /\ \A i \in 1..Len(Up(s)) : Up(s)[i] = Answer(s, Len(results[s]) + i)

Opening(s) ==
    /\ ~Accepted(s) => Len(Down(s)) = 0
    /\ (Alive /\ sphase[s] \in {"dial", "init"} /\ Accepted(s)) => Greeting(s)
    /\ (Alive /\ sphase[s] = "prepare") =>
          Len(Up(s)) = 0 \/ (Len(Up(s)) = 1 /\ Up(s)[1] = Msg("params") /\ Greeting(s))
    /\ (Alive /\ sphase[s] = "prepare" /\ Says(Down(s), "done")) => Awaited(s)
    /\ (Alive /\ sphase[s] = "decode") => Awaited(s) /\ Len(Up(s)) = 0
    /\ (Alive /\ sphase[s] = "waitStart" /\ Len(Up(s)) # 0) => Awaited(s) /\ Len(Up(s)) = 1
    /\ (sphase[s] = "waitStart" /\ Says(Down(s), "start")) => Len(Up(s)) = 0
    /\ sphase[s] \in {"dial", "init", "run"} => Len(Up(s)) = 0

Closing(s) ==
    /\ sphase[s] \in {"dial", "init", "prepare", "decode", "waitStart", "run"} => Quiet(s)
    /\ sphase[s] = "stop" => Reporting(s) /\ Len(results[s]) + Len(Up(s)) = next[s] - 1
    /\ sphase[s] = "over" => Reporting(s)
    /\ sphase[s] = "failed" => Quiet(s) \/ (Reporting(s) /\ ~Says(Up(s), "resultDone"))

Answers(s) == Opening(s) /\ Closing(s)

-----------------------------------------------------------------------------
(* The collection, and the counters. *)

Full(s) == sphase[s] = "over" /\ results[s] = interactions[s]

Collection ==
    /\ pphase = "collect" => \A i \in 1..(cursor - 1) : Full(slots[i])
    /\ pphase = "ok" => \A i \in 1..NumSecondary : Full(slots[i])

Bookkeeping ==
    /\ pphase \in Early \cup Late \cup {"failed"}
    /\ observers \in 0..NumObserver /\ started \in 0..observers
    /\ pclosed \in SUBSET Secondaries
    /\ failures \in 0..MaxFailures

SessionInv ==
    /\ Inv /\ DataTypes /\ Counting /\ Collection /\ Bookkeeping
    /\ \A s \in Secondaries : Work(s) /\ Answers(s)
=============================================================================
