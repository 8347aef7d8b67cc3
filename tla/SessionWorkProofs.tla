-------------------------- MODULE SessionWorkProofs --------------------------
(***************************************************************************)
(* The start barrier and the work of Session: every step of the primary    *)
(* and of a secondary keeps Inv and Work, for any secondaries, plan and    *)
(* failures; and what the invariant says of the results.                   *)
(***************************************************************************)
EXTENDS SessionLinkProofs, FiniteSetTheorems

USE ZenonT(40)

LEMMA Numbers ==
    NumSecondary \in Nat \ {0} /\ Len(Plan) \in Nat
<1>1. NumSecondary \in Nat /\ NumSecondary # 0
  BY SecondariesAssumption, FS_CardinalityType, FS_EmptySet DEF NumSecondary
<1>. QED BY <1>1, PlanLen

LEMMA AllSlots ==
    ASSUME Types, Len(slots) = NumSecondary
    PROVE  \A s \in Secondaries : \E i \in 1..NumSecondary : slots[i] = s
<1>1. slots \in Injection(1..NumSecondary, Secondaries)
  <2>1. slots \in [1..NumSecondary -> Secondaries]
    BY SMTT(30) DEF Types
  <2>2. IsInjective(slots)
    BY <2>1 DEF Types, IsInjective
  <2>. QED BY <2>1, <2>2 DEF Injection
<1>2. IsFiniteSet(1..NumSecondary) /\ Cardinality(1..NumSecondary) = NumSecondary
  BY SMTT(30), Numbers, FS_Interval
<1>3. slots \in Surjection(1..NumSecondary, Secondaries)
  BY <1>1, <1>2, SecondariesAssumption, FS_Injection DEF NumSecondary
<1>. QED BY <1>3 DEF Surjection

LEMMA SlotHeld ==
    ASSUME Inv, pphase \in {"sync", "waitReady", "start", "collect"}
    PROVE  /\ cursor \in 1..NumSecondary /\ slots[cursor] \in Secondaries
           /\ NumSecondary \in Nat /\ Len(slots) = NumSecondary
BY SMTT(30), Numbers DEF Inv, Types, Slots, Late

-----------------------------------------------------------------------------
(* What the invariant says of the storage and of the results. *)

LEMMA UpTo ==
    ASSUME NEW n \in Nat
    PROVE  IsFiniteSet(1..n) /\ Cardinality(1..n) = n
  BY SMTT(30), FS_Interval

(* A secondary stores each interaction of its share once. *)
LEMMA Storage ==
    ASSUME SessionInv, NEW s \in Secondaries
    PROVE  /\ interactions[s] \in Seq(Entries) /\ Len(interactions[s]) \in Nat
           /\ Distinct(interactions[s])
           /\ \A i \in 1..Len(interactions[s]) :
                /\ interactions[s][i] = Stored(interactions[s][i].id)
                /\ interactions[s][i].id \in Share(s)
<1>1. DataTypes /\ Work(s)
  BY DEF SessionInv
<1>2. interactions[s] \in Seq(Entries) /\ Len(interactions[s]) \in Nat
  BY SMTT(30), <1>1 DEF DataTypes
<1>3. \A i \in 1..Len(interactions[s]) : interactions[s][i] \in Known(s)
  BY DEF Known, Elements
<1>. QED BY <1>1, <1>2, <1>3 DEF Work, Schedule, Stock

LEMMA StorageBound ==
    ASSUME SessionInv, NEW s \in Secondaries
    PROVE  Len(interactions[s]) <= Len(Plan)
<1>. DEFINE l == interactions[s]
            n == Len(l)
            f == [i \in 1..n |-> l[i].id]
<1>1. n \in Nat /\ Len(Plan) \in Nat /\ Distinct(l)
  BY Storage, Numbers
<1>2. \A i \in 1..n : l[i] = Stored(l[i].id) /\ l[i].id \in 1..Len(Plan)
  BY Storage DEF Share
<1>. HIDE DEF l
<1>3. f \in Injection(1..n, 1..Len(Plan))
  <2>1. f \in [1..n -> 1..Len(Plan)]
    BY <1>2
  <2>2. \A i, j \in 1..n : f[i] = f[j] => i = j
    BY <1>1, <1>2 DEF Distinct
  <2>. QED BY <2>1, <2>2 DEF Injection, IsInjective
<1>. HIDE DEF f
<1>4. /\ IsFiniteSet(1..Len(Plan)) /\ Cardinality(1..Len(Plan)) = Len(Plan)
      /\ Cardinality(1..n) = n
  BY <1>1, UpTo
<1>5. Cardinality(1..n) <= Cardinality(1..Len(Plan))
  BY <1>3, <1>4, FS_Injection
<1>. QED BY <1>4, <1>5 DEF l

(* The invariant bounds the counters and the storage. *)
LEMMA InvariantTypes ==
    ASSUME SessionInv, Connections
    PROVE  TypeOK
<1>1. Inv /\ Types /\ DataTypes /\ Counting /\ Bookkeeping
  BY DEF SessionInv, Inv
<1>2. /\ pphase \in {"builder", "accept", "handshake", "observers", "prepare", "sync",
                     "waitReady", "start", "startObservers", "collect", "ok", "failed"}
      /\ observers \in 0..NumObserver /\ started \in 0..observers
      /\ pclosed \subseteq Secondaries /\ failures \in 0..MaxFailures
  BY <1>1 DEF Bookkeeping, Early, Late
<1>3. cursor \in 1..(Len(Plan) + NumSecondary)
  BY SMTT(30), <1>1, Numbers DEF Types, Counting
<1>4. Range(slots) \subseteq Secondaries
  BY SMTT(30), <1>1 DEF Types, Range
<1>5. ASSUME NEW s \in Secondaries
      PROVE  /\ sphase[s] \in Phases /\ decoding[s] \subseteq Entries
             /\ Range(interactions[s]) \subseteq Entries /\ Range(results[s]) \subseteq Entries
             /\ next[s] \in 1..(Len(Plan) + 1)
  <2>1. sphase[s] \in Phases /\ decoding[s] \subseteq Entries
    BY <1>1 DEF Types, DataTypes
  <2>2. interactions[s] \in Seq(Entries) /\ results[s] \in Seq(Entries) /\ next[s] \in Nat \ {0}
    BY <1>1 DEF DataTypes
  <2>3. Range(interactions[s]) \subseteq Entries /\ Range(results[s]) \subseteq Entries
    BY SMTT(30), <2>2 DEF Range
  <2>4. next[s] <= Len(interactions[s]) + 1 /\ Len(interactions[s]) <= Len(Plan)
        /\ Len(interactions[s]) \in Nat
    BY SMTT(30), <2>2, StorageBound DEF SessionInv, Work, Schedule
  <2>. QED BY SMTT(30), <2>1, <2>2, <2>3, <2>4, Numbers
<1>. QED BY <1>2, <1>3, <1>4, <1>5 DEF TypeOK, Phases

(* The share of the secondary in slot i is what was generated for i. *)
LEMMA ShareOfSlot ==
    ASSUME SessionInv, pphase = "ok", NEW i \in 1..NumSecondary
    PROVE  /\ slots[i] \in Secondaries
           /\ \A id : id \in Share(slots[i]) <=>
                id \in DOMAIN Plan /\ Plan[id].slot = i /\ Plan[id].kind = "iact"
<1>1. Types /\ Len(slots) = NumSecondary /\ NumSecondary \in Nat
  BY Numbers DEF SessionInv, Inv, Slots, Late
<1>2. slots[i] \in Secondaries
  BY SMTT(30), <1>1 DEF Types
<1>3. ASSUME NEW id \in 1..Len(Plan)
      PROVE  Owner(id, slots[i]) <=> Plan[id].slot = i
  <2>1. Plan[id].slot \in 1..Len(slots) /\ i \in 1..Len(slots)
    BY <1>1, PlanEntry
  <2>. QED BY SMTT(30), <1>1, <2>1 DEF Owner, Types
<1>. QED BY <1>2, <1>3, PlanLen DEF Share

LEMMA EverythingStored ==
    ASSUME SessionInv, pphase = "ok", NEW s \in Secondaries, Full(s), NEW id \in Share(s)
    PROVE  \E j \in 1..Len(interactions[s]) : interactions[s][j] = Stored(id)
<1>1. Work(s) /\ sphase[s] = "over" /\ sphase[s] \in Past
  BY DEF SessionInv, Full, Past
<1>2. id < Limit
  BY SMTT(30), StoredEntry, Numbers DEF Limit, Shipping, Early
<1>3. ~Says(Down(s), "iact") /\ decoding[s] = {}
  BY <1>1 DEF Work, Load, Schedule
<1>4. Stored(id) \in Known(s) \/ Holds(Down(s), id)
  BY <1>1, <1>2 DEF Work, Lossless
<1>5. ~Holds(Down(s), id)
  BY <1>3 DEF Holds, Says
<1>. QED BY <1>3, <1>4, <1>5 DEF Known, Elements

(* The results the invariant describes are complete. *)
LEMMA SlotComplete ==
    ASSUME \A i \in DOMAIN Plan : Plan[i].kind = "iact" => Plan[i].index < 256,
           SessionInv, pphase = "ok", NEW i \in 1..NumSecondary, NEW r, r = results[slots[i]]
    PROVE  /\ Len(r) = Cardinality(Generated(i)) /\ Range(r) = Generated(i)
           /\ \A j, k \in DOMAIN r : j < k => Plan[r[j].id].time <= Plan[r[k].id].time
<1>1. PICK s \in Secondaries : s = slots[i]
  BY ShareOfSlot
<1>2. Full(s) /\ r = interactions[s]
  BY <1>1 DEF SessionInv, Collection, Full
<1>3. /\ r \in Seq(Entries) /\ Len(r) \in Nat /\ Distinct(r)
      /\ \A j \in 1..Len(r) : r[j] = Stored(r[j].id) /\ r[j].id \in Share(s)
  BY <1>2, Storage
<1>4. DOMAIN r = 1..Len(r)
  BY SMTT(30), <1>3
<1>5. \A id : id \in Share(s) <=> id \in DOMAIN Plan /\ Plan[id].slot = i /\ Plan[id].kind = "iact"
  BY <1>1, ShareOfSlot
<1>6. ASSUME NEW id \in Share(s) PROVE Stored(id) = [id |-> id, client |-> Plan[id].index]
  <2>1. Plan[id].index \in Nat /\ Plan[id].index < 256
    BY <1>5, PlanEntry, PlanLen
  <2>2. Plan[id].index % 256 = Plan[id].index
    BY ONLY <2>1
  <2>. QED BY <2>2 DEF Stored
<1>7. Generated(i) = {Stored(id) : id \in Share(s)}
  BY <1>5, <1>6 DEF Generated
<1>8. \A e \in Generated(i) : \E j \in 1..Len(r) : r[j] = e
  BY <1>2, <1>7, EverythingStored
<1>9. \A j \in 1..Len(r) : r[j] \in Generated(i)
  BY <1>3, <1>7
<1>10. Range(r) = Generated(i)
  BY <1>4, <1>8, <1>9 DEF Range
<1>11. Len(r) = Cardinality(Generated(i))
  <2>1. r \in [1..Len(r) -> Generated(i)]
    BY SMTT(30), <1>3, <1>4, <1>9
  <2>2. r \in Bijection(1..Len(r), Generated(i))
    BY <1>3, <1>4, <1>8, <2>1 DEF Bijection, Injection, Surjection, IsInjective, Distinct
  <2>3. ExistsBijection(1..Len(r), Generated(i))
    BY <2>2 DEF ExistsBijection
  <2>. QED BY <1>3, <2>3, UpTo, FS_Bijection
<1>12. InTime(r)
  <2>1. Work(s) /\ sphase[s] \in Past \ {"decode"}
    BY <1>2 DEF SessionInv, Full, Past
  <2>. QED BY <1>2, <2>1 DEF Work, Schedule
<1>. QED BY <1>4, <1>10, <1>11, <1>12 DEF InTime, Due

LEMMA InvariantComplete ==
    ASSUME \A i \in DOMAIN Plan : Plan[i].kind = "iact" => Plan[i].index < 256, SessionInv
    PROVE  ResultsComplete
BY SlotComplete DEF ResultsComplete

-----------------------------------------------------------------------------
(* The steps of the primary.  Those that write to nobody: *)
Listens ==
    \/ Listen \/ Handshake \/ HandshakeFails \/ AcceptObserver \/ ObserversAccepted
    \/ SendPrepareFails \/ Prepared \/ ReadyAnswered \/ ReadyFails \/ StartObserver
    \/ PullResult \/ Collected \/ CollectFails \/ PrimaryFails

LEMMA ListensStep ==
    ASSUME Listens
    PROVE  /\ UNCHANGED <<slots, secondary, pbuf, toSec, sbuf>>
           /\ \/ pphase' = "failed" /\ cursor' = cursor /\ pphase # "ok"
              \/ /\ pphase \in Early /\ cursor' = cursor
                 /\ \/ pphase' = "accept"
                    \/ /\ pphase' \in {"observers", "prepare"}
                       /\ pphase = "observers" \/ Len(slots) = NumSecondary
              \/ pphase = "prepare" /\ cursor > Len(Plan) /\ pphase' = "sync" /\ cursor' = 1
              \/ /\ pphase \in {"sync", "waitReady"} /\ NextSlot("sync", "start")
                 /\ Over(slots[cursor]) \/ Receive(toPri, slots[cursor], "done")
              \/ pphase = "startObservers" /\ pphase' \in {"startObservers", "collect"} /\ cursor' = cursor
              \/ pphase = "collect" /\ pphase' = "collect" /\ cursor' = cursor
              \/ pphase = "collect" /\ NextSlot("collect", "ok")
<1>1. CASE Listen \/ AcceptObserver \/ ObserversAccepted
  BY <1>1 DEF Listen, AcceptObserver, ObserversAccepted, Early, net
<1>2. CASE HandshakeFails \/ SendPrepareFails \/ CollectFails
  BY <1>2 DEF HandshakeFails, SendPrepareFails, CollectFails, net
<1>3. CASE PrimaryFails
  BY <1>3 DEF PrimaryFails, PrimaryGone, net
<1>4. CASE Prepared \/ ReadyFails \/ StartObserver
  BY <1>4 DEF Prepared, ReadyFails, StartObserver, net
<1>5. CASE Handshake
  BY <1>5 DEF Handshake, Early
<1>6. CASE ReadyAnswered \/ PullResult \/ Collected
  BY <1>6 DEF ReadyAnswered, PullResult, Collected
<1>. QED BY <1>1, <1>2, <1>3, <1>4, <1>5, <1>6 DEF Listens

(* What such a step makes of the answers on their way. *)
LEMMA ListensUp ==
    ASSUME Types, Listens
    PROVE  Wires(sbuf', toPri') /\ \A u \in Secondaries : \A k : Says(Up(u)', k) => Says(Up(u), k)
<1>1. sbuf' = sbuf
  BY ListensStep
<1>2. CASE toPri' = toPri
  BY <1>1, <1>2 DEF Types, Up, Pipe
<1>3. ASSUME NEW s \in Secondaries, NEW k, Receive(toPri, s, k)
      PROVE  Wires(sbuf', toPri') /\ \A u \in Secondaries : \A x : Says(Up(u)', x) => Says(Up(u), x)
  BY <1>1, <1>3, UpPopped, SaysPopped DEF UpKept
<1>4. ASSUME NEW s, s \notin Secondaries, NEW k, Receive(toPri, s, k)
      PROVE  toPri' = toPri
  BY <1>4 DEF Receive, Types, Wires
<1>5. toPri' = toPri \/ \E s, k : Receive(toPri, s, k)
  BY DEF Listens, Listen, Handshake, HandshakeFails, AcceptObserver, ObserversAccepted,
       SendPrepareFails, Prepared, ReadyAnswered, ReadyFails, StartObserver, PullResult,
       Collected, CollectFails, PrimaryFails, net
<1>. QED BY <1>2, <1>3, <1>4, <1>5

(* A message m joins the connection to s, and no other moves. *)
Writes(s, m) ==
    /\ Pushed(Down(s), Down(s)', m) /\ DownKept(s)
    /\ UNCHANGED <<secondary, sbuf, toPri, results>>

LEMMA WritesStep ==
    ASSUME Types, NEW s \in Secondaries, NEW m, UNCHANGED <<secondary, sbuf, toPri, results>>,
           Flush(pbuf, toSec, s, m) \/ Buffer(pbuf, toSec, s, m)
    PROVE  Writes(s, m)
BY DownPushed DEF Writes

LEMMA AcceptStep ==
    ASSUME Inv, NEW s \in Secondaries, Accept(s)
    PROVE  /\ pphase = "accept" /\ pphase' = "handshake" /\ cursor' = cursor
           /\ Writes(s, Msg("params"))
           /\ slots \in Seq(Secondaries) /\ slots' = Append(slots, s)
           /\ \A i \in 1..Len(slots) : slots[i] # s
           /\ Len(slots) \in Nat /\ Len(slots') = Len(slots) + 1 /\ slots'[Len(slots) + 1] = s
           /\ \A i \in 1..Len(slots) : slots'[i] = slots[i]
<1>1. /\ pphase = "accept" /\ pphase' = "handshake" /\ Flush(pbuf, toSec, s, Msg("params"))
      /\ UNCHANGED <<cursor, secondary, sbuf, toPri, results>> /\ slots' = Append(slots, s)
      /\ s \notin Range(slots)
  BY DEF Accept
<1>2. Writes(s, Msg("params"))
  BY <1>1, WritesStep DEF Inv
<1>3. slots \in Seq(Secondaries)
  BY DEF Inv, Types
<1>4. \A i \in 1..Len(slots) : slots[i] # s
  BY SMTT(30), <1>1, <1>3 DEF Range
<1>. QED BY SMTT(30), <1>1, <1>2, <1>3, <1>4, AppendIndex

(* What the primary sends for the entry id of the plan. *)
Shipment(id) == [kind |-> Plan[id].kind, index |-> Plan[id].index, time |-> Plan[id].time, id |-> id]

LEMMA SendStep ==
    ASSUME Inv, SendPrepare
    PROVE  /\ \E s \in Secondaries :
                /\ Owner(cursor, s) /\ Writes(s, Shipment(cursor))
                /\ Plan[cursor].slot \in 1..Len(slots) /\ slots[Plan[cursor].slot] = s
           /\ pphase = "prepare" /\ pphase' = "prepare" /\ cursor' = cursor + 1
           /\ cursor \in 1..Len(Plan) /\ cursor \in Nat /\ slots' = slots
<1>. DEFINE recipient == slots[Plan[cursor].slot]
<1>1. /\ pphase = "prepare" /\ pphase' = pphase /\ cursor' = cursor + 1 /\ cursor <= Len(Plan)
      /\ UNCHANGED <<slots, secondary, sbuf, toPri, results>>
      /\ Buffer(pbuf, toSec, recipient, Shipment(cursor))
  BY DEF SendPrepare, Shipment
<1>2. cursor \in 1..Len(Plan) /\ cursor \in Nat
  BY SMTT(30), <1>1, Numbers DEF Inv, Types
<1>3. Plan[cursor].slot \in 1..NumSecondary
  BY <1>2, PlanEntry
<1>4. Len(slots) = NumSecondary /\ slots \in Seq(Secondaries)
  BY <1>1 DEF Inv, Types, Slots, Late
<1>5. recipient \in Secondaries /\ Owner(cursor, recipient)
  BY SMTT(30), <1>3, <1>4, Numbers DEF Owner
<1>6. PICK s \in Secondaries : s = recipient
  BY <1>5
<1>6a. PICK m : m = Shipment(cursor)
  OBVIOUS
<1>7. Owner(cursor, s) /\ Buffer(pbuf, toSec, s, m)
  BY <1>1, <1>5, <1>6, <1>6a
<1>8. Writes(s, m)
  BY <1>1, <1>7, WritesStep DEF Inv
<1>. QED BY <1>1, <1>2, <1>3, <1>4, <1>6, <1>6a, <1>7, <1>8

LEMMA SignalStep ==
    ASSUME Inv, Ready \/ Start
    PROVE  \E s \in Secondaries, k \in {"done", "start"} :
              /\ s = slots[cursor] /\ Writes(s, Msg(k)) /\ slots' = slots
              /\ k = "done" => pphase = "sync" /\ pphase' = "waitReady" /\ cursor' = cursor
              /\ k = "start" => pphase = "start" /\ NextSlot("start", "startObservers")
<1>1. PICK s \in Secondaries : s = slots[cursor]
  BY SlotHeld DEF Ready, Start
<1>2. CASE Ready
  <2>1. /\ pphase = "sync" /\ pphase' = "waitReady" /\ Flush(pbuf, toSec, s, Msg("done"))
        /\ UNCHANGED <<cursor, slots, secondary, sbuf, toPri, results>>
    BY <1>1, <1>2 DEF Ready
  <2>. QED BY <1>1, <2>1, WritesStep DEF Inv
<1>3. CASE Start
  <2>1. /\ pphase = "start" /\ NextSlot("start", "startObservers")
        /\ Flush(pbuf, toSec, s, Msg("start"))
        /\ UNCHANGED <<slots, secondary, sbuf, toPri, results>>
    BY <1>1, <1>3 DEF Start
  <2>. QED BY <1>1, <2>1, WritesStep DEF Inv
<1>. QED BY <1>2, <1>3

-----------------------------------------------------------------------------
(* The barrier.  A secondary that has synchronized stays so; a "done" on   *)
(* its way to the primary tells of it, and the primary sends "start" only  *)
(* after it has heard it of, or lost, every secondary.                     *)

Running == {"run", "stop", "over"}

(* What a step of the secondary s must respect. *)
LEMMA SecondaryKeeps ==
    ASSUME Inv, NEW s \in Secondaries, Alone(s), Synced(s) => Synced(s)',
           Says(Down(s)', "start") => Says(Down(s), "start"),
           Says(Up(s)', "done") => Says(Up(s), "done") \/ Synced(s)',
           sphase'[s] \in Running => AllSynced
    PROVE  Inv'
<1>1. Types' /\ Slots' /\ UNCHANGED primary
  BY DEF Alone, Inv, Slots, primary, NumSecondary
<1>2. \A u \in Secondaries :
         /\ Synced(u) => Synced(u)'
         /\ Says(Down(u)', "start") => Says(Down(u), "start")
         /\ Says(Up(u)', "done") => Says(Up(u), "done") \/ Synced(u)'
         /\ sphase'[u] \in Running => AllSynced
  BY DEF Alone, SameWork, Synced, Running, Inv, Barrier
<1>3. AllSynced => AllSynced'
  BY <1>2 DEF AllSynced
<1>4. ASSUME pphase \in {"sync", "waitReady"}, NEW i \in 1..(cursor - 1) PROVE Synced(slots[i])'
  <2>1. cursor \in 1..NumSecondary /\ NumSecondary \in Nat /\ Len(slots) = NumSecondary
    BY <1>4, SlotHeld
  <2>2. slots[i] \in Secondaries /\ slots' = slots
    BY SMTT(30), <1>1, <2>1 DEF Inv, Types, primary
  <2>3. Synced(slots[i])
    BY <1>4 DEF Inv, Barrier
  <2>. QED BY <1>2, <2>2, <2>3 DEF Synced
<1>5. Barrier'
  BY <1>1, <1>2, <1>3, <1>4 DEF Inv, Barrier, primary, Running, Synced
<1>. QED BY <1>1, <1>5 DEF Inv

LEMMA SecondaryInv ==
    ASSUME Inv, DataTypes, NEW s \in Secondaries, SecondaryStep(s) \/ SecondaryFails(s)
    PROVE  Inv'
<1>. USE DEF Synced, Running
<1>1. sphase[s] \in Running \/ Says(Down(s), "start") => AllSynced
  BY DEF Inv, Barrier
<1>2. CASE Dial(s) \/ Trigger(s) \/ SleepOver(s) \/ ConnectionLost(s) \/ SecondaryFails(s)
  <2>1. /\ Alone(s) /\ SameDown(s) /\ SameUp(s)
        /\ \/ Moves(s, "dial", "init") \/ Moves(s, "run", "run") \/ Moves(s, "run", "stop")
           \/ sphase'[s] = "failed"
    BY <1>2, Moved DEF Inv
  <2>. QED BY <1>1, <2>1, SecondaryKeeps DEF Moves, SameDown, SameUp
<1>3. CASE PrepareClient(s) \/ PrepareInteraction(s) \/ PrepareDone(s) \/ WaitStart(s)
  <2>1. /\ Alone(s) /\ SameUp(s)
        /\ \E m : Popped(Down(s), Down(s)', m) /\
             \/ sphase[s] = "prepare" /\ sphase'[s] \in {"prepare", "decode", "failed"}
             \/ sphase'[s] = "run" /\ m.kind = "start"
    BY <1>3, MessageRead DEF Inv, Gets, Moves
  <2>. QED BY <1>1, <2>1, SaysPopped, SecondaryKeeps DEF SameUp
<1>4. CASE InitRuntime(s)
  <2>1. /\ Alone(s) /\ Moves(s, "init", "prepare") /\ \E m : Popped(Down(s), Down(s)', m)
        /\ Pushed(Up(s), Up(s)', Msg("params"))
    BY <1>4, Greeted DEF Inv, Gets, Puts
  <2>2. Says(Up(s)', "done") => Says(Up(s), "done")
    BY SMTT(30), <2>1, SaysPushed DEF Msg
  <2>. QED BY <2>1, <2>2, SaysPopped, SecondaryKeeps DEF Moves
<1>5. CASE Decoded(s) \/ SyncReady(s)
  <2>1. /\ Alone(s) /\ SameDown(s) /\ sphase[s] = "decode"
        /\ (sphase'[s] = "decode" /\ SameUp(s)) \/ sphase'[s] = "waitStart"
    BY <1>5, Reordered DEF Inv
  <2>. QED BY <2>1, SecondaryKeeps DEF SameDown, SameUp
<1>6. CASE PushResult(s) \/ PushDone(s)
  <2>1. Alone(s) /\ SameDown(s) /\ sphase[s] = "stop" /\ sphase'[s] \in {"stop", "over"}
    BY <1>6, Reported DEF Inv
  <2>. QED BY <1>1, <2>1, SecondaryKeeps DEF SameDown
<1>. QED BY <1>2, <1>3, <1>4, <1>5, <1>6 DEF SecondaryStep

Started == {"start", "startObservers", "collect", "ok"}

(* The primary is ready for its next statement. *)
Progress ==
    /\ Slots' /\ cursor' \in Nat \ {0}
    /\ pphase' \in {"sync", "waitReady"} => \A i \in 1..(cursor' - 1) : Synced(slots[i])
    /\ pphase' \in Started => AllSynced

(* What a step of the primary must respect. *)
LEMMA PrimaryKeeps ==
    ASSUME Inv, UNCHANGED <<slots, secondary>>, Progress, Wires(pbuf', toSec'), Wires(sbuf', toPri'),
           \A u \in Secondaries :
              /\ Says(Up(u)', "done") => Says(Up(u), "done")
              /\ Says(Down(u)', "start") => Says(Down(u), "start") \/ AllSynced
    PROVE  Inv'
<1>1. \A s : Synced(s)' <=> Synced(s)
  BY DEF Synced, secondary
<1>2. AllSynced' <=> AllSynced
  BY <1>1 DEF AllSynced
<1>3. Types'
  BY DEF Inv, Types, secondary, Progress
<1>4. Barrier'
  BY <1>1, <1>2 DEF Inv, Barrier, Started, Progress, secondary
<1>. QED BY <1>3, <1>4 DEF Inv, Progress

(* ready() of the secondary at the cursor is over. *)
LEMMA NextReady ==
    ASSUME Inv, pphase \in {"sync", "waitReady"}, Synced(slots[cursor]), NextSlot("sync", "start"),
           slots' = slots
    PROVE  Progress
<1>1. /\ cursor \in 1..NumSecondary /\ NumSecondary \in Nat /\ Len(slots) = NumSecondary
  BY SlotHeld
<1>2. \A i \in 1..cursor : Synced(slots[i])
  BY SMTT(30), <1>1 DEF Inv, Barrier
<1>3. CASE cursor = NumSecondary
  <2>1. pphase' = "start" /\ cursor' = 1
    BY <1>3 DEF NextSlot
  <2>2. AllSynced
    BY <1>1, <1>2, <1>3, AllSlots DEF AllSynced, Inv
  <2>. QED BY SMTT(30), <1>1, <2>1, <2>2 DEF Slots, Late, NumSecondary, Progress
<1>4. CASE cursor # NumSecondary
  <2>1. pphase' = "sync" /\ cursor' = cursor + 1
    BY <1>4 DEF NextSlot
  <2>. QED BY SMTT(30), <1>1, <1>2, <1>4, <2>1 DEF Slots, Late, Started, NumSecondary, Progress
<1>. QED BY <1>3, <1>4

LEMMA ListensInv ==
    ASSUME Inv, Listens
    PROVE  Inv'
<1>1. UNCHANGED <<slots, secondary, pbuf, toSec>>
  BY ListensStep
<1>2. Types /\ Slots /\ Barrier /\ NumSecondary' = NumSecondary
  BY DEF Inv, NumSecondary
<1>3. Progress
  <2>. USE DEF Progress, Started, Slots, Late
  <2>1. CASE \/ pphase' = "failed" /\ cursor' = cursor
             \/ /\ pphase \in Early /\ cursor' = cursor
                /\ \/ pphase' = "accept"
                   \/ /\ pphase' \in {"observers", "prepare"}
                      /\ pphase = "observers" \/ Len(slots) = NumSecondary
    BY SMTT(30), <1>1, <1>2, <2>1, Numbers DEF Types
  <2>2. CASE pphase = "prepare" /\ pphase' = "sync" /\ cursor' = 1
    BY SMTT(30), <1>1, <1>2, <2>2, Numbers
  <2>3. CASE /\ pphase \in {"sync", "waitReady"} /\ NextSlot("sync", "start")
             /\ Over(slots[cursor]) \/ Receive(toPri, slots[cursor], "done")
    <3>1. PICK s \in Secondaries : s = slots[cursor]
      BY <2>3, SlotHeld
    <3>2. CASE Receive(toPri, s, "done")
      <4>1. Says(Up(s), "done")
        BY SMTT(30), <1>2, <3>2, ListensStep, UpPopped, SaysPopped
      <4>. QED BY <1>1, <1>2, <2>3, <3>1, <4>1, NextReady DEF Barrier
    <3>. QED BY <1>1, <2>3, <3>1, <3>2, NextReady DEF Over, Synced
  <2>4. CASE pphase = "startObservers" /\ pphase' \in {"startObservers", "collect"} /\ cursor' = cursor
    BY <1>1, <1>2, <2>4, Numbers DEF Types, Barrier
  <2>5. CASE pphase = "collect" /\ ((pphase' = "collect" /\ cursor' = cursor) \/ NextSlot("collect", "ok"))
    <3>1. cursor \in 1..NumSecondary /\ NumSecondary \in Nat
      BY <2>5, SlotHeld
    <3>. QED BY SMTT(30), <1>1, <1>2, <2>5, <3>1 DEF NextSlot, Barrier
  <2>. QED BY ZenonT(30), <2>1, <2>2, <2>3, <2>4, <2>5, ListensStep
<1>4. \A u \in Secondaries : Down(u)' = Down(u)
  BY <1>1 DEF Down, Pipe
<1>5. Wires(sbuf', toPri') /\ \A u \in Secondaries : \A k : Says(Up(u)', k) => Says(Up(u), k)
  BY <1>2, ListensUp
<1>. QED BY <1>1, <1>2, <1>3, <1>4, <1>5, PrimaryKeeps DEF Types

LEMMA WritesInv ==
    ASSUME Inv, NEW s \in Secondaries, NEW m, Writes(s, m), slots' = slots, Progress,
           m.kind = "start" => AllSynced
    PROVE  Inv'
<1>1. /\ Pushed(Down(s), Down(s)', m) /\ DownKept(s) /\ UNCHANGED <<secondary, sbuf, toPri>>
  BY DEF Writes
<1>2. Wires(sbuf', toPri') /\ \A u \in Secondaries : Up(u)' = Up(u)
  BY <1>1 DEF Inv, Types, Up, Pipe
<1>3. \A u \in Secondaries : Says(Down(u)', "start") => Says(Down(u), "start") \/ AllSynced
  BY <1>1, SaysPushed DEF DownKept
<1>. QED BY <1>1, <1>2, <1>3, PrimaryKeeps DEF DownKept

LEMMA SendInv ==
    ASSUME Inv, SendPrepare
    PROVE  Inv'
<1>0. PICK m : m = Shipment(cursor)
  OBVIOUS
<1>1. PICK s \in Secondaries : Writes(s, m)
  BY <1>0, SendStep
<1>2. pphase = "prepare" /\ pphase' = "prepare" /\ cursor' = cursor + 1 /\ cursor \in 1..Len(Plan)
      /\ cursor \in Nat /\ slots' = slots
  BY SendStep
<1>3. m.kind # "start"
  BY <1>0, <1>2, PlanEntry DEF Shipment
<1>4. Progress
  BY SMTT(30), <1>2 DEF Progress, Inv, Slots, Late, Started, NumSecondary
<1>. QED BY <1>1, <1>2, <1>3, <1>4, WritesInv

LEMMA SignalInv ==
    ASSUME Inv, Ready \/ Start
    PROVE  Inv'
<1>1. PICK s \in Secondaries, k \in {"done", "start"} :
         /\ Writes(s, Msg(k)) /\ slots' = slots
         /\ k = "done" => pphase = "sync" /\ pphase' = "waitReady" /\ cursor' = cursor
         /\ k = "start" => pphase = "start" /\ NextSlot("start", "startObservers")
  BY SignalStep
<1>2. cursor \in 1..NumSecondary /\ NumSecondary \in Nat /\ Len(slots) = NumSecondary
  BY <1>1, SlotHeld
<1>3. Msg(k).kind = "start" => AllSynced
  BY <1>1 DEF Msg, Inv, Barrier
<1>4. Progress
  BY SMTT(30), <1>1, <1>2 DEF Progress, Inv, Slots, Late, Started, NumSecondary, Barrier, NextSlot
<1>. QED BY <1>1, <1>3, <1>4, WritesInv

LEMMA AcceptInv ==
    ASSUME Inv, NEW s \in Secondaries, Accept(s)
    PROVE  Inv'
<1>1. /\ pphase = "accept" /\ pphase' = "handshake" /\ cursor' = cursor
      /\ slots \in Seq(Secondaries) /\ slots' = Append(slots, s)
      /\ \A i \in 1..Len(slots) : slots[i] # s
      /\ Len(slots) \in Nat /\ Len(slots') = Len(slots) + 1 /\ slots'[Len(slots) + 1] = s
      /\ \A i \in 1..Len(slots) : slots'[i] = slots[i]
  BY AcceptStep
<1>2. /\ Pushed(Down(s), Down(s)', Msg("params")) /\ DownKept(s)
      /\ UNCHANGED <<secondary, sbuf, toPri>>
  BY AcceptStep DEF Writes
<1>3. \A i, j \in 1..Len(slots') : slots'[i] = slots'[j] => i = j
  <2>1. \A i \in 1..Len(slots') : i \in 1..Len(slots) \/ i = Len(slots) + 1
    BY SMTT(30), <1>1
  <2>. QED BY SMTT(30), <1>1, <2>1 DEF Inv, Types
<1>4. Types'
  BY SMTT(30), <1>1, <1>2, <1>3 DEF Inv, Types, DownKept, secondary
<1>5. Slots'
  BY SMTT(30), <1>1 DEF Slots, Late
<1>6. Barrier'
  <2>1. AllSynced' <=> AllSynced
    BY <1>2 DEF AllSynced, Synced, secondary
  <2>2. \A u \in Secondaries : Says(Down(u)', "start") => Says(Down(u), "start")
    BY SMTT(30), <1>2, SaysPushed DEF DownKept, Msg
  <2>3. \A u \in Secondaries : Up(u)' = Up(u)
    BY <1>2 DEF Up, Pipe
  <2>. QED BY <1>1, <1>2, <2>1, <2>2, <2>3 DEF Inv, Barrier, Synced, secondary
<1>. QED BY <1>4, <1>5, <1>6 DEF Inv

-----------------------------------------------------------------------------
LEMMA SeqDef ==
    ASSUME NEW S, NEW n \in Nat, NEW f \in [1..n -> S]
    PROVE  f \in Seq(S)
  BY SMTT(30)

LEMMA BeforeOrder ==
    ASSUME NEW l \in Seq(Entries), NEW i \in 1..Len(l), NEW j \in 1..Len(l)
    PROVE  /\ Due(l, i) \in Nat
           /\ Before(l, i, j) <=> Due(l, i) < Due(l, j) \/ (Due(l, i) = Due(l, j) /\ i < j)
<1>1. l[i] \in Entries
  BY SMTT(30)
<1>2. l[i].id \in 1..Len(Plan)
  BY <1>1, PlanLen DEF Entries
<1>. QED BY <1>2, PlanEntry DEF Due, Before

LEMMA RankGrows ==
    ASSUME NEW l \in Seq(Entries), NEW i \in 1..Len(l), NEW j \in 1..Len(l), Before(l, i, j)
    PROVE  /\ Rank(l, i) \in 1..Len(l) /\ Rank(l, j) \in 1..Len(l) /\ Rank(l, i) < Rank(l, j)
<1>. DEFINE n == Len(l)
            B(k) == {x \in 1..n : Before(l, x, k)}
<1>1. n \in Nat /\ DOMAIN l = 1..n /\ IsFiniteSet(1..n) /\ Cardinality(1..n) = n
  <2>1. n \in Nat /\ DOMAIN l = 1..n
    BY SMTT(20)
  <2>. QED BY <2>1, UpTo
<1>2. \A k \in 1..n : Rank(l, k) = Cardinality(B(k)) + 1
  BY <1>1 DEF Rank
<1>3. \A k \in 1..n : k \notin B(k)
  BY SMTT(30), BeforeOrder
<1>4. B(i) \subseteq B(j) /\ i \in B(j)
  BY SMTT(30), BeforeOrder
<1>5. ASSUME NEW k \in 1..n
      PROVE  IsFiniteSet(B(k)) /\ Cardinality(B(k)) \in Nat /\ Cardinality(B(k)) < n
  <2>1. B(k) \in SUBSET (1..n)
    OBVIOUS
  <2>2. B(k) # 1..n
    BY <1>3
  <2>. HIDE DEF B
  <2>. QED BY SMTT(30), <1>1, <2>1, <2>2, FS_Subset, FS_CardinalityType
<1>6. Cardinality(B(i)) < Cardinality(B(j))
  <2>1. IsFiniteSet(B(j)) /\ Cardinality(B(j)) \in Nat /\ Cardinality(B(i)) \in Nat
    BY <1>5
  <2>2. B(i) # B(j) /\ B(i) \in SUBSET B(j)
    BY <1>3, <1>4
  <2>. HIDE DEF B
  <2>. QED BY SMTT(30), <2>1, <2>2, FS_Subset
<1>. HIDE DEF B, n
<1>7. i \in 1..n /\ j \in 1..n
  BY DEF n
<1>8. /\ Rank(l, i) = Cardinality(B(i)) + 1 /\ Rank(l, j) = Cardinality(B(j)) + 1
      /\ Cardinality(B(i)) \in Nat /\ Cardinality(B(j)) \in Nat
      /\ Cardinality(B(i)) < n /\ Cardinality(B(j)) < n
  BY ONLY <1>2, <1>5, <1>7
<1>9. Rank(l, i) \in 1..n /\ Rank(l, j) \in 1..n /\ Rank(l, i) < Rank(l, j)
  BY ONLY <1>1, <1>6, <1>8
<1>. QED BY <1>9 DEF n

LEMMA RankPermutes ==
    ASSUME NEW l \in Seq(Entries)
    PROVE  /\ \A i \in 1..Len(l) : Rank(l, i) \in 1..Len(l)
           /\ \A i, j \in 1..Len(l) : Rank(l, i) = Rank(l, j) => i = j
           /\ \A r \in 1..Len(l) : \E i \in 1..Len(l) : Rank(l, i) = r
<1>. DEFINE n == Len(l)
<1>1. n \in Nat /\ DOMAIN l = 1..n /\ IsFiniteSet(1..n) /\ Cardinality(1..n) = n
  <2>1. n \in Nat /\ DOMAIN l = 1..n
    BY SMTT(20)
  <2>. QED BY <2>1, UpTo
<1>2. ASSUME NEW i \in 1..n, NEW j \in 1..n, i # j
      PROVE  Rank(l, i) # Rank(l, j) /\ Rank(l, i) \in 1..n
  <2>1. Before(l, i, j) \/ Before(l, j, i)
    BY SMTT(30), <1>2, BeforeOrder
  <2>. QED BY SMTT(30), <2>1, RankGrows
<1>3. ASSUME NEW i \in 1..n PROVE Rank(l, i) \in 1..n
  <2>1. CASE n = 1
    <3>1. {k \in DOMAIN l : Before(l, k, i)} = {}
      BY SMTT(30), <1>1, <2>1, BeforeOrder
    <3>2. Cardinality({}) = 0
      BY FS_EmptySet
    <3>3. Rank(l, i) = Cardinality({}) + 1
      BY <3>1 DEF Rank
    <3>. QED BY ONLY <2>1, <3>2, <3>3
  <2>2. CASE n # 1
    <3>1. PICK j \in 1..n : i # j
      BY SMTT(30), <1>1, <2>2
    <3>. QED BY <1>2, <3>1
  <2>. QED BY <2>1, <2>2
<1>. DEFINE f == [i \in 1..n |-> Rank(l, i)]
<1>4. f \in Injection(1..n, 1..n)
  BY <1>2, <1>3 DEF Injection, IsInjective
<1>5. f \in Surjection(1..n, 1..n)
  <2>. HIDE DEF f
  <2>. QED BY <1>1, <1>4, FS_Injection
<1>6. \A r \in 1..n : \E i \in 1..n : Rank(l, i) = r
  BY <1>5 DEF Surjection
<1>. QED BY <1>2, <1>3, <1>6

LEMMA SortedPermutes ==
    ASSUME NEW l \in Seq(Entries)
    PROVE  /\ Sorted(l) \in Seq(Entries) /\ Len(Sorted(l)) = Len(l)
           /\ \A i \in 1..Len(l) : \E j \in 1..Len(l) : Sorted(l)[i] = l[j]
           /\ \A j \in 1..Len(l) : \E i \in 1..Len(l) : Sorted(l)[i] = l[j]
           /\ Distinct(l) => Distinct(Sorted(l))
           /\ InTime(Sorted(l))
<1>. DEFINE n == Len(l)
            at(r) == CHOOSE j \in 1..n : Rank(l, j) = r
            t == Sorted(l)
<1>1. n \in Nat /\ DOMAIN l = 1..n /\ t = [r \in 1..n |-> l[at(r)]]
  <2>1. n \in Nat /\ DOMAIN l = 1..n
    BY SMTT(20)
  <2>. QED BY ONLY <2>1 DEF Sorted
<1>2. ASSUME NEW r \in 1..n PROVE at(r) \in 1..n /\ Rank(l, at(r)) = r
  <2>1. \E j \in 1..n : Rank(l, j) = r
    BY RankPermutes
  <2>. QED BY ONLY <2>1
<1>3. \A j \in 1..n : Rank(l, j) \in 1..n /\ at(Rank(l, j)) = j
  <2>1. \A j \in 1..n : Rank(l, j) \in 1..n
    BY RankPermutes
  <2>. HIDE DEF at
  <2>. QED BY ZenonT(30), <1>2, <2>1, RankPermutes
<1>. HIDE DEF at, t
<1>4. t \in Seq(Entries) /\ Len(t) = n /\ \A r \in 1..n : t[r] = l[at(r)]
  <2>1. t \in [1..n -> Entries]
    BY SMTT(30), <1>1, <1>2
  <2>2. t \in Seq(Entries)
    BY <1>1, <2>1, SeqDef
  <2>. QED BY SMTT(30), <1>1, <2>1, <2>2
<1>5. \A j \in 1..n : t[Rank(l, j)] = l[j]
  BY <1>3, <1>4
<1>6. Distinct(l) => Distinct(t)
  <2>. SUFFICES ASSUME Distinct(l), NEW i \in 1..n, NEW j \in 1..n, t[i] = t[j] PROVE i = j
    BY <1>4 DEF Distinct
  <2>1. at(i) = at(j)
    BY <1>2, <1>4 DEF Distinct
  <2>. QED BY <1>2, <2>1
<1>7. InTime(t)
  <2>. SUFFICES ASSUME NEW i \in 1..n, NEW j \in 1..n, i < j PROVE Due(t, i) <= Due(t, j)
    BY <1>4 DEF InTime
  <2>1. Due(t, i) = Due(l, at(i)) /\ Due(t, j) = Due(l, at(j))
    BY <1>4 DEF Due
  <2>2. ~Before(l, at(j), at(i))
    BY SMTT(30), <1>2, RankGrows
  <2>3. Due(l, at(i)) \in Nat /\ Due(l, at(j)) \in Nat /\ ~(Due(l, at(j)) < Due(l, at(i)))
    BY <1>2, <2>2, BeforeOrder
  <2>. QED BY SMTT(30), <2>1, <2>3
<1>. QED BY ZenonT(30), <1>2, <1>3, <1>4, <1>5, <1>6, <1>7 DEF t

LEMMA WorkSorted ==
    ASSUME NEW s \in Secondaries, Work(s), DataTypes, UNCHANGED primary, Down(s)' = Down(s),
           sphase[s] = "decode", sphase'[s] = "waitStart", next'[s] = next[s],
           decoding[s] = {}, decoding'[s] = {}, interactions'[s] = Sorted(interactions[s])
    PROVE  Work(s)' /\ interactions'[s] \in Seq(Entries)
<1>. DEFINE l == interactions[s]
            l2 == interactions'[s]
<1>1. l \in Seq(Entries) /\ l2 = Sorted(l)
  BY DEF DataTypes
<1>. HIDE DEF l, l2
<1>2. /\ l2 \in Seq(Entries) /\ Len(l2) = Len(l)
      /\ \A i \in 1..Len(l) : \E j \in 1..Len(l) : l2[i] = l[j]
      /\ \A j \in 1..Len(l) : \E i \in 1..Len(l) : l2[i] = l[j]
      /\ Distinct(l) => Distinct(l2)
      /\ InTime(l2)
  BY <1>1, SortedPermutes
<1>3. Elements(l2) = Elements(l)
  <2>1. \A e : e \in Elements(l2) <=> \E i \in 1..Len(l) : e = l2[i]
    BY <1>2 DEF Elements
  <2>2. \A e : e \in Elements(l) <=> \E i \in 1..Len(l) : e = l[i]
    BY DEF Elements
  <2>3. \A e : e \in Elements(l2) <=> e \in Elements(l)
    BY ONLY ZenonT(30), <1>2, <2>1, <2>2
  <2>. QED BY <2>3
<1>4. Known(s)' = Known(s)
  BY <1>3 DEF Known, l, l2
<1>5. Distinct(l) /\ next[s] <= Len(l) + 1
  BY DEF Work, Schedule, l
<1>6. Schedule(s)'
  BY <1>2, <1>5 DEF Schedule, Distinct, Elements, InTime, Due, l2
<1>7. sphase[s] \in Past /\ sphase'[s] \in Past
  BY DEF Past
<1>8. Work(s)'
  BY <1>4, <1>6, <1>7, WorkReorders
<1>. QED BY <1>2, <1>8 DEF l2

(* A step of a secondary keeps the work of all of them. *)
LEMMA SecondaryWork ==
    ASSUME Inv, DataTypes, \A u \in Secondaries : Work(u),
           NEW s \in Secondaries, SecondaryStep(s) \/ SecondaryFails(s)
    PROVE  Alone(s) /\ DataTypes' /\ \A u \in Secondaries : Work(u)'
<1>1. Types /\ Work(s) /\ decoding[s] \in SUBSET Entries /\ interactions[s] \in Seq(Entries)
      /\ next[s] \in Nat \ {0} /\ Len(interactions[s]) \in Nat
  BY SMTT(30) DEF Inv, DataTypes
<1>2. /\ Alone(s) /\ Work(s)' /\ decoding'[s] \in SUBSET Entries
      /\ interactions'[s] \in Seq(Entries) /\ next'[s] \in Nat \ {0}
  <2>1. CASE Dial(s) \/ Trigger(s) \/ SleepOver(s) \/ ConnectionLost(s) \/ SecondaryFails(s)
    <3>1. /\ Alone(s) /\ SameDown(s) /\ SameUp(s) /\ SameStock(s)
          /\ \/ Moves(s, "dial", "init") /\ SameNext(s)
             \/ Moves(s, "run", "run") /\ next[s] <= Len(interactions[s]) /\ next'[s] = next[s] + 1
             \/ Moves(s, "run", "stop") /\ next'[s] = 1
             \/ sphase[s] \notin {"over", "failed"} /\ sphase'[s] = "failed" /\ SameNext(s)
      BY <1>1, <2>1, Moved
    <3>2. next[s] <= Len(interactions[s]) + 1
      BY <1>1 DEF Work, Schedule
    <3>3. next'[s] \in Nat \ {0} /\ next'[s] <= Len(interactions[s]) + 1
      BY SMTT(30), <1>1, <3>1, <3>2 DEF SameNext
    <3>4. /\ sphase'[s] \in Past \ {"decode"} => sphase[s] \in Past \ {"decode"}
          /\ sphase'[s] # "decode" /\ (sphase[s] = "failed" => sphase'[s] = "failed")
      BY <3>1 DEF Past, Moves
    <3>5. Work(s)'
      BY ZenonT(30), <1>1, <3>1, <3>3, <3>4, WorkMoves DEF Alone, SameDown, SameStock
    <3>. QED BY <1>1, <3>1, <3>3, <3>5 DEF SameStock
  <2>2. CASE PrepareClient(s) \/ PrepareDone(s) \/ WaitStart(s) \/ InitRuntime(s)
    <3>1. /\ Alone(s) /\ SameStock(s) /\ SameNext(s)
          /\ \/ Moves(s, "prepare", "prepare") /\ Gets(s, Head(toSec[s]), "client")
             \/ Moves(s, "prepare", "decode") /\ Gets(s, Head(toSec[s]), "done")
             \/ Moves(s, "waitStart", "run") /\ Gets(s, Head(toSec[s]), "start")
             \/ Moves(s, "init", "prepare") /\ Gets(s, Head(toSec[s]), "params")
      BY <1>1, <2>2, MessageRead, Greeted
    <3>. DEFINE m == Head(toSec[s])
    <3>. HIDE DEF m
    <3>2. Popped(Down(s), Down(s)', m) /\ m.kind # "iact"
      BY <3>1 DEF Gets, m
    <3>3. /\ sphase'[s] \in Past => sphase[s] \in Past \/ m.kind = "done"
          /\ sphase'[s] \in Past \ {"decode"} => sphase[s] \in Past \ {"decode"}
          /\ sphase[s] # "failed"
      BY <3>1 DEF Past, Moves, Gets, m
    <3>4. Work(s)'
      BY ZenonT(30), <1>1, <3>1, <3>2, <3>3, WorkPopped DEF Alone, SameStock, SameNext
    <3>. QED BY <1>1, <3>1, <3>4 DEF SameStock, SameNext
  <2>3. CASE PrepareInteraction(s)
    <3>. DEFINE m == Head(toSec[s])
    <3>1. /\ Alone(s) /\ SameNext(s) /\ interactions'[s] = interactions[s]
          /\ sphase[s] = "prepare" /\ Gets(s, m, "iact")
          /\ \/ /\ sphase'[s] = "prepare"
                /\ decoding'[s] = decoding[s] \cup {[id |-> m.id, client |-> DecodedIndex(m)]}
             \/ sphase'[s] = "failed" /\ decoding'[s] = decoding[s]
      BY <1>1, <2>3, MessageRead
    <3>. HIDE DEF m
    <3>2. Work(s)' /\ decoding'[s] \in SUBSET Entries
      BY <1>1, <3>1, WorkDecoding DEF Alone, SameNext, Gets
    <3>. QED BY <1>1, <3>1, <3>2 DEF SameNext
  <2>4. CASE Decoded(s) \/ SyncReady(s)
    <3>1. Alone(s) /\ SameDown(s) /\ SameNext(s) /\ sphase[s] = "decode"
      BY <1>1, <2>4, Reordered
    <3>2. CASE Decoded(s)
      <4>1. PICK iact \in decoding[s] : /\ decoding'[s] = decoding[s] \ {iact}
                                        /\ interactions'[s] = Append(interactions[s], iact)
        BY <1>1, <3>2, Reordered
      <4>2. sphase'[s] = "decode"
        BY <1>1, <3>2, Reordered
      <4>3. Work(s)' /\ decoding'[s] \in SUBSET Entries /\ interactions'[s] \in Seq(Entries)
        BY ZenonT(30), <1>1, <3>1, <4>1, <4>2, WorkDecoded DEF Alone, SameDown, SameNext
      <4>. QED BY <1>1, <3>1, <4>3 DEF SameNext
    <3>3. CASE SyncReady(s)
      <4>1. /\ sphase'[s] = "waitStart" /\ decoding[s] = {} /\ decoding'[s] = {}
            /\ interactions'[s] = Sorted(interactions[s])
        BY <1>1, <3>3, Reordered
      <4>2. Work(s)' /\ interactions'[s] \in Seq(Entries)
        BY <1>1, <3>1, <4>1, WorkSorted DEF Alone, SameDown, SameNext
      <4>. QED BY <1>1, <3>1, <4>1, <4>2 DEF SameNext
    <3>. QED BY <2>4, <3>2, <3>3
  <2>5. CASE PushResult(s) \/ PushDone(s)
    <3>1. /\ Alone(s) /\ SameDown(s) /\ SameStock(s) /\ sphase[s] = "stop"
          /\ \/ sphase'[s] = "stop" /\ next[s] <= Len(interactions[s]) /\ next'[s] = next[s] + 1
             \/ sphase'[s] = "over" /\ SameNext(s)
      BY <1>1, <2>5, Reported
    <3>2. next[s] <= Len(interactions[s]) + 1
      BY <1>1 DEF Work, Schedule
    <3>3. next'[s] \in Nat \ {0} /\ next'[s] <= Len(interactions[s]) + 1
      BY SMTT(30), <1>1, <3>1, <3>2 DEF SameNext
    <3>4. sphase[s] \in Past \ {"decode"} /\ sphase'[s] # "decode" /\ sphase[s] # "failed"
      BY <3>1 DEF Past
    <3>5. Work(s)'
      BY ZenonT(30), <1>1, <3>1, <3>3, <3>4, WorkMoves DEF Alone, SameDown, SameStock
    <3>. QED BY <1>1, <3>1, <3>3, <3>5 DEF SameStock
  <2>. QED BY <2>1, <2>2, <2>3, <2>4, <2>5 DEF SecondaryStep
<1>3. ASSUME NEW u \in Secondaries, u # s PROVE Work(u)'
  <2>1. Limit \in Nat
    BY SMTT(30), PlanLen DEF Inv, Types, Limit
  <2>2. Share(u)' = Share(u) /\ Limit' = Limit /\ Shipping' = Shipping /\ pphase' = pphase
    BY <1>2, SameShare DEF Alone
  <2>3. SameWork(u) /\ Down(u)' = Down(u)
    BY <1>2, <1>3 DEF Alone
  <2>. QED BY SMTT(30), <2>1, <2>2, <2>3, WorkFrame
<1>. QED BY <1>2, <1>3 DEF Alone

-----------------------------------------------------------------------------
(* The steps of the primary. *)
LEMMA ListensLimit ==
    ASSUME Inv, Counting, Listens
    PROVE  /\ Limit \in Nat /\ Limit' \in Nat /\ Limit <= Limit' /\ (Shipping' => Shipping)
           /\ pphase' # "failed" => pphase # "failed" /\ Limit' = Limit
           /\ Counting'
<1>1. /\ \/ pphase' = "failed" /\ cursor' = cursor
         \/ pphase \in Early /\ pphase' \in Early \cup {"prepare"} /\ cursor' = cursor
         \/ pphase = "prepare" /\ cursor > Len(Plan) /\ pphase' = "sync" /\ cursor' = 1
         \/ /\ pphase \in {"sync", "waitReady", "collect"} /\ cursor <= NumSecondary
            /\ pphase' \in {"sync", "start", "collect", "ok"} /\ cursor' \in 1..NumSecondary
         \/ pphase = "startObservers" /\ pphase' \in {"startObservers", "collect"} /\ cursor' = cursor
  <2>1. pphase \in {"sync", "waitReady", "collect"} => cursor \in 1..NumSecondary
    BY SlotHeld
  <2>. QED BY SMTT(30), <2>1, ListensStep, Numbers DEF NextSlot, Early
<1>2. cursor \in Nat \ {0} /\ NumSecondary \in Nat \ {0} /\ Len(Plan) \in Nat
  BY Numbers DEF Inv, Types
<1>3. NumSecondary' = NumSecondary
  BY DEF NumSecondary
<1>4. Counting'
  BY SMTT(30), <1>1, <1>2, <1>3 DEF Counting, Early
<1>. QED BY SMTT(30), <1>1, <1>2, <1>4 DEF Counting, Limit, Shipping, Early

LEMMA ListensWork ==
    ASSUME Inv, Counting, \A u \in Secondaries : Work(u), Listens
    PROVE  Counting' /\ \A u \in Secondaries : Work(u)'
<1>1. UNCHANGED <<slots, secondary, pbuf, toSec, sbuf>>
  BY ListensStep
<1>2. ASSUME NEW u \in Secondaries PROVE Work(u)'
  <2>1. Share(u)' = Share(u) /\ Down(u)' = Down(u) /\ SameWork(u)
    BY <1>1 DEF Share, Owner, Down, Pipe, SameWork, secondary
  <2>. QED BY <2>1, ListensLimit, WorkFrame
<1>. QED BY <1>2, ListensLimit

(* Where the primary stands in the plan when it writes. *)
LEMMA AcceptLimit ==
    ASSUME Inv, Counting, NEW s \in Secondaries, Accept(s)
    PROVE  /\ Limit = 1 /\ Limit' = 1 /\ Shipping /\ Shipping' /\ Counting'
           /\ \A u : Share(u) \subseteq Share(u)'
<1>1. /\ pphase = "accept" /\ pphase' = "handshake" /\ cursor' = cursor /\ slots \in Seq(Secondaries)
      /\ Len(slots) \in Nat /\ Len(slots') = Len(slots) + 1
      /\ \A i \in 1..Len(slots) : slots'[i] = slots[i]
  BY AcceptStep
<1>2. Limit = 1 /\ Limit' = 1 /\ Shipping /\ Shipping'
  BY <1>1 DEF Counting, Limit, Shipping, Early
<1>3. Counting'
  BY <1>1 DEF Counting, Early, NumSecondary
<1>4. ASSUME NEW u, NEW id \in Share(u) PROVE id \in Share(u)'
  <2>1. id \in 1..Len(Plan) /\ Plan[id].slot \in Nat \ {0} /\ Plan[id].slot <= Len(slots)
    BY SMTT(30), PlanEntry, Numbers DEF Share, Owner
  <2>2. Plan[id].slot \in 1..Len(slots) /\ Plan[id].slot <= Len(slots')
    BY ONLY <1>1, <2>1
  <2>. QED BY <1>1, <2>2 DEF Share, Owner
<1>. QED BY <1>2, <1>3, <1>4

LEMMA AcceptWork ==
    ASSUME Inv, Counting, \A u \in Secondaries : Work(u), NEW s \in Secondaries, Accept(s)
    PROVE  Counting' /\ \A u \in Secondaries : Work(u)'
<1>1. /\ Limit = 1 /\ Limit' = 1 /\ Shipping /\ Shipping' /\ \A u : Share(u) \subseteq Share(u)'
  BY AcceptLimit
<1>2. pphase = "accept" /\ Writes(s, Msg("params"))
  BY AcceptStep
<1>3. PICK m : Writes(s, m) /\ m.kind = "params"
  BY SMTT(30), <1>2 DEF Msg
<1>4. ASSUME NEW u \in Secondaries PROVE Work(u)'
  <2>1. \A id \in Share(u)' : ~(id < 1)
    BY SMTT(30) DEF Share
  <2>2. SameWork(u) /\ (Down(u)' = Down(u) \/ Pushed(Down(u), Down(u)', m))
    BY <1>3 DEF Writes, DownKept, SameWork, secondary
  <2>. QED BY SMTT(30), <1>1, <1>2, <1>3, <2>1, <2>2, WorkFrame
<1>. QED BY <1>4, AcceptLimit

LEMMA SendWork ==
    ASSUME Inv, Counting, \A u \in Secondaries : Work(u), SendPrepare
    PROVE  Counting' /\ \A u \in Secondaries : Work(u)'
<1>1. /\ pphase = "prepare" /\ pphase' = "prepare" /\ cursor \in 1..Len(Plan) /\ cursor \in Nat
      /\ cursor' = cursor + 1 /\ slots' = slots
  BY SendStep
<1>2. Limit = cursor /\ Limit' = cursor + 1 /\ Shipping /\ Shipping'
  BY <1>1 DEF Limit, Shipping
<1>3. PICK s \in Secondaries : Owner(cursor, s) /\ Writes(s, Shipment(cursor))
  BY SendStep
<1>4. \A u : Share(u)' = Share(u) /\ Share(u) \in SUBSET Nat
  BY SMTT(30), <1>1 DEF Share, Owner
<1>5. \A u \in Secondaries : SameWork(u) /\ (u # s => Down(u)' = Down(u))
  BY <1>3 DEF Writes, DownKept, SameWork, secondary
<1>6. ASSUME NEW u \in Secondaries, u # s PROVE Work(u)'
  <2>1. cursor \notin Share(u)
    BY <1>3, <1>6 DEF Share, Owner
  <2>2. \A id \in Share(u) : id < cursor + 1 => id < cursor
    BY SMTT(30), <1>1, <1>4, <2>1
  <2>. QED BY SMTT(30), <1>1, <1>2, <1>4, <1>5, <1>6, <2>2, WorkFrame
<1>7. Work(s)'
  <2>1. PICK m : m = Shipment(cursor)
    OBVIOUS
  <2>2. /\ Pushed(Down(s), Down(s)', m) /\ m.kind = Plan[cursor].kind
        /\ m.index = Plan[cursor].index /\ m.id = cursor
    BY <1>3, <2>1 DEF Writes, Shipment
  <2>3. m.kind \in {"client", "iact"} /\ (m.kind = "iact" => cursor \in Share(s))
    BY ZenonT(30), <1>1, <1>3, <2>2, PlanEntry DEF Share
  <2>4. SameWork(s) /\ Known(s)' = Known(s)
    BY <1>5 DEF Known, SameWork
  <2>5. sphase[s] \notin Past
    BY <1>2 DEF Work, Load
  <2>6. Load(s)'
    <3>1. Lot(Down(s)', Share(s), cursor + 1)
      <4>1. Lot(Down(s), Share(s), cursor) /\ ~Says(Down(s), "done")
        BY <1>2 DEF Work, Load
      <4>2. CASE m.kind = "iact"
        BY ZenonT(30), <1>1, <1>4, <2>2, <2>3, <4>1, <4>2, LotPushedNext
      <4>3. CASE m.kind # "iact"
        <5>1. Lot(Down(s)', Share(s), cursor)
          BY <2>2, <4>1, <4>3, LotPushed
        <5>. QED BY SMTT(30), <1>1, <1>4, <5>1, LotGrows
      <4>. QED BY <4>2, <4>3
    <3>2. Says(Down(s)', "done") => Says(Down(s), "done")
      BY <2>2, <2>3, SaysPushed
    <3>. QED BY ZenonT(30), <1>2, <1>4, <2>4, <2>5, <3>1, <3>2 DEF Work, Load, SameWork
  <2>7. Stock(s)'
    <3>1. \A e \in Known(s) : e.id < cursor /\ e.id \in Share(s) /\ e = Stored(e.id)
      BY <1>2 DEF Work, Stock
    <3>2. Ahead(Known(s), Down(s)')
      BY <2>2, <3>1, AheadPushed DEF Work, Stock
    <3>3. \A id \in Share(s) : id < cursor => id < cursor + 1
      BY SMTT(30), <1>1, <1>4
    <3>. QED BY ZenonT(30), <1>2, <1>4, <2>4, <3>1, <3>2, <3>3 DEF Stock, Stored
  <2>8. Schedule(s)'
    BY SMTT(30), <2>4 DEF Work, Schedule, SameWork, Distinct, InTime, Due, Elements
  <2>9. Lossless(s)'
    <3>. SUFFICES ASSUME sphase[s] # "failed", NEW id \in Share(s), id < cursor + 1
                  PROVE  Stored(id) \in Known(s) \/ Holds(Down(s)', id)
      BY <1>1, <1>2, <1>4, <2>4 DEF Lossless, Stored, SameWork
    <3>1. CASE id = cursor
      <4>1. m.kind = "iact"
        BY <2>2, <3>1 DEF Share
      <4>. QED BY <2>2, <3>1, <4>1, HoldsPushed
    <3>2. CASE id # cursor
      <4>1. id < cursor
        BY SMTT(30), <1>1, <1>4, <3>2
      <4>2. Stored(id) \in Known(s) \/ Holds(Down(s), id)
        BY ZenonT(30), <1>1, <1>2, <4>1 DEF Work, Lossless
      <4>. QED BY <2>2, <4>2, HoldsPushed
    <3>. QED BY <3>1, <3>2
  <2>. QED BY ZenonT(30), <2>6, <2>7, <2>8, <2>9 DEF Work
<1>8. Counting'
  <2>1. NumSecondary' = NumSecondary
    BY DEF NumSecondary
  <2>. QED BY SMTT(30), <1>1, <2>1, Numbers DEF Counting, Early
<1>. QED BY <1>6, <1>7, <1>8

LEMMA SignalWork ==
    ASSUME Inv, Counting, \A u \in Secondaries : Work(u), Ready \/ Start
    PROVE  Counting' /\ \A u \in Secondaries : Work(u)'
<1>1. PICK s \in Secondaries, k \in {"done", "start"} :
          /\ Writes(s, Msg(k)) /\ slots' = slots
          /\ k = "done" => pphase = "sync" /\ pphase' = "waitReady" /\ cursor' = cursor
          /\ k = "start" => pphase = "start" /\ NextSlot("start", "startObservers")
  BY SignalStep
<1>2. /\ pphase \in {"sync", "start"} /\ pphase' \in {"waitReady", "start", "startObservers"}
      /\ cursor \in 1..NumSecondary /\ cursor' \in 1..NumSecondary
  BY SMTT(30), <1>1, SlotHeld DEF NextSlot
<1>3. /\ Limit = Len(Plan) + 1 /\ Limit' = Limit /\ ~Shipping /\ ~Shipping' /\ Limit \in Nat
  BY SMTT(30), <1>2, Numbers DEF Limit, Shipping, Early
<1>4. PICK m : m.kind \in {"done", "start"} /\ Writes(s, m)
  BY SMTT(30), <1>1 DEF Msg
<1>5. ASSUME NEW u \in Secondaries PROVE Work(u)'
  <2>1. SameWork(u) /\ (Down(u)' = Down(u) \/ Pushed(Down(u), Down(u)', m))
    BY <1>4 DEF Writes, DownKept, SameWork, secondary
  <2>2. Share(u)' = Share(u)
    BY <1>1 DEF Share, Owner
  <2>. QED BY SMTT(30), <1>2, <1>3, <1>4, <2>1, <2>2, WorkFrame
<1>6. Counting'
  <2>1. NumSecondary' = NumSecondary
    BY DEF NumSecondary
  <2>. QED BY SMTT(30), <1>2, <2>1, Numbers DEF Counting, Early
<1>. QED BY <1>5, <1>6
=============================================================================
