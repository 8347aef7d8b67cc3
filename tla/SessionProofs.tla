---------------------------- MODULE SessionProofs ----------------------------
(***************************************************************************)
(* The answers and the results of Session, and the theorems.               *)
(***************************************************************************)
EXTENDS SessionWorkProofs

USE ZenonT(40)

-----------------------------------------------------------------------------
(* The answers of the secondaries when one of them takes a step. *)

LEMMA NoStart ==
    ASSUME Inv, NEW s \in Secondaries, ~Synced(s)
    PROVE  ~Says(Down(s), "start")
BY DEF Inv, Barrier, AllSynced

(* A step of a secondary keeps the answers of all of them. *)
LEMMA SecondaryAnswers ==
    ASSUME Inv, DataTypes, \A u \in Secondaries : Work(u) /\ Answers(u),
           NEW s \in Secondaries, SecondaryStep(s) \/ SecondaryFails(s), Alone(s)
    PROVE  \A u \in Secondaries : Answers(u)'
<1>1. Types /\ Answers(s) /\ sphase[s] \in Phases /\ UNCHANGED primary
      /\ Len(interactions[s]) \in Nat
  BY SMTT(30) DEF Inv, Types, DataTypes, Alone
<1>2. next[s] <= Len(interactions[s]) + 1 /\ (Shipping => ~Says(Down(s), "done"))
  BY DEF Work, Schedule, Load
<1>3. Answers(s)'
  <2>1. CASE Dial(s) \/ Trigger(s) \/ SleepOver(s)
    BY <1>1, <2>1, Moved, AnswersMoved
  <2>2. CASE ConnectionLost(s) \/ SecondaryFails(s)
    BY <1>1, <1>2, <2>2, Moved, AnswersLost
  <2>3. CASE PrepareClient(s) \/ PrepareInteraction(s) \/ PrepareDone(s) \/ WaitStart(s)
    <3>. DEFINE m == Head(toSec[s])
    <3>1. /\ SameUp(s) /\ Popped(Down(s), Down(s)', m)
          /\ \/ Moves(s, "prepare", "prepare")
             \/ Moves(s, "prepare", "failed")
             \/ Moves(s, "prepare", "decode") /\ m.kind = "done"
             \/ Moves(s, "waitStart", "run") /\ m.kind = "start"
      BY <1>1, <2>3, MessageRead DEF Gets, Moves
    <3>. HIDE DEF m
    <3>. QED BY <1>1, <3>1, AnswersRead
  <2>4. CASE InitRuntime(s)
    BY <1>1, <1>2, <2>4, Greeted, AnswersGreeted DEF Gets, Puts
  <2>5. CASE Decoded(s) \/ SyncReady(s)
    <3>1. /\ SameDown(s) /\ sphase[s] = "decode"
          /\ \/ sphase'[s] = "decode" /\ SameUp(s)
             \/ sphase'[s] = "waitStart" /\ Pushed(Up(s), Up(s)', Msg("done"))
      BY <1>1, <2>5, Reordered DEF Puts
    <3>2. ~Says(Down(s), "start")
      BY <3>1, NoStart DEF Synced
    <3>. QED BY <1>1, <3>1, <3>2, AnswersReady
  <2>6. CASE PushResult(s) \/ PushDone(s)
    <3>1. /\ SameDown(s) /\ SameStock(s) /\ sphase[s] = "stop"
          /\ \/ /\ sphase'[s] = "stop" /\ next'[s] = next[s] + 1
                /\ next[s] <= Len(interactions[s]) /\ Puts(s, Report(s, next[s]))
             \/ sphase'[s] = "over" /\ next[s] > Len(interactions[s]) /\ Puts(s, Msg("resultDone"))
      BY <1>1, <2>6, Reported
    <3>2. next[s] > Len(interactions[s]) => ~(next[s] <= Len(interactions[s]))
      BY SMTT(30), <1>1 DEF DataTypes
    <3>3. Pushed(Up(s), Up(s)', Answer(s, next[s]))
      BY <3>1, <3>2 DEF Puts, Answer
    <3>. QED BY <1>1, <3>1, <3>3, AnswersReported
  <2>. QED BY <2>1, <2>2, <2>3, <2>4, <2>5, <2>6 DEF SecondaryStep
<1>4. ASSUME NEW u \in Secondaries, u # s PROVE Answers(u)'
  <2>1. SameWork(u) /\ Down(u)' = Down(u) /\ Up(u)' = Up(u)
    BY <1>4 DEF Alone
  <2>2. /\ Alive' <=> Alive
        /\ Accepted(u)' <=> Accepted(u)
        /\ Greeting(u)' <=> Greeting(u)
        /\ Awaited(u)' <=> Awaited(u)
        /\ results'[u] = results[u]
    BY <1>1, SameHearing
  <2>. QED BY <2>1, <2>2, AnswersFrame
<1>. QED BY <1>3, <1>4

-----------------------------------------------------------------------------
(* The answers of the secondaries when the primary takes a step. *)

(* The steps that neither read nor write. *)
Idle ==
    \/ Listen \/ HandshakeFails \/ AcceptObserver \/ ObserversAccepted
    \/ SendPrepareFails \/ Prepared \/ ReadyFails \/ StartObserver \/ CollectFails \/ PrimaryFails

LEMMA IdleStep ==
    ASSUME Idle
    PROVE  /\ UNCHANGED <<slots, results, secondary, net>>
           /\ Alive' => Alive /\ pphase # "handshake"
           /\ (Alive' /\ pphase = "waitReady") => Over(slots[cursor])
<1>1. CASE Listen \/ AcceptObserver \/ ObserversAccepted \/ Prepared \/ StartObserver
  BY <1>1 DEF Listen, AcceptObserver, ObserversAccepted, Prepared, StartObserver, Alive
<1>2. CASE HandshakeFails \/ SendPrepareFails \/ CollectFails \/ PrimaryFails
  BY <1>2 DEF HandshakeFails, SendPrepareFails, CollectFails, PrimaryFails, Alive
<1>3. CASE ReadyFails
  BY <1>3 DEF ReadyFails, Alive
<1>. QED BY <1>1, <1>2, <1>3 DEF Idle

LEMMA IdleAnswers ==
    ASSUME \A u \in Secondaries : Answers(u), Idle
    PROVE  \A u \in Secondaries : Answers(u)'
<1>. TAKE u \in Secondaries
<1>1. /\ UNCHANGED <<slots, results, secondary, net>> /\ (Alive' => Alive /\ pphase # "handshake")
      /\ (Alive' /\ pphase = "waitReady") => Over(slots[cursor])
  BY IdleStep
<1>2. /\ Down(u)' = Down(u) /\ Up(u)' = Up(u) /\ SameWork(u) /\ results'[u] = results[u]
  BY <1>1 DEF Down, Up, Pipe, net, secondary, SameWork
<1>3. Accepted(u)' <=> Accepted(u)
  BY <1>1 DEF Accepted
<1>4. Alive' => /\ Alive /\ ~Greeting(u)
                /\ Awaited(u) => sphase[u] \in {"over", "failed"}
  BY <1>1 DEF Greeting, Awaited, Over
<1>. QED BY <1>2, <1>3, <1>4, AnswersFrame

(* The primary reads a message of s. *)
Reads(s, m) ==
    /\ Popped(Up(s), Up(s)', m) /\ UpKept(s)
    /\ \A u \in Secondaries : /\ Down(u)' = Down(u) /\ SameWork(u)
                              /\ Accepted(u)' <=> Accepted(u)

LEMMA ReadsStep ==
    ASSUME Types, NEW s \in Secondaries, NEW k, Receive(toPri, s, k),
           UNCHANGED <<slots, secondary, pbuf, toSec, sbuf>>
    PROVE  Reads(s, Head(toPri[s])) /\ Head(toPri[s]).kind = k
<1>1. Popped(Up(s), Up(s)', Head(toPri[s])) /\ Head(toPri[s]).kind = k /\ UpKept(s)
  BY UpPopped
<1>2. ASSUME NEW u \in Secondaries PROVE Down(u)' = Down(u) /\ SameWork(u)
  BY DEF Down, Pipe, secondary, SameWork
<1>3. ASSUME NEW u \in Secondaries PROVE Accepted(u)' <=> Accepted(u)
  BY DEF Accepted
<1>. QED BY <1>1, <1>2, <1>3 DEF Reads

(* Handshake and ReadyAnswered. *)
LEMMA SignalAnswers ==
    ASSUME Inv, DataTypes, \A u \in Secondaries : Answers(u), Handshake \/ ReadyAnswered
    PROVE  (\A u \in Secondaries : Answers(u)') /\ results' = results
<1>1. /\ UNCHANGED <<slots, results, secondary, pbuf, toSec, sbuf>> /\ Alive
  BY DEF Handshake, ReadyAnswered, Alive
<1>2. \E s \in Secondaries, k \in {"params", "done"} :
         /\ Receive(toPri, s, k)
         /\ k = "params" => pphase = "handshake"
         /\ k = "done" => pphase = "waitReady"
         /\ \A u \in Secondaries : u # s => ~Greeting(u) /\ ~Awaited(u)
  <2>1. CASE Handshake
    <3>1. pphase = "handshake" /\ Receive(toPri, slots[Len(slots)], "params")
      BY <2>1 DEF Handshake
    <3>2. slots[Len(slots)] \in Secondaries
      BY SMTT(30), <3>1 DEF Inv, Types, Slots
    <3>3. \A u \in Secondaries : u # slots[Len(slots)] => ~Greeting(u) /\ ~Awaited(u)
      BY <3>1 DEF Greeting, Awaited
    <3>. QED BY <3>1, <3>2, <3>3
  <2>2. CASE ReadyAnswered
    <3>1. pphase = "waitReady" /\ Receive(toPri, slots[cursor], "done")
      BY <2>2 DEF ReadyAnswered
    <3>2. slots[cursor] \in Secondaries
      BY <3>1, SlotHeld
    <3>3. \A u \in Secondaries : u # slots[cursor] => ~Greeting(u) /\ ~Awaited(u)
      BY <3>1 DEF Greeting, Awaited
    <3>. QED BY <3>1, <3>2, <3>3
  <2>. QED BY <2>1, <2>2
<1>3. PICK s \in Secondaries, k \in {"params", "done"} :
         /\ Receive(toPri, s, k)
         /\ k = "params" => pphase = "handshake"
         /\ k = "done" => pphase = "waitReady"
         /\ \A u \in Secondaries : u # s => ~Greeting(u) /\ ~Awaited(u)
  BY <1>2
<1>4. PICK m : Reads(s, m) /\ m.kind = k
  BY <1>1, <1>3, ReadsStep DEF Inv
<1>5. Len(results[s]) \in Nat /\ sphase[s] \in Phases /\ results'[s] = results[s]
  BY SMTT(30), <1>1 DEF DataTypes, Inv, Types
<1>6. Answers(s)'
  BY <1>1, <1>3, <1>4, <1>5, SignalRead DEF Reads
<1>7. ASSUME NEW u \in Secondaries, u # s PROVE Answers(u)'
  <2>1. /\ Down(u)' = Down(u) /\ Up(u)' = Up(u) /\ SameWork(u) /\ results'[u] = results[u]
        /\ Accepted(u)' <=> Accepted(u)
    BY <1>1, <1>4, <1>7 DEF Reads, UpKept
  <2>2. ~Greeting(u) /\ ~Awaited(u)
    BY <1>3, <1>7
  <2>. QED BY <1>1, <2>1, <2>2, AnswersFrame
<1>. QED BY <1>1, <1>6, <1>7

(* PullResult and Collected. *)
LEMMA CollectAnswers ==
    ASSUME Inv, DataTypes, \A u \in Secondaries : Answers(u) /\ Work(u), PullResult \/ Collected
    PROVE  \E s \in Secondaries :
              /\ s = slots[cursor] /\ DataTypes' /\ \A u \in Secondaries : Answers(u)'
              /\ \A u \in Secondaries : u # s => results'[u] = results[u]
              /\ Collected => sphase[s] = "over" /\ results' = results /\ results[s] = interactions[s]
<1>1. /\ UNCHANGED <<slots, secondary, pbuf, toSec, sbuf>> /\ pphase = "collect"
      /\ \A u \in Secondaries : ~Greeting(u) /\ ~Awaited(u) /\ Alive
  BY DEF PullResult, Collected, Greeting, Awaited, Alive
<1>2. PICK s \in Secondaries : s = slots[cursor]
  BY <1>1, SlotHeld
<1>3. sphase[s] \in Phases /\ results \in [Secondaries -> Seq(Entries)] /\ Types
      /\ next[s] <= Len(interactions[s]) + 1
  BY DEF Inv, Types, DataTypes, Work, Schedule
<1>4. ASSUME NEW u \in Secondaries, u # s, NEW m, Reads(s, m), results'[u] = results[u]
      PROVE  Answers(u)'
  BY <1>1, <1>4, AnswersFrame DEF Reads, UpKept
<1>5. CASE PullResult
  <2>1. PICK m : m = Head(toPri[s])
    OBVIOUS
  <2>2. PICK e : e = [id |-> m.id, client |-> m.index]
    OBVIOUS
  <2>3. Receive(toPri, s, "result") /\ results' = [results EXCEPT ![s] = Append(@, e)]
    BY <1>2, <1>5, <2>1, <2>2 DEF PullResult
  <2>4. Reads(s, m) /\ m.kind = "result" /\ results'[s] = Append(results[s], e)
    BY <1>1, <1>3, <2>1, <2>3, ReadsStep
  <2>5. ~Collected
    BY <1>2, <2>1, <2>4 DEF Collected, Receive
  <2>6. e \in Entries /\ Answers(s)'
    BY <1>3, <2>2, <2>4, ResultRead DEF Reads
  <2>7. results' \in [Secondaries -> Seq(Entries)] /\ \A u \in Secondaries : u # s => results'[u] = results[u]
    BY SMTT(30), <1>3, <2>3, <2>6
  <2>8. DataTypes'
    BY <1>1, <2>7 DEF DataTypes, secondary, Entries
  <2>. QED BY <1>2, <1>4, <2>4, <2>5, <2>6, <2>7, <2>8
<1>6. CASE Collected
  <2>1. Receive(toPri, s, "resultDone") /\ results' = results
    BY <1>2, <1>6 DEF Collected
  <2>2. PICK m : Reads(s, m) /\ m.kind = "resultDone"
    BY SMTT(30), <1>1, <1>3, <2>1, ReadsStep
  <2>3. sphase[s] = "over" /\ results[s] = interactions[s] /\ Answers(s)'
    BY <1>3, <2>1, <2>2, EndRead DEF Reads
  <2>4. DataTypes'
    BY <1>1, <2>1 DEF DataTypes, secondary, Entries
  <2>. QED BY <1>2, <1>4, <2>1, <2>2, <2>3, <2>4
<1>. QED BY <1>5, <1>6

-----------------------------------------------------------------------------
(* The primary writes to s, which it has accepted by then. *)
LEMMA WritesAnswers ==
    ASSUME \A u \in Secondaries : Answers(u), NEW s \in Secondaries, NEW m, Writes(s, m),
           pphase \notin {"failed", "handshake", "waitReady"},
           Accepted(s)', Accepted(s) \/ Greeting(s)', m.kind = "done" => Awaited(s)',
           \A u \in Secondaries : u # s => (Accepted(u)' <=> Accepted(u))
    PROVE  \A u \in Secondaries : Answers(u)'
<1>1. ASSUME NEW u \in Secondaries
      PROVE  /\ SameWork(u) /\ Up(u)' = Up(u) /\ results'[u] = results[u]
             /\ u # s => Down(u)' = Down(u)
  BY DEF Writes, DownKept, SameWork, secondary, Up, Pipe
<1>2. Alive /\ \A u \in Secondaries : ~Awaited(u) /\ ~Greeting(u)
  BY DEF Alive, Awaited, Greeting
<1>3. Answers(s)'
  BY <1>1, <1>2, AnswersWritten DEF Writes
<1>4. ASSUME NEW u \in Secondaries, u # s PROVE Answers(u)'
  BY <1>1, <1>2, <1>4, AnswersFrame
<1>. QED BY <1>3, <1>4

LEMMA AcceptAnswers ==
    ASSUME Inv, \A u \in Secondaries : Answers(u), NEW s \in Secondaries, Accept(s)
    PROVE  \A u \in Secondaries : Answers(u)'
<1>1. /\ pphase = "accept" /\ pphase' = "handshake" /\ Writes(s, Msg("params"))
      /\ Len(slots) \in Nat /\ Len(slots') = Len(slots) + 1 /\ slots'[Len(slots) + 1] = s
      /\ \A i \in 1..Len(slots) : slots'[i] = slots[i]
  BY AcceptStep
<1>2. Accepted(s)' /\ Greeting(s)'
  BY SMTT(30), <1>1 DEF Accepted, Greeting
<1>3. ASSUME NEW u \in Secondaries, u # s PROVE Accepted(u)' <=> Accepted(u)
  <2>1. \A i \in 1..(Len(slots) + 1) : i \in 1..Len(slots) \/ i = Len(slots) + 1
    BY SMTT(30), <1>1
  <2>2. \A i \in 1..Len(slots) : i \in 1..(Len(slots) + 1)
    BY SMTT(30), <1>1
  <2>. QED BY <1>1, <1>3, <2>1, <2>2 DEF Accepted
<1>4. Msg("params").kind # "done"
  BY DEF Msg
<1>. QED BY <1>1, <1>2, <1>3, <1>4, WritesAnswers

LEMMA SendAnswers ==
    ASSUME Inv, \A u \in Secondaries : Answers(u), SendPrepare
    PROVE  \A u \in Secondaries : Answers(u)'
<1>1. PICK s \in Secondaries : /\ Writes(s, Shipment(cursor)) /\ Plan[cursor].slot \in 1..Len(slots)
                               /\ slots[Plan[cursor].slot] = s
  BY SendStep
<1>2. pphase = "prepare" /\ cursor \in 1..Len(Plan) /\ slots' = slots
  BY SendStep
<1>3. Accepted(s)
  BY <1>1 DEF Accepted
<1>4. \A u \in Secondaries : Accepted(u)' <=> Accepted(u)
  BY <1>2 DEF Accepted
<1>5. Shipment(cursor).kind # "done"
  BY <1>2, PlanEntry DEF Shipment
<1>. QED BY <1>1, <1>2, <1>3, <1>4, <1>5, WritesAnswers

LEMMA StartAnswers ==
    ASSUME Inv, \A u \in Secondaries : Answers(u), Ready \/ Start
    PROVE  \A u \in Secondaries : Answers(u)'
<1>1. PICK s \in Secondaries, k \in {"done", "start"} :
         /\ s = slots[cursor] /\ Writes(s, Msg(k)) /\ slots' = slots
         /\ k = "done" => pphase = "sync" /\ pphase' = "waitReady" /\ cursor' = cursor
         /\ k = "start" => pphase = "start" /\ NextSlot("start", "startObservers")
  BY SignalStep
<1>2. pphase \in {"sync", "start"}
  BY <1>1
<1>3. Accepted(s)
  BY <1>1, <1>2, SlotHeld DEF Accepted
<1>4. \A u \in Secondaries : Accepted(u)' <=> Accepted(u)
  BY <1>1 DEF Accepted
<1>5. Msg(k).kind = "done" => Awaited(s)'
  BY <1>1 DEF Msg, Awaited
<1>. QED BY <1>1, <1>2, <1>3, <1>4, <1>5, WritesAnswers

-----------------------------------------------------------------------------
(* The secondaries collected so far gave everything. *)
LEMMA SecondaryCollection ==
    ASSUME Inv, DataTypes, Collection, NEW s \in Secondaries,
           SecondaryStep(s) \/ SecondaryFails(s), Alone(s)
    PROVE  Collection'
<1>1. UNCHANGED <<pphase, cursor, slots, results>> /\ NumSecondary' = NumSecondary
  BY DEF Alone, primary, NumSecondary
<1>2. sphase[s] # "over"
  BY DEF SecondaryStep, SecondaryFails, Dial, InitRuntime, PrepareClient, PrepareInteraction,
       PrepareDone, Decoded, SyncReady, WaitStart, Trigger, SleepOver, PushResult, PushDone,
       ConnectionLost, Over
<1>3. \A u \in Secondaries : Full(u) => Full(u)'
  BY <1>1, <1>2 DEF Alone, SameWork, Full
<1>4. \A i \in 1..Len(slots) : slots[i] \in Secondaries /\ slots'[i] = slots[i]
  BY SMTT(30), <1>1 DEF Inv, Types
<1>5. pphase = "collect" => \A i \in 1..(cursor - 1) : i \in 1..Len(slots)
  BY SMTT(30), SlotHeld
<1>6. pphase = "ok" => Len(slots) = NumSecondary
  BY DEF Inv, Slots, Late
<1>. QED BY <1>1, <1>3, <1>4, <1>5, <1>6 DEF Collection, Full

LEMMA PrimaryCollection ==
    ASSUME Inv, DataTypes, Collection, \A u \in Secondaries : Answers(u) /\ Work(u),
           PrimaryStep \/ PrimaryFails
    PROVE  Collection'
<1>1. CASE PullResult \/ Collected
  <2>1. PICK s \in Secondaries :
           /\ s = slots[cursor]
           /\ \A u \in Secondaries : u # s => results'[u] = results[u]
           /\ Collected => sphase[s] = "over" /\ results' = results /\ results[s] = interactions[s]
    BY <1>1, CollectAnswers
  <2>2. /\ pphase = "collect" /\ UNCHANGED <<slots, secondary>>
        /\ PullResult => pphase' = "collect" /\ cursor' = cursor
        /\ Collected => NextSlot("collect", "ok")
    BY <1>1 DEF PullResult, Collected
  <2>3. cursor \in 1..NumSecondary /\ NumSecondary \in Nat /\ Len(slots) = NumSecondary
    BY <2>2, SlotHeld
  <2>4. ASSUME NEW i \in 1..(cursor - 1) PROVE Full(slots[i])'
    <3>1. Full(slots[i]) /\ i \in 1..Len(slots) /\ i # cursor /\ cursor \in 1..Len(slots)
      BY SMTT(30), <2>2, <2>3 DEF Collection
    <3>2. slots[i] # s /\ slots[i] \in Secondaries
      BY SMTT(30), <2>1, <3>1 DEF Inv, Types
    <3>. QED BY <2>1, <2>2, <3>1, <3>2 DEF Full, secondary
  <2>5. Collected => Full(s)'
    BY <2>1, <2>2 DEF Full, secondary
  <2>6. NumSecondary' = NumSecondary
    BY DEF NumSecondary
  <2>7. CASE pphase' = "collect" /\ cursor' = cursor
    BY <2>2, <2>4, <2>6, <2>7 DEF Collection, Full
  <2>8. CASE Collected
    <3>1. \A i \in 1..cursor : Full(slots[i])'
      <4>1. \A i \in 1..cursor : i \in 1..(cursor - 1) \/ slots'[i] = s
        BY SMTT(30), <2>1, <2>2, <2>3
      <4>. QED BY <2>4, <2>5, <2>8, <4>1 DEF Full
    <3>2. \/ pphase' = "ok" /\ cursor = NumSecondary
          \/ pphase' = "collect" /\ cursor' = cursor + 1
      BY <2>2, <2>8 DEF NextSlot
    <3>3. cursor' = cursor + 1 => cursor' - 1 = cursor
      BY SMTT(30), <2>3
    <3>. QED BY <2>2, <2>6, <3>1, <3>2, <3>3 DEF Collection, Full
  <2>. QED BY <1>1, <2>2, <2>7, <2>8
<1>2. CASE StartObserver
  <2>1. pphase' \in {"startObservers", "collect"} /\ cursor' = 1
    BY <1>2 DEF StartObserver, Inv, Slots
  <2>. QED BY SMTT(30), <2>1 DEF Collection
<1>3. CASE \/ Listen \/ Handshake \/ HandshakeFails \/ AcceptObserver \/ ObserversAccepted
           \/ SendPrepareFails \/ Prepared \/ CollectFails \/ PrimaryFails
  BY <1>3 DEF Collection, Listen, Handshake, HandshakeFails, AcceptObserver, ObserversAccepted,
       SendPrepareFails, Prepared, CollectFails, PrimaryFails
<1>4. CASE \/ SendPrepare \/ Ready \/ ReadyAnswered \/ ReadyFails \/ Start
           \/ \E s \in Secondaries : Accept(s)
  BY <1>4 DEF Collection, SendPrepare, Ready, ReadyAnswered, ReadyFails, Start, Accept, NextSlot
<1>. QED BY <1>1, <1>2, <1>3, <1>4 DEF PrimaryStep

(* What the primary counts, and the phases it passes. *)
LEMMA BookkeepingStep ==
    ASSUME Inv, Bookkeeping, Next
    PROVE  Bookkeeping'
<1>. DEFINE P == Early \cup Late \cup {"failed"}
            SameCounts == UNCHANGED <<observers, started, pclosed, failures>>
<1>1. NumObserver \in Nat /\ MaxFailures \in Nat /\ observers \in Nat /\ started \in Nat /\ failures \in Nat
  BY SMTT(30), BoundAssumption DEF Bookkeeping
<1>2. CASE \/ Listen \/ Handshake \/ HandshakeFails \/ ObserversAccepted \/ SendPrepareFails
           \/ Prepared \/ CollectFails \/ \E s \in Secondaries : Accept(s)
  <2>1. pphase' \in P /\ SameCounts
    BY <1>2 DEF Listen, Handshake, HandshakeFails, ObserversAccepted, SendPrepareFails, Prepared,
         CollectFails, Accept, Early, Late
  <2>. QED BY <2>1 DEF Bookkeeping
<1>3. CASE \/ SendPrepare \/ Ready \/ ReadyAnswered \/ ReadyFails \/ Start \/ PullResult
  <2>1. pphase' \in P /\ SameCounts
    BY <1>3 DEF SendPrepare, Ready, ReadyAnswered, ReadyFails, Start, PullResult, NextSlot, Early, Late
  <2>. QED BY <2>1 DEF Bookkeeping
<1>4. CASE AcceptObserver \/ StartObserver
  BY SMTT(30), <1>1, <1>4 DEF AcceptObserver, StartObserver, Bookkeeping, Late
<1>5. CASE Collected
  <2>1. slots[cursor] \in Secondaries
    BY <1>5, SlotHeld DEF Collected
  <2>. QED BY <1>5, <2>1 DEF Collected, Bookkeeping, NextSlot, Late
<1>6. CASE PrimaryFails
  BY SMTT(30), <1>1, <1>6 DEF PrimaryFails, Fail, Bookkeeping
<1>7. ASSUME NEW s \in Secondaries, SecondaryStep(s) PROVE Bookkeeping'
  <2>1. UNCHANGED <<primary, failures>>
    BY <1>7 DEF SecondaryStep, Dial, InitRuntime, PrepareClient, PrepareInteraction,
         PrepareDone, Decoded, SyncReady, WaitStart, Trigger, SleepOver, PushResult, PushDone,
         ConnectionLost
  <2>. QED BY <2>1 DEF Bookkeeping, primary
<1>8. ASSUME NEW s \in Secondaries, SecondaryFails(s) PROVE Bookkeeping'
  BY SMTT(30), <1>1, <1>8 DEF SecondaryFails, Fail, Bookkeeping, primary
<1>. QED BY <1>2, <1>3, <1>4, <1>5, <1>6, <1>7, <1>8 DEF Next, PrimaryStep

-----------------------------------------------------------------------------
(* The invariant. *)
LEMMA SessionInit ==
    Init => SessionInv
<1>. SUFFICES ASSUME Init PROVE SessionInv
  OBVIOUS
<1>1. /\ pbuf = Each(<<>>) /\ toSec = Each(<<>>) /\ sbuf = Each(<<>>) /\ toPri = Each(<<>>)
      /\ slots = <<>> /\ cursor = 1 /\ pphase = "builder"
  BY DEF Init
<1>2. Wires(Each(<<>>), Each(<<>>))
  BY SMTT(30) DEF Wires, Each
<1>3. \A s \in Secondaries : Len(Down(s)) = 0 /\ Len(Up(s)) = 0
  BY SMTT(30), <1>1 DEF Down, Up, Pipe, Each
<1>4. \A s \in Secondaries : \A k : ~Says(Down(s), k) /\ ~Says(Up(s), k)
  BY SMTT(30), <1>3 DEF Says
<1>5. Inv
  <2>1. Types
    BY SMTT(30), <1>1, <1>2 DEF Init, Types, Each, Phases
  <2>2. Slots
    BY <1>1 DEF Slots, Late
  <2>3. Barrier
    BY <1>1, <1>4 DEF Init, Barrier, Each
  <2>. QED BY <2>1, <2>2, <2>3 DEF Inv
<1>6. DataTypes /\ Collection
  BY SMTT(30), <1>1 DEF Init, DataTypes, Collection, Each
<1>7. Counting /\ Limit = 1 /\ Shipping
  BY SMTT(30), <1>1, Numbers DEF Counting, Limit, Shipping, Early
<1>8. Bookkeeping
  BY SMTT(30), BoundAssumption DEF Init, Bookkeeping, Early
<1>9. ASSUME NEW s \in Secondaries PROVE Work(s) /\ Answers(s)
  <2>1. /\ sphase[s] = "dial" /\ decoding[s] = {} /\ interactions[s] = <<>> /\ next[s] = 1
        /\ results[s] = <<>>
    BY DEF Init, Each
  <2>2. Load(s)
    BY SMTT(30), <1>3, <1>4, <2>1 DEF Load, Lot, Past
  <2>3. Known(s) = {}
    BY SMTT(30), <2>1 DEF Known, Elements
  <2>4. Stock(s)
    BY <2>3 DEF Stock, Ahead
  <2>5. Schedule(s)
    BY SMTT(30), <2>1 DEF Schedule, Distinct, Past
  <2>6. Lossless(s)
    BY SMTT(30), <1>7 DEF Lossless, Share
  <2>7. Opening(s) /\ Closing(s)
    BY SMTT(30), <1>1, <1>3, <2>1 DEF Opening, Closing, Quiet, Accepted
  <2>. QED BY <2>2, <2>4, <2>5, <2>6, <2>7 DEF Work, Answers
<1>. QED BY <1>5, <1>6, <1>7, <1>8, <1>9 DEF SessionInv

LEMMA SessionStutter ==
    ASSUME SessionInv, UNCHANGED vars
    PROVE  SessionInv'
<1>1. UNCHANGED <<primary, secondary, net, failures>>
  BY DEF vars
<1>2. \A u \in Secondaries : /\ SameWork(u) /\ Down(u)' = Down(u) /\ Up(u)' = Up(u)
  BY <1>1 DEF SameWork, secondary, net, Down, Up, Pipe
<1>3. Inv'
  BY <1>1 DEF vars, primary, secondary, net, SessionInv, Inv, Types, Slots, NumSecondary, Barrier,
       AllSynced, Synced, Up, Down, Pipe
<1>4. DataTypes' /\ Counting' /\ Collection' /\ Bookkeeping'
  <2>. USE <1>1 DEF vars, primary, secondary, SessionInv
  <2>1. DataTypes'
    <3>1. DataTypes /\ UNCHANGED <<decoding, interactions, results, next>>
      OBVIOUS
    <3>. QED BY ONLY Zenon, <3>1 DEF DataTypes, Entries
  <2>2. Counting'
    BY DEF Counting, NumSecondary
  <2>3. Collection'
    BY DEF Collection, NumSecondary, Full
  <2>4. Bookkeeping'
    BY DEF Bookkeeping
  <2>. QED BY <2>1, <2>2, <2>3, <2>4
<1>5. ASSUME NEW u \in Secondaries PROVE Work(u)' /\ Answers(u)'
  <2>1. Limit \in Nat
    BY SMTT(30), PlanLen DEF SessionInv, Inv, Types, Limit
  <2>2. Share(u)' = Share(u) /\ Limit' = Limit /\ Shipping' = Shipping /\ pphase' = pphase
    BY <1>1, SameShare
  <2>3. Work(u)'
    BY SMTT(30), <1>2, <2>1, <2>2, WorkFrame DEF SessionInv
  <2>4. /\ Alive' <=> Alive
        /\ Accepted(u)' <=> Accepted(u)
        /\ Greeting(u)' <=> Greeting(u)
        /\ Awaited(u)' <=> Awaited(u)
        /\ results'[u] = results[u]
    BY <1>1, SameHearing
  <2>5. Answers(u)'
    BY <1>2, <2>4, AnswersFrame DEF SessionInv
  <2>. QED BY <2>3, <2>5
<1>. QED BY <1>3, <1>4, <1>5 DEF SessionInv

LEMMA SessionStep ==
    SessionInv /\ [Next]_vars => SessionInv'
<1>. SUFFICES ASSUME SessionInv, [Next]_vars PROVE SessionInv'
  OBVIOUS
<1>1. /\ Inv /\ DataTypes /\ Counting /\ Collection /\ Bookkeeping
      /\ \A u \in Secondaries : Work(u) /\ Answers(u)
  BY DEF SessionInv
<1>2. ASSUME NEW s \in Secondaries, SecondaryStep(s) \/ SecondaryFails(s) PROVE SessionInv'
  <2>1. Alone(s) /\ DataTypes' /\ \A u \in Secondaries : Work(u)'
    BY <1>1, <1>2, SecondaryWork
  <2>2. Inv'
    BY <1>1, <1>2, SecondaryInv
  <2>3. \A u \in Secondaries : Answers(u)'
    BY <1>1, <1>2, <2>1, SecondaryAnswers
  <2>4. Collection'
    BY <1>1, <1>2, <2>1, SecondaryCollection
  <2>5. Counting'
    BY <1>1, <2>1 DEF Counting, Alone, primary, NumSecondary
  <2>6. Bookkeeping'
    BY <1>1, <1>2, BookkeepingStep DEF Next
  <2>. QED BY <2>1, <2>2, <2>3, <2>4, <2>5, <2>6 DEF SessionInv
<1>3. CASE PrimaryStep \/ PrimaryFails
  <2>1. Inv' /\ Counting' /\ \A u \in Secondaries : Work(u)'
    <3>1. CASE Listens
      BY <1>1, <3>1, ListensInv, ListensWork
    <3>2. CASE \E s \in Secondaries : Accept(s)
      BY <1>1, <3>2, AcceptInv, AcceptWork
    <3>3. CASE SendPrepare
      BY <1>1, <3>3, SendInv, SendWork
    <3>4. CASE Ready \/ Start
      BY <1>1, <3>4, SignalInv, SignalWork
    <3>. QED BY <1>3, <3>1, <3>2, <3>3, <3>4 DEF PrimaryStep, Listens
  <2>2. DataTypes' /\ \A u \in Secondaries : Answers(u)'
    <3>1. results' = results => DataTypes'
      <4>1. UNCHANGED secondary
        BY <1>3 DEF PrimaryStep, Listen, Accept, Handshake, HandshakeFails, AcceptObserver,
             ObserversAccepted, SendPrepare, SendPrepareFails, Prepared, Ready, ReadyAnswered,
             ReadyFails, Start, StartObserver, PullResult, Collected, CollectFails, PrimaryFails
      <4>. QED BY <1>1, <4>1 DEF DataTypes, secondary, Entries
    <3>2. CASE Idle
      BY <1>1, <3>1, <3>2, IdleStep, IdleAnswers
    <3>3. CASE Handshake \/ ReadyAnswered
      BY <1>1, <3>1, <3>3, SignalAnswers
    <3>4. CASE PullResult \/ Collected
      BY <1>1, <3>4, CollectAnswers
    <3>5. CASE \E s \in Secondaries : Accept(s)
      BY <1>1, <3>1, <3>5, AcceptAnswers DEF Accept
    <3>6. CASE SendPrepare \/ Ready \/ Start
      BY <1>1, <3>1, <3>6, SendAnswers, StartAnswers DEF SendPrepare, Ready, Start
    <3>. QED BY <1>3, <3>2, <3>3, <3>4, <3>5, <3>6 DEF PrimaryStep, Idle
  <2>3. Collection'
    BY <1>1, <1>3, PrimaryCollection
  <2>4. Bookkeeping'
    BY <1>1, <1>3, BookkeepingStep DEF Next
  <2>. QED BY <2>1, <2>2, <2>3, <2>4 DEF SessionInv
<1>. QED BY <1>2, <1>3, SessionStutter DEF Next

-----------------------------------------------------------------------------
(* The types of the connections. *)

LEMMA FlushTyped ==
    ASSUME NEW M, NEW b \in [Secondaries -> Seq(M)], NEW w \in [Secondaries -> Seq(M)],
           NEW s \in Secondaries, NEW m \in M
    PROVE  /\ Flushed(b, w, s, m) \in [Secondaries -> Seq(M)]
           /\ Emptied(b, s) \in [Secondaries -> Seq(M)]
<1>1. w[s] \o Append(b[s], m) \in Seq(M) /\ <<>> \in Seq(M)
  BY SMTT(30)
<1>. QED BY <1>1 DEF Flushed, Emptied

LEMMA BufferTyped ==
    ASSUME NEW M, NEW b \in [Secondaries -> Seq(M)], NEW w \in [Secondaries -> Seq(M)],
           NEW s \in Secondaries, NEW m \in M, NEW n \in 0..Len(Append(b[s], m))
    PROVE  /\ Sent(b, w, s, m, n) \in [Secondaries -> Seq(M)]
           /\ Kept(b, s, m, n) \in [Secondaries -> Seq(M)]
<1>. DEFINE all == Append(b[s], m)
<1>1. all \in Seq(M) /\ w[s] \in Seq(M) /\ n \in 0..Len(all)
  BY SMTT(30)
<1>. HIDE DEF all
<1>2. w[s] \o SubSeq(all, 1, n) \in Seq(M) /\ SubSeq(all, n + 1, Len(all)) \in Seq(M)
  BY SMTT(30), <1>1
<1>. QED BY <1>2 DEF Sent, Kept, all

LEMMA ReceiveTyped ==
    ASSUME NEW M, NEW w \in [Secondaries -> Seq(M)], NEW s \in Secondaries, w[s] # <<>>
    PROVE  Received(w, s) \in [Secondaries -> Seq(M)] /\ Head(w[s]) \in M
<1>1. Tail(w[s]) \in Seq(M) /\ Head(w[s]) \in M
  BY SMTT(30)
<1>. QED BY <1>1 DEF Received

(* What a step that writes to or reads from a connection makes of it. *)
Downward == pbuf \in [Secondaries -> Seq(ToSecondary)] /\ toSec \in [Secondaries -> Seq(ToSecondary)]
Upward == sbuf \in [Secondaries -> Seq(ToPrimary)] /\ toPri \in [Secondaries -> Seq(ToPrimary)]

LEMMA Signals ==
    /\ Msg("params") \in ToSecondary /\ Msg("done") \in ToSecondary /\ Msg("start") \in ToSecondary
    /\ Msg("params") \in ToPrimary /\ Msg("done") \in ToPrimary /\ Msg("resultDone") \in ToPrimary
BY DEF ToSecondary, ToPrimary

LEMMA DownFlushed ==
    ASSUME Downward, NEW s \in Secondaries, NEW m \in ToSecondary, Flush(pbuf, toSec, s, m)
    PROVE  Downward'
<1>1. toSec' = Flushed(pbuf, toSec, s, m) /\ pbuf' = Emptied(pbuf, s)
  BY DEF Flush, Flushed, Emptied
<1>. QED BY <1>1, FlushTyped DEF Downward

LEMMA UpFlushed ==
    ASSUME Upward, NEW s \in Secondaries, NEW m \in ToPrimary, Flush(sbuf, toPri, s, m)
    PROVE  Upward'
<1>1. toPri' = Flushed(sbuf, toPri, s, m) /\ sbuf' = Emptied(sbuf, s)
  BY DEF Flush, Flushed, Emptied
<1>. QED BY <1>1, FlushTyped DEF Upward

LEMMA DownRead ==
    ASSUME Downward, NEW s \in Secondaries, NEW k, Receive(toSec, s, k), UNCHANGED pbuf
    PROVE  Downward' /\ Head(toSec[s]) \in ToSecondary /\ Head(toSec[s]).kind = k
<1>1. toSec[s] # <<>> /\ toSec' = Received(toSec, s) /\ Head(toSec[s]).kind = k
  BY DEF Receive, Received
<1>. QED BY <1>1, ReceiveTyped DEF Downward

LEMMA UpRead ==
    ASSUME Upward, NEW s \in Secondaries, NEW k, Receive(toPri, s, k), UNCHANGED sbuf
    PROVE  Upward'
<1>1. toPri[s] # <<>> /\ toPri' = Received(toPri, s)
  BY DEF Receive, Received
<1>. QED BY <1>1, ReceiveTyped DEF Upward

LEMMA UpBuffered ==
    ASSUME Upward, NEW s \in Secondaries, NEW m \in ToPrimary, Buffer(sbuf, toPri, s, m)
    PROVE  Upward'
<1>1. PICK n \in 0..Len(Append(sbuf[s], m)) :
        toPri' = Sent(sbuf, toPri, s, m, n) /\ sbuf' = Kept(sbuf, s, m, n)
  BY DEF Buffer, Sent, Kept
<1>. QED BY <1>1, BufferTyped DEF Upward

LEMMA DownBuffered ==
    ASSUME Downward, NEW s \in Secondaries, NEW m \in ToSecondary, Buffer(pbuf, toSec, s, m)
    PROVE  Downward'
<1>1. PICK n \in 0..Len(Append(pbuf[s], m)) :
        toSec' = Sent(pbuf, toSec, s, m, n) /\ pbuf' = Kept(pbuf, s, m, n)
  BY DEF Buffer, Sent, Kept
<1>. QED BY <1>1, BufferTyped DEF Downward

(* A step of the primary keeps them. *)
LEMMA PrimaryConnections ==
    ASSUME Inv, Connections, PrimaryStep \/ PrimaryFails
    PROVE  Connections'
<1>1. Downward /\ Upward
  BY DEF Connections, Downward, Upward
<1>2. clients' = clients
  BY DEF PrimaryStep, Listen, Accept, Handshake, HandshakeFails, AcceptObserver,
       ObserversAccepted, SendPrepare, SendPrepareFails, Prepared, Ready, ReadyAnswered,
       ReadyFails, Start, StartObserver, PullResult, Collected, CollectFails, PrimaryFails, secondary
<1>3. SUFFICES Downward' /\ Upward'
  BY <1>2 DEF Connections, Downward, Upward
<1>4. CASE \/ Listen \/ HandshakeFails \/ AcceptObserver \/ ObserversAccepted \/ SendPrepareFails
           \/ Prepared \/ ReadyFails \/ StartObserver \/ CollectFails \/ PrimaryFails
  <2>1. UNCHANGED net
    BY <1>4 DEF Listen, HandshakeFails, AcceptObserver, ObserversAccepted, SendPrepareFails,
         Prepared, ReadyFails, StartObserver, CollectFails, PrimaryFails
  <2>. QED BY <1>1, <2>1 DEF net, Downward, Upward
<1>5. CASE \E s \in Secondaries : Accept(s)
  <2>1. PICK s \in Secondaries : Flush(pbuf, toSec, s, Msg("params")) /\ UNCHANGED <<sbuf, toPri>>
    BY <1>5 DEF Accept
  <2>. QED BY <1>1, <2>1, Signals, DownFlushed DEF Upward
<1>6. CASE Ready \/ Start
  <2>1. slots[cursor] \in Secondaries
    BY <1>6, SlotHeld DEF Ready, Start
  <2>2. PICK m \in ToSecondary : Flush(pbuf, toSec, slots[cursor], m) /\ UNCHANGED <<sbuf, toPri>>
    BY <1>6, Signals DEF Ready, Start
  <2>. QED BY <1>1, <2>1, <2>2, DownFlushed DEF Upward
<1>7. CASE SendPrepare
  <2>1. /\ cursor \in 1..Len(Plan) /\ Plan[cursor].slot \in 1..NumSecondary
        /\ cursor \in DOMAIN Plan
    BY SMTT(30), <1>7, PlanLen, PlanEntry DEF SendPrepare, Inv, Types
  <2>2. slots[Plan[cursor].slot] \in Secondaries
    BY SMTT(30), <1>7, <2>1 DEF SendPrepare, Inv, Types, Slots, Late
  <2>3. [kind |-> Plan[cursor].kind, index |-> Plan[cursor].index, time |-> Plan[cursor].time,
         id |-> cursor] \in ToSecondary
    BY <2>1, PlanEntry DEF ToSecondary
  <2>. QED BY <1>1, <1>7, <2>2, <2>3, DownBuffered DEF SendPrepare, Upward
<1>8. CASE ReadyAnswered \/ PullResult \/ Collected
  <2>1. slots[cursor] \in Secondaries
    BY <1>8, SlotHeld DEF ReadyAnswered, PullResult, Collected
  <2>2. PICK k : Receive(toPri, slots[cursor], k) /\ UNCHANGED <<pbuf, toSec, sbuf>>
    BY <1>8 DEF ReadyAnswered, PullResult, Collected
  <2>. QED BY <1>1, <2>1, <2>2, UpRead DEF Downward
<1>9. CASE Handshake
  <2>1. slots[Len(slots)] \in Secondaries
    BY SMTT(30), <1>9 DEF Handshake, Inv, Types, Slots
  <2>2. Receive(toPri, slots[Len(slots)], "params") /\ UNCHANGED <<pbuf, toSec, sbuf>>
    BY <1>9 DEF Handshake
  <2>. QED BY <1>1, <2>1, <2>2, UpRead DEF Downward
<1>. QED BY <1>4, <1>5, <1>6, <1>7, <1>8, <1>9 DEF PrimaryStep

(* A step of a secondary keeps them. *)
LEMMA SecondaryConnections ==
    ASSUME DataTypes, Connections, NEW s \in Secondaries, SecondaryStep(s) \/ SecondaryFails(s)
    PROVE  Connections'
<1>1. Downward /\ Upward /\ clients \in [Secondaries -> SUBSET Nat]
  BY DEF Connections, Downward, Upward
<1>2. SUFFICES Downward' /\ Upward' /\ clients' \in [Secondaries -> SUBSET Nat]
  BY DEF Connections, Downward, Upward
<1>3. CASE Dial(s) \/ Decoded(s) \/ Trigger(s) \/ SleepOver(s) \/ ConnectionLost(s) \/ SecondaryFails(s)
  <2>1. UNCHANGED <<net, clients>>
    BY <1>3 DEF Dial, Decoded, Trigger, SleepOver, ConnectionLost, SecondaryFails
  <2>. QED BY <1>1, <2>1 DEF net, Downward, Upward
<1>4. CASE InitRuntime(s)
  <2>1. /\ Receive(toSec, s, "params") /\ Flush(sbuf, toPri, s, Msg("params"))
        /\ UNCHANGED <<pbuf, clients>>
    BY <1>4 DEF InitRuntime
  <2>2. Downward'
    BY <1>1, <2>1, DownRead
  <2>3. Upward'
    BY <1>1, <2>1, Signals, UpFlushed
  <2>. QED BY <1>1, <2>1, <2>2, <2>3
<1>5. CASE PrepareClient(s)
  <2>1. /\ Receive(toSec, s, "client") /\ UNCHANGED <<pbuf, sbuf, toPri>>
        /\ clients' = [clients EXCEPT ![s] = @ \cup {Head(toSec[s]).index}]
    BY <1>5 DEF PrepareClient
  <2>2. Downward' /\ Head(toSec[s]) \in ToSecondary /\ Head(toSec[s]).kind = "client"
    BY <1>1, <2>1, DownRead
  <2>3. \A h \in ToSecondary : h.kind = "client" => h.index \in Nat
    BY SMTT(30) DEF ToSecondary, Msg
  <2>. QED BY <1>1, <2>1, <2>2, <2>3 DEF Upward
<1>6. CASE PrepareInteraction(s) \/ PrepareDone(s) \/ WaitStart(s)
  <2>1. PICK k : Receive(toSec, s, k) /\ UNCHANGED <<pbuf, sbuf, toPri, clients>>
    BY <1>6 DEF PrepareInteraction, PrepareDone, WaitStart
  <2>. QED BY <1>1, <2>1, DownRead DEF Upward
<1>7. CASE SyncReady(s) \/ PushDone(s)
  <2>1. PICK m \in ToPrimary : Flush(sbuf, toPri, s, m) /\ UNCHANGED <<pbuf, toSec, clients>>
    BY <1>7, Signals DEF SyncReady, PushDone
  <2>. QED BY <1>1, <2>1, UpFlushed DEF Downward
<1>8. CASE PushResult(s)
  <2>1. interactions[s] \in Seq(Entries) /\ next[s] \in Nat \ {0}
    BY DEF DataTypes
  <2>2. interactions[s][next[s]] \in Entries
    BY SMTT(30), <1>8, <2>1 DEF PushResult
  <2>3. [kind |-> "result", id |-> interactions[s][next[s]].id,
         index |-> interactions[s][next[s]].client] \in ToPrimary
    BY <2>2 DEF ToPrimary, Entries
  <2>. QED BY <1>1, <1>8, <2>3, UpBuffered DEF PushResult, Downward
<1>. QED BY <1>3, <1>4, <1>5, <1>6, <1>7, <1>8 DEF SecondaryStep

LEMMA ConnectionsStep ==
    SessionInv /\ Connections /\ [Next]_vars => Connections'
<1>. SUFFICES ASSUME SessionInv, Connections, [Next]_vars PROVE Connections'
  OBVIOUS
<1>1. Inv /\ DataTypes
  BY DEF SessionInv
<1>2. CASE UNCHANGED vars
  <2>1. UNCHANGED <<pbuf, toSec, sbuf, toPri, clients>>
    BY <1>2 DEF vars, net, secondary
  <2>. QED BY <2>1 DEF Connections
<1>3. CASE PrimaryStep \/ PrimaryFails
  BY <1>1, <1>3, PrimaryConnections
<1>4. CASE \E s \in Secondaries : SecondaryStep(s) \/ SecondaryFails(s)
  BY <1>1, <1>4, SecondaryConnections
<1>. QED BY <1>2, <1>3, <1>4 DEF Next

LEMMA ConnectionsInit ==
    Init => Connections
<1>1. <<>> \in Seq(ToSecondary) /\ <<>> \in Seq(ToPrimary)
  BY SMTT(30)
<1>2. Each(<<>>) \in [Secondaries -> Seq(ToSecondary)] /\ Each(<<>>) \in [Secondaries -> Seq(ToPrimary)]
  BY <1>1 DEF Each
<1>3. Each({}) \in [Secondaries -> SUBSET Nat]
  BY DEF Each
<1>. QED BY <1>2, <1>3 DEF Init, Connections

-----------------------------------------------------------------------------
(* The theorems. *)
LEMMA SessionAlways ==
    Spec => []SessionInv
  BY SessionInit, SessionStep, PTL DEF Spec

(* Whatever fails in a session, and although ready() of the primary goes   *)
(* on after an error, no secondary runs its load while another is still    *)
(* preparing its own.                                                      *)
THEOREM StartBarrierAlways ==
    Spec => []StartBarrier
<1>1. SessionInv => StartBarrier
  BY DEF SessionInv, Inv, Barrier, StartBarrier, AllSynced, Synced
<1>. QED BY <1>1, SessionAlways, PTL

(* The counters of the primary stay within the plan and the secondaries,   *)
(* every message on a connection is one its reader knows, with fields of   *)
(* the types the reader stores, and a secondary stores no more than the    *)
(* plan has, under a client index of one byte.                             *)
THEOREM SessionTypeCorrect ==
    Spec => []TypeOK
<1>1. Spec => []Connections
  BY ConnectionsInit, ConnectionsStep, SessionAlways, PTL DEF Spec
<1>2. SessionInv /\ Connections => TypeOK
  BY InvariantTypes
<1>. QED BY <1>1, <1>2, SessionAlways, PTL

(* When Run of the primary returns a result and no client index passes the *)
(* byte that decodeMsgPrepareInteraction keeps, the result holds one entry *)
(* for every interaction generated for each secondary, under the client it *)
(* was generated for and in the order of the schedule.                     *)
THEOREM ResultsCompleteAlways ==
    ASSUME \A i \in DOMAIN Plan : Plan[i].kind = "iact" => Plan[i].index < 256
    PROVE  Spec => []ResultsComplete
<1>1. SessionInv => ResultsComplete
  BY InvariantComplete
<1>. QED BY <1>1, SessionAlways, PTL
=============================================================================
