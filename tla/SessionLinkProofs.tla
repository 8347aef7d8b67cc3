-------------------------- MODULE SessionLinkProofs ---------------------------
(***************************************************************************)
(* What one step does to one secondary of Session: the connections as      *)
(* queues, the operations of a secondary in terms of them, and the steps   *)
(* that keep the work and the answers of that secondary.                   *)
(***************************************************************************)
EXTENDS SessionInvariant, TLAPS

USE ZenonT(40)

LEMMA SeqEqual ==
    ASSUME NEW S, NEW a \in Seq(S), NEW b \in Seq(S), Len(a) = Len(b),
           \A i \in 1..Len(a) : a[i] = b[i]
    PROVE  a = b
  BY SMTT(30)

LEMMA AppendIndex ==
    ASSUME NEW S, NEW l \in Seq(S), NEW e \in S
    PROVE  /\ Append(l, e) \in Seq(S) /\ Len(Append(l, e)) = Len(l) + 1
           /\ Append(l, e)[Len(l) + 1] = e
           /\ \A i \in 1..Len(l) : Append(l, e)[i] = l[i]
  BY SMTT(30)

LEMMA SeqGrows ==
    ASSUME NEW S, NEW m, NEW l \in Seq(S)
    PROVE  l \in Seq(S \cup {m})
  BY SMTT(30)


-----------------------------------------------------------------------------
LEMMA PlanEntry ==
    ASSUME NEW i \in 1..Len(Plan)
    PROVE  /\ Plan[i].slot \in 1..NumSecondary /\ Plan[i].kind \in {"client", "iact"}
           /\ Plan[i].index \in Nat /\ Plan[i].time \in Nat
<1>. DEFINE E == [slot : 1..NumSecondary, kind : {"client", "iact"}, index : Nat, time : Nat]
<1>1. Plan \in Seq(E)
  BY PlanAssumption
<1>. HIDE DEF E
<1>2. Plan[i] \in E
  BY SMTT(30), <1>1
<1>. QED BY <1>2 DEF E

LEMMA PlanLen == Len(Plan) \in Nat /\ DOMAIN Plan = 1..Len(Plan)
  BY SMTT(30), PlanAssumption


-----------------------------------------------------------------------------
(* A connection is a queue: what Flush, Buffer and Receive do to the       *)
(* messages on the wire followed by those in the buffer.                   *)
Pushed(q, q2, m) ==
    /\ Len(q) \in Nat /\ Len(q2) = Len(q) + 1
    /\ \A i \in 1..Len(q) : q2[i] = q[i]
    /\ q2[Len(q) + 1] = m

Popped(q, q2, m) ==
    /\ Len(q) \in Nat \ {0} /\ Len(q2) = Len(q) - 1 /\ q[1] = m
    /\ \A i \in 1..Len(q2) : q2[i] = q[i + 1]

LEMMA Concat ==
    ASSUME NEW S, NEW l \in Seq(S), NEW r \in Seq(S)
    PROVE  /\ l \o r \in Seq(S) /\ Len(l \o r) = Len(l) + Len(r)
           /\ \A i \in 1..Len(l) : (l \o r)[i] = l[i]
           /\ Len(l) \in Nat /\ Len(r) \in Nat /\ Len(l \o r) \in Nat
<1>1. l \o r \in Seq(S) /\ Len(l) \in Nat /\ Len(r) \in Nat
  BY SMTT(30)
<1>2. Len(l \o r) = Len(l) + Len(r)
  BY SMTT(30)
<1>3. \A i \in 1..Len(l) : (l \o r)[i] = l[i]
  BY SMTT(30)
<1>4. Len(l \o r) \in Nat
  BY SMTT(30), <1>1
<1>. QED BY <1>1, <1>2, <1>3, <1>4

LEMMA ConcatAppend ==
    ASSUME NEW S, NEW l \in Seq(S), NEW r \in Seq(S), NEW m \in S
    PROVE  Pushed(l \o r, l \o Append(r, m), m)
<1>. DEFINE q == l \o r
            a == Append(r, m)
            q2 == l \o a
<1>1. /\ Len(q) = Len(l) + Len(r) /\ Len(l) \in Nat /\ Len(r) \in Nat
      /\ a \in Seq(S) /\ Len(a) = Len(r) + 1 /\ Len(q2) = Len(l) + Len(r) + 1
  BY SMTT(30)
<1>2. a[Len(r) + 1] = m /\ \A i \in 1..Len(r) : a[i] = r[i]
  BY SMTT(30)
<1>. HIDE DEF a
<1>3. q2[Len(l) + Len(r) + 1] = a[Len(r) + 1]
  BY SMTT(30), <1>1
<1>4. ASSUME NEW i \in 1..Len(q) PROVE q2[i] = q[i]
  <2>1. CASE i <= Len(l)
    BY SMTT(30), <1>1, <2>1
  <2>2. CASE i > Len(l)
    <3>1. q2[i] = a[i - Len(l)] /\ q[i] = r[i - Len(l)] /\ i - Len(l) \in 1..Len(r)
      BY SMTT(30), <1>1, <2>2
    <3>. QED BY <1>2, <3>1
  <2>. QED BY SMTT(30), <1>1, <2>1, <2>2
<1>. HIDE DEF q, q2
<1>5. Pushed(q, q2, m)
  BY SMTT(30), <1>1, <1>2, <1>3, <1>4 DEF Pushed
<1>. QED BY <1>5 DEF q, q2, a

LEMMA ConcatSplit ==
    ASSUME NEW S, NEW l \in Seq(S), NEW r \in Seq(S), NEW n \in 0..Len(r)
    PROVE  (l \o SubSeq(r, 1, n)) \o SubSeq(r, n + 1, Len(r)) = l \o r
<1>. DEFINE x == SubSeq(r, 1, n)
            y == SubSeq(r, n + 1, Len(r))
<1>1. /\ x \in Seq(S) /\ Len(x) = n /\ \A i \in 1..n : x[i] = r[i]
      /\ Len(l) \in Nat /\ Len(r) \in Nat /\ n \in Nat
  BY SMTT(30)
<1>2. /\ y \in Seq(S) /\ Len(y) = Len(r) - n /\ \A i \in 1..Len(y) : y[i] = r[n + i]
  BY SMTT(30)
<1>. HIDE DEF x, y
<1>. DEFINE a == (l \o x) \o y
            b == l \o r
<1>3. /\ a \in Seq(S) /\ b \in Seq(S)
      /\ Len(a) = Len(l) + Len(r) /\ Len(b) = Len(l) + Len(r)
  <2>1. l \o x \in Seq(S) /\ Len(l \o x) = Len(l) + n
    BY <1>1, Concat
  <2>2. a \in Seq(S) /\ Len(a) = Len(l \o x) + Len(y)
    BY <1>2, <2>1, Concat
  <2>3. b \in Seq(S) /\ Len(b) = Len(l) + Len(r)
    BY Concat
  <2>. QED BY ONLY <1>1, <1>2, <2>1, <2>2, <2>3
<1>4. ASSUME NEW i \in 1..(Len(l) + Len(r)) PROVE a[i] = b[i]
  <2>1. CASE i <= Len(l)
    BY SMTT(30), <1>1, <1>2, <2>1
  <2>2. CASE i > Len(l) /\ i <= Len(l) + n
    <3>1. a[i] = (l \o x)[i] /\ (l \o x)[i] = x[i - Len(l)] /\ i - Len(l) \in 1..n
      BY SMTT(30), <1>1, <1>2, <2>2
    <3>2. b[i] = r[i - Len(l)]
      BY SMTT(30), <1>1, <2>2
    <3>. QED BY <1>1, <3>1, <3>2
  <2>3. CASE i > Len(l) + n
    <3>1. a[i] = y[i - Len(l) - n] /\ i - Len(l) - n \in 1..Len(y)
      BY SMTT(30), <1>1, <1>2, <2>3
    <3>2. b[i] = r[i - Len(l)] /\ n + (i - Len(l) - n) = i - Len(l)
      BY SMTT(30), <1>1, <2>3
    <3>. QED BY <1>2, <3>1, <3>2
  <2>4. i <= Len(l) \/ (i > Len(l) /\ i <= Len(l) + n) \/ i > Len(l) + n
    BY ONLY i \in 1..(Len(l) + Len(r)), <1>1
  <2>. QED BY <2>1, <2>2, <2>3, <2>4
<1>. HIDE DEF a, b
<1>5. a = b
  BY <1>3, <1>4, SeqEqual
<1>. QED BY <1>5 DEF a, b, x, y

LEMMA ConcatTail ==
    ASSUME NEW S, NEW l \in Seq(S), NEW r \in Seq(S), l # <<>>
    PROVE  Popped(l \o r, Tail(l) \o r, Head(l))
<1>. DEFINE t == Tail(l)
<1>1. /\ Len(l) \in Nat \ {0} /\ Len(r) \in Nat /\ t \in Seq(S) /\ Len(t) = Len(l) - 1
      /\ Head(l) = l[1] /\ \A i \in 1..Len(t) : t[i] = l[i + 1]
  BY SMTT(30)
<1>. HIDE DEF t
<1>2. /\ Len(l \o r) = Len(l) + Len(r) /\ Len(t \o r) = Len(l) + Len(r) - 1
      /\ (l \o r)[1] = Head(l)
  <2>1. Len(l \o r) = Len(l) + Len(r) /\ (l \o r)[1] = l[1]
    BY SMTT(30), <1>1, Concat
  <2>2. Len(t \o r) = Len(t) + Len(r)
    BY <1>1, Concat
  <2>. QED BY ONLY <1>1, <2>1, <2>2
<1>3. ASSUME NEW i \in 1..Len(t \o r) PROVE (t \o r)[i] = (l \o r)[i + 1]
  <2>1. CASE i <= Len(t)
    BY SMTT(30), <1>1, <2>1
  <2>2. CASE i > Len(t)
    BY SMTT(30), <1>1, <1>2, <2>2
  <2>. QED BY SMTT(30), <1>1, <2>1, <2>2
<1>. QED BY SMTT(30), <1>1, <1>2, <1>3 DEF Popped, t


-----------------------------------------------------------------------------
(* Queues. *)
LEMMA SaysPushed ==
    ASSUME NEW q, NEW q2, NEW m, NEW k, Pushed(q, q2, m)
    PROVE  Says(q2, k) <=> Says(q, k) \/ m.kind = k
<1>1. \A i \in 1..Len(q2) : i \in 1..Len(q) \/ i = Len(q) + 1
  BY SMTT(30) DEF Pushed
<1>2. \A i \in 1..Len(q) : i \in 1..Len(q2)
  BY SMTT(30) DEF Pushed
<1>3. Len(q) + 1 \in 1..Len(q2)
  BY SMTT(30) DEF Pushed
<1>4. (\A i \in 1..Len(q) : q2[i] = q[i]) /\ q2[Len(q) + 1] = m
  BY DEF Pushed
<1>. QED BY ONLY <1>1, <1>2, <1>3, <1>4 DEF Says

LEMMA PoppedIndex ==
    ASSUME NEW q, NEW q2, NEW m, Popped(q, q2, m)
    PROVE  /\ Len(q) \in Nat \ {0} /\ Len(q2) = Len(q) - 1 /\ Len(q2) \in Nat
           /\ q[1] = m /\ 1 \in 1..Len(q)
           /\ \A i \in 1..Len(q2) : i + 1 \in 1..Len(q) /\ q2[i] = q[i + 1] /\ i \in Nat \ {0}
           /\ \A i \in 1..Len(q) : i = 1 \/ (i - 1 \in 1..Len(q2) /\ q2[i - 1] = q[i])
<1>1. /\ Len(q) \in Nat \ {0} /\ Len(q2) = Len(q) - 1 /\ Len(q2) \in Nat
      /\ q[1] = m /\ 1 \in 1..Len(q)
  BY SMTT(30) DEF Popped
<1>2. \A i \in 1..Len(q2) : i + 1 \in 1..Len(q) /\ q2[i] = q[i + 1] /\ i \in Nat \ {0}
  BY SMTT(30), <1>1 DEF Popped
<1>3. ASSUME NEW i \in 1..Len(q), i # 1 PROVE i - 1 \in 1..Len(q2) /\ q2[i - 1] = q[i]
  <2>1. i - 1 \in 1..Len(q2) /\ (i - 1) + 1 = i
    BY SMTT(30), <1>1, <1>3
  <2>. QED BY <1>2, <2>1
<1>. QED BY <1>1, <1>2, <1>3

LEMMA SaysPopped ==
    ASSUME NEW q, NEW q2, NEW m, Popped(q, q2, m)
    PROVE  Says(q, m.kind) /\ \A k : Says(q2, k) => Says(q, k)
<1>1. 1 \in 1..Len(q) /\ q[1] = m /\ \A i \in 1..Len(q2) : i + 1 \in 1..Len(q) /\ q2[i] = q[i + 1]
  BY SMTT(30), PoppedIndex
<1>2. Says(q, m.kind)
  BY ONLY <1>1 DEF Says
<1>3. ASSUME NEW k, Says(q2, k) PROVE Says(q, k)
  <2>1. PICK i \in 1..Len(q2) : q2[i].kind = k
    BY <1>3 DEF Says
  <2>. QED BY ONLY <1>1, <2>1 DEF Says
<1>. QED BY <1>2, <1>3

(* (b2, w2) has one more message, m, at the end of the connection of s. *)
Pushes(b, w, b2, w2, s, m) ==
    /\ Wires(b2, w2)
    /\ Pushed(Pipe(b, w, s), Pipe(b2, w2, s), m)
    /\ \A u \in Secondaries : u # s => Pipe(b2, w2, u) = Pipe(b, w, u)

(* (b2, w2) has lost m, the first message of the connection of s. *)
Pops(b, w, b2, w2, s, m) ==
    /\ Wires(b2, w2)
    /\ Popped(Pipe(b, w, s), Pipe(b2, w2, s), m)
    /\ \A u \in Secondaries : u # s => Pipe(b2, w2, u) = Pipe(b, w, u)

LEMMA FlushPipe ==
    ASSUME NEW b, NEW w, NEW s \in Secondaries, NEW m, Wires(b, w)
    PROVE  Pushes(b, w, Emptied(b, s), Flushed(b, w, s, m), s, m)
<1>1. PICK S : b \in [Secondaries -> Seq(S)] /\ w \in [Secondaries -> Seq(S)]
  BY DEF Wires
<1>. DEFINE T == S \cup {m}
<1>2. b \in [Secondaries -> Seq(T)] /\ w \in [Secondaries -> Seq(T)] /\ m \in T
  BY <1>1, SeqGrows
<1>. HIDE DEF T
<1>. DEFINE l == w[s] \o Append(b[s], m)
<1>3. l \in Seq(T)
  BY SMTT(30), <1>2
<1>4. Pushed(w[s] \o b[s], l, m)
  BY <1>2, ConcatAppend
<1>. HIDE DEF l
<1>5. l \o <<>> = l
  BY SMTT(30), <1>3
<1>6. /\ Flushed(b, w, s, m)[s] = l /\ Emptied(b, s)[s] = <<>>
      /\ \A u \in Secondaries : u # s => Flushed(b, w, s, m)[u] = w[u] /\ Emptied(b, s)[u] = b[u]
  BY <1>2 DEF Flushed, Emptied, l
<1>7. Flushed(b, w, s, m) \in [Secondaries -> Seq(T)] /\ Emptied(b, s) \in [Secondaries -> Seq(T)]
  BY SMTT(30), <1>2, <1>3 DEF Flushed, Emptied, l
<1>. QED BY <1>4, <1>5, <1>6, <1>7 DEF Pushes, Pipe, Wires

LEMMA BufferPipe ==
    ASSUME NEW b, NEW w, NEW s \in Secondaries, NEW m, Wires(b, w),
           NEW n \in 0..Len(Append(b[s], m))
    PROVE  Pushes(b, w, Kept(b, s, m, n), Sent(b, w, s, m, n), s, m)
<1>1. PICK S : b \in [Secondaries -> Seq(S)] /\ w \in [Secondaries -> Seq(S)]
  BY DEF Wires
<1>. DEFINE T == S \cup {m}
            all == Append(b[s], m)
<1>2. b \in [Secondaries -> Seq(T)] /\ w \in [Secondaries -> Seq(T)] /\ m \in T
  BY <1>1, SeqGrows
<1>. HIDE DEF T
<1>3. all \in Seq(T) /\ Pushed(w[s] \o b[s], w[s] \o all, m)
  BY SMTT(30), <1>2, ConcatAppend
<1>4. /\ Sent(b, w, s, m, n)[s] = w[s] \o SubSeq(all, 1, n)
      /\ Kept(b, s, m, n)[s] = SubSeq(all, n + 1, Len(all))
      /\ \A u \in Secondaries : u # s => Sent(b, w, s, m, n)[u] = w[u] /\ Kept(b, s, m, n)[u] = b[u]
  BY <1>2 DEF Sent, Kept
<1>5. n \in 0..Len(all)
  OBVIOUS
<1>. HIDE DEF all
<1>6. (w[s] \o SubSeq(all, 1, n)) \o SubSeq(all, n + 1, Len(all)) = w[s] \o all
  BY ZenonT(30), <1>2, <1>3, <1>5, ConcatSplit
<1>7. w[s] \o SubSeq(all, 1, n) \in Seq(T) /\ SubSeq(all, n + 1, Len(all)) \in Seq(T)
  BY SMTT(30), <1>2, <1>3, <1>5
<1>8. Sent(b, w, s, m, n) \in [Secondaries -> Seq(T)] /\ Kept(b, s, m, n) \in [Secondaries -> Seq(T)]
  BY <1>2, <1>7 DEF Sent, Kept, all
<1>. QED BY <1>3, <1>4, <1>6, <1>8 DEF Pushes, Pipe, Wires

LEMMA ReceivePipe ==
    ASSUME NEW b, NEW w, NEW s \in Secondaries, Wires(b, w), w[s] # <<>>
    PROVE  Pops(b, w, b, Received(w, s), s, Head(w[s]))
<1>1. PICK S : b \in [Secondaries -> Seq(S)] /\ w \in [Secondaries -> Seq(S)]
  BY DEF Wires
<1>2. /\ Received(w, s)[s] = Tail(w[s])
      /\ \A u \in Secondaries : u # s => Received(w, s)[u] = w[u]
  BY <1>1 DEF Received
<1>3. Popped(w[s] \o b[s], Tail(w[s]) \o b[s], Head(w[s]))
  BY <1>1, ConcatTail
<1>4. Received(w, s) \in [Secondaries -> Seq(S)]
  BY SMTT(30), <1>1 DEF Received
<1>. QED BY <1>1, <1>2, <1>3, <1>4 DEF Pops, Pipe, Wires

(* The length of a connection. *)
LEMMA PipeLen ==
    ASSUME NEW b, NEW w, NEW s \in Secondaries, Wires(b, w)
    PROVE  Len(Pipe(b, w, s)) \in Nat
<1>1. PICK S : b \in [Secondaries -> Seq(S)] /\ w \in [Secondaries -> Seq(S)]
  BY DEF Wires
<1>. QED BY <1>1, Concat DEF Pipe

(* The same for the two directions of a session: nothing changes but the   *)
(* connection of s.                                                        *)
DownKept(s) == Wires(pbuf', toSec') /\ \A u \in Secondaries : u # s => Down(u)' = Down(u)
UpKept(s) == Wires(sbuf', toPri') /\ \A u \in Secondaries : u # s => Up(u)' = Up(u)

LEMMA DownPushed ==
    ASSUME Types, NEW s \in Secondaries, NEW m,
           Flush(pbuf, toSec, s, m) \/ Buffer(pbuf, toSec, s, m)
    PROVE  Pushed(Down(s), Down(s)', m) /\ DownKept(s)
<1>1. CASE Flush(pbuf, toSec, s, m)
  <2>1. toSec' = Flushed(pbuf, toSec, s, m) /\ pbuf' = Emptied(pbuf, s)
    BY <1>1 DEF Flush, Flushed, Emptied
  <2>. QED BY SMTT(30), <2>1, FlushPipe DEF Types, Pushes, Down, DownKept
<1>2. CASE Buffer(pbuf, toSec, s, m)
  <2>1. PICK n \in 0..Len(Append(pbuf[s], m)) :
           toSec' = Sent(pbuf, toSec, s, m, n) /\ pbuf' = Kept(pbuf, s, m, n)
    BY <1>2 DEF Buffer, Sent, Kept
  <2>. QED BY SMTT(30), <2>1, BufferPipe DEF Types, Pushes, Down, DownKept
<1>. QED BY <1>1, <1>2

LEMMA UpPushed ==
    ASSUME Types, NEW s \in Secondaries, NEW m,
           Flush(sbuf, toPri, s, m) \/ Buffer(sbuf, toPri, s, m)
    PROVE  Pushed(Up(s), Up(s)', m) /\ UpKept(s)
<1>1. CASE Flush(sbuf, toPri, s, m)
  <2>1. toPri' = Flushed(sbuf, toPri, s, m) /\ sbuf' = Emptied(sbuf, s)
    BY <1>1 DEF Flush, Flushed, Emptied
  <2>. QED BY SMTT(30), <2>1, FlushPipe DEF Types, Pushes, Up, UpKept
<1>2. CASE Buffer(sbuf, toPri, s, m)
  <2>1. PICK n \in 0..Len(Append(sbuf[s], m)) :
           toPri' = Sent(sbuf, toPri, s, m, n) /\ sbuf' = Kept(sbuf, s, m, n)
    BY <1>2 DEF Buffer, Sent, Kept
  <2>. QED BY SMTT(30), <2>1, BufferPipe DEF Types, Pushes, Up, UpKept
<1>. QED BY <1>1, <1>2

LEMMA DownPopped ==
    ASSUME Types, NEW s \in Secondaries, NEW k, Receive(toSec, s, k), UNCHANGED pbuf
    PROVE  Popped(Down(s), Down(s)', Head(toSec[s])) /\ Head(toSec[s]).kind = k /\ DownKept(s)
<1>1. toSec' = Received(toSec, s) /\ toSec[s] # <<>> /\ Head(toSec[s]).kind = k
  BY DEF Receive, Received
<1>. QED BY <1>1, ReceivePipe DEF Types, Pops, Down, DownKept

LEMMA UpPopped ==
    ASSUME Types, NEW s \in Secondaries, NEW k, Receive(toPri, s, k), UNCHANGED sbuf
    PROVE  Popped(Up(s), Up(s)', Head(toPri[s])) /\ Head(toPri[s]).kind = k /\ UpKept(s)
<1>1. toPri' = Received(toPri, s) /\ toPri[s] # <<>> /\ Head(toPri[s]).kind = k
  BY DEF Receive, Received
<1>. QED BY <1>1, ReceivePipe DEF Types, Pops, Up, UpKept


-----------------------------------------------------------------------------
(* The steps of a secondary, connection by connection. *)
SameWork(u) ==
    /\ sphase'[u] = sphase[u] /\ next'[u] = next[u]
    /\ decoding'[u] = decoding[u] /\ interactions'[u] = interactions[u]

(* Only the state of s and its connection change. *)
Alone(s) ==
    /\ UNCHANGED primary /\ Types'
    /\ \A u \in Secondaries : u # s => SameWork(u) /\ Down(u)' = Down(u) /\ Up(u)' = Up(u)
    /\ DataTypes' <=> /\ decoding'[s] \in SUBSET Entries /\ interactions'[s] \in Seq(Entries)
                      /\ next'[s] \in Nat \ {0}

Moves(s, from, to) == sphase[s] = from /\ sphase'[s] = to

SameStock(s) == decoding'[s] = decoding[s] /\ interactions'[s] = interactions[s]

SameNext(s) == next'[s] = next[s]

SameDown(s) == Down(s)' = Down(s)

SameUp(s) == Up(s)' = Up(s)

Gets(s, m, kind) == Popped(Down(s), Down(s)', m) /\ m.kind = kind

Puts(s, m) == Pushed(Up(s), Up(s)', m)

LEMMA SameLinks ==
    ASSUME Types
    PROVE  /\ UNCHANGED <<pbuf, toSec>> => \A s \in Secondaries : DownKept(s) /\ SameDown(s)
           /\ UNCHANGED <<sbuf, toPri>> => \A s \in Secondaries : UpKept(s) /\ SameUp(s)
BY DEF Types, DownKept, UpKept, SameDown, SameUp, Down, Up, Pipe

LEMMA AloneStep ==
    ASSUME Types, DataTypes, NEW s \in Secondaries, UNCHANGED primary,
           DownKept(s), UpKept(s), sphase' = sphase \/ \E p \in Phases : Goto(s, p),
           decoding' = decoding \/ \E x : decoding' = [decoding EXCEPT ![s] = x],
           interactions' = interactions \/ \E x : interactions' = [interactions EXCEPT ![s] = x],
           next' = next \/ \E x : next' = [next EXCEPT ![s] = x]
    PROVE  Alone(s)
<1>. USE DEF DataTypes
<1>1. ASSUME NEW u \in Secondaries, u # s PROVE SameWork(u)
  BY <1>1 DEF Types, SameWork, Goto
<1>2. /\ decoding' \in [Secondaries -> SUBSET Entries] <=> decoding'[s] \in SUBSET Entries
      /\ interactions' \in [Secondaries -> Seq(Entries)] <=> interactions'[s] \in Seq(Entries)
      /\ next' \in [Secondaries -> Nat \ {0}] <=> next'[s] \in Nat \ {0}
  <2>1. decoding' \in [Secondaries -> SUBSET Entries] <=> decoding'[s] \in SUBSET Entries
    OBVIOUS
  <2>2. interactions' \in [Secondaries -> Seq(Entries)] <=> interactions'[s] \in Seq(Entries)
    OBVIOUS
  <2>3. next' \in [Secondaries -> Nat \ {0}] <=> next'[s] \in Nat \ {0}
    OBVIOUS
  <2>. QED BY <2>1, <2>2, <2>3
<1>3. results' = results
  BY DEF primary
<1>4. Types'
  <2>1. sphase' \in [Secondaries -> Phases]
    BY DEF Types, Goto
  <2>. QED BY <2>1 DEF Types, primary, DownKept, UpKept, Phases
<1>. QED BY ZenonT(30), <1>1, <1>2, <1>3, <1>4 DEF Alone, Entries, DownKept, UpKept

(* Dial, Trigger, SleepOver and the failures change no connection. *)
LEMMA Moved ==
    ASSUME Types, DataTypes, NEW s \in Secondaries,
           Dial(s) \/ Trigger(s) \/ SleepOver(s) \/ ConnectionLost(s) \/ SecondaryFails(s)
    PROVE  /\ Alone(s) /\ SameDown(s) /\ SameUp(s) /\ SameStock(s)
           /\ Dial(s) => Moves(s, "dial", "init") /\ SameNext(s)
           /\ Trigger(s) => /\ Moves(s, "run", "run") /\ next[s] <= Len(interactions[s])
                            /\ next'[s] = next[s] + 1
           /\ SleepOver(s) => Moves(s, "run", "stop") /\ next'[s] = 1
           /\ ConnectionLost(s) \/ SecondaryFails(s) =>
                /\ sphase[s] \notin {"over", "failed"} /\ sphase'[s] = "failed" /\ SameNext(s)
<1>. USE DEF Dial, Trigger, SleepOver, ConnectionLost, SecondaryFails
<1>1. UNCHANGED <<primary, net, decoding, interactions>>
  OBVIOUS
<1>2. DownKept(s) /\ SameDown(s) /\ UpKept(s) /\ SameUp(s)
  BY <1>1, SameLinks DEF net
<1>3. /\ sphase' = sphase \/ \E p \in Phases : Goto(s, p)
      /\ next' = next \/ \E x : next' = [next EXCEPT ![s] = x]
  BY DEF Phases
<1>4. Alone(s)
  BY <1>1, <1>2, <1>3, AloneStep
<1>. USE DEF Types, DataTypes, Moves, Goto, SameNext
<1>5. Dial(s) => Moves(s, "dial", "init") /\ SameNext(s)
  OBVIOUS
<1>6. Trigger(s) => /\ Moves(s, "run", "run") /\ next[s] <= Len(interactions[s])
                    /\ next'[s] = next[s] + 1
  OBVIOUS
<1>7. SleepOver(s) => Moves(s, "run", "stop") /\ next'[s] = 1
  OBVIOUS
<1>8. ConnectionLost(s) \/ SecondaryFails(s) =>
        sphase[s] \notin {"over", "failed"} /\ sphase'[s] = "failed" /\ SameNext(s)
  BY DEF Over
<1>. QED BY <1>1, <1>2, <1>4, <1>5, <1>6, <1>7, <1>8 DEF SameStock

(* PrepareClient, PrepareInteraction, PrepareDone and WaitStart read. *)
LEMMA MessageRead ==
    ASSUME Types, DataTypes, NEW s \in Secondaries,
           PrepareClient(s) \/ PrepareInteraction(s) \/ PrepareDone(s) \/ WaitStart(s)
    PROVE  /\ Alone(s) /\ SameUp(s) /\ SameNext(s) /\ interactions'[s] = interactions[s]
           /\ PrepareClient(s) => /\ Moves(s, "prepare", "prepare") /\ SameStock(s)
                                  /\ Gets(s, Head(toSec[s]), "client")
           /\ PrepareDone(s) => /\ Moves(s, "prepare", "decode") /\ SameStock(s)
                                /\ Gets(s, Head(toSec[s]), "done")
           /\ WaitStart(s) => /\ Moves(s, "waitStart", "run") /\ SameStock(s)
                              /\ Gets(s, Head(toSec[s]), "start")
           /\ PrepareInteraction(s) =>
                /\ sphase[s] = "prepare" /\ Gets(s, Head(toSec[s]), "iact")
                /\ \/ /\ sphase'[s] = "prepare"
                      /\ decoding'[s] = decoding[s] \cup
                           {[id |-> Head(toSec[s]).id, client |-> DecodedIndex(Head(toSec[s]))]}
                   \/ sphase'[s] = "failed" /\ decoding'[s] = decoding[s]
<1>. DEFINE k == IF PrepareClient(s) THEN "client" ELSE IF PrepareInteraction(s) THEN "iact"
                 ELSE IF PrepareDone(s) THEN "done" ELSE "start"
            m == Head(toSec[s])
<1>1. /\ UNCHANGED <<primary, pbuf, sbuf, toPri, interactions, next>>
      /\ sphase' = sphase \/ \E p \in Phases : Goto(s, p)
  BY DEF PrepareClient, PrepareInteraction, PrepareDone, WaitStart, Phases
<1>2. decoding' = decoding \/ \E x : decoding' = [decoding EXCEPT ![s] = x]
  BY DEF PrepareClient, PrepareInteraction, PrepareDone, WaitStart
<1>3. Receive(toSec, s, k)
  BY DEF PrepareClient, PrepareInteraction, PrepareDone, WaitStart
<1>4. Gets(s, m, k) /\ DownKept(s)
  BY <1>1, <1>3, DownPopped DEF Gets
<1>5. UpKept(s) /\ SameUp(s)
  BY <1>1, SameLinks
<1>6. Alone(s)
  BY <1>1, <1>2, <1>4, <1>5, AloneStep
<1>. HIDE DEF m
<1>7. PrepareClient(s) =>
         Moves(s, "prepare", "prepare") /\ SameStock(s) /\ k = "client"
  BY <1>1 DEF PrepareClient, Moves, SameStock
<1>8. Receive(toSec, s, "iact") \/ Receive(toSec, s, "done") => ~PrepareClient(s)
  BY DEF PrepareClient, Receive
<1>9. PrepareDone(s) => ~PrepareInteraction(s)
  BY DEF PrepareDone, PrepareInteraction, Receive
<1>10. PrepareDone(s) => Moves(s, "prepare", "decode") /\ SameStock(s) /\ k = "done"
  BY <1>1, <1>8, <1>9 DEF PrepareDone, Moves, SameStock, Goto, Types
<1>11. WaitStart(s) => Moves(s, "waitStart", "run") /\ SameStock(s) /\ k = "start"
  BY <1>1 DEF WaitStart, PrepareClient, PrepareDone, PrepareInteraction, Moves, SameStock, Goto, Types
<1>12. PrepareInteraction(s) => k = "iact"
  BY <1>8 DEF PrepareInteraction
<1>13. PrepareInteraction(s) => sphase[s] = "prepare" /\
          \/ /\ sphase'[s] = "prepare"
             /\ decoding'[s] = decoding[s] \cup {[id |-> m.id, client |-> DecodedIndex(m)]}
          \/ sphase'[s] = "failed" /\ decoding'[s] = decoding[s]
  BY DEF PrepareInteraction, Goto, Types, DataTypes, m
<1>. HIDE DEF k
<1>. QED BY <1>1, <1>4, <1>5, <1>6, <1>7, <1>10, <1>11, <1>12, <1>13 DEF SameNext, m

LEMMA Greeted ==
    ASSUME Types, DataTypes, NEW s \in Secondaries, InitRuntime(s)
    PROVE  /\ Alone(s) /\ SameStock(s) /\ SameNext(s) /\ Moves(s, "init", "prepare")
           /\ Gets(s, Head(toSec[s]), "params") /\ Puts(s, Msg("params"))
<1>1. /\ UNCHANGED <<primary, decoding, interactions, next, pbuf>> /\ Goto(s, "prepare")
      /\ Receive(toSec, s, "params") /\ Flush(sbuf, toPri, s, Msg("params"))
      /\ sphase[s] = "init"
  BY DEF InitRuntime
<1>2. Gets(s, Head(toSec[s]), "params") /\ DownKept(s)
  BY <1>1, DownPopped DEF Gets
<1>3. Puts(s, Msg("params")) /\ UpKept(s)
  BY <1>1, UpPushed DEF Puts
<1>4. Alone(s)
  BY <1>1, <1>2, <1>3, AloneStep DEF Phases
<1>. QED BY <1>1, <1>2, <1>3, <1>4 DEF SameStock, SameNext, Moves, Goto, Types

LEMMA Reordered ==
    ASSUME Types, DataTypes, NEW s \in Secondaries, Decoded(s) \/ SyncReady(s)
    PROVE  /\ Alone(s) /\ SameDown(s) /\ SameNext(s) /\ sphase[s] = "decode"
           /\ Decoded(s) =>
                /\ sphase'[s] = "decode" /\ SameUp(s)
                /\ \E iact \in decoding[s] : /\ decoding'[s] = decoding[s] \ {iact}
                                             /\ interactions'[s] = Append(interactions[s], iact)
           /\ SyncReady(s) =>
                /\ sphase'[s] = "waitStart" /\ Puts(s, Msg("done"))
                /\ decoding[s] = {} /\ decoding'[s] = {}
                /\ interactions'[s] = Sorted(interactions[s])
<1>1. CASE Decoded(s)
  <2>1. UNCHANGED <<primary, net, sphase, next>> /\ sphase[s] = "decode"
    BY <1>1 DEF Decoded
  <2>2. PICK iact \in decoding[s] :
           /\ decoding' = [decoding EXCEPT ![s] = @ \ {iact}]
           /\ interactions' = [interactions EXCEPT ![s] = Append(@, iact)]
    BY <1>1 DEF Decoded
  <2>3. DownKept(s) /\ SameDown(s) /\ UpKept(s) /\ SameUp(s)
    BY <2>1, SameLinks DEF net
  <2>4. Alone(s)
    BY <2>1, <2>2, <2>3, AloneStep
  <2>5. decoding'[s] = decoding[s] \ {iact} /\ interactions'[s] = Append(interactions[s], iact)
    BY <2>2 DEF DataTypes
  <2>6. ~SyncReady(s)
    BY <2>1 DEF SyncReady, Goto, Types
  <2>. QED BY <2>1, <2>3, <2>4, <2>5, <2>6 DEF SameNext
<1>2. CASE SyncReady(s)
  <2>1. /\ UNCHANGED <<primary, pbuf, toSec, next, decoding>> /\ sphase[s] = "decode"
        /\ Goto(s, "waitStart") /\ Flush(sbuf, toPri, s, Msg("done")) /\ decoding[s] = {}
        /\ interactions' = [interactions EXCEPT ![s] = Sorted(@)]
    BY <1>2 DEF SyncReady
  <2>2. DownKept(s) /\ SameDown(s)
    BY <2>1, SameLinks
  <2>3. Puts(s, Msg("done")) /\ UpKept(s)
    BY <2>1, UpPushed DEF Puts
  <2>4. Alone(s)
    BY <2>1, <2>2, <2>3, AloneStep DEF Phases
  <2>5. sphase'[s] = "waitStart" /\ interactions'[s] = Sorted(interactions[s])
    BY <2>1 DEF Goto, Types, DataTypes
  <2>6. ~Decoded(s)
    BY <2>1, <2>5 DEF Decoded
  <2>. QED BY <2>1, <2>2, <2>3, <2>4, <2>5, <2>6 DEF SameNext
<1>. QED BY <1>1, <1>2

LEMMA Reported ==
    ASSUME Types, DataTypes, NEW s \in Secondaries, PushResult(s) \/ PushDone(s)
    PROVE  /\ Alone(s) /\ SameDown(s) /\ SameStock(s) /\ sphase[s] = "stop"
           /\ PushResult(s) => /\ sphase'[s] = "stop" /\ next[s] <= Len(interactions[s])
                               /\ next'[s] = next[s] + 1 /\ Puts(s, Report(s, next[s]))
           /\ PushDone(s) => /\ sphase'[s] = "over" /\ next[s] > Len(interactions[s])
                             /\ SameNext(s) /\ Puts(s, Msg("resultDone"))
<1>1. /\ UNCHANGED <<primary, pbuf, toSec, decoding, interactions>> /\ sphase[s] = "stop"
      /\ sphase' = sphase \/ \E p \in Phases : Goto(s, p)
      /\ next' = next \/ \E x : next' = [next EXCEPT ![s] = x]
  BY DEF PushResult, PushDone, Phases
<1>2. DownKept(s) /\ SameDown(s)
  BY <1>1, SameLinks
<1>3. CASE PushResult(s)
  <2>1. /\ Buffer(sbuf, toPri, s, Report(s, next[s])) /\ next[s] <= Len(interactions[s])
        /\ next' = [next EXCEPT ![s] = @ + 1] /\ sphase' = sphase
    BY <1>3 DEF PushResult, Report
  <2>2. Puts(s, Report(s, next[s])) /\ UpKept(s)
    BY <2>1, UpPushed DEF Puts
  <2>3. Alone(s)
    BY <1>1, <1>2, <2>2, AloneStep
  <2>4. ~PushDone(s)
    BY <1>1, <2>1 DEF PushDone, Goto, Types
  <2>5. next'[s] = next[s] + 1
    BY <2>1 DEF DataTypes
  <2>. QED BY <1>1, <1>2, <2>1, <2>2, <2>3, <2>4, <2>5 DEF SameStock
<1>4. CASE PushDone(s)
  <2>1. /\ Flush(sbuf, toPri, s, Msg("resultDone")) /\ next[s] > Len(interactions[s])
        /\ next' = next /\ Goto(s, "over")
    BY <1>4 DEF PushDone
  <2>2. Puts(s, Msg("resultDone")) /\ UpKept(s)
    BY <2>1, UpPushed DEF Puts
  <2>3. Alone(s)
    BY <1>1, <1>2, <2>2, AloneStep
  <2>4. sphase'[s] = "over"
    BY <2>1 DEF Goto, Types
  <2>5. ~PushResult(s)
    BY <1>1, <2>4 DEF PushResult
  <2>. QED BY <1>1, <1>2, <2>1, <2>2, <2>3, <2>4, <2>5 DEF SameStock, SameNext
<1>. QED BY <1>3, <1>4

LEMMA LotGrows ==
    ASSUME NEW q, NEW ids \in SUBSET Nat, NEW ids2, NEW limit \in Nat, NEW limit2 \in Nat,
           ids \subseteq ids2, limit <= limit2, Lot(q, ids, limit)
    PROVE  Lot(q, ids2, limit2)
<1>1. \A i \in ids : i < limit => i \in ids2 /\ i < limit2
  BY SMTT(30)
<1>. QED BY ONLY Zenon, <1>1, Lot(q, ids, limit) DEF Lot

LEMMA LotPushed ==
    ASSUME NEW q, NEW q2, NEW m, NEW ids, NEW limit, Lot(q, ids, limit), Pushed(q, q2, m),
           m.kind # "iact"
    PROVE  Lot(q2, ids, limit)
<1>1. \A i \in 1..Len(q2) : q2[i].kind = "iact" => i \in 1..Len(q) /\ q2[i] = q[i]
  BY SMTT(30) DEF Pushed
<1>2. \A i, j \in 1..Len(q2) : i < j /\ j \in 1..Len(q) => i \in 1..Len(q) /\ q2[i] = q[i]
  BY SMTT(30) DEF Pushed
<1>. QED BY ONLY Lot(q, ids, limit), <1>1, <1>2 DEF Lot

LEMMA LotPushedNext ==
    ASSUME NEW q, NEW q2, NEW m, NEW ids \in SUBSET Nat, NEW limit \in Nat,
           Lot(q, ids, limit), Pushed(q, q2, m), ~Says(q, "done"),
           m.id = limit, m.id \in ids, m.index = Plan[m.id].index
    PROVE  Lot(q2, ids, limit + 1)
<1>1. ASSUME NEW i \in 1..Len(q2), q2[i].kind = "iact"
      PROVE  q2[i].id \in ids /\ q2[i].id < limit + 1 /\ q2[i].index = Plan[q2[i].id].index
  <2>1. CASE i = Len(q) + 1
    BY SMTT(30), <2>1 DEF Pushed
  <2>2. CASE i # Len(q) + 1
    <3>1. i \in 1..Len(q) /\ q2[i] = q[i]
      BY SMTT(30), <2>2 DEF Pushed
    <3>2. q[i].id \in ids /\ q[i].id < limit /\ q[i].index = Plan[q[i].id].index
      BY <1>1, <3>1 DEF Lot
    <3>3. q[i].id \in Nat
      BY <3>2
    <3>4. q[i].id < limit + 1
      BY SMTT(30), <3>2, <3>3
    <3>. QED BY <3>1, <3>2, <3>4
  <2>. QED BY <2>1, <2>2
<1>2. ASSUME NEW i \in 1..Len(q2), NEW j \in 1..Len(q2), i < j, q2[j].kind = "iact"
      PROVE  q2[i].kind # "done" /\ (q2[i].kind = "iact" => q2[i].id < q2[j].id)
  <2>1. i \in 1..Len(q) /\ q2[i] = q[i] /\ q[i].kind # "done"
    BY SMTT(30), <1>2 DEF Pushed, Says
  <2>2. CASE j = Len(q) + 1
    <3>1. q2[j] = m
      BY <2>2 DEF Pushed
    <3>. QED BY <2>1, <3>1 DEF Lot
  <2>3. CASE j # Len(q) + 1
    <3>1. j \in 1..Len(q) /\ q2[j] = q[j]
      BY SMTT(30), <2>3 DEF Pushed
    <3>. QED BY <1>2, <2>1, <3>1 DEF Lot
  <2>. QED BY <2>2, <2>3
<1>. QED BY <1>1, <1>2 DEF Lot

LEMMA LotPopped ==
    ASSUME NEW q, NEW q2, NEW m, NEW ids, NEW limit, Lot(q, ids, limit), Popped(q, q2, m)
    PROVE  /\ Lot(q2, ids, limit)
           /\ m.kind = "iact" => m.id \in ids /\ m.id < limit /\ m.index = Plan[m.id].index
           /\ m.kind = "iact" => \A i \in 1..Len(q2) : q2[i].kind = "iact" => m.id < q2[i].id
           /\ m.kind = "done" => ~Says(q2, "iact")
<1>1. \A i \in 1..Len(q2) : q2[i].kind = "iact" =>
          q2[i].id \in ids /\ q2[i].id < limit /\ q2[i].index = Plan[q2[i].id].index
  BY SMTT(30), PoppedIndex DEF Lot
<1>2. ASSUME NEW i \in 1..Len(q2), NEW j \in 1..Len(q2), i < j, q2[j].kind = "iact"
      PROVE  q2[i].kind # "done" /\ (q2[i].kind = "iact" => q2[i].id < q2[j].id)
  <2>1. /\ i + 1 \in 1..Len(q) /\ j + 1 \in 1..Len(q) /\ i + 1 < j + 1
        /\ q2[i] = q[i + 1] /\ q2[j] = q[j + 1]
    BY SMTT(30), <1>2, PoppedIndex
  <2>. QED BY ONLY Lot(q, ids, limit), <1>2, <2>1 DEF Lot
<1>3. m.kind = "iact" => m.id \in ids /\ m.id < limit /\ m.index = Plan[m.id].index
  BY SMTT(30), PoppedIndex DEF Lot
<1>4. ASSUME NEW i \in 1..Len(q2), q2[i].kind = "iact"
      PROVE  m.kind # "done" /\ (m.kind = "iact" => m.id < q2[i].id)
  <2>1. /\ i + 1 \in 1..Len(q) /\ 1 \in 1..Len(q) /\ 1 < i + 1
        /\ q2[i] = q[i + 1] /\ q[1] = m
    BY SMTT(30), PoppedIndex
  <2>. QED BY ONLY Lot(q, ids, limit), <1>4, <2>1 DEF Lot
<1>. QED BY <1>1, <1>2, <1>3, <1>4 DEF Lot, Says

LEMMA HoldsPushed ==
    ASSUME NEW q, NEW q2, NEW m, NEW id, Pushed(q, q2, m)
    PROVE  /\ Holds(q, id) => Holds(q2, id)
           /\ (m.kind = "iact" /\ m.id = id) => Holds(q2, id)
<1>1. Len(q) + 1 \in 1..Len(q2) /\ q2[Len(q) + 1] = m
  BY SMTT(30) DEF Pushed
<1>2. \A i \in 1..Len(q) : i \in 1..Len(q2) /\ q2[i] = q[i]
  BY SMTT(30) DEF Pushed
<1>. QED BY <1>1, <1>2 DEF Holds

LEMMA HoldsPopped ==
    ASSUME NEW q, NEW q2, NEW m, NEW id, Popped(q, q2, m), Holds(q, id)
    PROVE  Holds(q2, id) \/ (m.kind = "iact" /\ m.id = id)
  BY SMTT(30), PoppedIndex DEF Holds

LEMMA AheadPopped ==
    ASSUME NEW q, NEW q2, NEW m, NEW X, Popped(q, q2, m), Ahead(X, q)
    PROVE  /\ Ahead(X, q2)
           /\ m.kind = "iact" => \A e \in X : e.id < m.id
  BY SMTT(30), PoppedIndex DEF Ahead

LEMMA AheadPushed ==
    ASSUME NEW q, NEW q2, NEW m, NEW X, Pushed(q, q2, m), Ahead(X, q),
           m.kind = "iact" => \A e \in X : e.id < m.id
    PROVE  Ahead(X, q2)
<1>1. \A i \in 1..Len(q2) : (i \in 1..Len(q) /\ q2[i] = q[i]) \/ q2[i] = m
  BY SMTT(30) DEF Pushed
<1>. QED BY ONLY <1>1, Ahead(X, q), m.kind = "iact" => \A e \in X : e.id < m.id DEF Ahead

(* The work of a secondary that a step leaves alone. *)
LEMMA WorkFrame ==
    ASSUME NEW u \in Secondaries, Work(u), SameWork(u),
           \/ Down(u)' = Down(u)
           \/ \E m : /\ Pushed(Down(u), Down(u)', m) /\ m.kind # "iact"
                     /\ Shipping' => m.kind # "done",
           Limit \in Nat, Limit' \in Nat, Share(u) \subseteq Share(u)', Limit <= Limit',
           Shipping' => Shipping,
           pphase' # "failed" => pphase # "failed" /\
               \A id \in Share(u)' : id < Limit' => id \in Share(u) /\ id < Limit
    PROVE  Work(u)'
<1>0. PICK q : q = Down(u)'
  OBVIOUS
<1>1. /\ Lot(q, Share(u), Limit) /\ Ahead(Known(u), q)
      /\ Says(q, "iact") => Says(Down(u), "iact")
      /\ Shipping' => ~Says(q, "done")
      /\ \A id : Holds(Down(u), id) => Holds(q, id)
  <2>1. /\ Lot(Down(u), Share(u), Limit) /\ Ahead(Known(u), Down(u))
        /\ Shipping' => ~Says(Down(u), "done")
    BY DEF Work, Load, Stock
  <2>2. CASE q = Down(u)
    BY <2>1, <2>2
  <2>3. CASE q # Down(u)
    <3>1. PICK m : /\ Pushed(Down(u), q, m) /\ m.kind # "iact"
                   /\ Shipping' => m.kind # "done"
      BY <1>0, <2>3
    <3>. QED BY <2>1, <3>1, LotPushed, AheadPushed, SaysPushed, HoldsPushed
  <2>. QED BY <2>2, <2>3
<1>2. Share(u) \in SUBSET Nat /\ sphase'[u] = sphase[u] /\ Known(u)' = Known(u)
  BY SMTT(30) DEF Share, SameWork, Known
<1>3. Load(u)'
  BY <1>0, <1>1, <1>2, LotGrows DEF Work, Load
<1>4. Stock(u)'
  <2>1. \A id \in Share(u) : id < Limit => id \in Share(u)' /\ id < Limit'
    BY SMTT(30), <1>2
  <2>. QED BY ZenonT(30), <1>0, <1>1, <1>2, <2>1 DEF Work, Stock, Stored
<1>5. Schedule(u)'
  BY SMTT(30) DEF Work, Schedule, Distinct, InTime, Due, SameWork, Elements
<1>6. Lossless(u)'
  BY <1>0, <1>1, <1>2 DEF Work, Lossless, Stored
<1>. QED BY <1>3, <1>4, <1>5, <1>6 DEF Work

(* What a step of a secondary leaves alone. *)
LEMMA SameShare ==
    ASSUME UNCHANGED primary
    PROVE  /\ \A u : Share(u)' = Share(u)
           /\ Limit' = Limit /\ Shipping' = Shipping /\ pphase' = pphase
  BY DEF primary, Share, Owner, Limit, Shipping

LEMMA WorkPopped ==
    ASSUME NEW s \in Secondaries, NEW m, Work(s), UNCHANGED primary,
           Popped(Down(s), Down(s)', m), m.kind # "iact",
           decoding'[s] = decoding[s], interactions'[s] = interactions[s], next'[s] = next[s],
           sphase'[s] \in Past => sphase[s] \in Past \/ m.kind = "done",
           sphase'[s] \in Past \ {"decode"} => sphase[s] \in Past \ {"decode"},
           sphase[s] # "failed"
    PROVE  Work(s)'
<1>1. Share(s)' = Share(s) /\ Limit' = Limit /\ Shipping' = Shipping /\ pphase' = pphase
  BY SameShare
<1>2. Known(s)' = Known(s)
  BY DEF Known
<1>3. /\ Says(Down(s), m.kind) /\ \A k : Says(Down(s)', k) => Says(Down(s), k)
  BY SaysPopped
<1>4. Load(s)'
  <2>1. Lot(Down(s)', Share(s), Limit) /\ (m.kind = "done" => ~Says(Down(s)', "iact"))
    BY LotPopped DEF Work, Load
  <2>2. m.kind = "done" => ~Shipping
    BY <1>3 DEF Work, Load
  <2>. QED BY <1>1, <1>3, <2>1, <2>2 DEF Work, Load
<1>5. Stock(s)'
  <2>1. Ahead(Known(s), Down(s)')
    BY AheadPopped DEF Work, Stock
  <2>. QED BY ZenonT(30), <1>1, <1>2, <2>1 DEF Work, Stock, Stored
<1>6. Schedule(s)'
  BY DEF Work, Schedule, Distinct, InTime, Due
<1>7. Lossless(s)'
  <2>1. \A id : Holds(Down(s), id) => Holds(Down(s)', id)
    BY HoldsPopped
  <2>. QED BY <1>1, <1>2, <2>1 DEF Work, Lossless, Stored
<1>. QED BY <1>4, <1>5, <1>6, <1>7 DEF Work

LEMMA WorkMoves ==
    ASSUME NEW s \in Secondaries, Work(s), UNCHANGED primary, Down(s)' = Down(s),
           decoding'[s] = decoding[s], interactions'[s] = interactions[s],
           next'[s] <= Len(interactions[s]) + 1,
           sphase'[s] \in Past \ {"decode"} => sphase[s] \in Past \ {"decode"},
           sphase'[s] # "decode", sphase[s] = "failed" => sphase'[s] = "failed"
    PROVE  Work(s)'
<1>1. Share(s)' = Share(s) /\ Limit' = Limit /\ Shipping' = Shipping /\ pphase' = pphase
  BY SameShare
<1>2. Known(s)' = Known(s)
  BY DEF Known
<1>3. Load(s)'
  BY <1>1 DEF Work, Load
<1>4. Stock(s)'
  BY ZenonT(30), <1>1, <1>2 DEF Work, Stock, Stored
<1>5. Schedule(s)'
  BY DEF Work, Schedule, Distinct, InTime, Due
<1>6. Lossless(s)'
  BY <1>1, <1>2 DEF Work, Lossless, Stored
<1>. QED BY <1>3, <1>4, <1>5, <1>6 DEF Work

LEMMA StoredEntry ==
    ASSUME NEW s, NEW id \in Share(s)
    PROVE  id \in 1..Len(Plan) /\ id \in Nat /\ Stored(id) \in Entries
<1>1. id \in 1..Len(Plan) /\ Len(Plan) \in Nat /\ DOMAIN Plan = 1..Len(Plan)
  BY PlanLen DEF Share
<1>2. Plan[id].index \in Nat
  BY ZenonT(30), <1>1, PlanEntry
<1>. DEFINE byte == 0..255
            x == Plan[id].index % 256
<1>3. x \in byte
  BY SMTT(30), <1>2
<1>4. Entries = [id : DOMAIN Plan, client : byte] /\ Stored(id) = [id |-> id, client |-> x]
  BY DEF Stored, Entries
<1>. HIDE DEF byte, x
<1>. QED BY SMTT(30), <1>1, <1>3, <1>4

(* An interaction leaves the connection for a decoding goroutine. *)
LEMMA WorkDecoding ==
    ASSUME NEW s \in Secondaries, NEW m, Work(s), DataTypes, UNCHANGED primary,
           Popped(Down(s), Down(s)', m), m.kind = "iact", sphase[s] = "prepare",
           interactions'[s] = interactions[s], next'[s] = next[s],
           \/ /\ sphase'[s] = "prepare"
              /\ decoding'[s] = decoding[s] \cup {[id |-> m.id, client |-> DecodedIndex(m)]}
           \/ sphase'[s] = "failed" /\ decoding'[s] = decoding[s]
    PROVE  Work(s)' /\ decoding'[s] \in SUBSET Entries
<1>1. Share(s)' = Share(s) /\ Limit' = Limit /\ Shipping' = Shipping /\ pphase' = pphase
  BY SameShare
<1>2. /\ m.id \in Share(s) /\ m.id < Limit /\ m.index = Plan[m.id].index
      /\ \A i \in 1..Len(Down(s)') : (Down(s)')[i].kind = "iact" => m.id < (Down(s)')[i].id
      /\ Lot(Down(s)', Share(s), Limit)
  BY LotPopped DEF Work, Load
<1>3. [id |-> m.id, client |-> DecodedIndex(m)] = Stored(m.id) /\ Stored(m.id).id = m.id
  BY <1>2 DEF Stored, DecodedIndex
<1>4. Stored(m.id) \in Entries
  BY <1>2, StoredEntry
<1>5. decoding'[s] = decoding[s] \/ decoding'[s] = decoding[s] \cup {Stored(m.id)}
  BY <1>3
<1>6. Known(s) \subseteq Known(s)' /\ \A e \in Known(s)' : e \in Known(s) \/ e = Stored(m.id)
  BY <1>5 DEF Known
<1>7. Ahead(Known(s), Down(s)') /\ \A e \in Known(s) : e.id < m.id
  BY AheadPopped DEF Work, Stock
<1>8. Load(s)'
  <2>1. \A k : Says(Down(s)', k) => Says(Down(s), k)
    BY SaysPopped
  <2>. QED BY <1>1, <1>2, <2>1 DEF Work, Load, Past
<1>9. Stock(s)'
  <2>1. \A e \in Known(s)' : e.id \in Share(s) /\ e.id < Limit /\ e = Stored(e.id)
    BY <1>2, <1>3, <1>6 DEF Work, Stock
  <2>2. Ahead(Known(s)', Down(s)')
    BY <1>2, <1>3, <1>6, <1>7 DEF Ahead
  <2>. QED BY <1>1, <2>1, <2>2 DEF Stock, Stored
<1>10. Schedule(s)'
  <2>1. Stored(m.id) \notin Known(s)
    <3>1. m.id \in Nat
      BY <1>2, StoredEntry
    <3>. QED BY SMTT(30), <1>3, <1>7, <3>1
  <2>2. \A e \in decoding'[s] : e \notin Elements(interactions[s])
    BY <1>5, <2>1 DEF Work, Schedule, Known
  <2>3. sphase'[s] \notin Past
    BY DEF Past
  <2>. QED BY ZenonT(30), <2>2, <2>3 DEF Work, Schedule, Distinct, Elements
<1>11. Lossless(s)'
  <2>. SUFFICES ASSUME pphase # "failed", sphase'[s] = "prepare", NEW id \in Share(s), id < Limit
                PROVE  Stored(id) \in Known(s)' \/ Holds(Down(s)', id)
    BY <1>1 DEF Lossless, Stored
  <2>1. Stored(id) \in Known(s) \/ Holds(Down(s), id)
    BY DEF Work, Lossless
  <2>2. Holds(Down(s), id) => Holds(Down(s)', id) \/ m.id = id
    BY ZenonT(30), HoldsPopped
  <2>3. Stored(m.id) \in Known(s)'
    BY <1>3 DEF Known
  <2>. QED BY <1>6, <2>1, <2>2, <2>3
<1>12. decoding'[s] \in SUBSET Entries
  BY <1>4, <1>5 DEF DataTypes
<1>. QED BY <1>8, <1>9, <1>10, <1>11, <1>12 DEF Work

(* What a secondary knows of is only put in another order. *)
LEMMA WorkReorders ==
    ASSUME NEW s \in Secondaries, Work(s), UNCHANGED primary, Down(s)' = Down(s),
           Known(s)' = Known(s), Schedule(s)', sphase[s] \in Past, sphase'[s] \in Past
    PROVE  Work(s)'
<1>1. Share(s)' = Share(s) /\ Limit' = Limit /\ Shipping' = Shipping /\ pphase' = pphase
  BY SameShare
<1>2. Load(s)'
  BY <1>1 DEF Work, Load
<1>3. Stock(s)'
  BY ZenonT(30), <1>1 DEF Work, Stock, Stored
<1>4. Lossless(s)'
  BY <1>1 DEF Work, Lossless, Stored, Past
<1>. QED BY <1>2, <1>3, <1>4 DEF Work

LEMMA WorkDecoded ==
    ASSUME NEW s \in Secondaries, Work(s), DataTypes, UNCHANGED primary, Down(s)' = Down(s),
           sphase[s] = "decode", sphase'[s] = "decode", next'[s] = next[s],
           NEW iact \in decoding[s], decoding'[s] = decoding[s] \ {iact},
           interactions'[s] = Append(interactions[s], iact)
    PROVE  Work(s)' /\ decoding'[s] \in SUBSET Entries /\ interactions'[s] \in Seq(Entries)
<1>. DEFINE l == interactions[s]
            l2 == interactions'[s]
<1>1. l \in Seq(Entries) /\ decoding[s] \in SUBSET Entries /\ next[s] \in Nat
  BY DEF DataTypes
<1>2. /\ l2 \in Seq(Entries) /\ Len(l) \in Nat /\ Len(l2) = Len(l) + 1 /\ l2[Len(l) + 1] = iact
      /\ \A i \in 1..Len(l) : l2[i] = l[i]
  BY SMTT(30), <1>1
<1>. HIDE DEF l, l2
<1>3. \A i \in 1..Len(l2) : i \in 1..Len(l) \/ i = Len(l) + 1
  BY SMTT(30), <1>2
<1>4. \A i : i \in 1..Len(l) \/ i = Len(l) + 1 => i \in 1..Len(l2)
  BY SMTT(30), <1>2
<1>5. Elements(l2) = Elements(l) \cup {iact}
  BY <1>2, <1>3, <1>4 DEF Elements
<1>6. iact \notin Elements(l)
  BY DEF Work, Schedule, l
<1>7. Distinct(l2)
  <2>1. Distinct(l)
    BY DEF Work, Schedule, l
  <2>. QED BY SMTT(30), <1>2, <1>3, <1>6, <2>1 DEF Distinct, Elements
<1>8. Known(s)' = Known(s)
  BY <1>5 DEF Known, l, l2
<1>9. \A e \in decoding'[s] : e \notin Elements(l2)
  <2>1. \A e \in decoding[s] : e \notin Elements(l)
    BY DEF Work, Schedule, l
  <2>. QED BY <1>5, <2>1
<1>10. next[s] <= Len(l2) + 1
  <2>1. next[s] <= Len(l) + 1
    BY DEF Work, Schedule, l
  <2>. QED BY SMTT(30), <1>1, <1>2, <2>1
<1>11. Schedule(s)'
  BY <1>7, <1>9, <1>10 DEF Schedule, Distinct, Elements, l2
<1>12. sphase[s] \in Past /\ sphase'[s] \in Past
  BY DEF Past
<1>13. Work(s)'
  BY <1>8, <1>11, <1>12, WorkReorders
<1>. QED BY <1>1, <1>2, <1>13 DEF l2

-----------------------------------------------------------------------------
(* The answers of one secondary. *)

LEMMA SameAnswers ==
    ASSUME NEW u, Up(u)' = Up(u), results'[u] = results[u]
    PROVE  /\ Quiet(u)' <=> Quiet(u)
           /\ interactions'[u] = interactions[u] => (Reporting(u)' <=> Reporting(u))
  BY DEF Quiet, Reporting, Answer, Report, Msg

(* The answers of a secondary that a step leaves alone. *)
LEMMA AnswersFrame ==
    ASSUME NEW u \in Secondaries, Answers(u), SameWork(u),
           Down(u)' = Down(u), Up(u)' = Up(u), results'[u] = results[u],
           Accepted(u)' <=> Accepted(u),
           Alive' => /\ Alive /\ (Greeting(u) => Greeting(u)')
                     /\ Awaited(u) => Awaited(u)' \/ sphase[u] \in {"over", "failed"}
    PROVE  Answers(u)'
<1>1. Quiet(u)' <=> Quiet(u)
  BY SameAnswers
<1>2. Reporting(u)' <=> Reporting(u)
  BY SameAnswers DEF SameWork
<1>3. Opening(u)'
  BY DEF Opening, Answers, SameWork, Says, Msg
<1>4. Closing(u)'
  BY <1>1, <1>2 DEF Closing, Answers, SameWork, Says
<1>. QED BY <1>3, <1>4 DEF Answers

(* The primary writes m to s. *)
LEMMA AnswersWritten ==
    ASSUME NEW s \in Secondaries, Answers(s), NEW m, Pushed(Down(s), Down(s)', m), SameWork(s),
           Up(s)' = Up(s), results'[s] = results[s], Alive, ~Awaited(s), ~Greeting(s),
           Accepted(s)', Accepted(s) \/ Greeting(s)', m.kind = "done" => Awaited(s)'
    PROVE  Answers(s)'
<1>1. Quiet(s)' <=> Quiet(s)
  BY SameAnswers
<1>2. Reporting(s)' <=> Reporting(s)
  BY SameAnswers DEF SameWork
<1>3. Says(Down(s)', "done") => Says(Down(s), "done") \/ Awaited(s)'
  BY SaysPushed
<1>4. Opening(s)'
  BY <1>3 DEF Opening, Answers, SameWork
<1>5. Closing(s)'
  BY <1>1, <1>2 DEF Closing, Answers, SameWork, Says
<1>. QED BY <1>4, <1>5 DEF Answers

LEMMA AnswerKind ==
    ASSUME NEW s, NEW i
    PROVE  Answer(s, i).kind = IF i <= Len(interactions[s]) THEN "result" ELSE "resultDone"
  BY DEF Answer, Report, Msg

LEMMA Shift ==
    ASSUME NEW n \in Nat, NEW i \in Nat
    PROVE  n + (i + 1) = n + 1 + i
  BY SMTT(30)

LEMMA QuietPopped ==
    ASSUME NEW s, NEW m, Popped(Up(s), Up(s)', m), Quiet(s)
    PROVE  m.kind \in {"params", "done"} /\ (results'[s] = results[s] => Quiet(s)')
<1>1. /\ 1 \in 1..Len(Up(s)) /\ Up(s)[1] = m
      /\ \A i \in 1..Len(Up(s)') : i + 1 \in 1..Len(Up(s)) /\ Up(s)'[i] = Up(s)[i + 1]
  BY SMTT(30), PoppedIndex
<1>. QED BY <1>1 DEF Quiet

LEMMA ReportingPopped ==
    ASSUME NEW s, NEW m, Popped(Up(s), Up(s)', m), Reporting(s), Len(results[s]) \in Nat
    PROVE  /\ m = Answer(s, Len(results[s]) + 1) /\ m.kind \in {"result", "resultDone"}
           /\ \A i \in 1..Len(Up(s)') : Up(s)'[i] = Answer(s, Len(results[s]) + 1 + i)
<1>1. /\ 1 \in 1..Len(Up(s)) /\ Up(s)[1] = m
      /\ \A i \in 1..Len(Up(s)') :
            i + 1 \in 1..Len(Up(s)) /\ Up(s)'[i] = Up(s)[i + 1] /\ i \in Nat
  BY SMTT(30), PoppedIndex
<1>2. m = Answer(s, Len(results[s]) + 1)
  BY <1>1 DEF Reporting
<1>3. ASSUME NEW i \in 1..Len(Up(s)') PROVE Up(s)'[i] = Answer(s, Len(results[s]) + 1 + i)
  <2>1. Up(s)'[i] = Answer(s, Len(results[s]) + (i + 1))
    BY <1>1 DEF Reporting
  <2>2. i \in Nat
    BY <1>1
  <2>. QED BY <2>1, <2>2, Shift
<1>. QED BY <1>2, <1>3, AnswerKind

(* The answer "params" or "done" is read while the secondary has not begun *)
(* to report, or has failed before it did.                                 *)
LEMMA SignalRead ==
    ASSUME NEW s \in Secondaries, Answers(s), NEW m, Popped(Up(s), Up(s)', m),
           m.kind \in {"params", "done"}, Len(results[s]) \in Nat, sphase[s] \in Phases,
           SameWork(s), Down(s)' = Down(s), results'[s] = results[s],
           Accepted(s)' <=> Accepted(s), Alive,
           m.kind = "params" => pphase = "handshake", m.kind = "done" => pphase = "waitReady"
    PROVE  Answers(s)'
<1>1. Len(Up(s)) \in Nat \ {0} /\ Len(Up(s)') = Len(Up(s)) - 1 /\ Up(s)[1] = m
  BY SMTT(30), PoppedIndex
<1>2. ~Reporting(s)
  BY ReportingPopped
<1>3. /\ sphase[s] \in {"prepare", "waitStart", "failed"}
      /\ sphase[s] = "prepare" => Len(Up(s)) = 1 /\ m = Msg("params")
      /\ sphase[s] = "waitStart" => Len(Up(s)) = 1 /\ ~Says(Down(s), "start")
      /\ Quiet(s)
  BY <1>1, <1>2 DEF Answers, Opening, Closing, Awaited, Phases
<1>4. Quiet(s)'
  BY <1>3, QuietPopped
<1>5. sphase[s] = "prepare" => pphase = "handshake"
  BY SMTT(30), <1>3 DEF Msg
<1>6. sphase[s] = "prepare" => ~Says(Down(s), "done")
  BY <1>5 DEF Answers, Opening, Awaited
<1>7. Closing(s)'
  BY ZenonT(30), <1>3, <1>4 DEF Closing, SameWork
<1>8. Opening(s)'
  BY SMTT(30), <1>1, <1>3, <1>6 DEF Opening, Answers, SameWork
<1>. QED BY <1>7, <1>8 DEF Answers

(* A result is the next one of those the secondary stored. *)
LEMMA ResultRead ==
    ASSUME NEW s \in Secondaries, Answers(s), NEW m, Popped(Up(s), Up(s)', m), m.kind = "result",
           DataTypes, sphase[s] \in Phases, SameWork(s), Down(s)' = Down(s),
           results'[s] = Append(results[s], [id |-> m.id, client |-> m.index]),
           Accepted(s)' <=> Accepted(s)
    PROVE  [id |-> m.id, client |-> m.index] \in Entries /\ Answers(s)'
<1>. DEFINE l == interactions[s]
            r == results[s]
            e == [id |-> m.id, client |-> m.index]
<1>1. l \in Seq(Entries) /\ r \in Seq(Entries) /\ next[s] \in Nat
  BY DEF DataTypes
<1>2. Len(l) \in Nat /\ Len(r) \in Nat
  BY SMTT(30), <1>1
<1>3. Len(Up(s)) \in Nat \ {0} /\ Len(Up(s)') = Len(Up(s)) - 1 /\ ~Quiet(s)
  BY PoppedIndex, QuietPopped
<1>4. sphase[s] \in {"stop", "over", "failed"} /\ Reporting(s)
  BY <1>3 DEF Answers, Closing, Phases
<1>5. /\ m = Answer(s, Len(r) + 1)
      /\ \A i \in 1..Len(Up(s)') : Up(s)'[i] = Answer(s, Len(r) + 1 + i)
  BY <1>2, <1>4, ReportingPopped
<1>6. Len(r) + 1 \in 1..Len(l) /\ m = Report(s, Len(r) + 1)
  BY SMTT(30), <1>2, <1>5, AnswerKind DEF Answer
<1>7. l[Len(r) + 1] \in Entries
  BY SMTT(30), <1>1, <1>6
<1>8. e = l[Len(r) + 1]
  BY <1>6, <1>7 DEF Report, Entries
<1>9. interactions'[s] = l /\ sphase'[s] = sphase[s] /\ next'[s] = next[s]
  BY DEF SameWork
<1>. HIDE DEF l, e
<1>10. /\ Len(results'[s]) = Len(r) + 1 /\ results'[s][Len(r) + 1] = e
       /\ \A i \in 1..Len(r) : results'[s][i] = r[i]
  <2>1. results'[s] = Append(r, e)
    BY DEF e
  <2>2. e \in Entries
    BY <1>7, <1>8
  <2>. HIDE DEF r
  <2>. QED BY SMTT(30), <1>1, <2>1, <2>2, AppendIndex
<1>11. Reporting(s)'
  <2>1. \A i \in 1..Len(r) : r[i] = l[i]
    BY <1>4 DEF Reporting, l
  <2>. HIDE DEF r
  <2>2. \A i : Answer(s, Len(results[s]) + i)' = Answer(s, Len(r) + 1 + i)
    BY <1>9, <1>10 DEF Answer, Report, Msg, l
  <2>3. \A i \in 1..Len(results'[s]) : results'[s][i] = l[i]
    BY SMTT(30), <1>2, <1>8, <1>10, <2>1
  <2>4. \A i \in 1..Len(Up(s)') : Up(s)'[i] = Answer(s, Len(results[s]) + i)'
    BY <1>5, <2>2
  <2>5. Len(results'[s]) <= Len(interactions'[s])
    BY SMTT(30), <1>6, <1>9, <1>10
  <2>. QED BY <1>9, <2>3, <2>4, <2>5 DEF Reporting
<1>12. Says(Up(s)', "resultDone") => Says(Up(s), "resultDone")
  BY SaysPopped
<1>13. Closing(s)'
  <2>1. sphase[s] = "stop" => Len(r) + Len(Up(s)) = next[s] - 1
    BY <1>4 DEF Answers, Closing
  <2>2. sphase[s] = "failed" => ~Says(Up(s), "resultDone")
    BY <1>3, <1>4 DEF Answers, Closing
  <2>. HIDE DEF r
  <2>3. sphase[s] = "stop" => (Len(r) + 1) + Len(Up(s)') = next[s] - 1
    BY SMTT(30), <1>1, <1>2, <1>3, <2>1
  <2>. QED BY <1>4, <1>9, <1>10, <1>11, <1>12, <2>2, <2>3 DEF Closing
<1>14. Opening(s)'
  BY <1>4, <1>9 DEF Opening, Answers
<1>. QED BY <1>7, <1>8, <1>13, <1>14 DEF Answers, e

(* The end mark follows the last of them. *)
LEMMA EndRead ==
    ASSUME NEW s \in Secondaries, Answers(s), NEW m, Popped(Up(s), Up(s)', m),
           m.kind = "resultDone", DataTypes, next[s] <= Len(interactions[s]) + 1,
           sphase[s] \in Phases, SameWork(s), Down(s)' = Down(s), results'[s] = results[s],
           Accepted(s)' <=> Accepted(s)
    PROVE  sphase[s] = "over" /\ results[s] = interactions[s] /\ Answers(s)'
<1>. DEFINE l == interactions[s]
            r == results[s]
<1>1. l \in Seq(Entries) /\ r \in Seq(Entries) /\ next[s] \in Nat
  BY DEF DataTypes
<1>2. Len(l) \in Nat /\ Len(r) \in Nat
  BY SMTT(30), <1>1
<1>3. Len(Up(s)) \in Nat \ {0} /\ Len(Up(s)') = Len(Up(s)) - 1 /\ ~Quiet(s)
  BY PoppedIndex, QuietPopped
<1>4. Says(Up(s), "resultDone")
  BY SaysPopped
<1>5. sphase[s] \in {"stop", "over"} /\ Reporting(s)
  BY <1>3, <1>4 DEF Answers, Closing, Phases
<1>6. /\ m = Answer(s, Len(r) + 1)
      /\ \A i \in 1..Len(Up(s)') : Up(s)'[i] = Answer(s, Len(r) + 1 + i)
  BY <1>2, <1>5, ReportingPopped
<1>7. ~(Len(r) + 1 <= Len(l))
  BY <1>6, AnswerKind
<1>8. Len(r) <= Len(l) /\ \A i \in 1..Len(r) : r[i] = l[i]
  BY <1>5 DEF Reporting
<1>9. sphase[s] # "stop"
  <2>1. sphase[s] = "stop" => Len(r) + Len(Up(s)) = next[s] - 1
    BY <1>5 DEF Answers, Closing
  <2>. HIDE DEF r, l
  <2>2. next[s] <= Len(l) + 1
    BY DEF l
  <2>. QED BY SMTT(30), <1>1, <1>2, <1>3, <1>7, <2>1, <2>2
<1>10. interactions'[s] = l /\ sphase'[s] = sphase[s]
  BY DEF SameWork
<1>11. r = l
  <2>. HIDE DEF r, l
  <2>1. Len(r) = Len(l)
    BY SMTT(30), <1>2, <1>7, <1>8
  <2>. QED BY <1>1, <1>8, <2>1, SeqEqual
<1>12. Reporting(s)'
  <2>1. \A i : Answer(s, i)' = Answer(s, i)
    BY <1>10 DEF Answer, Report, Msg, l
  <2>2. \A i \in 1..Len(Up(s)') : Answer(s, Len(r) + 1 + i) = Answer(s, Len(r) + i)
    BY SMTT(30), <1>2, <1>7 DEF Answer, l
  <2>. QED BY <1>6, <1>8, <1>10, <2>1, <2>2 DEF Reporting
<1>13. Closing(s)'
  BY <1>5, <1>9, <1>10, <1>12 DEF Closing
<1>14. Opening(s)'
  BY <1>5, <1>10 DEF Opening, Answers
<1>. QED BY <1>5, <1>9, <1>11, <1>13, <1>14 DEF Answers


-----------------------------------------------------------------------------
(* The answers of a secondary that takes a step. *)
LEMMA SameHearing ==
    ASSUME UNCHANGED primary, NEW u
    PROVE  /\ Alive' <=> Alive
           /\ Accepted(u)' <=> Accepted(u)
           /\ Greeting(u)' <=> Greeting(u)
           /\ Awaited(u)' <=> Awaited(u)
           /\ results'[u] = results[u]
<1>1. UNCHANGED <<pphase, cursor, slots, results>>
  BY DEF primary
<1>. QED BY <1>1 DEF Alive, Accepted, Greeting, Awaited

(* Dial, Trigger, and SleepOver, after which stop() begins. *)
LEMMA AnswersMoved ==
    ASSUME NEW s \in Secondaries, Answers(s), UNCHANGED primary, SameDown(s), SameUp(s), SameStock(s),
           Len(interactions[s]) \in Nat,
           \/ Moves(s, "dial", "init")
           \/ Moves(s, "run", "run")
           \/ Moves(s, "run", "stop") /\ next'[s] = 1
    PROVE  Answers(s)'
<1>0. /\ Alive' <=> Alive
      /\ Accepted(s)' <=> Accepted(s)
      /\ Greeting(s)' <=> Greeting(s)
      /\ Awaited(s)' <=> Awaited(s)
      /\ results'[s] = results[s]
  BY SameHearing
<1>1. Down(s)' = Down(s) /\ Up(s)' = Up(s) /\ interactions'[s] = interactions[s]
  BY DEF SameDown, SameUp, SameStock
<1>2. Quiet(s) /\ Quiet(s)' /\ Len(Up(s)) = 0
  BY <1>0, <1>1, SameAnswers DEF Answers, Opening, Closing, Moves
<1>3. Reporting(s)' /\ Len(results[s]) = 0
  BY SMTT(30), <1>0, <1>1, <1>2 DEF Reporting, Quiet
<1>4. Opening(s)'
  BY ZenonT(30), <1>0, <1>1, <1>2 DEF Answers, Opening, Moves
<1>5. Closing(s)'
  BY SMTT(30), <1>0, <1>1, <1>2, <1>3 DEF Closing, Moves
<1>. QED BY <1>0, <1>4, <1>5 DEF Answers

(* A failure: what has been reported is a part of the results, without the *)
(* end mark.                                                               *)
LEMMA AnswersLost ==
    ASSUME NEW s \in Secondaries, Answers(s), UNCHANGED primary, SameDown(s), SameUp(s), SameStock(s),
           DataTypes, sphase[s] \in Phases \ {"over", "failed"}, sphase'[s] = "failed",
           next[s] <= Len(interactions[s]) + 1
    PROVE  Answers(s)'
<1>0. /\ Alive' <=> Alive
      /\ Accepted(s)' <=> Accepted(s)
      /\ Greeting(s)' <=> Greeting(s)
      /\ Awaited(s)' <=> Awaited(s)
      /\ results'[s] = results[s]
  BY SameHearing
<1>1. Down(s)' = Down(s) /\ Up(s)' = Up(s) /\ interactions'[s] = interactions[s]
  BY DEF SameDown, SameUp, SameStock
<1>2. /\ Len(interactions[s]) \in Nat /\ Len(results[s]) \in Nat /\ next[s] \in Nat
  BY SMTT(30) DEF DataTypes
<1>3. (Quiet(s)' <=> Quiet(s)) /\ (Reporting(s)' <=> Reporting(s))
  BY <1>0, <1>1, SameAnswers
<1>4. CASE sphase[s] = "stop"
  <2>1. Reporting(s) /\ Len(results[s]) + Len(Up(s)) = next[s] - 1
    BY <1>0, <1>4 DEF Answers, Closing
  <2>2. ASSUME NEW i \in 1..Len(Up(s)) PROVE Up(s)[i].kind = "result"
    <3>1. Len(results[s]) + i <= Len(interactions[s])
      BY SMTT(30), <1>0, <1>2, <2>1
    <3>2. Up(s)[i] = Answer(s, Len(results[s]) + i)
      BY <1>0, <2>1 DEF Reporting
    <3>. QED BY ZenonT(30), <1>0, <3>1, <3>2, AnswerKind
  <2>3. ~Says(Up(s), "resultDone")
    BY <1>0, <2>2 DEF Says
  <2>. QED BY <1>0, <1>1, <1>3, <2>1, <2>3 DEF Answers, Opening, Closing, Says
<1>5. CASE sphase[s] # "stop"
  <2>1. Quiet(s)
    BY <1>0, <1>5 DEF Answers, Closing, Phases
  <2>. QED BY <1>0, <1>1, <1>3, <2>1 DEF Answers, Opening, Closing
<1>. QED BY <1>0, <1>4, <1>5

(* PrepareClient and PrepareInteraction, PrepareDone, WaitStart. *)
LEMMA AnswersRead ==
    ASSUME NEW s \in Secondaries, Answers(s), UNCHANGED primary, SameUp(s),
           NEW m, Popped(Down(s), Down(s)', m),
           \/ Moves(s, "prepare", "prepare")
           \/ Moves(s, "prepare", "failed")
           \/ Moves(s, "prepare", "decode") /\ m.kind = "done"
           \/ Moves(s, "waitStart", "run") /\ m.kind = "start"
    PROVE  Answers(s)'
<1>0. /\ Alive' <=> Alive
      /\ Accepted(s)' <=> Accepted(s)
      /\ Greeting(s)' <=> Greeting(s)
      /\ Awaited(s)' <=> Awaited(s)
      /\ results'[s] = results[s]
  BY SameHearing
<1>1. Up(s)' = Up(s)
  BY DEF SameUp
<1>2. Says(Down(s), m.kind) /\ (Says(Down(s)', "done") => Says(Down(s), "done"))
      /\ Len(Down(s)) # 0
  BY SaysPopped DEF Popped
<1>3. Quiet(s)'
  BY <1>0, <1>1, SameAnswers DEF Answers, Closing, Moves
<1>4. Opening(s)'
  <2>1. ~(Greeting(s) /\ Awaited(s)) /\ Msg("params").kind = "params"
    BY DEF Greeting, Awaited, Msg
  <2>2. Accepted(s)
    BY <1>0, <1>2 DEF Answers, Opening
  <2>. QED BY <1>0, <1>1, <1>2, <2>1, <2>2 DEF Answers, Opening, Moves
<1>5. Closing(s)'
  BY <1>0, <1>3 DEF Closing, Moves
<1>. QED BY <1>0, <1>4, <1>5 DEF Answers

LEMMA QuietPushed ==
    ASSUME NEW s, NEW m, Pushed(Up(s), Up(s)', m), Quiet(s), results'[s] = results[s],
           m.kind \in {"params", "done"}
    PROVE  Quiet(s)'
<1>1. ASSUME NEW i \in 1..Len(Up(s)') PROVE Up(s)'[i].kind \in {"params", "done"}
  <2>1. i \in 1..Len(Up(s)) \/ i = Len(Up(s)) + 1
    BY SMTT(30) DEF Pushed
  <2>. QED BY <2>1 DEF Pushed, Quiet
<1>. QED BY <1>1 DEF Quiet

(* InitRuntime answers "params". *)
LEMMA AnswersGreeted ==
    ASSUME NEW s \in Secondaries, Answers(s), UNCHANGED primary, Moves(s, "init", "prepare"),
           NEW m, Popped(Down(s), Down(s)', m), Pushed(Up(s), Up(s)', Msg("params")),
           Shipping => ~Says(Down(s), "done")
    PROVE  Answers(s)'
<1>0. /\ Alive' <=> Alive
      /\ Accepted(s)' <=> Accepted(s)
      /\ Greeting(s)' <=> Greeting(s)
      /\ Awaited(s)' <=> Awaited(s)
      /\ results'[s] = results[s]
  BY SameHearing
<1>1. Len(Down(s)) # 0 /\ (Says(Down(s)', "done") => Says(Down(s), "done"))
  BY SaysPopped DEF Popped
<1>2. Accepted(s) /\ (Alive => Greeting(s)) /\ Quiet(s) /\ Len(Up(s)) = 0
  BY <1>0, <1>1 DEF Answers, Opening, Closing, Moves
<1>3. Alive => Shipping
  BY <1>0, <1>2 DEF Greeting, Shipping, Early
<1>4. Len(Up(s)') = 1 /\ Up(s)'[1] = Msg("params")
  BY SMTT(30), <1>0, <1>2 DEF Pushed
<1>5. Quiet(s)'
  BY <1>0, <1>2, QuietPushed DEF Msg
<1>6. Opening(s)'
  BY <1>0, <1>1, <1>2, <1>3, <1>4 DEF Opening, Moves, Msg
<1>7. Closing(s)'
  BY <1>0, <1>5 DEF Closing, Moves
<1>. QED BY <1>0, <1>6, <1>7 DEF Answers

(* Decoded, and SyncReady, which answers "done". *)
LEMMA AnswersReady ==
    ASSUME NEW s \in Secondaries, Answers(s), UNCHANGED primary, SameDown(s), sphase[s] = "decode",
           ~Says(Down(s), "start"),
           \/ sphase'[s] = "decode" /\ SameUp(s)
           \/ sphase'[s] = "waitStart" /\ Pushed(Up(s), Up(s)', Msg("done"))
    PROVE  Answers(s)'
<1>0. /\ Alive' <=> Alive
      /\ Accepted(s)' <=> Accepted(s)
      /\ Greeting(s)' <=> Greeting(s)
      /\ Awaited(s)' <=> Awaited(s)
      /\ results'[s] = results[s]
  BY SameHearing
<1>1. Down(s)' = Down(s) /\ Quiet(s)
  BY DEF SameDown, Answers, Closing
<1>2. CASE sphase'[s] = "decode" /\ SameUp(s)
  <2>1. Up(s)' = Up(s)
    BY <1>0, <1>2 DEF SameUp
  <2>2. Quiet(s)'
    BY <1>0, <1>1, <2>1, SameAnswers
  <2>. QED BY ZenonT(30), <1>0, <1>1, <1>2, <2>1, <2>2 DEF Answers, Opening, Closing
<1>3. CASE sphase'[s] = "waitStart" /\ Pushed(Up(s), Up(s)', Msg("done"))
  <2>1. Quiet(s)'
    BY ZenonT(30), <1>0, <1>1, <1>3, QuietPushed DEF Msg
  <2>2. Len(Up(s)) = 0 => Len(Up(s)') = 1
    BY SMTT(30), <1>0, <1>3 DEF Pushed
  <2>. QED BY ZenonT(30), <1>0, <1>1, <1>3, <2>1, <2>2 DEF Answers, Opening, Closing
<1>. QED BY <1>0, <1>2, <1>3

(* PushResult and PushDone send the next answer. *)
LEMMA AnswersReported ==
    ASSUME NEW s \in Secondaries, Answers(s), UNCHANGED primary, SameDown(s), SameStock(s), DataTypes,
           sphase[s] = "stop", Pushed(Up(s), Up(s)', Answer(s, next[s])),
           \/ sphase'[s] = "stop" /\ next'[s] = next[s] + 1
           \/ sphase'[s] = "over"
    PROVE  Answers(s)'
<1>0. /\ Alive' <=> Alive
      /\ Accepted(s)' <=> Accepted(s)
      /\ Greeting(s)' <=> Greeting(s)
      /\ Awaited(s)' <=> Awaited(s)
      /\ results'[s] = results[s]
  BY SameHearing
<1>1. Down(s)' = Down(s) /\ interactions'[s] = interactions[s] /\ results'[s] = results[s]
  BY <1>0 DEF SameDown, SameStock
<1>2. Len(results[s]) \in Nat /\ next[s] \in Nat
  BY SMTT(30) DEF DataTypes
<1>3. Reporting(s) /\ Len(results[s]) + Len(Up(s)) = next[s] - 1
  BY DEF Answers, Closing
<1>4. Len(Up(s)) \in Nat /\ Len(Up(s)') = Len(Up(s)) + 1
  BY DEF Pushed
<1>5. Len(results[s]) + (Len(Up(s)) + 1) = next[s]
  <2>. DEFINE n == Len(results[s])
              k == Len(Up(s))
              x == next[s]
  <2>1. n \in Nat /\ k \in Nat /\ x \in Nat /\ n + k = x - 1
    BY ONLY <1>2, <1>3, <1>4
  <2>. HIDE DEF n, k, x
  <2>2. n + (k + 1) = x
    BY ONLY <2>1
  <2>. QED BY ONLY Zenon, <2>2 DEF n, k, x
<1>6. \A i : Answer(s, Len(results[s]) + i)' = Answer(s, Len(results[s]) + i)
  BY <1>0, <1>1 DEF Answer, Report, Msg
<1>7. ASSUME NEW i \in 1..Len(Up(s)') PROVE Up(s)'[i] = Answer(s, Len(results[s]) + i)
  <2>1. CASE i \in 1..Len(Up(s))
    BY <1>0, <1>3, <2>1 DEF Pushed, Reporting
  <2>2. CASE i = Len(Up(s)) + 1
    <3>1. Len(results[s]) + i = next[s]
      BY <1>5, <2>2
    <3>. QED BY <1>0, <2>2, <3>1 DEF Pushed
  <2>. QED BY SMTT(30), <1>0, <1>4, <2>1, <2>2
<1>8. Reporting(s)'
  BY <1>0, <1>1, <1>3, <1>6, <1>7 DEF Reporting
<1>9. Closing(s)'
  <2>1. Len(results[s]) + Len(Up(s)') = next[s]
    BY <1>4, <1>5
  <2>2. (next[s] + 1) - 1 = next[s]
    BY ONLY <1>2
  <2>. QED BY <1>0, <1>8, <2>1, <2>2 DEF Closing
<1>10. Opening(s)'
  BY <1>0, <1>1 DEF Answers, Opening
<1>. QED BY <1>0, <1>9, <1>10 DEF Answers
=============================================================================
