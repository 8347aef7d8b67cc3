--------------------------- MODULE RuntimeProofs ---------------------------
(***************************************************************************)
(* Proofs about ClientIndex and about Redundant.                           *)
(*                                                                         *)
(* An interaction finds its client and its result its entry, for as many   *)
(* clients and kinds as a byte can number: the messages sent are those run *)
(* and then those on the wire, in order, and each carries numbers that     *)
(* lead back to the client and the kind it was sent for (Leads).           *)
(*                                                                         *)
(* The redundancy wrapper of strict clients keeps the report contract, for *)
(* any number of clients, and its results are in order as long as no       *)
(* client has an outcome before the end of its own submit.  The argument:  *)
(* the counters are the numbers of clients that made the matching report   *)
(* (Counted), so a full counter means that every client made it, hence     *)
(* that no client is still inside ReportSubmit (InOrder): the inner submit *)
(* has happened before the inner commit, although the wrapper makes both   *)
(* calls after it has released its lock.                                   *)
(***************************************************************************)
EXTENDS ClientIndex, Redundant, FiniteSetTheorems, TLAPS

USE ZenonT(40)

-----------------------------------------------------------------------------
(* The client and kind indices. *)


(* The clients interactions are sent on, and the kinds of the interactions *)
(* of one of them, can be numbered in a byte.                              *)
Narrow ==
    /\ Senders \subseteq 0..255
    /\ IsFiniteSet(Kinds) /\ Cardinality(Kinds) <= 256

(* A table of kinds has an entry for each kind at most. *)
Table(t) ==
    /\ t \in Seq(Kinds)
    /\ \A j, k \in 1..Len(t) : t[j] = t[k] => j = k

(* The numbers i and ik lead to the k-th interaction sent. *)
Leads(k, i, ik) ==
    /\ i = sent[k].client /\ ik \in Nat
    /\ ik < Len(kinds[i]) /\ kinds[i][ik + 1] = sent[k].kind

(* An interaction sent: the client it is for and its kind. *)
Sending == [client : Senders, kind : Kinds]

FilingTypes ==
    /\ ~failed /\ nclients \in Nat
    /\ kinds \in [Senders -> Seq(Kinds)]
    /\ sent \in Seq(Sending) /\ filed \in Seq(Sending)
    /\ wire \in Seq([index : Senders, ikind : Nat])
    /\ runs \in Seq([id : Senders, ikind : Nat])

(* The messages of the interactions sent are the runs and then the wire.   *)
Lengths ==
    /\ Len(sent) = Len(runs) + Len(wire) /\ Len(filed) <= Len(runs)
    /\ \A k \in 1..Len(sent) : sent[k].client < nclients

Ran == \A k \in 1..Len(runs) : Leads(k, runs[k].id, runs[k].ikind)
Travels == \A k \in 1..Len(wire) : Leads(Len(runs) + k, wire[k].index, wire[k].ikind)
Files == \A k \in 1..Len(filed) : filed[k] = sent[k]

FilingInv ==
    /\ FilingTypes /\ Lengths /\ Ran /\ Travels /\ Files
    /\ \A i \in Senders : Table(kinds[i])

(* The elements of a sequence. *)
LEMMA ElementOf ==
    ASSUME NEW S, NEW l \in Seq(S)
    PROVE  Len(l) \in Nat /\ \A k \in 1..Len(l) : l[k] \in S
  BY SMTT(30)

(* The lengths of the queues and what they hold. *)
LEMMA Lens ==
    ASSUME FilingTypes
    PROVE  /\ Len(sent) \in Nat /\ Len(wire) \in Nat /\ Len(runs) \in Nat /\ Len(filed) \in Nat
           /\ \A k \in 1..Len(sent) : sent[k] \in Sending
           /\ \A k \in 1..Len(wire) : wire[k].index \in Senders /\ wire[k].ikind \in Nat
           /\ \A k \in 1..Len(runs) : runs[k].id \in Senders /\ runs[k].ikind \in Nat
<1>1. Len(sent) \in Nat /\ \A k \in 1..Len(sent) : sent[k] \in Sending
  BY ElementOf DEF FilingTypes
<1>2. Len(wire) \in Nat /\ \A k \in 1..Len(wire) : wire[k] \in [index : Senders, ikind : Nat]
  BY ElementOf DEF FilingTypes
<1>3. Len(runs) \in Nat /\ \A k \in 1..Len(runs) : runs[k] \in [id : Senders, ikind : Nat]
  BY ElementOf DEF FilingTypes
<1>4. Len(filed) \in Nat
  BY SMTT(30) DEF FilingTypes
<1>. QED BY <1>1, <1>2, <1>3, <1>4

(* A sequence and what is appended to it. *)
LEMMA Appended ==
    ASSUME NEW S, NEW l \in Seq(S), NEW e \in S, NEW l2, l2 = Append(l, e)
    PROVE  /\ l2 \in Seq(S) /\ Len(l) \in Nat /\ Len(l2) = Len(l) + 1 /\ l2[Len(l) + 1] = e
           /\ \A k \in 1..Len(l) : l2[k] = l[k]
           /\ \A k \in 1..Len(l2) : k \in 1..Len(l) \/ k = Len(l) + 1
  BY SMTT(30)

(* A table has an entry for each kind at most. *)
LEMMA TableBound ==
    ASSUME Narrow, NEW t, Table(t)
    PROVE  Len(t) \in Nat /\ Len(t) <= 256
<1>. DEFINE n == Len(t)
            f == [j \in 1..n |-> t[j]]
<1>1. n \in Nat /\ \A j \in 1..n : t[j] \in Kinds
  BY SMTT(30) DEF Table
<1>2. \A j, k \in 1..n : t[j] = t[k] => j = k
  BY DEF Table
<1>. HIDE DEF n
<1>3. f \in Injection(1..n, Kinds)
  BY <1>1, <1>2 DEF Injection, IsInjective
<1>4. Cardinality(1..n) = n
  BY SMTT(30), <1>1, FS_Interval
<1>. HIDE DEF f
<1>5. Cardinality(1..n) <= Cardinality(Kinds) /\ Cardinality(Kinds) \in Nat
  BY <1>3, FS_Injection, FS_CardinalityType DEF Narrow
<1>. QED BY SMTT(30), <1>1, <1>4, <1>5 DEF Narrow, n

(* Interning a kind keeps the entries of the table, and gives it a place.  *)
Interning(t, u, kind) ==
    /\ Table(u) /\ Len(t) \in Nat /\ Len(u) \in Nat /\ Len(t) <= Len(u)
    /\ \A j \in 1..Len(t) : u[j] = t[j]
    /\ Ikind(u, kind) \in 0..255 /\ Ikind(u, kind) < Len(u)
    /\ u[Ikind(u, kind) + 1] = kind

(* A kind has its place in its client's table once it is interned there.  *)
LEMMA Interns ==
    ASSUME Narrow, NEW t, Table(t), NEW kind \in Kinds
    PROVE  Interning(t, Interned(t, kind), kind)
<1>. DEFINE u == Interned(t, kind)
<1>0. u = Interned(t, kind)
  OBVIOUS
<1>. HIDE DEF u
<1>1. /\ Table(u) /\ Len(t) \in Nat /\ Len(u) \in Nat /\ Len(t) <= Len(u)
      /\ \A j \in 1..Len(t) : u[j] = t[j]
      /\ \E j \in 1..Len(u) : u[j] = kind
  <2>1. CASE Contains(t, kind)
    BY SMTT(30), <1>0, <2>1 DEF Interned, Contains, Table
  <2>2. CASE ~Contains(t, kind)
    <3>1. u = Append(t, kind) /\ t \in Seq(Kinds)
      BY <1>0, <2>2 DEF Interned, Table
    <3>2. /\ u \in Seq(Kinds) /\ Len(t) \in Nat /\ Len(u) = Len(t) + 1
          /\ u[Len(u)] = kind /\ \A j \in 1..Len(t) : u[j] = t[j]
      BY SMTT(30), <3>1
    <3>3. \A j \in 1..Len(t) : t[j] # kind
      BY <2>2 DEF Contains
    <3>4. ASSUME NEW j \in 1..Len(u), NEW k \in 1..Len(u), u[j] = u[k] PROVE j = k
      <4>1. (j \in 1..Len(t) \/ j = Len(u)) /\ (k \in 1..Len(t) \/ k = Len(u))
        BY ONLY SMTT(30), Zenon, <3>2, <3>4
      <4>. QED BY <3>2, <3>3, <3>4, <4>1 DEF Table
    <3>. QED BY SMTT(30), <3>2, <3>4 DEF Table
  <2>. QED BY <2>1, <2>2
<1>2. DOMAIN u = 1..Len(u)
  BY SMTT(30), <1>1 DEF Table
<1>3. PICK j \in 1..Len(u) : j = CHOOSE k \in DOMAIN u : u[k] = kind
  BY <1>1, <1>2
<1>4. u[j] = kind
  BY <1>1, <1>2, <1>3
<1>5. Len(u) <= 256
  BY <1>1, TableBound
<1>6. Ikind(u, kind) = j - 1
  BY <1>3 DEF Ikind
<1>. QED BY SMTT(30), <1>0, <1>1, <1>4, <1>5, <1>6 DEF Interning

(* The primary sends an interaction: it carries the place of its kind. *)
LEMMA Sends ==
    ASSUME Narrow, FilingInv, NEW i \in Senders, NEW kind \in Kinds, SendInteraction(i, kind)
    PROVE  FilingInv'
<1>0. FilingTypes /\ Lengths /\ Ran /\ Travels /\ Files /\ Table(kinds[i])
  BY DEF FilingInv
<1>. PICK u : u = Interned(kinds[i], kind)
  OBVIOUS
<1>. PICK ik : ik = Ikind(u, kind)
  OBVIOUS
<1>1. /\ Table(u) /\ Len(kinds[i]) \in Nat /\ Len(u) \in Nat /\ Len(kinds[i]) <= Len(u)
      /\ \A j \in 1..Len(kinds[i]) : u[j] = kinds[i][j]
      /\ ik \in 0..255 /\ ik < Len(u) /\ u[ik + 1] = kind
  <2>1. Interning(kinds[i], Interned(kinds[i], kind), kind)
    BY <1>0, Interns
  <2>2. Interning(kinds[i], u, kind)
    BY <2>1
  <2>. QED BY <2>2 DEF Interning
<1>2. ~(ik > 255) /\ ik \in Nat
  <2>1. ik \in 0..255
    BY <1>1
  <2>. QED BY ONLY SMTT(30), Zenon, <2>1
<1>3. /\ kinds' = [kinds EXCEPT ![i] = u] /\ ~failed'
      /\ wire' = Append(wire, [index |-> i, ikind |-> ik])
      /\ sent' = Append(sent, [client |-> i, kind |-> kind])
      /\ i < nclients /\ UNCHANGED <<nclients, runs, filed>>
  <2>1. /\ kinds' = [kinds EXCEPT ![i] = u] /\ failed' = (ik > 255)
        /\ wire' = IF ik > 255 THEN wire ELSE Append(wire, [index |-> i, ikind |-> ik])
        /\ sent' = Append(sent, [client |-> i, kind |-> kind])
        /\ i < nclients /\ UNCHANGED <<nclients, runs, filed>>
    BY DEF SendInteraction
  <2>. QED BY ONLY Zenon, <1>2, <2>1
<1>4. /\ sent' \in Seq(Sending) /\ Len(sent') = Len(sent) + 1
      /\ sent'[Len(sent) + 1] = [client |-> i, kind |-> kind]
      /\ \A k \in 1..Len(sent) : sent'[k] = sent[k]
      /\ \A k \in 1..Len(sent') : k \in 1..Len(sent) \/ k = Len(sent) + 1
  <2>1. sent \in Seq(Sending) /\ [client |-> i, kind |-> kind] \in Sending
    BY <1>0 DEF FilingTypes, Sending
  <2>. QED BY SMTT(30), <1>3, <2>1, Appended
<1>5. /\ wire' \in Seq([index : Senders, ikind : Nat]) /\ Len(wire') = Len(wire) + 1
      /\ wire'[Len(wire) + 1] = [index |-> i, ikind |-> ik]
      /\ \A k \in 1..Len(wire) : wire'[k] = wire[k]
      /\ \A k \in 1..Len(wire') : k \in 1..Len(wire) \/ k = Len(wire) + 1
  <2>1. /\ wire \in Seq([index : Senders, ikind : Nat])
        /\ [index |-> i, ikind |-> ik] \in [index : Senders, ikind : Nat]
    BY <1>0, <1>2 DEF FilingTypes
  <2>. QED BY SMTT(30), <1>3, <2>1, Appended
<1>6. /\ \A s \in Senders : kinds'[s] = IF s = i THEN u ELSE kinds[s]
      /\ kinds' \in [Senders -> Seq(Kinds)]
  BY ZenonT(30), <1>0, <1>1, <1>3 DEF FilingTypes, Table
<1>7. \A s \in Senders : Table(kinds[s])'
  <2>1. \A s \in Senders : Table(kinds'[s])
    BY <1>1, <1>6 DEF FilingInv
  <2>. QED BY <2>1 DEF Table
<1>8. FilingTypes'
  BY <1>0, <1>3, <1>4, <1>5, <1>6 DEF FilingTypes
<1>9. Lengths' /\ Files'
  <2>1. /\ Len(sent) \in Nat /\ Len(wire) \in Nat /\ Len(runs) \in Nat /\ Len(filed) \in Nat
        /\ Len(sent) = Len(runs) + Len(wire) /\ Len(filed) <= Len(runs)
    BY <1>0, Lens DEF Lengths
  <2>2. Len(sent') = Len(runs) + Len(wire')
    BY ONLY SMTT(30), Zenon, <1>4, <1>5, <2>1
  <2>3. \A k \in 1..Len(sent') : sent'[k].client < nclients
    BY SMTT(30), <1>0, <1>3, <1>4 DEF Lengths
  <2>4. \A k \in 1..Len(filed) : k \in 1..Len(sent)
    BY ONLY SMTT(30), Zenon, <2>1
  <2>5. Files'
    BY <1>0, <1>3, <1>4, <2>4 DEF Files
  <2>. QED BY <1>3, <2>1, <2>2, <2>3, <2>5 DEF Lengths
<1>10. ASSUME NEW k \in 1..Len(sent), NEW s \in Senders, NEW n, Leads(k, s, n)
       PROVE  Leads(k, s, n)'
  <2>1. n \in Nat /\ n < Len(kinds[s]) /\ s = sent[k].client /\ kinds[s][n + 1] = sent[k].kind
    BY <1>10 DEF Leads
  <2>2. n < Len(kinds'[s]) /\ kinds'[s][n + 1] = kinds[s][n + 1]
    <3>1. CASE s = i
      <4>1. n \in Nat /\ n < Len(kinds[i])
        BY <2>1, <3>1
      <4>2. n + 1 \in 1..Len(kinds[i]) /\ n < Len(u)
        BY ONLY SMTT(30), Zenon, <1>1, <4>1
      <4>. QED BY ZenonT(30), <1>1, <1>6, <3>1, <4>2
    <3>2. CASE s # i
      BY <1>6, <2>1, <3>2
    <3>. QED BY <3>1, <3>2
  <2>. QED BY <1>4, <2>1, <2>2 DEF Leads
<1>11. /\ Len(sent) \in Nat /\ Len(wire) \in Nat /\ Len(runs) \in Nat
       /\ Len(sent) = Len(runs) + Len(wire)
  BY <1>0, Lens DEF Lengths
<1>12. \A k \in 1..Len(runs) : Leads(k, runs[k].id, runs[k].ikind)'
  <2>. TAKE k \in 1..Len(runs)
  <2>1. k \in 1..Len(sent)
    BY ONLY SMTT(30), Zenon, <1>11
  <2>2. runs[k].id \in Senders /\ Leads(k, runs[k].id, runs[k].ikind)
    BY <1>0, Lens DEF Ran
  <2>3. runs' = runs
    BY <1>3
  <2>. QED BY <1>10, <2>1, <2>2, <2>3
<1>13. ASSUME NEW k \in 1..Len(wire')
       PROVE  Leads(Len(runs) + k, wire[k].index, wire[k].ikind)'
  <2>1. CASE k \in 1..Len(wire)
    <3>1. Len(runs) + k \in 1..Len(sent)
      BY ONLY SMTT(30), Zenon, <1>11, <2>1
    <3>2. wire[k].index \in Senders /\ Leads(Len(runs) + k, wire[k].index, wire[k].ikind)
      BY <1>0, <2>1, Lens DEF Travels
    <3>3. runs' = runs /\ wire'[k] = wire[k]
      BY <1>3, <1>5, <2>1
    <3>. QED BY <1>10, <3>1, <3>2, <3>3
  <2>2. CASE k = Len(wire) + 1
    <3>1. Len(runs) + k = Len(sent) + 1
      BY ONLY SMTT(30), Zenon, <1>11, <2>2
    <3>2. runs' = runs /\ wire'[k].index = i /\ wire'[k].ikind = ik
      BY SMTT(30), <1>3, <1>5, <2>2
    <3>3. sent'[Len(runs) + k].client = i /\ sent'[Len(runs) + k].kind = kind
      BY SMTT(30), <1>4, <3>1
    <3>4. kinds'[i] = u
      BY <1>6
    <3>. QED BY ZenonT(30), <1>1, <1>2, <3>2, <3>3, <3>4 DEF Leads
  <2>. QED BY <1>5, <1>13, <2>1, <2>2
<1>. QED BY <1>3, <1>7, <1>8, <1>9, <1>12, <1>13 DEF FilingInv, Ran, Travels

(* The secondary reads a message and runs the interaction. *)
LEMMA Prepares ==
    ASSUME Narrow, FilingInv, PrepareInteraction
    PROVE  FilingInv'
<1>0. FilingTypes /\ Lengths /\ Ran /\ Travels /\ Files
  BY DEF FilingInv
<1>1. /\ Len(wire) \in Nat /\ Len(runs) \in Nat /\ Len(sent) \in Nat
      /\ Len(sent) = Len(runs) + Len(wire) /\ Len(filed) <= Len(runs) /\ Len(filed) \in Nat
  BY <1>0, Lens DEF Lengths
<1>2. Len(wire) >= 1 /\ Head(wire) = wire[1]
  BY SMTT(30), <1>0, <1>1 DEF FilingTypes, PrepareInteraction
<1>3. 1 \in 1..Len(wire) /\ Len(runs) + 1 \in 1..Len(sent)
  BY ONLY SMTT(30), Zenon, <1>1, <1>2
<1>. PICK i \in Senders : i = wire[1].index
  BY <1>0, <1>3, Lens
<1>. PICK ik \in Nat : ik = wire[1].ikind
  BY <1>0, <1>3, Lens
<1>4. Leads(Len(runs) + 1, i, ik)
  BY <1>0, <1>3 DEF Travels
<1>5. i < nclients
  BY <1>0, <1>3, <1>4 DEF Leads, Lengths
<1>6. uint8(i) = i
  <2>1. i \in 0..255
    BY DEF Narrow
  <2>2. i % 256 = i
    BY ONLY SMTT(30), Zenon, <2>1
  <2>. QED BY <2>2 DEF uint8
<1>7. /\ runs' = Append(runs, [id |-> i, ikind |-> ik])
      /\ wire' = Tail(wire) /\ failed' = FALSE /\ UNCHANGED <<nclients, kinds, sent, filed>>
  BY SMTT(30), <1>0, <1>2, <1>5, <1>6 DEF PrepareInteraction, FilingTypes
<1>8. /\ runs' \in Seq([id : Senders, ikind : Nat]) /\ Len(runs') = Len(runs) + 1
      /\ runs'[Len(runs) + 1] = [id |-> i, ikind |-> ik]
      /\ \A k \in 1..Len(runs) : runs'[k] = runs[k]
      /\ \A k \in 1..Len(runs') : k \in 1..Len(runs) \/ k = Len(runs) + 1
  <2>1. runs \in Seq([id : Senders, ikind : Nat]) /\ [id |-> i, ikind |-> ik] \in [id : Senders, ikind : Nat]
    BY <1>0 DEF FilingTypes
  <2>. QED BY SMTT(30), <1>7, <2>1, Appended
<1>9. /\ wire' \in Seq([index : Senders, ikind : Nat]) /\ Len(wire') = Len(wire) - 1
      /\ \A k \in 1..Len(wire') : wire'[k] = wire[k + 1]
  <2>1. wire \in Seq([index : Senders, ikind : Nat]) /\ wire # <<>>
    BY <1>0 DEF FilingTypes, PrepareInteraction
  <2>. HIDE DEF PrepareInteraction
  <2>. QED BY ONLY SMTT(30), Zenon, <1>7, <2>1
<1>10. \A k, s, n : Leads(k, s, n) => Leads(k, s, n)'
  BY <1>7 DEF Leads
<1>11. FilingTypes'
  BY <1>0, <1>7, <1>8, <1>9 DEF FilingTypes
<1>12. Lengths'
  <2>1. Len(sent) = Len(runs') + Len(wire') /\ Len(filed) <= Len(runs')
    BY ONLY SMTT(30), Zenon, <1>1, <1>8, <1>9
  <2>. QED BY <1>0, <1>7, <2>1 DEF Lengths
<1>13. ASSUME NEW k \in 1..Len(runs') PROVE Leads(k, runs[k].id, runs[k].ikind)'
  <2>1. CASE k \in 1..Len(runs)
    BY ZenonT(30), <1>0, <1>8, <1>10, <2>1 DEF Ran
  <2>2. CASE k = Len(runs) + 1
    BY SMTT(30), <1>4, <1>8, <1>10, <2>2
  <2>. QED BY <1>8, <1>13, <2>1, <2>2
<1>14. ASSUME NEW k \in 1..Len(wire')
       PROVE  Leads(Len(runs) + k, wire[k].index, wire[k].ikind)'
  <2>1. k + 1 \in 1..Len(wire) /\ Len(runs') + k = Len(runs) + (k + 1)
    BY ONLY SMTT(30), Zenon, <1>1, <1>8, <1>9, <1>14
  <2>2. Leads(Len(runs) + (k + 1), wire[k + 1].index, wire[k + 1].ikind)
    BY <1>0, <2>1 DEF Travels
  <2>3. wire'[k] = wire[k + 1]
    BY <1>9, <1>14
  <2>. QED BY <1>10, <2>1, <2>2, <2>3
<1>15. Files' /\ \A s \in Senders : Table(kinds[s])'
  BY <1>0, <1>7 DEF FilingInv, Files, Table
<1>. QED BY <1>11, <1>12, <1>13, <1>14, <1>15 DEF FilingInv, Ran, Travels

(* The primary files a result under the entry its numbers lead to. *)
LEMMA Collects ==
    ASSUME FilingInv, Collect
    PROVE  FilingInv'
<1>0. FilingTypes /\ Lengths /\ Ran /\ Travels /\ Files
  BY DEF FilingInv
<1>1. /\ Len(runs) \in Nat /\ Len(sent) \in Nat /\ Len(wire) \in Nat /\ Len(filed) \in Nat
      /\ Len(sent) = Len(runs) + Len(wire) /\ Len(filed) < Len(runs)
  BY <1>0, Lens DEF Lengths, Collect
<1>. PICK m : m = Len(filed) + 1
  OBVIOUS
<1>2. m \in 1..Len(runs) /\ m \in 1..Len(sent)
  BY ONLY SMTT(30), Zenon, <1>1, m = Len(filed) + 1
<1>. PICK i \in Senders : i = runs[m].id
  BY <1>0, <1>2, Lens
<1>. PICK ik \in Nat : ik = runs[m].ikind
  BY <1>0, <1>2, Lens
<1>3. /\ i = sent[m].client /\ ik < Len(kinds[i]) /\ kinds[i][ik + 1] = sent[m].kind
      /\ sent[m] \in Sending
  BY ZenonT(30), <1>0, <1>2, Lens DEF Ran, Leads
<1>4. /\ filed' = Append(filed, [client |-> i, kind |-> kinds[i][ik + 1]])
      /\ ~failed' /\ UNCHANGED <<nclients, kinds, sent, wire, runs>>
  <2>1. i = runs[Len(filed) + 1].id /\ ik = runs[Len(filed) + 1].ikind
    OBVIOUS
  <2>. QED BY <1>3, <2>1 DEF Collect
<1>5. [client |-> i, kind |-> kinds[i][ik + 1]] = sent[m]
  BY <1>3 DEF Sending
<1>6. /\ filed' \in Seq(Sending) /\ Len(filed') = Len(filed) + 1 /\ filed'[m] = sent[m]
      /\ \A k \in 1..Len(filed) : filed'[k] = filed[k]
      /\ \A k \in 1..Len(filed') : k \in 1..Len(filed) \/ k = m
  <2>1. filed \in Seq(Sending)
    BY <1>0 DEF FilingTypes
  <2>. QED BY SMTT(30), <1>3, <1>4, <1>5, <2>1, Appended
<1>7. Files'
  BY SMTT(30), <1>0, <1>4, <1>6 DEF Files
<1>8. FilingTypes'
  BY <1>0, <1>4, <1>6 DEF FilingTypes
<1>9. Lengths'
  <2>1. Len(filed') <= Len(runs)
    BY ONLY SMTT(30), Zenon, <1>1, <1>6
  <2>. QED BY <1>0, <1>4, <2>1 DEF Lengths
<1>10. Ran' /\ Travels' /\ \A s \in Senders : Table(kinds[s])'
  BY <1>0, <1>4 DEF FilingInv, Ran, Travels, Leads, Table
<1>. QED BY <1>7, <1>8, <1>9, <1>10 DEF FilingInv

(* A new client's table is empty. *)
LEMMA Creates ==
    ASSUME FilingInv, CreateClient
    PROVE  FilingInv'
<1>0. FilingTypes /\ Lengths /\ Ran /\ Travels /\ Files
  BY DEF FilingInv
<1>1. nclients' = nclients + 1 /\ sent = <<>> /\ UNCHANGED <<kinds, sent, wire, runs, filed, failed>>
  BY DEF CreateClient
<1>2. FilingTypes'
  BY SMTT(30), <1>0, <1>1 DEF FilingTypes
<1>3. Lengths'
  BY SMTT(30), <1>0, <1>1 DEF Lengths
<1>4. Ran' /\ Travels' /\ Files' /\ \A s \in Senders : Table(kinds[s])'
  BY <1>0, <1>1 DEF FilingInv, Ran, Travels, Files, Leads, Table
<1>. QED BY <1>2, <1>3, <1>4 DEF FilingInv

(* What the invariant reads has not changed. *)
LEMMA Stutters ==
    ASSUME FilingInv, UNCHANGED indexVars
    PROVE  FilingInv'
<1>0. FilingTypes /\ Lengths /\ Ran /\ Travels /\ Files
  BY DEF FilingInv
<1>1. UNCHANGED <<nclients, kinds, sent, wire, runs, filed, failed>>
  BY DEF indexVars
<1>2. FilingTypes'
  BY <1>0, <1>1 DEF FilingTypes
<1>3. Lengths'
  BY <1>0, <1>1 DEF Lengths
<1>4. Ran' /\ Travels' /\ Files' /\ \A s \in Senders : Table(kinds[s])'
  BY <1>0, <1>1 DEF FilingInv, Ran, Travels, Files, Leads, Table
<1>. QED BY <1>2, <1>3, <1>4 DEF FilingInv

(* With no more clients, and no more kinds of interactions per client,    *)
(* than a byte numbers: every interaction runs on the client it was sent   *)
(* for, and its result is filed under its own kind there.                  *)
THEOREM FiledWhereSentAlways ==
    ASSUME Narrow
    PROVE  IndexSpec => []FiledWhereSent
<1>1. IndexInit => FilingInv
  BY SMTT(30) DEF IndexInit, FilingInv, FilingTypes, Lengths, Ran, Travels, Files, Table
<1>2. FilingInv /\ [IndexNext]_indexVars => FilingInv'
  <2>. SUFFICES ASSUME FilingInv, [IndexNext]_indexVars PROVE FilingInv'
    OBVIOUS
  <2>1. CASE CreateClient
    BY <2>1, Creates
  <2>2. CASE \E i \in Senders, kind \in Kinds : SendInteraction(i, kind)
    BY <2>2, Sends
  <2>3. CASE PrepareInteraction
    BY <2>3, Prepares
  <2>4. CASE Collect
    BY <2>4, Collects
  <2>5. CASE UNCHANGED indexVars
    BY <2>5, Stutters
  <2>. QED BY <2>1, <2>2, <2>3, <2>4, <2>5 DEF IndexNext
<1>3. FilingInv => FiledWhereSent
  <2>. SUFFICES ASSUME FilingInv PROVE FiledWhereSent
    OBVIOUS
  <2>1. DOMAIN runs = 1..Len(runs) /\ DOMAIN filed = 1..Len(filed)
    BY SMTT(30) DEF FilingInv, FilingTypes
  <2>. QED BY <2>1 DEF FilingInv, FilingTypes, Ran, Files, FiledWhereSent, Leads
<1>. QED BY <1>1, <1>2, <1>3, PTL DEF IndexSpec

-----------------------------------------------------------------------------
(* The redundancy wrapper. *)

(* A client inside a report it must forward has made that report, has not  *)
(* returned (if it submits, or is strict), and is the only one to forward  *)
(* that report.                                                            *)
Calls ==
    /\ submitting \subseteq submits \ over
    /\ committing \subseteq commits
    /\ aborting \subseteq aborts
    /\ strict => (committing \cup aborting) \cap over = {}
    /\ submitting # {} => wSubmitted /\ ~submitted
    /\ committing # {} => wCommitted /\ ~committed
    /\ aborting # {} => wAborted /\ ~aborted
    /\ \A c, d \in submitting : c = d
    /\ \A c, d \in committing : c = d
    /\ \A c, d \in aborting : c = d

(* What the wrapper has marked has been forwarded or is being forwarded. *)
Forwarded ==
    /\ submits # {} => wSubmitted
    /\ wSubmitted => submitted \/ submitting # {}
    /\ wCommitted => committed \/ committing # {}
    /\ wAborted => aborted \/ aborting # {}
    /\ submitted => wSubmitted
    /\ committed => wCommitted
    /\ aborted => wAborted

(* The counters count the clients, unless one aborts twice. *)
Counted ==
    /\ timesCommitted = Cardinality(commits)
    /\ wCommitted <=> commits = Clients
    /\ wAborted \/ (Cardinality(aborts) <= timesAborted /\ timesAborted < threshold)
    /\ twice = {} => /\ timesAborted = Cardinality(aborts)
                     /\ wAborted => aborts = Clients

(* What a strict client never does, and what follows when none does it. *)
InOrder ==
    /\ strict => early = {} /\ twice = {} /\ commits \cap aborts = {}
    /\ early = {} => commits \cup aborts \subseteq submits \ submitting

Ended ==
    /\ repeats = 0
    /\ done => over = Clients

Clocked ==
    /\ \A c \in Clients : stamp[c] <= now
    /\ submitted => submitTime <= now
    /\ early = {} /\ committed => submitted /\ submitTime <= commitTime
    /\ early = {} /\ twice = {} /\ aborted => submitted /\ submitTime <= abortTime
    /\ TimesOrdered

IInv == TypeOK /\ Calls /\ Forwarded /\ Counted /\ InOrder /\ Ended /\ Clocked
-----------------------------------------------------------------------------
(* A set of clients is finite, and is all of them when it has threshold    *)
(* members; one more client makes it one larger.                           *)
LEMMA Counting ==
    ASSUME NEW S \in SUBSET Clients
    PROVE  /\ Cardinality(S) \in Nat
           /\ Cardinality(S) <= threshold
           /\ Cardinality(S) = threshold <=> S = Clients
           /\ \A c \in Clients \ S : Cardinality(S \cup {c}) = Cardinality(S) + 1
<1>1. /\ IsFiniteSet(S)
      /\ Cardinality(S) <= Cardinality(Clients)
      /\ Cardinality(S) = Cardinality(Clients) => S = Clients
    BY FS_Subset, ClientsAssumption
<1>2. Cardinality(S) \in Nat
    BY <1>1, FS_CardinalityType
<1>3. ASSUME NEW c \in Clients \ S
      PROVE  Cardinality(S \cup {c}) = Cardinality(S) + 1
    BY <1>1, FS_AddElement
<1>4. QED
    BY <1>1, <1>2, <1>3 DEF threshold

(* There is a client, so that the threshold is a positive number. *)
LEMMA SomeThreshold == threshold \in Nat /\ threshold > 0
<1>1. threshold \in Nat
    BY ClientsAssumption, FS_CardinalityType DEF threshold
<1>2. threshold # 0
    BY ClientsAssumption, FS_EmptySet DEF threshold
<1>3. QED
    BY SMTT(30), <1>1, <1>2

(* Nothing has been reported initially. *)
LEMMA InitIInv == Init => IInv
<1> SUFFICES ASSUME Init PROVE IInv
    OBVIOUS
<1>1. TypeOK
  <2>1. 0 \in Times /\ -2 \in Stamps /\ 0 \in Nat
      BY SMTT(30), TimeAssumption DEF Times, Stamps
  <2>2. result \in [submitTime : Stamps, commitTime : Stamps, abortTime : Stamps,
                    hasError : BOOLEAN]
      BY <2>1 DEF Init, NoResult
  <2>3. QED
      BY <2>1, <2>2 DEF Init, TypeOK
<1>2. Calls /\ Forwarded /\ InOrder
    BY DEF Init, Calls, Forwarded, InOrder
<1>3. Counted
  <2>1. Cardinality({}) = 0
      BY FS_EmptySet
  <2>2. Cardinality(commits) = 0 /\ Cardinality(aborts) = 0 /\ timesAborted = 0
        /\ timesCommitted = 0 /\ ~wAborted /\ ~wCommitted /\ commits # Clients
      BY <2>1, ClientsAssumption DEF Init
  <2>3. QED
      BY SMTT(30), <2>2, SomeThreshold DEF Counted
<1>4. Ended
    BY DEF Init, Ended
<1>5. Clocked
    BY SMTT(30) DEF Init, Clocked, TimesOrdered, NoResult
<1>6. QED
    BY <1>1, <1>2, <1>3, <1>4, <1>5 DEF IInv

-----------------------------------------------------------------------------
(* What ReportContract lets a strict client report. *)
LEMMA StrictReports ==
    ASSUME NEW c \in Clients
    PROVE  /\ C!Submit(c) => c \notin commits \cup aborts
           /\ C!Commit(c) => c \in submits \ over /\ c \notin aborts
           /\ C!Abort(c) => c \in submits \ over /\ c \notin commits \cup aborts
<1>1. /\ Stage[c] = "idle" => c \notin commits \cup aborts
      /\ Stage[c] = "submitted" => c \in submits /\ c \notin commits \cup aborts
    BY DEF Stage
<1>2. QED
    BY <1>1 DEF C!Submit, C!Commit, C!Abort, C!Advance

(* A client's submit: the first one forwards. *)
LEMMA WrapSubmitKeeps ==
    ASSUME IInv, NEW c \in Clients, WrapSubmit(c)
    PROVE  IInv'
<1>1. /\ c \notin submits /\ c \notin over /\ submits' = submits \cup {c}
      /\ wSubmitted' = TRUE
      /\ submitting' = IF wSubmitted THEN submitting ELSE submitting \cup {c}
      /\ strict => ~Busy(c) /\ c \notin commits \cup aborts
      /\ UNCHANGED <<strict, commits, aborts, over, early, twice, stamped, committing,
                     aborting, stamp, wCommitted, wAborted, timesCommitted,
                     timesAborted, groupErr, runtime, now, result>>
    BY StrictReports DEF WrapSubmit
<1> USE <1>1 DEF IInv, runtime, times
<1>2. TypeOK'
    BY DEF TypeOK
<1>3. Calls'
    BY DEF TypeOK, Calls, Forwarded
<1>4. Forwarded'
    BY DEF TypeOK, Calls, Forwarded
<1>5. Counted' /\ Ended' /\ Clocked'
    BY DEF Counted, Ended, Clocked, TimesOrdered
<1>6. InOrder'
    BY DEF TypeOK, Forwarded, InOrder, Busy
<1>7. QED
    BY <1>2, <1>3, <1>4, <1>5, <1>6

(* A client's commit: it is counted, and the last one forwards. *)
LEMMA WrapCommitKeeps ==
    ASSUME IInv, NEW c \in Clients, WrapCommit(c)
    PROVE  IInv'
<1>1. /\ c \notin commits /\ commits' = commits \cup {c}
      /\ early' = IF Overtakes(c) THEN early \cup {c} ELSE early
      /\ ~wCommitted
      /\ timesCommitted' = timesCommitted + 1
      /\ wCommitted' = (timesCommitted + 1 = threshold)
      /\ committing' = IF wCommitted' THEN committing \cup {c} ELSE committing
      /\ strict => ~Busy(c) /\ c \in submits \ over /\ c \notin aborts
      /\ UNCHANGED <<strict, submits, over, submitting, stamped, stamp, wSubmitted,
                     groupErr, runtime, now, result, aborts, twice, aborting, wAborted,
                     timesAborted>>
    BY StrictReports DEF IInv, TypeOK, Counted, WrapCommit, Outcome
<1>2. /\ timesCommitted' = Cardinality(commits')
      /\ wCommitted' <=> commits' = Clients
      /\ wCommitted' \in BOOLEAN
      /\ timesCommitted' \in Nat
  <2>1. commits \in SUBSET Clients /\ commits' \in SUBSET Clients /\ c \in Clients \ commits
      BY <1>1 DEF IInv, TypeOK
  <2>2. /\ Cardinality(commits') = Cardinality(commits) + 1
        /\ Cardinality(commits') = threshold <=> commits' = Clients
        /\ Cardinality(commits') \in Nat
      BY <1>1, <2>1, Counting
  <2>3. QED
      BY <1>1, <2>2 DEF IInv, Counted
<1> USE <1>1, <1>2 DEF IInv, runtime, times
<1>3. TypeOK'
    BY DEF TypeOK
<1>4. Calls'
  <2>1. committing = {}
      BY DEF Calls
  <2>2. committing' \subseteq {c} /\ (committing' # {} => wCommitted' /\ ~committed')
      BY <2>1 DEF TypeOK, Forwarded
  <2>3. strict => committing' \cap over' = {}
      BY <2>2
  <2>4. QED
      BY <2>2, <2>3 DEF TypeOK, Calls
<1>5. Forwarded'
    BY DEF TypeOK, Forwarded
<1>6. Counted' /\ Ended'
    BY DEF Counted, Ended
<1>7. InOrder'
    BY DEF TypeOK, InOrder, Busy, Overtakes
<1>8. Clocked'
    BY DEF TypeOK, Clocked, TimesOrdered
<1>9. QED
    BY <1>3, <1>4, <1>5, <1>6, <1>7, <1>8

(* A client's abort: it is counted, and the threshold-th one forwards. *)
LEMMA WrapAbortKeeps ==
    ASSUME IInv, NEW c \in Clients, WrapAbort(c)
    PROVE  IInv'
<1>1. /\ aborts' = aborts \cup {c}
      /\ twice' = IF c \in aborts THEN twice \cup {c} ELSE twice
      /\ early' = IF Overtakes(c) THEN early \cup {c} ELSE early
      /\ strict => ~Busy(c) /\ c \in submits \ over /\ c \notin commits \cup aborts
      /\ UNCHANGED <<strict, submits, over, submitting, stamped, stamp, wSubmitted,
                     groupErr, runtime, now, result, commits, committing, wCommitted,
                     timesCommitted>>
    BY StrictReports DEF WrapAbort, Outcome
<1>2. \/ wAborted /\ UNCHANGED <<aborting, wAborted, timesAborted>>
      \/ /\ ~wAborted
         /\ timesAborted' = timesAborted + 1
         /\ wAborted' = (timesAborted + 1 = threshold)
         /\ aborting' = IF wAborted' THEN aborting \cup {c} ELSE aborting
    BY DEF WrapAbort
<1>3. wAborted' \in BOOLEAN /\ timesAborted' \in Nat /\ Counted'
  <2>1. /\ aborts \in SUBSET Clients /\ aborts' \in SUBSET Clients
        /\ timesAborted \in Nat /\ wAborted \in BOOLEAN
      BY <1>1 DEF IInv, TypeOK
  <2>2. /\ Cardinality(aborts) \in Nat /\ Cardinality(aborts') \in Nat
        /\ Cardinality(aborts') = threshold <=> aborts' = Clients
        /\ c \notin aborts => Cardinality(aborts') = Cardinality(aborts) + 1
        /\ c \in aborts => aborts' = aborts
      BY <1>1, <2>1, Counting
  <2>3. wAborted' \in BOOLEAN /\ timesAborted' \in Nat
    <3>1. timesAborted + 1 \in Nat
        BY SMTT(30), <2>1
    <3>2. QED
        BY <1>2, <2>1, <3>1
  <2>4. wAborted' \/ (Cardinality(aborts') <= timesAborted' /\ timesAborted' < threshold)
    <3>1. CASE wAborted
        BY <3>1, <1>2
    <3>2. CASE ~wAborted
      <4>1. /\ Cardinality(aborts) <= timesAborted /\ timesAborted < threshold
            /\ timesAborted' = timesAborted + 1
            /\ wAborted' = (timesAborted + 1 = threshold)
          BY <3>2, <1>2 DEF IInv, Counted
      <4>2. \/ Cardinality(aborts') = Cardinality(aborts)
            \/ Cardinality(aborts') = Cardinality(aborts) + 1
          BY <2>2
      <4>3. \/ timesAborted + 1 = threshold
            \/ Cardinality(aborts') <= timesAborted + 1 /\ timesAborted + 1 < threshold
        <5> DEFINE n == Cardinality(aborts)  m == Cardinality(aborts')
        <5>1. n \in Nat /\ m \in Nat /\ n <= timesAborted /\ (m = n \/ m = n + 1)
            BY <2>2, <4>1, <4>2
        <5> HIDE DEF n, m
        <5>2. timesAborted + 1 = threshold \/ (m <= timesAborted + 1 /\ timesAborted + 1 < threshold)
            BY ONLY SMTT(30), <5>1, <4>1, <2>1, SomeThreshold
        <5>3. QED
            BY <5>2 DEF m
      <4>4. QED
          BY <4>1, <4>3
    <3>3. QED
        BY <3>1, <3>2
  <2>5. ASSUME twice' = {}
        PROVE  timesAborted' = Cardinality(aborts') /\ (wAborted' => aborts' = Clients)
    <3>1. c \notin aborts /\ twice = {}
        BY <1>1, <2>5
    <3>2. ~wAborted /\ timesAborted = Cardinality(aborts)
        BY <3>1 DEF IInv, Counted
    <3>3. QED
        BY <1>2, <2>2, <3>1, <3>2
  <2>6. QED
      BY <1>1, <2>3, <2>4, <2>5 DEF IInv, Counted
<1> USE <1>1, <1>3 DEF IInv, runtime, times
<1>4. TypeOK'
    BY <1>2 DEF TypeOK
<1>5. Calls'
  <2>1. CASE wAborted
      BY <2>1, <1>2 DEF Calls
  <2>2. CASE ~wAborted
    <3>1. aborting = {}
        BY <2>2 DEF Calls
    <3>2. aborting' \subseteq {c} /\ (aborting' # {} => wAborted' /\ ~aborted')
        BY <2>2, <3>1, <1>2 DEF TypeOK, Forwarded
    <3>3. strict => aborting' \cap over' = {}
        BY <3>2
    <3>4. QED
        BY <3>2, <3>3 DEF TypeOK, Calls
  <2>3. QED
      BY <2>1, <2>2
<1>6. Forwarded'
    BY <1>2 DEF TypeOK, Forwarded
<1>7. Ended'
    BY DEF Ended
<1>8. InOrder'
    BY DEF TypeOK, InOrder, Busy, Overtakes
<1>9. Clocked'
    BY DEF TypeOK, Clocked, TimesOrdered
<1>10. QED
    BY <1>4, <1>5, <1>6, <1>7, <1>8, <1>9

-----------------------------------------------------------------------------
(* ReportSubmit reads the clock before its lock: the time it records is    *)
(* not after now.                                                          *)
LEMMA ReadClockKeeps ==
    ASSUME IInv, NEW c \in Clients, ReadClock(c)
    PROVE  IInv'
<1>1. /\ c \in submitting /\ stamped' = stamped \cup {c}
      /\ stamp' = [stamp EXCEPT ![c] = now]
      /\ UNCHANGED <<clientVars, submitting, committing, aborting, wrapper, groupErr,
                     runtime, now, result>>
    BY DEF ReadClock
<1> USE <1>1 DEF IInv, clientVars, wrapper, runtime, times
<1>2. TypeOK'
    BY DEF TypeOK
<1>3. Calls' /\ Forwarded' /\ Counted' /\ InOrder' /\ Ended'
    BY DEF Calls, Forwarded, Counted, InOrder, Ended
<1>4. Clocked'
  <2>1. \A d \in Clients : stamp'[d] <= now'
      BY SMTT(30) DEF TypeOK, Clocked, Times
  <2>2. QED
      BY <2>1 DEF Clocked, TimesOrdered
<1>5. QED
    BY <1>2, <1>3, <1>4

(* The inner submit is made once; when no client has an outcome before the *)
(* end of its own submit, no outcome has been forwarded yet.               *)
LEMMA ReportSubmitKeeps ==
    ASSUME IInv, NEW c \in Clients, ReportSubmit(c)
    PROVE  IInv'
<1>1. /\ c \in submitting /\ submitting' = submitting \ {c} /\ stamped' = stamped \ {c}
      /\ ~submitted /\ submitted' = TRUE /\ submitTime' = stamp[c]
      /\ UNCHANGED <<clientVars, committing, aborting, stamp, wrapper, groupErr,
                     committed, aborted, commitTime, abortTime, done, err, repeats,
                     now, result>>
  <2>1. c \in submitting /\ ~submitted
      BY DEF IInv, TypeOK, Calls, ReportSubmit
  <2>2. QED
      BY <2>1 DEF ReportSubmit
<1> USE <1>1 DEF IInv, clientVars, wrapper
<1>2. TypeOK'
    BY DEF TypeOK
<1>3. Calls'
    BY DEF TypeOK, Calls
<1>4. Forwarded' /\ Counted' /\ Ended'
    BY DEF TypeOK, Calls, Forwarded, Counted, Ended
<1>5. InOrder'
    BY DEF InOrder
<1>6. Clocked'
    BY DEF TypeOK, Clocked, TimesOrdered
<1>7. QED
    BY <1>2, <1>3, <1>4, <1>5, <1>6

(* The inner commit is made once.  Every client has reported it: when none *)
(* did before the end of its own submit, the inner submit has been made.   *)
LEMMA ReportCommitKeeps ==
    ASSUME IInv, NEW c \in Clients, ReportCommit(c)
    PROVE  IInv'
<1>1. /\ c \in committing /\ committing' = committing \ {c}
      /\ ~committed /\ committed' = TRUE /\ commitTime' = now /\ wCommitted
      /\ UNCHANGED <<clientVars, submitting, stamped, aborting, stamp, wrapper, groupErr,
                     submitted, aborted, submitTime, abortTime, done, err, repeats,
                     now, result>>
  <2>1. c \in committing /\ ~committed /\ wCommitted
      BY DEF IInv, Calls, ReportCommit
  <2>2. QED
      BY <2>1 DEF ReportCommit
<1>2. early = {} => submitted
  <2>1. commits = Clients
      BY <1>1 DEF IInv, Counted
  <2>2. early = {} => submits # {} /\ submitting = {}
      BY <2>1, ClientsAssumption DEF IInv, InOrder, TypeOK
  <2>3. QED
      BY <2>2 DEF IInv, Forwarded
<1> USE <1>1 DEF IInv, clientVars, wrapper
<1>3. TypeOK'
    BY DEF TypeOK
<1>4. Calls'
    BY DEF TypeOK, Calls
<1>5. Forwarded' /\ Counted' /\ InOrder' /\ Ended'
    BY DEF TypeOK, Calls, Forwarded, Counted, InOrder, Ended
<1>6. Clocked'
    BY <1>2 DEF TypeOK, Clocked, TimesOrdered
<1>7. QED
    BY <1>3, <1>4, <1>5, <1>6

(* The inner abort is made once.  Every client has reported it, unless one *)
(* did twice: when none did before the end of its own submit, the inner    *)
(* submit has been made.                                                   *)
LEMMA ReportAbortKeeps ==
    ASSUME IInv, NEW c \in Clients, ReportAbort(c)
    PROVE  IInv'
<1>1. /\ c \in aborting /\ aborting' = aborting \ {c}
      /\ ~aborted /\ aborted' = TRUE /\ abortTime' = now /\ wAborted
      /\ UNCHANGED <<clientVars, submitting, stamped, committing, stamp, wrapper, groupErr,
                     submitted, committed, submitTime, commitTime, done, err, repeats,
                     now, result>>
  <2>1. c \in aborting /\ ~aborted /\ wAborted
      BY DEF IInv, Calls, ReportAbort
  <2>2. QED
      BY <2>1 DEF ReportAbort
<1>2. early = {} /\ twice = {} => submitted
  <2>1. twice = {} => aborts = Clients
      BY <1>1 DEF IInv, Counted
  <2>2. early = {} /\ twice = {} => submits # {} /\ submitting = {}
      BY <2>1, ClientsAssumption DEF IInv, InOrder, TypeOK
  <2>3. QED
      BY <2>2 DEF IInv, Forwarded
<1> USE <1>1 DEF IInv, clientVars, wrapper
<1>3. TypeOK'
    BY DEF TypeOK
<1>4. Calls'
    BY DEF TypeOK, Calls
<1>5. Forwarded' /\ Counted' /\ InOrder' /\ Ended'
    BY DEF TypeOK, Calls, Forwarded, Counted, InOrder, Ended
<1>6. Clocked'
    BY <1>2 DEF TypeOK, Clocked, TimesOrdered
<1>7. QED
    BY <1>3, <1>4, <1>5, <1>6

-----------------------------------------------------------------------------
(* The goroutines' returns, the recorded end, the snapshot and the clock. *)
LEMMA OthersKeep ==
    ASSUME IInv,
           \/ \E c \in Clients, e \in BOOLEAN : ClientReturns(c, e)
           \/ Trigger \/ Stop \/ Tick
    PROVE  IInv'
<1> USE DEF IInv, calls, wrapper, runtime, times
<1>1. ASSUME NEW c \in Clients, NEW e \in BOOLEAN, ClientReturns(c, e)
      PROVE  IInv'
  <2>1. /\ c \notin submitting /\ over' = over \cup {c} /\ (strict => ~Busy(c))
        /\ groupErr' = (groupErr \/ e)
        /\ UNCHANGED <<strict, submits, commits, aborts, early, twice, calls, wrapper,
                       runtime, now, result>>
      BY <1>1 DEF ClientReturns, C!Return
  <2> USE <2>1
  <2>2. TypeOK'
      BY DEF TypeOK
  <2>3. Calls' /\ Forwarded'
      BY DEF Calls, Forwarded, Busy
  <2>4. Counted' /\ InOrder' /\ Clocked'
      BY DEF Counted, InOrder, Clocked, TimesOrdered
  <2>5. Ended'
      BY DEF TypeOK, Ended
  <2>6. QED
      BY <2>2, <2>3, <2>4, <2>5
<1> USE DEF clientVars
<1>2. CASE Trigger
  <2> USE <1>2 DEF Trigger
  <2>1. TypeOK'
      BY DEF TypeOK
  <2>2. Calls' /\ Forwarded'
      BY DEF Calls, Forwarded
  <2>3. Counted' /\ InOrder' /\ Ended' /\ Clocked'
      BY DEF Counted, InOrder, Ended, Clocked, TimesOrdered
  <2>4. QED
      BY <2>1, <2>2, <2>3
<1>3. CASE Stop
  <2>1. /\ result'.submitTime = IF submitted THEN submitTime ELSE -1
        /\ result'.commitTime = IF committed THEN commitTime ELSE -1
        /\ result'.abortTime = IF aborted THEN abortTime ELSE -1
        /\ UNCHANGED <<clientVars, calls, wrapper, groupErr, runtime, now>>
      BY <1>3 DEF Stop, Unset
  <2>2. result' \in [submitTime : Stamps, commitTime : Stamps, abortTime : Stamps,
                     hasError : BOOLEAN]
    <3>1. /\ (IF submitted THEN submitTime ELSE Unset) \in Stamps
          /\ (IF committed THEN commitTime ELSE Unset) \in Stamps
          /\ (IF aborted THEN abortTime ELSE Unset) \in Stamps
          /\ (done /\ err) \in BOOLEAN
        BY DEF TypeOK, Stamps
    <3>2. QED
        BY <1>3, <3>1 DEF Stop
  <2>3. TypeOK'
      BY <2>1, <2>2 DEF TypeOK
  <2>4. Calls' /\ Forwarded'
      BY <2>1 DEF Calls, Forwarded
  <2>5. Counted' /\ InOrder' /\ Ended'
      BY <2>1 DEF Counted, InOrder, Ended
  <2>6. Clocked'
    <3>1. TimesOrdered'
        BY SMTT(30), <2>1 DEF TypeOK, Times, Clocked, TimesOrdered
    <3>2. QED
        BY <2>1, <3>1 DEF Clocked
  <2>7. QED
      BY <2>3, <2>4, <2>5, <2>6
<1>4. CASE Tick
  <2> USE <1>4 DEF Tick
  <2>1. TypeOK'
    <3>1. now' \in Times
        BY SMTT(30), TimeAssumption DEF TypeOK, Times
    <3>2. QED
        BY <3>1 DEF TypeOK
  <2>2. Calls' /\ Forwarded'
      BY DEF Calls, Forwarded
  <2>3. Counted' /\ InOrder' /\ Ended'
      BY DEF Counted, InOrder, Ended
  <2>4. Clocked'
    <3>1. (\A c \in Clients : stamp'[c] <= now') /\ (submitted' => submitTime' <= now')
        BY SMTT(30), TimeAssumption DEF TypeOK, Times, Clocked
    <3>2. QED
        BY <3>1 DEF Clocked, TimesOrdered
  <2>5. QED
      BY <2>1, <2>2, <2>3, <2>4
<1>5. QED
    BY <1>1, <1>2, <1>3, <1>4

(* Every step keeps the inductive invariant. *)
LEMMA NextKeeps == IInv /\ [Next]_vars => IInv'
<1> SUFFICES ASSUME IInv, [Next]_vars PROVE IInv'
    OBVIOUS
<1>1. CASE Next
    BY <1>1, WrapSubmitKeeps, WrapCommitKeeps, WrapAbortKeeps, ReadClockKeeps,
       ReportSubmitKeeps, ReportCommitKeeps, ReportAbortKeeps, OthersKeep DEF Next
<1>2. CASE UNCHANGED vars
  <2> USE <1>2 DEF IInv, vars, clientVars, calls, wrapper, runtime, times
  <2>1. TypeOK'
      BY DEF TypeOK
  <2>2. Calls' /\ Forwarded'
      BY DEF Calls, Forwarded
  <2>3. Counted' /\ InOrder' /\ Ended' /\ Clocked'
      BY DEF Counted, InOrder, Ended, Clocked, TimesOrdered
  <2>4. QED
      BY <2>1, <2>2, <2>3
<1>3. QED
    BY <1>1, <1>2

(* IInv holds in every reachable state. *)
LEMMA Invariant == Spec => []IInv
    BY InitIInv, NextKeeps, PTL DEF Spec

-----------------------------------------------------------------------------
(* The wrapper's and the runtime interaction's fields keep their types. *)
THEOREM TypeCorrect == Spec => []TypeOK
    BY Invariant, PTL DEF IInv

(* The pushed result has no outcome before its submit, or without one,     *)
(* unless a client reported its own outcome before the end of its own      *)
(* submit, or, for an abort, aborted twice: whatever the number of         *)
(* redundant clients, strict or not.                                       *)
THEOREM ResultsOrdered == Spec => []TimesOrdered
    BY Invariant, PTL DEF IInv, Clocked

(* No client that keeps ReportContract does either, so that the results of *)
(* strict clients are always in order.                                     *)
THEOREM StrictClientsInOrder ==
    Spec => [](strict => early = {} /\ twice = {})
    BY Invariant, PTL DEF IInv, InOrder

(* An outcome is recorded only when the clients reported it, and no report *)
(* is missing when none is under way, or when trigger() has recorded the   *)
(* end of an interaction of strict clients.                                *)
THEOREM OutcomesExact == Spec => []OutcomeExact
<1>1. IInv => OutcomeExact
  <2> SUFFICES ASSUME IInv PROVE OutcomeExact
      OBVIOUS
  <2> USE DEF IInv
  <2>1. committed => commits = Clients
      BY DEF Forwarded, Counted
  <2>2. aborted => aborts = Clients \/ twice # {}
      BY DEF Forwarded, Counted
  <2>3. Quiet \/ (strict /\ done) => committing = {} /\ aborting = {}
      BY DEF TypeOK, Calls, Ended, Quiet
  <2>4. aborts = Clients => wAborted
    <3>1. SUFFICES ASSUME aborts = Clients, ~wAborted PROVE FALSE
        OBVIOUS
    <3>2. threshold <= timesAborted /\ timesAborted < threshold /\ timesAborted \in Nat
        BY <3>1 DEF Counted, TypeOK, threshold
    <3>3. QED
        BY SMTT(30), <3>2, SomeThreshold
  <2>5. commits = Clients => wCommitted
      BY DEF Counted
  <2>6. QED
      BY <2>1, <2>2, <2>3, <2>4, <2>5 DEF Forwarded, OutcomeExact
<1>2. QED
    BY <1>1, Invariant, PTL

-----------------------------------------------------------------------------
(* A step of the wrapper is a step of the contract or leaves it alone. *)
LEMMA StepImplements ==
    ASSUME IInv, IInv', [Next]_vars
    PROVE  [Outer!Next]_(Outer!vars)
<1>1. strict' = strict
    BY DEF Next, vars, clientVars, Outcome, WrapSubmit, WrapCommit, WrapAbort, ReadClock,
           ReportSubmit, ReportCommit, ReportAbort, ClientReturns, Trigger, Stop, Tick
<1> USE DEF Outer!Next, Outer!vars, Outer!Submit, Outer!Commit, Outer!Abort,
            Outer!Return, Outer!Advance
<1>2. CASE ~strict
    BY <1>1, <1>2
<1>3. CASE strict
  <2>1. /\ submitting \cup committing \cup aborting # {} => ~done
        /\ ~(committed' /\ aborted')
        /\ committed' => submitted'
        /\ aborted' => submitted'
    <3>1. submitting \cup committing \cup aborting # {} => ~done
        BY <1>3 DEF IInv, TypeOK, Calls, Ended
    <3>2. /\ committed' => commits' = Clients /\ submitted'
          /\ aborted' => aborts' = Clients /\ submitted'
        BY <1>1, <1>3 DEF IInv, Forwarded, Counted, InOrder, Clocked
    <3>3. commits' \cap aborts' = {}
        BY <1>1, <1>3 DEF IInv, InOrder
    <3>4. QED
        BY <3>1, <3>2, <3>3, ClientsAssumption
  <2>2. ASSUME NEW c \in Clients, ReportSubmit(c)
        PROVE  Outer!Submit("iact")
    <3>1. /\ ~submitted /\ submitted' /\ ~done
          /\ UNCHANGED <<committed, aborted, done>>
        BY <2>1, <2>2 DEF IInv, TypeOK, Calls, ReportSubmit
    <3>2. ~committed /\ ~aborted
        BY <1>3, <3>1 DEF IInv, InOrder, Clocked
    <3>3. OuterStage = "idle" /\ OuterStage' = "submitted"
        BY SMTT(30), <3>1, <3>2 DEF IInv, Ended, OuterStage
    <3>4. QED
        BY <1>1, <1>3, <3>1, <3>3
  <2>3. ASSUME NEW c \in Clients, ReportCommit(c)
        PROVE  Outer!Commit("iact")
    <3>1. /\ ~committed /\ committed' /\ submitted' /\ ~aborted' /\ ~done
          /\ UNCHANGED <<submitted, aborted, done>>
        BY <2>1, <2>3 DEF IInv, TypeOK, Calls, ReportCommit
    <3>2. OuterStage = "submitted" /\ OuterStage' = "committed"
        BY SMTT(30), <3>1 DEF IInv, Ended, OuterStage
    <3>3. QED
        BY <1>1, <1>3, <3>1, <3>2
  <2>4. ASSUME NEW c \in Clients, ReportAbort(c)
        PROVE  Outer!Abort("iact")
    <3>1. /\ ~aborted /\ aborted' /\ submitted' /\ ~committed' /\ ~done
          /\ UNCHANGED <<submitted, committed, done>>
        BY <2>1, <2>4 DEF IInv, TypeOK, Calls, ReportAbort
    <3>2. OuterStage = "submitted" /\ OuterStage' = "aborted"
        BY SMTT(30), <3>1 DEF IInv, Ended, OuterStage
    <3>3. QED
        BY <1>1, <1>3, <3>1, <3>2
  <2>5. CASE Trigger
    <3>1. ~done /\ done' /\ OuterStage' = OuterStage
        BY <2>5 DEF Trigger, times, OuterStage
    <3>2. Outer!Return("iact")
        BY <1>1, <1>3, <3>1
    <3>3. QED
        BY <3>2
  <2>6. ASSUME UNCHANGED runtime
        PROVE  UNCHANGED Outer!vars
      BY <1>1, <2>6 DEF runtime, OuterStage
  <2>7. \/ \E c \in Clients : ReportSubmit(c) \/ ReportCommit(c) \/ ReportAbort(c)
        \/ Trigger
        \/ UNCHANGED runtime
      BY DEF Next, vars, Outcome, WrapSubmit, WrapCommit, WrapAbort, ReadClock,
             ClientReturns, Stop, Tick
  <2>8. QED
      BY <2>2, <2>3, <2>4, <2>5, <2>6, <2>7
<1>4. QED
    BY <1>2, <1>3 DEF IInv, TypeOK

(* The wrapper of strict clients implements the contract it assumes of     *)
(* them, for any number of them: the secondary sees one submit, then at    *)
(* most one outcome, and nothing once the interaction is over.             *)
THEOREM WrapperKeepsContract == Spec => OuterContract
<1>1. Init => Outer!Init
  <2>1. Init => OuterStage = "idle" /\ ~done
      BY SMTT(30) DEF Init, OuterStage
  <2>2. QED
      BY <2>1 DEF Outer!Init
<1>2. IInv /\ IInv' /\ [Next]_vars => [Outer!Next]_(Outer!vars)
    BY StepImplements
<1>3. QED
    BY <1>1, <1>2, Invariant, PTL DEF Spec, OuterContract, Outer!Spec
=============================================================================
