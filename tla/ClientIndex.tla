---------------------------- MODULE ClientIndex ----------------------------
(***************************************************************************)
(* How an interaction finds its client and its result finds its entry, on  *)
(* one secondary: remoteSecondary.createClient numbers the clients,        *)
(* remoteClient.sendInteraction interns the kind of the interaction in the *)
(* client's own table, both numbers travel in a msgPrepareInteraction and  *)
(* come back in a msgResultInteraction, and collect() looks both up again. *)
(* The numbers keep the widths of core/encoding.go; the check against 2^32 *)
(* is above any number TLC or a real setup can reach and is left out.      *)
(***************************************************************************)
EXTENDS Naturals, Sequences, SequencesExt

CONSTANTS
    Senders,        \* the clients interactions are sent on
    Kinds,          \* FullPosition() of the interactions in the benchmark
    MaxClients,     \* bound on the clients created
    MaxSent         \* bound on the interactions sent

VARIABLES
    nclients,       \* len(remoteSecondary.clients) = len(runtime.clients)
    kinds,          \* remoteClient.kinds
    sent,           \* history: client and kind of each interaction sent
    wire,           \* messages to the secondary: encoded index and ikind
    runs,           \* runtime.interactions: client id and ikind
    filed,          \* entries of SecondaryResult: client and kind
    failed          \* an error ended Run on either side

indexVars == <<nclients, kinds, sent, wire, runs, filed, failed>>

IndexInit ==
    /\ nclients = 0
    /\ kinds = [i \in Senders |-> <<>>]
    /\ sent = <<>> /\ wire = <<>> /\ runs = <<>> /\ filed = <<>>
    /\ failed = FALSE

(* A faulty conversion: one bit is lost.                                   *)
int8(x) == x % 128

(* Conversions of decodeMsgPrepareInteraction. *)
uint8(x) == x % 256

(* parse() has created every client before instantiate() sends anything. *)
CreateClient ==
    /\ ~failed
    /\ sent = <<>>
    /\ nclients < MaxClients
    /\ nclients' = nclients + 1
    /\ UNCHANGED <<kinds, sent, wire, runs, filed, failed>>

Interned(table, kind) ==
    IF Contains(table, kind) THEN table ELSE Append(table, kind)

Ikind(table, kind) == (CHOOSE k \in DOMAIN table : table[k] = kind) - 1

SendInteraction(i, kind) ==
    /\ ~failed
    /\ i < nclients
    /\ Len(sent) < MaxSent
    /\ LET table == Interned(kinds[i], kind)
           ikind == Ikind(table, kind)
       IN  /\ kinds' = [kinds EXCEPT ![i] = table]
           /\ failed' = (ikind > 255)
           /\ wire' = IF ikind > 255 THEN wire
                      ELSE Append(wire, [index |-> i, ikind |-> ikind])
    /\ sent' = Append(sent, [client |-> i, kind |-> kind])
    /\ UNCHANGED <<nclients, runs, filed>>

PrepareInteraction ==
    /\ ~failed
    /\ wire # <<>>
    /\ LET index == uint8(Head(wire).index)
       IN  IF index < nclients
           THEN /\ runs' = Append(runs, [id |-> index, ikind |-> Head(wire).ikind])
                /\ UNCHANGED failed
           ELSE failed' = TRUE /\ UNCHANGED runs
    /\ wire' = Tail(wire)
    /\ UNCHANGED <<nclients, kinds, sent, filed>>

(* collect() of the next result: a kind the client never sent is an error. *)
Collect ==
    /\ ~failed
    /\ Len(sent) = MaxSent
    /\ Len(filed) < Len(runs)
    /\ LET r == runs[Len(filed) + 1]
           table == IF r.id \in Senders THEN kinds[r.id] ELSE <<>>
       IN  IF r.ikind < Len(table)
           THEN /\ filed' = Append(filed, [client |-> r.id, kind |-> table[r.ikind + 1]])
                /\ UNCHANGED failed
           ELSE failed' = TRUE /\ UNCHANGED filed
    /\ UNCHANGED <<nclients, kinds, sent, wire, runs>>

IndexNext ==
    \/ CreateClient
    \/ \E i \in Senders, kind \in Kinds : SendInteraction(i, kind)
    \/ PrepareInteraction
    \/ Collect

IndexSpec == IndexInit /\ [][IndexNext]_indexVars
-----------------------------------------------------------------------------
(* The "client index" and the "interaction kind index" of a result (the    *)
(* comments of msgResultInteraction) are those of the interaction: it ran  *)
(* on the client it was sent for, and its entry is filed under that client *)
(* and under its own kind.  Neither lookup fails.                          *)
FiledWhereSent ==
    /\ ~failed
    /\ \A k \in DOMAIN runs : runs[k].id = sent[k].client
    /\ \A k \in DOMAIN filed : filed[k] = sent[k]
=============================================================================
