---------------------------- MODULE CommandCache ----------------------------
(***************************************************************************)
(* nhotstuff/clientpb.CommandCache: Add, Get and Proposed, called from     *)
(* several goroutines.  The mutex makes the body of Add and of Proposed,   *)
(* and the part of Get after its select, single steps.  `ready` is a       *)
(* channel with one buffered token; Get consumes it before it takes the    *)
(* mutex, so the cache may change in between.                              *)
(***************************************************************************)
EXTENDS Integers, Sequences, FiniteSets, FiniteSetsExt

CONSTANTS
    Getters,        \* goroutines that call Get
    Ids,            \* client IDs
    MaxSeq,         \* bound on sequence numbers
    Commands,       \* the commands that are sent
    batchSize,
    MaxAdds         \* bound on the commands accepted by Add

ASSUME BatchAssumption == batchSize \in Nat \ {0}
ASSUME SeqAssumption == MaxSeq \in Nat
ASSUME CommandsAssumption == Commands \subseteq [id : Ids, seq : 0..MaxSeq]

VARIABLES
    clientSeqNumbers,   \* highest proposed sequence number of each client
    cache,              \* commands added and not extracted
    ready,              \* there is a token in the channel
    getPc,              \* where each caller of Get stands
    accepted,           \* history: every command Add has appended
    batches             \* history: every batch Get has returned, as the
                        \* positions of its commands in `accepted`

cacheVars == <<clientSeqNumbers, cache, ready, getPc, accepted, batches>>

CacheInit ==
    /\ clientSeqNumbers = [id \in Ids |-> 0]
    /\ cache = <<>>
    /\ ready = FALSE
    /\ getPc = [g \in Getters |-> "idle"]
    /\ accepted = <<>>
    /\ batches = <<>>

isDuplicate(cmd) == clientSeqNumbers[cmd.id] >= cmd.seq

hasFullBatch(cmds) == Len(cmds) >= batchSize

(* The positions of the commands tryExtractBatch would not skip. *)
Fresh == {i \in DOMAIN cache : ~isDuplicate(cache[i])}

(* How many of the accepted commands have left the cache. *)
Removed == Len(accepted) - Len(cache)

(* tryExtractBatch stops after `extracted` commands: the last one it has   *)
(* examined is the one that filled the batch.                              *)
Fills(extracted) ==
    /\ extracted \in Fresh
    /\ Cardinality(Fresh \cap 1..extracted) = batchSize

Records(extracted) ==
    batches' = Append(batches, {Removed + i : i \in Fresh \cap 1..extracted})

tryExtractBatch(extracted) ==
    /\ Fills(extracted)
    /\ cache' = SubSeq(cache, extracted + 1, Len(cache))
    /\ Records(extracted)

-----------------------------------------------------------------------------
(* Add returns at once when the command is a duplicate: nothing changes. *)
Add(cmd) ==
    /\ Len(accepted) < MaxAdds
    /\ ~isDuplicate(cmd)
    /\ cache' = Append(cache, cmd)
    /\ ready' = (ready \/ hasFullBatch(cache'))
    /\ accepted' = Append(accepted, cmd)
    /\ UNCHANGED <<clientSeqNumbers, getPc, batches>>

(* Get, in four steps: the call, the two branches of its select, and what  *)
(* it does under the mutex.                                                *)
Get(g) ==
    /\ getPc[g] = "idle"
    /\ getPc' = [getPc EXCEPT ![g] = "select"]
    /\ UNCHANGED <<clientSeqNumbers, cache, ready, accepted, batches>>

GetReady(g) ==
    /\ getPc[g] = "select"
    /\ ready
    /\ ready' = FALSE
    /\ getPc' = [getPc EXCEPT ![g] = "check"]
    /\ UNCHANGED <<clientSeqNumbers, cache, accepted, batches>>

GetCancelled(g) ==
    /\ getPc[g] = "select"
    /\ getPc' = [getPc EXCEPT ![g] = "idle"]
    /\ UNCHANGED <<clientSeqNumbers, cache, ready, accepted, batches>>

GetRetries(g) ==
    /\ getPc[g] = "check"
    /\ ~hasFullBatch(cache) \/ Cardinality(Fresh) < batchSize
    /\ getPc' = [getPc EXCEPT ![g] = "select"]
    /\ UNCHANGED <<clientSeqNumbers, cache, ready, accepted, batches>>

(* Faulty forms of GetReturns: it does not announce the next batch, it     *)
(* empties the cache, or it waits for more than a batch.                   *)
GetReturnsSilently(g) ==
    /\ getPc[g] = "check"
    /\ hasFullBatch(cache)
    /\ \E extracted \in 1..Len(cache) : tryExtractBatch(extracted)
    /\ getPc' = [getPc EXCEPT ![g] = "idle"]
    /\ UNCHANGED <<clientSeqNumbers, ready, accepted>>

GetReturnsEmptying(g) ==
    /\ getPc[g] = "check"
    /\ hasFullBatch(cache)
    /\ cache' = <<>>
    /\ \E extracted \in 1..Len(cache) : Fills(extracted) /\ Records(extracted)
    /\ getPc' = [getPc EXCEPT ![g] = "idle"]
    /\ UNCHANGED <<clientSeqNumbers, ready, accepted>>

GetReturnsStrict(g) ==
    /\ getPc[g] = "check"
    /\ Len(cache) > batchSize
    /\ \E extracted \in 1..Len(cache) : tryExtractBatch(extracted)
    /\ ready' = (ready \/ hasFullBatch(cache'))
    /\ getPc' = [getPc EXCEPT ![g] = "idle"]
    /\ UNCHANGED <<clientSeqNumbers, accepted>>

GetReturns(g) ==
    /\ getPc[g] = "check"
    /\ hasFullBatch(cache)
    /\ \E extracted \in 1..Len(cache) : tryExtractBatch(extracted)
    /\ ready' = (ready \/ hasFullBatch(cache'))
    /\ getPc' = [getPc EXCEPT ![g] = "idle"]
    /\ UNCHANGED <<clientSeqNumbers, accepted>>

(* A faulty Proposed: it stores the number expected next.                  *)
ProposedNext(batch) ==
    /\ \E cmd \in batch :
        clientSeqNumbers' = [clientSeqNumbers EXCEPT ![cmd.id] = cmd.seq + 1]
    /\ UNCHANGED <<cache, ready, getPc, accepted, batches>>

(* Proposed raises each client's number to the highest one in the batch. *)
Proposed(batch) ==
    /\ \E numbers \in [Ids -> 0..MaxSeq] :
        /\ \A id \in Ids :
            LET candidates == {clientSeqNumbers[id]}
                                \cup {cmd.seq : cmd \in {c \in batch : c.id = id}}
            IN  /\ numbers[id] \in candidates
                /\ \A n \in candidates : n <= numbers[id]
        /\ clientSeqNumbers' = numbers
    /\ UNCHANGED <<cache, ready, getPc, accepted, batches>>

CacheNext ==
    \/ \E cmd \in Commands : Add(cmd)
    \/ \E g \in Getters :
        Get(g) \/ GetReady(g) \/ GetCancelled(g) \/ GetRetries(g) \/ GetReturns(g)
    \/ \E batch \in kSubset(batchSize, Commands) : Proposed(batch)

CacheSpec == CacheInit /\ [][CacheNext]_cacheVars

(* A goroutine inside Get is scheduled; nobody has to call or cancel it. *)
FairCacheSpec ==
    /\ CacheSpec
    /\ \A g \in Getters :
        WF_cacheVars(GetReady(g) \/ GetRetries(g) \/ GetReturns(g))
-----------------------------------------------------------------------------
(* The type invariant. *)
CacheTypeOK ==
    /\ clientSeqNumbers \in [Ids -> 0..MaxSeq]
    /\ cache \in Seq(Commands)
    /\ ready \in BOOLEAN
    /\ getPc \in [Getters -> {"idle", "select", "check"}]
    /\ accepted \in Seq(Commands)
    /\ batches \in Seq(SUBSET Nat)

Supply == Cardinality(Fresh) >= batchSize

(* No wake-up is lost: while the cache holds a full batch of commands that *)
(* are not duplicates, there is a token in the channel or a Get that has   *)
(* consumed one and not yet looked at the cache.  Get leaves the cache     *)
(* intact and drops the token when duplicates spoil the batch, and Add and *)
(* Proposed may run between the token and the mutex.                       *)
NoLostWakeup ==
    Supply => ready \/ \E g \in Getters : getPc[g] = "check"

(* Every command Add accepted is still in the cache, in order, or has been *)
(* returned in a batch, or has been overtaken by a proposed command of its *)
(* client: tryExtractBatch drops nothing else with the prefix it removes.  *)
NothingDropped ==
    /\ Removed >= 0
    /\ \A i \in DOMAIN cache : cache[i] = accepted[Removed + i]
    /\ \A i \in 1..Removed :
        isDuplicate(accepted[i]) \/ \E b \in DOMAIN batches : i \in batches[b]

(* A Get that stays in its select while a full batch of fresh commands is  *)
(* there is not left waiting: it or another Get returns a batch, or the    *)
(* commands become duplicates.                                             *)
WaiterServed ==
    \A g \in Getters, n \in 0..MaxAdds :
        (Supply /\ getPc[g] = "select" /\ Len(batches) = n) ~>
            (Len(batches) > n \/ ~Supply \/ getPc[g] # "select")
=============================================================================
