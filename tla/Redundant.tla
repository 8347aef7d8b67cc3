------------------------------ MODULE Redundant ------------------------------
(***************************************************************************)
(* One interaction sent through nredundant.BlockchainClient: the wrapper   *)
(* counts the reports of its clients under a lock and forwards the first   *)
(* submit, the threshold-th commit and the threshold-th abort to the       *)
(* runtimeInteraction of the secondary after it has released that lock.    *)
(* stop() reads the runtimeInteraction at any moment, while reports may    *)
(* still be in flight.                                                     *)
(*                                                                         *)
(* diablo.go wraps clients of every chain, of which there are two sorts.   *)
(* The strict ones (nethereum, navalanche, nalgorand, nhotstuff) keep      *)
(* ReportContract.  Of the others little can be said: naptos, ndiem and    *)
(* nsolana register an interaction before they report its submit, so that  *)
(* their reader may report its outcome first, or after the goroutine has   *)
(* returned; nsolana may abort it twice, once for a failed sending and     *)
(* once when its table is flushed; nasonninohotstuff aborts without a      *)
(* submit.  A client that is not strict may therefore make its reports in  *)
(* any order: one submit, one commit and two aborts at most.               *)
(***************************************************************************)
EXTENDS Integers, FiniteSets

CONSTANTS
    Clients,        \* the clients of nredundant.BlockchainClient
    MaxTime         \* bound on the clock

ASSUME ClientsAssumption == IsFiniteSet(Clients) /\ Clients # {}
ASSUME TimeAssumption == MaxTime \in Nat

VARIABLES
    strict,                             \* whether the clients keep ReportContract
    submits, commits, aborts, over,     \* the clients that made each report, or returned
    early,                              \* history: those with an outcome before the end of
                                        \* their ReportSubmit
    twice,                              \* history: those that aborted twice
    submitting, stamped,                \* the clients inside the inner reports; stamped:
    committing, aborting,               \* those of submitting that have read the clock
    stamp,                              \* the time read by ReportSubmit before its lock
    wSubmitted, wCommitted, wAborted,   \* nredundant.interaction
    timesCommitted, timesAborted,
    groupErr,                           \* errgroup: some client returned an error
    submitted, committed, aborted,      \* core.runtimeInteraction
    submitTime, commitTime, abortTime, done, err,
    repeats,                            \* "more than once" warnings
    now,                                \* the monotonic clock
    result                              \* what stop() pushed for the interaction

clientVars == <<strict, submits, commits, aborts, over, early, twice>>
calls == <<submitting, stamped, committing, aborting, stamp>>
wrapper == <<wSubmitted, wCommitted, wAborted, timesCommitted, timesAborted>>
times == <<submitTime, commitTime, abortTime>>
runtime == <<submitted, committed, aborted, times, done, err, repeats>>
vars == <<clientVars, calls, wrapper, groupErr, runtime, now, result>>

(* The stages of ReportContract. *)
Stage ==
    [c \in Clients |-> IF c \in commits THEN "committed"
                       ELSE IF c \in aborts THEN "aborted"
                       ELSE IF c \in submits THEN "submitted" ELSE "idle"]

C == INSTANCE ReportContract WITH Interactions <- Clients, stage <- Stage

threshold == Cardinality(Clients)

Unset == -1
NoResult == [submitTime |-> -2, commitTime |-> -2, abortTime |-> -2,
             hasError |-> FALSE]

Init ==
    /\ strict \in BOOLEAN
    /\ submits = {} /\ commits = {} /\ aborts = {} /\ over = {}
    /\ early = {} /\ twice = {}
    /\ submitting = {} /\ stamped = {} /\ committing = {} /\ aborting = {}
    /\ stamp = [c \in Clients |-> 0]
    /\ wSubmitted = FALSE /\ wCommitted = FALSE /\ wAborted = FALSE
    /\ timesCommitted = 0 /\ timesAborted = 0
    /\ groupErr = FALSE
    /\ submitted = FALSE /\ committed = FALSE /\ aborted = FALSE
    /\ submitTime = 0 /\ commitTime = 0 /\ abortTime = 0
    /\ done = FALSE /\ err = FALSE
    /\ repeats = 0
    /\ now = 0
    /\ result = NoResult

-----------------------------------------------------------------------------
(* nredundant.interaction: the locked part of each report.                 *)

(* A strict client makes one call at a time.                               *)
Busy(c) == c \in submitting \cup committing \cup aborting

Overtakes(c) == c \notin submits \/ c \in submitting

Outcome(c) ==
    /\ early' = IF Overtakes(c) THEN early \cup {c} ELSE early
    /\ UNCHANGED <<strict, submits, over, submitting, stamped, stamp, wSubmitted,
                   groupErr, runtime, now, result>>

(* A faulty WrapSubmit: the check of `submitted` is missing.               *)
WrapSubmitEveryTime(c) ==
    /\ c \notin submits \cup over
    /\ submits' = submits \cup {c}
    /\ UNCHANGED <<strict, commits, aborts, over, early, twice, stamped, committing,
                   aborting, stamp, wCommitted, wAborted, timesCommitted,
                   timesAborted, groupErr, runtime, now, result>>
    /\ strict => ~Busy(c) /\ C!Submit(c)
    /\ wSubmitted' = TRUE
    /\ submitting' = submitting \cup {c}

WrapSubmit(c) ==
    /\ c \notin submits \cup over
    /\ submits' = submits \cup {c}
    /\ UNCHANGED <<strict, commits, aborts, over, early, twice, stamped, committing,
                   aborting, stamp, wCommitted, wAborted, timesCommitted,
                   timesAborted, groupErr, runtime, now, result>>
    /\ strict => ~Busy(c) /\ C!Submit(c)
    /\ wSubmitted' = TRUE
    /\ submitting' = IF wSubmitted THEN submitting ELSE submitting \cup {c}

(* A faulty WrapCommit: it compares the counter before it increments it.   *)
WrapCommitLate(c) ==
    /\ c \notin commits
    /\ commits' = commits \cup {c}
    /\ Outcome(c)
    /\ UNCHANGED <<aborts, twice, aborting, wAborted, timesAborted>>
    /\ strict => ~Busy(c) /\ C!Commit(c)
    /\ IF wCommitted
       THEN UNCHANGED <<committing, wCommitted, timesCommitted>>
       ELSE /\ timesCommitted' = timesCommitted + 1
            /\ wCommitted' = (timesCommitted = threshold)
            /\ committing' = IF wCommitted' THEN committing \cup {c} ELSE committing

WrapCommit(c) ==
    /\ c \notin commits
    /\ commits' = commits \cup {c}
    /\ Outcome(c)
    /\ UNCHANGED <<aborts, twice, aborting, wAborted, timesAborted>>
    /\ strict => ~Busy(c) /\ C!Commit(c)
    /\ IF wCommitted
       THEN UNCHANGED <<committing, wCommitted, timesCommitted>>
       ELSE /\ timesCommitted' = timesCommitted + 1
            /\ wCommitted' = (timesCommitted + 1 = threshold)
            /\ committing' = IF wCommitted' THEN committing \cup {c} ELSE committing

(* A faulty WrapAbort: an abort takes back a commit.                       *)
WrapAbortTakesBack(c) ==
    /\ c \notin twice
    /\ aborts' = aborts \cup {c}
    /\ twice' = IF c \in aborts THEN twice \cup {c} ELSE twice
    /\ Outcome(c)
    /\ timesCommitted' = timesCommitted - 1
    /\ UNCHANGED <<commits, committing, aborting, wCommitted, wAborted, timesAborted>>
    /\ strict => ~Busy(c) /\ C!Abort(c)

WrapAbort(c) ==
    /\ c \notin twice
    /\ aborts' = aborts \cup {c}
    /\ twice' = IF c \in aborts THEN twice \cup {c} ELSE twice
    /\ Outcome(c)
    /\ UNCHANGED <<commits, committing, wCommitted, timesCommitted>>
    /\ strict => ~Busy(c) /\ C!Abort(c)
    /\ IF wAborted
       THEN UNCHANGED <<aborting, wAborted, timesAborted>>
       ELSE /\ timesAborted' = timesAborted + 1
            /\ wAborted' = (timesAborted + 1 = threshold)
            /\ aborting' = IF wAborted' THEN aborting \cup {c} ELSE aborting

-----------------------------------------------------------------------------
(* core.runtimeInteraction: the inner reports.  ReportSubmit reads the     *)
(* clock before it takes the lock; the other two read it under the lock.   *)

ReadClock(c) ==
    /\ c \in submitting \ stamped
    /\ stamp' = [stamp EXCEPT ![c] = now]
    /\ stamped' = stamped \cup {c}
    /\ UNCHANGED <<clientVars, submitting, committing, aborting, wrapper, groupErr,
                   runtime, now, result>>

ReportSubmit(c) ==
    /\ c \in stamped
    /\ IF submitted
       THEN repeats' = repeats + 1 /\ UNCHANGED <<submitted, submitTime>>
       ELSE /\ submitTime' = stamp[c]
            /\ submitted' = TRUE
            /\ UNCHANGED repeats
    /\ submitting' = submitting \ {c}
    /\ stamped' = stamped \ {c}
    /\ UNCHANGED <<clientVars, committing, aborting, stamp, wrapper, groupErr,
                   committed, aborted, commitTime, abortTime, done, err, now, result>>

ReportCommit(c) ==
    /\ c \in committing
    /\ IF committed
       THEN repeats' = repeats + 1 /\ UNCHANGED <<committed, commitTime>>
       ELSE /\ commitTime' = now
            /\ committed' = TRUE
            /\ UNCHANGED repeats
    /\ committing' = committing \ {c}
    /\ UNCHANGED <<clientVars, submitting, stamped, aborting, stamp, wrapper, groupErr,
                   submitted, aborted, submitTime, abortTime, done, err, now, result>>

ReportAbort(c) ==
    /\ c \in aborting
    /\ IF aborted
       THEN repeats' = repeats + 1 /\ UNCHANGED <<aborted, abortTime>>
       ELSE /\ abortTime' = now
            /\ aborted' = TRUE
            /\ UNCHANGED repeats
    /\ aborting' = aborting \ {c}
    /\ UNCHANGED <<clientVars, submitting, stamped, committing, stamp, wrapper, groupErr,
                   submitted, committed, submitTime, commitTime, done, err, now, result>>

-----------------------------------------------------------------------------
(* The goroutines of TriggerInteraction, and errgroup.Wait.                *)

ClientReturns(c, failed) ==
    /\ c \notin submitting
    /\ UNCHANGED <<strict, submits, commits, aborts, early, twice, calls, wrapper,
                   runtime, now, result>>
    /\ C!Return(c)
    /\ strict => ~Busy(c)
    /\ groupErr' = (groupErr \/ failed)

Trigger ==
    /\ ~done
    /\ over = Clients
    /\ err' = groupErr
    /\ done' = TRUE
    /\ UNCHANGED <<clientVars, calls, wrapper, groupErr, submitted, committed, aborted,
                   times, repeats, now, result>>

(* A faulty Stop: it guards commitTime with the wrong flag.                *)
StopWrongFlag ==
    /\ result = NoResult
    /\ result' = [submitTime |-> IF submitted THEN submitTime ELSE Unset,
                  commitTime |-> IF submitted THEN commitTime ELSE Unset,
                  abortTime |-> IF aborted THEN abortTime ELSE Unset,
                  hasError |-> done /\ err]
    /\ UNCHANGED <<clientVars, calls, wrapper, groupErr, runtime, now>>

(* stop() snapshots the interaction under its lock. *)
Stop ==
    /\ result = NoResult
    /\ result' = [submitTime |-> IF submitted THEN submitTime ELSE Unset,
                  commitTime |-> IF committed THEN commitTime ELSE Unset,
                  abortTime |-> IF aborted THEN abortTime ELSE Unset,
                  hasError |-> done /\ err]
    /\ UNCHANGED <<clientVars, calls, wrapper, groupErr, runtime, now>>

Tick ==
    /\ now < MaxTime
    /\ now' = now + 1
    /\ UNCHANGED <<clientVars, calls, wrapper, groupErr, runtime, result>>

Next ==
    \/ \E c \in Clients :
        \/ WrapSubmit(c) \/ WrapCommit(c) \/ WrapAbort(c)
        \/ ReadClock(c) \/ ReportSubmit(c) \/ ReportCommit(c) \/ ReportAbort(c)
        \/ \E failed \in BOOLEAN : ClientReturns(c, failed)
    \/ Trigger
    \/ Stop
    \/ Tick

Spec == Init /\ [][Next]_vars
-----------------------------------------------------------------------------
Times == 0..MaxTime
Stamps == Times \cup {Unset, -2}

(* The type invariant. *)
TypeOK ==
    /\ strict \in BOOLEAN
    /\ submits \subseteq Clients /\ commits \subseteq Clients
    /\ aborts \subseteq Clients /\ over \subseteq Clients
    /\ early \subseteq Clients /\ twice \subseteq Clients
    /\ submitting \subseteq Clients /\ stamped \subseteq submitting
    /\ committing \subseteq Clients /\ aborting \subseteq Clients
    /\ stamp \in [Clients -> Times]
    /\ wSubmitted \in BOOLEAN /\ wCommitted \in BOOLEAN /\ wAborted \in BOOLEAN
    /\ timesCommitted \in Nat /\ timesAborted \in Nat
    /\ groupErr \in BOOLEAN
    /\ submitted \in BOOLEAN /\ committed \in BOOLEAN /\ aborted \in BOOLEAN
    /\ submitTime \in Times /\ commitTime \in Times /\ abortTime \in Times
    /\ done \in BOOLEAN /\ err \in BOOLEAN
    /\ repeats \in Nat
    /\ now \in Times
    /\ result \in [submitTime : Stamps, commitTime : Stamps, abortTime : Stamps,
                   hasError : BOOLEAN]

(* The reports as the secondary's runtimeInteraction has received them. *)
OuterStage ==
    IF repeats > 0 \/ (committed /\ aborted) THEN "broken"
    ELSE IF committed THEN (IF submitted THEN "committed" ELSE "broken")
    ELSE IF aborted THEN (IF submitted THEN "aborted" ELSE "broken")
    ELSE IF submitted THEN "submitted"
    ELSE "idle"

(* The contract of the interaction of the secondary; nothing is asked of   *)
(* a wrapper whose clients are not strict.                                 *)
Outer == INSTANCE ReportContract
    WITH Interactions <- {"iact"},
         stage <- [i \in {"iact"} |-> IF strict THEN OuterStage ELSE "idle"],
         over <- IF strict /\ done THEN {"iact"} ELSE {}

(* The wrapper of strict clients keeps the contract its clients keep:      *)
(* whatever the order in which their goroutines pass the wrapper's lock    *)
(* and make the calls it forwards after unlocking, runtimeInteraction is   *)
(* never told of a commit or an abort before the submit, of both, of any   *)
(* of them twice, or of anything after trigger() has recorded the end of   *)
(* the interaction.                                                        *)
OuterContract == Outer!Spec

(* The result stop() pushes has no commit without a submit, nor before it, *)
(* unless some client reported its own outcome before its ReportSubmit had *)
(* returned (the first client to submit is then still on its way to the    *)
(* runtime when the last one commits); and no such abort either, unless    *)
(* moreover a client aborted twice and so was counted for another one.     *)
(* printStat drops a result that is out of order silently.  Strict clients *)
(* do neither; naptos, ndiem, nsolana and nasonninohotstuff do.            *)
TimesOrdered ==
    LET Before(t) == t >= 0 => result.submitTime >= 0 /\ result.submitTime <= t
    IN  /\ early = {} => Before(result.commitTime)
        /\ early = {} /\ twice = {} => Before(result.abortTime)

Quiet == submitting \cup committing \cup aborting = {}

(* The interaction is recorded as committed only when every client has     *)
(* reported a commit, and as aborted only when every client has reported   *)
(* an abort or some client has reported two; and once no report is under   *)
(* way (for strict clients: once trigger() has recorded the end), no       *)
(* outcome that every client reported is missing: none is lost between the *)
(* counters and the calls made after the unlock.                           *)
OutcomeExact ==
    /\ committed => commits = Clients
    /\ aborted => aborts = Clients \/ twice # {}
    /\ Quiet \/ (strict /\ done) => /\ commits = Clients => committed
                                    /\ aborts = Clients => aborted
=============================================================================
