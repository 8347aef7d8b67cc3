# Diablo in TLA+

Diablo measures blockchains: one *primary* reads a benchmark, ships the clients
and interactions it generates to *secondaries*, starts them together, and
collects what each interaction reported. A secondary runs one goroutine per
interaction through the client of a chain; that client reports a submit, a
commit or an abort. This directory models the way of a benchmark from its file
to its result: the generation of the interactions, the builders and the byte
formats, the protocol between the processes, the numbering of transactions,
the clients of eight chains, and the redundancy wrapper above them.

## Parts of the system and their modules

| Part | Source | Module |
| --- | --- | --- |
| contract of `core.Interaction` | `core/blockchain.go` | `ReportContract` (abstract) |
| N redundant clients, `runtimeInteraction`, `stop` | `blockchains/nredundant/client.go`, `core/nsecondary.go` | `Redundant` |
| block-polling confirmer | `nethereum`, `navalanche`, `nalgorand` `client.go` | `BlockConfirmer` (shared steps) |
| Ethereum and Avalanche client | `nethereum/client.go`, `navalanche/client.go` | `EthereumClient` |
| Algorand client, polltx and pollblk | `nalgorand/client.go` | `AlgorandClient` |
| primary, secondaries, observers | `core/nprimary.go`, `core/nsecondary.go`, `core/net.go` | `Session` |
| client and kind indices on the wire | `core/encoding.go`, `core/nprimary.go` | `ClientIndex` |
| command cache | `nhotstuff/clientpb/cmdcache.go` | `CommandCache` |
| Diem, Aptos and Solana clients | `ndiem`, `naptos`, `nsolana` `client.go` | `StreamConfirmer` |
| HotStuff clients | `nhotstuff/client.go`, `nasonninohotstuff/client.go` | `HotStuffClient` |
| messages and payloads as bytes | `util/io.go`, `core/encoding.go`, six `transaction.go` | `Codec` |
| what an interface makes of options and parameters | six `interface.go`, `nredundant/interface.go` | `Interfaces` |
| accounts, contracts, encoding of interactions | six `builder.go` | `Builders` |
| transactions from the builder to the ledger | six `transaction.go`, `client.go` | `Payloads` |
| expressions of a benchmark file | `core/benchmark.go` | `Expressions` |
| variables, samples, scopes, setup, locations | `core/variable.go`, `builtin.go`, `scope.go`, `system.go`, `setup.go`, `location.go` | `Variables` |
| parsing and generation | `core/benchmark.go` | `Generation` |

"Six" are `nethereum`, `navalanche`, `nalgorand`, `nsolana`, `ndiem` and
`naptos`.

## How the models fit together

`ReportContract` says what TriggerInteraction may report: submit, then at most
one of commit and abort, nothing after it returns. `EthereumClient` and
`AlgorandClient` implement it (`ReportsOnce`, a refinement). `Session` leaves the
outcome of an interaction to the modules of the clients.

The other clients do not keep that contract. A Diem, Aptos or Solana client
registers a transaction before it sends it, so a commit may overtake the
submit, and a failed sending returns an error. `nasonninohotstuff` aborts
without a submit when its frame could not be sent. `StreamConfirmer` and
`HotStuffClient` therefore state their own, weaker promises (`OneOutcome`,
`EveryReturnReported`) and say where they differ.

`diablo.go` wraps clients of every chain, so `Redundant` runs over both sorts,
chosen by the variable `strict` initially. Strict clients keep the contract
(`C == INSTANCE ReportContract`), and the wrapper then keeps it for the
interaction of the secondary (`OuterContract`). The others report a submit, a
commit and up to two aborts in any order, also after their goroutine has
returned. With them the result of an interaction can be wrong in two ways, and
`TimesOrdered` and `OutcomeExact` say that there is no third:

- every client commits before any has reported a submit (or while the first is
  still inside `ReportSubmit`): the result has a commit and no submit, or a later
  one, and `printStat` leaves it out;
- one client aborts twice, as `nsolana` may: the wrapper counts reports, not
  clients, so the interaction is recorded aborted although another client has
  not aborted, and the abort may overtake the submit.

`Payloads` extends `Builders`, which extends `Codec` and `Interfaces`: a
transaction is built, wrapped in a prepare message, unwrapped, decoded, numbered,
signed and sent by definitions translated from the two ends separately.
`Generation` extends `Variables` and `Expressions`. `CommandsInOrder` of
`HotStuffClient` is what `CommandCache` needs of a client in order to take none
of its commands for a duplicate.

### State and actions

- **Redundant.** The wrapper's fields are `wSubmitted`, ..., `timesAborted`; the
  runtime's are `submitted`, ..., `err`. A report is two or three steps, because
  the code releases the wrapper's lock before it calls the inner report and
  `ReportSubmit` reads the clock before it locks. `submitting`, `committing` and
  `aborting` are the clients between the unlock and the end of the inner report;
  the history variables `early` and `twice` name those that reported an outcome
  before the end of their `ReportSubmit`, or aborted twice. `Stop` may read at any
  moment.
- **BlockConfirmer.** `pc` is the place of each interaction's goroutine, `lock`
  names a goroutine parked while it holds the mutex, `toReport` and `toWake` are
  the reader's local list. The locked parts are single steps. The node
  (`mempool`, `chain`) is external, as is a sibling client sending the same
  transaction (`PeerSubmits`).
- **CommandCache.** One step per critical section; `Get` takes the token of
  `ready` in a step before the one that takes the mutex. `accepted` and `batches`
  are history variables.
- **Session.** One action per statement of either `Run` that communicates. A
  connection is two sequences plus the unflushed content of the two
  `bufio.Writer`s; a buffered write may flush any prefix. The primary drops the
  errors of `ready` and `start`, as the code does.
- **ClientIndex.** The numbers keep the widths of the encoding: `uint8` is the
  conversion in `decodeMsgPrepareInteraction`.

- **StreamConfirmer.** `pc` follows TriggerInteraction through prepare, send and
  confirm; `reader`, `batch`, `taken` and `waking` are the state of `run()`. `kind`
  and `method` choose the client and the confirmer initially. Only `pollblk` of
  Solana is modelled: nothing constructs its `subtx` confirmer. `skipped` holds the
  transactions the reader passed over: in a batch or a slot after a failed call,
  in a slot not confirmed yet, or not parsable. The `ledger` is external.
- **HotStuffClient.** Taking a slot, numbering the command, reading the
  configuration, calling and pruning are separate steps of `Quorum`; `Frame` is the
  other client, from its pooled connection to the polls of the bridge. Replicas
  crash, restart, answer late or never.
- **Codec.** A wire is a sequence of cells with their widths. Integers are
  truncated to the width they are written in; strings are known by length and
  identity. The reader's first error is kept.
- **Builders, Payloads.** `phase` is the stage of the primary. `counter`, `held` and
  `gen` are the records of accounts: `append` copies a full array of `ndiem`, and
  pointers handed out before keep the old record. The creating workers of
  `ndiem` run beside the parser, and count themselves done before they pass on
  the payment or store their error (`ProcessCreate`, `SendTransfer`, `StoreError`), so
  that a wait in between ends in a panic or misses the error (`funding` is then
  "lost"). `tx` is the state of a transaction on its
  client, `base` the nonce managers, `link` one message alone on a connection
  that may be cut.
- **Variables, Generation.** A draw may return any possible event. An operation
  that may draw returns the set of its outcomes. The goroutines `flatten` and
  `fuseGenerators` are entries of `gen`, and a transfer over an unbuffered channel
  is one step of both ends.

Definitions named *faulty* in a comment (`WrapCommitLate`, `ReadyAtOnce`, ...) are
plausible bugs, unused by the specifications. Replacing the real definition by
one makes TLC report the property it is listed for in `PROJECT.json`.

## Runs

| Run | Bounds | Checks | Distinct states |
| --- | --- | --- | --- |
| `redundant` | 3 clients, strict or not, clock 0..1 | `TimesOrdered`, `OutcomeExact`, `OuterContract` | 1417879, up to symmetry |
| `ethereum` | 2 transactions, 2 blocks | `WaitersKnown`, `ReportsOnce`, `MissedOnlyWhenParked` | 15063 |
| `algorand` | 2 transactions, 3 rounds | `WaitersKnown`, `ReportsOnce`, `RoundsMissedOnlyWhenParked` | 44800 |
| `command_cache` | 2 getters, 3 commands of 2 clients, batches of 2, 4 adds | `NoLostWakeup`, `NothingDropped`, `WaiterServed` | 19632 |
| `session` | 2 secondaries, 1 observer, 6 messages, 2 failures | `StartBarrier`, `ResultsComplete`, `EverybodyEnds`, `ResultReturned` | 20671 |
| `client_index` | 256 clients, 3 interactions, 2 kinds | `FiledWhereSent` | 179417 |
| `stream` | 2 transactions, 2 old and 2 new versions, batches of 2 | `OneOutcome`, `OutcomesTrue`, `ReturnsWithOutcome`, `WaitersKnown`, `ReadIsSettled` | 346615 |
| `hotstuff` | 2 interactions, views of 2 and of 4 replicas, 3 of them crash, 1 slot and 2 connections, 2 attempts | `EveryReturnReported`, `CommandsInOrder`, `ConfigMatches`, `CommitHasQuorum`, `EveryTriggerEnds` | 187544 |
| `payloads` | six chains, 1 or 2 premade accounts and 1 more, 2 contracts, 3 transactions, 2 clients | `DeliveredAsSent`, `NumberedFromLedger`, `DistinctOnLedger`, `MintKeyStaysOnPrimary`, `SoundIncluded` | 293217 |
| `generation` | 3 endpoints, 2 secondaries, files of up to 3 clients and 5 loads, and refused files | `ScheduleExact`, `DrawnAsDeclared`, `GenerationEnds` | 11792 |
| `algorand_noticed` | as `algorand` | `CommitsNoticed`, violated | |
| `client_index_257` | 257 clients | `FiledWhereSent`, violated | |

The runs `redundant`, `ethereum`, `algorand`, `command_cache` and `session` also
check a type invariant; those of `StreamConfirmer` and `HotStuffClient` are
proved as part of their inductive invariants (`Types`).

What the properties say, with the exceptions the code has:

- `TimesOrdered`: a result has no commit without a submit or before it, unless some
  client reported an outcome before the end of its `ReportSubmit`; and no such abort,
  unless this happened or a client aborted twice. `OutcomeExact`: committed is
  recorded only if every client committed, aborted only if every client aborted or
  one did twice, and an outcome all reported is not lost.
- `OneOutcome`, `OutcomesTrue`, `ReturnsWithOutcome`: one outcome per interaction and
  a true one. The exception is Solana's: a transaction whose sending failed stays
  in `pendings`, and the reader may commit what was already aborted.
- `ReadIsSettled`: a transaction registered ahead of the reader is settled, unless the
  ledger never includes it, the reader is blocked on the channel of a goroutine that
  has returned, somebody is parked with the lock, the reader has ended with an error,
  or it passed over the transaction (`skipped`).
- `ConfigMatches`, `CommitHasQuorum`: pruning keeps the configuration, its size and
  its version together, and a commit has the quorum of the configuration the call
  was made with. `EveryTriggerEnds`: no slot is kept, whatever the replicas do.
- `DeliveredAsSent`: each message arrives as it was sent, on both sides of every
  length limit, and a message cut short is an error.
- `NumberedFromLedger`: numbers continue those of the ledger, but for these offsets.
  Account 0 of Ethereum and Avalanche is ahead by the contracts it deployed, which
  the builder counts and the ledger too. When transactions are signed at the
  trigger, a client reads its base on first use, after other clients may have sent
  from the same account: it is further ahead, by what they had accepted at most.
  Owners of contracts are behind by the constructor on Aptos, and on Diem by the
  deployments a record in an old array missed as well.
- `DistinctOnLedger`: no two transactions are one to the ledger, except equal
  invocations on Solana, and transactions of one account of Ethereum or Avalanche
  signed at the trigger by two clients that read different bases.
- `SoundIncluded`: every transaction of a benchmark that runs is included, unless it,
  or one its account numbers before it, could not be signed; its account owns a
  contract (misnumbered, see above); two clients read different bases for the
  account; an equal invocation of Solana is already on the ledger; the wait of
  `ndiem` missed the error of its account's creation or payment; or the primary
  panicked in that wait.
- `ScheduleExact` compares the merged schedule with the integral of each rate;
  `DrawnAsDeclared` compares what was drawn with what the comments of
  `core/variable.go` say of `once` and `loop` iterators and of copies.

Why the bounds suffice: three clients let a commit and an abort both stay below
the threshold while a third is inside `ReportSubmit`, and one that aborts twice stand
for another while a third still submits. Two values of the clock suffice for an
order of two times to be wrong. Two transactions are
enough for one goroutine to park with the lock and another to be blocked by it.
Algorand needs a third round because a round is read only when another follows.
Three commands, two of one client, let a proposal turn cached commands into
duplicates while a getter is between the token and the mutex. The plan of
`session` sends two interactions against the order of their schedule, and two
failures let both a secondary and the primary fail. `client_index` sits at the
largest number of clients for which the encoding is exact.

In `stream`, two versions of history let a reader start behind the ledger. In
`hotstuff` the view of four tolerates a fault until one replica is dropped, and
the view of two can lose both. In `payloads` a second account and one created
beyond the premade ones are enough for the array of accounts to be copied, and
two contracts for their deployments to be counted twice. Three transactions let
two clients send for one account, one of them two, so that a base is read after
the other client's first transaction is in the pool or on the ledger: nonces then
leave a gap or collide. The files of
`generation` have equal times in different loads, rates whose interactions
straddle two segments, nested scopes that hide a name, and all three kinds of
iterators. The clock of loads is counted in sixtieths, so that the rates used
have exact times.

Deadlock is checked for `command_cache`. The other systems end: a benchmark is
over, all goroutines have returned, the bounds are used up.

### Fairness

Weak fairness, with one exception. Goroutines are scheduled and a node answers calls;
nothing forces a call to fail, a loop to break, a process to crash, a block to be
sealed or anyone to call `Get`, `Add` or `Proposed`. In `Session` each process
takes its next step when it has one, and observers connect. In `StreamConfirmer`
the reader and each goroutine proceed. In `Payloads` each transaction is triggered,
the ledger includes what it can, and a worker of `ndiem` sends the payment it was
handed; nothing forces the payment to succeed. In `Generation` the merging goroutines and the
sending one proceed.

The exception is `HotStuffClient`, where taking a slot is strongly fair: a Go
channel serves its blocked senders in turn, and a slot is free only from time to
time. Nothing is assumed of the replicas there; the waits are bounded by
`perCmdTimeout`, the attempts of `sendFrame` and `maxWait`.

### What the two violations show

- **`algorand_noticed`.** `confirm` finds its transaction in `committed`, reports
  the commit, and writes to its own unbuffered channel while it holds the
  confirmer's lock (`nalgorand/client.go:252`). It stays there, and so does
  everybody who needs the lock: other transactions in readable rounds are never
  reported. The same statement is in `nethereum`, `navalanche`, `nsolana` and
  `naptos`. `RoundsMissedOnlyWhenParked` shows that this is the only way to miss a
  transaction of a round the reader was to read.
- **`client_index_257`.** `int(uint8(index))` (`core/encoding.go:415`) keeps 8 of
  the 32 bits the encoder wrote, so interactions of the 257th client run on, and
  are filed under, the first.

Also met: `nalgorand/interface.go:15` calls pollblk the default where the
code picks polltx (line 226); the comment at `nhotstuff/client.go:125`
speaks of 200 slots where `inflightCap` is 1.

## Proofs

All are checked by TLAPS for every value of the constants, under the named
assumptions of the modules.

- **`RuntimeProofs`**, about `Redundant` (`Clients` finite and not empty): `TypeCorrect`,
  `ResultsOrdered` (`TimesOrdered`), `OutcomesExact` (`OutcomeExact`), for clients of either
  sort; `StrictClientsInOrder`, which says that strict clients meet none of the
  exceptions of the two, also while the wrapper makes the inner calls; and
  `WrapperKeepsContract` (`OuterContract`), about strict clients. The properties are
  not inductive: a commit forwarded after the unlock is in order only because a
  full counter means that *every* client has committed, so none is still inside
  `ReportSubmit`, unless it was early. `IInv` says so: `Counted` ties the counters to
  the sets of clients that reported, `Calls` and `Forwarded` say who is forwarding
  what, `InOrder` what strict clients never do and what follows when nobody is early,
  `Ended` that no report is made twice, `Clocked` orders the times.
- **`ConfirmerProofs`**: `EthereumTypeCorrect`, `EthereumNobodyForgotten`
  (`WaitersKnown`), `EthereumKeepsContract` (`ReportsOnce`), and the same three for
  Algorand. The shared steps of `BlockConfirmer` are treated once. `IInv` adds
  `Logged`: what has been reported of a transaction is determined by its goroutine's
  place and, while it waits, by which of `pendings`, `toReport` and `toWake` holds it;
  and `Busy`: the reader holds transactions only while it reports them.
- **`RuntimeProofs`**, about `ClientIndex`: `FiledWhereSentAlways`, for at most 256
  clients and at most 256 kinds of interactions (`Narrow`). `FilingInv` says that the
  interactions sent are those run followed by those on the wire, and that each of them,
  in either place, carries numbers that still lead to the client and to the kind it was
  sent for (`Leads`). It needs that a table of kinds only grows and has no kind twice
  (`Table`), from which counting shows that a place in it fits in a byte. The run
  `client_index_257` shows that the bound on the clients cannot be dropped.
- **`HotStuffProofs`**, about `CommandCache` (`batchSize > 0`): `CacheTypeCorrect`,
  `WakeupsKept` (`NoLostWakeup`), `CommandsKept` (`NothingDropped`), by induction on the
  three together.
- **`StreamProofs`** (`Batch > 0`, `History > 0`): `OneOutcomeAlways`,
  `OutcomesTrueAlways`, `ReturnsWithOutcomeAlways`, `WaitersKnownAlways`. `Inv` adds
  three facts. `Held`: a transaction is in one of `pendings`, `taken` and `waking` at
  most, and in one for sure while its goroutine waits. `Ledgered`: what the reader
  holds is in the ledger. `Logs`: which reports each place and holder allow. `OneOutcome`
  needs `Logs`: the reader commits only what it took out of `pendings`, and whoever
  aborts has removed the key first.
- **`HotStuffProofs`**, about `HotStuffClient` (finite, non-empty views): `EveryReturnReportedAlways`,
  `ConfigMatchesAlways`, `CommitHasQuorumAlways`, `CommandsInOrderAlways`. `Inv` adds
  `Reports`, the log that belongs to each place, and `Replied`: an answer counted for a
  call comes from a replica of the configuration read for it that has received its
  command. The order of commands needs `OrderInv`: one call at a time holds the slot
  (`OneSlot`), each stream is increasing and ahead of what its replica has (`InOrder`),
  and the number a call has drawn and not yet sent is above all of these (`Numbers`).
  It is proved from `inflightCap == 1`, the constant of the code, and would be false of
  two slots: numbering and sending are separate steps.

### The session

`SessionInvariant` defines the inductive invariant `SessionInv`;
`SessionLinkProofs`, `SessionWorkProofs` and `SessionProofs` prove it, each extending
the one before. The assumptions: `Secondaries` is finite and not empty, `Plan` is a
sequence of clients and interactions for slots of the session, in which the index and
the time are natural numbers. The theorems:

- `StartBarrierAlways`: nobody runs its load while another still prepares.
- `SessionTypeCorrect`: cursors stay within the plan and the slots, no secondary stores
  more than the plan has, and whatever is buffered or under way on a connection is a
  message of the kind its direction carries (`Connections`).
- `ResultsCompleteAlways`: a result the primary returns is complete, filed under the
  right clients and in the order of the schedule. It has one hypothesis: the indices
  of the plan are below 256. The run `client_index_257` shows that the code needs it.

A connection is two sequences on each side, so `SessionLinkProofs` first shows that it
is one queue (`Down(s)`, `Up(s)`): a flush or a buffered write appends a message, a
read takes the head. The invariant speaks of these queues only.

- `Inv` is the barrier: `Slots`, how many secondaries were accepted and where the
  primary's loops are, and `Barrier`: whose "done" is under way has synchronised, all
  the primary has awaited have (or are dead), and while a "start" is under way
  everybody has.
- `Work(s)`: the entries of the plan before `Limit` that belong to `s` are on their way
  in the order of the plan (`Load`), or decoded or stored once each under the index
  that decoding leaves (`Stock`, `Schedule`), and unless a process failed none is missing
  (`Lossless`). It carries "everything was stored" across the end mark, and the order
  across `Sorted`.
- `Answers(s)`: what is on its way up for each statement `s` may be at. `Opening` says
  who may still have an answer unread, which rules out that the primary takes a late
  answer for another one. `Closing` says that the results collected followed by what is
  under way are a prefix of the messages of `stop()`, so that "resultDone" is read only
  behind every result, also when the secondary fails in the middle.
- `Collection`: the secondaries behind the cursor gave everything. `Counting`,
  `DataTypes` and `Bookkeeping` are bounds and types.

`ResultsComplete` follows: at the end every secondary is `Full`, a full one has stored
its share (`Lossless` with an empty queue), each entry once, in order. TLC finds
`SessionInv` true in all states of the run `session` (add it to `MCSession.cfg` to
repeat that: `MCSession` extends `SessionInvariant`).

`Sorted` is the stable sort of the code stated by ranks: an entry goes to the place
given by the number of those due earlier, or at the same time and before it. That it
is a permutation in the order of the schedule is a lemma, proved by counting.

Only model-checked:

- liveness (`MissedOnlyWhenParked`, `RoundsMissedOnlyWhenParked`, `WaiterServed`,
  `EverybodyEnds`, `ResultReturned`, `ReadIsSettled`, `EveryTriggerEnds`,
  `SoundIncluded`, `GenerationEnds`), which is out of the prover's reach;
- `Codec`, `Builders`, `Payloads`, `Expressions`, `Variables` and `Generation`: folds and
  recursion over data, where a proof would need induction.

## Assumptions

- The environments given to `Payloads` have at least one account, or are
  refused. A view has one endpoint there, so that a redundancy above one is
  refused; `Redundant` models the reports of more.
- Files with negative rates are not considered: such a load never ends.
- `Generation` uses a builder of the six chains, which refuse kinds of interaction
  they do not know; it does not look at what the builder encodes.
- Which patterns match which tags is given (`Matching`).

## Not modelled

- The earlier engine (`communication`, `core/handlers`, `core/results`,
  `core/workload`, `core/configs`, `blockchains/algorand`, `blockchains/diem` and the
  like): `diablo.go` no longer calls it.
- Gas prices, fees and block hashes (the parameter providers) and signatures: what
  a stale one does is up to the chain.
- Compilation of contracts and the pipe to external argument parsers
  (`contract.go`, `util/ipc.go`): one request and one answer of an external program.
- The builders of `nhotstuff` and `nasonninohotstuff`, which return opaque bytes, the
  latter with a counter in them; their interfaces; the `mock` chain.
- The YAML library, options, logging, the printing of results, generated protobuf
  code and the stand-alone test clients.
- Goroutines a secondary leaves behind when it ends with an error, and the
  generating goroutines after the primary has stopped with one.
