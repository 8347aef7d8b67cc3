------------------------------ MODULE Builders ------------------------------
(***************************************************************************)
(* The builders of the six blockchains that number, tag or spread the      *)
(* transactions of a benchmark: nethereum, navalanche, nalgorand, nsolana, *)
(* ndiem and naptos (blockchains/n*/builder.go).  Which one is used is     *)
(* chosen initially.                                                       *)
(*                                                                         *)
(* The benchmark is generated in two phases (core/benchmark.go): parsing   *)
(* creates the accounts and the contracts, and only then are interactions  *)
(* encoded, each with the number its sender's account says is next.        *)
(*                                                                         *)
(* An account is named by its index in premadeAccounts.  The benchmark     *)
(* holds a pointer to an account's record.  When ndiem appends an account  *)
(* to a full array the array is copied, and a pointer handed out before    *)
(* still refers to the record of the old one: counter[g][a] is the record  *)
(* of account a in the g-th array, gen the current array and held[a] the   *)
(* array the benchmark's pointer to a refers to, 0 when it has none.       *)
(***************************************************************************)
EXTENDS Codec, Interfaces, FiniteSets

CONSTANTS
    Chains,        \* the builders considered
    Envs,          \* environments of the primary, with an account at least if any
    Params,        \* parameters of the setup file
    MaxPremade,    \* bound: premade accounts of an environment
    MaxNew,        \* bound: accounts created beyond the premade ones
    MaxContracts,  \* bound: contracts created
    Names,         \* names of contracts
    MaxTxs,        \* bound: interactions encoded
    Clients,       \* the clients that send them
    Used           \* transactions a premade account has sent before

VARIABLES
    chain,
    env, params,  \* until they are used
    phase,      \* "setup", "accept", "parse", "encode", "decode", "run", "failed" or "crashed"
    premade,    \* len(premadeAccounts)
    used,       \* usedAccounts
    gen, held, counter,
    ledger,     \* the next sequence number of an account on the blockchain
    owners,     \* ownerAccounts: the next owner of a contract of a name
    deployed,   \* the applications whose module is deployed
    contracts,  \* the contracts created: <<name, the account that owns it>>
    base0,      \* the base the builder's nonce manager read for account 0
    txuid,      \* nextTxuid
    amounts,    \* nsolana's count of transfers from an account to another
    creator,    \* "none", "open" or, once an error is stored in it, "error"
    funding,    \* where accountCreator is with a new account
    start,      \* history: the ledger when parsing ended
    plan        \* the encoded interactions

builderVars == <<used, gen, held, counter, owners, deployed, contracts, base0, txuid, amounts>>
creatorVars == <<creator, funding>>
setupVars == <<env, params>>

Accounts == 0 .. MaxPremade + MaxNew - 1
Handed == {a \in Accounts : held[a] # 0}
NoBase == -1

Init ==
    /\ chain \in Chains
    /\ env \in Envs
    /\ params \in Params
    /\ phase = "setup"
    /\ premade = 0
    /\ used = 0
    /\ gen = 1
    /\ held = [a \in Accounts |-> 0]
    /\ counter = [g \in 1 .. MaxPremade + MaxNew |-> [a \in Accounts |-> 0]]
    /\ ledger = [a \in Accounts |-> IF a < Builder(chain, env, params).premade THEN Used ELSE 0]
    /\ owners = [n \in Names |-> 0]
    /\ deployed = {}
    /\ contracts = <<>>
    /\ base0 = NoBase
    /\ txuid = 0
    /\ amounts = [p \in Accounts \X Accounts |-> 0]
    /\ creator = "none"
    /\ funding = [a \in Accounts |-> "none"]
    /\ start = ledger
    /\ plan = <<>>

(* Any error of a builder is returned through core and ends the benchmark. *)
Fail ==
    /\ phase' = "failed"
    /\ UNCHANGED <<chain, premade, ledger, start, plan, builderVars, creatorVars>>

(* The primary makes the builder before it accepts a secondary; what is     *)
(* left of the parameters is what the secondaries are sent.                 *)
NewBuilder ==
    LET made == Builder(chain, env, params) IN
    /\ phase = "setup"
    /\ phase' = IF made.ok THEN "accept" ELSE "failed"
    /\ premade' = made.premade
    /\ params' = made.params
    /\ env' = <<>>
    /\ UNCHANGED <<chain, ledger, start, plan, builderVars, creatorVars>>

---------------------------------------------------------------------------
(* Premade accounts *)

HandOut ==
    /\ used < premade
    /\ held' = [held EXCEPT ![used] = gen]
    /\ used' = used + 1
    /\ UNCHANGED <<chain, phase, premade, ledger, start, plan, creatorVars,
                   gen, counter, owners, deployed, contracts, base0, txuid, amounts>>

NoneLeft == used = premade /\ Fail

EthereumCreateAccount  == chain = "ethereum" /\ phase = "parse" /\ (HandOut \/ NoneLeft)
AvalancheCreateAccount == chain = "avalanche" /\ phase = "parse" /\ (HandOut \/ NoneLeft)
SolanaCreateAccount    == chain = "solana" /\ phase = "parse" /\ (HandOut \/ NoneLeft)

(* nalgorand pays for an account of its own when no premade one is left; the *)
(* payment may fail.                                                         *)
AlgorandCreateAccount ==
    /\ chain = "algorand"
    /\ phase = "parse"
    /\ \/ HandOut
       \/ /\ used = premade
          /\ \E a \in Accounts :
                /\ a >= premade
                /\ held[a] = 0
                /\ held' = [held EXCEPT ![a] = gen]
          /\ txuid' = txuid + 1
          /\ UNCHANGED <<chain, phase, premade, ledger, start, plan, creatorVars,
                         used, gen, counter, owners, deployed, contracts, base0, amounts>>
       \/ NoneLeft

---------------------------------------------------------------------------
(* Contracts of nethereum, navalanche, nalgorand and nsolana.  The account  *)
(* that deploys them is premadeAccounts[0].                                 *)

NewContract(n, owner) == contracts' = Append(contracts, <<n, owner>>)

MayDeploy == phase = "parse" /\ Len(contracts) < MaxContracts

(* The deployment is sent with the nonce base + offset, and waited for.     *)
NonceDeploy(n) ==
    LET b == IF base0 = NoBase THEN ledger[0] ELSE base0 IN
    /\ b + counter[gen][0] = ledger[0]
    /\ base0' = b
    /\ ledger' = [ledger EXCEPT ![0] = @ + 1]
    /\ counter' = [counter EXCEPT ![gen][0] = @ + 1]
    /\ NewContract(n, 0)
    /\ UNCHANGED <<chain, phase, premade, start, plan, creatorVars,
                   used, gen, held, owners, deployed, txuid, amounts>>

EthereumCreateContract(n)  == chain = "ethereum" /\ MayDeploy /\ (NonceDeploy(n) \/ Fail)
AvalancheCreateContract(n) == chain = "avalanche" /\ MayDeploy /\ (NonceDeploy(n) \/ Fail)

AlgorandCreateContract(n) ==
    /\ chain = "algorand"
    /\ MayDeploy
    /\ \/ /\ NewContract(n, 0)
          /\ txuid' = txuid + 1
          /\ UNCHANGED <<chain, phase, premade, ledger, start, plan, creatorVars,
                         used, gen, held, counter, owners, deployed, base0, amounts>>
       \/ Fail

(* Four batches of transactions, each waited for before the next; the first *)
(* error of any of them is the result.  None of them carries a number.      *)
SolanaCreateContract(n) ==
    /\ chain = "solana"
    /\ MayDeploy
    /\ \/ /\ NewContract(n, 0)
          /\ UNCHANGED <<chain, phase, premade, ledger, start, plan, creatorVars,
                         used, gen, held, counter, owners, deployed, base0, txuid, amounts>>
       \/ Fail

---------------------------------------------------------------------------
(* ndiem creates accounts in the background: a worker creates the account,  *)
(* marks the creation done, and only then adds the payment to the payments  *)
(* waited for and hands the account to a second worker.                     *)

(* accountCreator.wait returns: nothing is being created, and no payment    *)
(* that was added is under way.  The channels are closed.                   *)
Settled == \A a \in Accounts : funding[a] \notin {"creating", "paying"}

(* What wait leaves: a worker between the two steps finds its channel      *)
(* closed, and the error of a worker that has not stored it yet is stored  *)
(* where nobody reads it any more.                                         *)
AfterWait ==
    [a \in Accounts |->
        CASE creator # "none" /\ funding[a] = "created" -> "late"
          [] creator # "none" /\ funding[a] \in {"refusing", "failing"} -> "lost"
          [] OTHER -> funding[a]]

MayWait == creator = "none" \/ (creator = "open" /\ Settled)

Waited ==
    /\ MayWait
    /\ creator' = "none"
    /\ funding' = AfterWait

(* An error of the creator, or of any later step of the call that waits. *)
WaitThenFail == (creator = "none" \/ Settled) /\ Fail

(* createWg.Done() comes before the error is stored. *)
ProcessCreate(a) ==
    /\ funding[a] = "creating"
    /\ \E result \in {"created", "refusing"} : funding' = [funding EXCEPT ![a] = result]
    /\ UNCHANGED <<chain, phase, premade, ledger, start, plan, builderVars, creator>>

(* A worker stores its error in the creator. *)
StoreError(a) ==
    /\ funding[a] \in {"refusing", "failing"}
    /\ funding' = [funding EXCEPT ![a] = IF @ = "refusing" THEN "refused" ELSE "unpaid"]
    /\ creator' = "error"
    /\ UNCHANGED <<chain, phase, premade, ledger, start, plan, builderVars>>

(* transferWg.Add(1); transferChan <- key: a send on a closed channel panics. *)
SendTransfer(a) ==
    /\ funding[a] \in {"created", "late"}
    /\ IF funding[a] = "created"
       THEN funding' = [funding EXCEPT ![a] = "paying"] /\ phase' = phase
       ELSE phase' = "crashed" /\ funding' = funding
    /\ UNCHANGED <<chain, premade, ledger, start, plan, builderVars, creator>>

(* transferWg.Done() comes before the error is stored. *)
ProcessTransfer(a) ==
    /\ funding[a] = "paying"
    /\ \E result \in {"paid", "failing"} : funding' = [funding EXCEPT ![a] = result]
    /\ UNCHANGED <<chain, phase, premade, ledger, start, plan, builderVars, creator>>

(* append finds the array full when its length is the capacity it grew to. *)
Full(n) == n \in {1, 2, 4, 8}

NextGen == IF Full(premade) THEN gen + 1 ELSE gen

(* getAccount appends an account to the records c, and has it created by   *)
(* the creator the accounts of f were handed to, or by a new one.          *)
AddAccount(c, f) ==
    /\ premade \in Accounts
    /\ premade' = premade + 1
    /\ gen' = NextGen
    /\ counter' = [c EXCEPT ![NextGen] = c[gen]]
    /\ creator' = "open"
    /\ funding' = [f EXCEPT ![premade] = "creating"]

(* initAccount: the record takes the sequence number the blockchain has. *)
InitAccount(c, a) == [c EXCEPT ![gen][a] = ledger[a]]

DiemCreateAccount ==
    /\ chain = "diem"
    /\ phase = "parse"
    /\ \/ /\ used < premade
          /\ Waited
          /\ counter' = InitAccount(counter, used)
          /\ held' = [held EXCEPT ![used] = gen]
          /\ used' = used + 1
          /\ UNCHANGED <<chain, phase, premade, gen, ledger, start, plan, owners, deployed,
                         contracts, base0, txuid, amounts>>
       \/ /\ used = premade
          /\ creator # "error"
          /\ AddAccount(counter, funding)
          /\ held' = [held EXCEPT ![used] = NextGen]
          /\ used' = used + 1
          /\ UNCHANGED <<chain, phase, ledger, start, plan, owners, deployed, contracts, base0,
                         txuid, amounts>>
       \/ used < premade /\ WaitThenFail
       \/ used = premade /\ creator \in {"none", "error"} /\ Fail

AptosCreateAccount ==
    /\ chain = "aptos"
    /\ phase = "parse"
    /\ \/ /\ used < premade
          /\ counter' = InitAccount(counter, used)
          /\ held' = [held EXCEPT ![used] = gen]
          /\ used' = used + 1
          /\ UNCHANGED <<chain, phase, premade, ledger, start, plan, creatorVars,
                         gen, owners, deployed, contracts, base0, txuid, amounts>>
       \/ Fail

---------------------------------------------------------------------------
(* Contracts of ndiem and naptos.  The module of a contract is deployed     *)
(* once, by account 0; the i-th contract of a name is constructed by        *)
(* account i, with the sequence number read just before.                    *)

DeployModule(n) ==
    IF n \in deployed THEN ledger ELSE [ledger EXCEPT ![0] = @ + 1]

(* A faulty Construct: the owner's record is read before the deployment. *)
ConstructReadsEarly(n, o) ==
    LET deployedLedger == DeployModule(n)
        builder == [counter EXCEPT ![gen][0] = ledger[0]] IN
    /\ counter' = [builder EXCEPT ![gen][o] = ledger[o]]
    /\ ledger' = [deployedLedger EXCEPT ![o] = @ + 1]
    /\ deployed' = deployed \cup {n}
    /\ owners' = [owners EXCEPT ![n] = o + 1]
    /\ NewContract(n, o)

(* getApplication and deployApplication read account 0's record again, and  *)
(* getOwnerAccount the owner's, after the deployment.                       *)
Construct(n, o) ==
    LET deployedLedger == DeployModule(n)
        builder == [counter EXCEPT ![gen][0] = ledger[0]] IN
    /\ counter' = [builder EXCEPT ![gen][o] = deployedLedger[o]]
    /\ ledger' = [deployedLedger EXCEPT ![o] = @ + 1]
    /\ deployed' = deployed \cup {n}
    /\ owners' = [owners EXCEPT ![n] = o + 1]
    /\ NewContract(n, o)

(* The owner is an account ndiem adds: the constructor is sent at once, with *)
(* number 0.  It can succeed although the worker that creates the account    *)
(* still waits for the result.                                               *)
ConstructOnNew(n) ==
    /\ AddAccount([counter EXCEPT ![gen][0] = ledger[0]], AfterWait)
    /\ ledger' = [DeployModule(n) EXCEPT ![premade] = 1]
    /\ deployed' = deployed \cup {n}
    /\ owners' = [owners EXCEPT ![n] = premade + 1]
    /\ NewContract(n, premade)

DiemCreateContract(n) ==
    /\ chain = "diem"
    /\ MayDeploy
    /\ \/ /\ owners[n] = premade
          /\ MayWait
          /\ ConstructOnNew(n)
          /\ UNCHANGED <<chain, phase, start, plan, used, held, base0, txuid, amounts>>
       \/ /\ owners[n] < premade
          /\ Waited
          /\ Construct(n, owners[n])
          /\ UNCHANGED <<chain, phase, premade, start, plan, used, gen, held, base0, txuid,
                         amounts>>
       \/ WaitThenFail

AptosCreateContract(n) ==
    /\ chain = "aptos"
    /\ MayDeploy
    /\ \/ /\ owners[n] < premade
          /\ Construct(n, owners[n])
          /\ UNCHANGED <<chain, phase, premade, start, plan, used, gen, held, base0, txuid,
                         amounts, creatorVars>>
       \/ Fail

---------------------------------------------------------------------------
(* Parsing ends, and the interactions are encoded one after the other. *)

EndOfParse ==
    /\ phase = "parse"
    /\ Handed # {}
    /\ phase' = "encode"
    /\ start' = ledger
    /\ UNCHANGED <<chain, premade, ledger, plan, builderVars, creatorVars>>

Key(a, n) == [n |-> n, id |-> a]
Call(c) == [n |-> 4, id |-> c]

(* The number the sender's account has for its next transaction. *)
Number(a) == counter[held[a]][a]

(* The encoded transaction joins the plan when encode returned no error.    *)
Emit(e, kind, a, b, c, m) ==
    /\ phase = "encode"
    /\ Len(plan) < MaxTxs
    /\ e.ok
    /\ plan' = Append(plan, [kind |-> kind, from |-> a, to |-> b, client |-> c,
                             msg |-> m, wire |-> e.wire])

NextNumber(a) == counter' = [counter EXCEPT ![held[a]][a] = @ + 1]

Numbered(a) ==
    /\ NextNumber(a)
    /\ UNCHANGED <<chain, phase, premade, ledger, start, used, gen, held, owners, deployed,
                   contracts, base0, txuid, amounts>>

EthereumEncodeTransfer(a, b, c) ==
    LET m == [nonce |-> Number(a), amount |-> 1, from |-> Key(a, 32), to |-> Key(b, 20)] IN
    /\ chain = "ethereum"
    /\ Emit(EthereumTransferEncode(m), "transfer", a, b, c, m)
    /\ Numbered(a)
    /\ UNCHANGED creatorVars

EthereumEncodeInvoke(a, t, c) ==
    LET m == [nonce |-> Number(a), from |-> Key(a, 32), appid |-> Key(t, 20), payload |-> Call(t)] IN
    /\ chain = "ethereum"
    /\ Emit(EthereumInvokeEncode(m), "invoke", a, t, c, m)
    /\ Numbered(a)
    /\ UNCHANGED creatorVars

AvalancheEncodeTransfer(a, b, c) ==
    LET m == [nonce |-> Number(a), amount |-> 1, from |-> Key(a, 32), to |-> Key(b, 20)] IN
    /\ chain = "avalanche"
    /\ Emit(AvalancheTransferEncode(m), "transfer", a, b, c, m)
    /\ Numbered(a)
    /\ UNCHANGED creatorVars

AvalancheEncodeInvoke(a, t, c) ==
    LET m == [nonce |-> Number(a), from |-> Key(a, 32), appid |-> Key(t, 20), payload |-> Call(t)] IN
    /\ chain = "avalanche"
    /\ Emit(AvalancheInvokeEncode(m), "invoke", a, t, c, m)
    /\ Numbered(a)
    /\ UNCHANGED creatorVars

Tagged ==
    /\ txuid' = txuid + 1
    /\ UNCHANGED <<chain, phase, premade, ledger, start, used, gen, held, counter, owners,
                   deployed, contracts, base0, amounts, creatorVars>>

AlgorandEncodeTransfer(a, b, c) ==
    LET m == [uid |-> txuid, amount |-> 1, from |-> Key(a, 58), to |-> Key(b, 58),
              seed |-> Key(a, 32)] IN
    /\ chain = "algorand"
    /\ Emit(AlgorandTransferEncode(m), "transfer", a, b, c, m)
    /\ Tagged

AlgorandEncodeInvoke(a, t, c) ==
    LET m == [uid |-> txuid, appid |-> t, from |-> Key(a, 58), seed |-> Key(a, 32),
              args |-> <<<<Call(t)>>>>] IN
    /\ chain = "algorand"
    /\ Emit(AlgorandInvokeEncode(m), "invoke", a, t, c, m)
    /\ Tagged

(* A faulty counting of transfers: one counter per sender's receiver, read  *)
(* before it is incremented and never kept.                                 *)
SolanaAmountForgotten(a, b) == amounts' = amounts

(* this.amounts[faccount][taccount]++ *)
SolanaAmount(a, b) == amounts' = [amounts EXCEPT ![<<a, b>>] = @ + 1]

(* Any other stake than 1 is refused: the amount tells transfers apart.     *)
SolanaEncodeTransfer(a, b, c, stake) ==
    LET m == [amount |-> amounts[<<a, b>>] + 1, from |-> Key(a, 64), to |-> Key(b, 32)] IN
    /\ chain = "solana"
    /\ \/ /\ stake = 1
          /\ Emit(SolanaTransferEncode(m), "transfer", a, b, c, m)
          /\ SolanaAmount(a, b)
          /\ UNCHANGED <<chain, phase, premade, ledger, start, used, gen, held, counter,
                         owners, deployed, contracts, base0, txuid, creatorVars>>
       \/ stake # 1 /\ phase = "encode" /\ Fail

SolanaEncodeInvoke(a, t, c) ==
    LET m == [amount |-> 0, from |-> Key(a, 64), program |-> Key(t, 32), storage |-> Key(t, 32),
              payload |-> Call(t)] IN
    /\ chain = "solana"
    /\ Emit(SolanaInvokeEncode(m), "invoke", a, t, c, m)
    /\ UNCHANGED <<chain, phase, premade, ledger, start, builderVars, creatorVars>>

DiemEncodeTransfer(a, b, c) ==
    LET m == [sequence |-> Number(a), amount |-> 1, seed |-> Key(a, 32), to |-> Key(b, 16)] IN
    /\ chain = "diem"
    /\ \/ /\ Waited
          /\ Emit(DiemTransferEncode(m), "transfer", a, b, c, m)
          /\ Numbered(a)
       \/ phase = "encode" /\ creator = "error" /\ WaitThenFail

DiemEncodeInvoke(a, t, c) ==
    LET m == [sequence |-> Number(a), seed |-> Key(a, 32), code |-> Call(t),
              args |-> <<<<Call(t)>>>>] IN
    /\ chain = "diem"
    /\ \/ /\ Waited
          /\ Emit(DiemInvokeEncode(m), "invoke", a, t, c, m)
          /\ Numbered(a)
       \/ phase = "encode" /\ creator = "error" /\ WaitThenFail

AptosEncodeTransfer(a, b, c) ==
    LET m == [sequence |-> Number(a), amount |-> 1, seed |-> Key(a, 32), to |-> Key(b, 32)] IN
    /\ chain = "aptos"
    /\ Emit(AptosTransferEncode(m), "transfer", a, b, c, m)
    /\ Numbered(a)
    /\ UNCHANGED creatorVars

AptosEncodeInvoke(a, t, c) ==
    LET m == [sequence |-> Number(a), seed |-> Key(a, 32), code |-> Call(t),
              args |-> <<<<Call(t)>>>>] IN
    /\ chain = "aptos"
    /\ Emit(AptosInvokeEncode(m), "invoke", a, t, c, m)
    /\ Numbered(a)
    /\ UNCHANGED creatorVars

=============================================================================
