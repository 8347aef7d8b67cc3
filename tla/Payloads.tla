------------------------------ MODULE Payloads ------------------------------
(***************************************************************************)
(* A benchmark's transactions from the builder to the ledger: encoded by a *)
(* builder (Builders), sent in a prepare message (Codec), decoded by the   *)
(* client of a secondary, given their sequence numbers and signed either   *)
(* then (prepare method "signature") or when they are triggered (the other *)
(* methods), sent, and put on the ledger in the order of those numbers.    *)
(*                                                                         *)
(* Beside that, link sends any one message of any size the limits are      *)
(* about over a connection that may be cut.                                *)
(***************************************************************************)
EXTENDS Builders

CONSTANTS LinkMessages  \* the messages sent alone: pairs of a kind and a message

VARIABLES
    prepare,  \* "none", then "signature" or, for the other methods, "late"
    base,     \* the clients' nonce managers: the base read for an account
    tx,       \* the state of each planned transaction and its number: decoded, then signed
    link      \* one message under way

clientVars == <<prepare, base, tx>>
planVars == <<chain, setupVars, phase, premade, start, plan, builderVars, creatorVars>>
vars == <<chain, setupVars, phase, premade, ledger, start, plan, builderVars, creatorVars, clientVars, link>>

Txs == DOMAIN plan

---------------------------------------------------------------------------
(* The connection *)

Size(wire) ==
    LET sum[r \in (1 .. Len(wire)) \X (0 .. Len(wire))] ==
            IF r[1] > r[2] THEN 0
            ELSE IF r[1] = r[2] THEN wire[r[1]].w
            ELSE LET mid == (r[1] + r[2]) \div 2 IN sum[<<r[1], mid>>] + sum[<<mid + 1, r[2]>>]
    IN  IF wire = <<>> THEN 0 ELSE sum[<<1, Len(wire)>>]

(* primary.go sends what EncodeTransfer or EncodeInvoke returned as the     *)
(* payload of a prepare message, for the client of the given index.         *)
Wrapped(index, wire) ==
    PrepareInteractionEncode([index |-> index, ikind |-> 0, time |-> 0,
                              payload |-> [n |-> Size(wire), id |-> wire]])

Payload(r, decode(_)) ==
    IF r.err \/ r.rest # <<>> THEN Fails(r) ELSE decode(r.got["payload"].id)

Unwrapped(wire, decode(_)) == Payload(decodeMsgPrepare(wire), decode)

TransactionEncode(kind, m) ==
    CASE kind = "ethereum transfer"  -> EthereumTransferEncode(m)
      [] kind = "ethereum invoke"    -> EthereumInvokeEncode(m)
      [] kind = "avalanche transfer" -> AvalancheTransferEncode(m)
      [] kind = "avalanche invoke"   -> AvalancheInvokeEncode(m)
      [] kind = "algorand transfer"  -> AlgorandTransferEncode(m)
      [] kind = "algorand invoke"    -> AlgorandInvokeEncode(m)
      [] kind = "solana transfer"    -> SolanaTransferEncode(m)
      [] kind = "solana invoke"      -> SolanaInvokeEncode(m)
      [] kind = "diem transfer"      -> DiemTransferEncode(m)
      [] kind = "diem invoke"        -> DiemInvokeEncode(m)
      [] kind = "aptos transfer"     -> AptosTransferEncode(m)
      [] kind = "aptos invoke"       -> AptosInvokeEncode(m)

TransactionDecode(of, wire) ==
    CASE of = "ethereum"  -> EthereumDecode(wire)
      [] of = "avalanche" -> AvalancheDecode(wire)
      [] of = "algorand"  -> AlgorandDecode(wire)
      [] of = "solana"    -> SolanaDecode(wire)
      [] of = "diem"      -> DiemDecode(wire)
      [] of = "aptos"     -> AptosDecode(wire)

WrappedIfOk(e) == IF e.ok THEN Wrapped(0, e.wire) ELSE e

Encoded(kind, of, m) ==
    CASE kind = "primary"     -> PrimaryParametersEncode(m)
      [] kind = "secondary"   -> SecondaryParametersEncode(m)
      [] kind = "client"      -> PrepareClientEncode(m)
      [] kind = "interaction" -> PrepareInteractionEncode(m)
      [] kind = "prepared"    -> PrepareDoneEncode
      [] kind = "start"       -> StartEncode(m)
      [] kind = "result"      -> ResultInteractionEncode(m)
      [] kind = "done"        -> ResultDoneEncode
      [] OTHER -> WrappedIfOk(TransactionEncode(kind, m))

Decoded(kind, of, wire) ==
    CASE kind = "primary"   -> PrimaryParametersDecode(wire)
      [] kind = "secondary" -> SecondaryParametersDecode(wire)
      [] kind \in {"client", "interaction", "prepared"} -> decodeMsgPrepare(wire)
      [] kind = "start"     -> StartDecode(wire)
      [] kind \in {"result", "done"} -> decodeMsgResult(wire)
      [] OTHER -> Unwrapped(wire, LAMBDA w : TransactionDecode(of, w))

Sent(e) == [link EXCEPT !.state = IF e.ok THEN "sent" ELSE "refused", !.wire = e.wire]

Send ==
    /\ link.state = "new"
    /\ link' = Sent(Encoded(link.kind, link.of, link.m))
    /\ UNCHANGED <<planVars, ledger, clientVars>>

(* The connection ends in the middle of the message.  Cuts: bound, near both *)
(* ends and in the middle.                                                   *)
Cut ==
    /\ link.state = "sent"
    /\ \E k \in {0, 1, Len(link.wire) \div 2, Len(link.wire) - 1} :
          /\ k < Len(link.wire)
          /\ link' = [link EXCEPT !.wire = SubSeq(@, 1, k), !.state = "cut"]
    /\ UNCHANGED <<planVars, ledger, clientVars>>

Arrived(r) ==
    [link EXCEPT !.state = IF r.err THEN "error" ELSE "received",
                 !.cut = (link.state = "cut"), !.wire = r.rest, !.got = r.got]

Receive ==
    /\ link.state \in {"sent", "cut"}
    /\ link' = Arrived(Decoded(link.kind, link.of, link.wire))
    /\ UNCHANGED <<planVars, ledger, clientVars>>

LinkIdle == [kind |-> "none", of |-> "none", m |-> <<>>, state |-> "idle", wire |-> <<>>,
             cut |-> FALSE, got |-> <<>>]

---------------------------------------------------------------------------
(* The ledger, external: a transaction joins the pool unless its number is  *)
(* used, and is included when its number is its account's next one.         *)

Orders == {"ethereum", "avalanche", "diem", "aptos"}

Identity(i) ==
    CASE chain \in Orders   -> <<plan[i].from, tx[i].num>>
      [] chain = "algorand" -> <<tx[i].num>>
      [] chain = "solana"   -> <<plan[i].kind, plan[i].from, plan[i].to, tx[i].num>>

InPool(a) == {tx[i].num : i \in {j \in Txs : plan[j].from = a /\ tx[j].st = "pooled"}}

(* The node counts the transactions in its pool that follow the ledger's. *)
PendingNonceAt(a) ==
    CHOOSE n \in ledger[a] .. ledger[a] + MaxTxs :
        /\ n \notin InPool(a)
        /\ \A k \in ledger[a] .. n - 1 : k \in InPool(a)

(* The node counts the accepted transactions only. *)
AcceptedNonceAt(a) == ledger[a]

Accepts(i) ==
    /\ \A j \in Txs : tx[j].st \in {"pooled", "included"} => Identity(j) # Identity(i)
    /\ chain \in Orders => tx[i].num >= ledger[plan[i].from]

Include(i) ==
    /\ phase = "run"
    /\ tx[i].st = "pooled"
    /\ chain \in Orders => tx[i].num = ledger[plan[i].from]
    /\ funding[plan[i].from] \in {"none", "paid"}
    /\ tx' = [tx EXCEPT ![i].st = "included"]
    /\ ledger' = IF chain \in Orders THEN [ledger EXCEPT ![plan[i].from] = @ + 1] ELSE ledger
    /\ UNCHANGED <<planVars, prepare, base, link>>

---------------------------------------------------------------------------
(* The clients *)

Received(i) ==
    Unwrapped(Wrapped(0, plan[i].wire).wire,
              LAMBDA w : TransactionDecode(chain, w))

(* What tells a decoded transaction from the others of its account. *)
Counted(got) ==
    CASE chain \in {"ethereum", "avalanche"} -> got["nonce"]
      [] chain = "algorand" -> got["uid"]
      [] chain = "solana"   -> got["amount"]
      [] chain \in {"diem", "aptos"} -> got["sequence"]

Signed(i, n) == tx' = [tx EXCEPT ![i].st = "signed", ![i].num = n]

(* getNonce: the base of an account is read once and kept. *)
nextNonce(i, fetched) ==
    LET known == base[plan[i].client][plan[i].from]
    IN  IF known = NoBase THEN fetched ELSE known

Synced(i, b) == base' = [base EXCEPT ![plan[i].client][plan[i].from] = b]

(* The nonce is the base and the builder's count; the other chains sign     *)
(* what the builder wrote.                                                  *)
FromBase(i, fetched, d) ==
    LET b == nextNonce(i, fetched)
    IN  Synced(i, b) /\ Signed(i, b + d)

AsWritten(i, d) == Signed(i, d) /\ base' = base

Is(i, of, kind) == chain = of /\ plan[i].kind = kind

EthereumTransferGetTx(i, d) ==
    Is(i, "ethereum", "transfer") /\ FromBase(i, PendingNonceAt(plan[i].from), d)
EthereumInvokeGetTx(i, d) ==
    Is(i, "ethereum", "invoke") /\ FromBase(i, PendingNonceAt(plan[i].from), d)
AvalancheTransferGetTx(i, d) ==
    Is(i, "avalanche", "transfer") /\ FromBase(i, AcceptedNonceAt(plan[i].from), d)
AvalancheInvokeGetTx(i, d) ==
    Is(i, "avalanche", "invoke") /\ FromBase(i, AcceptedNonceAt(plan[i].from), d)
AlgorandTransferGetRaw(i, d) == Is(i, "algorand", "transfer") /\ AsWritten(i, d)
AlgorandInvokeGetRaw(i, d)   == Is(i, "algorand", "invoke") /\ AsWritten(i, d)
SolanaTransferGetTx(i, d)    == Is(i, "solana", "transfer") /\ AsWritten(i, d)
SolanaInvokeGetTx(i, d)      == Is(i, "solana", "invoke") /\ AsWritten(i, d)
DiemTransferGetSigned(i, d)  == Is(i, "diem", "transfer") /\ AsWritten(i, d)
DiemInvokeGetSigned(i, d)    == Is(i, "diem", "invoke") /\ AsWritten(i, d)
AptosTransferGetSigned(i, d) == Is(i, "aptos", "transfer") /\ AsWritten(i, d)
AptosInvokeGetSigned(i, d)   == Is(i, "aptos", "invoke") /\ AsWritten(i, d)

(* The outer transaction of a chain gets what its inner one signs. *)
EthereumGetTx(i, d)   == EthereumTransferGetTx(i, d) \/ EthereumInvokeGetTx(i, d)
AvalancheGetTx(i, d)  == AvalancheTransferGetTx(i, d) \/ AvalancheInvokeGetTx(i, d)
AlgorandGetRaw(i, d)  == AlgorandTransferGetRaw(i, d) \/ AlgorandInvokeGetRaw(i, d)
SolanaGetTx(i, d)     == SolanaTransferGetTx(i, d) \/ SolanaInvokeGetTx(i, d)
DiemGetSigned(i, d)   == DiemTransferGetSigned(i, d) \/ DiemInvokeGetSigned(i, d)
AptosGetSigned(i, d)  == AptosTransferGetSigned(i, d) \/ AptosInvokeGetSigned(i, d)

getTx(i, d) ==
    \/ EthereumGetTx(i, d) \/ AvalancheGetTx(i, d) \/ AlgorandGetRaw(i, d)
    \/ SolanaGetTx(i, d) \/ DiemGetSigned(i, d) \/ AptosGetSigned(i, d)

(* The client of a secondary is made from the parameters it was sent, when  *)
(* a prepare message asks for it.  Nothing changes them after the secondary *)
(* was accepted, so the step is taken then.  A view has one endpoint here.  *)
NewClient ==
    LET method == RedundantClient(chain, params, 1) IN
    /\ phase = "accept"
    /\ phase' = IF method = "refused" THEN "failed" ELSE "parse"
    /\ prepare' = IF method = "signature" THEN "signature" ELSE "late"
    /\ params' = IF method = "refused" THEN params ELSE <<>>
    /\ UNCHANGED <<chain, env, premade, ledger, start, plan, builderVars, creatorVars, base, tx, link>>

(* Every client decodes its transactions before the benchmark starts; the   *)
(* ledger does not change meanwhile, so the order between clients does not  *)
(* matter.                                                                  *)
Undecoded == {i \in Txs : tx[i].st = "encoded"}

Prepared(i, r) ==
    /\ ~r.err
    /\ IF prepare = "signature"
       THEN getTx(i, Counted(r.got))
       ELSE /\ tx' = [tx EXCEPT ![i].st = "decoded", ![i].num = Counted(r.got)]
            /\ base' = base

DecodePayload(i) ==
    /\ phase = "decode"
    /\ i \in Undecoded
    /\ \A j \in Undecoded : i <= j
    /\ Prepared(i, Received(i))
    /\ UNCHANGED <<planVars, ledger, prepare, link>>

(* An error of DecodePayload, of reading a nonce or of the parameters, ends *)
(* the secondary and with it the benchmark.                                 *)
DecodeFails ==
    /\ phase = "decode"
    /\ Undecoded # {}
    /\ prepare = "signature"
    /\ Fail
    /\ UNCHANGED <<setupVars, clientVars, link>>

Start ==
    /\ phase = "decode"
    /\ Undecoded = {}
    /\ phase' = "run"
    /\ UNCHANGED <<chain, setupVars, premade, ledger, start, plan, builderVars, creatorVars, clientVars, link>>

(* The first getTx of a transaction that was not signed before. *)
TriggerSigns(i) ==
    /\ phase = "run"
    /\ tx[i].st = "decoded"
    /\ getTx(i, tx[i].num)
    /\ UNCHANGED <<planVars, ledger, prepare, link>>

(* lazyTransaction keeps the error of the first getTx for good. *)
TriggerFails(i) ==
    /\ phase = "run"
    /\ tx[i].st = "decoded"
    /\ tx' = [tx EXCEPT ![i].st = "failed"]
    /\ UNCHANGED <<planVars, ledger, prepare, base, link>>

(* A faulty send: a transaction that is not its account's next is dropped. *)
TriggerSendsInTurn(i) ==
    /\ phase = "run"
    /\ tx[i].st = "signed"
    /\ tx' = [tx EXCEPT ![i].st =
                 IF Accepts(i) /\ (chain \in Orders => tx[i].num = ledger[plan[i].from])
                 THEN "pooled" ELSE "rejected"]
    /\ UNCHANGED <<planVars, ledger, prepare, base, link>>

TriggerSends(i) ==
    /\ phase = "run"
    /\ tx[i].st = "signed"
    /\ tx' = [tx EXCEPT ![i].st = IF Accepts(i) THEN "pooled" ELSE "rejected"]
    /\ UNCHANGED <<planVars, ledger, prepare, base, link>>

---------------------------------------------------------------------------
(* The specification *)

(* A setup for the runs of a link alone. *)
AnySetup == CHOOSE x \in Chains \X Envs \X Params : TRUE

PayloadInit ==
    /\ Init
    /\ prepare = "none"
    /\ base = [c \in Clients |-> [a \in Accounts |-> NoBase]]
    /\ tx = <<>>
    /\ \/ link = LinkIdle
       \/ /\ <<chain, env, params>> = AnySetup
          /\ \E l \in LinkMessages :
                link = [LinkIdle EXCEPT !.kind = l[1], !.of = l[2], !.m = l[3], !.state = "new"]

(* Names of contracts differ in nothing: one new name stands for all. *)
OldNames == {contracts[k][1] : k \in DOMAIN contracts}
NewNames == IF OldNames = Names THEN {} ELSE {CHOOSE n \in Names \ OldNames : TRUE}

Parse ==
    \/ EthereumCreateAccount \/ AvalancheCreateAccount \/ AlgorandCreateAccount
    \/ SolanaCreateAccount \/ DiemCreateAccount \/ AptosCreateAccount
    \/ \E n \in OldNames \cup NewNames :
          \/ EthereumCreateContract(n) \/ AvalancheCreateContract(n) \/ AlgorandCreateContract(n)
          \/ SolanaCreateContract(n) \/ DiemCreateContract(n) \/ AptosCreateContract(n)
    \/ EndOfParse

Creator ==
    \E a \in Accounts :
        ProcessCreate(a) \/ StoreError(a) \/ SendTransfer(a) \/ ProcessTransfer(a)

(* What the choices below are bounded to: only Solana's transactions differ *)
(* by kind and receiver alone, and only nonces read at the trigger depend   *)
(* on the client.                                                           *)
Receivers == IF chain = "solana" THEN Handed ELSE {Min(Handed)}
Targets == IF chain = "solana" \/ plan = <<>> THEN {Len(contracts)} \ {0} ELSE {}
Senders ==
    IF chain \in {"ethereum", "avalanche"} /\ prepare = "late" THEN Clients
    ELSE {CHOOSE c \in Clients : TRUE}

(* Another transaction of account a.  The last one is encoded only where     *)
(* the numbers depend on the clients, for the account that has the others.  *)
Room(a) ==
    \/ Len(plan) < MaxTxs - 1
    \/ Cardinality(Senders) > 1 /\ contracts = <<>> /\ \A i \in Txs : plan[i].from = a

Encode ==
    \E a \in {x \in Handed : Room(x)}, c \in Senders :
        \/ \E b \in Receivers :
              \/ EthereumEncodeTransfer(a, b, c) \/ AvalancheEncodeTransfer(a, b, c)
              \/ AlgorandEncodeTransfer(a, b, c)
              \/ \E stake \in 1 .. 2 : SolanaEncodeTransfer(a, b, c, stake)
              \/ DiemEncodeTransfer(a, b, c) \/ AptosEncodeTransfer(a, b, c)
        \/ \E t \in Targets :
              \/ EthereumEncodeInvoke(a, t, c) \/ AvalancheEncodeInvoke(a, t, c)
              \/ AlgorandEncodeInvoke(a, t, c) \/ SolanaEncodeInvoke(a, t, c)
              \/ DiemEncodeInvoke(a, t, c) \/ AptosEncodeInvoke(a, t, c)

EndOfEncode ==
    /\ phase = "encode"
    /\ plan # <<>>
    /\ phase' = "decode"
    /\ tx' = [i \in Txs |-> [st |-> "encoded", num |-> NoBase]]
    /\ UNCHANGED <<chain, setupVars, premade, ledger, start, plan, builderVars, creatorVars, prepare,
                   base, link>>

Run(i) == TriggerSigns(i) \/ TriggerSends(i) \/ Include(i)

Next ==
    \/ /\ link = LinkIdle
       /\ phase \notin {"failed", "crashed"}
       /\ \/ NewBuilder /\ UNCHANGED <<clientVars, link>>
          \/ NewClient
          \/ (Parse \/ Creator \/ Encode) /\ UNCHANGED <<setupVars, clientVars, link>>
          \/ EndOfEncode
          \/ DecodeFails
          \/ Start
          \/ \E i \in Txs : DecodePayload(i) \/ TriggerFails(i) \/ Run(i)
    \/ Send \/ Cut \/ Receive

Spec == PayloadInit /\ [][Next]_vars

(* The secondaries trigger every interaction, the blockchain includes what  *)
(* it can, and a worker of ndiem that is about to send is scheduled.        *)
FairSpec ==
    /\ Spec
    /\ \A i \in 1 .. MaxTxs : WF_vars(i \in Txs /\ Run(i))
    /\ \A a \in Accounts : WF_vars(SendTransfer(a) /\ UNCHANGED <<setupVars, clientVars, link>>)

---------------------------------------------------------------------------
(* Properties *)

(* The mint key, which ndiem and naptos demand of the primary and their     *)
(* clients know nothing of, never is what makes a secondary refuse the      *)
(* parameters it is sent: the builder has taken it out of the setup's map   *)
(* by then (delete(params, "mintkey") in interface.go, before               *)
(* acceptSecondaries).                                                      *)
MintKeyStaysOnPrimary ==
    (chain \in {"diem", "aptos"} /\ phase = "failed" /\ params # <<>>) =>
        RedundantClient(chain, Without(params, "mintkey"), 1) = "refused"

(* The lengths and counts of a message are within its length fields, of one *)
(* or two bytes, and so is the size of a transaction that is a payload.     *)
Fits(kind, x) ==
    LET wide == kind \in {"diem invoke", "aptos invoke"}
        one == {"sysname"} \cap DOMAIN x
        two == {"payload", "code"} \cap DOMAIN x
        lists == {"params", "tags", "view", "args"} \cap DOMAIN x
    IN  /\ \A f \in one : x[f].n <= 255
        /\ \A f \in two : x[f].n <= 65535
        /\ \A f \in lists :
              /\ Len(x[f]) <= IF kind = "client" THEN 65535 ELSE 255
              /\ AllWithin(IF wide THEN 65535 ELSE 255, x[f])

Holds(r, m) == ~r.err /\ \A f \in DOMAIN m : r.got[f] = m[f]

(* A message is received exactly as it was sent, whatever its kind and the  *)
(* sizes of what it holds, and leaves nothing on the connection for the     *)
(* next message to start with; a message cut short is an error, also when   *)
(* the loops of the transaction inside it would not notice; and what fits   *)
(* the length fields is never refused (encode and decode of core/encoding.go *)
(* and of the six transaction.go).                                          *)
DeliveredAsSent ==
    /\ link.state = "received" =>
          /\ ~link.cut
          /\ link.wire = <<>>
          /\ Holds([err |-> FALSE, got |-> link.got], link.m)
    /\ link.state = "error" => link.cut
    /\ (link.state = "refused" /\ Fits(link.kind, link.m)) =>
          Size(TransactionEncode(link.kind, link.m).wire) > 65535
    /\ phase = "decode" => \A i \in Undecoded : Holds(Received(i), plan[i].msg)

HasNumber(i) == tx[i].st \in {"signed", "pooled", "rejected", "included"}

Rank(i) == Cardinality({j \in 1 .. i - 1 : plan[j].from = plan[i].from})

Owns(a) == \E k \in DOMAIN contracts : contracts[k][2] = a

(* How far the number of a transaction is from the one the ledger will      *)
(* expect when the account's earlier transactions are on it.                *)
Offset(i) == tx[i].num - (start[plan[i].from] + Rank(i))

(* The account's transactions another client has had accepted. *)
OfOthers(i) ==
    {j \in Txs : /\ plan[j].from = plan[i].from
                 /\ plan[j].client # plan[i].client
                 /\ tx[j].st \in {"pooled", "included"}}

(* The transactions of an account that deployed and constructed no contract *)
(* are numbered one after the other from the ledger's next number, whatever *)
(* the interleaving of clients, deployments and account creations, with two *)
(* exceptions.  The nonces of account 0 of nethereum and navalanche are     *)
(* ahead by the number of contracts (their deployments are counted both in  *)
(* the offset and in the base); and when they are not signed before the     *)
(* start, the nonces of any account are further ahead, by at most as many   *)
(* as other clients have had accepted for that account: the client reads    *)
(* its base when it first signs for the account, and adds the builder's     *)
(* count, in which those transactions are counted again.  The sequence      *)
(* numbers of an owner of naptos are behind by at most the constructor sent *)
(* after its record was read, and of ndiem by the deployments a record in   *)
(* an old array missed as well.                                             *)
NumberedFromLedger ==
    \A i \in DOMAIN tx :
        (chain \in Orders /\ HasNumber(i)) =>
            LET a == plan[i].from
                ahead == IF a = 0 THEN Len(contracts) ELSE 0
            IN
            CASE chain \in {"ethereum", "avalanche"} ->
                    Offset(i) \in ahead .. ahead + IF prepare = "signature" THEN 0
                                                  ELSE Cardinality(OfOthers(i))
              [] chain = "aptos" -> Offset(i) \in IF Owns(a) THEN {-1, 0} ELSE {0}
              [] chain = "diem"  -> Offset(i) \in IF Owns(a) THEN -2 * Len(contracts) .. 0 ELSE {0}

(* Two clients that sign for account a have read different bases. *)
Drifted(a) ==
    \E c, d \in Clients : NoBase # base[c][a] /\ NoBase # base[d][a] /\ base[c][a] # base[d][a]

(* No two transactions of the benchmark are the same transaction to the     *)
(* ledger, which would drop one of them, except invocations of one contract *)
(* by one account on Solana, where nothing tells them apart but the block   *)
(* hash, and transactions of one account that two clients of nethereum or   *)
(* navalanche number from different bases, which is possible only when they *)
(* are not signed before the start.  On Algorand a transaction's tag is not *)
(* one the builder used.                                                    *)
DistinctOnLedger ==
    \A i, j \in DOMAIN tx :
        /\ (i # j /\ HasNumber(i) /\ HasNumber(j) /\ Identity(i) = Identity(j)) =>
              \/ chain = "solana" /\ plan[i].kind = "invoke"
              \/ /\ chain \in {"ethereum", "avalanche"}
                 /\ prepare = "late"
                 /\ plan[i].client # plan[j].client
                 /\ Drifted(plan[i].from)
        /\ (chain = "algorand" /\ HasNumber(i)) =>
              tx[i].num >= Len(contracts) + Cardinality({a \in Handed : a >= premade})

(* The transaction, or an earlier one its number follows, failed to be      *)
(* signed, and the error is kept.                                           *)
Blocked(i) ==
    \/ tx[i].st = "failed"
    \/ /\ chain \in Orders
       /\ \E j \in 1 .. i - 1 : plan[j].from = plan[i].from /\ tx[j].st = "failed"

(* An invocation of Solana that equals one already on the ledger. *)
Twin(i) ==
    /\ chain = "solana" /\ plan[i].kind = "invoke"
    /\ \E j \in Txs \ {i} : tx[j].st = "included" /\ Identity(j) = Identity(i)

(* Why a transaction may never be included. *)
Excused(i) ==
    \/ Blocked(i)
    \/ chain \in Orders /\ Owns(plan[i].from)
    \/ Drifted(plan[i].from)
    \/ Twin(i)
    \/ funding[plan[i].from] = "lost"

(* Once the benchmark runs, every transaction is included in the end, in    *)
(* whatever order the clients send the transactions, unless the primary     *)
(* panics (ndiem's worker sends on a closed channel) or one of these holds: *)
(* it could not be signed, or one its account numbers before it could not;  *)
(* its account deployed or constructed a contract, which misnumbers it; two *)
(* clients of nethereum or navalanche that sign for the account at the      *)
(* trigger have read different bases; it is an invocation on Solana like    *)
(* one already included; or ndiem's wait missed the error of the creation   *)
(* or of the payment of its account.                                        *)
SoundIncluded ==
    \A i \in 1 .. MaxTxs :
        (phase = "run" /\ i \in DOMAIN tx) ~>
            \/ i \in DOMAIN tx /\ (tx[i].st = "included" \/ Excused(i))
            \/ phase = "crashed"

=============================================================================
