----------------------------- MODULE Interfaces -----------------------------
(***************************************************************************)
(* interface.go of the six chains: what Builder makes of the environment   *)
(* (-e options of the primary) and of the parameters of the setup file,    *)
(* and what Client, on a secondary, makes of the parameters it is sent.    *)
(*                                                                         *)
(* An element of the environment is <<key, file>>, with key NoKey when it  *)
(* has no "=".  A file of accounts is the number of accounts in it, 0 for  *)
(* an empty file, or Unreadable.  Parameters are a function from their     *)
(* keys to their values.                                                   *)
(***************************************************************************)
EXTENDS Integers, Sequences, SequencesExt

NoKey == "none"
Unreadable == -1

Refused == [ok |-> FALSE, premade |-> 0, params |-> <<>>]

---------------------------------------------------------------------------
(* Builder *)

parseEnvmap(env) == \A i \in DOMAIN env : env[i][1] # NoKey

(* The accounts of a file.  The decoder of an empty file returns io.EOF,    *)
(* which only ndiem and naptos take for no account; nsolana reads lines.    *)
addPremadeAccounts(file) == file > 0
addPremadeAccountsOrNone(file) == file >= 0
addPremadeLines(file) == file >= 0

Files(env) == SelectSeq(env, LAMBDA e : e[1] = "accounts")

(* The keys of the environment are met in any order, but an unknown one or  *)
(* a file that cannot be read ends the loop in any of them.                 *)
Premade(env, params, added(_)) ==
    IF /\ parseEnvmap(env)
       /\ \A i \in DOMAIN env :
             /\ env[i][1] \in {"accounts", "contracts"}
             /\ env[i][1] = "accounts" => added(env[i][2])
    THEN [ok |-> TRUE,
          premade |-> FoldSeq(LAMBDA e, n : e[2] + n, 0, Files(env)),
          params |-> params]
    ELSE Refused

Without(params, key) == [k \in DOMAIN params \ {key} |-> params[k]]

(* The mint key is taken out of the parameters, in the setup's own map. *)
WithMintKey(env, params) ==
    IF "mintkey" \in DOMAIN params
    THEN Premade(env, Without(params, "mintkey"), addPremadeAccountsOrNone)
    ELSE Refused

EthereumBuilder(env, params)  == Premade(env, params, addPremadeAccounts)
AvalancheBuilder(env, params) == Premade(env, params, addPremadeAccounts)
AlgorandBuilder(env, params)  == Premade(env, params, addPremadeAccounts)
SolanaBuilder(env, params)    == Premade(env, params, addPremadeLines)

(* A faulty DiemBuilder: it reads the mint key and leaves it where it is. *)
DiemBuilderKeepsKey(env, params) ==
    IF "mintkey" \in DOMAIN params THEN Premade(env, params, addPremadeAccountsOrNone) ELSE Refused

DiemBuilder(env, params) == WithMintKey(env, params)
AptosBuilder(env, params) == WithMintKey(env, params)

Builder(chain, env, params) ==
    CASE chain = "ethereum"  -> EthereumBuilder(env, params)
      [] chain = "avalanche" -> AvalancheBuilder(env, params)
      [] chain = "algorand"  -> AlgorandBuilder(env, params)
      [] chain = "solana"    -> SolanaBuilder(env, params)
      [] chain = "diem"      -> DiemBuilder(env, params)
      [] chain = "aptos"     -> AptosBuilder(env, params)

---------------------------------------------------------------------------
(* Client: the prepare method, or "refused". *)

EthereumParsePrepare  == {"nothing", "params", "signature"}
AvalancheParsePrepare == {"nothing", "params", "signature", "cached"}
AlgorandParsePrepare  == {"nothing", "params", "signature"}
SolanaParsePrepare    == {"nothing", "cached"}
DiemParsePrepare      == {"nothing", "signature"}
AptosParsePrepare     == {"nothing", "signature"}
parseConfirm          == {"polltx", "pollblk"}

(* The keys known to the client, with their values; any other is an error. *)
Method(params, known, default) ==
    IF \A k \in DOMAIN params : k \in DOMAIN known /\ params[k] \in known[k]
    THEN IF "prepare" \in DOMAIN params THEN params["prepare"] ELSE default
    ELSE "refused"

EthereumClient(params)  == Method(params, [prepare |-> EthereumParsePrepare], "signature")
AvalancheClient(params) == Method(params, [prepare |-> AvalancheParsePrepare], "cached")
AlgorandClient(params)  ==
    Method(params, [prepare |-> AlgorandParsePrepare, confirm |-> parseConfirm], "signature")
SolanaClient(params)    == Method(params, [prepare |-> SolanaParsePrepare], "cached")
DiemClient(params)      ==
    Method(params, [prepare |-> DiemParsePrepare, confirm |-> parseConfirm], "signature")
AptosClient(params)     ==
    Method(params, [prepare |-> AptosParsePrepare, confirm |-> parseConfirm], "signature")

Client(chain, params) ==
    CASE chain = "ethereum"  -> EthereumClient(params)
      [] chain = "avalanche" -> AvalancheClient(params)
      [] chain = "algorand"  -> AlgorandClient(params)
      [] chain = "solana"    -> SolanaClient(params)
      [] chain = "diem"      -> DiemClient(params)
      [] chain = "aptos"     -> AptosClient(params)

(* What strconv.ParseUint makes of the digits considered. *)
Numbers == ("0" :> 0) @@ ("1" :> 1) @@ ("2" :> 2)

(* nredundant wraps the interfaces of these chains: one client for each of  *)
(* the first endpoints of the view.  The parameter is its own, and the      *)
(* wrapped clients are given the others.                                    *)
RedundantClient(chain, params, endpoints) ==
    LET asked == IF "redundancy" \in DOMAIN params THEN params["redundancy"] ELSE "1"
    IN  IF asked \in DOMAIN Numbers /\ Numbers[asked] \in 1 .. endpoints
        THEN Client(chain, Without(params, "redundancy"))
        ELSE "refused"
=============================================================================
