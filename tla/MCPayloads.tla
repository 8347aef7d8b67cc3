----------------------------- MODULE MCPayloads -----------------------------
(***************************************************************************)
(* The instance of Payloads that TLC checks, and the messages that are     *)
(* sent alone: every kind, with strings and lists on both sides of the     *)
(* limits of their length fields.                                          *)
(***************************************************************************)
EXTENDS Payloads

Blob(n, id) == [n |-> n, id |-> id]
List(k, e) == [i \in 1 .. k |-> e]

Strings == {0, 1, 255, 256}
Large == {0, 255, 256, 65535, 65536}

(* Accounts in one file or in two, and what the builders refuse. *)
MCEnvs ==
    {<<<<"accounts", 1>>>>,
     <<<<"accounts", 1>>, <<"contracts", 0>>, <<"accounts", 1>>>>,
     <<<<"accounts", 1>>, <<"accounts", 0>>>>,
     <<<<"accounts", Unreadable>>>>, <<<<"other", 0>>>>, <<<<NoKey, 0>>>>}

(* No parameter, each of them alone, and a value or a key nobody knows. *)
MCParams ==
    LET plain == {<<>>} \cup [{"prepare"} -> {"nothing", "params", "signature", "cached", "other"}]
                 \cup [{"confirm"} -> {"polltx", "pollblk", "other"}] \cup [{"other"} -> {"other"}]
                 \cup [{"redundancy"} -> {"0", "1", "2", "other"}]
    IN  plain \cup {p @@ [k \in {"mintkey"} |-> "path"] : p \in plain}

(* Lists of strings: short ones with strings at the limits, and lists at    *)
(* the limit of their count.                                                *)
Lists(sizes, id) ==
    {List(k, <<Blob(n, id)>>) : k \in {0, 1, 2}, n \in sizes} \cup {List(k, <<Blob(1, id)>>) : k \in {255, 256}}

MCLinkMessages ==
    {<<"primary", "core", [sysname |-> Blob(s, "name"), params |-> List(k, <<Blob(p, "key"), Blob(v, "value")>>),
                           maxDelay |-> 1, maxSkew |-> 2]>> :
        s \in {255, 256}, k \in {0, 1, 2}, p \in {1, 255, 256}, v \in {0, 255, 256}}
    \cup {<<"primary", "core", [sysname |-> Blob(8, "name"), params |-> List(k, <<Blob(1, "key"), Blob(2, "value")>>),
                                maxDelay |-> 1, maxSkew |-> 2]>> : k \in {255, 256}}
    \cup {<<"secondary", "core", [tags |-> l]>> : l \in Lists(Strings, "tag")}
    \cup {<<"client", "core", [view |-> l, index |-> x]>> : l \in Lists(Strings, "address"), x \in {0, 65536}}
    \cup {<<"interaction", "core", [index |-> x, ikind |-> k, time |-> 3, payload |-> Blob(n, "payload")]>> :
            x \in {0, 255}, k \in {0, 255}, n \in Large}
    \cup {<<"prepared", "core", <<>>>>, <<"done", "core", <<>>>>, <<"start", "core", [duration |-> 5]>>}
    \cup {<<"result", "core", [index |-> x, ikind |-> k, submitTime |-> 1, commitTime |-> 2,
                               abortTime |-> -1, hasError |-> e]>> :
            x \in {0, 256, 65536}, k \in {0, 255}, e \in BOOLEAN}
    \cup {<<c \o " transfer", c, [nonce |-> 7, amount |-> 1, from |-> Blob(32, "key"), to |-> Blob(20, "to")]>> :
            c \in {"ethereum", "avalanche"}}
    \cup {<<c \o " invoke", c, [nonce |-> 7, from |-> Blob(32, "key"), appid |-> Blob(20, "app"), payload |-> Blob(n, "call")]>> :
            c \in {"ethereum", "avalanche"}, n \in Large}
    \cup {<<"algorand transfer", "algorand", [uid |-> 7, amount |-> 1, from |-> Blob(58, "from"), to |-> Blob(58, "to"), seed |-> Blob(32, "key")]>>}
    \cup {<<"algorand invoke", "algorand", [uid |-> 7, appid |-> 9, from |-> Blob(58, "from"), seed |-> Blob(32, "key"),
                                            args |-> l]>> : l \in Lists(Strings, "arg")}
    \cup {<<"solana transfer", "solana", [amount |-> 1, from |-> Blob(64, "key"), to |-> Blob(32, "to")]>>}
    \cup {<<"solana invoke", "solana", [amount |-> 0, from |-> Blob(64, "key"), program |-> Blob(32, "program"),
                                        storage |-> Blob(32, "storage"), payload |-> Blob(n, "call")]>> : n \in Large}
    \cup {<<"diem transfer", "diem", [sequence |-> 7, amount |-> 1, seed |-> Blob(32, "key"), to |-> Blob(16, "to")]>>,
          <<"aptos transfer", "aptos", [sequence |-> 7, amount |-> 1, seed |-> Blob(32, "key"), to |-> Blob(32, "to")]>>}
    \cup {<<c \o " invoke", c, [sequence |-> 7, seed |-> Blob(32, "key"), code |-> Blob(s, "code"),
                                args |-> l]>> :
            c \in {"diem", "aptos"}, s \in {1, 65535, 65536}, l \in Lists({1, 255, 65535, 65536}, "arg")}
=============================================================================
