---------------------------- MODULE MCGeneration ----------------------------
(***************************************************************************)
(* The files TLC generates benchmarks from.                                *)
(***************************************************************************)
EXTENDS Generation

MCSetup == <<[addresses |-> <<"e1", "e2">>, tags |-> {"eu"}],
             [addresses |-> <<"e3">>, tags |-> {"us", "slow"}]>>
MCLocations == <<[id |-> "s1", tags |-> {"eu"}], [id |-> "s2", tags |-> {"us"}]>>
MCMatching == ({".*"} \X {"eu", "us", "slow"})
                  \cup {<<"eu", "eu">>, <<"us", "us">>, <<"slow", "slow">>, <<"s", "us">>, <<"s", "slow">>}

Var(n, tag, e) == Named(n, Tagged(tag, Mapping(e)))
Account(n, tag, number) ==
    Var(n, tag, <<At("sample", Tagged("account", Mapping(<<At("number", Whole(number)), At("stake", Whole(5))>>)))>>)
Copied(n, tag, of) == Var(n, tag, <<At("copy", Alias(of))>>)
Node1(n, tag, domain, filters) == Var(n, tag, <<At("sample", Tagged(domain, Sequence(filters)))>>)

Transfer(from, to) == Tagged("transfer", Mapping(<<At("from", Alias(from)), At("to", Alias(to))>>))
Load(pairs) == Mapping([i \in DOMAIN pairs |-> <<Fraction(pairs[i][1]), Fraction(pairs[i][2])>>])
Behavior(i, load) == Mapping(<<At("interaction", i), At("load", load)>>)

Client(let, behaviors) ==
    Mapping((IF let = <<>> THEN <<>> ELSE <<At("let", Sequence(let))>>)
            \o <<At("view", Alias("nodes")), At("location", Alias("where")),
                 At("behavior", Sequence(behaviors))>>)
File(let, workloads) == Mapping(<<At("let", Sequence(let)), At("workloads", Sequence(workloads))>>)

Nodes(tag, filter) == Node1("nodes", tag, "endpoint", <<Quoted(filter)>>)
Where(tag, filter) == Node1("where", tag, "location", <<Quoted(filter)>>)

(* Three clients and five loads, with equal times and carried fractions. *)
Merged ==
    File(<<Nodes("", "slow"), Where("", "eu"), Account("all", "", 1)>>,
         <<Mapping(<<At("number", Whole(2)),
                     At("client", Client(<<>>,
                         <<Behavior(Transfer("all", "all"), Load(<<<<0, 60>>, <<90, 180>>, <<120, 0>>>>)),
                           Behavior(Transfer("all", "all"), Load(<<<<30, 120>>, <<90, 0>>>>))>>))>>),
           Mapping(<<At("client", Client(<<>>,
                         <<Behavior(Transfer("all", "all"), Load(<<<<0, 30>>, <<90, 0>>, <<120, 60>>, <<210, 0>>>>))>>))>>)>>)

(* Two clients with variables of their own, copied from those around them. *)
Scoped(tag) ==
    File(<<Nodes("", "slow"), Where("", "eu"), Account("all", "iter", 2), Account("one", "", 1)>>,
         <<Mapping(<<At("let", Sequence(<<Copied("pool", tag, "all"), Copied("to", "loop", "one")>>)),
                     At("number", Whole(2)),
                     At("client", Client(<<Copied("mine", tag, "pool"), Copied("pool", "rvar", "mine")>>,
                         <<Behavior(Transfer("mine", "to"), Load(<<<<0, 60>>, <<180, 0>>>>)),
                           Behavior(Transfer("pool", "all"), Load(<<<<60, 60>>, <<120, 0>>>>))>>))>>)>>)

(* Clients on different secondaries, each with all endpoints in its view. *)
Views ==
    File(<<Nodes("iter", ".*"), Where("loop", ".*"), Account("all", "loop", 2)>>,
         <<Mapping(<<At("number", Whole(2)),
                     At("client", Client(<<>>,
                         <<Behavior(Transfer("all", "all"), Load(<<<<0, 60>>, <<60, 0>>>>))>>))>>)>>)

(* Rates, counts and seeds that are drawn; contracts. *)
Rates1 ==
    File(<<Nodes("loop", "s"), Where("rvar", "us"),
           Var("few", "iter", <<At("seed", Whole(7)),
               At("sample", Tagged("integer", Mapping(<<At("from", Whole(1)), At("to", Whole(2))>>)))>>),
           Var("rate", "loop", <<At("random", Tagged("uniform", Mapping(<<>>))),
               At("sample", Tagged("float", Mapping(<<At("from", Whole(1)), At("to", Fraction(150)),
                                                      At("precision", Whole(1))>>)))>>),
           Var("half", "rvar", <<At("sample", Tagged("float", Mapping(<<At("from", Fraction(30)), At("to", Fraction(36))>>)))>>),
           Account("all", "loop", 2),
           Var("code", "", <<At("sample", Tagged("contract", Mapping(<<At("name", Quoted("dota"))>>)))>>)>>,
         <<Mapping(<<At("number", Alias("few")),
                     At("client", Mapping(<<At("view", Mapping(<<At("endpoint", Alias("nodes")), At("seed", Alias("few"))>>)),
                         At("location", Alias("where")),
                         At("behavior", Sequence(<<Tagged("timeload", Mapping(<<
                             At("interaction", Tagged("invoke", Mapping(<<At("from", Alias("all")), At("contract", Alias("code")),
                                                                          At("function", Quoted("update"))>>))),
                             At("load", Mapping(<<<<Alias("half"), Alias("rate")>>, <<Whole(2), Whole(0)>>>>))>>))>>))>>))>>)>>)

(* What the parser refuses, and what it accepts and cannot generate. *)
Simple(lets, number, behaviors) ==
    File(<<Nodes("", "eu"), Where("", "eu"), Account("all", "iter", 1)>> \o lets,
         <<Mapping(<<At("number", number), At("client", Client(<<>>, behaviors))>>)>>)
One(i) == <<Behavior(i, Load(<<<<0, 60>>, <<60, 0>>>>))>>
Faulty ==
    {Simple(<<Account("all", "", 1)>>, Whole(1), One(Transfer("all", "all"))),
     Simple(<<Copied("more", "bag", "all")>>, Whole(1), One(Transfer("all", "all"))),
     Simple(<<Copied("more", "", "none")>>, Whole(1), One(Transfer("all", "all"))),
     Simple(<<Var("more", "", <<At("compose", Whole(1))>>)>>, Whole(1), One(Transfer("all", "all"))),
     Simple(<<Var("more", "", <<At("copy", Word("all"))>>)>>, Whole(1), One(Transfer("all", "all"))),
     Simple(<<Var("more", "", <<At("random", Tagged("normal", Mapping(<<>>))),
                                At("sample", Tagged("endpoint", Sequence(<<>>)))>>)>>, Whole(1), One(Transfer("all", "all"))),
     Simple(<<>>, Whole(0), One(Transfer("all", "all"))),
     Simple(<<>>, Whole(-1), One(Transfer("all", "all"))),
     Simple(<<>>, Whole(1), <<>>),
     Simple(<<>>, Quoted("2"), One(Transfer("all", "all"))),
     Simple(<<>>, Whole(1), One(Transfer("nodes", "all"))),
     Simple(<<>>, Whole(1), One(Mapping(<<>>))),
     Simple(<<>>, Whole(1), One(Tagged("vote", Mapping(<<>>)))),
     Simple(<<>>, Whole(1), <<Behavior(Transfer("all", "all"), Load(<<<<-30, 60>>, <<60, 0>>>>))>>),
     File(<<Nodes("", "none"), Where("", "eu")>>, <<Mapping(<<At("client", Client(<<>>, <<>>))>>)>>),
     File(<<Nodes("", "eu"), Where("", "none")>>, <<Mapping(<<At("client", Client(<<>>, <<>>))>>)>>),
     File(<<>>, <<>>),
     Mapping(<<At("workloads", Sequence(<<>>)), At("let", Word("x"))>>),
     Mapping(<<At("workloads", Sequence(<<>>)), At("workloads", Sequence(<<>>))>>),
     Mapping(<<>>)}

MCDocuments == {Merged, Views, Rates1, Scoped("iter"), Scoped("loop")} \cup Faulty
=============================================================================
