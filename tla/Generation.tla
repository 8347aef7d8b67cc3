----------------------------- MODULE Generation -----------------------------
(***************************************************************************)
(* The generation of a benchmark's interactions (core/benchmark.go): the   *)
(* primary parses the workloads, then one goroutine per load and one per   *)
(* client, per workload and for the whole benchmark produce and merge the  *)
(* interactions over unbuffered channels, and instantiate draws the        *)
(* accounts of each one and sends it to a secondary.                       *)
(*                                                                         *)
(* A node of the file that may get a scope of its own is named by its      *)
(* path: <<>> is the file, <<w>> a workload, <<w, 0>> its client, which is *)
(* parsed once for every client of the workload, and <<w, 0, b>> the       *)
(* interaction of its b-th behavior.  A goroutine is named by what it      *)
(* generates: <<>>, <<w>>, <<w, c>> and <<w, c, b>>.                       *)
(***************************************************************************)
EXTENDS Variables

CONSTANTS Documents  \* the files considered

VARIABLES
    file,      \* the file
    phase,     \* "parse", "generate", "done", "error" or "panic"
    at,        \* where the parser is
    heap,      \* the variables
    scopes,    \* the scopes; the first is the implicit one of the file
    slocal,    \* the scope a node is specialized to, 0 if none
    clients,   \* the clients created, with their views and loads
    gen,       \* the goroutines that generate
    sent       \* the interactions sent

vars == <<file, phase, at, heap, scopes, slocal, clients, gen, sent>>
parsed == <<file, clients, scopes>>

---------------------------------------------------------------------------
(* Scopes of nodes *)

Prefix(node, n) == SubSeq(node, 1, n)

(* benchmarkYamlNode.current: the scope of the closest node that has one. *)
current(sl, node) ==
    LET own == {n \in 0 .. Len(node) : Prefix(node, n) \in DOMAIN sl /\ sl[Prefix(node, n)] # 0}
    IN  IF own = {} THEN 1 ELSE sl[Prefix(node, Max(own))]

specialize(sl, node, s) == (node :> s) @@ sl

Workloads == Slice(Field(file, "workloads"))
Workload(w) == Workloads[w]
ClientOf(w) == Field(Workload(w), "client")
Behaviors(w) == Slice(Field(ClientOf(w), "behavior"))
InteractionOf(w, b) == Field(Behaviors(w)[b], "interaction")

---------------------------------------------------------------------------
(* Parsing is sequential.  at is the node whose let is parsed and the next  *)
(* of its variables, or the client and what is next in it.                  *)

Begin(stage, w, c) == [stage |-> stage, w |-> w, c |-> c, i |-> 1, scope |-> 0,
                       number |-> 0, view |-> <<>>]

Init ==
    /\ file \in Documents
    /\ phase = IF parseBenchmarkYaml(file) THEN "parse" ELSE "error"
    /\ at = Begin("global", 0, 0)
    /\ heap = <<>>
    /\ scopes = <<newScope(0)>>
    /\ slocal = <<>>
    /\ clients = <<>>
    /\ gen = <<>>
    /\ sent = <<>>

Stop(outcome) ==
    /\ phase' = outcome
    /\ UNCHANGED <<parsed, at, heap, slocal, gen, sent>>

NodeAt == CASE at.stage = "global"   -> <<>>
            [] at.stage = "workload" -> <<at.w>>
            [] OTHER                 -> <<at.w, 0>>

ExprAt == CASE at.stage = "global"   -> file
            [] at.stage = "workload" -> Workload(at.w)
            [] OTHER                 -> ClientOf(at.w)

LetStages == {"global", "workload", "client"}

(* What follows the let of a node. *)
AfterLet ==
    CASE at.stage = "global"   -> Begin(IF Workloads = <<>> THEN "end" ELSE "workload",
                                        Min({1, Len(Workloads)}), 0)
      [] at.stage = "workload" -> [at EXCEPT !.stage = "number"]
      [] at.stage = "client"   -> [at EXCEPT !.stage = "view"]

NoLet ==
    /\ phase = "parse"
    /\ at.stage \in LetStages
    /\ ~Has(ExprAt, "let")
    /\ at' = AfterLet
    /\ UNCHANGED <<parsed, phase, heap, slocal, gen, sent>>

(* benchmarkYamlSequence.scope *)
OpenScope ==
    /\ phase = "parse"
    /\ at.stage \in LetStages
    /\ at.scope = 0
    /\ Has(ExprAt, "let")
    /\ IF Field(ExprAt, "let").is = "sequence"
       THEN /\ scopes' = Append(scopes, newScope(current(slocal, NodeAt)))
            /\ at' = [at EXCEPT !.scope = Len(scopes) + 1]
            /\ UNCHANGED <<file, clients, phase, heap, slocal, gen, sent>>
       ELSE Stop("error")

(* basicScope.parse, one variable: the scope being built is current. *)
ParseNext ==
    /\ phase = "parse"
    /\ at.stage \in LetStages
    /\ at.scope # 0
    /\ LET children == Slice(Field(ExprAt, "let"))
           env == [scopes |-> scopes, cur |-> at.scope]
           made == NodeAt \o (IF at.stage = "client" THEN <<at.c>> ELSE <<>>) \o <<at.i>>
       IN  /\ at.i <= Len(children)
           /\ \E o \in parseVariable(children[at.i], made, env, heap) :
                 IF ~o.ok \/ o.val \in DOMAIN scopes[at.scope].entries THEN Stop("error")
                 ELSE /\ heap' = o.heap
                      /\ scopes' = [scopes EXCEPT ![at.scope] =
                                      add(@, o.val, IF o.val = "" THEN 0 ELSE Len(o.heap))]
                      /\ at' = [at EXCEPT !.i = @ + 1]
                      /\ UNCHANGED <<file, clients, phase, slocal, gen, sent>>

(* The rest of the node is parsed in the new scope. *)
CloseScope ==
    /\ phase = "parse"
    /\ at.stage \in LetStages
    /\ at.scope # 0
    /\ at.i > Len(Slice(Field(ExprAt, "let")))
    /\ slocal' = specialize(slocal, NodeAt, at.scope)
    /\ at' = [AfterLet EXCEPT !.i = 1, !.scope = 0]
    /\ UNCHANGED <<parsed, phase, heap, gen, sent>>

Env(node) == [scopes |-> scopes, cur |-> current(slocal, node)]

(* parseWorkload: how many times the client is parsed; an array of a        *)
(* negative length cannot be made.                                          *)
ParseNumber ==
    /\ phase = "parse"
    /\ at.stage = "number"
    /\ \E o \in GetIntOr(Workload(at.w), "number", 1, Env(<<at.w>>), heap) :
          IF ~o.ok THEN Stop("error")
          ELSE IF o.val < 0 THEN Stop("panic")
          ELSE /\ heap' = o.heap
               /\ at' = [Begin(IF o.val = 0 THEN "end" ELSE "client", at.w, 1)
                           EXCEPT !.number = o.val]
               /\ UNCHANGED <<parsed, phase, slocal, gen, sent>>

(* parseView: a copy of the endpoint variable that draws each once. *)
CopyView ==
    /\ phase = "parse"
    /\ at.stage = "view"
    /\ LET field == Field(ClientOf(at.w), "view")
           alias == IF field.is = "alias" THEN field ELSE Field(field, "endpoint")
           env == Env(<<at.w, 0>>)
       IN  \E o \in Then(Resource(alias, {"endpoint"}, env, heap), LAMBDA r :
                       IF field.is # "alias" /\ Has(field, "seed")
                       THEN {[s EXCEPT !.val = r.val] : s \in GetInt(Field(field, "seed"), env, heap)}
                       ELSE {r}) :
              IF ~o.ok THEN Stop("error")
              ELSE /\ heap' = Append(o.heap, copyVariable(o.heap[o.val], "once", <<at.w, 0, at.c, 0>>))
                   /\ at' = [at EXCEPT !.stage = "drain"]
                   /\ UNCHANGED <<parsed, phase, slocal, gen, sent>>

DrainView ==
    /\ phase = "parse"
    /\ at.stage = "drain"
    /\ \E o \in Get(heap, Len(heap)) :
          IF o.ok THEN /\ heap' = o.heap
                       /\ at' = [at EXCEPT !.view = Append(@, o.val)]
                       /\ UNCHANGED <<parsed, phase, slocal, gen, sent>>
          ELSE IF at.view = <<>> THEN Stop("error")
          ELSE /\ at' = [at EXCEPT !.stage = "location"]
               /\ UNCHANGED <<parsed, phase, heap, slocal, gen, sent>>

(* parseClient: a secondary is drawn and a client created on it, unless the *)
(* message that tells it so cannot be sent.                                 *)
CreateClient ==
    /\ phase = "parse"
    /\ at.stage = "location"
    /\ \E o \in GetResource(Field(ClientOf(at.w), "location"), "location", Env(<<at.w, 0>>), heap) :
          \/ Stop("error")
          \/ /\ o.ok
             /\ heap' = o.heap
             /\ clients' = Append(clients, [w |-> at.w, c |-> at.c, on |-> o.val,
                                            view |-> at.view, loads |-> <<>>])
             /\ at' = [at EXCEPT !.stage = "behavior", !.i = 1]
             /\ UNCHANGED <<file, scopes, phase, slocal, gen, sent>>

(* The times and rates of a load, as they are read from the file. *)
RECURSIVE Rates(_, _, _, _)
Rates(fields, load, env, h) ==
    IF fields = <<>> THEN Returns(load, h)
    ELSE Then(GetFloat(Head(fields)[1], env, h), LAMBDA t :
             IF t.val < 0 THEN Errs(t.heap)
             ELSE Then(GetFloat(Head(fields)[2], env, t.heap), LAMBDA r :
                      Rates(Tail(fields), (t.val :> r.val) @@ load, env, r.heap)))

(* parseLoad and parseTimeload.  The scope the interaction is in now is     *)
(* kept: the node will be in another one when the next client is parsed.    *)
ParseTimeload ==
    /\ phase = "parse"
    /\ at.stage = "behavior"
    /\ at.i <= Len(Behaviors(at.w))
    /\ LET expr == Behaviors(at.w)[at.i]
           node == <<at.w, 0, at.i>>
       IN  IF etype(expr) \notin {"", "timeload"} \/ etype(InteractionOf(at.w, at.i)) = ""
           THEN Stop("error")
           ELSE \E o \in Rates(Map(Field(expr, "load")), <<>>, Env(<<at.w, 0>>), heap) :
                   IF ~o.ok THEN Stop("error")
                   ELSE /\ heap' = o.heap
                        /\ clients' = [clients EXCEPT ![Len(clients)].loads =
                                         Append(@, [load |-> o.val, current |-> current(slocal, node)])]
                        /\ at' = [at EXCEPT !.i = @ + 1]
                        /\ UNCHANGED <<file, scopes, phase, slocal, gen, sent>>

(* defer expr.specialize(nil), and the next client of the workload. *)
EndOfClient ==
    /\ phase = "parse"
    /\ at.stage = "behavior"
    /\ at.i > Len(Behaviors(at.w))
    /\ slocal' = specialize(slocal, <<at.w, 0>>, 0)
    /\ at' = [Begin(IF at.c < at.number THEN "client" ELSE "end", at.w, at.c + 1)
                EXCEPT !.number = at.number]
    /\ UNCHANGED <<parsed, phase, heap, gen, sent>>

(* parseWorkload returns. *)
EndOfWorkload ==
    /\ phase = "parse"
    /\ at.stage = "end"
    /\ at.w < Len(Workloads)
    /\ at' = Begin("workload", at.w + 1, 0)
    /\ UNCHANGED <<parsed, phase, heap, slocal, gen, sent>>

---------------------------------------------------------------------------
(* flatten: the interactions of a load.  rest is what remains of the sorted *)
(* times, key and rate the time and the rate of the current segment, and    *)
(* done how far it is to the next interaction, in sixtieths of one.         *)

Nothing == [t |-> 0, id |-> <<>>, k |-> 0, current |-> 0]

Times(load) == SetToSortSeq(DOMAIN load, <)

(* A faulty flatten: what a segment did of an interaction is not carried    *)
(* over.                                                                    *)
carryForgotten(done, elapsed, rate) == 0

carry(done, elapsed, rate) == done + (elapsed * rate) \div Unit

RECURSIVE flatten(_, _)
flatten(load, s) ==
    IF s.rest = <<>> THEN [s EXCEPT !.pc = "closed"]
    ELSE LET upto == Head(s.rest)
             wait == ((Unit - s.done) * Unit) \div s.rate
             next == [s EXCEPT !.rest = Tail(@), !.clock = upto, !.rate = load[upto]]
         IN  IF s.clock = upto \/ s.rate = 0 THEN flatten(load, next)
             ELSE IF s.clock + wait <= upto
             THEN [s EXCEPT !.pc = "send", !.done = 0, !.clock = @ + wait,
                            !.item.t = s.clock + wait, !.item.k = @ + 1]
             ELSE flatten(load, [next EXCEPT !.done = carry(s.done, upto - s.clock, s.rate)])

LoadOf(p) == (CHOOSE x \in Range(clients) : <<x.w, x.c>> = Prefix(p, 2)).loads[p[3]]

(* timeloadGenerator.generate *)
Flattening(id) ==
    flatten(LoadOf(id).load,
            [pc |-> "start", elements |-> <<>>, open |-> <<>>, min |-> 1, primed |-> TRUE,
             rest |-> Times(LoadOf(id).load), rate |-> 0, done |-> 0, clock |-> 0,
             item |-> [t |-> 0, id |-> id, k |-> 0, current |-> LoadOf(id).current]])

---------------------------------------------------------------------------
(* fuseGenerators: elements[i] is the element read from ins[i], and open[i] *)
(* is false once that channel is closed (the element is nil).               *)

Fusing(n) ==
    [pc |-> "receive", elements |-> [i \in 1 .. n |-> Nothing], open |-> [i \in 1 .. n |-> TRUE],
     min |-> 1, primed |-> FALSE, rest |-> <<>>, rate |-> 0, done |-> 0, clock |-> 0, item |-> Nothing]

(* The first of those with the smallest time. *)
smallest(g) ==
    LET live == {i \in DOMAIN g.elements : g.open[i]}
        first == {i \in live : \A j \in live : g.elements[i].t <= g.elements[j].t}
    IN  Min(first)

(* A faulty Received: it goes on reading when all channels are closed. *)
ReceivedNeverCloses(g) ==
    IF ~g.primed /\ g.min < Len(g.elements) THEN [g EXCEPT !.min = @ + 1]
    ELSE IF \A i \in DOMAIN g.open : ~g.open[i] THEN g
    ELSE [g EXCEPT !.min = smallest(g), !.pc = "send", !.item = g.elements[smallest(g)],
                   !.primed = TRUE]

(* After ins[min] was read: the first round reads all of them in turn. *)
Received(g) ==
    IF ~g.primed /\ g.min < Len(g.elements) THEN [g EXCEPT !.min = @ + 1]
    ELSE IF \A i \in DOMAIN g.open : ~g.open[i] THEN [g EXCEPT !.pc = "closed"]
    ELSE [g EXCEPT !.min = smallest(g), !.pc = "send", !.item = g.elements[smallest(g)],
                   !.primed = TRUE]

(* What a goroutine does once its element is taken. *)
Taken(p, g) ==
    IF Len(p) = 3 THEN flatten(LoadOf(p).load, g) ELSE [g EXCEPT !.pc = "receive"]

Child(p) == Append(p, gen[p].min)

Receive(p) ==
    /\ phase = "generate"
    /\ gen[p].pc = "receive"
    /\ LET q == Child(p)
           g == gen[p]
       IN  /\ gen[q].pc \in {"send", "closed"}
           /\ gen' = IF gen[q].pc = "send"
                     THEN [gen EXCEPT ![p] = Received([g EXCEPT !.elements[g.min] = gen[q].item]),
                                      ![q] = Taken(q, gen[q])]
                     ELSE [gen EXCEPT ![p] = Received([g EXCEPT !.open[g.min] = FALSE])]
    /\ UNCHANGED <<parsed, phase, at, heap, slocal, sent>>

(* The clients of a workload, in the order they were parsed. *)
ClientsOf(w) == SelectSeq(clients, LAMBDA x : x.w = w)

Goroutines ==
    {<<>>} \cup {<<w>> : w \in DOMAIN Workloads}
    \cup {<<x.w, x.c>> : x \in Range(clients)}
    \cup UNION {{<<x.w, x.c, b>> : b \in DOMAIN x.loads} : x \in Range(clients)}

Inputs(p) ==
    CASE Len(p) = 0 -> Len(Workloads)
      [] Len(p) = 1 -> Len(ClientsOf(p[1]))
      [] Len(p) = 2 -> Len(ClientsOf(p[1])[p[2]].loads)

(* generate: a goroutine that merges nothing indexes an empty array. *)
Generate ==
    /\ phase = "parse"
    /\ at.stage = "end" /\ at.w = Len(Workloads)
    /\ IF \E p \in Goroutines : Len(p) < 3 /\ Inputs(p) = 0
       THEN Stop("panic")
       ELSE /\ gen' = [p \in Goroutines |-> IF Len(p) = 3 THEN Flattening(p) ELSE Fusing(Inputs(p))]
            /\ phase' = "generate"
            /\ UNCHANGED <<parsed, at, heap, slocal, sent>>

---------------------------------------------------------------------------
(* instantiate *)

(* transferInteractionFactory, invokeInteractionFactory and the proxy for   *)
(* kinds only a builder knows, which the builders of the six chains refuse. *)
transferInstance(e, env, h) ==
    Then(GetIntOr(e, "stake", 1, env, h), LAMBDA s :
        Then(GetResource(Field(e, "from"), "account", env, s.heap), LAMBDA f :
            Then(GetResource(Field(e, "to"), "account", env, f.heap), LAMBDA t :
                Returns(<<f.val, t.val>>, t.heap))))

invokeInstance(e, env, h) ==
    Then(GetResource(Field(e, "from"), "account", env, h), LAMBDA f :
        Then(GetResource(Field(e, "contract"), "contract", env, f.heap), LAMBDA c :
            Then(GetString(Field(e, "function"), env, c.heap), LAMBDA s :
                Returns(<<f.val, c.val>>, s.heap))))

interactionInstance(e, env, h) ==
    CASE etype(e) = "transfer" -> transferInstance(e, env, h)
      [] etype(e) = "invoke"   -> invokeInstance(e, env, h)
      [] OTHER                 -> Errs(h)

(* The next interaction is instantiated in the scope kept for it, and sent  *)
(* by its client.  The builder or the connection may fail.                  *)
Instantiate ==
    /\ phase = "generate"
    /\ gen[<<>>].pc = "send"
    /\ LET item == gen[<<>>].item
           source == <<item.id[1], 0, item.id[3]>>
           within == specialize(slocal, source, item.current)
           env == [scopes |-> scopes, cur |-> current(within, source)]
           e == InteractionOf(item.id[1], item.id[3])
       IN  \E o \in interactionInstance(e, env, heap) :
              IF ~o.ok THEN Stop("error")
              ELSE /\ heap' = o.heap
                   /\ slocal' = specialize(within, source, 0)
                   /\ sent' = Append(sent, [t |-> item.t, id |-> item.id, k |-> item.k,
                                            using |-> get(scopes, env.cur, target(Field(e, "from")))])
                   /\ gen' = [gen EXCEPT ![<<>>] = Taken(<<>>, gen[<<>>])]
                   /\ UNCHANGED <<parsed, phase, at>>

SendFails == phase = "generate" /\ gen[<<>>].pc = "send" /\ Stop("error")

EndOfBenchmark ==
    /\ phase = "generate"
    /\ gen[<<>>].pc = "closed"
    /\ Stop("done")

---------------------------------------------------------------------------
Parse ==
    \/ NoLet \/ OpenScope \/ ParseNext \/ CloseScope
    \/ ParseNumber \/ CopyView \/ DrainView \/ CreateClient
    \/ ParseTimeload \/ EndOfClient \/ EndOfWorkload

Merge == \E p \in DOMAIN gen : Len(p) < 3 /\ Receive(p)

Consume == SendFails \/ Instantiate \/ EndOfBenchmark

Next == Parse \/ Generate \/ Merge \/ Consume

Spec == Init /\ [][Next]_vars

(* The goroutines that merge, and the one that sends, are scheduled. *)
FairSpec == Spec /\ WF_vars(Merge) /\ WF_vars(Consume)

---------------------------------------------------------------------------
(* Properties *)

(* The integral of a load's rate up to a time; an interaction is Unit^2. *)
Area(load, upto) ==
    LET ts == Times(load)
        sum[i \in 0 .. Len(ts)] ==
            IF i <= 1 THEN 0
            ELSE sum[i - 1] + load[ts[i - 1]] * Max({0, Min({upto, ts[i]}) - ts[i - 1]})
    IN  sum[Len(ts)]

Rank(id) == 100 * id[1] + 10 * id[2] + id[3]

Before(x, y) ==
    \/ x.t < y.t
    \/ x.t = y.t /\ Rank(x.id) < Rank(y.id)
    \/ x.t = y.t /\ x.id = y.id /\ x.k < y.k

(* Whatever the order in which the generating goroutines run, the primary   *)
(* sends the interactions in one order: by time, then by workload, client   *)
(* and behavior.  The k-th interaction of a load is at the first instant by *)
(* which its rate calls for k, also when that is in a later segment than    *)
(* the one that started it, and at the end none is missing (flatten and     *)
(* fuseGenerators).                                                         *)
ScheduleExact ==
    /\ \A i \in 2 .. Len(sent) : Before(sent[i - 1], sent[i])
    /\ \A i \in DOMAIN sent :
          LET load == LoadOf(sent[i].id).load IN
          /\ Area(load, sent[i].t) = sent[i].k * Unit * Unit
          /\ Area(load, sent[i].t - 1) < sent[i].k * Unit * Unit
    /\ phase = "done" =>
          \A x \in Range(clients) : \A b \in DOMAIN x.loads :
              Cardinality({i \in DOMAIN sent : sent[i].id = <<x.w, x.c, b>>})
                  = Area(x.loads[b].load, Max({0} \cup DOMAIN x.loads[b].load)) \div (Unit * Unit)

(* The place of the variable of a name in the let of an expression, or 0. *)
Declared(e, n) ==
    LET found == {i \in DOMAIN Slice(Field(e, "let")) : name(Slice(Field(e, "let"))[i]) = n}
    IN  IF found = {} THEN 0 ELSE Min(found)

(* Where the sender of a client's interaction is declared: in the let of    *)
(* the client, made anew for each client, of the workload, or of the file.  *)
Innermost(id, n) ==
    LET c == Declared(ClientOf(id[1]), n)
        w == Declared(Workload(id[1]), n)
    IN  CASE c # 0           -> <<id[1], 0, id[2], c>>
          [] c = 0 /\ w # 0 -> <<id[1], w>>
          [] OTHER           -> <<Declared(file, n)>>

Distinct(seq) == \A i, j \in DOMAIN seq : i # j => seq[i] # seq[j]

(* "A once iterator: the same event never happens twice", "A loop iterator: *)
(* all events happen before any event happens twice", and a copy "keeps the *)
(* events discarded if any" (core/variable.go), whoever draws.  A client's  *)
(* view lists once each endpoint its variable could still draw.  And every  *)
(* interaction draws from the variables of its own client, although the     *)
(* clients of a workload are parsed from the same expression.               *)
DrawnAsDeclared ==
    /\ \A v \in DOMAIN heap :
          LET x == heap[v]
              n == Cardinality(x.events) IN
          /\ x.events = x.left
          /\ Range(x.drawn) \subseteq x.events
          /\ x.distrib.rtype = "once" => Distinct(x.drawn)
          /\ x.distrib.rtype = "loop" =>
                \A i, j \in DOMAIN x.drawn :
                    (i # j /\ (i - 1) \div n = (j - 1) \div n) => x.drawn[i] # x.drawn[j]
    /\ \A x \in Range(clients) : \A v \in DOMAIN heap :
          heap[v].made = <<x.w, 0, x.c, 0>> =>
              /\ Len(x.view) = Cardinality(heap[v].left)
              /\ Range(x.view) = {heap[v].sample[i] : i \in heap[v].left}
    /\ \A i \in DOMAIN sent :
          LET e == InteractionOf(sent[i].id[1], sent[i].id[3])
          IN  heap[sent[i].using].made = Innermost(sent[i].id, target(Field(e, "from")))

(* A generation that starts ends: no goroutine is left waiting for another  *)
(* one that has nothing more to send (fuseGenerators closes its channel).   *)
GenerationEnds == phase = "generate" ~> phase \in {"done", "error"}

=============================================================================
