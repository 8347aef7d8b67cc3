----------------------------- MODULE Variables ------------------------------
(***************************************************************************)
(* Random variables, their samples and scopes (core/variable.go,           *)
(* core/builtin.go, core/scope.go, core/system.go, and the sample          *)
(* factories of core/blockchain.go, core/location.go and core/setup.go).   *)
(*                                                                         *)
(* What a draw returns depends on the seed: it is any of the possible      *)
(* events.  An operation that may draw maps the variables to the set of    *)
(* its outcomes [ok, val, heap]; the outcome of an error is not ok, and an *)
(* error ends the benchmark.  The events of a sample are numbered from 1.  *)
(*                                                                         *)
(* The fields made, events, left and drawn of a variable are history:      *)
(* where it was declared, what it could draw at first, what it had to be   *)
(* able to draw, and what it has drawn.                                    *)
(***************************************************************************)
EXTENDS Expressions, FiniteSets

CONSTANTS
    Setup,        \* groups of endpoints [addresses, tags], as in the setup file
    Locations,    \* the secondaries [id, tags]
    Matching      \* external, regexp: pairs of a pattern and a tag it matches

---------------------------------------------------------------------------
(* uniformDistribution *)

newUniformDistribution(n, rtype) ==
    [rtype |-> rtype, size |-> n, listed |-> rtype # "regular",
     values |-> IF rtype = "regular" THEN <<>> ELSE [i \in 1 .. n |-> i]]

(* The event at a random index, 1 + rand.Int() % size. *)
Selected(d, index) == IF d.listed THEN d.values[index] ELSE index

(* A faulty Select: the drawn event is not swapped out. *)
SelectInPlace(d, index) ==
    IF d.rtype = "regular" THEN d
    ELSE IF d.size > 1 THEN [d EXCEPT !.size = @ - 1]
    ELSE IF d.rtype = "once" THEN [d EXCEPT !.size = 0, !.values = <<>>, !.listed = FALSE]
    ELSE [d EXCEPT !.size = Len(@)]

(* The drawn event is swapped with the last one, which is discarded; when   *)
(* none is left a loop starts again.                                        *)
Select(d, index) ==
    LET swapped == [d.values EXCEPT ![index] = d.values[d.size], ![d.size] = d.values[index]]
    IN  IF d.rtype = "regular" THEN d
        ELSE IF d.size > 1 THEN [d EXCEPT !.values = swapped, !.size = @ - 1]
        ELSE IF d.rtype = "once" THEN [d EXCEPT !.size = 0, !.values = <<>>, !.listed = FALSE]
        ELSE [d EXCEPT !.values = swapped, !.size = Len(swapped)]

Copy(d, rtype) ==
    LET plain == rtype = "regular" /\ ~d.listed
    IN  [rtype |-> rtype, size |-> d.size, listed |-> ~plain,
         values |-> IF plain THEN <<>>
                    ELSE IF d.listed THEN SubSeq(d.values, 1, d.size)
                    ELSE [i \in 1 .. d.size |-> i]]

Possible(d) == {Selected(d, index) : index \in 1 .. d.size}

newVariable(domain, sample, d, made) ==
    [domain |-> domain, sample |-> sample, distrib |-> d, made |-> made,
     events |-> Possible(d), left |-> DOMAIN sample, drawn |-> <<>>]

(* History: what a variable has not drawn, in this round if it loops. *)
Remaining(v) ==
    LET n == Cardinality(v.events)
        round == IF n = 0 THEN 0 ELSE Len(v.drawn) % n
    IN  CASE v.distrib.rtype = "regular" -> v.events
          [] v.distrib.rtype = "once" -> v.events \ {v.drawn[i] : i \in DOMAIN v.drawn}
          [] v.distrib.rtype = "loop" ->
                v.events \ {v.drawn[i] : i \in Len(v.drawn) - round + 1 .. Len(v.drawn)}

copyVariable(v, rtype, made) ==
    [newVariable(v.domain, v.sample, Copy(v.distrib, rtype), made) EXCEPT !.left = Remaining(v)]

---------------------------------------------------------------------------
(* Outcomes *)

Returns(val, heap) == {[ok |-> TRUE, val |-> val, heap |-> heap]}

Errs(heap) == {[ok |-> FALSE, val |-> 0, heap |-> heap]}

Then(outcomes, next(_)) == UNION {IF o.ok THEN next(o) ELSE {o} : o \in outcomes}

(* VariableImpl.Get on the variable of a number: nil is an error of every   *)
(* caller but parseView.                                                    *)
Get(heap, v) ==
    LET d == heap[v].distrib
    IN  IF d.size = 0 THEN Errs(heap)
        ELSE {[ok |-> TRUE,
               val |-> heap[v].sample[Selected(d, index)],
               heap |-> [heap EXCEPT ![v].distrib = Select(d, index),
                                     ![v].drawn = Append(@, Selected(d, index))]] :
                 index \in 1 .. d.size}

---------------------------------------------------------------------------
(* Scopes: scope s has a parent, 0 if none, and the variables of its names. *)

newScope(parent) == [parent |-> parent, entries |-> <<>>]

add(s, n, v) == [s EXCEPT !.entries = (n :> v) @@ @]

(* basicScope.get: the variable's number, or 0. *)
get(scopes, s, n) ==
    LET lookup[k \in 0 .. Len(scopes)] ==
            IF k = 0 THEN 0
            ELSE IF n \in DOMAIN scopes[k].entries THEN scopes[k].entries[n]
            ELSE lookup[scopes[k].parent]
    IN  lookup[s]

---------------------------------------------------------------------------
(* benchmarkYamlAlias: the variable of the name, if its domain is one of    *)
(* those asked for; env is [scopes, cur], cur the current scope.            *)

Resource(e, domains, env, heap) ==
    LET v == get(env.scopes, env.cur, target(e))
    IN  IF e.is = "alias" /\ v # 0 /\ heap[v].domain \in domains
        THEN Returns(v, heap) ELSE Errs(heap)

GetResource(e, domain, env, heap) ==
    Then(Resource(e, {domain}, env, heap), LAMBDA o : Get(o.heap, o.val))

(* A scalar's value, or a draw of an alias. *)
Immediate(value, otherwise, heap) == IF value # <<>> THEN Returns(value[1], heap) ELSE otherwise

GetInt(e, env, heap) ==
    Immediate(ScalarInt(e), GetResource(e, "integer", env, heap), heap)

(* newFloatVariable: an integer is converted. *)
GetFloat(e, env, heap) ==
    Immediate(ScalarFloat(e),
              Then(Resource(e, {"float", "integer"}, env, heap), LAMBDA o :
                  LET scale == IF heap[o.val].domain = "integer" THEN Unit ELSE 1
                  IN  {[x EXCEPT !.val = @ * scale] : x \in Get(heap, o.val)}),
              heap)

GetString(e, env, heap) ==
    Immediate(ScalarString(e), GetResource(e, "string", env, heap), heap)

(* A field with a default. *)
GetIntOr(e, n, default, env, heap) ==
    IF Has(e, n) THEN GetInt(Field(e, n), env, heap) ELSE Returns(default, heap)

---------------------------------------------------------------------------
(* Samples *)

newIntSample(from, to) == [i \in 1 .. (IF to < from THEN 0 ELSE to - from + 1) |-> from + i - 1]

(* Floats are in sixtieths; int(x * multiplier) truncates towards zero. *)
newFloatSample(from, to, multiplier) ==
    LET whole(x) == IF x < 0 THEN -((-x * multiplier) \div Unit)
                    ELSE (x * multiplier) \div Unit
    IN  [i \in 1 .. (IF to < from THEN 0 ELSE whole(to) - whole(from)) |->
            ((whole(from) + i - 1) * Unit) \div multiplier]

(* The powers of ten tried as multipliers; bound: tenths. *)
Multiplier(from, to) ==
    IF (from % Unit = 0) /\ (to % Unit = 0) THEN 1 ELSE 10

intSampleInstance(e, env, heap) ==
    Then(GetInt(Field(e, "from"), env, heap), LAMBDA f :
        Then(GetInt(Field(e, "to"), env, f.heap), LAMBDA t :
            Returns(newIntSample(f.val, t.val), t.heap)))

floatSampleInstance(e, env, heap) ==
    Then(GetFloat(Field(e, "from"), env, heap), LAMBDA f :
        Then(GetFloat(Field(e, "to"), env, f.heap), LAMBDA t :
            IF Has(e, "precision")
            THEN Then(GetFloat(Field(e, "precision"), env, t.heap), LAMBDA p :
                     Returns(newFloatSample(f.val, t.val, Unit \div p.val), p.heap))
            ELSE Returns(newFloatSample(f.val, t.val, Multiplier(f.val, t.val)), t.heap)))

(* The elements that every filter matches by one of their tags. *)
newFilteredElementSample(filters, elements) ==
    SelectSeq(elements, LAMBDA x :
        \A i \in DOMAIN filters : \E tag \in x.tags : <<filters[i], tag>> \in Matching)

parseFilteredElementSample(e, elements, env, heap) ==
    IF \E i \in DOMAIN Slice(e) : ScalarString(Slice(e)[i]) = <<>> THEN Errs(heap)
    ELSE LET filters == [i \in DOMAIN Slice(e) |-> Slice(e)[i].text]
             kept == newFilteredElementSample(filters, elements)
         IN  Returns([i \in DOMAIN kept |-> kept[i].id], heap)

(* buildParsedSetup: one endpoint per address of each group. *)
buildParsedSetup ==
    FlattenSeq([g \in DOMAIN Setup |->
        [i \in DOMAIN Setup[g].addresses |->
            [id |-> Setup[g].addresses[i], tags |-> Setup[g].tags]]])

(* accountFactory and contractFactory: number elements, each with a value   *)
(* of the variable stake or name, made by the builder, here named by the    *)
(* place of the sample and their order.  The builder may fail to make one;  *)
(* a negative number is a panic, and as such ends the benchmark too.        *)
Created(kind, made, number, heap) ==
    Returns([i \in 1 .. number |-> <<kind, made, i>>], heap)
        \cup (IF number = 0 THEN {} ELSE Errs(heap))

RECURSIVE Repeat(_, _, _)
Repeat(number, draw(_), heap) ==
    IF number < 0 THEN Errs(heap)
    ELSE IF number = 0 THEN Returns(0, heap)
    ELSE Then(draw(heap), LAMBDA o : Repeat(number - 1, draw, o.heap))

accountFactoryInstance(e, made, env, heap) ==
    Then(GetIntOr(e, "number", 1, env, heap), LAMBDA n :
        Then(Repeat(n.val, LAMBDA h : GetInt(Field(e, "stake"), env, h), n.heap), LAMBDA o :
            Created("account", made, n.val, o.heap)))

contractFactoryInstance(e, made, env, heap) ==
    Then(GetIntOr(e, "number", 1, env, heap), LAMBDA n :
        Then(Repeat(n.val, LAMBDA h : GetString(Field(e, "name"), env, h), n.heap), LAMBDA o :
            Created("contract", made, n.val, o.heap)))

(* newSystem and sampleFactory; an unknown domain is the builder's to       *)
(* refuse.                                                                  *)
sampleFactory(domain, e, made, env, heap) ==
    CASE domain = "account"  -> accountFactoryInstance(e, made, env, heap)
      [] domain = "contract" -> contractFactoryInstance(e, made, env, heap)
      [] domain = "endpoint" -> parseFilteredElementSample(e, buildParsedSetup, env, heap)
      [] domain = "float"    -> floatSampleInstance(e, env, heap)
      [] domain = "integer"  -> intSampleInstance(e, env, heap)
      [] domain = "location" -> parseFilteredElementSample(e, Locations, env, heap)
      [] OTHER -> Errs(heap)

(* randomFactory: only "uniform" has an instance, and it is the default. *)
randomFactory(e) == ~Has(e, "random") \/ etype(Field(e, "random")) = "uniform"

---------------------------------------------------------------------------
(* parseVariable: the outcome's value is the new variable's name; the       *)
(* variable is appended to the heap.                                        *)

parseType(tag) ==
    CASE tag \in {"", "rvar"} -> "regular"
      [] tag = "iter" -> "once"
      [] tag = "loop" -> "loop"
      [] OTHER -> "unknown"

parseSeed(e, env, heap) ==
    IF Has(e, "seed") THEN GetInt(Field(e, "seed"), env, heap) ELSE Returns(0, heap)

parseSampleVariable(e, rtype, made, env, heap) ==
    LET field == Field(e, "sample") IN
    Then(sampleFactory(etype(field), field, made, env, heap), LAMBDA o :
        IF ~randomFactory(e) THEN Errs(o.heap)
        ELSE LET d == newUniformDistribution(Len(o.val), rtype)
             IN  Returns(name(e), Append(o.heap, newVariable(etype(field), o.val, d, made))))

(* A copy of something that is not an alias is no error: it declares the    *)
(* empty name.                                                              *)
parseCopyVariable(e, rtype, made, env, heap) ==
    LET field == Field(e, "copy")
        v == get(env.scopes, env.cur, target(field))
    IN  IF field.is # "alias" THEN Returns("", heap)
        ELSE IF v = 0 THEN Errs(heap)
        ELSE Returns(name(e), Append(heap, copyVariable(heap[v], rtype, made)))

parseVariable(e, made, env, heap) ==
    LET rtype == parseType(etype(e)) IN
    IF name(e) = "" \/ rtype = "unknown" THEN Errs(heap)
    ELSE Then(parseSeed(e, env, heap), LAMBDA o :
             CASE Has(e, "sample") -> parseSampleVariable(e, rtype, made, env, o.heap)
               [] ~Has(e, "sample") /\ Has(e, "copy") -> parseCopyVariable(e, rtype, made, env, o.heap)
               [] OTHER -> Errs(o.heap))

=============================================================================
