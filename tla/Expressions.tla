---------------------------- MODULE Expressions -----------------------------
(***************************************************************************)
(* The expressions of a benchmark file (core/benchmark.go): the tree the   *)
(* YAML decoder returns, as the four kinds of benchmarkYaml nodes and the  *)
(* errorExpression that stands for what is missing.  A method a node has   *)
(* not is an error of benchmarkYamlNode; an error expression answers every *)
(* question with itself, so that a chain of Field calls can be checked at  *)
(* its end.                                                                *)
(*                                                                         *)
(* A scalar has its text, and its number in sixtieths if it is one: the    *)
(* times and rates of a benchmark are then integers.  The text of a        *)
(* fraction stands for any one way to write it.                            *)
(***************************************************************************)
EXTENDS Integers, SequencesExt, TLC

Unit == 60

Node(kind) == [is |-> kind, tag |-> "", anchor |-> "", text |-> "", quoted |-> FALSE,
               number |-> "none", sixtieths |-> 0, fields |-> <<>>, items |-> <<>>]

---------------------------------------------------------------------------
(* Nodes, as the decoder makes them *)

Word(s)       == [Node("scalar") EXCEPT !.text = s]
Quoted(s)     == [Node("scalar") EXCEPT !.text = s, !.quoted = TRUE]
Whole(n)      == [Word(ToString(n)) EXCEPT !.number = "int", !.sixtieths = n * Unit]
Fraction(x)   == [Word(ToString(x) \o "/60") EXCEPT !.number = "float", !.sixtieths = x]
Alias(s)      == [Node("alias") EXCEPT !.text = s]
Mapping(fs)   == [Node("mapping") EXCEPT !.fields = fs]
Sequence(es)  == [Node("sequence") EXCEPT !.items = es]
Tagged(t, e)  == [e EXCEPT !.tag = t]
Named(a, e)   == [e EXCEPT !.anchor = a]
At(name, e)   == <<Word(name), e>>

errorExpression == Node("error")

(* parseBenchmarkYaml refuses a mapping with two fields of one text. *)
RECURSIVE parseBenchmarkYaml(_)
parseBenchmarkYaml(e) ==
    /\ \A i, j \in DOMAIN e.fields :
          i # j => e.fields[i][1].text # e.fields[j][1].text
    /\ \A i \in DOMAIN e.fields : parseBenchmarkYaml(e.fields[i][2])
    /\ \A i \in DOMAIN e.items : parseBenchmarkYaml(e.items[i])

---------------------------------------------------------------------------
(* The methods that look at the tree only *)

IsError(e) == e.is = "error"

(* benchmarkYamlMapping.Field and TryField: nothing but a mapping has       *)
(* fields.                                                                  *)
Field(e, name) ==
    LET found == {i \in DOMAIN e.fields : e.fields[i][1].text = name}
    IN  IF e.is = "mapping" /\ found # {} THEN e.fields[CHOOSE i \in found : TRUE][2]
        ELSE errorExpression

Has(e, name) == ~IsError(Field(e, name))

(* benchmarkYamlSequence.Slice, or a single error. *)
Slice(e) == IF e.is = "sequence" THEN e.items ELSE <<errorExpression>>

(* benchmarkYamlMapping.Map: the fields as pairs of a key and a value. *)
Map(e) == IF e.is = "mapping" THEN e.fields ELSE <<<<errorExpression, errorExpression>>>>

etype(e) == IF IsError(e) THEN "" ELSE e.tag

name(e) == IF IsError(e) THEN "" ELSE e.anchor

target(e) == IF e.is = "alias" THEN e.text ELSE ""

(* benchmarkYamlScalar.GetInt, GetFloat and GetString: <<>> is an error. *)
ScalarInt(e) ==
    IF e.is = "scalar" /\ ~e.quoted /\ e.number = "int" THEN <<e.sixtieths \div Unit>> ELSE <<>>

ScalarFloat(e) ==
    IF e.is = "scalar" /\ ~e.quoted /\ e.number # "none" THEN <<e.sixtieths>> ELSE <<>>

ScalarString(e) == IF e.is = "scalar" /\ e.quoted THEN <<e.text>> ELSE <<>>

=============================================================================
