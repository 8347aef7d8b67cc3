------------------------------- MODULE Codec -------------------------------
(***************************************************************************)
(* The byte formats: the messages of the primary and the secondaries       *)
(* (core/encoding.go) and the payloads the six blockchain builders put in  *)
(* them (blockchains/n*/transaction.go), over the readers and writers of   *)
(* util/io.go.                                                             *)
(*                                                                         *)
(* A wire is a sequence of cells, one per write: its width in bytes and    *)
(* what was written.  An integer is truncated to its width when it is      *)
(* written, as the conversions uint8(...) and uint16(...) do.  A byte      *)
(* string is a record [n |-> its length, id |-> which one it is]: the      *)
(* formats look at lengths only.  Writers and readers are translated       *)
(* separately, each from its own function, so that what one writes and the *)
(* other expects may differ in order, in width and in limits.              *)
(***************************************************************************)
EXTENDS Integers, SequencesExt, TLC

---------------------------------------------------------------------------
(* Writing *)

Uint(w, x) == [w |-> w, int |-> TRUE, content |-> IF w < 4 THEN x % (256 ^ w) ELSE x]

Bytes(b) == [w |-> b.n, int |-> FALSE, content |-> b]

(* What an encode function returns: an error unless its checks pass. *)
Within(checks, cells) == [ok |-> checks, wire |-> IF checks THEN cells ELSE <<>>]

(* A list is written element by element.  An element is a tuple of strings: *)
(* the lengths of its parts in w bytes each, then the parts.               *)
Each(w, list) ==
    IF list = <<>> THEN <<>>
    ELSE LET p == Len(list[1])
             cell(e, j) == IF j < p THEN Uint(w, e[j + 1].n) ELSE Bytes(e[j - p + 1])
         IN  [k \in 1 .. 2 * p * Len(list) |->
                 cell(list[1 + (k - 1) \div (2 * p)], (k - 1) % (2 * p))]

AllWithin(max, list) == \A i \in DOMAIN list : \A j \in DOMAIN list[i] : list[i][j].n <= max

---------------------------------------------------------------------------
(* Reading: r.rest is what is left of the wire, r.got the variables read so *)
(* far, and r.err is sticky: after an error the remaining reads do nothing. *)

Reader(wire) == [err |-> FALSE, rest |-> wire, got |-> <<>>]

Fails(r) == [r EXCEPT !.err = TRUE]

Stores(r, name, value) == [r EXCEPT !.rest = Tail(@), !.got = (name :> value) @@ @]

(* A read of n bytes gets what one write wrote if their widths agree.  The  *)
(* end of the wire is an error, and so is a read across two cells: the      *)
(* bytes it would return were not written as one value.                     *)
Available(r, n, int) ==
    /\ ~r.err
    /\ r.rest # <<>>
    /\ Head(r.rest).w = n
    /\ Head(r.rest).int = int

ReadUint(r, w, name) ==
    IF Available(r, w, TRUE) THEN Stores(r, name, Head(r.rest).content) ELSE Fails(r)

ReadBytes(r, n, name) ==
    IF Available(r, n, FALSE) THEN Stores(r, name, Head(r.rest).content) ELSE Fails(r)

(* A read whose length was read before. *)
ReadSized(r, length, name) == IF r.err THEN r ELSE ReadBytes(r, r.got[length], name)

(* One element of a list, of one or of two parts. *)
ReadElement(r, w, parts) ==
    IF parts = 1
    THEN ReadSized(ReadUint(r, w, "n1"), "n1", "part1")
    ELSE ReadSized(ReadSized(ReadUint(ReadUint(r, w, "n1"), w, "n2"), "n1", "part1"), "n2", "part2")

Element(r, parts) ==
    IF parts = 1 THEN <<r.got["part1"]>> ELSE <<r.got["part1"], r.got["part2"]>>

(* The loop over the elements of a list: the reader of the i-th one, whose  *)
(* cells follow those of the elements before it, and what is left after.    *)
Nth(r, i, w, parts) ==
    LET upto(k) == Min({k * 2 * parts, Len(r.rest)})
    IN  ReadElement(Reader(SubSeq(r.rest, upto(i - 1) + 1, upto(i))), w, parts)

After(r, count, parts) ==
    SubSeq(r.rest, Min({count * 2 * parts, Len(r.rest)}) + 1, Len(r.rest))

(* A loop that returns on the first error. *)
ReadEach(r, count, w, parts, name) ==
    IF \E i \in 1 .. count : Nth(r, i, w, parts).err THEN Fails(r)
    ELSE [r EXCEPT !.rest = After(r, count, parts),
                   !.got = (name :> [i \in 1 .. count |-> Element(Nth(r, i, w, parts), parts)]) @@ @]

(* A loop that drops the reader its reads return: an error in it is         *)
(* forgotten.  It leaves the element nil when its length was not read, and  *)
(* otherwise of that length, with the zeros ReadBytes allocates.            *)
ReadEachUnchecked(r, count, w, name) ==
    LET element(e) ==
            IF ~e.err THEN Element(e, 1)
            ELSE IF "n1" \in DOMAIN e.got THEN <<[n |-> e.got["n1"], id |-> "zeros"]>>
            ELSE <<[n |-> 0, id |-> "nil"]>>
    IN  [r EXCEPT !.rest = After(r, count, 1),
                  !.got = (name :> [i \in 1 .. count |-> element(Nth(r, i, w, 1))]) @@ @]

(* A chain of reads: <<"uint", w, name>>, <<"bytes", length, name>> with a  *)
(* fixed length, <<"sized", name of the length, name>>,                     *)
(* <<"each", name of the count, w, parts, name>> and                        *)
(* <<"loose", name of the count, w, name>>.                                 *)
Step(r, s) ==
    IF r.err THEN r
    ELSE CASE s[1] = "uint"  -> ReadUint(r, s[2], s[3])
           [] s[1] = "bytes" -> ReadBytes(r, s[2], s[3])
           [] s[1] = "sized" -> ReadSized(r, s[2], s[3])
           [] s[1] = "each"  -> ReadEach(r, r.got[s[2]], s[3], s[4], s[5])
           [] s[1] = "loose" -> ReadEachUnchecked(r, r.got[s[2]], s[3], s[4])

Read(wire, steps) == FoldLeft(Step, Reader(wire), steps)

(* A message starts with the byte that says which reader takes the rest. *)
Dispatch(t, types, reader(_, _)) ==
    IF t.err \/ t.got["type"] \notin types THEN Fails(Reader(<<>>))
    ELSE reader(t.got["type"], t.rest)

Typed(wire, types, reader(_, _)) == Dispatch(ReadUint(Reader(wire), 1, "type"), types, reader)

---------------------------------------------------------------------------
(* core/encoding.go *)

PrimaryParametersEncode(m) ==
    Within(m.sysname.n <= 255 /\ Len(m.params) <= 255 /\ AllWithin(255, m.params),
           <<Uint(1, m.sysname.n), Bytes(m.sysname), Uint(1, Len(m.params))>>
               \o Each(1, m.params) \o <<Uint(8, m.maxDelay), Uint(8, m.maxSkew)>>)

PrimaryParametersDecode(wire) ==
    Read(wire, <<<<"uint", 1, "n">>, <<"sized", "n", "sysname">>, <<"uint", 1, "n">>,
                 <<"each", "n", 1, 2, "params">>,
                 <<"uint", 8, "maxDelay">>, <<"uint", 8, "maxSkew">>>>)

SecondaryParametersEncode(m) ==
    Within(Len(m.tags) <= 255 /\ AllWithin(255, m.tags),
           <<Uint(1, Len(m.tags))>> \o Each(1, m.tags))

SecondaryParametersDecode(wire) ==
    Read(wire, <<<<"uint", 1, "n">>, <<"each", "n", 1, 1, "tags">>>>)

PrepareDoneEncode == Within(TRUE, <<Uint(1, 0)>>)

PrepareClientEncode(m) ==
    Within(Len(m.view) <= 65535 /\ AllWithin(255, m.view),
           <<Uint(1, 1), Uint(2, Len(m.view))>> \o Each(1, m.view) \o <<Uint(4, m.index)>>)

PrepareClientDecode(wire) ==
    Read(wire, <<<<"uint", 2, "n">>, <<"each", "n", 1, 1, "view">>, <<"uint", 4, "index">>>>)

(* A faulty encode of a prepared interaction: no limit on the payload. *)
PrepareInteractionEncodeUnchecked(m) ==
    Within(m.ikind <= 255,
           <<Uint(1, 2), Uint(4, m.index), Uint(1, m.ikind), Uint(8, m.time),
             Uint(2, m.payload.n), Bytes(m.payload)>>)

PrepareInteractionEncode(m) ==
    Within(m.ikind <= 255 /\ m.payload.n <= 65535,
           <<Uint(1, 2), Uint(4, m.index), Uint(1, m.ikind), Uint(8, m.time),
             Uint(2, m.payload.n), Bytes(m.payload)>>)

(* this.index = int(uint8(index)): only the low byte of the index is kept. *)
PrepareInteractionDecode(wire) ==
    LET r == Read(wire, <<<<"uint", 4, "index">>, <<"uint", 1, "ikind">>, <<"uint", 8, "time">>,
                          <<"uint", 2, "lpayload">>, <<"sized", "lpayload", "payload">>>>)
    IN  IF r.err THEN r ELSE [r EXCEPT !.got = ("index" :> r.got["index"] % 256) @@ @]

decodeMsgPrepare(wire) ==
    Typed(wire, {0, 1, 2}, LAMBDA type, rest :
        CASE type = 0 -> Reader(rest)
          [] type = 1 -> PrepareClientDecode(rest)
          [] type = 2 -> PrepareInteractionDecode(rest))

StartEncode(m) == Within(TRUE, <<Uint(8, m.duration)>>)

StartDecode(wire) == Read(wire, <<<<"uint", 8, "duration">>>>)

ResultDoneEncode == Within(TRUE, <<Uint(1, 0)>>)

ResultInteractionEncode(m) ==
    Within(m.ikind <= 255,
           <<Uint(1, 1), Uint(4, m.index), Uint(1, m.ikind), Uint(8, m.submitTime),
             Uint(8, m.commitTime), Uint(8, m.abortTime), Uint(1, IF m.hasError THEN 1 ELSE 0)>>)

ResultInteractionDecode(wire) ==
    LET r == Read(wire, <<<<"uint", 4, "index">>, <<"uint", 1, "ikind">>,
                          <<"uint", 8, "submitTime">>, <<"uint", 8, "commitTime">>,
                          <<"uint", 8, "abortTime">>, <<"uint", 1, "error">>>>)
    IN  IF r.err THEN r ELSE [r EXCEPT !.got = ("hasError" :> (r.got["error"] = 1)) @@ @]

decodeMsgResult(wire) ==
    Typed(wire, {0, 1}, LAMBDA type, rest :
        IF type = 0 THEN Reader(rest) ELSE ResultInteractionDecode(rest))

---------------------------------------------------------------------------
(* blockchains/nethereum/transaction.go *)

EthereumTransferEncode(m) ==
    Within(m.from.n <= 255,
           <<Uint(1, 0), Uint(1, m.from.n), Uint(8, m.nonce), Uint(8, m.amount),
             Bytes(m.from), Bytes(m.to)>>)

EthereumTransferDecode(wire) ==
    Read(wire, <<<<"uint", 1, "lenkey">>, <<"uint", 8, "nonce">>, <<"uint", 8, "amount">>,
                 <<"sized", "lenkey", "from">>, <<"bytes", 20, "to">>>>)

EthereumInvokeEncode(m) ==
    Within(m.from.n <= 255 /\ m.payload.n <= 65535,
           <<Uint(1, 1), Uint(1, m.from.n), Uint(2, m.payload.n), Uint(8, m.nonce),
             Bytes(m.from), Bytes(m.appid), Bytes(m.payload)>>)

EthereumInvokeDecode(wire) ==
    Read(wire, <<<<"uint", 1, "lenfrom">>, <<"uint", 2, "lenpayload">>, <<"uint", 8, "nonce">>,
                 <<"sized", "lenfrom", "from">>, <<"bytes", 20, "appid">>,
                 <<"sized", "lenpayload", "payload">>>>)

EthereumDecode(wire) ==
    Typed(wire, {0, 1}, LAMBDA type, rest :
        IF type = 0 THEN EthereumTransferDecode(rest) ELSE EthereumInvokeDecode(rest))

(* blockchains/navalanche/transaction.go *)

AvalancheTransferEncode(m) ==
    Within(m.from.n <= 255,
           <<Uint(1, 0), Uint(1, m.from.n), Uint(8, m.nonce), Uint(8, m.amount),
             Bytes(m.from), Bytes(m.to)>>)

AvalancheTransferDecode(wire) ==
    Read(wire, <<<<"uint", 1, "lenkey">>, <<"uint", 8, "nonce">>, <<"uint", 8, "amount">>,
                 <<"sized", "lenkey", "from">>, <<"bytes", 20, "to">>>>)

AvalancheInvokeEncode(m) ==
    Within(m.from.n <= 255 /\ m.payload.n <= 65535,
           <<Uint(1, 1), Uint(1, m.from.n), Uint(2, m.payload.n), Uint(8, m.nonce),
             Bytes(m.from), Bytes(m.appid), Bytes(m.payload)>>)

AvalancheInvokeDecode(wire) ==
    Read(wire, <<<<"uint", 1, "lenfrom">>, <<"uint", 2, "lenpayload">>, <<"uint", 8, "nonce">>,
                 <<"sized", "lenfrom", "from">>, <<"bytes", 20, "appid">>,
                 <<"sized", "lenpayload", "payload">>>>)

AvalancheDecode(wire) ==
    Typed(wire, {0, 1}, LAMBDA type, rest :
        IF type = 0 THEN AvalancheTransferDecode(rest) ELSE AvalancheInvokeDecode(rest))

(* blockchains/nalgorand/transaction.go: encode of an invocation checks its *)
(* arguments and not the length of its sender's address.                    *)

AlgorandTransferEncode(m) ==
    Within(m.from.n <= 255 /\ m.to.n <= 255,
           <<Uint(1, 0), Uint(1, m.from.n), Uint(1, m.to.n), Uint(8, m.uid), Uint(8, m.amount),
             Bytes(m.from), Bytes(m.to), Bytes(m.seed)>>)

AlgorandTransferDecode(wire) ==
    Read(wire, <<<<"uint", 1, "lenfrom">>, <<"uint", 1, "lento">>, <<"uint", 8, "uid">>,
                 <<"uint", 8, "amount">>, <<"sized", "lenfrom", "from">>,
                 <<"sized", "lento", "to">>, <<"bytes", 32, "seed">>>>)

AlgorandInvokeEncode(m) ==
    Within(Len(m.args) <= 255 /\ AllWithin(255, m.args),
           <<Uint(1, 1), Uint(1, m.from.n), Uint(1, Len(m.args)), Uint(8, m.uid),
             Uint(8, m.appid), Bytes(m.from), Bytes(m.seed)>> \o Each(1, m.args))

AlgorandInvokeDecode(wire) ==
    Read(wire, <<<<"uint", 1, "lenfrom">>, <<"uint", 1, "lenargs">>, <<"uint", 8, "uid">>,
                 <<"uint", 8, "appid">>, <<"sized", "lenfrom", "from">>, <<"bytes", 32, "seed">>,
                 <<"loose", "lenargs", 1, "args">>>>)

AlgorandDecode(wire) ==
    Typed(wire, {0, 1}, LAMBDA type, rest :
        IF type = 0 THEN AlgorandTransferDecode(rest) ELSE AlgorandInvokeDecode(rest))

(* blockchains/nsolana/transaction.go *)

SolanaTransferEncode(m) ==
    Within(m.from.n <= 255,
           <<Uint(1, 0), Uint(1, m.from.n), Uint(8, m.amount), Bytes(m.from), Bytes(m.to)>>)

SolanaTransferDecode(wire) ==
    Read(wire, <<<<"uint", 1, "lenkey">>, <<"uint", 8, "amount">>, <<"sized", "lenkey", "from">>,
                 <<"bytes", 32, "to">>>>)

SolanaInvokeEncode(m) ==
    Within(m.from.n <= 255 /\ m.payload.n <= 65535,
           <<Uint(1, 1), Uint(1, m.from.n), Uint(2, m.payload.n), Uint(8, m.amount),
             Bytes(m.from), Bytes(m.program), Bytes(m.storage), Bytes(m.payload)>>)

SolanaInvokeDecode(wire) ==
    Read(wire, <<<<"uint", 1, "lenfrom">>, <<"uint", 2, "lenpayload">>, <<"uint", 8, "amount">>,
                 <<"sized", "lenfrom", "from">>, <<"bytes", 32, "program">>,
                 <<"bytes", 32, "storage">>, <<"sized", "lenpayload", "payload">>>>)

SolanaDecode(wire) ==
    Typed(wire, {0, 1}, LAMBDA type, rest :
        IF type = 0 THEN SolanaTransferDecode(rest) ELSE SolanaInvokeDecode(rest))

(* blockchains/ndiem/transaction.go: an argument of an invocation is        *)
(* deserialised after the loop, and none is an empty string.                *)

DiemTransferEncode(m) ==
    Within(m.to.n <= 255,
           <<Uint(1, 0), Uint(1, m.to.n), Bytes(m.seed), Bytes(m.to), Uint(8, m.amount),
             Uint(8, m.sequence)>>)

DiemTransferDecode(wire) ==
    Read(wire, <<<<"uint", 1, "toLen">>, <<"bytes", 32, "seed">>, <<"sized", "toLen", "to">>,
                 <<"uint", 8, "amount">>, <<"uint", 8, "sequence">>>>)

DiemInvokeEncode(m) ==
    Within(m.code.n <= 65535 /\ Len(m.args) <= 255 /\ AllWithin(65535, m.args),
           <<Uint(1, 1), Bytes(m.seed), Uint(8, m.sequence), Uint(2, m.code.n), Bytes(m.code),
             Uint(1, Len(m.args))>> \o Each(2, m.args))

Deserialised(r) ==
    IF ~r.err /\ \E i \in DOMAIN r.got["args"] : r.got["args"][i][1].n = 0 THEN Fails(r) ELSE r

DiemInvokeDecode(wire) ==
    Deserialised(Read(wire, <<<<"bytes", 32, "seed">>, <<"uint", 8, "sequence">>,
                              <<"uint", 2, "n">>, <<"sized", "n", "code">>, <<"uint", 1, "n">>,
                              <<"loose", "n", 2, "args">>>>))

DiemDecode(wire) ==
    Typed(wire, {0, 1}, LAMBDA type, rest :
        IF type = 0 THEN DiemTransferDecode(rest) ELSE DiemInvokeDecode(rest))

(* blockchains/naptos/transaction.go *)

AptosTransferEncode(m) ==
    Within(TRUE, <<Uint(1, 0), Bytes(m.seed), Bytes(m.to), Uint(8, m.amount),
                   Uint(8, m.sequence)>>)

AptosTransferDecode(wire) ==
    Read(wire, <<<<"bytes", 32, "seed">>, <<"bytes", 32, "to">>, <<"uint", 8, "amount">>,
                 <<"uint", 8, "sequence">>>>)

AptosInvokeEncode(m) ==
    Within(m.code.n <= 65535 /\ Len(m.args) <= 255 /\ AllWithin(65535, m.args),
           <<Uint(1, 1), Bytes(m.seed), Uint(8, m.sequence), Uint(2, m.code.n), Bytes(m.code),
             Uint(1, Len(m.args))>> \o Each(2, m.args))

AptosInvokeDecode(wire) ==
    Deserialised(Read(wire, <<<<"bytes", 32, "seed">>, <<"uint", 8, "sequence">>,
                              <<"uint", 2, "n">>, <<"sized", "n", "code">>, <<"uint", 1, "n">>,
                              <<"loose", "n", 2, "args">>>>))

AptosDecode(wire) ==
    Typed(wire, {0, 1}, LAMBDA type, rest :
        IF type = 0 THEN AptosTransferDecode(rest) ELSE AptosInvokeDecode(rest))

=============================================================================
