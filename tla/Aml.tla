------------------------------- MODULE Aml ----------------------------------
(***************************************************************************)
(* The AML parser of the acpi-aml crate, as the boot core runs it over the *)
(* definition block of the DSDT (format_aml_stream), and its decoder of    *)
(* resource descriptors.                                                   *)
(*                                                                         *)
(* A parser is a slice of the table and a cursor in it.  A slice is kept   *)
(* here as two positions of the table, so that a parser of a nested block  *)
(* can be compared with its parent's.  A reader takes the cursor and the   *)
(* end of its slice and returns the cursor it leaves, or Err: the position *)
(* of a parser that failed is never used again.                            *)
(*                                                                         *)
(* Of a term, the model keeps its kind, its nesting, where it begins and   *)
(* how many bytes its body has; of a value, only its extent.  Numbers of   *)
(* resource descriptors stay the little-endian bytes they are.             *)
(***************************************************************************)
EXTENDS Integers, Sequences, SequencesExt

CONSTANTS Documents,    \* declarations, encoded as the AML grammar does
          Junk,         \* byte strings that are the encoding of nothing
          Descriptors,  \* lists of resource descriptors
          CutUpTo       \* documents of up to so many bytes are also cut short

VARIABLES source,       \* what was encoded: a document, a list of descriptors, or nothing (junk)
          bytes,        \* the table, possibly cut short
          streams,      \* the parsers of format_aml_stream's calls, outermost first
          terms,        \* the terms formatted
          rest,         \* CrsIter: what is left of the buffer begins here
          resources,    \* the resources decoded
          result        \* "parsing", "decoding", "ok" or "error"

vars == <<source, bytes, streams, terms, rest, resources, result>>

Err == -1
Byte(i) == bytes[i + 1]
-----------------------------------------------------------------------------
(* The readers *)

Take(cur, len, end) == IF cur = Err \/ cur + len > end THEN Err ELSE cur + len

ReadU8(cur, end) == Take(cur, 1, end)

\* Mutant: the first byte that follows is shifted by the 6 bits of the short form.
LengthShift6(cur) ==
    LET more == Byte(cur) \div 64 IN
    IF more = 0 THEN Byte(cur) % 64
    ELSE (Byte(cur) % 16) + MapThenSumSet(LAMBDA i : Byte(cur + i) * 2 ^ (8 * i - 2), 1 .. more)

PkgLength(cur) ==
    LET more == Byte(cur) \div 64 IN
    IF more = 0 THEN Byte(cur) % 64
    ELSE (Byte(cur) % 16) + MapThenSumSet(LAMBDA i : Byte(cur + i) * 2 ^ (8 * i - 4), 1 .. more)

ReadPkgLength(cur, end) ==
    IF ReadU8(cur, end) = Err THEN Err ELSE Take(cur, 1 + Byte(cur) \div 64, end)

\* The rest of a package whose PkgLength is at `start`: the length counts from there.
TakeBody(start, cur, end) ==
    IF cur = Err \/ PkgLength(start) < cur - start THEN Err
    ELSE Take(cur, PkgLength(start) - (cur - start), end)

ReadNamePath(cur, end) ==
    IF cur = Err THEN Err
    ELSE LET Prefix(q) == q < end /\ Byte(q) \in {92, 94}
             p == CHOOSE q \in cur .. end : ~Prefix(q) /\ \A r \in cur .. q - 1 : Prefix(r)
         IN IF p = end THEN Err
            ELSE CASE Byte(p) = 0 -> p + 1
                   [] Byte(p) = 46 -> Take(p + 1, 8, end)
                   [] Byte(p) = 47 -> IF p + 1 = end THEN Err ELSE Take(p + 2, 4 * Byte(p + 1), end)
                   [] OTHER -> Take(p + 1, 3, end)

\* The inputs have no character of several bytes: a byte over 127 is not UTF-8.
ReadString(cur, end) ==
    LET zeros == {q \in cur .. end - 1 : Byte(q) = 0} IN
    IF zeros = {} \/ \E q \in cur .. Min(zeros) : Byte(q) > 127 THEN Err ELSE Min(zeros) + 1

RECURSIVE ParseDataObject(_, _)
ParseDataObject(cur, end) ==
    IF ReadU8(cur, end) = Err THEN Err
    ELSE LET op == Byte(cur)
             arg == cur + 1
         IN CASE op = 10 -> Take(arg, 1, end)
              [] op = 11 -> Take(arg, 2, end)
              [] op = 12 -> Take(arg, 4, end)
              [] op = 14 -> Take(arg, 8, end)
              [] op = 13 -> ReadString(arg, end)
              [] op \in {17, 19} -> TakeBody(arg, ParseDataObject(ReadPkgLength(arg, end), end), end)
              [] op = 18 -> TakeBody(arg, ReadU8(ReadPkgLength(arg, end), end), end)
              [] op \in {92, 94, 46, 47, 95} \cup (65 .. 90) -> ReadNamePath(cur, end)
              [] op = 91 -> ReadU8(arg, end)
              [] OTHER -> arg

\* A term ends at cur; the bytes from inner on are its body.
Leaf(kind, from, cur) == [kind |-> kind, inner |-> from, cur |-> cur]
Block(kind, start, inner, end) == [kind |-> kind, inner |-> inner, cur |-> TakeBody(start, inner, end)]

ParseExt(cur, end) ==
    LET arg == cur + 2
        name == ReadNamePath(ReadPkgLength(arg, end), end)
    IN CASE Byte(cur + 1) = 128 ->
               Leaf("OpRegion", cur,
                    ParseDataObject(ParseDataObject(ReadU8(ReadNamePath(arg, end), end), end), end))
         [] Byte(cur + 1) = 129 -> Block("Field", arg, ReadU8(name, end), end)
         [] Byte(cur + 1) = 130 -> Block("Device", arg, name, end)
         [] OTHER -> Leaf("Unsupported", cur, arg)

ParseNext(cur, end) ==
    LET arg == cur + 1
        name == ReadNamePath(ReadPkgLength(arg, end), end)
    IN CASE Byte(cur) = 16 -> Block("Scope", arg, name, end)
         [] Byte(cur) = 8 -> Leaf("Name", cur, ParseDataObject(ReadNamePath(arg, end), end))
         [] Byte(cur) = 20 -> Block("Method", arg, ReadU8(name, end), end)
         [] Byte(cur) = 91 -> IF arg = end THEN Leaf("Unsupported", cur, Err) ELSE ParseExt(cur, end)
         [] OTHER -> Leaf("Unsupported", cur, arg)
-----------------------------------------------------------------------------
(* The stream: format_aml_stream calls itself for the block of a scope or a device *)

ParseTerm ==
    LET depth == Len(streams)
        parser == streams[depth]
        term == ParseNext(parser.cur, parser.end)
        left == [streams EXCEPT ![depth].cur = term.cur]
    IN /\ result = "parsing"
       /\ parser.cur < parser.end
       /\ IF term.cur = Err
          THEN /\ result' = "error"    \* unwrap() of handle_dsdt
               /\ UNCHANGED <<streams, terms>>
          ELSE /\ streams' = IF term.kind \in {"Scope", "Device"}
                             THEN Append(left, [cur |-> term.inner, end |-> term.cur])
                             ELSE left
               /\ terms' = Append(terms, [kind |-> term.kind, depth |-> depth, from |-> parser.cur,
                                          size |-> term.cur - term.inner])
               /\ UNCHANGED result
       /\ UNCHANGED <<source, bytes, rest, resources>>

EndOfStream ==
    /\ result = "parsing"
    /\ Last(streams).cur >= Last(streams).end
    /\ streams' = Front(streams)
    /\ result' = IF Len(streams) = 1 THEN "ok" ELSE "parsing"
    /\ UNCHANGED <<source, bytes, terms, rest, resources>>
-----------------------------------------------------------------------------
(* Resource descriptors: CrsIter cuts a buffer up, into_rss decodes a piece *)

Bits(byte) == {i \in 0 .. 7 : (byte \div 2 ^ i) % 2 = 1}

Irqs(ns) == [k \in DOMAIN ns |-> [type |-> "Irq", irq |-> ns[k]]]

Mmio(base, len) ==
    IF \A k \in DOMAIN len : len[k] = 0 THEN <<>>
    ELSE <<[type |-> "Mmio", base |-> base, len |-> len]>>

IntoRss(chunk) ==
    LET large == chunk[1] >= 128
        item == IF large THEN chunk[1] % 128 ELSE chunk[1] \div 8
        data == SubSeq(chunk, IF large THEN 4 ELSE 2, Len(chunk))
        n == Len(data)
        Field(lo, hi) == SubSeq(data, lo + 1, hi)
        mask == Bits(data[1]) \cup {i + 8 : i \in Bits(data[2])}
        listed == {i \in 0 .. data[2] - 1 : 6 + 4 * i <= n}
    IN CASE ~large /\ item = 4 /\ n >= 2 -> Irqs([k \in 1 .. Cardinality(mask) |-> <<SetToSortSeq(mask, <)[k], 0, 0, 0>>])
         [] large /\ item = 5 /\ n >= 17 -> Mmio(Field(1, 5), Field(13, 17))
         [] large /\ item = 6 /\ n >= 9 -> Mmio(Field(1, 5), Field(5, 9))
         [] large /\ item = 7 /\ n >= 23 /\ data[1] = 0 -> Mmio(Field(7, 11), Field(19, 23))
         [] large /\ item = 10 /\ n >= 43 /\ data[1] = 0 -> Mmio(Field(11, 19), Field(35, 43))
         [] large /\ item = 9 /\ n >= 2 ->
               Irqs([k \in 1 .. Cardinality(listed) |-> Field(4 * k - 2, 4 * k + 2)])
         [] OTHER -> <<>>

\* The position after the next piece, or Err where the iterator returns None.
CrsIterNext(cur) ==
    LET end == Len(bytes) IN
    IF ReadU8(cur, end) = Err \/ Byte(cur) = 121 THEN Err
    ELSE IF Byte(cur) < 128 THEN Take(cur, 1 + (Byte(cur) % 8), end)
    ELSE IF Take(cur, 3, end) = Err THEN Err
    ELSE Take(cur, 3 + Byte(cur + 1) + 256 * Byte(cur + 2), end)

Decode ==
    LET next == CrsIterNext(rest) IN
    /\ result = "decoding"
    /\ IF next = Err
       THEN result' = "ok" /\ UNCHANGED <<rest, resources>>
       ELSE /\ resources' = resources \o IntoRss(SubSeq(bytes, rest + 1, next))
            /\ rest' = next
            /\ UNCHANGED result
    /\ UNCHANGED <<source, bytes, streams, terms>>
-----------------------------------------------------------------------------
(* What the grammar of AML says: how declarations and descriptors are encoded *)

EncodedLength(len, more) ==
    IF more = 0 THEN <<len>>
    ELSE <<64 * more + (len % 16)>> \o [i \in 1 .. more |-> (len \div 2 ^ (8 * i - 4)) % 256]

Opcode(kind) ==
    CASE kind = "Scope" -> <<16>>
      [] kind = "Name" -> <<8>>
      [] kind = "Method" -> <<20>>
      [] kind = "OpRegion" -> <<91, 128>>
      [] kind = "Field" -> <<91, 129>>
      [] kind = "Device" -> <<91, 130>>

\* A declaration is [kind, more, head, code, body]: the bytes before its body,
\* the body's bytes or declarations, and the bytes that follow the first of its
\* PkgLength (Err: it has none).  The length counts its own bytes.
RECURSIVE Encode(_)
Encode(decls) ==
    FlattenSeq([k \in DOMAIN decls |->
        LET d == decls[k]
            inside == d.head \o d.code \o Encode(d.body)
        IN Opcode(d.kind) \o (IF d.more = Err THEN inside
                              ELSE EncodedLength(Len(inside) + 1 + d.more, d.more) \o inside)])

\* The terms of declarations: kind, nesting and bytes of the body.
RECURSIVE Outline(_, _)
Outline(decls, depth) ==
    FlattenSeq([k \in DOMAIN decls |->
        LET d == decls[k] IN
        <<[kind |-> d.kind, depth |-> depth,
           size |-> IF d.more = Err THEN Len(Encode(<<d>>)) ELSE Len(d.code \o Encode(d.body))]>>
        \o Outline(d.body, depth + 1)])

\* A descriptor is [bytes, resources].
EncodeCrs(list) == FlattenSeq([k \in DOMAIN list |-> list[k].bytes]) \o <<121, 0>>
-----------------------------------------------------------------------------
Init ==
    /\ source \in [kind : {"document"}, of : Documents] \cup [kind : {"crs"}, of : Descriptors]
                  \cup {[kind |-> "junk", of |-> <<>>]}
    /\ bytes \in CASE source.kind = "junk" -> Junk
                  [] source.kind = "crs" -> Prefixes(EncodeCrs(source.of))
                  [] source.kind = "document" ->
                        LET all == Encode(source.of) IN IF Len(all) <= CutUpTo THEN Prefixes(all) ELSE {all}
    /\ result = IF source.kind = "crs" THEN "decoding" ELSE "parsing"
    /\ streams = IF result = "parsing" THEN <<[cur |-> 0, end |-> Len(bytes)]>> ELSE <<>>
    /\ terms = <<>> /\ rest = 0 /\ resources = <<>>

Done == result \in {"ok", "error"} /\ UNCHANGED vars

Next == ParseTerm \/ EndOfStream \/ Decode \/ Done

Spec == Init /\ [][Next]_vars
-----------------------------------------------------------------------------
\* The declarations, or descriptors, of which every byte is there.
Whole(Enc(_)) ==
    SubSeq(source.of, 1,
           Max({n \in 0 .. Len(source.of) : Len(Enc(SubSeq(source.of, 1, n))) <= Len(bytes)}))

\* A parser never leaves its slice, a nested one works on bytes that its parent
\* has consumed, and every term begins after the one before it.  So whatever the
\* bytes are, a table of n bytes has at most n terms and the parse ends.
WithinSlices ==
    /\ \A k \in DOMAIN streams :
          /\ 0 <= streams[k].cur /\ streams[k].cur <= streams[k].end
          /\ streams[k].end <= IF k = 1 THEN Len(bytes) ELSE streams[k - 1].cur
    /\ \A k \in DOMAIN terms : k > 1 => terms[k - 1].from < terms[k].from

\* Declarations encoded as the grammar says are reported one by one, with their
\* nesting and the extent of their bodies, whatever the width of the lengths.
\* When the table is cut, the ones before the cut are reported and the cut is an
\* error unless it falls between two declarations: nothing is made up.
ReportsDeclarations ==
    source.kind = "document" =>
        LET whole == Whole(Encode)
            outline == Outline(whole, 1)
            atBoundary == Len(Encode(whole)) = Len(bytes)
            reported == [k \in DOMAIN terms |->
                            [kind |-> terms[k].kind, depth |-> terms[k].depth, size |-> terms[k].size]]
        IN /\ IsPrefix(reported, outline)
           /\ result = "ok" => atBoundary /\ reported = outline
           /\ result = "error" => ~atBoundary

\* The resources of a buffer are those of its descriptors in their order, up to
\* the end tag or to the descriptor that is cut.
DecodesDescriptors ==
    source.kind = "crs" =>
        LET Pieces(list) == FlattenSeq([k \in DOMAIN list |-> list[k].bytes])
            whole == Whole(Pieces)
            expected == FlattenSeq([k \in DOMAIN whole |-> whole[k].resources])
        IN /\ IsPrefix(resources, expected)
           /\ result = "ok" => resources = expected

AmlInv == WithinSlices /\ ReportsDeclarations /\ DecodesDescriptors
=============================================================================
