------------------------------ MODULE Objects -------------------------------
(****************************************************************************)
(* The objects the store addresses by the hash of their bytes: the CBOR      *)
(* subset (datboi-core/src/cbor.rs), the objects written in it (recipe.rs,   *)
(* snapshot.rs, viewsnap.rs), and the assemble program with its two readers  *)
(* (assemble.rs).  A hash names one object only if an object has one         *)
(* encoding: that is what the decoders' refusals are for.                    *)
(*                                                                          *)
(* Scale: a byte has 64 values (8 majors, 8 infos); infos below 4 are direct *)
(* arguments, 4 and 5 announce one and two bytes, 6 is reserved and 7 is the *)
(* indefinite length.                                                        *)
(****************************************************************************)
EXTENDS Naturals, Sequences, SequencesExt, FiniteSets, Folds, TLC

CONSTANTS
    Strings,    \* the byte strings to decode
    Drafts,     \* the CBOR values to read as objects: [schema, value]
    Programs,   \* the assemble programs: [segs, sources, range]
    MaxDepth    \* nesting allowed

VARIABLES
    task,       \* [kind |-> "cbor" | "object" | "program", ...]
    got,        \* the result, [ok |-> FALSE] until there is one
    reader      \* the sequential reader: [segment, emitted, out]

obvars == <<task, got, reader>>

Bad == [ok |-> FALSE]
Unread == [segment |-> 1, emitted |-> 0, out |-> <<>>]

----------------------------------------------------------------------------
(* CBOR.                                                                    *)

Uint(n) == [t |-> "uint", n |-> n]
Bytes(b) == [t |-> "bytes", b |-> b]
Text(b) == [t |-> "text", b |-> b]
Arr(s) == [t |-> "array", items |-> s]
Map(s) == [t |-> "map", entries |-> s]      \* a sequence of [k, v]

PutHead(major, n) ==
    CASE n < 4 -> <<8 * major + n>>
      [] n >= 4 /\ n < 64 -> <<8 * major + 4, n>>
      [] OTHER -> <<8 * major + 5, n \div 64, n % 64>>

\* encode: entries sorted by key, the same key twice refused.
Sorted(es) == SortSeq(es, LAMBDA a, b : a.k < b.k)
Encode(v) ==
    LET RECURSIVE Enc(_)
        Enc(x) ==
            CASE x.t = "uint" -> PutHead(0, x.n)
              [] x.t = "bytes" -> PutHead(2, Len(x.b)) \o x.b
              [] x.t = "text" -> PutHead(3, Len(x.b)) \o x.b
              [] x.t = "array" -> PutHead(4, Len(x.items)) \o FlattenSeq([i \in DOMAIN x.items |-> Enc(x.items[i])])
              [] x.t = "map" -> LET es == Sorted(x.entries)
                                IN  PutHead(5, Len(es)) \o FlattenSeq([i \in DOMAIN es |-> PutHead(0, es[i].k) \o Enc(es[i].v)])
    IN  Enc(v)

\* Mutant: a longer head than the argument needs is accepted.
HeadLax(in, p) ==
    IF p > Len(in) THEN Bad
    ELSE LET info == in[p] % 8
             width == IF info = 4 THEN 1 ELSE IF info = 5 THEN 2 ELSE 0
         IN  IF info >= 6 \/ p + width > Len(in) THEN Bad
             ELSE [ok |-> TRUE, major |-> in[p] \div 8, pos |-> p + width + 1,
                   arg |-> CASE width = 0 -> info [] width = 1 -> in[p + 1] [] OTHER -> 64 * in[p + 1] + in[p + 2]]

\* head: an argument in more bytes than it needs is refused, and so are reserved infos and
\* indefinite lengths.
Head1(in, p) ==
    LET h == HeadLax(in, p)
    IN  IF h.ok /\ ((in[p] % 8 = 4 /\ h.arg < 4) \/ (in[p] % 8 = 5 /\ h.arg < 64)) THEN Bad ELSE h

\* value: [ok, v, pos].  Only unsigned integers, byte and text strings, arrays and maps, whose keys
\* are unsigned integers in strictly ascending order.
Decode(in) ==
    LET RECURSIVE Val(_, _), Items(_, _, _, _), Entries(_, _, _, _)
        Val(p, depth) ==
            LET h == Head1(in, p)
                run == SubSeq(in, h.pos, h.pos + h.arg - 1)
                left == Len(in) + 1 - h.pos
            IN  CASE depth > MaxDepth \/ ~h.ok -> Bad
                  [] h.ok /\ depth <= MaxDepth /\ h.major = 0 -> [ok |-> TRUE, v |-> Uint(h.arg), pos |-> h.pos]
                  [] h.ok /\ depth <= MaxDepth /\ h.major \in {2, 3, 4, 5} /\ h.arg > left -> Bad
                  [] h.ok /\ depth <= MaxDepth /\ h.major \in {2, 3} /\ h.arg <= left ->
                       [ok |-> TRUE, v |-> IF h.major = 2 THEN Bytes(run) ELSE Text(run), pos |-> h.pos + h.arg]
                  [] h.ok /\ depth <= MaxDepth /\ h.major = 4 /\ h.arg <= left -> Items(h.arg, h.pos, depth, <<>>)
                  [] h.ok /\ depth <= MaxDepth /\ h.major = 5 /\ h.arg <= left -> Entries(h.arg, h.pos, depth, <<>>)
                  [] OTHER -> Bad
        Items(n, p, depth, acc) ==
            IF n = 0 THEN [ok |-> TRUE, v |-> Arr(acc), pos |-> p]
            ELSE LET x == Val(p, depth + 1) IN IF x.ok THEN Items(n - 1, x.pos, depth, Append(acc, x.v)) ELSE Bad
        Entries(n, p, depth, acc) ==
            IF n = 0 THEN [ok |-> TRUE, v |-> Map(acc), pos |-> p]
            ELSE LET h == Head1(in, p) IN
                 IF ~h.ok THEN Bad
                 ELSE IF h.major # 0 \/ (acc # <<>> /\ Last(acc).k >= h.arg) THEN Bad
                 ELSE LET x == Val(h.pos, depth + 1)
                      IN  IF x.ok THEN Entries(n - 1, x.pos, depth, Append(acc, [k |-> h.arg, v |-> x.v])) ELSE Bad
        top == Val(1, 0)
    IN  IF ~top.ok THEN Bad ELSE IF top.pos # Len(in) + 1 THEN Bad ELSE top

----------------------------------------------------------------------------
(* Objects.  A schema gives each key its type and what its absence means:   *)
(* "must" be there; "may" be absent, and is then written by leaving it out; *)
(* or is "lax": read as empty when it is absent, but always written.        *)

Field(t, need) == [t |-> t, need |-> need]
RecipeSchema == 1 :> Field("op", "must") @@ 2 :> Field("refs", "must") @@ 3 :> Field("refs1", "must")
                @@ 4 :> Field("bytes", "may")
OpBuiltin == 1 :> Field("text", "must") @@ 2 :> Field("text", "must") @@ 3 :> Field("uint", "must")
OpWasm == 1 :> Field("text", "must") @@ 2 :> Field("hash", "must") @@ 3 :> Field("text", "must") @@ 4 :> Field("text", "must")
InputSchema == 1 :> Field("hash", "must") @@ 2 :> Field("text", "may")
OutputSchema == 1 :> Field("hash", "must") @@ 2 :> Field("uint", "must") @@ 3 :> Field("text", "may")
AliasRowSchema == [k \in {1, 3, 4, 5, 6} |-> Field("hash", "must")] @@ 2 :> Field("uint", "must")
AnalysisRowSchema == 1 :> Field("hash", "must") @@ 2 :> Field("hash", "must") @@ 3 :> Field("bit", "must") @@ 4 :> Field("text", "may")
BatchSchema == 1 :> Field("rows", "must")
AnalysisBatchSchema == BatchSchema
SourceSchema == 1 :> Field("text1", "must") @@ 2 :> Field("text1", "must") @@ 3 :> Field("hash", "must") @@ 4 :> Field("uint", "must")
TagSchema == 1 :> Field("text1", "must") @@ 2 :> Field("hash", "must")
ConfigSchema == 1 :> Field("text1", "must") @@ 2 :> Field("bytes", "must")
PayloadSchema == 1 :> Field("uint", "must") @@ 2 :> Field("uint", "must") @@ 3 :> Field("rows", "must")
                 @@ 4 :> Field("uint1", "must") @@ 5 :> Field("refs1", "must") @@ 6 :> Field("uint1", "may")
                 @@ 7 :> Field("refs1", "may") @@ 8 :> Field("rows", "may") @@ 9 :> Field("rows", "may")
EnvelopeSchema == 1 :> Field("bytes", "must") @@ 2 :> Field("hash", "must") @@ 3 :> Field("hash", "must")
ViewRowSchema == 1 :> Field("text1", "must") @@ 2 :> Field("hash", "must") @@ 3 :> Field("uint", "must") @@ 4 :> Field("seek", "must")
ViewSchema == 2 :> Field("text", "lax") @@ 3 :> Field("refs", "lax") @@ 4 :> Field("rows", "lax")
ViewSourceSchema == 1 :> Field("text", "must") @@ 2 :> Field("text", "must") @@ 3 :> Field("hash", "must") @@ 4 :> Field("uint", "must")
RangeSchema == 1 :> Field("uint", "must") @@ 2 :> Field("uint", "must") @@ 3 :> Field("uint1", "must")
FillSchema == 4 :> Field("uint", "must") @@ 5 :> Field("uint1", "must")
LiteralSchema == 6 :> Field("bytes1", "must")

\* A text a schema requires may be empty only where the object has no check of its own.
Ascending(items) == \A i \in 1 .. Len(items) - 1 : items[i].n < items[i + 1].n
Typed(v, f) ==
    CASE f.t \in {"text", "text1"} -> v.t = "text" /\ (f.t = "text1" \/ f.need = "may" => v.b # <<>>)
      [] f.t \in {"bytes", "bytes1"} -> v.t = "bytes" /\ (f.t = "bytes1" \/ f.need = "may" => v.b # <<>>)
      [] f.t = "hash" -> v.t = "bytes" /\ Len(v.b) = 1
      [] f.t \in {"uint", "uint1", "bit", "seek"} ->
           v.t = "uint" /\ (f.t = "uint1" => v.n > 0) /\ (f.t = "bit" => v.n <= 1) /\ (f.t = "seek" => v.n <= 2)
      [] f.t \in {"refs", "refs1", "rows"} ->
           v.t = "array" /\ (f.t = "refs1" \/ f.need = "may" => v.items # <<>>) /\ (f.t = "rows" => Ascending(v.items))
      [] OTHER -> v.t = "map"

Empty(t) == CASE t \in {"text", "text1"} -> Text(<<>>) [] t = "bytes" -> Bytes(<<>>) [] OTHER -> Arr(<<>>)

ReadAs(schema, v, asked) ==
    IF v.t # "map" THEN Bad
    ELSE LET has == {e.k : e \in Range(v.entries)}
             at(k) == (CHOOSE e \in Range(v.entries) : e.k = k).v
             count(k) == IF k \in has THEN at(k).n ELSE 0
             items(k) == IF k \in has THEN Len(at(k).items) ELSE 0
         IN  IF /\ has \subseteq DOMAIN schema /\ {k \in DOMAIN schema : schema[k].need = "must"} \subseteq has
                /\ \A k \in has : Typed(at(k), asked[k])
                /\ schema = PayloadSchema => count(4) = items(5) /\ count(6) = items(7)
             THEN [ok |-> TRUE, f |-> [k \in DOMAIN schema |-> IF k \in has THEN at(k) ELSE Empty(schema[k].t)]]
             ELSE Bad

\* Mutant: an optional field may be present and empty.
ReadEmptyToo(schema, v) == ReadAs(schema, v, [k \in DOMAIN schema |-> [schema[k] EXCEPT !.need = "must"]])

\* decode: every key known, every value of its type, every required key there, as many batches as
\* the fanout says.  An absent field is read as the empty one.
Read(schema, v) == ReadAs(schema, v, schema)

\* encode: an optional field that is empty is left out.
Write(schema, f) ==
    LET InOrder(keys) == SelectSeq([k \in 1..9 |-> k], LAMBDA k : k \in keys)
        keys == InOrder({k \in DOMAIN schema : schema[k].need = "may" => f[k] # Empty(schema[k].t)})
    IN  Map([i \in DOMAIN keys |-> [k |-> keys[i], v |-> f[keys[i]]]])

----------------------------------------------------------------------------
(* Assemble: segments [kind, input, at, len, byte, bytes] over sources.     *)

SegLen(s) == IF s.kind = "literal" THEN Len(s.bytes) ELSE s.len
ValidSegment(s) == SegLen(s) > 0
\* validate and validate_sources: no empty segment, no input or range outside the sources.
ValidProgram(segs, sources) ==
    /\ segs # <<>>
    /\ \A s \in Range(segs) : /\ ValidSegment(s)
                              /\ s.kind = "range" => s.input \in DOMAIN sources /\ s.at + s.len <= Len(sources[s.input])
SegBytes(s, sources) ==
    CASE s.kind = "range" -> SubSeq(sources[s.input], s.at + 1, s.at + s.len)
      [] s.kind = "fill" -> [i \in 1..s.len |-> s.byte]
      [] OTHER -> s.bytes
OutputSize(segs) == FoldLeft(LAMBDA n, s : n + SegLen(s), 0, segs)

\* The part of a segment a range needs.
PieceOf(s, within, len) ==
    CASE s.kind = "literal" -> [s EXCEPT !.bytes = SubSeq(@, within + 1, within + len)]
      [] s.kind = "range" -> [s EXCEPT !.at = @ + within, !.len = len]
      [] OTHER -> [s EXCEPT !.len = len]

\* Mutant: two pieces of one input are joined wherever they lie.
PushMergedApart(pieces, p) ==
    IF pieces # <<>> /\ Last(pieces).kind = p.kind /\ p.kind # "literal"
       /\ (IF p.kind = "range" THEN Last(pieces).input = p.input ELSE Last(pieces).byte = p.byte)
    THEN [pieces EXCEPT ![Len(pieces)].len = @ + p.len] ELSE Append(pieces, p)

\* push_merged: adjacent ranges of one input, and runs of one byte, are joined.
PushMerged(pieces, p) ==
    IF pieces # <<>> /\ Last(pieces).kind = p.kind /\ p.kind # "literal"
       /\ (IF p.kind = "range" THEN Last(pieces).input = p.input /\ Last(pieces).at + Last(pieces).len = p.at
           ELSE Last(pieces).byte = p.byte)
    THEN [pieces EXCEPT ![Len(pieces)].len = @ + p.len] ELSE Append(pieces, p)

\* translate: the pieces of the bytes [from, to).
Translate(segs, from, to) ==
    LET Step(acc, s) ==
            LET end == acc.start + SegLen(s)
                lo == IF from > acc.start THEN from ELSE acc.start
                hi == IF to < end THEN to ELSE end
            IN  [start |-> end,
                 pieces |-> IF lo < hi THEN PushMerged(acc.pieces, PieceOf(s, lo - acc.start, hi - lo)) ELSE acc.pieces]
    IN  FoldLeft(Step, [start |-> 0, pieces |-> <<>>], segs).pieces

----------------------------------------------------------------------------
DecodeBytes == /\ task.kind = "cbor" /\ got = Bad /\ task.left
               /\ got' = Decode(task.bytes) /\ task' = [task EXCEPT !.left = FALSE] /\ UNCHANGED reader
ReadObject == /\ task.kind = "object" /\ got = Bad /\ task.left
              /\ got' = Read(task.schema, task.value) /\ task' = [task EXCEPT !.left = FALSE] /\ UNCHANGED reader
TranslateRange ==
    /\ task.kind = "program" /\ got = Bad /\ ValidProgram(task.segs, task.sources)
    /\ task.range[2] <= OutputSize(task.segs)
    /\ got' = [ok |-> TRUE, pieces |-> Translate(task.segs, task.range[1], task.range[2])]
    /\ UNCHANGED <<task, reader>>

\* AssembleReader::read with a buffer of n bytes.
ReadSome(n) ==
    /\ task.kind = "program" /\ ValidProgram(task.segs, task.sources) /\ reader.segment <= Len(task.segs)
    /\ LET s == task.segs[reader.segment]
           left == SegLen(s) - reader.emitted
           take == IF n < left THEN n ELSE left
       IN  reader' = IF left = 0 THEN [reader EXCEPT !.segment = @ + 1, !.emitted = 0]
                     ELSE [reader EXCEPT !.emitted = @ + take,
                             !.out = @ \o SubSeq(SegBytes(s, task.sources), reader.emitted + 1, reader.emitted + take)]
    /\ UNCHANGED <<task, got>>

ObInit ==
    /\ task \in {[kind |-> "cbor", bytes |-> b, left |-> TRUE] : b \in Strings}
                  \cup {[kind |-> "object", schema |-> d.schema, value |-> d.value, left |-> TRUE] : d \in Drafts}
                  \cup {[kind |-> "program", segs |-> p.segs, sources |-> p.sources, range |-> p.range] : p \in Programs}
    /\ got = Bad /\ reader = Unread
ObNext == DecodeBytes \/ ReadObject \/ TranslateRange \/ \E n \in 1..2 : ReadSome(n)

----------------------------------------------------------------------------
(* Properties.                                                              *)

\* One object, one encoding: bytes that decode are the bytes the decoded value is encoded to, and a
\* structure that is read is written back as it was, so that two byte strings, and two hashes, never
\* name the same thing (cbor.rs: "Decode exactly one canonical value spanning the whole input").
Canonical ==
    got # Bad =>
        /\ task.kind = "cbor" => Encode(got.v) = task.bytes
        /\ task.kind = "object" /\ task.schema # ViewSchema => Write(task.schema, got.f) = task.value

\* The two readers of an assemble program agree: what the pieces of a range hold is what the
\* sequential reader gives there, however its reads are cut (translate, AssembleReader).
ReadersAgree ==
    task.kind = "program" /\ got # Bad /\ Len(reader.out) >= task.range[2] =>
        /\ ValidProgram(got.pieces, task.sources)
        /\ FlattenSeq([i \in DOMAIN got.pieces |-> SegBytes(got.pieces[i], task.sources)])
             = SubSeq(reader.out, task.range[1] + 1, task.range[2])

\* "Decode and validate canonical object bytes": what is accepted as a manifest is how it is written.
ManifestCanonical ==
    got # Bad /\ task.kind = "object" => Write(task.schema, got.f) = task.value

=============================================================================
