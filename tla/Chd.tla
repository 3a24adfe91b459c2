-------------------------------- MODULE Chd ---------------------------------
(****************************************************************************)
(* MAME's compressed hunks (datboi-formats, chd): the headers of versions 1 *)
(* to 5, their hunk maps, the metadata chain, and the verification that     *)
(* decompresses every hunk before the chd-verify analyzer links a disk      *)
(* claim.  A file is a sequence of cells: the header, the map, payloads,    *)
(* metadata.  Digests and checksums are ideal: a digest is what it covers.  *)
(* ChdCodecs has the bits of the version 5 map and the codecs; here the map *)
(* is a stream of symbols and a deflated hunk one cell that holds it.       *)
(****************************************************************************)
EXTENDS Integers, Sequences, FiniteSets, SequencesExt

CONSTANTS Radix,            \* 16: what one symbol of a run length counts
          MaxSelfDepth,     \* 8
          MaxMeta,          \* 4096
          MaxReadFaults     \* bound: reads that fail for reasons of their own

VARIABLES
    chd,      \* the file: [cells, sound, cut]
    rd,       \* the reader: where it is and what it has
    verdict,  \* of verify
    claim     \* of ingest and of the analyzer: what a disk claim is linked to

chdvars == <<chd, rd, verdict, claim>>

CeilDiv(a, b) == (a + b - 1) \div b
Least(a, b) == IF a < b THEN a ELSE b
None == "none"
Is(what) == [is |-> what, cells |-> <<>>]
Got(cells) == [is |-> "good", cells |-> cells]
Malformed == Is("malformed")

\* read_at: what is there, which may be less.
ReadAt(f, at, n) == SubSeq(f, at + 1, Least(at + n, Len(f)))

\* Mutant: a short payload is taken.
WholeOrLess(cells, n) == Len(cells) <= n

\* A payload that runs past the end of the file is refused.
Whole(cells, n) == Len(cells) = n

(****************************************************************************)
(* Headers.                                                                 *)
(****************************************************************************)
\* legacy_codec.
LegacyCodec(c) == CASE c = 0 -> None [] c \in {1, 2} -> "zlib" [] c = 3 -> "avhu" [] OTHER -> "unknown"

\* parse_checked: the version is known, the header has the length the version
\* says, the hunk size is not zero, and the hunks cover the logical size.
Header(h) ==
    /\ h.magic /\ h.version \in 1 .. 5 /\ h.sized /\ h.hunk > 0
    /\ h.version < 5 => LegacyCodec(h.comp) # "unknown" /\ h.total >= CeilDiv(h.logical, h.hunk)

\* The flattened header: versions 1 to 4 have one codec, the hunk for a unit and
\* the map behind the header; version 5 derives the hunks; 1 and 2 have no metadata.
Flat(h) ==
    IF h.version = 5 THEN [h EXCEPT !.total = CeilDiv(h.logical, h.hunk)]
    ELSE [h EXCEPT !.unit = h.hunk, !.slots = <<LegacyCodec(h.comp), None, None, None>>, !.map = 1,
                   !.meta = IF h.version <= 2 THEN 0 ELSE @]

\* declared_disk_sha1: version 3 hashes the raw data, 4 and 5 the metadata too.
DeclaredDisk(h) == CASE h.version = 3 -> {h.raw} [] h.version \in {4, 5} -> {h.all} [] OTHER -> {}

(****************************************************************************)
(* Hunk maps.                                                               *)
(****************************************************************************)
NoCrc == <<>>
Entry(kind, offset, length, crc) == [kind |-> kind, offset |-> offset, length |-> length, crc |-> crc]

\* Mutant: every run is taken for compressed.
LegacyEntryPacked(raw, h) == Entry(h.slots[1], raw.offset, raw.length, NoCrc)

\* parse_legacy_entry: a run of exactly one hunk is not compressed.
LegacyEntry(raw, h) == Entry(IF raw.length = h.hunk THEN "raw" ELSE h.slots[1], raw.offset, raw.length, NoCrc)

\* parse_v34_entry.
V34Entry(raw, h) ==
    LET kinds == <<h.slots[1], "raw", "mini", "self", "parent", "avhu">>
    IN  Entry(IF raw.type \in DOMAIN kinds THEN kinds[raw.type] ELSE "invalid", raw.offset, raw.length, raw.crc)

\* read_v5_flat_map: an index of hunks, zero for one never written.
FlatEntry(unit, h) == Entry(IF unit = 0 THEN "zeroed" ELSE "raw", unit * h.hunk, h.hunk, NoCrc)

\* Pass 1: the compression types, with a short and a long escape for a run of
\* the last one.  A symbol behind the end is 0.
Tok(ts, i) == IF i <= Len(ts) THEN ts[i] ELSE 0
RECURSIVE Kinds(_, _, _)
Kinds(ts, n, acc) ==
    IF Len(acc.kinds) >= n THEN [acc EXCEPT !.kinds = SubSeq(@, 1, n)]
    ELSE LET v == Tok(ts, acc.at)
             run == CASE v = 7 -> 3 + Tok(ts, acc.at + 1)
                      [] v = 8 -> 3 + Radix + Tok(ts, acc.at + 1) * Radix + Tok(ts, acc.at + 2)
                      [] OTHER -> 1
             kind == IF v \in {7, 8} THEN acc.last ELSE v
         IN  Kinds(ts, n, [kinds |-> acc.kinds \o [i \in 1 .. run |-> kind], last |-> kind,
                           at |-> acc.at + (CASE v = 7 -> 2 [] v = 8 -> 3 [] OTHER -> 1)])

\* Pass 2: lengths and references; offsets are implicit.
V5Entry(ts, h, acc, kind) ==
    LET v == Tok(ts, acc.at)
        put(e) == [acc EXCEPT !.entries = Append(@, e)]
        unit == IF h.unit = 0 THEN 1 ELSE h.unit
        step == h.hunk \div unit
    IN  CASE kind \in 0 .. 3 ->
               [put(Entry(h.slots[kind + 1], acc.offset, v, Tok(ts, acc.at + 1)))
                  EXCEPT !.at = @ + 2, !.offset = @ + v]
          [] kind = 4 -> [put(Entry("raw", acc.offset, h.hunk, v)) EXCEPT !.at = @ + 1, !.offset = @ + h.hunk]
          [] kind = 5 -> [put(Entry("self", v, 0, NoCrc)) EXCEPT !.at = @ + 1, !.self = v]
          [] kind = 6 -> [put(Entry("parent", v, 0, NoCrc)) EXCEPT !.at = @ + 1, !.parent = v]
          [] kind \in {9, 10} ->
               [put(Entry("self", acc.self + kind - 9, 0, NoCrc)) EXCEPT !.self = @ + kind - 9]
          [] kind = 11 -> LET p == (Len(acc.entries) * h.hunk) \div unit
                          IN  [put(Entry("parent", p, 0, NoCrc)) EXCEPT !.parent = p]
          [] kind \in {12, 13} ->
               LET p == acc.parent + (kind - 12) * step
               IN  [put(Entry("parent", p, 0, NoCrc)) EXCEPT !.parent = p]
          [] OTHER -> [acc EXCEPT !.bad = TRUE]

\* read_v5_compressed_map: a short stream, an unknown type or a map that is not
\* the one its checksum pins are refused.
V5Map(f, h) ==
    LET heads == ReadAt(f, h.map, 1)
        m == heads[1]
        ts == ReadAt(f, h.map + 1, m.len)
        ks == Kinds(ts, h.total, [kinds |-> <<>>, last |-> 0, at |-> 1])
        end == FoldLeft(LAMBDA acc, k : V5Entry(ts, h, acc, k),
                        [at |-> ks.at, offset |-> m.first, self |-> 0, parent |-> 0, bad |-> FALSE, entries |-> <<>>],
                        ks.kinds)
    IN  IF heads = <<>> THEN Malformed
        ELSE IF Len(ts) # m.len \/ ks.at > Len(ts) + 1 THEN Malformed
        ELSE IF end.bad \/ end.at > Len(ts) + 1 THEN Malformed
        ELSE IF m.crc # end.entries THEN Malformed ELSE Got(end.entries)

\* read_map.
HunkMap(f, h) ==
    LET raw == ReadAt(f, h.map, h.total)
        entry(c) == IF h.version = 5 THEN FlatEntry(c, h)
                    ELSE IF h.version <= 2 THEN LegacyEntry(c, h) ELSE V34Entry(c, h)
    IN  IF h.version = 5 /\ \E i \in 1 .. 4 : h.slots[i] # None THEN V5Map(f, h)
        ELSE IF Len(raw) # h.total THEN Malformed ELSE Got([i \in DOMAIN raw |-> entry(raw[i])])

(****************************************************************************)
(* Hunks.                                                                   *)
(****************************************************************************)
Plain(v) == [z |-> FALSE, v |-> v]
Deflated(run) == [z |-> TRUE, run |-> run]
Tagged == {"raw", "mini", "self", "parent", "zeroed", "invalid"}
Supported(codec) == codec \in {None, "zlib"}

\* Decoder::decode: a whole hunk comes out, or none.
Decode(codec, src, n) ==
    CASE codec = None -> IF Len(src) = n THEN Got(src) ELSE Malformed
      [] codec = "zlib" -> IF src = <<>> THEN Malformed
                           ELSE IF ~src[1].z THEN Malformed
                           ELSE IF Len(src[1].run) < n THEN Malformed ELSE Got(SubSeq(src[1].run, 1, n))
      [] OTHER -> Is("unsupported")

\* check_hunk.
CheckHunk(e, hunk) ==
    IF hunk.is = "good" /\ e.crc # NoCrc /\ e.crc # hunk.cells THEN Malformed ELSE hunk

\* read_hunk_depth.
RECURSIVE ReadHunk(_, _, _, _, _)
ReadHunk(f, h, map, i, depth) ==
    IF depth > MaxSelfDepth \/ i + 1 > Len(map) THEN Malformed
    ELSE LET e == map[i + 1] IN
         CASE e.kind = "zeroed" -> Got([k \in 1 .. h.hunk |-> Plain(0)])
           [] e.kind = "mini" -> Got([k \in 1 .. h.hunk |-> Plain(e.offset)])
           [] e.kind = "self" -> IF e.offset = i THEN Malformed ELSE ReadHunk(f, h, map, e.offset, depth + 1)
           [] e.kind = "parent" -> Is("unsupported")
           [] e.kind = "invalid" -> Malformed
           [] e.kind = "raw" -> LET src == ReadAt(f, e.offset, h.hunk)
                                IN  IF ~Whole(src, h.hunk) THEN Malformed ELSE CheckHunk(e, Got(src))
           [] OTHER -> LET src == ReadAt(f, e.offset, e.length)
                       IN  IF ~Whole(src, e.length) THEN Malformed
                           ELSE CheckHunk(e, Decode(e.kind, src, h.hunk))

(****************************************************************************)
(* verify, one read after the other.                                        *)
(****************************************************************************)
Reading(at) == verdict = "pending" /\ rd.at = at
Ends(v) == verdict' = v /\ rd' = [rd EXCEPT !.at = "over"]
Rest == UNCHANGED <<chd, claim>>

\* ChdReader::open: the header ...
OpenHeader ==
    /\ Reading("header") /\ claim.declared = "read" /\ Rest
    /\ IF chd.cells = <<>> THEN Ends("malformed")
       ELSE IF ~Header(chd.cells[1]) THEN Ends("malformed")
       ELSE LET h == Flat(chd.cells[1])
            IN  rd' = [rd EXCEPT !.at = "map", !.header = h, !.metaAt = h.meta] /\ UNCHANGED verdict

\* ... the map ...
OpenMap ==
    /\ Reading("map") /\ Rest
    /\ LET map == HunkMap(chd.cells, rd.header) IN
       IF map = Malformed THEN Ends("malformed")
       ELSE rd' = [rd EXCEPT !.at = "meta", !.map = map.cells] /\ UNCHANGED verdict

\* read_metadata: ... and an entry of the chain, which may be short, point at
\* itself or have no end.
OpenMeta ==
    /\ Reading("meta") /\ Rest
    /\ LET heads == ReadAt(chd.cells, rd.metaAt, 1)
           m == heads[1]
           body == ReadAt(chd.cells, rd.metaAt + 1, m.len)
       IN  IF rd.metaAt = 0 THEN rd' = [rd EXCEPT !.at = "check"] /\ UNCHANGED verdict
           ELSE IF Len(rd.metas) = MaxMeta \/ heads = <<>> THEN Ends("malformed")
           ELSE IF Len(body) # m.len \/ m.next = rd.metaAt THEN Ends("malformed")
           ELSE /\ rd' = [rd EXCEPT !.metaAt = m.next,
                                    !.metas = Append(@, [tag |-> m.tag, sum |-> m.sum, data |-> body])]
                /\ UNCHANGED verdict

\* Refused before a hunk is read: a codec the map uses, and a parent.
CheckCodecs ==
    /\ Reading("check") /\ Rest
    /\ IF \/ \E i \in DOMAIN rd.map : rd.map[i].kind \notin Tagged /\ ~Supported(rd.map[i].kind)
          \/ rd.header.parent
       THEN Ends("unsupported")
       ELSE rd' = [rd EXCEPT !.at = "hunk"] /\ UNCHANGED verdict

\* combine_metadata: the checksummed entries as a bag, since they are sorted.
Combined(raw, metas) ==
    LET of(m) == <<m.tag, m.data>>
        sums == {i \in DOMAIN metas : metas[i].sum}
    IN  <<raw, [r \in {of(metas[i]) : i \in sums} |-> Cardinality({i \in sums : of(metas[i]) = r})]>>

\* Which declared digest disagrees, if any.
Mismatch(h, raw, all) ==
    \/ h.version >= 3 /\ h.raw # raw
    \/ h.version >= 4 /\ h.all # all
    \/ h.version <= 3 /\ h.md5 # raw

\* Mutant: the digests cover the padding of the last hunk.
TakenWhole(h, hunk, left) == hunk

\* The final hunk is padded; the digests cover the logical size.
Taken(h, hunk, left) == SubSeq(hunk, 1, Least(left, Len(hunk)))

VerifyHunk ==
    /\ Reading("hunk") /\ Rest
    /\ LET h == rd.header
           hunk == ReadHunk(chd.cells, h, rd.map, rd.index, 0)
           left == h.logical - rd.index * h.hunk
       IN  IF left <= 0
           THEN Ends(IF Mismatch(h, rd.data, Combined(rd.data, rd.metas)) THEN "contradicts" ELSE "holds")
           ELSE IF hunk.is # "good" THEN Ends(hunk.is)
           ELSE /\ rd' = [rd EXCEPT !.index = @ + 1, !.data = @ \o Taken(h, hunk.cells, left)]
                /\ UNCHANGED verdict

\* The byte source fails under a read.
ReadFails ==
    /\ MaxReadFaults > 0 /\ verdict = "pending" /\ claim.declared = "read" /\ rd.at \notin {"check", "over"}
    /\ ~(rd.at = "meta" /\ rd.metaAt = 0)
    /\ rd.at = "hunk" => rd.index * rd.header.hunk < rd.header.logical
                         /\ \E e \in Range(rd.map) : e.kind \notin {"zeroed", "mini", "self", "parent", "invalid"}
    /\ Ends("io") /\ Rest

\* read_chd, at ingest: the header alone declares a sha1, which is only probable.
DeclareChd ==
    /\ claim.declared = "not yet"
    /\ claim' = [claim EXCEPT !.declared = "read",
                   !.probable = IF chd.cells = <<>> THEN {}
                                ELSE IF ~Header(chd.cells[1]) THEN {} ELSE DeclaredDisk(chd.cells[1])]
    /\ UNCHANGED <<chd, rd, verdict>>

\* Mutant: what the file declares is linked once it has been read to its end.
LinksUnchecked(v) == v \in {"holds", "contradicts"}

\* Only a declaration that holds links a disk's sha1.
Links(v) == v = "holds"

\* ChdVerifyAnalyzer::analyze: a failed read is tried again another day, and
\* every conclusion settles.
AnalyzeChd ==
    /\ claim.outcome = "none" /\ verdict # "pending"
    /\ claim' = IF verdict = "io" THEN [claim EXCEPT !.outcome = "retry"]
                ELSE IF ~Links(verdict) THEN [claim EXCEPT !.outcome = "negative"]
                ELSE IF DeclaredDisk(rd.header) = {} THEN [claim EXCEPT !.outcome = "negative"]
                ELSE [claim EXCEPT !.outcome = "positive", !.verified = DeclaredDisk(rd.header)]
    /\ UNCHANGED <<chd, rd, verdict>>

ChdInit(files) ==
    /\ chd \in files
    /\ rd = [at |-> "header", header |-> <<>>, map |-> <<>>, metaAt |-> 0, metas |-> <<>>, index |-> 0, data |-> <<>>]
    /\ verdict = "pending"
    /\ claim = [declared |-> "not yet", probable |-> {}, outcome |-> "none", verified |-> {}]
ChdNext ==
    \/ OpenHeader \/ OpenMap \/ OpenMeta \/ CheckCodecs \/ VerifyHunk \/ ReadFails
    \/ DeclareChd \/ AnalyzeChd

(****************************************************************************)
(* The fixture writer (synth).                                              *)
(****************************************************************************)
\* compress: a hunk of equal cells deflates to one cell, any other to as many.
Block(codec, hunk) ==
    LET same == \A i \in DOMAIN hunk : hunk[i] = hunk[1]
    IN  [packed |-> codec = "zlib" /\ same /\ Len(hunk) > 1, plain |-> hunk]
Stored(b) == IF b.packed THEN <<Deflated(b.plain)>> ELSE b.plain

\* v5_map, first pass: three or more that repeat the last symbol are a run.
V5Symbols(kinds) ==
    LET RECURSIVE go(_, _)
        go(i, out) ==
          IF i > Len(kinds) THEN out
          ELSE LET same == {n \in 1 .. Least(Radix + 2, Len(kinds) - i + 1) :
                               \A k \in 0 .. n - 1 : kinds[i + k] = kinds[i]}
                   run == CHOOSE n \in same : \A m \in same : m <= n
               IN  IF i > 1 /\ kinds[i - 1] = kinds[i] /\ run >= 3 THEN go(i + run, out \o <<7, run - 3>>)
                   ELSE go(i + 1, Append(out, kinds[i]))
    IN  go(1, <<>>)

\* build: the metadata, each entry pointing at the next ...
BuiltChain(metas, first) ==
    LET at[i \in 1 .. Len(metas) + 1] == IF i = 1 THEN first ELSE at[i - 1] + 1 + Len(metas[i - 1].data)
    IN  FlattenSeq([i \in DOMAIN metas |->
          <<[tag |-> metas[i].tag, sum |-> metas[i].sum, len |-> Len(metas[i].data),
             next |-> IF i = Len(metas) THEN 0 ELSE at[i + 1]]>> \o metas[i].data])

\* ... the header, with digests over exactly the logical data ...
BuiltHeader(spec, data, metaAt, metas) ==
    [magic |-> TRUE, version |-> spec.version, sized |-> TRUE, hunk |-> spec.hunk, unit |-> spec.unit,
     comp |-> IF spec.codec = None THEN 0 ELSE 1, logical |-> Len(data), total |-> CeilDiv(Len(data), spec.hunk),
     map |-> 1, meta |-> metaAt, slots |-> <<spec.codec, None, None, None>>,
     raw |-> data, all |-> Combined(data, metas), md5 |-> data, parent |-> FALSE]

\* ... and all of it: header, map, payloads, metadata.
Build(spec, data) ==
    LET h == spec.hunk
        n == CeilDiv(Len(data), h)
        padded(i) == [k \in 1 .. h |-> IF (i - 1) * h + k <= Len(data) THEN data[(i - 1) * h + k] ELSE Plain(0)]
        blocks == [i \in 1 .. n |-> Block(spec.codec, padded(i))]
        flat == spec.version = 5 /\ spec.codec = None
        kinds == [i \in 1 .. n |-> IF blocks[i].packed THEN 0 ELSE 4]
        second == FlattenSeq([i \in 1 .. n |-> (IF blocks[i].packed THEN <<1>> ELSE <<>>) \o <<blocks[i].plain>>])
        symbols == V5Symbols(kinds) \o second
        mapLen == IF spec.version = 5 /\ ~flat THEN 1 + Len(symbols) ELSE n
        pad == IF flat THEN CeilDiv(1 + mapLen, h) * h - (1 + mapLen) ELSE 0
        first == 1 + mapLen + pad
        at == [i \in 1 .. n + 1 |-> first + Len(FlattenSeq([j \in 1 .. i - 1 |-> Stored(blocks[j])]))]
        length(i) == Len(Stored(blocks[i]))
        kind(i) == IF blocks[i].packed THEN "zlib" ELSE "raw"
        map == CASE spec.version <= 2 -> [i \in 1 .. n |-> [offset |-> at[i], length |-> length(i)]]
                 [] spec.version \in {3, 4} ->
                      [i \in 1 .. n |-> [offset |-> at[i], length |-> length(i), crc |-> blocks[i].plain,
                                         type |-> IF blocks[i].packed THEN 1 ELSE 2]]
                 [] flat -> [i \in 1 .. n |-> at[i] \div h]
                 [] OTHER -> <<[len |-> Len(symbols), first |-> first,
                                crc |-> [i \in 1 .. n |-> Entry(kind(i), at[i], length(i), blocks[i].plain)]]>>
                             \o symbols
        metas == IF spec.version >= 3 THEN spec.metas ELSE <<>>
    IN  <<BuiltHeader(spec, data, IF metas = <<>> THEN 0 ELSE at[n + 1], metas)>>
        \o map \o [i \in 1 .. pad |-> Plain(0)] \o FlattenSeq([i \in 1 .. n |-> Stored(blocks[i])])
        \o BuiltChain(metas, at[n + 1])

(****************************************************************************)
(* What a verification is worth.                                            *)
(****************************************************************************)
\* Where a hunk's bytes really are: its references followed as a closure.
Reached(map, i) ==
    LET step(S) == S \cup {map[j + 1].offset : j \in {k \in S : k < Len(map) /\ map[k + 1].kind = "self"}}
        grown[n \in 0 .. Len(map)] == IF n = 0 THEN {i} ELSE step(grown[n - 1])
    IN  grown[Len(map)]

\* A hunk has the bytes `cells`: exactly one entry its references reach has bytes.
HunkIs(f, h, map, i, cells) ==
    LET ends == {j \in Reached(map, i) : j < Len(map) /\ map[j + 1].kind # "self"}
    IN  \E j \in ends :
          LET e == map[j + 1] IN
          CASE e.kind = "zeroed" -> \A k \in DOMAIN cells : cells[k] = Plain(0)
            [] e.kind = "mini" -> \A k \in DOMAIN cells : cells[k] = Plain(e.offset)
            [] e.kind = "raw" -> \A k \in DOMAIN cells : e.offset + k <= Len(f) /\ f[e.offset + k] = cells[k]
            [] e.kind = None -> \A k \in DOMAIN cells : f[e.offset + k] = cells[k]
            [] e.kind = "zlib" -> \A k \in DOMAIN cells : f[e.offset + 1].run[k] = cells[k]
            [] OTHER -> FALSE

\* A disk is only linked to a file all of whose data is there: every hunk of the
\* logical size was decoded from the place its map entry leads to, and what they
\* hash to, with the metadata from version 4 on, is what the link says; ingest's
\* claim from the header is never more than probable (D44).
LinkEarned ==
    claim.verified # {} =>
        /\ claim.outcome = "positive" /\ verdict = "holds" /\ rd.header.version >= 3
        /\ Len(rd.data) = rd.header.logical
        /\ \A i \in 0 .. CeilDiv(rd.header.logical, rd.header.hunk) - 1 :
              HunkIs(chd.cells, rd.header, rd.map, i,
                     SubSeq(rd.data, i * rd.header.hunk + 1, Least((i + 1) * rd.header.hunk, rd.header.logical)))
        /\ claim.verified = IF rd.header.version = 3 THEN {rd.data} ELSE {Combined(rd.data, rd.metas)}

\* A file the writer made is verified, whatever its version, codec, size, runs
\* and metadata; unless a read failed.
WriterAgrees ==
    chd.sound /\ verdict \notin {"pending", "io"} => verdict = "holds"

\* A file that is cut short is never verified, and settled for good: a short read
\* is a conclusion about the bytes (D81).
CutNeverHolds ==
    chd.cut => verdict \in {"pending", "malformed", "unsupported", "io"}

=============================================================================
