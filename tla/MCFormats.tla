----------------------------- MODULE MCFormats ------------------------------
(* Formats and the catalogue, checked in one run: object encodings, layout  *)
(* analysis, dat imports, rendered views, FAT images and CHDs.  They share no *)
(* state; `part` says which one a behaviour is about, and the others rest.    *)
EXTENDS Objects

CONSTANTS Sector, HeadLen, SigLen, MinPadSplit, MinJunkRun, LiteralCap, ScanChunk, SecurityRange,
    LMaxPieces, LMaxDepth, LMaxTable, MaxImports, MaxStops, MaxMoves, MaxViews, Budget, DirCap,
    Reserved, BackupAt, PartitionLba, LfnUnits, MinClusters, MaxClusters, MaxSlots, MaxSectors,
    MaxFileSize, MaxFaults, Radix, MaxSelfDepth, MaxMeta, MaxReadFaults, ByteBits, WordBits, CodeBits,
    SmallBits, SmallCodes, Codes, FlatBits, Latch, SampleBits, Half, RunAway

\* Objects: every short byte string over the heads that matter, every record schema
\* with up to two fields damaged, and assemble programs over two sources.
ObjectStrings ==
    {<<33, 34, 0, 1>>, <<42, 0, 0, 1>>, <<42, 1, 0, 0>>}
    \cup UNION {[1 .. n -> {0, 1, 4, 5, 7, 17, 33, 34, 41, 42, 48}] : n \in 0 .. 3}
ObjectSamples ==
    {Uint(0), Uint(1), Uint(2), Uint(3), Bytes(<<>>), Bytes(<<0>>), Text(<<>>), Text(<<0>>),
     Arr(<<>>), Arr(<<Uint(0)>>), Arr(<<Uint(0), Uint(1)>>), Arr(<<Uint(1), Uint(0)>>), Map(<<>>)}
ObjectSound(t) ==
    CASE t \in {"text", "text1"} -> Text(<<0>>)
      [] t \in {"bytes", "bytes1", "hash"} -> Bytes(<<0>>)
      [] t \in {"uint", "uint1", "bit", "seek"} -> Uint(1)
      [] t \in {"refs", "refs1", "rows"} -> Arr(<<Uint(0)>>)
      [] OTHER -> Map(<<>>)
ObjectAbsent == Map(<<[k |-> 0, v |-> Uint(0)]>>)
ObjectRecord(f) ==
    LET ks == SelectSeq([k \in 1 .. 10 |-> k], LAMBDA k : k \in DOMAIN f /\ f[k] # ObjectAbsent)
    IN  Map([i \in DOMAIN ks |-> [k |-> ks[i], v |-> f[ks[i]]]])
ObjectSchemas ==
    {RecipeSchema, OpBuiltin, OpWasm, InputSchema, OutputSchema, AliasRowSchema, AnalysisRowSchema,
     BatchSchema, SourceSchema, TagSchema, ConfigSchema, PayloadSchema, EnvelopeSchema,
     ViewRowSchema, ViewSchema, ViewSourceSchema, RangeSchema, FillSchema, LiteralSchema}
ObjectDrafts ==
    {[schema |-> s, value |-> Uint(0)] : s \in ObjectSchemas} \cup
    UNION {{[schema |-> s,
             value |-> ObjectRecord([[k \in DOMAIN s \cup {10} |->
                          IF k = 10 THEN ObjectAbsent ELSE ObjectSound(s[k].t)]
                            EXCEPT ![p[1]] = p[2], ![q[1]] = q[2]])] :
                p \in (DOMAIN s) \X (ObjectSamples \cup {ObjectAbsent}),
                q \in (DOMAIN s \cup {10}) \X {Uint(0), ObjectAbsent}} : s \in ObjectSchemas}
ObjectSegment(k, i, a, l, b, bs) ==
    [kind |-> k, input |-> i, at |-> a, len |-> l, byte |-> b, bytes |-> bs]
ObjectSegments ==
    {ObjectSegment("range", x[1], x[2], x[3], 0, <<>>) :
        x \in {<<1, 0, 1>>, <<1, 1, 2>>, <<1, 2, 2>>, <<2, 0, 2>>, <<3, 0, 1>>}}
    \cup {ObjectSegment("fill", 0, 0, x[1], x[2], <<>>) : x \in {<<2, 0>>, <<1, 0>>, <<1, 9>>, <<0, 0>>}}
    \cup {ObjectSegment("literal", 0, 0, 0, 0, b) : b \in {<<8, 9>>, <<>>}}
ObjectPrograms ==
    [segs : UNION {[1 .. n -> ObjectSegments] : n \in 0 .. 3}, sources : {<<<<1, 2, 3>>, <<4, 5>>>>},
     range : {<<0, 3>>, <<1, 4>>, <<1, 2>>}]
ObjectAtRest == [kind |-> "cbor", bytes |-> <<>>, left |-> TRUE]

\* Layout: images of zero, plain and trailer bytes with overlapping and touching
\* ranges, and directory graphs with shared and circular children.
LayoutRanges == [start : {1, 2, 4}, len : {1, 3}, literal : {FALSE}]
LayoutRangeLists ==
    {<<>>} \cup {<<a>> : a \in LayoutRanges} \cup {<<a, b>> : a, b \in LayoutRanges}
LayoutImages(formats, lengths, cells, seeds, trailers) ==
    [kind : {"image"}, format : formats, img : UNION {[1 .. n -> cells] : n \in lengths},
     ranges : LayoutRangeLists, base : {0, 2}, seeded : seeds, ntr : trailers]
LayoutGraphs ==
    {[a |-> [size |-> x, kids |-> k], b |-> [size |-> y, kids |-> l]] :
        x \in {1, 3}, y \in {0, 1}, k \in {<<>>, <<"b">>, <<"b", "b">>, <<"a">>}, l \in {<<>>, <<"a">>}}
LayoutInputs ==
    LayoutImages({"narc", "iso9660", "gcm", "wii"}, {5, 6}, {0, 1}, {FALSE}, {0})
    \cup LayoutImages({"xdvdfs"}, {7, 8}, {0, 1}, BOOLEAN, {0})
    \cup {i \in LayoutImages({"nds"}, {5, 6}, {0, 1, 2}, {FALSE}, {0, 3, 4}) :
            \A p \in DOMAIN i.img : i.img[p] = 2 => p - 1 = i.ntr}
    \cup [kind : {"walk"}, format : {"nds", "iso9660", "xdvdfs"}, root : {"a"}, graph : LayoutGraphs]
LayoutAtRest ==
    [kind |-> "walk", format |-> "nds", root |-> "a",
     graph |-> [a |-> [size |-> 1, kids |-> <<>>], b |-> [size |-> 0, kids |-> <<>>]]]

\* Catalog: three revisions whose claims meet by different digests.
CatalogClaim(s, c, m, h) == [size |-> s, crc32 |-> c, md5 |-> m, sha1 |-> h]
CatalogDats ==
    [d1 |-> <<CatalogClaim("11", "c", "", ""), CatalogClaim("", "", "", "D"),
              CatalogClaim("", "", "", "")>>,
     d2 |-> <<CatalogClaim("11", "c", "mA", ""), CatalogClaim("11", "", "mA", "hA"),
              CatalogClaim("11", "c", "", "hB")>>,
     d3 |-> <<CatalogClaim("", "", "mB", "hB"), CatalogClaim("", "", "", "hA")>>]
CatalogStock == <<"x", "a", "y">>
CatalogAlias ==
    [a |-> CatalogClaim("11", "c", "mA", "hA"), x |-> CatalogClaim("1", "cx", "mx", "hx"),
     y |-> CatalogClaim("11", "cy", "my", "hy")]
CatalogDisk == [a |-> "", x |-> "D", y |-> "D"]

\* Render: two entries in one or two families, picks whose names collide after
\* cleaning, MAME-like sets with devices, and pairs of revisions.
RenderEntry(i, b, p, g, h) ==
    [id |-> i, base |-> b, parent |-> p, group |-> g, required |-> 1, held |-> h, dev |-> 0,
     rank |-> i, rev |-> 0]
RenderCasts ==
    {{RenderEntry(1, "x", 0, "", 1), RenderEntry(2, "y", 0, "", 1)},
     {RenderEntry(1, "x", 2, "", 0), RenderEntry(2, "y", 0, "", 1)},
     {RenderEntry(1, "x", 0, "g", 1), RenderEntry(2, "x", 1, "", 1)}}
RenderEntryName == <<<<"a", ".", "b">>, <<"N", "a", "R">>>>
RenderClaims ==
    {<<"a">>, <<"a", ".", "b">>, <<"a", "?">>, <<"a", " ", "b", "c", "c">>, <<".", ".">>,
     <<"N", "a", ".", "b">>, <<"c", "R", ".", "b">>}
RenderPicks ==
    {[id |-> i, entry |-> RenderEntryName[i], claim |-> c, blob |-> b, huge |-> FALSE] :
        i \in 1 .. 2, c \in RenderClaims, b \in {"#1", "#2"}}
    \cup {[id |-> 1, entry |-> RenderEntryName[1], claim |-> <<"a">>, blob |-> "#1", huge |-> TRUE]}
RenderPairs ==
    {[kind |-> "layout", entries |-> e, strict |-> FALSE, picks |-> <<p, q>>, template |-> t, fat |-> f] :
        e \in RenderCasts, p \in RenderPicks, q \in RenderPicks, t \in {"entry", "flat", "bucket"},
        f \in BOOLEAN}
RenderFew == {p \in RenderPicks : p.claim \in {<<"a">>, <<"a", "?">>} /\ p.id = 1}
RenderTriples ==
    {[kind |-> "layout", entries |-> e, strict |-> TRUE, picks |-> <<p, q, r>>, template |-> t,
      fat |-> TRUE] :
        e \in RenderCasts, p \in RenderFew, q \in RenderFew, r \in RenderFew, t \in {"entry", "flat"}}
RenderMachine(dev, of, refs, held) ==
    [device |-> dev, bios |-> FALSE, of |-> of, refs |-> refs, held |-> held]
RenderFile(f, m, b) == [file |-> f, merge |-> m, blob |-> b]
RenderSets ==
    {[kind |-> "sets", mode |-> m, entries |->
        [m |-> RenderMachine(FALSE, om, rm, {RenderFile("f", "", "#1")}),
         n |-> RenderMachine(FALSE, on, {}, {RenderFile("f", "f", "#1"), RenderFile("g", "", "#2")}),
         d1 |-> RenderMachine(TRUE, "", r1, {RenderFile("h", "", "#1")}),
         d2 |-> RenderMachine(TRUE, "", r2, {RenderFile("k", "", "#2")})]] :
        m \in {"non-merged", "split", "merged"}, om \in {"", "n"}, on \in {"", "m"},
        rm \in SUBSET {"d1", "d2", "lost"}, r1 \in SUBSET {"d1", "d2"}, r2 \in SUBSET {"d1"}}
RenderRevisions ==
    UNION {[1 .. n -> [name : {"x", "y"}, key : {"", "k"}, print : {"p", "q"}]] : n \in 0 .. 2}
RenderDiffs == [kind : {"diff"}, old : RenderRevisions, new : RenderRevisions]
RenderJobs ==
    {j \in RenderPairs : j.picks[1].id <= j.picks[2].id} \cup RenderTriples \cup RenderSets
    \cup RenderDiffs
RenderAtRest == [kind |-> "diff", old |-> <<>>, new |-> <<>>]

\* Image: short, long and illegal names; "long.a" and "long.b" share the mangled stem
\* whose first tail is another file's plain name.
ImageName(f, p, l, e, t, u, g) ==
    [fold |-> f, plain |-> p, lossy |-> l, exact |-> e, tails |-> t, units |-> u, legal |-> g]
ImageTails(stem) == CASE stem = "A" -> <<"A~1", "A~2">>
                      [] stem = "D" -> <<"D~1", "D~2">>
                      [] stem = "BAD" -> <<"BAD~1">>
                      [] OTHER -> <<"LONG~1", "LONG~2", "LONG~3">>
ImageNameOf ==
    [n \in {"A", "a", "D", "long.a", "long.b", "LONG~1", "bad."} |->
        CASE n = "A" -> ImageName("A", "A", FALSE, TRUE, ImageTails("A"), 1, TRUE)
          [] n = "a" -> ImageName("A", "A", FALSE, FALSE, ImageTails("A"), 1, TRUE)
          [] n = "D" -> ImageName("D", "D", FALSE, TRUE, ImageTails("D"), 1, TRUE)
          [] n = "long.a" -> ImageName("LONG.A", "LONG", TRUE, FALSE, ImageTails("LONG"), 6, TRUE)
          [] n = "long.b" -> ImageName("LONG.B", "LONG", TRUE, FALSE, ImageTails("LONG"), 7, TRUE)
          [] n = "LONG~1" -> ImageName("LONG~1", "LONG~1", FALSE, TRUE, ImageTails("LONG"), 6, TRUE)
          [] n = "bad." -> ImageName("BAD.", "BAD", TRUE, FALSE, ImageTails("BAD"), 4, FALSE)]
ImageNameOrder == <<"A", "D", "LONG~1", "a", "bad.", "long.a", "long.b">>
ImagePathOrder ==
    <<<<"A">>, <<"D", "A">>, <<"D", "D", "long.a">>, <<"D", "long.a">>, <<"LONG~1">>, <<"a">>,
      <<"bad.">>, <<"long.a">>, <<"long.b">>>>
ImageChecksum ==
    [s \in {"A", "A~1", "A~2", "D", "D~1", "D~2", "LONG~1", "LONG~2", "LONG~3", ".", "..", "LABEL"} |->
        IF s \in {"A", "D"} THEN 1 ELSE 2]
ImageBlobLen == [h1 |-> 5, h2 |-> 4, h3 |-> 0]
ImageRows(p) ==
    {[path |-> p, hash |-> "h1", size |-> 5], [path |-> p, hash |-> "h3", size |-> 0]}
    \cup {[path |-> p, hash |-> "h2", size |-> z] :
            z \in IF p \in {<<"D", "A">>, <<"A">>} THEN {4, 6} ELSE {}}
ImageFiles == DOMAIN ImagePathOrder
ImageSnapshots ==
    UNION {{<<a>> : a \in ImageRows(ImagePathOrder[i])} : i \in ImageFiles}
    \cup UNION {{<<a, b>> : a \in ImageRows(ImagePathOrder[x[1]]), b \in ImageRows(ImagePathOrder[x[2]])} :
                  x \in {y \in ImageFiles \X ImageFiles : y[1] # y[2] /\ y[1] <= y[2] + 1}}
    \cup UNION {{<<a, b, c>> : a \in ImageRows(ImagePathOrder[x[1]]),
                               b \in ImageRows(ImagePathOrder[x[2]]),
                               c \in ImageRows(ImagePathOrder[x[3]])} :
                  x \in {y \in ImageFiles \X ImageFiles \X ImageFiles : y[1] < y[2] /\ y[2] < y[3]}}
ImageVolumes ==
    {[label |-> l, partition |-> l, cluster |-> c] : l \in BOOLEAN, c \in {2, 4}}
ImageAtRest == <<[path |-> <<"A">>, hash |-> "h1", size |-> 5]>>

VARIABLES
    part,   \* the part this behaviour is about
    input, stack, visited, lout, held, computed, revs, current, ident, nextId, links, status,
    import, answer, eval, view, made, job, next, rows, out, snap, volume, mint, literals,
    recipes, tag, faults, chd, rd, verdict, claim, piece, bits, plain

Ly == INSTANCE Layout WITH LInputs <- LayoutInputs
Ct == INSTANCE Catalog WITH Dats <- CatalogDats, Stock <- CatalogStock, Alias <- CatalogAlias,
      Disk <- CatalogDisk
Rn == INSTANCE Render WITH Jobs <- RenderJobs
Im == INSTANCE Image WITH NameOf <- ImageNameOf, NameOrder <- ImageNameOrder, PathOrder <- ImagePathOrder,
      Checksum <- ImageChecksum, Snapshots <- ImageSnapshots, Volumes <- ImageVolumes,
      BlobLen <- ImageBlobLen

Ch == INSTANCE Chd
Cc == INSTANCE ChdCodecs

\* Chd: what the fixture writer makes of short data and long runs in every version, the
\* same cut short, and files with references, lies, loops and damage.
ChdFile(cells, sound, cut) == [cells |-> cells, sound |-> sound, cut |-> cut]
ChdMetas ==
    LET m(t, s, n) == [tag |-> t, sum |-> s, data |-> [i \in 1 .. n |-> Ch!Plain(1)]]
    IN  {<<>>, <<m("a", TRUE, 1)>>, <<m("b", TRUE, 1), m("a", FALSE, 0), m("b", TRUE, 1)>>}
ChdSpecs ==
    [version : 1 .. 5, codec : {"none", "zlib"}, hunk : {2}, unit : {1}, metas : ChdMetas]
ChdOf(cells) == [i \in DOMAIN cells |-> Ch!Plain(cells[i])]
ChdLong == {[i \in 1 .. n |-> (i \div k) % 2] : n \in {9, 14, 17}, k \in {1, 8, 20}}
ChdShort == UNION {[1 .. n -> {0, 1}] : n \in 0 .. 3} \cup {<<0, 0, 1, 0, 1>>}
ChdWritten ==
    {ChdFile(Ch!Build(s, ChdOf(d)), TRUE, FALSE) : s \in ChdSpecs, d \in ChdShort \cup ChdLong}
ChdCuts ==
    UNION {LET f == Ch!Build(s, ChdOf(d)) IN {ChdFile(SubSeq(f, 1, n), FALSE, TRUE) : n \in 0 .. Len(f) - 1} :
             s \in ChdSpecs, d \in {<<0, 0, 1>>, <<1, 1, 0, 1>>}}
ChdHeads(f) ==
    LET h == f[1]
        w == [i \in DOMAIN h.raw |-> Ch!Plain(1)]
    IN  {[h EXCEPT !.magic = FALSE], [h EXCEPT !.version = 6], [h EXCEPT !.sized = FALSE], [h EXCEPT !.hunk = 0],
         [h EXCEPT !.total = 0], [h EXCEPT !.total = @ + 9], [h EXCEPT !.comp = 9], [h EXCEPT !.comp = 3],
         [h EXCEPT !.parent = TRUE], [h EXCEPT !.raw = w], [h EXCEPT !.all = <<w, h.all[2]>>],
         [h EXCEPT !.md5 = w], [h EXCEPT !.logical = @ - 1]}
        \cup (IF h.version < 5 THEN {[h EXCEPT !.logical = @ + 4]} ELSE {})
ChdBase(v, codec, cells) ==
    Ch!Build([version |-> v, codec |-> codec, hunk |-> 2, unit |-> 1,
              metas |-> <<[tag |-> "a", sum |-> TRUE, data |-> <<Ch!Plain(1)>>]>>], ChdOf(cells))
ChdLies ==
    UNION {LET f == ChdBase(v, c, <<0, 0, 1, 0>>)
           IN  {ChdFile([f EXCEPT ![1] = h], FALSE, FALSE) : h \in ChdHeads(f)} :
             v \in 1 .. 5, c \in {"none", "zlib"}}
ChdFlips ==
    UNION {LET f == ChdBase(v, c, <<0, 1, 1, 1>>)
           IN  {ChdFile([f EXCEPT ![i] = Ch!Plain(2)], FALSE, FALSE) :
                  i \in {j \in DOMAIN f : DOMAIN f[j] = {"z", "v"}}} : v \in 1 .. 4, c \in {"none", "zlib"}}
\* Versions 3 and 4: two of four hunks refer elsewhere, are tiled, or are of no use.
ChdRefers ==
    UNION {LET f == ChdBase(v, "none", <<0, 1, 1, 1, 0, 1, 1, 1>>)
               e(t, o) == [offset |-> o, length |-> 2, crc |-> <<>>, type |-> t]
           IN  {ChdFile([f EXCEPT ![i + 1] = e(4, o), ![j + 1] = e(t, p)], FALSE, FALSE) :
                  i \in 1 .. 4, o \in 0 .. 5, j \in 1 .. 4, t \in 1 .. 7, p \in 0 .. 2} : v \in {3, 4}}
ChdDeep ==
    {LET f == ChdBase(4, "none", <<0, 1, 0, 1, 0, 1, 0, 1>>)
     IN  ChdFile([i \in DOMAIN f |-> IF i \in 3 .. 5 THEN [f[i] EXCEPT !.type = 4, !.offset = i - 3] ELSE f[i]],
                 FALSE, FALSE)}
\* Version 5: hand-made maps with references, parents, both escapes and a bad type.
ChdMap(kinds, second, entries, payload, cells) ==
    [kinds |-> kinds, second |-> second, entries |-> entries, payload |-> payload, cells |-> cells]
ChdV5(m) ==
    LET f == ChdBase(5, "zlib", m.cells)
        symbols == m.kinds \o m.second
        first == 2 + Len(symbols)
        placed(e) == IF e.kind \in {"raw", "zlib"} THEN [e EXCEPT !.offset = @ + first] ELSE e
        h == [f[1] EXCEPT !.meta = 0, !.all = Ch!Combined(@[1], <<>>)]
    IN  ChdFile(<<h, [len |-> Len(symbols), first |-> first,
                      crc |-> [i \in DOMAIN m.entries |-> placed(m.entries[i])]]>>
                \o symbols \o m.payload, FALSE, FALSE)
ChdMaps ==
    LET p(b) == Ch!Plain(b)
        x == <<p(0), p(0)>>
        y == <<p(0), p(1)>>
        raw(at) == Ch!Entry("raw", at, 2, y)
        self(i) == Ch!Entry("self", i, 0, <<>>)
        parent(i) == Ch!Entry("parent", i, 0, <<>>)
        run(kinds, n) ==
          ChdMap(kinds, [i \in 1 .. n |-> y], [i \in 1 .. n |-> raw(2 * (i - 1))],
                 [i \in 1 .. 2 * n |-> p((i + 1) % 2)], [i \in 1 .. 2 * n |-> (i + 1) % 2])
        two(kind, e, more) == ChdMap(<<4, kind>>, <<y>> \o more, <<raw(0), e>>, y, <<0, 1, 0, 1>>)
    IN  {ChdV5(m) : m \in
          {ChdMap(<<0, 4, 5, 9, 10>>, <<1, x, y, 0>>,
                  <<Ch!Entry("zlib", 0, 1, x), raw(1), self(0), self(0), self(1)>>,
                  <<Ch!Deflated(x)>> \o y, <<0, 0, 0, 1, 0, 0, 0, 0, 0, 1>>),
           run(<<4, 8, 0, 1>>, 7), run(<<4, 7, 2>>, 3),
           two(6, parent(3), <<3>>), two(11, parent(2), <<>>), two(12, parent(0), <<>>), two(13, parent(2), <<>>),
           two(14, self(0), <<>>), two(5, self(0), <<0>>), two(5, self(1), <<1>>), two(10, self(0), <<>>),
           two(4, raw(0), <<>>)}}
\* Metadata that points at itself, at its predecessor, or past the end.
ChdChains ==
    UNION {LET f == Ch!Build([version |-> v, codec |-> "none", hunk |-> 2, unit |-> 1,
                              metas |-> [i \in 1 .. 2 |-> [tag |-> "a", sum |-> TRUE, data |-> <<>>]]],
                             ChdOf(<<0, 1>>))
           IN  {ChdFile([f EXCEPT ![Len(f)] = [f[Len(f)] EXCEPT !.next = n, !.len = l]], FALSE, FALSE) :
                  n \in {0, Len(f) - 2, Len(f) - 1, Len(f), Len(f) + 3}, l \in 0 .. 1} : v \in 3 .. 5}
ChdFiles ==
    ChdWritten \cup ChdCuts \cup ChdLies \cup ChdFlips \cup ChdRefers \cup ChdDeep \cup ChdMaps \cup ChdChains
ChdAtRest == ChdFile(<<>>, FALSE, TRUE)

\* ChdCodecs: bit streams, trees in both export forms, CD hunks and FLAC frames, sound
\* and damaged.
CodecOp(d, n) == [do |-> d, n |-> n]
CodecStreams ==
    [kind : {"bits"}, data : UNION {[1 .. n -> {0, 2, 3}] : n \in {0, 1, 3}},
     ops : [1 .. 3 -> {CodecOp("read", 0), CodecOp("read", 1), CodecOp("read", 3), CodecOp("read", 7),
                       CodecOp("unary", 3), CodecOp("align", 0)}]]
CodecRles ==
    LET lit(l) == IF l = 1 THEN <<1, 1>> ELSE <<l>>
    IN  {[kind |-> "rle", tokens |-> lit(a) \o lit(b) \o lit(c) \o lit(d) \o <<1, v, r>>] :
            a \in 0 .. 4, b \in 0 .. 3, c \in 0 .. 3, d \in 0 .. 3, v \in {0, 2, 3}, r \in 0 .. 2}
        \cup [kind : {"rle"}, tokens : {<<>>, <<1>>, <<1, 1, 1, 1, 1, 1, 1, 1, 1, 1, 1, 1, 1, 1, 1, 1>>}]
CodecHuffs ==
    LET flat == Cc!FlatTokens
    IN  {[kind |-> "huff", tokens |-> SubSeq(flat, 1, n)] : n \in 0 .. Len(flat)}
        \cup {[kind |-> "huff", tokens |-> [flat EXCEPT ![i] = v]] : i \in DOMAIN flat, v \in 0 .. 3}
CodecCounts ==
    {[kind |-> "counts", counts |-> <<a, b, c, d, e, f, f, f>>] :
        a \in {0, 1, 2, 5}, b \in {0, 1, 2, 5}, c \in {0, 1, 9}, d \in {0, 1, 2}, e \in {0, 3}, f \in {0, 1}}
CodecCd(c, hunk, src, n, sound) ==
    [kind |-> "cd", codec |-> c, hunk |-> hunk, src |-> src, n |-> n, sound |-> sound]
CodecCds ==
    LET hunks == UNION {[1 .. n -> [sector : 0 .. 3, sub : 0 .. 1]] : n \in 1 .. 2}
        few == {<<[sector |-> 1, sub |-> 1], [sector |-> 3, sub |-> 0]>>}
        all == {"cdzl", "cdlz", "cdfl"}
    IN  {CodecCd(c, h, Cc!CdWrite(c, h), 2 * Len(h), TRUE) : c \in all, h \in hunks}
        \cup UNION {LET src == Cc!CdWrite(c, h)
                    IN  {CodecCd(c, h, SubSeq(src, 1, n), 4, FALSE) : n \in 0 .. Len(src) - 1} : c \in all, h \in few}
        \cup {CodecCd(c, h, Cc!CdWrite(c, h), n, FALSE) : c \in all, h \in few, n \in {3, 5, 6}}
        \cup {CodecCd(c, h, [Cc!CdWrite(c, h) EXCEPT ![2].len = l], 4, FALSE) :
                 c \in {"cdzl", "cdlz"}, h \in few, l \in {0, 2, 3}}
CodecHow(t, o, po, m, p, w) ==
    [type |-> t, order |-> o, porder |-> po, method |-> m, param |-> p, raw |-> 8, wasted |-> w,
     precision |-> 3, shift |-> 1, coeffs |-> <<3, -1>>]
CodecHows ==
    {CodecHow("verbatim", 0, 0, 0, 0, 0), CodecHow("fixed", 0, 1, 0, 0, 0), CodecHow("fixed", 1, 1, 0, 1, 0),
     CodecHow("fixed", 2, 0, 1, 2, 0), CodecHow("fixed", 3, 0, 0, 0, 0), CodecHow("fixed", 4, 0, 1, 31, 0),
     CodecHow("lpc", 2, 1, 0, 1, 0), CodecHow("lpc", 2, 0, 0, 15, 0)}
CodecFlac(frames, pcm, want, sound, marker) ==
    [kind |-> "flac", frames |-> frames, pcm |-> pcm, want |-> want, sound |-> sound, marker |-> marker]
CodecPcm(l, r) == FlattenSeq([i \in DOMAIN l |-> <<l[i], r[i]>>])
CodecSides == {<<-4, 3, -1, 2>>, <<3, 3, -4, 0>>}
CodecFlacs ==
    {CodecFlac(<<Cc!FrameOf(l, r, a, how)>>, CodecPcm(l, r), 8, TRUE, "B") :
        l \in [1 .. 4 -> {-4, 3}] \cup {<<-1, 2, 0, -3>>}, r \in CodecSides, a \in {1, 8, 9, 10}, how \in CodecHows}
    \cup {CodecFlac(<<Cc!FrameOf(l, l, 1, CodecHow("constant", 0, 0, 0, 0, w))>>, CodecPcm(l, l), 8, TRUE, "L") :
        l \in {[i \in 1 .. 4 |-> v] : v \in {-4, -2, 2}}, w \in 0 .. 1}
    \cup {CodecFlac(<<Cc!FrameOf(l, r, a, CodecHow("fixed", 1, 0, 0, 0, 1))>>, CodecPcm(l, r), 8, TRUE, "L") :
        l \in {<<-4, 2, -2, 0>>}, r \in {<<2, -4, 0, 2>>}, a \in {1, 8, 9}}
    \cup {CodecFlac(<<Cc!FrameOf(l, r, a, how), Cc!FrameOf(r, l, 1, how)>>, CodecPcm(l, r) \o CodecPcm(r, l), 16,
                    TRUE, "B") :
        l \in CodecSides, r \in CodecSides, a \in {1, 8, 9, 10}, how \in CodecHows}
CodecSpoilt ==
    LET l == <<-4, 3, -1, 2>>
        f == Cc!FrameOf(l, l, 8, CodecHow("fixed", 1, 1, 0, 0, 0))
        g == Cc!FrameOf(l, l, 8, CodecHow("lpc", 2, 1, 0, 0, 0))
        bad(frame) == CodecFlac(<<frame>>, CodecPcm(l, l), 8, FALSE, "B")
    IN  {bad([f EXCEPT !.header.sync = "bad"]), bad([f EXCEPT !.header.number = "bad"]),
         bad([f EXCEPT !.header.block = 0]), bad([f EXCEPT !.header.rate = 15]), bad([f EXCEPT !.header.depth = 24]),
         bad([f EXCEPT !.header.assign = 11]), bad([f EXCEPT !.crc = FALSE]), bad([f EXCEPT !.subs[1].pad = TRUE]),
         bad([f EXCEPT !.subs[1].wasted = SampleBits]), bad([f EXCEPT !.subs[1].type = "reserved"]),
         bad([f EXCEPT !.subs[2].method = 2]), bad([f EXCEPT !.subs[2].porder = 3]),
         bad([f EXCEPT !.subs[2].codes = <<>>]), bad([f EXCEPT !.subs[2].codes[1].q = RunAway + 1]),
         bad([f EXCEPT !.subs[1].codes[1].q = 20]), bad([g EXCEPT !.subs[1].precision = 16]),
         bad([g EXCEPT !.subs[1].shift = -1]),
         CodecFlac(<<f>>, <<>>, 8, FALSE, "?"), CodecFlac(<<f>>, <<>>, 7, FALSE, "B"),
         CodecFlac(<<f>>, <<>>, 6, FALSE, "B"), CodecFlac(<<f>>, <<>>, 10, FALSE, "B")}
CodecPieces ==
    CodecStreams \cup CodecRles \cup CodecHuffs \cup CodecCounts \cup CodecCds \cup CodecFlacs \cup CodecSpoilt
CodecAtRest == [kind |-> "huff", tokens |-> <<>>]

ObVars == <<task, got, reader>>
LyVars == <<input, stack, visited, lout>>
CtVars == <<held, computed, revs, current, ident, nextId, links, status, import, answer, eval,
    view, made>>
RnVars == <<job, next, rows, out>>
ImVars == <<snap, volume, mint, literals, recipes, tag, faults>>
ChVars == <<chd, rd, verdict, claim>>
CcVars == <<piece, bits, plain>>
allVars == <<part, ObVars, LyVars, CtVars, RnVars, ImVars, ChVars, CcVars>>

\* The parts a behaviour is not about rest in one initial state.
ObRests == task = ObjectAtRest /\ got = Bad /\ reader = Unread
LyRests == input = LayoutAtRest /\ visited = <<>> /\ lout = Ly!Pending /\ stack = <<>>
CtRests == Ct!CtInit
RnRests == job = RenderAtRest /\ next = 0 /\ rows = <<>> /\ out = Rn!None
ImRests == snap = ImageAtRest /\ volume = 0 /\ mint = Im!Idle /\ literals = {} /\ recipes = {} /\ tag = <<>> /\ faults = 0
ChRests == Ch!ChdInit({ChdAtRest})
CcRests == Cc!CodecInit({CodecAtRest})

SuiteInit ==
    \/ part = "objects" /\ LyRests /\ CtRests /\ RnRests /\ ImRests /\ ChRests /\ CcRests /\ ObInit
    \/ part = "layout" /\ ObRests /\ CtRests /\ RnRests /\ ImRests /\ ChRests /\ CcRests /\ Ly!LyInit
    \/ part = "catalog" /\ ObRests /\ LyRests /\ RnRests /\ ImRests /\ ChRests /\ CcRests /\ Ct!CtInit
    \/ part = "render" /\ ObRests /\ LyRests /\ CtRests /\ ImRests /\ ChRests /\ CcRests /\ Rn!RInit
    \/ part = "image" /\ ObRests /\ LyRests /\ CtRests /\ RnRests /\ ChRests /\ CcRests /\ Im!ImInit
    \/ part = "chd" /\ ObRests /\ LyRests /\ CtRests /\ RnRests /\ ImRests /\ CcRests /\ Ch!ChdInit(ChdFiles)
    \/ part = "codecs" /\ ObRests /\ LyRests /\ CtRests /\ RnRests /\ ImRests /\ ChRests /\ Cc!CodecInit(CodecPieces)

ObStep ==
    /\ part = "objects" /\ ObNext
    /\ UNCHANGED <<part, LyVars, CtVars, RnVars, ImVars, ChVars, CcVars>>
LyStep ==
    /\ part = "layout" /\ Ly!LyNext
    /\ UNCHANGED <<part, ObVars, CtVars, RnVars, ImVars, ChVars, CcVars>>
CtStep ==
    /\ part = "catalog" /\ Ct!CtNext
    /\ UNCHANGED <<part, ObVars, LyVars, RnVars, ImVars, ChVars, CcVars>>
RnStep ==
    /\ part = "render" /\ Rn!RNext
    /\ UNCHANGED <<part, ObVars, LyVars, CtVars, ImVars, ChVars, CcVars>>
ImStep ==
    /\ part = "image" /\ Im!ImNext
    /\ UNCHANGED <<part, ObVars, LyVars, CtVars, RnVars, ChVars, CcVars>>
ChStep ==
    /\ part = "chd" /\ Ch!ChdNext
    /\ UNCHANGED <<part, ObVars, LyVars, CtVars, RnVars, ImVars, CcVars>>
CcStep ==
    /\ part = "codecs" /\ Cc!CodecNext
    /\ UNCHANGED <<part, ObVars, LyVars, CtVars, RnVars, ImVars, ChVars>>

SuiteNext == ObStep \/ LyStep \/ CtStep \/ RnStep \/ ImStep \/ ChStep \/ CcStep

Spec == SuiteInit /\ [][SuiteNext]_allVars

\* Catalogue and views: identities and current revisions are coherent, every pick is served under
\* a path of its own, a rendered set stands alone, a diff accounts for every entry.
CatalogFaithful ==
    /\ part = "catalog" => Ct!IdentityCoherent /\ Ct!CurrentHasRows
    /\ part = "render" => Rn!EveryPickServed /\ Rn!SetsStandAlone /\ Rn!DiffAccounts

\* Formats: a split covers its image exactly and trims nothing that matters, directories are
\* walked once, an encoded object has one form and all readers agree, a FAT image reads back, a
\* CHD is linked only for what was decompressed, and its codecs give back what was written.
FormatsExact ==
    /\ part = "layout" => Ly!LayoutExact /\ Ly!TrimSafe /\ Ly!WalkedOnce
    /\ part = "objects" => Canonical /\ ReadersAgree
    /\ part = "image" => Im!ImageReadsBack
    /\ part = "chd" => Ch!LinkEarned /\ Ch!WriterAgrees /\ Ch!CutNeverHolds
    /\ part = "codecs" => Cc!BitsExact /\ Cc!CodesExact /\ Cc!TreeWriterAgrees /\ Cc!CdExact /\ Cc!FlacExact

=============================================================================
