------------------------------- MODULE Layout -------------------------------
(****************************************************************************)
(* The layout readers of the disc and cartridge images (datboi-ingest nds,  *)
(* narc, iso9660, xdvdfs, gcm, wii): walk the directory tables of an image, *)
(* then carve it into regions that cover it exactly.  What a table says is  *)
(* an input, since it comes from the image; every size is scaled down.      *)
(* Offsets count from 0, so byte p of an image is img[p + 1].               *)
(****************************************************************************)
EXTENDS Naturals, Sequences, SequencesExt, FiniteSets, TLC

CONSTANTS LInputs,       \* what there is to read: see Walks and Images
          Sector,        \* sector size
          HeadLen,       \* length of the NDS header
          SigLen,        \* length of the RSA block; its magic is the byte 2
          MinPadSplit,   \* pad runs at least this long are split off
          MinJunkRun,    \* junk runs at least this long are recognised
          LiteralCap,    \* longest literal segment
          ScanChunk,     \* bytes scanned at a time
          SecurityRange, \* sectors of a security range
          LMaxPieces, LMaxDepth, LMaxTable

VARIABLES
    input,    \* the image, or the directory graph, with its format
    stack,    \* directories to visit, with their depth
    visited,  \* directories visited, in order
    lout      \* the result so far: [kind, ...]

lyvars == <<input, stack, visited, lout>>

Pending == [kind |-> "pending"]
Refused == [kind |-> "refused"]
\* An unsigned subtraction below zero: a panic, or a read far past the end.
Underflow == [kind |-> "underflow"]

(****************************************************************************)
(* Walks.  A graph gives each directory its size and its subdirectories.    *)
(****************************************************************************)
Visit(d, depth) ==
    /\ visited' = Append(visited, d)
    /\ stack' = [i \in DOMAIN input.graph[d].kids |-> [dir |-> input.graph[d].kids[i], depth |-> depth + 1]]
                \o Tail(stack)
    /\ UNCHANGED lout
Refuse == lout' = Refused /\ UNCHANGED <<stack, visited>>

\* parse_fnt: a directory met twice is no tree.
WalkFnt(d, depth) == IF d \in Range(visited) THEN Refuse ELSE Visit(d, depth)

\* Mutant: a directory met again is walked again.
WalkIsoAgain(d, depth) ==
    LET size == input.graph[d].size IN
    IF depth > LMaxDepth \/ size = 0 \/ size > LMaxTable THEN Refuse ELSE Visit(d, depth)

\* parse_volume of iso9660: depth, empty or oversized extents, and extents
\* referenced twice are refused.
WalkIso(d, depth) ==
    LET size == input.graph[d].size IN
    IF depth > LMaxDepth \/ size = 0 \/ size > LMaxTable \/ d \in Range(visited) THEN Refuse ELSE Visit(d, depth)

\* parse_layout_with of xdvdfs: the same, but an empty directory has no table.
WalkXdvdfs(d, depth) ==
    LET size == input.graph[d].size IN
    IF depth > LMaxDepth THEN Refuse
    ELSE IF size = 0 THEN stack' = Tail(stack) /\ UNCHANGED <<visited, lout>>
    ELSE IF size > LMaxTable \/ d \in Range(visited) THEN Refuse ELSE Visit(d, depth)

Walk ==
    /\ input.kind = "walk" /\ lout = Pending
    /\ IF stack = <<>> THEN lout' = [kind |-> "walked"] /\ UNCHANGED <<stack, visited>>
       ELSE LET t == Head(stack) IN
            \/ input.format = "nds" /\ WalkFnt(t.dir, t.depth)
            \/ input.format = "iso9660" /\ WalkIso(t.dir, t.depth)
            \/ input.format = "xdvdfs" /\ WalkXdvdfs(t.dir, t.depth)
    /\ UNCHANGED input

(****************************************************************************)
(* Regions and gaps.                                                        *)
(****************************************************************************)
Bytes(img, start, len) == SubSeq(img, start + 1, start + len)
Whole(s) == \A i \in DOMAIN s : s[i] = s[1]

Residue(start, len) == <<[k |-> IF len <= LiteralCap THEN "literal" ELSE "piece", start |-> start, len |-> len]>>
FillOf(byte, len) == <<[k |-> "fill", byte |-> byte, len |-> len]>>

\* The trailing run of a gap, scanned a chunk at a time: [byte, len].
RECURSIVE ScanRun(_, _, _, _)
ScanRun(img, start, len, run) ==
    IF len = 0 THEN run
    ELSE LET want == IF len < ScanChunk THEN len ELSE ScanChunk
             chunk == Bytes(img, start, want)
             last == chunk[want]
             tail == CHOOSE n \in 1 .. want :
                        /\ \A i \in want - n + 1 .. want : chunk[i] = last
                        /\ n < want => chunk[want - n] # last
         IN  ScanRun(img, start + want, len - want,
                     IF tail = want /\ last = run.byte THEN [run EXCEPT !.len = @ + tail]
                     ELSE [byte |-> last, len |-> tail])

\* Mutant: a run that starts inside the gap is taken for the whole gap.
ClassifyGapAllPad(img, start, len) ==
    LET run == ScanRun(img, start, len, [byte |-> 0, len |-> 0]) IN
    IF len = 0 THEN <<>>
    ELSE IF run.len >= MinPadSplit \/ run.len = len THEN FillOf(run.byte, len)
    ELSE Residue(start, len)

\* classify_gap: fill, residue with a pad run behind it, or residue.
ClassifyGap(img, start, len) ==
    LET run == ScanRun(img, start, len, [byte |-> 0, len |-> 0]) IN
    IF len = 0 THEN <<>>
    ELSE IF run.len = len THEN FillOf(run.byte, len)
    ELSE IF run.len >= MinPadSplit THEN Residue(start, len - run.len) \o FillOf(run.byte, run.len)
    ELSE Residue(start, len)

(****************************************************************************)
(* The classifiers of gcm and wii, and of xdvdfs, work on runs.             *)
(****************************************************************************)
\* push: a run continues the one before it.
PushRun(runs, next) ==
    IF runs = <<>> THEN <<next>>
    ELSE LET p == runs[Len(runs)]
             joins == p.k = next.k /\ (p.k = "fill" => p.byte = next.byte) /\ p.start + p.len = next.start
         IN  IF joins THEN [runs EXCEPT ![Len(runs)].len = @ + next.len] ELSE Append(runs, next)

\* flush.
RegionOf(run) ==
    CASE run.k = "stream"  -> <<[k |-> "extern", start |-> run.start, len |-> run.len]>>
      [] run.k = "fill"    -> FillOf(run.byte, run.len)
      [] run.k = "residue" -> Residue(run.start, run.len)
Flushed(runs) == FlattenSeq([i \in DOMAIN runs |-> RegionOf(runs[i])])

\* The junk generator, addressed by position in the image (external).
JunkAt(p) == (p + p \div 3) % 2

\* Length of the run at p on which `same` holds of every position.
RunAt(n, p, same(_)) ==
    CHOOSE r \in 0 .. n - p : (\A i \in p .. p + r - 1 : same(i)) /\ (p + r < n => ~same(p + r))

\* classify_chunk: chunk sits at abs, within one sector.
RECURSIVE ChunkRuns(_, _, _, _)
ChunkRuns(abs, chunk, p, runs) ==
    LET n == Len(chunk)
        eq(q)  == RunAt(n, q, LAMBDA i : chunk[i + 1] = JunkAt(abs + i))
        uni(q) == RunAt(n, q, LAMBDA i : chunk[i + 1] = chunk[q + 1])
        junk(q) == eq(q) >= MinJunkRun \/ eq(q) = n - q
        fill(q) == uni(q) >= MinPadSplit \/ uni(q) = n - q
        stop == CHOOSE q \in p + 1 .. n : (q = n \/ junk(q) \/ fill(q)) /\ \A s \in p + 1 .. q - 1 : ~junk(s) /\ ~fill(s)
    IN  IF p = n THEN runs
        ELSE IF junk(p) THEN ChunkRuns(abs, chunk, p + eq(p), PushRun(runs, [k |-> "stream", start |-> abs + p, len |-> eq(p)]))
        ELSE IF fill(p) THEN ChunkRuns(abs, chunk, p + uni(p), PushRun(runs,
                                 [k |-> "fill", byte |-> chunk[p + 1], start |-> abs + p, len |-> uni(p)]))
        ELSE ChunkRuns(abs, chunk, stop, PushRun(runs, [k |-> "residue", start |-> abs + p, len |-> stop - p]))

\* Classifier::classify of gcm: reads that end on sectors, chunks within one.
RECURSIVE GapRuns(_, _, _, _)
GapRuns(img, pos, end, runs) ==
    IF pos = end THEN runs
    ELSE LET room == Sector - (pos % Sector)
             n == IF room < end - pos THEN room ELSE end - pos
         IN  GapRuns(img, pos + n, end, ChunkRuns(pos, Bytes(img, pos, n), 0, runs))
GcmGap(img, start, len) == Flushed(GapRuns(img, start, start + len, <<>>))

\* The filler generator of a seed: sector number n of its stream (external).
StreamSector(n) == [i \in 1 .. Sector |-> (n + i * (n + 1)) % 2]

\* classify_sector of xdvdfs: the stream's next sector; the one behind a
\* security range, if a zero run of exactly that length is pending; fill; residue.
ClassifySector(cls, sector, abs, base, seeded) ==
    LET last == cls.runs[Len(cls.runs)]
        secure == /\ cls.runs # <<>> /\ last.k = "fill" /\ last.byte = 0
                  /\ last.start >= base /\ last.start % Sector = 0 /\ last.len = SecurityRange * Sector
                  /\ StreamSector(cls.pos + SecurityRange) = sector
        stream(n) == [runs |-> PushRun(cls.runs, [k |-> "stream", start |-> n * Sector, len |-> Sector]), pos |-> n + 1]
    IN  IF seeded /\ abs >= base /\ secure THEN stream(cls.pos + SecurityRange)
        ELSE IF seeded /\ abs >= base /\ StreamSector(cls.pos) = sector THEN stream(cls.pos)
        ELSE [cls EXCEPT !.runs = PushRun(@, IF Whole(sector)
                                             THEN [k |-> "fill", byte |-> sector[1], start |-> abs, len |-> Sector]
                                             ELSE [k |-> "residue", start |-> abs, len |-> Sector])]

\* Classifier::classify of xdvdfs: whole sectors where aligned, scraps elsewhere.
RECURSIVE SectorRuns(_, _, _, _, _)
SectorRuns(in, pos, end, base, cls) ==
    IF pos = end THEN cls
    ELSE IF pos % Sector = 0 /\ end - pos >= Sector
    THEN SectorRuns(in, pos + Sector, end, base, ClassifySector(cls, Bytes(in.img, pos, Sector), pos, base, in.seeded))
    ELSE LET room == Sector - (pos % Sector)
             n == IF room < end - pos THEN room ELSE end - pos
             scrap == Bytes(in.img, pos, n)
         IN  SectorRuns(in, pos + n, end, base, [cls EXCEPT !.runs = PushRun(@,
                 IF Whole(scrap) THEN [k |-> "fill", byte |-> scrap[1], start |-> pos, len |-> n]
                 ELSE [k |-> "residue", start |-> pos, len |-> n])])

(****************************************************************************)
(* Declared ranges, [start, len, literal], and the carving.                 *)
(****************************************************************************)
Range3(start, len) == [start |-> start, len |-> len, literal |-> FALSE]
EndOf(d) == d.start + d.len
Sorted(ds) == SortSeq(ds, LAMBDA a, b : a.start < b.start \/ (a.start = b.start /\ a.len < b.len))
Overlaps(ds) == \E i \in 1 .. Len(ds) - 1 : ds[i + 1].start < EndOf(ds[i])

\* dedup_by on start and length.
Deduped(ds) == SelectSeq([i \in DOMAIN ds |-> [d |-> ds[i], keep |-> i = 1 \/ ds[i].start # ds[i - 1].start \/ ds[i].len # ds[i - 1].len]],
                         LAMBDA e : e.keep)
Dedup(ds) == LET kept == Deduped(ds) IN [i \in DOMAIN kept |-> kept[i].d]

Down(n) == n - (n % Sector)
Up(n) == Down(n + Sector - 1)
AtLeast(a, b) == IF a < b THEN b ELSE a
AtMost(a, b) == IF a < b THEN a ELSE b

\* Past the piece cap, ranges become sector-aligned extents.  gcm cuts an
\* extent it opens at the end of the image; none cuts one that it extends.
Coalesce(ds, total, cut) ==
    FoldLeft(LAMBDA runs, d :
        IF runs # <<>> /\ Down(d.start) <= EndOf(runs[Len(runs)])
        THEN [runs EXCEPT ![Len(runs)].len = AtLeast(Up(EndOf(d)), EndOf(runs[Len(runs)])) - runs[Len(runs)].start]
        ELSE Append(runs, Range3(Down(d.start), IF cut THEN AtMost(Up(EndOf(d)) - Down(d.start), total - Down(d.start))
                                                ELSE Up(EndOf(d)) - Down(d.start))),
        <<>>, ds)

Declared(d) == <<[k |-> IF d.literal THEN "literal" ELSE "piece", start |-> d.start, len |-> d.len]>>

\* The loop every reader ends with: a gap, a range, a gap, ...; `cursor` only
\* ever moves forward, or the subtraction that measures the gap underflows.
\* `junk`: gaps may be filled with GameCube junk.
Carve(img, from, before, ds, junk) ==
    LET total == Len(img)
        gap(s, l) == IF junk THEN GcmGap(img, s, l) ELSE ClassifyGap(img, s, l)
        step(acc, d) ==
            IF acc.bad \/ d.start < acc.cursor THEN [acc EXCEPT !.bad = TRUE]
            ELSE [acc EXCEPT !.regions = @ \o gap(acc.cursor, d.start - acc.cursor) \o Declared(d), !.cursor = EndOf(d)]
        acc == FoldLeft(step, [cursor |-> from, regions |-> before, bad |-> FALSE], ds)
    IN  IF acc.bad \/ total < acc.cursor THEN Underflow
        ELSE [kind |-> "layout", regions |-> acc.regions \o gap(acc.cursor, total - acc.cursor)]

ResidualBytes(regions, ds) ==
    FoldLeft(LAMBDA n, r : IF r.k \in {"literal", "piece"} /\ ~\E i \in DOMAIN ds : ds[i].start = r.start THEN n + r.len ELSE n,
             0, regions)

ResidueFloor == 2 * Sector

\* Excess residue is a refusal too.
Bounded(l, ds, most) == IF l.kind = "layout" /\ ResidualBytes(l.regions, ds) > most THEN Refused ELSE l

\* parse_layout of nds: the header is a literal; the RSA block is a piece of
\* its own when its magic is at ntr_size and it is clear of its neighbours.
NdsRanges(in) ==
    LET ds == Sorted(in.ranges)
        n == Len(in.img)
        at == in.ntr
        sig == Range3(at, SigLen)
    IN  IF at + SigLen <= n /\ in.img[at + 1] = 2 /\ \A i \in DOMAIN ds : EndOf(ds[i]) <= at \/ at + SigLen <= ds[i].start
        THEN Sorted(Append(ds, sig)) ELSE ds
Nds(in) ==
    LET n == Len(in.img)
        ds == NdsRanges(in)
        head == <<[k |-> "literal", start |-> 0, len |-> HeadLen]>>
        ranged == \A i \in DOMAIN in.ranges : in.ranges[i].start >= HeadLen /\ EndOf(in.ranges[i]) <= n
    IN  IF ~ranged \/ Overlaps(Sorted(in.ranges)) THEN Refused
        ELSE Bounded(Carve(in.img, HeadLen, head, ds, FALSE), Append(ds, Range3(0, HeadLen)), n \div 4)

\* tail_is_pad: everything from the candidate on is fill.
TailIsPad(regions, candidate) ==
    LET ends[i \in 0 .. Len(regions)] == IF i = 0 THEN 0 ELSE ends[i - 1] + regions[i].len
    IN  \A i \in DOMAIN regions : ends[i] > candidate => regions[i].k = "fill"

\* Mutant: the whole of the last region counts as tail, wherever it starts.
TrimLenLoose(in, l) ==
    IF l.kind = "layout" /\ in.ntr >= HeadLen /\ in.ntr < Len(in.img) /\ l.regions[Len(l.regions)].k = "fill" THEN in.ntr ELSE Len(in.img)

\* The trim offered: past every declared range, within the image, before pad only.
TrimLen(in, l) ==
    LET ds == NdsRanges(in)
        candidate == in.ntr + (IF \E i \in DOMAIN ds : ds[i] = Range3(in.ntr, SigLen) /\ in.img[in.ntr + 1] = 2 THEN SigLen ELSE 0)
    IN  IF /\ l.kind = "layout" /\ candidate >= HeadLen /\ candidate < Len(in.img)
           /\ \A i \in DOMAIN ds : EndOf(ds[i]) <= candidate
           /\ TailIsPad(l.regions, candidate)
        THEN candidate ELSE Len(in.img)

\* parse_layout of narc.
Narc(in) ==
    LET n == Len(in.img)
        ds == Sorted(in.ranges)
    IN  IF ds = <<>> \/ (\E i \in DOMAIN ds : EndOf(ds[i]) > n) \/ Overlaps(ds) THEN Refused
        ELSE Bounded(Carve(in.img, 0, <<>>, ds, FALSE), ds, n \div 2)

\* parse_layout of iso9660.
Iso9660(in) ==
    LET n == Len(in.img)
        ds == Dedup(Sorted(in.ranges))
        carved == IF Len(ds) > LMaxPieces THEN Coalesce(ds, n, FALSE) ELSE ds
    IN  IF (\E i \in DOMAIN ds : EndOf(ds[i]) > n) \/ Overlaps(ds) THEN Refused
        ELSE Bounded(Carve(in.img, 0, <<>>, carved, FALSE), carved,
                     AtLeast(n \div 4, ResidueFloor))

\* parse_volume of gcm.
Gcm(in, most) ==
    LET n == Len(in.img)
        ds == Dedup(Sorted(in.ranges))
        carved == IF Len(ds) > most THEN Coalesce(ds, n, TRUE) ELSE ds
    IN  IF (\E i \in DOMAIN ds : EndOf(ds[i]) > n) \/ Overlaps(ds) THEN Refused
        ELSE Carve(in.img, 0, <<>>, carved, TRUE)

\* parse_layout of wii, for the disc itself, which never coalesces.
WiiDisc(in) == Gcm(in, Len(in.ranges))

\* parse_layout_with of xdvdfs: the classifier's place in the stream outlives
\* a gap; the volume descriptor joins after the coalescing.
XCarve(in, ds) ==
    LET n == Len(in.img)
        gap(acc, to) == SectorRuns(in, acc.cursor, to, in.base, [runs |-> <<>>, pos |-> acc.pos])
        step(acc, d) ==
            IF acc.bad \/ d.start < acc.cursor THEN [acc EXCEPT !.bad = TRUE]
            ELSE LET g == gap(acc, d.start)
                 IN  [acc EXCEPT !.regions = @ \o Flushed(g.runs) \o Declared(d), !.cursor = EndOf(d), !.pos = g.pos]
        acc == FoldLeft(step, [cursor |-> 0, regions |-> <<>>, pos |-> 0, bad |-> FALSE], ds)
    IN  IF acc.bad \/ n < acc.cursor THEN Underflow
        ELSE [kind |-> "layout", regions |-> acc.regions \o Flushed(gap(acc, n).runs)]
Xdvdfs(in) ==
    LET n == Len(in.img)
        ds == Dedup(Sorted(in.ranges))
        carved == IF Len(ds) > LMaxPieces THEN Coalesce(ds, n, FALSE) ELSE ds
        vd == [start |-> in.base + Sector, len |-> Sector, literal |-> TRUE]
        all == Sorted(Append(carved, vd))
    IN  IF (\E i \in DOMAIN ds : EndOf(ds[i]) > n) \/ EndOf(vd) > n \/ Overlaps(ds) \/ Overlaps(all) THEN Refused
        ELSE XCarve(in, all)

Parse ==
    /\ input.kind = "image" /\ lout = Pending
    /\ \/ input.format = "nds" /\ lout' = Nds(input)
       \/ input.format = "narc" /\ lout' = Narc(input)
       \/ input.format = "iso9660" /\ lout' = Iso9660(input)
       \/ input.format = "gcm" /\ lout' = Gcm(input, LMaxPieces)
       \/ input.format = "wii" /\ lout' = WiiDisc(input)
       \/ input.format = "xdvdfs" /\ lout' = Xdvdfs(input)
    /\ UNCHANGED <<input, stack, visited>>

LyInit ==
    /\ input \in LInputs /\ visited = <<>> /\ lout = Pending
    /\ stack = IF input.kind = "walk" THEN <<[dir |-> input.root, depth |-> 0]>> ELSE <<>>
LyNext == Walk \/ Parse

(****************************************************************************)
(* Properties.                                                              *)
(****************************************************************************)
\* What mint_decomposition's rebuild recipe makes of the regions.
Rebuild(in, regions) ==
    LET stream(p) == IF in.format = "xdvdfs" THEN StreamSector(p \div Sector)[(p % Sector) + 1] ELSE JunkAt(p)
        part(r) == CASE r.k \in {"piece", "literal"} -> Bytes(in.img, r.start, r.len)
                     [] r.k = "fill" -> [i \in 1 .. r.len |-> r.byte]
                     [] r.k = "extern" -> [i \in 1 .. r.len |-> stream(r.start + i - 1)]
    IN  FlattenSeq([i \in DOMAIN regions |-> part(regions[i])])

\* The regions of a layout rebuild the image, byte for byte.  A reader ends
\* without a layout or a refusal only if it coalesced an image that is not a
\* whole number of sectors, or met the RSA magic inside the NDS header.
LayoutExact ==
    /\ lout.kind = "layout" => Rebuild(input, lout.regions) = input.img
    /\ lout.kind = "underflow" =>
          \/ input.format \in {"iso9660", "gcm", "xdvdfs"} /\ Len(input.img) % Sector # 0 /\ Len(input.ranges) > LMaxPieces
          \/ input.format = "nds" /\ input.ntr < HeadLen

\* A trim cuts off no declared range and not the RSA block behind them.
TrimSafe ==
    input.kind = "image" /\ input.format = "nds" /\ lout.kind = "layout" =>
        LET cut == TrimLen(input, lout) IN
        /\ \A i \in DOMAIN NdsRanges(input) : EndOf(NdsRanges(input)[i]) <= cut
        /\ \A p \in cut + 1 .. Len(input.img) : \E i \in DOMAIN lout.regions : lout.regions[i].k = "fill" /\ lout.regions[i].byte = input.img[p]

\* A walk that is accepted visited every directory it reached, once.
RECURSIVE ReachableFrom(_, _)
ReachableFrom(g, ds) ==
    LET more == ds \cup UNION {Range(g[d].kids) : d \in {e \in ds : g[e].size > 0}}
    IN  IF more = ds THEN {d \in ds : g[d].size > 0} ELSE ReachableFrom(g, more)
WalkedOnce ==
    lout.kind = "walked" =>
        /\ IsInjective(visited)
        /\ input.format # "nds" => Range(visited) = ReachableFrom(input.graph, {input.root})

=============================================================================
