----------------------------- MODULE ChdCodecs ------------------------------
(****************************************************************************)
(* The codecs under a CHD's hunk map (datboi-formats, chd): the bit reader, *)
(* canonical Huffman codes and their two export forms, the CD framing with  *)
(* its regenerated parity, and bare FLAC frames; and the writers of the     *)
(* repository's fixtures.  Each case is one piece to decode.  Deflate and   *)
(* LZMA are libraries: a compressed run is a cell that holds what it        *)
(* unpacks to.                                                              *)
(****************************************************************************)
EXTENDS Integers, Sequences, FiniteSets, SequencesExt

CONSTANTS ByteBits, WordBits,   \* 8 and 32 in the code
          CodeBits, SmallBits,  \* widest code of a tree (16) and of its small tree (6)
          Codes, FlatBits,      \* 256 symbols, 8 bits when they are all alike
          SmallCodes,           \* 24: symbols of a small tree
          Latch,                \* 7: the widest token of a small tree
          SampleBits, Half,     \* 16-bit samples; 32-bit residuals, as 2^31
          RunAway               \* 2^20: the longest unary quotient

VARIABLES piece,   \* what is decoded
          bits,    \* the bit reader, and what was read
          plain    \* what came out: "pending", a refusal, or "done" with its cells

codecvars == <<piece, bits, plain>>

Done(cells) == [is |-> "done", cells |-> cells]
Refused(why) == [is |-> why, cells |-> <<>>]
Pending == Refused("pending")
Malformed == Refused("malformed")

(****************************************************************************)
(* BitReader.                                                               *)
(****************************************************************************)
RECURSIVE Filled(_, _)
Filled(b, data) ==
    IF b.live > WordBits - ByteBits THEN b
    ELSE Filled([b EXCEPT !.pos = @ + 1, !.live = @ + ByteBits,
                          !.buffer = @ + (IF b.pos < Len(data) THEN data[b.pos + 1] ELSE 0)
                                           * 2 ^ (WordBits - ByteBits - b.live)], data)

\* peek: whole bytes are pulled in, zeros behind the end, while they fit.
Peek(b, n, data) == IF n > b.live THEN Filled(b, data) ELSE b

\* Mutant: the word is not shifted.
RemovedUnshifted(b, n) == [b EXCEPT !.live = IF n < @ THEN @ - n ELSE 0]

Removed(b, n) ==
    [b EXCEPT !.buffer = (@ * 2 ^ n) % 2 ^ WordBits, !.live = IF n < @ THEN @ - n ELSE 0]

\* overflowed: asked of the consumed position, in whole bytes.
BytePosition(b) == b.pos - b.live \div ByteBits
Overflowed(b, data) == BytePosition(b) > Len(data)

\* read: an n of zero takes nothing.
ReadN(b, n, data) ==
    IF n = 0 THEN [b EXCEPT !.v = 0]
    ELSE LET p == Peek(b, n, data) IN Removed([p EXCEPT !.v = p.buffer \div 2 ^ (WordBits - n)], n)

\* read_unary: gives up, as -1, behind the limit or the end.
RECURSIVE ReadUnary(_, _, _, _)
ReadUnary(b, limit, data, n) ==
    LET r == ReadN(b, 1, data)
    IN  IF r.v = 1 THEN [r EXCEPT !.v = n]
        ELSE IF n + 1 > limit \/ Overflowed(r, data) THEN [r EXCEPT !.v = -1]
        ELSE ReadUnary(r, limit, data, n + 1)

AlignToByte(b) == Removed([b EXCEPT !.v = 0], b.live % ByteBits)

ReadBits ==
    /\ piece.kind = "bits" /\ Len(bits.got) < Len(piece.ops)
    /\ \A i \in DOMAIN bits.got : bits.got[i] >= 0
    /\ LET op == piece.ops[Len(bits.got) + 1]
           b == CASE op.do = "read" -> ReadN(bits, op.n, piece.data)
                  [] op.do = "unary" -> ReadUnary(bits, op.n, piece.data, 0)
                  [] op.do = "align" -> AlignToByte(bits)
       IN  bits' = [b EXCEPT !.got = Append(@, b.v)]
    /\ UNCHANGED <<piece, plain>>

(****************************************************************************)
(* Canonical codes.                                                         *)
(****************************************************************************)
Histo(ls, l) == Cardinality({i \in DOMAIN ls : ls[i] = l})

\* assign_canonical_codes: from the longest length down, halving the start; a
\* start that does not halve is refused, except at length one.
Starts(ls, max) ==
    LET start[l \in 0 .. max] == IF l = max THEN 0 ELSE (start[l + 1] + Histo(ls, l + 1)) \div 2
    IN  start

Assignable(ls, max) ==
    /\ \A i \in DOMAIN ls : ls[i] <= max
    /\ \A l \in 2 .. max : (Starts(ls, max)[l] + Histo(ls, l)) % 2 = 0

\* Mutant: symbols of one length share their code.
CodeShared(ls, max, i) == Starts(ls, max)[ls[i]]

Code(ls, max, i) == Starts(ls, max)[ls[i]] + Cardinality({j \in 1 .. i - 1 : ls[j] = ls[i]})

\* build_lookup_table: a code owns a run of slots; one that ends behind the
\* table is an index out of range.
UsedSymbols(ls) == {i \in DOMAIN ls : ls[i] > 0}
Slots(ls, max, i) ==
    LET w == 2 ^ (max - ls[i]) IN Code(ls, max, i) * w .. (Code(ls, max, i) + 1) * w - 1
OutOfTable(ls, max) == \E i \in UsedSymbols(ls) : \E s \in Slots(ls, max, i) : s >= 2 ^ max

\* decode_one: the last symbol to own the slot.
DecodedSymbol(ls, max, slot) ==
    LET own == {i \in UsedSymbols(ls) : slot \in Slots(ls, max, i)}
    IN  IF own = {} THEN 0 ELSE CHOOSE i \in own : \A j \in own : j <= i

Tree(ls, max) ==
    IF ~Assignable(ls, max) THEN Malformed
    ELSE IF OutOfTable(ls, max) THEN Refused("panic") ELSE Done(ls)

\* import_tree_rle: "1,1" is a literal 1, "1,v,n" is v repeated n + 3 times; a
\* value behind the end is 0.
Tok(ts, i) == IF i <= Len(ts) THEN ts[i] ELSE 0
RECURSIVE RleLengths(_, _, _, _)
RleLengths(ts, n, at, ls) ==
    IF Len(ls) = n THEN IF at > Len(ts) + 1 THEN Malformed ELSE Done(ls)
    ELSE IF Len(ls) > n THEN Malformed
    ELSE IF Tok(ts, at) # 1 THEN RleLengths(ts, n, at + 1, Append(ls, Tok(ts, at)))
    ELSE IF Tok(ts, at + 1) = 1 THEN RleLengths(ts, n, at + 2, Append(ls, 1))
    ELSE RleLengths(ts, n, at + 3, ls \o [i \in 1 .. Tok(ts, at + 2) + 3 |-> Tok(ts, at + 1)])

ImportTreeRle ==
    /\ piece.kind = "rle" /\ plain = Pending
    /\ plain' = LET ls == RleLengths(piece.tokens, Codes, 1, <<>>)
                IN  IF ls = Malformed THEN ls ELSE Tree(ls.cells, CodeBits)
    /\ UNCHANGED <<piece, bits>>

\* import_tree_huffman: the small tree codes a length plus one, and 0 for a run
\* of the last length.
SmallTree(ts) ==
    FoldLeft(LAMBDA acc, i :
                 IF i < Tok(ts, 2) + 1 \/ acc.latched THEN [acc EXCEPT !.ls = Append(@, 0)]
                 ELSE LET c == Tok(ts, acc.at)
                      IN  [at |-> acc.at + 1, latched |-> c = Latch,
                           ls |-> Append(acc.ls, IF c = Latch THEN 0 ELSE c)],
             [at |-> 3, latched |-> FALSE, ls |-> <<Tok(ts, 1)>>], [i \in 1 .. SmallCodes - 1 |-> i])

\* A symbol the small tree gives no code is in no stream.
RECURSIVE HuffmanLengths(_, _, _, _, _)
HuffmanLengths(small, ts, at, last, ls) ==
    IF at > Len(ts) + 1 THEN Malformed
    ELSE IF Len(ls) >= Codes THEN Done(SubSeq(ls, 1, Codes))
    ELSE IF small[Tok(ts, at) + 1] = 0 THEN Malformed
    ELSE IF Tok(ts, at) # 0 THEN HuffmanLengths(small, ts, at + 1, Tok(ts, at) - 1, Append(ls, Tok(ts, at) - 1))
    ELSE LET long == Tok(ts, at + 1) = Latch
             n == Tok(ts, at + 1) + 2 + (IF long THEN Tok(ts, at + 2) ELSE 0)
         IN  HuffmanLengths(small, ts, at + (IF long THEN 3 ELSE 2), last, ls \o [i \in 1 .. n |-> last])

Imported(ts) ==
    LET small == SmallTree(ts)
        ls == HuffmanLengths(small.ls, ts, small.at, 0, <<>>)
    IN  IF Tree(small.ls, SmallBits).is # "done" THEN Tree(small.ls, SmallBits)
        ELSE IF ls = Malformed THEN ls ELSE Tree(ls.cells, CodeBits)

(****************************************************************************)
(* The writer of a tree.                                                    *)
(****************************************************************************)
\* code_lengths: the two lightest nodes are joined, ties by number, until one
\* is left; a code too wide, or a single symbol, is no tree.
RECURSIVE Depths(_, _, _)
Depths(heap, next, depth) ==
    IF Cardinality(heap) = 1 THEN depth
    ELSE LET before(a, b) == a.w < b.w \/ (a.w = b.w /\ a.id < b.id)
             first(h) == CHOOSE a \in h : \A b \in h \ {a} : before(a, b)
             a == first(heap)
             b == first(heap \ {a})
         IN  Depths((heap \ {a, b}) \cup {[w |-> a.w + b.w, id |-> next, of |-> a.of \cup b.of]}, next + 1,
                    [i \in DOMAIN depth |-> IF i \in a.of \cup b.of THEN depth[i] + 1 ELSE depth[i]])

CodeLengths(counts, max) ==
    LET used == {i \in DOMAIN counts : counts[i] > 0}
        n == Len(counts)
        ls == Depths({[w |-> counts[i], id |-> i, of |-> {i}] : i \in used}, n + 1, [i \in 1 .. n |-> 0])
    IN  IF Cardinality(used) < 2 THEN Malformed
        ELSE IF \E i \in 1 .. n : ls[i] > max THEN Malformed ELSE Done(ls)

\* Mutant: the run's own symbol is given no code.
FlatTokensUncoded ==
    <<0, 0>> \o [i \in 1 .. FlatBits + 2 |-> IF i = FlatBits + 1 THEN 1 ELSE IF i = FlatBits + 2 THEN Latch ELSE 0]
    \o <<FlatBits + 1, 0, Latch, Codes - 1 - Latch - 2>>

\* huff_flat: every code as wide as a byte, by a run with the long count.
FlatTokens ==
    <<1, 0>> \o [i \in 1 .. FlatBits + 2 |-> IF i = FlatBits + 1 THEN 1 ELSE IF i = FlatBits + 2 THEN Latch ELSE 0]
    \o <<FlatBits + 1, 0, Latch, Codes - 1 - Latch - 2>>

\* huff: the tree of the bytes' own frequencies, or the flat one.
HuffTokens(counts) ==
    LET ls == CodeLengths(counts, CodeBits)
        small == CodeLengths([k \in 1 .. SmallCodes |-> Histo(ls.cells, k - 2)], SmallBits)
        last == CHOOSE k \in UsedSymbols(small.cells) : \A j \in UsedSymbols(small.cells) : j <= k
    IN  IF ls = Malformed THEN FlatTokens
        ELSE IF small = Malformed THEN FlatTokens
        ELSE IF Tree(small.cells, SmallBits).is # "done" \/ Tree(ls.cells, CodeBits).is # "done" THEN FlatTokens
        ELSE <<small.cells[1], 0>> \o SubSeq(small.cells, 2, last)
             \o (IF last < SmallCodes THEN <<Latch>> ELSE <<>>) \o [i \in 1 .. Codes |-> ls.cells[i] + 1]

ImportTreeHuffman ==
    /\ piece.kind \in {"huff", "counts"} /\ plain = Pending
    /\ plain' = Imported(IF piece.kind = "huff" THEN piece.tokens ELSE HuffTokens(piece.counts))
    /\ UNCHANGED <<piece, bits>>

(****************************************************************************)
(* The CD framing.  A frame is a sector and its subcode; a sector 2 or 3 is *)
(* 0 or 1 with a parity that is not the one its data generates, and 4 or 5  *)
(* is one whose sync and parity were dropped.                               *)
(****************************************************************************)
EccGenerate(sector) == sector % 2
Recomputable(sector) == EccGenerate(sector) = sector
Run(codec, cells) == [codec |-> codec, run |-> cells]

\* inflate_raw reads as much as it wants and no further; lzma_raw has to end there.
InflateRaw(src, n) ==
    IF src = <<>> THEN Malformed
    ELSE IF src[1].codec # "zlib" \/ Len(src[1].run) < n THEN Malformed
    ELSE Done(SubSeq(src[1].run, 1, n))
LzmaRaw(src, n) ==
    IF src = <<>> THEN Malformed
    ELSE IF src[1].codec # "lzma" \/ Len(src[1].run) # n THEN Malformed ELSE Done(src[1].run)

\* cd: parity that can be made again is dropped and flagged, except from audio.
CdWrite(codec, hunk) ==
    LET strips == codec # "cdfl"
        ecc == {f \in DOMAIN hunk : strips /\ Recomputable(hunk[f].sector)}
        sectors == [f \in DOMAIN hunk |-> IF f \in ecc THEN hunk[f].sector + 4 ELSE hunk[f].sector]
        subs == [f \in DOMAIN hunk |-> hunk[f].sub]
        base == CASE codec = "cdzl" -> "zlib" [] codec = "cdlz" -> "lzma" [] codec = "cdfl" -> "flac"
    IN  (IF strips THEN <<[flags |-> ecc], [len |-> 1]>> ELSE <<>>) \o <<Run(base, sectors), Run("zlib", subs)>>

\* Mutant: the bitmap is read one frame off.
FlaggedNext(codec, src, f) == codec # "cdfl" /\ f + 1 \in src[1].flags

Flagged(codec, src, f) == codec # "cdfl" /\ f \in src[1].flags

\* decode_cd.
DecodeCd(codec, src, n) ==
    LET audio == codec = "cdfl"
        frames == n \div 2
        head == IF audio THEN 0 ELSE 2
        end == IF audio THEN 1 ELSE head + src[2].len
        base == SubSeq(src, head + 1, end)
        sectors == CASE audio -> IF base = <<>> THEN Malformed
                                 ELSE IF base[1].codec # "flac" \/ Len(base[1].run) # frames THEN Malformed
                                 ELSE Done(base[1].run)
                     [] codec = "cdzl" -> InflateRaw(base, frames)
                     [] codec = "cdlz" -> LzmaRaw(base, frames)
        subs == InflateRaw(SubSeq(src, end + 1, Len(src)), frames)
    IN  IF n % 2 # 0 \/ Len(src) < head THEN Malformed
        ELSE IF end > Len(src) THEN Malformed
        ELSE IF sectors = Malformed \/ subs = Malformed THEN Malformed
        ELSE Done([f \in 1 .. frames |->
                     [sector |-> IF Flagged(codec, src, f) THEN EccGenerate(sectors.cells[f]) ELSE sectors.cells[f],
                      sub |-> subs.cells[f]]])

ReadCd ==
    /\ piece.kind = "cd" /\ plain = Pending
    /\ plain' = DecodeCd(piece.codec, piece.src, piece.n)
    /\ UNCHANGED <<piece, bits>>

(****************************************************************************)
(* FLAC frames.                                                             *)
(****************************************************************************)
\* sign_extend, of the low b bits.
Signed(v, b) ==
    LET w == v % 2 ^ b IN IF b = 0 THEN 0 ELSE IF w >= 2 ^ (b - 1) THEN w - 2 ^ b ELSE w
Fits(v, bound) == v \in -bound .. bound - 1

\* read_frame_header, in the order of its refusals.
FrameHeader(h) ==
    IF h.sync # "good" \/ h.number # "good" \/ h.block = 0 \/ h.rate = 15 THEN "malformed"
    ELSE IF h.depth # SampleBits THEN "unsupported"
    ELSE IF h.assign > 10 THEN "malformed" ELSE "good"
Channels(h) == IF h.assign <= 7 THEN h.assign + 1 ELSE 2

\* Mutant: all channels are alike.
WidthAlike(h, ch) == SampleBits

\* A side channel has one bit more.
Width(h, ch) == SampleBits + (IF \/ h.assign \in {8, 10} /\ ch = 2
                                 \/ h.assign = 9 /\ ch = 1 THEN 1 ELSE 0)

\* decode_residual: one parameter a partition; the last one escapes to raw bits.
Escape(method) == IF method = 0 THEN 15 ELSE 31
ResidualBad(s, n) ==
    \/ s.method \notin {0, 1} \/ n % 2 ^ s.porder # 0 \/ n \div 2 ^ s.porder < s.order
    \/ Len(s.codes) < n - s.order
Residual(s, n, i) ==
    LET param == s.params[(i - 1) \div (n \div 2 ^ s.porder) + 1]
        c == s.codes[i - s.order]
        z == c.q * 2 ^ param + c.r
    IN  IF param = Escape(s.method) THEN [ok |-> TRUE, v |-> Signed(c.r, c.q)]
        ELSE [ok |-> c.q <= RunAway /\ z < 2 * Half,
              v |-> IF z % 2 = 0 THEN z \div 2 ELSE -((z + 1) \div 2)]

\* fixed_predict and lpc_predict: what does not fit becomes the largest value.
FixedCoeffs == <<<<>>, <<1>>, <<2, -1>>, <<3, -3, 1>>, <<4, -6, 4, -1>>>>
Prediction(coeffs, shift, x, i) ==
    FoldLeft(LAMBDA acc, j : acc + coeffs[j] * x[i - j], 0, [j \in DOMAIN coeffs |-> j]) \div 2 ^ shift
Predicted(s, n, coeffs, shift, w) ==
    LET x[i \in 1 .. n] ==
          IF i <= s.order THEN Signed(s.warm[i], w)
          ELSE LET v == Residual(s, n, i).v + Prediction(coeffs, shift, x, i)
               IN  IF Fits(v, Half) THEN v ELSE Half - 1
    IN  [i \in 1 .. n |-> x[i]]

\* decode_subframe.
SubFrame(s, n, width) ==
    LET w == width - s.wasted
        predicted(coeffs, shift) ==
          IF ResidualBad(s, n) THEN Malformed
          ELSE IF \E i \in s.order + 1 .. n : ~Residual(s, n, i).ok THEN Malformed
          ELSE Done(Predicted(s, n, coeffs, shift, w))
        out == CASE s.type = "constant" -> Done([i \in 1 .. n |-> Signed(s.warm[1], w)])
                 [] s.type = "verbatim" -> IF Len(s.warm) < n THEN Malformed
                                           ELSE Done([i \in 1 .. n |-> Signed(s.warm[i], w)])
                 [] s.type = "fixed" -> predicted(FixedCoeffs[s.order + 1], 0)
                 [] s.type = "lpc" -> IF s.precision = 16 \/ s.shift < 0 THEN Malformed
                                      ELSE predicted(s.coeffs, s.shift)
                 [] OTHER -> Malformed
    IN  IF s.pad \/ w <= 0 THEN Malformed
        ELSE IF out = Malformed THEN out ELSE Done([i \in 1 .. n |-> out.cells[i] * 2 ^ s.wasted])

\* decode_subframes: the difference is undone.
Recombined(assign, l, r) ==
    CASE assign = 8 -> <<l, l - r>>
      [] assign = 9 -> <<l + r, r>>
      [] assign = 10 -> LET mid == (2 * l) + (r % 2) IN <<(mid + r) \div 2, (mid - r) \div 2>>
      [] OTHER -> <<l, r>>

\* One frame: its header, subframes, checksum, and whether its samples fit.
SubFrames(f) ==
    [ch \in 1 .. Channels(f.header) |-> SubFrame(f.subs[ch], f.header.block, Width(f.header, ch))]
Frame(f, subs, room) ==
    LET h == f.header
        k == Channels(h)
        at(i) == IF k = 2 THEN Recombined(h.assign, subs[1].cells[i], subs[2].cells[i])
                 ELSE [ch \in 1 .. k |-> subs[ch].cells[i]]
        out == FlattenSeq([i \in 1 .. h.block |-> at(i)])
    IN  IF FrameHeader(h) # "good" THEN Refused(FrameHeader(h))
        ELSE IF \E ch \in 1 .. k : subs[ch] = Malformed THEN Malformed
        ELSE IF ~f.crc \/ h.block * k > room THEN Malformed
        ELSE IF \E i \in DOMAIN out : ~Fits(out[i], 2 ^ (SampleBits - 1)) THEN Malformed ELSE Done(out)

\* decode_hunk, whose marker names the byte order, and decode_frames: a frame a
\* step until the hunk is full; bits.pos counts the frames.
ReadFlac ==
    /\ piece.kind = "flac" /\ plain.is = "pending"
    /\ \/ /\ piece.marker \notin {"B", "L"} \/ piece.want % 2 # 0
          /\ plain' = Malformed /\ UNCHANGED bits
       \/ /\ piece.marker \in {"B", "L"} /\ piece.want % 2 = 0
          /\ IF Len(plain.cells) = piece.want THEN plain' = Done(plain.cells) /\ UNCHANGED bits
             ELSE IF bits.pos = Len(piece.frames) THEN plain' = Malformed /\ UNCHANGED bits
             ELSE \E f \in {piece.frames[bits.pos + 1]} : \E subs \in {SubFrames(f)} :
                  \E new \in {Frame(f, subs, piece.want - Len(plain.cells))} :
                    /\ plain' = IF new.is = "done" THEN [plain EXCEPT !.cells = @ \o new.cells] ELSE new
                    /\ bits' = [bits EXCEPT !.pos = @ + 1]
    /\ UNCHANGED piece

\* What an encoder writes: of flac_frames the verbatim and the order 0 subframe,
\* and the other predictors of the format.
Differenced(assign, l, r) ==
    CASE assign = 8 -> <<l, l - r>>
      [] assign = 9 -> <<l - r, r>>
      [] assign = 10 -> <<(l + r) \div 2, l - r>>
      [] OTHER -> <<l, r>>
SubFrameOf(x, how, width) ==
    LET n == Len(x)
        y == [i \in 1 .. n |-> x[i] \div 2 ^ how.wasted]
        w == width - how.wasted
        order == IF how.type \in {"fixed", "lpc"} THEN how.order ELSE IF how.type = "constant" THEN 1 ELSE n
        coeffs == IF how.type = "fixed" THEN FixedCoeffs[order + 1] ELSE how.coeffs
        shift == IF how.type = "fixed" THEN 0 ELSE how.shift
        left(i) == y[i] - Prediction(coeffs, shift, y, i)
        zigzag(e) == IF e >= 0 THEN 2 * e ELSE -2 * e - 1
        code(e) == IF how.param = Escape(how.method) THEN [q |-> how.raw, r |-> e % 2 ^ how.raw]
                   ELSE [q |-> zigzag(e) \div 2 ^ how.param, r |-> zigzag(e) % 2 ^ how.param]
    IN  [type |-> how.type, pad |-> FALSE, wasted |-> how.wasted, order |-> order,
         warm |-> [i \in 1 .. order |-> y[i] % 2 ^ w], method |-> how.method, porder |-> how.porder,
         params |-> [p \in 1 .. 2 ^ how.porder |-> how.param],
         codes |-> IF how.type \in {"fixed", "lpc"} THEN [i \in 1 .. n - order |-> code(left(i + order))] ELSE <<>>,
         precision |-> how.precision, shift |-> how.shift, coeffs |-> how.coeffs]
FrameOf(l, r, assign, how) ==
    LET h == [sync |-> "good", number |-> "good", block |-> Len(l), rate |-> 9, depth |-> SampleBits,
              assign |-> assign]
        d == [i \in DOMAIN l |-> Differenced(assign, l[i], r[i])]
        side == CASE assign = 9 -> {1} [] assign \in {8, 10} -> {2} [] OTHER -> {}
        width(ch) == IF ch \in side THEN SampleBits + 1 ELSE SampleBits
    IN  [header |-> h, crc |-> TRUE,
         subs |-> [ch \in 1 .. 2 |-> SubFrameOf([i \in DOMAIN l |-> d[i][ch]], how, width(ch))]]

CodecInit(pieces) ==
    /\ piece \in pieces
    /\ bits = [pos |-> 0, buffer |-> 0, live |-> 0, v |-> 0, got |-> <<>>]
    /\ plain = Pending
CodecNext == ReadBits \/ ImportTreeRle \/ ImportTreeHuffman \/ ReadCd \/ ReadFlac

(****************************************************************************)
(* What decoding has to give.                                               *)
(****************************************************************************)
TrueBit(data, k) ==
    IF k >= ByteBits * Len(data) THEN 0
    ELSE (data[k \div ByteBits + 1] \div 2 ^ (ByteBits - 1 - (k % ByteBits))) % 2
TrueBits(data, k, n) == FoldLeft(LAMBDA acc, i : 2 * acc + TrueBit(data, k + i - 1), 0, [i \in 1 .. n |-> i])

\* Where the i-th operation starts, by what the earlier ones had to take.
RECURSIVE TrueAt(_)
TrueAt(i) ==
    IF i = 1 THEN 0
    ELSE LET at == TrueAt(i - 1)
             op == piece.ops[i - 1]
         IN  CASE op.do = "read" -> at + op.n
               [] op.do = "unary" -> at + bits.got[i - 1] + 1
               [] op.do = "align" -> at + ((-at) % ByteBits)

\* Every read of a width the window can hold gives the next bits of the stream,
\* zeros behind its end; a unary count is exact or was out of reach; and the
\* reader has overflowed exactly when it consumed more than there was.
BitsExact ==
    piece.kind = "bits" =>
        /\ \A i \in DOMAIN bits.got :
              LET op == piece.ops[i]
                  v == bits.got[i]
                  at == TrueAt(i)
              IN  CASE op.do = "read" -> v = TrueBits(piece.data, at, op.n)
                    [] op.do = "unary" ->
                         IF v >= 0 THEN v <= op.n /\ TrueBits(piece.data, at, v + 1) = 1
                         ELSE \A n \in 0 .. op.n : TrueBits(piece.data, at, n + 1) # 1
                    [] OTHER -> TRUE
        /\ (\A i \in DOMAIN bits.got : bits.got[i] >= 0) =>
              (Overflowed(bits, piece.data) <=> TrueAt(Len(bits.got) + 1) > ByteBits * Len(piece.data))

\* An accepted tree decodes every pattern of a used symbol to that symbol, and
\* the lookup table is left exactly by lengths that claim more than all patterns.
CodesExact ==
    /\ piece.kind \in {"rle", "huff", "counts"} /\ plain.is = "done" =>
          \A i \in UsedSymbols(plain.cells) : \A s \in Slots(plain.cells, CodeBits, i) :
              DecodedSymbol(plain.cells, CodeBits, s) = i
    /\ piece.kind = "rle" /\ plain.is \in {"done", "panic"} =>
          LET ls == RleLengths(piece.tokens, Codes, 1, <<>>).cells
              claimed == FoldLeft(LAMBDA acc, i : acc + (IF ls[i] > 0 THEN 2 ^ (CodeBits - ls[i]) ELSE 0),
                                  0, [i \in DOMAIN ls |-> i])
          IN  plain.is = "panic" <=> claimed > 2 ^ CodeBits

\* The trees the writer exports are read back: every byte that occurs has a code.
TreeWriterAgrees ==
    piece.kind = "counts" /\ plain # Pending =>
        /\ plain.is = "done"
        /\ \A i \in DOMAIN piece.counts : piece.counts[i] > 0 => plain.cells[i] > 0

\* A CD hunk comes back as it was written, parity that cannot be made again
\* included; a damaged one is refused or is still that hunk.
CdExact ==
    piece.kind = "cd" /\ plain # Pending =>
        /\ plain.is = "done" => plain.cells = piece.hunk
        /\ piece.sound => plain.is = "done"

\* A frame gives back the samples it was coded from, whatever the channels'
\* assignment, the predictor, the partitions and the wasted bits; one that no
\* encoder writes is refused.
FlacExact ==
    piece.kind = "flac" /\ plain.is # "pending" =>
        /\ piece.sound => plain = Done(piece.pcm)
        /\ ~piece.sound => plain.is \in {"malformed", "unsupported"}

=============================================================================
