------------------------------ MODULE Analyze -------------------------------
(****************************************************************************)
(* The analyzers (datboi-ingest analyzers.rs).  An analysis is a sequence   *)
(* of store puts, row upserts and recipe mints, each of which may fail or   *)
(* be the last one before a crash; nothing spans them.  Which blobs it      *)
(* stores and which recipes it mints depends on its family; the bytes it    *)
(* reads do not matter here, only what their layout makes of them.          *)
(* Meanwhile ingests store blobs of their own and the orphan collector      *)
(* takes what no recipe names.                                              *)
(****************************************************************************)
EXTENDS Naturals, Sequences, SequencesExt, FiniteSets

CONSTANTS Workers,      \* refinement workers, each with analyzers of its own
          Layouts,      \* the layouts the items may have (see Program)
          Ingestable,   \* blobs an ingest may bring
          Keys,         \* key blobs that may come in
          MaxStarts,    \* bound: analyses begun
          MaxFaults,    \* bound: failed steps and crashes
          MaxReaps      \* bound: orphans collected

VARIABLES
    anBytes, anRow,   \* the store; the blob rows: "none", "absent" or "resident"
    minted,           \* indexed recipes, [out, ins]
    latch,            \* per worker: components it knows to be published
    anJob, anTodo,    \* per worker: the layout it works on, the steps it has left
    saw,              \* per worker: the lookup of a Look step found no row
    pending,          \* blobs stored by an ingest whose row is not written yet
    reaped,           \* history: components the orphan collector took
    starts, faults, reaps

anvars == <<anBytes, anRow, minted, latch, anJob, anTodo, saw, pending, reaped, starts, faults, reaps>>

(****************************************************************************)
(* The steps of an analysis.                                                *)
(****************************************************************************)
Put(b)   == <<[op |-> "put", b |-> b]>>           \* store.put
Row(b)   == <<[op |-> "row", b |-> b]>>           \* upsert_blob(Resident)
Claim(b) == <<[op |-> "claim", b |-> b]>>         \* upsert_blob(Absent), unasked
Look(b)  == <<[op |-> "look", b |-> b], [op |-> "claim if unseen", b |-> b]>>
Stop     == <<[op |-> "stop"]>>                   \* a condition of the bytes that ends it here

\* ensure_component: stored once per analyzer instance, its row every time.
Component(c) == <<[op |-> "component", b |-> c], [op |-> "row", b |-> c]>>

Mint(out, ins) == <<[op |-> "mint", r |-> [out |-> out, ins |-> ins]]>>

Steps(S(_), seq) == FlattenSeq([i \in DOMAIN seq |-> S(seq[i])])

(****************************************************************************)
(* The programs of the families.  A layout l names the item l.item and what *)
(* its parse found.                                                         *)
(****************************************************************************)
\* mint_decomposition: claims for the pieces and routes from the container to
\* each, the empty blob if the image has an empty file, and the route back from
\* the pieces and the externs.
Decomposition(container, pieces, empty, externs) ==
    LET piece(p) == Look(p) \o Mint(p, {container}) IN
    Steps(piece, pieces)
    \o (IF empty THEN Put("empty") \o Row("empty") ELSE <<>>)
    \o Mint(container, Range(pieces) \cup externs)

\* mint_junk and the filler of xdvdfs: a blob that a component makes of nothing.
Generated(b, c) == Component(c) \o Look(b) \o Mint(b, {c})

\* A prefix or a view of the item: trim, playable partition.
View(item, v) == Look(v) \o Mint(v, {item})

\* Mutant: the corrections are recorded, never stored.
PreflateSplitForgetful(l) ==
    LET member(m) == Put(m.plain) \o Row(m.plain)
    IN  Stop \o Steps(member, l.members) \o Stop

\* PreflateZipAnalyzer::analyze: refuse what is not a plain zip; split every
\* deflate member; refuse if none split or the skeleton would be too long ...
PreflateSplit(l) ==
    LET member(m) == Put(m.plain) \o Row(m.plain) \o Put(m.corr)
    IN  Stop \o Steps(member, l.members) \o Stop

\* ... store what is left of the container ...
PreflateSkeleton(l) == Put(l.skel) \o Row(l.skel) \o Component("preflate")

\* ... and mint a route to each stream and one from them to the container.
PreflateRoutes(l) ==
    LET mint(m) == Row(m.corr) \o Row(m.plain) \o Claim(m.stream)
                   \o Mint(m.stream, {m.corr, m.plain, "preflate"})
    IN  Steps(mint, l.members)
        \o Mint(l.item, {l.skel} \cup {l.members[i].stream : i \in DOMAIN l.members})

\* EcmAnalyzer::analyze.
Ecm(l) ==
    Stop \o Put(l.stripped) \o Stop \o Put(l.layout) \o Component("ecm") \o Row(l.stripped) \o Row(l.layout)
    \o Mint(l.item, {l.layout, l.stripped, "ecm"})

\* ChunkAnalyzer::analyze: for resident literals that nothing else covers.
Chunk(l) ==
    <<[op |-> "resident", b |-> l.item], [op |-> "uncovered", b |-> l.item]>>
    \o Steps(Put, l.chunks) \o Stop \o Steps(Row, l.chunks) \o Mint(l.item, Range(l.chunks))

\* NdsAnalyzer::analyze, which may offer a trim.
Nds(l) == Stop \o Decomposition(l.item, l.pieces, l.empty, {}) \o Steps(LAMBDA v : View(l.item, v), l.views)

\* NarcAnalyzer::analyze, with its cap on members; Iso9660Analyzer::analyze.
Narc(l) == Stop \o Stop \o Decomposition(l.item, l.pieces, l.empty, {})
Iso9660(l) == Stop \o Decomposition(l.item, l.pieces, l.empty, {})

\* XdvdfsAnalyzer::analyze: filler first, then the pieces, then the views.
Xdvdfs(l) ==
    Stop \o Steps(LAMBDA g : Generated(g, "xgd1"), l.generated)
    \o Decomposition(l.item, l.pieces, l.empty, Range(l.generated)) \o Steps(LAMBDA v : View(l.item, v), l.views)

\* GcmAnalyzer::analyze: the same with junk, and no views.
Gcm(l) ==
    Stop \o Steps(LAMBDA g : Generated(g, "junk"), l.generated)
    \o Decomposition(l.item, l.pieces, l.empty, Range(l.generated))

\* WiiAnalyzer::analyze: every partition's key first ...
WiiKeys(l) == Stop \o Steps(LAMBDA p : <<[op |-> "key", b |-> p.key]>>, l.parts) \o Stop

\* ... then the disc, whose pieces include the partitions' bodies ...
WiiDisc(l) ==
    Steps(LAMBDA g : Generated(g, "junk"), l.generated)
    \o Decomposition(l.item, l.pieces, FALSE, Range(l.generated))

\* ... then each partition, decrypted, decomposed and encrypted back.
WiiPartition(l, p) ==
    Component("wii") \o Look(p.plain) \o Mint(p.plain, {p.body, p.key, "wii"})
    \o Decomposition(p.plain, p.pieces, p.empty, Range(l.generated))
    \o Mint(p.body, {p.plain, p.key, "wii"})

Program(l) ==
    CASE l.family = "preflate" -> PreflateSplit(l) \o PreflateSkeleton(l) \o PreflateRoutes(l)
      [] l.family = "ecm"      -> Ecm(l)
      [] l.family = "chunk"    -> Chunk(l)
      [] l.family = "nds"      -> Nds(l)
      [] l.family = "narc"     -> Narc(l)
      [] l.family = "iso9660"  -> Iso9660(l)
      [] l.family = "xdvdfs"   -> Xdvdfs(l)
      [] l.family = "gcm"      -> Gcm(l)
      [] l.family = "wii"      -> WiiKeys(l) \o WiiDisc(l) \o Steps(LAMBDA p : WiiPartition(l, p), l.parts)

(****************************************************************************)
(* State.                                                                   *)
(****************************************************************************)
BlobsOf(steps) ==
    UNION {IF steps[i].op = "stop" THEN {}
           ELSE IF steps[i].op = "mint" THEN {steps[i].r.out} \cup steps[i].r.ins
           ELSE {steps[i].b} : i \in DOMAIN steps}
ABlobs == Ingestable \cup Keys \cup UNION {BlobsOf(Program(l)) : l \in Layouts}

\* What the blobs that are there ground, through the recipes.
Held(have, recipes) ==
    LET step[n \in 0 .. Cardinality(recipes)] ==
            IF n = 0 THEN have
            ELSE LET prev == step[n - 1]
                 IN  prev \cup {r.out : r \in {q \in recipes : q.ins \subseteq prev}}
    IN  step[Cardinality(recipes)]

Idle == [family |-> "none"]
Transforms == {"preflate", "ecm", "xgd1", "junk", "wii"}

AnTypeOK ==
    /\ anBytes \subseteq ABlobs /\ anRow \in [ABlobs -> {"none", "absent", "resident"}]
    /\ \A r \in minted : r.out \in ABlobs /\ r.ins \subseteq ABlobs
    /\ latch \in [Workers -> SUBSET Transforms] /\ anJob \in [Workers -> Layouts \cup {Idle}]
    /\ \A w \in Workers : anTodo[w] # <<>> => anJob[w] # Idle /\ IsSuffix(anTodo[w], Program(anJob[w]))
    /\ saw \in [Workers -> BOOLEAN] /\ pending \subseteq Ingestable \cup Keys /\ reaped \subseteq Transforms
    /\ starts \in 0 .. MaxStarts /\ faults \in 0 .. MaxFaults /\ reaps \in 0 .. MaxReaps

Items == {l.item : l \in Layouts}

AnInit ==
    /\ anBytes = Items /\ anRow = [b \in ABlobs |-> IF b \in Items THEN "resident" ELSE "none"]
    /\ minted = {} /\ latch = [w \in Workers |-> {}] /\ anJob = [w \in Workers |-> Idle]
    /\ anTodo = [w \in Workers |-> <<>>] /\ saw = [w \in Workers |-> FALSE] /\ pending = {} /\ reaped = {}
    /\ starts = 0 /\ faults = 0 /\ reaps = 0

(****************************************************************************)
(* Workers.                                                                 *)
(****************************************************************************)
\* An item is analyzed again when its analysis failed; two workers never
\* hold the same item.
Start(w) ==
    /\ anJob[w] = Idle /\ starts < MaxStarts
    /\ \E l \in Layouts :
        /\ \A v \in Workers : anJob[v] # l
        /\ anJob' = [anJob EXCEPT ![w] = l]
        /\ anTodo' = [anTodo EXCEPT ![w] = Program(l)]
    /\ starts' = starts + 1
    /\ UNCHANGED <<anBytes, anRow, minted, latch, saw, pending, reaped, faults, reaps>>

Step(w) == Head(anTodo[w])

Onward(w) ==
    /\ anTodo' = [anTodo EXCEPT ![w] = Tail(@)]
    /\ anJob' = IF Len(anTodo[w]) = 1 THEN [anJob EXCEPT ![w] = Idle] ELSE anJob

Leave(w) == anJob' = [anJob EXCEPT ![w] = Idle] /\ anTodo' = [anTodo EXCEPT ![w] = <<>>]

At(w, op) == anJob[w] # Idle /\ Step(w).op = op

StorePut(w) ==
    /\ At(w, "put") /\ anBytes' = anBytes \cup {Step(w).b} /\ Onward(w)
    /\ UNCHANGED <<anRow, minted, latch, saw, pending, reaped, starts, faults, reaps>>

EnsureComponent(w) ==
    /\ At(w, "component")
    /\ anBytes' = IF Step(w).b \in latch[w] THEN anBytes ELSE anBytes \cup {Step(w).b}
    /\ latch' = [latch EXCEPT ![w] = @ \cup {Step(w).b}]
    /\ Onward(w)
    /\ UNCHANGED <<anRow, minted, saw, pending, reaped, starts, faults, reaps>>

\* upsert_blob overwrites the residency the row has.
UpsertBlob(w) ==
    /\ \/ At(w, "row") /\ anRow' = [anRow EXCEPT ![Step(w).b] = "resident"]
       \/ At(w, "claim") /\ anRow' = [anRow EXCEPT ![Step(w).b] = "absent"]
       \/ At(w, "claim if unseen") /\ anRow' = IF saw[w] THEN anRow ELSE [anRow EXCEPT ![Step(w).b] = "absent"]
    /\ saw' = [saw EXCEPT ![w] = FALSE] /\ Onward(w)
    /\ UNCHANGED <<anBytes, minted, latch, pending, reaped, starts, faults, reaps>>

\* blob_by_hash, in a statement of its own.
BlobByHash(w) ==
    /\ At(w, "look") /\ saw' = [saw EXCEPT ![w] = anRow[Step(w).b] # "none"] /\ Onward(w)
    /\ UNCHANGED <<anBytes, anRow, minted, latch, pending, reaped, starts, faults, reaps>>

\* mint_recipe: one transaction; references without a row get an Absent one.
MintRecipe(w) ==
    /\ At(w, "mint")
    /\ LET r == Step(w).r
           rows == {r.out} \cup r.ins
       IN  /\ minted' = minted \cup {r}
           /\ anRow' = [b \in DOMAIN anRow |-> IF b \in rows /\ anRow[b] = "none" THEN "absent" ELSE anRow[b]]
    /\ Onward(w)
    /\ UNCHANGED <<anBytes, latch, saw, pending, reaped, starts, faults, reaps>>

\* Conditions of the bytes, of the index and of the keys, each of which ends
\* the analysis with what it has done so far.
Covered(b) == b \in Held({a \in DOMAIN anRow : anRow[a] = "resident"} \ {b}, minted)
Condition(w) ==
    /\ \/ At(w, "stop") /\ (Onward(w) \/ Leave(w))
       \/ At(w, "resident") /\ IF anRow[Step(w).b] = "resident" THEN Onward(w) ELSE Leave(w)
       \/ At(w, "uncovered") /\ IF Covered(Step(w).b) THEN Leave(w) ELSE Onward(w)
       \/ At(w, "key") /\ IF anRow[Step(w).b] = "resident" /\ Step(w).b \in anBytes THEN Onward(w) ELSE Leave(w)
    /\ UNCHANGED <<anBytes, anRow, minted, latch, saw, pending, reaped, starts, faults, reaps>>

\* A step fails: the analyzer and its latches live on.
AnFail(w) ==
    /\ anJob[w] # Idle /\ faults < MaxFaults /\ faults' = faults + 1
    /\ Leave(w) /\ saw' = [saw EXCEPT ![w] = FALSE]
    /\ UNCHANGED <<anBytes, anRow, minted, latch, pending, reaped, starts, reaps>>

\* The process dies and starts over with fresh analyzers.
AnCrash ==
    /\ faults < MaxFaults /\ faults' = faults + 1
    /\ anJob' = [w \in Workers |-> Idle] /\ anTodo' = [w \in Workers |-> <<>>]
    /\ saw' = [w \in Workers |-> FALSE] /\ latch' = [w \in Workers |-> {}] /\ pending' = {}
    /\ UNCHANGED <<anBytes, anRow, minted, reaped, starts, reaps>>

(****************************************************************************)
(* The rest of the daemon.                                                  *)
(****************************************************************************)
\* An ingest stores bytes and then writes their row.
IngestPut ==
    /\ \E b \in (Ingestable \cup Keys) \ pending :
        /\ anRow[b] # "resident" /\ anBytes' = anBytes \cup {b} /\ pending' = pending \cup {b}
    /\ UNCHANGED <<anRow, minted, latch, anJob, anTodo, saw, reaped, starts, faults, reaps>>
IngestRow ==
    /\ \E b \in pending :
        /\ anRow' = [anRow EXCEPT ![b] = "resident"] /\ pending' = pending \ {b}
    /\ UNCHANGED <<anBytes, minted, latch, anJob, anTodo, saw, reaped, starts, faults, reaps>>

\* Orphans applies to a blob with a Resident row that no recipe names; its
\* grace window is longer than any analysis, so none is under way.
Reap ==
    /\ reaps < MaxReaps /\ reaps' = reaps + 1
    /\ \A w \in Workers : anJob[w] = Idle
    /\ \E b \in anBytes \ Items :
        /\ anRow[b] = "resident" /\ \A r \in minted : b # r.out /\ b \notin r.ins
        /\ anBytes' = anBytes \ {b} /\ anRow' = [anRow EXCEPT ![b] = "none"]
        /\ reaped' = reaped \cup ({b} \cap Transforms)
    /\ UNCHANGED <<minted, latch, anJob, anTodo, saw, pending, starts, faults>>

AnNext ==
    \/ \E w \in Workers : Start(w) \/ StorePut(w) \/ EnsureComponent(w) \/ UpsertBlob(w) \/ BlobByHash(w)
                          \/ MintRecipe(w) \/ Condition(w) \/ AnFail(w)
    \/ AnCrash \/ IngestPut \/ IngestRow \/ Reap

(****************************************************************************)
(* Properties.                                                              *)
(****************************************************************************)
\* At every moment, in the middle of an analysis, after one that failed and
\* after a crash, every recipe in the index can be built from what the store
\* holds.  Components an instance believes to be published but the collector
\* took are counted as there (the README says how that comes about).
MintedIsBuildable ==
    \A r \in minted : r.ins \subseteq Held(anBytes \cup reaped, minted)

\* The comment of mint_decomposition: a blob whose bytes are there and whose
\* row says so is never demoted to Absent by a claim about it.
NeverDemoted ==
    [][\A b \in DOMAIN anRow : anRow[b] = "resident" /\ anRow'[b] = "absent" => b \notin anBytes']_anvars

=============================================================================
