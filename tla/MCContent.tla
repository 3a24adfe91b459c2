----------------------------- MODULE MCContent ------------------------------
(* Content on its way in and out, checked in one run: ingest, the analyzers' *)
(* publications, serving, blessing, the swap and peer synchronization.  They *)
(* share no state here; `part` says which of them a behaviour is about, and *)
(* the others rest.                                                         *)
EXTENDS Integers, Sequences, FiniteSets

CONSTANTS Rewritten, IWorkers, InflightCap, ReorderCap, Named, Limits, MaxPasses, MaxTouches,
    MaxIFaults, Workers, Ingestable, Keys, MaxStarts, MaxFaults, MaxReaps, k1, k2, l1, l2,
    Readers, Leaves, Components, NoComponent, MaxRots, MaxReads, TreeCap, Pool, PageSize,
    QueueCap, MaxDrift, Corpus, CorpusKinds, CorpusWeight, Pieces, Routes, Assembles, Holdings, Late, Liars, ReclaimMin, MaxCrashes,
    MaxErrors, MaxPublished, Symbols, LastCell, b1, b2, b3, SBlobs, WantLists, MaxRounds,
    MaxLosses

\* A pass has workers and pages, and a blob above the floor has a tree.
ASSUME ContentAssumption ==
    /\ Corpus \in Nat /\ CorpusWeight \in [1 .. Corpus -> Nat \ {0}]
    /\ IsFiniteSet(Pool) /\ PageSize \in Nat \ {0} /\ TreeCap \in Nat

\* Ingest: a directory with an archive that refuses a member, a symlink, an archive
\* a component unpacks, and a trimmed file; the first may be rewritten.
IngestKind(k, m, r) == [kind |-> k, members |-> m, refused |-> r]
IngestAnatomy ==
    [rom |-> IngestKind("plain", {}, {}), zip |-> IngestKind("zip", {"rom", "mem"}, {}),
     lock |-> IngestKind("zip", {"mem"}, {"hid"}), hid |-> IngestKind("plain", {}, {}),
     mem |-> IngestKind("plain", {}, {}), rar |-> IngestKind("component", {"rom"}, {}),
     trim |-> IngestKind("trimmed", {"mem"}, {})]
IngestIds == <<"rom", "zip", "lock", "hid", "mem", "rar", "trim">>
IngestTree == <<"p1", "p2", "p3", "p4">>
IngestContent == [p1 |-> "lock", p2 |-> "symlink", p3 |-> "rar", p4 |-> "trim"]
IngestWeight ==
    [b \in DOMAIN IngestAnatomy |-> CASE b = "rar" -> 3 [] b = "rom" -> 0 [] OTHER -> 2]
IngestFlags == {<<FALSE, FALSE>>, <<FALSE, TRUE>>}

\* Analyze: one item for every family, with pieces that several of them share.
AnalyzeSplit(fam, item, pieces, views) ==
    [family |-> fam, item |-> item, pieces |-> pieces, empty |-> TRUE, views |-> views,
     generated |-> <<"fill">>]
AnalyzeLayouts ==
    {[family |-> "preflate", item |-> "zip", skel |-> "zip.skel",
      members |-> <<[plain |-> "rom", corr |-> "zip.corr", stream |-> "zip.stream"]>>],
     [family |-> "ecm", item |-> "bin", stripped |-> "bin.stripped", layout |-> "bin.layout"],
     [family |-> "chunk", item |-> "zip", chunks |-> <<"c1", "c2">>],
     AnalyzeSplit("nds", "nds", <<"narc", "rom">>, <<"trim">>),
     AnalyzeSplit("narc", "narc", <<"rom">>, <<>>),
     AnalyzeSplit("iso9660", "iso", <<"rom">>, <<>>),
     AnalyzeSplit("xdvdfs", "iso", <<"rom">>, <<"xiso">>),
     AnalyzeSplit("gcm", "iso", <<"rom">>, <<>>),
     [family |-> "wii", item |-> "wbfs", generated |-> <<"fill">>, pieces |-> <<"body">>,
      parts |-> <<[key |-> "key", body |-> "body", plain |-> "plain", pieces |-> <<"rom">>,
                   empty |-> FALSE]>>]}

\* Serve: plans over two literals and two components, up to two levels deep.
ServeLit(l) == [op |-> "literal", leaf |-> l]
ServeRun(c, l) == [op |-> c, leaf |-> l]
ServePlans ==
    {[top |-> "assemble", kids |-> <<ServeLit(l1), ServeLit(l2)>>],
     [top |-> "assemble", kids |-> <<ServeRun(k1, l1), ServeLit(l2)>>],
     [top |-> "assemble", kids |-> <<ServeRun(k1, l1), ServeRun(k2, l2)>>],
     [top |-> k1, kids |-> <<ServeLit(l1)>>],
     [top |-> k1, kids |-> <<ServeRun(k2, l1)>>]}
ServeAtRest == CHOOSE p \in ServePlans : p.top = k1

\* Bless: four blobs, honest, lying, lost, affine or in a knot; one heavier than the
\* budget.
BlessKinds ==
    {<<"true", "true", "true", "true">>, <<"lie", "true", "affine", "true">>,
     <<"lost", "true", "knot", "lie">>}
BlessWeight == <<1, 3, 1, 1>>
BlessOptions ==
    [materialize : BOOLEAN, affine : BOOLEAN, dry : {FALSE}, limit : {0}]
    \cup [materialize : {TRUE}, affine : {FALSE}, dry : BOOLEAN, limit : {2}]

\* Swap: 1 is a disc and 2 its variant, 3 an archive with members 4 and 5; 6 and 7
\* are pieces, 8 is generated.
SwapBytes == <<12, 9, 6, 3, 2, 4, 4, 20>>
SwapReads == <<{1}, {3, 6, 8}, {3}, {3}, {4, 5}, {1}, {2}, {2}, {6, 7}, {}>>
SwapMakes == <<3, 1, 4, 5, 3, 6, 6, 7, 2, 8>>

\* Sync: every set of plans over three blobs, circular ones and a lying one included.
SyncPlan(o, i) == [out |-> o, ins |-> i]
SyncPlans ==
    {SyncPlan(b1, <<b2, b3>>), SyncPlan(b2, <<b1>>), SyncPlan(b3, <<b1>>), SyncPlan(b1, <<b3>>),
     SyncPlan(b2, <<b3>>)}
SyncWorlds ==
    {[plans |-> p, lies |-> l, holds |-> {b1, b2, b3}] :
        p \in SUBSET SyncPlans, l \in {{}, {SyncPlan(b1, <<b2, b3>>)}}}
SyncAtRest == [plans |-> {}, lies |-> {}, holds |-> {b1, b2, b3}]

VARIABLES
    part,   \* the part this behaviour is about
    disk, bytes, row, claims, source, skips, pass, flags, walk, pending, todo, queue, hand, done,
    report, spent, anBytes, anRow, minted, latch, anJob, anTodo, saw, analyzePending, reaped,
    starts, faults, reaps, shape, affine, liars, seekable, rotten, resident, sidecar,
    quarantined, flight, gate, gates, locked, rpc, seeks, window, via, served, blessings, rots,
    reads, kinds, options, rows, blessDisk, trees, verdict, blessWalk, blessQueue, working,
    results, blessReport, moved, blessSpent, known, verify, swapResident, packed, evicted, lies,
    armed, at, swapTodo, swap, crashes, errors, published, ours, theirs, cellsOf, cs, remote,
    local, decodable, decoded, reconciled, world, peerHolds, wants, plans, failed, holds, phase,
    diff, rootDiff, missing, unavailable, rounds, losses

Ig == INSTANCE Ingest WITH Tree <- IngestTree, Content <- IngestContent, Anatomy <- IngestAnatomy,
      Ids <- IngestIds, Weight <- IngestWeight, Flags <- IngestFlags
An == INSTANCE Analyze WITH Layouts <- AnalyzeLayouts, pending <- analyzePending
Sv == INSTANCE Serve WITH Plans <- ServePlans
Bl == INSTANCE Bless WITH BlobIds <- 1 .. Corpus, BlobKinds <- CorpusKinds, TreeWeight <- CorpusWeight,
      PassOptions <- BlessOptions, disk <- blessDisk, walk <- blessWalk,
      queue <- blessQueue, report <- blessReport, spent <- blessSpent
Sw == INSTANCE Swap WITH BlobBytes <- SwapBytes, Reads <- SwapReads, Makes <- SwapMakes,
      resident <- swapResident, todo <- swapTodo
Rb == INSTANCE Riblt
Sy == INSTANCE Sync WITH Worlds <- SyncWorlds

IgVars == <<disk, bytes, row, claims, source, skips, pass, flags, walk, pending, todo, queue,
    hand, done, report, spent>>
AnVars == <<anBytes, anRow, minted, latch, anJob, anTodo, saw, analyzePending, reaped, starts,
    faults, reaps>>
SvVars == <<shape, affine, liars, seekable, rotten, resident, sidecar, quarantined, flight, gate,
    gates, locked, rpc, seeks, window, via, served, blessings, rots, reads>>
BlVars == <<kinds, options, rows, blessDisk, trees, verdict, blessWalk, blessQueue, working,
    results, blessReport, moved, blessSpent>>
SwVars == <<known, verify, swapResident, packed, evicted, lies, armed, at, swapTodo, swap,
    crashes, errors, published>>
RbVars == <<ours, theirs, cellsOf, cs, remote, local, decodable, decoded, reconciled>>
SyVars == <<world, peerHolds, wants, plans, failed, holds, phase, diff, rootDiff, missing,
    unavailable, rounds, losses>>
allVars == <<part, IgVars, AnVars, SvVars, BlVars, SwVars, RbVars, SyVars>>

\* The parts a behaviour is not about rest in one initial state.
IgRests == Ig!IgInit
AnRests == An!AnInit
SvRests == shape = ServeAtRest /\ seekable = {} /\ liars = {} /\ Sv!SVInit
BlRests == kinds = [b \in 1 .. Corpus |-> "true"] /\ blessDisk = {} /\ trees = {} /\ Bl!BInit /\ options = [materialize |-> TRUE, affine |-> FALSE, dry |-> FALSE, limit |-> 2]
SwRests == known = Routes /\ swapResident = {1, 2} /\ lies = {} /\ armed = FALSE /\ Sw!SwInit
RbRests == ours = {} /\ theirs = {} /\ cellsOf = [s \in Symbols |-> {0}] /\ Rb!RBInit
SyRests == world = SyncAtRest /\ wants = {} /\ Sy!SYInit

SuiteInit ==
    \/ part = "ingest" /\ AnRests /\ SvRests /\ BlRests /\ SwRests /\ RbRests /\ SyRests /\
        Ig!IgInit
    \/ part = "analyze" /\ IgRests /\ SvRests /\ BlRests /\ SwRests /\ RbRests /\ SyRests /\
        An!AnInit
    \/ part = "serve" /\ IgRests /\ AnRests /\ BlRests /\ SwRests /\ RbRests /\ SyRests /\
        Sv!SVInit
    \/ part = "bless" /\ IgRests /\ AnRests /\ SvRests /\ SwRests /\ RbRests /\ SyRests /\
        Bl!BInit
    \/ part = "swap" /\ IgRests /\ AnRests /\ SvRests /\ BlRests /\ RbRests /\ SyRests /\
        Sw!SwInit
    \/ part = "riblt" /\ IgRests /\ AnRests /\ SvRests /\ BlRests /\ SwRests /\ SyRests /\
        Rb!RBInit
    \/ part = "sync" /\ IgRests /\ AnRests /\ SvRests /\ BlRests /\ SwRests /\ RbRests /\
        Sy!SYInit

IgStep ==
    /\ part = "ingest" /\ Ig!IgNext
    /\ UNCHANGED <<part, AnVars, SvVars, BlVars, SwVars, RbVars, SyVars>>
AnStep ==
    /\ part = "analyze" /\ An!AnNext
    /\ UNCHANGED <<part, IgVars, SvVars, BlVars, SwVars, RbVars, SyVars>>
SvStep ==
    /\ part = "serve" /\ Sv!SVNext
    /\ UNCHANGED <<part, IgVars, AnVars, BlVars, SwVars, RbVars, SyVars>>
BlStep ==
    /\ part = "bless" /\ Bl!BNext
    /\ UNCHANGED <<part, IgVars, AnVars, SvVars, SwVars, RbVars, SyVars>>
SwStep ==
    /\ part = "swap" /\ Sw!SwNext
    /\ UNCHANGED <<part, IgVars, AnVars, SvVars, BlVars, RbVars, SyVars>>
RbStep ==
    /\ part = "riblt" /\ Rb!RBNext
    /\ UNCHANGED <<part, IgVars, AnVars, SvVars, BlVars, SwVars, SyVars>>
SyStep ==
    /\ part = "sync" /\ Sy!SYNext
    /\ UNCHANGED <<part, IgVars, AnVars, SvVars, BlVars, SwVars, RbVars>>

SuiteNext == IgStep \/ AnStep \/ SvStep \/ BlStep \/ SwStep \/ RbStep \/ SyStep

Spec == SuiteInit /\ [][SuiteNext]_allVars

\* Ingest alone.
IngestSpec == part = "ingest" /\ SuiteInit /\ [][SuiteNext]_allVars

\* Ingest: the rescan cache tells the truth, members are never lost with their container, and
\* the report is in order and complete when it says so.
IngestKeepsAll ==
    part = "ingest" =>
        /\ Ig!CacheTruth
        /\ Ig!AppliedBeforeCached
        /\ Ig!MembersKept
        /\ Ig!ReportInOrder
        /\ Ig!CompleteMeansDone

\* Unpacking: a container that skipped any member is kept whole, since those bytes exist
\* nowhere else (the comment on `apply`).
SkippedIsKept == part = "ingest" => Ig!SkippedIsKept

\* Analyzers: every recipe they mint can be built from what the store holds.
MintedIsBuildable == part = "analyze" => An!MintedIsBuildable

\* Serving: no reader is handed bytes that are not the blob's, a component is blessed once, and
\* an I/O error has a cause.
ServedTrue ==
    part = "serve" =>
        /\ Sv!ServedBytesTrue
        /\ Sv!BlessedOnce
        /\ Sv!EioHasACause

\* Blessing: a complete pass has judged everything, the tree budget holds, no page is skipped.
BlessHonest ==
    part = "bless" =>
        /\ Bl!CompleteIsTrue
        /\ Bl!BudgetHolds
        /\ Bl!NothingOverlooked

\* Swap: a disc is dropped only when its leaves suffice to rebuild it.
LeavesSuffice == part = "swap" => Sw!LeavesSuffice

\* Synchronization: the sketches decode to the exact difference, a mirrored peer can rebuild all
\* it learned of, and only lies are refuted.
MirrorsSound ==
    /\ part = "riblt" => Rb!DifferenceExact /\ Rb!SettledCounted
    /\ part = "sync" => Sy!MirrorGrounds /\ Sy!RefutedOnlyByLies

=============================================================================
