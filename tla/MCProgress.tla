----------------------------- MODULE MCProgress -----------------------------
(* The parts of the system that must come to an end by themselves, checked  *)
(* with their fairness: the grounding query's rounds, the NFS record layer, *)
(* an execution's threads and pipes, the snapshot cadence,                  *)
(* a bless pass and a scan.  They share no state here; `part` says which of *)
(* them a behaviour is about, and the others rest.                          *)
EXTENDS GroundedLoop, Integers, Sequences

CONSTANTS Conns, Xids, Retention, MaxSends, MaxTime, Stages, Outputs, Blocks, Depth, Habits,
    Modes, MaxPipeFaults, MaxChanges, MaxDemands, MaxSnapshotsFaults, MaxLosses, TreeCap, Pool,
    PageSize, QueueCap, MaxDrift, MaxBlessFaults, Rewritten, IWorkers, InflightCap, ReorderCap,
    Named, Limits, MaxPasses, MaxTouches, MaxIFaults

\* Times are counted from zero; an execution has a guest, and streams of some length.
ASSUME ProgressAssumption ==
    /\ Retention \in Nat /\ MaxTime \in Nat
    /\ Stages \in Nat \ {0} /\ Outputs \in Nat /\ Blocks \in Nat \ {0}

\* The grounding query: a container and its plaintext rebuild each other, a third
\* blob needs both, and a zero-input recipe generates the plaintext (D111).
MCBlob == {"zip", "plain", "disc"}
MCRecipe == {"inflate", "deflate", "join", "generate"}
MCIn == [inflate |-> {"zip"}, deflate |-> {"plain"}, join |-> {"zip", "plain"}, generate |-> {}]
MCOut == [inflate |-> {"plain"}, deflate |-> {"zip"}, join |-> {"disc"}, generate |-> {"plain"}]

\* Bless: four blobs, one of them heavier than the budget.
BlessBlobs == 1 .. 4
BlessKinds ==
    {<<"true", "true", "true", "true">>, <<"lie", "true", "affine", "true">>,
     <<"lost", "true", "knot", "lie">>}
BlessWeight == <<1, 3, 1, 1>>
BlessOptions ==
    [materialize : BOOLEAN, affine : BOOLEAN, dry : {FALSE}, limit : {0}]
    \cup [materialize : {TRUE}, affine : {FALSE}, dry : BOOLEAN, limit : {2}]

\* Ingest: an archive, a symlink, and an archive heavier than the budget.
IngestKind(k, m, r) == [kind |-> k, members |-> m, refused |-> r]
IngestAnatomy ==
    [rom |-> IngestKind("plain", {}, {}), zip |-> IngestKind("zip", {"rom"}, {}),
     rar |-> IngestKind("component", {"rom"}, {})]
IngestIds == <<"rom", "zip", "rar">>
IngestTree == <<"p1", "p2", "p3", "p4">>
IngestContent == [p1 |-> "zip", p2 |-> "symlink", p3 |-> "rar", p4 |-> "zip"]
IngestWeight == [rom |-> 0, zip |-> 2, rar |-> 3]
IngestFlags == {<<FALSE, TRUE>>}

VARIABLES
    part,   \* the part this behaviour is about
    wire, partial, tasks, txn, chan, answers, open, sent, ran, now, habit, mode, literal, queue,
    tx, rx, error, finished, gpc, result, consumed, early, hand, unsent, cpc, got, ended, joined,
    verdict, pipeFaults, live, file, objs, log, minter, good, recov, fresh, used, kinds, options,
    rows, disk, trees, blessVerdict, walk, blessQueue, working, results, report, moved, spent,
    ingestDisk, bytes, row, claims, source, skips, pass, flags, ingestWalk, pending, todo,
    ingestQueue, ingestHand, done, ingestReport, ingestSpent

R == INSTANCE Rpc
P == INSTANCE Pipeline
S == INSTANCE Snapshots WITH MaxFaults <- MaxSnapshotsFaults
B == INSTANCE Bless WITH BlobIds <- BlessBlobs, BlobKinds <- BlessKinds, TreeWeight <- BlessWeight,
      PassOptions <- BlessOptions, MaxFaults <- MaxBlessFaults, verdict <- blessVerdict,
      queue <- blessQueue
I == INSTANCE Ingest WITH Tree <- IngestTree, Content <- IngestContent, Anatomy <- IngestAnatomy,
      Ids <- IngestIds, Weight <- IngestWeight, Flags <- IngestFlags, disk <- ingestDisk,
      walk <- ingestWalk, queue <- ingestQueue, hand <- ingestHand,
      report <- ingestReport, spent <- ingestSpent

GVars == <<usable, literals, seeds, table, stage, always, ever>>
RVars == <<wire, partial, tasks, txn, chan, answers, open, sent, ran, now>>
PVars == <<habit, mode, literal, queue, tx, rx, error, finished, gpc, result, consumed, early,
    hand, unsent, cpc, got, ended, joined, verdict, pipeFaults>>
SVars == <<live, file, objs, log, minter, good, recov, fresh, used>>
BVars == <<kinds, options, rows, disk, trees, blessVerdict, walk, blessQueue, working, results,
    report, moved, spent>>
IVars == <<ingestDisk, bytes, row, claims, source, skips, pass, flags, ingestWalk, pending, todo,
    ingestQueue, ingestHand, done, ingestReport, ingestSpent>>
allVars == <<part, GVars, RVars, PVars, SVars, BVars, IVars>>

\* The parts a behaviour is not about rest in one initial state.
GRests == usable = {} /\ literals = {} /\ Init
RRests == R!RInit
PRests == P!PLInit /\ (\A s \in P!Stage : habit[s] = "honest") /\ mode = "store" /\ literal = Blocks
SRests == S!SnInit
BRests == kinds = <<"true", "true", "true", "true">> /\ disk = {} /\ trees = {} /\ B!BInit /\ options = [materialize |-> TRUE, affine |-> FALSE, dry |-> FALSE, limit |-> 2]
IRests == I!IgInit

SuiteInit ==
    \/ part = "grounding" /\ RRests /\ PRests /\ SRests /\ BRests /\ IRests /\ Init
    \/ part = "rpc" /\ GRests /\ PRests /\ SRests /\ BRests /\ IRests /\ R!RInit
    \/ part = "pipeline" /\ GRests /\ RRests /\ SRests /\ BRests /\ IRests /\ P!PLInit
    \/ part = "snapshots" /\ GRests /\ RRests /\ PRests /\ BRests /\ IRests /\ S!SnInit
    \/ part = "bless" /\ GRests /\ RRests /\ PRests /\ SRests /\ IRests /\ B!BInit
    \/ part = "ingest" /\ GRests /\ RRests /\ PRests /\ SRests /\ BRests /\ I!IgInit

GStep ==
    /\ part = "grounding" /\ Next
    /\ UNCHANGED <<part, RVars, PVars, SVars, BVars, IVars>>
RStep ==
    /\ part = "rpc" /\ R!RNext
    /\ UNCHANGED <<part, GVars, PVars, SVars, BVars, IVars>>
PStep ==
    /\ part = "pipeline" /\ P!PLNext
    /\ UNCHANGED <<part, GVars, RVars, SVars, BVars, IVars>>
SStep ==
    /\ part = "snapshots" /\ S!SnNext
    /\ UNCHANGED <<part, GVars, RVars, PVars, BVars, IVars>>
BStep ==
    /\ part = "bless" /\ B!BNext
    /\ UNCHANGED <<part, GVars, RVars, PVars, SVars, IVars>>
IStep ==
    /\ part = "ingest" /\ I!IgNext
    /\ UNCHANGED <<part, GVars, RVars, PVars, SVars, BVars>>

SuiteNext == GStep \/ RStep \/ PStep \/ SStep \/ BStep \/ IStep

\* Each part's own fairness: a round follows a round; tokio runs every ready task and reads every
\* readable socket; every thread of an execution and of a pass is scheduled, and the
\* snapshot's clock rings.
Fairness ==
    /\ WF_GVars(part = "grounding" /\ Round)
    /\ \A c \in Conns : WF_RVars(part = "rpc" /\ R!ReadFragment(c)) /\ WF_RVars(part = "rpc" /\ R!Reply(c))
    /\ WF_RVars(part = "rpc" /\ \E t \in tasks : R!TaskStep(t))
    /\ \A s \in P!Stage : WF_PVars(part = "pipeline" /\ P!Guest(s))
    /\ \A c \in P!Consumer : WF_PVars(part = "pipeline" /\ P!Consume(c))
    /\ WF_PVars(part = "pipeline" /\ P!Joiner)
    /\ WF_SVars(part = "snapshots" /\ S!Daemon)
    /\ WF_SVars(part = "snapshots" /\ S!MintStep("cli"))
    /\ WF_SVars(part = "snapshots" /\ S!RecoverStep)
    /\ WF_BVars(part = "bless" /\ B!Coordinate)
    /\ \A w \in Pool : WF_BVars(part = "bless" /\ (B!TakeJob(w) \/ B!FinishJob(w)))
    /\ WF_IVars(part = "ingest" /\ I!Writer)
    /\ \A w \in IWorkers : WF_IVars(part = "ingest" /\ I!Worker(w))

ProgressSpec == SuiteInit /\ [][SuiteNext]_allVars /\ Fairness

\* Rpc: every call is answered or its connection ends.
CallsAnswered == part = "rpc" => R!CallsAnswered

\* What crosses a thread or a wire is what was sent: a transaction is not run twice within its
\* retention and nothing is answered that was not asked; a recipe is licensed only on whole and
\* right outputs, a reader never takes a failed producer for a finished one, and an execution of
\* honest guests without a fault ends in a licence.
ExchangesHonest ==
    /\ part = "rpc" => R!RunOnce /\ R!AnswersWereAsked
    /\ part = "pipeline" => P!LicensedOnlyIfTrue /\ P!NoCleanEofAfterFailure /\ P!HonestIsLicensed

\* What must come to an end by itself does: an execution reaches a verdict whatever its guests do,
\* a bless pass and a scan return whatever their budgets hold.
PassesEnd ==
    /\ part = "pipeline" => P!ExecutionEnds
    /\ part = "bless" => B!BlessEnds
    /\ part = "ingest" => I!WalkEnds

\* Snapshots: again and again the newest snapshot holds the databases' state.
SnapshotCatchesUp == part = "snapshots" => S!SnapshotCatchesUp

=============================================================================
