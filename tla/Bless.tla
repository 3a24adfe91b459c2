------------------------------- MODULE Bless --------------------------------
(****************************************************************************)
(* The bulk blessing pass (datboi-exec/src/bless.rs): one coordinator that   *)
(* pages the candidates, triages them against the index and retires verdicts,*)
(* and a pool of workers that materialize and hash, beside a daemon that     *)
(* moves the corpus.  A blob's outcome is its kind: its route is "true", a   *)
(* "lie", "lost" (claimed, but nothing can produce it), a "knot" (refuses to *)
(* plan) or "affine" (served without a tree).                                *)
(****************************************************************************)
EXTENDS Naturals, Sequences, FiniteSets, FiniteSetsExt, SequencesExt

CONSTANTS
    BlobIds,        \* 1..n: ids of the blobs at or above the floor, in the order the walk pages them
    BlobKinds,      \* the assignments of kinds to blobs to check
    TreeWeight,     \* id -> outboard_size(len), which is positive above the floor
    TreeCap,        \* the in-flight budget
    Pool,           \* the workers
    PageSize,       \* PAGE
    QueueCap,       \* QUEUE_CAP
    PassOptions,    \* the BlessOptions to check: [materialize, affine, dry, limit]
    MaxDrift,       \* changes the daemon makes meanwhile
    MaxFaults       \* failures of the index, the disk or a worker

VARIABLES
    kinds, options,
    rows,           \* id -> "absent" | "resident": the index row
    disk,           \* the blobs whose bytes are in the store
    trees,          \* the blobs that have a sidecar
    verdict,        \* id -> "verified" | "replayed" | "failed": the route's verify state
    walk,           \* coordinator: [pc, page, cursor, walking, held, inflight]; a page is in id order
    queue,          \* jobs dispatched and not yet taken
    working,        \* worker -> the job it holds, 0 for none
    results,        \* verdicts on the done channel: [job, outcome]
    report,         \* BlessReport
    moved,          \* blobs the daemon has changed since the pass began
    spent           \* [drift, faults] used up

bvars == <<kinds, options, rows, disk, trees, verdict, walk, queue, working, results, report, moved, spent>>

\* BLESS_CANDIDATE_SQL: not local, and claimed by a route that is not failed.
Candidates == {b \in BlobIds : rows[b] # "resident" /\ verdict[b] # "failed"}

NoReport == [population |-> 0, examined |-> 0, already |-> 0, reconciled |-> 0, carved |-> 0, noRoute |-> 0,
             selected |-> 0, blessed |-> 0, materialized |-> 0, unrecorded |-> 0, outOfRoom |-> FALSE,
             failed |-> {}, poisoned |-> 0]

BInit ==
    /\ kinds \in BlobKinds /\ options \in PassOptions
    /\ rows = [b \in BlobIds |-> "absent"] /\ disk \in {{}, {Max(BlobIds)}} /\ trees \in {{}, {Max(BlobIds)}}
    /\ verdict = [b \in BlobIds |-> "verified"]
    /\ walk = [pc |-> "walk", page |-> {}, cursor |-> 0, walking |-> TRUE, held |-> 0, inflight |-> 0]
    /\ queue = <<>> /\ working = [w \in Pool |-> 0] /\ results = <<>>
    /\ report = [NoReport EXCEPT !.population = Cardinality(BlobIds)]
    /\ moved = {} /\ spent = [drift |-> 0, faults |-> 0]

----------------------------------------------------------------------------
(* The coordinator.                                                         *)

Outstanding == Len(queue) + Len(results) + Cardinality({w \in Pool : working[w] # 0})

\* Mutant: a job heavier than the whole budget waits for room it will never have.
AdmitsByBudget(inflight, weight) == inflight + weight <= TreeCap
\* Mutant: the budget is looked at, not charged with the job.
AdmitsBefore(inflight, weight) == inflight <= TreeCap

\* admits: a job heavier than the budget runs alone rather than never.
Admits(inflight, weight) == inflight = 0 \/ inflight + weight <= TreeCap

\* dispatch.
Dispatch(b) == /\ queue' = Append(queue, b)
               /\ walk' = [walk EXCEPT !.held = 0, !.inflight = @ + TreeWeight[b]]

\* The turn begins: a held job goes first, if the budget admits it now.
HeldFirst ==
    /\ walk.pc = "walk" /\ walk.held # 0 /\ Admits(walk.inflight, TreeWeight[walk.held])
    /\ Dispatch(walk.held)
    /\ UNCHANGED <<kinds, options, rows, disk, trees, verdict, working, results, report, moved, spent>>

Walks == walk.pc = "walk" /\ walk.held = 0 /\ walk.walking /\ Outstanding < QueueCap

\* Mutant: pages by offset, over a population that shrinks as the pass records what it has done.
NextPageByOffset ==
    LET Rank(b) == Cardinality({c \in Candidates : c <= b})
    IN  {b \in Candidates : Rank(b) > report.examined /\ Rank(b) <= report.examined + PageSize}

\* bless_candidates_after: the next candidates in id order, past the cursor.
NextPage ==
    LET rest == {b \in Candidates : b > walk.cursor}
    IN  {b \in rest : Cardinality({c \in rest : c <= b}) <= PageSize}

FetchPage ==
    /\ Walks /\ walk.page = {}
    /\ walk' = IF NextPage = {} THEN [walk EXCEPT !.walking = FALSE]
               ELSE [walk EXCEPT !.page = NextPage, !.cursor = Max(NextPage)]
    /\ UNCHANGED <<kinds, options, rows, disk, trees, verdict, queue, working, results, report, moved, spent>>

\* bless_triage: bytes that are there only need their row; a tree is enough unless bytes are wanted.
Skipped(b) ==
    CASE b \in disk -> "reconciled"
      [] b \notin disk /\ ~options.materialize /\ b \in trees -> "already"
      [] b \notin disk /\ (options.materialize \/ b \notin trees) /\ kinds[b] = "lost" -> "noRoute"
      [] b \notin disk /\ (options.materialize \/ b \notin trees) /\ kinds[b] = "knot" -> "failed"
      [] b \notin disk /\ (options.materialize \/ b \notin trees) /\ kinds[b] = "affine" /\ ~options.affine -> "carved"
      [] OTHER -> "no"

Counted(r, field) == [r EXCEPT ![field] = @ + 1]

\* One candidate: skipped and counted, or selected, and then dispatched or held.
Examine ==
    /\ Walks /\ walk.page # {}
    /\ LET b == Min(walk.page)
           why == Skipped(b)
           r == Counted(report, "examined")
           sel == Counted(r, "selected")
           stop == options.limit # 0 /\ sel.selected >= options.limit
           on == [walk EXCEPT !.page = IF why = "no" /\ stop THEN {} ELSE @ \ {b},
                              !.walking = @ /\ ~(why = "no" /\ stop)]
       IN  /\ rows' = IF why = "reconciled" THEN [rows EXCEPT ![b] = "resident"] ELSE rows
           /\ report' = CASE why = "failed" -> [r EXCEPT !.failed = @ \cup {b}]
                          [] why = "no" -> sel
                          [] OTHER -> Counted(r, why)
           /\ IF why # "no" \/ options.dry THEN walk' = on /\ UNCHANGED queue
              ELSE IF Admits(on.inflight, TreeWeight[b])
                   THEN walk' = [on EXCEPT !.inflight = @ + TreeWeight[b]] /\ queue' = Append(queue, b)
                   ELSE walk' = [on EXCEPT !.held = b] /\ UNCHANGED queue
    /\ UNCHANGED <<kinds, options, disk, trees, verdict, working, results, moved, spent>>

\* Nothing is owed and nothing is left to stage: the pass is over.
Return ==
    /\ walk.pc = "walk" /\ Outstanding = 0 /\ ~walk.walking /\ walk.held = 0
    /\ walk' = [walk EXCEPT !.pc = "done"]
    /\ UNCHANGED <<kinds, options, rows, disk, trees, verdict, queue, working, results, report, moved, spent>>

\* What stops staging: the index cannot be written, or the disk is full.
Stopped(w) == [w EXCEPT !.walking = FALSE, !.page = {}, !.held = 0]

\* record_materialized: resident, and the single-output route that made it has replayed here.
RecordWorks(b) == [report EXCEPT !.blessed = @ + 1, !.materialized = @ + 1]
\* Mutant: a row that could not be written is not counted.
RecordFailsQuietly(b) == Counted(report, "blessed")
RecordFails(b) == [report EXCEPT !.blessed = @ + 1, !.unrecorded = @ + 1, !.failed = @ \cup {b}]

\* The coordinator may block on the done channel only when it can stage nothing.
MayWait == walk.pc = "walk" /\ results # <<>>
           /\ (walk.held # 0 \/ ~walk.walking \/ Outstanding >= QueueCap)
           /\ (walk.held # 0 => ~Admits(walk.inflight, TreeWeight[walk.held]))

\* One verdict is retired.
Retire ==
    /\ MayWait
    /\ LET d == Head(results)
           b == d.job
           w == [walk EXCEPT !.inflight = @ - TreeWeight[b]]
       IN  /\ results' = Tail(results)
           /\ \/ d.outcome = "made" /\ options.materialize
                 /\ \/ /\ rows' = [rows EXCEPT ![b] = "resident"] /\ report' = RecordWorks(b) /\ walk' = w
                       /\ verdict' = IF verdict[b] = "verified" THEN [verdict EXCEPT ![b] = "replayed"] ELSE verdict
                       /\ UNCHANGED spent
                    \/ /\ spent.faults < MaxFaults /\ spent' = [spent EXCEPT !.faults = @ + 1]
                       /\ report' = RecordFails(b) /\ walk' = Stopped(w) /\ UNCHANGED <<rows, verdict>>
              \/ /\ d.outcome = "made" /\ ~options.materialize
                 /\ report' = Counted(report, "blessed") /\ walk' = w /\ UNCHANGED <<rows, verdict, spent>>
              \/ /\ d.outcome = "there"
                 /\ report' = Counted(Counted(report, "blessed"), "already") /\ walk' = w /\ UNCHANGED <<rows, verdict, spent>>
              \/ /\ d.outcome = "full"
                 /\ report' = [report EXCEPT !.outOfRoom = TRUE, !.failed = IF report.outOfRoom THEN @ ELSE @ \cup {b}]
                 /\ walk' = Stopped(w) /\ UNCHANGED <<rows, verdict, spent>>
              \/ /\ d.outcome \in {"disproved", "broken"}
                 /\ report' = [report EXCEPT !.failed = @ \cup {b}, !.poisoned = @ + (IF d.outcome = "disproved" THEN 1 ELSE 0)]
                 /\ verdict' = IF d.outcome = "disproved" THEN [verdict EXCEPT ![b] = "failed"] ELSE verdict
                 /\ walk' = w /\ UNCHANGED <<rows, spent>>
    /\ UNCHANGED <<kinds, options, disk, trees, queue, working, moved>>

----------------------------------------------------------------------------
(* The workers.                                                             *)

TakeJob(w) ==
    /\ queue # <<>> /\ working[w] = 0
    /\ working' = [working EXCEPT ![w] = Head(queue)] /\ queue' = Tail(queue)
    /\ UNCHANGED <<kinds, options, rows, disk, trees, verdict, walk, results, report, moved, spent>>

\* bless_plan and materialize_plan: a second look, then the bytes, then the sidecar.  A panic is
\* reported as a malformed route, and so as a disproof.
FinishJob(w) ==
    /\ working[w] # 0
    /\ LET b == working[w]
           Tell(o) == results' = Append(results, [job |-> b, outcome |-> o])
           there == IF options.materialize THEN b \in disk ELSE b \in trees
       IN  \/ there /\ Tell("there") /\ UNCHANGED <<disk, trees, spent>>
           \/ ~there /\ kinds[b] = "lie" /\ Tell("disproved") /\ UNCHANGED <<disk, trees, spent>>
           \/ /\ ~there /\ kinds[b] # "lie" /\ Tell("made")
              /\ trees' = trees \cup {b} /\ disk' = IF options.materialize THEN disk \cup {b} ELSE disk
              /\ UNCHANGED spent
           \/ /\ ~there /\ spent.faults < MaxFaults
              /\ \E o \in {"broken", "disproved"} \cup (IF options.materialize THEN {"full"} ELSE {}) : Tell(o)
              /\ spent' = [spent EXCEPT !.faults = @ + 1] /\ UNCHANGED <<disk, trees>>
    /\ working' = [working EXCEPT ![w] = 0]
    /\ UNCHANGED <<kinds, options, rows, verdict, walk, queue, report, moved>>

----------------------------------------------------------------------------
\* The daemon blesses on demand, materializes, or evicts.
Drift(b) ==
    /\ walk.pc = "walk" /\ spent.drift < MaxDrift /\ kinds[b] \in {"true", "affine"}
    /\ \/ /\ b \notin trees /\ trees' = trees \cup {b} /\ UNCHANGED <<rows, disk>>
       \/ /\ b \notin disk /\ trees' = trees \cup {b} /\ disk' = disk \cup {b} /\ rows' = [rows EXCEPT ![b] = "resident"]
       \/ /\ rows[b] = "resident" /\ disk' = disk \ {b} /\ rows' = [rows EXCEPT ![b] = "absent"] /\ UNCHANGED trees
    /\ spent' = [spent EXCEPT !.drift = @ + 1] /\ moved' = moved \cup {b}
    /\ UNCHANGED <<kinds, options, verdict, walk, queue, working, results, report>>

Coordinate == HeldFirst \/ FetchPage \/ Examine \/ Return \/ Retire
BNext == Coordinate \/ (\E w \in Pool : TakeJob(w) \/ FinishJob(w)) \/ (\E b \in BlobIds : Drift(b))

\* Every thread that can run does.
BFairness == WF_bvars(Coordinate) /\ \A w \in Pool : WF_bvars(TakeJob(w) \/ FinishJob(w))

----------------------------------------------------------------------------
(* Properties.                                                              *)

\* complete().
Complete == report.failed = {} /\ report.selected <= report.blessed /\ report.examined = report.population
            /\ report.unrecorded = 0

\* "everything the pass was given, it either did or accounted for": a pass that calls itself
\* complete leaves no candidate behind, whatever the order its workers answer in: each has its tree
\* or, when bytes were asked for, its row says they are here; unless nothing can produce it, it is
\* served without a tree, or the daemon has moved it.
CompleteIsTrue ==
    walk.pc = "done" /\ Complete =>
        \A b \in BlobIds \ moved :
            \/ rows[b] = "resident" /\ b \in disk
            \/ b \in trees /\ ~options.materialize
            \/ kinds[b] = "lost" \/ (kinds[b] = "affine" /\ ~options.affine)

\* The jobs between their dispatch and the retirement of their verdict, and the bytes of tree they
\* may buffer, one by one.
InFlight == Range(queue) \cup {results[i].job : i \in DOMAIN results} \cup {working[w] : w \in {v \in Pool : working[v] # 0}}
TreeBytes(jobs) == UNION {{b} \X (1 .. TreeWeight[b]) : b \in jobs}

\* Trees in flight stay within the budget, unless one job alone exceeds it; the charge is what is in
\* flight, so nothing leaks however a job ends; and no job is in flight twice (admits, dispatch,
\* bless_loop).
BudgetHolds ==
    /\ Outstanding = Cardinality(InFlight)
    /\ walk.inflight = Cardinality(TreeBytes(InFlight))
    /\ walk.inflight <= TreeCap \/ Outstanding = 1

\* No candidate is overlooked: when a pass that nothing cut short ends, it has examined every blob
\* that was a candidate throughout (bless_candidates_after pages by key, not by offset).
NothingOverlooked ==
    walk.pc = "done" /\ options.limit = 0 /\ report.unrecorded = 0 /\ ~report.outOfRoom /\ moved = {} =>
        report.examined = report.population

\* The pass ends (bless_loop: "a coordinator with neither is finished, and one with either makes
\* progress on the next turn").
BlessEnds == <>(walk.pc = "done")

=============================================================================
