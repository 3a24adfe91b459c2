------------------------------- MODULE Ingest -------------------------------
(****************************************************************************)
(* The ingest pipeline and the corpus unpacker: datboi-ingest/src/lib.rs     *)
(* (`Ingester::ingest`, its single writer and its pool of hashing workers)   *)
(* and datboi-ingest/src/unpack.rs (`unpack_corpus`, `drop_container`).      *)
(*                                                                          *)
(* A scan walks the source tree, skips what its cache of source rows calls  *)
(* unchanged, hands the rest to the workers within a byte budget, and        *)
(* applies the verdicts in walk order.  Workers write to the store, only the *)
(* writer writes to the index, every index write is durable on its own, and  *)
(* the process may stop between any two of them.  The unpacker later walks   *)
(* the containers the index knows, stores their members and drops them.      *)
(*                                                                          *)
(* A blob is a name; Anatomy gives what a file with that content holds:      *)
(*   kind     plain, chd, zip, component (7z, rar), headered (a detector     *)
(*            variant with its rebuild), trimmed (a variant without one)     *)
(*   members  the contents its directory lists and the reader can read       *)
(*   refused  contents its directory lists and the reader refuses            *)
(*            (encrypted, an unsupported method)                             *)
(****************************************************************************)
EXTENDS Naturals, Sequences, FiniteSets, SequencesExt

CONSTANTS
    Tree,        \* the paths of the source tree, in the order of the walk
    Content,     \* path -> the content it starts with, "symlink" or "lost"
    Anatomy,     \* content -> [kind, members, refused]
    Ids,         \* the contents in the order of their row ids
    Rewritten,   \* the content a rewritten source file gets
    Weight,      \* content -> the bytes its evaluation may buffer
    IWorkers,    \* threads of the pool
    Flags,       \* the (rescan, unpack) settings a scan may run with
    InflightCap, \* IngestConfig::inflight_cap
    ReorderCap,  \* REORDER_CAP
    Named,       \* contents a dat names or a pin holds
    Limits,      \* UnpackOptions::limit, 0 for none
    MaxPasses,   \* bound: scans and unpacks started
    MaxTouches,  \* bound: rewrites of a source file
    MaxIFaults   \* bound: read errors, worker panics, refused index writes

VARIABLES
    disk,      \* path -> [blob, mtime]
    bytes,     \* contents the store holds
    row,       \* content -> "none", "resident" or "absent"
    claims,    \* <<container, member>>: the recipes with that one input
    source,    \* path -> the source row: NoSource or [blob, mtime]
    skips,     \* <<container, member>> some report listed as skipped or unread
    pass,      \* the pass under way: "none", "scan", "unpack"
    flags,     \* its settings
    walk,      \* [next, retire, walking, held, inflight, owed]
    pending,   \* sequence number -> verdict waiting for its turn
    todo,      \* the index writes the writer still owes the verdict in hand
    queue,     \* the job channel
    hand,      \* worker -> the job it works on
    done,      \* the channel back to the writer
    report,    \* what the pass has reported
    spent      \* [passes, touches, faults]

ivars == <<disk, bytes, row, claims, source, skips, pass, flags, walk, pending, todo, queue, hand,
           done, report, spent>>
world == <<disk, bytes, row, claims, source, skips>>
pool  == <<queue, hand, done>>

Blobs    == DOMAIN Anatomy
NoSource == [blob |-> "", mtime |-> 0]
NoJob    == [seq |-> 0, path |-> "", mtime |-> 0, weight |-> 0, blob |-> ""]
Containers == {b \in Blobs : Anatomy[b].kind \in {"zip", "component"}}
Idle     == [next |-> 1, retire |-> 1, walking |-> FALSE, held |-> NoJob, inflight |-> 0, owed |-> 0]
Blank    == [of |-> "none", lines |-> <<>>, population |-> 0, examined |-> 0, selected |-> 0, unpacked |-> 0,
             failed |-> FALSE, unrecorded |-> 0, ended |-> FALSE]
Without(f, k) == [x \in DOMAIN f \ {k} |-> f[x]]
With(f, k, v) == [x \in DOMAIN f \cup {k} |-> IF x = k THEN v ELSE f[x]]

IgInit ==
    /\ disk = [p \in Range(Tree) |-> [blob |-> Content[p], mtime |-> 1]]
    /\ bytes = {} /\ row = [b \in Blobs |-> "none"] /\ claims = {} /\ skips = {}
    /\ source = [p \in Range(Tree) |-> NoSource]
    /\ pass = "none" /\ flags = [rescan |-> FALSE, unpack |-> FALSE, limit |-> 0]
    /\ walk = Idle /\ pending = <<>> /\ todo = <<>>
    /\ queue = <<>> /\ hand = [w \in IWorkers |-> NoJob] /\ done = <<>>
    /\ report = Blank /\ spent = [passes |-> 0, touches |-> 0, faults |-> 0]

Faulty == spent.faults < MaxIFaults /\ spent' = [spent EXCEPT !.faults = @ + 1]

----------------------------------------------------------------------------
(* The source tree and the process.                                         *)

\* Somebody rewrites a source file; its modification time moves.
Rewrite(p) ==
    /\ spent.touches < MaxTouches /\ disk[p].blob \in Blobs
    /\ disk' = [disk EXCEPT ![p] = [blob |-> Rewritten, mtime |-> @.mtime + 1]]
    /\ spent' = [spent EXCEPT !.touches = @ + 1]
    /\ UNCHANGED <<bytes, row, claims, source, skips, pass, flags, walk, pending, todo, queue, hand,
                   done, report>>

\* The process ends between any two steps: the threads and what the writer held in memory go.
Crash ==
    /\ pass # "none"
    /\ pass' = "none" /\ walk' = Idle /\ pending' = <<>> /\ todo' = <<>>
    /\ queue' = <<>> /\ hand' = [w \in IWorkers |-> NoJob] /\ done' = <<>> /\ report' = Blank
    /\ UNCHANGED <<world, flags, spent>>

BeginScan ==
    /\ pass = "none" /\ spent.passes < MaxPasses
    /\ \E f \in Flags : flags' = [rescan |-> f[1], unpack |-> f[2], limit |-> 0]
    /\ pass' = "scan" /\ walk' = [Idle EXCEPT !.walking = TRUE]
    /\ report' = [Blank EXCEPT !.of = "scan"]
    /\ spent' = [spent EXCEPT !.passes = @ + 1]
    /\ UNCHANGED <<world, pending, todo, pool>>

----------------------------------------------------------------------------
(* The writer of a scan: walk, stage, dispatch, retire in walk order.       *)

\* Mutant: a file heavier than the budget never runs.
AdmitsByBudget(inflight, weight) == weight = 0 \/ inflight + weight <= InflightCap

\* A file that buffers nothing always runs, and one heavier than the budget runs alone.
Admits(inflight, weight) == weight = 0 \/ inflight = 0 \/ inflight + weight <= InflightCap
\* dispatch: charge the weight and send.  The pool outlives the writer, so the send succeeds.
Dispatch(w, job) == [w EXCEPT !.inflight = @ + job.weight, !.owed = @ + 1, !.held = NoJob]

\* Canonicalize and key the file; its time and size are the ones the walk read.
Staged(seq, p) == [seq |-> seq, path |-> p, mtime |-> disk[p].mtime,
                   weight |-> Weight[disk[p].blob], blob |-> ""]

\* lookup_unchanged_source: the key, the time and the size are those of the row.
Unchanged(p) == ~flags.rescan /\ source[p] # NoSource /\ source[p].mtime = disk[p].mtime

WriterFree == pass = "scan" /\ todo = <<>>

\* The top of the loop offers the job the budget turned away again.
DispatchHeld ==
    /\ WriterFree /\ walk.held # NoJob /\ Admits(walk.inflight, walk.held.weight)
    /\ queue' = Append(queue, walk.held) /\ walk' = Dispatch(walk, walk.held)
    /\ UNCHANGED <<world, pass, flags, pending, todo, hand, done, report, spent>>

MayWalk == walk.held = NoJob /\ walk.walking /\ Cardinality(DOMAIN pending) + walk.owed < ReorderCap

\* One entry of the walk: a note, a failure, a cache hit, a job sent or a job held.
WalkOne ==
    /\ WriterFree /\ MayWalk /\ walk.next <= Len(Tree)
    /\ LET seq == walk.next
           p   == Tree[seq]
           on  == [walk EXCEPT !.next = @ + 1]
           job == Staged(seq, p)
       IN  CASE disk[p].blob \in {"symlink", "lost"} ->
                  /\ pending' = With(pending, seq, [is |-> disk[p].blob, job |-> NoJob, work |-> <<>>])
                  /\ walk' = on /\ UNCHANGED queue
             [] disk[p].blob \in Blobs /\ Unchanged(p) ->
                  /\ pending' = With(pending, seq, [is |-> "unchanged", job |-> NoJob, work |-> <<>>])
                  /\ walk' = on /\ UNCHANGED queue
             [] disk[p].blob \in Blobs /\ ~Unchanged(p) /\ Admits(walk.inflight, job.weight) ->
                  /\ queue' = Append(queue, job) /\ walk' = Dispatch(on, job) /\ UNCHANGED pending
             [] OTHER ->
                  /\ walk' = [on EXCEPT !.held = job] /\ UNCHANGED <<queue, pending>>
    /\ UNCHANGED <<world, pass, flags, todo, hand, done, report, spent>>

WalkEnd ==
    /\ WriterFree /\ MayWalk /\ walk.next > Len(Tree)
    /\ walk' = [walk EXCEPT !.walking = FALSE]
    /\ UNCHANGED <<world, pass, flags, pending, todo, pool, report, spent>>

\* Mutant: the source row is written before the members.
ApplyStepsSourceFirst(v) ==
    <<<<"row", v.work.blob>>, <<"source", v.work.blob>>>>
        \o [i \in 1..Len(v.work.claimed) |-> <<"member", v.work.claimed[i]>>]

\* The index writes `apply` makes for a verdict, in order, the source row last.
ApplySteps(v) ==
    LET b      == v.work.blob
        a      == Anatomy[b]
        drops  == flags.unpack /\ b \in Containers /\ v.work.skipped = {} /\ ~v.work.unread
        inside == CASE a.kind = "zip" /\ ~v.work.unread ->
                         [i \in 1..Len(v.work.claimed) |-> <<"member", v.work.claimed[i]>>]
                    [] a.kind = "component" -> <<<<"extract", b>>>>
                    [] a.kind \in {"headered", "trimmed"} -> <<<<"variant", b>>>>
                    [] OTHER -> <<>>
    IN  <<<<"row", b>>>> \o inside \o (IF drops THEN <<<<"drop", b>>>> ELSE <<>>)
            \o <<<<"source", b>>>>
\* Mutant: verdicts are retired as they arrive.
RetireAny ==
    /\ WriterFree
    /\ \E seq \in DOMAIN pending :
         LET v == pending[seq]
         IN  /\ pending' = Without(pending, seq)
             /\ walk' = [walk EXCEPT !.retire = @ + 1, !.inflight = @ - v.job.weight]
             /\ report' = [report EXCEPT !.lines = Append(@, <<seq, v.is>>)]
             /\ UNCHANGED <<todo, skips>>
    /\ UNCHANGED <<disk, bytes, row, claims, source, pass, flags, pool, spent>>

\* Retire the position whose turn it is: a line of the report, and the index writes it owes.
Retire ==
    /\ WriterFree /\ walk.retire \in DOMAIN pending
    /\ LET v == pending[walk.retire]
       IN  /\ pending' = Without(pending, walk.retire)
           /\ walk' = [walk EXCEPT !.retire = @ + 1, !.inflight = @ - v.job.weight]
           /\ report' = [report EXCEPT !.lines = Append(@, <<walk.retire, v.is>>)]
           /\ IF v.is = "work"
              THEN /\ todo' = [i \in 1..Len(ApplySteps(v)) |->
                                 [what |-> ApplySteps(v)[i][1], blob |-> ApplySteps(v)[i][2],
                                  of |-> v.work.blob, job |-> v.job]]
                   /\ skips' = skips \cup {<<v.work.blob, m>> : m \in v.work.skipped}
              ELSE UNCHANGED <<todo, skips>>
    /\ UNCHANGED <<disk, bytes, row, claims, source, pass, flags, pool, spent>>
\* Nothing more to walk or to retire for now: wait for a worker.
Quiet == walk.retire \notin DOMAIN pending /\ ~MayWalk
          /\ ~(walk.held # NoJob /\ Admits(walk.inflight, walk.held.weight))

Receive ==
    /\ WriterFree /\ Quiet /\ walk.owed > 0 /\ done # <<>>
    /\ done' = Tail(done) /\ walk' = [walk EXCEPT !.owed = @ - 1]
    /\ pending' = With(pending, Head(done).job.seq, Head(done))
    /\ UNCHANGED <<world, pass, flags, todo, queue, hand, report, spent>>

\* The loop returns, the job channel closes and the pool is joined.
ScanReturns ==
    /\ WriterFree /\ Quiet /\ walk.owed = 0
    /\ ~walk.walking /\ pending = <<>> /\ walk.held = NoJob
    /\ pass' = "none" /\ report' = [report EXCEPT !.ended = TRUE]
    /\ UNCHANGED <<world, flags, walk, pending, todo, pool, spent>>

----------------------------------------------------------------------------
(* The index writes of a verdict, one durable step each.                    *)

Write(step) == todo # <<>> /\ Head(todo).what = step /\ todo' = Tail(todo)
KeepTheRest == UNCHANGED <<disk, skips, pass, flags, walk, pending, pool, spent>>

ApplyRow ==
    /\ Write("row")
    /\ row' = [row EXCEPT ![Head(todo).blob] = "resident"]
    /\ UNCHANGED <<bytes, claims, source, report>> /\ KeepTheRest

\* A member of a zip: a resident literal when the worker stored it, a claim otherwise; and its
\* recipe, unless it is the empty one.  An extracted member of a 7z or rar is always resident.
ApplyMember ==
    /\ Write("member")
    /\ LET m == Head(todo).blob
           stored == flags.unpack \/ m = "empty" \/ Anatomy[Head(todo).of].kind = "component"
       IN  /\ row' = [row EXCEPT ![m] = IF stored THEN "resident" ELSE "absent"]
           /\ claims' = IF m = "empty" THEN claims ELSE claims \cup {<<Head(todo).of, m>>}
    /\ UNCHANGED <<bytes, source, report>> /\ KeepTheRest

\* evaluate_detectors: the first detector that fires and keeps a proper part of the file names it.
VariantOf(b) == Anatomy[b].members

\* A detector's variant is an absent claim derived from the file; its header is a stored literal.
ApplyVariant ==
    /\ Write("variant")
    /\ row' = [b \in Blobs |-> IF b \in VariantOf(Head(todo).of) THEN "absent" ELSE row[b]]
    /\ claims' = claims \cup {<<Head(todo).of, m>> : m \in VariantOf(Head(todo).of)}
    /\ UNCHANGED <<bytes, source, report>> /\ KeepTheRest

\* A 7z or a rar is extracted by the writer: the members land, or the file is no container after all.
ApplyExtract ==
    /\ todo # <<>> /\ Head(todo).what = "extract"
    /\ LET c == Head(todo).of
           members == SetToSeq(Anatomy[c].members)
       IN  \/ /\ bytes' = bytes \cup Anatomy[c].members
              /\ todo' = [i \in 1..Len(members) |-> [Head(todo) EXCEPT !.what = "member", !.blob = members[i]]]
                           \o Tail(todo)
              /\ UNCHANGED <<report, spent>>
           \/ /\ todo' = SelectSeq(Tail(todo), LAMBDA s : s.what # "drop")
              /\ report' = [report EXCEPT !.failed = TRUE]
              /\ Faulty /\ UNCHANGED bytes
    /\ UNCHANGED <<disk, row, claims, source, skips, pass, flags, walk, pending, pool>>

\* Mutant: the gate is not asked.
DroppableAlways(c) == TRUE

\* drop_container: every member the index claims of it must be in the store; then the file goes,
\* then the row, and the process may stop between the two.
Droppable(c) == \A m \in Blobs : <<c, m>> \in claims => m \in bytes
ApplyDrop ==
    /\ todo # <<>> /\ Head(todo).what = "drop"
    /\ IF Droppable(Head(todo).blob)
       THEN /\ bytes' = bytes \ {Head(todo).blob}
            /\ todo' = <<[Head(todo) EXCEPT !.what = "flip"]>> \o Tail(todo)
            /\ UNCHANGED report
       ELSE /\ todo' = Tail(todo) /\ UNCHANGED bytes
            /\ report' = [report EXCEPT !.failed = pass = "unpack" \/ @]
    /\ UNCHANGED <<row, claims, source>> /\ KeepTheRest
ApplyFlip ==
    /\ Write("flip")
    /\ row' = [row EXCEPT ![Head(todo).blob] = "absent"]
    /\ report' = [report EXCEPT !.unpacked = @ + 1]
    /\ UNCHANGED <<bytes, claims, source>> /\ KeepTheRest

\* Mutant: the time is read when the row is written.
SourceOfNow(step) == [blob |-> step.of, mtime |-> disk[step.job.path].mtime]

\* The source row: the time the walk read, the content the worker hashed.
SourceOf(step) == [blob |-> step.of, mtime |-> step.job.mtime]
ApplySource ==
    /\ Write("source")
    /\ source' = [source EXCEPT ![Head(todo).job.path] = SourceOf(Head(todo))]
    /\ UNCHANGED <<bytes, row, claims, report>> /\ KeepTheRest

\* An index write fails: the rest of this verdict is abandoned and the path reported; when it is
\* the unpacker's row of a member, the container stays and staging stops.
ApplyFails ==
    /\ todo # <<>> /\ Faulty
    /\ todo' = <<>>
    /\ report' = [report EXCEPT !.failed = TRUE, !.unrecorded = IF Head(todo).what = "record" THEN @ + 1 ELSE @]
    /\ walk' = [walk EXCEPT !.walking = @ /\ Head(todo).what # "record"]
    /\ UNCHANGED <<world, pass, flags, pending, pool>>

----------------------------------------------------------------------------
(* The pool.                                                                *)

TakeJob(w) ==
    /\ hand[w] = NoJob /\ queue # <<>>
    /\ hand' = [hand EXCEPT ![w] = [Head(queue) EXCEPT
                  !.blob = IF pass = "scan" THEN disk[Head(queue).path].blob ELSE @]]
    /\ queue' = Tail(queue)
    /\ UNCHANGED <<world, pass, flags, walk, pending, todo, done, report, spent>>

Answer(w, v) ==
    /\ done' = Append(done, v) /\ hand' = [hand EXCEPT ![w] = NoJob]
    /\ UNCHANGED <<disk, row, claims, source, skips, pass, flags, walk, pending, todo, queue, report>>

\* What is claimed of a zip's members, and which of them the reader skips: those it refuses, and
\* one whose data could not be read or was not of the declared size.
Yielded(b, unreadable) == SetToSeq(Anatomy[b].members \ unreadable)
Skipped(b, unreadable) == Anatomy[b].refused \cup unreadable

\* hash_file: put what the file holds by now (either content, when it was rewritten meanwhile), look
\* inside the stored bytes, and store the members when the scan unpacks.
HashFile(w) ==
    /\ pass = "scan" /\ hand[w] # NoJob
    /\ \E b \in {hand[w].blob, disk[hand[w].path].blob},
          unread \in {{}} \cup (IF spent.faults < MaxIFaults THEN {{m} : m \in Blobs} ELSE {}) :
         LET a == Anatomy[b]
             zip == a.kind = "zip"
             kept == IF zip THEN (IF flags.unpack THEN a.members \ unread ELSE (a.members \ unread) \cap {"empty"})
                     ELSE {}
         IN  /\ unread \subseteq (IF zip THEN a.members ELSE {})
             /\ bytes' = bytes \cup {b} \cup kept
             /\ spent' = [spent EXCEPT !.faults = @ + Cardinality(unread)]
             /\ Answer(w, [is |-> "work", job |-> [hand[w] EXCEPT !.blob = b],
                           work |-> [blob |-> b, unread |-> FALSE,
                                     claimed |-> IF zip THEN Yielded(b, unread) ELSE <<>>,
                                     skipped |-> IF zip THEN Skipped(b, unread) ELSE {}]])

\* The directory of a zip does not parse, or reading the file fails, or the worker panics.
HashTrips(w) ==
    /\ pass = "scan" /\ hand[w] # NoJob /\ Faulty
    /\ \/ /\ bytes' = bytes \cup {hand[w].blob}
          /\ Answer(w, [is |-> "work", job |-> hand[w],
                        work |-> [blob |-> hand[w].blob, unread |-> TRUE, claimed |-> <<>>,
                                  skipped |-> Anatomy[hand[w].blob].members]])
       \/ /\ UNCHANGED bytes
          /\ Answer(w, [is |-> "error", job |-> hand[w], work |-> <<>>])

\* zip_members_into_store, for the unpacker: what can be read is stored, the rest is skipped.
UnpackZip(w) ==
    /\ pass = "unpack" /\ hand[w] # NoJob
    /\ LET b == hand[w].blob
       IN  \/ /\ Faulty /\ UNCHANGED bytes     \* it vanished, its directory does not parse, a panic
              /\ Answer(w, [is |-> "error", job |-> hand[w], work |-> <<>>])
           \/ \E unread \in {{}} \cup (IF spent.faults < MaxIFaults THEN {{m} : m \in Anatomy[b].members} ELSE {}) :
                /\ bytes' = bytes \cup (Anatomy[b].members \ unread)
                /\ spent' = [spent EXCEPT !.faults = @ + Cardinality(unread)]
                /\ Answer(w, [is |-> "work", job |-> hand[w],
                              work |-> [blob |-> b, unread |-> FALSE, claimed |-> Yielded(b, unread),
                                        skipped |-> Skipped(b, unread)]])

----------------------------------------------------------------------------
(* The corpus unpacker's coordinator.                                       *)

\* unpack_candidates_after and its count twin: resident, the one input of a live recipe, without a
\* recipe of its own, neither named by a dat nor pinned.
Candidate(b) ==
    /\ row[b] = "resident" /\ b \notin Named
    /\ \E m \in Blobs : <<b, m>> \in claims
    /\ ~\E c \in Blobs : <<c, b>> \in claims
    /\ Anatomy[b].kind # "headered"

BeginUnpack ==
    /\ pass = "none" /\ spent.passes < MaxPasses
    /\ \E l \in Limits : flags' = [rescan |-> FALSE, unpack |-> TRUE, limit |-> l]
    /\ pass' = "unpack" /\ walk' = [Idle EXCEPT !.walking = TRUE]
    /\ report' = [Blank EXCEPT !.of = "unpack", !.population = Cardinality({b \in Blobs : Candidate(b)})]
    /\ spent' = [spent EXCEPT !.passes = @ + 1]
    /\ UNCHANGED <<world, pending, todo, pool>>

Free == pass = "unpack" /\ todo = <<>>
MayStage == walk.walking /\ walk.owed < ReorderCap

\* A row id past the cursor that is no candidate any more is not in the page.
UnpackSkip ==
    /\ Free /\ MayStage
    /\ IF walk.next > Len(Ids) THEN walk' = [walk EXCEPT !.walking = FALSE]
       ELSE ~Candidate(Ids[walk.next]) /\ walk' = [walk EXCEPT !.next = @ + 1]
    /\ UNCHANGED <<world, pass, flags, pending, todo, pool, report, spent>>

\* The writes `retire` owes for a container's members, then the drop.
UnpackSteps(b, members, job) ==
    LET step(what, x) == [what |-> what, blob |-> x, of |-> b, job |-> job]
    IN  [i \in 1..Len(members) |-> step("record", members[i])] \o <<step("drop", b)>>

\* triage and the staging of one candidate.
UnpackStage ==
    /\ Free /\ MayStage /\ walk.next <= Len(Ids) /\ Candidate(Ids[walk.next])
    /\ LET b == Ids[walk.next]
           seen == [report EXCEPT !.examined = @ + 1]
           taken == [seen EXCEPT !.selected = @ + 1]
           on == [walk EXCEPT !.next = @ + 1,
                    !.walking = ~(flags.limit # 0 /\ taken.selected >= flags.limit)]
           job == [NoJob EXCEPT !.seq = walk.next, !.blob = b]
       IN  CASE b \notin bytes ->          \* an interrupted drop is finished, or loss is reported
                  /\ row' = IF Droppable(b) THEN [row EXCEPT ![b] = "absent"] ELSE row
                  /\ report' = [seen EXCEPT !.failed = @ \/ ~Droppable(b)]
                  /\ walk' = [walk EXCEPT !.next = @ + 1]
                  /\ UNCHANGED <<bytes, todo, queue, spent>>
             [] b \in bytes /\ b \notin Containers ->   \* the head is no zip, 7z or rar
                  /\ report' = seen /\ walk' = [walk EXCEPT !.next = @ + 1]
                  /\ UNCHANGED <<bytes, row, todo, queue, spent>>
             [] b \in bytes /\ Anatomy[b].kind = "zip" ->
                  /\ \/ report' = taken /\ walk' = [on EXCEPT !.owed = @ + 1]
                        /\ queue' = Append(queue, job) /\ UNCHANGED spent
                     \/ report' = [taken EXCEPT !.failed = TRUE] /\ walk' = [on EXCEPT !.walking = FALSE]
                        /\ Faulty /\ UNCHANGED queue          \* out of room
                  /\ UNCHANGED <<bytes, row, todo>>
             [] OTHER ->
                  /\ walk' = on
                  /\ \/ /\ bytes' = bytes \cup Anatomy[b].members
                        /\ todo' = UnpackSteps(b, SetToSeq(Anatomy[b].members), job)
                        /\ report' = taken /\ UNCHANGED spent
                     \/ /\ report' = [taken EXCEPT !.failed = TRUE]
                        /\ Faulty /\ UNCHANGED <<bytes, todo>>
                  /\ UNCHANGED <<row, queue>>
    /\ UNCHANGED <<disk, claims, source, skips, pass, flags, pending, hand, done>>

\* retire: record the members, report the skips, then ask the gate and drop.
UnpackRetire ==
    /\ Free /\ ~MayStage /\ walk.owed > 0 /\ done # <<>>
    /\ done' = Tail(done) /\ walk' = [walk EXCEPT !.owed = @ - 1]
    /\ LET v == Head(done)
       IN  IF v.is = "error" THEN report' = [report EXCEPT !.failed = TRUE] /\ UNCHANGED <<todo, skips>>
           ELSE /\ todo' = UnpackSteps(v.work.blob, v.work.claimed, v.job)
                /\ skips' = skips \cup {<<v.work.blob, m>> : m \in v.work.skipped}
                /\ UNCHANGED report
    /\ UNCHANGED <<disk, bytes, row, claims, source, pass, flags, pending, queue, hand, spent>>

\* record_member: a resident row; the recipes are left as they are.
UnpackRecord ==
    /\ Write("record")
    /\ row' = [row EXCEPT ![Head(todo).blob] = "resident"]
    /\ UNCHANGED <<bytes, claims, source, report>> /\ KeepTheRest

UnpackReturns ==
    /\ Free /\ ~walk.walking /\ walk.owed = 0
    /\ pass' = "none" /\ report' = [report EXCEPT !.ended = TRUE]
    /\ UNCHANGED <<world, flags, walk, pending, todo, pool, spent>>

\* Mutant: a walk cut short counts as complete.
CompleteUnseen(r) == ~r.failed /\ r.selected <= r.unpacked /\ r.unrecorded = 0

\* UnpackReport::complete: clean, nothing owed, everything seen, everything recorded.
Complete(r) ==
    ~r.failed /\ r.selected <= r.unpacked /\ r.examined = r.population /\ r.unrecorded = 0
----------------------------------------------------------------------------
Writer ==
    \/ DispatchHeld \/ WalkOne \/ WalkEnd \/ Retire \/ Receive \/ ScanReturns
    \/ ApplyRow \/ ApplyMember \/ ApplyVariant \/ ApplyExtract \/ ApplyDrop \/ ApplyFlip \/ ApplySource
    \/ UnpackSkip \/ UnpackStage \/ UnpackRetire \/ UnpackRecord \/ UnpackReturns
Worker(w) == TakeJob(w) \/ HashFile(w) \/ UnpackZip(w)

IgNext ==
    \/ Writer \/ ApplyFails \/ BeginScan \/ BeginUnpack \/ Crash
    \/ \E p \in Range(Tree) : Rewrite(p)
    \/ \E w \in IWorkers : Worker(w) \/ HashTrips(w)

IgFairness == WF_ivars(Writer) /\ \A w \in IWorkers : WF_ivars(Worker(w))

----------------------------------------------------------------------------
(* Properties.                                                              *)

\* A source row whose time is still the file's names the content the file has: the walk reads the
\* time before a worker reads the bytes, so a rewrite in between is seen by the next scan (stage,
\* hash_file, apply).
CacheTruth ==
    \A p \in Range(Tree) :
        source[p] # NoSource /\ source[p].mtime = disk[p].mtime => source[p].blob = disk[p].blob

\* A file the next scan will skip has been applied in full, wherever the process stopped: its blob
\* has a row, and every member of a zip has its recipe or was reported (apply writes the source row
\* last).
AppliedBeforeCached ==
    \A p \in Range(Tree) : source[p] # NoSource =>
        LET c == source[p].blob
        IN  /\ row[c] # "none"
            /\ Anatomy[c].kind = "zip" =>
                 \A m \in Anatomy[c].members \ {"empty"} : <<c, m>> \in claims \cup skips

\* A member the index claims out of a container can be had: its own bytes are stored or the
\* container's are, whichever door dropped the container and wherever it was interrupted
\* (drop_container, triage).
MembersKept == \A cm \in claims : cm[1] \in bytes \/ cm[2] \in bytes

\* The report lists the walk's entries in order, each one once, and all of them when the scan
\* returns (write_loop: "the report is written in that order").
ReportInOrder ==
    /\ \A i \in DOMAIN report.lines : report.lines[i][1] = i
    /\ report.ended /\ report.of = "scan" => Len(report.lines) = Len(Tree)

\* An unpack that calls itself complete has left no container it could have unpacked
\* (UnpackReport::complete).
CompleteMeansDone ==
    report.ended /\ report.of = "unpack" /\ Complete(report) =>
        ~\E b \in Containers : Candidate(b)

\* A container that skipped any member is kept whole, since those bytes exist nowhere else (the
\* comment on `apply`): whatever a dropped container held is in the store.
SkippedIsKept ==
    \A p \in Range(Tree) : source[p] # NoSource =>
        LET c == source[p].blob
        IN  c \in bytes \/ Anatomy[c].members \cup Anatomy[c].refused \subseteq bytes

\* A scan returns: the head of the queue always runs, whatever the budget and the reorder buffer
\* hold (write_loop).
WalkEnds == pass = "scan" ~> pass # "scan"

=============================================================================
