------------------------------- MODULE Orphans -------------------------------
(****************************************************************************)
(* The orphan collector: marks that age (index gc.rs, maintain.rs), keep    *)
(* marks (policy.rs), and apply, the only operation that deletes bytes with *)
(* no route back, as the daemon (server gc.rs) and as the CLI (cmds.rs)     *)
(* run it, while ingests store the same bytes again, recipes and tags come  *)
(* to name them, and an apply dies half way.                                *)
(****************************************************************************)
EXTENDS Naturals, FiniteSets

CONSTANTS OBlobs,      \* data blobs
          Appliers,    \* the processes that keep and apply: "daemon", "cli"
          Grace,       \* bound: sweeps a mark ages before it is reviewable
          MaxIngests,  \* bound: repeated ingests in a behaviour
          MaxNames,    \* bound: recipes, tags and keep marks made
          MaxDeaths    \* bound: appliers that die

VARIABLES
    loose, packed,    \* the store: blobs with a loose file, blobs in a pack
    rowed,            \* blobs with a Resident row
    queued, linked,   \* in the sweep queue; named by a recipe or a dat revision
    tagged, keeps,    \* named by a tag's closure; keep-marked
    age,              \* age of the orphan mark; Unmarked without one
    mutex, guard,     \* the daemon's process mutex, the gc guard: who holds it
    apc,              \* per applier: its program counter
    skips, wanted, packing, todo,  \* per applier: what it read, what it has to do
    ipc,              \* per blob: the step of an ingest of its bytes
    rooted,           \* history: what was named when the guard was claimed
    ingests, names, deaths

store == <<loose, packed>>
index == <<rowed, queued, linked, tagged, keeps, age>>
run   == <<apc, skips, wanted, packing, todo>>
tally == <<ingests, names, deaths>>
ovars == <<store, index, mutex, guard, run, ipc, rooted, tally>>

Free == "free"
Unmarked == Grace + 1

TypeOK ==
    /\ loose \subseteq OBlobs /\ packed \subseteq OBlobs /\ rowed \subseteq OBlobs
    /\ queued \subseteq OBlobs /\ linked \subseteq OBlobs /\ tagged \subseteq OBlobs
    /\ keeps \subseteq OBlobs /\ rooted \subseteq OBlobs
    /\ age \in [OBlobs -> 0 .. Unmarked]
    /\ mutex \in Appliers \cup {Free} /\ guard \in Appliers \cup {Free}
    /\ apc \in [Appliers -> {"idle", "claim", "loop", "unlink", "rows", "repack", "sweep", "prows"}]
    /\ skips \in [Appliers -> SUBSET OBlobs] /\ wanted \in [Appliers -> SUBSET OBlobs]
    /\ packing \in [Appliers -> SUBSET OBlobs] /\ todo \in [Appliers -> SUBSET OBlobs]
    /\ ipc \in [OBlobs -> {"none", "stored"}]
    /\ ingests \in 0 .. MaxIngests /\ names \in 0 .. MaxNames /\ deaths \in 0 .. MaxDeaths

(****************************************************************************)
(* Marks.                                                                   *)
(****************************************************************************)
\* The candidate predicate of sweep_orphan_marks: resident, and nothing roots it.
Candidates == {b \in rowed : b \notin queued \cup linked \cup tagged}

\* mark_orphans: the marks of blobs that something roots are cleared, new
\* candidates are marked now, and the marks that stand grow older.
Sweep ==
    /\ age' = [b \in OBlobs |->
          IF b \notin Candidates THEN Unmarked
          ELSE IF age[b] = Unmarked THEN 0
          ELSE IF age[b] < Grace THEN age[b] + 1 ELSE Grace]
    /\ age' # age
    /\ UNCHANGED <<store, rowed, queued, linked, tagged, keeps, mutex, guard, run, ipc, rooted, tally>>

\* list_orphan_candidates: the marks older than the grace window.
Reviewable == {b \in OBlobs : age[b] = Grace}

(****************************************************************************)
(* Apply.                                                                   *)
(****************************************************************************)
\* apply and gc_apply read the keep marks, the tag roots and the candidates,
\* optionally only the requested ones; the daemon does so under its mutex.
ApplyRead(a) ==
    /\ apc[a] = "idle"
    /\ a = "daemon" => mutex = Free
    /\ mutex' = IF a = "daemon" THEN a ELSE mutex
    /\ skips' = [skips EXCEPT ![a] = keeps \cup tagged]
    /\ \E want \in SUBSET Reviewable :
          want # {} /\ wanted' = [wanted EXCEPT ![a] = want]
    /\ apc' = [apc EXCEPT ![a] = "claim"]
    /\ UNCHANGED <<store, index, guard, packing, todo, ipc, rooted, tally>>

\* The end of a run: mutex and guard are given back, the lists forgotten.
Finish(a) ==
    /\ mutex' = IF mutex = a THEN Free ELSE mutex
    /\ guard' = IF guard = a THEN Free ELSE guard
    /\ apc' = [apc EXCEPT ![a] = "idle"]
    /\ skips' = [skips EXCEPT ![a] = {}] /\ wanted' = [wanted EXCEPT ![a] = {}]
    /\ packing' = [packing EXCEPT ![a] = {}] /\ todo' = [todo EXCEPT ![a] = {}]

\* A busy guard answers Busy and leaves.
ApplyClaim(a) ==
    /\ apc[a] = "claim"
    /\ IF guard = Free
       THEN /\ guard' = a /\ apc' = [apc EXCEPT ![a] = "loop"]
            /\ rooted' = linked
            /\ UNCHANGED <<mutex, skips, wanted, packing, todo>>
       ELSE Finish(a) /\ UNCHANGED rooted
    /\ UNCHANGED <<store, index, ipc, tally>>

\* Mutant: the mark alone justifies the delete.
StillDeletableMarked(b) == age[b] = Grace

\* orphan_still_deletable, with the roots and the clock read before the claim.
StillDeletable(b) == age[b] = Grace /\ b \in rowed /\ b \notin queued \cup linked

\* Mutant: packed candidates take the loose path, as if packs did not exist.
ApplyCheckLooseOnly(a) ==
    /\ apc[a] = "loop" /\ wanted[a] # {}
    /\ \E b \in wanted[a] :
        /\ wanted' = [wanted EXCEPT ![a] = @ \ {b}]
        /\ b \notin skips[a] /\ StillDeletable(b)
        /\ todo' = [todo EXCEPT ![a] = {b}]
        /\ apc' = [apc EXCEPT ![a] = "unlink"]
    /\ UNCHANGED <<store, index, mutex, guard, skips, packing, ipc, rooted, tally>>

\* One candidate: skipped, set aside for its pack (daemon only), or unlinked next.
ApplyCheck(a) ==
    /\ apc[a] = "loop" /\ wanted[a] # {}
    /\ \E b \in wanted[a] :
        /\ wanted' = [wanted EXCEPT ![a] = @ \ {b}]
        /\ \/ /\ b \in skips[a] \/ ~StillDeletable(b)
              /\ UNCHANGED <<apc, packing, todo>>
           \/ /\ b \notin skips[a] /\ StillDeletable(b)
              /\ a = "daemon" /\ b \in packed
              /\ packing' = [packing EXCEPT ![a] = @ \cup {b}]
              /\ UNCHANGED <<apc, todo>>
           \/ /\ b \notin skips[a] /\ StillDeletable(b)
              /\ ~(a = "daemon" /\ b \in packed)
              /\ todo' = [todo EXCEPT ![a] = {b}]
              /\ apc' = [apc EXCEPT ![a] = "unlink"]
              /\ UNCHANGED packing
    /\ UNCHANGED <<store, index, mutex, guard, skips, ipc, rooted, tally>>

\* remove_blob: the loose files only.
ApplyUnlink(a) ==
    /\ apc[a] = "unlink"
    /\ loose' = loose \ todo[a]
    /\ apc' = [apc EXCEPT ![a] = "rows"]
    /\ UNCHANGED <<packed, index, mutex, guard, skips, wanted, packing, todo, ipc, rooted, tally>>

\* Mutant: the rows go whatever names them.
DeleteRowsForced(b) ==
    /\ rowed' = rowed \ {b} /\ queued' = queued \ {b}
    /\ age' = [age EXCEPT ![b] = Unmarked]
    /\ UNCHANGED <<linked, tagged, keeps>>

\* delete_orphan_rows, one transaction: queue row, mark and blob row go. Foreign
\* keys are on: a blob that a recipe names by now keeps its row, and the
\* statement's error ends the run.
DeleteRows(b) ==
    /\ b \notin linked
    /\ rowed' = rowed \ {b} /\ queued' = queued \ {b}
    /\ age' = [age EXCEPT ![b] = Unmarked]
    /\ UNCHANGED <<linked, tagged, keeps>>

ApplyRows(a) ==
    /\ apc[a] \in {"rows", "prows"}
    /\ \E b \in todo[a] :
        \/ /\ DeleteRows(b)
           /\ todo' = [todo EXCEPT ![a] = @ \ {b}]
           /\ apc' = [apc EXCEPT ![a] = IF apc[a] = "rows" THEN "loop"
                                        ELSE IF todo[a] = {b} THEN "repack" ELSE "sweep"]
           /\ UNCHANGED <<mutex, guard, skips, wanted, packing>>
        \/ /\ b \in linked
           /\ Finish(a)
           /\ UNCHANGED index
    /\ UNCHANGED <<store, ipc, rooted, tally>>

\* The packs of the packed candidates are rewritten without them ...
ApplyRepack(a) ==
    /\ apc[a] = "repack" /\ packing[a] # {}
    /\ \E some \in SUBSET packing[a] :
          /\ some # {}
          /\ packed' = packed \ some
          /\ todo' = [todo EXCEPT ![a] = some]
          /\ packing' = [packing EXCEPT ![a] = @ \ some]
    /\ apc' = [apc EXCEPT ![a] = "sweep"]
    /\ UNCHANGED <<loose, index, mutex, guard, skips, wanted, ipc, rooted, tally>>

\* ... and each one's loose copy and sidecar go before its rows.
ApplySweepLoose(a) ==
    /\ apc[a] = "sweep"
    /\ \E b \in todo[a] : loose' = loose \ {b}
    /\ apc' = [apc EXCEPT ![a] = "prows"]
    /\ UNCHANGED <<packed, index, mutex, guard, skips, wanted, packing, todo, ipc, rooted, tally>>

ApplyNext(a) ==
    /\ \/ apc[a] = "loop" /\ wanted[a] = {}
       \/ apc[a] = "repack" /\ packing[a] = {}
    /\ IF apc[a] = "loop" /\ packing[a] # {}
       THEN apc' = [apc EXCEPT ![a] = "repack"] /\ UNCHANGED <<mutex, guard, skips, wanted, packing, todo>>
       ELSE Finish(a)
    /\ UNCHANGED <<store, index, ipc, rooted, tally>>

\* The process dies; its guard lapses by its TTL.
Die(a) ==
    /\ apc[a] # "idle" /\ deaths < MaxDeaths
    /\ deaths' = deaths + 1
    /\ Finish(a)
    /\ UNCHANGED <<store, index, ipc, rooted, ingests, names>>

(****************************************************************************)
(* What the rest of the system does meanwhile.                              *)
(****************************************************************************)
\* POST /v1/gc/keep under the daemon's mutex, `datboi gc keep` under none.
SetKeep(b, on) ==
    /\ mutex = Free \/ "cli" \in Appliers
    /\ names < MaxNames /\ names' = names + 1
    /\ keeps' = IF on THEN keeps \cup {b} ELSE keeps \ {b}
    /\ keeps' # keeps
    /\ UNCHANGED <<store, rowed, queued, linked, tagged, age, mutex, guard, run, ipc, rooted, ingests, deaths>>

\* Mutant: a view is evaluated on a connection of its own.
TagUnserialized(b) ==
    /\ names < MaxNames /\ names' = names + 1
    /\ b \in rowed \ tagged /\ tagged' = tagged \cup {b}
    /\ UNCHANGED <<store, rowed, queued, linked, keeps, age, mutex, guard, run, ipc, rooted, ingests, deaths>>

\* evaluate_view publishes a snapshot whose rows name resident blobs, and tags
\* it, all under the daemon's mutex.
Tag(b) ==
    /\ mutex = Free
    /\ names < MaxNames /\ names' = names + 1
    /\ b \in rowed \ tagged /\ tagged' = tagged \cup {b}
    /\ UNCHANGED <<store, rowed, queued, linked, keeps, age, mutex, guard, run, ipc, rooted, ingests, deaths>>

\* A recipe or a dat comes to name the blob, on a connection of its own.
Link(b) ==
    /\ names < MaxNames /\ names' = names + 1
    /\ b \in rowed \ linked /\ linked' = linked \cup {b}
    /\ UNCHANGED <<store, rowed, queued, tagged, keeps, age, mutex, guard, run, ipc, rooted, ingests, deaths>>

\* An ingest of the same bytes: put_new stores them unless a loose file exists ...
IngestPut(b) ==
    /\ ipc[b] = "none" /\ ingests < MaxIngests
    /\ ingests' = ingests + 1
    /\ loose' = loose \cup {b}
    /\ ipc' = [ipc EXCEPT ![b] = "stored"]
    /\ UNCHANGED <<packed, index, mutex, guard, run, rooted, names, deaths>>

\* ... and one transaction upserts the row and queues the blob for analysis.
IngestApply(b) ==
    /\ ipc[b] = "stored"
    /\ ipc' = [ipc EXCEPT ![b] = "none"]
    /\ rowed' = rowed \cup {b} /\ queued' = queued \cup {b}
    /\ UNCHANGED <<store, linked, tagged, keeps, age, mutex, guard, run, rooted, tally>>

\* The analyzers conclude on a queued blob with nothing that names it.
Conclude(b) ==
    /\ b \in queued /\ queued' = queued \ {b}
    /\ UNCHANGED <<store, rowed, linked, tagged, keeps, age, mutex, guard, run, ipc, rooted, tally>>

OInit ==
    /\ loose \in SUBSET OBlobs /\ packed = OBlobs \ loose
    /\ rowed = OBlobs /\ queued = {} /\ linked = {} /\ tagged = {} /\ keeps = {}
    /\ age = [b \in OBlobs |-> Unmarked]
    /\ mutex = Free /\ guard = Free
    /\ apc = [a \in Appliers |-> "idle"]
    /\ skips = [a \in Appliers |-> {}] /\ wanted = [a \in Appliers |-> {}]
    /\ packing = [a \in Appliers |-> {}] /\ todo = [a \in Appliers |-> {}]
    /\ ipc = [b \in OBlobs |-> "none"] /\ rooted = {}
    /\ ingests = 0 /\ names = 0 /\ deaths = 0

Apply(a) ==
    \/ ApplyRead(a) \/ ApplyClaim(a) \/ ApplyCheck(a) \/ ApplyUnlink(a) \/ ApplyRows(a)
    \/ ApplyRepack(a) \/ ApplySweepLoose(a) \/ ApplyNext(a)

ONext ==
    \/ Sweep
    \/ \E a \in Appliers : Apply(a) \/ Die(a)
    \/ \E b \in OBlobs :
        \/ \E on \in BOOLEAN : SetKeep(b, on)
        \/ Tag(b) \/ Link(b) \/ IngestPut(b) \/ IngestApply(b) \/ Conclude(b)

OSpec == OInit /\ [][ONext]_ovars

(****************************************************************************)
(* Properties.                                                              *)
(****************************************************************************)
Unlinks == (loose \cup packed) \ (loose' \cup packed')

\* "Each deletion re-verifies unreferenced + grace + keep-mark at delete time":
\* no apply of the daemon destroys the last copy of a blob that is keep-marked
\* or in a tag's closure at that moment, though it read both before it claimed.
KeptAtDeleteTime == [][Unlinks \cap (keeps \cup tagged) = {}]_ovars

\* "The review-era mark proves nothing about now": what a recipe or a dat
\* named when apply claimed the guard survives that apply.
RootedAtClaimSurvives == [][Unlinks \cap rooted = {}]_ovars

\* "remove_blob would no-op and leave the bytes stranded in the pack while the
\* row vanished": no member of a pack is without its row.
PackedHasRow == packed \subseteq rowed

\* A blob that a recipe or a dat names never loses its row, even when the name
\* came between apply's check and its unlink.
LinkedHasRow == linked \subseteq rowed
=============================================================================
