------------------------------ MODULE Residency ------------------------------
(***************************************************************************)
(* Which bytes the store holds, what the index believes about them, and    *)
(* the operations that move the two apart: ingest, recipe licensing,       *)
(* materialization, watermark eviction, chunk packing, unpacking, poison,  *)
(* verify-one, process crashes and `datboi recover`.                       *)
(*                                                                         *)
(* A process is a thread or a CLI invocation with its own database         *)
(* connection; every statement and every file operation it makes is a step *)
(* of its own, and any two processes interleave.  The one lock is the D72  *)
(* singleton guard, a row with a holder and an expiry.                     *)
(***************************************************************************)
EXTENDS Grounding, Naturals

CONSTANTS
    Proc,       \* threads and CLI processes
    None,       \* no process, blob or recipe
    Dead,       \* a guard row whose holder died
    Good,       \* Good[r]: the outputs of r that running r really yields
    Flaky,      \* recipes a run of which may fail its claim all the same
    Holds,      \* Holds[c]: the members of the transport container c
    Source,     \* blobs that files given to ingest hash to
    Pinned,     \* blobs a pinned view protects, or with a pinned_reason
    Named,      \* blobs an imported dat names
    Ops,        \* the operations that take place in this instance
    Guarded,    \* the kinds of operation that run under the guard
    Stored,     \* blobs ingested before the behaviour starts
    Minted,     \* recipes minted before the behaviour starts
    MaxCrash,   \* bound: processes that die
    MaxLapse    \* bound: guard claims that outlive their TTL

AllOps == {"ingest", "ingest_unpack", "mint", "peer", "license", "materialize",
           "rehabilitate", "poison", "evict", "pack", "unpack", "heal",
           "recover"}

Container == DOMAIN Holds

ASSUME ResidencyAssumption ==
    /\ Good \in [Recipe -> SUBSET Blob]
    /\ \A r \in Recipe : Good[r] \subseteq Out[r]
    /\ Flaky \subseteq Recipe
    /\ Container \subseteq Blob
    /\ \A c \in Container : Holds[c] \subseteq Blob
    /\ Source \subseteq Blob
    /\ Pinned \subseteq Blob
    /\ Named \subseteq Blob
    /\ Ops \subseteq AllOps
    /\ Guarded \subseteq {"drop", "publish", "unpack"}
    /\ Stored \subseteq Blob
    /\ Minted \subseteq Recipe
    /\ MaxCrash \in Nat
    /\ MaxLapse \in Nat
    /\ None \notin Proc \cup Blob \cup Recipe
    /\ Dead \notin Proc \cup {None}

VARIABLES
    loose,      \* blobs with a loose .data file
    packed,     \* blobs with a window in a pack
    residency,  \* the blob table: "none" (no row) | Residency
    verify,     \* the recipe table: "none" (no row) | VerifyState
    guard,      \* gc_guard.holder, None when free or expired
    pc,         \* what each process does next
    goal,       \* why it replays, or which pass of an eviction run it is in
    blob,       \* the blob it works on
    recipe,     \* the recipe it replays
    mark,       \* the recipe whose verify state it is about to write
    kids,       \* participants of its replay still to license
    rows,       \* outputs or members whose rows are still to be written
    left,       \* candidates of its eviction run, pieces of its pack
    owed,       \* history: blobs datboi has promised to give back
    crashes,    \* history: processes that died
    lapses      \* history: claims that outlived their TTL

store == <<loose, packed>>
tables == <<residency, verify>>
locals == <<goal, blob, recipe, mark, kids, rows, left>>
ghosts == <<owed, crashes, lapses>>
vars == <<loose, packed, residency, verify, guard, pc, goal, blob, recipe,
          mark, kids, rows, left, owed, crashes, lapses>>

ResidencyState == {"none", "absent", "resident", "evicted_covered"}
VerifyState == {"none", "pending", "verified", "failed", "replayed_local"}

Init ==
    /\ loose = Stored
    /\ packed = {}
    /\ verify = [r \in Recipe |-> IF r \in Minted THEN "verified" ELSE "none"]
    /\ residency =
         [b \in Blob |->
             IF b \in Stored THEN "resident"
             ELSE IF \E r \in Minted : b \in In[r] \cup Out[r] THEN "absent"
             ELSE "none"]
    /\ guard = None
    /\ pc = [p \in Proc |-> "idle"]
    /\ goal = [p \in Proc |-> "none"]
    /\ blob = [p \in Proc |-> None]
    /\ recipe = [p \in Proc |-> None]
    /\ mark = [p \in Proc |-> None]
    /\ kids = [p \in Proc |-> {}]
    /\ rows = [p \in Proc |-> {}]
    /\ left = [p \in Proc |-> {}]
    /\ owed = Stored
    /\ crashes = 0
    /\ lapses = 0

-----------------------------------------------------------------------------
(* What the store and the tables say.                                      *)

\* Store::has: a loose file or a pack window.
Bytes == loose \cup packed

Resident == {b \in Blob : residency[b] = "resident"}
Licensed == {r \in Recipe : verify[r] = "replayed_local"}
Live == {r \in Recipe : verify[r] \notin {"none", "failed"}}
Known == {r \in Recipe : verify[r] # "none"}

EvictableSelfGrounded(b) == b \in Grounded(Resident, Licensed, Out)

\* Db::is_evictable: b is grounded without its own literal, through
\* recipes that were replayed on this host (GroundingMode::Licensed).
Evictable(b) == b \in Grounded(Resident \ {b}, Licensed, Out)

\* Db::list_eviction_candidates and verified_only_candidates.
CoveredBy(state) ==
    {b \in Resident : \E r \in Recipe : verify[r] = state /\ b \in Out[r]}

\* The recipes that read the blob c and nothing else.
SoleUsers(c) == {r \in Recipe : In[r] = {c}}

\* Db::container_member_claims: the blobs the index still expects out of c.
MemberClaims(c) == UNION {Out[r] : r \in Live \cap SoleUsers(c)}

UnpackCandidateNamed(c) ==
    /\ residency[c] = "resident"
    /\ c \notin Pinned
    /\ \E r \in Live \cap SoleUsers(c) : Out[r] # {}
    /\ ~ \E r \in Live : c \in Out[r]

\* UNPACK_CANDIDATE_SQL.
UnpackCandidate(c) ==
    /\ residency[c] = "resident"
    /\ c \notin Pinned \cup Named
    /\ \E r \in Live \cap SoleUsers(c) : Out[r] # {}
    /\ ~ \E r \in Live : c \in Out[r]

\* VerifyState::can_transition_to.
Legal(from, to) ==
    \/ from = "pending" /\ to \in {"verified", "replayed_local", "failed"}
    \/ from = "verified" /\ to \in {"replayed_local", "failed"}
    \/ from = "replayed_local" /\ to = "failed"

\* ensure_blob for every blob a recipe names: a blob without a row gets one
\* that claims no bytes.
WithRowsFor(bs) ==
    [b \in Blob |->
        IF b \in bs /\ residency[b] = "none" THEN "absent" ELSE residency[b]]

\* Executor::plan as a relation: route assigns to each blob that has to be
\* made the recipe that makes it.  A blob with bytes is a literal; any
\* other takes some recipe that has not failed, and no blob depends on
\* itself.  Recipes are tried in index order, which is left open here.
IsPlan(route, need) ==
    LET made == DOMAIN route
        yields == [k \in Recipe |-> {b \in made : route[b] = k}]
    IN  /\ \A b \in made : b \in Out[route[b]]
        /\ (need \cup UNION {In[route[b]] : b \in made}) \ Bytes = made
        /\ made \subseteq Grounded(Bytes, Recipe, yields)

Plans(need) ==
    {route \in UNION {[made -> Live] : made \in SUBSET (Blob \ Bytes)} :
        IsPlan(route, need)}

\* Every step of the plan yields the bytes it was picked for.
Delivers(route) == \A b \in DOMAIN route : b \in Good[route[b]]

-----------------------------------------------------------------------------
(* Process bookkeeping.                                                    *)

Goto(p, s) == pc' = [pc EXCEPT ![p] = s]

BeginSteals(p, kind) ==
    /\ pc[p] = "idle"
    /\ guard' = IF kind \in Guarded THEN p ELSE guard

\* The start of an operation: one of a guarded kind must win claim_gc_guard.
Begin(p, kind) ==
    /\ pc[p] = "idle"
    /\ IF kind \in Guarded
       THEN guard = None /\ guard' = p
       ELSE UNCHANGED guard

\* The locals of an operation go with it.
Forget(p) ==
    /\ Goto(p, "idle")
    /\ goal' = [goal EXCEPT ![p] = "none"]
    /\ blob' = [blob EXCEPT ![p] = None]
    /\ recipe' = [recipe EXCEPT ![p] = None]
    /\ mark' = [mark EXCEPT ![p] = None]
    /\ kids' = [kids EXCEPT ![p] = {}]
    /\ rows' = [rows EXCEPT ![p] = {}]
    /\ left' = [left EXCEPT ![p] = {}]

FinishReleasesAny(p) == Forget(p) /\ guard' = None

FinishKeepsGuard(p) == Forget(p) /\ UNCHANGED guard

\* The end of an operation: release_gc_guard frees the guard only if this
\* process still holds it.
Finish(p) ==
    /\ Forget(p)
    /\ guard' = IF guard = p THEN None ELSE guard

-----------------------------------------------------------------------------
(* Ingest and minting.                                                     *)

\* hash_file -> Store::put_new: the bytes are durable, no row yet.  Only a
\* loose file counts as present, so a packed blob gets a loose duplicate.
IngestPut(p, b) ==
    /\ Ops \cap {"ingest", "ingest_unpack"} # {}
    /\ b \in Source
    /\ Begin(p, "publish")
    /\ loose' = loose \cup {b}
    /\ blob' = [blob EXCEPT ![p] = b]
    /\ Goto(p, "row")
    /\ UNCHANGED <<packed, tables, goal, recipe, mark, kids, rows, left, ghosts>>

\* record_resident_blob.  The blob is owed from here on; with --unpack a
\* container goes on to its members, with no look at the candidate fences.
IngestRow(p) ==
    /\ pc[p] = "row"
    /\ residency' = [residency EXCEPT ![blob[p]] = "resident"]
    /\ owed' = owed \cup {blob[p]}
    /\ \/ Finish(p)
       \/ /\ "ingest_unpack" \in Ops
          /\ blob[p] \in Container
          /\ Goto(p, "extract")
          /\ goal' = [goal EXCEPT ![p] = "claim"]
          /\ UNCHANGED <<guard, blob, recipe, mark, kids, rows, left>>
    /\ UNCHANGED <<store, verify, crashes, lapses>>

\* mint_recipe by an ingest pass or an analyzer that just read the inputs:
\* one transaction.
Mint(p, r) ==
    /\ "mint" \in Ops
    /\ pc[p] = "idle"
    /\ verify[r] = "none"
    /\ In[r] \subseteq Bytes
    /\ verify' = [verify EXCEPT ![r] = "verified"]
    /\ residency' = WithRowsFor(In[r] \cup Out[r])
    /\ UNCHANGED <<store, guard, pc, locals, ghosts>>

IndexPeerResets(p, r) ==
    /\ "peer" \in Ops
    /\ pc[p] = "idle"
    /\ verify' = [verify EXCEPT ![r] = "pending"]
    /\ residency' = WithRowsFor(In[r] \cup Out[r])
    /\ UNCHANGED <<store, guard, pc, locals, ghosts>>

\* A recipe object a peer sent: indexed, and trusted with nothing.
IndexPeer(p, r) ==
    /\ "peer" \in Ops
    /\ pc[p] = "idle"
    /\ verify[r] = "none"
    /\ verify' = [verify EXCEPT ![r] = "pending"]
    /\ residency' = WithRowsFor(In[r] \cup Out[r])
    /\ UNCHANGED <<store, guard, pc, locals, ghosts>>

-----------------------------------------------------------------------------
(* Replay: Executor::replay, license_covered, materialize, rehabilitate.   *)

\* The row read that opens a replay: it decides whether the success is to
\* be written as a transition, not at all ("keep": the row already says
\* ReplayedLocal), or as a rehabilitation.
ReplayStart(p, r, why) ==
    /\ Begin(p, "publish")
    /\ goal' = [goal EXCEPT ![p] = why]
    /\ recipe' = [recipe EXCEPT ![p] = r]
    /\ Goto(p, "run")
    /\ UNCHANGED <<store, tables, blob, mark, kids, rows, left, ghosts>>

\* license_covered: a Verified route of a resident blob.
License(p, r) ==
    /\ "license" \in Ops
    /\ verify[r] = "verified"
    /\ Out[r] \cap Resident # {}
    /\ ReplayStart(p, r, "license")

\* materialize: a route, in any live state, of a blob that is not resident.
Materialize(p, r) ==
    /\ "materialize" \in Ops
    /\ r \in Live
    /\ \E b \in Out[r] : residency[b] # "resident" \/ b \notin Bytes
    /\ ReplayStart(p, r, IF r \in Licensed THEN "keep" ELSE "license")

Rehabilitate(p, r) ==
    /\ "rehabilitate" \in Ops
    /\ verify[r] = "failed"
    /\ ReplayStart(p, r, "rehabilitate")

ReplayRunUnmarked(p) ==
    /\ pc[p] = "run"
    /\ Good[recipe[p]] = Out[recipe[p]]
    /\ Plans(In[recipe[p]]) # {}
    /\ loose' = loose \cup Out[recipe[p]]
    /\ rows' = [rows EXCEPT ![p] = Out[recipe[p]]]
    /\ Goto(p, "mark")
    /\ UNCHANGED <<packed, tables, guard, goal, blob, recipe, mark, kids, left,
                   ghosts>>

ReplayRunUnverified(p) ==
    /\ pc[p] = "run"
    /\ Plans(In[recipe[p]]) # {}
    /\ loose' = loose \cup Good[recipe[p]]
    /\ rows' = [rows EXCEPT ![p] = Out[recipe[p]]]
    /\ mark' = [mark EXCEPT ![p] = recipe[p]]
    /\ Goto(p, "mark")
    /\ UNCHANGED <<packed, tables, guard, goal, blob, recipe, kids, left, ghosts>>

\* execute_to_store succeeds: each claimed output went through
\* put_with_obao, which writes a loose file even for a packed blob.
ReplayRun(p) ==
    /\ pc[p] = "run"
    /\ Good[recipe[p]] = Out[recipe[p]]
    /\ loose' = loose \cup Out[recipe[p]]
    /\ rows' = [rows EXCEPT ![p] = Out[recipe[p]]]
    /\ \E route \in Plans(In[recipe[p]]) :
         /\ Delivers(route)
         /\ kids' = [kids EXCEPT ![p] =
                        {route[b] : b \in DOMAIN route} \ {recipe[p]}]
    /\ mark' = [mark EXCEPT ![p] = recipe[p]]
    /\ Goto(p, IF goal[p] = "keep" THEN "kids" ELSE "mark")
    /\ UNCHANGED <<packed, tables, guard, goal, blob, recipe, left, ghosts>>

\* The outputs do not hash to the claims, or the guest traps: the outputs
\* that came first may be in the store, none has a row, and the recipe
\* under replay is the one to poison.
ReplayClaimFails(p) ==
    /\ pc[p] = "run"
    /\ \E route \in Plans(In[recipe[p]]) :
         \/ ~ Delivers(route)
         \/ Good[recipe[p]] # Out[recipe[p]]
         \/ recipe[p] \in Flaky
    /\ \E out \in SUBSET Good[recipe[p]] : loose' = loose \cup out
    /\ IF goal[p] = "rehabilitate"
       THEN Finish(p) /\ UNCHANGED <<packed, tables, ghosts>>
       ELSE /\ mark' = [mark EXCEPT ![p] = recipe[p]]
            /\ Goto(p, "poison")
            /\ UNCHANGED <<packed, tables, guard, goal, blob, recipe, kids,
                           rows, left, ghosts>>

\* No route, a literal that vanished, I/O, fuel: nothing is recorded; an
\* eviction run that replays inline is over.
ReplayError(p) ==
    /\ pc[p] = "run"
    /\ Finish(p)
    /\ UNCHANGED <<store, tables, ghosts>>

\* The check half of set_verify_state(ReplayedLocal) or of
\* rehabilitate_recipe: the SELECT and can_transition_to.  A refusal
\* leaves the outputs in the store without their rows.
Mark(p) ==
    /\ pc[p] = "mark"
    /\ IF \/ Legal(verify[mark[p]], "replayed_local")
          \/ /\ goal[p] = "rehabilitate"
             /\ mark[p] = recipe[p]
             /\ verify[mark[p]] = "failed"
       THEN Goto(p, "write") /\ UNCHANGED <<guard, locals>>
       ELSE Finish(p)
    /\ UNCHANGED <<store, tables, ghosts>>

\* The UPDATE half: unconditional.
MarkWrite(p) ==
    /\ pc[p] = "write"
    /\ verify' = [verify EXCEPT ![mark[p]] = "replayed_local"]
    /\ Goto(p, "kids")
    /\ UNCHANGED <<store, residency, guard, locals, ghosts>>

\* License the participants that are Verified, one after the other.
Kid(p, k) ==
    /\ pc[p] = "kids"
    /\ k \in kids[p]
    /\ kids' = [kids EXCEPT ![p] = @ \ {k}]
    /\ IF verify[k] = "verified"
       THEN mark' = [mark EXCEPT ![p] = k] /\ Goto(p, "mark")
       ELSE UNCHANGED <<mark, pc>>
    /\ UNCHANGED <<store, tables, guard, goal, blob, recipe, rows, left, ghosts>>

\* upsert_blob(Resident) and set_verified for one output.
Row(p, b) ==
    /\ pc[p] = "kids"
    /\ kids[p] = {}
    /\ b \in rows[p]
    /\ residency' = [residency EXCEPT ![b] = "resident"]
    /\ rows' = [rows EXCEPT ![p] = @ \ {b}]
    /\ UNCHANGED <<store, verify, guard, pc, goal, blob, recipe, mark, kids,
                   left, ghosts>>

\* The replay returns; inside an eviction run the blob it licensed is tried.
ReplayDone(p) ==
    /\ pc[p] = "kids"
    /\ kids[p] = {}
    /\ rows[p] = {}
    /\ IF goal[p] = "second"
       THEN /\ Goto(p, "ground")
            /\ recipe' = [recipe EXCEPT ![p] = None]
            /\ mark' = [mark EXCEPT ![p] = None]
            /\ UNCHANGED <<guard, goal, blob, kids, rows, left>>
       ELSE Finish(p)
    /\ UNCHANGED <<store, tables, ghosts>>

-----------------------------------------------------------------------------
(* Poison: poison_route on the read path, the failure arm of replay.       *)

\* A stream over r fails its claim mid-read (D126).
StreamFails(p, r) ==
    /\ "poison" \in Ops
    /\ pc[p] = "idle"
    /\ r \in Live
    /\ \E route \in Plans(In[r]) :
         ~ Delivers(route) \/ Good[r] # Out[r] \/ r \in Flaky
    /\ mark' = [mark EXCEPT ![p] = r]
    /\ Goto(p, "poison")
    /\ UNCHANGED <<store, tables, guard, goal, blob, recipe, kids, rows, left,
                   ghosts>>

\* The check half of set_verify_state(Failed).
Poison(p) ==
    /\ pc[p] = "poison"
    /\ IF Legal(verify[mark[p]], "failed")
       THEN Goto(p, "poison_write") /\ UNCHANGED <<guard, locals>>
       ELSE Finish(p)
    /\ UNCHANGED <<store, tables, ghosts>>

\* The UPDATE half; an eviction run goes on to the blob's next route.
PoisonWrite(p) ==
    /\ pc[p] = "poison_write"
    /\ verify' = [verify EXCEPT ![mark[p]] = "failed"]
    /\ IF goal[p] = "second"
       THEN /\ Goto(p, "route")
            /\ recipe' = [recipe EXCEPT ![p] = None]
            /\ mark' = [mark EXCEPT ![p] = None]
            /\ UNCHANGED <<guard, goal, blob, kids, rows, left>>
       ELSE Finish(p)
    /\ UNCHANGED <<store, residency, ghosts>>

-----------------------------------------------------------------------------
(* Eviction under the guard: evict_covered, evict_with.                    *)

\* The guard, then the list of covered residents.
EvictStart(p) ==
    /\ "evict" \in Ops
    /\ Begin(p, "drop")
    /\ left' = [left EXCEPT ![p] = CoveredBy("replayed_local")]
    /\ goal' = [goal EXCEPT ![p] = "first"]
    /\ Goto(p, "drop")
    /\ UNCHANGED <<store, tables, blob, recipe, mark, kids, rows, ghosts>>

\* The next candidate.  The first pass tries to evict it, the second looks
\* for a Verified route to license it by (no use for a pinned blob).
EvictPick(p, b) ==
    /\ pc[p] = "drop"
    /\ b \in left[p]
    /\ left' = [left EXCEPT ![p] = @ \ {b}]
    /\ blob' = [blob EXCEPT ![p] = b]
    /\ Goto(p, IF goal[p] = "first" THEN "ground"
               ELSE IF b \in Pinned THEN "drop" ELSE "route")
    /\ UNCHANGED <<store, tables, guard, goal, recipe, mark, kids, rows, ghosts>>

\* Second pass: replay one Verified route of the candidate, or give it up.
EvictRoute(p) ==
    /\ pc[p] = "route"
    /\ \/ \E r \in Recipe :
            /\ verify[r] = "verified"
            /\ blob[p] \in Out[r]
            /\ recipe' = [recipe EXCEPT ![p] = r]
            /\ Goto(p, "run")
       \/ /\ ~ \E r \in Recipe : verify[r] = "verified" /\ blob[p] \in Out[r]
          /\ Goto(p, "drop")
          /\ UNCHANGED recipe
    /\ UNCHANGED <<store, tables, guard, goal, blob, mark, kids, rows, left,
                   ghosts>>

\* evict_with up to the point of no return.
EvictGround(p) ==
    /\ pc[p] = "ground"
    /\ Goto(p, IF /\ residency[blob[p]] = "resident"
                  /\ blob[p] \in loose
                  /\ blob[p] \notin Pinned
                  /\ Evictable(blob[p])
               THEN "unlink" ELSE "drop")
    /\ UNCHANGED <<store, tables, guard, locals, ghosts>>

\* Store::evict_literal.
EvictUnlink(p) ==
    /\ pc[p] = "unlink"
    /\ loose' = loose \ {blob[p]}
    /\ Goto(p, "flip")
    /\ UNCHANGED <<packed, tables, guard, locals, ghosts>>

EvictFlipForgets(p) ==
    /\ pc[p] = "flip"
    /\ Goto(p, "drop")
    /\ UNCHANGED <<store, tables, guard, locals, ghosts>>

\* set_residency: a blob that was also packed has lost only its duplicate.
EvictFlip(p) ==
    /\ pc[p] = "flip"
    /\ residency' = [residency EXCEPT ![blob[p]] =
                        IF blob[p] \in Bytes THEN "resident"
                        ELSE "evicted_covered"]
    /\ Goto(p, "drop")
    /\ UNCHANGED <<store, verify, guard, locals, ghosts>>

\* License set and the first pass over: list the Verified-only pool.
EvictSecondPass(p) ==
    /\ pc[p] = "drop"
    /\ goal[p] = "first"
    /\ left[p] = {}
    /\ goal' = [goal EXCEPT ![p] = "second"]
    /\ left' = [left EXCEPT ![p] = CoveredBy("verified")]
    /\ UNCHANGED <<store, tables, guard, pc, blob, recipe, mark, kids, rows,
                   ghosts>>

\* The target is met or the candidates are used up; the guard goes.
EvictEnd(p) ==
    /\ pc[p] = "drop"
    /\ Finish(p)
    /\ UNCHANGED <<store, tables, ghosts>>

-----------------------------------------------------------------------------
(* Chunk packing under the guard: pack_one_set.                            *)

\* Resident loose inputs of a trusted route go into one pack; a loose copy
\* of an input that is already packed is swept.
PackPut(p, r) ==
    /\ "pack" \in Ops
    /\ verify[r] \in {"verified", "replayed_local"}
    /\ Begin(p, "drop")
    /\ LET pieces == {b \in In[r] \cap Resident : b \in loose \ packed}
       IN  /\ packed' = packed \cup pieces
           /\ left' = [left EXCEPT ![p] = pieces]
    /\ loose' = loose \ (In[r] \cap Resident \cap packed)
    /\ Goto(p, "sweep")
    /\ UNCHANGED <<tables, goal, blob, recipe, mark, kids, rows, ghosts>>

\* remove_blob of one loose copy.
PackSweep(p, b) ==
    /\ pc[p] = "sweep"
    /\ b \in left[p]
    /\ loose' = loose \ {b}
    /\ left' = [left EXCEPT ![p] = @ \ {b}]
    /\ UNCHANGED <<packed, tables, guard, pc, goal, blob, recipe, mark, kids,
                   rows, ghosts>>

PackEnd(p) ==
    /\ pc[p] = "sweep"
    /\ left[p] = {}
    /\ Finish(p)
    /\ UNCHANGED <<store, tables, ghosts>>

-----------------------------------------------------------------------------
(* Unpacking: unpack_corpus, and the tail of ingest --unpack.              *)

\* One candidate row through triage.  Bytes already gone: an interrupted
\* drop, so ask the gate again.
UnpackStart(p, c) ==
    /\ "unpack" \in Ops
    /\ UnpackCandidate(c)
    /\ c \in Bytes => c \in Container
    /\ Begin(p, "unpack")
    /\ blob' = [blob EXCEPT ![p] = c]
    /\ Goto(p, IF c \in Bytes THEN "extract" ELSE "drop_gate")
    /\ UNCHANGED <<store, tables, goal, recipe, mark, kids, rows, left, ghosts>>

\* Every member goes through put_new.
UnpackExtract(p) ==
    /\ pc[p] = "extract"
    /\ IF blob[p] \in Bytes
       THEN /\ loose' = loose \cup Holds[blob[p]]
            /\ rows' = [rows EXCEPT ![p] = Holds[blob[p]]]
            /\ Goto(p, "members")
            /\ UNCHANGED <<packed, guard, goal, blob, recipe, mark, kids, left>>
       ELSE Finish(p) /\ UNCHANGED store
    /\ UNCHANGED <<tables, ghosts>>

\* record_member.
MemberRow(p, b) ==
    /\ pc[p] = "members"
    /\ b \in rows[p]
    /\ residency' = [residency EXCEPT ![b] = "resident"]
    /\ rows' = [rows EXCEPT ![p] = @ \ {b}]
    /\ UNCHANGED <<store, verify, guard, pc, goal, blob, recipe, mark, kids,
                   left, ghosts>>

\* At the ingest door each member's recipe is minted after its row.
MemberMint(p, r) ==
    /\ pc[p] = "members"
    /\ rows[p] = {}
    /\ goal[p] = "claim"
    /\ r \in SoleUsers(blob[p])
    /\ Out[r] \subseteq Holds[blob[p]]
    /\ verify[r] = "none"
    /\ verify' = [verify EXCEPT ![r] = "verified"]
    /\ UNCHANGED <<store, residency, guard, pc, locals, ghosts>>

MembersDone(p) ==
    /\ pc[p] = "members"
    /\ rows[p] = {}
    /\ goal[p] = "claim" =>
         \A r \in SoleUsers(blob[p]) :
             Out[r] \subseteq Holds[blob[p]] => verify[r] # "none"
    /\ Goto(p, "drop_gate")
    /\ UNCHANGED <<store, tables, guard, locals, ghosts>>

\* drop_container: everything the index expects out of c is in the store.
DropGate(p) ==
    /\ pc[p] = "drop_gate"
    /\ IF MemberClaims(blob[p]) \subseteq Bytes
       THEN Goto(p, "drop_unlink") /\ UNCHANGED <<guard, locals>>
       ELSE Finish(p)
    /\ UNCHANGED <<store, tables, ghosts>>

\* Store::remove_blob: from here the members are owed in the container's
\* place.
DropUnlink(p) ==
    /\ pc[p] = "drop_unlink"
    /\ loose' = loose \ {blob[p]}
    /\ owed' = IF blob[p] \in owed /\ blob[p] \in Container
               THEN (owed \ {blob[p]}) \cup Holds[blob[p]] ELSE owed
    /\ Goto(p, "drop_flip")
    /\ UNCHANGED <<packed, tables, guard, locals, crashes, lapses>>

DropFlipForgets(p) ==
    /\ pc[p] = "drop_flip"
    /\ Finish(p)
    /\ UNCHANGED <<store, tables, ghosts>>

\* set_residency(Absent): nothing covers these bytes.
DropFlip(p) ==
    /\ pc[p] = "drop_flip"
    /\ residency' = [residency EXCEPT ![blob[p]] = "absent"]
    /\ Finish(p)
    /\ UNCHANGED <<store, verify, ghosts>>

-----------------------------------------------------------------------------
(* Verify-one, crashes, the guard's TTL, recovery.                         *)

\* verify_one finds no bytes for a blob whose row said Resident.
HealLook(p, b) ==
    /\ "heal" \in Ops
    /\ pc[p] = "idle"
    /\ residency[b] = "resident"
    /\ b \notin Bytes
    /\ blob' = [blob EXCEPT ![p] = b]
    /\ Goto(p, "demote")
    /\ UNCHANGED <<store, tables, guard, goal, recipe, mark, kids, rows, left,
                   ghosts>>

\* The row is demoted, whatever has happened to the blob meanwhile.
HealDemote(p) ==
    /\ pc[p] = "demote"
    /\ residency' = [residency EXCEPT ![blob[p]] = "absent"]
    /\ Finish(p)
    /\ UNCHANGED <<store, verify, ghosts>>

\* A process dies between two of its steps.  Its guard row stays behind.
Crash(p) ==
    /\ crashes < MaxCrash
    /\ pc[p] # "idle"
    /\ Forget(p)
    /\ guard' = IF guard = p THEN Dead ELSE guard
    /\ crashes' = crashes + 1
    /\ UNCHANGED <<store, tables, owed, lapses>>

\* A dead holder's TTL runs out.
Expire ==
    /\ guard = Dead
    /\ guard' = None
    /\ UNCHANGED <<store, tables, pc, locals, ghosts>>

\* A live holder's TTL runs out: nothing renews the claim.
Lapse ==
    /\ guard \in Proc
    /\ lapses < MaxLapse
    /\ guard' = None
    /\ lapses' = lapses + 1
    /\ UNCHANGED <<store, tables, pc, locals, owed, crashes>>

\* datboi recover, with nothing else running: the cache is rebuilt from the
\* store.  Every recipe object comes back Pending, every blob with bytes
\* Resident, every blob only recipes name without bytes.
Recover ==
    /\ "recover" \in Ops
    /\ \A p \in Proc : pc[p] = "idle"
    /\ verify' = [r \in Recipe |-> IF r \in Known THEN "pending" ELSE "none"]
    /\ residency' =
         [b \in Blob |->
             IF b \in Bytes THEN "resident"
             ELSE IF \E r \in Known : b \in In[r] \cup Out[r] THEN "absent"
             ELSE "none"]
    /\ guard' = None
    /\ UNCHANGED <<store, pc, locals, ghosts>>

-----------------------------------------------------------------------------
OwnStep(p) ==
    \/ IngestRow(p)
    \/ ReplayRun(p) \/ ReplayClaimFails(p) \/ ReplayError(p)
    \/ Mark(p) \/ MarkWrite(p) \/ ReplayDone(p)
    \/ Poison(p) \/ PoisonWrite(p)
    \/ EvictRoute(p) \/ EvictGround(p) \/ EvictUnlink(p) \/ EvictFlip(p)
    \/ EvictSecondPass(p) \/ EvictEnd(p) \/ PackEnd(p)
    \/ UnpackExtract(p) \/ MembersDone(p)
    \/ DropGate(p) \/ DropUnlink(p) \/ DropFlip(p)
    \/ HealDemote(p)
    \/ \E b \in Blob :
         Row(p, b) \/ EvictPick(p, b) \/ PackSweep(p, b) \/ MemberRow(p, b)
    \/ \E r \in Recipe : Kid(p, r) \/ MemberMint(p, r)

StartStep(p) ==
    \/ EvictStart(p)
    \/ \E b \in Blob : IngestPut(p, b) \/ UnpackStart(p, b) \/ HealLook(p, b)
    \/ \E r \in Recipe :
         \/ Mint(p, r) \/ IndexPeer(p, r)
         \/ License(p, r) \/ Materialize(p, r) \/ Rehabilitate(p, r)
         \/ StreamFails(p, r) \/ PackPut(p, r)

Next ==
    \/ \E p \in Proc : StartStep(p) \/ OwnStep(p) \/ Crash(p)
    \/ Expire
    \/ Lapse
    \/ Recover

Spec == Init /\ [][Next]_vars

\* A process that runs keeps running, and a dead holder's TTL runs out.
FairSpec ==
    /\ Spec
    /\ \A p \in Proc : WF_vars(OwnStep(p))
    /\ WF_vars(Expire)

-----------------------------------------------------------------------------
Pcs == {"idle", "row", "extract", "members", "drop_gate", "drop_unlink",
        "drop_flip", "run", "mark", "write", "kids", "poison", "poison_write",
        "drop", "route", "ground", "unlink", "flip", "sweep", "demote"}

Goals == {"none", "claim", "license", "keep", "rehabilitate", "first", "second"}

\* A step finds the blob or the recipe it works on.
LocalsOK(p) ==
    /\ pc[p] \in {"row", "extract", "members", "drop_gate", "drop_unlink",
                   "drop_flip", "route", "ground", "unlink", "flip", "demote"}
          => blob[p] \in Blob
    /\ pc[p] \in {"extract", "members"} => blob[p] \in Container
    /\ pc[p] = "run" => recipe[p] \in Recipe
    /\ pc[p] \in {"mark", "write", "poison", "poison_write"} => mark[p] \in Recipe
    /\ pc[p] \in {"run", "mark", "write", "kids", "poison", "poison_write"}
          /\ goal[p] = "second" => blob[p] \in Blob
    /\ pc[p] = "idle" =>
          goal[p] = "none" /\ kids[p] = {} /\ rows[p] = {} /\ left[p] = {}

TypeOK ==
    /\ loose \in SUBSET Blob
    /\ packed \in SUBSET Blob
    /\ residency \in [Blob -> ResidencyState]
    /\ verify \in [Recipe -> VerifyState]
    /\ guard \in Proc \cup {None, Dead}
    /\ pc \in [Proc -> Pcs]
    /\ goal \in [Proc -> Goals]
    /\ blob \in [Proc -> Blob \cup {None}]
    /\ recipe \in [Proc -> Recipe \cup {None}]
    /\ mark \in [Proc -> Recipe \cup {None}]
    /\ kids \in [Proc -> SUBSET Recipe]
    /\ rows \in [Proc -> SUBSET Blob]
    /\ left \in [Proc -> SUBSET Blob]
    /\ owed \in SUBSET Blob
    /\ crashes \in Nat
    /\ lapses \in Nat
    /\ \A p \in Proc : LocalsOK(p)

\* What can still be served: made from the bytes in the store by recipes
\* the index knows, through what those recipes really yield.  A poisoned
\* recipe counts: rehabilitation reopens it.
Recoverable == Grounded(Bytes, Known, Good)

\* No blob datboi took in, and none it evicted as covered, is beyond
\* rebuilding: the point of eviction's grounding check (D21, D25, D27) and
\* of drop_container's gate.
NothingStranded ==
    owed \cup {b \in Blob : residency[b] = "evicted_covered"}
        \subseteq Recoverable

\* The license to drop bytes is earned: every ReplayedLocal recipe really
\* yields all it claims (D25), whoever marked it and however the marks
\* interleave.
LicensedSound == \A r \in Licensed : Good[r] = Out[r]

\* A Resident row has its bytes, except between an unlink and the row's
\* flip: the grounding check counts residents as literals, so a phantom
\* row is what would make it approve the loss of the last copy.
IndexHonest ==
    \A b \in Resident :
        \/ b \in Bytes
        \/ \E p \in Proc : pc[p] \in {"flip", "drop_flip"} /\ blob[p] = b

\* Between the grounding check and the unlink the blob stays rebuildable
\* from what the others hold: no check the drop relies on goes stale.
UnlinkStillGrounded ==
    \A p \in Proc :
        pc[p] = "unlink" =>
            blob[p] \in Grounded(Bytes \ {blob[p]}, Known, Good)

\* Processes inside a guarded drop section.
Dropping ==
    {p \in Proc : \/ pc[p] \in {"drop", "route", "ground", "unlink", "flip",
                                "sweep"}
                  \/ goal[p] = "second"}

\* Two drop sections never overlap (D72: two grounding computations must
\* never jointly approve a mutually inverse pair).
DropExclusive == \A p, q \in Dropping : p = q

\* Failed is terminal but for rehabilitation, and a license is lost only to
\* poison or to a rebuild of the index (VerifyState::can_transition_to).
LegalVerifySteps ==
    [][\A r \in Recipe :
         \/ verify'[r] = verify[r]
         \/ verify[r] = "none"
         \/ Legal(verify[r], verify'[r])
         \/ verify[r] = "failed" /\ \E p \in Proc :
               pc[p] = "write" /\ goal[p] = "rehabilitate" /\ recipe[p] = r
         \/ verify' = [s \in Recipe |-> IF s \in Known THEN "pending" ELSE "none"]
      ]_verify

\* No fence is crossed: a pinned blob never loses its bytes, and a blob a
\* dat names loses them only to an eviction that can rebuild it (D123).
FencesHold ==
    [][\A b \in Pinned \cup Named :
         (b \in Bytes /\ b \notin Bytes') =>
             b \notin Pinned /\ b \in Grounded(Bytes', Known, Good)]_loose

\* Every guarded run comes to an end and frees the guard.
GuardIsFreed == (guard # None) ~> (guard = None)

=============================================================================
