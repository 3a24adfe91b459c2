------------------------------ MODULE OnDemand ------------------------------
(* The maintenance the API starts on request (datboi-server api.rs: evict,  *)
(* scrub, sweep, sync), each on a worker of its own with a private database *)
(* connection, beside the daemon's watermark eviction (maintain.rs).  An    *)
(* eviction is answered only after its request has claimed the gc guard;    *)
(* the worker hands the guard back.                                         *)
EXTENDS Naturals

CONSTANTS OnJobs    \* 1..n: job slots

(* guard: the job that holds the gc guard, 0 for none                       *)
(* tasks: job -> its kind and its place: "none" | "opening" | "running" |   *)
(*        "released" | "relink" | "done" | "failed"                         *)
(* dark:  a sync fetched blobs the catalogue has not linked yet             *)
(* ambient: the watermark eviction's place                                  *)
VARIABLES guard, tasks, dark, ambient

ondemandvars == <<guard, tasks, dark, ambient>>

Watermark == 0 - 1
Free == 0

OdInit ==
  /\ guard = Free /\ dark = FALSE /\ ambient = "idle"
  /\ tasks = [j \in OnJobs |-> [kind |-> "scrub", at |-> "none"]]

At(j, place) == tasks' = [tasks EXCEPT ![j].at = place]

\* release_gc_guard: holder-keyed, so only one's own claim is released.
Release(holder) == guard' = IF guard = holder THEN Free ELSE guard

\* POST /v1/evict: the guard first, 503 when it is busy, then the job and its worker.
EvictRequest(j) ==
  /\ tasks[j].at = "none" /\ guard = Free
  /\ guard' = j
  /\ tasks' = [tasks EXCEPT ![j] = [kind |-> "evict", at |-> "opening"]]
  /\ UNCHANGED <<dark, ambient>>

\* A job of that kind and its worker; only an eviction needs the guard.
Start(j, kind) ==
  /\ tasks[j].at = "none"
  /\ tasks' = [tasks EXCEPT ![j] = [kind |-> kind, at |-> "opening"]]
  /\ UNCHANGED <<guard, dark, ambient>>

\* POST /v1/scrub, with a sample of at most 100 percent.
ScrubRequest(j) == Start(j, "scrub")

\* POST /v1/sweep, for an analyzer that exists.
SweepRequest(j) == Start(j, "sweep")

\* POST /v1/p2p/sync, with p2p enabled, a peer and wants that parse.
SyncRequest(j) == Start(j, "sync")

\* Mutant: an eviction worker that cannot open the index leaves with the guard.
OpenFailsHolding(j) ==
  /\ tasks[j].at = "opening"
  /\ At(j, "failed")
  /\ UNCHANGED <<guard, dark, ambient>>

\* The worker cannot open its private connection.
OpenFails(j) ==
  /\ tasks[j].at = "opening"
  /\ IF tasks[j].kind = "evict" THEN Release(j) ELSE UNCHANGED guard
  /\ At(j, "failed")
  /\ UNCHANGED <<dark, ambient>>

Opens(j) ==
  /\ tasks[j].at = "opening"
  /\ At(j, "running")
  /\ UNCHANGED <<guard, dark, ambient>>

\* evict_covered returned, with a report or an error: the guard goes back first.
EvictReleases(j) ==
  /\ tasks[j].kind = "evict" /\ tasks[j].at = "running"
  /\ Release(j)
  /\ At(j, "released")
  /\ UNCHANGED <<dark, ambient>>

EvictEnds(j) ==
  /\ tasks[j].at = "released"
  /\ \E outcome \in {"done", "failed"} : At(j, outcome)
  /\ UNCHANGED <<guard, dark, ambient>>

\* run_scrub: corruption found is a note, only an error fails the job.
ScrubEnds(j) ==
  /\ tasks[j].kind = "scrub" /\ tasks[j].at = "running"
  /\ \E outcome \in {"done", "failed"} : At(j, outcome)
  /\ UNCHANGED <<guard, dark, ambient>>

\* run_sweep_job: a disabled family is a note and a finish.
SweepEnds(j) ==
  /\ tasks[j].kind = "sweep" /\ tasks[j].at = "running"
  /\ \E outcome \in {"done", "failed"} : At(j, outcome)
  /\ UNCHANGED <<guard, dark, ambient>>

\* run_sync: blobs arrive as the sync runs; an error ends the job without a relink.
SyncReceives(j) ==
  /\ tasks[j].kind = "sync" /\ tasks[j].at = "running"
  /\ dark' = TRUE
  /\ UNCHANGED <<guard, tasks, ambient>>

SyncFails(j) ==
  /\ tasks[j].kind = "sync" /\ tasks[j].at = "running"
  /\ At(j, "failed")
  /\ UNCHANGED <<guard, dark, ambient>>

SyncReturns(j) ==
  /\ tasks[j].kind = "sync" /\ tasks[j].at = "running"
  /\ At(j, "relink")
  /\ UNCHANGED <<guard, dark, ambient>>

\* relink_all and refresh_rollups; a failure is a warning, and the job is done.
SyncRelinks(j) ==
  /\ tasks[j].at = "relink"
  /\ dark' \in {FALSE, dark}
  /\ At(j, "done")
  /\ UNCHANGED <<guard, ambient>>

\* watermark_evict over its threshold: not now when the guard is busy.
WatermarkClaims ==
  /\ ambient = "idle" /\ guard = Free
  /\ guard' = Watermark /\ ambient' = "running"
  /\ UNCHANGED <<tasks, dark>>

WatermarkReleases ==
  /\ ambient = "running"
  /\ Release(Watermark) /\ ambient' = "idle"
  /\ UNCHANGED <<tasks, dark>>

\* The claim is older than its TTL: the next claim may take it.
GuardLapses ==
  /\ guard # Free
  /\ guard = Watermark \/ (guard # Watermark /\ tasks[guard].at = "running")
  /\ guard' = Free
  /\ UNCHANGED <<tasks, dark, ambient>>

\* A worker's own steps.
Work(j) ==
  \/ OpenFails(j) \/ Opens(j) \/ EvictReleases(j) \/ EvictEnds(j)
  \/ ScrubEnds(j) \/ SweepEnds(j) \/ SyncFails(j) \/ SyncReturns(j) \/ SyncRelinks(j)

OdNext ==
  \/ \E j \in OnJobs : EvictRequest(j) \/ ScrubRequest(j) \/ SweepRequest(j) \/ SyncRequest(j)
  \/ \E j \in OnJobs : Work(j) \/ SyncReceives(j)
  \/ WatermarkClaims \/ WatermarkReleases
  \/ GuardLapses

\* Threads run: a worker's step that can be taken is taken.
OdFairness == \A j \in OnJobs : WF_ondemandvars(Work(j))

-----------------------------------------------------------------------------
(* The guard an eviction was started with is back by the time its job is    *)
(* over, however it went, and nobody else's release returns it earlier      *)
(* (evict, run_evict, watermark_evict).                                     *)
GuardBackWithJob ==
  guard # Free =>
    IF guard = Watermark THEN ambient = "running"
    ELSE tasks[guard].kind = "evict" /\ tasks[guard].at \in {"opening", "running"}
=============================================================================
