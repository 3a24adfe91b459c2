-------------------------------- MODULE Jobs --------------------------------
(****************************************************************************)
(* Staged uploads, the job registry and its ledger (server jobs.rs,         *)
(* ingest.rs; index jobs.rs): files stream into the store's staging area,   *)
(* a job spends their tokens and ingests them, the registry shows it while  *)
(* it runs, and a ledger row outlives the process.                          *)
(****************************************************************************)
EXTENDS Naturals, Sequences, FiniteSets, SequencesExt

CONSTANTS Files,        \* files that clients upload, each once
          Runs,         \* the jobs of a behaviour
          KeepFinished, \* finished jobs kept in memory (20 in the code)
          LedgerKeep,   \* finished rows kept in the ledger (500 in the code)
          MaxFaults,    \* bound: failed writes and dropped requests
          MaxRestarts   \* bound: restarts of the daemon

VARIABLES
    disk,             \* per file: what the staging area holds of it
    upc,              \* per file: the step of its upload request
    tokens,           \* files whose token is unspent
    ledger,           \* the job table: a sequence of rows, oldest first
    jobs, nextId,     \* JobsInner: the deque, oldest first, and the counter
    rpc, rid,         \* per run: its step and the id it was given (0: none)
    owned, read,      \* per run: files still to process; files processed
    spent,            \* per run: the file that is processed and not yet removed
    outcome,          \* history: how each run ended
    ingested,         \* history: what the pipeline was given of which file
    abandoned,        \* history: files whose request or process died
    unrecorded,       \* history: a ledger write has failed
    faults, restarts

uploadVars == <<disk, upc, tokens, ingested, abandoned>>
runVars == <<rpc, rid, owned, read, spent, outcome>>
jvars == <<uploadVars, ledger, jobs, nextId, runVars, unrecorded, faults, restarts>>

Ids == 0 .. Cardinality(Runs) + 1
LedgerState == {"running", "done", "failed", "interrupted"}
JobRunState == {"running", "done", "failed"}

TypeOK ==
    /\ disk \in [Files -> {"none", "part", "whole"}]
    /\ upc \in [Files -> {"idle", "writing", "received", "done"}]
    /\ tokens \subseteq Files /\ abandoned \subseteq Files
    /\ ledger \in Seq([id : Ids, name : Runs, st : LedgerState, detail : SUBSET Files])
    /\ jobs \in Seq([id : Ids, name : Runs, st : JobRunState, report : SUBSET Files])
    /\ nextId \in Nat
    /\ rpc \in [Runs -> {"new", "insert", "push", "baseline", "loop", "refresh", "persist", "over"}]
    /\ rid \in [Runs -> Ids]
    /\ owned \in [Runs -> SUBSET Files] /\ read \in [Runs -> SUBSET Files]
    /\ spent \in [Runs -> SUBSET Files]
    /\ outcome \in [Runs -> {"none", "done", "failed", "died"}]
    /\ ingested \subseteq Files \X {"part", "whole"}
    /\ unrecorded \in BOOLEAN /\ faults \in 0 .. MaxFaults /\ restarts \in 0 .. MaxRestarts

Fault == faults < MaxFaults /\ faults' = faults + 1

(****************************************************************************)
(* POST /v1/ingest/uploads.                                                 *)
(****************************************************************************)
\* Past the owner, name and headroom checks: the writer creates the file.
UploadStart(f) ==
    /\ upc[f] = "idle"
    /\ upc' = [upc EXCEPT ![f] = "writing"] /\ disk' = [disk EXCEPT ![f] = "part"]
    /\ UNCHANGED <<tokens, ingested, abandoned, ledger, jobs, nextId, runVars, unrecorded, faults, restarts>>

\* The body ended, at its declared length if it had one; the writer has it all.
UploadBody(f) ==
    /\ upc[f] = "writing"
    /\ upc' = [upc EXCEPT ![f] = "received"] /\ disk' = [disk EXCEPT ![f] = "whole"]
    /\ UNCHANGED <<tokens, ingested, abandoned, ledger, jobs, nextId, runVars, unrecorded, faults, restarts>>

\* stage: the token is recorded and answered.
UploadStage(f) ==
    /\ upc[f] = "received"
    /\ upc' = [upc EXCEPT ![f] = "done"] /\ tokens' = tokens \cup {f}
    /\ UNCHANGED <<disk, ingested, abandoned, ledger, jobs, nextId, runVars, unrecorded, faults, restarts>>

\* Mutant: what arrived of an aborted body is staged.
UploadRefuseStages(f) ==
    /\ upc[f] \in {"writing", "received"} /\ Fault
    /\ upc' = [upc EXCEPT ![f] = "done"] /\ tokens' = tokens \cup {f}
    /\ UNCHANGED <<disk, ingested, abandoned, ledger, jobs, nextId, runVars, unrecorded, restarts>>

\* An aborted, short or empty body, a write error, no entropy for a token: the
\* staged file is removed and the client is told.
UploadRefuse(f) ==
    /\ upc[f] \in {"writing", "received"} /\ Fault
    /\ upc' = [upc EXCEPT ![f] = "done"] /\ disk' = [disk EXCEPT ![f] = "none"]
    /\ UNCHANGED <<tokens, ingested, abandoned, ledger, jobs, nextId, runVars, unrecorded, restarts>>

\* The connection closes and the handler's future is dropped where it waits.
UploadDropped(f) ==
    /\ upc[f] = "writing" /\ Fault
    /\ upc' = [upc EXCEPT ![f] = "done"] /\ abandoned' = abandoned \cup {f}
    /\ UNCHANGED <<disk, tokens, ingested, ledger, jobs, nextId, runVars, unrecorded, restarts>>

\* cleanup_temp, at the start of the daemon and of every CLI command, takes what
\* has lain in the staging area for a day.
CleanupTemp(f) ==
    /\ upc[f] = "done" /\ disk[f] # "none"
    /\ disk' = [disk EXCEPT ![f] = "none"]
    /\ UNCHANGED <<upc, tokens, ingested, abandoned, ledger, jobs, nextId, runVars, unrecorded, faults, restarts>>

(****************************************************************************)
(* POST /v1/ingest and push_job.                                            *)
(****************************************************************************)
\* Mutant: the tokens stay redeemable.
TakeKeeps(r, S) ==
    /\ rpc[r] = "new" /\ S # {} /\ S \subseteq tokens
    /\ rpc' = [rpc EXCEPT ![r] = "insert"] /\ owned' = [owned EXCEPT ![r] = S]
    /\ UNCHANGED <<uploadVars, ledger, jobs, nextId, rid, read, spent, outcome, unrecorded, faults, restarts>>

\* take: all tokens or none, under the lock. A request with an unknown token or
\* with none is refused and spends nothing.
Take(r, S) ==
    /\ rpc[r] = "new" /\ S # {} /\ S \subseteq tokens
    /\ tokens' = tokens \ S
    /\ rpc' = [rpc EXCEPT ![r] = "insert"] /\ owned' = [owned EXCEPT ![r] = S]
    /\ UNCHANGED <<disk, upc, ingested, abandoned, ledger, jobs, nextId, rid, read, spent, outcome,
                   unrecorded, faults, restarts>>

\* A request that names one token twice passes the check and panics at the
\* second removal: the token is spent and no job owns its file.
TakeTwice(f) ==
    /\ f \in tokens /\ Fault
    /\ tokens' = tokens \ {f} /\ abandoned' = abandoned \cup {f}
    /\ UNCHANGED <<disk, upc, ingested, ledger, jobs, nextId, runVars, unrecorded, restarts>>

\* insert_job: a rowid after the largest in the table, or an error, which is logged.
InsertJob(r) ==
    /\ rpc[r] = "insert" /\ rpc' = [rpc EXCEPT ![r] = "push"]
    /\ LET id == IF ledger = <<>> THEN 1 ELSE Last(ledger).id + 1 IN
       \/ /\ ledger' = Append(ledger, [id |-> id, name |-> r, st |-> "running", detail |-> {}])
          /\ rid' = [rid EXCEPT ![r] = id]
          /\ UNCHANGED <<unrecorded, faults>>
       \/ /\ Fault /\ unrecorded' = TRUE
          /\ UNCHANGED <<ledger, rid>>
    /\ UNCHANGED <<uploadVars, jobs, nextId, owned, read, spent, outcome, restarts>>

\* push_job, under the registry's lock: the ledger's id, or the counter's.
PushJob(r) ==
    /\ rpc[r] = "push" /\ rpc' = [rpc EXCEPT ![r] = "baseline"]
    /\ LET id == IF rid[r] # 0 THEN rid[r] ELSE nextId IN
       /\ rid' = [rid EXCEPT ![r] = id]
       /\ nextId' = (IF id > nextId THEN id ELSE nextId) + 1
       /\ jobs' = Append(jobs, [id |-> id, name |-> r, st |-> "running", report |-> {}])
    /\ UNCHANGED <<uploadVars, ledger, owned, read, spent, outcome, unrecorded, faults, restarts>>

(****************************************************************************)
(* run_job.                                                                 *)
(****************************************************************************)
\* with_job: the first entry with the id, if there is one.
Index(id) == SelectInSeq(jobs, LAMBDA j : j.id = id)

WithJob(id, job) == IF Index(id) = 0 THEN jobs ELSE [jobs EXCEPT ![Index(id)] = job]

JobOf(r) == jobs[Index(rid[r])]

\* retain and DELETE: the entries at the places of I, in their order.
Retain(s, I) ==
    [n \in 1 .. Cardinality(I) |-> s[CHOOSE i \in I : Cardinality({k \in I : k <= i}) = n]]

\* Mutant: the oldest entries go, running or not.
PruneRunning(js) ==
    IF Len(js) > KeepFinished THEN SubSeq(js, Len(js) - KeepFinished + 1, Len(js)) ELSE js

\* prune: the oldest finished entries beyond the window go, running ones never.
Prune(js) ==
    LET finished == {i \in DOMAIN js : js[i].st # "running"}
    IN  Retain(js, {i \in DOMAIN js :
            i \in finished => Cardinality({k \in finished : k >= i}) <= KeepFinished})

\* finish and fail: the entry ends and history is pruned; persist comes next.
End(r, st) ==
    /\ jobs' = Prune(WithJob(rid[r], [JobOf(r) EXCEPT !.st = st]))
    /\ rpc' = [rpc EXCEPT ![r] = "persist"] /\ outcome' = [outcome EXCEPT ![r] = st]

Baseline(r) ==
    /\ rpc[r] = "baseline" /\ rpc' = [rpc EXCEPT ![r] = "loop"]
    /\ UNCHANGED <<uploadVars, ledger, jobs, nextId, rid, owned, read, spent, outcome, unrecorded, faults, restarts>>

\* Mutant: the job dies and leaves its staged files.
BaselineFailsLeaves(r) ==
    /\ rpc[r] = "baseline" /\ Fault
    /\ owned' = [owned EXCEPT ![r] = {}]
    /\ End(r, "failed")
    /\ UNCHANGED <<uploadVars, ledger, nextId, rid, read, spent, unrecorded, restarts>>

\* "Dying before the loop still spends the staged copies."
BaselineFails(r) ==
    /\ rpc[r] = "baseline" /\ Fault
    /\ disk' = [f \in Files |-> IF f \in owned[r] THEN "none" ELSE disk[f]]
    /\ owned' = [owned EXCEPT ![r] = {}]
    /\ End(r, "failed")
    /\ UNCHANGED <<upc, tokens, ingested, abandoned, ledger, nextId, rid, read, spent, unrecorded, restarts>>

\* process_upload: a dat is imported, anything else runs the pipeline; a file
\* that is gone is an error of its report.
ProcessUpload(r) ==
    /\ rpc[r] = "loop" /\ spent[r] = {}
    /\ \E f \in owned[r] :
        /\ ingested' = ingested \cup {x \in {<<f, disk[f]>>} : disk[f] # "none"}
        /\ spent' = [spent EXCEPT ![r] = {f}]
    /\ UNCHANGED <<disk, upc, tokens, abandoned, ledger, jobs, nextId, rpc, rid, owned, read, outcome,
                   unrecorded, faults, restarts>>

\* The staged copy is removed, win or lose, and file_done merges the report.
FileDone(r) ==
    /\ spent[r] # {}
    /\ disk' = [f \in Files |-> IF f \in spent[r] THEN "none" ELSE disk[f]]
    /\ owned' = [owned EXCEPT ![r] = @ \ spent[r]]
    /\ read' = [read EXCEPT ![r] = @ \cup spent[r]]
    /\ jobs' = WithJob(rid[r], [JobOf(r) EXCEPT !.report = @ \cup spent[r]])
    /\ spent' = [spent EXCEPT ![r] = {}]
    /\ UNCHANGED <<upc, tokens, ingested, abandoned, ledger, nextId, rpc, rid, outcome, unrecorded, faults, restarts>>

\* relink_all, refresh_rollups and the matched diff; an error fails the job.
Refresh(r) ==
    /\ rpc[r] = "loop" /\ owned[r] = {}
    /\ \/ End(r, "done") /\ UNCHANGED faults
       \/ Fault /\ End(r, "failed")
    /\ UNCHANGED <<uploadVars, ledger, nextId, rid, owned, read, spent, unrecorded, restarts>>

\* prune_jobs: the newest finished rows stay, and every running one.
PruneLedger(rows) ==
    Retain(rows, {i \in DOMAIN rows :
        \/ rows[i].st = "running"
        \/ Cardinality({k \in DOMAIN rows : rows[k].st # "running" /\ rows[k].id >= rows[i].id}) <= LedgerKeep})

\* Mutant: the row of a later job takes the result.
FinalizeAny(id, st, detail) ==
    [i \in DOMAIN ledger |-> IF i = Len(ledger) THEN [ledger[i] EXCEPT !.st = st, !.detail = detail] ELSE ledger[i]]

\* finalize_job: the row of that id if it is running.
Finalize(id, st, detail) ==
    [i \in DOMAIN ledger |-> IF ledger[i].id = id /\ ledger[i].st = "running"
                             THEN [ledger[i] EXCEPT !.st = st, !.detail = detail] ELSE ledger[i]]

\* detail: the entry in memory; once that is pruned, the ledger row, which
\* before it is finalized hydrates as an empty stub.
Detail(id) ==
    IF Index(id) # 0 THEN jobs[Index(id)].report
    ELSE UNION {ledger[i].detail : i \in {k \in DOMAIN ledger : ledger[k].id = id}}

\* persist, best effort: the row is finalized with the frozen detail, then the
\* ledger is pruned.
Persist(r) ==
    /\ rpc[r] = "persist" /\ rpc' = [rpc EXCEPT ![r] = "over"]
    /\ \/ /\ ledger' = PruneLedger(Finalize(rid[r], outcome[r], Detail(rid[r])))
          /\ UNCHANGED <<unrecorded, faults>>
       \/ Fault /\ unrecorded' = TRUE /\ UNCHANGED ledger
    /\ UNCHANGED <<uploadVars, jobs, nextId, rid, owned, read, spent, outcome, restarts>>

(****************************************************************************)
(* Restart.                                                                 *)
(****************************************************************************)
\* hydrate: an interrupted row renders as failed.
Hydrate(row) ==
    [id |-> row.id, name |-> row.name, report |-> row.detail,
     st |-> IF row.st = "done" THEN "done" ELSE "failed"]

\* Mutant: the startup sweep is missing.
InterruptNone == ledger

\* interrupt_running_jobs: what still runs in the ledger died with its process.
Interrupt ==
    [i \in DOMAIN ledger |-> IF ledger[i].st = "running" THEN [ledger[i] EXCEPT !.st = "interrupted"] ELSE ledger[i]]

\* recent_jobs: the newest rows, oldest first.
Recent(rows) == SubSeq(rows, IF Len(rows) > KeepFinished THEN Len(rows) - KeepFinished + 1 ELSE 1, Len(rows))

\* Daemon death and durable(): tokens, threads and requests are gone, their
\* files stay for the sweep; the ledger is closed and hydrated.
Restart ==
    /\ restarts < MaxRestarts /\ restarts' = restarts + 1
    /\ ledger' = Interrupt
    /\ jobs' = [i \in DOMAIN Recent(Interrupt) |-> Hydrate(Recent(Interrupt)[i])]
    /\ nextId' = 1
    /\ abandoned' = {f \in Files : upc[f] # "idle"}
    /\ upc' = [f \in Files |-> IF upc[f] = "idle" THEN "idle" ELSE "done"]
    /\ tokens' = {}
    /\ rpc' = [r \in Runs |-> IF rpc[r] = "new" THEN "new" ELSE "over"]
    /\ outcome' = [r \in Runs |-> IF rpc[r] \in {"new", "over"} THEN outcome[r] ELSE "died"]
    /\ owned' = [r \in Runs |-> {}] /\ spent' = [r \in Runs |-> {}]
    /\ UNCHANGED <<disk, ingested, rid, read, unrecorded, faults>>

JInit ==
    /\ disk = [f \in Files |-> "none"] /\ upc = [f \in Files |-> "idle"]
    /\ tokens = {} /\ ingested = {} /\ abandoned = {}
    /\ ledger = <<>> /\ jobs = <<>> /\ nextId = 1
    /\ rpc = [r \in Runs |-> "new"] /\ rid = [r \in Runs |-> 0]
    /\ owned = [r \in Runs |-> {}] /\ read = [r \in Runs |-> {}] /\ spent = [r \in Runs |-> {}]
    /\ outcome = [r \in Runs |-> "none"]
    /\ unrecorded = FALSE /\ faults = 0 /\ restarts = 0

JNext ==
    \/ \E f \in Files :
        \/ UploadStart(f) \/ UploadBody(f) \/ UploadStage(f) \/ UploadRefuse(f) \/ UploadDropped(f)
        \/ CleanupTemp(f) \/ TakeTwice(f)
    \/ \E r \in Runs :
        \/ \E S \in SUBSET Files : Take(r, S)
        \/ InsertJob(r) \/ PushJob(r) \/ Baseline(r) \/ BaselineFails(r)
        \/ ProcessUpload(r) \/ FileDone(r) \/ Refresh(r) \/ Persist(r)
    \/ Restart

JSpec == JInit /\ [][JNext]_jvars

(****************************************************************************)
(* Properties.                                                              *)
(****************************************************************************)
\* "A truncated body must not become a silently-short ROM": the pipeline is
\* never given part of an upload, whatever aborts, restarts or is swept.
NoShortRom == \A f \in Files : <<f, "part">> \notin ingested

\* A staged file has one owner: its token or one job, never two.
SpentOnce ==
    /\ \A f \in Files, r \in Runs : f \in owned[r] => f \notin tokens
    /\ \A r, s \in Runs : r # s => owned[r] \cap owned[s] = {}

\* What is left in the staging area without an owner comes from a request or a
\* process that died; every other path removes its file.
NoStagingLeak ==
    \A f \in Files : upc[f] = "done" /\ disk[f] # "none" =>
        f \in tokens \cup abandoned \cup UNION {owned[r] : r \in Runs}

\* While every ledger write succeeds, the tray shows a job as running exactly
\* as long as its thread runs, though history is pruned around it.
TrayHonest ==
    ~unrecorded =>
        /\ \A r \in Runs : rpc[r] \in {"baseline", "loop"} =>
              \E i \in DOMAIN jobs : jobs[i].name = r /\ jobs[i].st = "running"
        /\ \A i \in DOMAIN jobs : jobs[i].st = "running" => rpc[jobs[i].name] \in {"baseline", "loop"}

\* While every ledger write succeeds, a closed row tells its own job's outcome,
\* an open one has a job behind it, and a job that died is never called done.
LedgerHonest ==
    ~unrecorded => \A i \in DOMAIN ledger :
        LET row == ledger[i] IN
        /\ row.st \in {"done", "failed"} => outcome[row.name] = row.st
        /\ row.st = "running" => rpc[row.name] \notin {"new", "over"}
        /\ row.st = "interrupted" <=> outcome[row.name] = "died"

\* "Finalize the ledger row with the frozen wire detail": a row closed as done
\* carries the report of every file its job processed.
ReportIsFrozen ==
    \A i \in DOMAIN ledger : ledger[i].st = "done" => ledger[i].detail = read[ledger[i].name]
=============================================================================
