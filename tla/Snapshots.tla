----------------------------- MODULE Snapshots -----------------------------
(* State snapshots and their recovery (datboi-catalog statesnap.rs,        *)
(* datboi-index state.rs, `datboi recover` in datboi cmds.rs).             *)
(*                                                                         *)
(* The authoritative state is the dat sources (cache database) and the     *)
(* operator's intent: tags and config (state database).  Both are version  *)
(* numbers here; the two reads that make up `authoritative_triple` are two *)
(* steps, so a snapshot may mix two states.  The daemon's maintenance      *)
(* cycle mints when the newest logged snapshot differs; `datboi snapshot`  *)
(* and the API mint on demand, on another connection and concurrently.     *)
(* Snapshot objects live in the blob store and survive a loss of the       *)
(* databases; the log does not.                                            *)
EXTENDS Naturals, Sequences, FiniteSets

CONSTANTS MaxChanges,   \* changes of sources or intent
          MaxDemands,   \* on-demand mints
          MaxFaults,    \* deaths and I/O errors in the middle of a step
          MaxLosses     \* losses of the databases, or runs of recover over them

Minters == {"daemon", "cli"}

(* live:   the authoritative state in the databases                        *)
(* file:   identity.key: its content, and the key it holds                 *)
(* objs:   the signed snapshot objects in the meta namespace               *)
(* log:    the snapshot_log table: seq -> object                           *)
(* minter: each minter's place, key, reads, sequence and object            *)
(* good:   the mints that answered Ok, in order (history)                  *)
(* recov:  the recovery's place and the snapshot it selected               *)
(* fresh:  the databases are incomplete: a recovery is owed                *)
(* used:   how much of each bound is spent                                 *)
VARIABLES live, file, objs, log, minter, good, recov, fresh, used

snapvars == <<live, file, objs, log, minter, good, recov, fresh, used>>

NoSnap == [seq |-> 0, src |-> 0, intent |-> 0, key |-> 0, n |-> 0]

Down == [at |-> "down", key |-> 0, src |-> 0, intent |-> 0, seq |-> 0, obj |-> NoSnap]

SnInit ==
  /\ live = [src |-> 0, intent |-> 0]
  /\ file = [is |-> "none", key |-> 0]
  /\ objs = {} /\ log = {} /\ good = <<>>
  /\ minter = [m \in Minters |-> Down]
  /\ recov = [at |-> "idle", snap |-> NoSnap]
  /\ fresh = FALSE
  /\ used = [changes |-> 0, demands |-> 0, faults |-> 0, losses |-> 0, keys |-> 0, mints |-> 0]

Spend(what) == used' = [used EXCEPT ![what] = @ + 1]

Goto(m, place) == minter' = [minter EXCEPT ![m].at = place]

\* The row `SELECT ... ORDER BY seq DESC LIMIT 1` returns.
Latest == CHOOSE row \in log : \A other \in log : other.seq <= row.seq

NextSeq == IF log = {} THEN 1 ELSE Latest.seq + 1

-----------------------------------------------------------------------------
\* A dat import moves a source; set_tag, delete_tag or config_set moves intent.
Change ==
  /\ ~fresh /\ used.changes < MaxChanges
  /\ \E part \in {"src", "intent"} : live' = [live EXCEPT ![part] = used.changes + 1]
  /\ Spend("changes")
  /\ UNCHANGED <<file, objs, log, minter, good, recov, fresh>>

\* load_or_create_identity, first half: read the file.  The daemon loads once,
\* when it starts; an on-demand mint loads every time.
LoadIdentity(m) ==
  /\ minter[m].at = "down" /\ ~fresh
  /\ \/ m = "daemon" /\ UNCHANGED used
     \/ m = "cli" /\ used.demands < MaxDemands /\ Spend("demands")
  /\ minter' = [minter EXCEPT ![m] =
       IF file.is = "whole"
       THEN [Down EXCEPT !.at = IF m = "daemon" THEN "idle" ELSE "sources", !.key = file.key]
       ELSE IF file.is = "none" THEN [Down EXCEPT !.at = "create"] ELSE Down]
  /\ UNCHANGED <<live, file, objs, log, good, recov, fresh>>

\* open(create_new): refused when somebody else made the file meanwhile.
CreateIdentity(m) ==
  /\ minter[m].at = "create"
  /\ IF file.is = "none"
     THEN file' = [file EXCEPT !.is = "torn"] /\ Goto(m, "seed")
     ELSE UNCHANGED file /\ Goto(m, "down")
  /\ UNCHANGED <<live, objs, log, good, recov, fresh, used>>

\* write_all of the seed and sync_all.
SeedIdentity(m) ==
  /\ minter[m].at = "seed"
  /\ file' = [is |-> "whole", key |-> used.keys + 1]
  /\ Spend("keys")
  /\ minter' = [minter EXCEPT ![m].at = IF m = "daemon" THEN "idle" ELSE "sources",
                              ![m].key = used.keys + 1]
  /\ UNCHANGED <<live, objs, log, good, recov, fresh>>

-----------------------------------------------------------------------------
\* authoritative_dirty, the log: nothing logged, or another key's object, is dirty.
CheckLatest ==
  /\ minter["daemon"].at = "idle" /\ ~fresh
  /\ IF log = {} \/ (log # {} /\ Latest.obj.key # minter["daemon"].key)
     THEN Goto("daemon", "sources")
     ELSE minter' = [minter EXCEPT !["daemon"].at = "check", !["daemon"].obj = Latest.obj]
  /\ UNCHANGED <<live, file, objs, log, good, recov, fresh, used>>

\* authoritative_dirty, the first read of the triple.
CheckSources ==
  /\ minter["daemon"].at = "check"
  /\ minter' = [minter EXCEPT !["daemon"].at = "check2", !["daemon"].src = live.src]
  /\ UNCHANGED <<live, file, objs, log, good, recov, fresh, used>>

\* Mutant: dirtiness compares the dat sources only.
CheckIntentSourcesOnly ==
  /\ minter["daemon"].at = "check2"
  /\ LET d == minter["daemon"] IN Goto("daemon", IF d.src # d.obj.src THEN "sources" ELSE "idle")
  /\ UNCHANGED <<live, file, objs, log, good, recov, fresh, used>>

\* authoritative_dirty, the other reads and the comparison.
CheckIntent ==
  /\ minter["daemon"].at = "check2"
  /\ LET d == minter["daemon"]
     IN  Goto("daemon", IF d.src # d.obj.src \/ live.intent # d.obj.intent
                        THEN "sources" ELSE "idle")
  /\ UNCHANGED <<live, file, objs, log, good, recov, fresh, used>>

\* authoritative_triple of the mint: list_current_sources.
ReadSources(m) ==
  /\ minter[m].at = "sources"
  /\ minter' = [minter EXCEPT ![m].at = "intent", ![m].src = live.src]
  /\ UNCHANGED <<live, file, objs, log, good, recov, fresh, used>>

\* authoritative_triple of the mint: list_tags and config_list_prefix.
ReadIntent(m) ==
  /\ minter[m].at = "intent"
  /\ minter' = [minter EXCEPT ![m].at = "number", ![m].intent = live.intent]
  /\ UNCHANGED <<live, file, objs, log, good, recov, fresh, used>>

\* The alias and analysis batches, then next_snapshot_seq.
Number(m) ==
  /\ minter[m].at = "number"
  /\ minter' = [minter EXCEPT ![m].at = "put", ![m].seq = NextSeq]
  /\ UNCHANGED <<live, file, objs, log, good, recov, fresh, used>>

\* Sign, put_new in the meta namespace, and the object's blob row.
PutSnapshot(m) ==
  /\ minter[m].at = "put"
  /\ LET me  == minter[m]
         obj == [seq |-> me.seq, src |-> me.src, intent |-> me.intent, key |-> me.key,
                 n |-> used.mints + 1]
     IN  /\ objs' = objs \cup {obj}
         /\ minter' = [minter EXCEPT ![m].at = "log", ![m].obj = obj]
  /\ Spend("mints")
  /\ UNCHANGED <<live, file, log, good, recov, fresh>>

\* Mutant: the mint answers Ok without looking at the number the log gave.
AppendLogUnchecked(m) ==
  /\ minter[m].at = "log"
  /\ log' = log \cup {[seq |-> NextSeq, obj |-> minter[m].obj]}
  /\ good' = Append(good, minter[m].obj)
  /\ minter' = [minter EXCEPT ![m] =
       IF m = "daemon" THEN [Down EXCEPT !.at = "idle", !.key = minter[m].key] ELSE Down]
  /\ UNCHANGED <<live, file, objs, recov, fresh, used>>

\* snapshot_log_append; the mint answers Ok only when the log gave the number the
\* object was signed with, but the row stays either way.
AppendLog(m) ==
  /\ minter[m].at = "log"
  /\ log' = log \cup {[seq |-> NextSeq, obj |-> minter[m].obj]}
  /\ good' = IF NextSeq = minter[m].seq THEN Append(good, minter[m].obj) ELSE good
  /\ minter' = [minter EXCEPT ![m] =
       IF m = "daemon" THEN [Down EXCEPT !.at = "idle", !.key = minter[m].key] ELSE Down]
  /\ UNCHANGED <<live, file, objs, recov, fresh, used>>

\* The process dies, or the step's I/O fails and the mint returns its error (the
\* daemon then waits for its next cycle).
Fail(m) ==
  /\ minter[m].at \notin {"down"} /\ used.faults < MaxFaults
  /\ \/ minter' = [minter EXCEPT ![m] = Down]
     \/ /\ m = "daemon" /\ minter[m].at \notin {"idle", "create", "seed"}
        /\ Goto(m, "idle")
  /\ Spend("faults")
  /\ UNCHANGED <<live, file, objs, log, good, recov, fresh>>

-----------------------------------------------------------------------------
\* The operator stops the daemon between two cycles; nothing else runs.
Stop ==
  /\ minter["daemon"].at \in {"down", "idle"} /\ minter["cli"].at = "down"
  /\ minter' = [m \in Minters |-> Down]

\* The databases are lost, with or without the identity file beside them; the
\* daemon has been stopped, and a recovery is owed before anything is served.
Lose ==
  /\ Stop /\ recov.at = "idle" /\ ~fresh /\ used.losses < MaxLosses
  /\ live' = [src |-> 0, intent |-> 0] /\ log' = {}
  /\ file' \in {file, [is |-> "none", key |-> 0]}
  /\ fresh' = TRUE
  /\ Spend("losses")
  /\ UNCHANGED <<objs, good, recov>>

\* The candidates of a recovery: the objects that verify under the local key.
Ours == {o \in objs : o.key = file.key}

\* recover: truncate the cache, walk meta/ and data/, and select the verifying
\* snapshot of the highest sequence; between equal ones the walk's order decides.
RecoverSelect ==
  /\ Stop /\ recov.at = "idle" /\ file.is # "torn"
  /\ \/ fresh /\ UNCHANGED used
     \/ ~fresh /\ used.losses < MaxLosses /\ Spend("losses")
  /\ live' = [live EXCEPT !.src = 0]
  /\ IF file.is = "none" \/ Ours = {}
     THEN fresh' = FALSE /\ UNCHANGED recov
     ELSE /\ fresh' = TRUE
          /\ \E snap \in Ours :
               /\ \A other \in Ours : other.seq <= snap.seq
               /\ recov' = [at |-> "dats", snap |-> snap]
  /\ UNCHANGED <<file, objs, log, good>>

\* Aliases come back from the batches and the dats are imported again; a dat whose
\* blob is no longer in the store is skipped with a warning.
RecoverDats ==
  /\ recov.at = "dats"
  /\ live' \in {live, [live EXCEPT !.src = recov.snap.src]}
  /\ recov' = [recov EXCEPT !.at = "intent"]
  /\ UNCHANGED <<file, objs, log, minter, good, fresh, used>>

\* config_set and set_tag for every pair of the snapshot.
RecoverIntent ==
  /\ recov.at = "intent"
  /\ live' = [live EXCEPT !.intent = recov.snap.intent]
  /\ recov' = [recov EXCEPT !.at = "log"]
  /\ UNCHANGED <<file, objs, log, minter, good, fresh, used>>

\* Mutant: the recovery ends without seeding the log again.
RecoverLogSkipped ==
  /\ recov.at = "log"
  /\ recov' = [recov EXCEPT !.at = "idle"] /\ fresh' = FALSE
  /\ UNCHANGED <<live, file, objs, log, minter, good, used>>

\* snapshot_log_restore: INSERT OR REPLACE under the snapshot's own sequence.
RecoverLog ==
  /\ recov.at = "log"
  /\ log' = {row \in log : row.seq # recov.snap.seq}
              \cup {[seq |-> recov.snap.seq, obj |-> recov.snap]}
  /\ recov' = [recov EXCEPT !.at = "idle"] /\ fresh' = FALSE
  /\ UNCHANGED <<live, file, objs, minter, good, used>>

\* The recovery dies; it is run again from the start.
RecoverDies ==
  /\ recov.at # "idle" /\ used.faults < MaxFaults
  /\ recov' = [recov EXCEPT !.at = "idle"]
  /\ Spend("faults")
  /\ UNCHANGED <<live, file, objs, log, minter, good, fresh>>

-----------------------------------------------------------------------------
MintStep(m) ==
  \/ CreateIdentity(m) \/ SeedIdentity(m) \/ ReadSources(m) \/ ReadIntent(m)
  \/ Number(m) \/ PutSnapshot(m) \/ AppendLog(m)

Daemon == LoadIdentity("daemon") \/ CheckLatest \/ CheckSources \/ CheckIntent \/ MintStep("daemon")

RecoverStep == RecoverDats \/ RecoverIntent \/ RecoverLog

SnNext ==
  \/ Change
  \/ Daemon
  \/ LoadIdentity("cli")
  \/ MintStep("cli")
  \/ \E m \in Minters : Fail(m)
  \/ Lose
  \/ RecoverSelect
  \/ RecoverStep
  \/ RecoverDies

\* The daemon's worker runs its cycle for ever and is restarted when it dies; a
\* command that was started runs to its end.
SnFairness == WF_snapvars(Daemon) /\ WF_snapvars(MintStep("cli")) /\ WF_snapvars(RecoverStep)

SnapSpec == SnInit /\ [][SnNext]_snapvars

FairSnapSpec == SnapSpec /\ SnFairness

-----------------------------------------------------------------------------
(* The sequences that mints of one identity answered with ascend strictly, *)
(* across deaths, concurrent mints and the loss and recovery of the        *)
(* databases: "sequence monotonicity is authoritative state and must       *)
(* survive a DB nuke" (snapshot_log_restore, state.rs).                    *)
MintsAscend ==
  \A i, j \in DOMAIN good : i < j /\ good[i].key = good[j].key => good[i].seq < good[j].seq

(* The daemon's cadence: again and again the newest logged snapshot holds  *)
(* the authoritative state of the databases, unless the identity file was  *)
(* left half-written or a recovery is owed (maybe_mint, statesnap.rs).     *)
SnapshotCatchesUp ==
  []<>(\/ log # {} /\ Latest.obj.src = live.src /\ Latest.obj.intent = live.intent
       \/ file.is = "torn" \/ fresh)

(* A recovery never restores an older state than the last successful mint  *)
(* under its key holds (recover, cmds.rs: the snapshot of the highest      *)
(* sequence that verifies).                                                *)
RecoversNewest ==
  recov.at = "dats" =>
    \A i \in DOMAIN good :
      (i = Len(good) /\ good[i].key = recov.snap.key) =>
        \/ recov.snap.n >= good[i].n
        \/ recov.snap.src = good[i].src /\ recov.snap.intent = good[i].intent
=============================================================================
