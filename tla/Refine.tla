------------------------------- MODULE Refine -------------------------------
(***************************************************************************)
(* The refinement sweep: the leased queue of (blob, analyzer family) rows  *)
(* in cache.db, and the threads that fill and drain it.  The daemon runs   *)
(* one prime worker and a fleet of drones (D71, D93); CLI and /v1/sweep    *)
(* sweeps run beside them; ingest feeds the prime's inbox.                 *)
(*                                                                         *)
(* Every transaction on the queue is one step.  Time is left out: a lease  *)
(* runs out when it may, the ambient clock and a drone's poll ring when    *)
(* they may.  Priorities only order the claims, which are taken in any     *)
(* order here.  A conclusion is the same whichever its outcome: Negative,  *)
(* Positive, or a panic settled as Negative.  The fleet has a fixed size,  *)
(* and a drone's round limit (8) is above the blobs of an instance.        *)
(***************************************************************************)
EXTENDS Naturals, Sequences, FiniteSets

CONSTANTS
    Blob,
    Roster,       \* sweep_roster: the analyzer families, structural first
    Fallback,     \* families of class Fallback (chunk); resident blobs only
    Enabled,      \* families the operator has not disabled (D60)
    Cand,         \* Cand[f]: blobs that meet the size and extent clauses
    Needs,        \* Needs[f][b]: the blob an analysis waits for, or None
    Rebuildable,  \* blobs that have a licensed route from the start
    Source,       \* blobs that arrive by ingest
    Held,         \* blobs resident from the start
    Prime,        \* the prime worker
    Drone,        \* the drone threads
    Cli,          \* sweeps of one family: datboi sweep, /v1/sweep
    None,
    MaxFault,     \* bound: errors, leases lost by live holders, deaths
    MaxEvict      \* bound: evictions

Family == {Roster[i] : i \in 1..Len(Roster)}
Worker == {Prime} \cup Drone \cup Cli

ASSUME RefineAssumption ==
    /\ Roster \in Seq(Family) /\ Roster # << >>
    /\ Fallback \subseteq Family
    /\ \A i, j \in 1..Len(Roster) :
         /\ Roster[i] = Roster[j] => i = j
         /\ Roster[i] \in Fallback /\ i < j => Roster[j] \in Fallback
    /\ Enabled \subseteq Family
    /\ Cand \in [Family -> SUBSET Blob]
    /\ Needs \in [Family -> [Blob -> Blob \cup {None}]]
    /\ Rebuildable \subseteq Blob /\ Source \subseteq Blob /\ Held \subseteq Blob
    /\ Prime \notin Drone \cup Cli /\ Drone \cap Cli = {}
    /\ None \notin Blob
    /\ {MaxFault, MaxEvict} \subseteq Nat

VARIABLES
    resident,   \* blob rows with residency Resident
    evicted,    \* blob rows with residency EvictedCovered
    routes,     \* blobs that a licensed, unpoisoned route rebuilds
    eligible,   \* sweep_absent_eligible: the D92 admission table
    queue,      \* queue[f][b]: no row, a claimable row, or a leased one
    analysis,   \* analysis[f]: blobs f has concluded on
    deferred,   \* sweep_deferred: the blob an item waits on, or None
    pend,       \* ingested blobs the refiner has not been told of
    fresh,      \* PrimeInbox.fresh
    due,        \* PrimeInbox.maintenance_due
    active,     \* the drones in a burst; active_drones is their number
    pc,         \* what each worker does next
    at,         \* the worker's place in the roster
    item,       \* the blob it analyzes
    verdict,    \* what the analysis came to
    taken,      \* fresh ids the prime took from its inbox
    scan,       \* the prime's pass is an ambient one
    prog,       \* the drone's walk over the roster analyzed something
    did,        \* its burst did
    faults,     \* history: faults so far
    evicts,     \* history: evictions so far
    lost        \* history: some live holder has lost its lease

blobs == <<resident, evicted, routes>>
sweep == <<eligible, queue, analysis, deferred>>
inbox == <<pend, fresh, due>>
work == <<item, verdict>>
prime == <<taken, scan>>
drones == <<active, prog, did>>
counts == <<faults, evicts, lost>>
vars == <<blobs, sweep, inbox, pc, at, work, prime, drones, counts>>

Init ==
    /\ resident = Held
    /\ evicted = {}
    /\ routes = Rebuildable
    /\ eligible = {}
    /\ queue = [f \in Family |-> [b \in Blob |-> "none"]]
    /\ analysis = [f \in Family |-> {}]
    /\ deferred = [f \in Family |-> [b \in Blob |-> None]]
    /\ pend = {} /\ fresh = {} /\ due = FALSE
    /\ active = {}
    /\ pc = [w \in Worker |-> "wait"]
    /\ at = [w \in Worker |-> 1]
    /\ item = [w \in Worker |-> None]
    /\ verdict = [w \in Worker |-> "none"]
    /\ taken = {} /\ scan = FALSE
    /\ prog = [d \in Drone |-> FALSE]
    /\ did = [d \in Drone |-> FALSE]
    /\ faults = 0 /\ evicts = 0 /\ lost = FALSE

-----------------------------------------------------------------------------
(* The queue's transactions.                                               *)

CandidateAnyBlob(f, b) ==
    /\ b \in resident \cup evicted
    /\ f \in Fallback => b \in resident

\* Candidacy::sql.
Candidate(f, b) ==
    /\ b \in (resident \cup evicted) \cap Cand[f]
    /\ f \in Fallback => b \in resident

\* A deferred item is re-admitted once the blob it waits on is resident.
Waiting(f, b) == deferred[f][b] # None /\ deferred[f][b] \notin resident

WithFreshSettled(rows, f, bs) ==
    [b \in Blob |->
        IF b \in bs /\ rows[b] = "none" /\ Candidate(f, b)
        THEN "free" ELSE rows[b]]

\* Db::enqueue_fresh: the rows of family f afterwards.
WithFresh(rows, f, bs) ==
    [b \in Blob |->
        IF /\ b \in bs /\ rows[b] = "none"
           /\ Candidate(f, b) /\ b \notin analysis[f]
        THEN "free" ELSE rows[b]]

WithCandidatesNeverDeferred(rows, f) ==
    [b \in Blob |->
        IF rows[b] = "free" /\ ~ Candidate(f, b) THEN "none"
        ELSE IF /\ rows[b] = "none" /\ Candidate(f, b)
                /\ b \notin analysis[f] /\ deferred[f][b] = None
        THEN "free" ELSE rows[b]]

\* Db::enqueue_unanalyzed: prune, then insert.  The two statements touch
\* different rows: a row is pruned when its blob is no candidate, inserted
\* when it is one.
WithCandidates(rows, f) ==
    [b \in Blob |->
        IF rows[b] = "free" /\ ~ Candidate(f, b) THEN "none"
        ELSE IF /\ rows[b] = "none" /\ Candidate(f, b)
                /\ b \notin analysis[f] /\ ~ Waiting(f, b)
        THEN "free" ELSE rows[b]]

\* Db::refresh_absent_eligibility.
Admission == evicted \cap routes

\* sweep_queue_len(f) > 0
HasRows(f) == \E b \in Blob : queue[f][b] # "none"

\* process_round: the enabled families of a lower class.
BlockedBy(f) == IF f \in Fallback THEN Enabled \ Fallback ELSE {}

\* What claim_sweep_items may hand out to f.
Claimable(f, b) ==
    /\ f \in Enabled
    /\ queue[f][b] = "free"
    /\ b \in resident \cup eligible
    /\ \A g \in BlockedBy(f) : queue[g][b] = "none"

\* w is in the middle of analyzing b for f.
Analyzes(w, f, b) ==
    /\ pc[w] \in {"analyze", "record"}
    /\ item[w] = b
    /\ Roster[at[w]] = f

-----------------------------------------------------------------------------
(* Ingest, eviction, materialization.                                      *)

\* An ingest job stores a blob and writes its row ...
Arrive(b) ==
    /\ b \in Source \ resident
    /\ resident' = resident \cup {b}
    /\ evicted' = evicted \ {b}
    /\ pend' = pend \cup {b}
    /\ UNCHANGED <<routes, sweep, fresh, due, pc, at, work, prime, drones,
                   counts>>

\* ... and tells the refiner when it is done (notify_fresh) ...
Notify ==
    /\ pend # {}
    /\ fresh' = fresh \cup pend
    /\ pend' = {}
    /\ UNCHANGED <<blobs, sweep, due, pc, at, work, prime, drones, counts>>

\* ... unless the catalog refresh before it fails.
NotifyLost ==
    /\ pend # {}
    /\ faults < MaxFault
    /\ pend' = {}
    /\ faults' = faults + 1
    /\ UNCHANGED <<blobs, sweep, fresh, due, pc, at, work, prime, drones, evicts,
                   lost>>

\* The eviction and the materialization of a blob are the subject of
\* Residency; here they only move its row.
Evict(b) ==
    /\ b \in resident \cap routes
    /\ evicts < MaxEvict
    /\ resident' = resident \ {b}
    /\ evicted' = evicted \cup {b}
    /\ evicts' = evicts + 1
    /\ UNCHANGED <<routes, sweep, inbox, pc, at, work, prime, drones, faults,
                   lost>>

Materialize(b) ==
    /\ b \in evicted \cap routes
    /\ resident' = resident \cup {b}
    /\ evicted' = evicted \ {b}
    /\ UNCHANGED <<routes, sweep, inbox, pc, at, work, prime, drones, counts>>

-----------------------------------------------------------------------------
(* The prime worker.                                                       *)

Move(w, s, i) ==
    /\ pc' = [pc EXCEPT ![w] = s]
    /\ at' = [at EXCEPT ![w] = i]

\* The wait: the inbox is checked, slept on and emptied under its lock.
PrimeWake(ambient) ==
    /\ pc[Prime] = "wait"
    /\ fresh # {} \/ due \/ ambient
    /\ taken' = fresh
    /\ scan' = ambient
    /\ fresh' = {}
    /\ due' = FALSE
    /\ Move(Prime, "enqueue", 1)
    /\ UNCHANGED <<blobs, sweep, pend, work, drones, counts>>

\* enqueue, one family: the fresh ids, and on an ambient pass the corpus.
PrimeEnqueue ==
    /\ pc[Prime] = "enqueue"
    /\ at[Prime] <= Len(Roster)
    /\ LET f == Roster[at[Prime]]
           rows == WithFresh(queue[f], f, taken)
       IN  queue' = IF f \notin Enabled THEN queue
                    ELSE [queue EXCEPT ![f] =
                             IF scan THEN WithCandidates(rows, f) ELSE rows]
    /\ Move(Prime, "enqueue", at[Prime] + 1)
    /\ UNCHANGED <<blobs, eligible, analysis, deferred, inbox, work, prime,
                   drones, counts>>

\* The tail of enqueue, resize_drones and the drones' wake: the admission
\* table, and a new thread for every drone that died.
PrimeEnqueued ==
    /\ pc[Prime] = "enqueue"
    /\ at[Prime] > Len(Roster)
    /\ eligible' = IF scan THEN Admission ELSE eligible
    /\ pc' = [w \in Worker |->
                 IF w = Prime THEN "drain"
                 ELSE IF w \in Drone /\ pc[w] = "dead" THEN "wait" ELSE pc[w]]
    /\ at' = [at EXCEPT ![Prime] = 1]
    /\ taken' = {} /\ scan' = FALSE
    /\ UNCHANGED <<blobs, queue, analysis, deferred, inbox, work, drones, counts>>

\* A database error in enqueue: the pass is given up with the ids it took.
PrimeEnqueueFails ==
    /\ pc[Prime] = "enqueue"
    /\ faults < MaxFault
    /\ faults' = faults + 1
    /\ taken' = {} /\ scan' = FALSE
    /\ Move(Prime, "wait", 1)
    /\ UNCHANGED <<blobs, sweep, inbox, work, drones, evicts, lost>>

\* drain_family: a disabled family or an empty queue is passed over.
DrainStart ==
    /\ pc[Prime] = "drain"
    /\ IF at[Prime] > Len(Roster) THEN Move(Prime, "maintain", 1)
       ELSE LET f == Roster[at[Prime]]
            IN  IF f \in Enabled /\ HasRows(f)
                THEN Move(Prime, "refill", at[Prime])
                ELSE Move(Prime, "drain", at[Prime] + 1)
    /\ UNCHANGED <<blobs, sweep, inbox, work, prime, drones, counts>>

\* Ids that arrive during the drain enter the queue of this family.
Refill ==
    /\ pc[Prime] = "refill"
    /\ LET f == Roster[at[Prime]]
       IN  queue' = [queue EXCEPT ![f] = WithFresh(@, f, fresh)]
    /\ fresh' = {}
    /\ Move(Prime, "claim", at[Prime])
    /\ UNCHANGED <<blobs, eligible, analysis, deferred, pend, due, work, prime,
                   drones, counts>>

\* On an error they go back to the inbox.
RefillFails ==
    /\ pc[Prime] = "refill"
    /\ fresh # {}
    /\ faults < MaxFault
    /\ faults' = faults + 1
    /\ Move(Prime, "claim", at[Prime])
    /\ UNCHANGED <<blobs, sweep, inbox, work, prime, drones, evicts, lost>>

\* A round that neither analyzed an item nor failed one: the drain is over
\* once the queue is empty or no drone is in a burst.
DrainCheck ==
    /\ pc[Prime] = "check"
    /\ IF ~ HasRows(Roster[at[Prime]]) \/ active = {}
       THEN Move(Prime, "drain", at[Prime] + 1)
       ELSE Move(Prime, "refill", at[Prime])
    /\ UNCHANGED <<blobs, sweep, inbox, work, prime, drones, counts>>

\* Maintainer::cycle, whose phases are the subject of Residency.
Maintain ==
    /\ pc[Prime] = "maintain"
    /\ Move(Prime, "wait", 1)
    /\ UNCHANGED <<blobs, sweep, inbox, work, prime, drones, counts>>

-----------------------------------------------------------------------------
(* process_round, for any worker.                                          *)

\* Where a worker goes when its round over a family is at an end.
Leave(w) ==
    CASE w = Prime -> Move(w, "check", at[w])
      [] w \in Drone -> Move(w, "next", at[w])
      [] w \in Cli -> Move(w, "wait", 1)

ClaimUnleased(w) ==
    /\ pc[w] = "claim"
    /\ LET f == Roster[at[w]]
       IN  \/ \E b \in Blob :
                /\ Claimable(f, b)
                /\ item' = [item EXCEPT ![w] = b]
                /\ Move(w, "analyze", at[w])
           \/ /\ \A b \in Blob : ~ Claimable(f, b)
              /\ Leave(w)
              /\ UNCHANGED item
    /\ UNCHANGED <<blobs, sweep, inbox, verdict, prime, drones, counts>>

\* claim_sweep_items with limit 1: one row, leased in the same transaction.
Claim(w) ==
    /\ pc[w] = "claim"
    /\ LET f == Roster[at[w]]
       IN  \/ \E b \in Blob :
                /\ Claimable(f, b)
                /\ queue' = [queue EXCEPT ![f][b] = "leased"]
                /\ item' = [item EXCEPT ![w] = b]
                /\ Move(w, "analyze", at[w])
           \/ /\ \A b \in Blob : ~ Claimable(f, b)
              /\ Leave(w)
              /\ UNCHANGED <<queue, item>>
    /\ UNCHANGED <<blobs, eligible, analysis, deferred, inbox, verdict, prime,
                   drones, counts>>

\* Analyzer::analyze over Logical::open.  A fallback family concludes on a
\* blob that is no resident literal; any other reads an absent one through
\* a route, which may disprove itself and is then poisoned.
Analyze(w) ==
    /\ pc[w] = "analyze"
    /\ LET b == item[w]
           f == Roster[at[w]]
           declined == f \in Fallback /\ b \notin resident
           readable == declined \/ b \in resident \cup routes
           lacks == ~ declined /\ Needs[f][b] \notin resident \cup {None}
       IN  \/ /\ verdict' = [verdict EXCEPT ![w] =
                               IF ~ readable THEN "error"
                               ELSE IF lacks THEN "wait" ELSE "conclude"]
              /\ UNCHANGED <<routes, faults>>
           \/ /\ readable /\ ~ declined
              /\ faults < MaxFault
              /\ faults' = faults + 1
              /\ verdict' = [verdict EXCEPT ![w] = "error"]
              /\ UNCHANGED routes
           \/ /\ readable /\ ~ declined /\ b \notin resident
              /\ faults < MaxFault
              /\ faults' = faults + 1
              /\ verdict' = [verdict EXCEPT ![w] = "unobtainable"]
              /\ routes' = routes \ {b}
    /\ Move(w, "record", at[w])
    /\ UNCHANGED <<resident, evicted, sweep, inbox, item, prime, drones, evicts,
                   lost>>

\* The worker is done with its item.
Release(w) ==
    /\ item' = [item EXCEPT ![w] = None]
    /\ verdict' = [verdict EXCEPT ![w] = "none"]

\* complete_sweep_item, defer_sweep_item, or nothing: an item that failed
\* keeps its row and its lease.  The prime's round is one item long, and a
\* deferred item counts for nothing in it.
Record(w) ==
    /\ pc[w] = "record"
    /\ LET f == Roster[at[w]]
           b == item[w]
           v == verdict[w]
       IN  /\ analysis' = IF v = "conclude"
                          THEN [analysis EXCEPT ![f] = @ \cup {b}] ELSE analysis
           /\ queue' = IF v = "error" THEN queue
                       ELSE [queue EXCEPT ![f][b] = "none"]
           /\ deferred' =
                CASE v = "conclude" -> [deferred EXCEPT ![f][b] = None]
                  [] v = "wait" -> [deferred EXCEPT ![f][b] = Needs[f][b]]
                  [] v = "unobtainable" -> [deferred EXCEPT ![f][b] = b]
                  [] v = "error" -> deferred
           /\ prog' = IF w \in Drone /\ v = "conclude"
                      THEN [prog EXCEPT ![w] = TRUE] ELSE prog
           /\ Move(w, IF w # Prime THEN "claim"
                      ELSE IF v \in {"conclude", "error"} THEN "refill"
                      ELSE "check", at[w])
    /\ Release(w)
    /\ UNCHANGED <<blobs, eligible, inbox, prime, active, did, counts>>

\* A database error ends the round, and a claimed item stays leased.  The
\* prime tries again, or fails its job and takes the next family; a drone
\* goes on to the next family; a CLI sweep ends.
RoundFails(w) ==
    /\ pc[w] \in {"claim", "record"}
    /\ faults < MaxFault
    /\ faults' = faults + 1
    /\ IF w = Prime
       THEN Move(w, "refill", at[w]) \/ Move(w, "drain", at[w] + 1)
       ELSE Leave(w)
    /\ Release(w)
    /\ UNCHANGED <<blobs, sweep, inbox, prime, drones, evicts, lost>>

\* The analyzer's pulse: SweepLeaseKeeper::renew, whoever holds the row.
Renew(w) ==
    /\ pc[w] = "analyze"
    /\ LET f == Roster[at[w]]
       IN  /\ queue[f][item[w]] = "free"
           /\ queue' = [queue EXCEPT ![f][item[w]] = "leased"]
    /\ UNCHANGED <<blobs, eligible, analysis, deferred, inbox, pc, at, work,
                   prime, drones, counts>>

-----------------------------------------------------------------------------
(* Drones and CLI sweeps.                                                  *)

\* The generation moved, or the poll interval is over.
DroneWake(d) ==
    /\ pc[d] = "wait"
    /\ active' = active \cup {d}
    /\ Move(d, "claim", 1)
    /\ UNCHANGED <<blobs, sweep, inbox, work, prime, prog, did, counts>>

\* The next family; after the last, another walk if this one analyzed
\* something.
DroneNext(d) ==
    /\ pc[d] = "next"
    /\ \/ at[d] < Len(Roster) /\ Move(d, "claim", at[d] + 1) /\ UNCHANGED drones
       \/ /\ at[d] = Len(Roster) /\ prog[d]
          /\ Move(d, "claim", 1)
          /\ prog' = [prog EXCEPT ![d] = FALSE]
          /\ did' = [did EXCEPT ![d] = TRUE]
          /\ UNCHANGED active
       \/ at[d] = Len(Roster) /\ ~ prog[d] /\ Move(d, "leave", 1) /\ UNCHANGED drones
    /\ UNCHANGED <<blobs, sweep, inbox, work, prime, counts>>

\* The burst is over; if it did work, the prime is told so.
DroneLeave(d) ==
    /\ pc[d] = "leave"
    /\ active' = active \ {d}
    /\ Move(d, IF did[d] THEN "signal" ELSE "wait", 1)
    /\ UNCHANGED <<blobs, sweep, inbox, work, prime, prog, did, counts>>

DroneSignal(d) ==
    /\ pc[d] = "signal"
    /\ due' = TRUE
    /\ did' = [did EXCEPT ![d] = FALSE]
    /\ Move(d, "wait", 1)
    /\ UNCHANGED <<blobs, sweep, pend, fresh, work, prime, active, prog, counts>>

\* run_sweep, refresh_queue: the candidates of one family ...
CliEnqueue(c, i) ==
    /\ pc[c] = "wait"
    /\ Roster[i] \in Enabled
    /\ queue' = [queue EXCEPT ![Roster[i]] = WithCandidates(@, Roster[i])]
    /\ Move(c, "admit", i)
    /\ UNCHANGED <<blobs, eligible, analysis, deferred, inbox, work, prime,
                   drones, counts>>

\* ... and the admission table; a round over that family follows.
CliAdmit(c) ==
    /\ pc[c] = "admit"
    /\ eligible' = Admission
    /\ Move(c, "claim", at[c])
    /\ UNCHANGED <<blobs, queue, analysis, deferred, inbox, work, prime, drones,
                   counts>>

-----------------------------------------------------------------------------
(* Leases that run out, threads that die.                                  *)

\* The row of a holder that failed or died becomes claimable again.
Expire(f, b) ==
    /\ queue[f][b] = "leased"
    /\ ~ \E w \in Worker : Analyzes(w, f, b)
    /\ queue' = [queue EXCEPT ![f][b] = "free"]
    /\ UNCHANGED <<blobs, eligible, analysis, deferred, inbox, pc, at, work,
                   prime, drones, counts>>

\* A holder that is alive but stopped pulsing loses its lease.
Lapse(f, b) ==
    /\ queue[f][b] = "leased"
    /\ \E w \in Worker : Analyzes(w, f, b)
    /\ faults < MaxFault
    /\ faults' = faults + 1
    /\ lost' = TRUE
    /\ queue' = [queue EXCEPT ![f][b] = "free"]
    /\ UNCHANGED <<blobs, eligible, analysis, deferred, inbox, pc, at, work,
                   prime, drones, evicts>>

DieInBurst(w) ==
    /\ w \in Drone \cup Cli
    /\ pc[w] \notin {"wait", "dead"}
    /\ faults < MaxFault
    /\ faults' = faults + 1
    /\ Move(w, IF w \in Drone THEN "dead" ELSE "wait", 1)
    /\ prog' = [d \in Drone |-> d # w /\ prog[d]]
    /\ did' = [d \in Drone |-> d # w /\ did[d]]
    /\ Release(w)
    /\ UNCHANGED <<blobs, sweep, inbox, prime, active, evicts, lost>>

\* A drone panics outside the per-item guard, or a CLI sweep is killed.
\* Unwinding drops the drone's ActiveDrone.
Die(w) ==
    /\ w \in Drone \cup Cli
    /\ pc[w] \notin {"wait", "dead"}
    /\ faults < MaxFault
    /\ faults' = faults + 1
    /\ Move(w, IF w \in Drone THEN "dead" ELSE "wait", 1)
    /\ active' = active \ {w}
    /\ prog' = [d \in Drone |-> d # w /\ prog[d]]
    /\ did' = [d \in Drone |-> d # w /\ did[d]]
    /\ Release(w)
    /\ UNCHANGED <<blobs, sweep, inbox, prime, evicts, lost>>

\* The daemon restarts: the inbox is gone, and every lease is cleared, a
\* CLI sweep's too.
Restart ==
    LET ofCli(w, was, fresh0) == IF w \in Cli THEN was ELSE fresh0 IN
    /\ faults < MaxFault
    /\ faults' = faults + 1
    /\ lost' = (lost \/ \E c \in Cli : pc[c] \in {"analyze", "record"})
    /\ pc' = [w \in Worker |-> ofCli(w, pc[w], "wait")]
    /\ at' = [w \in Worker |-> ofCli(w, at[w], 1)]
    /\ item' = [w \in Worker |-> ofCli(w, item[w], None)]
    /\ verdict' = [w \in Worker |-> ofCli(w, verdict[w], "none")]
    /\ active' = {}
    /\ pend' = {} /\ fresh' = {} /\ due' = FALSE
    /\ taken' = {} /\ scan' = FALSE
    /\ prog' = [d \in Drone |-> FALSE]
    /\ did' = [d \in Drone |-> FALSE]
    /\ queue' = [f \in Family |-> [b \in Blob |->
                    IF queue[f][b] = "leased" THEN "free" ELSE queue[f][b]]]
    /\ UNCHANGED <<blobs, eligible, analysis, deferred, evicts>>

-----------------------------------------------------------------------------
Round(w) == Claim(w) \/ Analyze(w) \/ Record(w)

PrimeStep ==
    \/ PrimeWake(TRUE) \/ PrimeEnqueue \/ PrimeEnqueued
    \/ DrainStart \/ Refill \/ DrainCheck \/ Maintain \/ Round(Prime)

DroneStep(d) == DroneNext(d) \/ DroneLeave(d) \/ DroneSignal(d) \/ Round(d)

CliStep(c) == CliAdmit(c) \/ Round(c)

Fault ==
    \/ NotifyLost \/ PrimeEnqueueFails \/ RefillFails \/ Restart
    \/ \E w \in Worker : RoundFails(w) \/ Die(w)
    \/ \E f \in Family, b \in Blob : Lapse(f, b)

Next ==
    \/ \E b \in Blob : Arrive(b) \/ Evict(b) \/ Materialize(b)
    \/ Notify
    \/ PrimeStep \/ PrimeWake(FALSE)
    \/ \E d \in Drone : DroneWake(d) \/ DroneStep(d)
    \/ \E c \in Cli : CliStep(c) \/ \E i \in 1..Len(Roster) : CliEnqueue(c, i)
    \/ \E w \in Worker : Renew(w)
    \/ \E f \in Family, b \in Blob : Expire(f, b)
    \/ Fault

Spec == Init /\ [][Next]_vars

\* Threads keep running, the ambient clock keeps ringing, leases run out.
\* A drone sleeps 120 s between two polls and the prime goes round its drain
\* loop every 250 ms, so an idle fleet is a gap the prime does step in: each
\* step of that loop is strongly fair while no drone is in a burst.
FairSpec ==
    /\ Spec
    /\ WF_vars(PrimeStep)
    /\ SF_vars(Refill /\ active = {})
    /\ SF_vars(Claim(Prime) /\ active = {})
    /\ SF_vars(DrainCheck /\ active = {})
    /\ \A d \in Drone : WF_vars(DroneStep(d))
    /\ \A c \in Cli : WF_vars(CliStep(c))
    /\ \A f \in Family, b \in Blob : WF_vars(Expire(f, b))

-----------------------------------------------------------------------------
(* Properties.                                                             *)

\* The types of the variables; a worker in a round has an item its family
\* may analyze, and a worker about to record has a verdict.
TypeOK ==
    /\ resident \in SUBSET Blob
    /\ evicted \in SUBSET (Blob \ resident)
    /\ routes \in SUBSET Blob /\ eligible \in SUBSET Blob
    /\ queue \in [Family -> [Blob -> {"none", "free", "leased"}]]
    /\ analysis \in [Family -> SUBSET Blob]
    /\ deferred \in [Family -> [Blob -> Blob \cup {None}]]
    /\ pend \in SUBSET Blob /\ fresh \in SUBSET Blob /\ taken \in SUBSET Blob
    /\ due \in BOOLEAN /\ scan \in BOOLEAN /\ lost \in BOOLEAN
    /\ active \in SUBSET Drone
    /\ pc \in [Worker -> {"wait", "enqueue", "drain", "refill", "claim",
                          "analyze", "record", "check", "maintain", "next",
                          "leave", "signal", "admit", "dead"}]
    /\ at \in [Worker -> 1..(Len(Roster) + 1)]
    /\ item \in [Worker -> Blob \cup {None}]
    /\ verdict \in [Worker -> {"none", "conclude", "wait", "unobtainable", "error"}]
    /\ prog \in [Drone -> BOOLEAN] /\ did \in [Drone -> BOOLEAN]
    /\ faults \in Nat /\ evicts \in Nat
    /\ \A w \in Worker :
         /\ pc[w] \in {"analyze", "record"} => item[w] \in Cand[Roster[at[w]]]
         /\ pc[w] = "record" => verdict[w] # "none"

\* A settled conclusion is never in the queue (D24, D45): no enqueue path
\* puts it back, and no holder whose lease was taken over, however late it
\* records, renews or fails, leaves a row behind.
SettledStaysSettled ==
    \A f \in Family : \A b \in analysis[f] : queue[f][b] = "none"

\* Unless a live holder lost its lease, no two workers ever analyze a blob
\* for the same family at once (D71).
NoDoubleAnalysis ==
    ~ lost => \A f \in Family, b \in Blob, v, w \in Worker :
                  Analyzes(v, f, b) /\ Analyzes(w, f, b) => v = w

\* active_drones counts exactly the drones in a burst, however their bursts
\* end: the prime waits for a drone only while there is one (D128).
FleetCountHonest ==
    active = {d \in Drone :
                 pc[d] \in {"claim", "analyze", "record", "next", "leave"}}

\* A fallback family works on a blob only after every enabled structural
\* family has concluded on it or let it wait (D59, D108).
FallbackAfterStructural ==
    \A w \in Worker, f \in Fallback, b \in Blob : Analyzes(w, f, b) =>
        \A g \in Enabled \ Fallback :
            b \in Cand[g] => b \in analysis[g] \/ deferred[g][b] # None

\* Every candidate is in the end concluded on by every enabled family,
\* whatever failed, died, lapsed or was lost on the way, unless it waits for
\* a blob that is not there or there is no way left to read it.
EveryBlobConcludes ==
    \A f \in Enabled : \A b \in Cand[f] :
        Candidate(f, b) ~> \/ b \in analysis[f]
                           \/ ~ Candidate(f, b)
                           \/ Waiting(f, b)
                           \/ b \notin resident \cup routes

=============================================================================
