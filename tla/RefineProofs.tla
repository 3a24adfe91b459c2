---------------------------- MODULE RefineProofs ----------------------------
(***************************************************************************)
(* The leased queue of the refinement sweep, for any roster, any number of *)
(* workers, any number of faults and evictions.                            *)
(***************************************************************************)
EXTENDS Refine, TLAPS

\* The strengthening of the types: a queue row is one of a blob its family
\* may analyze, and a worker inside a family's drain or round is at a place
\* of the roster.
InRoster ==
    /\ \A f \in Family, b \in Blob : queue[f][b] # "none" => b \in Cand[f]
    /\ \A w \in Worker :
         pc[w] \in {"refill", "claim", "analyze", "record", "check", "next",
                    "admit"} => at[w] <= Len(Roster)

\* Two parts of TypeOK, proved apart from the rest.
Flags ==
    /\ due \in BOOLEAN /\ scan \in BOOLEAN /\ lost \in BOOLEAN
    /\ prog \in [Drone -> BOOLEAN] /\ did \in [Drone -> BOOLEAN]

AtWork ==
    \A w \in Worker :
        /\ pc[w] \in {"analyze", "record"} => item[w] \in Cand[Roster[at[w]]]
        /\ pc[w] = "record" => verdict[w] # "none"

\* The roster has a length, and its places hold families.
LEMMA RosterFacts ==
    /\ Len(Roster) \in Nat
    /\ Len(Roster) > 0
    /\ \A i \in 1..Len(Roster) : Roster[i] \in Family
  BY RefineAssumption DEF Family

\* The end of a round takes a worker out of it.
LEMMA LeaveMoves ==
    ASSUME TypeOK, NEW w \in Worker, Leave(w)
    PROVE  \E s \in {"check", "next", "wait"}, i \in {1, at[w]} : Move(w, s, i)
  <1>1. CASE w = Prime
    BY <1>1, RefineAssumption DEF Leave
  <1>2. CASE w \in Drone
    BY <1>2, RefineAssumption DEF Leave
  <1>3. CASE w \in Cli
    BY <1>3, RefineAssumption DEF Leave
  <1> QED
    BY <1>1, <1>2, <1>3 DEF Worker

\* Every step keeps the types and the strengthening.
LEMMA RefineTypeStep ==
    ASSUME TypeOK, InRoster, [Next]_vars
    PROVE  TypeOK' /\ InRoster'
  <1> USE RefineAssumption, RosterFacts DEF TypeOK, InRoster, Worker
  <1>1. ASSUME NEW b \in Blob, Arrive(b)
        PROVE  TypeOK' /\ InRoster'
    BY <1>1 DEF Arrive, sweep, work, prime, drones, counts
  <1>2. CASE Notify
    BY <1>2 DEF Notify, blobs, sweep, work, prime, drones, counts
  <1>3. CASE NotifyLost
    BY <1>3 DEF NotifyLost, blobs, sweep, work, prime, drones
  <1>4. ASSUME NEW b \in Blob, Evict(b)
        PROVE  TypeOK' /\ InRoster'
    BY <1>4 DEF Evict, sweep, inbox, work, prime, drones
  <1>5. ASSUME NEW b \in Blob, Materialize(b)
        PROVE  TypeOK' /\ InRoster'
    BY <1>5 DEF Materialize, sweep, inbox, work, prime, drones, counts
  <1>6. CASE PrimeWake(TRUE)
    <2> USE <1>6 DEF PrimeWake, Move, blobs, sweep, work, drones, counts
    <2>1. Flags'
      BY DEF Flags
    <2>2. AtWork'
      BY DEF AtWork
    <2>3. InRoster'
      OBVIOUS
    <2> QED
      BY <2>1, <2>2, <2>3 DEF Flags, AtWork
  <1>7. CASE PrimeWake(FALSE)
    <2> USE <1>7 DEF PrimeWake, Move, blobs, sweep, work, drones, counts
    <2>1. Flags'
      BY DEF Flags
    <2>2. AtWork'
      BY DEF AtWork
    <2>3. InRoster'
      OBVIOUS
    <2> QED
      BY <2>1, <2>2, <2>3 DEF Flags, AtWork
  <1>8. CASE PrimeEnqueue
    <2> USE <1>8 DEF PrimeEnqueue, Move, WithFresh, Candidate, WithCandidates,
       blobs, inbox, work, prime, drones, counts
    <2>1. Flags'
      BY DEF Flags
    <2>2. AtWork'
      BY DEF AtWork
    <2>3. InRoster'
      OBVIOUS
    <2>4. queue' \in [Family -> [Blob -> {"none", "free", "leased"}]]
      OBVIOUS
    <2>5. at' \in [Worker -> 1..(Len(Roster) + 1)]
      OBVIOUS
    <2> QED
      BY <2>1, <2>2, <2>3, <2>4, <2>5 DEF Flags, AtWork
  <1>9. CASE PrimeEnqueued
    <2> USE <1>9 DEF PrimeEnqueued, Admission, blobs, inbox, work, drones,
       counts
    <2>1. Flags'
      BY DEF Flags
    <2>2. AtWork'
      BY DEF AtWork
    <2>3. InRoster'
      OBVIOUS
    <2> QED
      BY <2>1, <2>2, <2>3 DEF Flags, AtWork
  <1>10. CASE PrimeEnqueueFails
    <2> USE <1>10 DEF PrimeEnqueueFails, Move, blobs, sweep, inbox, work,
       drones
    <2>1. Flags'
      BY DEF Flags
    <2>2. AtWork'
      BY DEF AtWork
    <2>3. InRoster'
      OBVIOUS
    <2> QED
      BY <2>1, <2>2, <2>3 DEF Flags, AtWork
  <1>11. CASE DrainStart
    BY <1>11 DEF DrainStart, Move, blobs, sweep, inbox, work, prime, drones,
       counts
  <1>12. CASE Refill
    BY <1>12 DEF Refill, Move, WithFresh, Candidate, blobs, work, prime,
       drones, counts
  <1>13. CASE RefillFails
    BY <1>13 DEF RefillFails, Move, blobs, sweep, inbox, work, prime, drones
  <1>14. CASE DrainCheck
    BY <1>14 DEF DrainCheck, Move, blobs, sweep, inbox, work, prime, drones,
       counts
  <1>15. CASE Maintain
    BY <1>15 DEF Maintain, Move, blobs, sweep, inbox, work, prime, drones,
       counts
  <1>16. ASSUME NEW w \in Worker, Claim(w)
        PROVE  TypeOK' /\ InRoster'
    <2> USE <1>16 DEF Claim, blobs, inbox, prime, drones, counts
    <2>1. ASSUME NEW b \in Blob, Claimable(Roster[at[w]], b),
                 queue' = [queue EXCEPT ![Roster[at[w]]][b] = "leased"],
                 item' = [item EXCEPT ![w] = b], Move(w, "analyze", at[w])
          PROVE  TypeOK' /\ InRoster'
      <3>1. Flags'
        BY <2>1 DEF Move, Claimable, Flags
      <3>2. AtWork'
        BY <2>1 DEF Move, Claimable, AtWork
      <3>3. InRoster'
        BY <2>1 DEF Move, Claimable
      <3> QED
        BY <3>1, <3>2, <3>3, <2>1 DEF Move, Claimable, Flags, AtWork
    <2>2. ASSUME Leave(w), UNCHANGED <<queue, item>>
          PROVE  TypeOK' /\ InRoster'
      <3> PICK s \in {"check", "next", "wait"}, i \in {1, at[w]} : Move(w, s, i)
        BY <2>2, LeaveMoves
      <3>1. Flags'
        BY <2>2 DEF Move, Flags
      <3>2. AtWork'
        BY <2>2 DEF Move, AtWork
      <3>3. InRoster'
        BY <2>2 DEF Move
      <3> QED
        BY <3>1, <3>2, <3>3, <2>2 DEF Move, Flags, AtWork
    <2> QED
      BY <2>1, <2>2
  <1>17. ASSUME NEW w \in Worker, Analyze(w)
        PROVE  TypeOK' /\ InRoster'
    <2> USE <1>17 DEF Analyze, Move, sweep, inbox, prime, drones
    <2>1. Flags'
      BY DEF Flags
    <2>2. AtWork'
      BY DEF AtWork
    <2>3. InRoster'
      OBVIOUS
    <2>4. verdict' \in [Worker -> {"none", "conclude", "wait", "unobtainable",
                                   "error"}]
      OBVIOUS
    <2>5. faults' \in Nat /\ routes' \in SUBSET Blob
      OBVIOUS
    <2> QED
      BY <2>1, <2>2, <2>3, <2>4, <2>5 DEF Flags, AtWork
  <1>18. ASSUME NEW w \in Worker, Record(w)
        PROVE  TypeOK' /\ InRoster'
    BY <1>18 DEF Record, Move, Release, blobs, inbox, prime, counts
  <1>19. ASSUME NEW w \in Worker, RoundFails(w)
        PROVE  TypeOK' /\ InRoster'
    <2> USE <1>19 DEF RoundFails, Release, blobs, sweep, inbox, prime, drones
    <2>1. PICK s \in {"check", "next", "wait", "refill", "drain"},
               i \in {1, at[w], at[w] + 1} :
                  /\ Move(w, s, i)
                  /\ i = at[w] + 1 => s = "drain"
      BY LeaveMoves
    <2>2. Flags'
      BY <2>1 DEF Move, Flags
    <2>3. AtWork'
      BY <2>1 DEF Move, AtWork
    <2>4. InRoster'
      BY <2>1 DEF Move
    <2> QED
      BY <2>1, <2>2, <2>3, <2>4 DEF Move, Flags, AtWork
  <1>20. ASSUME NEW w \in Worker, Renew(w)
        PROVE  TypeOK' /\ InRoster'
    BY <1>20 DEF Renew, blobs, inbox, work, prime, drones, counts
  <1>21. ASSUME NEW d \in Drone, DroneWake(d)
        PROVE  TypeOK' /\ InRoster'
    BY <1>21 DEF DroneWake, Move, blobs, sweep, inbox, work, prime, counts
  <1>22. ASSUME NEW d \in Drone, DroneNext(d)
        PROVE  TypeOK' /\ InRoster'
    <2> USE <1>22 DEF blobs, sweep, inbox, work, prime, counts
    <2>1. PICK s \in {"claim", "leave"}, i \in 1..Len(Roster) : Move(d, s, i)
      BY DEF DroneNext
    <2>2. Flags' /\ active' \in SUBSET Drone
      BY DEF DroneNext, Flags, drones
    <2>3. UNCHANGED <<blobs, sweep, inbox, work, prime, counts>>
      BY DEF DroneNext
    <2>4. AtWork'
      BY <2>1, <2>3 DEF AtWork, Move
    <2>5. InRoster'
      BY <2>1, <2>3 DEF Move
    <2> QED
      BY <2>1, <2>2, <2>3, <2>4, <2>5 DEF Flags, AtWork, Move
  <1>23. ASSUME NEW d \in Drone, DroneLeave(d)
        PROVE  TypeOK' /\ InRoster'
    BY <1>23 DEF DroneLeave, Move, blobs, sweep, inbox, work, prime, counts
  <1>24. ASSUME NEW d \in Drone, DroneSignal(d)
        PROVE  TypeOK' /\ InRoster'
    BY <1>24 DEF DroneSignal, Move, blobs, sweep, work, prime, counts
  <1>25. ASSUME NEW c \in Cli, NEW i \in 1..Len(Roster), CliEnqueue(c, i)
        PROVE  TypeOK' /\ InRoster'
    BY <1>25 DEF CliEnqueue, Move, WithCandidates, Candidate, blobs, inbox,
       work, prime, drones, counts
  <1>26. ASSUME NEW c \in Cli, CliAdmit(c)
        PROVE  TypeOK' /\ InRoster'
    BY <1>26 DEF CliAdmit, Move, Admission, blobs, inbox, work, prime, drones,
       counts
  <1>27. ASSUME NEW f \in Family, NEW b \in Blob, Expire(f, b)
        PROVE  TypeOK' /\ InRoster'
    BY <1>27 DEF Expire, blobs, inbox, work, prime, drones, counts
  <1>28. ASSUME NEW f \in Family, NEW b \in Blob, Lapse(f, b)
        PROVE  TypeOK' /\ InRoster'
    BY <1>28 DEF Lapse, blobs, inbox, work, prime, drones
  <1>29. ASSUME NEW w \in Worker, Die(w)
        PROVE  TypeOK' /\ InRoster'
    BY <1>29 DEF Die, Move, Release, blobs, sweep, inbox, prime
  <1>30. CASE Restart
    <2> USE <1>30 DEF Restart, blobs
    <2>1. Flags'
      BY DEF Flags
    <2>2. AtWork'
      BY DEF AtWork
    <2>3. InRoster'
      OBVIOUS
    <2> QED
      BY <2>1, <2>2, <2>3 DEF Flags, AtWork
  <1>31. CASE UNCHANGED vars
    BY <1>31 DEF vars, blobs, sweep, inbox, work, prime, drones, counts
  <1> QED
    BY <1>1, <1>2, <1>3, <1>4, <1>5, <1>6, <1>7, <1>8, <1>9, <1>10,
       <1>11, <1>12, <1>13, <1>14, <1>15, <1>16, <1>17, <1>18, <1>19,
       <1>20, <1>21, <1>22, <1>23, <1>24, <1>25, <1>26, <1>27, <1>28,
       <1>29, <1>30, <1>31
       DEF Next, PrimeStep, Round, DroneStep, CliStep, Fault

\* The first state has the types.
LEMMA RefineTypeInit == Init => TypeOK /\ InRoster
  <1> SUFFICES ASSUME Init PROVE TypeOK /\ InRoster
    OBVIOUS
  <1> USE RefineAssumption, RosterFacts DEF Init
  <1>1. Flags /\ AtWork /\ InRoster
    BY DEF Flags, AtWork, InRoster
  <1>2. at \in [Worker -> 1..(Len(Roster) + 1)]
    OBVIOUS
  <1> QED
    BY <1>1, <1>2 DEF TypeOK, Flags, AtWork

\* The queue, the inbox and the threads keep their types, and a worker that
\* analyzes has an item its family may analyze, for any roster, any fleet and
\* any number of faults.
THEOREM RefineTypeOK == Spec => []TypeOK
  <1>1. TypeOK /\ InRoster /\ [Next]_vars => TypeOK' /\ InRoster'
    BY RefineTypeStep
  <1> QED
    BY <1>1, RefineTypeInit, PTL DEF Spec

-----------------------------------------------------------------------------
(* Settled items.                                                          *)

\* No step leaves a row for a settled item: the enqueue paths look at the
\* conclusions, a conclusion deletes the row in the same transaction, and
\* renewal, expiry and restart only change rows that are there.
LEMMA SettledStep ==
    ASSUME TypeOK, InRoster, SettledStaysSettled, [Next]_vars
    PROVE  SettledStaysSettled'
  <1> USE RefineAssumption, RosterFacts
      DEF TypeOK, InRoster, Worker, SettledStaysSettled
  <1>1. ASSUME NEW b \in Blob, Arrive(b)
        PROVE  SettledStaysSettled'
    BY <1>1 DEF Arrive, sweep
  <1>2. CASE Notify
    BY <1>2 DEF Notify, sweep
  <1>3. CASE NotifyLost
    BY <1>3 DEF NotifyLost, sweep
  <1>4. ASSUME NEW b \in Blob, Evict(b)
        PROVE  SettledStaysSettled'
    BY <1>4 DEF Evict, sweep
  <1>5. ASSUME NEW b \in Blob, Materialize(b)
        PROVE  SettledStaysSettled'
    BY <1>5 DEF Materialize, sweep
  <1>6. CASE PrimeWake(TRUE)
    BY <1>6 DEF PrimeWake, sweep
  <1>7. CASE PrimeWake(FALSE)
    BY <1>7 DEF PrimeWake, sweep
  <1>8. CASE PrimeEnqueue
    BY <1>8 DEF PrimeEnqueue, WithFresh, WithCandidates
  <1>9. CASE PrimeEnqueued
    BY <1>9 DEF PrimeEnqueued
  <1>10. CASE PrimeEnqueueFails
    BY <1>10 DEF PrimeEnqueueFails, sweep
  <1>11. CASE DrainStart
    BY <1>11 DEF DrainStart, sweep
  <1>12. CASE Refill
    BY <1>12 DEF Refill, WithFresh
  <1>13. CASE RefillFails
    BY <1>13 DEF RefillFails, sweep
  <1>14. CASE DrainCheck
    BY <1>14 DEF DrainCheck, sweep
  <1>15. CASE Maintain
    BY <1>15 DEF Maintain, sweep
  <1>16. ASSUME NEW w \in Worker, Claim(w)
        PROVE  SettledStaysSettled'
    <2>1. Roster[at[w]] \in Family
      BY <1>16 DEF Claim
    <2>2. ASSUME NEW b \in Blob, Claimable(Roster[at[w]], b),
                 queue' = [queue EXCEPT ![Roster[at[w]]][b] = "leased"],
                 analysis' = analysis
          PROVE  SettledStaysSettled'
      BY <2>1, <2>2 DEF Claimable
    <2> QED
      BY <1>16, <2>2 DEF Claim
  <1>17. ASSUME NEW w \in Worker, Analyze(w)
        PROVE  SettledStaysSettled'
    BY <1>17 DEF Analyze, sweep
  <1>18. ASSUME NEW w \in Worker, Record(w)
        PROVE  SettledStaysSettled'
    BY <1>18 DEF Record
  <1>19. ASSUME NEW w \in Worker, RoundFails(w)
        PROVE  SettledStaysSettled'
    BY <1>19 DEF RoundFails, sweep
  <1>20. ASSUME NEW w \in Worker, Renew(w)
        PROVE  SettledStaysSettled'
    BY <1>20 DEF Renew
  <1>21. ASSUME NEW d \in Drone, DroneWake(d)
        PROVE  SettledStaysSettled'
    BY <1>21 DEF DroneWake, sweep
  <1>22. ASSUME NEW d \in Drone, DroneNext(d)
        PROVE  SettledStaysSettled'
    BY <1>22 DEF DroneNext, sweep
  <1>23. ASSUME NEW d \in Drone, DroneLeave(d)
        PROVE  SettledStaysSettled'
    BY <1>23 DEF DroneLeave, sweep
  <1>24. ASSUME NEW d \in Drone, DroneSignal(d)
        PROVE  SettledStaysSettled'
    BY <1>24 DEF DroneSignal, sweep
  <1>25. ASSUME NEW c \in Cli, NEW i \in 1..Len(Roster), CliEnqueue(c, i)
        PROVE  SettledStaysSettled'
    BY <1>25 DEF CliEnqueue, WithCandidates
  <1>26. ASSUME NEW c \in Cli, CliAdmit(c)
        PROVE  SettledStaysSettled'
    BY <1>26 DEF CliAdmit
  <1>27. ASSUME NEW f \in Family, NEW b \in Blob, Expire(f, b)
        PROVE  SettledStaysSettled'
    BY <1>27 DEF Expire
  <1>28. ASSUME NEW f \in Family, NEW b \in Blob, Lapse(f, b)
        PROVE  SettledStaysSettled'
    BY <1>28 DEF Lapse
  <1>29. ASSUME NEW w \in Worker, Die(w)
        PROVE  SettledStaysSettled'
    BY <1>29 DEF Die, sweep
  <1>30. CASE Restart
    BY <1>30 DEF Restart
  <1>31. CASE UNCHANGED vars
    BY <1>31 DEF vars, blobs, sweep, inbox, work, prime, drones, counts
  <1> QED
    BY <1>1, <1>2, <1>3, <1>4, <1>5, <1>6, <1>7, <1>8, <1>9, <1>10,
       <1>11, <1>12, <1>13, <1>14, <1>15, <1>16, <1>17, <1>18, <1>19,
       <1>20, <1>21, <1>22, <1>23, <1>24, <1>25, <1>26, <1>27, <1>28,
       <1>29, <1>30, <1>31
       DEF Next, PrimeStep, Round, DroneStep, CliStep, Fault

\* A settled conclusion never returns to the queue, whoever recorded it and
\* whoever else held or renewed its lease (Db::enqueue_fresh,
\* Db::enqueue_unanalyzed, Db::complete_sweep_item).
THEOREM SettledForGood == Spec => []SettledStaysSettled
  <1>1. Init => SettledStaysSettled
    BY DEF Init, SettledStaysSettled
  <1>2. /\ TypeOK /\ InRoster /\ SettledStaysSettled
        /\ [Next]_vars
        => TypeOK' /\ InRoster' /\ SettledStaysSettled'
    BY RefineTypeStep, SettledStep
  <1> QED
    BY <1>1, <1>2, RefineTypeInit, PTL DEF Spec

-----------------------------------------------------------------------------
(* Leases.                                                                 *)

\* The strengthening of NoDoubleAnalysis: until a live holder has lost its
\* lease, the row of every item under analysis is leased.
LeaseHeld ==
    ~ lost => \A w \in Worker, f \in Family, b \in Blob :
                  Analyzes(w, f, b) => queue[f][b] = "leased"

\* The step starts no analysis.
NoNewWork ==
    \A w \in Worker, f \in Family, b \in Blob :
        Analyzes(w, f, b)' => Analyzes(w, f, b)

\* A step that starts no analysis and leaves the rows alone keeps both.
LEMMA NoNewWorkKeepsLeases ==
    ASSUME LeaseHeld, NoDoubleAnalysis, NoNewWork, queue' = queue,
           lost' = lost
    PROVE  LeaseHeld' /\ NoDoubleAnalysis'
  BY DEF LeaseHeld, NoDoubleAnalysis, NoNewWork

\* Every step keeps leases and exclusion: a claim takes a row that is not
\* leased, so no one else analyzes it, and a row is freed, pruned or deleted
\* only by its one holder or when it has none.
LEMMA LeaseStep ==
    ASSUME TypeOK, InRoster, LeaseHeld, NoDoubleAnalysis, [Next]_vars
    PROVE  LeaseHeld' /\ NoDoubleAnalysis'
  <1> USE RefineAssumption, RosterFacts
      DEF TypeOK, InRoster, Worker, LeaseHeld, NoDoubleAnalysis, Analyzes
  <1>1. ASSUME NEW b \in Blob, Arrive(b)
        PROVE  LeaseHeld' /\ NoDoubleAnalysis'
    BY <1>1 DEF Arrive, sweep, work, counts
  <1>2. CASE Notify
    BY <1>2 DEF Notify, sweep, work, counts
  <1>3. CASE NotifyLost
    BY <1>3 DEF NotifyLost, sweep, work
  <1>4. ASSUME NEW b \in Blob, Evict(b)
        PROVE  LeaseHeld' /\ NoDoubleAnalysis'
    BY <1>4 DEF Evict, sweep, work
  <1>5. ASSUME NEW b \in Blob, Materialize(b)
        PROVE  LeaseHeld' /\ NoDoubleAnalysis'
    BY <1>5 DEF Materialize, sweep, work, counts
  <1>6. CASE PrimeWake(TRUE)
    <2>1. NoNewWork
      BY <1>6 DEF NoNewWork, PrimeWake, Move, sweep, work, counts
    <2> QED
      BY <1>6, <2>1, NoNewWorkKeepsLeases DEF PrimeWake, Move, sweep, work,
         counts
  <1>7. CASE PrimeWake(FALSE)
    <2>1. NoNewWork
      BY <1>7 DEF NoNewWork, PrimeWake, Move, sweep, work, counts
    <2> QED
      BY <1>7, <2>1, NoNewWorkKeepsLeases DEF PrimeWake, Move, sweep, work,
         counts
  <1>8. CASE PrimeEnqueue
    BY <1>8 DEF PrimeEnqueue, Move, WithFresh, WithCandidates, work, counts
  <1>9. CASE PrimeEnqueued
    <2>1. NoNewWork
      BY <1>9 DEF NoNewWork, PrimeEnqueued, work, counts
    <2> QED
      BY <1>9, <2>1, NoNewWorkKeepsLeases DEF PrimeEnqueued, work, counts
  <1>10. CASE PrimeEnqueueFails
    <2>1. NoNewWork
      BY <1>10 DEF NoNewWork, PrimeEnqueueFails, Move, sweep, work
    <2> QED
      BY <1>10, <2>1, NoNewWorkKeepsLeases DEF PrimeEnqueueFails, Move, sweep,
         work
  <1>11. CASE DrainStart
    <2>1. NoNewWork
      BY <1>11 DEF NoNewWork, DrainStart, Move, sweep, work, counts
    <2> QED
      BY <1>11, <2>1, NoNewWorkKeepsLeases DEF DrainStart, Move, sweep, work,
         counts
  <1>12. CASE Refill
    BY <1>12 DEF Refill, Move, WithFresh, work, counts
  <1>13. CASE RefillFails
    BY <1>13 DEF RefillFails, Move, sweep, work
  <1>14. CASE DrainCheck
    <2>1. NoNewWork
      BY <1>14 DEF NoNewWork, DrainCheck, Move, sweep, work, counts
    <2> QED
      BY <1>14, <2>1, NoNewWorkKeepsLeases DEF DrainCheck, Move, sweep, work,
         counts
  <1>15. CASE Maintain
    <2>1. NoNewWork
      BY <1>15 DEF NoNewWork, Maintain, Move, sweep, work, counts
    <2> QED
      BY <1>15, <2>1, NoNewWorkKeepsLeases DEF Maintain, Move, sweep, work,
         counts
  <1>16. ASSUME NEW w \in Worker, Claim(w)
        PROVE  LeaseHeld' /\ NoDoubleAnalysis'
    <2>1. ASSUME NEW b \in Blob, Claimable(Roster[at[w]], b),
                 queue' = [queue EXCEPT ![Roster[at[w]]][b] = "leased"],
                 item' = [item EXCEPT ![w] = b], Move(w, "analyze", at[w]),
                 lost' = lost
          PROVE  LeaseHeld' /\ NoDoubleAnalysis'
      <3>1. Roster[at[w]] \in Family /\ at[w] \in 1..Len(Roster)
        BY <1>16 DEF Claim
      <3>2. \A v \in Worker, f \in Family, c \in Blob :
               Analyzes(v, f, c)' =>
                  \/ Analyzes(v, f, c)
                  \/ v = w /\ f = Roster[at[w]] /\ c = b
        BY <2>1, <3>1 DEF Move
      <3>3. ~ lost => ~ \E v \in Worker : Analyzes(v, Roster[at[w]], b)
        BY <2>1, <3>1 DEF Claimable
      <3>4. \A f \in Family, c \in Blob :
               queue[f][c] = "leased" => queue'[f][c] = "leased"
        BY <2>1, <3>1
      <3>5. queue'[Roster[at[w]]][b] = "leased"
        BY <2>1, <3>1
      <3>6. lost' = lost
        BY <2>1
      <3> HIDE DEF Analyzes, TypeOK, InRoster, Worker
      <3>7. LeaseHeld'
        BY <3>2, <3>4, <3>5, <3>6
      <3>8. NoDoubleAnalysis'
        BY <3>2, <3>3, <3>6
      <3> QED
        BY <3>7, <3>8
    <2>2. ASSUME Leave(w), UNCHANGED <<queue, item, lost>>
          PROVE  LeaseHeld' /\ NoDoubleAnalysis'
      <3>1. PICK s \in {"check", "next", "wait"}, i \in {1, at[w]} :
                    Move(w, s, i)
        BY <2>2, LeaveMoves
      <3>2. NoNewWork
        BY <2>2, <3>1 DEF NoNewWork, Move
      <3> QED
        BY <2>2, <3>2, NoNewWorkKeepsLeases
    <2> QED
      BY <1>16, <2>1, <2>2 DEF Claim, counts
  <1>17. ASSUME NEW w \in Worker, Analyze(w)
        PROVE  LeaseHeld' /\ NoDoubleAnalysis'
    <2>1. NoNewWork
      BY <1>17 DEF NoNewWork, Analyze, Move, sweep
    <2> QED
      BY <1>17, <2>1, NoNewWorkKeepsLeases DEF Analyze, Move, sweep
  <1>18. ASSUME NEW w \in Worker, Record(w)
        PROVE  LeaseHeld' /\ NoDoubleAnalysis'
    <2>1. NoNewWork /\ \A f \in Family, b \in Blob : ~ Analyzes(w, f, b)'
      BY <1>18 DEF NoNewWork, Record, Move, Release
    <2>2. \A f \in Family, b \in Blob :
             ~ Analyzes(w, f, b) => queue'[f][b] = queue[f][b]
      BY <1>18 DEF Record
    <2>3. lost' = lost
      BY <1>18 DEF Record, counts
    <2> HIDE DEF Analyzes
    <2>4. NoDoubleAnalysis'
      BY <2>1, <2>3 DEF NoNewWork
    <2>5. ASSUME NEW v \in Worker, NEW f \in Family, NEW b \in Blob,
                 Analyzes(v, f, b)', ~ lost
          PROVE  queue'[f][b] = "leased"
      <3>1. v # w /\ Analyzes(v, f, b)
        BY <2>1, <2>5 DEF NoNewWork
      <3>2. ~ Analyzes(w, f, b)
        BY <2>5, <3>1
      <3> QED
        BY <2>2, <2>5, <3>1, <3>2
    <2> QED
      BY <2>3, <2>4, <2>5
  <1>19. ASSUME NEW w \in Worker, RoundFails(w)
        PROVE  LeaseHeld' /\ NoDoubleAnalysis'
    <2>1. PICK s \in {"check", "next", "wait", "refill", "drain"},
               i \in {1, at[w], at[w] + 1} : Move(w, s, i)
      BY <1>19, LeaveMoves DEF RoundFails
    <2>2. NoNewWork
      BY <1>19, <2>1 DEF NoNewWork, RoundFails, Release, Move
    <2> QED
      BY <1>19, <2>2, NoNewWorkKeepsLeases DEF RoundFails, sweep
  <1>20. ASSUME NEW w \in Worker, Renew(w)
        PROVE  LeaseHeld' /\ NoDoubleAnalysis'
    BY <1>20 DEF Renew, work, counts
  <1>21. ASSUME NEW d \in Drone, DroneWake(d)
        PROVE  LeaseHeld' /\ NoDoubleAnalysis'
    <2>1. NoNewWork
      BY <1>21 DEF NoNewWork, DroneWake, Move, sweep, work, counts
    <2> QED
      BY <1>21, <2>1, NoNewWorkKeepsLeases DEF DroneWake, Move, sweep, work,
         counts
  <1>22. ASSUME NEW d \in Drone, DroneNext(d)
        PROVE  LeaseHeld' /\ NoDoubleAnalysis'
    <2>1. PICK s \in {"claim", "leave"}, i \in 1..Len(Roster) : Move(d, s, i)
      BY <1>22 DEF DroneNext
    <2>2. NoNewWork
      BY <1>22, <2>1 DEF NoNewWork, DroneNext, Move, work
    <2> QED
      BY <1>22, <2>2, NoNewWorkKeepsLeases DEF DroneNext, sweep, counts
  <1>23. ASSUME NEW d \in Drone, DroneLeave(d)
        PROVE  LeaseHeld' /\ NoDoubleAnalysis'
    BY <1>23 DEF DroneLeave, Move, sweep, work, counts
  <1>24. ASSUME NEW d \in Drone, DroneSignal(d)
        PROVE  LeaseHeld' /\ NoDoubleAnalysis'
    <2>1. NoNewWork
      BY <1>24 DEF NoNewWork, DroneSignal, Move, sweep, work, counts
    <2> QED
      BY <1>24, <2>1, NoNewWorkKeepsLeases DEF DroneSignal, Move, sweep, work,
         counts
  <1>25. ASSUME NEW c \in Cli, NEW i \in 1..Len(Roster), CliEnqueue(c, i)
        PROVE  LeaseHeld' /\ NoDoubleAnalysis'
    BY <1>25 DEF CliEnqueue, Move, WithCandidates, work, counts
  <1>26. ASSUME NEW c \in Cli, CliAdmit(c)
        PROVE  LeaseHeld' /\ NoDoubleAnalysis'
    BY <1>26 DEF CliAdmit, Move, work, counts
  <1>27. ASSUME NEW f \in Family, NEW b \in Blob, Expire(f, b)
        PROVE  LeaseHeld' /\ NoDoubleAnalysis'
    BY <1>27 DEF Expire, work, counts
  <1>28. ASSUME NEW f \in Family, NEW b \in Blob, Lapse(f, b)
        PROVE  LeaseHeld' /\ NoDoubleAnalysis'
    BY <1>28 DEF Lapse, work
  <1>29. ASSUME NEW w \in Worker, Die(w)
        PROVE  LeaseHeld' /\ NoDoubleAnalysis'
    <2>1. NoNewWork
      BY <1>29 DEF NoNewWork, Die, Move, Release, sweep
    <2> QED
      BY <1>29, <2>1, NoNewWorkKeepsLeases DEF Die, Move, Release, sweep
  <1>30. CASE Restart
    BY <1>30 DEF Restart
  <1>31. CASE UNCHANGED vars
    BY <1>31 DEF vars, blobs, sweep, inbox, work, prime, drones, counts
  <1> QED
    BY <1>1, <1>2, <1>3, <1>4, <1>5, <1>6, <1>7, <1>8, <1>9, <1>10,
       <1>11, <1>12, <1>13, <1>14, <1>15, <1>16, <1>17, <1>18, <1>19,
       <1>20, <1>21, <1>22, <1>23, <1>24, <1>25, <1>26, <1>27, <1>28,
       <1>29, <1>30, <1>31
       DEF Next, PrimeStep, Round, DroneStep, CliStep, Fault

\* No two workers analyze a blob for the same family at once, unless a live
\* holder lost its lease (claim_sweep_items, SweepLeaseKeeper).
THEOREM LeasesExclude == Spec => []NoDoubleAnalysis
  <1>1. Init => LeaseHeld /\ NoDoubleAnalysis
    BY DEF Init, LeaseHeld, NoDoubleAnalysis, Analyzes
  <1>2. /\ TypeOK /\ InRoster /\ LeaseHeld /\ NoDoubleAnalysis
        /\ [Next]_vars
        => TypeOK' /\ InRoster' /\ LeaseHeld' /\ NoDoubleAnalysis'
    BY RefineTypeStep, LeaseStep
  <1> QED
    BY <1>1, <1>2, RefineTypeInit, PTL DEF Spec

-----------------------------------------------------------------------------
(* The count of drones in a burst.                                         *)

\* Every step keeps the count right: a drone enters it when it wakes and
\* leaves it when its burst ends or it dies.
LEMMA FleetStep ==
    ASSUME TypeOK, FleetCountHonest, [Next]_vars
    PROVE  FleetCountHonest'
  <1> USE RefineAssumption DEF TypeOK, Worker, FleetCountHonest
  <1>1. ASSUME NEW b \in Blob, Arrive(b)
        PROVE  FleetCountHonest'
    BY <1>1 DEF Arrive, drones
  <1>2. CASE Notify
    BY <1>2 DEF Notify, drones
  <1>3. CASE NotifyLost
    BY <1>3 DEF NotifyLost, drones
  <1>4. ASSUME NEW b \in Blob, Evict(b)
        PROVE  FleetCountHonest'
    BY <1>4 DEF Evict, drones
  <1>5. ASSUME NEW b \in Blob, Materialize(b)
        PROVE  FleetCountHonest'
    BY <1>5 DEF Materialize, drones
  <1>6. CASE PrimeWake(TRUE)
    BY <1>6 DEF PrimeWake, Move, drones
  <1>7. CASE PrimeWake(FALSE)
    BY <1>7 DEF PrimeWake, Move, drones
  <1>8. CASE PrimeEnqueue
    BY <1>8 DEF PrimeEnqueue, Move, drones
  <1>9. CASE PrimeEnqueued
    BY <1>9 DEF PrimeEnqueued, drones
  <1>10. CASE PrimeEnqueueFails
    BY <1>10 DEF PrimeEnqueueFails, Move, drones
  <1>11. CASE DrainStart
    BY <1>11 DEF DrainStart, Move, drones
  <1>12. CASE Refill
    BY <1>12 DEF Refill, Move, drones
  <1>13. CASE RefillFails
    BY <1>13 DEF RefillFails, Move, drones
  <1>14. CASE DrainCheck
    BY <1>14 DEF DrainCheck, Move, drones
  <1>15. CASE Maintain
    BY <1>15 DEF Maintain, Move, drones
  <1>16. ASSUME NEW w \in Worker, Claim(w)
        PROVE  FleetCountHonest'
    <2>1. CASE w \in Drone
      BY <1>16, <2>1 DEF Claim, Move, Leave, drones
    <2>2. CASE w \notin Drone
      <3>1. \A d \in Drone : pc'[d] = pc[d]
        BY <1>16, <2>2 DEF Claim, Move, Leave, drones
      <3> QED
        BY <1>16, <3>1 DEF Claim, drones
    <2> QED
      BY <2>1, <2>2
  <1>17. ASSUME NEW w \in Worker, Analyze(w)
        PROVE  FleetCountHonest'
    BY <1>17 DEF Analyze, Move, drones
  <1>18. ASSUME NEW w \in Worker, Record(w)
        PROVE  FleetCountHonest'
    BY <1>18 DEF Record, Move
  <1>19. ASSUME NEW w \in Worker, RoundFails(w)
        PROVE  FleetCountHonest'
    <2>1. CASE w \in Drone
      BY <1>19, <2>1 DEF RoundFails, Move, Leave, drones
    <2>2. CASE w \notin Drone
      <3>1. \A d \in Drone : pc'[d] = pc[d]
        BY <1>19, <2>2 DEF RoundFails, Move, Leave, drones
      <3> QED
        BY <1>19, <3>1 DEF RoundFails, drones
    <2> QED
      BY <2>1, <2>2
  <1>20. ASSUME NEW w \in Worker, Renew(w)
        PROVE  FleetCountHonest'
    BY <1>20 DEF Renew, drones
  <1>21. ASSUME NEW d \in Drone, DroneWake(d)
        PROVE  FleetCountHonest'
    BY <1>21 DEF DroneWake, Move
  <1>22. ASSUME NEW d \in Drone, DroneNext(d)
        PROVE  FleetCountHonest'
    BY <1>22 DEF DroneNext, Move, drones
  <1>23. ASSUME NEW d \in Drone, DroneLeave(d)
        PROVE  FleetCountHonest'
    BY <1>23 DEF DroneLeave, Move
  <1>24. ASSUME NEW d \in Drone, DroneSignal(d)
        PROVE  FleetCountHonest'
    BY <1>24 DEF DroneSignal, Move
  <1>25. ASSUME NEW c \in Cli, NEW i \in 1..Len(Roster), CliEnqueue(c, i)
        PROVE  FleetCountHonest'
    BY <1>25 DEF CliEnqueue, Move, drones
  <1>26. ASSUME NEW c \in Cli, CliAdmit(c)
        PROVE  FleetCountHonest'
    BY <1>26 DEF CliAdmit, Move, drones
  <1>27. ASSUME NEW f \in Family, NEW b \in Blob, Expire(f, b)
        PROVE  FleetCountHonest'
    BY <1>27 DEF Expire, drones
  <1>28. ASSUME NEW f \in Family, NEW b \in Blob, Lapse(f, b)
        PROVE  FleetCountHonest'
    BY <1>28 DEF Lapse, drones
  <1>29. ASSUME NEW w \in Worker, Die(w)
        PROVE  FleetCountHonest'
    BY <1>29 DEF Die, Move
  <1>30. CASE Restart
    BY <1>30 DEF Restart
  <1>31. CASE UNCHANGED vars
    BY <1>31 DEF vars, blobs, sweep, inbox, work, prime, drones, counts
  <1> QED
    BY <1>1, <1>2, <1>3, <1>4, <1>5, <1>6, <1>7, <1>8, <1>9, <1>10,
       <1>11, <1>12, <1>13, <1>14, <1>15, <1>16, <1>17, <1>18, <1>19,
       <1>20, <1>21, <1>22, <1>23, <1>24, <1>25, <1>26, <1>27, <1>28,
       <1>29, <1>30, <1>31
       DEF Next, PrimeStep, Round, DroneStep, CliStep, Fault

\* active_drones is the number of drones in a burst, however bursts end: the
\* prime never waits for a drone that is not there (ActiveDrone).
THEOREM FleetCounted == Spec => []FleetCountHonest
  <1>1. Init => FleetCountHonest
    BY RefineAssumption DEF Init, FleetCountHonest, Worker
  <1>2. /\ TypeOK /\ InRoster /\ FleetCountHonest
        /\ [Next]_vars
        => TypeOK' /\ InRoster' /\ FleetCountHonest'
    BY RefineTypeStep, FleetStep
  <1> QED
    BY <1>1, <1>2, RefineTypeInit, PTL DEF Spec

=============================================================================
