---------------------------- MODULE ContentProofs ----------------------------
(****************************************************************************)
(* Content on its way in and out, for every value of the constants.  A      *)
(* behaviour of the suite MCContent, seen through the variables of one      *)
(* part, is a behaviour of that part; each section proves its part's        *)
(* invariant and carries it to the suite.                                   *)
(****************************************************************************)
EXTENDS MCContent, FiniteSetTheorems, WellFoundedInduction, TLAPS

----------------------------------------------------------------------------
(* Serving ranges.                                                          *)

SvSteps == {"idle", "sidecar", "gate", "wait", "bless", "leave", "drop", "produce", "verify", "attribute"}

SvType ==
    /\ gates \in Nat /\ flight \in Nat /\ gate \in [Readers -> Nat]
    /\ rpc \in [Readers -> SvSteps] /\ window \in [Readers -> BOOLEAN]
    /\ seeks \in [Readers -> SUBSET Components]
    /\ served \in [Readers -> {"none", "good", "bad", "raw", "eio"}]
    /\ seekable \in SUBSET Components
    /\ blessings \in Nat /\ rots \in Nat

\* Whoever is at the gate holds the one that has an entry, and its mutex lets one in.
GateShared ==
    /\ \A r \in Readers : rpc[r] \in {"wait", "bless", "leave"} => gate[r] = flight /\ flight # 0
    /\ locked = {r \in Readers : rpc[r] = "bless"}
    /\ \A r, q \in Readers : rpc[r] = "bless" /\ rpc[q] = "bless" => r = q

\* Once the outboard was made it is there, and whoever is making it is the first.
BlessedFirst ==
    /\ blessings <= 1 /\ (blessings > 0 => sidecar)
    /\ \A r \in Readers : rpc[r] = "bless" => blessings = 0

\* What goes wrong without a seek path goes back to a leaf that rotted.
RotIsCause ==
    /\ rotten # {} => rots > 0
    /\ \A r \in Readers :
        /\ rpc[r] \in {"leave", "drop"} /\ ~window[r] => rots > 0
        /\ rpc[r] \in {"verify", "attribute"} /\ ~window[r] /\ seeks[r] = {} => rots > 0
        /\ rpc[r] = "attribute" => ~window[r]
        /\ served[r] = "eio" /\ rpc[r] = "idle" /\ seeks[r] = {} => rots > 0

SvInv == SvType /\ GateShared /\ BlessedFirst /\ RotIsCause /\ Sv!ServedBytesTrue

LEMMA SvStarts == Sv!SVInit => SvInv
<1> SUFFICES ASSUME Sv!SVInit PROVE SvInv
  OBVIOUS
<1>1. SvType
  BY DEF Sv!SVInit, SvType, SvSteps
<1>2. GateShared /\ BlessedFirst
  BY DEF Sv!SVInit, GateShared, BlessedFirst
<1>3. RotIsCause /\ Sv!ServedBytesTrue
  BY DEF Sv!SVInit, RotIsCause, Sv!ServedBytesTrue
<1> QED
  BY <1>1, <1>2, <1>3 DEF SvInv

\* A reader's own step keeps the types.
LEMMA SvTypeKept ==
    ASSUME SvType, Sv!SVNext
    PROVE  SvType'
<1> USE DEF SvType, SvSteps, Sv!environment
<1>1. ASSUME NEW r \in Readers, Sv!Begin(r) PROVE SvType'
  <2>1. Sv!Seekable \in SUBSET Components
    BY DEF Sv!Seekable
  <2> QED BY <1>1, <2>1 DEF Sv!Begin, Sv!Answer
<1>2. ASSUME NEW r \in Readers, Sv!Sidecar(r) PROVE SvType'
  BY <1>2 DEF Sv!Sidecar, Sv!Carveout, Sv!Answer
<1>3. ASSUME NEW r \in Readers, Sv!GateEnter(r) PROVE SvType'
  BY <1>3 DEF Sv!GateEnter
<1>4. ASSUME NEW r \in Readers, Sv!GateLock(r) PROVE SvType'
  BY <1>4 DEF Sv!GateLock
<1>5. ASSUME NEW r \in Readers, Sv!Bless(r) PROVE SvType'
  <2>1. (resident \/ Sv!Spilled) \in BOOLEAN
    BY DEF Sv!Spilled
  <2> QED BY <1>5, <2>1 DEF Sv!Bless
<1>6. ASSUME NEW r \in Readers, Sv!GateLeave(r) PROVE SvType'
  BY <1>6 DEF Sv!GateLeave
<1>7. ASSUME NEW r \in Readers, Sv!GateDrop(r) PROVE SvType'
  BY <1>7 DEF Sv!GateDrop, Sv!Answer
<1>8. ASSUME NEW r \in Readers, Sv!Produce(r) PROVE SvType'
  <2>1. Sv!Produced(seeks[r]).right \in BOOLEAN
    BY DEF Sv!Produced, Sv!InPlace, Sv!Spilled
  <2> QED BY <1>8, <2>1 DEF Sv!Produce
<1>9. ASSUME NEW r \in Readers, Sv!Verify(r) PROVE SvType'
  BY <1>9 DEF Sv!Verify, Sv!Answer
<1>10. ASSUME NEW r \in Readers, Sv!Attribute(r) PROVE SvType'
  BY <1>10 DEF Sv!Attribute, Sv!Answer
<1>11. ASSUME NEW l \in Leaves, Sv!Rot(l) \/ Sv!Repair(l) PROVE SvType'
  BY <1>11 DEF Sv!Rot, Sv!Repair
<1>12. ASSUME Sv!Materialize PROVE SvType'
  BY <1>12 DEF Sv!Materialize
<1> QED
  BY <1>1, <1>2, <1>3, <1>4, <1>5, <1>6, <1>7, <1>8, <1>9, <1>10, <1>11, <1>12 DEF Sv!SVNext

\* The gate: who leaves last takes the entry with it, and who comes next makes a new one.
LEMMA GateKept ==
    ASSUME SvType, SvType', GateShared, Sv!SVNext
    PROVE  GateShared'
<1> USE DEF SvType, SvSteps, GateShared
<1>1. ASSUME NEW r \in Readers, Sv!Begin(r) PROVE GateShared'
  BY <1>1 DEF Sv!Begin, Sv!Answer
<1>2. ASSUME NEW r \in Readers, Sv!Sidecar(r) PROVE GateShared'
  BY <1>2 DEF Sv!Sidecar, Sv!Carveout, Sv!Answer
<1>3. ASSUME NEW r \in Readers, Sv!GateEnter(r) PROVE GateShared'
  BY <1>3 DEF Sv!GateEnter
<1>4. ASSUME NEW r \in Readers, Sv!GateLock(r) PROVE GateShared'
  <2>1. locked = {} /\ rpc[r] = "wait"
    BY <1>4 DEF Sv!GateLock, Sv!GateFree
  <2> QED BY <1>4, <2>1 DEF Sv!GateLock
<1>5. ASSUME NEW r \in Readers, Sv!Bless(r) PROVE GateShared'
  BY <1>5 DEF Sv!Bless
<1>6. ASSUME NEW r \in Readers, Sv!GateLeave(r) PROVE GateShared'
  <2>1. \A q \in Readers : rpc'[q] = IF q = r THEN "drop" ELSE rpc[q]
    BY <1>6 DEF Sv!GateLeave
  <2>2. ASSUME NEW q \in Readers, q # r, rpc[q] \in {"wait", "bless", "leave"}
        PROVE  flight' = flight
    BY <1>6, <2>2 DEF Sv!GateLeave
  <2> QED BY <1>6, <2>1, <2>2 DEF Sv!GateLeave
<1>7. ASSUME NEW r \in Readers, Sv!GateDrop(r) PROVE GateShared'
  BY <1>7 DEF Sv!GateDrop, Sv!Answer
<1>8. ASSUME NEW r \in Readers, Sv!Produce(r) PROVE GateShared'
  BY <1>8 DEF Sv!Produce
<1>9. ASSUME NEW r \in Readers, Sv!Verify(r) PROVE GateShared'
  BY <1>9 DEF Sv!Verify, Sv!Answer
<1>10. ASSUME NEW r \in Readers, Sv!Attribute(r) PROVE GateShared'
  BY <1>10 DEF Sv!Attribute, Sv!Answer
<1>11. ASSUME NEW l \in Leaves, Sv!Rot(l) \/ Sv!Repair(l) PROVE GateShared'
  BY <1>11 DEF Sv!Rot, Sv!Repair
<1>12. ASSUME Sv!Materialize PROVE GateShared'
  BY <1>12 DEF Sv!Materialize
<1> QED
  BY <1>1, <1>2, <1>3, <1>4, <1>5, <1>6, <1>7, <1>8, <1>9, <1>10, <1>11, <1>12 DEF Sv!SVNext

\* The outboard: looked for again behind the mutex, so it is made once.
LEMMA BlessedKept ==
    ASSUME SvType, SvType', GateShared, BlessedFirst, Sv!SVNext
    PROVE  BlessedFirst'
<1> USE DEF SvType, SvSteps, BlessedFirst
<1>1. ASSUME NEW r \in Readers, Sv!Begin(r) PROVE BlessedFirst'
  BY <1>1 DEF Sv!Begin, Sv!Answer
<1>2. ASSUME NEW r \in Readers, Sv!Sidecar(r) PROVE BlessedFirst'
  BY <1>2 DEF Sv!Sidecar, Sv!Carveout, Sv!Answer
<1>3. ASSUME NEW r \in Readers, Sv!GateEnter(r) PROVE BlessedFirst'
  BY <1>3 DEF Sv!GateEnter
<1>4. ASSUME NEW r \in Readers, Sv!GateLock(r) PROVE BlessedFirst'
  BY <1>4 DEF Sv!GateLock
<1>5. ASSUME NEW r \in Readers, Sv!Bless(r) PROVE BlessedFirst'
  <2>1. blessings = 0 /\ \A q \in Readers : rpc'[q] # "bless"
    BY <1>5 DEF Sv!Bless, GateShared
  <2>2. resident \/ Sv!Spilled => sidecar'
    BY <1>5, Zenon DEF Sv!Bless
  <2>3. blessings' = IF resident \/ Sv!Spilled THEN 1 ELSE 0
    BY <1>5, <2>1 DEF Sv!Bless
  <2> QED BY <2>1, <2>2, <2>3
<1>6. ASSUME NEW r \in Readers, Sv!GateLeave(r) PROVE BlessedFirst'
  BY <1>6 DEF Sv!GateLeave
<1>7. ASSUME NEW r \in Readers, Sv!GateDrop(r) PROVE BlessedFirst'
  BY <1>7 DEF Sv!GateDrop, Sv!Answer
<1>8. ASSUME NEW r \in Readers, Sv!Produce(r) PROVE BlessedFirst'
  BY <1>8 DEF Sv!Produce
<1>9. ASSUME NEW r \in Readers, Sv!Verify(r) PROVE BlessedFirst'
  BY <1>9 DEF Sv!Verify, Sv!Answer
<1>10. ASSUME NEW r \in Readers, Sv!Attribute(r) PROVE BlessedFirst'
  BY <1>10 DEF Sv!Attribute, Sv!Answer
<1>11. ASSUME NEW l \in Leaves, Sv!Rot(l) \/ Sv!Repair(l) PROVE BlessedFirst'
  BY <1>11 DEF Sv!Rot, Sv!Repair
<1>12. ASSUME Sv!Materialize PROVE BlessedFirst'
  BY <1>12 DEF Sv!Materialize
<1> QED
  BY <1>1, <1>2, <1>3, <1>4, <1>5, <1>6, <1>7, <1>8, <1>9, <1>10, <1>11, <1>12 DEF Sv!SVNext

\* The windows: the sequential path is wrong only over a rotten leaf, and so is a seek
\* through no component.
LEMMA WindowFacts ==
    /\ ~Sv!Spilled => rotten # {}
    /\ ~Sv!Produced({}).right => rotten # {}
<1>1. ~Sv!Spilled => rotten # {}
  BY DEF Sv!Spilled
<1>2. ~Sv!InPlace({}) => rotten # {}
  BY DEF Sv!InPlace
<1> QED
  BY <1>1, <1>2 DEF Sv!Produced

LEMMA RotKept ==
    ASSUME SvType, SvType', RotIsCause, Sv!ServedBytesTrue, Sv!SVNext
    PROVE  RotIsCause' /\ (Sv!ServedBytesTrue)'
<1> DEFINE G == RotIsCause' /\ (Sv!ServedBytesTrue)'
<1> USE DEF SvType, SvSteps, RotIsCause, Sv!ServedBytesTrue
<1>1. ASSUME NEW r \in Readers, Sv!Begin(r) PROVE G
  BY <1>1 DEF Sv!Begin, Sv!Answer
<1>2. ASSUME NEW r \in Readers, Sv!Sidecar(r) PROVE G
  BY <1>2, WindowFacts DEF Sv!Sidecar, Sv!Carveout, Sv!Answer
<1>3. ASSUME NEW r \in Readers, Sv!GateEnter(r) PROVE G
  BY <1>3 DEF Sv!GateEnter
<1>4. ASSUME NEW r \in Readers, Sv!GateLock(r) PROVE G
  BY <1>4 DEF Sv!GateLock, Sv!GateFree
<1>5. ASSUME NEW r \in Readers, Sv!Bless(r) PROVE G
  BY <1>5, WindowFacts DEF Sv!Bless
<1>6. ASSUME NEW r \in Readers, Sv!GateLeave(r) PROVE G
  BY <1>6 DEF Sv!GateLeave
<1>7. ASSUME NEW r \in Readers, Sv!GateDrop(r) PROVE G
  BY <1>7 DEF Sv!GateDrop, Sv!Answer
<1>8. ASSUME NEW r \in Readers, Sv!Produce(r) PROVE G
  BY <1>8, WindowFacts DEF Sv!Produce
<1>9. ASSUME NEW r \in Readers, Sv!Verify(r) PROVE G
  BY <1>9 DEF Sv!Verify, Sv!Answer
<1>10. ASSUME NEW r \in Readers, Sv!Attribute(r) PROVE G
  BY <1>10 DEF Sv!Attribute, Sv!Answer
<1>11. ASSUME NEW l \in Leaves, Sv!Rot(l) \/ Sv!Repair(l) PROVE G
  BY <1>11 DEF Sv!Rot, Sv!Repair
<1>12. ASSUME Sv!Materialize PROVE G
  BY <1>12 DEF Sv!Materialize
<1> QED
  BY <1>1, <1>2, <1>3, <1>4, <1>5, <1>6, <1>7, <1>8, <1>9, <1>10, <1>11, <1>12 DEF Sv!SVNext

LEMMA SvRestsStill == SvInv /\ UNCHANGED SvVars => SvInv'
<1> SUFFICES ASSUME SvInv, UNCHANGED SvVars PROVE SvInv'
  OBVIOUS
<1>1. SvType' /\ GateShared' /\ BlessedFirst'
  BY DEF SvInv, SvVars, SvType, GateShared, BlessedFirst
<1>2. RotIsCause' /\ (Sv!ServedBytesTrue)'
  BY DEF SvInv, SvVars, RotIsCause, Sv!ServedBytesTrue
<1> QED
  BY <1>1, <1>2 DEF SvInv

LEMMA ServeCardinality ==
    ASSUME NEW T
    PROVE  Sv!Cardinality(T) = Cardinality(T)
BY DEF Sv!Cardinality, Cardinality

LEMMA SvSuffices == SvInv => ServedTrue
<1> SUFFICES ASSUME SvInv PROVE Sv!ServedBytesTrue /\ Sv!BlessedOnce /\ Sv!EioHasACause
  BY DEF ServedTrue
<1> DEFINE at0 == {r \in Readers : rpc[r] = "bless"}
<1>1. at0 = {} \/ \E r \in Readers : at0 = {r}
  BY DEF SvInv, GateShared
<1>2. Sv!Cardinality(at0) = Cardinality(at0)
  BY ServeCardinality
<1>3. Cardinality(at0) <= 1
  <2> HIDE DEF at0
  <2>1. CASE at0 = {}
    <3>1. Cardinality(at0) = 0
      BY <2>1, FS_EmptySet
    <3> QED BY <3>1
  <2>2. ASSUME NEW r \in Readers, at0 = {r} PROVE Cardinality(at0) <= 1
    <3>1. Cardinality({r}) = 1
      BY FS_Singleton
    <3> QED BY <2>2, <3>1
  <2> QED BY <1>1, <2>1, <2>2
<1>4. Sv!BlessedOnce
  BY <1>2, <1>3 DEF Sv!BlessedOnce, SvInv, BlessedFirst
<1> QED
  BY <1>4 DEF SvInv, RotIsCause, Sv!EioHasACause

----------------------------------------------------------------------------
(* The blessing pass.                                                       *)

BlReport ==
    [population : Nat, examined : Nat, already : Nat, reconciled : Nat, carved : Nat, noRoute : Nat,
     selected : Nat, blessed : Nat, materialized : Nat, unrecorded : Nat, outOfRoom : BOOLEAN,
     failed : SUBSET (1 .. Corpus), poisoned : Nat]
BlResult == [job : 1 .. Corpus, outcome : {"there", "made", "full", "disproved", "broken"}]
BlWalk ==
    [pc : {"walk", "done"}, page : SUBSET (1 .. Corpus), cursor : Nat, walking : BOOLEAN,
     held : 0 .. Corpus, inflight : Int]

BlType ==
    /\ rows \in [1 .. Corpus -> {"absent", "resident"}]
    /\ verdict \in [1 .. Corpus -> {"verified", "replayed", "failed"}]
    /\ blessWalk \in BlWalk /\ blessQueue \in Seq(1 .. Corpus) /\ working \in [Pool -> 0 .. Corpus]
    /\ results \in Seq(BlResult) /\ blessReport \in BlReport /\ moved \in SUBSET (1 .. Corpus)
    /\ blessReport.population = Corpus

\* The elements of a queue, each there once; and the jobs of a channel of verdicts.
Elements(q) == {q[i] : i \in DOMAIN q}
Once(q) == \A i, k \in DOMAIN q : q[i] = q[k] => i = k
JobsIn(q) == {q[i].job : i \in DOMAIN q}
OncePerJob(q) == \A i, k \in DOMAIN q : q[i].job = q[k].job => i = k

\* The jobs that wait, that a worker has in hand, and that have a verdict.
Waiting == Elements(blessQueue)
InHand == {working[w] : w \in {v \in Pool : working[v] # 0}}
Judged == JobsIn(results)
Flying == Waiting \cup InHand \cup Judged

\* A job is in one place.
JobsApart ==
    /\ Once(blessQueue) /\ OncePerJob(results)
    /\ \A v, w \in Pool : working[v] = working[w] /\ working[v] # 0 => v = w
    /\ Waiting \cap InHand = {} /\ Waiting \cap Judged = {} /\ InHand \cap Judged = {}

\* What the walk has taken from its page is behind it.
Behind ==
    /\ blessWalk.held \notin Flying
    /\ \A b \in blessWalk.page : b <= blessWalk.cursor
    /\ \A b \in Flying : b <= blessWalk.cursor /\ b \notin blessWalk.page
    /\ blessWalk.held <= blessWalk.cursor /\ blessWalk.held \notin blessWalk.page

\* The budget is charged with what is in flight.
Charged ==
    /\ blessWalk.inflight = Cardinality(Bl!TreeBytes(Flying))
    /\ blessWalk.inflight <= TreeCap \/ \E b \in Flying : Flying = {b}

\* A job at work is about bytes that are not there yet, and a verdict tells what is there.
JobsTrue ==
    /\ \A b \in (Waiting \cup InHand \cup ({blessWalk.held} \ {0})) \ moved : options.materialize => b \notin blessDisk
    /\ \A i \in DOMAIN results : results[i].job \notin moved =>
        /\ results[i].outcome = "made" =>
            IF options.materialize THEN results[i].job \in blessDisk ELSE results[i].job \in trees
        /\ results[i].outcome = "there" => ~options.materialize /\ results[i].job \in trees

BlSettled(b) ==
    \/ rows[b] = "resident" /\ b \in blessDisk
    \/ b \in trees /\ ~options.materialize
    \/ kinds[b] = "lost" \/ (kinds[b] = "affine" /\ ~options.affine)

\* Each blob is examined once at most, and what was examined and left alone since is settled,
\* under way, or told of in the report.
Accounted ==
    \E seen \in SUBSET (1 .. Corpus) :
        /\ Cardinality(seen) = blessReport.examined
        /\ \A b \in seen : b <= blessWalk.cursor /\ b \notin blessWalk.page
        /\ \A b \in seen \ moved :
            \/ BlSettled(b) \/ b \in Flying \/ b = blessWalk.held
            \/ blessReport.failed # {} \/ (options.dry /\ blessReport.selected > 0)

\* A dry pass does nothing; a full disk is in the report; a pass that is over left nothing.
PassShape ==
    /\ options.dry => Flying = {} /\ blessWalk.held = 0 /\ blessReport.blessed = 0
    /\ blessReport.outOfRoom => blessReport.failed # {}
    /\ blessWalk.pc = "done" => Flying = {} /\ blessWalk.held = 0 /\ ~blessWalk.walking

\* Undisturbed, the walk goes through the ids one after the other, and stops at the last.
Orderly ==
    options.limit = 0 /\ blessReport.unrecorded = 0 /\ ~blessReport.outOfRoom /\ moved = {} =>
        /\ blessReport.examined <= blessWalk.cursor /\ blessWalk.cursor <= Corpus
        /\ blessWalk.page = blessReport.examined + 1 .. blessWalk.cursor
        /\ \A b \in 1 .. Corpus : b > blessWalk.cursor => rows[b] # "resident" /\ verdict[b] # "failed"
        /\ ~blessWalk.walking => blessReport.examined = Corpus

BlInv == BlType /\ JobsApart /\ Behind /\ Charged /\ JobsTrue /\ Accounted /\ PassShape /\ Orderly

\* Cardinalities, smallest and largest elements.
LEMMA BlessCardinality ==
    ASSUME NEW T
    PROVE  Bl!Cardinality(T) = Cardinality(T)
BY DEF Bl!Cardinality, Cardinality

LEMMA CorpusFinite ==
    ASSUME NEW T \in SUBSET (1 .. Corpus)
    PROVE  IsFiniteSet(T) /\ Cardinality(T) \in Nat /\ Cardinality(T) <= Corpus
           /\ (Cardinality(T) = Corpus => T = 1 .. Corpus)
<1>1. Corpus \in Nat /\ 1 \in Int /\ Corpus \in Int
  BY ContentAssumption
<1>2. IsFiniteSet(1 .. Corpus) /\ Cardinality(1 .. Corpus) = Corpus
  BY <1>1, FS_Interval
<1>3. IsFiniteSet(T) /\ Cardinality(T) <= Cardinality(1 .. Corpus)
      /\ (Cardinality(1 .. Corpus) = Cardinality(T) => 1 .. Corpus = T)
  BY <1>2, FS_Subset
<1>4. Cardinality(T) \in Nat
  BY <1>3, FS_CardinalityType
<1> QED
  BY <1>2, <1>3, <1>4

LEMMA SmallestId ==
    ASSUME NEW T \in SUBSET (1 .. Corpus), T # {}
    PROVE  Bl!Min(T) \in T /\ \A b \in T : Bl!Min(T) <= b
<1>1. T \subseteq Nat
  BY ContentAssumption
<1>2. PICK c \in T : \A d \in T : ~ (<<d, c>> \in OpToRel(<, Nat))
  BY <1>1, NatLessThanWellFounded, WFMin, Zenon
<1>3. \A d \in T : c <= d
  <2> TAKE d \in T
  <2>1. c \in Nat /\ d \in Nat
    BY <1>1
  <2>2. ~(d < c)
    BY <1>2, <2>1 DEF OpToRel
  <2> QED BY <2>1, <2>2
<1> QED
  BY <1>3 DEF Bl!Min

LEMMA LargestId ==
    ASSUME NEW T \in SUBSET (1 .. Corpus), T # {}
    PROVE  Bl!Max(T) \in T /\ \A b \in T : Bl!Max(T) >= b
<1> DEFINE below == {Corpus - b : b \in T}
<1>0. Corpus \in Nat
  BY ContentAssumption
<1>1. below \subseteq Nat /\ below # {}
  BY <1>0
<1>2. PICK c \in below : \A d \in below : ~ (<<d, c>> \in OpToRel(<, Nat))
  <2> HIDE DEF below
  <2> QED BY <1>1, NatLessThanWellFounded, WFMin, Zenon
<1>3. PICK m \in T : c = Corpus - m
  OBVIOUS
<1>4. \A d \in T : m >= d
  <2> TAKE d \in T
  <2>1. Corpus - d \in below /\ Corpus - d \in Nat /\ c \in Nat
    BY <1>0, <1>1
  <2>2. ~(Corpus - d < c)
    BY <1>2, <2>1 DEF OpToRel
  <2>3. m \in Int /\ d \in Int
    OBVIOUS
  <2> QED BY <1>0, <1>3, <2>1, <2>2, <2>3
<1> QED
  BY <1>4 DEF Bl!Max

\* The charge: a job adds its own weight and takes it away again.
LEMMA TreeBytesFinite ==
    ASSUME NEW T \in SUBSET (1 .. Corpus)
    PROVE  IsFiniteSet(Bl!TreeBytes(T)) /\ Cardinality(Bl!TreeBytes(T)) \in Nat
<1> DEFINE of == [b \in T |-> {b} \X (1 .. CorpusWeight[b])]
           all == {of[b] : b \in T}
<1>1. of \in Surjection(T, all)
  BY DEF Surjection
<1>2. IsFiniteSet(T)
  BY CorpusFinite
<1>3. IsFiniteSet(all)
  <2> HIDE DEF of, all
  <2> QED BY <1>1, <1>2, FS_Surjection
<1>4. \A b \in T : IsFiniteSet({b} \X (1 .. CorpusWeight[b]))
  <2> TAKE b \in T
  <2>1. CorpusWeight[b] \in Int /\ 1 \in Int
    BY ContentAssumption
  <2>2. IsFiniteSet(1 .. CorpusWeight[b]) /\ IsFiniteSet({b})
    BY <2>1, FS_Interval, FS_Singleton
  <2> QED BY <2>2, FS_Product
<1>5. \A t \in all : IsFiniteSet(t)
  BY <1>4
<1>6. IsFiniteSet(UNION all)
  <2> HIDE DEF all
  <2> QED BY <1>3, <1>5, FS_UNION
<1>7. Bl!TreeBytes(T) = UNION all
  BY DEF Bl!TreeBytes
<1>8. IsFiniteSet(Bl!TreeBytes(T))
  BY <1>6, <1>7
<1> QED
  BY <1>8, FS_CardinalityType

LEMMA TreeBytesAdd ==
    ASSUME NEW T \in SUBSET (1 .. Corpus), NEW b \in 1 .. Corpus, b \notin T
    PROVE  Cardinality(Bl!TreeBytes(T \cup {b})) = Cardinality(Bl!TreeBytes(T)) + CorpusWeight[b]
<1> DEFINE A0 == Bl!TreeBytes(T)
           B0 == {b} \X (1 .. CorpusWeight[b])
<1>1. Bl!TreeBytes(T \cup {b}) = A0 \cup B0
  BY DEF Bl!TreeBytes
<1>2. A0 \cap B0 = {}
  BY DEF Bl!TreeBytes
<1>3. IsFiniteSet(A0) /\ Cardinality(A0) \in Nat
  BY TreeBytesFinite
<1>4. CorpusWeight[b] \in Nat \ {0} /\ 1 \in Int
  BY ContentAssumption
<1>5. /\ IsFiniteSet(1 .. CorpusWeight[b]) /\ Cardinality(1 .. CorpusWeight[b]) = CorpusWeight[b]
      /\ IsFiniteSet({b}) /\ Cardinality({b}) = 1
  <2>1. IsFiniteSet({b}) /\ Cardinality({b}) = 1
    BY FS_Singleton
  <2>2. CorpusWeight[b] \in Int /\ ~(1 > CorpusWeight[b]) /\ CorpusWeight[b] - 1 + 1 = CorpusWeight[b]
    BY <1>4
  <2>3. IsFiniteSet(1 .. CorpusWeight[b]) /\ Cardinality(1 .. CorpusWeight[b]) = CorpusWeight[b]
    BY <1>4, <2>2, FS_Interval
  <2> QED BY <2>1, <2>3
<1>6. IsFiniteSet(B0) /\ Cardinality(B0) = CorpusWeight[b]
  <2>1. IsFiniteSet(B0) /\ Cardinality(B0) = Cardinality({b}) * Cardinality(1 .. CorpusWeight[b])
    BY <1>5, FS_Product
  <2> QED BY <1>4, <1>5, <2>1
<1>7. Cardinality(A0 \cap B0) = 0
  BY <1>2, FS_EmptySet
<1> HIDE DEF A0, B0
<1>8. Cardinality(A0 \cup B0) = Cardinality(A0) + Cardinality(B0) - Cardinality(A0 \cap B0)
  BY <1>3, <1>6, FS_Union
<1>9. Cardinality(A0 \cup B0) = Cardinality(A0) + CorpusWeight[b]
  BY <1>3, <1>4, <1>6, <1>7, <1>8
<1> QED
  BY <1>1, <1>9 DEF A0

LEMMA TreeBytesRemove ==
    ASSUME NEW T \in SUBSET (1 .. Corpus), NEW b \in T
    PROVE  Cardinality(Bl!TreeBytes(T \ {b})) = Cardinality(Bl!TreeBytes(T)) - CorpusWeight[b]
<1>1. T \ {b} \in SUBSET (1 .. Corpus) /\ b \in 1 .. Corpus /\ b \notin T \ {b} /\ (T \ {b}) \cup {b} = T
  OBVIOUS
<1>2. Cardinality(Bl!TreeBytes(T)) = Cardinality(Bl!TreeBytes(T \ {b})) + CorpusWeight[b]
  BY <1>1, TreeBytesAdd
<1>3. CorpusWeight[b] \in Nat /\ Cardinality(Bl!TreeBytes(T \ {b})) \in Nat
  BY <1>1, TreeBytesFinite, ContentAssumption
<1> QED
  BY <1>2, <1>3

\* Nothing is charged only when nothing flies, since every tree has a byte.
LEMMA TreeBytesNone ==
    ASSUME NEW T \in SUBSET (1 .. Corpus)
    PROVE  Cardinality(Bl!TreeBytes(T)) = 0 <=> T = {}
<1>1. ASSUME NEW b \in T PROVE <<b, 1>> \in Bl!TreeBytes(T)
  <2>1. CorpusWeight[b] \in Nat \ {0}
    BY ContentAssumption
  <2> QED BY <2>1 DEF Bl!TreeBytes
<1>2. T = {} => Bl!TreeBytes(T) = {}
  BY DEF Bl!TreeBytes
<1>3. Cardinality(Bl!TreeBytes(T)) = 0 <=> Bl!TreeBytes(T) = {}
  BY TreeBytesFinite, FS_EmptySet
<1> QED
  BY <1>1, <1>2, <1>3

\* Counting one field of the report leaves the others alone.
LEMMA BlCounted ==
    ASSUME NEW r \in BlReport
    PROVE  /\ \A f \in {"already", "reconciled", "carved", "noRoute"} :
                /\ Bl!Counted(r, f) \in BlReport
                /\ \A g \in {"population", "examined", "selected", "blessed", "unrecorded", "outOfRoom", "failed"} :
                    Bl!Counted(r, f)[g] = r[g]
           /\ /\ Bl!Counted(r, "examined") \in BlReport /\ Bl!Counted(r, "examined").examined = r.examined + 1
              /\ \A g \in {"population", "selected", "blessed", "unrecorded", "outOfRoom", "failed"} :
                    Bl!Counted(r, "examined")[g] = r[g]
           /\ /\ Bl!Counted(r, "selected") \in BlReport /\ Bl!Counted(r, "selected").selected = r.selected + 1
              /\ \A g \in {"population", "examined", "blessed", "unrecorded", "outOfRoom", "failed"} :
                    Bl!Counted(r, "selected")[g] = r[g]
           /\ /\ Bl!Counted(r, "blessed") \in BlReport /\ Bl!Counted(r, "blessed").blessed = r.blessed + 1
              /\ \A g \in {"population", "examined", "selected", "unrecorded", "outOfRoom", "failed"} :
                    Bl!Counted(r, "blessed")[g] = r[g]
<1> USE DEF Bl!Counted, BlReport
<1>1. ASSUME NEW f \in {"already", "reconciled", "carved", "noRoute"}
      PROVE  /\ Bl!Counted(r, f) \in BlReport
             /\ \A g \in {"population", "examined", "selected", "blessed", "unrecorded", "outOfRoom", "failed"} :
                    Bl!Counted(r, f)[g] = r[g]
  <2>1. CASE f = "already" BY <2>1
  <2>2. CASE f = "reconciled" BY <2>2
  <2>3. CASE f = "carved" BY <2>3
  <2>4. CASE f = "noRoute" BY <2>4
  <2> QED BY <1>1, <2>1, <2>2, <2>3, <2>4
<1>2. /\ Bl!Counted(r, "examined") \in BlReport /\ Bl!Counted(r, "examined").examined = r.examined + 1
      /\ \A g \in {"population", "selected", "blessed", "unrecorded", "outOfRoom", "failed"} :
            Bl!Counted(r, "examined")[g] = r[g]
  OBVIOUS
<1>3. /\ Bl!Counted(r, "selected") \in BlReport /\ Bl!Counted(r, "selected").selected = r.selected + 1
      /\ \A g \in {"population", "examined", "blessed", "unrecorded", "outOfRoom", "failed"} :
            Bl!Counted(r, "selected")[g] = r[g]
  OBVIOUS
<1>4. /\ Bl!Counted(r, "blessed") \in BlReport /\ Bl!Counted(r, "blessed").blessed = r.blessed + 1
      /\ \A g \in {"population", "examined", "selected", "unrecorded", "outOfRoom", "failed"} :
            Bl!Counted(r, "blessed")[g] = r[g]
  OBVIOUS
<1> QED
  BY <1>1, <1>2, <1>3, <1>4

LEMMA SeqElements ==
    ASSUME NEW T, NEW q \in Seq(T)
    PROVE  \A i \in DOMAIN q : q[i] \in T
OBVIOUS

\* Queues: a new element at the end, the first one gone.
LEMMA AppendIndices ==
    ASSUME NEW T, NEW q \in Seq(T), NEW e \in T
    PROVE  /\ Len(q) \in Nat /\ DOMAIN q = 1 .. Len(q) /\ DOMAIN Append(q, e) = 1 .. Len(q) + 1
           /\ \A i \in 1 .. Len(q) : i \in 1 .. Len(q) + 1 /\ Append(q, e)[i] = q[i]
           /\ Len(q) + 1 \in 1 .. Len(q) + 1 /\ Append(q, e)[Len(q) + 1] = e
           /\ \A i \in 1 .. Len(q) + 1 : i \in 1 .. Len(q) \/ i = Len(q) + 1
<1>1. /\ Len(q) \in Nat /\ DOMAIN q = 1 .. Len(q) /\ DOMAIN Append(q, e) = 1 .. Len(q) + 1
      /\ \A i \in 1 .. Len(q) : Append(q, e)[i] = q[i]
      /\ Append(q, e)[Len(q) + 1] = e
  OBVIOUS
<1>2. \A i \in 1 .. Len(q) + 1 : i \in 1 .. Len(q) \/ i = Len(q) + 1
  BY <1>1
<1>3. \A i \in 1 .. Len(q) : i \in 1 .. Len(q) + 1
  BY <1>1
<1>4. Len(q) + 1 \in 1 .. Len(q) + 1
  BY <1>1
<1> QED
  BY <1>1, <1>2, <1>3, <1>4

LEMMA AppendElements ==
    ASSUME NEW T, NEW q \in Seq(T), NEW e \in T
    PROVE  Elements(Append(q, e)) = Elements(q) \cup {e}
BY AppendIndices DEF Elements

LEMMA AppendOnce ==
    ASSUME NEW T, NEW q \in Seq(T), NEW e \in T, Once(q), e \notin Elements(q)
    PROVE  Once(Append(q, e))
BY AppendIndices DEF Elements, Once

LEMMA TailFacts ==
    ASSUME NEW T, NEW q \in Seq(T), q # <<>>
    PROVE  /\ Len(q) \in Nat /\ DOMAIN q = 1 .. Len(q) /\ 1 \in DOMAIN q /\ q[1] = Head(q) /\ Head(q) \in T
           /\ Tail(q) \in Seq(T) /\ DOMAIN Tail(q) = 1 .. Len(q) - 1
           /\ \A i \in 1 .. Len(q) - 1 : i + 1 \in DOMAIN q /\ Tail(q)[i] = q[i + 1]
           /\ \A i \in DOMAIN q : i # 1 => i - 1 \in DOMAIN Tail(q) /\ Tail(q)[i - 1] = q[i]
OBVIOUS

LEMMA TailOnce ==
    ASSUME NEW T, NEW q \in Seq(T), q # <<>>, Once(q)
    PROVE  /\ Head(q) \in Elements(q) /\ Elements(Tail(q)) = Elements(q) \ {Head(q)}
           /\ Once(Tail(q))
<1>1. Head(q) \in Elements(q)
  BY TailFacts DEF Elements
<1>2. ASSUME NEW i \in DOMAIN Tail(q)
      PROVE  i + 1 \in DOMAIN q /\ Tail(q)[i] = q[i + 1] /\ Tail(q)[i] # Head(q)
  <2>1. i + 1 \in DOMAIN q /\ Tail(q)[i] = q[i + 1] /\ i + 1 # 1
    BY TailFacts
  <2> QED BY <2>1, TailFacts DEF Once
<1>3. Elements(Tail(q)) = Elements(q) \ {Head(q)}
  <2>1. ASSUME NEW i \in DOMAIN q, q[i] # Head(q) PROVE q[i] \in Elements(Tail(q))
    BY <2>1, TailFacts DEF Elements
  <2> QED BY <1>2, <2>1 DEF Elements
<1>4. ASSUME NEW i \in DOMAIN Tail(q), NEW k \in DOMAIN Tail(q), Tail(q)[i] = Tail(q)[k] PROVE i = k
  <2>1. i + 1 = k + 1
    BY <1>2, <1>4 DEF Once
  <2>2. i \in Nat /\ k \in Nat
    BY TailFacts
  <2> QED BY <2>1, <2>2
<1> QED
  BY <1>1, <1>3, <1>4 DEF Once

LEMMA AppendOncePerJob ==
    ASSUME NEW q \in Seq(BlResult), NEW e \in BlResult
    PROVE  /\ JobsIn(Append(q, e)) = JobsIn(q) \cup {e.job}
           /\ OncePerJob(q) /\ e.job \notin JobsIn(q) => OncePerJob(Append(q, e))
           /\ \A i \in DOMAIN Append(q, e) : Append(q, e)[i] = e \/ \E k \in DOMAIN q : Append(q, e)[i] = q[k]
<1>1. /\ Len(q) \in Nat /\ DOMAIN q = 1 .. Len(q) /\ DOMAIN Append(q, e) = 1 .. Len(q) + 1
      /\ \A i \in 1 .. Len(q) : Append(q, e)[i] = q[i]
      /\ Append(q, e)[Len(q) + 1] = e
  OBVIOUS
<1>2. \A i \in 1 .. Len(q) + 1 : i \in 1 .. Len(q) \/ i = Len(q) + 1
  BY <1>1
<1>3. \A i \in 1 .. Len(q) : i \in 1 .. Len(q) + 1
  BY <1>1
<1>4. Len(q) + 1 \in 1 .. Len(q) + 1
  BY <1>1
<1> QED
  BY <1>1, <1>2, <1>3, <1>4 DEF JobsIn, OncePerJob

LEMMA TailOncePerJob ==
    ASSUME NEW q \in Seq(BlResult), q # <<>>, OncePerJob(q)
    PROVE  /\ Head(q).job \in JobsIn(q) /\ JobsIn(Tail(q)) = JobsIn(q) \ {Head(q).job}
           /\ OncePerJob(Tail(q))
           /\ \A i \in DOMAIN Tail(q) : \E k \in DOMAIN q : Tail(q)[i] = q[k]
           /\ \E k \in DOMAIN q : Head(q) = q[k]
<1>1. Head(q).job \in JobsIn(q) /\ \E k \in DOMAIN q : Head(q) = q[k]
  BY TailFacts DEF JobsIn
<1>2. ASSUME NEW i \in DOMAIN Tail(q)
      PROVE  i + 1 \in DOMAIN q /\ Tail(q)[i] = q[i + 1] /\ Tail(q)[i].job # Head(q).job
  <2>1. i + 1 \in DOMAIN q /\ Tail(q)[i] = q[i + 1] /\ i + 1 # 1
    BY TailFacts
  <2> QED BY <2>1, TailFacts DEF OncePerJob
<1>3. JobsIn(Tail(q)) = JobsIn(q) \ {Head(q).job}
  <2>1. ASSUME NEW i \in DOMAIN q, q[i].job # Head(q).job PROVE q[i].job \in JobsIn(Tail(q))
    BY <2>1, TailFacts DEF JobsIn
  <2> QED BY <1>2, <2>1 DEF JobsIn
<1>4. ASSUME NEW i \in DOMAIN Tail(q), NEW k \in DOMAIN Tail(q), Tail(q)[i].job = Tail(q)[k].job PROVE i = k
  <2>1. i + 1 = k + 1
    BY <1>2, <1>4 DEF OncePerJob
  <2>2. i \in Nat /\ k \in Nat
    BY TailFacts
  <2> QED BY <2>1, <2>2
<1> QED
  BY <1>1, <1>2, <1>3, <1>4 DEF OncePerJob

\* The jobs are blobs of the corpus.
LEMMA FlyingType ==
    ASSUME BlType
    PROVE  Waiting \subseteq 1 .. Corpus /\ InHand \subseteq 1 .. Corpus /\ Judged \subseteq 1 .. Corpus
           /\ Flying \in SUBSET (1 .. Corpus) /\ 0 \notin Flying
<1>1. Waiting \subseteq 1 .. Corpus
  <2>1. \A i \in DOMAIN blessQueue : blessQueue[i] \in 1 .. Corpus
    BY SeqElements DEF BlType
  <2> QED BY <2>1, Zenon DEF Waiting, Elements
<1>2. InHand \subseteq 1 .. Corpus
  BY ContentAssumption DEF InHand, BlType
<1>3. Judged \subseteq 1 .. Corpus
  <2>1. \A i \in DOMAIN results : results[i] \in BlResult
    BY DEF BlType
  <2>2. \A i \in DOMAIN results : results[i].job \in 1 .. Corpus
    BY <2>1 DEF BlResult
  <2> QED BY <2>2, Zenon DEF Judged, JobsIn
<1> QED
  BY <1>1, <1>2, <1>3 DEF Flying

\* dispatch: one more job waits.
LEMMA Launched ==
    ASSUME BlType, JobsApart, NEW b \in 1 .. Corpus, b \notin Flying,
           blessQueue' = Append(blessQueue, b), UNCHANGED <<working, results>>
    PROVE  /\ Waiting' = Waiting \cup {b} /\ InHand' = InHand /\ Judged' = Judged
           /\ Flying' = Flying \cup {b} /\ JobsApart'
<1>1. Waiting' = Waiting \cup {b} /\ Once(blessQueue')
  <2>1. PICK ids : ids = 1 .. Corpus
    OBVIOUS
  <2>2. PICK q : q = blessQueue
    OBVIOUS
  <2>3. q \in Seq(ids) /\ b \in ids /\ Once(q) /\ b \notin Elements(q)
    BY <2>1, <2>2 DEF BlType, Waiting, Flying, JobsApart
  <2>4. Elements(Append(q, b)) = Elements(q) \cup {b}
    BY <2>3, AppendElements
  <2>5. Once(Append(q, b))
    BY <2>3, AppendOnce
  <2> QED BY <2>2, <2>4, <2>5, Zenon DEF Waiting
<1>2. InHand' = InHand /\ Judged' = Judged
  BY DEF InHand, Judged
<1>3. Flying' = Flying \cup {b}
  BY <1>1, <1>2 DEF Flying
<1> QED
  BY <1>1, <1>2, <1>3 DEF JobsApart, Flying

\* A worker takes the first job.
LEMMA Taken ==
    ASSUME BlType, JobsApart, NEW w \in Pool, Bl!TakeJob(w)
    PROVE  /\ Waiting' = Waiting \ {Head(blessQueue)} /\ InHand' = InHand \cup {Head(blessQueue)}
           /\ Judged' = Judged /\ Flying' = Flying /\ JobsApart' /\ Head(blessQueue) \in Waiting
<1> DEFINE h == Head(blessQueue)
<1>1. blessQueue # <<>> /\ working[w] = 0 /\ working' = [working EXCEPT ![w] = h]
      /\ blessQueue' = Tail(blessQueue) /\ UNCHANGED results
  BY DEF Bl!TakeJob
<1>2. h \in Waiting /\ Waiting' = Waiting \ {h} /\ Once(blessQueue')
  BY <1>1, TailOnce DEF BlType, JobsApart, Waiting
<1>3. h \in 1 .. Corpus /\ h # 0
  BY <1>2, FlyingType, ContentAssumption
<1> HIDE DEF h
<1>4. \A v \in Pool : working'[v] = IF v = w THEN h ELSE working[v]
  BY <1>1 DEF BlType
<1>5. InHand' = InHand \cup {h}
  BY <1>1, <1>3, <1>4 DEF InHand
<1>6. Judged' = Judged
  BY <1>1 DEF Judged
<1>7. Flying' = Flying
  BY <1>2, <1>5, <1>6 DEF Flying
<1>8. \A v, u \in Pool : working'[v] = working'[u] /\ working'[v] # 0 => v = u
  <2>1. \A v \in Pool : working[v] # h
    BY <1>2, <1>3 DEF JobsApart, InHand
  <2> QED BY <1>4, <2>1 DEF JobsApart
<1> QED
  BY <1>1, <1>2, <1>5, <1>6, <1>7, <1>8 DEF JobsApart, h

\* A worker tells its verdict.
LEMMA Finished ==
    ASSUME BlType, JobsApart, NEW w \in Pool, working[w] # 0, NEW e \in BlResult, e.job = working[w],
           results' = Append(results, e), working' = [working EXCEPT ![w] = 0], UNCHANGED blessQueue
    PROVE  /\ Waiting' = Waiting /\ InHand' = InHand \ {working[w]} /\ Judged' = Judged \cup {working[w]}
           /\ Flying' = Flying /\ JobsApart' /\ working[w] \in InHand
<1>1. working[w] \in InHand
  BY DEF InHand
<1>2. Judged' = Judged \cup {working[w]} /\ OncePerJob(results')
  BY <1>1, AppendOncePerJob DEF BlType, JobsApart, Judged
<1>3. \A v \in Pool : working'[v] = IF v = w THEN 0 ELSE working[v]
  BY DEF BlType
<1>4. InHand' = InHand \ {working[w]}
  BY <1>3 DEF InHand, JobsApart
<1>5. Waiting' = Waiting
  BY DEF Waiting
<1>6. Flying' = Flying
  BY <1>1, <1>2, <1>4, <1>5 DEF Flying
<1>7. \A v, u \in Pool : working'[v] = working'[u] /\ working'[v] # 0 => v = u
  BY <1>3 DEF JobsApart
<1> QED
  BY <1>1, <1>2, <1>4, <1>5, <1>6, <1>7 DEF JobsApart

\* The coordinator takes the first verdict.
LEMMA Received ==
    ASSUME BlType, JobsApart, results # <<>>, results' = Tail(results), UNCHANGED <<working, blessQueue>>
    PROVE  /\ Waiting' = Waiting /\ InHand' = InHand /\ Judged' = Judged \ {Head(results).job}
           /\ Flying' = Flying \ {Head(results).job} /\ JobsApart' /\ Head(results).job \in Judged
           /\ Head(results) \in BlResult /\ results' \in Seq(BlResult)
           /\ \E k \in DOMAIN results : Head(results) = results[k]
           /\ \A i \in DOMAIN results' : \E k \in DOMAIN results : results'[i] = results[k]
<1> DEFINE b == Head(results).job
<1>1. /\ b \in Judged /\ Judged' = Judged \ {b} /\ OncePerJob(results')
      /\ \E k \in DOMAIN results : Head(results) = results[k]
      /\ \A i \in DOMAIN results' : \E k \in DOMAIN results : results'[i] = results[k]
  BY TailOncePerJob DEF BlType, JobsApart, Judged
<1>2. Head(results) \in BlResult /\ results' \in Seq(BlResult)
  BY TailFacts DEF BlType
<1>3. InHand' = InHand /\ Waiting' = Waiting
  BY DEF InHand, Waiting
<1>4. Flying' = Flying \ {b}
  BY <1>1, <1>3 DEF Flying, JobsApart
<1> QED
  BY <1>1, <1>2, <1>3, <1>4 DEF JobsApart

\* bless_triage: what is skipped is settled or in the report, and what is not is not there.
LEMMA SkippedFacts ==
    ASSUME NEW b
    PROVE  /\ Bl!Skipped(b) \in {"reconciled", "already", "noRoute", "failed", "carved", "no"}
           /\ Bl!Skipped(b) = "reconciled" => b \in blessDisk
           /\ Bl!Skipped(b) = "already" => b \in trees /\ ~options.materialize
           /\ Bl!Skipped(b) = "noRoute" => kinds[b] = "lost"
           /\ Bl!Skipped(b) = "carved" => kinds[b] = "affine" /\ ~options.affine
           /\ Bl!Skipped(b) = "no" => b \notin blessDisk
BY DEF Bl!Skipped

\* Examine: one blob leaves the page.
LEMMA ExamineFacts ==
    ASSUME BlType, Bl!Examine
    PROVE  \E b \in 1 .. Corpus :
           /\ b \in blessWalk.page /\ \A c \in blessWalk.page : b <= c
           /\ blessWalk.pc = "walk" /\ blessWalk.held = 0 /\ blessWalk.walking
           /\ UNCHANGED <<kinds, options, blessDisk, trees, verdict, working, results, moved>>
           /\ blessReport' \in BlReport /\ blessReport'.population = blessReport.population
           /\ blessReport'.examined = blessReport.examined + 1 /\ blessReport'.blessed = blessReport.blessed
           /\ blessReport'.unrecorded = blessReport.unrecorded
           /\ blessReport'.outOfRoom = blessReport.outOfRoom
           /\ blessReport.failed \subseteq blessReport'.failed
           /\ blessReport'.selected >= blessReport.selected
           /\ rows' \in [1 .. Corpus -> {"absent", "resident"}]
           /\ \A c \in 1 .. Corpus : c # b => rows'[c] = rows[c]
           /\ blessWalk' \in BlWalk /\ blessWalk'.pc = "walk" /\ blessWalk'.cursor = blessWalk.cursor
           /\ \/ blessWalk'.page = blessWalk.page \ {b} /\ blessWalk'.walking
              \/ options.limit # 0 /\ blessWalk'.page = {}
           /\ \/ /\ blessQueue' = blessQueue /\ blessWalk'.held = 0 /\ blessWalk'.inflight = blessWalk.inflight
                 /\ \/ rows'[b] = "resident" /\ b \in blessDisk
                    \/ rows' = rows /\ b \in trees /\ ~options.materialize
                    \/ rows' = rows /\ kinds[b] = "lost"
                    \/ rows' = rows /\ kinds[b] = "affine" /\ ~options.affine
                    \/ rows' = rows /\ blessReport'.failed # {}
                    \/ rows' = rows /\ options.dry /\ blessReport'.selected > 0
              \/ /\ rows' = rows /\ b \notin blessDisk /\ ~options.dry
                 /\ Bl!Admits(blessWalk.inflight, CorpusWeight[b]) /\ blessQueue' = Append(blessQueue, b)
                 /\ blessWalk'.held = 0 /\ blessWalk'.inflight = blessWalk.inflight + CorpusWeight[b]
              \/ /\ rows' = rows /\ b \notin blessDisk /\ ~options.dry
                 /\ blessQueue' = blessQueue /\ blessWalk'.held = b /\ blessWalk'.inflight = blessWalk.inflight
<1> DEFINE b == Bl!Min(blessWalk.page)
           why == Bl!Skipped(b)
           r == Bl!Counted(blessReport, "examined")
           sel == Bl!Counted(r, "selected")
           stop == options.limit # 0 /\ sel.selected >= options.limit
           on == [blessWalk EXCEPT !.page = IF why = "no" /\ stop THEN {} ELSE @ \ {b},
                                   !.walking = @ /\ ~(why = "no" /\ stop)]
<1>1. /\ blessWalk.pc = "walk" /\ blessWalk.held = 0 /\ blessWalk.walking /\ blessWalk.page # {}
      /\ rows' = IF why = "reconciled" THEN [rows EXCEPT ![b] = "resident"] ELSE rows
      /\ blessReport' = CASE why = "failed" -> [r EXCEPT !.failed = @ \cup {b}]
                          [] why = "no" -> sel
                          [] OTHER -> Bl!Counted(r, why)
      /\ IF why # "no" \/ options.dry THEN blessWalk' = on /\ UNCHANGED blessQueue
         ELSE IF Bl!Admits(on.inflight, CorpusWeight[b])
              THEN blessWalk' = [on EXCEPT !.inflight = @ + CorpusWeight[b]] /\ blessQueue' = Append(blessQueue, b)
              ELSE blessWalk' = [on EXCEPT !.held = b] /\ UNCHANGED blessQueue
      /\ UNCHANGED <<kinds, options, blessDisk, trees, verdict, working, results, moved>>
  BY Zenon DEF Bl!Examine, Bl!Walks
<1>2. b \in blessWalk.page /\ b \in 1 .. Corpus /\ \A c \in blessWalk.page : b <= c
  BY <1>1, SmallestId DEF BlType, BlWalk
<1>3. /\ why \in {"reconciled", "already", "noRoute", "failed", "carved", "no"}
      /\ why = "reconciled" => b \in blessDisk
      /\ why = "already" => b \in trees /\ ~options.materialize
      /\ why = "noRoute" => kinds[b] = "lost"
      /\ why = "carved" => kinds[b] = "affine" /\ ~options.affine
      /\ why = "no" => b \notin blessDisk
  BY SkippedFacts
<1>4. /\ r \in BlReport /\ r.population = blessReport.population
      /\ r.examined = blessReport.examined + 1 /\ r.blessed = blessReport.blessed
      /\ r.unrecorded = blessReport.unrecorded /\ r.outOfRoom = blessReport.outOfRoom
      /\ r.failed = blessReport.failed /\ r.selected = blessReport.selected
  BY BlCounted DEF BlType
<1> HIDE DEF r
<1>5. /\ sel \in BlReport /\ sel.population = blessReport.population
      /\ sel.examined = blessReport.examined + 1 /\ sel.blessed = blessReport.blessed
      /\ sel.unrecorded = blessReport.unrecorded /\ sel.outOfRoom = blessReport.outOfRoom
      /\ sel.failed = blessReport.failed /\ sel.selected = blessReport.selected + 1
  BY <1>4, BlCounted
<1>6. CorpusWeight[b] \in Nat
  BY <1>2, ContentAssumption
<1> HIDE DEF sel, why, b
<1>7. stop \in BOOLEAN /\ (stop => options.limit # 0)
  OBVIOUS
<1> HIDE DEF stop
<1>8. /\ on \in BlWalk /\ on.pc = blessWalk.pc /\ on.cursor = blessWalk.cursor /\ on.held = blessWalk.held
      /\ on.inflight = blessWalk.inflight
      /\ \/ on.page = blessWalk.page \ {b} /\ on.walking
         \/ options.limit # 0 /\ on.page = {}
  BY <1>1, <1>2, <1>7 DEF BlType, BlWalk
<1> DEFINE sent == [on EXCEPT !.inflight = @ + CorpusWeight[b]]
           kept == [on EXCEPT !.held = b]
<1>9. \A t \in {on, sent, kept} : t \in BlWalk /\ \A g \in {"pc", "page", "cursor", "walking"} : t[g] = on[g]
  <2> HIDE DEF on
  <2>1. PICK o \in BlWalk : o = on
    BY <1>8
  <2>2. PICK c \in 0 .. Corpus : c = b
    BY <1>2, ContentAssumption
  <2>3. PICK n \in Nat : n = CorpusWeight[b]
    BY <1>6
  <2>4. o.inflight + n \in Int
    BY DEF BlWalk
  <2>5. ASSUME NEW t, t = [o EXCEPT !.inflight = @ + n] \/ t = [o EXCEPT !.held = c]
        PROVE  t \in BlWalk /\ \A g \in {"pc", "page", "cursor", "walking"} : t[g] = o[g]
    BY <2>4, <2>5 DEF BlWalk
  <2> QED BY <2>1, <2>2, <2>3, <2>5
<1>10. /\ blessWalk' \in BlWalk /\ blessWalk'.pc = "walk" /\ blessWalk'.cursor = blessWalk.cursor
       /\ \/ blessWalk'.page = blessWalk.page \ {b} /\ blessWalk'.walking
          \/ options.limit # 0 /\ blessWalk'.page = {}
  <2> HIDE DEF on
  <2>1. blessWalk' \in {on, sent, kept}
    BY <1>1
  <2> HIDE DEF sent, kept
  <2>2. blessWalk' \in BlWalk /\ \A g \in {"pc", "page", "cursor", "walking"} : blessWalk'[g] = on[g]
    BY <1>9, <2>1
  <2> QED BY <1>1, <1>8, <2>2
<1>11. /\ blessReport' \in BlReport /\ blessReport'.population = blessReport.population
       /\ blessReport'.examined = blessReport.examined + 1 /\ blessReport'.blessed = blessReport.blessed
       /\ blessReport'.unrecorded = blessReport.unrecorded
       /\ blessReport'.outOfRoom = blessReport.outOfRoom
       /\ blessReport.failed \subseteq blessReport'.failed
       /\ blessReport'.selected >= blessReport.selected
       /\ why = "failed" => blessReport'.failed # {}
       /\ why = "no" => blessReport'.selected > 0
  <2>0. blessReport.selected \in Nat
    BY DEF BlType, BlReport
  <2>1. CASE why = "failed"
    <3>1. blessReport' = [r EXCEPT !.failed = @ \cup {b}]
      BY <1>1, <2>1
    <3> QED BY <1>2, <1>4, <2>0, <2>1, <3>1 DEF BlReport
  <2>2. CASE why = "no"
    <3>1. blessReport' = sel
      BY <1>1, <2>2
    <3> QED BY <1>5, <2>0, <2>2, <3>1
  <2>3. CASE why \in {"reconciled", "already", "noRoute", "carved"}
    <3>1. blessReport' = Bl!Counted(r, why)
      BY <1>1, <2>3
    <3>2. /\ Bl!Counted(r, why) \in BlReport
          /\ \A g \in {"population", "examined", "selected", "blessed", "unrecorded", "outOfRoom", "failed"} :
                    Bl!Counted(r, why)[g] = r[g]
      BY <1>4, <2>3, BlCounted
    <3>3. /\ blessReport'.population = r.population /\ blessReport'.examined = r.examined
          /\ blessReport'.selected = r.selected /\ blessReport'.blessed = r.blessed
          /\ blessReport'.unrecorded = r.unrecorded /\ blessReport'.outOfRoom = r.outOfRoom
          /\ blessReport'.failed = r.failed
      BY <3>1, <3>2
    <3> QED BY <1>4, <2>0, <2>3, <3>1, <3>2, <3>3
  <2> QED BY <1>3, <2>1, <2>2, <2>3
<1>12. /\ rows' \in [1 .. Corpus -> {"absent", "resident"}]
       /\ \A c \in 1 .. Corpus : c # b => rows'[c] = rows[c]
       /\ why = "reconciled" => rows'[b] = "resident"
       /\ why # "reconciled" => rows' = rows
  BY <1>1, <1>2 DEF BlType
<1>13. \/ /\ blessQueue' = blessQueue /\ blessWalk'.held = 0 /\ blessWalk'.inflight = blessWalk.inflight
          /\ why # "no" \/ options.dry
       \/ /\ why = "no" /\ ~options.dry
          /\ Bl!Admits(blessWalk.inflight, CorpusWeight[b]) /\ blessQueue' = Append(blessQueue, b)
          /\ blessWalk'.held = 0 /\ blessWalk'.inflight = blessWalk.inflight + CorpusWeight[b]
       \/ /\ why = "no" /\ ~options.dry
          /\ blessQueue' = blessQueue /\ blessWalk'.held = b /\ blessWalk'.inflight = blessWalk.inflight
  BY <1>1, <1>8 DEF BlWalk
<1> HIDE DEF on
<1>14. ASSUME why # "no" \/ options.dry
       PROVE  \/ rows'[b] = "resident" /\ b \in blessDisk
              \/ rows' = rows /\ b \in trees /\ ~options.materialize
              \/ rows' = rows /\ kinds[b] = "lost"
              \/ rows' = rows /\ kinds[b] = "affine" /\ ~options.affine
              \/ rows' = rows /\ blessReport'.failed # {}
              \/ rows' = rows /\ options.dry /\ blessReport'.selected > 0
  BY <1>3, <1>11, <1>12, <1>14
<1>15. why = "no" => rows' = rows /\ b \notin blessDisk
  BY <1>3, <1>12
<1> DEFINE Fate(x) ==
           \/ /\ blessQueue' = blessQueue /\ blessWalk'.held = 0 /\ blessWalk'.inflight = blessWalk.inflight
              /\ \/ rows'[x] = "resident" /\ x \in blessDisk
                 \/ rows' = rows /\ x \in trees /\ ~options.materialize
                 \/ rows' = rows /\ kinds[x] = "lost"
                 \/ rows' = rows /\ kinds[x] = "affine" /\ ~options.affine
                 \/ rows' = rows /\ blessReport'.failed # {}
                 \/ rows' = rows /\ options.dry /\ blessReport'.selected > 0
           \/ /\ rows' = rows /\ x \notin blessDisk /\ ~options.dry
              /\ Bl!Admits(blessWalk.inflight, CorpusWeight[x]) /\ blessQueue' = Append(blessQueue, x)
              /\ blessWalk'.held = 0 /\ blessWalk'.inflight = blessWalk.inflight + CorpusWeight[x]
           \/ /\ rows' = rows /\ x \notin blessDisk /\ ~options.dry
              /\ blessQueue' = blessQueue /\ blessWalk'.held = x /\ blessWalk'.inflight = blessWalk.inflight
<1>16. Fate(b)
  <2>1. CASE /\ blessQueue' = blessQueue /\ blessWalk'.held = 0 /\ blessWalk'.inflight = blessWalk.inflight
             /\ why # "no" \/ options.dry
    BY <1>14, <2>1, Zenon
  <2>2. CASE /\ why = "no" /\ ~options.dry
             /\ Bl!Admits(blessWalk.inflight, CorpusWeight[b]) /\ blessQueue' = Append(blessQueue, b)
             /\ blessWalk'.held = 0 /\ blessWalk'.inflight = blessWalk.inflight + CorpusWeight[b]
    BY <1>15, <2>2, Zenon
  <2>3. CASE /\ why = "no" /\ ~options.dry
             /\ blessQueue' = blessQueue /\ blessWalk'.held = b /\ blessWalk'.inflight = blessWalk.inflight
    BY <1>15, <2>3, Zenon
  <2> HIDE DEF Fate
  <2> QED BY <1>13, <2>1, <2>2, <2>3, Zenon
<1>17. /\ b \in blessWalk.page /\ \A c \in blessWalk.page : b <= c
       /\ blessWalk.pc = "walk" /\ blessWalk.held = 0 /\ blessWalk.walking
       /\ UNCHANGED <<kinds, options, blessDisk, trees, verdict, working, results, moved>>
  BY <1>1, <1>2
<1> SUFFICES \E x \in 1 .. Corpus :
       /\ x \in blessWalk.page /\ \A c \in blessWalk.page : x <= c
       /\ blessWalk.pc = "walk" /\ blessWalk.held = 0 /\ blessWalk.walking
       /\ UNCHANGED <<kinds, options, blessDisk, trees, verdict, working, results, moved>>
       /\ blessReport' \in BlReport /\ blessReport'.population = blessReport.population
       /\ blessReport'.examined = blessReport.examined + 1 /\ blessReport'.blessed = blessReport.blessed
       /\ blessReport'.unrecorded = blessReport.unrecorded
       /\ blessReport'.outOfRoom = blessReport.outOfRoom
       /\ blessReport.failed \subseteq blessReport'.failed
       /\ blessReport'.selected >= blessReport.selected
       /\ rows' \in [1 .. Corpus -> {"absent", "resident"}]
       /\ \A c \in 1 .. Corpus : c # x => rows'[c] = rows[c]
       /\ blessWalk' \in BlWalk /\ blessWalk'.pc = "walk" /\ blessWalk'.cursor = blessWalk.cursor
       /\ \/ blessWalk'.page = blessWalk.page \ {x} /\ blessWalk'.walking
          \/ options.limit # 0 /\ blessWalk'.page = {}
       /\ Fate(x)
  OBVIOUS
<1> HIDE DEF Fate
<1> QED
  BY <1>2, <1>10, <1>11, <1>12, <1>16, <1>17

\* One verdict is retired: its charge is gone, and what it was about is settled or reported.
LEMMA RetireFacts ==
    ASSUME BlType, JobsApart, JobsTrue, PassShape, Bl!Retire
    PROVE  \E b \in 1 .. Corpus :
           /\ b \in Judged /\ b = Head(results).job /\ results # <<>> /\ results' = Tail(results)
           /\ blessWalk.pc = "walk"
           /\ UNCHANGED <<kinds, options, blessDisk, trees, blessQueue, working, moved>>
           /\ rows' \in [1 .. Corpus -> {"absent", "resident"}]
           /\ \A c \in 1 .. Corpus : c # b => rows'[c] = rows[c]
           /\ rows'[b] = rows[b] \/ rows'[b] = "resident"
           /\ verdict' \in [1 .. Corpus -> {"verified", "replayed", "failed"}]
           /\ \A c \in 1 .. Corpus : c # b => verdict'[c] = verdict[c]
           /\ blessReport' \in BlReport /\ blessReport'.population = blessReport.population
           /\ blessReport'.examined = blessReport.examined /\ blessReport'.selected = blessReport.selected
           /\ blessReport.failed \subseteq blessReport'.failed
           /\ blessReport'.unrecorded >= blessReport.unrecorded
           /\ blessReport.outOfRoom => blessReport'.outOfRoom
           /\ blessReport'.outOfRoom => blessReport'.failed # {}
           /\ b \in moved \/ BlSettled(b)' \/ blessReport'.failed # {}
           /\ blessWalk' \in BlWalk /\ blessWalk'.pc = "walk" /\ blessWalk'.cursor = blessWalk.cursor
           /\ blessWalk'.inflight = blessWalk.inflight - CorpusWeight[b]
           /\ \/ UNCHANGED <<blessWalk.page, blessWalk.held, blessWalk.walking>>
              \/ /\ blessWalk'.page = {} /\ blessWalk'.held = 0 /\ ~blessWalk'.walking
                 /\ blessReport'.failed # {} /\ (blessReport'.unrecorded > 0 \/ blessReport'.outOfRoom)
<1>0. results # <<>> /\ Head(results) \in BlResult
  BY TailFacts DEF Bl!Retire, Bl!MayWait, BlType
<1> PICK d \in BlResult : d = Head(results)
  BY <1>0
<1> DEFINE b == d.job
           w == [blessWalk EXCEPT !.inflight = @ - CorpusWeight[b]]
           Made == d.outcome = "made" /\ options.materialize /\ rows' = [rows EXCEPT ![b] = "resident"]
                   /\ blessReport' = Bl!RecordWorks(b) /\ blessWalk' = w
                   /\ verdict' = IF verdict[b] = "verified" THEN [verdict EXCEPT ![b] = "replayed"] ELSE verdict
           Unrecorded == d.outcome = "made" /\ blessReport' = Bl!RecordFails(b) /\ blessWalk' = Bl!Stopped(w)
                         /\ UNCHANGED <<rows, verdict>>
           Tree == d.outcome = "made" /\ ~options.materialize /\ blessReport' = Bl!Counted(blessReport, "blessed")
                   /\ blessWalk' = w /\ UNCHANGED <<rows, verdict>>
           There == d.outcome = "there" /\ blessReport' = Bl!Counted(Bl!Counted(blessReport, "blessed"), "already")
                    /\ blessWalk' = w /\ UNCHANGED <<rows, verdict>>
           Full == d.outcome = "full"
                   /\ blessReport' = [blessReport EXCEPT !.outOfRoom = TRUE,
                                        !.failed = IF blessReport.outOfRoom THEN @ ELSE @ \cup {b}]
                   /\ blessWalk' = Bl!Stopped(w) /\ UNCHANGED <<rows, verdict>>
           Failed == d.outcome \in {"disproved", "broken"}
                     /\ blessReport' = [blessReport EXCEPT !.failed = @ \cup {b},
                                          !.poisoned = @ + (IF d.outcome = "disproved" THEN 1 ELSE 0)]
                     /\ verdict' = (IF d.outcome = "disproved" THEN [verdict EXCEPT ![b] = "failed"] ELSE verdict)
                     /\ blessWalk' = w /\ UNCHANGED rows
<1>1. /\ blessWalk.pc = "walk" /\ results # <<>> /\ results' = Tail(results)
      /\ UNCHANGED <<kinds, options, blessDisk, trees, blessQueue, working, moved>>
      /\ Made \/ Unrecorded \/ Tree \/ There \/ Full \/ Failed
  BY <1>0, Zenon DEF Bl!Retire, Bl!MayWait
<1>2. b \in Judged /\ d \in BlResult /\ \E k \in DOMAIN results : d = results[k]
  BY <1>1, TailOncePerJob, TailFacts DEF BlType, JobsApart, Judged
<1>3. b \in 1 .. Corpus /\ CorpusWeight[b] \in Nat
  BY <1>2, FlyingType, ContentAssumption
<1>4. b \notin moved =>
        /\ d.outcome = "made" => IF options.materialize THEN b \in blessDisk ELSE b \in trees
        /\ d.outcome = "there" => ~options.materialize /\ b \in trees
  BY <1>2 DEF JobsTrue
<1>5. blessReport \in BlReport /\ blessWalk \in BlWalk
      /\ rows \in [1 .. Corpus -> {"absent", "resident"}]
      /\ verdict \in [1 .. Corpus -> {"verified", "replayed", "failed"}]
  BY DEF BlType
<1>6. blessReport.outOfRoom => blessReport.failed # {}
  BY DEF PassShape
<1> HIDE DEF b
<1>7. /\ w \in BlWalk /\ w.pc = blessWalk.pc /\ w.cursor = blessWalk.cursor /\ w.page = blessWalk.page
      /\ w.held = blessWalk.held /\ w.walking = blessWalk.walking
      /\ w.inflight = blessWalk.inflight - CorpusWeight[b]
  BY <1>3, <1>5 DEF BlWalk
<1> HIDE DEF w
<1>8. /\ Bl!Stopped(w) \in BlWalk /\ Bl!Stopped(w).pc = blessWalk.pc /\ Bl!Stopped(w).cursor = blessWalk.cursor
      /\ Bl!Stopped(w).page = {} /\ Bl!Stopped(w).held = 0 /\ ~Bl!Stopped(w).walking
      /\ Bl!Stopped(w).inflight = blessWalk.inflight - CorpusWeight[b]
  <2>1. 0 \in 0 .. Corpus /\ w \in BlWalk
    BY <1>7, ContentAssumption
  <2>2. Bl!Stopped(w) \in BlWalk /\ Bl!Stopped(w).walking = FALSE
    BY <2>1 DEF BlWalk, Bl!Stopped
  <2>3. /\ Bl!Stopped(w).pc = w.pc /\ Bl!Stopped(w).cursor = w.cursor /\ Bl!Stopped(w).page = {}
        /\ Bl!Stopped(w).held = 0 /\ Bl!Stopped(w).inflight = w.inflight
    BY <2>1 DEF BlWalk, Bl!Stopped
  <2> QED BY <1>7, <2>2, <2>3
<1> DEFINE Rest ==
           /\ rows' \in [1 .. Corpus -> {"absent", "resident"}]
           /\ \A c \in 1 .. Corpus : c # b => rows'[c] = rows[c]
           /\ rows'[b] = rows[b] \/ rows'[b] = "resident"
           /\ verdict' \in [1 .. Corpus -> {"verified", "replayed", "failed"}]
           /\ \A c \in 1 .. Corpus : c # b => verdict'[c] = verdict[c]
           Rep ==
           /\ blessReport' \in BlReport /\ blessReport'.population = blessReport.population
           /\ blessReport'.examined = blessReport.examined /\ blessReport'.selected = blessReport.selected
           /\ blessReport.failed \subseteq blessReport'.failed
           /\ blessReport'.unrecorded >= blessReport.unrecorded
           /\ blessReport.outOfRoom => blessReport'.outOfRoom
           /\ blessReport'.outOfRoom => blessReport'.failed # {}
           Told == b \in moved \/ BlSettled(b)' \/ blessReport'.failed # {}
           Wk ==
           /\ blessWalk' \in BlWalk /\ blessWalk'.pc = "walk" /\ blessWalk'.cursor = blessWalk.cursor
           /\ blessWalk'.inflight = blessWalk.inflight - CorpusWeight[b]
           /\ \/ UNCHANGED <<blessWalk.page, blessWalk.held, blessWalk.walking>>
              \/ /\ blessWalk'.page = {} /\ blessWalk'.held = 0 /\ ~blessWalk'.walking
                 /\ blessReport'.failed # {} /\ (blessReport'.unrecorded > 0 \/ blessReport'.outOfRoom)
<1>9. ASSUME Made PROVE Rest /\ Rep /\ Told /\ Wk
  <2>1. Rep
    <3>0. blessReport' = [blessReport EXCEPT !.blessed = @ + 1, !.materialized = @ + 1]
      BY <1>9 DEF Bl!RecordWorks
    <3>1. /\ blessReport' \in BlReport
          /\ \A g \in {"population", "examined", "selected", "outOfRoom"} : blessReport'[g] = blessReport[g]
          /\ blessReport'.failed = blessReport.failed
          /\ blessReport'.unrecorded = blessReport.unrecorded
      <4>0. PICK t : t = blessReport'
        OBVIOUS
      <4>1. PICK v \in BlReport : v = blessReport
        BY <1>3, <1>5
      <4>2. v.blessed + 1 \in Nat /\ v.materialized + 1 \in Nat
        BY DEF BlReport
      <4>3. t = [v EXCEPT !.blessed = @ + 1, !.materialized = @ + 1]
        BY <3>0, <4>0, <4>1
      <4>4. t \in BlReport
        BY <4>2, <4>3 DEF BlReport
      <4>5. \A g \in {"population", "examined", "selected", "unrecorded", "outOfRoom", "failed"} : t[g] = v[g]
        BY <4>3 DEF BlReport
      <4> QED BY <4>0, <4>1, <4>4, <4>5
    <3>2. blessReport.unrecorded \in Nat
      BY <1>5 DEF BlReport
    <3> QED BY <1>6, <3>1, <3>2
  <2>2. Rest /\ rows'[b] = "resident"
    BY <1>3, <1>5, <1>9
  <2>3. Told
    BY <1>1, <1>4, <1>9, <2>2 DEF BlSettled
  <2> QED BY <1>1, <1>7, <1>9, <2>1, <2>2, <2>3
<1>10. ASSUME Unrecorded PROVE Rest /\ Rep /\ Told /\ Wk
  <2>1. Rep /\ blessReport'.failed # {} /\ blessReport'.unrecorded > 0
    <3>0. blessReport' = [blessReport EXCEPT !.blessed = @ + 1, !.unrecorded = @ + 1, !.failed = @ \cup {b}]
      BY <1>10 DEF Bl!RecordFails
    <3>1. /\ blessReport' \in BlReport
          /\ \A g \in {"population", "examined", "selected", "outOfRoom"} : blessReport'[g] = blessReport[g]
          /\ blessReport'.failed = blessReport.failed \cup {b}
          /\ blessReport'.unrecorded = blessReport.unrecorded + 1
      <4>0. PICK t : t = blessReport'
        OBVIOUS
      <4>1. t = [blessReport EXCEPT !.blessed = @ + 1, !.unrecorded = @ + 1, !.failed = @ \cup {b}]
        BY <3>0, <4>0
      <4>2. t \in BlReport /\ t.failed = blessReport.failed \cup {b} /\ t.unrecorded = blessReport.unrecorded + 1
            /\ \A g \in {"population", "examined", "selected", "outOfRoom"} : t[g] = blessReport[g]
        <5>1. PICK r \in BlReport : r = blessReport
          BY <1>5
        <5>2. PICK c \in 1 .. Corpus : c = b
          BY <1>3
        <5>3. t = [r EXCEPT !.blessed = @ + 1, !.unrecorded = @ + 1, !.failed = @ \cup {c}]
          BY <4>1, <5>1, <5>2
        <5>4. /\ t \in BlReport /\ t.failed = r.failed \cup {c} /\ t.unrecorded = r.unrecorded + 1
              /\ \A g \in {"population", "examined", "selected", "outOfRoom"} : t[g] = r[g]
          <6>1. r.failed \cup {c} \in SUBSET (1 .. Corpus) /\ r.unrecorded + 1 \in Nat /\ r.blessed + 1 \in Nat
            BY DEF BlReport
          <6> QED BY <5>3, <6>1 DEF BlReport
        <5> QED BY <5>1, <5>2, <5>4
      <4> QED BY <4>0, <4>2
    <3>2. blessReport.unrecorded \in Nat
      BY <1>5 DEF BlReport
    <3> QED BY <1>6, <3>1, <3>2
  <2> QED BY <1>1, <1>5, <1>8, <1>10, <2>1
<1>11. ASSUME Tree PROVE Rest /\ Rep /\ Told /\ Wk
  <2>1. blessReport' \in BlReport
        /\ \A g \in {"population", "examined", "selected", "unrecorded", "outOfRoom", "failed"} :
                    blessReport'[g] = blessReport[g]
    BY <1>5, <1>11, BlCounted
  <2>2. Rep
    <3>1. blessReport.unrecorded \in Nat
      BY <1>5 DEF BlReport
    <3> QED BY <1>6, <2>1, <3>1
  <2>3. Told
    BY <1>1, <1>4, <1>11 DEF BlSettled
  <2> QED BY <1>1, <1>5, <1>7, <1>11, <2>2, <2>3
<1>12. ASSUME There PROVE Rest /\ Rep /\ Told /\ Wk
  <2> DEFINE one == Bl!Counted(blessReport, "blessed")
  <2>0. one \in BlReport
        /\ \A g \in {"population", "examined", "selected", "unrecorded", "outOfRoom", "failed"} :
                    one[g] = blessReport[g]
    BY <1>5, BlCounted
  <2>1. blessReport' \in BlReport
        /\ \A g \in {"population", "examined", "selected", "unrecorded", "outOfRoom", "failed"} :
                    blessReport'[g] = blessReport[g]
    <3>1. blessReport' = Bl!Counted(one, "already")
      BY <1>12
    <3> HIDE DEF one
    <3>2. Bl!Counted(one, "already") \in BlReport
        /\ \A g \in {"population", "examined", "selected", "blessed", "unrecorded", "outOfRoom", "failed"} :
                    Bl!Counted(one, "already")[g] = one[g]
      BY <2>0, BlCounted
    <3> QED BY <2>0, <3>1, <3>2
  <2>2. Rep
    <3>1. blessReport.unrecorded \in Nat
      BY <1>5 DEF BlReport
    <3> QED BY <1>6, <2>1, <3>1
  <2>3. Told
    BY <1>1, <1>4, <1>12 DEF BlSettled
  <2> QED BY <1>1, <1>5, <1>7, <1>12, <2>2, <2>3
<1>13. ASSUME Full PROVE Rest /\ Rep /\ Told /\ Wk
  <2>1. Rep /\ blessReport'.failed # {} /\ blessReport'.outOfRoom
    <3>1. /\ blessReport' \in BlReport /\ blessReport'.population = blessReport.population
          /\ blessReport'.examined = blessReport.examined /\ blessReport'.selected = blessReport.selected
          /\ blessReport'.failed = IF blessReport.outOfRoom THEN blessReport.failed ELSE blessReport.failed \cup {b}
          /\ blessReport'.unrecorded = blessReport.unrecorded
          /\ blessReport'.outOfRoom = TRUE
      BY <1>3, <1>5, <1>13 DEF BlReport
    <3>2. blessReport.unrecorded \in Nat
      BY <1>5 DEF BlReport
    <3> QED BY <1>6, <3>1, <3>2
  <2> QED BY <1>1, <1>5, <1>8, <1>13, <2>1
<1>14. ASSUME Failed PROVE Rest /\ Rep /\ Told /\ Wk
  <2>1. Rep /\ blessReport'.failed # {}
    <3>0. blessReport' = [blessReport EXCEPT !.failed = @ \cup {b}, !.poisoned = @ + (IF d.outcome = "disproved" THEN 1 ELSE 0)]
      BY <1>14
    <3>1. /\ blessReport' \in BlReport
          /\ \A g \in {"population", "examined", "selected", "outOfRoom"} : blessReport'[g] = blessReport[g]
          /\ blessReport'.failed = blessReport.failed \cup {b}
          /\ blessReport'.unrecorded = blessReport.unrecorded
      <4>0. PICK t : t = blessReport'
        OBVIOUS
      <4> PICK n \in Nat : n = IF d.outcome = "disproved" THEN 1 ELSE 0
        OBVIOUS
      <4>1. t = [blessReport EXCEPT !.failed = @ \cup {b}, !.poisoned = @ + n]
        BY <3>0, <4>0
      <4>2. t \in BlReport /\ t.failed = blessReport.failed \cup {b}
            /\ \A g \in {"population", "examined", "selected", "unrecorded", "outOfRoom"} : t[g] = blessReport[g]
        <5>1. PICK r \in BlReport : r = blessReport
          BY <1>5
        <5>2. PICK c \in 1 .. Corpus : c = b
          BY <1>3
        <5>3. t = [r EXCEPT !.failed = @ \cup {c}, !.poisoned = @ + n]
          BY <4>1, <5>1, <5>2
        <5>4. /\ t \in BlReport /\ t.failed = r.failed \cup {c}
              /\ \A g \in {"population", "examined", "selected", "unrecorded", "outOfRoom"} : t[g] = r[g]
          <6>1. r.failed \cup {c} \in SUBSET (1 .. Corpus) /\ r.poisoned + n \in Nat
            BY DEF BlReport
          <6> QED BY <5>3, <6>1 DEF BlReport
        <5> QED BY <5>1, <5>2, <5>4
      <4> QED BY <4>0, <4>2
    <3>2. blessReport.unrecorded \in Nat
      BY <1>5 DEF BlReport
    <3> QED BY <1>6, <3>1, <3>2
  <2>2. Rest
    BY <1>3, <1>5, <1>14
  <2> QED BY <1>1, <1>7, <1>14, <2>1, <2>2
<1>15. Rest /\ Rep /\ Told /\ Wk
  <2> HIDE DEF Made, Unrecorded, Tree, There, Full, Failed, Rest, Rep, Told, Wk
  <2> QED BY <1>1, <1>9, <1>10, <1>11, <1>12, <1>13, <1>14
<1> QED
  BY <1>1, <1>2, <1>3, <1>15 DEF b

\* The pass owes one verdict for each job in flight.
LEMMA ImageCount ==
    ASSUME NEW S, NEW T, IsFiniteSet(S), NEW f \in [S -> T],
           \A i, k \in S : f[i] = f[k] => i = k
    PROVE  /\ IsFiniteSet({f[i] : i \in S})
           /\ Cardinality({f[i] : i \in S}) = Cardinality(S) /\ Cardinality(S) \in Nat
<1> DEFINE U == {f[i] : i \in S}
<1>1. f \in [S -> U] /\ \A t \in U : \E i \in S : f[i] = t
  OBVIOUS
<1>2. f \in Bijection(S, U)
  BY <1>1 DEF Bijection, Injection, Surjection, IsInjective
<1> HIDE DEF U
<1>3. ExistsBijection(S, U)
  BY <1>2 DEF ExistsBijection
<1>4. IsFiniteSet(U) /\ Cardinality(U) = Cardinality(S) /\ Cardinality(S) \in Nat
  BY <1>3, FS_Bijection, FS_CardinalityType
<1> QED
  BY <1>4 DEF U

LEMMA ElementsCount ==
    ASSUME NEW T, NEW q \in Seq(T), Once(q)
    PROVE  IsFiniteSet(Elements(q)) /\ Cardinality(Elements(q)) = Len(q) /\ Len(q) \in Nat
<1>1. Len(q) \in Nat /\ DOMAIN q = 1 .. Len(q) /\ q \in [1 .. Len(q) -> T] /\ Len(q) \in Int /\ 1 \in Int
  OBVIOUS
<1>2. IsFiniteSet(1 .. Len(q)) /\ Cardinality(1 .. Len(q)) = Len(q)
  BY <1>1, FS_Interval
<1>3. \A i, k \in 1 .. Len(q) : q[i] = q[k] => i = k
  BY <1>1 DEF Once
<1>4. Elements(q) = {q[i] : i \in 1 .. Len(q)}
  BY <1>1 DEF Elements
<1> DEFINE D == 1 .. Len(q)
<1>5. IsFiniteSet(D) /\ q \in [D -> T] /\ (\A i, k \in D : q[i] = q[k] => i = k) /\ Elements(q) = {q[i] : i \in D}
  BY <1>1, <1>2, <1>3, <1>4
<1> HIDE DEF D
<1>6. IsFiniteSet(Elements(q)) /\ Cardinality(Elements(q)) = Cardinality(D)
  BY <1>5, ImageCount
<1> QED
  BY <1>1, <1>2, <1>6 DEF D

LEMMA VerdictCount ==
    ASSUME NEW q \in Seq(BlResult), OncePerJob(q)
    PROVE  IsFiniteSet(JobsIn(q)) /\ Cardinality(JobsIn(q)) = Len(q) /\ Len(q) \in Nat
<1> DEFINE f == [i \in 1 .. Len(q) |-> q[i].job]
<1>1. Len(q) \in Nat /\ DOMAIN q = 1 .. Len(q) /\ Len(q) \in Int /\ 1 \in Int
      /\ \A i \in 1 .. Len(q) : q[i] \in BlResult
  OBVIOUS
<1>2. IsFiniteSet(1 .. Len(q)) /\ Cardinality(1 .. Len(q)) = Len(q)
  <2>1. PICK n \in Nat : n = Len(q)
    BY <1>1
  <2>2. n \in Int /\ 1 \in Int
    OBVIOUS
  <2>3. IsFiniteSet(1 .. n) /\ Cardinality(1 .. n) = n
    BY <2>2, FS_Interval
  <2> QED BY <2>1, <2>3, SMTT(20)
<1>3. f \in [1 .. Len(q) -> 1 .. Corpus] /\ \A i \in 1 .. Len(q) : f[i] = q[i].job
  BY <1>1 DEF BlResult
<1>4. \A i, k \in 1 .. Len(q) : f[i] = f[k] => i = k
  BY <1>1, <1>3 DEF OncePerJob
<1>5. JobsIn(q) = {f[i] : i \in 1 .. Len(q)}
  BY <1>1, <1>3 DEF JobsIn
<1>6. f \in [1 .. Len(q) -> JobsIn(q)] /\ \A t \in JobsIn(q) : \E i \in 1 .. Len(q) : f[i] = t
  BY <1>5
<1>7. f \in Bijection(1 .. Len(q), JobsIn(q))
  BY <1>4, <1>6 DEF Bijection, Injection, Surjection, IsInjective
<1> HIDE DEF f
<1>8. ExistsBijection(1 .. Len(q), JobsIn(q))
  BY <1>7 DEF ExistsBijection
<1> QED
  BY <1>1, <1>2, <1>8, FS_Bijection

LEMMA DisjointCount ==
    ASSUME NEW A0, NEW B0, IsFiniteSet(A0), IsFiniteSet(B0), A0 \cap B0 = {}
    PROVE  IsFiniteSet(A0 \cup B0) /\ Cardinality(A0 \cup B0) = Cardinality(A0) + Cardinality(B0)
<1>1. Cardinality(A0 \cap B0) = 0
  BY FS_EmptySet
<1>2. Cardinality(A0) \in Nat /\ Cardinality(B0) \in Nat
  BY FS_CardinalityType
<1>3. IsFiniteSet(A0 \cup B0) /\ Cardinality(A0 \cup B0) = Cardinality(A0) + Cardinality(B0) - Cardinality(A0 \cap B0)
  BY FS_Union
<1> QED
  BY <1>1, <1>2, <1>3

LEMMA OutstandingIsFlying ==
    ASSUME BlType, JobsApart
    PROVE  Bl!Outstanding = Cardinality(Flying)
<1> DEFINE Busy == {w \in Pool : working[w] # 0}
           f == [w \in Busy |-> working[w]]
<1>1. IsFiniteSet(Waiting) /\ Cardinality(Waiting) = Len(blessQueue) /\ Len(blessQueue) \in Nat
  BY ElementsCount DEF BlType, JobsApart, Waiting
<1>2. IsFiniteSet(Judged) /\ Cardinality(Judged) = Len(results) /\ Len(results) \in Nat
  BY VerdictCount DEF BlType, JobsApart, Judged
<1>3. IsFiniteSet(InHand) /\ Cardinality(InHand) = Cardinality(Busy) /\ Cardinality(Busy) \in Nat
  <2>1. IsFiniteSet(Busy)
    BY ContentAssumption, FS_Subset
  <2>2. f \in [Busy -> 0 .. Corpus] /\ \A w \in Busy : f[w] = working[w]
    BY DEF BlType
  <2>3. \A v, w \in Busy : f[v] = f[w] => v = w
    BY <2>2 DEF JobsApart
  <2>4. InHand = {f[w] : w \in Busy}
    BY <2>2 DEF InHand
  <2> HIDE DEF Busy, f
  <2> QED BY <2>1, <2>2, <2>3, <2>4, ImageCount
<1>4. IsFiniteSet(Waiting \cup InHand) /\ Cardinality(Waiting \cup InHand) = Cardinality(Waiting) + Cardinality(InHand)
  BY <1>1, <1>3, DisjointCount DEF JobsApart
<1>5. (Waiting \cup InHand) \cap Judged = {}
  BY DEF JobsApart
<1>6. Cardinality(Flying) = Cardinality(Waiting \cup InHand) + Cardinality(Judged)
  BY <1>2, <1>4, <1>5, DisjointCount DEF Flying
<1>7. Bl!Outstanding = Len(blessQueue) + Len(results) + Cardinality(Busy)
  BY BlessCardinality DEF Bl!Outstanding
<1> HIDE DEF Busy
<1> QED
  BY <1>1, <1>2, <1>3, <1>4, <1>6, <1>7

\* A pass begins with nothing under way and nothing examined.
LEMMA BlStarts == Bl!BInit => BlInv
<1> SUFFICES ASSUME Bl!BInit PROVE BlInv
  OBVIOUS
<1>0. Corpus \in Nat /\ 0 \in 0 .. Corpus
  BY ContentAssumption
<1>1. /\ rows = [b \in 1 .. Corpus |-> "absent"] /\ verdict = [b \in 1 .. Corpus |-> "verified"]
      /\ blessWalk = [pc |-> "walk", page |-> {}, cursor |-> 0, walking |-> TRUE, held |-> 0, inflight |-> 0]
      /\ blessQueue = <<>> /\ working = [w \in Pool |-> 0] /\ results = <<>>
      /\ blessReport = [Bl!NoReport EXCEPT !.population = Bl!Cardinality(1 .. Corpus)] /\ moved = {}
  BY DEF Bl!BInit
<1>2. Bl!Cardinality(1 .. Corpus) = Corpus
  BY <1>0, BlessCardinality, FS_Interval
<1>3. /\ blessReport \in BlReport /\ blessReport.population = Corpus /\ blessReport.examined = 0
      /\ blessReport.blessed = 0 /\ blessReport.outOfRoom = FALSE
  BY <1>0, <1>1, <1>2 DEF Bl!NoReport, BlReport
<1>4. BlType
  BY <1>0, <1>1, <1>3 DEF BlType, BlWalk
<1>5. Waiting = {} /\ InHand = {} /\ Judged = {} /\ Flying = {}
  BY <1>1 DEF Waiting, InHand, Judged, Flying, Elements, JobsIn
<1>6. JobsApart
  BY <1>1, <1>5 DEF JobsApart, Once, OncePerJob
<1>7. Behind
  BY <1>1, <1>5 DEF Behind
<1>8. Charged
  <2>1. Cardinality(Bl!TreeBytes({})) = 0
    BY TreeBytesNone
  <2> QED BY <1>1, <1>5, <2>1, ContentAssumption DEF Charged
<1>9. JobsTrue
  BY <1>1, <1>5 DEF JobsTrue
<1>10. Accounted
  <2>1. Cardinality({}) = 0
    BY FS_EmptySet
  <2> QED BY <1>3, <2>1 DEF Accounted
<1>11. PassShape
  BY <1>1, <1>3, <1>5 DEF PassShape
<1>12. Orderly
  BY <1>0, <1>1, <1>3 DEF Orderly
<1> QED
  BY <1>4, <1>6, <1>7, <1>8, <1>9, <1>10, <1>11, <1>12 DEF BlInv

\* What the invariant says of a pass: BlessHonest.
LEMMA BlSuffices == BlInv => BlessHonest
<1> SUFFICES ASSUME BlInv PROVE Bl!CompleteIsTrue /\ Bl!BudgetHolds /\ Bl!NothingOverlooked
  BY DEF BlessHonest
<1> USE DEF BlInv
<1>1. Bl!CompleteIsTrue
  <2> SUFFICES ASSUME blessWalk.pc = "done", Bl!Complete, NEW b \in (1 .. Corpus) \ moved
               PROVE  BlSettled(b)
    BY DEF Bl!CompleteIsTrue, BlSettled
  <2>1. blessReport.failed = {} /\ blessReport.selected <= blessReport.blessed /\ blessReport.examined = Corpus
    BY DEF Bl!Complete, BlType
  <2>2. Flying = {} /\ blessWalk.held = 0
    BY DEF PassShape
  <2>3. ~(options.dry /\ blessReport.selected > 0)
    BY <2>1 DEF PassShape, BlType, BlReport
  <2>4. PICK seen \in SUBSET (1 .. Corpus) :
        /\ Cardinality(seen) = blessReport.examined
        /\ \A c \in seen \ moved :
            \/ BlSettled(c) \/ c \in Flying \/ c = blessWalk.held
            \/ blessReport.failed # {} \/ (options.dry /\ blessReport.selected > 0)
    BY DEF Accounted
  <2>5. seen = 1 .. Corpus
    BY <2>1, <2>4, CorpusFinite
  <2>6. b # 0
    BY ContentAssumption
  <2> QED BY <2>1, <2>2, <2>3, <2>4, <2>5, <2>6
<1>2. Bl!BudgetHolds
  <2>1. Bl!InFlight = Flying
    BY DEF Bl!InFlight, Bl!Range, Flying, Waiting, InHand, Judged, Elements, JobsIn
  <2>2. Bl!Outstanding = Bl!Cardinality(Bl!InFlight)
    BY <2>1, OutstandingIsFlying, BlessCardinality
  <2>3. blessWalk.inflight = Bl!Cardinality(Bl!TreeBytes(Bl!InFlight))
    BY <2>1, BlessCardinality DEF Charged
  <2>4. blessWalk.inflight <= TreeCap \/ Bl!Outstanding = 1
    BY OutstandingIsFlying, FS_Singleton DEF Charged
  <2> QED BY <2>2, <2>3, <2>4 DEF Bl!BudgetHolds
<1>3. Bl!NothingOverlooked
  BY DEF Bl!NothingOverlooked, PassShape, Orderly, BlType
<1> QED
  BY <1>1, <1>2, <1>3

\* Nothing launched, taken or told: the same jobs fly.
LEMMA SameFlying ==
    ASSUME UNCHANGED <<blessQueue, working, results>>
    PROVE  Waiting' = Waiting /\ InHand' = InHand /\ Judged' = Judged /\ Flying' = Flying /\ (JobsApart => JobsApart')
<1>1. Waiting' = Waiting /\ InHand' = InHand /\ Judged' = Judged
  BY DEF Waiting, InHand, Judged
<1>2. Flying' = Flying
  BY <1>1 DEF Flying
<1> QED
  BY <1>1, <1>2 DEF JobsApart

\* bless_candidates_after: the next page lies past the cursor; undisturbed, it is the next ids.
LEMMA NextPagePast ==
    ASSUME BlType
    PROVE  Bl!NextPage \in SUBSET (1 .. Corpus) /\ \A b \in Bl!NextPage : b > blessWalk.cursor
BY DEF Bl!NextPage, Bl!Candidates

LEMMA NextPageNext ==
    ASSUME BlType, \A b \in 1 .. Corpus : b > blessWalk.cursor => rows[b] # "resident" /\ verdict[b] # "failed",
           NEW n \in Nat, n = blessWalk.cursor, n <= Corpus
    PROVE  \A b \in n + 1 .. Corpus : b \in Bl!NextPage <=> b - n <= PageSize
<1> DEFINE rest == {b \in Bl!Candidates : b > blessWalk.cursor}
<1>0. Corpus \in Nat /\ PageSize \in Nat
  BY ContentAssumption
<1>1. rest = n + 1 .. Corpus
  BY <1>0 DEF Bl!Candidates
<1>2. ASSUME NEW b \in n + 1 .. Corpus
      PROVE  Bl!Cardinality({c \in rest : c <= b}) = b - n
  <2>1. {c \in rest : c <= b} = n + 1 .. b
    BY <1>0, <1>1
  <2>2. n + 1 \in Int /\ b \in Int /\ ~(n + 1 > b) /\ b - (n + 1) + 1 = b - n
    BY <1>0
  <2>3. Cardinality(n + 1 .. b) = b - (n + 1) + 1
    BY <2>2, FS_Interval
  <2> QED BY <2>1, <2>2, <2>3, BlessCardinality
<1>3. Bl!NextPage = {b \in rest : Bl!Cardinality({c \in rest : c <= b}) <= PageSize}
  BY DEF Bl!NextPage
<1> HIDE DEF rest
<1> QED
  BY <1>1, <1>2, <1>3

LEMMA FetchKept ==
    ASSUME BlInv, Bl!FetchPage
    PROVE  BlInv'
<1> DEFINE page == Bl!NextPage
<1>0. BlType /\ JobsApart /\ Behind /\ Charged /\ JobsTrue /\ Accounted /\ PassShape /\ Orderly
  BY DEF BlInv
<1>1. /\ blessWalk.pc = "walk" /\ blessWalk.held = 0 /\ blessWalk.walking /\ blessWalk.page = {}
      /\ blessWalk' = IF page = {} THEN [blessWalk EXCEPT !.walking = FALSE]
                      ELSE [blessWalk EXCEPT !.page = page, !.cursor = Bl!Max(page)]
      /\ UNCHANGED <<kinds, options, rows, blessDisk, trees, verdict, blessQueue, working, results, blessReport, moved>>
  BY Zenon DEF Bl!FetchPage, Bl!Walks
<1>2. page \in SUBSET (1 .. Corpus) /\ \A b \in page : b > blessWalk.cursor
  BY <1>0, NextPagePast
<1>3. page # {} => Bl!Max(page) \in page /\ \A b \in page : Bl!Max(page) >= b
  BY <1>2, LargestId
<1>4. blessWalk \in BlWalk /\ blessWalk.cursor \in Nat /\ Corpus \in Nat
  BY <1>0, ContentAssumption DEF BlType, BlWalk
<1>5. Waiting' = Waiting /\ InHand' = InHand /\ Judged' = Judged /\ Flying' = Flying /\ JobsApart'
  BY <1>0, <1>1, SameFlying
<1> HIDE DEF page
<1>6. /\ blessWalk' \in BlWalk /\ blessWalk'.pc = "walk" /\ blessWalk'.held = 0
      /\ blessWalk'.inflight = blessWalk.inflight /\ blessWalk'.page = page
      /\ blessWalk'.cursor \in Nat /\ blessWalk'.cursor >= blessWalk.cursor
      /\ \A b \in page : b <= blessWalk'.cursor
      /\ page = {} => ~blessWalk'.walking /\ blessWalk'.cursor = blessWalk.cursor
      /\ page # {} => blessWalk'.walking /\ blessWalk'.cursor \in page
  <2>1. CASE page = {}
    <3>1. PICK v \in BlWalk : v = blessWalk
      BY <1>4
    <3>2. PICK t : t = blessWalk'
      OBVIOUS
    <3>3. t = [v EXCEPT !.walking = FALSE]
      BY <1>1, <2>1, <3>1, <3>2
    <3>4. t \in BlWalk /\ t.walking = FALSE /\ \A g \in {"pc", "page", "cursor", "held", "inflight"} : t[g] = v[g]
      BY <3>3 DEF BlWalk
    <3> QED BY <1>1, <1>4, <2>1, <3>1, <3>2, <3>4
  <2>2. CASE page # {}
    <3>1. PICK v \in BlWalk : v = blessWalk
      BY <1>4
    <3>2. PICK t : t = blessWalk'
      OBVIOUS
    <3>3. PICK c \in Nat : c = Bl!Max(page)
      <4>1. Bl!Max(page) \in 1 .. Corpus
        BY <1>2, <1>3, <2>2
      <4>2. Bl!Max(page) \in Nat
        BY <1>4, <4>1
      <4> QED BY <4>2
    <3>4. t = [v EXCEPT !.page = page, !.cursor = c]
      BY <1>1, <2>2, <3>1, <3>2, <3>3
    <3>5. t \in BlWalk /\ t.page = page /\ t.cursor = c /\ \A g \in {"pc", "walking", "held", "inflight"} : t[g] = v[g]
      BY <1>2, <3>4 DEF BlWalk
    <3>6. c \in page /\ (\A b \in page : b <= c) /\ c >= blessWalk.cursor
      BY <1>2, <1>3, <1>4, <2>2, <3>3
    <3> QED BY <1>1, <2>2, <3>1, <3>2, <3>5, <3>6
  <2> QED BY <2>1, <2>2
<1>7. BlType'
  BY <1>0, <1>1, <1>6 DEF BlType
<1>8. Behind'
  <2>1. \A b \in Flying : b \in Nat /\ b <= blessWalk.cursor
    BY <1>0, FlyingType DEF Behind
  <2>2. \A b \in Flying : b <= blessWalk'.cursor /\ b \notin page
    BY <1>2, <1>4, <1>6, <2>1
  <2>3. 0 \notin Flying /\ 0 \notin page /\ 0 <= blessWalk'.cursor
    BY <1>0, <1>2, <1>6, FlyingType
  <2> QED BY <1>5, <1>6, <2>2, <2>3 DEF Behind
<1>9. Charged'
  BY <1>0, <1>5, <1>6 DEF Charged
<1>10. JobsTrue'
  BY <1>0, <1>1, <1>5, <1>6 DEF JobsTrue
<1>11. Accounted'
  <2>1. PICK seen \in SUBSET (1 .. Corpus) :
        /\ Cardinality(seen) = blessReport.examined
        /\ \A b \in seen : b <= blessWalk.cursor /\ b \notin blessWalk.page
        /\ \A b \in seen \ moved :
            \/ BlSettled(b) \/ b \in Flying \/ b = blessWalk.held
            \/ blessReport.failed # {} \/ (options.dry /\ blessReport.selected > 0)
    BY <1>0 DEF Accounted
  <2>2. \A b \in seen : b <= blessWalk'.cursor /\ b \notin page
    BY <1>2, <1>4, <1>6, <2>1
  <2>3. \A b \in seen \ moved : BlSettled(b)' <=> BlSettled(b)
    BY <1>1 DEF BlSettled
  <2> QED BY <1>1, <1>5, <1>6, <2>1, <2>2, <2>3 DEF Accounted
<1>12. PassShape'
  BY <1>0, <1>1, <1>5, <1>6 DEF PassShape
<1>13. Orderly'
  <2> SUFFICES ASSUME options.limit = 0, blessReport.unrecorded = 0, ~blessReport.outOfRoom, moved = {}
               PROVE  /\ blessReport.examined <= blessWalk'.cursor /\ blessWalk'.cursor <= Corpus
                      /\ page = blessReport.examined + 1 .. blessWalk'.cursor
                      /\ \A b \in 1 .. Corpus : b > blessWalk'.cursor => rows[b] # "resident" /\ verdict[b] # "failed"
                      /\ ~blessWalk'.walking => blessReport.examined = Corpus
    BY <1>1, <1>6 DEF Orderly
  <2>0. blessReport.examined \in Nat /\ PageSize \in Nat \ {0}
    BY <1>0, ContentAssumption DEF BlType, BlReport
  <2>1. /\ blessReport.examined <= blessWalk.cursor /\ blessWalk.cursor <= Corpus
        /\ blessWalk.page = blessReport.examined + 1 .. blessWalk.cursor
        /\ \A b \in 1 .. Corpus : b > blessWalk.cursor => rows[b] # "resident" /\ verdict[b] # "failed"
    BY <1>0 DEF Orderly
  <2>2. PICK n \in Nat : n = blessWalk.cursor
    BY <1>4
  <2>3. blessReport.examined = n
    <3>1. ~(blessReport.examined + 1 \in blessReport.examined + 1 .. blessWalk.cursor)
      BY <1>1, <2>1
    <3> QED BY <1>4, <2>0, <2>1, <2>2, <3>1
  <2>4. \A b \in n + 1 .. Corpus : b \in page <=> b - n <= PageSize
    BY <1>0, <2>1, <2>2, NextPageNext DEF page
  <2>5. \A b \in page : b \in n + 1 .. Corpus
    BY <1>2, <1>4, <2>2
  <2>6. CASE page = {}
    <3>1. ~(n + 1 \in n + 1 .. Corpus)
      BY <2>0, <2>4, <2>6
    <3>2. n = Corpus
      BY <1>4, <2>1, <2>2, <3>1
    <3> QED BY <1>6, <2>1, <2>2, <2>3, <2>6, <3>2
  <2>7. CASE page # {}
    <3>1. PICK m \in n + 1 .. Corpus : m = blessWalk'.cursor
      BY <1>6, <2>5, <2>7
    <3>2. m - n <= PageSize /\ \A b \in page : b <= m
      BY <1>6, <2>4, <2>7, <3>1
    <3>3. ASSUME NEW b \in n + 1 .. m PROVE b \in page
      <4>1. b \in n + 1 .. Corpus /\ b - n <= PageSize
        BY <1>4, <2>0, <3>1, <3>2
      <4> QED BY <2>4, <4>1
    <3>4. page = n + 1 .. m
      <4>1. \A b \in page : b \in n + 1 .. m
        BY <1>4, <2>5, <3>1, <3>2
      <4> QED BY <3>3, <4>1
    <3>5. \A b \in 1 .. Corpus : b > m => b > blessWalk.cursor
      BY <1>4, <2>2, <3>1
    <3> QED BY <1>4, <1>6, <2>1, <2>3, <2>7, <3>1, <3>4, <3>5
  <2> QED BY <2>6, <2>7
<1> QED
  BY <1>5, <1>7, <1>8, <1>9, <1>10, <1>11, <1>12, <1>13 DEF BlInv

\* A held job goes first.
LEMMA HeldKept ==
    ASSUME BlInv, Bl!HeldFirst
    PROVE  BlInv'
<1> DEFINE b == blessWalk.held
<1>0. BlType /\ JobsApart /\ Behind /\ Charged /\ JobsTrue /\ Accounted /\ PassShape /\ Orderly
  BY DEF BlInv
<1>1. /\ blessWalk.pc = "walk" /\ b # 0 /\ Bl!Admits(blessWalk.inflight, CorpusWeight[b])
      /\ blessQueue' = Append(blessQueue, b)
      /\ blessWalk' = [blessWalk EXCEPT !.held = 0, !.inflight = @ + CorpusWeight[b]]
      /\ UNCHANGED <<kinds, options, rows, blessDisk, trees, verdict, working, results, blessReport, moved>>
  BY Zenon DEF Bl!HeldFirst, Bl!Dispatch
<1>2. b \in 1 .. Corpus /\ blessWalk \in BlWalk /\ Corpus \in Nat /\ blessWalk.cursor \in Nat
  BY <1>0, <1>1, ContentAssumption DEF BlType, BlWalk
<1>3. CorpusWeight[b] \in Nat /\ 0 \in 0 .. Corpus
  BY <1>2, ContentAssumption
<1>4. b \notin Flying /\ b <= blessWalk.cursor /\ b \notin blessWalk.page
  BY <1>0 DEF Behind
<1>5. /\ Waiting' = Waiting \cup {b} /\ InHand' = InHand /\ Judged' = Judged
      /\ Flying' = Flying \cup {b} /\ JobsApart'
  <2> HIDE DEF b
  <2> QED BY <1>0, <1>1, <1>2, <1>4, Launched
<1>6. /\ blessWalk' \in BlWalk /\ blessWalk'.held = 0 /\ blessWalk'.inflight = blessWalk.inflight + CorpusWeight[b]
      /\ \A g \in {"pc", "page", "cursor", "walking"} : blessWalk'[g] = blessWalk[g]
  <2>1. PICK v \in BlWalk : v = blessWalk
    BY <1>2
  <2>2. PICK t : t = blessWalk'
    OBVIOUS
  <2>3. PICK n \in Nat : n = CorpusWeight[b]
    BY <1>3
  <2>4. t = [v EXCEPT !.held = 0, !.inflight = @ + n]
    BY <1>1, <2>1, <2>2, <2>3
  <2>5. /\ t \in BlWalk /\ t.held = 0 /\ t.inflight = v.inflight + n
        /\ \A g \in {"pc", "page", "cursor", "walking"} : t[g] = v[g]
    <3>1. v.inflight + n \in Int /\ 0 \in 0 .. Corpus
      BY <1>3 DEF BlWalk
    <3> QED BY <2>4, <3>1 DEF BlWalk
  <2> QED BY <2>1, <2>2, <2>3, <2>5
<1> HIDE DEF b
<1>7. BlType'
  <2>1. blessQueue' \in Seq(1 .. Corpus)
    BY <1>0, <1>1, <1>2 DEF BlType
  <2> QED BY <1>0, <1>1, <1>6, <2>1 DEF BlType
<1>8. Behind'
  <2>1. 0 \notin Flying' /\ 0 \notin blessWalk.page /\ 0 <= blessWalk.cursor
    <3>1. 0 \notin Flying'
      BY <1>0, <1>1, <1>5, FlyingType
    <3>2. blessWalk.page \in SUBSET (1 .. Corpus)
      BY <1>2 DEF BlWalk
    <3> QED BY <1>2, <3>1, <3>2
  <2> QED BY <1>0, <1>4, <1>5, <1>6, <2>1 DEF Behind
<1>9. Charged'
  <2>1. Flying \in SUBSET (1 .. Corpus)
    BY <1>0, FlyingType
  <2>2. Cardinality(Bl!TreeBytes(Flying')) = Cardinality(Bl!TreeBytes(Flying)) + CorpusWeight[b]
    BY <1>2, <1>4, <1>5, <2>1, TreeBytesAdd
  <2>3. blessWalk.inflight = 0 => Flying' = {b}
    BY <1>0, <1>5, <2>1, TreeBytesNone DEF Charged
  <2> QED BY <1>0, <1>1, <1>5, <1>6, <2>2, <2>3 DEF Charged, Bl!Admits
<1>10. JobsTrue'
  BY <1>0, <1>1, <1>5, <1>6 DEF JobsTrue, b
<1>11. Accounted'
  <2>1. PICK seen \in SUBSET (1 .. Corpus) :
        /\ Cardinality(seen) = blessReport.examined
        /\ \A c \in seen : c <= blessWalk.cursor /\ c \notin blessWalk.page
        /\ \A c \in seen \ moved :
            \/ BlSettled(c) \/ c \in Flying \/ c = blessWalk.held
            \/ blessReport.failed # {} \/ (options.dry /\ blessReport.selected > 0)
    BY <1>0 DEF Accounted
  <2>2. \A c \in seen \ moved : BlSettled(c)' <=> BlSettled(c)
    BY <1>1 DEF BlSettled
  <2> QED BY <1>1, <1>5, <1>6, <2>1, <2>2 DEF Accounted, b
<1>12. PassShape'
  BY <1>0, <1>1, <1>6 DEF PassShape, b
<1>13. Orderly'
  BY <1>0, <1>1, <1>6 DEF Orderly
<1> QED
  BY <1>5, <1>7, <1>8, <1>9, <1>10, <1>11, <1>12, <1>13 DEF BlInv

\* Nothing is owed and nothing is left to stage.
LEMMA ReturnKept ==
    ASSUME BlInv, Bl!Return
    PROVE  BlInv'
<1>0. BlType /\ JobsApart /\ Behind /\ Charged /\ JobsTrue /\ Accounted /\ PassShape /\ Orderly
  BY DEF BlInv
<1>1. /\ Bl!Outstanding = 0 /\ ~blessWalk.walking /\ blessWalk.held = 0
      /\ blessWalk' = [blessWalk EXCEPT !.pc = "done"]
      /\ UNCHANGED <<kinds, options, rows, blessDisk, trees, verdict, blessQueue, working, results, blessReport, moved>>
  BY Zenon DEF Bl!Return
<1>2. Waiting' = Waiting /\ InHand' = InHand /\ Judged' = Judged /\ Flying' = Flying /\ JobsApart'
  BY <1>0, <1>1, SameFlying
<1>3. Flying = {}
  <2>1. Cardinality(Flying) = 0 /\ Flying \in SUBSET (1 .. Corpus)
    BY <1>0, <1>1, OutstandingIsFlying, FlyingType
  <2> QED BY <2>1, CorpusFinite, FS_EmptySet
<1>4. blessWalk' \in BlWalk /\ \A g \in {"page", "cursor", "held", "walking", "inflight"} : blessWalk'[g] = blessWalk[g]
  <2>1. PICK v \in BlWalk : v = blessWalk
    BY <1>0 DEF BlType
  <2>2. PICK t : t = blessWalk'
    OBVIOUS
  <2>3. t = [v EXCEPT !.pc = "done"]
    BY <1>1, <2>1, <2>2
  <2>4. t \in BlWalk /\ \A g \in {"page", "cursor", "held", "walking", "inflight"} : t[g] = v[g]
    BY <2>3 DEF BlWalk
  <2> QED BY <2>1, <2>2, <2>4
<1>5. BlType'
  BY <1>0, <1>1, <1>4 DEF BlType
<1>6. Behind' /\ Charged'
  BY <1>0, <1>2, <1>4 DEF Behind, Charged
<1>7. JobsTrue'
  BY <1>0, <1>1, <1>2, <1>4 DEF JobsTrue
<1>8. Accounted'
  <2>1. \A b \in 1 .. Corpus : BlSettled(b)' <=> BlSettled(b)
    BY <1>1 DEF BlSettled
  <2> QED BY <1>0, <1>1, <1>2, <1>4, <2>1 DEF Accounted
<1>9. PassShape'
  BY <1>0, <1>1, <1>2, <1>3, <1>4 DEF PassShape
<1>10. Orderly'
  BY <1>0, <1>1, <1>4 DEF Orderly
<1> QED
  BY <1>2, <1>5, <1>6, <1>7, <1>8, <1>9, <1>10 DEF BlInv

\* A worker takes a job.
LEMMA TakeKept ==
    ASSUME BlInv, NEW w \in Pool, Bl!TakeJob(w)
    PROVE  BlInv'
<1>0. BlType /\ JobsApart /\ Behind /\ Charged /\ JobsTrue /\ Accounted /\ PassShape /\ Orderly
  BY DEF BlInv
<1>1. /\ blessQueue # <<>> /\ working' = [working EXCEPT ![w] = Head(blessQueue)] /\ blessQueue' = Tail(blessQueue)
      /\ UNCHANGED <<kinds, options, rows, blessDisk, trees, verdict, blessWalk, results, blessReport, moved>>
  BY DEF Bl!TakeJob
<1>2. /\ Waiting' = Waiting \ {Head(blessQueue)} /\ InHand' = InHand \cup {Head(blessQueue)}
      /\ Judged' = Judged /\ Flying' = Flying /\ JobsApart' /\ Head(blessQueue) \in Waiting
  BY <1>0, Taken
<1>3. BlType'
  <2>1. blessQueue' \in Seq(1 .. Corpus)
    BY <1>0, <1>1, TailFacts DEF BlType
  <2>2. Head(blessQueue) \in 0 .. Corpus
    BY <1>0, <1>2, FlyingType, ContentAssumption
  <2>3. working' \in [Pool -> 0 .. Corpus]
    BY <1>0, <1>1, <2>2 DEF BlType
  <2> QED BY <1>0, <1>1, <2>1, <2>3 DEF BlType
<1>4. Behind' /\ Charged'
  BY <1>0, <1>1, <1>2 DEF Behind, Charged
<1>5. JobsTrue'
  <2>1. Waiting' \cup InHand' = Waiting \cup InHand
    BY <1>2
  <2> QED BY <1>0, <1>1, <2>1 DEF JobsTrue
<1>6. Accounted'
  <2>1. \A b \in 1 .. Corpus : BlSettled(b)' <=> BlSettled(b)
    BY <1>1 DEF BlSettled
  <2> QED BY <1>0, <1>1, <1>2, <2>1 DEF Accounted
<1>7. PassShape'
  BY <1>0, <1>1, <1>2 DEF PassShape
<1>8. Orderly'
  BY <1>0, <1>1 DEF Orderly
<1> QED
  BY <1>2, <1>3, <1>4, <1>5, <1>6, <1>7, <1>8 DEF BlInv

\* A worker ends its job: the bytes or the tree may be there now, and the verdict says so.
LEMMA FinishFacts ==
    ASSUME BlType, JobsTrue, NEW w \in Pool, Bl!FinishJob(w)
    PROVE  \E e \in BlResult :
           /\ working[w] # 0 /\ e.job = working[w] /\ results' = Append(results, e)
           /\ working' = [working EXCEPT ![w] = 0]
           /\ UNCHANGED <<kinds, options, rows, verdict, blessWalk, blessQueue, blessReport, moved>>
           /\ blessDisk \subseteq blessDisk' /\ blessDisk' \subseteq blessDisk \cup {e.job} /\ trees \subseteq trees'
           /\ e.job \notin moved =>
                /\ e.outcome = "made" => IF options.materialize THEN e.job \in blessDisk' ELSE e.job \in trees'
                /\ e.outcome = "there" => ~options.materialize /\ e.job \in trees'
<1> DEFINE b == working[w]
           Tell(o) == results' = Append(results, [job |-> b, outcome |-> o])
           there == IF options.materialize THEN b \in blessDisk ELSE b \in trees
<1>1. /\ b # 0 /\ working' = [working EXCEPT ![w] = 0]
      /\ UNCHANGED <<kinds, options, rows, verdict, blessWalk, blessQueue, blessReport, moved>>
      /\ \/ there /\ Tell("there") /\ UNCHANGED <<blessDisk, trees>>
         \/ Tell("disproved") /\ UNCHANGED <<blessDisk, trees>>
         \/ /\ Tell("made") /\ trees' = trees \cup {b}
            /\ blessDisk' = IF options.materialize THEN blessDisk \cup {b} ELSE blessDisk
         \/ /\ \E o \in {"broken", "disproved"} \cup (IF options.materialize THEN {"full"} ELSE {}) : Tell(o)
            /\ UNCHANGED <<blessDisk, trees>>
  BY Zenon DEF Bl!FinishJob
<1>2. b \in 1 .. Corpus
  BY <1>1, ContentAssumption DEF BlType
<1>3. b \in InHand
  BY <1>1 DEF InHand
<1>4. b \notin moved /\ options.materialize => b \notin blessDisk
  BY <1>3 DEF JobsTrue
<1> HIDE DEF b
<1>5. \A o \in {"there", "made", "full", "disproved", "broken"} :
        /\ [job |-> b, outcome |-> o] \in BlResult
        /\ [job |-> b, outcome |-> o].job = b /\ [job |-> b, outcome |-> o].outcome = o
  BY <1>2 DEF BlResult
<1>6. CASE there /\ Tell("there") /\ UNCHANGED <<blessDisk, trees>>
  <2>1. PICK e \in BlResult : e = [job |-> b, outcome |-> "there"] /\ e.job = b /\ e.outcome = "there"
    BY <1>5
  <2>2. e.job \notin moved => ~options.materialize /\ e.job \in trees'
    BY <1>4, <1>6, <2>1
  <2> QED BY <1>1, <1>6, <2>1, <2>2 DEF b
<1>7. CASE /\ \E o \in {"broken", "disproved", "full"} : Tell(o)
           /\ UNCHANGED <<blessDisk, trees>>
  <2>1. PICK o \in {"broken", "disproved", "full"} : Tell(o)
    BY <1>7
  <2>2. PICK e \in BlResult : e = [job |-> b, outcome |-> o] /\ e.job = b /\ e.outcome = o
    BY <1>5
  <2> QED BY <1>1, <1>7, <2>1, <2>2 DEF b
<1>8. CASE /\ Tell("made") /\ trees' = trees \cup {b}
           /\ blessDisk' = IF options.materialize THEN blessDisk \cup {b} ELSE blessDisk
  <2>1. PICK e \in BlResult : e = [job |-> b, outcome |-> "made"] /\ e.job = b /\ e.outcome = "made"
    BY <1>5
  <2>2. blessDisk \subseteq blessDisk' /\ blessDisk' \subseteq blessDisk \cup {b}
    BY <1>8
  <2>3. IF options.materialize THEN b \in blessDisk' ELSE b \in trees'
    BY <1>8
  <2> QED BY <1>1, <1>8, <2>1, <2>2, <2>3 DEF b
<1> QED
  BY <1>1, <1>6, <1>7, <1>8

LEMMA FinishKept ==
    ASSUME BlInv, NEW w \in Pool, Bl!FinishJob(w)
    PROVE  BlInv'
<1>0. BlType /\ JobsApart /\ Behind /\ Charged /\ JobsTrue /\ Accounted /\ PassShape /\ Orderly
  BY DEF BlInv
<1>1. PICK e \in BlResult :
           /\ working[w] # 0 /\ e.job = working[w] /\ results' = Append(results, e)
           /\ working' = [working EXCEPT ![w] = 0]
           /\ UNCHANGED <<kinds, options, rows, verdict, blessWalk, blessQueue, blessReport, moved>>
           /\ blessDisk \subseteq blessDisk' /\ blessDisk' \subseteq blessDisk \cup {e.job} /\ trees \subseteq trees'
           /\ e.job \notin moved =>
                /\ e.outcome = "made" => IF options.materialize THEN e.job \in blessDisk' ELSE e.job \in trees'
                /\ e.outcome = "there" => ~options.materialize /\ e.job \in trees'
  BY <1>0, FinishFacts
<1>2. /\ Waiting' = Waiting /\ InHand' = InHand \ {e.job} /\ Judged' = Judged \cup {e.job}
      /\ Flying' = Flying /\ JobsApart' /\ e.job \in InHand
  BY <1>0, <1>1, Finished
<1>3. BlType'
  <2>1. results' \in Seq(BlResult)
    BY <1>0, <1>1 DEF BlType
  <2>2. working' \in [Pool -> 0 .. Corpus]
    BY <1>0, <1>1, ContentAssumption DEF BlType
  <2> QED BY <1>0, <1>1, <2>1, <2>2 DEF BlType
<1>4. Behind' /\ Charged'
  BY <1>0, <1>1, <1>2 DEF Behind, Charged
<1>5. JobsTrue'
  <2>1. ASSUME NEW c \in (Waiting' \cup InHand' \cup ({blessWalk'.held} \ {0})) \ moved', options'.materialize
        PROVE  c \notin blessDisk'
    <3>1. c # e.job
      BY <1>0, <1>1, <1>2 DEF JobsApart, Behind, Flying
    <3>2. c \in (Waiting \cup InHand \cup ({blessWalk.held} \ {0})) \ moved /\ options.materialize
      BY <1>1, <1>2, <2>1
    <3>3. c \notin blessDisk
      BY <1>0, <3>2 DEF JobsTrue
    <3> QED BY <1>1, <3>1, <3>3
  <2>2. ASSUME NEW i \in DOMAIN results', results'[i].job \notin moved'
        PROVE  /\ results'[i].outcome = "made" =>
                    IF options'.materialize THEN results'[i].job \in blessDisk' ELSE results'[i].job \in trees'
               /\ results'[i].outcome = "there" => ~options'.materialize /\ results'[i].job \in trees'
    <3>1. results'[i] = e \/ \E k \in DOMAIN results : results'[i] = results[k]
      BY <1>0, <1>1, AppendOncePerJob DEF BlType
    <3>2. CASE results'[i] = e
      BY <1>1, <2>2, <3>2
    <3>3. CASE \E k \in DOMAIN results : results'[i] = results[k]
      <4>1. PICK k \in DOMAIN results : results'[i] = results[k]
        BY <3>3
      <4>2. /\ results[k].outcome = "made" =>
                    IF options.materialize THEN results[k].job \in blessDisk ELSE results[k].job \in trees
            /\ results[k].outcome = "there" => ~options.materialize /\ results[k].job \in trees
        BY <1>0, <1>1, <2>2, <4>1 DEF JobsTrue
      <4> QED BY <1>1, <4>1, <4>2
    <3> QED BY <3>1, <3>2, <3>3
  <2> QED BY <2>1, <2>2 DEF JobsTrue
<1>6. Accounted'
  <2>1. \A b \in 1 .. Corpus : BlSettled(b) => BlSettled(b)'
    BY <1>1 DEF BlSettled
  <2> QED BY <1>0, <1>1, <1>2, <2>1 DEF Accounted
<1>7. PassShape'
  BY <1>0, <1>1, <1>2 DEF PassShape
<1>8. Orderly'
  BY <1>0, <1>1 DEF Orderly
<1> QED
  BY <1>2, <1>3, <1>4, <1>5, <1>6, <1>7, <1>8 DEF BlInv

\* The daemon changes one blob, and the pass has no more to say of it.
LEMMA DriftKept ==
    ASSUME BlInv, NEW b \in 1 .. Corpus, Bl!Drift(b)
    PROVE  BlInv'
<1>0. BlType /\ JobsApart /\ Behind /\ Charged /\ JobsTrue /\ Accounted /\ PassShape /\ Orderly
  BY DEF BlInv
<1>1. /\ moved' = moved \cup {b} /\ UNCHANGED <<kinds, options, verdict, blessWalk, blessQueue, working, results, blessReport>>
      /\ \/ trees' = trees \cup {b} /\ UNCHANGED <<rows, blessDisk>>
         \/ trees' = trees \cup {b} /\ blessDisk' = blessDisk \cup {b} /\ rows' = [rows EXCEPT ![b] = "resident"]
         \/ blessDisk' = blessDisk \ {b} /\ rows' = [rows EXCEPT ![b] = "absent"] /\ UNCHANGED trees
  BY Zenon DEF Bl!Drift
<1>2. Waiting' = Waiting /\ InHand' = InHand /\ Judged' = Judged /\ Flying' = Flying /\ JobsApart'
  BY <1>0, <1>1, SameFlying
<1>3. rows \in [1 .. Corpus -> {"absent", "resident"}]
  BY <1>0 DEF BlType
<1>4. rows' \in [1 .. Corpus -> {"absent", "resident"}] /\ \A c \in 1 .. Corpus : c # b => rows'[c] = rows[c]
  BY <1>1, <1>3
<1>5. \A c : c # b => (c \in blessDisk' <=> c \in blessDisk) /\ (c \in trees' <=> c \in trees)
  BY <1>1
<1>6. BlType'
  BY <1>0, <1>1, <1>4 DEF BlType
<1>7. Behind' /\ Charged'
  BY <1>0, <1>1, <1>2 DEF Behind, Charged
<1>8. JobsTrue'
  <2>1. \A c : c \notin moved' => c \notin moved /\ c # b
    BY <1>1
  <2> QED BY <1>0, <1>1, <1>2, <1>5, <2>1 DEF JobsTrue
<1>9. Accounted'
  <2>1. \A c \in (1 .. Corpus) \ {b} : BlSettled(c) => BlSettled(c)'
    BY <1>1, <1>4, <1>5 DEF BlSettled
  <2>2. \A c : c \notin moved' => c \notin moved /\ c # b
    BY <1>1
  <2> QED BY <1>0, <1>1, <1>2, <2>1, <2>2 DEF Accounted
<1>10. PassShape'
  BY <1>0, <1>1, <1>2 DEF PassShape
<1>11. Orderly'
  <2>1. moved' # {}
    BY <1>1
  <2> QED BY <2>1 DEF Orderly
<1> QED
  BY <1>2, <1>6, <1>7, <1>8, <1>9, <1>10, <1>11 DEF BlInv

\* One candidate is examined.
LEMMA ExamineKept ==
    ASSUME BlInv, Bl!Examine
    PROVE  BlInv'
<1>0. BlType /\ JobsApart /\ Behind /\ Charged /\ JobsTrue /\ Accounted /\ PassShape /\ Orderly
  BY DEF BlInv
<1>1. PICK b \in 1 .. Corpus :
           /\ b \in blessWalk.page /\ \A c \in blessWalk.page : b <= c
           /\ blessWalk.pc = "walk" /\ blessWalk.held = 0 /\ blessWalk.walking
           /\ UNCHANGED <<kinds, options, blessDisk, trees, verdict, working, results, moved>>
           /\ blessReport' \in BlReport /\ blessReport'.population = blessReport.population
           /\ blessReport'.examined = blessReport.examined + 1 /\ blessReport'.blessed = blessReport.blessed
           /\ blessReport'.unrecorded = blessReport.unrecorded
           /\ blessReport'.outOfRoom = blessReport.outOfRoom
           /\ blessReport.failed \subseteq blessReport'.failed
           /\ blessReport'.selected >= blessReport.selected
           /\ rows' \in [1 .. Corpus -> {"absent", "resident"}]
           /\ \A c \in 1 .. Corpus : c # b => rows'[c] = rows[c]
           /\ blessWalk' \in BlWalk /\ blessWalk'.pc = "walk" /\ blessWalk'.cursor = blessWalk.cursor
           /\ \/ blessWalk'.page = blessWalk.page \ {b} /\ blessWalk'.walking
              \/ options.limit # 0 /\ blessWalk'.page = {}
           /\ \/ /\ blessQueue' = blessQueue /\ blessWalk'.held = 0 /\ blessWalk'.inflight = blessWalk.inflight
                 /\ \/ rows'[b] = "resident" /\ b \in blessDisk
                    \/ rows' = rows /\ b \in trees /\ ~options.materialize
                    \/ rows' = rows /\ kinds[b] = "lost"
                    \/ rows' = rows /\ kinds[b] = "affine" /\ ~options.affine
                    \/ rows' = rows /\ blessReport'.failed # {}
                    \/ rows' = rows /\ options.dry /\ blessReport'.selected > 0
              \/ /\ rows' = rows /\ b \notin blessDisk /\ ~options.dry
                 /\ Bl!Admits(blessWalk.inflight, CorpusWeight[b]) /\ blessQueue' = Append(blessQueue, b)
                 /\ blessWalk'.held = 0 /\ blessWalk'.inflight = blessWalk.inflight + CorpusWeight[b]
              \/ /\ rows' = rows /\ b \notin blessDisk /\ ~options.dry
                 /\ blessQueue' = blessQueue /\ blessWalk'.held = b /\ blessWalk'.inflight = blessWalk.inflight
  BY <1>0, ExamineFacts
<1> DEFINE Left == /\ blessQueue' = blessQueue /\ blessWalk'.held = 0 /\ blessWalk'.inflight = blessWalk.inflight
                   /\ BlSettled(b)' \/ blessReport'.failed # {} \/ (options.dry /\ blessReport'.selected > 0)
           Sent == /\ b \notin blessDisk /\ ~options.dry
                   /\ Bl!Admits(blessWalk.inflight, CorpusWeight[b]) /\ blessQueue' = Append(blessQueue, b)
                   /\ blessWalk'.held = 0 /\ blessWalk'.inflight = blessWalk.inflight + CorpusWeight[b]
           Held == /\ b \notin blessDisk /\ ~options.dry
                   /\ blessQueue' = blessQueue /\ blessWalk'.held = b /\ blessWalk'.inflight = blessWalk.inflight
<1>2. Left \/ Sent \/ Held
  BY <1>1 DEF BlSettled
<1>3. /\ b \notin Flying /\ b <= blessWalk.cursor /\ blessWalk'.page \subseteq blessWalk.page \ {b}
      /\ Corpus \in Nat /\ blessWalk.cursor \in Nat /\ CorpusWeight[b] \in Nat /\ b # 0 /\ b \in Nat
  BY <1>0, <1>1, ContentAssumption DEF Behind, BlType, BlWalk
<1>4. /\ Sent => Waiting' = Waiting \cup {b} /\ InHand' = InHand /\ Judged' = Judged /\ Flying' = Flying \cup {b} /\ JobsApart'
      /\ ~Sent /\ (Left \/ Held) => Waiting' = Waiting /\ InHand' = InHand /\ Judged' = Judged /\ Flying' = Flying /\ JobsApart'
  <2>1. ASSUME Sent
        PROVE  Waiting' = Waiting \cup {b} /\ InHand' = InHand /\ Judged' = Judged /\ Flying' = Flying \cup {b} /\ JobsApart'
    BY <1>0, <1>1, <1>3, <2>1, Launched
  <2>2. ASSUME Left \/ Held
        PROVE  Waiting' = Waiting /\ InHand' = InHand /\ Judged' = Judged /\ Flying' = Flying /\ JobsApart'
    BY <1>0, <1>1, <2>2, SameFlying
  <2> HIDE DEF Left, Sent, Held
  <2> QED BY <2>1, <2>2
<1>5. BlType'
  <2>1. blessQueue' \in Seq(1 .. Corpus)
    <3>1. blessQueue \in Seq(1 .. Corpus)
      BY <1>0 DEF BlType
    <3>2. Append(blessQueue, b) \in Seq(1 .. Corpus)
      BY <3>1
    <3>3. blessQueue' = blessQueue \/ blessQueue' = Append(blessQueue, b)
      BY <1>2
    <3> QED BY <3>1, <3>2, <3>3
  <2> QED BY <1>0, <1>1, <2>1 DEF BlType
<1>6. JobsApart'
  <2> HIDE DEF Left, Sent, Held
  <2> QED BY <1>2, <1>4
<1>7. Behind'
  <2>1. 0 \notin Flying /\ 0 \notin blessWalk'.page /\ 0 <= blessWalk.cursor
    <3>1. 0 \notin Flying /\ blessWalk.page \in SUBSET (1 .. Corpus)
      BY <1>0, FlyingType DEF BlType, BlWalk
    <3> QED BY <1>3, <3>1
  <2>2. /\ \A c \in blessWalk'.page : c <= blessWalk'.cursor
        /\ \A c \in Flying \cup {b} : c <= blessWalk'.cursor /\ c \notin blessWalk'.page
    BY <1>0, <1>1, <1>3 DEF Behind
  <2>3. CASE Sent
    BY <1>1, <1>3, <1>4, <2>1, <2>2, <2>3 DEF Behind
  <2>4. CASE Left /\ ~Sent
    BY <1>1, <1>3, <1>4, <2>1, <2>2, <2>4 DEF Behind
  <2>5. CASE Held /\ ~Sent
    BY <1>1, <1>3, <1>4, <2>1, <2>2, <2>5 DEF Behind
  <2> HIDE DEF Left, Sent, Held
  <2> QED BY <1>2, <2>3, <2>4, <2>5
<1>8. Charged'
  <2>1. CASE Sent
    <3>1. Flying \in SUBSET (1 .. Corpus)
      BY <1>0, FlyingType
    <3>2. Cardinality(Bl!TreeBytes(Flying')) = Cardinality(Bl!TreeBytes(Flying)) + CorpusWeight[b]
      BY <1>3, <1>4, <2>1, <3>1, TreeBytesAdd
    <3>3. blessWalk.inflight = 0 => Flying' = {b}
      BY <1>0, <1>4, <2>1, <3>1, TreeBytesNone DEF Charged
    <3> QED BY <1>0, <1>4, <2>1, <3>2, <3>3 DEF Charged, Bl!Admits
  <2>2. CASE ~Sent
    BY <1>0, <1>2, <1>4, <2>2 DEF Charged
  <2> QED BY <2>1, <2>2
<1>9. JobsTrue'
  <2>1. ASSUME NEW c \in (Waiting' \cup InHand' \cup ({blessWalk'.held} \ {0})) \ moved', options'.materialize
        PROVE  c \notin blessDisk'
    <3>1. c \in Waiting \/ c \in InHand \/ (c = b /\ b \notin blessDisk)
      BY <1>1, <1>2, <1>4, <2>1
    <3> QED BY <1>0, <1>1, <2>1, <3>1 DEF JobsTrue
  <2> QED BY <1>0, <1>1, <2>1 DEF JobsTrue
<1>10. Accounted'
  <2>1. PICK seen \in SUBSET (1 .. Corpus) :
        /\ Cardinality(seen) = blessReport.examined
        /\ \A c \in seen : c <= blessWalk.cursor /\ c \notin blessWalk.page
        /\ \A c \in seen \ moved :
            \/ BlSettled(c) \/ c \in Flying \/ c = blessWalk.held
            \/ blessReport.failed # {} \/ (options.dry /\ blessReport.selected > 0)
    BY <1>0 DEF Accounted
  <2>2. b \notin seen
    BY <1>1, <2>1
  <2>3. Cardinality(seen \cup {b}) = blessReport'.examined
    <3>1. IsFiniteSet(seen)
      BY <2>1, CorpusFinite
    <3>2. Cardinality(seen \cup {b}) = IF b \in seen THEN Cardinality(seen) ELSE Cardinality(seen) + 1
      BY <3>1, FS_AddElement
    <3> QED BY <1>1, <2>1, <2>2, <3>2
  <2>4. \A c \in seen \cup {b} : c <= blessWalk'.cursor /\ c \notin blessWalk'.page
    BY <1>1, <1>3, <2>1
  <2>5. ASSUME NEW c \in seen \ moved
        PROVE  BlSettled(c)' \/ c \in Flying' \/ blessReport'.failed # {} \/ (options'.dry /\ blessReport'.selected > 0)
    <3>1. BlSettled(c) => BlSettled(c)'
      <4>1. rows'[c] = rows[c]
        BY <1>1, <2>1, <2>2, <2>5
      <4> QED BY <1>1, <4>1 DEF BlSettled
    <3>2. c \in Flying => c \in Flying'
      BY <1>2, <1>4
    <3>3. c # blessWalk.held
      BY <1>1, <2>1, ContentAssumption
    <3>4. blessReport.selected > 0 => blessReport'.selected > 0
      BY <1>0, <1>1, SMTT(20) DEF BlType, BlReport
    <3>5. blessReport.failed # {} => blessReport'.failed # {}
      BY <1>1
    <3>6. options' = options
      BY <1>1
    <3> QED BY <2>1, <3>1, <3>2, <3>3, <3>4, <3>5, <3>6
  <2>6. b \notin moved => \/ BlSettled(b)' \/ b \in Flying' \/ b = blessWalk'.held
                          \/ blessReport'.failed # {} \/ (options'.dry /\ blessReport'.selected > 0)
    BY <1>1, <1>2, <1>4
  <2>7. seen \cup {b} \in SUBSET (1 .. Corpus) /\ moved' = moved
    BY <1>1, <2>1
  <2>8. PICK next \in SUBSET (1 .. Corpus) : next = seen \cup {b}
    BY <2>7
  <2>9. \A c \in next \ moved' :
            \/ BlSettled(c)' \/ c \in Flying' \/ c = blessWalk'.held
            \/ blessReport'.failed # {} \/ (options'.dry /\ blessReport'.selected > 0)
    BY <2>5, <2>6, <2>7, <2>8
  <2> QED BY <2>3, <2>4, <2>8, <2>9 DEF Accounted
<1>11. PassShape'
  <2>1. options.dry => Flying' = {} /\ blessWalk'.held = 0
    BY <1>0, <1>2, <1>4 DEF PassShape
  <2>2. blessReport'.outOfRoom => blessReport'.failed # {}
    BY <1>0, <1>1 DEF PassShape
  <2> QED BY <1>0, <1>1, <2>1, <2>2 DEF PassShape
<1>12. Orderly'
  <2> SUFFICES ASSUME options.limit = 0, blessReport.unrecorded = 0, ~blessReport.outOfRoom, moved = {}
               PROVE  /\ blessReport'.examined <= blessWalk.cursor /\ blessWalk.cursor <= Corpus
                      /\ blessWalk'.page = blessReport'.examined + 1 .. blessWalk.cursor
                      /\ \A c \in 1 .. Corpus : c > blessWalk.cursor => rows'[c] # "resident" /\ verdict[c] # "failed"
                      /\ ~blessWalk'.walking => blessReport'.examined = Corpus
    BY <1>1 DEF Orderly
  <2>1. /\ blessReport.examined <= blessWalk.cursor /\ blessWalk.cursor <= Corpus
        /\ blessWalk.page = blessReport.examined + 1 .. blessWalk.cursor
        /\ \A c \in 1 .. Corpus : c > blessWalk.cursor => rows[c] # "resident" /\ verdict[c] # "failed"
    BY <1>0 DEF Orderly
  <2>2. PICK n \in Nat : n = blessReport.examined
    BY <1>0 DEF BlType, BlReport
  <2>3. PICK m \in Nat : m = blessWalk.cursor
    BY <1>3
  <2>4. b = n + 1 /\ n + 1 <= m
    <3>1. b \in n + 1 .. m /\ \A c \in n + 1 .. m : b <= c
      BY <1>1, <2>1, <2>2, <2>3
    <3>2. n + 1 \in n + 1 .. m
      BY <1>3, <3>1
    <3> QED BY <1>3, <3>1, <3>2
  <2>5. blessWalk'.page = (n + 1 .. m) \ {n + 1} /\ blessWalk'.walking
    BY <1>1, <2>1, <2>2, <2>3, <2>4
  <2>6. (n + 1 .. m) \ {n + 1} = n + 1 + 1 .. m
    OBVIOUS
  <2>7. \A c \in 1 .. Corpus : c > blessWalk.cursor => rows'[c] # "resident" /\ verdict[c] # "failed"
    <3>1. \A c \in 1 .. Corpus : c > m => c # b
      BY <1>3, <2>4
    <3> QED BY <1>1, <2>1, <2>3, <3>1
  <2> QED BY <1>1, <2>1, <2>2, <2>3, <2>4, <2>5, <2>6, <2>7
<1> QED
  BY <1>5, <1>6, <1>7, <1>8, <1>9, <1>10, <1>11, <1>12 DEF BlInv

\* One verdict is retired.
LEMMA RetireKept ==
    ASSUME BlInv, Bl!Retire
    PROVE  BlInv'
<1>0. BlType /\ JobsApart /\ Behind /\ Charged /\ JobsTrue /\ Accounted /\ PassShape /\ Orderly
  BY DEF BlInv
<1>1. PICK b \in 1 .. Corpus :
           /\ b \in Judged /\ b = Head(results).job /\ results # <<>> /\ results' = Tail(results)
           /\ blessWalk.pc = "walk"
           /\ UNCHANGED <<kinds, options, blessDisk, trees, blessQueue, working, moved>>
           /\ rows' \in [1 .. Corpus -> {"absent", "resident"}]
           /\ \A c \in 1 .. Corpus : c # b => rows'[c] = rows[c]
           /\ rows'[b] = rows[b] \/ rows'[b] = "resident"
           /\ verdict' \in [1 .. Corpus -> {"verified", "replayed", "failed"}]
           /\ \A c \in 1 .. Corpus : c # b => verdict'[c] = verdict[c]
           /\ blessReport' \in BlReport /\ blessReport'.population = blessReport.population
           /\ blessReport'.examined = blessReport.examined /\ blessReport'.selected = blessReport.selected
           /\ blessReport.failed \subseteq blessReport'.failed
           /\ blessReport'.unrecorded >= blessReport.unrecorded
           /\ blessReport.outOfRoom => blessReport'.outOfRoom
           /\ blessReport'.outOfRoom => blessReport'.failed # {}
           /\ b \in moved \/ BlSettled(b)' \/ blessReport'.failed # {}
           /\ blessWalk' \in BlWalk /\ blessWalk'.pc = "walk" /\ blessWalk'.cursor = blessWalk.cursor
           /\ blessWalk'.inflight = blessWalk.inflight - CorpusWeight[b]
           /\ \/ UNCHANGED <<blessWalk.page, blessWalk.held, blessWalk.walking>>
              \/ /\ blessWalk'.page = {} /\ blessWalk'.held = 0 /\ ~blessWalk'.walking
                 /\ blessReport'.failed # {} /\ (blessReport'.unrecorded > 0 \/ blessReport'.outOfRoom)
  BY <1>0, RetireFacts
<1>2. /\ Waiting' = Waiting /\ InHand' = InHand /\ Judged' = Judged \ {b}
      /\ Flying' = Flying \ {b} /\ JobsApart' /\ results' \in Seq(BlResult)
      /\ \A i \in DOMAIN results' : \E k \in DOMAIN results : results'[i] = results[k]
  BY <1>0, <1>1, Received
<1>3. Flying \in SUBSET (1 .. Corpus) /\ b \in Flying /\ 0 \notin Flying /\ blessWalk.cursor \in Nat
  BY <1>0, <1>1, FlyingType DEF Flying, BlType, BlWalk
<1>4. BlType'
  BY <1>0, <1>1, <1>2 DEF BlType
<1>5. Behind'
  <2>1. blessWalk'.page \subseteq blessWalk.page /\ (blessWalk'.held = blessWalk.held \/ blessWalk'.held = 0)
    BY <1>1
  <2>2. 0 \notin blessWalk'.page /\ 0 <= blessWalk.cursor
    <3>1. blessWalk'.page \in SUBSET (1 .. Corpus)
      BY <1>1 DEF BlWalk
    <3> QED BY <1>3, <3>1
  <2> QED BY <1>0, <1>1, <1>2, <1>3, <2>1, <2>2 DEF Behind
<1>6. Charged'
  <2>1. Cardinality(Bl!TreeBytes(Flying')) = Cardinality(Bl!TreeBytes(Flying)) - CorpusWeight[b]
    BY <1>2, <1>3, TreeBytesRemove
  <2>2. blessWalk'.inflight = Cardinality(Bl!TreeBytes(Flying'))
    BY <1>0, <1>1, <2>1 DEF Charged
  <2>3. blessWalk'.inflight <= TreeCap
    <3>1. CorpusWeight[b] \in Nat /\ TreeCap \in Nat
      BY <1>1, ContentAssumption
    <3>2. Cardinality(Bl!TreeBytes(Flying)) \in Nat
      BY <1>3, TreeBytesFinite
    <3>3. CASE blessWalk.inflight <= TreeCap
      BY <1>0, <1>1, <3>1, <3>2, <3>3 DEF Charged
    <3>4. CASE \E c \in Flying : Flying = {c}
      <4>1. Flying' = {}
        BY <1>2, <1>3, <3>4
      <4>2. Cardinality(Bl!TreeBytes({})) = 0
        BY TreeBytesNone
      <4> QED BY <2>2, <3>1, <4>1, <4>2
    <3> QED BY <1>0, <3>3, <3>4 DEF Charged
  <2> QED BY <2>2, <2>3 DEF Charged
<1>7. JobsTrue'
  <2>1. \A c \in (Waiting' \cup InHand' \cup ({blessWalk'.held} \ {0})) \ moved' :
            c \in (Waiting \cup InHand \cup ({blessWalk.held} \ {0})) \ moved
    BY <1>1, <1>2
  <2> QED BY <1>0, <1>1, <1>2, <2>1 DEF JobsTrue
<1>8. Accounted'
  <2>1. PICK seen \in SUBSET (1 .. Corpus) :
        /\ Cardinality(seen) = blessReport.examined
        /\ \A c \in seen : c <= blessWalk.cursor /\ c \notin blessWalk.page
        /\ \A c \in seen \ moved :
            \/ BlSettled(c) \/ c \in Flying \/ c = blessWalk.held
            \/ blessReport.failed # {} \/ (options.dry /\ blessReport.selected > 0)
    BY <1>0 DEF Accounted
  <2>2. \A c \in seen : c <= blessWalk'.cursor /\ c \notin blessWalk'.page
    BY <1>1, <2>1
  <2>3. ASSUME NEW c \in seen \ moved
        PROVE  \/ BlSettled(c)' \/ c \in Flying' \/ c = blessWalk'.held
               \/ blessReport'.failed # {} \/ (options'.dry /\ blessReport'.selected > 0)
    <3>1. c = b => BlSettled(c)' \/ blessReport'.failed # {}
      BY <1>1, <2>3
    <3>2. c # b /\ BlSettled(c) => BlSettled(c)'
      <4>1. c # b => rows'[c] = rows[c]
        BY <1>1, <2>1, <2>3
      <4> QED BY <1>1, <4>1 DEF BlSettled
    <3>3. c # b /\ c \in Flying => c \in Flying'
      BY <1>2
    <3>4. c = blessWalk.held => c = blessWalk'.held \/ blessReport'.failed # {}
      BY <1>1
    <3>5. blessReport.failed # {} => blessReport'.failed # {}
      BY <1>1
    <3>6. options' = options /\ blessReport'.selected = blessReport.selected
      BY <1>1
    <3> QED BY <2>1, <2>3, <3>1, <3>2, <3>3, <3>4, <3>5, <3>6
  <2> QED BY <1>1, <2>1, <2>2, <2>3 DEF Accounted
<1>9. PassShape'
  <2>1. ~options.dry
    BY <1>0, <1>3 DEF PassShape
  <2> QED BY <1>1, <2>1 DEF PassShape
<1>10. Orderly'
  <2> SUFFICES ASSUME options.limit = 0, blessReport'.unrecorded = 0, ~blessReport'.outOfRoom, moved = {}
               PROVE  /\ blessReport.examined <= blessWalk.cursor /\ blessWalk.cursor <= Corpus
                      /\ blessWalk'.page = blessReport.examined + 1 .. blessWalk.cursor
                      /\ \A c \in 1 .. Corpus : c > blessWalk.cursor => rows'[c] # "resident" /\ verdict'[c] # "failed"
                      /\ ~blessWalk'.walking => blessReport.examined = Corpus
    BY <1>1 DEF Orderly
  <2>0. blessReport.unrecorded = 0 /\ ~blessReport.outOfRoom
    BY <1>0, <1>1, SMTT(20) DEF BlType, BlReport
  <2>1. UNCHANGED <<blessWalk.page, blessWalk.held, blessWalk.walking>>
    BY <1>1
  <2>2. \A c \in 1 .. Corpus : c > blessWalk.cursor => c # b
    BY <1>0, <1>3 DEF Behind
  <2> QED BY <1>0, <1>1, <2>0, <2>1, <2>2 DEF Orderly
<1> QED
  BY <1>2, <1>4, <1>5, <1>6, <1>7, <1>8, <1>9, <1>10 DEF BlInv

\* A pass that another part's step leaves alone.
LEMMA BlRestsStill == BlInv /\ UNCHANGED BlVars => BlInv'
<1> SUFFICES ASSUME BlInv, UNCHANGED BlVars PROVE BlInv'
  OBVIOUS
<1>0. BlType /\ JobsApart /\ Behind /\ Charged /\ JobsTrue /\ Accounted /\ PassShape /\ Orderly
  BY DEF BlInv
<1>1. UNCHANGED <<kinds, options, rows, blessDisk, trees, verdict, blessWalk, blessQueue, working, results, blessReport, moved>>
  BY DEF BlVars
<1>2. Waiting' = Waiting /\ InHand' = InHand /\ Judged' = Judged /\ Flying' = Flying /\ JobsApart'
  BY <1>0, <1>1, SameFlying
<1>3. BlType' /\ Behind' /\ Charged'
  BY <1>0, <1>1, <1>2 DEF BlType, Behind, Charged
<1>4. JobsTrue' /\ PassShape' /\ Orderly'
  BY <1>0, <1>1, <1>2 DEF JobsTrue, PassShape, Orderly
<1>5. Accounted'
  <2>1. \A b \in 1 .. Corpus : BlSettled(b)' <=> BlSettled(b)
    BY <1>1 DEF BlSettled
  <2> QED BY <1>0, <1>1, <1>2, <2>1 DEF Accounted
<1> QED
  BY <1>2, <1>3, <1>4, <1>5 DEF BlInv

LEMMA BlKept == BlInv /\ Bl!BNext => BlInv'
BY FetchKept, HeldKept, ReturnKept, TakeKept, FinishKept, DriftKept, ExamineKept, RetireKept
   DEF Bl!BNext, Bl!Coordinate

----------------------------------------------------------------------------
(* The suite.                                                               *)

\* Every part starts in an initial state of its own, whichever part a behaviour is about.
LEMMA SuiteStarts == SuiteInit => Sv!SVInit /\ Bl!BInit
BY DEF SuiteInit, SvRests, BlRests

\* A step of the suite is a step of one part, and the others stay as they are.
LEMMA SuiteSteps ==
    ASSUME [SuiteNext]_allVars
    PROVE  (Sv!SVNext \/ UNCHANGED SvVars) /\ (Bl!BNext \/ UNCHANGED BlVars)
BY DEF SuiteNext, IgStep, AnStep, SvStep, BlStep, SwStep, RbStep, SyStep, allVars

\* serve_range, for any readers, leaves and components, rot and repair at any time: no
\* reader is handed bytes that are not the blob's, the outboard is made once, and a read
\* that may seek nowhere fails only if a leaf has rotted.
THEOREM ReadersAreServedTrue == Spec => []ServedTrue
<1>1. SuiteInit => SvInv
  BY SuiteStarts, SvStarts
<1>2. SvInv /\ [SuiteNext]_allVars => SvInv'
  BY SuiteSteps, SvTypeKept, GateKept, BlessedKept, RotKept, SvRestsStill DEF SvInv
<1> QED
  BY <1>1, <1>2, SvSuffices, PTL DEF Spec

\* The blessing pass, for a corpus of any size, any pages, pool and budget, whatever the order
\* the workers answer in, the daemon's changes and the faults: a complete report is true, the
\* charge is what flies and stays within the budget, and no candidate is overlooked.
THEOREM PassIsHonest == Spec => []BlessHonest
<1>1. SuiteInit => BlInv
  BY SuiteStarts, BlStarts
<1>2. BlInv /\ [SuiteNext]_allVars => BlInv'
  BY SuiteSteps, BlKept, BlRestsStill
<1> QED
  BY <1>1, <1>2, BlSuffices, PTL DEF Spec

=============================================================================
