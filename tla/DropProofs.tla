----------------------------- MODULE DropProofs -----------------------------
(***************************************************************************)
(* Drop safety: what it takes for eviction, packing and unpacking to lose  *)
(* nothing, for any recipe graph and any number of processes.              *)
(***************************************************************************)
EXTENDS ResidencyProofs

\* There is one process: a CLI run with nothing beside it.
Alone == \A p, q \in Proc : p = q

\* Every operation that takes place and adds or removes bytes holds the
\* guard, and no claim outlives its TTL.
Serialized ==
    /\ "drop" \in Guarded
    /\ Ops \cap {"ingest", "ingest_unpack", "license", "materialize",
               "rehabilitate"} # {} => "publish" \in Guarded
    /\ "unpack" \in Ops => "unpack" \in Guarded
    /\ MaxLapse = 0

\* The discipline under which no drop strands a blob: one operation at a
\* time changes the bytes, none is cut short, and a container is used only
\* as the one input of recipes that cut its members out of it.  The code
\* keeps to it as long as nothing runs beside it; eviction and packing do
\* hold the guard, so it keeps to it with any number of processes as long
\* as none of them ingests, replays or unpacks.
Discipline ==
    /\ Alone \/ Serialized
    /\ MaxCrash = 0
    /\ AllOrNothing
    /\ \A c \in Container :
         /\ c \notin Holds[c]
         /\ \A r \in Recipe :
              c \in In[r] => In[r] = {c} /\ Good[r] \subseteq Holds[c]

\* p is inside a guarded operation.  Verify-one and the poisoning of a
\* stream run outside the guard.
Busy(p) ==
    /\ pc[p] \notin {"idle", "demote"}
    /\ ~ (pc[p] \in {"poison", "poison_write"} /\ goal[p] = "none")

Held == \A p \in Proc : Busy(p) => guard = p

Exclusive == Alone \/ Held

\* What the locals of a process say about the store, step by step.
Steady(p) ==
    /\ pc[p] = "row" => blob[p] \in Bytes
    /\ rows[p] \subseteq Bytes
    /\ rows[p] # {} => pc[p] \in {"mark", "write", "kids", "members"}
    /\ pc[p] = "sweep" => left[p] \subseteq packed
    /\ pc[p] = "unlink" =>
         blob[p] \in Grounded(Bytes \ {blob[p]}, Known, Good)
    /\ pc[p] = "flip" => blob[p] \in Recoverable
    /\ pc[p] \in {"members", "drop_gate", "drop_unlink"} =>
         blob[p] \in Container /\ Holds[blob[p]] \subseteq Bytes
    /\ pc[p] \in {"extract", "members", "drop_gate", "drop_unlink"} =>
         residency[blob[p]] # "evicted_covered"

\* The inductive invariant.  Exclusive says that nothing changes the store
\* beside a guarded operation; Steady carries what its gate established
\* (the blob is grounded without its literal) to the unlink and the flip.
DropInv ==
    /\ TypeOK
    /\ LicenseInv
    /\ Exclusive
    /\ \A p \in Proc : Steady(p)
    /\ IndexHonest
    /\ NothingStranded

\* Every step keeps the guard exclusive: each operation that is Busy has
\* claimed the guard, and no step hands it to another process.
LEMMA HeldStep ==
    ASSUME Serialized, TypeOK, Held, [Next]_vars
    PROVE  Held'
  <1> USE ResidencyAssumption
          DEF Serialized, TypeOK, LocalsOK, Held, Busy, Goto, Pcs, Goals
  <1>1. ASSUME NEW p \in Proc, EvictStart(p)
        PROVE  Held'
    BY <1>1 DEF EvictStart, Begin
  <1>2. ASSUME NEW p \in Proc, NEW r \in Recipe, PackPut(p, r)
        PROVE  Held'
    BY <1>2 DEF PackPut, Begin
  <1>3. ASSUME NEW p \in Proc, NEW b \in Blob, IngestPut(p, b) \/ UnpackStart(p, b)
        PROVE  Held'
    BY <1>3 DEF IngestPut, UnpackStart, Begin
  <1>4. ASSUME NEW p \in Proc, NEW r \in Recipe,
               License(p, r) \/ Materialize(p, r) \/ Rehabilitate(p, r)
        PROVE  Held'
    BY <1>4 DEF License, Materialize, Rehabilitate, ReplayStart, Begin
  <1>5. ASSUME NEW p \in Proc, NEW r \in Recipe, Mint(p, r) \/ IndexPeer(p, r)
        PROVE  Held'
    BY <1>5 DEF Mint, IndexPeer, locals
  <1>6. ASSUME NEW p \in Proc, NEW r \in Recipe, StreamFails(p, r)
        PROVE  Held'
    <2>1. pc[p] = "idle" /\ Goto(p, "poison") /\ UNCHANGED <<guard, goal>>
      BY <1>6, Zenon DEF StreamFails
    <2> QED
      BY <2>1
  <1>7. ASSUME NEW p \in Proc, ReplayRun(p)
        PROVE  Held'
    <2>1. /\ pc[p] = "run"
          /\ Goto(p, IF goal[p] = "keep" THEN "kids" ELSE "mark")
          /\ UNCHANGED <<guard, goal>>
      BY <1>7, Zenon DEF ReplayRun
    <2> QED
      BY <2>1
  <1>8. ASSUME NEW p \in Proc, Finish(p)
        PROVE  Held'
    BY <1>8 DEF Finish, Forget
  <1>9. ASSUME NEW p \in Proc, ReplayClaimFails(p), ~ Finish(p)
        PROVE  Held'
    <2>1. pc[p] = "run" /\ Goto(p, "poison") /\ UNCHANGED <<guard, goal>>
      BY <1>9, Zenon DEF ReplayClaimFails
    <2> QED
      BY <2>1
  <1>10. ASSUME NEW p \in Proc, ~ Finish(p),
               \/ IngestRow(p) \/ ReplayError(p) \/ Mark(p) \/ MarkWrite(p)
               \/ ReplayDone(p) \/ Poison(p) \/ PoisonWrite(p)
        PROVE  Held'
    BY <1>10 DEF IngestRow, ReplayError, Mark, MarkWrite, ReplayDone, Poison,
         PoisonWrite, locals
  <1>11. ASSUME NEW p \in Proc, ~ Finish(p),
               \/ EvictRoute(p) \/ EvictGround(p) \/ EvictUnlink(p)
               \/ EvictFlip(p) \/ EvictSecondPass(p) \/ EvictEnd(p)
        PROVE  Held'
    BY <1>11 DEF EvictRoute, EvictGround, EvictUnlink, EvictFlip,
         EvictSecondPass, EvictEnd, locals
  <1>12. ASSUME NEW p \in Proc, ~ Finish(p),
               \/ PackEnd(p) \/ UnpackExtract(p) \/ MembersDone(p)
               \/ DropGate(p) \/ DropUnlink(p) \/ DropFlip(p) \/ HealDemote(p)
        PROVE  Held'
    BY <1>12 DEF PackEnd, UnpackExtract, MembersDone, DropGate, DropUnlink,
         DropFlip, HealDemote, locals
  <1>13. ASSUME NEW p \in Proc, NEW b \in Blob,
               \/ Row(p, b) \/ EvictPick(p, b) \/ PackSweep(p, b)
               \/ MemberRow(p, b) \/ HealLook(p, b)
        PROVE  Held'
    BY <1>13 DEF Row, EvictPick, PackSweep, MemberRow, HealLook
  <1>14. ASSUME NEW p \in Proc, NEW r \in Recipe, Kid(p, r) \/ MemberMint(p, r)
        PROVE  Held'
    BY <1>14 DEF Kid, MemberMint, locals
  <1>15. ASSUME NEW p \in Proc, Crash(p)
        PROVE  Held'
    BY <1>15 DEF Crash, Forget
  <1>16. CASE Expire \/ Lapse \/ Recover
    BY <1>16 DEF Expire, Lapse, Recover, locals
  <1>17. CASE UNCHANGED vars
    BY <1>17 DEF vars
  <1> QED
    BY <1>1, <1>2, <1>3, <1>4, <1>5, <1>6, <1>7, <1>8, <1>9, <1>10, <1>11,
       <1>12, <1>13, <1>14, <1>15, <1>16, <1>17
       DEF Next, StartStep, OwnStep

\* So one operation at a time stays one at a time.
LEMMA ExclusiveStep ==
    ASSUME Discipline, TypeOK, Exclusive, [Next]_vars
    PROVE  Exclusive'
  <1>1. CASE Alone
    BY <1>1 DEF Exclusive, Alone
  <1>2. CASE ~ Alone
    BY <1>2, HeldStep DEF Discipline, Exclusive
  <1> QED
    BY <1>1, <1>2

\* Beside a guarded operation there is no other.
LEMMA OthersQuiet ==
    ASSUME Exclusive, NEW p \in Proc, Busy(p), NEW q \in Proc, q # p
    PROVE  ~ Busy(q)
  BY DEF Exclusive, Alone, Held

\* Only the two unlinks take bytes out of the store.
LEMMA StoreGrows ==
    ASSUME TypeOK, [Next]_vars,
           \A p \in Proc : pc[p] = "sweep" => left[p] \subseteq packed,
           \A p \in Proc : ~ EvictUnlink(p) /\ ~ DropUnlink(p)
    PROVE  Bytes \subseteq Bytes' /\ packed \subseteq packed'
  <1> USE DEF TypeOK, Bytes
  <1>1. ASSUME NEW p \in Proc, ReplayRun(p)
        PROVE  Bytes \subseteq Bytes' /\ packed \subseteq packed'
    <2>1. loose' = loose \cup Out[recipe[p]] /\ UNCHANGED <<packed, tables>>
      BY <1>1, Zenon DEF ReplayRun
    <2> QED
      BY <2>1 DEF tables
  <1>2. ASSUME NEW p \in Proc, ReplayClaimFails(p)
        PROVE  Bytes \subseteq Bytes' /\ packed \subseteq packed'
    <2>1. /\ \E out \in SUBSET Good[recipe[p]] : loose' = loose \cup out
          /\ UNCHANGED <<packed, tables>>
      BY <1>2, Zenon DEF ReplayClaimFails
    <2> QED
      BY <2>1 DEF tables
  <1>3. ASSUME NEW p \in Proc, NEW r \in Recipe, StreamFails(p, r)
        PROVE  Bytes \subseteq Bytes' /\ packed \subseteq packed'
    <2>1. UNCHANGED <<store, tables>>
      BY <1>3, Zenon DEF StreamFails
    <2> QED
      BY <2>1 DEF store, tables
  <1>4. ASSUME NEW p \in Proc, EvictUnlink(p)
        PROVE  Bytes \subseteq Bytes' /\ packed \subseteq packed'
    BY <1>4
  <1>5. ASSUME NEW p \in Proc, NEW r \in Recipe, PackPut(p, r)
        PROVE  Bytes \subseteq Bytes' /\ packed \subseteq packed'
    BY <1>5 DEF PackPut, Resident
  <1>6. ASSUME NEW p \in Proc, NEW b \in Blob, PackSweep(p, b)
        PROVE  Bytes \subseteq Bytes' /\ packed \subseteq packed'
    BY <1>6 DEF PackSweep
  <1>7. ASSUME NEW p \in Proc, DropUnlink(p)
        PROVE  Bytes \subseteq Bytes' /\ packed \subseteq packed'
    BY <1>7
  <1>8. ASSUME NEW p \in Proc, NEW b \in Blob,
               \/ IngestPut(p, b) \/ Row(p, b) \/ EvictPick(p, b)
               \/ UnpackStart(p, b) \/ MemberRow(p, b) \/ HealLook(p, b)
        PROVE  Bytes \subseteq Bytes' /\ packed \subseteq packed'
    BY <1>8 DEF IngestPut, Row, EvictPick, UnpackStart, MemberRow, HealLook,
         store, tables
  <1>9. ASSUME NEW p \in Proc,
               \/ IngestRow(p) \/ ReplayError(p) \/ Mark(p) \/ MarkWrite(p)
               \/ ReplayDone(p) \/ Poison(p) \/ PoisonWrite(p)
               \/ EvictStart(p)
        PROVE  Bytes \subseteq Bytes' /\ packed \subseteq packed'
    BY <1>9 DEF IngestRow, ReplayError, Mark, MarkWrite, ReplayDone, Poison,
         PoisonWrite, EvictStart, store, tables
  <1>10. ASSUME NEW p \in Proc,
               \/ EvictRoute(p) \/ EvictGround(p) \/ EvictFlip(p)
               \/ EvictSecondPass(p) \/ EvictEnd(p) \/ PackEnd(p)
               \/ UnpackExtract(p) \/ MembersDone(p)
        PROVE  Bytes \subseteq Bytes' /\ packed \subseteq packed'
    BY <1>10 DEF EvictRoute, EvictGround, EvictFlip, EvictSecondPass,
         EvictEnd, PackEnd, UnpackExtract, MembersDone, store, tables
  <1>11. ASSUME NEW p \in Proc,
               DropGate(p) \/ DropFlip(p) \/ HealDemote(p) \/ Crash(p)
        PROVE  Bytes \subseteq Bytes' /\ packed \subseteq packed'
    BY <1>11 DEF DropGate, DropFlip, HealDemote, Crash, store, tables
  <1>12. ASSUME NEW p \in Proc, NEW r \in Recipe,
               \/ Mint(p, r) \/ IndexPeer(p, r) \/ License(p, r)
               \/ Materialize(p, r) \/ Rehabilitate(p, r) \/ Kid(p, r)
               \/ MemberMint(p, r)
        PROVE  Bytes \subseteq Bytes' /\ packed \subseteq packed'
    BY <1>12 DEF Mint, IndexPeer, License, Materialize, Rehabilitate, Kid,
         MemberMint, ReplayStart, store, tables
  <1>13. CASE Expire \/ Lapse \/ Recover
    BY <1>13 DEF Expire, Lapse, Recover, store, tables
  <1>14. CASE UNCHANGED vars
    BY <1>14 DEF vars
  <1> QED
    BY <1>1, <1>2, <1>3, <1>4, <1>5, <1>6, <1>7, <1>8, <1>9, <1>10, <1>11,
       <1>12, <1>13, <1>14
       DEF Next, StartStep, OwnStep

\* No step takes a recipe object out of the store.
LEMMA KnownGrows ==
    ASSUME TypeOK, [Next]_vars
    PROVE  Known \subseteq Known'
  <1> USE DEF TypeOK, Known, LocalsOK
  <1>1. ASSUME NEW p \in Proc, NEW r \in Recipe, Mint(p, r)
        PROVE  Known \subseteq Known'
    BY <1>1 DEF Mint
  <1>2. ASSUME NEW p \in Proc, NEW r \in Recipe, IndexPeer(p, r)
        PROVE  Known \subseteq Known'
    BY <1>2 DEF IndexPeer
  <1>3. ASSUME NEW p \in Proc, ReplayRun(p)
        PROVE  Known \subseteq Known'
    <2>1. loose' = loose \cup Out[recipe[p]] /\ UNCHANGED <<packed, tables>>
      BY <1>3, Zenon DEF ReplayRun
    <2> QED
      BY <2>1 DEF tables
  <1>4. ASSUME NEW p \in Proc, ReplayClaimFails(p)
        PROVE  Known \subseteq Known'
    <2>1. /\ \E out \in SUBSET Good[recipe[p]] : loose' = loose \cup out
          /\ UNCHANGED <<packed, tables>>
      BY <1>4, Zenon DEF ReplayClaimFails
    <2> QED
      BY <2>1 DEF tables
  <1>5. ASSUME NEW p \in Proc, Mark(p)
        PROVE  Known \subseteq Known'
    BY <1>5 DEF Mark, tables
  <1>6. ASSUME NEW p \in Proc, MarkWrite(p)
        PROVE  Known \subseteq Known'
    BY <1>6 DEF MarkWrite
  <1>7. ASSUME NEW p \in Proc, NEW r \in Recipe, StreamFails(p, r)
        PROVE  Known \subseteq Known'
    <2>1. UNCHANGED <<store, tables>>
      BY <1>7, Zenon DEF StreamFails
    <2> QED
      BY <2>1 DEF store, tables
  <1>8. ASSUME NEW p \in Proc, PoisonWrite(p)
        PROVE  Known \subseteq Known'
    BY <1>8 DEF PoisonWrite
  <1>9. ASSUME NEW p \in Proc, NEW r \in Recipe, MemberMint(p, r)
        PROVE  Known \subseteq Known'
    BY <1>9 DEF MemberMint
  <1>10. CASE Recover
    BY <1>10 DEF Recover
  <1>11. ASSUME NEW p \in Proc, NEW b \in Blob,
               \/ IngestPut(p, b) \/ Row(p, b) \/ EvictPick(p, b)
               \/ PackSweep(p, b) \/ UnpackStart(p, b) \/ MemberRow(p, b)
               \/ HealLook(p, b)
        PROVE  Known \subseteq Known'
    BY <1>11 DEF IngestPut, Row, EvictPick, PackSweep, UnpackStart,
         MemberRow, HealLook, store, tables
  <1>12. ASSUME NEW p \in Proc,
               \/ IngestRow(p) \/ ReplayError(p) \/ ReplayDone(p) \/ Poison(p)
               \/ EvictStart(p) \/ EvictRoute(p) \/ EvictGround(p)
               \/ EvictUnlink(p)
        PROVE  Known \subseteq Known'
    BY <1>12 DEF IngestRow, ReplayError, ReplayDone, Poison, EvictStart,
         EvictRoute, EvictGround, EvictUnlink, store, tables
  <1>13. ASSUME NEW p \in Proc,
               \/ EvictFlip(p) \/ EvictSecondPass(p) \/ EvictEnd(p)
               \/ PackEnd(p) \/ UnpackExtract(p) \/ MembersDone(p)
               \/ DropGate(p) \/ DropUnlink(p)
        PROVE  Known \subseteq Known'
    BY <1>13 DEF EvictFlip, EvictSecondPass, EvictEnd, PackEnd,
         UnpackExtract, MembersDone, DropGate, DropUnlink, store, tables
  <1>14. ASSUME NEW p \in Proc,
               DropFlip(p) \/ HealDemote(p) \/ Crash(p)
        PROVE  Known \subseteq Known'
    BY <1>14 DEF DropFlip, HealDemote, Crash, store, tables
  <1>15. ASSUME NEW p \in Proc, NEW r \in Recipe,
               \/ License(p, r) \/ Materialize(p, r) \/ Rehabilitate(p, r)
               \/ Kid(p, r) \/ PackPut(p, r)
        PROVE  Known \subseteq Known'
    BY <1>15 DEF License, Materialize, Rehabilitate, Kid, PackPut,
         ReplayStart, store, tables
  <1>16. CASE Expire \/ Lapse
    BY <1>16 DEF Expire, Lapse, store, tables
  <1>17. CASE UNCHANGED vars
    BY <1>17 DEF vars
  <1> QED
    BY <1>1, <1>2, <1>3, <1>4, <1>5, <1>6, <1>7, <1>8, <1>9, <1>10, <1>11,
       <1>12, <1>13, <1>14, <1>15, <1>16, <1>17
       DEF Next, StartStep, OwnStep

\* So between two unlinks whatever is recoverable stays recoverable.
LEMMA GroundedGrows ==
    ASSUME Bytes \subseteq Bytes', Known \subseteq Known'
    PROVE  /\ Recoverable \subseteq Recoverable'
           /\ \A b \in Blob : Grounded(Bytes \ {b}, Known, Good)
                                \subseteq Grounded(Bytes' \ {b}, Known', Good)
  BY GroundedIsMonotone DEF Recoverable

\* Without a drop in between, what grounds a blob by the index's account
\* grounds it in fact.
LEMMA EvictableIsGrounded ==
    ASSUME TypeOK, LicensedSound, Resident \subseteq Bytes,
           NEW b \in Blob, Evictable(b)
    PROVE  b \in Grounded(Bytes \ {b}, Known, Good)
  <1>1. Licensed \subseteq Known
    BY DEF Licensed, Known
  <1>2. \A r \in Licensed : Out[r] \subseteq Good[r]
    BY DEF LicensedSound
  <1>3. Resident \ {b} \subseteq Bytes \ {b}
    OBVIOUS
  <1> QED
    BY <1>1, <1>2, <1>3, GroundedIsMonotone DEF Evictable

\* While a process works on the bytes no other is between an unlink and its
\* flip, so the Resident rows are exactly honest.
LEMMA GuardedIndexIsExact ==
    ASSUME Exclusive, IndexHonest, NEW p \in Proc, Busy(p),
           pc[p] \notin {"flip", "drop_flip"}
    PROVE  Resident \subseteq Bytes
  <1>1. \A q \in Proc : q # p => pc[q] \notin {"flip", "drop_flip"}
    BY OthersQuiet DEF Busy
  <1> QED
    BY <1>1 DEF IndexHonest

\* The same when a lone process is idle, or nobody holds the guard.
LEMMA FreeIndexIsExact ==
    ASSUME Exclusive, IndexHonest, NEW p \in Proc, pc[p] = "idle",
           Alone \/ guard \notin Proc
    PROVE  Resident \subseteq Bytes
  <1>1. \A q \in Proc : pc[q] \notin {"flip", "drop_flip"}
    BY DEF Exclusive, Alone, Held, Busy
  <1> QED
    BY <1>1 DEF IndexHonest

\* An eviction's unlink loses nothing: the blob is grounded without its
\* literal, and then so is all that the literal grounded.
LEMMA EvictUnlinkLosesNothing ==
    ASSUME TypeOK, NEW p \in Proc, Steady(p), EvictUnlink(p)
    PROVE  /\ Recoverable \subseteq Recoverable'
           /\ blob[p] \in Recoverable'
  <1> DEFINE b == blob[p]
  <1>1. b \in Grounded(Bytes \ {b}, Known, Good)
    BY DEF Steady, EvictUnlink
  <1>2. Bytes \in SUBSET Blob
    BY DEF TypeOK, Bytes
  <1>3. Recoverable \subseteq Grounded(Bytes \ {b}, Known, Good)
    BY <1>1, <1>2, DropKeepsGrounded DEF Recoverable
  <1>4. Bytes \ {b} \subseteq Bytes' /\ Known' = Known
    BY DEF EvictUnlink, Bytes, Known, tables
  <1>5. Grounded(Bytes \ {b}, Known, Good) \subseteq Recoverable'
    BY <1>4, GroundedIsMonotone DEF Recoverable
  <1> QED
    BY <1>1, <1>3, <1>5

\* A container whose members are all in the store can go: the recipes that
\* read it yield only those members.
LEMMA DropUnlinkLosesOnlyTheContainer ==
    ASSUME Discipline, TypeOK, NEW p \in Proc, Steady(p), DropUnlink(p)
    PROVE  /\ Recoverable \ {blob[p]} \subseteq Recoverable'
           /\ Holds[blob[p]] \subseteq Recoverable'
  <1> DEFINE c == blob[p]
  <1>1. c \in Container /\ Holds[c] \subseteq Bytes
    BY DEF Steady, DropUnlink
  <1>2. Bytes' \in SUBSET Blob /\ Bytes \subseteq Bytes' \cup {c} /\ Known' = Known
    BY DEF DropUnlink, Bytes, Known, tables, TypeOK
  <1>3. Holds[c] \subseteq Bytes'
    BY <1>1, <1>2 DEF Discipline
  <1>4. Bytes' \subseteq Recoverable'
    BY <1>2, GroundedHoldsLiterals DEF Recoverable
  <1>5. ASSUME NEW S \in SUBSET Blob, Bytes' \subseteq S, Closed(S, Known, Good)
        PROVE  Recoverable \subseteq S \cup {c}
    <2>1. Bytes \subseteq S \cup {c}
      BY <1>2, <1>5
    <2>2. Closed(S \cup {c}, Known, Good)
      <3> SUFFICES ASSUME NEW r \in Known, In[r] \subseteq S \cup {c}
                   PROVE  Good[r] \subseteq S \cup {c}
        BY DEF Closed
      <3>1. CASE c \in In[r]
        <4>1. r \in Recipe
          BY DEF Known
        <4>2. Good[r] \subseteq Holds[c]
          BY <1>1, <3>1, <4>1 DEF Discipline
        <4> QED
          BY <4>2, <1>3, <1>5
      <3>2. CASE c \notin In[r]
        BY <1>5, <3>2 DEF Closed
      <3> QED
        BY <3>1, <3>2
    <2>3. S \cup {c} \in SUBSET Blob
      BY <1>1, ResidencyAssumption
    <2> QED
      BY <2>1, <2>2, <2>3, GroundedIsLeast DEF Recoverable
  <1>6. ASSUME NEW b \in Recoverable, b # c
        PROVE  b \in Recoverable'
    <2>1. b \in Blob
      BY DEF Recoverable, Grounded
    <2>2. \A S \in SUBSET Blob :
            Bytes' \subseteq S /\ Closed(S, Known, Good) => b \in S
      BY <1>5, <1>6
    <2> QED
      BY <1>2, <2>1, <2>2 DEF Recoverable, Grounded
  <1> QED
    BY <1>3, <1>4, <1>6

\* A step that unlinks nothing keeps what the locals say about the store.
LEMMA GrowingStepKeepsSteady ==
    ASSUME Discipline, DropInv, [Next]_vars,
           \A p \in Proc : ~ EvictUnlink(p) /\ ~ DropUnlink(p)
    PROVE  \A q \in Proc : Steady(q)'
  <1> USE DEF DropInv
  <1>a. Bytes \subseteq Bytes' /\ packed \subseteq packed' /\ Known \subseteq Known'
    BY StoreGrows, KnownGrows DEF Steady
  <1>b. /\ Recoverable \subseteq Recoverable'
        /\ \A b \in Blob : Grounded(Bytes \ {b}, Known, Good)
                             \subseteq Grounded(Bytes' \ {b}, Known', Good)
    BY <1>a, GroundedGrows
  <1>c. /\ pc \in [Proc -> Pcs]
        /\ blob \in [Proc -> Blob \cup {None}]
        /\ rows \in [Proc -> SUBSET Blob]
        /\ left \in [Proc -> SUBSET Blob]
        /\ residency \in [Blob -> ResidencyState]
        /\ \A q \in Proc : LocalsOK(q) /\ Steady(q)
    BY DEF TypeOK
  <1>d. \A q \in Proc : pc[q] \in {"extract", "members", "drop_gate",
            "drop_unlink", "ground", "unlink", "flip", "row"} => blob[q] \in Blob
    BY <1>c DEF LocalsOK
  <1> USE <1>a, <1>b, <1>c, <1>d DEF Steady, Goto
  <1>1. ASSUME NEW p \in Proc, NEW b \in Blob, IngestPut(p, b)
        PROVE  \A q \in Proc : Steady(q)'
    <2>1. b \in Bytes'
      BY <1>1 DEF IngestPut, Bytes
    <2> QED
      BY <1>1, <2>1 DEF IngestPut, Begin, tables
  <1>2. ASSUME NEW p \in Proc, IngestRow(p)
        PROVE  \A q \in Proc : Steady(q)'
    <2>1. CASE Finish(p)
      BY <1>2, <2>1 DEF IngestRow, Finish, Forget
    <2>2. CASE ~ Finish(p)
      BY <1>2, <2>2 DEF IngestRow, locals
    <2> QED
      BY <2>1, <2>2
  <1>3. ASSUME NEW p \in Proc, NEW r \in Recipe, Mint(p, r)
        PROVE  \A q \in Proc : Steady(q)'
    BY <1>3 DEF Mint, WithRowsFor, store, locals
  <1>4. ASSUME NEW p \in Proc, NEW r \in Recipe, IndexPeer(p, r)
        PROVE  \A q \in Proc : Steady(q)'
    BY <1>4 DEF IndexPeer, WithRowsFor, store, locals
  <1>5. ASSUME NEW p \in Proc, NEW r \in Recipe, License(p, r)
        PROVE  \A q \in Proc : Steady(q)'
    BY <1>5 DEF License, ReplayStart, Begin, store, tables
  <1>6. ASSUME NEW p \in Proc, NEW r \in Recipe, Materialize(p, r)
        PROVE  \A q \in Proc : Steady(q)'
    BY <1>6 DEF Materialize, ReplayStart, Begin, store, tables
  <1>7. ASSUME NEW p \in Proc, NEW r \in Recipe, Rehabilitate(p, r)
        PROVE  \A q \in Proc : Steady(q)'
    BY <1>7 DEF Rehabilitate, ReplayStart, Begin, store, tables
  <1>8. ASSUME NEW p \in Proc, ReplayRun(p)
        PROVE  \A q \in Proc : Steady(q)'
    <2>1. /\ loose' = loose \cup Out[recipe[p]]
          /\ rows' = [rows EXCEPT ![p] = Out[recipe[p]]]
          /\ Goto(p, IF goal[p] = "keep" THEN "kids" ELSE "mark")
          /\ UNCHANGED <<tables, blob, left>>
      BY <1>8, Zenon DEF ReplayRun
    <2>2. Out[recipe[p]] \subseteq Bytes'
      BY <2>1 DEF Bytes
    <2> QED
      BY <2>1, <2>2 DEF tables
  <1>9. ASSUME NEW p \in Proc, ReplayClaimFails(p)
        PROVE  \A q \in Proc : Steady(q)'
    <2>1. pc[p] = "run" /\ UNCHANGED tables
      BY <1>9, Zenon DEF ReplayClaimFails
    <2>2. CASE Finish(p)
      BY <2>1, <2>2 DEF Finish, Forget, tables
    <2>3. CASE ~ Finish(p)
      <3>1. Goto(p, "poison") /\ UNCHANGED <<blob, rows, left>>
        BY <1>9, <2>3, Zenon DEF ReplayClaimFails
      <3> QED
        BY <2>1, <3>1 DEF tables
    <2> QED
      BY <2>2, <2>3
  <1>10. ASSUME NEW p \in Proc, ReplayError(p)
        PROVE  \A q \in Proc : Steady(q)'
    BY <1>10 DEF ReplayError, Finish, Forget, store, tables
  <1>11. ASSUME NEW p \in Proc, Mark(p)
        PROVE  \A q \in Proc : Steady(q)'
    <2>1. CASE Finish(p)
      BY <1>11, <2>1 DEF Mark, Finish, Forget, tables
    <2>2. CASE ~ Finish(p)
      BY <1>11, <2>2 DEF Mark, tables, locals
    <2> QED
      BY <2>1, <2>2
  <1>12. ASSUME NEW p \in Proc, MarkWrite(p)
        PROVE  \A q \in Proc : Steady(q)'
    BY <1>12 DEF MarkWrite, store, locals
  <1>13. ASSUME NEW p \in Proc, NEW r \in Recipe, Kid(p, r)
        PROVE  \A q \in Proc : Steady(q)'
    BY <1>13 DEF Kid, store, tables
  <1>14. ASSUME NEW p \in Proc, NEW b \in Blob, Row(p, b)
        PROVE  \A q \in Proc : Steady(q)'
    BY <1>14 DEF Row, store
  <1>15. ASSUME NEW p \in Proc, ReplayDone(p)
        PROVE  \A q \in Proc : Steady(q)'
    <2>1. CASE Finish(p)
      BY <1>15, <2>1 DEF ReplayDone, Finish, Forget, tables
    <2>2. CASE ~ Finish(p)
      BY <1>15, <2>2 DEF ReplayDone, tables, locals
    <2> QED
      BY <2>1, <2>2
  <1>16. ASSUME NEW p \in Proc, NEW r \in Recipe, StreamFails(p, r)
        PROVE  \A q \in Proc : Steady(q)'
    <2>1. /\ pc[p] = "idle"
          /\ Goto(p, "poison")
          /\ UNCHANGED <<tables, blob, rows, left>>
      BY <1>16, Zenon DEF StreamFails
    <2> QED
      BY <2>1 DEF tables
  <1>17. ASSUME NEW p \in Proc, Poison(p)
        PROVE  \A q \in Proc : Steady(q)'
    <2>1. CASE Finish(p)
      BY <1>17, <2>1 DEF Poison, Finish, Forget, tables
    <2>2. CASE ~ Finish(p)
      BY <1>17, <2>2 DEF Poison, tables, locals
    <2> QED
      BY <2>1, <2>2
  <1>18. ASSUME NEW p \in Proc, PoisonWrite(p)
        PROVE  \A q \in Proc : Steady(q)'
    <2>1. CASE Finish(p)
      BY <1>18, <2>1 DEF PoisonWrite, Finish, Forget
    <2>2. CASE ~ Finish(p)
      BY <1>18, <2>2 DEF PoisonWrite, locals
    <2> QED
      BY <2>1, <2>2
  <1>19. ASSUME NEW p \in Proc, EvictStart(p)
        PROVE  \A q \in Proc : Steady(q)'
    BY <1>19 DEF EvictStart, Begin, CoveredBy, Resident, store, tables
  <1>20. ASSUME NEW p \in Proc, NEW b \in Blob, EvictPick(p, b)
        PROVE  \A q \in Proc : Steady(q)'
    BY <1>20 DEF EvictPick, store, tables
  <1>21. ASSUME NEW p \in Proc, EvictRoute(p)
        PROVE  \A q \in Proc : Steady(q)'
    BY <1>21 DEF EvictRoute, store, tables
  <1>22. ASSUME NEW p \in Proc, EvictGround(p)
        PROVE  \A q \in Proc : Steady(q)'
    <2>1. Busy(p)
      BY <1>22 DEF EvictGround, Busy
    <2>2. Resident \subseteq Bytes
      BY <1>22, <2>1, GuardedIndexIsExact DEF EvictGround
    <2>3. Evictable(blob[p]) => blob[p] \in Grounded(Bytes \ {blob[p]}, Known, Good)
      BY <1>22, <2>2, EvictableIsGrounded DEF EvictGround, LocalsOK, LicenseInv
    <2> QED
      BY <1>22, <2>3 DEF EvictGround, store, tables, locals
  <1>23. ASSUME NEW p \in Proc, EvictUnlink(p)
        PROVE  \A q \in Proc : Steady(q)'
    BY <1>23
  <1>24. ASSUME NEW p \in Proc, EvictFlip(p)
        PROVE  \A q \in Proc : Steady(q)'
    <2>1. \A q \in Proc : q # p =>
            pc[q] \notin {"extract", "members", "drop_gate", "drop_unlink"}
      BY <1>24, OthersQuiet DEF EvictFlip, Busy
    <2> QED
      BY <1>24, <2>1 DEF EvictFlip, locals, LocalsOK
  <1>25. ASSUME NEW p \in Proc, EvictSecondPass(p)
        PROVE  \A q \in Proc : Steady(q)'
    BY <1>25 DEF EvictSecondPass, CoveredBy, Resident, store, tables
  <1>26. ASSUME NEW p \in Proc, EvictEnd(p)
        PROVE  \A q \in Proc : Steady(q)'
    BY <1>26 DEF EvictEnd, Finish, Forget, store, tables
  <1>27. ASSUME NEW p \in Proc, NEW r \in Recipe, PackPut(p, r)
        PROVE  \A q \in Proc : Steady(q)'
    BY <1>27 DEF PackPut, Begin, tables
  <1>28. ASSUME NEW p \in Proc, NEW b \in Blob, PackSweep(p, b)
        PROVE  \A q \in Proc : Steady(q)'
    BY <1>28 DEF PackSweep, tables
  <1>29. ASSUME NEW p \in Proc, PackEnd(p)
        PROVE  \A q \in Proc : Steady(q)'
    BY <1>29 DEF PackEnd, Finish, Forget, store, tables
  <1>30. ASSUME NEW p \in Proc, NEW b \in Blob, UnpackStart(p, b)
        PROVE  \A q \in Proc : Steady(q)'
    <2>1. /\ pc[p] = "idle"
          /\ Alone \/ guard = None
          /\ b \in Resident
      BY <1>30 DEF UnpackStart, UnpackCandidate, Resident, Begin, Discipline,
           Serialized
    <2>2. b \in Bytes
      BY <2>1, FreeIndexIsExact, ResidencyAssumption
    <2> QED
      BY <1>30, <2>1, <2>2 DEF UnpackStart, Begin, Resident, store, tables
  <1>31. ASSUME NEW p \in Proc, UnpackExtract(p)
        PROVE  \A q \in Proc : Steady(q)'
    <2>1. CASE Finish(p)
      BY <1>31, <2>1 DEF UnpackExtract, Finish, Forget, tables
    <2>2. CASE ~ Finish(p)
      <3>1. /\ pc[p] = "extract"
            /\ loose' = loose \cup Holds[blob[p]]
            /\ rows' = [rows EXCEPT ![p] = Holds[blob[p]]]
            /\ Goto(p, "members")
            /\ UNCHANGED <<tables, blob, left>>
        BY <1>31, <2>2 DEF UnpackExtract
      <3>2. Holds[blob[p]] \subseteq Bytes'
        BY <3>1 DEF Bytes
      <3> QED
        BY <3>1, <3>2 DEF tables, LocalsOK
    <2> QED
      BY <2>1, <2>2
  <1>32. ASSUME NEW p \in Proc, NEW b \in Blob, MemberRow(p, b)
        PROVE  \A q \in Proc : Steady(q)'
    BY <1>32 DEF MemberRow, store
  <1>33. ASSUME NEW p \in Proc, NEW r \in Recipe, MemberMint(p, r)
        PROVE  \A q \in Proc : Steady(q)'
    BY <1>33 DEF MemberMint, store, locals
  <1>34. ASSUME NEW p \in Proc, MembersDone(p)
        PROVE  \A q \in Proc : Steady(q)'
    BY <1>34 DEF MembersDone, store, tables, locals
  <1>35. ASSUME NEW p \in Proc, DropGate(p)
        PROVE  \A q \in Proc : Steady(q)'
    <2>1. CASE Finish(p)
      BY <1>35, <2>1 DEF DropGate, Finish, Forget, tables
    <2>2. CASE ~ Finish(p)
      BY <1>35, <2>2 DEF DropGate, tables, locals
    <2> QED
      BY <2>1, <2>2
  <1>36. ASSUME NEW p \in Proc, DropUnlink(p)
        PROVE  \A q \in Proc : Steady(q)'
    BY <1>36
  <1>37. ASSUME NEW p \in Proc, DropFlip(p)
        PROVE  \A q \in Proc : Steady(q)'
    BY <1>37 DEF DropFlip, Finish, Forget, store
  <1>38. ASSUME NEW p \in Proc, NEW b \in Blob, HealLook(p, b)
        PROVE  \A q \in Proc : Steady(q)'
    BY <1>38 DEF HealLook, store, tables
  <1>39. ASSUME NEW p \in Proc, HealDemote(p)
        PROVE  \A q \in Proc : Steady(q)'
    BY <1>39 DEF HealDemote, Finish, Forget, store
  <1>40. ASSUME NEW p \in Proc, Crash(p)
        PROVE  \A q \in Proc : Steady(q)'
    BY <1>40 DEF Crash, Forget, store, tables
  <1>41. CASE Expire
    BY <1>41 DEF Expire, store, tables, locals
  <1>42. CASE Lapse
    BY <1>42 DEF Lapse, store, tables, locals
  <1>43. CASE Recover
    BY <1>43 DEF Recover, store, locals
  <1>44. CASE UNCHANGED vars
    BY <1>44 DEF vars
  <1> QED
    BY <1>1, <1>2, <1>3, <1>4, <1>5, <1>6, <1>7, <1>8, <1>9, <1>10, <1>11,
       <1>12, <1>13, <1>14, <1>15, <1>16, <1>17, <1>18, <1>19, <1>20, <1>21,
       <1>22, <1>23, <1>24, <1>25, <1>26, <1>27, <1>28, <1>29, <1>30, <1>31,
       <1>32, <1>33, <1>34, <1>35, <1>36, <1>37, <1>38, <1>39, <1>40, <1>41,
       <1>42, <1>43, <1>44
       DEF Next, StartStep, OwnStep

\* So does an unlink: no other process is inside a guarded operation.
LEMMA UnlinkKeepsSteady ==
    ASSUME Discipline, DropInv, NEW p \in Proc, EvictUnlink(p) \/ DropUnlink(p)
    PROVE  \A q \in Proc : Steady(q)'
  <1>1. /\ pc \in [Proc -> Pcs]
        /\ \A q \in Proc : Steady(q)
    BY DEF DropInv, TypeOK
  <1>2. Busy(p)
    BY DEF EvictUnlink, DropUnlink, Busy
  <1>3. \A q \in Proc :
          q # p => pc[q] \in {"idle", "demote", "poison", "poison_write"}
    BY <1>2, OthersQuiet DEF DropInv, Busy
  <1>4. \A q \in Proc : rows[q] = {}
    BY <1>3 DEF DropInv, Steady, EvictUnlink, DropUnlink
  <1>5. \A q \in Proc : q # p => pc'[q] = pc[q] /\ rows'[q] = {}
    BY <1>1, <1>4 DEF EvictUnlink, DropUnlink, Goto, locals
  <1>6. rows'[p] = {} /\ blob'[p] = blob[p]
    BY <1>4 DEF EvictUnlink, DropUnlink, locals
  <1>7. CASE EvictUnlink(p)
    <2>1. pc'[p] = "flip"
      BY <1>1, <1>7 DEF EvictUnlink, Goto
    <2>2. blob[p] \in Recoverable'
      BY <1>7, EvictUnlinkLosesNothing DEF DropInv
    <2> QED
      BY <1>3, <1>5, <1>6, <2>1, <2>2 DEF Steady
  <1>8. CASE DropUnlink(p)
    <2>1. pc'[p] = "drop_flip"
      BY <1>1, <1>8 DEF DropUnlink, Goto
    <2> QED
      BY <1>3, <1>5, <1>6, <2>1 DEF Steady
  <1> QED
    BY <1>7, <1>8

\* A step that unlinks nothing keeps the Resident rows honest.
LEMMA GrowingStepKeepsIndexHonest ==
    ASSUME Discipline, DropInv, [Next]_vars,
           \A p \in Proc : ~ EvictUnlink(p) /\ ~ DropUnlink(p)
    PROVE  IndexHonest'
  <1>a. Bytes \subseteq Bytes'
    BY StoreGrows DEF DropInv, Steady
  <1>b. /\ pc \in [Proc -> Pcs]
        /\ blob \in [Proc -> Blob \cup {None}]
        /\ rows \in [Proc -> SUBSET Blob]
        /\ residency \in [Blob -> ResidencyState]
        /\ crashes \in Nat
    BY DEF DropInv, TypeOK
  <1>c. IndexHonest
    BY DEF DropInv
  <1>d. \A q \in Proc : pc[q] = "row" => blob[q] \in Bytes
    BY DEF DropInv, Steady
  <1>e. \A q \in Proc : rows[q] \subseteq Bytes
    BY DEF DropInv, Steady
  <1> USE <1>a, <1>b, <1>c, <1>d DEF IndexHonest, Resident, Goto, Begin
  <1>1. ASSUME NEW p \in Proc, NEW b \in Blob, IngestPut(p, b)
        PROVE  IndexHonest'
    BY <1>1 DEF IngestPut, Begin, tables
  <1>2. ASSUME NEW p \in Proc, IngestRow(p)
        PROVE  IndexHonest'
    BY <1>2, <1>e DEF IngestRow, Finish, Forget
  <1>3. ASSUME NEW p \in Proc, NEW r \in Recipe, Mint(p, r)
        PROVE  IndexHonest'
    BY <1>3 DEF Mint, WithRowsFor, locals
  <1>4. ASSUME NEW p \in Proc, NEW r \in Recipe, IndexPeer(p, r)
        PROVE  IndexHonest'
    BY <1>4 DEF IndexPeer, WithRowsFor, locals
  <1>5. ASSUME NEW p \in Proc, NEW r \in Recipe, License(p, r)
        PROVE  IndexHonest'
    BY <1>5 DEF License, ReplayStart, Begin, tables
  <1>6. ASSUME NEW p \in Proc, NEW r \in Recipe, Materialize(p, r)
        PROVE  IndexHonest'
    BY <1>6 DEF Materialize, ReplayStart, Begin, tables
  <1>7. ASSUME NEW p \in Proc, NEW r \in Recipe, Rehabilitate(p, r)
        PROVE  IndexHonest'
    BY <1>7 DEF Rehabilitate, ReplayStart, Begin, tables
  <1>8. ASSUME NEW p \in Proc, ReplayRun(p)
        PROVE  IndexHonest'
    <2>1. /\ pc[p] = "run"
          /\ Goto(p, IF goal[p] = "keep" THEN "kids" ELSE "mark")
          /\ UNCHANGED <<tables, blob>>
      BY <1>8, Zenon DEF ReplayRun
    <2> QED
      BY <2>1 DEF tables
  <1>9. ASSUME NEW p \in Proc, ReplayClaimFails(p)
        PROVE  IndexHonest'
    <2>1. pc[p] = "run" /\ UNCHANGED tables
      BY <1>9, Zenon DEF ReplayClaimFails
    <2>2. CASE Finish(p)
      BY <2>1, <2>2 DEF Finish, Forget, tables
    <2>3. CASE ~ Finish(p)
      <3>1. Goto(p, "poison") /\ UNCHANGED blob
        BY <1>9, <2>3, Zenon DEF ReplayClaimFails
      <3> QED
        BY <2>1, <3>1 DEF tables
    <2> QED
      BY <2>2, <2>3
  <1>10. ASSUME NEW p \in Proc, ReplayError(p)
        PROVE  IndexHonest'
    BY <1>10 DEF ReplayError, Finish, Forget, tables
  <1>11. ASSUME NEW p \in Proc, Mark(p)
        PROVE  IndexHonest'
    BY <1>11 DEF Mark, Finish, Forget, tables, locals
  <1>12. ASSUME NEW p \in Proc, MarkWrite(p)
        PROVE  IndexHonest'
    BY <1>12 DEF MarkWrite, locals
  <1>13. ASSUME NEW p \in Proc, NEW r \in Recipe, Kid(p, r)
        PROVE  IndexHonest'
    BY <1>13 DEF Kid, tables
  <1>14. ASSUME NEW p \in Proc, NEW b \in Blob, Row(p, b)
        PROVE  IndexHonest'
    BY <1>14, <1>e DEF Row
  <1>15. ASSUME NEW p \in Proc, ReplayDone(p)
        PROVE  IndexHonest'
    BY <1>15 DEF ReplayDone, Finish, Forget, tables
  <1>16. ASSUME NEW p \in Proc, NEW r \in Recipe, StreamFails(p, r)
        PROVE  IndexHonest'
    <2>1. /\ pc[p] = "idle"
          /\ Goto(p, "poison")
          /\ UNCHANGED <<tables, blob>>
      BY <1>16, Zenon DEF StreamFails
    <2> QED
      BY <2>1 DEF tables
  <1>17. ASSUME NEW p \in Proc, Poison(p)
        PROVE  IndexHonest'
    BY <1>17 DEF Poison, Finish, Forget, tables, locals
  <1>18. ASSUME NEW p \in Proc, PoisonWrite(p)
        PROVE  IndexHonest'
    BY <1>18 DEF PoisonWrite, Finish, Forget
  <1>19. ASSUME NEW p \in Proc, EvictStart(p)
        PROVE  IndexHonest'
    BY <1>19 DEF EvictStart, Begin, CoveredBy, Resident, tables
  <1>20. ASSUME NEW p \in Proc, NEW b \in Blob, EvictPick(p, b)
        PROVE  IndexHonest'
    BY <1>20 DEF EvictPick, tables
  <1>21. ASSUME NEW p \in Proc, EvictRoute(p)
        PROVE  IndexHonest'
    BY <1>21 DEF EvictRoute, tables
  <1>22. ASSUME NEW p \in Proc, EvictGround(p)
        PROVE  IndexHonest'
    BY <1>22 DEF EvictGround, tables, locals
  <1>23. ASSUME NEW p \in Proc, EvictUnlink(p)
        PROVE  IndexHonest'
    BY <1>23
  <1>24. ASSUME NEW p \in Proc, EvictFlip(p)
        PROVE  IndexHonest'
    BY <1>24 DEF EvictFlip, locals
  <1>25. ASSUME NEW p \in Proc, EvictSecondPass(p)
        PROVE  IndexHonest'
    BY <1>25 DEF EvictSecondPass, CoveredBy, Resident, tables
  <1>26. ASSUME NEW p \in Proc, EvictEnd(p)
        PROVE  IndexHonest'
    BY <1>26 DEF EvictEnd, Finish, Forget, tables
  <1>27. ASSUME NEW p \in Proc, NEW r \in Recipe, PackPut(p, r)
        PROVE  IndexHonest'
    BY <1>27 DEF PackPut, Begin, Resident, tables
  <1>28. ASSUME NEW p \in Proc, NEW b \in Blob, PackSweep(p, b)
        PROVE  IndexHonest'
    BY <1>28 DEF PackSweep, tables
  <1>29. ASSUME NEW p \in Proc, PackEnd(p)
        PROVE  IndexHonest'
    BY <1>29 DEF PackEnd, Finish, Forget, tables
  <1>30. ASSUME NEW p \in Proc, NEW b \in Blob, UnpackStart(p, b)
        PROVE  IndexHonest'
    BY <1>30 DEF UnpackStart, Begin, tables
  <1>31. ASSUME NEW p \in Proc, UnpackExtract(p)
        PROVE  IndexHonest'
    BY <1>31 DEF UnpackExtract, Finish, Forget, tables
  <1>32. ASSUME NEW p \in Proc, NEW b \in Blob, MemberRow(p, b)
        PROVE  IndexHonest'
    BY <1>32, <1>e DEF MemberRow
  <1>33. ASSUME NEW p \in Proc, NEW r \in Recipe, MemberMint(p, r)
        PROVE  IndexHonest'
    BY <1>33 DEF MemberMint, locals
  <1>34. ASSUME NEW p \in Proc, MembersDone(p)
        PROVE  IndexHonest'
    BY <1>34 DEF MembersDone, tables, locals
  <1>35. ASSUME NEW p \in Proc, DropGate(p)
        PROVE  IndexHonest'
    BY <1>35 DEF DropGate, Finish, Forget, tables, locals
  <1>36. ASSUME NEW p \in Proc, DropUnlink(p)
        PROVE  IndexHonest'
    BY <1>36
  <1>37. ASSUME NEW p \in Proc, DropFlip(p)
        PROVE  IndexHonest'
    BY <1>37 DEF DropFlip, Finish, Forget
  <1>38. ASSUME NEW p \in Proc, NEW b \in Blob, HealLook(p, b)
        PROVE  IndexHonest'
    BY <1>38 DEF HealLook, tables
  <1>39. ASSUME NEW p \in Proc, HealDemote(p)
        PROVE  IndexHonest'
    BY <1>39 DEF HealDemote, Finish, Forget
  <1>40. ASSUME NEW p \in Proc, Crash(p)
        PROVE  IndexHonest'
    BY <1>40 DEF Crash, Discipline, TypeOK
  <1>41. CASE Expire
    BY <1>41 DEF Expire, tables, locals
  <1>42. CASE Lapse
    BY <1>42 DEF Lapse, tables, locals
  <1>43. CASE Recover
    BY <1>43 DEF Recover, store, locals
  <1>44. CASE UNCHANGED vars
    BY <1>44 DEF vars
  <1> QED
    BY <1>1, <1>2, <1>3, <1>4, <1>5, <1>6, <1>7, <1>8, <1>9, <1>10, <1>11,
       <1>12, <1>13, <1>14, <1>15, <1>16, <1>17, <1>18, <1>19, <1>20, <1>21,
       <1>22, <1>23, <1>24, <1>25, <1>26, <1>27, <1>28, <1>29, <1>30, <1>31,
       <1>32, <1>33, <1>34, <1>35, <1>36, <1>37, <1>38, <1>39, <1>40, <1>41,
       <1>42, <1>43, <1>44
       DEF Next, StartStep, OwnStep

\* After an unlink the only Resident row without bytes is the one that is
\* about to be flipped.
LEMMA UnlinkKeepsIndexHonest ==
    ASSUME Discipline, DropInv, NEW p \in Proc, EvictUnlink(p) \/ DropUnlink(p)
    PROVE  IndexHonest'
  <1>1. /\ pc \in [Proc -> Pcs]
        /\ blob \in [Proc -> Blob \cup {None}]
        /\ IndexHonest
    BY DEF DropInv, TypeOK
  <1>2. Bytes \ {blob[p]} \subseteq Bytes'
    BY DEF EvictUnlink, DropUnlink, Bytes
  <1>3. /\ pc[p] \in {"unlink", "drop_unlink"}
        /\ pc'[p] \in {"flip", "drop_flip"}
        /\ \A q \in Proc : q # p => pc'[q] = pc[q]
        /\ UNCHANGED <<blob, residency>>
    BY <1>1 DEF EvictUnlink, DropUnlink, Goto, tables, locals
  <1> QED
    BY <1>1, <1>2, <1>3 DEF IndexHonest, Resident

\* A step that unlinks nothing strands nothing: what it newly owes it has the
\* bytes of.
LEMMA GrowingStepStrandsNothing ==
    ASSUME Discipline, DropInv, [Next]_vars,
           \A p \in Proc : ~ EvictUnlink(p) /\ ~ DropUnlink(p)
    PROVE  NothingStranded'
  <1>a. Bytes \subseteq Bytes' /\ Recoverable \subseteq Recoverable'
    BY StoreGrows, KnownGrows, GroundedGrows DEF DropInv, Steady
  <1>b. Bytes \subseteq Recoverable
    BY GroundedHoldsLiterals DEF DropInv, TypeOK, Bytes, Recoverable
  <1>c. residency \in [Blob -> ResidencyState]
    BY DEF DropInv, TypeOK
  <1>d. \A q \in Proc : /\ pc[q] = "row" => blob[q] \in Bytes
                        /\ pc[q] = "flip" => blob[q] \in Recoverable
    BY DEF DropInv, Steady
  <1> DEFINE Kept ==
        /\ owed' \subseteq owed \cup Bytes
        /\ \A b \in Blob : residency'[b] = "evicted_covered" =>
              residency[b] = "evicted_covered" \/ b \in Recoverable
  <1>e. SUFFICES Kept
    BY <1>a, <1>b DEF DropInv, NothingStranded
  <1> USE <1>c
  <1>1. ASSUME NEW p \in Proc, IngestRow(p)
        PROVE  Kept
    BY <1>1, <1>d DEF IngestRow
  <1>2. ASSUME NEW p \in Proc, NEW r \in Recipe, Mint(p, r)
        PROVE  Kept
    BY <1>2 DEF Mint, WithRowsFor, ghosts
  <1>3. ASSUME NEW p \in Proc, NEW r \in Recipe, IndexPeer(p, r)
        PROVE  Kept
    BY <1>3 DEF IndexPeer, WithRowsFor, ghosts
  <1>4. ASSUME NEW p \in Proc, ReplayRun(p)
        PROVE  Kept
    <2>1. UNCHANGED <<tables, ghosts>>
      BY <1>4, Zenon DEF ReplayRun
    <2> QED
      BY <2>1 DEF tables, ghosts
  <1>5. ASSUME NEW p \in Proc, ReplayClaimFails(p)
        PROVE  Kept
    <2>1. UNCHANGED <<tables, ghosts>>
      BY <1>5, Zenon DEF ReplayClaimFails
    <2> QED
      BY <2>1 DEF tables, ghosts
  <1>6. ASSUME NEW p \in Proc, NEW b \in Blob, Row(p, b)
        PROVE  Kept
    BY <1>6 DEF Row, ghosts
  <1>7. ASSUME NEW p \in Proc, NEW r \in Recipe, StreamFails(p, r)
        PROVE  Kept
    <2>1. UNCHANGED <<tables, ghosts>>
      BY <1>7, Zenon DEF StreamFails
    <2> QED
      BY <2>1 DEF tables, ghosts
  <1>8. ASSUME NEW p \in Proc, EvictUnlink(p)
        PROVE  Kept
    BY <1>8
  <1>9. ASSUME NEW p \in Proc, EvictFlip(p)
        PROVE  Kept
    BY <1>9, <1>d DEF EvictFlip, ghosts
  <1>10. ASSUME NEW p \in Proc, NEW b \in Blob, MemberRow(p, b)
        PROVE  Kept
    BY <1>10 DEF MemberRow, ghosts
  <1>11. ASSUME NEW p \in Proc, DropUnlink(p)
        PROVE  Kept
    BY <1>11
  <1>12. ASSUME NEW p \in Proc, DropFlip(p)
        PROVE  Kept
    BY <1>12 DEF DropFlip, ghosts
  <1>13. ASSUME NEW p \in Proc, HealDemote(p)
        PROVE  Kept
    BY <1>13 DEF HealDemote, ghosts
  <1>14. ASSUME NEW p \in Proc, Crash(p)
        PROVE  Kept
    BY <1>14 DEF Crash, tables
  <1>15. CASE Lapse
    BY <1>15 DEF Lapse, tables
  <1>16. CASE Recover
    BY <1>16 DEF Recover, ghosts
  <1>17. ASSUME NEW p \in Proc, NEW b \in Blob,
               \/ IngestPut(p, b) \/ EvictPick(p, b) \/ PackSweep(p, b)
               \/ UnpackStart(p, b) \/ HealLook(p, b)
        PROVE  Kept
    BY <1>17 DEF IngestPut, EvictPick, PackSweep, UnpackStart, HealLook,
         ghosts, tables
  <1>18. ASSUME NEW p \in Proc, NEW r \in Recipe,
               \/ License(p, r) \/ Materialize(p, r) \/ Rehabilitate(p, r)
               \/ Kid(p, r) \/ PackPut(p, r) \/ MemberMint(p, r)
        PROVE  Kept
    BY <1>18 DEF License, Materialize, Rehabilitate, Kid, PackPut,
         MemberMint, ReplayStart, ghosts, tables
  <1>19. ASSUME NEW p \in Proc,
               \/ ReplayError(p) \/ Mark(p) \/ MarkWrite(p) \/ ReplayDone(p)
               \/ Poison(p) \/ PoisonWrite(p) \/ EvictStart(p)
               \/ EvictRoute(p)
        PROVE  Kept
    BY <1>19 DEF ReplayError, Mark, MarkWrite, ReplayDone, Poison,
         PoisonWrite, EvictStart, EvictRoute, ghosts, tables
  <1>20. ASSUME NEW p \in Proc,
               \/ EvictGround(p) \/ EvictSecondPass(p) \/ EvictEnd(p)
               \/ PackEnd(p) \/ UnpackExtract(p) \/ MembersDone(p)
               \/ DropGate(p)
        PROVE  Kept
    BY <1>20 DEF EvictGround, EvictSecondPass, EvictEnd, PackEnd,
         UnpackExtract, MembersDone, DropGate, ghosts, tables
  <1>21. CASE Expire
    BY <1>21 DEF Expire, ghosts, tables
  <1>22. CASE UNCHANGED vars
    BY <1>22 DEF vars
  <1> QED
    BY <1>1, <1>2, <1>3, <1>4, <1>5, <1>6, <1>7, <1>8, <1>9, <1>10, <1>11,
       <1>12, <1>13, <1>14, <1>15, <1>16, <1>17, <1>18, <1>19, <1>20, <1>21,
       <1>22
       DEF Next, StartStep, OwnStep

\* An unlink strands nothing.
LEMMA UnlinkStrandsNothing ==
    ASSUME Discipline, DropInv, NEW p \in Proc, EvictUnlink(p) \/ DropUnlink(p)
    PROVE  NothingStranded'
  <1>1. CASE EvictUnlink(p)
    <2>1. Recoverable \subseteq Recoverable'
      BY <1>1, EvictUnlinkLosesNothing DEF DropInv
    <2> QED
      BY <1>1, <2>1 DEF EvictUnlink, DropInv, NothingStranded, tables, ghosts
  <1>2. CASE DropUnlink(p)
    <2>1. /\ Recoverable \ {blob[p]} \subseteq Recoverable'
          /\ Holds[blob[p]] \subseteq Recoverable'
      BY <1>2, DropUnlinkLosesOnlyTheContainer DEF DropInv
    <2>2. blob[p] \in Container /\ residency[blob[p]] # "evicted_covered"
      BY <1>2 DEF DropUnlink, DropInv, Steady
    <2>3. /\ blob[p] \notin owed' \/ blob[p] \in Holds[blob[p]]
          /\ owed' \subseteq owed \cup Holds[blob[p]]
          /\ residency' = residency
      BY <1>2, <2>2 DEF DropUnlink, tables
    <2> QED
      BY <2>1, <2>2, <2>3 DEF DropInv, NothingStranded
  <1> QED
    BY <1>1, <1>2

\* The invariant is inductive.
LEMMA DropInvStep ==
    ASSUME Discipline, DropInv, [Next]_vars
    PROVE  DropInv'
  <1>1. TypeOK' /\ LicenseInv' /\ Exclusive'
    BY TypeStep, LicenseStep, ExclusiveStep DEF DropInv, Discipline
  <1>2. CASE \E p \in Proc : EvictUnlink(p) \/ DropUnlink(p)
    BY <1>1, <1>2, UnlinkKeepsSteady, UnlinkKeepsIndexHonest,
       UnlinkStrandsNothing DEF DropInv
  <1>3. CASE ~ \E p \in Proc : EvictUnlink(p) \/ DropUnlink(p)
    BY <1>1, <1>3, GrowingStepKeepsSteady, GrowingStepKeepsIndexHonest,
       GrowingStepStrandsNothing DEF DropInv
  <1> QED
    BY <1>2, <1>3

\* It holds initially.
LEMMA DropInvInit ==
    ASSUME Init
    PROVE  DropInv
  <1>1. TypeOK
    BY TypeInit
  <1>2. LicenseInv
    BY ResidencyAssumption DEF Init, LicenseInv, LicensedSound, Licensed
  <1>3. Exclusive /\ \A p \in Proc : Steady(p)
    BY DEF Init, Exclusive, Held, Busy, Steady
  <1>4. IndexHonest
    BY DEF Init, IndexHonest, Resident, Bytes
  <1>5. NothingStranded
    <2>1. owed \subseteq Bytes
      BY DEF Init, Bytes
    <2>2. Bytes \subseteq Recoverable
      BY <1>1, GroundedHoldsLiterals DEF TypeOK, Bytes, Recoverable
    <2>3. \A b \in Blob : residency[b] # "evicted_covered"
      BY DEF Init
    <2> QED
      BY <2>1, <2>2, <2>3 DEF NothingStranded
  <1> QED
    BY <1>1, <1>2, <1>3, <1>4, <1>5 DEF DropInv

\* The invariant holds in every behaviour.
LEMMA DropInvAlways ==
    ASSUME Discipline
    PROVE  Spec => []DropInv
  <1>1. Init => DropInv
    BY DropInvInit
  <1>2. DropInv /\ [Next]_vars => DropInv'
    BY DropInvStep
  <1> QED
    BY <1>1, <1>2, PTL DEF Spec

\* Under the discipline no blob datboi has promised to give back is ever
\* lost: what is_evictable, the gc guard and the drop gate of unpack are
\* for, for every recipe graph and any number of processes.
THEOREM DropsStrandNothing ==
    ASSUME Discipline
    PROVE  Spec => []NothingStranded
  <1>1. DropInv => NothingStranded
    BY DEF DropInv
  <1> QED
    BY <1>1, DropInvAlways, PTL

\* Under the discipline every Resident row has its bytes, but for the blob
\* between its unlink and its flip: set_residency never runs ahead of the
\* store, so Db::is_evictable counts no phantom literal.
THEOREM ResidentRowsAreHonest ==
    ASSUME Discipline
    PROVE  Spec => []IndexHonest
  <1>1. DropInv => IndexHonest
    BY DEF DropInv
  <1> QED
    BY <1>1, DropInvAlways, PTL

\* Under the discipline the grounding check of evict_with is still true
\* when Store::evict_literal unlinks.
THEOREM ApprovalNeverGoesStale ==
    ASSUME Discipline
    PROVE  Spec => []UnlinkStillGrounded
  <1>1. DropInv => UnlinkStillGrounded
    BY DEF DropInv, Steady, UnlinkStillGrounded
  <1> QED
    BY <1>1, DropInvAlways, PTL

-----------------------------------------------------------------------------
(* The guard by itself.                                                    *)

\* Whoever is inside a drop section holds the guard.
DropHeld == \A p \in Dropping : guard = p

\* Every step keeps it: only EvictStart and PackPut open a drop section, each
\* with the guard it has just won, and only its holder gives the guard back.
LEMMA DropHeldStep ==
    ASSUME "drop" \in Guarded, MaxLapse = 0, TypeOK, DropHeld, [Next]_vars
    PROVE  DropHeld'
  <1> USE ResidencyAssumption
          DEF TypeOK, LocalsOK, DropHeld, Dropping, Goto, Pcs, Goals
  <1>1. ASSUME NEW p \in Proc, EvictStart(p)
        PROVE  DropHeld'
    BY <1>1 DEF EvictStart, Begin
  <1>2. ASSUME NEW p \in Proc, NEW r \in Recipe, PackPut(p, r)
        PROVE  DropHeld'
    BY <1>2 DEF PackPut, Begin
  <1>3. ASSUME NEW p \in Proc, NEW b \in Blob, IngestPut(p, b) \/ UnpackStart(p, b)
        PROVE  DropHeld'
    BY <1>3 DEF IngestPut, UnpackStart, Begin
  <1>4. ASSUME NEW p \in Proc, NEW r \in Recipe,
               License(p, r) \/ Materialize(p, r) \/ Rehabilitate(p, r)
        PROVE  DropHeld'
    BY <1>4 DEF License, Materialize, Rehabilitate, ReplayStart, Begin
  <1>5. ASSUME NEW p \in Proc, NEW r \in Recipe, Mint(p, r) \/ IndexPeer(p, r)
        PROVE  DropHeld'
    BY <1>5 DEF Mint, IndexPeer, locals
  <1>6. ASSUME NEW p \in Proc, NEW r \in Recipe, StreamFails(p, r)
        PROVE  DropHeld'
    <2>1. pc[p] = "idle" /\ Goto(p, "poison") /\ UNCHANGED <<guard, goal>>
      BY <1>6, Zenon DEF StreamFails
    <2> QED
      BY <2>1
  <1>7. ASSUME NEW p \in Proc, ReplayRun(p)
        PROVE  DropHeld'
    <2>1. /\ pc[p] = "run"
          /\ Goto(p, IF goal[p] = "keep" THEN "kids" ELSE "mark")
          /\ UNCHANGED <<guard, goal>>
      BY <1>7, Zenon DEF ReplayRun
    <2> QED
      BY <2>1
  <1>8. ASSUME NEW p \in Proc, Finish(p)
        PROVE  DropHeld'
    BY <1>8 DEF Finish, Forget
  <1>9. ASSUME NEW p \in Proc, ReplayClaimFails(p), ~ Finish(p)
        PROVE  DropHeld'
    <2>1. pc[p] = "run" /\ Goto(p, "poison") /\ UNCHANGED <<guard, goal>>
      BY <1>9, Zenon DEF ReplayClaimFails
    <2> QED
      BY <2>1
  <1>10. ASSUME NEW p \in Proc, ~ Finish(p),
               \/ IngestRow(p) \/ ReplayError(p) \/ Mark(p) \/ MarkWrite(p)
               \/ ReplayDone(p) \/ Poison(p) \/ PoisonWrite(p)
        PROVE  DropHeld'
    BY <1>10 DEF IngestRow, ReplayError, Mark, MarkWrite, ReplayDone, Poison,
         PoisonWrite, locals
  <1>11. ASSUME NEW p \in Proc, ~ Finish(p),
               \/ EvictRoute(p) \/ EvictGround(p) \/ EvictUnlink(p)
               \/ EvictFlip(p) \/ EvictSecondPass(p) \/ EvictEnd(p)
        PROVE  DropHeld'
    BY <1>11 DEF EvictRoute, EvictGround, EvictUnlink, EvictFlip,
         EvictSecondPass, EvictEnd, locals
  <1>12. ASSUME NEW p \in Proc, ~ Finish(p),
               \/ PackEnd(p) \/ UnpackExtract(p) \/ MembersDone(p)
               \/ DropGate(p) \/ DropUnlink(p) \/ DropFlip(p) \/ HealDemote(p)
        PROVE  DropHeld'
    BY <1>12 DEF PackEnd, UnpackExtract, MembersDone, DropGate, DropUnlink,
         DropFlip, HealDemote, locals
  <1>13. ASSUME NEW p \in Proc, NEW b \in Blob,
               \/ Row(p, b) \/ EvictPick(p, b) \/ PackSweep(p, b)
               \/ MemberRow(p, b) \/ HealLook(p, b)
        PROVE  DropHeld'
    BY <1>13 DEF Row, EvictPick, PackSweep, MemberRow, HealLook
  <1>14. ASSUME NEW p \in Proc, NEW r \in Recipe, Kid(p, r) \/ MemberMint(p, r)
        PROVE  DropHeld'
    BY <1>14 DEF Kid, MemberMint, locals
  <1>15. ASSUME NEW p \in Proc, Crash(p)
        PROVE  DropHeld'
    BY <1>15 DEF Crash, Forget
  <1>16. CASE Expire \/ Lapse \/ Recover
    BY <1>16 DEF Expire, Lapse, Recover, locals
  <1>17. CASE UNCHANGED vars
    BY <1>17 DEF vars
  <1> QED
    BY <1>1, <1>2, <1>3, <1>4, <1>5, <1>6, <1>7, <1>8, <1>9, <1>10, <1>11,
       <1>12, <1>13, <1>14, <1>15, <1>16, <1>17
       DEF Next, StartStep, OwnStep

\* As long as no claim outlives its TTL, two drop sections never overlap,
\* whatever else runs, with or without the guard, and whoever dies: what
\* claim_gc_guard and release_gc_guard promise (D72).
THEOREM DropsExclude ==
    ASSUME "drop" \in Guarded, MaxLapse = 0
    PROVE  Spec => []DropExclusive
  <1>1. Init => DropHeld
    BY DEF Init, DropHeld, Dropping
  <1>2. TypeOK /\ DropHeld /\ [Next]_vars => DropHeld'
    BY DropHeldStep
  <1>3. DropHeld => DropExclusive
    BY DEF DropHeld, DropExclusive
  <1> QED
    BY <1>1, <1>2, <1>3, ResidencyTypeOK, PTL DEF Spec

-----------------------------------------------------------------------------
(* Fences.                                                                 *)

\* What each process may drop: an eviction has no pinned blob in hand, an
\* unpack neither a pinned nor a named one, and a pack sweep only loose
\* copies of what is packed.
Fenced ==
    \A p \in Proc :
        /\ pc[p] = "unlink" => blob[p] \notin Pinned
        /\ pc[p] \in {"extract", "members", "drop_gate", "drop_unlink"} =>
             blob[p] \notin Pinned \cup Named
        /\ pc[p] = "sweep" => left[p] \subseteq packed

\* Every step keeps it: evict_with and UNPACK_CANDIDATE_SQL look at the
\* fences, and nothing leaves a pack.
LEMMA FencedStep ==
    ASSUME "ingest_unpack" \notin Ops, TypeOK, Fenced, [Next]_vars
    PROVE  Fenced'
  <1> USE DEF TypeOK, Fenced, Goto
  <1>1. ASSUME NEW p \in Proc, Finish(p), packed \subseteq packed'
        PROVE  Fenced'
    BY <1>1 DEF Finish, Forget
  <1>2. ASSUME NEW p \in Proc, ReplayRun(p)
        PROVE  Fenced'
    <2>1. /\ Goto(p, IF goal[p] = "keep" THEN "kids" ELSE "mark")
          /\ UNCHANGED <<packed, blob, left>>
      BY <1>2, Zenon DEF ReplayRun
    <2> QED
      BY <2>1
  <1>3. ASSUME NEW p \in Proc, ReplayClaimFails(p)
        PROVE  Fenced'
    <2>1. UNCHANGED packed
      BY <1>3, Zenon DEF ReplayClaimFails
    <2>2. CASE Finish(p)
      BY <1>1, <2>1, <2>2
    <2>3. CASE ~ Finish(p)
      <3>1. Goto(p, "poison") /\ UNCHANGED <<blob, left>>
        BY <1>3, <2>3, Zenon DEF ReplayClaimFails
      <3> QED
        BY <2>1, <3>1
    <2> QED
      BY <2>2, <2>3
  <1>4. ASSUME NEW p \in Proc, NEW r \in Recipe, StreamFails(p, r)
        PROVE  Fenced'
    <2>1. Goto(p, "poison") /\ UNCHANGED <<store, blob, left>>
      BY <1>4, Zenon DEF StreamFails
    <2> QED
      BY <2>1 DEF store
  <1>5. ASSUME NEW p \in Proc, ~ Finish(p),
               \/ IngestRow(p) \/ ReplayError(p) \/ ReplayDone(p) \/ Mark(p)
               \/ MarkWrite(p) \/ Poison(p) \/ PoisonWrite(p)
               \/ EvictRoute(p) \/ EvictGround(p) \/ EvictUnlink(p)
               \/ EvictFlip(p) \/ EvictSecondPass(p)
        PROVE  Fenced'
    BY <1>5 DEF IngestRow, ReplayError, ReplayDone, Mark, MarkWrite, Poison,
         PoisonWrite, EvictRoute, EvictGround, EvictUnlink, EvictFlip,
         EvictSecondPass, locals, store
  <1>6. ASSUME NEW p \in Proc, ~ Finish(p),
               \/ EvictEnd(p) \/ PackEnd(p) \/ UnpackExtract(p)
               \/ MembersDone(p) \/ DropGate(p) \/ DropUnlink(p)
               \/ DropFlip(p) \/ HealDemote(p)
        PROVE  Fenced'
    BY <1>6 DEF EvictEnd, PackEnd, UnpackExtract, MembersDone, DropGate,
         DropUnlink, DropFlip, HealDemote, locals, store
  <1>7. ASSUME NEW p \in Proc,
               \/ IngestRow(p) \/ ReplayError(p) \/ ReplayDone(p) \/ Mark(p)
               \/ MarkWrite(p) \/ Poison(p) \/ PoisonWrite(p)
               \/ EvictRoute(p) \/ EvictGround(p) \/ EvictUnlink(p)
               \/ EvictFlip(p) \/ EvictSecondPass(p) \/ EvictEnd(p)
               \/ PackEnd(p) \/ UnpackExtract(p) \/ MembersDone(p)
               \/ DropGate(p) \/ DropUnlink(p) \/ DropFlip(p)
               \/ HealDemote(p)
        PROVE  UNCHANGED packed
    BY <1>7 DEF IngestRow, ReplayError, ReplayDone, Mark, MarkWrite, Poison,
         PoisonWrite, EvictRoute, EvictGround, EvictUnlink, EvictFlip,
         EvictSecondPass, EvictEnd, PackEnd, UnpackExtract, MembersDone,
         DropGate, DropUnlink, DropFlip, HealDemote, store
  <1>8. ASSUME NEW p \in Proc, NEW b \in Blob,
               \/ IngestPut(p, b) \/ UnpackStart(p, b) \/ HealLook(p, b)
               \/ Row(p, b) \/ EvictPick(p, b) \/ PackSweep(p, b)
               \/ MemberRow(p, b)
        PROVE  Fenced'
    BY <1>8 DEF IngestPut, UnpackStart, UnpackCandidate, HealLook, Row,
         EvictPick, PackSweep, MemberRow, Begin, store
  <1>9. ASSUME NEW p \in Proc, NEW r \in Recipe,
               \/ Mint(p, r) \/ IndexPeer(p, r) \/ MemberMint(p, r)
               \/ License(p, r) \/ Materialize(p, r) \/ Rehabilitate(p, r)
               \/ Kid(p, r)
        PROVE  Fenced'
    BY <1>9 DEF Mint, IndexPeer, MemberMint, License, Materialize,
         Rehabilitate, Kid, ReplayStart, Begin, locals, store
  <1>10. ASSUME NEW p \in Proc, NEW r \in Recipe, PackPut(p, r)
        PROVE  Fenced'
    BY <1>10 DEF PackPut, Begin
  <1>11. ASSUME NEW p \in Proc, EvictStart(p) \/ Crash(p)
        PROVE  Fenced'
    BY <1>11 DEF EvictStart, Begin, Crash, Forget, store
  <1>12. CASE Expire \/ Lapse \/ Recover
    BY <1>12 DEF Expire, Lapse, Recover, locals, store
  <1>13. CASE UNCHANGED vars
    BY <1>13 DEF vars
  <1> HIDE DEF TypeOK, Fenced, Goto
  <1>14. ASSUME NEW p \in Proc, OwnStep(p)
        PROVE  Fenced'
    <2>1. CASE Finish(p)
      BY <1>1, <1>2, <1>3, <1>7, <1>8, <1>9, <1>14, <2>1 DEF OwnStep
    <2>2. CASE ~ Finish(p)
      BY <1>2, <1>3, <1>5, <1>6, <1>8, <1>9, <1>14, <2>2 DEF OwnStep
    <2> QED
      BY <2>1, <2>2
  <1> QED
    BY <1>4, <1>8, <1>9, <1>10, <1>11, <1>12, <1>13, <1>14 DEF Next, StartStep

\* The only steps that take a blob's last bytes are the two unlinks, of a
\* blob inside the fences.
LEMMA OnlyUnlinksDrop ==
    ASSUME TypeOK, Fenced, [Next]_vars, NEW b \in Bytes, b \notin Bytes'
    PROVE  \E p \in Proc :
             /\ b = blob[p]
             /\ \/ EvictUnlink(p) /\ b \notin Pinned
                \/ DropUnlink(p) /\ b \notin Pinned \cup Named
  <1> USE DEF Bytes
  <1>1. ASSUME NEW p \in Proc, EvictUnlink(p)
        PROVE  b = blob[p] /\ b \notin Pinned
    BY <1>1 DEF EvictUnlink, Fenced
  <1>2. ASSUME NEW p \in Proc, DropUnlink(p)
        PROVE  b = blob[p] /\ b \notin Pinned \cup Named
    BY <1>2 DEF DropUnlink, Fenced
  <1>3. ASSUME \A p \in Proc : ~ EvictUnlink(p) /\ ~ DropUnlink(p)
        PROVE  FALSE
    BY <1>3, StoreGrows DEF Fenced
  <1> QED
    BY <1>1, <1>2, <1>3

\* The fences hold in every behaviour without the ingest door's unpack.
LEMMA FencedAlways ==
    ASSUME "ingest_unpack" \notin Ops
    PROVE  Spec => [](TypeOK /\ Fenced)
  <1>1. Init => Fenced
    BY DEF Init, Fenced
  <1>2. TypeOK /\ Fenced /\ [Next]_vars => Fenced'
    BY FencedStep
  <1> QED
    BY <1>1, <1>2, ResidencyTypeOK, PTL DEF Spec

\* A pinned blob never loses its last bytes, whatever races, dies or lapses,
\* as long as nothing is unpacked at the ingest door: evict_with and the
\* candidate query both look at the pins, and a pin never comes late.
THEOREM PinsAlwaysHold ==
    ASSUME "ingest_unpack" \notin Ops
    PROVE  Spec => [][\A b \in Pinned : b \in Bytes => b \in Bytes']_vars
  <1>1. TypeOK /\ Fenced /\ [Next]_vars =>
          [\A b \in Pinned : b \in Bytes => b \in Bytes']_vars
    BY OnlyUnlinksDrop
  <1> QED
    BY <1>1, FencedAlways, PTL DEF Spec

\* Under the discipline a blob a dat names loses its last bytes only to an
\* eviction that can rebuild it, and a pinned blob never does (D123): the
\* corpus pass of unpack and evict_with respect the fences.
THEOREM FencesAlwaysHold ==
    ASSUME Discipline, "ingest_unpack" \notin Ops
    PROVE  Spec => FencesHold
  <1>1. ASSUME TypeOK, Fenced, DropInv, [Next]_vars,
               NEW b \in Pinned \cup Named, b \in Bytes, b \notin Bytes'
        PROVE  b \notin Pinned /\ b \in Grounded(Bytes', Known, Good)
    <2>1. PICK p \in Proc : b = blob[p] /\ EvictUnlink(p) /\ b \notin Pinned
      BY <1>1, OnlyUnlinksDrop
    <2>2. b \in Recoverable'
      BY <1>1, <2>1, EvictUnlinkLosesNothing DEF DropInv
    <2>3. Known' = Known
      BY <2>1 DEF EvictUnlink, Known, tables
    <2> QED
      BY <2>1, <2>2, <2>3 DEF Recoverable
  <1>2. TypeOK /\ Fenced /\ DropInv /\ [Next]_vars =>
          [\A b \in Pinned \cup Named :
             (b \in Bytes /\ b \notin Bytes') =>
                 b \notin Pinned /\ b \in Grounded(Bytes', Known, Good)]_loose
    BY <1>1
  <1> QED
    BY <1>2, FencedAlways, DropInvAlways, PTL DEF Spec, FencesHold

=============================================================================
