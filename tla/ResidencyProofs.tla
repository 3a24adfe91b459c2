--------------------------- MODULE ResidencyProofs ---------------------------
(***************************************************************************)
(* Type correctness of Residency, for every recipe graph, any number of    *)
(* processes and any crashes and lapsed claims, and that a license is      *)
(* earned: a recipe marked ReplayedLocal really yields its claimed         *)
(* outputs. One step of each proof per action of the specification.        *)
(***************************************************************************)
EXTENDS Residency, GroundingLemmas

\* The initial states have the right types.
LEMMA TypeInit == Init => TypeOK
  BY GroundingAssumption, ResidencyAssumption
     DEF Init, TypeOK, LocalsOK, ResidencyState, VerifyState, Pcs, Goals

\* What a replay that ran through leaves to license: recipes of its plan,
\* each of which really yields something.
LEMMA ReplayRunKids ==
    ASSUME TypeOK, NEW p \in Proc, ReplayRun(p)
    PROVE  \E used \in SUBSET Recipe :
             /\ kids' = [kids EXCEPT ![p] = used]
             /\ \A k \in used : Good[k] # {}
  <1>1. PICK route \in Plans(In[recipe[p]]) :
          /\ Delivers(route)
          /\ kids' = [kids EXCEPT ![p] =
                         {route[b] : b \in DOMAIN route} \ {recipe[p]}]
    BY Zenon DEF ReplayRun
  <1>2. \A b \in DOMAIN route : route[b] \in Recipe /\ b \in Good[route[b]]
    BY <1>1 DEF Plans, Live, Delivers
  <1> DEFINE used == {route[b] : b \in DOMAIN route} \ {recipe[p]}
  <1>3. used \in SUBSET Recipe /\ \A k \in used : Good[k] # {}
    BY <1>2
  <1> QED
    BY <1>1, <1>3

\* Every step keeps the types.
LEMMA TypeStep ==
    ASSUME TypeOK, [Next]_vars
    PROVE  TypeOK'
  <1> USE GroundingAssumption, ResidencyAssumption
      DEF TypeOK, LocalsOK, Goto, Pcs, Goals, ResidencyState, VerifyState
  <1>1. ASSUME NEW p \in Proc, NEW b \in Blob, IngestPut(p, b)
        PROVE  TypeOK'
    BY <1>1 DEF IngestPut, Begin, tables, ghosts
  <1>2. ASSUME NEW p \in Proc, IngestRow(p)
        PROVE  TypeOK'
    <2>1. CASE Finish(p)
      BY <1>2, <2>1 DEF IngestRow, Finish, Forget, store
    <2>2. CASE ~ Finish(p)
      BY <1>2, <2>2 DEF IngestRow, store
    <2> QED
      BY <2>1, <2>2
  <1>3. ASSUME NEW p \in Proc, NEW r \in Recipe, Mint(p, r)
        PROVE  TypeOK'
    BY <1>3 DEF Mint, WithRowsFor, store, locals, ghosts
  <1>4. ASSUME NEW p \in Proc, NEW r \in Recipe, IndexPeer(p, r)
        PROVE  TypeOK'
    BY <1>4 DEF IndexPeer, WithRowsFor, store, locals, ghosts
  <1>5. ASSUME NEW p \in Proc, NEW r \in Recipe, License(p, r)
        PROVE  TypeOK'
    BY <1>5 DEF License, ReplayStart, Begin, store, tables, ghosts
  <1>6. ASSUME NEW p \in Proc, NEW r \in Recipe, Materialize(p, r)
        PROVE  TypeOK'
    BY <1>6 DEF Materialize, ReplayStart, Begin, store, tables, ghosts
  <1>7. ASSUME NEW p \in Proc, NEW r \in Recipe, Rehabilitate(p, r)
        PROVE  TypeOK'
    BY <1>7 DEF Rehabilitate, ReplayStart, Begin, store, tables, ghosts
  <1>8. ASSUME NEW p \in Proc, ReplayRun(p)
        PROVE  TypeOK'
    <2>1. PICK used \in SUBSET Recipe : kids' = [kids EXCEPT ![p] = used]
      BY <1>8, ReplayRunKids, Zenon
    <2>2. /\ pc[p] = "run"
          /\ loose' = loose \cup Out[recipe[p]]
          /\ rows' = [rows EXCEPT ![p] = Out[recipe[p]]]
          /\ mark' = [mark EXCEPT ![p] = recipe[p]]
          /\ Goto(p, IF goal[p] = "keep" THEN "kids" ELSE "mark")
          /\ UNCHANGED <<packed, tables, guard, goal, blob, recipe, left, ghosts>>
      BY <1>8, Zenon DEF ReplayRun
    <2> QED
      BY <2>1, <2>2 DEF tables, ghosts
  <1>9. ASSUME NEW p \in Proc, ReplayClaimFails(p)
        PROVE  TypeOK'
    <2>1. /\ pc[p] = "run"
          /\ \E out \in SUBSET Good[recipe[p]] : loose' = loose \cup out
          /\ packed' = packed
          /\ UNCHANGED <<tables, ghosts>>
      BY <1>9, Zenon DEF ReplayClaimFails
    <2>2. loose' \in SUBSET Blob
      BY <2>1
    <2>3. CASE Finish(p)
      BY <2>1, <2>2, <2>3 DEF Finish, Forget, tables, ghosts
    <2>4. CASE ~ Finish(p)
      <3>1. /\ mark' = [mark EXCEPT ![p] = recipe[p]]
            /\ Goto(p, "poison")
            /\ UNCHANGED <<guard, goal, blob, recipe, kids, rows, left>>
        BY <1>9, <2>4, Zenon DEF ReplayClaimFails
      <3> QED
        BY <2>1, <2>2, <3>1 DEF tables, ghosts
    <2> QED
      BY <2>3, <2>4
  <1>10. ASSUME NEW p \in Proc, ReplayError(p)
        PROVE  TypeOK'
    BY <1>10 DEF ReplayError, Finish, Forget, store, tables, ghosts
  <1>11. ASSUME NEW p \in Proc, Mark(p)
        PROVE  TypeOK'
    <2>1. CASE Finish(p)
      BY <1>11, <2>1 DEF Mark, Finish, Forget, store, tables, ghosts
    <2>2. CASE ~ Finish(p)
      BY <1>11, <2>2 DEF Mark, store, tables, ghosts, locals
    <2> QED
      BY <2>1, <2>2
  <1>12. ASSUME NEW p \in Proc, MarkWrite(p)
        PROVE  TypeOK'
    BY <1>12 DEF MarkWrite, store, locals, ghosts
  <1>13. ASSUME NEW p \in Proc, NEW r \in Recipe, Kid(p, r)
        PROVE  TypeOK'
    BY <1>13 DEF Kid, store, tables, ghosts
  <1>14. ASSUME NEW p \in Proc, NEW b \in Blob, Row(p, b)
        PROVE  TypeOK'
    BY <1>14 DEF Row, store, ghosts
  <1>15. ASSUME NEW p \in Proc, ReplayDone(p)
        PROVE  TypeOK'
    <2>1. CASE Finish(p)
      BY <1>15, <2>1 DEF ReplayDone, Finish, Forget, store, tables, ghosts
    <2>2. CASE ~ Finish(p)
      BY <1>15, <2>2 DEF ReplayDone, store, tables, ghosts
    <2> QED
      BY <2>1, <2>2
  <1>16. ASSUME NEW p \in Proc, NEW r \in Recipe, StreamFails(p, r)
        PROVE  TypeOK'
    <2>1. /\ mark' = [mark EXCEPT ![p] = r]
          /\ pc[p] = "idle"
          /\ Goto(p, "poison")
          /\ UNCHANGED <<store, tables, guard, goal, blob, recipe, kids, rows,
                         left, ghosts>>
      BY <1>16, Zenon DEF StreamFails
    <2> QED
      BY <2>1 DEF store, tables, ghosts
  <1>17. ASSUME NEW p \in Proc, Poison(p)
        PROVE  TypeOK'
    <2>1. CASE Finish(p)
      BY <1>17, <2>1 DEF Poison, Finish, Forget, store, tables, ghosts
    <2>2. CASE ~ Finish(p)
      BY <1>17, <2>2 DEF Poison, store, tables, ghosts, locals
    <2> QED
      BY <2>1, <2>2
  <1>18. ASSUME NEW p \in Proc, PoisonWrite(p)
        PROVE  TypeOK'
    <2>1. /\ pc[p] = "poison_write"
          /\ verify' \in [Recipe -> VerifyState]
          /\ UNCHANGED <<store, residency, ghosts>>
      BY <1>18 DEF PoisonWrite
    <2>2. CASE Finish(p)
      BY <2>1, <2>2 DEF Finish, Forget, store, ghosts
    <2>3. CASE ~ Finish(p)
      <3>1. /\ goal[p] = "second"
            /\ Goto(p, "route")
            /\ recipe' = [recipe EXCEPT ![p] = None]
            /\ mark' = [mark EXCEPT ![p] = None]
            /\ UNCHANGED <<guard, goal, blob, kids, rows, left>>
        BY <1>18, <2>3 DEF PoisonWrite
      <3> QED
        BY <2>1, <3>1 DEF store, ghosts
    <2> QED
      BY <2>2, <2>3
  <1>19. ASSUME NEW p \in Proc, EvictStart(p)
        PROVE  TypeOK'
    BY <1>19 DEF EvictStart, Begin, CoveredBy, Resident, store, tables, ghosts
  <1>20. ASSUME NEW p \in Proc, NEW b \in Blob, EvictPick(p, b)
        PROVE  TypeOK'
    BY <1>20 DEF EvictPick, store, tables, ghosts
  <1>21. ASSUME NEW p \in Proc, EvictRoute(p)
        PROVE  TypeOK'
    BY <1>21 DEF EvictRoute, store, tables, ghosts
  <1>22. ASSUME NEW p \in Proc, EvictGround(p)
        PROVE  TypeOK'
    BY <1>22 DEF EvictGround, store, tables, locals, ghosts
  <1>23. ASSUME NEW p \in Proc, EvictUnlink(p)
        PROVE  TypeOK'
    BY <1>23 DEF EvictUnlink, tables, locals, ghosts
  <1>24. ASSUME NEW p \in Proc, EvictFlip(p)
        PROVE  TypeOK'
    BY <1>24 DEF EvictFlip, store, locals, ghosts
  <1>25. ASSUME NEW p \in Proc, EvictSecondPass(p)
        PROVE  TypeOK'
    BY <1>25 DEF EvictSecondPass, CoveredBy, Resident, store, tables, ghosts
  <1>26. ASSUME NEW p \in Proc, EvictEnd(p)
        PROVE  TypeOK'
    BY <1>26 DEF EvictEnd, Finish, Forget, store, tables, ghosts
  <1>27. ASSUME NEW p \in Proc, NEW r \in Recipe, PackPut(p, r)
        PROVE  TypeOK'
    BY <1>27 DEF PackPut, Begin, Resident, tables, ghosts
  <1>28. ASSUME NEW p \in Proc, NEW b \in Blob, PackSweep(p, b)
        PROVE  TypeOK'
    BY <1>28 DEF PackSweep, tables, ghosts
  <1>29. ASSUME NEW p \in Proc, PackEnd(p)
        PROVE  TypeOK'
    BY <1>29 DEF PackEnd, Finish, Forget, store, tables, ghosts
  <1>30. ASSUME NEW p \in Proc, NEW b \in Blob, UnpackStart(p, b)
        PROVE  TypeOK'
    BY <1>30 DEF UnpackStart, Begin, store, tables, ghosts
  <1>31. ASSUME NEW p \in Proc, UnpackExtract(p)
        PROVE  TypeOK'
    <2>1. CASE Finish(p)
      BY <1>31, <2>1 DEF UnpackExtract, Finish, Forget, store, tables, ghosts
    <2>2. CASE ~ Finish(p)
      BY <1>31, <2>2 DEF UnpackExtract, store, tables, ghosts
    <2> QED
      BY <2>1, <2>2
  <1>32. ASSUME NEW p \in Proc, NEW b \in Blob, MemberRow(p, b)
        PROVE  TypeOK'
    BY <1>32 DEF MemberRow, store, ghosts
  <1>33. ASSUME NEW p \in Proc, NEW r \in Recipe, MemberMint(p, r)
        PROVE  TypeOK'
    BY <1>33 DEF MemberMint, store, locals, ghosts
  <1>34. ASSUME NEW p \in Proc, MembersDone(p)
        PROVE  TypeOK'
    BY <1>34 DEF MembersDone, store, tables, locals, ghosts
  <1>35. ASSUME NEW p \in Proc, DropGate(p)
        PROVE  TypeOK'
    <2>1. CASE Finish(p)
      BY <1>35, <2>1 DEF DropGate, Finish, Forget, store, tables, ghosts
    <2>2. CASE ~ Finish(p)
      BY <1>35, <2>2 DEF DropGate, store, tables, ghosts, locals
    <2> QED
      BY <2>1, <2>2
  <1>36. ASSUME NEW p \in Proc, DropUnlink(p)
        PROVE  TypeOK'
    BY <1>36 DEF DropUnlink, tables, locals
  <1>37. ASSUME NEW p \in Proc, DropFlip(p)
        PROVE  TypeOK'
    BY <1>37 DEF DropFlip, Finish, Forget, store, ghosts
  <1>38. ASSUME NEW p \in Proc, NEW b \in Blob, HealLook(p, b)
        PROVE  TypeOK'
    BY <1>38 DEF HealLook, store, tables, ghosts
  <1>39. ASSUME NEW p \in Proc, HealDemote(p)
        PROVE  TypeOK'
    BY <1>39 DEF HealDemote, Finish, Forget, store, ghosts
  <1>40. ASSUME NEW p \in Proc, Crash(p)
        PROVE  TypeOK'
    BY <1>40 DEF Crash, Forget, store, tables
  <1>41. CASE Expire
    BY <1>41 DEF Expire, store, tables, locals, ghosts
  <1>42. CASE Lapse
    BY <1>42 DEF Lapse, store, tables, locals
  <1>43. CASE Recover
    BY <1>43 DEF Recover, store, locals, ghosts
  <1>44. CASE UNCHANGED vars
    BY <1>44 DEF vars
  <1> QED
    BY <1>1, <1>2, <1>3, <1>4, <1>5, <1>6, <1>7, <1>8, <1>9, <1>10,
       <1>11, <1>12, <1>13, <1>14, <1>15, <1>16, <1>17, <1>18, <1>19,
       <1>20, <1>21, <1>22, <1>23, <1>24, <1>25, <1>26, <1>27, <1>28,
       <1>29, <1>30, <1>31, <1>32, <1>33, <1>34, <1>35, <1>36, <1>37,
       <1>38, <1>39, <1>40, <1>41, <1>42, <1>43, <1>44
       DEF Next, StartStep, OwnStep

\* The variables of Residency keep their types, and the locals of an idle
\* process are empty: no operation leaves work of its own behind.
THEOREM ResidencyTypeOK == Spec => []TypeOK
  BY TypeInit, TypeStep, PTL DEF Spec

---------------------------------------------------------------------------
(* Licenses.                                                               *)

\* A recipe yields all of its claimed outputs or none.  Without it the
\* theorem fails: a participant of a replay is marked although only the
\* output it was picked for was checked (Executor::replay).
AllOrNothing == \A r \in Recipe : Good[r] = {} \/ Good[r] = Out[r]

\* The strengthening: what a process is about to mark was seen to hold.
LicenseInv ==
    /\ LicensedSound
    /\ \A p \in Proc :
         /\ pc[p] \in {"mark", "write"} => Good[mark[p]] = Out[mark[p]]
         /\ \A k \in kids[p] : Good[k] = Out[k]

\* Every step keeps it: a mark is only queued by a replay whose outputs came
\* out, and a recipe is only marked from that queue.
LEMMA LicenseStep ==
    ASSUME AllOrNothing, TypeOK, LicenseInv, [Next]_vars
    PROVE  LicenseInv'
  <1> USE DEF TypeOK, LocalsOK, LicenseInv, LicensedSound, Licensed, Goto
  <1>1. ASSUME NEW p \in Proc, NEW b \in Blob, IngestPut(p, b)
        PROVE  LicenseInv'
    BY <1>1 DEF IngestPut, Begin, tables, ghosts
  <1>2. ASSUME NEW p \in Proc, IngestRow(p)
        PROVE  LicenseInv'
    <2>1. CASE Finish(p)
      BY <1>2, <2>1 DEF IngestRow, Finish, Forget, store
    <2>2. CASE ~ Finish(p)
      BY <1>2, <2>2 DEF IngestRow, store
    <2> QED
      BY <2>1, <2>2
  <1>3. ASSUME NEW p \in Proc, NEW r \in Recipe, Mint(p, r)
        PROVE  LicenseInv'
    BY <1>3 DEF Mint, WithRowsFor, store, locals, ghosts
  <1>4. ASSUME NEW p \in Proc, NEW r \in Recipe, IndexPeer(p, r)
        PROVE  LicenseInv'
    BY <1>4 DEF IndexPeer, WithRowsFor, store, locals, ghosts
  <1>5. ASSUME NEW p \in Proc, NEW r \in Recipe, License(p, r)
        PROVE  LicenseInv'
    BY <1>5 DEF License, ReplayStart, Begin, store, tables, ghosts
  <1>6. ASSUME NEW p \in Proc, NEW r \in Recipe, Materialize(p, r)
        PROVE  LicenseInv'
    BY <1>6 DEF Materialize, ReplayStart, Begin, store, tables, ghosts
  <1>7. ASSUME NEW p \in Proc, NEW r \in Recipe, Rehabilitate(p, r)
        PROVE  LicenseInv'
    BY <1>7 DEF Rehabilitate, ReplayStart, Begin, store, tables, ghosts
  <1>8. ASSUME NEW p \in Proc, ReplayRun(p)
        PROVE  LicenseInv'
    <2>1. PICK used \in SUBSET Recipe :
            /\ kids' = [kids EXCEPT ![p] = used]
            /\ \A k \in used : Good[k] # {}
      BY <1>8, ReplayRunKids, Zenon
    <2>2. \A k \in used : Good[k] = Out[k]
      BY <2>1 DEF AllOrNothing
    <2>3. /\ pc[p] = "run"
          /\ Good[recipe[p]] = Out[recipe[p]]
          /\ mark' = [mark EXCEPT ![p] = recipe[p]]
          /\ Goto(p, IF goal[p] = "keep" THEN "kids" ELSE "mark")
          /\ UNCHANGED tables
      BY <1>8, Zenon DEF ReplayRun
    <2> QED
      BY <2>1, <2>2, <2>3 DEF tables
  <1>9. ASSUME NEW p \in Proc, ReplayClaimFails(p)
        PROVE  LicenseInv'
    <2>1. UNCHANGED tables
      BY <1>9, Zenon DEF ReplayClaimFails
    <2>2. CASE Finish(p)
      BY <2>1, <2>2 DEF Finish, Forget, tables
    <2>3. CASE ~ Finish(p)
      <3>1. /\ mark' = [mark EXCEPT ![p] = recipe[p]]
            /\ Goto(p, "poison")
            /\ UNCHANGED kids
        BY <1>9, <2>3, Zenon DEF ReplayClaimFails
      <3> QED
        BY <2>1, <3>1 DEF tables
    <2> QED
      BY <2>2, <2>3
  <1>10. ASSUME NEW p \in Proc, ReplayError(p)
        PROVE  LicenseInv'
    BY <1>10 DEF ReplayError, Finish, Forget, store, tables, ghosts
  <1>11. ASSUME NEW p \in Proc, Mark(p)
        PROVE  LicenseInv'
    <2>1. CASE Finish(p)
      BY <1>11, <2>1 DEF Mark, Finish, Forget, tables
    <2>2. CASE ~ Finish(p)
      BY <1>11, <2>2 DEF Mark, tables, locals
    <2> QED
      BY <2>1, <2>2
  <1>12. ASSUME NEW p \in Proc, MarkWrite(p)
        PROVE  LicenseInv'
    BY <1>12 DEF MarkWrite, store, locals, ghosts
  <1>13. ASSUME NEW p \in Proc, NEW r \in Recipe, Kid(p, r)
        PROVE  LicenseInv'
    BY <1>13 DEF Kid, store, tables, ghosts
  <1>14. ASSUME NEW p \in Proc, NEW b \in Blob, Row(p, b)
        PROVE  LicenseInv'
    BY <1>14 DEF Row, store, ghosts
  <1>15. ASSUME NEW p \in Proc, ReplayDone(p)
        PROVE  LicenseInv'
    <2>1. CASE Finish(p)
      BY <1>15, <2>1 DEF ReplayDone, Finish, Forget, tables
    <2>2. CASE ~ Finish(p)
      BY <1>15, <2>2 DEF ReplayDone, tables
    <2> QED
      BY <2>1, <2>2
  <1>16. ASSUME NEW p \in Proc, NEW r \in Recipe, StreamFails(p, r)
        PROVE  LicenseInv'
    <2>1. /\ mark' = [mark EXCEPT ![p] = r]
          /\ Goto(p, "poison")
          /\ UNCHANGED <<tables, kids>>
      BY <1>16, Zenon DEF StreamFails
    <2> QED
      BY <2>1 DEF tables
  <1>17. ASSUME NEW p \in Proc, Poison(p)
        PROVE  LicenseInv'
    <2>1. CASE Finish(p)
      BY <1>17, <2>1 DEF Poison, Finish, Forget, tables
    <2>2. CASE ~ Finish(p)
      BY <1>17, <2>2 DEF Poison, tables, locals
    <2> QED
      BY <2>1, <2>2
  <1>18. ASSUME NEW p \in Proc, PoisonWrite(p)
        PROVE  LicenseInv'
    <2>1. CASE Finish(p)
      BY <1>18, <2>1 DEF PoisonWrite, Finish, Forget, store
    <2>2. CASE ~ Finish(p)
      BY <1>18, <2>2 DEF PoisonWrite, store
    <2> QED
      BY <2>1, <2>2
  <1>19. ASSUME NEW p \in Proc, EvictStart(p)
        PROVE  LicenseInv'
    BY <1>19 DEF EvictStart, Begin, CoveredBy, Resident, store, tables, ghosts
  <1>20. ASSUME NEW p \in Proc, NEW b \in Blob, EvictPick(p, b)
        PROVE  LicenseInv'
    BY <1>20 DEF EvictPick, store, tables, ghosts
  <1>21. ASSUME NEW p \in Proc, EvictRoute(p)
        PROVE  LicenseInv'
    BY <1>21 DEF EvictRoute, store, tables, ghosts
  <1>22. ASSUME NEW p \in Proc, EvictGround(p)
        PROVE  LicenseInv'
    BY <1>22 DEF EvictGround, store, tables, locals, ghosts
  <1>23. ASSUME NEW p \in Proc, EvictUnlink(p)
        PROVE  LicenseInv'
    BY <1>23 DEF EvictUnlink, tables, locals, ghosts
  <1>24. ASSUME NEW p \in Proc, EvictFlip(p)
        PROVE  LicenseInv'
    BY <1>24 DEF EvictFlip, store, locals, ghosts
  <1>25. ASSUME NEW p \in Proc, EvictSecondPass(p)
        PROVE  LicenseInv'
    BY <1>25 DEF EvictSecondPass, CoveredBy, Resident, store, tables, ghosts
  <1>26. ASSUME NEW p \in Proc, EvictEnd(p)
        PROVE  LicenseInv'
    BY <1>26 DEF EvictEnd, Finish, Forget, store, tables, ghosts
  <1>27. ASSUME NEW p \in Proc, NEW r \in Recipe, PackPut(p, r)
        PROVE  LicenseInv'
    BY <1>27 DEF PackPut, Begin, Resident, tables, ghosts
  <1>28. ASSUME NEW p \in Proc, NEW b \in Blob, PackSweep(p, b)
        PROVE  LicenseInv'
    BY <1>28 DEF PackSweep, tables, ghosts
  <1>29. ASSUME NEW p \in Proc, PackEnd(p)
        PROVE  LicenseInv'
    BY <1>29 DEF PackEnd, Finish, Forget, store, tables, ghosts
  <1>30. ASSUME NEW p \in Proc, NEW b \in Blob, UnpackStart(p, b)
        PROVE  LicenseInv'
    BY <1>30 DEF UnpackStart, Begin, store, tables, ghosts
  <1>31. ASSUME NEW p \in Proc, UnpackExtract(p)
        PROVE  LicenseInv'
    <2>1. CASE Finish(p)
      BY <1>31, <2>1 DEF UnpackExtract, Finish, Forget, tables
    <2>2. CASE ~ Finish(p)
      BY <1>31, <2>2 DEF UnpackExtract, tables
    <2> QED
      BY <2>1, <2>2
  <1>32. ASSUME NEW p \in Proc, NEW b \in Blob, MemberRow(p, b)
        PROVE  LicenseInv'
    BY <1>32 DEF MemberRow, store, ghosts
  <1>33. ASSUME NEW p \in Proc, NEW r \in Recipe, MemberMint(p, r)
        PROVE  LicenseInv'
    BY <1>33 DEF MemberMint, store, locals, ghosts
  <1>34. ASSUME NEW p \in Proc, MembersDone(p)
        PROVE  LicenseInv'
    BY <1>34 DEF MembersDone, store, tables, locals, ghosts
  <1>35. ASSUME NEW p \in Proc, DropGate(p)
        PROVE  LicenseInv'
    <2>1. CASE Finish(p)
      BY <1>35, <2>1 DEF DropGate, Finish, Forget, tables
    <2>2. CASE ~ Finish(p)
      BY <1>35, <2>2 DEF DropGate, tables, locals
    <2> QED
      BY <2>1, <2>2
  <1>36. ASSUME NEW p \in Proc, DropUnlink(p)
        PROVE  LicenseInv'
    BY <1>36 DEF DropUnlink, tables, locals
  <1>37. ASSUME NEW p \in Proc, DropFlip(p)
        PROVE  LicenseInv'
    BY <1>37 DEF DropFlip, Finish, Forget, store, ghosts
  <1>38. ASSUME NEW p \in Proc, NEW b \in Blob, HealLook(p, b)
        PROVE  LicenseInv'
    BY <1>38 DEF HealLook, store, tables, ghosts
  <1>39. ASSUME NEW p \in Proc, HealDemote(p)
        PROVE  LicenseInv'
    BY <1>39 DEF HealDemote, Finish, Forget, store, ghosts
  <1>40. ASSUME NEW p \in Proc, Crash(p)
        PROVE  LicenseInv'
    BY <1>40 DEF Crash, Forget, store, tables
  <1>41. CASE Expire
    BY <1>41 DEF Expire, store, tables, locals, ghosts
  <1>42. CASE Lapse
    BY <1>42 DEF Lapse, store, tables, locals
  <1>43. CASE Recover
    BY <1>43 DEF Recover, store, locals, ghosts
  <1>44. CASE UNCHANGED vars
    BY <1>44 DEF vars
  <1> QED
    BY <1>1, <1>2, <1>3, <1>4, <1>5, <1>6, <1>7, <1>8, <1>9, <1>10,
       <1>11, <1>12, <1>13, <1>14, <1>15, <1>16, <1>17, <1>18, <1>19,
       <1>20, <1>21, <1>22, <1>23, <1>24, <1>25, <1>26, <1>27, <1>28,
       <1>29, <1>30, <1>31, <1>32, <1>33, <1>34, <1>35, <1>36, <1>37,
       <1>38, <1>39, <1>40, <1>41, <1>42, <1>43, <1>44
       DEF Next, StartStep, OwnStep

\* No recipe that does not yield its claim is ever licensed by
\* execute_to_store and set_verify_state, for every recipe graph of all-or-
\* nothing recipes and with every race, crash and lapse.
THEOREM LicenseIsEarned ==
    ASSUME AllOrNothing
    PROVE  Spec => []LicensedSound
  <1>1. Init => LicenseInv
    BY ResidencyAssumption DEF Init, LicenseInv, LicensedSound, Licensed
  <1>2. LicenseInv => LicensedSound
    BY DEF LicenseInv
  <1> QED
    BY <1>1, <1>2, LicenseStep, ResidencyTypeOK, PTL DEF Spec

-----------------------------------------------------------------------------
(* Verify states.                                                          *)

\* p is between the SELECT and the UPDATE of set_verify_state or of
\* rehabilitate_recipe.
Writing(p) == pc[p] \in {"write", "poison_write"}

\* No two processes are: what one transaction around both halves would give.
HalvesApart == \A p, q \in Proc : Writing(p) /\ Writing(q) => p = q

\* What the check found is still so when the update comes.
CheckedStill ==
    \A p \in Proc :
        /\ pc[p] = "write" =>
             \/ Legal(verify[mark[p]], "replayed_local")
             \/ /\ goal[p] = "rehabilitate"
                /\ mark[p] = recipe[p]
                /\ verify[mark[p]] = "failed"
        /\ pc[p] = "poison_write" => Legal(verify[mark[p]], "failed")

\* Every step keeps it while the halves are apart: Mint, IndexPeer and
\* MemberMint write only rows that were not there, and Recover runs alone.
LEMMA CheckedStep ==
    ASSUME TypeOK, CheckedStill, HalvesApart, [Next]_vars
    PROVE  CheckedStill'
  <1> USE DEF TypeOK, LocalsOK, CheckedStill, Legal, Goto
  <1>1. ASSUME NEW p \in Proc, MarkWrite(p)
        PROVE  CheckedStill'
    BY <1>1 DEF MarkWrite, HalvesApart, Writing, locals
  <1>2. ASSUME NEW p \in Proc, PoisonWrite(p), ~ Finish(p)
        PROVE  CheckedStill'
    BY <1>2 DEF PoisonWrite, HalvesApart, Writing
  <1>3. ASSUME NEW p \in Proc, PoisonWrite(p), Finish(p)
        PROVE  CheckedStill'
    BY <1>3 DEF PoisonWrite, HalvesApart, Writing, Finish, Forget
  <1>4. ASSUME NEW p \in Proc, Finish(p), UNCHANGED verify
        PROVE  CheckedStill'
    BY <1>4 DEF Finish, Forget
  <1>5. ASSUME NEW p \in Proc, Mark(p) \/ Poison(p), ~ Finish(p)
        PROVE  CheckedStill'
    BY <1>5 DEF Mark, Poison, locals, tables
  <1>6. ASSUME NEW p \in Proc, NEW r \in Recipe,
               Mint(p, r) \/ IndexPeer(p, r) \/ MemberMint(p, r)
        PROVE  CheckedStill'
    BY <1>6 DEF Mint, IndexPeer, MemberMint, locals
  <1>7. ASSUME NEW p \in Proc, NEW r \in Recipe,
               \/ License(p, r) \/ Materialize(p, r) \/ Rehabilitate(p, r)
               \/ PackPut(p, r) \/ Kid(p, r)
        PROVE  CheckedStill'
    BY <1>7 DEF License, Materialize, Rehabilitate, PackPut, Kid, ReplayStart,
         Begin, tables
  <1>8. ASSUME NEW p \in Proc, NEW r \in Recipe, StreamFails(p, r)
        PROVE  CheckedStill'
    <2>1. /\ Goto(p, "poison")
          /\ mark' = [mark EXCEPT ![p] = r]
          /\ UNCHANGED <<tables, goal, recipe>>
      BY <1>8, Zenon DEF StreamFails
    <2> QED
      BY <2>1 DEF tables
  <1>9. ASSUME NEW p \in Proc, ReplayRun(p)
        PROVE  CheckedStill'
    <2>1. /\ Goto(p, IF goal[p] = "keep" THEN "kids" ELSE "mark")
          /\ mark' = [mark EXCEPT ![p] = recipe[p]]
          /\ UNCHANGED <<tables, goal, recipe>>
      BY <1>9, Zenon DEF ReplayRun
    <2> QED
      BY <2>1 DEF tables
  <1>10. ASSUME NEW p \in Proc, ReplayClaimFails(p)
        PROVE  CheckedStill'
    <2>1. UNCHANGED tables
      BY <1>10, Zenon DEF ReplayClaimFails
    <2>2. CASE Finish(p)
      BY <1>4, <2>1, <2>2 DEF tables
    <2>3. CASE ~ Finish(p)
      <3>1. /\ Goto(p, "poison")
            /\ mark' = [mark EXCEPT ![p] = recipe[p]]
            /\ UNCHANGED <<goal, recipe>>
        BY <1>10, <2>3, Zenon DEF ReplayClaimFails
      <3> QED
        BY <2>1, <3>1 DEF tables
    <2> QED
      BY <2>2, <2>3
  <1>11. ASSUME NEW p \in Proc,
               \/ IngestRow(p) \/ ReplayError(p) \/ ReplayDone(p)
               \/ EvictRoute(p) \/ EvictGround(p) \/ EvictUnlink(p)
               \/ EvictFlip(p) \/ EvictSecondPass(p),
               ~ Finish(p)
        PROVE  CheckedStill'
    BY <1>11 DEF IngestRow, ReplayError, ReplayDone, EvictRoute, EvictGround,
         EvictUnlink, EvictFlip, EvictSecondPass, locals, tables
  <1>12. ASSUME NEW p \in Proc,
               \/ EvictEnd(p) \/ PackEnd(p) \/ UnpackExtract(p)
               \/ MembersDone(p) \/ DropGate(p) \/ DropUnlink(p)
               \/ DropFlip(p) \/ HealDemote(p),
               ~ Finish(p)
        PROVE  CheckedStill'
    BY <1>12 DEF EvictEnd, PackEnd, UnpackExtract, MembersDone, DropGate,
         DropUnlink, DropFlip, HealDemote, locals, tables
  <1>13. ASSUME NEW p \in Proc,
               \/ IngestRow(p) \/ ReplayError(p) \/ ReplayDone(p) \/ Mark(p)
               \/ Poison(p) \/ EvictRoute(p) \/ EvictGround(p)
               \/ EvictUnlink(p) \/ EvictFlip(p) \/ EvictSecondPass(p)
               \/ EvictEnd(p) \/ PackEnd(p) \/ UnpackExtract(p)
               \/ MembersDone(p) \/ DropGate(p) \/ DropUnlink(p)
               \/ DropFlip(p) \/ HealDemote(p)
        PROVE  UNCHANGED verify
    BY <1>13 DEF IngestRow, ReplayError, ReplayDone, Mark, Poison, EvictRoute,
         EvictGround, EvictUnlink, EvictFlip, EvictSecondPass, EvictEnd,
         PackEnd, UnpackExtract, MembersDone, DropGate, DropUnlink, DropFlip,
         HealDemote, tables
  <1>14. ASSUME NEW p \in Proc, NEW b \in Blob,
               \/ IngestPut(p, b) \/ UnpackStart(p, b) \/ HealLook(p, b)
               \/ Row(p, b) \/ EvictPick(p, b) \/ PackSweep(p, b)
               \/ MemberRow(p, b)
        PROVE  CheckedStill'
    BY <1>14 DEF IngestPut, UnpackStart, HealLook, Row, EvictPick, PackSweep,
         MemberRow, Begin, tables
  <1>15. ASSUME NEW p \in Proc, EvictStart(p) \/ Crash(p)
        PROVE  CheckedStill'
    BY <1>15 DEF EvictStart, Begin, Crash, Forget, tables
  <1>16. CASE Expire \/ Lapse \/ Recover
    BY <1>16 DEF Expire, Lapse, Recover, locals, tables
  <1>17. CASE UNCHANGED vars
    BY <1>17 DEF vars
  <1> HIDE DEF TypeOK, LocalsOK, CheckedStill, Legal, Goto
  <1>18. ASSUME NEW p \in Proc, OwnStep(p)
        PROVE  CheckedStill'
    <2>1. CASE Finish(p)
      BY <1>1, <1>3, <1>4, <1>6, <1>7, <1>9, <1>10, <1>13, <1>14, <1>18,
         <2>1
         DEF OwnStep
    <2>2. CASE ~ Finish(p)
      BY <1>1, <1>2, <1>5, <1>6, <1>7, <1>9, <1>10, <1>11, <1>12, <1>14,
         <1>18, <2>2
         DEF OwnStep
    <2> QED
      BY <2>1, <2>2
  <1> QED
    BY <1>6, <1>7, <1>8, <1>14, <1>15, <1>16, <1>17, <1>18
       DEF Next, StartStep

\* So the update of a verify state is a legal transition.
LEMMA LegalStep ==
    ASSUME TypeOK, CheckedStill, [Next]_vars
    PROVE  \A r \in Recipe :
             \/ verify'[r] = verify[r]
             \/ verify[r] = "none"
             \/ Legal(verify[r], verify'[r])
             \/ verify[r] = "failed" /\ \E p \in Proc :
                   pc[p] = "write" /\ goal[p] = "rehabilitate" /\ recipe[p] = r
             \/ verify' = [s \in Recipe |->
                              IF s \in Known THEN "pending" ELSE "none"]
  <1> DEFINE Lawful ==
        \A r \in Recipe :
             \/ verify'[r] = verify[r]
             \/ verify[r] = "none"
             \/ Legal(verify[r], verify'[r])
             \/ verify[r] = "failed" /\ \E p \in Proc :
                   pc[p] = "write" /\ goal[p] = "rehabilitate" /\ recipe[p] = r
             \/ verify' = [s \in Recipe |->
                              IF s \in Known THEN "pending" ELSE "none"]
  <1>a. SUFFICES Lawful
    OBVIOUS
  <1>1. ASSUME NEW p \in Proc, MarkWrite(p)
        PROVE  Lawful
    BY <1>1 DEF MarkWrite, TypeOK, CheckedStill
  <1>2. ASSUME NEW p \in Proc, PoisonWrite(p)
        PROVE  Lawful
    BY <1>2 DEF PoisonWrite, TypeOK, CheckedStill
  <1>3. ASSUME NEW p \in Proc, NEW r \in Recipe,
               Mint(p, r) \/ IndexPeer(p, r) \/ MemberMint(p, r)
        PROVE  Lawful
    BY <1>3 DEF Mint, IndexPeer, MemberMint, TypeOK
  <1>4. CASE Recover
    BY <1>4 DEF Recover
  <1>5. CASE UNCHANGED verify
    BY <1>5
  <1> HIDE DEF Lawful
  <1>6. ASSUME NEW p \in Proc, ReplayRun(p) \/ ReplayClaimFails(p)
        PROVE  UNCHANGED verify
    <2>1. UNCHANGED tables
      BY <1>6, Zenon DEF ReplayRun, ReplayClaimFails
    <2> QED
      BY <2>1 DEF tables
  <1>7. ASSUME NEW p \in Proc, NEW r \in Recipe, StreamFails(p, r)
        PROVE  UNCHANGED verify
    <2>1. UNCHANGED <<store, tables>>
      BY <1>7, Zenon DEF StreamFails
    <2> QED
      BY <2>1 DEF store, tables
  <1>8. ASSUME NEW p \in Proc,
               \/ IngestRow(p) \/ ReplayError(p) \/ ReplayDone(p) \/ Mark(p)
               \/ Poison(p) \/ EvictRoute(p) \/ EvictGround(p)
               \/ EvictUnlink(p) \/ EvictFlip(p) \/ EvictSecondPass(p)
               \/ EvictEnd(p) \/ PackEnd(p) \/ UnpackExtract(p)
               \/ MembersDone(p) \/ DropGate(p) \/ DropUnlink(p)
               \/ DropFlip(p) \/ HealDemote(p) \/ EvictStart(p) \/ Crash(p)
        PROVE  UNCHANGED verify
    BY <1>8 DEF IngestRow, ReplayError, ReplayDone, Mark, Poison, EvictRoute,
         EvictGround, EvictUnlink, EvictFlip, EvictSecondPass, EvictEnd,
         PackEnd, UnpackExtract, MembersDone, DropGate, DropUnlink, DropFlip,
         HealDemote, EvictStart, Crash, tables
  <1>9. ASSUME NEW p \in Proc, NEW b \in Blob,
               \/ IngestPut(p, b) \/ UnpackStart(p, b) \/ HealLook(p, b)
               \/ Row(p, b) \/ EvictPick(p, b) \/ PackSweep(p, b)
               \/ MemberRow(p, b)
        PROVE  UNCHANGED verify
    BY <1>9 DEF IngestPut, UnpackStart, HealLook, Row, EvictPick, PackSweep,
         MemberRow, tables
  <1>10. ASSUME NEW p \in Proc, NEW r \in Recipe,
               \/ License(p, r) \/ Materialize(p, r) \/ Rehabilitate(p, r)
               \/ PackPut(p, r) \/ Kid(p, r)
        PROVE  UNCHANGED verify
    BY <1>10 DEF License, Materialize, Rehabilitate, PackPut, Kid, ReplayStart,
         tables
  <1>11. CASE Expire \/ Lapse \/ UNCHANGED vars
    BY <1>5, <1>11 DEF Expire, Lapse, vars, tables
  <1> QED
    BY <1>1, <1>2, <1>3, <1>4, <1>5, <1>6, <1>7, <1>8, <1>9, <1>10, <1>11
       DEF Next, StartStep, OwnStep
\* As long as no two processes are between the halves of set_verify_state at
\* once, every change of a verify state is one can_transition_to allows, a
\* rehabilitation, or the rebuild of the index.  The overlap is the only
\* thing that can break it: crashes, lapses and any other race cannot.
THEOREM VerifyStatesAreLegal ==
    Spec /\ []HalvesApart => LegalVerifySteps
  <1>1. Init => CheckedStill
    BY DEF Init, CheckedStill
  <1>2. TypeOK /\ CheckedStill /\ HalvesApart /\ [Next]_vars => CheckedStill'
    BY CheckedStep
  <1>3. TypeOK /\ CheckedStill /\ [Next]_vars =>
          [\A r \in Recipe :
             \/ verify'[r] = verify[r]
             \/ verify[r] = "none"
             \/ Legal(verify[r], verify'[r])
             \/ verify[r] = "failed" /\ \E p \in Proc :
                   pc[p] = "write" /\ goal[p] = "rehabilitate" /\ recipe[p] = r
             \/ verify' = [s \in Recipe |->
                              IF s \in Known THEN "pending" ELSE "none"]
          ]_verify
    BY LegalStep
  <1> QED
    BY <1>1, <1>2, <1>3, ResidencyTypeOK, PTL DEF Spec, LegalVerifySteps

\* A lone process never meets that overlap: set_verify_state and
\* rehabilitate_recipe are then exactly the state machine they document.
THEOREM LoneProcessIsLegal ==
    ASSUME \A p, q \in Proc : p = q
    PROVE  Spec => LegalVerifySteps
  <1>1. HalvesApart
    BY DEF HalvesApart
  <1> QED
    BY <1>1, VerifyStatesAreLegal, PTL

=============================================================================
