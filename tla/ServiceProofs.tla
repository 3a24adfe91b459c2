--------------------------- MODULE ServiceProofs ----------------------------
(****************************************************************************)
(* What the daemon's services promise, for every set of blobs, jobs, names  *)
(* and clients and every bound on what happens meanwhile: the orphan        *)
(* collector, the maintenance on request, the state snapshots, the accounts *)
(* and sessions, the job registry, the file surfaces and the API's pages of *)
(* MCServices.                                                              *)
(*                                                                          *)
(* A behaviour of the suite, seen through one service's variables, is a     *)
(* behaviour of that service; each section proves its service's invariant   *)
(* and carries it to the suite.                                             *)
(****************************************************************************)
EXTENDS MCServices, FiniteSetTheorems, SequenceTheorems, TLAPS

----------------------------------------------------------------------------
(* Maintenance on request.                                                  *)

\* The guard is nobody's, the watermark's or a job's.
OdType ==
    /\ tasks \in [OnJobs -> [kind : {"evict", "scrub", "sweep", "sync"},
                             at : {"none", "opening", "running", "released", "relink", "done", "failed"}]]
    /\ ondemandGuard \in OnJobs \cup {D!Free, D!Watermark}

\* With its type the property is inductive: a claim that lapses only frees the guard.
OdInv == OdType /\ D!GuardBackWithJob

LEMMA OdInitHolds ==
    ASSUME D!OdInit
    PROVE  OdInv
BY DEF D!OdInit, OdInv, OdType, D!GuardBackWithJob, D!Free

LEMMA OdWorkKeeps ==
    ASSUME OdInv, NEW j \in OnJobs, D!Work(j)
    PROVE  OdInv'
<1> USE ServiceAssumption DEF D!At, D!Free, D!Watermark
<1>1. CASE D!OpenFails(j)
  BY <1>1 DEF D!OpenFails, D!Release, OdInv, OdType, D!GuardBackWithJob
<1>2. CASE D!Opens(j)
  BY <1>2 DEF D!Opens, OdInv, OdType, D!GuardBackWithJob
<1>3. CASE D!EvictReleases(j)
  BY <1>3 DEF D!EvictReleases, D!Release, OdInv, OdType, D!GuardBackWithJob
<1>4. CASE D!EvictEnds(j)
  BY <1>4 DEF D!EvictEnds, OdInv, OdType, D!GuardBackWithJob
<1>5. CASE D!ScrubEnds(j)
  BY <1>5 DEF D!ScrubEnds, OdInv, OdType, D!GuardBackWithJob
<1>6. CASE D!SweepEnds(j)
  BY <1>6 DEF D!SweepEnds, OdInv, OdType, D!GuardBackWithJob
<1>7. CASE D!SyncFails(j)
  BY <1>7 DEF D!SyncFails, OdInv, OdType, D!GuardBackWithJob
<1>8. CASE D!SyncReturns(j)
  BY <1>8 DEF D!SyncReturns, OdInv, OdType, D!GuardBackWithJob
<1>9. CASE D!SyncRelinks(j)
  BY <1>9 DEF D!SyncRelinks, OdInv, OdType, D!GuardBackWithJob
<1> QED
  BY <1>1, <1>2, <1>3, <1>4, <1>5, <1>6, <1>7, <1>8, <1>9 DEF D!Work

LEMMA OdStepKeeps ==
    ASSUME OdInv, [D!OdNext]_(D!ondemandvars)
    PROVE  OdInv'
<1> USE ServiceAssumption DEF D!At, D!Free, D!Watermark
<1>1. CASE UNCHANGED D!ondemandvars
  BY <1>1 DEF D!ondemandvars, OdInv, OdType, D!GuardBackWithJob
<1>2. ASSUME NEW j \in OnJobs, D!EvictRequest(j)
      PROVE  OdInv'
  BY <1>2 DEF D!EvictRequest, OdInv, OdType, D!GuardBackWithJob
<1>3. ASSUME NEW j \in OnJobs, D!ScrubRequest(j) \/ D!SweepRequest(j) \/ D!SyncRequest(j)
      PROVE  OdInv'
  BY <1>3 DEF D!ScrubRequest, D!SweepRequest, D!SyncRequest, D!Start, OdInv, OdType, D!GuardBackWithJob
<1>4. ASSUME NEW j \in OnJobs, D!SyncReceives(j)
      PROVE  OdInv'
  BY <1>4 DEF D!SyncReceives, OdInv, OdType, D!GuardBackWithJob
<1>5. CASE D!WatermarkClaims
  BY <1>5 DEF D!WatermarkClaims, OdInv, OdType, D!GuardBackWithJob
<1>6. CASE D!WatermarkReleases
  BY <1>6 DEF D!WatermarkReleases, D!Release, OdInv, OdType, D!GuardBackWithJob
<1>7. CASE D!GuardLapses
  BY <1>7 DEF D!GuardLapses, OdInv, OdType, D!GuardBackWithJob
<1> QED
  BY <1>1, <1>2, <1>3, <1>4, <1>5, <1>6, <1>7, OdWorkKeeps DEF D!OdNext

\* GuardBackWithJob: whoever the guard belongs to is still at work; no worker
\* leaves with it, whether it could not open its connection, failed or finished,
\* and nobody's release returns another's claim (evict, run_evict and
\* release_gc_guard; maintain.rs, watermark_evict).
THEOREM GuardNeverOutlivesJob == Spec => []GuardBackWithJob
<1>1. SuiteInit => OdInv
  BY OdInitHolds DEF SuiteInit, DRests
<1>2. OdInv /\ [SuiteNext]_allVars => OdInv'
  <2>1. [SuiteNext]_allVars => [D!OdNext]_(D!ondemandvars)
    BY DEF SuiteNext, OStep, JStep, AStep, NStep, PStep, FStep, IStep, DStep, SStep, allVars, DVars,
       D!ondemandvars
  <2> QED BY <2>1, OdStepKeeps
<1>3. OdInv => GuardBackWithJob
  BY DEF OdInv, GuardBackWithJob
<1> QED
  BY <1>1, <1>2, <1>3, PTL DEF Spec

----------------------------------------------------------------------------
(* State snapshots.                                                         *)

Snapshot == [seq : Nat, src : Nat, intent : Nat, key : Nat, n : Nat]

Places == {"down", "create", "seed", "idle", "check", "check2", "sources", "intent", "number",
           "put", "log"}

SnTypeDisk ==
    /\ live \in [src : Nat, intent : Nat]
    /\ file \in [is : {"none", "torn", "whole"}, key : Nat]
    /\ objs \subseteq Snapshot /\ log \subseteq [seq : Nat, obj : Snapshot]
    /\ good \in Seq(Snapshot) /\ fresh \in BOOLEAN

Minter == [at : Places, key : Nat, src : Nat, intent : Nat, seq : Nat, obj : Snapshot]

SnTypeRun ==
    /\ minter \in [S!Minters -> Minter]
    /\ recov \in [at : {"idle", "dats", "intent", "log"}, snap : Snapshot]
    /\ used \in [changes : Nat, demands : Nat, faults : Nat, losses : Nat, keys : Nat, mints : Nat]

\* The log, when it has rows, has a newest one.
LogTop == log = {} \/ \E row \in log : \A other \in log : other.seq <= row.seq

\* A mint that answered stored its object, and every object bears a key that was
\* made, as do the identity file and the minters: a key made next signs nothing yet.
Stored ==
    /\ \A i \in DOMAIN good : good[i] \in objs
    /\ \A o \in objs : o.key <= used.keys
    /\ file.key <= used.keys /\ \A m \in S!Minters : minter[m].key <= used.keys

\* Between the object and its row a mint holds an object of its own key and number.
Signed ==
    \A m \in S!Minters : minter[m].at = "log" =>
        /\ minter[m].obj \in objs /\ minter[m].obj.key = minter[m].key
        /\ minter[m].obj.seq = minter[m].seq

\* The log has a number at least as high as each that key k was answered with.
Covered(k) ==
    \A i \in DOMAIN good : good[i].key = k => \E row \in log : row.seq >= good[i].seq

\* Whoever holds a key, and the identity file unless a recovery is owed, is covered
\* by the log.
KeysCovered ==
    /\ \A m \in S!Minters : minter[m].at \notin {"down", "create", "seed"} => Covered(minter[m].key)
    /\ ~fresh /\ file.is = "whole" => Covered(file.key)

\* While a recovery is owed nobody mints; the snapshot it selected is under the
\* identity's key and none of that key has a higher number.
Recovering ==
    /\ fresh => \A m \in S!Minters : minter[m].at = "down"
    /\ recov.at # "idle" => fresh /\ \A o \in S!Ours : o.seq <= recov.snap.seq

SnInv == SnTypeDisk /\ SnTypeRun /\ LogTop /\ Stored /\ Signed /\ KeysCovered /\ Recovering
           /\ S!MintsAscend

LEMMA SnInitHolds ==
    ASSUME S!SnInit
    PROVE  SnInv
<1>1. SnTypeDisk
  <2>1. live \in [src : Nat, intent : Nat] /\ file \in [is : {"none", "torn", "whole"}, key : Nat]
    BY DEF S!SnInit
  <2>2. objs \subseteq Snapshot /\ log \subseteq [seq : Nat, obj : Snapshot] /\ good \in Seq(Snapshot)
    BY DEF S!SnInit
  <2>3. fresh \in BOOLEAN
    BY DEF S!SnInit
  <2> QED BY <2>1, <2>2, <2>3 DEF SnTypeDisk
<1>2. SnTypeRun
  BY DEF S!SnInit, SnTypeRun, S!Down, S!NoSnap, S!Minters, Places, Snapshot, Minter
<1>3. LogTop /\ Stored /\ S!MintsAscend
  BY DEF S!SnInit, LogTop, Stored, S!MintsAscend, S!Down, S!Minters
<1>4. Signed /\ KeysCovered /\ Recovering
  BY DEF S!SnInit, Signed, KeysCovered, Covered, Recovering, S!Down, S!Minters
<1> QED
  BY <1>1, <1>2, <1>3, <1>4 DEF SnInv

LEMMA MinterTypes ==
    /\ \A p \in {"down", "create", "seed", "idle", "check", "check2", "sources", "intent", "number",
                 "put", "log"} : p \in Places
    /\ S!Down \in Minter
BY DEF Places, Minter, S!Down, S!NoSnap, Snapshot

\* The next number is above every logged one.
LEMMA NextIsAbove ==
    ASSUME SnTypeDisk, LogTop
    PROVE  S!NextSeq \in Nat /\ \A row \in log : row.seq < S!NextSeq
<1>1. CASE log = {}
  BY <1>1 DEF S!NextSeq
<1>2. CASE log # {}
  <2>1. S!Latest \in log /\ \A other \in log : other.seq <= S!Latest.seq
    BY <1>2 DEF LogTop, S!Latest
  <2>2. S!Latest.seq \in Nat /\ \A other \in log : other.seq \in Nat
    BY <2>1 DEF SnTypeDisk
  <2> QED
    BY <1>2, <2>1, <2>2 DEF S!NextSeq
<1> QED
  BY <1>1, <1>2

\* A step that leaves the objects, the log, the answers, the identity, the keys
\* made and the recovery alone, and in which nobody gets a key or an object.
SnQuiet ==
    /\ UNCHANGED <<objs, log, good, file, recov, fresh, used.keys>>
    /\ \A m \in S!Minters :
         /\ minter'[m].at = "log" => minter[m].at = "log" /\ minter'[m] = minter[m]
         /\ minter'[m].at \notin {"down", "create", "seed"} =>
              minter[m].at \notin {"down", "create", "seed"} /\ minter'[m].key = minter[m].key
         /\ minter[m].at = "down" => minter'[m].at = "down"
         /\ minter'[m].key \in {minter[m].key, 0}

LEMMA QuietKeeps ==
    ASSUME SnInv, SnQuiet, SnTypeDisk', SnTypeRun'
    PROVE  SnInv'
<1>0. used.keys \in Nat
  BY DEF SnInv, SnTypeRun
<1>1. LogTop' /\ Stored' /\ S!MintsAscend'
  BY <1>0 DEF SnInv, SnQuiet, LogTop, Stored, S!MintsAscend
<1>2. Signed'
  BY DEF SnInv, SnQuiet, Signed
<1>3. \A k : Covered(k) => Covered(k)'
  BY DEF SnQuiet, Covered
<1>4. KeysCovered'
  BY <1>3 DEF SnInv, SnQuiet, KeysCovered
<1>5. Recovering'
  BY DEF SnInv, SnQuiet, Recovering, S!Ours
<1> QED
  BY <1>1, <1>2, <1>4, <1>5 DEF SnInv

\* An object in hand stays what it is for the minters that do not move.
LEMMA SignedStays ==
    ASSUME Signed, objs \subseteq objs', NEW x \in S!Minters, minter'[x].at = "log",
           minter'[x] = minter[x]
    PROVE  /\ minter'[x].obj \in objs' /\ minter'[x].obj.key = minter'[x].key
           /\ minter'[x].obj.seq = minter'[x].seq
<1>1. minter[x].at = "log"
  OBVIOUS
<1>2. minter[x].obj \in objs /\ minter[x].obj.key = minter[x].key /\ minter[x].obj.seq = minter[x].seq
  BY <1>1 DEF Signed
<1> QED
  BY <1>2

\* The reads and checks of a mint, a change of the state and a failure are quiet.
LEMMA ChangeKeeps ==
    ASSUME SnInv, S!Change
    PROVE  SnInv'
<1>1. PICK which \in {"src", "intent"} : live' = [live EXCEPT ![which] = used.changes + 1]
  BY DEF S!Change
<1>2. SnTypeDisk' /\ SnTypeRun'
  <2>1. used.changes + 1 \in Nat
    BY DEF SnInv, SnTypeRun, Minter
  <2>2. live' \in [src : Nat, intent : Nat]
    <3>1. CASE which = "src"
      BY <1>1, <2>1, <3>1 DEF SnInv, SnTypeDisk
    <3>2. CASE which = "intent"
      BY <1>1, <2>1, <3>2 DEF SnInv, SnTypeDisk
    <3> QED BY <3>1, <3>2
  <2>3. SnTypeDisk'
    BY <2>2 DEF S!Change, SnInv, SnTypeDisk
  <2>4. SnTypeRun'
    BY DEF S!Change, S!Spend, SnInv, SnTypeRun, Minter
  <2> QED BY <2>3, <2>4
<1>3. SnQuiet
  BY DEF S!Change, S!Spend, SnInv, SnTypeRun, Minter, SnQuiet
<1> QED
  BY <1>2, <1>3, QuietKeeps

LEMMA ChecksKeep ==
    ASSUME SnInv, S!CheckLatest \/ S!CheckSources \/ S!CheckIntent
    PROVE  SnInv'
<1> USE MinterTypes DEF S!Goto, S!Minters, Minter
<1>1. UNCHANGED <<live, file, objs, log, good, recov, fresh, used>>
  BY DEF S!CheckLatest, S!CheckSources, S!CheckIntent
<1>2. SnTypeDisk'
  BY <1>1 DEF SnInv, SnTypeDisk
<1>3. SnTypeRun'
  <2>1. CASE S!CheckLatest
    <3>1. log # {} => S!Latest.obj \in Snapshot
      BY DEF SnInv, LogTop, S!Latest, SnTypeDisk
    <3> QED BY <2>1, <3>1 DEF S!CheckLatest, SnInv, SnTypeRun, Minter
  <2>2. CASE S!CheckSources
    BY <2>2 DEF S!CheckSources, SnInv, SnTypeRun, Minter, SnTypeDisk
  <2>3. CASE S!CheckIntent
    BY <2>3 DEF S!CheckIntent, SnInv, SnTypeRun, Minter
  <2> QED BY <2>1, <2>2, <2>3
<1>4. SnQuiet
  <2>1. CASE S!CheckLatest
    BY <1>1, <2>1 DEF S!CheckLatest, SnInv, SnTypeRun, Minter, SnQuiet
  <2>2. CASE S!CheckSources
    BY <1>1, <2>2 DEF S!CheckSources, SnInv, SnTypeRun, Minter, SnQuiet
  <2>3. CASE S!CheckIntent
    BY <1>1, <2>3 DEF S!CheckIntent, SnInv, SnTypeRun, Minter, SnQuiet
  <2> QED BY <2>1, <2>2, <2>3
<1> QED
  BY <1>2, <1>3, <1>4, QuietKeeps

LEMMA ReadsKeep ==
    ASSUME SnInv, NEW m \in S!Minters, S!ReadSources(m) \/ S!ReadIntent(m) \/ S!Number(m)
    PROVE  SnInv'
<1>1. UNCHANGED <<live, file, objs, log, good, recov, fresh, used>>
  BY DEF S!ReadSources, S!ReadIntent, S!Number
<1>2. SnTypeDisk'
  BY <1>1 DEF SnInv, SnTypeDisk
<1>3. S!NextSeq \in Nat
  BY NextIsAbove DEF SnInv
<1>4. SnTypeRun'
  <2>1. live.src \in Nat /\ live.intent \in Nat
    BY DEF SnInv, SnTypeDisk
  <2>2. CASE S!ReadSources(m)
    BY <1>1, <2>1, <2>2, MinterTypes DEF S!ReadSources, SnInv, SnTypeRun, Minter
  <2>3. CASE S!ReadIntent(m)
    BY <1>1, <2>1, <2>3, MinterTypes DEF S!ReadIntent, SnInv, SnTypeRun, Minter
  <2>4. CASE S!Number(m)
    BY <1>1, <1>3, <2>4, MinterTypes DEF S!Number, SnInv, SnTypeRun, Minter
  <2> QED BY <2>2, <2>3, <2>4
<1>5. SnQuiet
  BY <1>1 DEF S!ReadSources, S!ReadIntent, S!Number, SnInv, SnTypeRun, Minter, SnQuiet
<1> QED
  BY <1>2, <1>4, <1>5, QuietKeeps

LEMMA FailKeeps ==
    ASSUME SnInv, NEW m \in S!Minters, S!Fail(m)
    PROVE  SnInv'
<1>1. UNCHANGED <<live, file, objs, log, good, recov, fresh>> /\ used' = [used EXCEPT !.faults = @ + 1]
  BY DEF S!Fail, S!Spend
<1>2. minter' = [minter EXCEPT ![m] = S!Down]
        \/ (minter[m].at \notin {"down", "create", "seed"} /\ minter' = [minter EXCEPT ![m].at = "idle"])
  BY DEF S!Fail, S!Goto
<1>3. SnTypeDisk' /\ SnTypeRun'
  <2>1. SnTypeDisk'
    BY <1>1 DEF SnInv, SnTypeDisk
  <2>2. SnTypeRun'
    BY <1>1, <1>2, MinterTypes DEF SnInv, SnTypeRun, Minter
  <2> QED BY <2>1, <2>2
<1>4. SnQuiet
  BY <1>1, <1>2 DEF SnInv, SnTypeRun, Minter, SnQuiet, S!Down
<1> QED
  BY <1>3, <1>4, QuietKeeps

\* A minter that starts takes the key the file holds, which the log covers.
LEMMA LoadKeeps ==
    ASSUME SnInv, NEW m \in S!Minters, S!LoadIdentity(m)
    PROVE  SnInv'
<1>0. /\ minter[m].at = "down" /\ ~fresh /\ UNCHANGED <<live, file, objs, log, good, recov, fresh>>
      /\ used'.keys = used.keys
  BY DEF S!LoadIdentity, S!Spend, SnInv, SnTypeRun, Minter
<1>1. minter' = [minter EXCEPT ![m] =
        IF file.is = "whole"
        THEN [S!Down EXCEPT !.at = IF m = "daemon" THEN "idle" ELSE "sources", !.key = file.key]
        ELSE IF file.is = "none" THEN [S!Down EXCEPT !.at = "create"] ELSE S!Down]
  BY DEF S!LoadIdentity
<1>2. SnTypeDisk'
  BY <1>0 DEF SnInv, SnTypeDisk
<1>3. SnTypeRun'
  <2>2. used' \in [changes : Nat, demands : Nat, faults : Nat, losses : Nat, keys : Nat, mints : Nat]
    BY DEF S!LoadIdentity, S!Spend, SnInv, SnTypeRun, Minter
  <2>3. recov' \in [at : {"idle", "dats", "intent", "log"}, snap : Snapshot]
    BY <1>0 DEF SnInv, SnTypeRun, Minter
  <2>4. file.key \in Nat
    BY DEF SnInv, SnTypeDisk
  <2>5. minter' \in [S!Minters -> Minter]
    BY <1>1, <2>4, MinterTypes DEF SnInv, SnTypeRun, Minter
  <2> QED BY <2>2, <2>3, <2>5 DEF SnTypeRun, Minter
<1>4. /\ \A x \in S!Minters : x # m => minter'[x] = minter[x]
      /\ minter'[m].at # "log"
      /\ minter'[m].at \notin {"down", "create", "seed"} => file.is = "whole" /\ minter'[m].key = file.key
  BY <1>1 DEF SnInv, SnTypeRun, Minter, S!Down
<1>5. LogTop' /\ Stored' /\ S!MintsAscend'
  <2>1. used.keys \in Nat /\ minter'[m].key \in {0, file.key}
    BY <1>1 DEF SnInv, SnTypeRun, Minter, S!Down
  <2> QED BY <1>0, <1>4, <2>1 DEF SnInv, LogTop, Stored, S!MintsAscend
<1>6. Signed'
  BY <1>0, <1>4, SignedStays DEF SnInv, Signed
<1>7. \A k : Covered(k)' = Covered(k)
  BY <1>0 DEF Covered
<1>8. KeysCovered'
  BY <1>0, <1>4, <1>7 DEF SnInv, KeysCovered
<1>9. Recovering'
  BY <1>0 DEF SnInv, Recovering, S!Ours
<1> QED
  BY <1>2, <1>3, <1>5, <1>6, <1>8, <1>9 DEF SnInv

LEMMA CreateKeeps ==
    ASSUME SnInv, NEW m \in S!Minters, S!CreateIdentity(m)
    PROVE  SnInv'
<1>0. minter[m].at = "create" /\ UNCHANGED <<live, objs, log, good, recov, fresh, used>>
  BY DEF S!CreateIdentity
<1>1. /\ minter' = [minter EXCEPT ![m].at = "seed"] \/ minter' = [minter EXCEPT ![m].at = "down"]
      /\ file' = file \/ file' = [file EXCEPT !.is = "torn"]
  BY DEF S!CreateIdentity, S!Goto
<1>2. SnTypeDisk'
  BY <1>0, <1>1 DEF SnInv, SnTypeDisk
<1>3. SnTypeRun'
  BY <1>0, <1>1, MinterTypes DEF SnInv, SnTypeRun, Minter
<1>4. /\ \A x \in S!Minters : x # m => minter'[x] = minter[x]
      /\ minter'[m].at \in {"seed", "down"}
      /\ file'.key = file.key /\ (file'.is = "whole" => file.is = "whole")
      /\ minter'[m].key = minter[m].key
  BY <1>1 DEF SnInv, SnTypeRun, Minter, SnTypeDisk
<1>5. LogTop' /\ Stored' /\ S!MintsAscend'
  BY <1>0, <1>4 DEF SnInv, LogTop, Stored, S!MintsAscend
<1>6. Signed'
  BY <1>0, <1>4, SignedStays DEF SnInv, Signed
<1>7. \A k : Covered(k)' = Covered(k)
  BY <1>0 DEF Covered
<1>8. KeysCovered'
  BY <1>0, <1>4, <1>7 DEF SnInv, KeysCovered
<1>9. Recovering'
  BY <1>0, <1>4 DEF SnInv, Recovering, S!Ours
<1> QED
  BY <1>2, <1>3, <1>5, <1>6, <1>8, <1>9 DEF SnInv

\* A new key has answered nothing.
LEMMA SeedKeeps ==
    ASSUME SnInv, NEW m \in S!Minters, S!SeedIdentity(m)
    PROVE  SnInv'
<1> PICK key : key = used.keys + 1
  OBVIOUS
<1>0. /\ minter[m].at = "seed" /\ UNCHANGED <<live, objs, log, good, recov, fresh>>
      /\ file' = [is |-> "whole", key |-> key] /\ used' = [used EXCEPT !.keys = @ + 1]
      /\ minter' = [minter EXCEPT ![m].at = IF m = "daemon" THEN "idle" ELSE "sources", ![m].key = key]
  BY DEF S!SeedIdentity, S!Spend
<1>1. key \in Nat /\ used.keys \in Nat /\ used'.keys = key
  BY <1>0 DEF SnInv, SnTypeRun, Minter
<1>2. SnTypeDisk'
  BY <1>0, <1>1 DEF SnInv, SnTypeDisk
<1>3. SnTypeRun'
  <2>1. minter' \in [S!Minters -> Minter]
    BY <1>0, <1>1, MinterTypes DEF SnInv, SnTypeRun, Minter
  <2> QED BY <1>0, <2>1 DEF SnInv, SnTypeRun, Minter
<1>4. /\ \A x \in S!Minters : x # m => minter'[x] = minter[x]
      /\ minter'[m].at # "log" /\ minter'[m].at # "down" /\ minter'[m].key = key
  BY <1>0 DEF SnInv, SnTypeRun, Minter
<1>5. LogTop' /\ S!MintsAscend'
  BY <1>0 DEF SnInv, LogTop, S!MintsAscend
<1>6. Stored' /\ \A i \in DOMAIN good : good[i].key # key
  <2>1. \A o \in objs : o.key \in Nat /\ o.key <= used.keys
    BY DEF SnInv, SnTypeDisk, Snapshot, Stored
  <2>2. \A o \in objs : o.key # key /\ o.key <= key
    BY <1>1, <2>1
  <2>3. \A x \in S!Minters : minter[x].key \in Nat /\ minter[x].key <= used.keys
    BY DEF SnInv, SnTypeRun, Minter, Stored
  <2>4. \A x \in S!Minters : minter'[x].key <= key
    BY <1>1, <1>4, <2>3
  <2>5. file'.key = key /\ key <= key
    BY <1>0, <1>1
  <2> QED BY <1>0, <1>1, <2>2, <2>4, <2>5 DEF SnInv, Stored
<1>7. Signed'
  BY <1>0, <1>4, SignedStays DEF SnInv, Signed
<1>8. Covered(key)' /\ \A k : Covered(k)' = Covered(k)
  BY <1>0, <1>6 DEF Covered
<1>9. KeysCovered'
  <2>1. file'.key = key
    BY <1>0
  <2> QED BY <1>0, <1>4, <1>8, <2>1 DEF SnInv, KeysCovered
<1>10. Recovering'
  <2>1. ~fresh
    BY <1>0 DEF SnInv, Recovering
  <2> QED BY <1>0, <2>1 DEF SnInv, Recovering, SnTypeDisk
<1> QED
  BY <1>2, <1>3, <1>5, <1>6, <1>7, <1>9, <1>10 DEF SnInv

LEMMA PutKeeps ==
    ASSUME SnInv, NEW m \in S!Minters, S!PutSnapshot(m)
    PROVE  SnInv'
<1> DEFINE obj == [seq |-> minter[m].seq, src |-> minter[m].src, intent |-> minter[m].intent,
                   key |-> minter[m].key, n |-> used.mints + 1]
<1>0. /\ minter[m].at = "put" /\ UNCHANGED <<live, file, log, good, recov, fresh>>
      /\ objs' = objs \cup {obj} /\ used' = [used EXCEPT !.mints = @ + 1]
      /\ minter' = [minter EXCEPT ![m].at = "log", ![m].obj = obj]
  BY DEF S!PutSnapshot, S!Spend
<1>1. obj \in Snapshot /\ obj.key = minter[m].key /\ obj.seq = minter[m].seq
  BY DEF SnInv, SnTypeRun, Minter, Snapshot
<1>2. used'.keys = used.keys
  BY <1>0 DEF SnInv, SnTypeRun, Minter
<1> HIDE DEF obj
<1>3. SnTypeDisk'
  BY <1>0, <1>1 DEF SnInv, SnTypeDisk
<1>4. SnTypeRun'
  <2>1. minter' \in [S!Minters -> Minter]
    BY <1>0, <1>1, MinterTypes DEF SnInv, SnTypeRun, Minter
  <2> QED BY <1>0, <2>1 DEF SnInv, SnTypeRun, Minter
<1>5. /\ \A x \in S!Minters : x # m => minter'[x] = minter[x]
      /\ minter'[m].at = "log" /\ minter'[m].key = minter[m].key /\ minter'[m].seq = minter[m].seq
      /\ minter'[m].obj = obj
  BY <1>0 DEF SnInv, SnTypeRun, Minter
<1>6. LogTop' /\ S!MintsAscend'
  BY <1>0 DEF SnInv, LogTop, S!MintsAscend
<1>7. Stored'
  BY <1>0, <1>1, <1>2, <1>5 DEF SnInv, Stored
<1>8. Signed'
  <2> SUFFICES ASSUME NEW x \in S!Minters, minter'[x].at = "log"
               PROVE  /\ minter'[x].obj \in objs' /\ minter'[x].obj.key = minter'[x].key
                      /\ minter'[x].obj.seq = minter'[x].seq
    BY DEF Signed
  <2>1. CASE x = m
    BY <1>0, <1>1, <1>5, <2>1
  <2>2. CASE x # m
    BY <1>0, <1>5, <2>2, SignedStays DEF SnInv
  <2> QED BY <2>1, <2>2
<1>9. \A k : Covered(k)' = Covered(k)
  BY <1>0 DEF Covered
<1>10. KeysCovered'
  BY <1>0, <1>5, <1>9 DEF SnInv, KeysCovered
<1>11. Recovering'
  <2>1. ~fresh
    BY <1>0 DEF SnInv, Recovering
  <2> QED BY <1>0, <2>1 DEF SnInv, Recovering, SnTypeDisk
<1> QED
  BY <1>3, <1>4, <1>6, <1>7, <1>8, <1>10, <1>11 DEF SnInv

\* The row is above every logged one; the mint answers only with a number that is,
\* and which therefore no answer of its key has reached.
LEMMA AppendKeeps ==
    ASSUME SnInv, NEW m \in S!Minters, S!AppendLog(m)
    PROVE  SnInv'
<1> DEFINE obj == minter[m].obj
           row == [seq |-> S!NextSeq, obj |-> obj]
<1>0. /\ minter[m].at = "log" /\ UNCHANGED <<live, file, objs, recov, fresh, used>>
      /\ log' = log \cup {row}
      /\ good' = IF S!NextSeq = minter[m].seq THEN Append(good, obj) ELSE good
      /\ minter' = [minter EXCEPT ![m] =
           IF m = "daemon" THEN [S!Down EXCEPT !.at = "idle", !.key = minter[m].key] ELSE S!Down]
  BY DEF S!AppendLog
<1>1. /\ obj \in Snapshot /\ obj \in objs /\ obj.key = minter[m].key /\ obj.seq = minter[m].seq
      /\ minter[m].key \in Nat
  BY <1>0 DEF SnInv, SnTypeRun, Minter, Signed
<1>2. S!NextSeq \in Nat /\ \A other \in log : other.seq < S!NextSeq /\ other.seq \in Nat
  BY NextIsAbove DEF SnInv, SnTypeDisk
<1>3. row \in [seq : Nat, obj : Snapshot] /\ row.seq = S!NextSeq /\ row.obj = obj
  BY <1>1, <1>2
<1> HIDE DEF obj, row
<1>4. good' \in Seq(Snapshot)
  BY <1>0, <1>1 DEF SnInv, SnTypeDisk
<1>5. SnTypeDisk'
  BY <1>0, <1>3, <1>4 DEF SnInv, SnTypeDisk
<1>6. S!Down \in Minter
  BY MinterTypes
<1>7. SnTypeRun'
  <2>1. minter' \in [S!Minters -> Minter]
    BY <1>0, <1>1, <1>6, MinterTypes DEF SnInv, SnTypeRun, Minter
  <2> QED BY <1>0, <2>1 DEF SnInv, SnTypeRun, Minter
<1>8. /\ \A x \in S!Minters : x # m => minter'[x] = minter[x]
      /\ minter'[m].at \in {"idle", "down"} /\ minter'[m].key \in {minter[m].key, 0}
      /\ minter'[m].at = "idle" => minter'[m].key = minter[m].key
  BY <1>0, <1>6 DEF SnInv, SnTypeRun, Minter, S!Down
<1>9. LogTop'
  BY <1>0, <1>2, <1>3 DEF LogTop
<1>12. Stored' /\ S!MintsAscend' /\ \A k : Covered(k) => Covered(k)'
  <2>1. CASE S!NextSeq # minter[m].seq
    <3>1. good' = good
      BY <1>0, <2>1
    <3>2. Stored' /\ S!MintsAscend'
      <4>1. used.keys \in Nat
        BY DEF SnInv, SnTypeRun, Minter
      <4> QED BY <1>0, <1>8, <3>1, <4>1 DEF SnInv, Stored, S!MintsAscend
    <3>3. \A k : Covered(k) => Covered(k)'
      BY <1>0, <3>1 DEF Covered
    <3> QED BY <3>2, <3>3
  <2>2. CASE S!NextSeq = minter[m].seq
    <3>1. /\ good' = Append(good, obj) /\ Len(good) \in Nat /\ DOMAIN good = 1 .. Len(good)
          /\ DOMAIN good' = 1 .. Len(good) + 1 /\ good'[Len(good) + 1] = obj
          /\ \A i \in DOMAIN good : good'[i] = good[i]
      BY <1>0, <1>1, <2>2 DEF SnInv, SnTypeDisk
    <3>2. \A i \in DOMAIN good' : i \in DOMAIN good \/ i = Len(good) + 1
      BY <3>1
    <3>3. Covered(obj.key)
      BY <1>0, <1>1 DEF SnInv, KeysCovered
    <3>4. \A i \in DOMAIN good : good[i].key = obj.key => good[i].seq < obj.seq
      <4>1. \A i \in DOMAIN good : good[i] \in Snapshot
        BY DEF SnInv, SnTypeDisk
      <4>2. \A i \in DOMAIN good : good[i].seq \in Nat
          BY <4>1 DEF Snapshot
        <4> QED BY <1>1, <1>2, <2>2, <3>3, <4>2 DEF Covered
    <3>5. S!MintsAscend'
      BY <3>1, <3>2, <3>4 DEF SnInv, S!MintsAscend
    <3>6. Stored'
      <4>1. used.keys \in Nat
        BY DEF SnInv, SnTypeRun, Minter
      <4>2. \A i \in DOMAIN good' : good'[i] \in objs'
        BY <1>0, <1>1, <3>1, <3>2 DEF SnInv, Stored
      <4> QED BY <1>0, <1>8, <4>1, <4>2 DEF SnInv, Stored
    <3>7. \A k : Covered(k) => Covered(k)'
      <4>1. row \in log' /\ row.seq >= obj.seq
        BY <1>0, <1>1, <1>2, <1>3, <2>2
      <4> QED BY <1>0, <3>1, <3>2, <4>1 DEF Covered
    <3> QED BY <3>5, <3>6, <3>7
  <2> QED BY <2>1, <2>2
<1>13. Signed'
  BY <1>0, <1>8, SignedStays DEF SnInv, Signed
<1>14. KeysCovered'
  BY <1>0, <1>8, <1>12 DEF SnInv, KeysCovered
<1>15. Recovering'
  <2>1. ~fresh
    BY <1>0 DEF SnInv, Recovering
  <2> QED BY <1>0, <2>1 DEF SnInv, Recovering, SnTypeDisk
<1> QED
  BY <1>5, <1>7, <1>9, <1>12, <1>13, <1>14, <1>15 DEF SnInv

\* The databases are lost with everybody stopped, and a recovery is owed.
LEMMA LoseKeeps ==
    ASSUME SnInv, S!Lose
    PROVE  SnInv'
<1>0. /\ minter' = [m \in S!Minters |-> S!Down] /\ log' = {} /\ fresh' = TRUE
      /\ recov.at = "idle" /\ live' = [src |-> 0, intent |-> 0]
      /\ file' \in {file, [is |-> "none", key |-> 0]} /\ UNCHANGED <<objs, good, recov>>
      /\ used' = [used EXCEPT !.losses = @ + 1]
  BY DEF S!Lose, S!Stop, S!Spend
<1>1. SnTypeDisk'
  <2>1. log' \subseteq [seq : Nat, obj : Snapshot] /\ live' \in [src : Nat, intent : Nat]
    BY <1>0
  <2>2. file' \in [is : {"none", "torn", "whole"}, key : Nat]
    BY <1>0 DEF SnInv, SnTypeDisk
  <2>3. fresh' \in BOOLEAN
    BY <1>0
  <2> QED BY <1>0, <2>1, <2>2, <2>3 DEF SnInv, SnTypeDisk
<1>2. SnTypeRun'
  BY <1>0, MinterTypes DEF SnInv, SnTypeRun
<1>3. \A m \in S!Minters : minter'[m].at = "down" /\ minter'[m].key = 0
  BY <1>0 DEF S!Down
<1>4. used.keys \in Nat /\ used'.keys = used.keys
  BY <1>0 DEF SnInv, SnTypeRun
<1>5. LogTop' /\ S!MintsAscend'
  BY <1>0 DEF SnInv, LogTop, S!MintsAscend
<1>6. Stored'
  BY <1>0, <1>3, <1>4 DEF SnInv, Stored
<1>7. Signed' /\ KeysCovered' /\ Recovering'
  BY <1>0, <1>3 DEF SnInv, Signed, KeysCovered, Recovering
<1> QED
  BY <1>1, <1>2, <1>5, <1>6, <1>7 DEF SnInv

LEMMA SelectKeeps ==
    ASSUME SnInv, S!RecoverSelect
    PROVE  SnInv'
<1>0. /\ minter' = [m \in S!Minters |-> S!Down] /\ live' = [live EXCEPT !.src = 0]
      /\ UNCHANGED <<file, objs, log, good>>
      /\ used' = used \/ used' = [used EXCEPT !.losses = @ + 1]
  BY DEF S!RecoverSelect, S!Stop, S!Spend
<1>1. \/ (file.is = "none" \/ S!Ours = {}) /\ fresh' = FALSE /\ recov' = recov /\ recov.at = "idle"
      \/ /\ fresh' = TRUE
         /\ \E snap \in S!Ours : /\ \A other \in S!Ours : other.seq <= snap.seq
                                 /\ recov' = [at |-> "dats", snap |-> snap]
  BY DEF S!RecoverSelect
<1>2. SnTypeDisk'
  <2>1. live' \in [src : Nat, intent : Nat]
    BY <1>0 DEF SnInv, SnTypeDisk
  <2>2. fresh' \in BOOLEAN
    BY <1>1
  <2> QED BY <1>0, <2>1, <2>2 DEF SnInv, SnTypeDisk
<1>3. SnTypeRun'
  <2>1. recov' \in [at : {"idle", "dats", "intent", "log"}, snap : Snapshot]
    BY <1>1 DEF SnInv, SnTypeDisk, SnTypeRun, S!Ours
  <2>2. used' \in [changes : Nat, demands : Nat, faults : Nat, losses : Nat, keys : Nat, mints : Nat]
    BY <1>0 DEF SnInv, SnTypeRun
  <2> QED BY <1>0, <2>1, <2>2, MinterTypes DEF SnTypeRun
<1>4. \A m \in S!Minters : minter'[m].at = "down" /\ minter'[m].key = 0
  BY <1>0 DEF S!Down
<1>5. used.keys \in Nat /\ used'.keys = used.keys
  BY <1>0 DEF SnInv, SnTypeRun
<1>6. LogTop' /\ S!MintsAscend'
  BY <1>0 DEF SnInv, LogTop, S!MintsAscend
<1>7. Stored'
  BY <1>0, <1>4, <1>5 DEF SnInv, Stored
<1>8. Signed'
  BY <1>4 DEF Signed
<1>9. KeysCovered'
  <2>1. S!Ours = {} => Covered(file.key)'
    BY <1>0 DEF SnInv, Stored, Covered, S!Ours
  <2>2. ~fresh' /\ file'.is = "whole" => Covered(file.key)'
    BY <1>0, <1>1, <2>1
  <2> QED BY <1>4, <2>2 DEF KeysCovered
<1>10. Recovering'
  <2>1. S!Ours' = S!Ours
    BY <1>0 DEF S!Ours
  <2> QED BY <1>1, <1>4, <2>1 DEF Recovering
<1> QED
  BY <1>2, <1>3, <1>6, <1>7, <1>8, <1>9, <1>10 DEF SnInv

LEMMA RestoreKeeps ==
    ASSUME SnInv, S!RecoverDats \/ S!RecoverIntent \/ S!RecoverDies
    PROVE  SnInv'
<1>0. /\ recov.at # "idle" /\ UNCHANGED <<file, objs, log, minter, good, fresh>>
      /\ used' = used \/ used' = [used EXCEPT !.faults = @ + 1]
      /\ \E p \in {"idle", "intent", "log"} : recov' = [recov EXCEPT !.at = p]
  BY DEF S!RecoverDats, S!RecoverIntent, S!RecoverDies, S!Spend
<1>1. SnTypeDisk'
  <2>1. recov.snap.src \in Nat /\ recov.snap.intent \in Nat
    BY DEF SnInv, SnTypeRun, Snapshot
  <2>2. live' \in [src : Nat, intent : Nat]
    BY <2>1 DEF S!RecoverDats, S!RecoverIntent, S!RecoverDies, SnInv, SnTypeDisk
  <2> QED BY <1>0, <2>2 DEF SnInv, SnTypeDisk
<1>2. SnTypeRun'
  BY <1>0 DEF SnInv, SnTypeRun
<1>3. used'.keys = used.keys /\ recov'.snap = recov.snap
  BY <1>0 DEF SnInv, SnTypeRun
<1>4. LogTop' /\ Stored' /\ S!MintsAscend' /\ Signed'
  BY <1>0, <1>3 DEF SnInv, LogTop, Stored, S!MintsAscend, Signed
<1>5. KeysCovered'
  BY <1>0 DEF SnInv, KeysCovered, Covered
<1>6. Recovering'
  BY <1>0, <1>3 DEF SnInv, Recovering, S!Ours
<1> QED
  BY <1>1, <1>2, <1>4, <1>5, <1>6 DEF SnInv

\* The seeded row is at least as high as every object of the identity's key.
LEMMA SeedLogKeeps ==
    ASSUME SnInv, S!RecoverLog
    PROVE  SnInv'
<1> DEFINE row == [seq |-> recov.snap.seq, obj |-> recov.snap]
<1>0. /\ recov.at = "log" /\ UNCHANGED <<live, file, objs, minter, good, used>>
      /\ log' = {x \in log : x.seq # recov.snap.seq} \cup {row}
      /\ recov' = [recov EXCEPT !.at = "idle"] /\ fresh' = FALSE
  BY DEF S!RecoverLog
<1>1. row \in [seq : Nat, obj : Snapshot] /\ row.seq = recov.snap.seq /\ recov.snap.seq \in Nat
  BY DEF SnInv, SnTypeRun, Snapshot
<1> HIDE DEF row
<1>2. SnTypeDisk'
  <2>1. fresh' \in BOOLEAN
    BY <1>0
  <2> QED BY <1>0, <1>1, <2>1 DEF SnInv, SnTypeDisk
<1>3. SnTypeRun'
  BY <1>0 DEF SnInv, SnTypeRun
<1>4. LogTop'
  <2>1. \A x \in log : x.seq \in Nat
    BY DEF SnInv, SnTypeDisk
  <2>2. CASE log = {}
    BY <1>0, <1>1, <2>2 DEF LogTop
  <2>3. CASE log # {}
    <3>1. PICK top \in log : \A other \in log : other.seq <= top.seq
      BY <2>3 DEF SnInv, LogTop
    <3>2. CASE top.seq <= recov.snap.seq
      BY <1>0, <1>1, <2>1, <3>1, <3>2 DEF LogTop
    <3>3. CASE ~(top.seq <= recov.snap.seq)
      BY <1>0, <1>1, <2>1, <3>1, <3>3 DEF LogTop
    <3> QED BY <3>2, <3>3
  <2> QED BY <2>2, <2>3
<1>5. \A m \in S!Minters : minter[m].at = "down"
  BY <1>0 DEF SnInv, Recovering
<1>6. Stored' /\ S!MintsAscend' /\ Signed'
  BY <1>0 DEF SnInv, Stored, S!MintsAscend, Signed
<1>7. KeysCovered'
  <2>1. Covered(file.key)'
    BY <1>0, <1>1 DEF SnInv, Stored, Recovering, Covered, S!Ours
  <2> QED BY <1>0, <1>5, <2>1 DEF KeysCovered
<1>8. Recovering'
  <2>1. recov'.at = "idle"
    BY <1>0 DEF SnInv, SnTypeRun
  <2> QED BY <1>0, <2>1 DEF Recovering
<1> QED
  BY <1>2, <1>3, <1>4, <1>6, <1>7, <1>8 DEF SnInv

LEMMA SnStepKeeps ==
    ASSUME SnInv, [S!SnNext]_(S!snapvars)
    PROVE  SnInv'
<1>1. CASE UNCHANGED S!snapvars
  <2>1. SnTypeDisk' /\ SnTypeRun'
    BY <1>1 DEF S!snapvars, SnInv, SnTypeDisk, SnTypeRun
  <2>2. SnQuiet
    BY <1>1 DEF S!snapvars, SnQuiet
  <2> QED BY <2>1, <2>2, QuietKeeps
<1>2. ASSUME NEW m \in S!Minters, S!MintStep(m)
      PROVE  SnInv'
  BY <1>2, CreateKeeps, SeedKeeps, ReadsKeep, PutKeeps, AppendKeeps DEF S!MintStep
<1>3. CASE S!Daemon
  BY <1>2, <1>3, LoadKeeps, ChecksKeep DEF S!Daemon, S!Minters
<1>4. CASE S!LoadIdentity("cli") \/ S!MintStep("cli")
  BY <1>2, <1>4, LoadKeeps DEF S!Minters
<1>5. CASE S!RecoverStep \/ S!RecoverDies
  BY <1>5, RestoreKeeps, SeedLogKeeps DEF S!RecoverStep
<1> QED
  BY <1>1, <1>3, <1>4, <1>5, ChangeKeeps, FailKeeps, LoseKeeps, SelectKeeps DEF S!SnNext

\* MintsAscend: the numbers one identity's mints are answered with ascend, for
\* every number of deaths, concurrent mints, losses of the databases and recoveries
\* (snapshot_log_append and snapshot_log_restore, state.rs; recover, cmds.rs).
THEOREM MintsAlwaysAscend == Spec => []MintsAscend
<1>1. SuiteInit => SnInv
  BY SnInitHolds DEF SuiteInit, SRests
<1>2. SnInv /\ [SuiteNext]_allVars => SnInv'
  <2>1. [SuiteNext]_allVars => [S!SnNext]_(S!snapvars)
    BY DEF SuiteNext, OStep, JStep, AStep, NStep, PStep, FStep, IStep, DStep, SStep, allVars, SVars,
       S!snapvars
  <2> QED BY <2>1, SnStepKeeps
<1>3. SnInv => MintsAscend
  BY DEF SnInv, MintsAscend
<1> QED
  BY <1>1, <1>2, <1>3, PTL DEF Spec

----------------------------------------------------------------------------
(* Accounts and sessions.                                                   *)

InviteRow ==
    {A!NoInvite, [st |-> "deleted"]} \cup [st : {"pending", "used"}, role : A!Role, exp : Nat]

AuthType ==
    /\ clock \in Nat /\ users \in [Names -> A!Role \cup {"none"}]
    /\ invites \in [Invites -> InviteRow]
    /\ \A s \in sessions : s.exp \in Nat
    /\ made \in [Invites -> SUBSET Names]
    /\ reqPc \in [Clients -> {"idle", "accept", "verify", "session"}]
    /\ reqRole \in [Clients -> A!Role \cup {"none"}]
    /\ DOMAIN reqName = Clients /\ DOMAIN reqInvite = Clients

\* An invite has made nothing until it is used, and then one account of its role.
InviteMadeOne ==
    \A i \in Invites :
        /\ invites[i].st # "used" => made[i] = {}
        /\ \A n \in made[i] : made[i] = {n} /\ users[n] = invites[i].role

\* Accounts come from invites alone.
UsersMade == \A n \in Names : users[n] # "none" <=> \E i \in Invites : n \in made[i]

\* A request works on names and invites that exist; once its password was found
\* right, or its account made, there is a row behind its name.
RequestsKnown ==
    \A c \in Clients :
        /\ reqPc[c] # "idle" => reqName[c] \in Names
        /\ reqPc[c] = "accept" => reqInvite[c] \in Invites
        /\ reqPc[c] = "verify" /\ reqRole[c] # "none" => users[reqName[c]] # "none"
        /\ reqPc[c] = "session" => users[reqName[c]] # "none"

\* Sessions and grants are those of users.
HoldersKnown ==
    /\ \A s \in sessions : s.name \in Names /\ users[s.name] # "none"
    /\ \A g \in grants : g[1] \in Names /\ users[g[1]] # "none"

AuthInv == AuthType /\ InviteMadeOne /\ UsersMade /\ RequestsKnown /\ HoldersKnown

LEMMA AuthInitHolds ==
    ASSUME A!AInit
    PROVE  AuthInv
<1>1. AuthType
  BY DEF A!AInit, AuthType, A!Role, InviteRow
<1>2. InviteMadeOne /\ UsersMade /\ RequestsKnown /\ HoldersKnown
  BY DEF A!AInit, InviteMadeOne, UsersMade, RequestsKnown, HoldersKnown, A!NoInvite
<1> QED
  BY <1>1, <1>2 DEF AuthInv

\* The one step that makes an account: a pending invite becomes used with it.
LEMMA AcceptKeeps ==
    ASSUME AuthInv, NEW c \in Clients, A!AcceptInvite(c)
    PROVE  AuthInv'
<1> DEFINE n == reqName[c]  i == reqInvite[c]
<1>0. reqPc[c] = "accept" /\ UNCHANGED <<clock, sessions, grants, reqName, reqInvite, reqRole>>
  BY DEF A!AcceptInvite
<1>1. n \in Names /\ i \in Invites
  BY <1>0 DEF AuthInv, RequestsKnown
<1>2. CASE reqPc' = [reqPc EXCEPT ![c] = "idle"] /\ UNCHANGED <<users, invites, made>>
  BY <1>0, <1>2 DEF AuthInv, AuthType, InviteMadeOne, UsersMade, RequestsKnown, HoldersKnown
<1>3. CASE /\ A!Redeemable(i) /\ users[n] = "none"
           /\ users' = [users EXCEPT ![n] = invites[i].role]
           /\ invites' = [invites EXCEPT ![i].st = "used"]
           /\ made' = [made EXCEPT ![i] = @ \cup {n}]
           /\ reqPc' = [reqPc EXCEPT ![c] = "session"]
  <2>1. invites[i] \in [st : {"pending", "used"}, role : A!Role, exp : Nat] /\ invites[i].st = "pending"
    BY <1>1, <1>3 DEF A!Redeemable, AuthInv, AuthType, InviteRow, A!NoInvite
  <2>2. /\ invites'[i] \in InviteRow /\ invites'[i].st = "used" /\ invites'[i].role = invites[i].role
        /\ \A x \in Invites : x # i => invites'[x] = invites[x]
    BY <1>1, <1>3, <2>1 DEF AuthInv, AuthType, InviteRow
  <2>3. /\ made[i] = {} /\ made'[i] = {n} /\ \A x \in Invites : x # i => made'[x] = made[x]
    BY <1>1, <1>3, <2>1 DEF AuthInv, AuthType, InviteMadeOne
  <2>4. /\ users'[n] = invites[i].role /\ users'[n] # "none" /\ \A x \in Names : x # n => users'[x] = users[x]
    BY <1>1, <1>3, <2>1 DEF AuthInv, AuthType, A!Role
  <2>5. AuthType'
    <3>1. invites' \in [Invites -> InviteRow]
      BY <1>1, <1>3, <2>2 DEF AuthInv, AuthType
    <3>2. users' \in [Names -> A!Role \cup {"none"}] /\ made' \in [Invites -> SUBSET Names]
      BY <1>1, <1>3, <2>1 DEF AuthInv, AuthType
    <3> QED BY <1>0, <1>3, <3>1, <3>2 DEF AuthInv, AuthType
  <2>6. \A x \in Invites : n \notin made[x]
    BY <1>1, <1>3 DEF AuthInv, UsersMade
  <2>7. InviteMadeOne'
    <3>1. ASSUME NEW x \in Invites, x # i
          PROVE  /\ invites'[x].st # "used" => made'[x] = {}
                 /\ \A y \in made'[x] : made'[x] = {y} /\ users'[y] = invites'[x].role
      BY <2>2, <2>3, <2>4, <2>6, <3>1 DEF AuthInv, AuthType, InviteMadeOne
    <3>2. /\ invites'[i].st # "used" => made'[i] = {}
          /\ \A y \in made'[i] : made'[i] = {y} /\ users'[y] = invites'[i].role
      BY <2>2, <2>3, <2>4
    <3> QED BY <3>1, <3>2 DEF InviteMadeOne
  <2>8. UsersMade'
    BY <1>1, <2>3, <2>4 DEF AuthInv, UsersMade
  <2>9. RequestsKnown' /\ HoldersKnown'
    BY <1>0, <1>1, <1>3, <2>4 DEF AuthInv, AuthType, RequestsKnown, HoldersKnown
  <2> QED BY <2>5, <2>7, <2>8, <2>9 DEF AuthInv
<1> QED
  BY <1>2, <1>3 DEF A!AcceptInvite

\* An invite minted or deleted was not used, so it has made nothing.
LEMMA InvitesKeep ==
    ASSUME AuthInv, NEW i \in Invites,
           A!DeleteInvite(i) \/ \E role \in A!Role, days \in 1 .. 2 : A!MintInvite(i, role, days)
    PROVE  AuthInv'
<1>0. UNCHANGED <<clock, users, sessions, grants, reqPc, reqName, reqInvite, reqRole, made>>
  BY DEF A!DeleteInvite, A!MintInvite, A!request
<1>1. PICK row \in InviteRow : row.st # "used" /\ invites' = [invites EXCEPT ![i] = row]
  <2>1. CASE A!DeleteInvite(i)
    BY <2>1 DEF A!DeleteInvite, InviteRow
  <2>2. ASSUME NEW role \in A!Role, NEW days \in 1 .. 2, A!MintInvite(i, role, days)
        PROVE  \E row \in InviteRow : row.st # "used" /\ invites' = [invites EXCEPT ![i] = row]
    <3>1. [st |-> "pending", role |-> role, exp |-> clock + days] \in InviteRow
      BY DEF InviteRow, AuthInv, AuthType
    <3> QED BY <2>2, <3>1 DEF A!MintInvite
  <2> QED BY <2>1, <2>2
<1>2. made[i] = {}
  <2>1. invites[i].st # "used"
    BY DEF A!DeleteInvite, A!MintInvite, A!NoInvite
  <2> QED BY <2>1 DEF AuthInv, InviteMadeOne
<1>3. AuthType'
  BY <1>0, <1>1 DEF AuthInv, AuthType
<1>4. InviteMadeOne'
  BY <1>0, <1>1, <1>2 DEF AuthInv, AuthType, InviteMadeOne
<1>5. UsersMade' /\ RequestsKnown' /\ HoldersKnown'
  BY <1>0 DEF AuthInv, UsersMade, RequestsKnown, HoldersKnown
<1> QED
  BY <1>3, <1>4, <1>5 DEF AuthInv

LEMMA RequestsKeep ==
    ASSUME AuthInv, NEW c \in Clients,
           \/ \E n \in Names : A!LoginRead(c, n) \/ \E i \in Invites : A!AcceptStart(c, n, i)
           \/ A!LoginVerify(c) \/ A!StartSession(c)
    PROVE  AuthInv'
<1>0. UNCHANGED <<clock, users, invites, grants, made>>
  BY DEF A!LoginRead, A!AcceptStart, A!LoginVerify, A!StartSession, A!table
<1>1. InviteMadeOne' /\ UsersMade'
  BY <1>0 DEF AuthInv, InviteMadeOne, UsersMade
<1>2. ASSUME NEW n \in Names, A!LoginRead(c, n)
      PROVE  AuthType' /\ RequestsKnown' /\ HoldersKnown'
  BY <1>0, <1>2 DEF A!LoginRead, A!table, AuthInv, AuthType, RequestsKnown, HoldersKnown
<1>3. ASSUME NEW n \in Names, NEW i \in Invites, A!AcceptStart(c, n, i)
      PROVE  AuthType' /\ RequestsKnown' /\ HoldersKnown'
  BY <1>0, <1>3 DEF A!AcceptStart, A!table, AuthInv, AuthType, RequestsKnown, HoldersKnown
<1>4. CASE A!LoginVerify(c)
  <2>1. AuthType' /\ RequestsKnown' /\ HoldersKnown'
    BY <1>0, <1>4 DEF A!LoginVerify, AuthInv, AuthType, RequestsKnown, HoldersKnown
  <2> QED BY <1>1, <2>1 DEF AuthInv
<1>5. CASE A!StartSession(c)
  <2>1. PICK s : /\ s.name = reqName[c] /\ s.exp = clock + SessionTtl /\ sessions' = sessions \cup {s}
    BY <1>5 DEF A!StartSession
  <2>2. s.exp \in Nat /\ s.name \in Names /\ users[s.name] # "none"
    BY <1>5, <2>1, ServiceAssumption DEF A!StartSession, AuthInv, AuthType, RequestsKnown
  <2>3. AuthType' /\ RequestsKnown'
    BY <1>0, <1>5, <2>1, <2>2 DEF A!StartSession, AuthInv, AuthType, RequestsKnown
  <2>4. HoldersKnown'
    BY <1>0, <2>1, <2>2 DEF AuthInv, HoldersKnown
  <2> QED BY <1>1, <2>3, <2>4 DEF AuthInv
<1> QED
  BY <1>1, <1>2, <1>3, <1>4, <1>5 DEF AuthInv

\* A clock that moves and an operator who revokes or grants.
LEMMA AdminKeeps ==
    ASSUME AuthInv,
           \/ A!Tick
           \/ \E n \in Names : A!RevokeSessions(n) \/ \E v \in Views, on \in BOOLEAN : A!SetGrant(n, v, on)
           \/ \E s \in sessions : A!Logout(s)
    PROVE  AuthInv'
<1>0. UNCHANGED <<users, invites, made, reqPc, reqName, reqInvite, reqRole>>
  BY DEF A!Tick, A!RevokeSessions, A!SetGrant, A!Logout, A!table, A!request
<1>1. clock' \in Nat /\ sessions' \subseteq sessions
  BY DEF A!Tick, A!RevokeSessions, A!SetGrant, A!Logout, A!table, AuthInv, AuthType
<1>2. AuthType' /\ InviteMadeOne' /\ UsersMade' /\ RequestsKnown'
  BY <1>0, <1>1 DEF AuthInv, AuthType, InviteMadeOne, UsersMade, RequestsKnown
<1>3. \A g \in grants' : g \in grants \/ \E n \in Names, v \in Views : g = <<n, v>> /\ users[n] # "none"
  BY DEF A!Tick, A!RevokeSessions, A!SetGrant, A!Logout, A!table
<1>4. HoldersKnown'
  BY <1>0, <1>1, <1>3 DEF AuthInv, HoldersKnown
<1> QED
  BY <1>2, <1>4 DEF AuthInv

LEMMA AuthStepKeeps ==
    ASSUME AuthInv, [A!ANext]_(A!avars)
    PROVE  AuthInv'
<1>1. CASE UNCHANGED A!avars
  BY <1>1 DEF A!avars, AuthInv, AuthType, InviteMadeOne, UsersMade, RequestsKnown, HoldersKnown
<1>2. CASE A!ANext
  BY <1>2, AcceptKeeps, InvitesKeep, RequestsKeep, AdminKeeps DEF A!ANext
<1> QED
  BY <1>1, <1>2

\* The instance's Cardinality is the library's.
LEMMA AuthCardinality ==
    ASSUME NEW T
    PROVE  A!Cardinality(T) = Cardinality(T)
BY DEF A!Cardinality, Cardinality

LEMMA AuthInvSuffices ==
    ASSUME AuthInv
    PROVE  A!OneAccountPerInvite /\ A!NoStrayAuthority
<1>1. A!OneAccountPerInvite
  <2> SUFFICES ASSUME NEW i \in Invites
               PROVE  /\ Cardinality(made[i]) <= 1
                      /\ \A n \in made[i] : invites[i].st = "used" /\ users[n] = invites[i].role
    BY AuthCardinality DEF A!OneAccountPerInvite
  <2>1. CASE made[i] = {}
    BY <2>1, FS_EmptySet
  <2>2. CASE made[i] # {}
    <3>1. PICK n : made[i] = {n} /\ n \in made[i]
      BY <2>2 DEF AuthInv, InviteMadeOne
    <3>2. Cardinality(made[i]) = 1
      BY <3>1, FS_Singleton
    <3> QED BY <2>2, <3>2 DEF AuthInv, InviteMadeOne
  <2> QED BY <2>1, <2>2
<1>2. A!NoStrayAuthority
  BY DEF AuthInv, UsersMade, HoldersKnown, A!NoStrayAuthority, A!MaySee, A!Accepts
<1> QED
  BY <1>1, <1>2

\* AuthoritySound: however requests race, an invite makes one account of its own
\* role, every session and grant belongs to an account an invite made, and the
\* sweep of a login ends no session the gate would still accept (accept_invite,
\* login and session_response, auth.rs).
THEOREM AuthorityIsSound == Spec => AuthoritySound
<1>1. SuiteInit => AuthInv
  BY AuthInitHolds DEF SuiteInit, ARests
<1>2. [SuiteNext]_allVars => [A!ANext]_(A!avars)
  BY DEF SuiteNext, OStep, JStep, AStep, NStep, PStep, FStep, IStep, DStep, SStep, allVars, AVars,
     A!avars
<1>3. AuthInv /\ [A!ANext]_(A!avars) => AuthInv'
  BY AuthStepKeeps
<1>4. AuthInv => (part = "auth" => A!OneAccountPerInvite /\ A!NoStrayAuthority)
  BY AuthInvSuffices
<1>5. AuthInv /\ [A!ANext]_(A!avars) =>
        [\A c \in Clients : A!LoginVerify(c) => \A s \in sessions : A!Accepts(s) => s \in sessions']_(A!avars)
  BY DEF AuthInv, AuthType, A!LoginVerify, A!Accepts, A!Swept
<1> QED
  BY <1>1, <1>2, <1>3, <1>4, <1>5, PTL DEF Spec, AuthoritySound, A!SweepSparesLive

----------------------------------------------------------------------------
(* Staged uploads.                                                          *)

UploadType ==
    /\ disk \in [Files -> {"none", "part", "whole"}]
    /\ upc \in [Files -> {"idle", "writing", "received", "done"}]
    /\ tokens \subseteq Files /\ owned \in [Runs -> SUBSET Files] /\ spent \in [Runs -> SUBSET Files]
    /\ rpc \in [Runs -> {"new", "insert", "push", "baseline", "loop", "refresh", "persist", "over"}]

\* A body that was received is whole, and stays so in the hands of its owner, until
\* the sweep of the staging area or the owner removes it.
OwnedWhole ==
    /\ \A f \in Files : upc[f] = "received" => disk[f] = "whole"
    /\ \A f \in tokens : upc[f] = "done" /\ disk[f] # "part"
    /\ \A r \in Runs : \A f \in owned[r] : upc[f] = "done" /\ disk[f] # "part"

\* A run has files only once it took them, and processes one of its own.
RunOwns ==
    \A r \in Runs :
        /\ spent[r] \subseteq owned[r] /\ (rpc[r] # "loop" => spent[r] = {})
        /\ rpc[r] = "new" => owned[r] = {}

UploadInv ==
    UploadType /\ OwnedWhole /\ RunOwns /\ J!NoShortRom /\ J!SpentOnce /\ J!NoStagingLeak

LEMMA UploadInitHolds ==
    ASSUME J!JInit
    PROVE  UploadInv
BY DEF J!JInit, UploadInv, UploadType, OwnedWhole, RunOwns, J!NoShortRom, J!SpentOnce, J!NoStagingLeak

\* The upload requests and the sweep move one file that no run has, or a file that
\* is done.
LEMMA UploadsKeep ==
    ASSUME UploadInv, NEW f \in Files,
           \/ J!UploadStart(f) \/ J!UploadBody(f) \/ J!UploadStage(f) \/ J!UploadRefuse(f)
           \/ J!UploadDropped(f) \/ J!CleanupTemp(f) \/ J!TakeTwice(f)
    PROVE  UploadInv'
<1>0. UNCHANGED <<rpc, owned, spent, ingested>>
  BY DEF J!UploadStart, J!UploadBody, J!UploadStage, J!UploadRefuse, J!UploadDropped, J!CleanupTemp,
     J!TakeTwice, J!runVars
<1>1. RunOwns' /\ J!NoShortRom'
  BY <1>0 DEF UploadInv, RunOwns, J!NoShortRom
<1> USE DEF UploadInv, UploadType, OwnedWhole, J!SpentOnce, J!NoStagingLeak
<1>2. CASE J!UploadStart(f)
  BY <1>0, <1>1, <1>2 DEF J!UploadStart
<1>3. CASE J!UploadBody(f)
  BY <1>0, <1>1, <1>3 DEF J!UploadBody
<1>4. CASE J!UploadStage(f)
  BY <1>0, <1>1, <1>4 DEF J!UploadStage
<1>5. CASE J!UploadRefuse(f)
  BY <1>0, <1>1, <1>5 DEF J!UploadRefuse
<1>6. CASE J!UploadDropped(f)
  BY <1>0, <1>1, <1>6 DEF J!UploadDropped
<1>7. CASE J!CleanupTemp(f)
  BY <1>0, <1>1, <1>7 DEF J!CleanupTemp
<1>8. CASE J!TakeTwice(f)
  BY <1>0, <1>1, <1>8 DEF J!TakeTwice
<1> QED
  BY <1>2, <1>3, <1>4, <1>5, <1>6, <1>7, <1>8

\* Tokens become a run's files all at once.
LEMMA TakeKeeps ==
    ASSUME UploadInv, NEW r \in Runs, NEW X \in SUBSET Files, J!Take(r, X)
    PROVE  UploadInv'
<1>0. /\ rpc[r] = "new" /\ X \subseteq tokens /\ tokens' = tokens \ X
      /\ UNCHANGED <<disk, upc, ingested, abandoned, spent>>
  BY DEF J!Take
<1>1. /\ owned'[r] = X /\ \A s \in Runs : s # r => owned'[s] = owned[s]
      /\ rpc'[r] = "insert" /\ \A s \in Runs : s # r => rpc'[s] = rpc[s]
      /\ owned[r] = {} /\ spent[r] = {}
  BY <1>0 DEF J!Take, UploadInv, UploadType, RunOwns
<1>2. UploadType'
  BY <1>0 DEF J!Take, UploadInv, UploadType
<1>3. OwnedWhole' /\ RunOwns' /\ J!NoShortRom'
  BY <1>0, <1>1 DEF UploadInv, OwnedWhole, RunOwns, J!NoShortRom
<1>4. J!SpentOnce'
  BY <1>0, <1>1 DEF UploadInv, J!SpentOnce
<1>5. J!NoStagingLeak'
  BY <1>0, <1>1 DEF UploadInv, J!NoStagingLeak
<1> QED
  BY <1>2, <1>3, <1>4, <1>5 DEF UploadInv

\* Files leave a run only with their staged copies removed.
LEMMA RemovalKeeps ==
    ASSUME UploadInv, NEW r \in Runs, NEW gone \in SUBSET owned[r],
           disk' = [f \in Files |-> IF f \in gone THEN "none" ELSE disk[f]],
           owned' = [owned EXCEPT ![r] = @ \ gone],
           spent' \in {spent, [spent EXCEPT ![r] = {}]}, spent'[r] \subseteq owned[r] \ gone,
           rpc' = rpc \/ (rpc' = [rpc EXCEPT ![r] = "persist"] /\ spent'[r] = {}),
           UNCHANGED <<upc, tokens, ingested, abandoned>>
    PROVE  UploadInv'
<1>1. /\ owned'[r] = owned[r] \ gone /\ \A s \in Runs : s # r => owned'[s] = owned[s]
      /\ \A s \in Runs : s # r => spent'[s] = spent[s]
      /\ \A s \in Runs : rpc'[s] = "new" => rpc[s] = "new"
      /\ \A s \in Runs : rpc'[s] # "loop" => rpc[s] # "loop" \/ spent'[s] = {}
  BY DEF UploadInv, UploadType
<1>2. UploadType'
  BY DEF UploadInv, UploadType
<1>3. RunOwns' /\ J!NoShortRom'
  <2>1. spent'[r] = spent[r] \/ spent'[r] = {}
    BY DEF UploadInv, UploadType
  <2> QED BY <1>1, <2>1 DEF UploadInv, RunOwns, J!NoShortRom
<1>4. OwnedWhole'
  BY <1>1 DEF UploadInv, UploadType, OwnedWhole
<1>5. J!SpentOnce'
  BY <1>1 DEF UploadInv, J!SpentOnce
<1>6. J!NoStagingLeak'
  <2> SUFFICES ASSUME NEW f \in Files, upc[f] = "done", disk'[f] # "none"
               PROVE  f \in tokens \cup abandoned \cup UNION {owned'[s] : s \in Runs}
    BY DEF J!NoStagingLeak
  <2>1. f \notin gone /\ disk[f] # "none"
    OBVIOUS
  <2>2. f \in tokens \cup abandoned \/ \E s \in Runs : f \in owned[s]
    BY <2>1 DEF UploadInv, J!NoStagingLeak
  <2> QED BY <1>1, <2>1, <2>2
<1> QED
  BY <1>2, <1>3, <1>4, <1>5, <1>6 DEF UploadInv

LEMMA RunsKeep ==
    ASSUME UploadInv, NEW r \in Runs,
           \/ J!InsertJob(r) \/ J!PushJob(r) \/ J!Baseline(r) \/ J!BaselineFails(r)
           \/ J!ProcessUpload(r) \/ J!FileDone(r) \/ J!Refresh(r) \/ J!Persist(r)
    PROVE  UploadInv'
<1>1. CASE J!InsertJob(r) \/ J!PushJob(r) \/ J!Baseline(r) \/ J!Refresh(r) \/ J!Persist(r)
  <2>1. /\ UNCHANGED <<disk, upc, tokens, ingested, abandoned, owned, spent>>
        /\ \E p \in {"push", "baseline", "loop", "persist", "over"} : rpc' = [rpc EXCEPT ![r] = p]
    BY <1>1 DEF J!InsertJob, J!PushJob, J!Baseline, J!Refresh, J!Persist, J!End, J!uploadVars
  <2>2. UploadType'
    BY <2>1 DEF UploadInv, UploadType
  <2>3. RunOwns'
    <3>1. spent[r] = {}
      BY <1>1 DEF J!InsertJob, J!PushJob, J!Baseline, J!Refresh, J!Persist, UploadInv, RunOwns
    <3> QED BY <2>1, <3>1 DEF UploadInv, UploadType, RunOwns
  <2>4. OwnedWhole' /\ J!NoShortRom' /\ J!SpentOnce' /\ J!NoStagingLeak'
    BY <2>1 DEF UploadInv, OwnedWhole, J!NoShortRom, J!SpentOnce, J!NoStagingLeak
  <2> QED BY <2>2, <2>3, <2>4 DEF UploadInv
<1>2. CASE J!BaselineFails(r)
  <2>1. owned' = [owned EXCEPT ![r] = @ \ owned[r]]
    BY <1>2 DEF J!BaselineFails
  <2>2. spent[r] = {}
    BY <1>2 DEF J!BaselineFails, UploadInv, RunOwns
  <2>3. /\ disk' = [f \in Files |-> IF f \in owned[r] THEN "none" ELSE disk[f]]
        /\ rpc' = [rpc EXCEPT ![r] = "persist"] /\ UNCHANGED <<upc, tokens, ingested, abandoned, spent>>
    BY <1>2 DEF J!BaselineFails, J!End
  <2>4. owned[r] \in SUBSET owned[r] /\ spent'[r] \subseteq owned[r] \ owned[r] /\ spent'[r] = {}
    BY <2>2, <2>3
  <2> QED BY <2>1, <2>3, <2>4, RemovalKeeps
<1>3. CASE J!FileDone(r)
  <2>1. spent'[r] = {} /\ spent[r] \subseteq owned[r]
    BY <1>3 DEF J!FileDone, UploadInv, UploadType, RunOwns
  <2> QED BY <1>3, <2>1, RemovalKeeps DEF J!FileDone
<1>4. CASE J!ProcessUpload(r)
  <2>1. PICK f \in owned[r] : /\ ingested' = ingested \cup {x \in {<<f, disk[f]>>} : disk[f] # "none"}
                              /\ spent' = [spent EXCEPT ![r] = {f}]
    BY <1>4 DEF J!ProcessUpload
  <2>2. UNCHANGED <<disk, upc, tokens, abandoned, owned, rpc>> /\ disk[f] # "part"
    BY <1>4, <2>1 DEF J!ProcessUpload, UploadInv, OwnedWhole
  <2>3. UploadType' /\ RunOwns'
    BY <1>4, <2>1, <2>2 DEF J!ProcessUpload, UploadInv, UploadType, RunOwns
  <2>4. J!NoShortRom'
    BY <2>1, <2>2 DEF UploadInv, J!NoShortRom
  <2>5. OwnedWhole' /\ J!SpentOnce' /\ J!NoStagingLeak'
    BY <2>2 DEF UploadInv, OwnedWhole, J!SpentOnce, J!NoStagingLeak
  <2> QED BY <2>3, <2>4, <2>5 DEF UploadInv
<1> QED
  BY <1>1, <1>2, <1>3, <1>4

LEMMA RestartKeeps ==
    ASSUME UploadInv, J!Restart
    PROVE  UploadInv'
<1>0. /\ UNCHANGED <<disk, ingested>> /\ tokens' = {} /\ abandoned' = {f \in Files : upc[f] # "idle"}
      /\ upc' = [f \in Files |-> IF upc[f] = "idle" THEN "idle" ELSE "done"]
      /\ rpc' = [r \in Runs |-> IF rpc[r] = "new" THEN "new" ELSE "over"]
      /\ owned' = [r \in Runs |-> {}] /\ spent' = [r \in Runs |-> {}]
  BY DEF J!Restart
<1>1. UploadType' /\ OwnedWhole' /\ RunOwns'
  BY <1>0 DEF UploadInv, UploadType, OwnedWhole, RunOwns
<1>2. J!NoShortRom' /\ J!SpentOnce' /\ J!NoStagingLeak'
  BY <1>0 DEF UploadInv, J!NoShortRom, J!SpentOnce, J!NoStagingLeak
<1> QED
  BY <1>1, <1>2 DEF UploadInv

LEMMA UploadStepKeeps ==
    ASSUME UploadInv, [J!JNext]_(J!jvars)
    PROVE  UploadInv'
<1>1. CASE UNCHANGED J!jvars
  BY <1>1 DEF J!jvars, J!uploadVars, J!runVars, UploadInv, UploadType, OwnedWhole, RunOwns, J!NoShortRom,
     J!SpentOnce, J!NoStagingLeak
<1>2. CASE J!JNext
  BY <1>2, UploadsKeep, TakeKeeps, RunsKeep, RestartKeeps DEF J!JNext
<1> QED
  BY <1>1, <1>2

\* NoShortRom, SpentOnce and NoStagingLeak: whatever aborts, restarts or is swept,
\* the pipeline is given no part of an upload, a staged file has one owner, its token
\* or one job, and a file without an owner was left by a request or a process that
\* died (ingest.rs: the upload handler, take, run_job).
THEOREM UploadsAreSpentOnce ==
    Spec => [](part = "jobs" => J!NoShortRom /\ J!SpentOnce /\ J!NoStagingLeak)
<1>1. SuiteInit => UploadInv
  BY UploadInitHolds DEF SuiteInit, JRests
<1>2. UploadInv /\ [SuiteNext]_allVars => UploadInv'
  <2>1. [SuiteNext]_allVars => [J!JNext]_(J!jvars)
    BY DEF SuiteNext, OStep, JStep, AStep, NStep, PStep, FStep, IStep, DStep, SStep, allVars, JVars,
       J!jvars, J!uploadVars, J!runVars
  <2> QED BY <2>1, UploadStepKeeps
<1>3. UploadInv => (part = "jobs" => J!NoShortRom /\ J!SpentOnce /\ J!NoStagingLeak)
  BY DEF UploadInv
<1> QED
  BY <1>1, <1>2, <1>3, PTL DEF Spec

----------------------------------------------------------------------------
(* The job registry and its ledger.                                         *)

JobRow == [id : Nat, name : Runs, st : J!LedgerState, detail : SUBSET Files]
JobEntry == [id : Nat, name : Runs, st : J!JobRunState, report : SUBSET Files]

\* The steps of a run between its ledger row's insertion and its closing.
Open == {"push", "baseline", "loop", "persist"}

JobType ==
    /\ ledger \in Seq(JobRow) /\ jobs \in Seq(JobEntry)
    /\ rid \in [Runs -> Nat] /\ outcome \in [Runs -> {"none", "done", "failed", "died"}]
    /\ rpc \in [Runs -> {"new", "insert", "over"} \cup Open]

\* A run's id is its own and above all earlier ones: the ledger's newest row, which
\* no pruning takes, has the highest.
IdsOwn ==
    /\ \A r, s \in Runs : rid[r] = rid[s] /\ rid[r] # 0 => r = s
    /\ \A r \in Runs : rpc[r] \in {"new", "insert"} => rid[r] = 0
    /\ \A r \in Runs : rid[r] # 0 => ledger # <<>> /\ rid[r] <= ledger[Len(ledger)].id

\* How a run ended is known once it has ended.
OutcomeKnown ==
    \A r \in Runs :
        /\ rpc[r] \in {"new", "insert", "push", "baseline", "loop"} => outcome[r] = "none"
        /\ rpc[r] = "persist" => outcome[r] \in {"done", "failed"}

\* The ledger ascends, one row per run under the run's id; a row is open exactly
\* while its run is at work, and a closed one tells how the run ended.
RowTrue(row) ==
    /\ row.id = rid[row.name] /\ row.id # 0 /\ rpc[row.name] \notin {"new", "insert"}
    /\ row.st = "running" <=> rpc[row.name] \in Open
    /\ row.st \in {"done", "failed"} => outcome[row.name] = row.st
    /\ row.st = "interrupted" <=> outcome[row.name] = "died"
LedgerTrue ==
    /\ \A i, k \in DOMAIN ledger : i < k => ledger[i].id < ledger[k].id
    /\ \A i \in DOMAIN ledger : RowTrue(ledger[i])
    /\ \A r \in Runs : rpc[r] \in Open => \E i \in DOMAIN ledger : ledger[i].name = r

\* The tray has one entry per run under the run's id, and it runs as long as the
\* run's thread does.
EntryTrue(entry) ==
    /\ entry.id = rid[entry.name] /\ entry.id # 0 /\ rpc[entry.name] \notin {"new", "insert", "push"}
    /\ entry.st = "running" <=> rpc[entry.name] \in {"baseline", "loop"}
TrayTrue ==
    /\ \A i, k \in DOMAIN jobs : jobs[i].name = jobs[k].name => i = k
    /\ \A i \in DOMAIN jobs : EntryTrue(jobs[i])
    /\ \A r \in Runs : rpc[r] \in {"baseline", "loop"} => \E i \in DOMAIN jobs : jobs[i].name = r

JobInv == ~unrecorded => JobType /\ IdsOwn /\ OutcomeKnown /\ LedgerTrue /\ TrayTrue

LEMMA JobsCardinality ==
    ASSUME NEW T
    PROVE  J!Cardinality(T) = Cardinality(T)
BY DEF J!Cardinality, Cardinality

\* The places of X in order, each once, are what u takes of s.
Lists(u, s, X) ==
    \E f \in [1 .. Cardinality(X) -> X] :
        /\ \A i, k \in 1 .. Cardinality(X) : i < k => f[i] < f[k]
        /\ \A i \in X : \E k \in 1 .. Cardinality(X) : f[k] = i
        /\ \A k \in 1 .. Cardinality(X) : u[k] = s[f[k]]

LEMMA RetainFacts ==
    ASSUME NEW T, NEW s, NEW n \in Nat, NEW X \in SUBSET (1 .. n), \A i \in X : s[i] \in T
    PROVE  /\ Cardinality(X) \in Nat
           /\ J!Retain(s, X) \in Seq(T) /\ Len(J!Retain(s, X)) = Cardinality(X)
           /\ Lists(J!Retain(s, X), s, X)
<1> DEFINE Below(i) == {k \in X : k <= i}
           rank == [i \in X |-> Cardinality(Below(i))]
           size == Cardinality(X)
<1>0. \A i \in X : i \in Nat
  OBVIOUS
<1>1. IsFiniteSet(X) /\ size \in Nat
  <2>1. IsFiniteSet(1 .. n)
    BY FS_Interval
  <2>2. IsFiniteSet(X)
    BY <2>1, FS_Subset
  <2> QED BY <2>2, FS_CardinalityType
<1>2. \A i \in X : IsFiniteSet(Below(i)) /\ Cardinality(Below(i)) \in 1 .. size
  <2> SUFFICES ASSUME NEW i \in X
               PROVE  IsFiniteSet(Below(i)) /\ Cardinality(Below(i)) \in 1 .. size
    OBVIOUS
  <2>1. Below(i) \in SUBSET X /\ i \in Below(i)
    OBVIOUS
  <2>2. IsFiniteSet(Below(i)) /\ Cardinality(Below(i)) <= size
    BY <1>1, <2>1, FS_Subset
  <2>3. Cardinality(Below(i)) \in Nat /\ Cardinality(Below(i)) # 0
    BY <2>1, <2>2, FS_CardinalityType, FS_EmptySet
  <2> QED BY <1>1, <2>2, <2>3
<1>3. \A i, k \in X : i < k => rank[i] < rank[k]
  <2> SUFFICES ASSUME NEW i \in X, NEW k \in X, i < k
               PROVE  Cardinality(Below(i)) < Cardinality(Below(k))
    OBVIOUS
  <2>0. \A j \in Below(i) : j \in Below(k)
    <3> TAKE j \in Below(i)
    <3>1. j \in Nat /\ i \in Nat /\ k \in Nat /\ j <= i
      BY <1>0
    <3>2. j <= k
      BY <3>1
    <3> QED BY <3>2
  <2>1. Below(i) \in SUBSET Below(k) /\ k \in Below(k) /\ k \notin Below(i)
    <3>1. Below(i) \in SUBSET Below(k)
      BY <2>0, Zenon
    <3>2. i \in Nat /\ k \in Nat
      BY <1>0
    <3> QED BY <3>1, <3>2
  <2>2. Cardinality(Below(i)) <= Cardinality(Below(k)) /\ Cardinality(Below(i)) # Cardinality(Below(k))
    BY <1>2, <2>1, FS_Subset
  <2> QED BY <1>2, <2>2
<1>4. rank \in [X -> 1 .. size]
  BY <1>2
<1>5. rank \in Injection(X, 1 .. size)
  <2>1. \A i, k \in X : rank[i] = rank[k] => i = k
    BY <1>3, <1>4
  <2> HIDE DEF rank
  <2> QED BY <1>4, <2>1 DEF Injection, IsInjective
<1>6. IsFiniteSet(1 .. size) /\ Cardinality(1 .. size) = size
  BY <1>1, FS_Interval
<1>7. rank \in Surjection(X, 1 .. size)
  <2> HIDE DEF rank
  <2> QED BY <1>5, <1>6, FS_Injection
<1>8. \A m \in 1 .. size : \E i \in X : rank[i] = m
  <2> HIDE DEF rank
  <2> QED BY <1>7 DEF Surjection
<1> DEFINE f == [m \in 1 .. size |-> CHOOSE i \in X : rank[i] = m]
<1>9. \A m \in 1 .. size : f[m] \in X /\ rank[f[m]] = m
  BY <1>8
<1>10. f \in [1 .. size -> X]
  BY <1>9
<1>11. \A i \in X : rank[i] \in 1 .. size /\ f[rank[i]] = i
  <2> SUFFICES ASSUME NEW i \in X
               PROVE  rank[i] \in 1 .. size /\ f[rank[i]] = i
    OBVIOUS
  <2> HIDE DEF rank, f
  <2>1. rank[i] \in 1 .. size
    BY <1>4
  <2>2. f[rank[i]] \in X /\ rank[f[rank[i]]] = rank[i]
    BY <1>9, <2>1
  <2>3. i \in Nat /\ f[rank[i]] \in Nat /\ rank[i] \in Nat
    <3>1. i \in Nat /\ f[rank[i]] \in Nat
      BY <1>0, <2>2
    <3> QED BY <1>1, <2>1, <3>1
  <2>4. ~(f[rank[i]] < i) /\ ~(i < f[rank[i]])
    BY <1>3, <2>2, <2>3
  <2> QED BY <2>1, <2>3, <2>4
<1>12. \A i, k \in 1 .. size : i < k => f[i] < f[k]
  <2> SUFFICES ASSUME NEW i \in 1 .. size, NEW k \in 1 .. size, i < k
               PROVE  f[i] < f[k]
    OBVIOUS
  <2> HIDE DEF rank, f
  <2>1. f[i] \in X /\ f[k] \in X /\ rank[f[i]] = i /\ rank[f[k]] = k
    BY <1>9
  <2>2. f[i] \in Nat /\ f[k] \in Nat /\ i \in Nat /\ k \in Nat
    <3>1. f[i] \in Nat /\ f[k] \in Nat
      BY <1>0, <2>1
    <3> QED BY <1>1, <3>1
  <2>3. f[i] # f[k]
    BY <2>1, <2>2
  <2>4. ~(f[k] < f[i])
    <3>1. f[k] < f[i] => k < i
      BY <1>3, <2>1
    <3> QED BY <2>2, <3>1
  <2> QED BY <2>2, <2>3, <2>4
<1>13. DOMAIN J!Retain(s, X) = 1 .. size /\ \A k \in 1 .. size : J!Retain(s, X)[k] = s[f[k]]
  <2>1. \A i \in X : rank[i] = J!Cardinality({k \in X : k <= i})
    BY JobsCardinality
  <2>2. \A m \in 1 .. size : f[m] = CHOOSE i \in X : J!Cardinality({k \in X : k <= i}) = m
    BY <2>1
  <2>3. J!Cardinality(X) = size
    BY JobsCardinality
  <2> HIDE DEF f, rank, size
  <2>4. J!Retain(s, X) = [m \in 1 .. size |-> s[CHOOSE i \in X : J!Cardinality({k \in X : k <= i}) = m]]
    BY <2>3 DEF J!Retain
  <2> QED BY <2>2, <2>4
<1>14. J!Retain(s, X) \in Seq(T) /\ Len(J!Retain(s, X)) = size
  <2> HIDE DEF f, rank
  <2>1. \A k \in 1 .. size : J!Retain(s, X)[k] \in T
    BY <1>9, <1>13
  <2>2. J!Retain(s, X) \in [1 .. size -> T]
    <3>1. J!Retain(s, X) = [k \in 1 .. size |-> J!Retain(s, X)[k]]
      BY <1>13 DEF J!Retain
    <3> QED BY <2>1, <3>1
  <2> QED BY <1>1, <2>2
<1> HIDE DEF rank, f
<1> QED
  BY <1>1, <1>4, <1>10, <1>11, <1>12, <1>13, <1>14 DEF Lists

\* What is pruned from the tray has ended; the rest keeps its order.
LEMMA PruneFacts ==
    ASSUME NEW js \in Seq(JobEntry)
    PROVE  /\ J!Prune(js) \in Seq(JobEntry)
           /\ \A i \in DOMAIN J!Prune(js) : \E k \in DOMAIN js : J!Prune(js)[i] = js[k]
           /\ \A k \in DOMAIN js : js[k].st = "running" => \E i \in DOMAIN J!Prune(js) : J!Prune(js)[i] = js[k]
           /\ (\A i, k \in DOMAIN js : js[i].name = js[k].name => i = k)
                => \A i, k \in DOMAIN J!Prune(js) : J!Prune(js)[i].name = J!Prune(js)[k].name => i = k
<1> DEFINE ended == {i \in DOMAIN js : js[i].st # "running"}
           X == {i \in DOMAIN js : i \in ended => Cardinality({k \in ended : k >= i}) <= KeepFinished}
           R == J!Retain(js, X)
<1>1. J!Prune(js) = R
  BY JobsCardinality DEF J!Prune
<1>2. Len(js) \in Nat /\ X \in SUBSET (1 .. Len(js)) /\ DOMAIN js = 1 .. Len(js)
  OBVIOUS
<1>3. \A k \in DOMAIN js : js[k].st = "running" => k \in X
  OBVIOUS
<1> HIDE DEF X
<1>4. /\ Cardinality(X) \in Nat /\ R \in Seq(JobEntry) /\ Len(R) = Cardinality(X)
      /\ Lists(R, js, X)
  <2>1. \A i \in X : js[i] \in JobEntry
    BY <1>2
  <2> QED BY <1>2, <2>1, RetainFacts
<1> HIDE DEF R
<1>5. PICK f \in [1 .. Cardinality(X) -> X] :
           /\ \A i, k \in 1 .. Cardinality(X) : i < k => f[i] < f[k]
           /\ \A i \in X : \E k \in 1 .. Cardinality(X) : f[k] = i
           /\ \A k \in 1 .. Cardinality(X) : R[k] = js[f[k]]
  BY <1>4 DEF Lists
<1>6. \A k \in 1 .. Cardinality(X) : f[k] \in DOMAIN js /\ js[f[k]] \in JobEntry /\ R[k] = js[f[k]]
  <2> TAKE k \in 1 .. Cardinality(X)
  <2>1. f[k] \in X
    BY <1>5
  <2>2. f[k] \in DOMAIN js
    BY <1>2, <2>1
  <2> QED BY <1>5, <2>2
<1>7. R \in Seq(JobEntry) /\ DOMAIN R = 1 .. Cardinality(X)
  BY <1>4
<1>8. \A i, k \in 1 .. Cardinality(X) : f[i] = f[k] => i = k
  BY <1>4, <1>5, <1>6
<1> QED
  BY <1>1, <1>2, <1>3, <1>5, <1>6, <1>7, <1>8

\* What is pruned from an ascending ledger is closed and is not its newest row; the
\* rest keeps its order.
LEMMA PruneLedgerFacts ==
    ASSUME NEW rows \in Seq(JobRow),
           \A i, k \in DOMAIN rows : i < k => rows[i].id < rows[k].id
    PROVE  /\ J!PruneLedger(rows) \in Seq(JobRow)
           /\ \A i, k \in DOMAIN J!PruneLedger(rows) :
                i < k => J!PruneLedger(rows)[i].id < J!PruneLedger(rows)[k].id
           /\ \A i \in DOMAIN J!PruneLedger(rows) : \E k \in DOMAIN rows : J!PruneLedger(rows)[i] = rows[k]
           /\ \A k \in DOMAIN rows : rows[k].st = "running" =>
                \E i \in DOMAIN J!PruneLedger(rows) : J!PruneLedger(rows)[i] = rows[k]
           /\ rows # <<>> => /\ J!PruneLedger(rows) # <<>>
                             /\ J!PruneLedger(rows)[Len(J!PruneLedger(rows))] = rows[Len(rows)]
<1> DEFINE Newer(i) == {k \in DOMAIN rows : rows[k].st # "running" /\ rows[k].id >= rows[i].id}
           X == {i \in DOMAIN rows : rows[i].st = "running" \/ Cardinality(Newer(i)) <= LedgerKeep}
           R == J!Retain(rows, X)
<1>1. J!PruneLedger(rows) = R
  BY JobsCardinality DEF J!PruneLedger
<1>2. Len(rows) \in Nat /\ X \in SUBSET (1 .. Len(rows)) /\ DOMAIN rows = 1 .. Len(rows)
  OBVIOUS
<1>3. \A k \in DOMAIN rows : rows[k].st = "running" => k \in X
  OBVIOUS
<1>4. rows # <<>> => Len(rows) \in X
  <2> SUFFICES ASSUME rows # <<>>, rows[Len(rows)].st # "running"
               PROVE  Cardinality(Newer(Len(rows))) <= LedgerKeep
    BY <1>2
  <2>0. Len(rows) \in DOMAIN rows
    BY <1>2
  <2>1. \A k \in DOMAIN rows : k # Len(rows) => rows[k].id < rows[Len(rows)].id
    <3> TAKE k \in DOMAIN rows
    <3>1. k # Len(rows) => k < Len(rows)
      BY <1>2
    <3> QED BY <2>0, <3>1
  <2>2. \A k \in DOMAIN rows : rows[k].id \in Nat
    <3> TAKE k \in DOMAIN rows
    <3>1. rows[k] \in JobRow
      OBVIOUS
    <3> QED BY <3>1 DEF JobRow
  <2>3. Newer(Len(rows)) = {Len(rows)}
    <3>1. \A k \in DOMAIN rows : rows[k].id >= rows[Len(rows)].id <=> k = Len(rows)
      <4> TAKE k \in DOMAIN rows
      <4>1. rows[k].id \in Nat /\ rows[Len(rows)].id \in Nat
        BY <2>0, <2>2
      <4>2. CASE k = Len(rows)
        BY <4>1, <4>2
      <4>3. CASE k # Len(rows)
        BY <2>1, <4>1, <4>3
      <4> QED BY <4>2, <4>3
    <3>2. \A k : k \in Newer(Len(rows)) <=> k = Len(rows)
      BY <2>0, <3>1
    <3> QED BY <3>2, Zenon
  <2>4. Cardinality(Newer(Len(rows))) = 1
    BY <2>3, FS_Singleton
  <2> QED BY <2>4, ServiceAssumption
<1> HIDE DEF X
<1>5. /\ Cardinality(X) \in Nat /\ R \in Seq(JobRow) /\ Len(R) = Cardinality(X)
      /\ Lists(R, rows, X)
  <2>1. \A i \in X : rows[i] \in JobRow
    BY <1>2
  <2> QED BY <1>2, <2>1, RetainFacts
<1> HIDE DEF R
<1>6. PICK f \in [1 .. Cardinality(X) -> X] :
           /\ \A i, k \in 1 .. Cardinality(X) : i < k => f[i] < f[k]
           /\ \A i \in X : \E k \in 1 .. Cardinality(X) : f[k] = i
           /\ \A k \in 1 .. Cardinality(X) : R[k] = rows[f[k]]
  BY <1>5 DEF Lists
<1>7. \A k \in 1 .. Cardinality(X) : f[k] \in DOMAIN rows /\ rows[f[k]] \in JobRow /\ R[k] = rows[f[k]]
  <2> TAKE k \in 1 .. Cardinality(X)
  <2>1. f[k] \in X
    BY <1>6
  <2>2. f[k] \in DOMAIN rows
    BY <1>2, <2>1
  <2> QED BY <1>6, <2>2
<1>8. R \in Seq(JobRow) /\ DOMAIN R = 1 .. Cardinality(X) /\ Len(R) = Cardinality(X)
  BY <1>5
<1>9. rows # <<>> => R # <<>> /\ R[Len(R)] = rows[Len(rows)]
  <2> SUFFICES ASSUME rows # <<>>
               PROVE  R # <<>> /\ R[Len(R)] = rows[Len(rows)]
    OBVIOUS
  <2>1. PICK k \in 1 .. Cardinality(X) : f[k] = Len(rows)
    BY <1>4, <1>6
  <2>2. k = Cardinality(X)
    <3>1. f[Cardinality(X)] \in 1 .. Len(rows)
      BY <1>2, <1>5, <1>7, <2>1
    <3> QED BY <1>2, <1>5, <1>6, <2>1, <3>1
  <2> QED BY <1>5, <1>7, <1>8, <2>1, <2>2
<1>10. \A i, k \in DOMAIN R : i < k => R[i].id < R[k].id
  BY <1>6, <1>7, <1>8
<1>11. \A k \in DOMAIN rows : rows[k].st = "running" => \E i \in DOMAIN R : R[i] = rows[k]
  <2> SUFFICES ASSUME NEW k \in DOMAIN rows, k \in X
               PROVE  \E i \in DOMAIN R : R[i] = rows[k]
    BY <1>3
  <2>1. PICK m \in 1 .. Cardinality(X) : f[m] = k
    BY <1>6
  <2> QED BY <1>7, <1>8, <2>1
<1> QED
  BY <1>1, <1>7, <1>8, <1>9, <1>10, <1>11

LEMMA JobInitHolds ==
    ASSUME J!JInit
    PROVE  JobInv
BY DEF J!JInit, JobInv, JobType, IdsOwn, OutcomeKnown, LedgerTrue, TrayTrue, Open

\* The rows and entries, one by one.
LEMMA RowTypes ==
    ASSUME JobType
    PROVE  /\ \A i \in DOMAIN ledger : /\ ledger[i] \in JobRow /\ ledger[i].id \in Nat /\ ledger[i].name \in Runs
                                       /\ ledger[i].st \in J!LedgerState /\ ledger[i].detail \in SUBSET Files
           /\ \A i \in DOMAIN jobs : /\ jobs[i] \in JobEntry /\ jobs[i].id \in Nat /\ jobs[i].name \in Runs
                                     /\ jobs[i].st \in J!JobRunState /\ jobs[i].report \in SUBSET Files
<1>1. (\A i \in DOMAIN ledger : ledger[i] \in JobRow) /\ \A i \in DOMAIN jobs : jobs[i] \in JobEntry
  BY DEF JobType
<1> QED
  BY <1>1 DEF JobRow, JobEntry

\* What a request, the sweep or a file's processing leaves alone stays true.
LEMMA JobQuietKeeps ==
    ASSUME JobInv, UNCHANGED <<ledger, jobs, rid, outcome, rpc, unrecorded>>
    PROVE  JobInv'
BY DEF JobInv, JobType, IdsOwn, OutcomeKnown, LedgerTrue, RowTrue, TrayTrue, EntryTrue

\* A run that has no row yet, or whose row and entry show it at work, moves on.
LEMMA JobMoveKeeps ==
    ASSUME JobInv, UNCHANGED <<ledger, jobs, rid, outcome, unrecorded>>, NEW r \in Runs,
           \/ rpc[r] = "new" /\ rpc' = [rpc EXCEPT ![r] = "insert"]
           \/ rpc[r] = "baseline" /\ rpc' = [rpc EXCEPT ![r] = "loop"]
    PROVE  JobInv'
<1> SUFFICES ASSUME ~unrecorded
             PROVE  JobInv'
  BY DEF JobInv
<1>1. JobType /\ IdsOwn /\ OutcomeKnown /\ LedgerTrue /\ TrayTrue
  BY DEF JobInv
<1>2. JobType'
  BY <1>1 DEF JobType, Open
<1>3. \A s \in Runs : s # r => rpc'[s] = rpc[s]
  BY <1>1 DEF JobType
<1>4. \/ rpc[r] = "new" /\ rpc'[r] = "insert"
      \/ rpc[r] = "baseline" /\ rpc'[r] = "loop"
  BY <1>1 DEF JobType
<1>5. IdsOwn'
  BY <1>1, <1>3, <1>4 DEF IdsOwn
<1>6. OutcomeKnown'
  BY <1>1, <1>3, <1>4 DEF OutcomeKnown
<1>7. LedgerTrue'
  BY <1>1, <1>3, <1>4, RowTypes DEF LedgerTrue, RowTrue, Open
<1>8. TrayTrue'
  BY <1>1, <1>3, <1>4, RowTypes DEF TrayTrue, EntryTrue
<1> QED
  BY <1>2, <1>5, <1>6, <1>7, <1>8 DEF JobInv

LEMMA InsertKeeps ==
    ASSUME JobInv, NEW r \in Runs, J!InsertJob(r)
    PROVE  JobInv'
<1> SUFFICES ASSUME ~unrecorded'
             PROVE  JobInv'
  BY DEF JobInv
<1> DEFINE n == IF ledger = <<>> THEN 1 ELSE ledger[Len(ledger)].id + 1
           row == [id |-> n, name |-> r, st |-> "running", detail |-> {}]
<1>1. /\ ~unrecorded /\ rpc[r] = "insert" /\ rpc' = [rpc EXCEPT ![r] = "push"]
      /\ ledger' = Append(ledger, row) /\ rid' = [rid EXCEPT ![r] = n]
      /\ UNCHANGED <<jobs, outcome>>
  BY DEF J!InsertJob, J!Last
<1>2. JobType /\ IdsOwn /\ OutcomeKnown /\ LedgerTrue /\ TrayTrue
  BY <1>1 DEF JobInv
<1>3. Len(ledger) \in Nat /\ DOMAIN ledger = 1 .. Len(ledger)
  BY <1>2 DEF JobType
<1>4. /\ n \in Nat /\ n # 0 /\ \A s \in Runs : rid[s] \in Nat /\ rid[s] < n
      /\ \A i \in DOMAIN ledger : ledger[i].id < n
  <2>1. CASE ledger = <<>>
    BY <1>2, <2>1 DEF JobType, IdsOwn
  <2>2. CASE ledger # <<>>
    <3>1. Len(ledger) \in DOMAIN ledger /\ ledger[Len(ledger)].id \in Nat
      <4>1. Len(ledger) # 0
        BY <1>2, <2>2 DEF JobType
      <4>2. Len(ledger) \in DOMAIN ledger
        BY <1>3, <4>1
      <4> QED BY <1>2, <4>2, RowTypes
    <3>2. \A s \in Runs : rid[s] \in Nat /\ rid[s] <= ledger[Len(ledger)].id
      BY <1>2, <3>1 DEF JobType, IdsOwn
    <3>3. \A i \in DOMAIN ledger : ledger[i].id <= ledger[Len(ledger)].id
      <4> TAKE i \in DOMAIN ledger
      <4>1. i = Len(ledger) \/ i < Len(ledger)
        BY <1>3
      <4> QED BY <1>2, <3>1, <4>1, RowTypes DEF LedgerTrue
    <3>4. \A i \in DOMAIN ledger : ledger[i].id \in Nat
      BY <1>2, RowTypes
    <3> QED BY <2>2, <3>1, <3>2, <3>3, <3>4
  <2> QED BY <2>1, <2>2
<1> HIDE DEF n
<1>5. row \in JobRow
  BY <1>4 DEF JobRow, J!LedgerState
<1>6. /\ ledger' \in Seq(JobRow) /\ Len(ledger') = Len(ledger) + 1 /\ DOMAIN ledger' = 1 .. Len(ledger) + 1
      /\ ledger'[Len(ledger) + 1] = row /\ \A i \in DOMAIN ledger : ledger'[i] = ledger[i]
  <2> HIDE DEF row
  <2> QED BY <1>1, <1>2, <1>3, <1>5 DEF JobType
<1>7. \A i \in DOMAIN ledger' : i \in DOMAIN ledger \/ i = Len(ledger) + 1
  BY <1>3, <1>6
<1>8. /\ rid'[r] = n /\ rpc'[r] = "push"
      /\ \A s \in Runs : s # r => rid'[s] = rid[s] /\ rpc'[s] = rpc[s]
  BY <1>1, <1>2 DEF JobType
<1>9. JobType'
  BY <1>1, <1>2, <1>4, <1>6 DEF JobType, Open
<1>10. IdsOwn'
  <2>1. \A a, b \in Runs : rid'[a] = rid'[b] /\ rid'[a] # 0 => a = b
    BY <1>2, <1>4, <1>8 DEF IdsOwn
  <2>2. \A s \in Runs : rpc'[s] \in {"new", "insert"} => rid'[s] = 0
    BY <1>2, <1>8 DEF IdsOwn
  <2>3. \A s \in Runs : rid'[s] <= n
    BY <1>4, <1>8
  <2>4. ledger' # <<>> /\ ledger'[Len(ledger')].id = n
    BY <1>3, <1>6
  <2> QED BY <2>1, <2>2, <2>3, <2>4 DEF IdsOwn
<1>11. OutcomeKnown'
  BY <1>1, <1>2, <1>8 DEF OutcomeKnown
<1>12. \A i \in DOMAIN ledger : ledger[i].name # r /\ ledger[i].name \in Runs
  BY <1>1, <1>2, RowTypes DEF LedgerTrue, RowTrue
<1>13. LedgerTrue'
  <2>1. \A i, k \in DOMAIN ledger' : i < k => ledger'[i].id < ledger'[k].id
    <3> SUFFICES ASSUME NEW i \in DOMAIN ledger', NEW k \in DOMAIN ledger', i < k
                 PROVE  ledger'[i].id < ledger'[k].id
      OBVIOUS
    <3>1. i \in DOMAIN ledger
      BY <1>3, <1>6
    <3>2. CASE k \in DOMAIN ledger
      BY <1>2, <1>6, <3>1, <3>2 DEF LedgerTrue
    <3>3. CASE k = Len(ledger) + 1
      BY <1>4, <1>6, <3>1, <3>3
    <3> QED BY <1>7, <3>2, <3>3
  <2>2. \A i \in DOMAIN ledger : RowTrue(ledger[i])'
    BY <1>1, <1>2, <1>6, <1>8, <1>12 DEF LedgerTrue, RowTrue
  <2>3. outcome'[r] = "none"
    BY <1>1, <1>2 DEF OutcomeKnown
  <2>4. \A i \in DOMAIN ledger' : RowTrue(ledger[i])'
    <3> TAKE i \in DOMAIN ledger'
    <3>1. CASE i \in DOMAIN ledger
      BY <2>2, <3>1
    <3>2. CASE i = Len(ledger) + 1
      <4>1. ledger'[i].id = n /\ ledger'[i].name = r /\ ledger'[i].st = "running"
        BY <1>6, <3>2
      <4> QED BY <1>4, <1>8, <2>3, <4>1 DEF RowTrue, Open
    <3> QED BY <1>7, <3>1, <3>2
  <2>5. \A s \in Runs : rpc'[s] \in Open => \E i \in DOMAIN ledger' : ledger'[i].name = s
    <3> SUFFICES ASSUME NEW s \in Runs, rpc'[s] \in Open
                 PROVE  \E i \in DOMAIN ledger' : ledger'[i].name = s
      OBVIOUS
    <3>1. CASE s = r
      BY <1>3, <1>6, <3>1
    <3>2. CASE s # r
      <4>1. PICK i \in DOMAIN ledger : ledger[i].name = s
        BY <1>2, <1>8, <3>2 DEF LedgerTrue
      <4>2. i \in DOMAIN ledger' /\ ledger'[i].name = s
        BY <1>3, <1>6, <4>1
      <4> QED BY <4>2
    <3> QED BY <3>1, <3>2
  <2> QED BY <2>1, <2>4, <2>5 DEF LedgerTrue
<1>14. TrayTrue'
  <2>1. \A i \in DOMAIN jobs : jobs[i].name # r /\ jobs[i].name \in Runs
    BY <1>1, <1>2, RowTypes DEF TrayTrue, EntryTrue
  <2> QED BY <1>1, <1>2, <1>8, <2>1 DEF TrayTrue, EntryTrue
<1> QED
  BY <1>9, <1>10, <1>11, <1>13, <1>14 DEF JobInv

LEMMA PushKeeps ==
    ASSUME JobInv, NEW r \in Runs, J!PushJob(r)
    PROVE  JobInv'
<1> SUFFICES ASSUME ~unrecorded
             PROVE  JobInv'
  BY DEF JobInv, J!PushJob
<1> DEFINE entry == [id |-> rid[r], name |-> r, st |-> "running", report |-> {}]
<1>1. JobType /\ IdsOwn /\ OutcomeKnown /\ LedgerTrue /\ TrayTrue
  BY DEF JobInv
<1>2. rpc[r] = "push" /\ rpc' = [rpc EXCEPT ![r] = "baseline"] /\ UNCHANGED <<ledger, outcome, unrecorded>>
  BY DEF J!PushJob
<1>3. rid[r] \in Nat /\ rid[r] # 0
  <2>1. PICK i \in DOMAIN ledger : ledger[i].name = r
    BY <1>1, <1>2 DEF LedgerTrue, Open
  <2> QED BY <1>1, <2>1 DEF LedgerTrue, RowTrue, JobType
<1>4. jobs' = Append(jobs, entry) /\ rid' = [rid EXCEPT ![r] = rid[r]]
  BY <1>3 DEF J!PushJob
<1>5. rid' = rid
  BY <1>1, <1>4 DEF JobType
<1>6. entry \in JobEntry
  BY <1>3 DEF JobEntry, J!JobRunState
<1>7. Len(jobs) \in Nat /\ DOMAIN jobs = 1 .. Len(jobs)
  BY <1>1 DEF JobType
<1>8. /\ jobs' \in Seq(JobEntry) /\ DOMAIN jobs' = 1 .. Len(jobs) + 1
      /\ jobs'[Len(jobs) + 1] = entry /\ \A i \in DOMAIN jobs : jobs'[i] = jobs[i]
  <2> HIDE DEF entry
  <2> QED BY <1>1, <1>4, <1>6, <1>7 DEF JobType
<1>9. \A i \in DOMAIN jobs' : i \in DOMAIN jobs \/ i = Len(jobs) + 1
  BY <1>7, <1>8
<1>10. rpc'[r] = "baseline" /\ \A s \in Runs : s # r => rpc'[s] = rpc[s]
  BY <1>1, <1>2 DEF JobType
<1>11. JobType'
  BY <1>1, <1>2, <1>5, <1>8 DEF JobType, Open
<1>12. IdsOwn' /\ OutcomeKnown'
  BY <1>1, <1>2, <1>5, <1>10 DEF IdsOwn, OutcomeKnown
<1>13. LedgerTrue'
  BY <1>1, <1>2, <1>5, <1>10, RowTypes DEF LedgerTrue, RowTrue, Open
<1>14. \A i \in DOMAIN jobs : jobs[i].name # r /\ jobs[i].name \in Runs
  BY <1>1, <1>2, RowTypes DEF TrayTrue, EntryTrue
<1>15. TrayTrue'
  <2>1. \A i, k \in DOMAIN jobs' : jobs'[i].name = jobs'[k].name => i = k
    <3> SUFFICES ASSUME NEW i \in DOMAIN jobs', NEW k \in DOMAIN jobs', jobs'[i].name = jobs'[k].name
                 PROVE  i = k
      OBVIOUS
    <3>1. CASE i \in DOMAIN jobs /\ k \in DOMAIN jobs
      BY <1>1, <1>8, <3>1 DEF TrayTrue
    <3>2. CASE i = Len(jobs) + 1 \/ k = Len(jobs) + 1
      BY <1>8, <1>9, <1>14, <3>2
    <3> QED BY <1>9, <3>1, <3>2
  <2>2. \A i \in DOMAIN jobs : EntryTrue(jobs[i])'
    BY <1>1, <1>5, <1>8, <1>10, <1>14 DEF TrayTrue, EntryTrue
  <2>3. EntryTrue(entry)'
    BY <1>3, <1>5, <1>10 DEF EntryTrue
  <2>4. \A i \in DOMAIN jobs' : EntryTrue(jobs[i])'
    <3> TAKE i \in DOMAIN jobs'
    <3>1. CASE i \in DOMAIN jobs
      BY <2>2, <3>1
    <3>2. CASE i = Len(jobs) + 1
      BY <1>5, <1>8, <2>3, <3>2 DEF EntryTrue
    <3> QED BY <1>9, <3>1, <3>2
  <2>5. \A s \in Runs : rpc'[s] \in {"baseline", "loop"} => \E i \in DOMAIN jobs' : jobs'[i].name = s
    <3> SUFFICES ASSUME NEW s \in Runs, rpc'[s] \in {"baseline", "loop"}
                 PROVE  \E i \in DOMAIN jobs' : jobs'[i].name = s
      OBVIOUS
    <3>1. CASE s = r
      BY <1>7, <1>8, <3>1
    <3>2. CASE s # r
      <4>1. PICK i \in DOMAIN jobs : jobs[i].name = s
        BY <1>1, <1>10, <3>2 DEF TrayTrue
      <4>2. i \in DOMAIN jobs' /\ jobs'[i].name = s
        BY <1>7, <1>8, <4>1
      <4> QED BY <4>2
    <3> QED BY <3>1, <3>2
  <2> QED BY <2>1, <2>4, <2>5 DEF TrayTrue
<1> QED
  BY <1>11, <1>12, <1>13, <1>15 DEF JobInv

\* with_job finds a run's entry by its id, and no other.
LEMMA IndexFacts ==
    ASSUME JobType, IdsOwn, TrayTrue, NEW k \in DOMAIN jobs
    PROVE  J!Index(jobs[k].id) = k
<1> DEFINE at == {i \in 1 .. Len(jobs) : jobs[i].id = jobs[k].id}
<1>1. DOMAIN jobs = 1 .. Len(jobs)
  BY DEF JobType
<1>2. \A i \in DOMAIN jobs : jobs[i].id = jobs[k].id => i = k
  BY RowTypes DEF IdsOwn, TrayTrue, EntryTrue
<1>3. at = {k}
  BY <1>1, <1>2
<1>4. J!Min(at) = k
  BY <1>1, <1>3 DEF J!Min
<1> QED
  BY <1>3, <1>4 DEF J!Index, J!SelectInSeq

\* The entry of a run at work.
LEMMA EntryOf ==
    ASSUME JobType, IdsOwn, TrayTrue, NEW r \in Runs, rpc[r] \in {"baseline", "loop"}
    PROVE  \E k \in DOMAIN jobs : /\ jobs[k].name = r /\ J!Index(rid[r]) = k /\ J!JobOf(r) = jobs[k]
                                  /\ jobs[k].st = "running"
<1>1. PICK k \in DOMAIN jobs : jobs[k].name = r
  BY DEF TrayTrue
<1>2. jobs[k].id = rid[r] /\ jobs[k].st = "running"
  BY <1>1 DEF TrayTrue, EntryTrue
<1> QED
  BY <1>1, <1>2, IndexFacts DEF J!JobOf

LEMMA FileDoneKeeps ==
    ASSUME UploadInv, JobInv, NEW r \in Runs, J!FileDone(r)
    PROVE  JobInv'
<1> SUFFICES ASSUME ~unrecorded
             PROVE  JobInv'
  BY DEF JobInv, J!FileDone
<1>1. JobType /\ IdsOwn /\ OutcomeKnown /\ LedgerTrue /\ TrayTrue
  BY DEF JobInv
<1>2. rpc[r] = "loop" /\ spent[r] \in SUBSET Files
  BY DEF J!FileDone, UploadInv, UploadType, RunOwns
<1>3. PICK k \in DOMAIN jobs : jobs[k].name = r /\ J!Index(rid[r]) = k /\ J!JobOf(r) = jobs[k]
  BY <1>1, <1>2, EntryOf
<1> DEFINE entry == [jobs[k] EXCEPT !.report = @ \cup spent[r]]
<1>4. jobs' = [jobs EXCEPT ![k] = entry] /\ UNCHANGED <<ledger, rid, outcome, rpc, unrecorded>>
  BY <1>1, <1>3 DEF J!FileDone, J!WithJob, JobType
<1>5. entry \in JobEntry /\ entry.id = jobs[k].id /\ entry.name = jobs[k].name /\ entry.st = jobs[k].st
  <2>1. jobs[k] \in JobEntry
    BY <1>1, RowTypes
  <2> QED BY <1>2, <2>1 DEF JobEntry
<1> HIDE DEF entry
<1>6. jobs' \in Seq(JobEntry) /\ DOMAIN jobs' = DOMAIN jobs
  BY <1>1, <1>4, <1>5 DEF JobType
<1>7. \A i \in DOMAIN jobs : jobs'[i].id = jobs[i].id /\ jobs'[i].name = jobs[i].name /\ jobs'[i].st = jobs[i].st
  BY <1>4, <1>5
<1>8. JobType' /\ IdsOwn' /\ OutcomeKnown' /\ LedgerTrue'
  BY <1>1, <1>4, <1>6 DEF JobType, IdsOwn, OutcomeKnown, LedgerTrue, RowTrue
<1>9. TrayTrue'
  BY <1>1, <1>4, <1>6, <1>7 DEF TrayTrue, EntryTrue
<1> QED
  BY <1>8, <1>9 DEF JobInv

\* A job ends: its entry no longer runs, and history is pruned around the others.
LEMMA JobEndKeeps ==
    ASSUME JobInv, NEW r \in Runs, rpc[r] \in {"baseline", "loop"}, NEW st \in {"done", "failed"},
           J!End(r, st), UNCHANGED <<ledger, rid, unrecorded>>
    PROVE  JobInv'
<1> SUFFICES ASSUME ~unrecorded
             PROVE  JobInv'
  BY DEF JobInv
<1>1. JobType /\ IdsOwn /\ OutcomeKnown /\ LedgerTrue /\ TrayTrue
  BY DEF JobInv
<1>2. PICK k \in DOMAIN jobs : jobs[k].name = r /\ J!Index(rid[r]) = k /\ J!JobOf(r) = jobs[k]
  BY <1>1, EntryOf
<1> DEFINE entry == [jobs[k] EXCEPT !.st = st]
           js == [jobs EXCEPT ![k] = entry]
<1>3. /\ jobs' = J!Prune(js) /\ rpc' = [rpc EXCEPT ![r] = "persist"]
      /\ outcome' = [outcome EXCEPT ![r] = st]
  BY <1>1, <1>2 DEF J!End, J!WithJob, JobType
<1>4. entry \in JobEntry /\ entry.id = jobs[k].id /\ entry.name = jobs[k].name /\ entry.st = st
  <2>1. jobs[k] \in JobEntry
    BY <1>1, RowTypes
  <2> QED BY <2>1 DEF JobEntry, J!JobRunState
<1> HIDE DEF entry
<1>5. js \in Seq(JobEntry) /\ DOMAIN js = DOMAIN jobs
  BY <1>1, <1>4 DEF JobType
<1>6. js[k] = entry /\ \A i \in DOMAIN jobs : i # k => js[i] = jobs[i]
  BY <1>1 DEF JobType
<1> HIDE DEF js
<1>7. /\ rpc'[r] = "persist" /\ outcome'[r] = st
      /\ \A s \in Runs : s # r => rpc'[s] = rpc[s] /\ outcome'[s] = outcome[s]
  BY <1>1, <1>3 DEF JobType
<1>8. \A i \in DOMAIN js : i # k => js[i].name # r /\ js[i].name \in Runs
  BY <1>1, <1>2, <1>5, <1>6, RowTypes DEF TrayTrue
<1>9. \A i \in DOMAIN js : /\ js[i].id = rid[js[i].name] /\ js[i].id # 0
                           /\ rpc'[js[i].name] \notin {"new", "insert", "push"}
                           /\ js[i].st = "running" <=> rpc'[js[i].name] \in {"baseline", "loop"}
  <2> TAKE i \in DOMAIN js
  <2>1. CASE i = k
    BY <1>1, <1>2, <1>4, <1>6, <1>7, <2>1 DEF TrayTrue, EntryTrue
  <2>2. CASE i # k
    BY <1>1, <1>5, <1>6, <1>7, <1>8, <2>2 DEF TrayTrue, EntryTrue
  <2> QED BY <2>1, <2>2
<1>10. \A i, m \in DOMAIN js : js[i].name = js[m].name => i = m
  BY <1>1, <1>2, <1>4, <1>5, <1>6 DEF TrayTrue
<1>11. /\ jobs' \in Seq(JobEntry)
       /\ \A i \in DOMAIN jobs' : \E m \in DOMAIN js : jobs'[i] = js[m]
       /\ \A m \in DOMAIN js : js[m].st = "running" => \E i \in DOMAIN jobs' : jobs'[i] = js[m]
       /\ \A i, m \in DOMAIN jobs' : jobs'[i].name = jobs'[m].name => i = m
  BY <1>3, <1>5, <1>10, PruneFacts
<1>12. JobType'
  BY <1>1, <1>3, <1>11 DEF JobType, Open
<1>13. IdsOwn'
  BY <1>1, <1>7 DEF IdsOwn
<1>14. OutcomeKnown'
  BY <1>1, <1>7 DEF OutcomeKnown
<1>15. LedgerTrue'
  <2>1. outcome[r] = "none"
    BY <1>1 DEF OutcomeKnown
  <2>2. \A i \in DOMAIN ledger : RowTrue(ledger[i])'
    <3> TAKE i \in DOMAIN ledger
    <3>1. RowTrue(ledger[i]) /\ ledger[i].name \in Runs
      BY <1>1, RowTypes DEF LedgerTrue
    <3>2. CASE ledger[i].name = r
      BY <1>7, <2>1, <3>1, <3>2 DEF RowTrue, Open
    <3>3. CASE ledger[i].name # r
      BY <1>7, <3>1, <3>3 DEF RowTrue
    <3> QED BY <3>2, <3>3
  <2>3. \A s \in Runs : rpc'[s] \in Open => rpc[s] \in Open
    BY <1>7 DEF Open
  <2> QED BY <1>1, <2>2, <2>3 DEF LedgerTrue
<1>16. TrayTrue'
  <2>1. \A i \in DOMAIN jobs' : EntryTrue(jobs[i])'
    BY <1>9, <1>11 DEF EntryTrue
  <2>2. \A s \in Runs : rpc'[s] \in {"baseline", "loop"} => \E i \in DOMAIN jobs' : jobs'[i].name = s
    <3> SUFFICES ASSUME NEW s \in Runs, rpc'[s] \in {"baseline", "loop"}
                 PROVE  \E i \in DOMAIN jobs' : jobs'[i].name = s
      OBVIOUS
    <3>1. s # r /\ rpc[s] \in {"baseline", "loop"}
      BY <1>7
    <3>2. PICK m \in DOMAIN jobs : jobs[m].name = s
      BY <1>1, <3>1 DEF TrayTrue
    <3>3. m # k /\ js[m].name = s /\ m \in DOMAIN js
      BY <1>2, <1>5, <1>6, <3>1, <3>2
    <3>4. js[m].st = "running"
      BY <1>9, <3>3
    <3>5. PICK i \in DOMAIN jobs' : jobs'[i] = js[m]
      BY <1>11, <3>3, <3>4
    <3> QED BY <3>3, <3>5
  <2> QED BY <1>11, <2>1, <2>2 DEF TrayTrue
<1> QED
  BY <1>12, <1>13, <1>14, <1>15, <1>16 DEF JobInv

\* The row of the run is closed with how it ended, then old closed rows are pruned;
\* the newest row stays, so the next id is again above all.
LEMMA PersistKeeps ==
    ASSUME JobInv, NEW r \in Runs, J!Persist(r)
    PROVE  JobInv'
<1> SUFFICES ASSUME ~unrecorded'
             PROVE  JobInv'
  BY DEF JobInv
<1> DEFINE detail == J!Detail(rid[r])
           rows == J!Finalize(rid[r], outcome[r], detail)
<1>1. /\ ~unrecorded /\ rpc[r] = "persist" /\ rpc' = [rpc EXCEPT ![r] = "over"]
      /\ ledger' = J!PruneLedger(rows) /\ UNCHANGED <<jobs, rid, outcome>>
  BY DEF J!Persist
<1>2. JobType /\ IdsOwn /\ OutcomeKnown /\ LedgerTrue /\ TrayTrue
  BY <1>1 DEF JobInv
<1>3. outcome[r] \in {"done", "failed"}
  BY <1>1, <1>2 DEF OutcomeKnown
<1>4. detail \in SUBSET Files
  <2>1. CASE \E k \in DOMAIN jobs : jobs[k].id = rid[r]
    <3>1. PICK k \in DOMAIN jobs : jobs[k].id = rid[r]
      BY <2>1
    <3>2. J!Index(rid[r]) = k /\ k # 0
      BY <1>2, <3>1, IndexFacts DEF JobType
    <3> QED BY <1>2, <3>1, <3>2, RowTypes DEF J!Detail
  <2>2. CASE ~\E k \in DOMAIN jobs : jobs[k].id = rid[r]
    <3>1. J!Index(rid[r]) = 0
      BY <1>2, <2>2 DEF J!Index, J!SelectInSeq, JobType
    <3>2. \A i \in DOMAIN ledger : ledger[i].detail \in SUBSET Files
      BY <1>2, RowTypes
    <3> QED BY <3>1, <3>2 DEF J!Detail
  <2> QED BY <2>1, <2>2
<1> HIDE DEF detail
<1>5. rows \in Seq(JobRow) /\ DOMAIN rows = DOMAIN ledger /\ Len(rows) = Len(ledger)
  <2>1. \A i \in DOMAIN ledger : rows[i] \in JobRow
    <3> TAKE i \in DOMAIN ledger
    <3>1. ledger[i] \in JobRow
      BY <1>2, RowTypes
    <3> QED BY <1>3, <1>4, <3>1 DEF J!Finalize, JobRow, J!LedgerState
  <2>2. ledger \in Seq(JobRow) /\ Len(ledger) \in Nat /\ DOMAIN ledger = 1 .. Len(ledger)
    BY <1>2 DEF JobType
  <2>3. rows \in [1 .. Len(ledger) -> JobRow]
    BY <2>1, <2>2 DEF J!Finalize
  <2> QED BY <2>2, <2>3
<1>6. \A i \in DOMAIN ledger : /\ rows[i].id = ledger[i].id /\ rows[i].name = ledger[i].name
                               /\ rows[i].st = IF ledger[i].name = r THEN outcome[r] ELSE ledger[i].st
  <2> TAKE i \in DOMAIN ledger
  <2>1. ledger[i] \in JobRow /\ ledger[i].name \in Runs /\ RowTrue(ledger[i])
    BY <1>2, RowTypes DEF LedgerTrue
  <2>2. ledger[i].name = r => ledger[i].id = rid[r] /\ ledger[i].st = "running"
    BY <1>1, <2>1 DEF RowTrue, Open
  <2>3. ledger[i].name # r => ledger[i].id # rid[r]
    BY <1>2, <2>1 DEF RowTrue, IdsOwn
  <2>4. rows[i] = IF ledger[i].id = rid[r] /\ ledger[i].st = "running"
                  THEN [ledger[i] EXCEPT !.st = outcome[r], !.detail = detail] ELSE ledger[i]
    BY DEF J!Finalize
  <2> QED BY <2>1, <2>2, <2>3, <2>4 DEF JobRow
<1> HIDE DEF rows
<1>7. \A i, k \in DOMAIN rows : i < k => rows[i].id < rows[k].id
  BY <1>2, <1>5, <1>6 DEF LedgerTrue
<1>8. /\ ledger' \in Seq(JobRow)
      /\ \A i, k \in DOMAIN ledger' : i < k => ledger'[i].id < ledger'[k].id
      /\ \A i \in DOMAIN ledger' : \E k \in DOMAIN rows : ledger'[i] = rows[k]
      /\ \A k \in DOMAIN rows : rows[k].st = "running" => \E i \in DOMAIN ledger' : ledger'[i] = rows[k]
      /\ rows # <<>> => ledger' # <<>> /\ ledger'[Len(ledger')] = rows[Len(rows)]
  BY <1>1, <1>5, <1>7, PruneLedgerFacts
<1>9. rpc'[r] = "over" /\ \A s \in Runs : s # r => rpc'[s] = rpc[s]
  BY <1>1, <1>2 DEF JobType
<1>10. JobType'
  BY <1>1, <1>2, <1>8 DEF JobType
<1>11. IdsOwn'
  <2>1. \A s \in Runs : rid[s] # 0 => ledger' # <<>> /\ rid[s] <= ledger'[Len(ledger')].id
    <3> SUFFICES ASSUME NEW s \in Runs, rid[s] # 0
                 PROVE  ledger' # <<>> /\ rid[s] <= ledger'[Len(ledger')].id
      OBVIOUS
    <3>1. ledger # <<>> /\ rid[s] <= ledger[Len(ledger)].id
      BY <1>2 DEF IdsOwn
    <3>2. Len(ledger) \in DOMAIN ledger /\ rows # <<>>
      BY <1>2, <1>5, <3>1 DEF JobType
    <3>3. rows[Len(rows)].id = ledger[Len(ledger)].id
      BY <1>5, <1>6, <3>2
    <3> QED BY <1>8, <3>1, <3>2, <3>3
  <2> QED BY <1>1, <1>2, <1>9, <2>1 DEF IdsOwn
<1>12. OutcomeKnown'
  BY <1>1, <1>2, <1>9 DEF OutcomeKnown
<1>13. LedgerTrue'
  <2>1. \A i \in DOMAIN ledger' : RowTrue(ledger[i])'
    <3> TAKE i \in DOMAIN ledger'
    <3>1. PICK k \in DOMAIN ledger : ledger'[i] = rows[k]
      BY <1>5, <1>8
    <3>2. RowTrue(ledger[k]) /\ ledger[k].name \in Runs
      BY <1>2, RowTypes DEF LedgerTrue
    <3>3. CASE ledger[k].name = r
      BY <1>1, <1>3, <1>6, <1>9, <3>1, <3>2, <3>3 DEF RowTrue, Open
    <3>4. CASE ledger[k].name # r
      BY <1>1, <1>6, <1>9, <3>1, <3>2, <3>4 DEF RowTrue
    <3> QED BY <3>3, <3>4
  <2>2. \A s \in Runs : rpc'[s] \in Open => \E i \in DOMAIN ledger' : ledger'[i].name = s
    <3> SUFFICES ASSUME NEW s \in Runs, rpc'[s] \in Open
                 PROVE  \E i \in DOMAIN ledger' : ledger'[i].name = s
      OBVIOUS
    <3>1. s # r /\ rpc[s] \in Open
      BY <1>9 DEF Open
    <3>2. PICK k \in DOMAIN ledger : ledger[k].name = s
      BY <1>2, <3>1 DEF LedgerTrue
    <3>3. rows[k].st = "running" /\ rows[k].name = s /\ k \in DOMAIN rows
      BY <1>2, <1>5, <1>6, <3>1, <3>2 DEF LedgerTrue, RowTrue
    <3> QED BY <1>8, <3>3
  <2> QED BY <1>8, <2>1, <2>2 DEF LedgerTrue
<1>14. TrayTrue'
  BY <1>1, <1>2, <1>9, RowTypes DEF TrayTrue, EntryTrue
<1> QED
  BY <1>10, <1>11, <1>12, <1>13, <1>14 DEF JobInv

\* The restart closes every open row as interrupted, and the tray is filled from
\* closed rows only.
LEMMA JobRestartKeeps ==
    ASSUME JobInv, J!Restart
    PROVE  JobInv'
<1> SUFFICES ASSUME ~unrecorded
             PROVE  JobInv'
  BY DEF JobInv, J!Restart
<1> DEFINE rows == J!Interrupt
<1>1. JobType /\ IdsOwn /\ OutcomeKnown /\ LedgerTrue /\ TrayTrue
  BY DEF JobInv
<1>2. /\ ledger' = rows /\ UNCHANGED <<rid, unrecorded>>
      /\ jobs' = [i \in DOMAIN J!Recent(rows) |-> J!Hydrate(J!Recent(rows)[i])]
      /\ rpc' = [r \in Runs |-> IF rpc[r] = "new" THEN "new" ELSE "over"]
      /\ outcome' = [r \in Runs |-> IF rpc[r] \in {"new", "over"} THEN outcome[r] ELSE "died"]
  BY DEF J!Restart
<1>3. ledger \in Seq(JobRow) /\ Len(ledger) \in Nat /\ DOMAIN ledger = 1 .. Len(ledger)
  BY <1>1 DEF JobType
<1>4. \A i \in DOMAIN ledger :
        /\ rows[i] \in JobRow /\ rows[i].id = ledger[i].id /\ rows[i].name = ledger[i].name
        /\ rows[i].st = IF ledger[i].st = "running" THEN "interrupted" ELSE ledger[i].st
  <2> TAKE i \in DOMAIN ledger
  <2>1. ledger[i] \in JobRow
    BY <1>1, RowTypes
  <2> QED BY <2>1 DEF J!Interrupt, JobRow, J!LedgerState
<1>5. rows \in Seq(JobRow) /\ DOMAIN rows = DOMAIN ledger /\ Len(rows) = Len(ledger)
  <2>1. rows \in [1 .. Len(ledger) -> JobRow]
    BY <1>3, <1>4 DEF J!Interrupt
  <2> QED BY <1>3, <2>1
<1> HIDE DEF rows
<1> DEFINE first == IF Len(rows) > KeepFinished THEN Len(rows) - KeepFinished + 1 ELSE 1
           recent == J!Recent(rows)
<1>6. first \in Nat /\ first >= 1 /\ first <= Len(rows) + 1
  BY <1>3, <1>5, ServiceAssumption
<1>7. /\ DOMAIN recent = 1 .. Len(rows) - first + 1
      /\ \A i \in DOMAIN recent : first + i - 1 \in DOMAIN rows /\ recent[i] = rows[first + i - 1]
  <2> HIDE DEF first
  <2>1. recent = SubSeq(rows, first, Len(rows))
    BY DEF first, J!Recent
  <2> QED BY <1>3, <1>5, <1>6, <2>1
<1>8. Len(rows) - first + 1 \in Nat
  BY <1>3, <1>5, <1>6
<1> HIDE DEF recent, first
<1>9. \A i \in DOMAIN recent :
        /\ jobs'[i] \in JobEntry /\ jobs'[i].id = recent[i].id /\ jobs'[i].name = recent[i].name
        /\ jobs'[i].st \in {"done", "failed"}
  <2> TAKE i \in DOMAIN recent
  <2>1. recent[i] \in JobRow
    BY <1>5, <1>7
  <2>2. jobs'[i] = J!Hydrate(recent[i])
    BY <1>2 DEF recent
  <2> QED BY <2>1, <2>2 DEF J!Hydrate, JobRow, JobEntry, J!JobRunState
<1>10. DOMAIN jobs' = DOMAIN recent /\ jobs' \in Seq(JobEntry)
  <2>1. DOMAIN jobs' = DOMAIN recent
    BY <1>2 DEF recent
  <2>2. jobs' \in [1 .. Len(rows) - first + 1 -> JobEntry]
    <3>1. jobs' = [i \in 1 .. Len(rows) - first + 1 |-> jobs'[i]]
      BY <1>2, <1>7 DEF recent
    <3> QED BY <1>7, <1>9, <3>1
  <2> QED BY <1>8, <2>1, <2>2
<1>11. \A r \in Runs : /\ rpc'[r] = IF rpc[r] = "new" THEN "new" ELSE "over"
                       /\ outcome'[r] = IF rpc[r] \in {"new", "over"} THEN outcome[r] ELSE "died"
  BY <1>2
<1>12. JobType'
  BY <1>1, <1>2, <1>5, <1>10 DEF JobType
<1>13. IdsOwn'
  <2>1. \A s \in Runs : rid[s] # 0 => rows # <<>> /\ rid[s] <= rows[Len(rows)].id
    <3> SUFFICES ASSUME NEW s \in Runs, rid[s] # 0
                 PROVE  rows # <<>> /\ rid[s] <= rows[Len(rows)].id
      OBVIOUS
    <3>1. ledger # <<>> /\ rid[s] <= ledger[Len(ledger)].id
      BY <1>1 DEF IdsOwn
    <3>2. Len(ledger) \in DOMAIN ledger /\ rows # <<>>
      BY <1>3, <1>5, <3>1
    <3> QED BY <1>4, <1>5, <3>1, <3>2
  <2> QED BY <1>1, <1>2, <1>11, <2>1 DEF IdsOwn
<1>14. OutcomeKnown'
  BY <1>1, <1>11 DEF OutcomeKnown
<1>15. LedgerTrue'
  <2>1. \A i \in DOMAIN ledger' : RowTrue(ledger[i])'
    <3> TAKE i \in DOMAIN ledger'
    <3>1. i \in DOMAIN ledger /\ ledger'[i] = rows[i]
      BY <1>2, <1>5
    <3>2. RowTrue(ledger[i]) /\ ledger[i].name \in Runs /\ ledger[i].st \in J!LedgerState
      BY <1>1, <3>1, RowTypes DEF LedgerTrue
    <3>3. rpc[ledger[i].name] \in {"over"} \cup Open
      BY <1>1, <3>2 DEF RowTrue, JobType
    <3>4. CASE ledger[i].st = "running"
      BY <1>2, <1>4, <1>11, <3>1, <3>2, <3>3, <3>4 DEF RowTrue, Open
    <3>5. CASE ledger[i].st # "running"
      BY <1>2, <1>4, <1>11, <3>1, <3>2, <3>3, <3>5 DEF RowTrue, Open
    <3> QED BY <3>4, <3>5
  <2>2. \A i, k \in DOMAIN ledger' : i < k => ledger'[i].id < ledger'[k].id
    BY <1>1, <1>2, <1>4, <1>5 DEF LedgerTrue
  <2>3. \A s \in Runs : rpc'[s] \notin Open
    BY <1>11 DEF Open
  <2> QED BY <2>1, <2>2, <2>3 DEF LedgerTrue
<1>16. TrayTrue'
  <2>1. \A i, k \in DOMAIN ledger : ledger[i].name = ledger[k].name => i = k
    <3> SUFFICES ASSUME NEW i \in DOMAIN ledger, NEW k \in DOMAIN ledger, ledger[i].name = ledger[k].name
                 PROVE  i = k
      OBVIOUS
    <3>1. ledger[i].id = ledger[k].id /\ ledger[i].id \in Nat
      BY <1>1, RowTypes DEF LedgerTrue, RowTrue
    <3>2. ~(i < k) /\ ~(k < i)
      BY <1>1, <3>1 DEF LedgerTrue
    <3> QED BY <1>3, <3>2
  <2>2. \A i, k \in DOMAIN jobs' : jobs'[i].name = jobs'[k].name => i = k
    <3> SUFFICES ASSUME NEW i \in DOMAIN jobs', NEW k \in DOMAIN jobs', jobs'[i].name = jobs'[k].name
                 PROVE  i = k
      OBVIOUS
    <3>1. first + i - 1 = first + k - 1
      BY <1>4, <1>5, <1>7, <1>9, <1>10, <2>1
    <3>2. i \in Int /\ k \in Int
      BY <1>7, <1>8, <1>10
    <3> QED BY <1>6, <3>1, <3>2
  <2>3. \A i \in DOMAIN jobs' : EntryTrue(jobs[i])'
    <3> TAKE i \in DOMAIN jobs'
    <3>1. PICK m \in DOMAIN ledger : jobs'[i].id = ledger[m].id /\ jobs'[i].name = ledger[m].name
      BY <1>4, <1>5, <1>7, <1>9, <1>10
    <3>2. RowTrue(ledger[m]) /\ ledger[m].name \in Runs
      BY <1>1, RowTypes DEF LedgerTrue
    <3>3. jobs'[i].st # "running"
      BY <1>9, <1>10
    <3> QED BY <1>2, <1>11, <3>1, <3>2, <3>3 DEF RowTrue, EntryTrue
  <2>4. \A s \in Runs : rpc'[s] \notin {"baseline", "loop"}
    BY <1>11
  <2> QED BY <2>2, <2>3, <2>4 DEF TrayTrue
<1> QED
  BY <1>12, <1>13, <1>14, <1>15, <1>16 DEF JobInv

LEMMA JobStepKeeps ==
    ASSUME UploadInv, JobInv, [J!JNext]_(J!jvars)
    PROVE  JobInv'
<1>1. CASE UNCHANGED J!jvars
  BY <1>1, JobQuietKeeps DEF J!jvars, J!uploadVars, J!runVars
<1>2. ASSUME NEW f \in Files,
             \/ J!UploadStart(f) \/ J!UploadBody(f) \/ J!UploadStage(f) \/ J!UploadRefuse(f)
             \/ J!UploadDropped(f) \/ J!CleanupTemp(f) \/ J!TakeTwice(f)
      PROVE  JobInv'
  <2>1. UNCHANGED <<ledger, jobs, rid, outcome, rpc, unrecorded>>
    BY <1>2 DEF J!UploadStart, J!UploadBody, J!UploadStage, J!UploadRefuse, J!UploadDropped, J!CleanupTemp,
       J!TakeTwice, J!runVars
  <2> QED BY <2>1, JobQuietKeeps
<1>3. ASSUME NEW r \in Runs, NEW X \in SUBSET Files, J!Take(r, X)
      PROVE  JobInv'
  BY <1>3, JobMoveKeeps DEF J!Take
<1>4. ASSUME NEW r \in Runs, J!Baseline(r)
      PROVE  JobInv'
  BY <1>4, JobMoveKeeps DEF J!Baseline
<1>5. ASSUME NEW r \in Runs, J!ProcessUpload(r)
      PROVE  JobInv'
  BY <1>5, JobQuietKeeps DEF J!ProcessUpload
<1>6. ASSUME NEW r \in Runs, J!BaselineFails(r)
      PROVE  JobInv'
  BY <1>6, JobEndKeeps DEF J!BaselineFails
<1>7. ASSUME NEW r \in Runs, J!Refresh(r)
      PROVE  JobInv'
  BY <1>7, JobEndKeeps DEF J!Refresh
<1> QED
  BY <1>1, <1>2, <1>3, <1>4, <1>5, <1>6, <1>7, InsertKeeps, PushKeeps, FileDoneKeeps, PersistKeeps,
     JobRestartKeeps DEF J!JNext

\* JobsHonest: besides what UploadsAreSpentOnce says of the files, while every
\* ledger write succeeds the tray shows a job as running exactly as long as its
\* thread runs, a closed ledger row tells its own job's outcome, an open one has a
\* job behind it, and a job that died with the daemon is called interrupted, however
\* jobs, prunings and restarts interleave (jobs.rs: push_job, with_job, prune, finish,
\* fail, persist, durable; the index's insert_job, finalize_job, prune_jobs,
\* interrupt_running_jobs).
THEOREM RegistryIsHonest == Spec => []JobsHonest
<1>1. SuiteInit => UploadInv /\ JobInv
  BY UploadInitHolds, JobInitHolds DEF SuiteInit, JRests
<1>2. UploadInv /\ JobInv /\ [SuiteNext]_allVars => UploadInv' /\ JobInv'
  <2>1. [SuiteNext]_allVars => [J!JNext]_(J!jvars)
    BY DEF SuiteNext, OStep, JStep, AStep, NStep, PStep, FStep, IStep, DStep, SStep, allVars, JVars,
       J!jvars, J!uploadVars, J!runVars
  <2> QED BY <2>1, UploadStepKeeps, JobStepKeeps
<1>3. UploadInv /\ JobInv => JobsHonest
  <2> SUFFICES ASSUME UploadInv, JobInv, ~unrecorded
               PROVE  J!TrayHonest /\ J!LedgerHonest
    BY DEF JobsHonest, UploadInv, J!TrayHonest, J!LedgerHonest
  <2>1. JobType /\ LedgerTrue /\ TrayTrue
    BY DEF JobInv
  <2>2. J!TrayHonest
    BY <2>1 DEF J!TrayHonest, TrayTrue, EntryTrue
  <2>3. J!LedgerHonest
    BY <2>1 DEF J!LedgerHonest, LedgerTrue, RowTrue, Open
  <2> QED BY <2>2, <2>3
<1> QED
  BY <1>1, <1>2, <1>3, PTL DEF Spec

----------------------------------------------------------------------------
(* The orphan collector, run by the daemon alone: `datboi gc apply` beside  *)
(* a running daemon takes no part in its mutex and breaks both action       *)
(* properties, so these theorems assume Appliers = {"daemon"}.              *)

Gc == "daemon"

\* The sets the invariant speaks of hold blobs.
GcSetsType == keeps \subseteq OBlobs /\ tagged \subseteq OBlobs

GcRunType ==
    /\ apc \in [Appliers -> {"idle", "claim", "loop", "unlink", "rows", "repack", "sweep", "prows"}]
    /\ skips \in [Appliers -> SUBSET OBlobs] /\ wanted \in [Appliers -> SUBSET OBlobs]
    /\ packing \in [Appliers -> SUBSET OBlobs] /\ todo \in [Appliers -> SUBSET OBlobs]

\* From the read to the end of the run the daemon holds its mutex, so the keep
\* marks and the tag roots it read stay what they are.
GcSerial == apc[Gc] # "idle" => mutex = Gc /\ skips[Gc] = keeps \cup tagged

\* What has been checked and is about to be deleted is neither kept, tagged nor
\* named when the guard was claimed.
GcChecked == (todo[Gc] \cup packing[Gc]) \cap (skips[Gc] \cup rooted) = {}

\* The lists belong to the steps that use them.
GcListed ==
    /\ apc[Gc] \in {"idle", "claim"} => packing[Gc] = {}
    /\ apc[Gc] \in {"idle", "claim", "loop", "repack"} => todo[Gc] = {}
    /\ apc[Gc] \in {"unlink", "rows"} => \A x, y \in todo[Gc] : x = y
    /\ todo[Gc] \cap packed = {}

GcRows == rooted \subseteq linked /\ O!LinkedHasRow /\ O!PackedHasRow

GcInv == GcSetsType /\ GcRunType /\ GcSerial /\ GcChecked /\ GcListed /\ GcRows

\* One step destroys only what is on the daemon's lists.
OnlyListed == O!Unlinks \subseteq todo[Gc] \cup packing[Gc]

----------------------------------------------------------------------------
(* The daemon's own steps.                                                  *)

LEMMA FinishEnds ==
    ASSUME Appliers = {Gc}, GcInv, O!Finish(Gc)
    PROVE  GcRunType' /\ apc'[Gc] = "idle" /\ packing'[Gc] = {} /\ todo'[Gc] = {} /\ skips'[Gc] = {}
BY DEF GcInv, GcRunType, O!Finish

\* A run that ends, at any point, leaves nothing to show but the rows.
LEMMA EndKeeps ==
    ASSUME Appliers = {Gc}, GcInv, O!Finish(Gc), UNCHANGED <<O!store, O!index, rooted>>
    PROVE  GcInv' /\ OnlyListed
<1>1. GcRunType' /\ apc'[Gc] = "idle" /\ packing'[Gc] = {} /\ todo'[Gc] = {} /\ skips'[Gc] = {}
  BY FinishEnds
<1>2. GcSerial' /\ GcChecked' /\ GcListed'
  BY <1>1 DEF GcSerial, GcChecked, GcListed
<1>3. GcSetsType' /\ GcRows' /\ OnlyListed
  BY DEF GcInv, GcSetsType, GcRows, O!LinkedHasRow, O!PackedHasRow, OnlyListed, O!Unlinks, O!store,
     O!index
<1> QED
  BY <1>1, <1>2, <1>3 DEF GcInv

LEMMA ReadKeeps ==
    ASSUME Appliers = {Gc}, GcInv, O!ApplyRead(Gc)
    PROVE  GcInv' /\ OnlyListed
<1>1. /\ apc[Gc] = "idle" /\ apc'[Gc] = "claim" /\ mutex' = Gc /\ skips'[Gc] = keeps \cup tagged
      /\ packing' = packing /\ todo' = todo /\ UNCHANGED <<O!store, O!index, rooted>>
  BY DEF O!ApplyRead, GcInv, GcRunType, Gc
<1>2. GcRunType'
  BY DEF O!ApplyRead, GcInv, GcRunType, GcSetsType, O!Reviewable
<1>3. GcSetsType' /\ GcSerial' /\ GcRows' /\ OnlyListed
  BY <1>1 DEF GcInv, GcSetsType, GcSerial, GcRows, O!LinkedHasRow, O!PackedHasRow, OnlyListed,
     O!Unlinks, O!store, O!index
<1>4. GcChecked' /\ GcListed'
  BY <1>1 DEF GcInv, GcChecked, GcListed, O!store
<1> QED
  BY <1>2, <1>3, <1>4 DEF GcInv

LEMMA ClaimKeeps ==
    ASSUME Appliers = {Gc}, GcInv, O!ApplyClaim(Gc)
    PROVE  GcInv' /\ OnlyListed
<1>1. CASE guard = O!Free
  <2>1. /\ apc[Gc] = "claim" /\ apc'[Gc] = "loop" /\ mutex' = mutex /\ rooted' = linked /\ GcRunType'
        /\ skips' = skips /\ packing' = packing /\ todo' = todo /\ UNCHANGED <<O!store, O!index>>
    BY <1>1 DEF O!ApplyClaim, GcInv, GcRunType
  <2>2. GcSetsType' /\ GcSerial' /\ GcRows' /\ OnlyListed
    BY <2>1 DEF GcInv, GcSetsType, GcSerial, GcRows, O!LinkedHasRow, O!PackedHasRow, OnlyListed,
       O!Unlinks, O!store, O!index
  <2>3. GcChecked' /\ GcListed'
    BY <2>1 DEF GcInv, GcChecked, GcListed, O!store
  <2> QED BY <2>1, <2>2, <2>3 DEF GcInv
<1>2. CASE guard # O!Free
  BY <1>2, EndKeeps DEF O!ApplyClaim
<1> QED
  BY <1>1, <1>2

\* Each candidate is checked against the lists read and the rows as they are now.
LEMMA CheckKeeps ==
    ASSUME Appliers = {Gc}, GcInv, O!ApplyCheck(Gc)
    PROVE  GcInv' /\ OnlyListed
<1>1. PICK b \in wanted[Gc] :
        /\ wanted' = [wanted EXCEPT ![Gc] = @ \ {b}]
        /\ \/ UNCHANGED <<apc, packing, todo>>
           \/ /\ b \notin skips[Gc] /\ O!StillDeletable(b)
              /\ packing' = [packing EXCEPT ![Gc] = @ \cup {b}]
              /\ UNCHANGED <<apc, todo>>
           \/ /\ b \notin skips[Gc] /\ O!StillDeletable(b)
              /\ b \notin packed
              /\ todo' = [todo EXCEPT ![Gc] = {b}]
              /\ apc' = [apc EXCEPT ![Gc] = "unlink"]
              /\ UNCHANGED packing
  BY DEF O!ApplyCheck, Gc
<1>2. apc[Gc] = "loop" /\ UNCHANGED <<O!store, O!index, mutex, skips, rooted>>
  BY DEF O!ApplyCheck
<1>3. b \in OBlobs
  BY <1>1 DEF GcInv, GcRunType
<1>4. GcSetsType' /\ GcRows' /\ OnlyListed
  BY <1>2 DEF GcInv, GcSetsType, GcRows, O!LinkedHasRow, O!PackedHasRow, OnlyListed, O!Unlinks,
     O!store, O!index
<1>5. CASE UNCHANGED <<apc, packing, todo>>
  <2>1. GcRunType'
    BY <1>1, <1>2, <1>5 DEF GcInv, GcRunType
  <2>2. GcSerial' /\ GcChecked' /\ GcListed'
    BY <1>2, <1>5 DEF GcInv, GcSerial, GcChecked, GcListed, O!store, O!index
  <2> QED BY <1>4, <2>1, <2>2 DEF GcInv
<1>6. CASE /\ b \notin skips[Gc] /\ O!StillDeletable(b)
           /\ packing' = [packing EXCEPT ![Gc] = @ \cup {b}]
           /\ UNCHANGED <<apc, todo>>
  <2>1. GcRunType' /\ packing'[Gc] = packing[Gc] \cup {b}
    BY <1>1, <1>2, <1>3, <1>6 DEF GcInv, GcRunType
  <2>2. b \notin rooted
    BY <1>6 DEF GcInv, GcRows, O!StillDeletable
  <2>3. GcSerial' /\ GcChecked' /\ GcListed'
    BY <1>2, <1>6, <2>1, <2>2 DEF GcInv, GcSerial, GcChecked, GcListed, O!store, O!index
  <2> QED BY <1>4, <2>1, <2>3 DEF GcInv
<1>7. CASE /\ b \notin skips[Gc] /\ O!StillDeletable(b) /\ b \notin packed
           /\ todo' = [todo EXCEPT ![Gc] = {b}]
           /\ apc' = [apc EXCEPT ![Gc] = "unlink"]
           /\ UNCHANGED packing
  <2>1. GcRunType' /\ todo'[Gc] = {b} /\ apc'[Gc] = "unlink"
    BY <1>1, <1>2, <1>3, <1>7 DEF GcInv, GcRunType
  <2>2. b \notin rooted
    BY <1>7 DEF GcInv, GcRows, O!StillDeletable
  <2>3. GcSerial' /\ GcChecked' /\ GcListed'
    BY <1>2, <1>7, <2>1, <2>2 DEF GcInv, GcSerial, GcChecked, GcListed, O!store, O!index
  <2> QED BY <1>4, <2>1, <2>3 DEF GcInv
<1> QED
  BY <1>1, <1>5, <1>6, <1>7

LEMMA UnlinkKeeps ==
    ASSUME Appliers = {Gc}, GcInv, O!ApplyUnlink(Gc)
    PROVE  GcInv' /\ OnlyListed
<1>1. /\ apc[Gc] = "unlink" /\ apc'[Gc] = "rows" /\ GcRunType' /\ loose' = loose \ todo[Gc]
      /\ UNCHANGED <<packed, O!index, mutex, skips, packing, todo, rooted>>
  BY DEF O!ApplyUnlink, GcInv, GcRunType
<1>2. GcSetsType' /\ GcRows' /\ OnlyListed
  BY <1>1 DEF GcInv, GcSetsType, GcRows, O!LinkedHasRow, O!PackedHasRow, OnlyListed, O!Unlinks,
     O!index
<1>3. GcSerial' /\ GcChecked' /\ GcListed'
  BY <1>1 DEF GcInv, GcSerial, GcChecked, GcListed, O!index
<1> QED
  BY <1>1, <1>2, <1>3 DEF GcInv

LEMMA RowsKeeps ==
    ASSUME Appliers = {Gc}, GcInv, O!ApplyRows(Gc)
    PROVE  GcInv' /\ OnlyListed
<1>1. PICK b \in todo[Gc] :
        \/ /\ O!DeleteRows(b)
           /\ todo' = [todo EXCEPT ![Gc] = @ \ {b}]
           /\ apc' = [apc EXCEPT ![Gc] = IF apc[Gc] = "rows" THEN "loop"
                                        ELSE IF todo[Gc] = {b} THEN "repack" ELSE "sweep"]
           /\ UNCHANGED <<mutex, guard, skips, wanted, packing>>
        \/ O!Finish(Gc) /\ UNCHANGED O!index
  BY DEF O!ApplyRows
<1>2. apc[Gc] \in {"rows", "prows"} /\ UNCHANGED <<O!store, rooted>>
  BY DEF O!ApplyRows
<1>3. CASE O!Finish(Gc) /\ UNCHANGED O!index
  BY <1>2, <1>3, EndKeeps
<1>4. CASE /\ O!DeleteRows(b)
           /\ todo' = [todo EXCEPT ![Gc] = @ \ {b}]
           /\ apc' = [apc EXCEPT ![Gc] = IF apc[Gc] = "rows" THEN "loop"
                                        ELSE IF todo[Gc] = {b} THEN "repack" ELSE "sweep"]
           /\ UNCHANGED <<mutex, guard, skips, wanted, packing>>
  <2>1. GcRunType' /\ todo'[Gc] = todo[Gc] \ {b}
    BY <1>4 DEF GcInv, GcRunType
  <2>2. /\ apc'[Gc] \in {"loop", "repack", "sweep"}
        /\ apc'[Gc] \in {"loop", "repack"} => todo'[Gc] = {}
    BY <1>1, <1>2, <1>4, <2>1 DEF GcInv, GcRunType, GcListed
  <2>3. /\ b \notin linked /\ b \notin packed /\ rowed' = rowed \ {b}
        /\ UNCHANGED <<linked, tagged, keeps, packed, loose, rooted>>
    BY <1>1, <1>2, <1>4 DEF O!DeleteRows, GcInv, GcListed, O!store
  <2>4. GcSetsType' /\ GcRows' /\ OnlyListed
    BY <2>3 DEF GcInv, GcSetsType, GcRows, O!LinkedHasRow, O!PackedHasRow, OnlyListed, O!Unlinks
  <2>5. GcSerial' /\ GcChecked'
    BY <1>2, <1>4, <2>1, <2>2, <2>3 DEF GcInv, GcSerial, GcChecked
  <2>6. GcListed'
    BY <1>4, <2>1, <2>2, <2>3 DEF GcInv, GcListed
  <2> QED BY <2>1, <2>4, <2>5, <2>6 DEF GcInv
<1> QED
  BY <1>1, <1>3, <1>4

LEMMA RepackKeeps ==
    ASSUME Appliers = {Gc}, GcInv, O!ApplyRepack(Gc)
    PROVE  GcInv' /\ OnlyListed
<1>1. PICK some \in SUBSET packing[Gc] :
          /\ packed' = packed \ some
          /\ todo' = [todo EXCEPT ![Gc] = some]
          /\ packing' = [packing EXCEPT ![Gc] = @ \ some]
  BY DEF O!ApplyRepack
<1>2. /\ apc[Gc] = "repack" /\ apc'[Gc] = "sweep" /\ GcRunType' /\ todo'[Gc] = some
      /\ packing'[Gc] = packing[Gc] \ some
      /\ UNCHANGED <<loose, O!index, mutex, skips, rooted>>
  BY <1>1 DEF O!ApplyRepack, GcInv, GcRunType
<1>3. GcSetsType' /\ GcRows' /\ OnlyListed
  BY <1>1, <1>2 DEF GcInv, GcSetsType, GcRows, O!LinkedHasRow, O!PackedHasRow, OnlyListed,
     O!Unlinks, O!index
<1>4. GcSerial' /\ GcChecked' /\ GcListed'
  BY <1>1, <1>2 DEF GcInv, GcSerial, GcChecked, GcListed, O!index
<1> QED
  BY <1>2, <1>3, <1>4 DEF GcInv

LEMMA SweepLooseKeeps ==
    ASSUME Appliers = {Gc}, GcInv, O!ApplySweepLoose(Gc)
    PROVE  GcInv' /\ OnlyListed
<1>1. /\ apc[Gc] = "sweep" /\ apc'[Gc] = "prows" /\ GcRunType' /\ loose \ loose' \subseteq todo[Gc]
      /\ UNCHANGED <<packed, O!index, mutex, skips, packing, todo, rooted>>
  BY DEF O!ApplySweepLoose, GcInv, GcRunType
<1>2. GcSetsType' /\ GcRows' /\ OnlyListed
  BY <1>1 DEF GcInv, GcSetsType, GcRows, O!LinkedHasRow, O!PackedHasRow, OnlyListed, O!Unlinks,
     O!index
<1>3. GcSerial' /\ GcChecked' /\ GcListed'
  BY <1>1 DEF GcInv, GcSerial, GcChecked, GcListed, O!index
<1> QED
  BY <1>1, <1>2, <1>3 DEF GcInv

LEMMA NextKeeps ==
    ASSUME Appliers = {Gc}, GcInv, O!ApplyNext(Gc)
    PROVE  GcInv' /\ OnlyListed
<1>1. CASE apc[Gc] = "loop" /\ packing[Gc] # {}
  <2>1. /\ apc'[Gc] = "repack" /\ GcRunType'
        /\ UNCHANGED <<O!store, O!index, mutex, skips, packing, todo, rooted>>
    BY <1>1 DEF O!ApplyNext, GcInv, GcRunType
  <2>2. GcSetsType' /\ GcRows' /\ OnlyListed
    BY <2>1 DEF GcInv, GcSetsType, GcRows, O!LinkedHasRow, O!PackedHasRow, OnlyListed, O!Unlinks,
       O!store, O!index
  <2>3. GcSerial' /\ GcChecked' /\ GcListed'
    BY <1>1, <2>1 DEF GcInv, GcSerial, GcChecked, GcListed, O!store, O!index
  <2> QED BY <2>1, <2>2, <2>3 DEF GcInv
<1>2. CASE ~(apc[Gc] = "loop" /\ packing[Gc] # {})
  BY <1>2, EndKeeps DEF O!ApplyNext
<1> QED
  BY <1>1, <1>2

----------------------------------------------------------------------------
(* The rest of the system.                                                  *)

\* What runs beside the daemon leaves its lists alone, waits for its mutex
\* before it keeps or tags, and names only blobs with a row.
GcBeside ==
    /\ UNCHANGED <<O!run, mutex, rooted, packed>> /\ loose \subseteq loose'
    /\ rowed \subseteq rowed' /\ linked \subseteq linked' /\ O!LinkedHasRow'
    /\ GcSetsType' /\ (mutex = Gc => keeps' = keeps /\ tagged' = tagged)

LEMMA BesideKeeps ==
    ASSUME Appliers = {Gc}, GcInv, GcBeside
    PROVE  GcInv' /\ OnlyListed
<1>1. GcRunType' /\ GcChecked' /\ GcListed' /\ GcSerial'
  BY DEF GcInv, GcBeside, GcRunType, GcChecked, GcListed, GcSerial, O!run
<1>2. GcRows' /\ OnlyListed
  BY DEF GcInv, GcBeside, GcRows, O!PackedHasRow, OnlyListed, O!Unlinks
<1> QED
  BY <1>1, <1>2 DEF GcInv, GcBeside

LEMMA OthersBeside ==
    ASSUME Appliers = {Gc}, GcInv, NEW b \in OBlobs,
           \/ O!Sweep
           \/ \E on \in BOOLEAN : O!SetKeep(b, on)
           \/ O!Tag(b) \/ O!Link(b) \/ O!IngestPut(b) \/ O!IngestApply(b) \/ O!Conclude(b)
    PROVE  GcBeside
<1>0. GcSetsType /\ O!LinkedHasRow
  BY DEF GcInv, GcRows
<1>1. CASE O!Sweep
  BY <1>0, <1>1 DEF O!Sweep, GcBeside, O!store, GcSetsType, O!LinkedHasRow
<1>2. CASE \E on \in BOOLEAN : O!SetKeep(b, on)
  BY <1>0, <1>2 DEF O!SetKeep, GcBeside, O!store, GcSetsType, O!LinkedHasRow, Gc, O!Free
<1>3. CASE O!Tag(b)
  BY <1>0, <1>3 DEF O!Tag, GcBeside, O!store, GcSetsType, O!LinkedHasRow, Gc, O!Free
<1>4. CASE O!Link(b)
  BY <1>0, <1>4 DEF O!Link, GcBeside, O!store, GcSetsType, O!LinkedHasRow
<1>5. CASE O!IngestPut(b)
  BY <1>0, <1>5 DEF O!IngestPut, GcBeside, O!index, GcSetsType, O!LinkedHasRow
<1>6. CASE O!IngestApply(b)
  BY <1>0, <1>6 DEF O!IngestApply, GcBeside, O!store, GcSetsType, O!LinkedHasRow
<1>7. CASE O!Conclude(b)
  BY <1>0, <1>7 DEF O!Conclude, GcBeside, O!store, GcSetsType, O!LinkedHasRow
<1> QED
  BY <1>1, <1>2, <1>3, <1>4, <1>5, <1>6, <1>7

----------------------------------------------------------------------------
(* The theorems.                                                            *)

LEMMA OInitHolds ==
    ASSUME Appliers = {Gc}, O!OInit
    PROVE  GcInv
<1>1. GcSetsType /\ GcRunType /\ apc[Gc] = "idle" /\ todo[Gc] = {} /\ packing[Gc] = {}
  BY DEF O!OInit, GcSetsType, GcRunType
<1>2. GcRows
  BY DEF O!OInit, GcRows, O!LinkedHasRow, O!PackedHasRow
<1> QED
  BY <1>1, <1>2 DEF GcInv, GcSerial, GcChecked, GcListed

LEMMA OStepKeeps ==
    ASSUME Appliers = {Gc}, GcInv, [O!ONext]_(O!ovars)
    PROVE  GcInv' /\ OnlyListed
<1>1. CASE UNCHANGED O!ovars
  <2>1. GcBeside
    BY <1>1 DEF O!ovars, O!store, O!index, O!run, GcBeside, GcInv, GcSetsType, GcRows,
       O!LinkedHasRow
  <2> QED BY <2>1, BesideKeeps
<1>2. CASE O!Apply(Gc)
  BY <1>2, ReadKeeps, ClaimKeeps, CheckKeeps, UnlinkKeeps, RowsKeeps, RepackKeeps, SweepLooseKeeps,
     NextKeeps DEF O!Apply
<1>3. CASE O!Die(Gc)
  BY <1>3, EndKeeps DEF O!Die
<1>4. CASE O!Sweep
  <2>1. GcBeside
    BY <1>4 DEF O!Sweep, GcBeside, O!store, GcInv, GcSetsType, GcRows, O!LinkedHasRow
  <2> QED BY <2>1, BesideKeeps
<1>5. CASE \E b \in OBlobs :
              \/ \E on \in BOOLEAN : O!SetKeep(b, on)
              \/ O!Tag(b) \/ O!Link(b) \/ O!IngestPut(b) \/ O!IngestApply(b) \/ O!Conclude(b)
  BY <1>5, OthersBeside, BesideKeeps
<1> QED
  BY <1>1, <1>2, <1>3, <1>4, <1>5 DEF O!ONext

\* What is on the lists is spared by every mark the properties name.
LEMMA ListedIsUnwanted ==
    ASSUME Appliers = {Gc}, GcInv, OnlyListed
    PROVE  O!Unlinks \cap (keeps \cup tagged) = {} /\ O!Unlinks \cap rooted = {}
<1>1. CASE apc[Gc] = "idle"
  BY <1>1 DEF GcInv, GcListed, OnlyListed
<1>2. CASE apc[Gc] # "idle"
  BY <1>2 DEF GcInv, GcSerial, GcChecked, OnlyListed
<1> QED
  BY <1>1, <1>2

\* DeletesOnlyOrphans: while the daemon is the only process that applies, no step
\* of an apply, of a repeated ingest or of a death half way destroys the last copy
\* of a blob that is kept, tagged or was named when the guard was claimed, and no
\* member of a pack and no named blob is without its row (server gc.rs, apply;
\* delete_orphan_rows).
THEOREM DaemonDeletesOnlyOrphans ==
    ASSUME Appliers = {Gc}
    PROVE  Spec => DeletesOnlyOrphans
<1>1. SuiteInit => GcInv
  BY OInitHolds DEF SuiteInit, ORests
<1>2. [SuiteNext]_allVars => [O!ONext]_(O!ovars)
  BY DEF SuiteNext, OStep, JStep, AStep, NStep, PStep, FStep, IStep, DStep, SStep, allVars, OVars,
     O!ovars, O!store, O!index, O!run, O!tally
<1>3. GcInv /\ [O!ONext]_(O!ovars) => GcInv'
  BY OStepKeeps
<1>4. GcInv /\ [O!ONext]_(O!ovars) =>
        /\ [O!Unlinks \cap (keeps \cup tagged) = {}]_(O!ovars)
        /\ [O!Unlinks \cap rooted = {}]_(O!ovars)
  BY OStepKeeps, ListedIsUnwanted
<1>5. GcInv => (part = "orphans" => O!PackedHasRow /\ O!LinkedHasRow)
  BY DEF GcInv, GcRows
<1> QED
  BY <1>1, <1>2, <1>3, <1>4, <1>5, PTL
     DEF Spec, DeletesOnlyOrphans, O!KeptAtDeleteTime, O!RootedAtClaimSurvives

----------------------------------------------------------------------------
(* The file surfaces.                                                       *)

\* What a client may have of a blob after its first n bytes.
FrPart(b, n) == F!Slice(b, 0, n)

FrName == F!AllBlobs \cup {Nowhere}
FrRow == [hash : F!AllBlobs, size : Nat, seek : 0 .. 2]
FrClient ==
    [who : {"local", "owner", "user", "anonymous"}, tree : {"view", "image", "snap"},
     name : FrontViewNames \cup DOMAIN FrontManifests, etag : FrName,
     got : Seq(F!AllBlobs \X Nat), full : FrName, phase : {"idle", "wait"}, asks : Nat]
FrReq ==
    [pc : {"none", "gate", "tree", "index", "image", "file", "materialize", "feed"}, first : Nat,
     ifRange : FrName, inm : FrName, snap : DOMAIN FrontManifests \cup {Nowhere},
     row : FrRow \cup {Nowhere}, off : Nat, end : Nat, status : Nat]
FrDav == [hash : FrName, size : Nat, pos : Nat, got : Seq(F!AllBlobs \X Nat)]

FrType ==
    /\ tags \in [FrontViewNames -> [snap : DOMAIN FrontManifests, at : Nat]]
    /\ imageTag \in FrName /\ client \in FrClient /\ req \in FrReq /\ dav \in FrDav /\ moves \in Nat
    /\ client.tree = "snap" => client.name \in DOMAIN FrontManifests
    /\ client.tree # "snap" => client.name \in FrontViewNames

\* What the client has is the beginning of the blob whose validator it keeps, all of it when it
\* believes so.
HasPrefix ==
    /\ client.etag = Nowhere => client.full = Nowhere
    /\ client.etag # Nowhere => \E n \in 0 .. F!SizeOf(client.etag) :
            Len(client.got) = n /\ client.got = FrPart(client.etag, n)
    /\ client.full # Nowhere => client.full = client.etag /\ client.got = F!Whole(client.full)

\* A request under way: the path's blob is among those named since it came; a row is of such a
\* blob, with its size; a resumption asks for the rest of what the client has and says of which
\* blob; and a stream stands where the client's bytes end.
Asked ==
    /\ req.pc \in {"gate", "tree", "index", "image"} => F!NamedNow \subseteq named
    /\ req.pc = "index" => client.tree # "image"
    /\ req.pc = "image" => client.tree = "image"
    /\ req.pc \in {"file", "materialize", "feed"} =>
            req.row \in FrRow /\ req.row.size = F!SizeOf(req.row.hash) /\ req.row.hash \in named
    /\ req.pc \in {"gate", "tree", "index", "image", "file"} /\ req.first > 0 =>
            req.first = Len(client.got) /\ req.ifRange = client.etag /\ client.etag # Nowhere
    /\ req.pc \in {"materialize", "feed"} =>
            /\ client.etag = req.row.hash /\ client.full = Nowhere /\ Len(client.got) = req.off
            /\ req.end = req.row.size /\ req.off < req.end
    /\ req.pc = "none" /\ req.status \in {200, 206, 304} => req.row \in FrRow /\ req.row.hash \in named

\* An open file of WebDAV.
DavPrefix ==
    dav.hash # Nowhere =>
        dav.size = F!SizeOf(dav.hash) /\ dav.pos <= dav.size /\ dav.got = FrPart(dav.hash, dav.pos)

FrInv == FrType /\ HasPrefix /\ Asked /\ DavPrefix

LEMMA ManifestRows ==
    ASSUME NEW s \in DOMAIN FrontManifests, NEW p \in DOMAIN FrontManifests[s]
    PROVE  /\ FrontManifests[s][p] \in FrRow
           /\ FrontManifests[s][p].size = F!SizeOf(FrontManifests[s][p].hash)
<1> DEFINE rows == UNION {F!Range(FrontManifests[t]) : t \in DOMAIN FrontManifests}
           row == FrontManifests[s][p]
<1>1. \A r \in rows : \E t \in DOMAIN FrontManifests : \E q \in DOMAIN FrontManifests[t] : r = FrontManifests[t][q]
  BY DEF F!Range
<1>2. row \in rows
  BY DEF F!Range
<1>3. \A r \in rows : r.hash = row.hash => r.size = row.size
  BY <1>1, FrontAssumption
<1>4. F!SizeOf(row.hash) = row.size
  <2>1. F!SizeOf(row.hash) = (CHOOSE r \in rows : r.hash = row.hash).size
    BY DEF F!SizeOf
  <2>2. PICK c : c = CHOOSE r \in rows : r.hash = row.hash
    OBVIOUS
  <2>3. c \in rows /\ c.hash = row.hash
    <3> HIDE DEF rows, row
    <3> QED BY <1>2, <2>2
  <2> HIDE DEF rows, row
  <2> QED BY <1>3, <2>1, <2>2, <2>3
<1>5. row.hash \in F!AllBlobs
  BY DEF F!AllBlobs, F!BlobsOf
<1>6. row \in [hash : FrontBlobs, size : Nat, seek : 0 .. 2]
  BY FrontAssumption
<1> QED
  BY <1>4, <1>5, <1>6 DEF FrRow

LEMMA BlobSizes ==
    /\ Nowhere \notin F!AllBlobs
    /\ \A b \in F!AllBlobs : F!SizeOf(b) \in Nat
<1>1. ASSUME NEW b \in F!AllBlobs
      PROVE  b # Nowhere /\ F!SizeOf(b) \in Nat
  <2>0. PICK s \in DOMAIN FrontManifests : b \in F!BlobsOf(s)
    BY DEF F!AllBlobs
  <2>1. PICK p \in DOMAIN FrontManifests[s] : b = FrontManifests[s][p].hash
    BY <2>0 DEF F!BlobsOf
  <2>2. FrontManifests[s][p] \in FrRow /\ FrontManifests[s][p].size = F!SizeOf(b)
    BY <2>1, ManifestRows
  <2>3. FrontManifests[s][p] \in [hash : FrontBlobs, size : Nat, seek : 0 .. 2] /\ Nowhere \notin FrontBlobs
    BY FrontAssumption
  <2> QED BY <2>1, <2>2, <2>3 DEF FrRow
<1> QED BY <1>1

\* A slice has the length asked for; slices that meet make one, and the whole is the first n bytes.
LEMMA SliceLen ==
    ASSUME NEW b \in F!AllBlobs, NEW n \in Nat, NEW m \in Nat, n <= m
    PROVE  /\ F!Slice(b, n, m) \in Seq(F!AllBlobs \X Nat) /\ Len(F!Slice(b, n, m)) = m - n
           /\ \A i \in 1 .. (m - n) : F!Slice(b, n, m)[i] = <<b, n + i - 1>>
<1> DEFINE T == F!AllBlobs \X Nat
           f == F!Slice(b, n, m)
<1>1. m - n \in Nat
  OBVIOUS
<1>2. \A i \in 1 .. (m - n) : <<b, n + i - 1>> \in T
  OBVIOUS
<1>3. f \in [1 .. (m - n) -> T] /\ \A i \in 1 .. (m - n) : f[i] = <<b, n + i - 1>>
  <2> HIDE DEF T
  <2> QED BY <1>2 DEF F!Slice
<1>4. PICK k \in Nat : k = m - n
  BY <1>1
<1>5. f \in [1 .. k -> T]
  BY <1>3, <1>4
<1> HIDE DEF f, T
<1>6. f \in Seq(T) /\ Len(f) = k
  BY <1>5
<1> QED
  BY <1>3, <1>4, <1>6 DEF f, T

LEMMA PartLen ==
    ASSUME NEW b \in F!AllBlobs, NEW n \in Nat
    PROVE  /\ FrPart(b, n) \in Seq(F!AllBlobs \X Nat) /\ Len(FrPart(b, n)) = n
           /\ \A i \in 1 .. n : FrPart(b, n)[i] = <<b, i - 1>>
<1>1. n - 0 = n /\ 0 <= n /\ 0 \in Nat /\ \A i \in 1 .. n : 0 + i - 1 = i - 1
  OBVIOUS
<1>2. /\ F!Slice(b, 0, n) \in Seq(F!AllBlobs \X Nat) /\ Len(F!Slice(b, 0, n)) = n - 0
      /\ \A i \in 1 .. (n - 0) : F!Slice(b, 0, n)[i] = <<b, 0 + i - 1>>
  BY <1>1, SliceLen, Zenon
<1> QED
  BY <1>1, <1>2, Zenon DEF FrPart

LEMMA Joined ==
    ASSUME NEW T, NEW x \in Seq(T), NEW y \in Seq(T), NEW z \in Seq(T), Len(z) = Len(x) + Len(y),
           \A i \in 1 .. Len(x) : z[i] = x[i],
           \A i \in 1 .. Len(y) : z[Len(x) + i] = y[i]
    PROVE  x \o y = z
<1>1. x \o y \in Seq(T) /\ Len(x \o y) = Len(z)
  OBVIOUS
<1>2. ASSUME NEW i \in 1 .. Len(z)
      PROVE  (x \o y)[i] = z[i]
  <2>1. CASE i <= Len(x)
    BY <2>1
  <2>2. CASE i > Len(x)
    <3>1. (x \o y)[i] = y[i - Len(x)] /\ i - Len(x) \in 1 .. Len(y) /\ Len(x) + (i - Len(x)) = i
      BY <2>2
    <3> QED BY <3>1
  <2> QED BY <2>1, <2>2
<1> QED
  BY <1>1, <1>2, SeqEqual

LEMMA SliceJoin ==
    ASSUME NEW b \in F!AllBlobs, NEW n \in Nat, NEW m \in Nat, n <= m
    PROVE  FrPart(b, n) \o F!Slice(b, n, m) = FrPart(b, m)
<1>0. PICK T : T = F!AllBlobs \X Nat
  OBVIOUS
<1>1. PICK x \in Seq(T) : x = FrPart(b, n) /\ Len(x) = n /\ \A i \in 1 .. n : x[i] = <<b, i - 1>>
  BY <1>0, PartLen
<1>2. PICK y \in Seq(T) : y = F!Slice(b, n, m) /\ Len(y) = m - n /\ \A i \in 1 .. (m - n) : y[i] = <<b, n + i - 1>>
  BY <1>0, SliceLen
<1>3. PICK z \in Seq(T) : z = FrPart(b, m) /\ Len(z) = m /\ \A i \in 1 .. m : z[i] = <<b, i - 1>>
  BY <1>0, PartLen
<1>4. Len(z) = Len(x) + Len(y)
  BY <1>1, <1>2, <1>3
<1>5. \A i \in 1 .. Len(x) : z[i] = x[i]
  <2> TAKE i \in 1 .. Len(x)
  <2>1. i \in 1 .. n /\ i \in 1 .. m
    BY <1>1
  <2> QED BY <1>1, <1>3, <2>1
<1>6. \A i \in 1 .. Len(y) : z[Len(x) + i] = y[i]
  <2> TAKE i \in 1 .. Len(y)
  <2>1. n + i \in 1 .. m /\ i \in 1 .. (m - n) /\ n + i - 1 = (n + i) - 1
    BY <1>2
  <2> QED BY <1>1, <1>2, <1>3, <2>1
<1>7. x \o y = z
  BY <1>4, <1>5, <1>6, Joined
<1> QED BY <1>1, <1>2, <1>3, <1>7

LEMMA WholeIsAll ==
    ASSUME NEW b \in F!AllBlobs
    PROVE  F!Whole(b) = FrPart(b, F!SizeOf(b))
<1>1. PICK k \in Nat : k = F!SizeOf(b)
  BY BlobSizes
<1>2. \A i \in 1 .. k : i - 1 = 0 + i - 1
  OBVIOUS
<1>3. k - 0 = k
  OBVIOUS
<1>4. [i \in 1 .. k |-> <<b, i - 1>>] = [i \in 1 .. k |-> <<b, 0 + i - 1>>]
  BY <1>2
<1> QED
  BY <1>1, <1>3, <1>4 DEF F!Whole, FrPart, F!Slice

LEMMA PartOfWhole ==
    ASSUME NEW b \in F!AllBlobs, NEW n \in 0 .. F!SizeOf(b)
    PROVE  SubSeq(F!Whole(b), 1, n) = FrPart(b, n)
<1>0. PICK T : T = F!AllBlobs \X Nat
  OBVIOUS
<1>1. PICK k \in Nat : k = F!SizeOf(b) /\ n \in Nat /\ n <= k
  BY BlobSizes
<1>2. PICK w \in Seq(T) : w = F!Whole(b) /\ Len(w) = k /\ \A i \in 1 .. k : w[i] = <<b, i - 1>>
  BY <1>0, <1>1, WholeIsAll, PartLen
<1>3. PICK z \in Seq(T) : z = FrPart(b, n) /\ Len(z) = n /\ \A i \in 1 .. n : z[i] = <<b, i - 1>>
  BY <1>0, <1>1, PartLen
<1>4. SubSeq(w, 1, n) \in Seq(T) /\ Len(SubSeq(w, 1, n)) = n /\ \A i \in 1 .. n : SubSeq(w, 1, n)[i] = w[i]
  BY <1>1, <1>2
<1>5. \A i \in 1 .. n : i \in 1 .. k
  BY <1>1
<1>6. SubSeq(w, 1, n) = z
  <2>1. PICK v \in Seq(T) : v = SubSeq(w, 1, n) /\ Len(v) = n /\ \A i \in 1 .. n : v[i] = w[i]
    BY <1>4
  <2>2. \A i \in 1 .. n : v[i] = z[i]
    BY <1>2, <1>3, <1>5, <2>1, Zenon
  <2>3. v = z
    BY <1>3, <2>1, <2>2, SeqEqual
  <2> QED BY <2>1, <2>3, Zenon
<1> QED BY <1>2, <1>3, <1>6

LEMMA NothingYet == \A b \in F!AllBlobs : FrPart(b, 0) = <<>>
<1>1. ASSUME NEW b \in F!AllBlobs PROVE FrPart(b, 0) = <<>>
  <2>1. FrPart(b, 0) \in Seq(F!AllBlobs \X Nat) /\ Len(FrPart(b, 0)) = 0
    BY SliceLen DEF FrPart
  <2>2. PICK z : z = FrPart(b, 0)
    OBVIOUS
  <2> QED BY <2>1, <2>2
<1> QED BY <1>1

LEMMA FrInitHolds ==
    ASSUME F!FInit
    PROVE  FrInv
<1>0. PICK c \in FrontCallers : client = [who |-> c[1], tree |-> c[2], name |-> c[3], etag |-> Nowhere, got |-> <<>>,
                                   full |-> Nowhere, phase |-> "idle", asks |-> 0]
  BY DEF F!FInit
<1>1. client \in FrClient
  <2>1. <<>> \in Seq(F!AllBlobs \X Nat) /\ Nowhere \in FrName
    BY DEF FrName
  <2> QED BY <1>0, <2>1, FrontAssumption DEF FrClient
<1>2. client.tree = "snap" => client.name \in DOMAIN FrontManifests
  BY <1>0, FrontAssumption
<1>3. client.tree # "snap" => client.name \in FrontViewNames
  BY <1>0, FrontAssumption
<1>4. req \in FrReq /\ req.pc = "none" /\ req.status = 0
  BY DEF F!FInit, F!NoReq, FrReq, FrName
<1>5. dav \in FrDav /\ dav.hash = Nowhere
  BY DEF F!FInit, FrDav, FrName
<1>6. tags \in [FrontViewNames -> [snap : DOMAIN FrontManifests, at : Nat]]
  BY FrontAssumption DEF F!FInit
<1>7. imageTag \in FrName /\ moves \in Nat
  BY DEF F!FInit, FrName
<1>8. HasPrefix
  BY <1>0 DEF HasPrefix
<1>9. Asked
  BY <1>4 DEF Asked
<1>10. DavPrefix
  BY <1>5 DEF DavPrefix
<1> QED
  BY <1>1, <1>2, <1>3, <1>4, <1>5, <1>6, <1>7, <1>8, <1>9, <1>10 DEF FrInv, FrType

\* What the path names moves with the tags only.
LEMMA NamedStays ==
    ASSUME client'.tree = client.tree, client'.name = client.name, UNCHANGED <<tags, imageTag>>
    PROVE  F!NamedNow' = F!NamedNow
BY DEF F!NamedNow

\* The client's bytes, its validator and what it is after stay.
Undisturbed ==
    /\ client' \in FrClient
    /\ client'.tree = client.tree /\ client'.name = client.name
    /\ client'.etag = client.etag /\ client'.got = client.got /\ client'.full = client.full

LEMMA UndisturbedKeeps ==
    ASSUME HasPrefix, Undisturbed
    PROVE  HasPrefix'
BY DEF HasPrefix, Undisturbed

\* A final answer other than a body.
LEMMA AnswerFacts ==
    ASSUME FrType, NEW st \in Nat, F!Answer(st)
    PROVE  /\ Undisturbed /\ req' \in FrReq /\ req'.pc = "none" /\ req'.status = st /\ req'.row = req.row
<1>1. client' = [client EXCEPT !.phase = "idle"] /\ req' = [req EXCEPT !.pc = "none", !.status = st]
  BY DEF F!Answer
<1>2. client \in FrClient /\ req \in FrReq
  BY DEF FrType
<1>3. Undisturbed
  BY <1>1, <1>2 DEF FrClient, Undisturbed
<1> QED
  BY <1>1, <1>2, <1>3 DEF FrReq

\* A step of the handlers before the body: the request moves on, the client waits.
LEMMA MovesOn ==
    ASSUME FrType, NEW to \in {"tree", "index", "image", "feed"}, req' = [req EXCEPT !.pc = to], UNCHANGED client
    PROVE  /\ Undisturbed /\ req' \in FrReq /\ req'.pc = to
           /\ \A g \in {"first", "ifRange", "inm", "row", "off", "end", "status"} : req'[g] = req[g]
<1>1. client \in FrClient /\ req \in FrReq
  BY DEF FrType
<1> QED
  BY <1>1 DEF FrReq, Undisturbed

LEMMA GateKeeps ==
    ASSUME FrInv, F!Gate
    PROVE  FrInv'
<1>0. FrType /\ HasPrefix /\ Asked /\ DavPrefix
  BY DEF FrInv
<1>1. req.pc = "gate" /\ UNCHANGED <<tags, imageTag, dav, named, moves>>
  BY DEF F!Gate
<1>2. DavPrefix'
  BY <1>0, <1>1 DEF DavPrefix
<1>3. Undisturbed /\ req' \in FrReq => FrType' /\ HasPrefix' /\ F!NamedNow' = F!NamedNow
  BY <1>0, <1>1, UndisturbedKeeps, NamedStays DEF FrType, Undisturbed
<1>4. CASE F!Answer(401)
  <2>1. Undisturbed /\ req' \in FrReq /\ req'.pc = "none" /\ req'.status = 401
    BY <1>0, <1>4, AnswerFacts
  <2> QED BY <1>2, <1>3, <2>1 DEF FrInv, Asked
<1>5. CASE req' = [req EXCEPT !.pc = "tree"] /\ UNCHANGED client
  <2>1. /\ Undisturbed /\ req' \in FrReq /\ req'.pc = "tree"
        /\ \A g \in {"first", "ifRange", "inm", "row", "off", "end", "status"} : req'[g] = req[g]
    BY <1>0, <1>5, MovesOn
  <2>2. Asked'
    BY <1>0, <1>1, <1>3, <1>5, <2>1 DEF Asked
  <2> QED BY <1>2, <1>3, <2>1, <2>2 DEF FrInv
<1> QED
  BY <1>4, <1>5 DEF F!Gate

LEMMA PermitKeeps ==
    ASSUME FrInv, F!Permit
    PROVE  FrInv'
<1>0. FrType /\ HasPrefix /\ Asked /\ DavPrefix
  BY DEF FrInv
<1>1. req.pc = "tree" /\ UNCHANGED <<tags, imageTag, dav, named, moves>>
  BY DEF F!Permit
<1>2. DavPrefix'
  BY <1>0, <1>1 DEF DavPrefix
<1>3. Undisturbed /\ req' \in FrReq => FrType' /\ HasPrefix' /\ F!NamedNow' = F!NamedNow
  BY <1>0, <1>1, UndisturbedKeeps, NamedStays DEF FrType, Undisturbed
<1>4. CASE F!Answer(404)
  <2>1. Undisturbed /\ req' \in FrReq /\ req'.pc = "none" /\ req'.status = 404
    BY <1>0, <1>4, AnswerFacts
  <2> QED BY <1>2, <1>3, <2>1 DEF FrInv, Asked
<1>5. CASE req' = [req EXCEPT !.pc = IF client.tree = "image" THEN "image" ELSE "index"] /\ UNCHANGED client
  <2>1. PICK to \in {"image", "index"} : to = IF client.tree = "image" THEN "image" ELSE "index"
    OBVIOUS
  <2>2. /\ Undisturbed /\ req' \in FrReq /\ req'.pc = to
        /\ \A g \in {"first", "ifRange", "inm", "row", "off", "end", "status"} : req'[g] = req[g]
    BY <1>0, <1>5, <2>1, MovesOn
  <2>3. Asked'
    BY <1>0, <1>1, <1>3, <1>5, <2>1, <2>2 DEF Asked
  <2> QED BY <1>2, <1>3, <2>2, <2>3 DEF FrInv
<1> QED
  BY <1>4, <1>5 DEF F!Permit

\* A row is found: its blob is what the path names at this moment.
LEMMA RowFound ==
    ASSUME FrInv, req.pc \in {"index", "image"}, NEW r \in FrRow, r.size = F!SizeOf(r.hash), r.hash \in F!NamedNow,
           NEW at \in DOMAIN FrontManifests \cup {Nowhere}, req' = [req EXCEPT !.pc = "file", !.snap = at, !.row = r],
           UNCHANGED <<client, tags, imageTag, dav, named, moves>>
    PROVE  FrInv'
<1>0. FrType /\ HasPrefix /\ Asked /\ DavPrefix /\ req \in FrReq
  BY DEF FrInv, FrType
<1>1. /\ req' \in FrReq /\ req'.pc = "file" /\ req'.row = r
      /\ \A g \in {"first", "ifRange"} : req'[g] = req[g]
  BY <1>0 DEF FrReq
<1>2. DavPrefix' /\ HasPrefix'
  BY <1>0 DEF DavPrefix, HasPrefix
<1>3. r.hash \in named
  BY <1>0 DEF Asked
<1>4. Asked'
  BY <1>0, <1>1, <1>3 DEF Asked
<1>5. FrType'
  BY <1>0, <1>1 DEF FrType
<1> QED BY <1>2, <1>4, <1>5 DEF FrInv

\* An answer that carries no body and is no "not modified".
LEMMA Refused ==
    ASSUME FrInv, NEW st \in {308, 401, 404, 416, 500}, F!Answer(st), UNCHANGED <<tags, imageTag, dav, named, moves>>
    PROVE  FrInv'
<1>0. FrType /\ HasPrefix /\ Asked /\ DavPrefix
  BY DEF FrInv
<1>1. st \in Nat /\ st \notin {200, 206, 304}
  OBVIOUS
<1>2. Undisturbed /\ req' \in FrReq /\ req'.pc = "none" /\ req'.status = st
  BY <1>0, <1>1, AnswerFacts
<1>3. FrType' /\ HasPrefix'
  BY <1>0, <1>2, UndisturbedKeeps DEF FrType, Undisturbed
<1>4. DavPrefix'
  BY <1>0 DEF DavPrefix
<1>5. Asked'
  BY <1>1, <1>2 DEF Asked
<1> QED BY <1>3, <1>4, <1>5 DEF FrInv

\* A stream ends early: what came stays with the client.
LEMMA Broken ==
    ASSUME FrInv, req.pc \in {"materialize", "feed"}, F!Break, UNCHANGED <<tags, imageTag, dav, named, moves>>
    PROVE  FrInv'
<1>0. FrType /\ HasPrefix /\ Asked /\ DavPrefix /\ client \in FrClient /\ req \in FrReq
  BY DEF FrInv, FrType
<1>1. req' = [req EXCEPT !.pc = "none"] /\ client' = [client EXCEPT !.phase = "idle"]
  BY DEF F!Break
<1>2. Undisturbed
  BY <1>0, <1>1 DEF FrClient, Undisturbed
<1>3. req' \in FrReq /\ req'.pc = "none" /\ req'.row = req.row
  BY <1>0, <1>1 DEF FrReq
<1>4. FrType' /\ HasPrefix'
  BY <1>0, <1>2, <1>3, UndisturbedKeeps DEF FrType, Undisturbed
<1>5. Asked'
  BY <1>0, <1>3 DEF Asked
<1>6. DavPrefix'
  BY <1>0 DEF DavPrefix
<1> QED BY <1>4, <1>5, <1>6 DEF FrInv

LEMMA LookupKeeps ==
    ASSUME FrInv, F!Lookup
    PROVE  FrInv'
<1>0. FrType /\ Asked /\ req.pc = "index" /\ client.tree # "image" /\ client \in FrClient
  BY DEF FrInv, F!Lookup, Asked, FrType
<1>1. UNCHANGED <<tags, imageTag, dav, named, moves>>
  BY DEF F!Lookup
<1>2. PICK s : s = IF client.tree = "view" THEN F!ViewIndex(client.name) ELSE client.name
  OBVIOUS
<1>3. s \in DOMAIN FrontManifests
  BY <1>0, <1>2 DEF FrType, FrClient, F!ViewIndex
<1>4. CASE /\ FrontPath \in DOMAIN FrontManifests[s]
           /\ req' = [req EXCEPT !.pc = "file", !.snap = s, !.row = FrontManifests[s][FrontPath]] /\ UNCHANGED client
  <2>1. PICK r \in FrRow : r = FrontManifests[s][FrontPath] /\ r.size = F!SizeOf(r.hash)
    BY <1>3, <1>4, ManifestRows
  <2>2. r.hash \in F!NamedNow
    BY <1>0, <1>2, <1>4, <2>1 DEF F!NamedNow, F!ViewIndex, FrClient
  <2> QED BY <1>0, <1>1, <1>3, <1>4, <2>1, <2>2, RowFound
<1>5. CASE F!Answer(308) \/ F!Answer(404)
  BY <1>1, <1>5, Refused
<1> QED
  BY <1>2, <1>4, <1>5 DEF F!Lookup

LEMMA LookupImageKeeps ==
    ASSUME FrInv, F!LookupImage
    PROVE  FrInv'
<1>0. FrType /\ Asked /\ req.pc = "image" /\ client.tree = "image" /\ req \in FrReq
  BY DEF FrInv, F!LookupImage, Asked, FrType
<1>1. UNCHANGED <<tags, imageTag, dav, named, moves>>
  BY DEF F!LookupImage
<1>2. CASE F!Answer(404)
  BY <1>1, <1>2, Refused
<1>3. CASE /\ imageTag # Nowhere /\ UNCHANGED client
           /\ req' = [req EXCEPT !.pc = "file", !.row = [hash |-> imageTag, size |-> F!SizeOf(imageTag), seek |-> F!ImageSeek(imageTag)]]
  <2>1. imageTag \in F!AllBlobs /\ F!SizeOf(imageTag) \in Nat
    BY <1>0, <1>3, BlobSizes DEF FrType, FrName
  <2>2. F!ImageSeek(imageTag) \in 0 .. 2
    BY DEF F!ImageSeek
  <2>3. PICK r \in FrRow : /\ r = [hash |-> imageTag, size |-> F!SizeOf(imageTag), seek |-> F!ImageSeek(imageTag)]
                           /\ r.size = F!SizeOf(r.hash) /\ r.hash = imageTag
    <3>1. PICK n \in Nat : n = F!SizeOf(imageTag)
      BY <2>1
    <3>2. PICK k \in 0 .. 2 : k = F!ImageSeek(imageTag)
      BY <2>2
    <3>3. PICK b \in F!AllBlobs : b = imageTag
      BY <2>1
    <3>4. [hash |-> b, size |-> n, seek |-> k] \in FrRow
      BY DEF FrRow
    <3> QED BY <3>1, <3>2, <3>3, <3>4
  <2>4. r.hash \in F!NamedNow
    BY <1>0, <1>3, <2>3 DEF F!NamedNow
  <2>5. PICK at \in DOMAIN FrontManifests \cup {Nowhere} : at = req.snap
    BY <1>0 DEF FrReq
  <2>6. req' = [req EXCEPT !.pc = "file", !.snap = at, !.row = r]
    BY <1>0, <1>3, <2>3, <2>5 DEF FrReq
  <2> QED BY <1>0, <1>1, <1>3, <2>3, <2>4, <2>6, RowFound
<1> QED
  BY <1>2, <1>3 DEF F!LookupImage

LEMMA MaterializeKeeps ==
    ASSUME FrInv, F!Materialize
    PROVE  FrInv'
<1>0. FrType /\ HasPrefix /\ Asked /\ DavPrefix /\ req.pc = "materialize" /\ client \in FrClient /\ req \in FrReq
  BY DEF FrInv, F!Materialize, FrType
<1>1. UNCHANGED <<tags, imageTag, dav, named, moves>>
  BY DEF F!Materialize
<1>2. CASE req' = [req EXCEPT !.pc = "feed"] /\ UNCHANGED client
  <2>1. /\ Undisturbed /\ req' \in FrReq /\ req'.pc = "feed"
        /\ \A g \in {"first", "ifRange", "inm", "row", "off", "end", "status"} : req'[g] = req[g]
    BY <1>0, <1>2, MovesOn
  <2>2. FrType' /\ HasPrefix'
    BY <1>0, <1>1, <2>1, UndisturbedKeeps DEF FrType, Undisturbed
  <2>3. Asked'
    BY <1>0, <1>1, <1>2, <2>1 DEF Asked
  <2>4. DavPrefix'
    BY <1>0, <1>1 DEF DavPrefix
  <2> QED BY <2>2, <2>3, <2>4 DEF FrInv
<1>3. CASE F!Break
  BY <1>0, <1>1, <1>3, Broken
<1> QED
  BY <1>2, <1>3 DEF F!Materialize

\* Bytes reach the client: what it has is the first n bytes of b, all of b when it is told so.
LEMMA Delivered ==
    ASSUME NEW b \in F!AllBlobs, NEW n \in 0 .. F!SizeOf(b),
           client'.etag = b, client'.got = FrPart(b, n), client'.full \in {b, Nowhere},
           client'.full = b => n = F!SizeOf(b)
    PROVE  HasPrefix'
<1>1. F!SizeOf(b) \in Nat /\ b # Nowhere /\ n \in Nat
  BY BlobSizes
<1>2. Len(FrPart(b, n)) = n
  BY <1>1, PartLen
<1>3. F!Whole(b) = FrPart(b, F!SizeOf(b))
  BY WholeIsAll
<1> QED
  BY <1>1, <1>2, <1>3 DEF HasPrefix

\* What file_response goes on from: for a part, the client's bytes are the blob's, up to where the
\* part begins.
LEMMA ResumesRight ==
    ASSUME FrInv, req.pc = "file", F!ParseRange(req.first, req.row.size) = "partial",
           F!IfRangeAllows(req.ifRange, req.row.hash)
    PROVE  /\ req.first \in 0 .. F!SizeOf(req.row.hash) /\ client.etag = req.row.hash
           /\ client.got = FrPart(req.row.hash, req.first) /\ Len(client.got) = req.first
<1>0. /\ FrType /\ HasPrefix /\ Asked /\ req \in FrReq /\ req.first \in Nat /\ req.row \in FrRow
      /\ req.row.size = F!SizeOf(req.row.hash) /\ req.row.size \in Nat /\ req.row.hash \in F!AllBlobs
  <2>1. FrType /\ HasPrefix /\ Asked /\ req \in FrReq
    BY DEF FrInv, FrType
  <2>2. req.first \in Nat
    BY <2>1 DEF FrReq
  <2>3. req.row \in FrRow /\ req.row.size = F!SizeOf(req.row.hash)
    BY <2>1 DEF Asked
  <2>4. req.row.size \in Nat /\ req.row.hash \in F!AllBlobs
    BY <2>3 DEF FrRow
  <2> QED BY <2>1, <2>2, <2>3, <2>4
<1>1. req.first > 0 /\ req.first < req.row.size
  <2>1. "full" # "partial" /\ "unsatisfiable" # "partial"
    OBVIOUS
  <2> QED BY <1>0, <2>1 DEF F!ParseRange
<1>2. req.first = Len(client.got) /\ req.ifRange = client.etag /\ client.etag # Nowhere
  BY <1>0, <1>1 DEF Asked
<1>3. client.etag = req.row.hash
  BY <1>2 DEF F!IfRangeAllows
<1>4. PICK n \in 0 .. F!SizeOf(client.etag) : Len(client.got) = n /\ client.got = FrPart(client.etag, n)
  BY <1>0, <1>2 DEF HasPrefix
<1> QED
  BY <1>0, <1>1, <1>2, <1>3, <1>4

LEMMA FileResponseKeeps ==
    ASSUME FrInv, F!FileResponse
    PROVE  FrInv'
<1> DEFINE b == req.row.hash
           asked0 == F!ParseRange(req.first, req.row.size)
           range == IF asked0 = "partial" /\ ~F!IfRangeAllows(req.ifRange, b) THEN "full" ELSE asked0
           from == IF range = "partial" THEN req.first ELSE 0
           st == IF range = "partial" THEN 206 ELSE 200
           kept == IF st = 206 THEN client.got ELSE <<>>
<1>0. /\ FrType /\ HasPrefix /\ Asked /\ DavPrefix /\ req.pc = "file" /\ client \in FrClient /\ req \in FrReq
  BY DEF FrInv, F!FileResponse, FrType
<1>1. UNCHANGED <<tags, imageTag, dav, named, moves>>
  BY DEF F!FileResponse
<1>2. req.row \in FrRow /\ req.row.size = F!SizeOf(b) /\ b \in named
  BY <1>0 DEF Asked
<1>3. req.row.size \in Nat /\ b \in F!AllBlobs /\ b # Nowhere
  BY <1>2, BlobSizes DEF FrRow
<1>4. DavPrefix'
  BY <1>0, <1>1 DEF DavPrefix
<1>5. from \in 0 .. F!SizeOf(b) /\ from \in Nat /\ kept = FrPart(b, from)
  <2>1. CASE range = "partial"
    <3>1. asked0 = "partial" /\ F!IfRangeAllows(req.ifRange, b)
      BY <2>1
    <3>2. req.first \in 0 .. F!SizeOf(b) /\ client.got = FrPart(b, req.first)
      BY <1>0, <3>1, ResumesRight
    <3>3. st = 206 /\ from = req.first
      BY <2>1
    <3> QED BY <1>2, <1>3, <3>2, <3>3
  <2>2. CASE range # "partial"
    <3>1. from = 0 /\ st = 200 /\ kept = <<>>
      BY <2>2
    <3>2. FrPart(b, 0) = <<>>
      BY <1>3, NothingYet
    <3> QED BY <1>2, <1>3, <3>1, <3>2
  <2> QED BY <2>1, <2>2
<1>6. CASE F!Answer(304)
  <2>1. Undisturbed /\ req' \in FrReq /\ req'.pc = "none" /\ req'.row = req.row
    BY <1>0, <1>6, AnswerFacts
  <2>2. FrType' /\ HasPrefix'
    BY <1>0, <1>1, <2>1, UndisturbedKeeps DEF FrType, Undisturbed
  <2>3. Asked'
    BY <1>1, <1>2, <2>1 DEF Asked
  <2> QED BY <1>4, <2>2, <2>3 DEF FrInv
<1>7. CASE F!Answer(416) \/ F!Answer(500)
  BY <1>1, <1>7, Refused
<1>8. CASE /\ req' = [req EXCEPT !.pc = "none", !.status = st]
           /\ client' = [client EXCEPT !.etag = b, !.full = b, !.phase = "idle",
                                       !.got = (IF st = 206 THEN @ ELSE <<>>) \o F!Slice(b, from, req.row.size)]
  <2>1. PICK g : g = FrPart(b, F!SizeOf(b))
    OBVIOUS
  <2>2. kept \o F!Slice(b, from, req.row.size) = g
    <3>1. from <= req.row.size
      BY <1>2, <1>3, <1>5
    <3> HIDE DEF kept, from, b
    <3>2. FrPart(b, from) \o F!Slice(b, from, req.row.size) = FrPart(b, req.row.size)
      BY <1>3, <1>5, <3>1, SliceJoin, Zenon
    <3> QED BY <1>2, <1>5, <2>1, <3>2
  <2>3. g \in Seq(F!AllBlobs \X Nat)
    BY <1>2, <1>3, <2>1, PartLen
  <2>4. st \in Nat
    OBVIOUS
  <2>5. client' = [client EXCEPT !.etag = b, !.full = b, !.phase = "idle", !.got = g]
    <3> HIDE DEF b, from, st
    <3>1. PICK got : got = kept \o F!Slice(b, from, req.row.size)
      <4> HIDE DEF kept
      <4> QED OBVIOUS
    <3>2. client' = [client EXCEPT !.etag = b, !.full = b, !.phase = "idle", !.got = got]
      BY <1>8, <3>1
    <3> HIDE DEF kept
    <3>3. got = g
      BY <2>2, <3>1, Zenon
    <3> QED BY <3>2, <3>3, Zenon
  <2>6. req' \in FrReq /\ req'.pc = "none" /\ req'.row = req.row
    <3> HIDE DEF st
    <3> QED BY <1>0, <1>8, <2>4 DEF FrReq
  <2>7. /\ client' \in FrClient /\ client'.tree = client.tree /\ client'.name = client.name
        /\ client'.etag = b /\ client'.full = b /\ client'.got = g
    <3> HIDE DEF b
    <3> QED BY <1>0, <1>3, <2>3, <2>5 DEF FrClient, FrName
  <2>8. F!SizeOf(b) \in 0 .. F!SizeOf(b)
    BY <1>2, <1>3
  <2>9. HasPrefix'
    BY <1>3, <2>1, <2>7, <2>8, Delivered
  <2>10. FrType'
    BY <1>0, <1>1, <2>6, <2>7 DEF FrType
  <2>11. Asked'
    BY <1>1, <1>2, <2>6 DEF Asked
  <2> QED BY <1>4, <2>9, <2>10, <2>11 DEF FrInv
<1>9. CASE /\ req.row.size - from > WindowSize /\ F!Begin(st)
           /\ req' = [req EXCEPT !.pc = "materialize", !.off = from, !.end = req.row.size, !.status = st]
  <2>1. PICK g : g = FrPart(b, from)
    OBVIOUS
  <2>2. client' = [client EXCEPT !.etag = b, !.got = g, !.full = Nowhere]
    <3> HIDE DEF from, st
    <3>1. client' = [client EXCEPT !.etag = b, !.got = kept, !.full = Nowhere]
      BY <1>9 DEF F!Begin
    <3> HIDE DEF b, kept
    <3>2. kept = g
      BY <1>5, <2>1, Zenon
    <3> QED BY <3>1, <3>2, Zenon
  <2>3. g \in Seq(F!AllBlobs \X Nat) /\ Len(g) = from
    BY <1>3, <1>5, <2>1, PartLen
  <2>4. st \in Nat
    OBVIOUS
  <2>5. /\ req' \in FrReq /\ req'.pc = "materialize" /\ req'.row = req.row /\ req'.off = from
        /\ req'.end = req.row.size
    <3> HIDE DEF st, from
    <3>1. PICK n \in Nat : n = req.row.size
      BY <1>3
    <3>2. PICK at \in Nat : at = from
      BY <1>5
    <3>3. PICK code \in Nat : code = st
      BY <2>4
    <3>4. req' = [req EXCEPT !.pc = "materialize", !.off = at, !.end = n, !.status = code]
      BY <1>9, <3>1, <3>2, <3>3
    <3>5. req' \in FrReq /\ req'.pc = "materialize" /\ req'.row = req.row /\ req'.off = at /\ req'.end = n
      BY <1>0, <3>4 DEF FrReq
    <3> QED BY <3>1, <3>2, <3>5
  <2>6. /\ client' \in FrClient /\ client'.tree = client.tree /\ client'.name = client.name
        /\ client'.etag = b /\ client'.full = Nowhere /\ client'.got = g
    <3> HIDE DEF b
    <3> QED BY <1>0, <1>3, <2>2, <2>3 DEF FrClient, FrName
  <2>7. HasPrefix'
    BY <1>3, <1>5, <2>1, <2>6, Delivered
  <2>8. from < req.row.size
    BY <1>3, <1>5, <1>9, FrontAssumption
  <2>9. FrType'
    BY <1>0, <1>1, <2>5, <2>6 DEF FrType
  <2>10. Asked'
    BY <1>1, <1>2, <2>3, <2>5, <2>6, <2>8 DEF Asked
  <2> QED BY <1>4, <2>7, <2>9, <2>10 DEF FrInv
<1> QED
  BY <1>6, <1>7, <1>8, <1>9 DEF F!FileResponse

LEMMA FeedKeeps ==
    ASSUME FrInv, F!Feed
    PROVE  FrInv'
<1> DEFINE b == req.row.hash
           upto == IF req.off + WindowSize < req.end THEN req.off + WindowSize ELSE req.end
           all == upto = req.end
<1>0. FrType /\ HasPrefix /\ Asked /\ DavPrefix /\ req.pc = "feed" /\ client \in FrClient /\ req \in FrReq
  BY DEF FrInv, F!Feed, FrType
<1>1. UNCHANGED <<tags, imageTag, dav, named, moves>>
  BY DEF F!Feed
<1>2. /\ req.row \in FrRow /\ req.row.size = F!SizeOf(b) /\ b \in named
      /\ client.etag = b /\ client.full = Nowhere /\ Len(client.got) = req.off
      /\ req.end = req.row.size /\ req.off < req.end
  BY <1>0 DEF Asked
<1>3. req.row.size \in Nat /\ b \in F!AllBlobs /\ b # Nowhere /\ req.off \in Nat /\ req.end \in Nat
  BY <1>0, <1>2, BlobSizes DEF FrRow, FrReq
<1>4. client.got = FrPart(b, req.off)
  BY <1>0, <1>2, <1>3 DEF HasPrefix
<1>5. upto \in Nat /\ req.off < upto /\ upto <= req.end /\ upto \in 0 .. F!SizeOf(b)
  BY <1>2, <1>3, FrontAssumption
<1>6. DavPrefix'
  BY <1>0, <1>1 DEF DavPrefix
<1>7. CASE F!Break
  BY <1>0, <1>1, <1>7, Broken
<1>8. CASE /\ req' = [req EXCEPT !.off = upto, !.pc = IF all THEN "none" ELSE "feed"]
           /\ client' = [client EXCEPT !.got = @ \o F!Slice(b, req.off, upto),
                                       !.full = IF all THEN b ELSE Nowhere, !.phase = IF all THEN "idle" ELSE @]
  <2>1. PICK g : g = FrPart(b, upto)
    OBVIOUS
  <2>2. client.got \o F!Slice(b, req.off, upto) = g
    <3>1. req.off <= upto
      BY <1>3, <1>5
    <3> HIDE DEF upto, b
    <3>2. FrPart(b, req.off) \o F!Slice(b, req.off, upto) = FrPart(b, upto)
      BY <1>3, <1>5, <3>1, SliceJoin
    <3> QED BY <1>4, <2>1, <3>2
  <2>3. g \in Seq(F!AllBlobs \X Nat) /\ Len(g) = upto
    BY <1>3, <1>5, <2>1, PartLen
  <2>4. PICK done \in {b, Nowhere} : done = IF all THEN b ELSE Nowhere
    OBVIOUS
  <2>5. PICK ph \in {"idle", "wait"} : ph = IF all THEN "idle" ELSE client.phase
    BY <1>0 DEF FrClient
  <2>6. PICK to \in {"none", "feed"} : to = IF all THEN "none" ELSE "feed"
    OBVIOUS
  <2>7. client' = [client EXCEPT !.got = g, !.full = done, !.phase = ph]
    BY <1>8, <2>2, <2>4, <2>5
  <2>8. /\ req' \in FrReq /\ req'.pc = to /\ req'.row = req.row /\ req'.off = upto /\ req'.end = req.end
    <3>1. req' = [req EXCEPT !.off = upto, !.pc = to]
      BY <1>8, <2>6
    <3> HIDE DEF upto
    <3> QED BY <1>0, <1>5, <3>1 DEF FrReq
  <2>9. /\ client' \in FrClient /\ client'.tree = client.tree /\ client'.name = client.name
        /\ client'.etag = b /\ client'.full = done /\ client'.got = g
    <3> HIDE DEF b
    <3> QED BY <1>0, <1>2, <1>3, <2>3, <2>7 DEF FrClient, FrName
  <2>10. HasPrefix'
    <3>1. done = b => upto = F!SizeOf(b)
      BY <1>2, <1>3, <2>4
    <3> HIDE DEF upto, b
    <3> QED BY <1>3, <1>5, <2>1, <2>9, <3>1, Delivered
  <2>11. FrType'
    BY <1>0, <1>1, <2>8, <2>9 DEF FrType
  <2>12. to = "feed" => done = Nowhere /\ upto < req.end
    BY <1>3, <1>5, <2>4, <2>6
  <2>13. Asked'
    <3> HIDE DEF upto
    <3> QED BY <1>1, <1>2, <2>3, <2>8, <2>9, <2>12 DEF Asked
  <2> QED BY <1>6, <2>10, <2>11, <2>13 DEF FrInv
<1> QED
  BY <1>7, <1>8 DEF F!Feed

LEMMA AskKeeps ==
    ASSUME FrInv, F!Ask
    PROVE  FrInv'
<1>0. FrType /\ HasPrefix /\ Asked /\ DavPrefix /\ client \in FrClient /\ client.asks \in Nat
  BY DEF FrInv, FrType, FrClient
<1>1. UNCHANGED <<tags, imageTag, dav, moves>> /\ named' = F!NamedNow
  BY DEF F!Ask
<1>2. DavPrefix'
  BY <1>0, <1>1 DEF DavPrefix
<1>3. F!NoReq \in FrReq /\ Nowhere \in FrName /\ F!NoReq.first = 0
  BY DEF F!NoReq, FrReq, FrName
<1>4. CASE /\ req' = [F!NoReq EXCEPT !.pc = "gate"]
           /\ client' = [client EXCEPT !.phase = "wait", !.asks = @ + 1, !.got = <<>>, !.etag = Nowhere, !.full = Nowhere]
  <2>1. req' \in FrReq /\ req'.pc = "gate" /\ req'.first = 0
    BY <1>3, <1>4 DEF FrReq
  <2>2. /\ client' \in FrClient /\ client'.tree = client.tree /\ client'.name = client.name
        /\ client'.etag = Nowhere /\ client'.full = Nowhere
    <3>1. <<>> \in Seq(F!AllBlobs \X Nat)
      OBVIOUS
    <3>2. PICK g \in Seq(F!AllBlobs \X Nat) : g = <<>>
      BY <3>1
    <3>3. PICK k \in Nat : k = client.asks + 1
      BY <1>0
    <3>4. client' = [client EXCEPT !.phase = "wait", !.asks = k, !.got = g, !.etag = Nowhere, !.full = Nowhere]
      BY <1>4, <3>2, <3>3
    <3> QED BY <1>0, <1>3, <3>4 DEF FrClient
  <2>3. HasPrefix'
    BY <2>2 DEF HasPrefix
  <2>4. F!NamedNow' = F!NamedNow
    BY <1>1, <2>2, NamedStays
  <2>5. Asked'
    BY <1>1, <2>1, <2>4 DEF Asked
  <2>6. FrType'
    BY <1>0, <1>1, <2>1, <2>2 DEF FrType
  <2> QED BY <1>2, <2>3, <2>5, <2>6 DEF FrInv
<1>5. ASSUME client' = [client EXCEPT !.phase = "wait", !.asks = @ + 1], req' \in FrReq, req'.pc = "gate",
             req'.first > 0 => req'.first = Len(client.got) /\ req'.ifRange = client.etag /\ client.etag # Nowhere
      PROVE  FrInv'
  <2>1. Undisturbed
    <3>1. PICK k \in Nat : k = client.asks + 1
      BY <1>0
    <3>2. client' = [client EXCEPT !.phase = "wait", !.asks = k]
      BY <1>5, <3>1
    <3> QED BY <1>0, <3>2 DEF FrClient, Undisturbed
  <2>2. HasPrefix' /\ F!NamedNow' = F!NamedNow
    BY <1>0, <1>1, <2>1, UndisturbedKeeps, NamedStays DEF Undisturbed
  <2>3. Asked'
    BY <1>1, <1>5, <2>1, <2>2 DEF Asked, Undisturbed
  <2>4. FrType'
    BY <1>0, <1>1, <1>5, <2>1 DEF FrType, Undisturbed
  <2> QED BY <1>2, <2>2, <2>3, <2>4 DEF FrInv
<1>6. CASE /\ client.full # Nowhere
           /\ req' = [F!NoReq EXCEPT !.pc = "gate", !.inm = client.etag] /\ client' = [client EXCEPT !.phase = "wait", !.asks = @ + 1]
  <2>1. client.etag \in FrName
    BY <1>0 DEF FrClient
  <2>2. req' \in FrReq /\ req'.pc = "gate" /\ req'.first = 0
    BY <1>3, <1>6, <2>1 DEF FrReq
  <2> QED BY <1>5, <1>6, <2>2
<1>7. CASE /\ client.full = Nowhere /\ client.etag # Nowhere
           /\ req' = [F!NoReq EXCEPT !.pc = "gate", !.first = Len(client.got), !.ifRange = client.etag]
           /\ client' = [client EXCEPT !.phase = "wait", !.asks = @ + 1]
  <2>1. client.etag \in FrName /\ Len(client.got) \in Nat
    BY <1>0 DEF FrClient
  <2>2. PICK n \in Nat : n = Len(client.got)
    BY <2>1
  <2>3. req' \in FrReq /\ req'.pc = "gate" /\ req'.first = n /\ req'.ifRange = client.etag
    BY <1>3, <1>7, <2>1, <2>2 DEF FrReq
  <2> QED BY <1>5, <1>7, <2>2, <2>3
<1> QED
  BY <1>4, <1>6, <1>7 DEF F!Ask

LEMMA DavKeeps ==
    ASSUME FrInv, F!DavOpen \/ F!DavRead
    PROVE  FrInv'
<1>0. FrType /\ HasPrefix /\ Asked /\ DavPrefix /\ client \in FrClient /\ dav \in FrDav
  BY DEF FrInv, FrType
<1>1. UNCHANGED <<tags, imageTag, client, req, named, moves>>
  BY DEF F!DavOpen, F!DavRead
<1>2. HasPrefix' /\ Asked'
  <2>1. F!NamedNow' = F!NamedNow
    BY <1>1, NamedStays
  <2>2. HasPrefix'
    BY <1>0, <1>1 DEF HasPrefix
  <2> QED BY <1>0, <1>1, <2>1, <2>2 DEF Asked
<1>3. dav' \in FrDav => FrType'
  BY <1>0, <1>1 DEF FrType
<1>4. CASE F!DavOpen
  <2>1. PICK s : s = F!ViewIndex(client.name)
    OBVIOUS
  <2>2. /\ client.tree = "view" /\ FrontPath \in DOMAIN FrontManifests[s]
        /\ dav' = [hash |-> FrontManifests[s][FrontPath].hash, size |-> FrontManifests[s][FrontPath].size, pos |-> 0, got |-> <<>>]
    BY <1>4, <2>1 DEF F!DavOpen
  <2>3. s \in DOMAIN FrontManifests
    BY <1>0, <2>1, <2>2 DEF FrType, F!ViewIndex
  <2>4. PICK r \in FrRow : r = FrontManifests[s][FrontPath] /\ r.size = F!SizeOf(r.hash)
    BY <2>2, <2>3, ManifestRows
  <2>5. PICK b \in F!AllBlobs : b = r.hash
    BY DEF FrRow
  <2>6. PICK n \in Nat : n = r.size
    BY DEF FrRow
  <2>7. PICK g \in Seq(F!AllBlobs \X Nat) : g = <<>>
    <3>1. <<>> \in Seq(F!AllBlobs \X Nat)
      OBVIOUS
    <3> QED BY <3>1
  <2>8. dav' = [hash |-> b, size |-> n, pos |-> 0, got |-> g]
    BY <2>2, <2>4, <2>5, <2>6, <2>7
  <2>9. dav' \in FrDav /\ dav'.hash = b /\ dav'.size = n /\ dav'.pos = 0 /\ dav'.got = g
    BY <2>8 DEF FrDav, FrName
  <2>10. FrPart(b, 0) = <<>>
    BY NothingYet
  <2>11. DavPrefix'
    BY <2>4, <2>5, <2>6, <2>7, <2>9, <2>10 DEF DavPrefix
  <2> QED BY <1>2, <1>3, <2>9, <2>11 DEF FrInv
<1>5. CASE F!DavRead
  <2>1. PICK upto : upto = IF dav.pos + WindowSize < dav.size THEN dav.pos + WindowSize ELSE dav.size
    OBVIOUS
  <2>2. /\ dav.hash # Nowhere /\ dav.pos < dav.size
        /\ dav' = [dav EXCEPT !.pos = upto, !.got = @ \o F!Slice(dav.hash, dav.pos, upto)]
    BY <1>5, <2>1 DEF F!DavRead
  <2>3. PICK b \in F!AllBlobs : b = dav.hash
    BY <1>0, <2>2 DEF FrDav, FrName
  <2>4. dav.pos \in Nat /\ dav.size \in Nat
    BY <1>0 DEF FrDav
  <2>5. upto \in Nat /\ dav.pos <= upto /\ upto <= dav.size
    BY <2>1, <2>2, <2>4, FrontAssumption
  <2>6. dav.size = F!SizeOf(b) /\ dav.got = FrPart(b, dav.pos)
    BY <1>0, <2>2, <2>3 DEF DavPrefix
  <2>7. dav.got \o F!Slice(dav.hash, dav.pos, upto) = FrPart(b, upto)
    <3>1. FrPart(b, dav.pos) \o F!Slice(b, dav.pos, upto) = FrPart(b, upto)
      BY <2>4, <2>5, SliceJoin, Zenon
    <3> QED BY <2>3, <2>6, <3>1, Zenon
  <2>8. PICK g \in Seq(F!AllBlobs \X Nat) : g = FrPart(b, upto)
    BY <2>5, PartLen
  <2>9. dav' = [dav EXCEPT !.pos = upto, !.got = g]
    BY <2>2, <2>7, <2>8
  <2>10. dav' \in FrDav /\ dav'.hash = b /\ dav'.size = dav.size /\ dav'.pos = upto /\ dav'.got = g
    BY <1>0, <2>3, <2>5, <2>9 DEF FrDav
  <2>11. DavPrefix'
    BY <2>5, <2>6, <2>8, <2>10 DEF DavPrefix
  <2> QED BY <1>2, <1>3, <2>10, <2>11 DEF FrInv
<1> QED BY <1>4, <1>5

\* The world moves: what the path comes to name is remembered while a request is under way.
LEMMA WorldKeeps ==
    ASSUME FrInv, UNCHANGED <<client, req, dav>>, moves' \in Nat, named \subseteq named',
           tags' \in [FrontViewNames -> [snap : DOMAIN FrontManifests, at : Nat]], imageTag' \in FrName,
           F!NamedNow \subseteq named => F!NamedNow' \subseteq named'
    PROVE  FrInv'
<1>0. FrType /\ HasPrefix /\ Asked /\ DavPrefix
  BY DEF FrInv
<1>1. FrType' /\ HasPrefix' /\ DavPrefix'
  BY <1>0 DEF FrType, HasPrefix, DavPrefix
<1>2. Asked'
  BY <1>0 DEF Asked
<1> QED BY <1>1, <1>2 DEF FrInv

LEMMA MoveKeeps ==
    ASSUME FrInv,
           \/ \E v \in FrontViewNames : (\E s \in DOMAIN FrontManifests : F!Retag(v, s)) \/ F!Revoke(v)
           \/ \E b \in F!AllBlobs : F!MintImage(b) \/ F!Evict(b) \/ F!Lose(b)
    PROVE  FrInv'
<1>0. /\ tags \in [FrontViewNames -> [snap : DOMAIN FrontManifests, at : Nat]] /\ imageTag \in FrName
      /\ moves \in Nat /\ client \in FrClient
  BY DEF FrInv, FrType
<1>1. ASSUME NEW v \in FrontViewNames, NEW s \in DOMAIN FrontManifests, F!Retag(v, s)
      PROVE  FrInv'
  <2>1. /\ UNCHANGED <<client, req, dav, imageTag>> /\ moves' = moves + 1
        /\ tags' = [tags EXCEPT ![v] = [snap |-> s, at |-> moves + 2]]
        /\ named' = IF client.tree = "view" /\ client.name = v /\ FrontPath \in DOMAIN FrontManifests[s]
                    THEN named \cup {FrontManifests[s][FrontPath].hash} ELSE named
    BY <1>1 DEF F!Retag, F!Moved
  <2>2. moves' \in Nat /\ named \subseteq named' /\ imageTag' \in FrName
    BY <1>0, <2>1
  <2>3. tags' \in [FrontViewNames -> [snap : DOMAIN FrontManifests, at : Nat]]
    BY <1>0, <2>1
  <2>4. ASSUME F!NamedNow \subseteq named PROVE F!NamedNow' \subseteq named'
    <3>1. CASE client.tree = "view" /\ client.name = v
      <4>1. tags'[client.name].snap = s
        BY <1>0, <2>1, <3>1
      <4>2. F!NamedNow' \subseteq {FrontManifests[s][FrontPath].hash} /\ (FrontPath \notin DOMAIN FrontManifests[s] => F!NamedNow' = {})
        BY <2>1, <3>1, <4>1 DEF F!NamedNow
      <4> QED BY <2>1, <2>2, <3>1, <4>2
    <3>2. CASE client.tree = "view" /\ client.name # v
      <4>1. tags'[client.name] = tags[client.name]
        <5>1. client.name \in FrontViewNames
          BY <3>2 DEF FrInv, FrType
        <5> QED BY <1>0, <2>1, <3>2, <5>1
      <4>2. F!NamedNow' = F!NamedNow
        BY <2>1, <3>2, <4>1 DEF F!NamedNow
      <4> QED BY <2>2, <2>4, <4>2
    <3>3. CASE client.tree # "view"
      <4>1. F!NamedNow' = F!NamedNow
        BY <2>1, <3>3 DEF F!NamedNow
      <4> QED BY <2>2, <2>4, <4>1
    <3> QED BY <3>1, <3>2, <3>3
  <2> QED BY <2>1, <2>2, <2>3, <2>4, WorldKeeps
<1>2. ASSUME NEW b \in F!AllBlobs, F!MintImage(b)
      PROVE  FrInv'
  <2>1. /\ UNCHANGED <<client, req, dav, tags>> /\ moves' = moves + 1 /\ imageTag' = b
        /\ named' = IF client.tree = "image" THEN named \cup {b} ELSE named
    BY <1>2 DEF F!MintImage, F!Moved
  <2>2. moves' \in Nat /\ named \subseteq named' /\ imageTag' \in FrName
    BY <1>0, <2>1 DEF FrName
  <2>3. ASSUME F!NamedNow \subseteq named PROVE F!NamedNow' \subseteq named'
    <3>1. CASE client.tree = "image"
      <4>1. F!NamedNow' \subseteq {b}
        BY <2>1, <3>1 DEF F!NamedNow
      <4> QED BY <2>1, <3>1, <4>1
    <3>2. CASE client.tree # "image"
      <4>1. client.tree \in {"view", "snap"}
        BY <1>0, <3>2 DEF FrClient
      <4>2. F!NamedNow' = F!NamedNow
        BY <2>1, <4>1 DEF F!NamedNow
      <4> QED BY <2>2, <2>3, <4>2
    <3> QED BY <3>1, <3>2
  <2> QED BY <1>0, <2>1, <2>2, <2>3, WorldKeeps
<1>3. ASSUME UNCHANGED <<client, req, dav, tags, imageTag, named>>, F!Moved
      PROVE  FrInv'
  <2>1. moves' \in Nat
    BY <1>0, <1>3 DEF F!Moved
  <2>2. F!NamedNow' = F!NamedNow
    BY <1>3, NamedStays
  <2> QED BY <1>0, <1>3, <2>1, <2>2, WorldKeeps
<1> QED
  BY <1>1, <1>2, <1>3 DEF F!Revoke, F!Evict, F!Lose

LEMMA FrStepKeeps ==
    ASSUME FrInv, [F!FNext]_(F!fvars)
    PROVE  FrInv'
<1>1. CASE UNCHANGED F!fvars
  <2>1. UNCHANGED <<client, req, dav, tags, imageTag, named, moves>>
    BY <1>1 DEF F!fvars
  <2>2. F!NamedNow' = F!NamedNow
    BY <2>1, NamedStays
  <2>3. /\ tags' \in [FrontViewNames -> [snap : DOMAIN FrontManifests, at : Nat]] /\ imageTag' \in FrName
        /\ moves' \in Nat
    BY <2>1 DEF FrInv, FrType
  <2> QED BY <2>1, <2>2, <2>3, WorldKeeps
<1> QED
  BY <1>1, AskKeeps, GateKeeps, PermitKeeps, LookupKeeps, LookupImageKeeps, FileResponseKeeps, MaterializeKeeps,
     FeedKeeps, DavKeeps, MoveKeeps DEF F!FNext

\* The file surfaces' half of AnswersExact: a download the client believes complete is one blob from
\* its first byte to its last, however many connections it took, whatever window and whatever the
\* view, the image and the store did in between, an open WebDAV file has read the first bytes of the
\* blob it pinned, and a body or a "not modified" is about a blob the path has named since the
\* request came (http.rs: serve_tree, view_image, file_response, if_range_allows, feed_windows; dav.rs:
\* read_bytes; vfs.rs: view_index).
THEOREM DownloadsAreWhole ==
    Spec => [](part = "front" => F!ResumedWhole /\ F!AnsweredAsNamed)
<1>1. SuiteInit => FrInv
  BY FrInitHolds DEF SuiteInit, FRests
<1>2. FrInv /\ [SuiteNext]_allVars => FrInv'
  <2>1. [SuiteNext]_allVars => [F!FNext]_(F!fvars)
    BY DEF SuiteNext, OStep, JStep, AStep, NStep, PStep, FStep, IStep, DStep, SStep, allVars, FVars,
       F!fvars
  <2> QED BY <2>1, FrStepKeeps
<1>3. FrInv => F!ResumedWhole /\ F!AnsweredAsNamed
  <2> SUFFICES ASSUME FrInv PROVE F!ResumedWhole /\ F!AnsweredAsNamed
    OBVIOUS
  <2>1. client.full # Nowhere => client.got = F!Whole(client.full)
    BY DEF FrInv, HasPrefix
  <2>2. ASSUME dav.hash # Nowhere PROVE dav.got = SubSeq(F!Whole(dav.hash), 1, dav.pos)
    <3>1. dav.hash \in F!AllBlobs /\ dav.pos \in Nat
      BY <2>2 DEF FrInv, FrType, FrDav, FrName
    <3>2. dav.size = F!SizeOf(dav.hash) /\ dav.pos <= dav.size /\ dav.got = FrPart(dav.hash, dav.pos)
      BY <2>2 DEF FrInv, DavPrefix
    <3>3. F!SizeOf(dav.hash) \in Nat
      BY <3>1, BlobSizes
    <3>4. dav.pos \in 0 .. F!SizeOf(dav.hash)
      BY <3>1, <3>2, <3>3
    <3> QED BY <3>1, <3>2, <3>4, PartOfWhole
  <2>3. F!AnsweredAsNamed
    BY DEF F!AnsweredAsNamed, FrInv, Asked
  <2> QED BY <2>1, <2>2, <2>3 DEF F!ResumedWhole
<1> QED
  BY <1>1, <1>2, <1>3, PTL DEF Spec

----------------------------------------------------------------------------
(* Paging through a source's entries.                                       *)

PgShape ==
    /\ DOMAIN pages = {"source", "rows", "total", "still", "over"}
    /\ DOMAIN apiCall = {"kind", "step", "arg", "read"}
    /\ pages.still \in BOOLEAN /\ pages.over \in BOOLEAN /\ pages.source \in Sources \cup {""}
    /\ pages.source = "" => pages.rows = <<>> /\ ~pages.over
    /\ apiCall.kind = "entries" => apiCall.arg \in Sources /\ pages.source = apiCall.arg /\ ~pages.over

\* While nothing changes, the rows are the first n of the listing, the count read is its length, and
\* a walk that is over has all of it.
PgPrefix ==
    pages.still /\ pages.source # "" =>
        LET listing == I!EntriesOf(pages.source)
        IN  /\ \E n \in 0 .. Len(listing) : Len(pages.rows) = n /\ pages.rows = SubSeq(listing, 1, n)
            /\ apiCall.kind = "entries" /\ apiCall.step = 2 => apiCall.read = Len(listing)
            /\ pages.over => pages.rows = listing

PgInv == PgShape /\ PgPrefix

\* A listing is a sequence.
LEMMA ListingType ==
    ASSUME NEW s
    PROVE  \E T : I!EntriesOf(s) \in Seq(T)
<1>0. PICK es : es = I!EntriesNow(s)
  OBVIOUS
<1>1. IsFiniteSet(es)
  <2>1. es \subseteq DOMAIN ApiRows
    BY <1>0 DEF I!EntriesNow
  <2> QED BY <2>1, ApiAssumption, FS_Subset
<1>2. Cardinality(es) \in Nat
  BY <1>1, FS_CardinalityType
<1>3. PICK k \in Nat : k = Cardinality(es)
  BY <1>2
<1>4. PICK f : f = I!EntriesOf(s)
  OBVIOUS
<1>5. PICK T : T = {f[i] : i \in 1 .. k}
  OBVIOUS
<1>6. f = [i \in 1 .. k |-> I!Nth(es, i)]
  <2>1. f = I!ByName(es)
    BY <1>0, <1>4 DEF I!EntriesOf
  <2>2. I!ByName(es) = [i \in 1 .. Cardinality(es) |-> I!Nth(es, i)]
    <3>1. I!Cardinality(es) = Cardinality(es)
      BY DEF I!Cardinality, Cardinality
    <3> QED BY <3>1 DEF I!ByName
  <2> QED BY <1>3, <2>1, <2>2
<1>7. f \in [1 .. k -> T]
  BY <1>5, <1>6, Zenon
<1>8. f \in Seq(T)
  BY <1>7
<1> QED BY <1>4, <1>8

\* The next page of a sequence, after its first n members.
LEMMA NextPage ==
    ASSUME NEW T, NEW q \in Seq(T), NEW n \in 0 .. Len(q)
    PROVE  LET got == I!Page(q, n)
           IN  \E k \in n .. Len(q) :
                   /\ SubSeq(q, 1, n) \o got = SubSeq(q, 1, k) /\ Len(SubSeq(q, 1, k)) = k
                   /\ got = <<>> => k = Len(q)
                   /\ k = Len(q) => SubSeq(q, 1, k) = q
<1>0. PageLimit \in Nat /\ PageLimit # 0
  BY ApiAssumption
<1>1. Len(q) \in Nat /\ n \in Nat /\ n <= Len(q)
  OBVIOUS
<1>2. PICK k : k = IF n + PageLimit < Len(q) THEN n + PageLimit ELSE Len(q)
  OBVIOUS
<1>3. k \in Nat /\ k \in n .. Len(q) /\ (k = n => k = Len(q))
  BY <1>0, <1>1, <1>2
<1>4. PICK got : got = SubSeq(q, n + 1, k)
  OBVIOUS
<1>5. I!Page(q, n) = got
  BY <1>2, <1>4 DEF I!Page
<1>6. SubSeq(q, 1, n) \o got = SubSeq(q, 1, k)
  <2>1. 1 \in 1 .. Len(q) + 1 /\ n \in (1 - 1) .. Len(q)
    BY <1>1
  <2> QED BY <1>3, <1>4, <2>1, ConcatAdjacentSubSeq
<1>7. Len(SubSeq(q, 1, k)) = k
  BY <1>1, <1>3
<1>8. got = <<>> => k = n
  <2>1. \A i \in (n + 1) .. k : q[i] \in T
    BY <1>1, <1>3
  <2>2. n + 1 \in Int /\ k \in Int
    BY <1>1, <1>3
  <2>3. Len(got) = IF n + 1 <= k THEN k - (n + 1) + 1 ELSE 0
    BY <1>4, <2>1, <2>2, SubSeqProperties
  <2>4. got = <<>> => Len(got) = 0
    OBVIOUS
  <2> QED BY <1>1, <1>3, <2>3, <2>4
<1>9. k = Len(q) => SubSeq(q, 1, k) = q
  BY SubSeqFull
<1> QED BY <1>3, <1>5, <1>6, <1>7, <1>8, <1>9

LEMMA PgInitHolds ==
    ASSUME I!ApiInit
    PROVE  PgInv
BY DEF I!ApiInit, I!NoPages, I!NoCall, PgInv, PgShape, PgPrefix

\* The listings move with the current revisions only.
LEMMA ListingStays ==
    ASSUME NEW s, UNCHANGED current
    PROVE  I!EntriesOf(s)' = I!EntriesOf(s)
BY DEF I!EntriesOf, I!ByName, I!EntriesNow, I!Current

\* A step that is not about entries leaves the walk alone.
LEMMA WalkAlone ==
    ASSUME PgInv, UNCHANGED <<current, pages>>, DOMAIN apiCall' = {"kind", "step", "arg", "read"},
           apiCall'.kind # "entries"
    PROVE  PgInv'
<1>1. PgShape'
  BY DEF PgInv, PgShape
<1>2. PgPrefix'
  <2>1. I!EntriesOf(pages.source)' = I!EntriesOf(pages.source)
    BY ListingStays
  <2> QED BY <2>1 DEF PgInv, PgPrefix
<1> QED BY <1>1, <1>2 DEF PgInv

LEMMA PgOthers ==
    ASSUME PgInv,
           \/ I!Request("breakdown", 0) /\ UNCHANGED pages
           \/ (\E b \in ApiInstanceBlobs : I!Request("detail", b)) /\ UNCHANGED pages
           \/ \E e \in DOMAIN ApiRows : I!Request("entry", e) /\ UNCHANGED pages
           \/ I!BreakdownSources \/ I!BreakdownRest \/ I!DetailClaims \/ I!DetailWalks \/ I!DetailRoots
           \/ I!EntryShown
    PROVE  PgInv'
<1>0. UNCHANGED <<current, pages>>
  BY DEF I!Request, I!BreakdownSources, I!BreakdownRest, I!DetailClaims, I!DetailWalks, I!DetailRoots,
         I!EntryShown, I!Reads
<1>d. DOMAIN apiCall = {"kind", "step", "arg", "read"}
  BY DEF PgInv, PgShape
<1>1. DOMAIN apiCall' = {"kind", "step", "arg", "read"} /\ apiCall'.kind # "entries"
  <2>1. ASSUME NEW kind, NEW arg, kind \in {"breakdown", "detail", "entry"}, I!Request(kind, arg)
        PROVE  DOMAIN apiCall' = {"kind", "step", "arg", "read"} /\ apiCall'.kind # "entries"
    BY <2>1 DEF I!Request
  <2>2. CASE I!BreakdownRest \/ I!DetailRoots \/ I!EntryShown
    BY <2>2 DEF I!BreakdownRest, I!DetailRoots, I!EntryShown, I!NoCall
  <2>3. CASE I!BreakdownSources
    <3>1. PICK x : apiCall' = [apiCall EXCEPT !.step = 2, !.read = x] /\ apiCall.kind = "breakdown"
      BY <2>3 DEF I!BreakdownSources
    <3> QED BY <1>d, <3>1
  <2>4. CASE I!DetailClaims
    <3>1. PICK x : apiCall' = [apiCall EXCEPT !.step = 2, !.read = x] /\ apiCall.kind = "detail"
      BY <2>4 DEF I!DetailClaims
    <3> QED BY <1>d, <3>1
  <2>5. CASE I!DetailWalks
    <3>1. PICK x : apiCall' = [apiCall EXCEPT !.step = 3, !.read = x] /\ apiCall.kind = "detail"
      BY <2>5 DEF I!DetailWalks
    <3> QED BY <1>d, <3>1
  <2> QED BY <2>1, <2>2, <2>3, <2>4, <2>5
<1> QED BY <1>0, <1>1, WalkAlone

\* A request for a page of s, by a client that walks s or nothing yet.
PgAsks(s) ==
    /\ pages.source \in {"", s} /\ ~pages.over /\ I!Request("entries", s)
    /\ pages' = IF pages.source = "" THEN [pages EXCEPT !.source = s] ELSE pages

LEMMA PgAsk ==
    ASSUME PgInv, NEW s \in Sources, PgAsks(s)
    PROVE  PgInv'
<1>0. PgShape /\ PgPrefix /\ s # "" /\ pages.source \in {"", s} /\ pages.over = FALSE
  BY ApiAssumption, Zenon DEF PgInv, PgShape, PgAsks
<1>1. /\ UNCHANGED current /\ DOMAIN apiCall' = {"kind", "step", "arg", "read"}
      /\ apiCall'.kind = "entries" /\ apiCall'.step = 1 /\ apiCall'.arg = s
  BY DEF PgAsks, I!Request, I!Reads
<1>2. /\ DOMAIN pages' = {"source", "rows", "total", "still", "over"} /\ pages'.source = s
      /\ pages'.rows = pages.rows /\ pages'.still = pages.still /\ pages'.over = pages.over
  <2>1. pages' = IF pages.source = "" THEN [pages EXCEPT !.source = s] ELSE pages
    BY Zenon DEF PgAsks
  <2> QED BY <1>0, <2>1 DEF PgShape
<1>3. PgShape'
  BY <1>0, <1>1, <1>2 DEF PgShape
<1>4. PgPrefix'
  <2>1. PICK listing : listing = I!EntriesOf(s)
    OBVIOUS
  <2>2. PICK T : listing \in Seq(T)
    BY <2>1, ListingType
  <2>3. I!EntriesOf(pages.source)' = listing
    BY <1>1, <1>2, <2>1, ListingStays
  <2>4. ASSUME pages.still PROVE \E n \in 0 .. Len(listing) : Len(pages.rows) = n /\ pages.rows = SubSeq(listing, 1, n)
    <3>1. CASE pages.source = ""
      <4>1. pages.rows = <<>>
        BY <1>0, <3>1 DEF PgShape
      <4>2. SubSeq(listing, 1, 0) = <<>>
        BY SubSeqEmpty
      <4>3. Len(<<>>) = 0
        OBVIOUS
      <4>4. 0 \in 0 .. Len(listing)
        <5>1. Len(listing) \in Nat
          BY <2>2, LenProperties
        <5> QED BY <5>1
      <4> QED BY <4>1, <4>2, <4>3, <4>4
    <3>2. CASE pages.source = s
      BY <1>0, <2>1, <2>4, <3>2 DEF PgPrefix
    <3> QED BY <1>0, <3>1, <3>2
  <2>5. ~pages'.over /\ apiCall'.step # 2
    <3>1. pages'.over = FALSE
      BY <1>0, <1>2
    <3>2. apiCall'.step # 2
      BY <1>1
    <3> QED BY <3>1, <3>2
  <2> QED BY <1>2, <2>3, <2>4, <2>5 DEF PgPrefix
<1> QED BY <1>3, <1>4 DEF PgInv

LEMMA PgCount ==
    ASSUME PgInv, I!EntriesCount
    PROVE  PgInv'
<1>0. PgShape /\ PgPrefix /\ UNCHANGED <<current, pages>> /\ apiCall.kind = "entries"
  BY DEF PgInv, I!EntriesCount, I!Reads
<1>1. PICK m : m = Len(I!EntriesOf(apiCall.arg))
  OBVIOUS
<1>2. apiCall' = [apiCall EXCEPT !.step = 2, !.read = m]
  BY <1>1 DEF I!EntriesCount
<1>3. /\ DOMAIN apiCall' = {"kind", "step", "arg", "read"} /\ apiCall'.kind = "entries" /\ apiCall'.arg = apiCall.arg
      /\ apiCall'.read = m
  BY <1>0, <1>2 DEF PgShape
<1>4. PgShape'
  BY <1>0, <1>3 DEF PgShape
<1>5. PgPrefix'
  <2>1. I!EntriesOf(pages.source)' = I!EntriesOf(pages.source)
    BY <1>0, ListingStays
  <2>2. pages.source = apiCall.arg
    BY <1>0 DEF PgShape
  <2> QED BY <1>0, <1>1, <1>3, <2>1, <2>2 DEF PgPrefix
<1> QED BY <1>4, <1>5 DEF PgInv

LEMMA PgRows ==
    ASSUME PgInv, I!EntriesRows
    PROVE  PgInv'
<1>0. PgShape /\ PgPrefix /\ UNCHANGED current /\ apiCall.kind = "entries" /\ apiCall.step = 2
  BY DEF PgInv, I!EntriesRows, I!Reads
<1>1. apiCall.arg \in Sources /\ pages.source = apiCall.arg /\ apiCall.arg # ""
  BY <1>0, ApiAssumption DEF PgShape
<1>2. PICK listing : listing = I!EntriesOf(apiCall.arg)
  OBVIOUS
<1>3. PICK T : listing \in Seq(T)
  BY <1>2, ListingType
<1>4. PICK got : got = I!Page(listing, Len(pages.rows))
  OBVIOUS
<1>5. PICK rows : rows = pages.rows \o got
  OBVIOUS
<1>6. PICK over \in BOOLEAN : over = (got = <<>> \/ Len(rows) >= apiCall.read)
  OBVIOUS
<1>7. /\ pages' = [pages EXCEPT !.source = apiCall.arg, !.rows = rows, !.total = apiCall.read, !.over = over]
      /\ apiCall' = I!NoCall
  BY <1>2, <1>4, <1>5, <1>6 DEF I!EntriesRows
<1>8. /\ DOMAIN pages' = {"source", "rows", "total", "still", "over"} /\ pages'.source = apiCall.arg
      /\ pages'.rows = rows /\ pages'.still = pages.still /\ pages'.over = over
      /\ DOMAIN apiCall' = {"kind", "step", "arg", "read"} /\ apiCall'.kind = "none"
  BY <1>0, <1>7 DEF PgShape, I!NoCall
<1>9. PgShape'
  BY <1>0, <1>1, <1>8 DEF PgShape
<1>10. PgPrefix'
  <2> SUFFICES ASSUME pages.still
               PROVE  /\ \E k \in 0 .. Len(listing) : Len(rows) = k /\ rows = SubSeq(listing, 1, k)
                      /\ over => rows = listing
    <3>1. I!EntriesOf(pages.source)' = listing
      BY <1>0, <1>2, <1>8, ListingStays
    <3> QED BY <1>8, <3>1 DEF PgPrefix
  <2>1. PICK n \in 0 .. Len(listing) : Len(pages.rows) = n /\ pages.rows = SubSeq(listing, 1, n)
    BY <1>0, <1>1, <1>2 DEF PgPrefix
  <2>2. apiCall.read = Len(listing)
    BY <1>0, <1>1, <1>2 DEF PgPrefix
  <2>3. PICK k \in n .. Len(listing) :
            /\ SubSeq(listing, 1, n) \o got = SubSeq(listing, 1, k) /\ Len(SubSeq(listing, 1, k)) = k
            /\ got = <<>> => k = Len(listing)
            /\ k = Len(listing) => SubSeq(listing, 1, k) = listing
    BY <1>3, <1>4, <2>1, NextPage
  <2>4. rows = SubSeq(listing, 1, k) /\ Len(rows) = k
    BY <1>5, <2>1, <2>3
  <2>5. Len(listing) \in Nat /\ k \in Nat /\ k <= Len(listing) /\ k \in 0 .. Len(listing)
    BY <1>3
  <2>6. ASSUME over PROVE k = Len(listing)
    <3>1. got = <<>> \/ Len(rows) >= apiCall.read
      BY <1>6, <2>6, Zenon
    <3>2. CASE got = <<>>
      BY <2>3, <3>2
    <3>3. CASE Len(rows) >= apiCall.read
      BY <2>2, <2>4, <2>5, <3>3
    <3> QED BY <3>1, <3>2, <3>3
  <2> QED BY <2>3, <2>4, <2>5, <2>6
<1> QED BY <1>9, <1>10 DEF PgInv

LEMMA PgChange ==
    ASSUME PgInv, I!Change
    PROVE  PgInv'
<1>0. PgShape /\ UNCHANGED apiCall /\ pages' = [pages EXCEPT !.still = @ /\ pages.source = ""]
  BY DEF PgInv, I!Change
<1>1. PICK still \in BOOLEAN : still = (pages.still /\ pages.source = "")
  OBVIOUS
<1>2. /\ DOMAIN pages' = {"source", "rows", "total", "still", "over"} /\ pages'.source = pages.source
      /\ pages'.rows = pages.rows /\ pages'.still = still /\ pages'.over = pages.over
  <2>1. pages' = [pages EXCEPT !.still = still]
    BY <1>0, <1>1 DEF PgShape
  <2> QED BY <1>0, <2>1 DEF PgShape
<1>3. PgShape'
  BY <1>0, <1>2 DEF PgShape
<1>4. PgPrefix'
  BY <1>1, <1>2 DEF PgPrefix
<1> QED BY <1>3, <1>4 DEF PgInv

LEMMA PgStepKeeps ==
    ASSUME PgInv, [I!ApiNext]_(I!apivars)
    PROVE  PgInv'
<1>1. CASE UNCHANGED I!apivars
  <2>1. UNCHANGED <<current, pages, apiCall>>
    BY <1>1 DEF I!apivars
  <2>2. I!EntriesOf(pages.source)' = I!EntriesOf(pages.source)
    BY <2>1, ListingStays
  <2> QED BY <2>1, <2>2 DEF PgInv, PgShape, PgPrefix
<1>2. CASE I!Ask
  <2>1. \/ \E s \in Sources : PgAsks(s)
        \/ I!Request("breakdown", 0) /\ UNCHANGED pages
        \/ (\E b \in ApiInstanceBlobs : I!Request("detail", b)) /\ UNCHANGED pages
        \/ \E e \in DOMAIN ApiRows : I!Request("entry", e) /\ UNCHANGED pages
    BY <1>2, Zenon DEF I!Ask, PgAsks
  <2> QED BY <2>1, PgOthers, PgAsk, Zenon
<1>3. CASE \/ I!BreakdownSources \/ I!BreakdownRest \/ I!DetailClaims \/ I!DetailWalks \/ I!DetailRoots
           \/ I!EntryShown
  BY <1>3, PgOthers
<1>4. CASE \E s \in Sources : I!Import(s)
  BY <1>4, PgChange DEF I!Import
<1>5. CASE \E r \in DOMAIN ApiInstanceRecipes : I!Poison(r)
  BY <1>5, PgChange DEF I!Poison
<1> QED
  BY <1>1, <1>2, <1>3, <1>4, <1>5, PgCount, PgRows DEF I!ApiNext

\* PagingExact, the paging part of AnswersExact: a client that pages through a source's entries while
\* nothing changes has every entry of the listing once and in order when a page comes back empty or
\* the count says it is done, whatever the size of a page (api.rs: entries_body).
THEOREM PagesShowEverything == Spec => [](part = "api" => I!PagingExact)
<1>1. SuiteInit => PgInv
  BY PgInitHolds DEF SuiteInit, IRests
<1>2. PgInv /\ [SuiteNext]_allVars => PgInv'
  <2>1. [SuiteNext]_allVars => [I!ApiNext]_(I!apivars)
    BY DEF SuiteNext, OStep, JStep, AStep, NStep, PStep, FStep, IStep, DStep, SStep, allVars, IVars,
       I!apivars
  <2> QED BY <2>1, PgStepKeeps
<1>3. PgInv => I!PagingExact
  BY DEF PgInv, PgShape, PgPrefix, I!PagingExact
<1> QED
  BY <1>1, <1>2, <1>3, PTL DEF Spec

=============================================================================
