----------------------------- MODULE MCServices -----------------------------
(* The daemon's services, checked in one run: the orphan collector, the job *)
(* registry, accounts and sessions, the NFS view and its procedures, the    *)
(* HTTP and WebDAV front ends, the API's reads, the maintenance it starts   *)
(* and the state snapshots.  They share no state here; `part` says which of *)
(* them a behaviour is about, and the others rest.                          *)
EXTENDS Integers, Sequences, FiniteSets, TLC

CONSTANTS OBlobs, Appliers, Grace, MaxIngests, MaxNames, MaxDeaths, Files, Runs, KeepFinished,
    LedgerKeep, MaxFaults, MaxRestarts, Names, Invites, Clients, Views, SessionTtl, MaxClock,
    MaxSessions, v1, s1, s2, Root, NoNode, ViewNames, Snaps, ColdCeiling, Walkers, MaxRequests,
    MaxEvals, MaxNfsRestarts, FrontViewNames, FrontBlobs, FrontManifests, FrontCallers, FrontPath,
    FirstSnap, WindowSize, CacheCap, Nowhere, MaxMoves, MaxAsks, Sources, ApiRows, Revisions, RootCap, PageLimit, MaxChanges, MaxCalls, OnJobs,
    MaxSnapshotsChanges, MaxDemands, MaxSnapshotsFaults, MaxLosses

\* Job ids start at one, a lifetime is a number of ticks, and the ledger keeps at least the
\* newest finished job (500 of them in the code).
ASSUME ServiceAssumption ==
    OnJobs \subseteq Nat \ {0} /\ SessionTtl \in Nat /\ KeepFinished \in Nat /\ LedgerKeep \in Nat \ {0}

\* A window of a body is not empty, a manifest row names a blob and its size, a blob is named by its
\* content and so has one size, and every caller asks for a view that exists or a snapshot.
ASSUME FrontAssumption ==
    /\ WindowSize \in Nat \ {0} /\ Nowhere \notin FrontBlobs
    /\ FirstSnap \in DOMAIN FrontManifests
    /\ \A s \in DOMAIN FrontManifests : \A p \in DOMAIN FrontManifests[s] :
            FrontManifests[s][p] \in [hash : FrontBlobs, size : Nat, seek : 0 .. 2]
    /\ \A s, t \in DOMAIN FrontManifests :
            \A p \in DOMAIN FrontManifests[s], q \in DOMAIN FrontManifests[t] :
                FrontManifests[s][p].hash = FrontManifests[t][q].hash
                    => FrontManifests[s][p].size = FrontManifests[t][q].size
    /\ \A c \in FrontCallers :
            /\ c[1] \in {"local", "owner", "user", "anonymous"} /\ c[2] \in {"view", "image", "snap"}
            /\ c[3] \in IF c[2] = "snap" THEN DOMAIN FrontManifests ELSE FrontViewNames

\* The catalogue has finitely many entries, no source without a name, and a page holds a row.
ASSUME ApiAssumption == IsFiniteSet(DOMAIN ApiRows) /\ "" \notin Sources /\ PageLimit \in Nat \ {0}

\* Two snapshots of the one NFS view: the second has lost a file.
NfsFiles == <<"a", "b">>
NfsTree == s1 :> {"a", "b"} @@ s2 :> {"b"}

\* NFS inode hashes: all distinct, or with one file of the first snapshot hashing
\* to another's number at its first probe.
NfsNodes == {v1} \cup ({s1, s2} \X {"a", "b"})
NfsNumber(n) == IF n = v1 THEN 2 ELSE (IF n[1] = s1 THEN 3 ELSE 5) + (IF n[2] = "a" THEN 0 ELSE 1)
Distinct == [n \in NfsNodes |-> [p \in 0 .. 2 |-> NfsNumber(n) + 10 * p]]
NfsHashes == {Distinct, [Distinct EXCEPT ![<<s1, "b">>][0] = NfsNumber(<<s1, "a">>)]}

\* What a call of the NFS, MOUNT or portmap program may meet.
ProcOutcomes ==
    [rw : BOOLEAN, vers : BOOLEAN, args : BOOLEAN, sound : BOOLEAN, fh : BOOLEAN, fh2 : BOOLEAN,
     attr : BOOLEAN, attr2 : BOOLEAN, op : BOOLEAN, exists : BOOLEAN,
     mode : {"unchecked", "guarded", "exclusive"}]
ProcAtRest == CHOOSE o \in ProcOutcomes : TRUE

\* Versions of a view: the second's file is as long as the first's blob was cut,
\* the third's shorter, and in the others the path is a directory or gone.
FrontRow(h, n, k) == [hash |-> h, size |-> n, seek |-> k]
FrontSnaps ==
    [s1 |-> (<<"a", "x">> :> FrontRow("big", 5, 2)) @@ (<<"b">> :> FrontRow("one", 1, 0)),
     s2 |-> <<"a", "x">> :> FrontRow("new", 4, 1),
     s3 |-> <<"a", "x">> :> FrontRow("one", 1, 0),
     s4 |-> <<"a", "x", "y">> :> FrontRow("one", 1, 0),
     s5 |-> <<"b">> :> FrontRow("one", 1, 0)]
FrontClients ==
    {<<"local", "view", "v">>, <<"user", "view", "v">>, <<"user", "snap", "s1">>,
     <<"owner", "image", "v">>, <<"anonymous", "view", "v">>}
FrontWanted == <<"a", "x">>

\* Blobs 1 and 2 are chunks of the container 3, whose member is 4; 5 stands alone.
ApiInstanceBlobs == 1 .. 5
ApiInstanceRecipes == <<[ins |-> {1, 2}, outs |-> {3}], [ins |-> {3}, outs |-> {4}]>>
ApiEntry(s, r, n, b) == [source |-> s, rev |-> r, name |-> n, blobs |-> b]
ApiInstanceEntries ==
    <<ApiEntry("sA", 1, "g", {3}), ApiEntry("sA", 1, "g", {4}), ApiEntry("sA", 1, "h", {5}),
      ApiEntry("sA", 2, "h", {4}), ApiEntry("sB", 1, "k", {1})>>

VARIABLES
    part,   \* the part this behaviour is about
    loose, packed, rowed, queued, linked, tagged, keeps, age, mutex, guard, apc, skips, wanted,
    packing, todo, ipc, rooted, ingests, names, deaths, disk, upc, tokens, ledger, jobs, nextId,
    rpc, rid, owned, read, spent, outcome, ingested, abandoned, unrecorded, faults, restarts,
    clock, users, invites, sessions, grants, minted, reqPc, reqName, reqInvite, reqRole, made,
    idHash, tag, bound, cold, held, npc, asked, fid, found, status, answered, cookie, seen,
    walked, lives, evals, reboots, requests, call, procsOutcome, reply, calls, tags, imageTag,
    frontHeld, rebuilt, frontGrants, manifests, client, req, dav, named, moves, current, failed,
    apiCall, answer, truth, pages, changes, apiCalls, ondemandGuard, tasks, dark, ambient, live,
    file, objs, log, minter, good, recov, fresh, used

O == INSTANCE Orphans
J == INSTANCE Jobs
A == INSTANCE Auth
N == INSTANCE Nfs WITH Files <- NfsFiles, Tree <- NfsTree, Hashes <- NfsHashes
P == INSTANCE NfsProcs WITH Outcomes <- ProcOutcomes, outcome <- procsOutcome
F == INSTANCE Front WITH Snapshots <- FrontManifests, ViewNames <- FrontViewNames, Clients <- FrontCallers,
      Wanted <- FrontPath, held <- frontHeld, grants <- frontGrants
I == INSTANCE Api WITH ApiBlobs <- ApiInstanceBlobs, ApiRecipes <- ApiInstanceRecipes,
      ApiEntries <- ApiRows, call <- apiCall, calls <- apiCalls
D == INSTANCE OnDemand WITH guard <- ondemandGuard
S == INSTANCE Snapshots WITH MaxChanges <- MaxSnapshotsChanges, MaxFaults <- MaxSnapshotsFaults

OVars == <<loose, packed, rowed, queued, linked, tagged, keeps, age, mutex, guard, apc, skips,
    wanted, packing, todo, ipc, rooted, ingests, names, deaths>>
JVars == <<disk, upc, tokens, ledger, jobs, nextId, rpc, rid, owned, read, spent, outcome,
    ingested, abandoned, unrecorded, faults, restarts>>
AVars == <<clock, users, invites, sessions, grants, minted, reqPc, reqName, reqInvite, reqRole,
    made>>
NVars == <<idHash, tag, bound, cold, held, npc, asked, fid, found, status, answered, cookie,
    seen, walked, lives, evals, reboots, requests>>
PVars == <<call, procsOutcome, reply, calls>>
FVars == <<tags, imageTag, frontHeld, rebuilt, frontGrants, manifests, client, req, dav, named,
    moves>>
IVars == <<current, failed, apiCall, answer, truth, pages, changes, apiCalls>>
DVars == <<ondemandGuard, tasks, dark, ambient>>
SVars == <<live, file, objs, log, minter, good, recov, fresh, used>>
allVars == <<part, OVars, JVars, AVars, NVars, PVars, FVars, IVars, DVars, SVars>>

\* The parts a behaviour is not about rest in one initial state.
ORests == packed = {} /\ O!OInit
JRests == J!JInit
ARests == A!AInit
NRests == idHash = Distinct /\ N!NInit
PRests == call = "acl" /\ procsOutcome = ProcAtRest /\ P!PInit
FRests == frontHeld = {} /\ frontGrants = {} /\ F!FInit /\ client.who = "local"
IRests == I!ApiInit
DRests == D!OdInit
SRests == S!SnInit

SuiteInit ==
    \/ part = "orphans" /\ JRests /\ ARests /\ NRests /\ PRests /\ FRests /\ IRests /\ DRests /\
        SRests /\ O!OInit
    \/ part = "jobs" /\ ORests /\ ARests /\ NRests /\ PRests /\ FRests /\ IRests /\ DRests /\
        SRests /\ J!JInit
    \/ part = "auth" /\ ORests /\ JRests /\ NRests /\ PRests /\ FRests /\ IRests /\ DRests /\
        SRests /\ A!AInit
    \/ part = "nfs" /\ ORests /\ JRests /\ ARests /\ PRests /\ FRests /\ IRests /\ DRests /\
        SRests /\ N!NInit
    \/ part = "procs" /\ ORests /\ JRests /\ ARests /\ NRests /\ FRests /\ IRests /\ DRests /\
        SRests /\ P!PInit
    \/ part = "front" /\ ORests /\ JRests /\ ARests /\ NRests /\ PRests /\ IRests /\ DRests /\
        SRests /\ F!FInit
    \/ part = "api" /\ ORests /\ JRests /\ ARests /\ NRests /\ PRests /\ FRests /\ DRests /\
        SRests /\ I!ApiInit
    \/ part = "ondemand" /\ ORests /\ JRests /\ ARests /\ NRests /\ PRests /\ FRests /\ IRests /\
        SRests /\ D!OdInit
    \/ part = "snapshots" /\ ORests /\ JRests /\ ARests /\ NRests /\ PRests /\ FRests /\
        IRests /\ DRests /\ S!SnInit

OStep ==
    /\ part = "orphans" /\ O!ONext
    /\ UNCHANGED <<part, JVars, AVars, NVars, PVars, FVars, IVars, DVars, SVars>>
JStep ==
    /\ part = "jobs" /\ J!JNext
    /\ UNCHANGED <<part, OVars, AVars, NVars, PVars, FVars, IVars, DVars, SVars>>
AStep ==
    /\ part = "auth" /\ A!ANext
    /\ UNCHANGED <<part, OVars, JVars, NVars, PVars, FVars, IVars, DVars, SVars>>
NStep ==
    /\ part = "nfs" /\ N!NNext
    /\ UNCHANGED <<part, OVars, JVars, AVars, PVars, FVars, IVars, DVars, SVars>>
PStep ==
    /\ part = "procs" /\ P!PNext
    /\ UNCHANGED <<part, OVars, JVars, AVars, NVars, FVars, IVars, DVars, SVars>>
FStep ==
    /\ part = "front" /\ F!FNext
    /\ UNCHANGED <<part, OVars, JVars, AVars, NVars, PVars, IVars, DVars, SVars>>
IStep ==
    /\ part = "api" /\ I!ApiNext
    /\ UNCHANGED <<part, OVars, JVars, AVars, NVars, PVars, FVars, DVars, SVars>>
DStep ==
    /\ part = "ondemand" /\ D!OdNext
    /\ UNCHANGED <<part, OVars, JVars, AVars, NVars, PVars, FVars, IVars, SVars>>
SStep ==
    /\ part = "snapshots" /\ S!SnNext
    /\ UNCHANGED <<part, OVars, JVars, AVars, NVars, PVars, FVars, IVars, DVars>>

SuiteNext == OStep \/ JStep \/ AStep \/ NStep \/ PStep \/ FStep \/ IStep \/ DStep \/ SStep

Spec == SuiteInit /\ [][SuiteNext]_allVars

\* The orphan collector: every packed or linked blob has a row; nothing is deleted that is kept
\* when it is deleted, and what is rooted when the apply claims the guard survives it.
DeletesOnlyOrphans ==
    /\ [](part = "orphans" => O!PackedHasRow /\ O!LinkedHasRow)
    /\ O!KeptAtDeleteTime /\ O!RootedAtClaimSurvives

\* The job registry: no short file is ingested, an upload is spent once and never left staged
\* without an owner, the tray shows every running job and the ledger the true outcomes.
JobsHonest ==
    part = "jobs" =>
        /\ J!NoShortRom
        /\ J!SpentOnce
        /\ J!NoStagingLeak
        /\ J!TrayHonest
        /\ J!LedgerHonest

\* Accounts and sessions: an invite makes one account, nobody holds authority that nobody gave,
\* and the sweep removes no live session.
AuthoritySound ==
    /\ [](part = "auth" => A!OneAccountPerInvite /\ A!NoStrayAuthority)
    /\ A!SweepSparesLive

\* The NFS view: ids name one node and serve it as named, a walk sees every entry once and is
\* not stranded; every reply decodes, and nothing is written.
NfsFaithful ==
    /\ part = "nfs" =>
           /\ N!TableBijective
           /\ N!ServedAsNamed
           /\ N!WalkFaithful
           /\ N!WalkNotStranded
    /\ part = "procs" => P!RepliesDecode /\ P!ReadOnlyHolds

\* The front ends and the API's reads: a download put together from ranges is one version of the
\* file, what is answered is what the request names, attribution is the closure of live recipes,
\* and paging shows every entry once.
AnswersExact ==
    /\ part = "front" => F!ResumedWhole /\ F!AnsweredAsNamed
    /\ part = "api" => I!AttributionExact /\ I!PagingExact

\* Maintenance on request: the gc guard is back by the time its job is over.
GuardBackWithJob == part = "ondemand" => D!GuardBackWithJob

\* State snapshots: the sequences one identity mints ascend, across deaths, concurrent mints and
\* the loss and recovery of the databases.
MintsAscend == part = "snapshots" => S!MintsAscend

=============================================================================
