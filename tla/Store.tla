-------------------------------- MODULE Store --------------------------------
(****************************************************************************)
(* The file store of datboi-store-fs: loose blobs, outboard sidecars and    *)
(* sealed packs, published by temp file, file sync, rename and directory    *)
(* sync, read by threads that take no lock, and reopened after a crash.     *)
(*                                                                          *)
(* A name is a directory entry: <<"loose", h>>, <<"side", h>>, <<"pack", S>>*)
(* with S the set of the pack's members (a pack is named by its contents).  *)
(* "live" is what processes see, "disk" what the last directory sync made   *)
(* durable; an entry in which the two differ may go either way in a crash.  *)
(****************************************************************************)
EXTENDS Naturals, FiniteSets

CONSTANTS Blobs,        \* blob identities (blake3 of their bytes)
          Big,          \* the blobs longer than one chunk group: they have a tree
          Threads,
          None,
          Trees,        \* the store trees a behaviour may be opened on
          MaxOps,       \* bound: operations begun in a behaviour
          MaxCrashes,   \* bound: crashes in a behaviour
          MaxFaults     \* bound: failing system calls in a behaviour

Packs == (SUBSET Blobs) \ {{}}
NoPack == {}
Loose(h) == <<"loose", h>>
Side(h)  == <<"side", h>>
Pack(S)  == <<"pack", S>>
Names == {Loose(h) : h \in Blobs} \cup {Side(h) : h \in Blobs} \cup {Pack(S) : S \in Packs}

ASSUME StoreAssumption ==
    /\ Big \subseteq Blobs
    /\ None \notin Blobs
    /\ \A T \in Trees : T \subseteq Names
    /\ MaxOps \in Nat /\ MaxCrashes \in Nat /\ MaxFaults \in Nat

VARIABLES
    live, disk,   \* directory entries: visible, durable
    dirty,        \* entries renamed into place before their bytes were synced
    torn,         \* entries a crash left with partial bytes
    map,          \* Store::packs, the resolution map: blob -> pack or NoPack
    op, blob, members, gone, pc, out,   \* the operation each thread runs
    acked,        \* blobs a put has reported Stored, their removal not asked since
    answered,     \* blobs a put has reported AlreadyPresent, likewise
    spoiled,      \* entries whose directory sync failed after the rename
    steady,       \* per thread: its blob was held and wanted since it began
    ops, crashes, faults

files == <<live, disk, dirty, torn>>
job   == <<op, blob, members, gone, pc, out>>
hist  == <<acked, answered, spoiled>>
tally == <<ops, crashes, faults>>
vars  == <<files, map, job, hist, steady, tally>>

Holds(n, h) == n = Loose(h) \/ \E S \in Packs : n = Pack(S) /\ h \in S

Ops == {"put", "put_aliases", "put_obao", "pack", "consolidate", "repack",
        "evict", "remove", "get", "range", "ensure", "none"}
Pcs == {"idle", "start", "stream", "check", "synced", "renamed", "side", "sidesynced",
        "siderenamed", "psynced", "prenamed", "psealed", "loosedrop", "loosesync",
        "forget", "unlink", "unlinksync", "gone", "locate", "open", "tree", "fetch"}
Outs == {"none", "notfound", "panic"}

TypeOK ==
    /\ live \subseteq Names /\ disk \subseteq Names
    /\ dirty \subseteq Names /\ torn \subseteq Names
    /\ map \in [Blobs -> SUBSET Blobs]
    /\ op \in [Threads -> Ops] /\ pc \in [Threads -> Pcs] /\ out \in [Threads -> Outs]
    /\ blob \in [Threads -> Blobs \cup {None}]
    /\ members \in [Threads -> SUBSET Blobs] /\ gone \in [Threads -> SUBSET Blobs]
    /\ acked \subseteq Blobs /\ answered \subseteq Blobs /\ spoiled \subseteq Names
    /\ steady \in [Threads -> BOOLEAN]
    /\ ops \in Nat /\ crashes \in Nat /\ faults \in Nat

(****************************************************************************)
(* Lookups.                                                                 *)
(****************************************************************************)
\* Store::packed_loc and is_packed: the map alone.
PackedLoc(h) == map[h]

\* Store::has and Store::len: a loose file, or a mapped pack member.
Has(h) == Loose(h) \in live \/ PackedLoc(h) # NoPack

\* Store::get_obao: the loose sidecar, else the pack's section, else the empty
\* tree of a small blob that is there.
HasObao(h) == Side(h) \in live \/ PackedLoc(h) # NoPack \/ (Has(h) /\ h \notin Big)

\* scan_packs: each member resolves to one of the packs whose footer parses
\* (directory order decides between two); a torn pack is skipped.
Resolutions(l, bad) ==
    {m \in [Blobs -> SUBSET Blobs] :
        \A h \in Blobs :
            LET where == {S \in Packs : Pack(S) \in l \ bad /\ h \in S}
            IN  IF where = {} THEN m[h] = NoPack ELSE m[h] \in where}

Held == {h \in Blobs : Has(h)}
Kept == {h \in Held : \E n \in live \cap disk : Holds(n, h)}
Might == {h \in Blobs : \E n \in live \cup disk : Holds(n, h)}
Doomed == UNION {gone[t] : t \in Threads}

(****************************************************************************)
(* Running operations.                                                      *)
(****************************************************************************)
Packers == {"pack", "consolidate", "repack"}
Busy(t) == pc[t] # "idle"

\* Every caller of put_pack and repack holds the gc guard (maintain.rs, gc.rs).
GuardFree == \A t \in Threads : ~(Busy(t) /\ op[t] \in Packers)

Goto(t, p) == pc' = [pc EXCEPT ![t] = p] /\ UNCHANGED <<op, blob, members, gone, out>>

\* A return forgets the operation; a reader's answer stays visible when it says
\* the blob is not there.
Return(t, o) ==
    /\ pc' = [pc EXCEPT ![t] = "idle"]
    /\ out' = [out EXCEPT ![t] = IF o \in {"notfound", "panic"} THEN o ELSE "none"]
    /\ op' = [op EXCEPT ![t] = "none"] /\ blob' = [blob EXCEPT ![t] = None]
    /\ members' = [members EXCEPT ![t] = {}] /\ gone' = [gone EXCEPT ![t] = {}]

\* What a put's caller may rely on once the answer is fixed: nothing, if the
\* blob was removed again on request before the put answered.
Acks(t, o) ==
    LET mine == {h \in {blob[t]} \ Doomed : Loose(h) \in live} IN
    /\ acked' = IF o = "stored" THEN acked \cup mine ELSE acked
    /\ answered' = IF o = "present" THEN answered \cup mine ELSE answered
    /\ UNCHANGED spoiled

Start(t, o, h, S, D) ==
    /\ ops < MaxOps
    /\ ~Busy(t)
    /\ ops' = ops + 1
    /\ op' = [op EXCEPT ![t] = o]
    /\ blob' = [blob EXCEPT ![t] = h]
    /\ members' = [members EXCEPT ![t] = S]
    /\ gone' = [gone EXCEPT ![t] = D]
    /\ out' = [out EXCEPT ![t] = "none"]
    /\ pc' = [pc EXCEPT ![t] = "start"]
    /\ acked' = acked \ D /\ answered' = answered \ D
    /\ UNCHANGED <<files, map, spoiled, crashes, faults>>

Begin(t) ==
    \/ \E h \in Blobs, o \in {"put", "put_aliases", "put_obao", "get", "range", "ensure"} :
           Start(t, o, h, {}, {})
    \/ \E h \in Blobs, o \in {"evict", "remove"} : Start(t, o, h, {}, {h})
    \* swap: absent pieces streamed out of their container
    \/ GuardFree /\ \E S \in Packs : Start(t, "pack", None, S, {})
    \* pack_one_set: loose pieces that are in no pack
    \/ /\ GuardFree
       /\ \E S \in Packs : /\ \A h \in S : Loose(h) \in live /\ PackedLoc(h) = NoPack
                           /\ Start(t, "consolidate", None, S, {})
    \* gc apply: orphans grouped by the pack the map gives
    \/ /\ GuardFree
       /\ \E S \in Packs, D \in Packs : /\ \A h \in D : PackedLoc(h) = S
                                        /\ Start(t, "repack", None, S, D)

\* A failing system call: the operation returns its error. Only put_pack and the
\* stream loops delete their temp file; an entry already renamed stays renamed.
Fault(t) ==
    /\ faults < MaxFaults
    /\ pc[t] \in {"stream", "check", "synced", "renamed", "sidesynced", "siderenamed",
                  "psynced", "prenamed", "loosesync", "unlinksync", "gone"}
    /\ faults' = faults + 1
    /\ spoiled' = spoiled \cup
          {n \in {Loose(blob[t]), Side(blob[t])} : pc[t] \in {"renamed", "siderenamed"} /\ n \in live \ disk}
    /\ Return(t, "error")
    /\ UNCHANGED <<files, map, acked, answered, ops, crashes>>

(****************************************************************************)
(* put, put_with_aliases (and put_new, which names the blob by what it read)*)
(* and put_with_obao.                                                       *)
(****************************************************************************)
\* put's fast path: a present file answers before the reader is touched.
PutStart(t) ==
    /\ pc[t] = "start" /\ op[t] \in {"put", "put_aliases", "put_obao"}
    /\ \/ /\ op[t] = "put" /\ Loose(blob[t]) \in live
          /\ Return(t, "present") /\ Acks(t, "present")
       \/ /\ ~(op[t] = "put" /\ Loose(blob[t]) \in live)
          /\ Goto(t, "stream") /\ UNCHANGED hist
    /\ UNCHANGED <<files, map, tally>>

\* Mutant: the step after the stream is mislabelled.
PutStreamLost(t) ==
    /\ pc[t] = "stream" /\ Goto(t, "hashed")
    /\ UNCHANGED <<files, map, hist, tally>>

\* The stream is written to the temp file and hashed; bytes that are not the
\* blob's delete the temp and publish nothing.
PutStream(t) ==
    /\ pc[t] = "stream"
    /\ Goto(t, "check") \/ Return(t, "mismatch")
    /\ UNCHANGED <<files, map, hist, tally>>

\* A file that appeared meanwhile wins; otherwise the temp file is synced.
PutCheck(t) ==
    /\ pc[t] = "check"
    /\ \/ /\ Loose(blob[t]) \in live
          /\ Acks(t, "present")
          /\ IF op[t] = "put_obao" THEN Goto(t, "side") ELSE Return(t, "present")
       \/ /\ Loose(blob[t]) \notin live
          /\ Goto(t, "synced") /\ UNCHANGED hist
    /\ UNCHANGED <<files, map, tally>>

\* Mutant: the temp file is renamed before it is synced.
PutRenameUnsynced(t) ==
    /\ pc[t] = "synced"
    /\ live' = live \cup {Loose(blob[t])}
    /\ dirty' = dirty \cup {Loose(blob[t])}
    /\ Goto(t, "renamed")
    /\ UNCHANGED <<disk, torn, map, hist, tally>>

PutRename(t) ==
    /\ pc[t] = "synced"
    /\ live' = live \cup {Loose(blob[t])}
    /\ torn' = torn \ {Loose(blob[t])}
    /\ Goto(t, "renamed")
    /\ UNCHANGED <<disk, dirty, map, hist, tally>>

\* fsync_dir on a directory: what is visible in it becomes what is durable. A
\* blob and its sidecar share a directory; a pack's entry is alone in its own.
Settle(dir) == disk' = (disk \ dir) \cup (live \cap dir)
Dir(h) == {Loose(h), Side(h)}

\* Mutant: the rename is reported as stored with no directory sync.
PutDirSyncSkipped(t) ==
    /\ pc[t] = "renamed"
    /\ Acks(t, "stored")
    /\ IF op[t] = "put_obao" THEN Goto(t, "side") ELSE Return(t, "stored")
    /\ UNCHANGED <<files, map, tally>>

PutDirSync(t) ==
    /\ pc[t] = "renamed"
    /\ Settle(Dir(blob[t]))
    /\ Acks(t, "stored")
    /\ IF op[t] = "put_obao" THEN Goto(t, "side") ELSE Return(t, "stored")
    /\ UNCHANGED <<live, dirty, torn, map, tally>>

\* put_obao: an empty tree and an existing sidecar are left alone.
PutSide(t) ==
    /\ pc[t] = "side"
    /\ IF blob[t] \notin Big \/ Side(blob[t]) \in live
       THEN Return(t, "present")
       ELSE Goto(t, "sidesynced")
    /\ UNCHANGED <<files, map, hist, tally>>

SideRename(t) ==
    /\ pc[t] = "sidesynced"
    /\ live' = live \cup {Side(blob[t])}
    /\ torn' = torn \ {Side(blob[t])}
    /\ Goto(t, "siderenamed")
    /\ UNCHANGED <<disk, dirty, map, hist, tally>>

SideDirSync(t) ==
    /\ pc[t] = "siderenamed"
    /\ Settle(Dir(blob[t]))
    /\ Return(t, "stored")
    /\ UNCHANGED <<live, dirty, torn, map, hist, tally>>

(****************************************************************************)
(* Packs: put_pack, pack_one_set around it, and repack around it.           *)
(****************************************************************************)
\* Each member is streamed, proved against its hash and synced with its pack;
\* pack_one_set reads the members back through get.
PackStart(t) ==
    /\ pc[t] = "start" /\ op[t] \in {"pack", "consolidate"}
    /\ \/ /\ op[t] = "consolidate" => \A h \in members[t] : Has(h)
          /\ Goto(t, "psynced")
       \/ Return(t, "mismatch")
    /\ UNCHANGED <<files, map, hist, tally>>

\* repack reads the footer, keeps the survivors, and rewrites only when some
\* member goes and some member stays. From here on "members" are the survivors.
RepackStart(t) ==
    /\ pc[t] = "start" /\ op[t] = "repack"
    /\ LET left == members[t] \ gone[t] IN
       \/ /\ Pack(members[t]) \notin live \/ Pack(members[t]) \in torn
          /\ Return(t, "error")
       \/ /\ Pack(members[t]) \in live /\ Pack(members[t]) \notin torn
          /\ pc' = [pc EXCEPT ![t] = IF left = {} THEN "forget" ELSE "psynced"]
          /\ members' = [members EXCEPT ![t] = left]
          /\ UNCHANGED <<op, blob, gone, out>>
    /\ UNCHANGED <<files, map, hist, tally>>

PackRename(t) ==
    /\ pc[t] = "psynced"
    /\ live' = live \cup {Pack(members[t])}
    /\ torn' = torn \ {Pack(members[t])}
    /\ Goto(t, "prenamed")
    /\ UNCHANGED <<disk, dirty, map, hist, tally>>

\* Mutant: the pack enters the map with no directory sync.
PackDirSyncSkipped(t) ==
    /\ pc[t] = "prenamed"
    /\ Goto(t, "psealed")
    /\ UNCHANGED <<files, map, hist, tally>>

PackDirSync(t) ==
    /\ pc[t] = "prenamed"
    /\ Settle({Pack(members[t])})
    /\ Goto(t, "psealed")
    /\ UNCHANGED <<live, dirty, torn, map, hist, tally>>

\* Only a durable pack enters the map.
PackMap(t) ==
    /\ pc[t] = "psealed"
    /\ map' = [h \in Blobs |-> IF h \in members[t] THEN members[t] ELSE map[h]]
    /\ IF op[t] = "pack" THEN Return(t, "stored")
       ELSE Goto(t, IF op[t] = "repack" THEN "forget" ELSE "loosedrop")
    /\ UNCHANGED <<files, hist, tally>>

\* pack_one_set: the members' loose files and sidecars go, one blob at a time.
LooseDrop(t) ==
    /\ pc[t] = "loosedrop"
    /\ IF members[t] = {} THEN Return(t, "stored") /\ UNCHANGED live
       ELSE \E h \in members[t] :
              /\ live' = live \ Dir(h)
              /\ blob' = [blob EXCEPT ![t] = h]
              /\ members' = [members EXCEPT ![t] = members[t] \ {h}]
              /\ pc' = [pc EXCEPT ![t] = "loosesync"]
              /\ UNCHANGED <<op, gone, out>>
    /\ UNCHANGED <<disk, dirty, torn, map, hist, tally>>

LooseDropSync(t) ==
    /\ pc[t] = "loosesync"
    /\ Settle(Dir(blob[t]))
    /\ Goto(t, "loosedrop")
    /\ UNCHANGED <<live, dirty, torn, map, hist, tally>>

\* Mutant: the dropped members keep their map entries.
RepackForgetNothing(t) ==
    /\ pc[t] = "forget"
    /\ Goto(t, "unlink")
    /\ UNCHANGED <<files, map, hist, tally>>

\* The dropped members leave the map before the superseded file is unlinked.
RepackForget(t) ==
    /\ pc[t] = "forget"
    /\ map' = [h \in Blobs |-> IF h \in gone[t] THEN NoPack ELSE map[h]]
    /\ Goto(t, "unlink")
    /\ UNCHANGED <<files, hist, tally>>

OldPack(t) == Pack(members[t] \cup gone[t])

RepackUnlink(t) ==
    /\ pc[t] = "unlink"
    /\ live' = live \ {OldPack(t)}
    /\ Goto(t, "unlinksync")
    /\ UNCHANGED <<disk, dirty, torn, map, hist, tally>>

RepackUnlinkSync(t) ==
    /\ pc[t] = "unlinksync"
    /\ Settle({OldPack(t)})
    /\ Return(t, "stored")
    /\ UNCHANGED <<live, dirty, torn, map, hist, tally>>

(****************************************************************************)
(* evict_literal and remove_blob.                                           *)
(****************************************************************************)
Unlink(t) ==
    /\ pc[t] = "start" /\ op[t] \in {"evict", "remove"}
    /\ live' = live \ ({Loose(blob[t])} \cup IF op[t] = "remove" THEN {Side(blob[t])} ELSE {})
    /\ IF Loose(blob[t]) \in live THEN Goto(t, "gone") ELSE Return(t, "absent")
    /\ UNCHANGED <<disk, dirty, torn, map, hist, tally>>

UnlinkSync(t) ==
    /\ pc[t] = "gone"
    /\ Settle(Dir(blob[t]))
    /\ Return(t, "stored")
    /\ UNCHANGED <<live, dirty, torn, map, hist, tally>>

(****************************************************************************)
(* Readers: get, ensure_obao and read_range_verified.                       *)
(****************************************************************************)
\* get: the loose file wins, then the map is asked, then the pack is opened.
GetLoose(t) ==
    /\ pc[t] = "start" /\ op[t] = "get"
    /\ IF Loose(blob[t]) \in live THEN Return(t, "bytes") ELSE Goto(t, "locate")
    /\ UNCHANGED <<files, map, hist, tally>>

\* Mutant: a lookup that misses the loose file does not ask the map.
GetLocateLooseOnly(t) ==
    /\ pc[t] = "locate"
    /\ Return(t, "notfound")
    /\ UNCHANGED <<files, map, hist, tally>>

GetLocate(t) ==
    /\ pc[t] = "locate"
    /\ IF PackedLoc(blob[t]) = NoPack THEN Return(t, "notfound")
       ELSE /\ members' = [members EXCEPT ![t] = PackedLoc(blob[t])]
            /\ pc' = [pc EXCEPT ![t] = "open"]
            /\ UNCHANGED <<op, blob, gone, out>>
    /\ UNCHANGED <<files, map, hist, tally>>

GetOpen(t) ==
    /\ pc[t] = "open"
    /\ Return(t, IF Pack(members[t]) \in live THEN "bytes" ELSE "error")
    /\ UNCHANGED <<files, map, hist, tally>>

\* read_range_verified and ensure_obao ask for the length first; ensure_obao is
\* done when there is a tree already.
RangeLen(t) ==
    /\ pc[t] = "start" /\ op[t] \in {"range", "ensure"}
    /\ \/ op[t] = "ensure" /\ HasObao(blob[t]) /\ Return(t, "present")
       \/ ~(op[t] = "ensure" /\ HasObao(blob[t])) /\ ~Has(blob[t]) /\ Return(t, "absent")
       \/ ~(op[t] = "ensure" /\ HasObao(blob[t])) /\ Has(blob[t])
          /\ Goto(t, IF op[t] = "range" THEN "tree" ELSE "fetch")
    /\ UNCHANGED <<files, map, hist, tally>>

RangeTree(t) ==
    /\ pc[t] = "tree"
    /\ IF HasObao(blob[t]) THEN Goto(t, "fetch") ELSE Return(t, "error")
    /\ UNCHANGED <<files, map, hist, tally>>

\* get(...)?.expect("len() saw the blob"): an absent blob is a panic here.
RangeFetch(t) ==
    /\ pc[t] = "fetch"
    /\ IF ~Has(blob[t]) THEN Return(t, "panic")
       ELSE IF op[t] = "ensure" THEN Goto(t, "side")
       ELSE Return(t, "bytes")
    /\ UNCHANGED <<files, map, hist, tally>>

(****************************************************************************)
(* A crash at any point, and Store::open on what it left.                   *)
(****************************************************************************)
Crash ==
    /\ crashes < MaxCrashes
    /\ crashes' = crashes + 1
    /\ \E n \in SUBSET ((live \cup disk) \ (live \cap disk)) :
          /\ live' = (live \cap disk) \cup n
          /\ disk' = live'
    /\ torn' = (torn \cup dirty) \cap live'
    /\ dirty' = {}
    /\ map' \in Resolutions(live', torn')
    /\ op' = [t \in Threads |-> "none"] /\ pc' = [t \in Threads |-> "idle"]
    /\ blob' = [t \in Threads |-> None] /\ out' = [t \in Threads |-> "none"]
    /\ members' = [t \in Threads |-> {}] /\ gone' = [t \in Threads |-> {}]
    /\ answered' = {} /\ spoiled' = {}
    /\ UNCHANGED <<acked, ops, faults>>

\* A store is opened on a tree an earlier run left whole.
Init ==
    /\ live \in Trees /\ disk = live
    /\ dirty = {} /\ torn = {}
    /\ map \in Resolutions(live, {})
    /\ op = [t \in Threads |-> "none"] /\ pc = [t \in Threads |-> "idle"]
    /\ blob = [t \in Threads |-> None] /\ out = [t \in Threads |-> "none"]
    /\ members = [t \in Threads |-> {}] /\ gone = [t \in Threads |-> {}]
    /\ acked = {} /\ answered = {} /\ spoiled = {}
    /\ steady = [t \in Threads |-> FALSE]
    /\ ops = 0 /\ crashes = 0 /\ faults = 0

Step(t) ==
    \/ Begin(t) \/ Fault(t)
    \/ PutStart(t) \/ PutStream(t) \/ PutCheck(t) \/ PutRename(t) \/ PutDirSync(t)
    \/ PutSide(t) \/ SideRename(t) \/ SideDirSync(t)
    \/ PackStart(t) \/ RepackStart(t) \/ PackRename(t) \/ PackDirSync(t) \/ PackMap(t)
    \/ LooseDrop(t) \/ LooseDropSync(t)
    \/ RepackForget(t) \/ RepackUnlink(t) \/ RepackUnlinkSync(t)
    \/ Unlink(t) \/ UnlinkSync(t)
    \/ GetLoose(t) \/ GetLocate(t) \/ GetOpen(t)
    \/ RangeLen(t) \/ RangeTree(t) \/ RangeFetch(t)

\* History for the readers: was the blob held and wanted all along?
Watch == steady' = [t \in Threads |->
    /\ pc'[t] # "idle" \/ pc[t] # "idle"
    /\ pc[t] = "idle" \/ steady[t]
    /\ (IF pc[t] = "idle" THEN blob'[t] ELSE blob[t]) \in Held' \ Doomed']

Next == (Crash \/ \E t \in Threads : Step(t)) /\ Watch

Spec == Init /\ [][Next]_vars

(****************************************************************************)
(* Properties.                                                              *)
(****************************************************************************)
\* The file protocol implements the abstract store: only a requested removal or
\* a crash before durability takes a blob away, whatever is being packed,
\* consolidated or repacked (the publishing of store.rs and pack.rs).
Abstract == INSTANCE BlobStore WITH held <- Held, kept <- Kept, might <- Might, doomed <- Doomed
Implements == Abstract!Spec

\* "Stored: the blob was written and durably published by this call": a blob a
\* put reported Stored is found after any crash, unless its removal was asked.
StoredIsDurable == acked \subseteq Kept

\* AlreadyPresent skips the directory sync: such a blob may be lost in a crash
\* only while the publisher it met is between rename and directory sync, or
\* after that publisher's sync failed.
AnsweredIsSettling ==
    \A h \in answered \ Kept :
        \/ \E t \in Threads : pc[t] = "renamed" /\ blob[t] = h
        \/ Loose(h) \in spoiled

\* No pack the map points at is missing: repack maps the survivors to the new
\* file and forgets the dropped members before it unlinks the old one.
MapIsSound == \A h \in Blobs : map[h] # NoPack => h \in map[h] /\ Pack(map[h]) \in live

\* No crash leaves a published name with partial bytes (sync before rename).
NothingTorn == torn = {}

\* A lock-free get never reports a blob absent that was held, and that nobody
\* was removing, during the whole lookup.
NoFalseAbsence == \A t \in Threads : out[t] = "notfound" => ~steady[t]

\* "len() saw the blob": the blob a range read has measured is still there when
\* it is fetched.
MeasuredIsFetched == \A t \in Threads : out[t] # "panic"
=============================================================================
