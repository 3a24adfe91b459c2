---------------------------- MODULE StoreProofs -----------------------------
(****************************************************************************)
(* Store implements BlobStore: whatever the blobs, the threads and the tree *)
(* it is opened on, the file protocol never loses a blob that nobody asked  *)
(* to remove, and a crash takes only what was not settled.                  *)
(****************************************************************************)
EXTENDS Store, TLAPS

----------------------------------------------------------------------------
(* The inductive invariant.                                                 *)

JobType ==
    /\ op \in [Threads -> Ops] /\ pc \in [Threads -> Pcs]
    /\ blob \in [Threads -> Blobs \cup {None}]
    /\ members \in [Threads -> SUBSET Blobs] /\ gone \in [Threads -> SUBSET Blobs]

MapType == map \in [Blobs -> SUBSET Blobs]

Whole == dirty = {} /\ torn = {}

\* The map points at packs that are visible and durable.
Mapped == \A h \in Blobs : map[h] # NoPack => h \in map[h] /\ Pack(map[h]) \in live \cap disk

PackerPcs == {"psynced", "prenamed", "psealed", "loosedrop", "loosesync", "forget", "unlink", "unlinksync"}

Packing(u) == Busy(u) /\ op[u] \in Packers

\* The gc guard: one thread packs at a time.
Exclusive == \A u, v \in Threads : Packing(u) /\ Packing(v) => u = v

\* What a thread in the middle of an operation relies on.
Going(u) ==
    /\ pc[u] \in PackerPcs => op[u] \in Packers
    /\ pc[u] \in {"forget", "unlink", "unlinksync"} => op[u] = "repack"
    /\ pc[u] \in {"loosedrop", "loosesync"} => op[u] = "consolidate"
    /\ pc[u] = "start" /\ op[u] \in {"evict", "remove"} => gone[u] = {blob[u]}
    /\ pc[u] # "idle" /\ op[u] = "repack" => gone[u] # {}
    /\ pc[u] \in PackerPcs /\ op[u] = "repack" => members[u] \cap gone[u] = {}
    /\ pc[u] # "idle" /\ op[u] = "get" => blob[u] \in Blobs
    /\ pc[u] = "locate" => op[u] = "get"

Publishing(u) ==
    /\ pc[u] = "prenamed" => Pack(members[u]) \in live
    /\ pc[u] = "psealed" => Pack(members[u]) \in live \cap disk

Superseding(u) ==
    /\ pc[u] \in {"loosedrop", "loosesync"} => \A h \in members[u] : map[h] # NoPack
    /\ pc[u] \in {"forget", "unlink"} => \A h \in members[u] : map[h] = members[u]
    /\ pc[u] = "unlink" => \A h \in Blobs : map[h] # members[u] \cup gone[u]

Thread(u) == Going(u) /\ Publishing(u) /\ Superseding(u)

Inv == JobType /\ MapType /\ Whole /\ Mapped /\ Exclusive /\ \A u \in Threads : Thread(u)

----------------------------------------------------------------------------
(* Names.                                                                   *)

\* A loose file, a sidecar and a pack never share a name, and a name says what
\* it names.
LEMMA NamesApart ==
    ASSUME NEW h, NEW g, NEW S, NEW T
    PROVE  /\ Loose(h) # Pack(S) /\ Side(h) # Pack(S) /\ Loose(h) # Side(g)
           /\ Loose(h) = Loose(g) => h = g
           /\ Pack(S) = Pack(T) => S = T
BY DEF Loose, Side, Pack

----------------------------------------------------------------------------
(* One thread moves: the others keep their operation.                       *)

Others(t) ==
    \A u \in Threads \ {t} :
        /\ pc'[u] = pc[u] /\ op'[u] = op[u] /\ blob'[u] = blob[u]
        /\ members'[u] = members[u] /\ gone'[u] = gone[u]

LEMMA GotoMoves ==
    ASSUME JobType, NEW t \in Threads, NEW p \in Pcs, Goto(t, p)
    PROVE  /\ JobType' /\ Others(t)
           /\ pc'[t] = p /\ op'[t] = op[t] /\ blob'[t] = blob[t]
           /\ members'[t] = members[t] /\ gone'[t] = gone[t]
BY DEF JobType, Goto, Others

LEMMA ReturnMoves ==
    ASSUME JobType, NEW t \in Threads, NEW o, Return(t, o)
    PROVE  /\ JobType' /\ Others(t)
           /\ pc'[t] = "idle" /\ op'[t] = "none" /\ gone'[t] = {} /\ members'[t] = {}
BY DEF JobType, Return, Others, Ops, Pcs

LEMMA StartMoves ==
    ASSUME JobType, NEW t \in Threads, NEW o \in Ops, NEW h \in Blobs \cup {None},
           NEW S \in SUBSET Blobs, NEW D \in SUBSET Blobs, Start(t, o, h, S, D)
    PROVE  /\ JobType' /\ Others(t)
           /\ pc'[t] = "start" /\ op'[t] = o /\ blob'[t] = h /\ members'[t] = S /\ gone'[t] = D
           /\ UNCHANGED <<files, map>> /\ ~Busy(t)
BY DEF JobType, Start, Others, Pcs, files

\* A thread that is not packing and not about to unlink relies on nothing but
\* that the members it drops, if any, are known.
LEMMA QuietNext ==
    ASSUME NEW u \in Threads,
           pc'[u] \notin PackerPcs, pc'[u] = "start" => op'[u] \notin {"evict", "remove"},
           op'[u] = "repack" => pc'[u] = "idle" \/ gone'[u] # {},
           op'[u] = "get" => pc'[u] = "idle" \/ blob'[u] \in Blobs,
           pc'[u] = "locate" => op'[u] = "get"
    PROVE  Thread(u)'
BY DEF Thread, Going, Publishing, Superseding, PackerPcs

\* A step that neither takes a pack away nor moves the map leaves the other
\* threads what they rely on.
LEMMA OthersRely ==
    ASSUME NEW t \in Threads, Others(t), \A u \in Threads : Thread(u), map' = map,
           \A S : Pack(S) \in live => Pack(S) \in live',
           \A S : Pack(S) \in live \cap disk => Pack(S) \in live' \cap disk'
    PROVE  \A u \in Threads \ {t} : Thread(u)'
<1> TAKE u \in Threads \ {t}
<1>1. /\ pc'[u] = pc[u] /\ op'[u] = op[u] /\ blob'[u] = blob[u]
      /\ members'[u] = members[u] /\ gone'[u] = gone[u] /\ Thread(u)
  BY DEF Others
<1>2. Going(u)'
  BY <1>1 DEF Thread, Going
<1>3. Publishing(u)'
  BY <1>1 DEF Thread, Publishing
<1>4. Superseding(u)'
  BY <1>1 DEF Thread, Superseding
<1> QED
  BY <1>2, <1>3, <1>4 DEF Thread

\* While one thread packs, no other thread is in a packer's step.
LEMMA OthersIdle ==
    ASSUME NEW t \in Threads, Others(t), Exclusive, \A u \in Threads : Thread(u), Packing(t)
    PROVE  \A u \in Threads \ {t} : Thread(u)'
<1> TAKE u \in Threads \ {t}
<1>1. /\ pc'[u] = pc[u] /\ op'[u] = op[u] /\ blob'[u] = blob[u]
      /\ members'[u] = members[u] /\ gone'[u] = gone[u] /\ Thread(u)
  BY DEF Others
<1>2. ~Packing(u)
  BY DEF Exclusive
<1>3. pc[u] \notin PackerPcs
  BY <1>1, <1>2 DEF Thread, Going, Packing, Busy, PackerPcs
<1>4. Going(u)'
  BY <1>1 DEF Thread, Going
<1>5. Publishing(u)' /\ Superseding(u)'
  BY <1>1, <1>3 DEF Publishing, Superseding, PackerPcs
<1> QED
  BY <1>4, <1>5 DEF Thread

\* The guard stays exclusive when a thread goes on with its operation or ends it.
LEMMA StaysExclusive ==
    ASSUME NEW t \in Threads, Others(t), Exclusive,
           pc'[t] = "idle" \/ (Busy(t) /\ op'[t] = op[t])
    PROVE  Exclusive'
<1> SUFFICES ASSUME NEW u \in Threads, NEW v \in Threads, Packing(u)', Packing(v)' PROVE u = v
  BY DEF Exclusive
<1>1. ASSUME NEW w \in Threads, Packing(w)' PROVE Packing(w)
  <2>1. CASE w = t
    BY <1>1, <2>1 DEF Packing, Busy
  <2>2. CASE w # t
    BY <1>1, <2>2 DEF Packing, Busy, Others
  <2> QED BY <2>1, <2>2
<1> QED
  BY <1>1 DEF Exclusive

----------------------------------------------------------------------------
(* Steps that only add: entries, durability, or nothing at all.             *)

\* What the moving thread itself must show.
Moves(t) == JobType' /\ Others(t) /\ Exclusive' /\ Thread(t)'

Grows == live \subseteq live' /\ live \cap disk \subseteq live' \cap disk' /\ map' = map /\ Whole'

LEMMA Ended ==
    ASSUME Inv, NEW t \in Threads, NEW o, Return(t, o)
    PROVE  Moves(t)
<1>1. JobType' /\ Others(t) /\ pc'[t] = "idle" /\ op'[t] = "none"
  BY ReturnMoves DEF Inv
<1>2. Exclusive'
  BY <1>1, StaysExclusive DEF Inv
<1>3. Thread(t)'
  BY <1>1, QuietNext DEF PackerPcs
<1> QED
  BY <1>1, <1>2, <1>3 DEF Moves

LEMMA Continues ==
    ASSUME Inv, NEW t \in Threads, NEW p \in Pcs \ (PackerPcs \cup {"start"}), Busy(t), Goto(t, p),
           p = "locate" => op[t] = "get"
    PROVE  Moves(t)
<1>1. /\ JobType' /\ Others(t) /\ pc'[t] = p /\ op'[t] = op[t] /\ gone'[t] = gone[t]
      /\ blob'[t] = blob[t]
  BY GotoMoves DEF Inv
<1>2. Exclusive'
  BY <1>1, StaysExclusive DEF Inv
<1>3. /\ op[t] = "repack" => gone[t] # {}
      /\ op[t] = "get" => blob[t] \in Blobs
  BY DEF Inv, Thread, Going, Busy
<1>4. Thread(t)'
  BY <1>1, <1>3, QuietNext
<1> QED
  BY <1>1, <1>2, <1>4 DEF Moves

LEMMA GrowKeeps ==
    ASSUME Inv, NEW t \in Threads, Moves(t), Grows
    PROVE  Inv'
<1>1. MapType' /\ Mapped'
  BY DEF Inv, Grows, MapType, Mapped
<1>2. \A u \in Threads \ {t} : Thread(u)'
  BY OthersRely DEF Inv, Grows, Moves
<1> QED
  BY <1>1, <1>2 DEF Inv, Grows, Moves

\* Begin: an operation starts with nothing done.
LEMMA BeginStep ==
    ASSUME Inv, NEW t \in Threads, Begin(t)
    PROVE  Moves(t) /\ Grows
<1>1. ASSUME NEW o \in Ops, NEW h \in Blobs \cup {None}, NEW S \in SUBSET Blobs, NEW D \in SUBSET Blobs,
             Start(t, o, h, S, D),
             o \in {"evict", "remove"} => D = {h}, o = "repack" => D # {}, o = "get" => h \in Blobs,
             o \in Packers => GuardFree
      PROVE  Moves(t) /\ Grows
  <2>1. /\ JobType' /\ Others(t) /\ UNCHANGED <<files, map>> /\ ~Busy(t)
        /\ pc'[t] = "start" /\ op'[t] = o /\ blob'[t] = h /\ gone'[t] = D
    BY <1>1, StartMoves DEF Inv
  <2>2. Exclusive'
    <3> SUFFICES ASSUME NEW u \in Threads, NEW v \in Threads, Packing(u)', Packing(v)' PROVE u = v
      BY DEF Exclusive
    <3>1. ASSUME NEW w \in Threads, w # t, Packing(w)' PROVE Packing(w)
      BY <2>1, <3>1 DEF Packing, Busy, Others
    <3>2. CASE o \in Packers
      BY <3>1, <3>2, <1>1 DEF GuardFree, Packing
    <3>3. CASE o \notin Packers
      <4>1. u # t /\ v # t
        BY <3>3, <2>1 DEF Packing
      <4> QED BY <4>1, <3>1 DEF Inv, Exclusive
    <3> QED BY <3>2, <3>3
  <2>3. Thread(t)'
    BY <1>1, <2>1 DEF Thread, Going, Publishing, Superseding, PackerPcs
  <2>4. Grows
    BY <2>1 DEF Grows, files, Inv, Whole
  <2> QED BY <2>1, <2>2, <2>3, <2>4 DEF Moves
<1>2. CASE \E h \in Blobs, o \in {"put", "put_aliases", "put_obao", "get", "range", "ensure"} :
               Start(t, o, h, {}, {})
  BY <1>1, <1>2 DEF Ops, Packers
<1>3. CASE \E h \in Blobs, o \in {"evict", "remove"} : Start(t, o, h, {}, {h})
  BY <1>1, <1>3 DEF Ops, Packers
<1>4. CASE GuardFree /\ \E S \in Packs : Start(t, "pack", None, S, {})
  BY <1>1, <1>4 DEF Ops, Packs
<1>5. CASE GuardFree /\ \E S \in Packs : Start(t, "consolidate", None, S, {})
  BY <1>1, <1>5 DEF Ops, Packs
<1>6. CASE GuardFree /\ \E S \in Packs, D \in Packs : Start(t, "repack", None, S, D)
  BY <1>1, <1>6 DEF Ops, Packs
<1> QED
  BY <1>2, <1>3, <1>4, <1>5, <1>6 DEF Begin

Unmoved(t) ==
    \/ Fault(t) \/ PutStart(t) \/ PutStream(t) \/ PutCheck(t) \/ PutSide(t)
    \/ GetLoose(t) \/ GetOpen(t) \/ RangeLen(t) \/ RangeTree(t) \/ RangeFetch(t)

\* The steps that change neither the files nor the map and end outside the
\* packers' steps.
LEMMA UnmovedStep ==
    ASSUME Inv, NEW t \in Threads, Unmoved(t)
    PROVE  Moves(t) /\ Grows
<1>1. UNCHANGED <<files, map>>
  BY DEF Unmoved, Fault, PutStart, PutStream, PutCheck, PutSide, GetLoose, GetOpen, RangeLen, RangeTree, RangeFetch
<1>2. Grows
  BY <1>1 DEF Grows, files, Inv, Whole
<1>3. \/ \E o : Return(t, o)
      \/ Busy(t) /\ \E p \in Pcs \ (PackerPcs \cup {"start"}) : Goto(t, p) /\ (p = "locate" => op[t] = "get")
  <2>1. CASE Fault(t)
    BY <2>1 DEF Fault
  <2>2. CASE PutStart(t)
    BY <2>2 DEF PutStart, Busy, Pcs, PackerPcs
  <2>3. CASE PutStream(t)
    BY <2>3 DEF PutStream, Busy, Pcs, PackerPcs
  <2>4. CASE PutCheck(t)
    BY <2>4 DEF PutCheck, Busy, Pcs, PackerPcs
  <2>5. CASE PutSide(t)
    BY <2>5 DEF PutSide, Busy, Pcs, PackerPcs
  <2>6. CASE GetLoose(t)
    BY <2>6 DEF GetLoose, Busy, Pcs, PackerPcs
  <2>7. CASE GetOpen(t)
    BY <2>7 DEF GetOpen
  <2>8. CASE RangeLen(t)
    BY <2>8 DEF RangeLen, Busy, Pcs, PackerPcs
  <2>9. CASE RangeTree(t)
    BY <2>9 DEF RangeTree, Busy, Pcs, PackerPcs
  <2>10. CASE RangeFetch(t)
    BY <2>10 DEF RangeFetch, Busy, Pcs, PackerPcs
  <2> QED BY <2>1, <2>2, <2>3, <2>4, <2>5, <2>6, <2>7, <2>8, <2>9, <2>10 DEF Unmoved
<1> QED
  BY <1>2, <1>3, Ended, Continues

LEMMA SettleGrows ==
    ASSUME NEW dir, Settle(dir), live' = live
    PROVE  live \cap disk \subseteq live' \cap disk'
BY DEF Settle

Publish(t) ==
    \/ PutRename(t) \/ SideRename(t) \/ PutDirSync(t) \/ SideDirSync(t) \/ UnlinkSync(t)
    \/ RepackUnlinkSync(t)

\* The renames and directory syncs of puts and removals, and the last directory
\* sync of a repack.
LEMMA PublishStep ==
    ASSUME Inv, NEW t \in Threads, Publish(t)
    PROVE  Moves(t) /\ Grows
<1>1. Grows
  <2>1. CASE PutRename(t)
    BY <2>1 DEF PutRename, Grows, Inv, Whole
  <2>2. CASE SideRename(t)
    BY <2>2 DEF SideRename, Grows, Inv, Whole
  <2>3. CASE PutDirSync(t)
    BY <2>3, SettleGrows DEF PutDirSync, Grows, Inv, Whole
  <2>4. CASE SideDirSync(t)
    BY <2>4, SettleGrows DEF SideDirSync, Grows, Inv, Whole
  <2>5. CASE UnlinkSync(t)
    BY <2>5, SettleGrows DEF UnlinkSync, Grows, Inv, Whole
  <2>6. CASE RepackUnlinkSync(t)
    BY <2>6, SettleGrows DEF RepackUnlinkSync, Grows, Inv, Whole
  <2> QED BY <2>1, <2>2, <2>3, <2>4, <2>5, <2>6 DEF Publish
<1>2. \/ \E o : Return(t, o)
      \/ Busy(t) /\ \E p \in Pcs \ (PackerPcs \cup {"start"}) : Goto(t, p) /\ (p = "locate" => op[t] = "get")
  <2>1. CASE PutRename(t)
    BY <2>1 DEF PutRename, Busy, Pcs, PackerPcs
  <2>2. CASE SideRename(t)
    BY <2>2 DEF SideRename, Busy, Pcs, PackerPcs
  <2>3. CASE PutDirSync(t)
    BY <2>3 DEF PutDirSync, Busy, Pcs, PackerPcs
  <2>4. CASE SideDirSync(t) \/ UnlinkSync(t) \/ RepackUnlinkSync(t)
    BY <2>4 DEF SideDirSync, UnlinkSync, RepackUnlinkSync
  <2> QED BY <2>1, <2>2, <2>3, <2>4 DEF Publish
<1> QED
  BY <1>1, <1>2, Ended, Continues

LEMMA GetLocateStep ==
    ASSUME Inv, NEW t \in Threads, GetLocate(t)
    PROVE  Moves(t) /\ Grows
<1>1. Grows
  BY DEF GetLocate, Grows, Inv, Whole, files
<1>2. CASE PackedLoc(blob[t]) = NoPack
  BY <1>1, <1>2, Ended DEF GetLocate
<1>3. CASE PackedLoc(blob[t]) # NoPack
  <2> DEFINE S == PackedLoc(blob[t])
  <2>1. /\ members' = [members EXCEPT ![t] = S] /\ pc' = [pc EXCEPT ![t] = "open"]
        /\ UNCHANGED <<op, blob, gone, out>> /\ pc[t] = "locate"
    BY <1>3 DEF GetLocate
  <2>2. S \in SUBSET Blobs
    BY <2>1 DEF Inv, MapType, PackedLoc, Thread, Going
  <2>3. JobType' /\ Others(t) /\ pc'[t] = "open" /\ op'[t] = op[t] /\ gone'[t] = gone[t]
    BY <2>1, <2>2 DEF Inv, JobType, Others, Pcs
  <2>4. Exclusive'
    BY <2>1, <2>3, StaysExclusive DEF Inv, Busy
  <2>5. op[t] = "get" /\ blob'[t] \in Blobs
    BY <2>1 DEF Inv, Thread, Going
  <2>6. Thread(t)'
    BY <2>3, <2>5, QuietNext DEF PackerPcs
  <2> QED BY <1>1, <2>3, <2>4, <2>6 DEF Moves
<1> QED
  BY <1>2, <1>3

Assemble(t) ==
    PackStart(t) \/ RepackStart(t) \/ PackRename(t) \/ PackDirSync(t) \/ LooseDropSync(t)

\* The packers' steps up to the map, and the directory sync after a loose drop.
LEMMA AssembleStep ==
    ASSUME Inv, NEW t \in Threads, Assemble(t)
    PROVE  Moves(t) /\ Grows
<1>0. JobType /\ Exclusive /\ Going(t) /\ Publishing(t) /\ Superseding(t) /\ Whole
  BY DEF Inv, Thread
<1>1. CASE PackStart(t)
  <2>1. Grows
    BY <1>1, <1>0 DEF PackStart, Grows, Whole, files
  <2>2. CASE Goto(t, "psynced")
    <3>1. JobType' /\ Others(t) /\ pc'[t] = "psynced" /\ op'[t] = op[t] /\ blob'[t] = blob[t]
      BY <2>2, <1>0, GotoMoves DEF Pcs
    <3>2. pc[t] = "start" /\ op[t] \in {"pack", "consolidate"}
      BY <1>1 DEF PackStart
    <3>3. Exclusive'
      BY <1>0, <3>1, <3>2, StaysExclusive DEF Busy
    <3>4. Thread(t)'
      BY <3>1, <3>2 DEF Thread, Going, Publishing, Superseding, PackerPcs, Packers
    <3> QED BY <2>1, <3>1, <3>3, <3>4 DEF Moves
  <2>3. CASE Return(t, "mismatch")
    BY <2>1, <2>3, Ended
  <2> QED BY <1>1, <2>2, <2>3 DEF PackStart
<1>2. CASE RepackStart(t)
  <2> DEFINE left == members[t] \ gone[t]
  <2>1. Grows
    BY <1>2, <1>0 DEF RepackStart, Grows, Whole, files
  <2>2. CASE Return(t, "error")
    BY <2>1, <2>2, Ended
  <2>3. CASE /\ pc' = [pc EXCEPT ![t] = IF left = {} THEN "forget" ELSE "psynced"]
             /\ members' = [members EXCEPT ![t] = left]
             /\ UNCHANGED <<op, blob, gone, out>>
    <3>1. /\ JobType' /\ Others(t) /\ pc'[t] \in {"forget", "psynced"} /\ op'[t] = op[t]
          /\ blob'[t] = blob[t] /\ gone'[t] = gone[t] /\ members'[t] = left
          /\ pc'[t] = "forget" => left = {}
      BY <2>3, <1>0 DEF JobType, Others, Pcs
    <3>2. pc[t] = "start" /\ op[t] = "repack" /\ gone[t] # {}
      BY <1>2, <1>0 DEF RepackStart, Going
    <3>3. Exclusive'
      BY <1>0, <3>1, <3>2, StaysExclusive DEF Busy
    <3>4. Thread(t)'
      BY <3>1, <3>2 DEF Thread, Going, Publishing, Superseding, PackerPcs, Packers
    <3> QED BY <2>1, <3>1, <3>3, <3>4 DEF Moves
  <2> QED BY <1>2, <2>2, <2>3 DEF RepackStart
<1>3. CASE PackRename(t)
  <2>1. /\ JobType' /\ Others(t) /\ pc'[t] = "prenamed" /\ op'[t] = op[t] /\ blob'[t] = blob[t]
        /\ members'[t] = members[t] /\ gone'[t] = gone[t] /\ pc[t] = "psynced"
        /\ Pack(members'[t]) \in live'
    BY <1>3, <1>0, GotoMoves DEF PackRename, Pcs
  <2>2. Exclusive'
    BY <1>0, <2>1, StaysExclusive DEF Busy
  <2>3. Thread(t)'
    BY <1>0, <2>1 DEF Thread, Going, Publishing, Superseding, PackerPcs
  <2>4. Grows
    BY <1>3, <1>0 DEF PackRename, Grows, Whole
  <2> QED BY <2>1, <2>2, <2>3, <2>4 DEF Moves
<1>4. CASE PackDirSync(t)
  <2>1. /\ JobType' /\ Others(t) /\ pc'[t] = "psealed" /\ op'[t] = op[t] /\ blob'[t] = blob[t]
        /\ members'[t] = members[t] /\ gone'[t] = gone[t] /\ pc[t] = "prenamed"
    BY <1>4, <1>0, GotoMoves DEF PackDirSync, Pcs
  <2>2. Exclusive'
    BY <1>0, <2>1, StaysExclusive DEF Busy
  <2>3. Pack(members'[t]) \in live' \cap disk'
    BY <1>4, <1>0, <2>1 DEF PackDirSync, Settle, Publishing
  <2>4. Thread(t)'
    BY <1>0, <2>1, <2>3 DEF Thread, Going, Publishing, Superseding, PackerPcs
  <2>5. Grows
    BY <1>4, <1>0, SettleGrows DEF PackDirSync, Grows, Whole
  <2> QED BY <2>1, <2>2, <2>4, <2>5 DEF Moves
<1>5. CASE LooseDropSync(t)
  <2>1. /\ JobType' /\ Others(t) /\ pc'[t] = "loosedrop" /\ op'[t] = op[t] /\ blob'[t] = blob[t]
        /\ members'[t] = members[t] /\ gone'[t] = gone[t] /\ pc[t] = "loosesync" /\ map' = map
    BY <1>5, <1>0, GotoMoves DEF LooseDropSync, Pcs
  <2>2. Exclusive'
    BY <1>0, <2>1, StaysExclusive DEF Busy
  <2>3. Thread(t)'
    BY <1>0, <2>1 DEF Thread, Going, Publishing, Superseding, PackerPcs
  <2>4. Grows
    BY <1>5, <1>0, SettleGrows DEF LooseDropSync, Grows, Whole
  <2> QED BY <2>1, <2>2, <2>3, <2>4 DEF Moves
<1> QED
  BY <1>1, <1>2, <1>3, <1>4, <1>5 DEF Assemble

----------------------------------------------------------------------------
(* Steps that take something away.                                          *)

\* Only blobs whose removal was asked for stop being found or being durable.
Spares == Held \ Held' \subseteq Doomed /\ Kept \ Kept' \subseteq Doomed

LEMMA GrowSpares ==
    ASSUME Grows
    PROVE  Spares
<1>1. Held \subseteq Held'
  BY DEF Grows, Held, Has, PackedLoc
<1>2. Kept \subseteq Kept'
  BY <1>1 DEF Grows, Kept
<1> QED
  BY <1>1, <1>2 DEF Spares

LEMMA MappedHolds ==
    ASSUME Inv, NEW h \in Blobs, map[h] # NoPack
    PROVE  Holds(Pack(map[h]), h) /\ Pack(map[h]) \in live \cap disk
<1>1. map[h] \in Packs /\ h \in map[h] /\ Pack(map[h]) \in live \cap disk
  BY DEF Inv, MapType, Mapped, Packs, NoPack
<1> QED
  BY <1>1 DEF Holds

LEMMA HoldsOnly ==
    ASSUME NEW h, NEW g, NEW S
    PROVE  /\ Holds(Loose(g), h) => h = g
           /\ ~Holds(Side(g), h)
           /\ Holds(Pack(S), h) => h \in S
BY DEF Holds, Loose, Side, Pack

\* A packing thread's step, its own part shown, leaves the whole invariant.
LEMMA PackerKeeps ==
    ASSUME Inv, NEW t \in Threads, Moves(t), Packing(t), MapType', Whole', Mapped'
    PROVE  Inv'
BY OthersIdle DEF Inv, Moves

LEMMA PackMapStep ==
    ASSUME Inv, NEW t \in Threads, PackMap(t)
    PROVE  Inv' /\ Spares
<1>0. JobType /\ Exclusive /\ Going(t) /\ Publishing(t) /\ Superseding(t) /\ Whole /\ MapType /\ Mapped
  BY DEF Inv, Thread
<1>1. /\ pc[t] = "psealed" /\ op[t] \in Packers /\ live' = live /\ disk' = disk /\ Whole'
      /\ Pack(members[t]) \in live \cap disk /\ members[t] \in SUBSET Blobs
  BY <1>0 DEF PackMap, Going, Publishing, PackerPcs, files, Whole, JobType
<1>2. /\ \A h \in members[t] : map'[h] = members[t]
      /\ \A h \in Blobs \ members[t] : map'[h] = map[h]
      /\ MapType'
  BY <1>0, <1>1 DEF PackMap, MapType
<1>3. Mapped'
  BY <1>0, <1>1, <1>2 DEF Mapped
<1>4. Moves(t)
  <2>1. CASE op[t] = "pack"
    BY <2>1, Ended DEF PackMap
  <2>2. CASE op[t] # "pack"
    <3> DEFINE p == IF op[t] = "repack" THEN "forget" ELSE "loosedrop"
    <3>1. /\ JobType' /\ Others(t) /\ pc'[t] = p /\ op'[t] = op[t] /\ blob'[t] = blob[t]
          /\ members'[t] = members[t] /\ gone'[t] = gone[t]
      BY <2>2, <1>0, GotoMoves DEF PackMap, Pcs
    <3>2. Exclusive'
      BY <1>0, <1>1, <3>1, StaysExclusive DEF Busy
    <3>3. Thread(t)'
      BY <1>0, <1>1, <1>2, <3>1, <2>2 DEF Thread, Going, Publishing, Superseding, PackerPcs, Packers, NoPack
    <3> QED BY <3>1, <3>2, <3>3 DEF Moves
  <2> QED BY <2>1, <2>2
<1>5. Inv'
  BY <1>1, <1>2, <1>3, <1>4, PackerKeeps DEF Packing, Busy
<1>6. Held \subseteq Held'
  BY <1>1, <1>2 DEF Held, Has, PackedLoc, NoPack
<1>7. Kept \subseteq Kept'
  BY <1>1, <1>6 DEF Kept
<1> QED
  BY <1>5, <1>6, <1>7 DEF Spares

LEMMA LooseDropStep ==
    ASSUME Inv, NEW t \in Threads, LooseDrop(t)
    PROVE  Inv' /\ Spares
<1>0. JobType /\ Exclusive /\ Going(t) /\ Publishing(t) /\ Superseding(t) /\ Whole /\ MapType /\ Mapped
  BY DEF Inv, Thread
<1>1. CASE members[t] = {}
  <2>1. Grows
    BY <1>0, <1>1 DEF LooseDrop, Grows, Whole
  <2>2. Moves(t)
    BY <1>1, Ended DEF LooseDrop
  <2> QED BY <2>1, <2>2, GrowKeeps, GrowSpares
<1>2. CASE members[t] # {}
  <2>1. PICK h \in members[t] :
              /\ live' = live \ Dir(h)
              /\ blob' = [blob EXCEPT ![t] = h]
              /\ members' = [members EXCEPT ![t] = members[t] \ {h}]
              /\ pc' = [pc EXCEPT ![t] = "loosesync"]
              /\ UNCHANGED <<op, gone, out>>
    BY <1>2 DEF LooseDrop
  <2>2. /\ pc[t] = "loosedrop" /\ op[t] = "consolidate" /\ h \in Blobs /\ map[h] # NoPack
        /\ disk' = disk /\ map' = map /\ Whole' /\ MapType'
    BY <1>0 DEF LooseDrop, Going, Superseding, JobType, Whole, MapType
  <2>3. /\ JobType' /\ Others(t) /\ pc'[t] = "loosesync" /\ op'[t] = op[t] /\ blob'[t] = h
        /\ members'[t] = members[t] \ {h} /\ gone'[t] = gone[t]
    BY <1>0, <2>1, <2>2 DEF JobType, Others, Pcs
  <2>4. Exclusive'
    BY <1>0, <2>2, <2>3, StaysExclusive DEF Busy
  <2>5. Thread(t)'
    BY <1>0, <2>2, <2>3 DEF Thread, Going, Publishing, Superseding, PackerPcs, Packers
  <2>6. \A S : Pack(S) \in live => Pack(S) \in live'
    BY <2>1, NamesApart DEF Dir
  <2>7. Mapped'
    BY <1>0, <2>2, <2>6 DEF Mapped
  <2>8. Inv'
    BY <2>2, <2>3, <2>4, <2>5, <2>7, PackerKeeps DEF Moves, Packing, Busy, Packers
  <2>9. \A x : Loose(x) \in live \ live' => x = h
    BY <2>1, NamesApart DEF Dir
  <2>10. Held \subseteq Held'
    BY <2>2, <2>9 DEF Held, Has, PackedLoc
  <2>11. ASSUME NEW x \in Kept PROVE x \in Kept'
    <3>1. PICK n \in live \cap disk : Holds(n, x)
      BY DEF Kept
    <3>2. CASE n \in live'
      BY <2>2, <2>10, <3>1, <3>2 DEF Kept
    <3>3. CASE n \notin live'
      <4>1. n = Loose(h) \/ n = Side(h)
        BY <3>1, <3>3, <2>1 DEF Dir
      <4>2. x = h
        BY <4>1, <3>1, HoldsOnly
      <4>3. Holds(Pack(map[h]), h) /\ Pack(map[h]) \in live' \cap disk'
        BY <2>2, <2>6, MappedHolds
      <4> QED BY <2>10, <4>2, <4>3 DEF Kept
    <3> QED BY <3>2, <3>3
  <2> QED BY <2>8, <2>10, <2>11 DEF Spares
<1> QED
  BY <1>1, <1>2

LEMMA RepackForgetStep ==
    ASSUME Inv, NEW t \in Threads, RepackForget(t)
    PROVE  Inv' /\ Spares
<1>0. JobType /\ Exclusive /\ Going(t) /\ Publishing(t) /\ Superseding(t) /\ Whole /\ MapType /\ Mapped
  BY DEF Inv, Thread
<1>1. /\ pc[t] = "forget" /\ op[t] = "repack" /\ gone[t] # {} /\ members[t] \cap gone[t] = {}
      /\ live' = live /\ disk' = disk /\ Whole'
      /\ members[t] \in SUBSET Blobs /\ gone[t] \in SUBSET Blobs
  BY <1>0 DEF RepackForget, Going, PackerPcs, files, Whole, JobType
<1>2. /\ \A h \in gone[t] : map'[h] = {}
      /\ \A h \in Blobs \ gone[t] : map'[h] = map[h]
      /\ MapType'
  BY <1>0, <1>1 DEF RepackForget, MapType, NoPack
<1>3. Mapped'
  BY <1>0, <1>1, <1>2 DEF Mapped, NoPack
<1>4. /\ JobType' /\ Others(t) /\ pc'[t] = "unlink" /\ op'[t] = op[t] /\ blob'[t] = blob[t]
      /\ members'[t] = members[t] /\ gone'[t] = gone[t]
  BY <1>0, GotoMoves DEF RepackForget, Pcs
<1>5. Exclusive'
  BY <1>0, <1>1, <1>4, StaysExclusive DEF Busy
<1>6. \A h \in members[t] : map'[h] = members[t]
  BY <1>0, <1>1, <1>2 DEF Superseding
<1>7. ASSUME NEW h \in Blobs PROVE map'[h] # members[t] \cup gone[t]
  <2>1. CASE h \in gone[t]
    BY <2>1, <1>1, <1>2
  <2>2. CASE h \in members[t]
    BY <2>2, <1>1, <1>6
  <2>3. CASE h \notin members[t] \cup gone[t]
    BY <2>3, <1>0, <1>1, <1>2 DEF Mapped, NoPack
  <2> QED BY <2>1, <2>2, <2>3
<1>8. Thread(t)'
  BY <1>1, <1>4, <1>6, <1>7 DEF Thread, Going, Publishing, Superseding, PackerPcs, Packers
<1>9. Inv'
  BY <1>1, <1>2, <1>3, <1>4, <1>5, <1>8, PackerKeeps DEF Moves, Packing, Busy, Packers
<1>10. Held \ Held' \subseteq gone[t]
  BY <1>1, <1>2 DEF Held, Has, PackedLoc
<1>11. Kept \ Kept' \subseteq gone[t]
  BY <1>1, <1>10 DEF Kept
<1> QED
  BY <1>9, <1>10, <1>11 DEF Spares, Doomed

LEMMA RepackUnlinkStep ==
    ASSUME Inv, NEW t \in Threads, RepackUnlink(t)
    PROVE  Inv' /\ Spares
<1>0. JobType /\ Exclusive /\ Going(t) /\ Publishing(t) /\ Superseding(t) /\ Whole /\ MapType /\ Mapped
  BY DEF Inv, Thread
<1>1. /\ pc[t] = "unlink" /\ op[t] = "repack" /\ gone[t] # {} /\ members[t] \cap gone[t] = {}
      /\ live' = live \ {OldPack(t)} /\ disk' = disk /\ map' = map /\ Whole' /\ MapType'
      /\ members[t] \in SUBSET Blobs /\ gone[t] \in SUBSET Blobs
  BY <1>0 DEF RepackUnlink, Going, PackerPcs, Whole, JobType, MapType
<1>2. \A h \in Blobs : Pack(map[h]) # OldPack(t)
  BY <1>0, <1>1, NamesApart DEF Superseding, OldPack
<1>3. Mapped'
  BY <1>0, <1>1, <1>2 DEF Mapped
<1>4. /\ JobType' /\ Others(t) /\ pc'[t] = "unlinksync" /\ op'[t] = op[t] /\ blob'[t] = blob[t]
      /\ members'[t] = members[t] /\ gone'[t] = gone[t]
  BY <1>0, GotoMoves DEF RepackUnlink, Pcs
<1>5. Exclusive'
  BY <1>0, <1>1, <1>4, StaysExclusive DEF Busy
<1>6. Thread(t)'
  BY <1>1, <1>4 DEF Thread, Going, Publishing, Superseding, PackerPcs, Packers
<1>7. Inv'
  BY <1>1, <1>3, <1>4, <1>5, <1>6, PackerKeeps DEF Moves, Packing, Busy, Packers
<1>8. Held \subseteq Held'
  BY <1>1, NamesApart DEF Held, Has, PackedLoc, OldPack
<1>9. ASSUME NEW x \in Kept, x \notin gone[t] PROVE x \in Kept'
  <2>1. PICK n \in live \cap disk : Holds(n, x)
    BY DEF Kept
  <2>2. CASE n # OldPack(t)
    BY <1>1, <1>8, <2>1, <2>2 DEF Kept
  <2>3. CASE n = OldPack(t)
    <3>1. x \in members[t]
      BY <1>9, <2>1, <2>3, HoldsOnly DEF OldPack
    <3>2. x \in Blobs /\ map[x] # NoPack
      BY <1>0, <1>1, <3>1 DEF Superseding, NoPack
    <3>3. Holds(Pack(map[x]), x) /\ Pack(map[x]) \in live' \cap disk'
      BY <1>1, <1>2, <3>2, MappedHolds
    <3> QED BY <1>8, <3>3 DEF Kept
  <2> QED BY <2>2, <2>3
<1> QED
  BY <1>7, <1>8, <1>9 DEF Spares, Doomed

LEMMA UnlinkStep ==
    ASSUME Inv, NEW t \in Threads, Unlink(t)
    PROVE  Inv' /\ Spares
<1>0. JobType /\ Going(t) /\ Whole /\ MapType /\ Mapped
  BY DEF Inv, Thread
<1>1. /\ gone[t] = {blob[t]} /\ disk' = disk /\ map' = map /\ Whole' /\ MapType'
      /\ live \ live' \subseteq Dir(blob[t]) /\ Busy(t)
  BY <1>0 DEF Unlink, Going, Whole, MapType, Dir, Busy
<1>2. Moves(t)
  BY <1>1, Ended, Continues DEF Unlink, Pcs, PackerPcs
<1>3. \A S : Pack(S) \in live => Pack(S) \in live'
  BY <1>1, NamesApart DEF Dir
<1>4. \A u \in Threads \ {t} : Thread(u)'
  BY <1>1, <1>2, <1>3, OthersRely DEF Inv, Moves
<1>5. Mapped'
  BY <1>0, <1>1, <1>3 DEF Mapped
<1>6. Inv'
  BY <1>1, <1>2, <1>4, <1>5 DEF Inv, Moves
<1>7. \A x : Loose(x) \in live \ live' => x = blob[t]
  BY <1>1, NamesApart DEF Dir
<1>8. Held \ Held' \subseteq gone[t]
  BY <1>1, <1>7 DEF Held, Has, PackedLoc
<1>9. ASSUME NEW x \in Kept, x \notin gone[t] PROVE x \in Kept'
  <2>1. PICK n \in live \cap disk : Holds(n, x)
    BY DEF Kept
  <2>2. n \in live'
    BY <1>1, <1>9, <2>1, HoldsOnly DEF Dir
  <2> QED BY <1>1, <1>8, <1>9, <2>1, <2>2 DEF Kept
<1> QED
  BY <1>6, <1>8, <1>9 DEF Spares, Doomed

----------------------------------------------------------------------------
(* Opening a tree, at first and after a crash.                              *)

LEMMA Resolved ==
    ASSUME NEW l, NEW m \in Resolutions(l, {}), NEW h \in Blobs
    PROVE  /\ m \in [Blobs -> SUBSET Blobs]
           /\ m[h] # NoPack => m[h] \in Packs /\ h \in m[h] /\ Pack(m[h]) \in l /\ Holds(Pack(m[h]), h)
           /\ (\E n \in l : Holds(n, h)) => Loose(h) \in l \/ m[h] # NoPack
<1> DEFINE where == {S \in Packs : Pack(S) \in l \ {} /\ h \in S}
<1>1. /\ m \in [Blobs -> SUBSET Blobs]
      /\ IF where = {} THEN m[h] = NoPack ELSE m[h] \in where
  BY DEF Resolutions
<1>2. m[h] # NoPack => m[h] \in Packs /\ h \in m[h] /\ Pack(m[h]) \in l /\ Holds(Pack(m[h]), h)
  BY <1>1 DEF Holds
<1>3. ASSUME NEW n \in l, Holds(n, h), Loose(h) \notin l PROVE m[h] # NoPack
  <2>1. PICK S \in Packs : n = Pack(S) /\ h \in S
    BY <1>3 DEF Holds
  <2>2. S \in where
    BY <1>3, <2>1
  <2> QED BY <1>1, <2>2 DEF Packs, NoPack
<1> QED
  BY <1>1, <1>2, <1>3

LEMMA InitStep ==
    ASSUME Init
    PROVE  Inv /\ Abstract!Init
<1>1. disk = live /\ map \in Resolutions(live, {}) /\ Whole
  BY DEF Init, Whole
<1>2. JobType /\ (\A u \in Threads : pc[u] = "idle" /\ gone[u] = {} /\ op[u] = "none")
  BY DEF Init, JobType, Ops, Pcs
<1>3. MapType
  BY <1>1 DEF MapType, Resolutions
<1>4. Mapped
  BY <1>1, Resolved DEF Mapped
<1>5. Exclusive /\ \A u \in Threads : Thread(u)
  BY <1>2 DEF Exclusive, Packing, Busy, Thread, Going, Publishing, Superseding, PackerPcs
<1>6. Held \in SUBSET Blobs /\ Kept = Held
  BY <1>1, Resolved DEF Held, Kept, Has, PackedLoc, Holds
<1>7. Might = Held
  <2>1. \A h \in Blobs : (\E n \in live \cup disk : Holds(n, h)) => Has(h)
    BY <1>1, Resolved DEF Has, PackedLoc
  <2>2. \A h \in Blobs : Has(h) => \E n \in live \cup disk : Holds(n, h)
    BY <1>1, Resolved DEF Has, PackedLoc, Holds
  <2> QED BY <2>1, <2>2 DEF Might, Held
<1>8. Doomed = {}
  BY <1>2 DEF Doomed
<1> QED
  BY <1>1, <1>2, <1>3, <1>4, <1>5, <1>6, <1>7, <1>8 DEF Inv, Abstract!Init

LEMMA CrashStep ==
    ASSUME Inv, Crash
    PROVE  Inv' /\ Abstract!Crash
<1>1. /\ disk' = live' /\ live \cap disk \subseteq live' /\ live' \subseteq live \cup disk
      /\ Whole' /\ map' \in Resolutions(live', {})
  <2>1. torn' = {} /\ dirty' = {}
    BY DEF Crash, Inv, Whole
  <2>2. \E n \in SUBSET ((live \cup disk) \ (live \cap disk)) :
          /\ live' = (live \cap disk) \cup n
          /\ disk' = live'
    BY DEF Crash
  <2>3. map' \in Resolutions(live', {})
    BY <2>1 DEF Crash
  <2> QED BY <2>1, <2>2, <2>3 DEF Whole
<1>2. JobType' /\ (\A u \in Threads : pc'[u] = "idle" /\ gone'[u] = {} /\ op'[u] = "none")
  BY DEF Crash, JobType, Ops, Pcs
<1>3. MapType'
  BY <1>1 DEF MapType, Resolutions
<1>4. Mapped'
  BY <1>1, Resolved DEF Mapped
<1>5. Exclusive' /\ \A u \in Threads : Thread(u)'
  BY <1>2, QuietNext DEF Exclusive, Packing, Busy, PackerPcs
<1>6. Held' \in SUBSET Blobs /\ Kept' = Held'
  BY <1>1, Resolved DEF Held, Kept, Has, PackedLoc, Holds
<1>7. \A h \in Blobs : Has(h)' <=> \E n \in live' : Holds(n, h)
  <2>1. \A h \in Blobs : (\E n \in live' : Holds(n, h)) => Has(h)'
    BY <1>1, Resolved DEF Has, PackedLoc
  <2>2. \A h \in Blobs : Has(h)' => \E n \in live' : Holds(n, h)
    BY <1>1, Resolved DEF Has, PackedLoc, Holds
  <2> QED BY <2>1, <2>2
<1>8. Might' = Held'
  BY <1>1, <1>7 DEF Might, Held
<1>9. Kept \subseteq Held'
  BY <1>1, <1>7 DEF Kept, Held
<1>10. Held' \subseteq Might
  BY <1>1, <1>7 DEF Held, Might
<1>11. Doomed' = {}
  BY <1>2 DEF Doomed
<1> QED
  BY <1>1, <1>2, <1>3, <1>4, <1>5, <1>6, <1>8, <1>9, <1>10, <1>11 DEF Inv, Abstract!Crash, Abstract!Ordered

----------------------------------------------------------------------------
(* The step theorems.                                                       *)

LEMMA ThreadStep ==
    ASSUME Inv, NEW t \in Threads, Step(t)
    PROVE  Inv' /\ Spares
<1>1. CASE Begin(t)
  BY <1>1, BeginStep, GrowKeeps, GrowSpares
<1>2. CASE Unmoved(t)
  BY <1>2, UnmovedStep, GrowKeeps, GrowSpares
<1>3. CASE Publish(t)
  BY <1>3, PublishStep, GrowKeeps, GrowSpares
<1>4. CASE GetLocate(t)
  BY <1>4, GetLocateStep, GrowKeeps, GrowSpares
<1>5. CASE Assemble(t)
  BY <1>5, AssembleStep, GrowKeeps, GrowSpares
<1>6. CASE PackMap(t) \/ LooseDrop(t) \/ RepackForget(t) \/ RepackUnlink(t) \/ Unlink(t)
  BY <1>6, PackMapStep, LooseDropStep, RepackForgetStep, RepackUnlinkStep, UnlinkStep
<1> QED
  BY <1>1, <1>2, <1>3, <1>4, <1>5, <1>6 DEF Step, Unmoved, Publish, Assemble

LEMMA WorkStep ==
    ASSUME Inv', Spares
    PROVE  Abstract!Work
<1>1. Doomed' \in SUBSET Blobs
  BY DEF Inv, JobType, Doomed
<1>2. Kept' \subseteq Held' /\ Held' \in SUBSET Blobs /\ Might' \in SUBSET Blobs
  BY DEF Kept, Held, Might
<1>3. ASSUME NEW h \in Held' PROVE h \in Might'
  <2>1. CASE Loose(h) \in live'
    BY <1>2, <2>1 DEF Might, Holds
  <2>2. CASE Loose(h) \notin live'
    <3>1. h \in Blobs /\ map'[h] # NoPack
      BY <2>2 DEF Held, Has, PackedLoc
    <3>2. map'[h] \in Packs /\ h \in map'[h] /\ Pack(map'[h]) \in live'
      BY <3>1 DEF Inv, MapType, Mapped, Packs, NoPack
    <3> QED BY <3>1, <3>2 DEF Might, Holds
  <2> QED BY <2>1, <2>2
<1> QED
  BY <1>1, <1>2, <1>3 DEF Spares, Abstract!Work, Abstract!Ordered

LEMMA NextStep ==
    ASSUME Inv, [Next]_vars
    PROVE  Inv' /\ [Abstract!Next]_(Abstract!vars)
<1>1. CASE UNCHANGED vars
  <2>1. Inv'
    BY <1>1 DEF Inv, JobType, MapType, Whole, Mapped, Exclusive, Packing, Busy, Thread, Going,
                Publishing, Superseding, vars, files, job
  <2>2. UNCHANGED Abstract!vars
    BY <1>1 DEF Abstract!vars, Held, Kept, Might, Doomed, Has, PackedLoc, vars, files, job
  <2> QED BY <2>1, <2>2
<1>2. CASE Crash
  BY <1>2, CrashStep DEF Abstract!Next
<1>3. CASE \E t \in Threads : Step(t)
  BY <1>3, ThreadStep, WorkStep DEF Abstract!Next
<1> QED
  BY <1>1, <1>2, <1>3 DEF Next

\* MapIsSound: at every moment, whatever is being packed, repacked, consolidated
\* or recovered from a crash, the resolution map of pack.rs points at a pack file
\* that is there and has the blob among its members.
THEOREM MapStaysSound == Spec => []MapIsSound
<1>1. Init => Inv
  BY InitStep
<1>2. Inv /\ [Next]_vars => Inv'
  BY NextStep
<1>3. Inv => MapIsSound
  BY DEF Inv, Mapped, MapIsSound
<1> QED
  BY <1>1, <1>2, <1>3, PTL DEF Spec

\* Implements: the temp files, renames, directory syncs, packs and sidecars of
\* store.rs and pack.rs, with failing calls and crashes at any point, implement
\* the abstract store of BlobStore.
THEOREM StoreImplements == Spec => Implements
<1>1. Init => Inv /\ Abstract!Init
  BY InitStep
<1>2. Inv /\ [Next]_vars => Inv' /\ [Abstract!Next]_(Abstract!vars)
  BY NextStep
<1> QED
  BY <1>1, <1>2, PTL DEF Spec, Implements, Abstract!Spec

----------------------------------------------------------------------------
(* Lookups that take no lock.                                               *)

\* Between the loose lookup and the map lookup, a blob that has been held and
\* wanted all along is in the map: it was not loose.
Sighted(u) ==
    /\ pc[u] = "locate" /\ steady[u] => map[blob[u]] # NoPack
    /\ out[u] = "notfound" => ~steady[u]

LookupInv == out \in [Threads -> Outs] /\ \A u \in Threads : Sighted(u)

\* A map entry goes only while the removal of its blob is being carried out.
LEMMA MapShrinks ==
    ASSUME Inv, NEW t \in Threads, Step(t), NEW h \in Blobs, map[h] # NoPack, map'[h] = NoPack
    PROVE  h \in Doomed'
<1>1. CASE RepackForget(t)
  <2>1. gone' = gone /\ h \in gone[t]
    BY <1>1 DEF RepackForget, Goto
  <2> QED BY <2>1 DEF Doomed
<1>2. CASE PackMap(t)
  <2>1. h \notin members[t] /\ map'[h] = map[h]
    BY <1>2 DEF PackMap, NoPack
  <2> QED BY <2>1
<1>3. CASE Begin(t) \/ Unmoved(t) \/ Publish(t) \/ GetLocate(t) \/ Assemble(t)
  <2>1. map' = map
    BY <1>3, BeginStep, UnmovedStep, PublishStep, GetLocateStep, AssembleStep DEF Grows
  <2> QED BY <2>1
<1>4. CASE LooseDrop(t) \/ RepackUnlink(t) \/ Unlink(t)
  <2>1. map' = map
    BY <1>4 DEF LooseDrop, RepackUnlink, Unlink
  <2> QED BY <2>1
<1> QED
  BY <1>1, <1>2, <1>3, <1>4 DEF Step, Unmoved, Publish, Assemble

\* What Watch makes of a thread's history.
LEMMA Watched ==
    ASSUME Watch, NEW u \in Threads, steady'[u]
    PROVE  /\ pc'[u] # "idle" \/ pc[u] # "idle"
           /\ pc[u] = "idle" \/ steady[u]
           /\ pc[u] # "idle" => blob[u] \in Held' \ Doomed'
BY DEF Watch

\* A step that moves on without an answer, or answers something else than absent.
Replies(t) ==
    \/ pc[t] # "idle" /\ \E p \in Pcs \ {"locate"} : Goto(t, p)
    \/ \E o : o # "notfound" /\ Return(t, o)

\* Nothing but t's own answer and place change, t does not answer that its blob
\* is absent, and t is not between the two lookups.
Discreet(t) ==
    /\ out' \in [Threads -> Outs]
    /\ \A u \in Threads \ {t} : out'[u] = out[u] /\ pc'[u] = pc[u] /\ blob'[u] = blob[u]
    /\ out'[t] = "notfound" => out[t] = "notfound" /\ pc[t] # "idle"
    /\ pc'[t] # "locate"

LEMMA RepliesDiscreetly ==
    ASSUME Inv, LookupInv, NEW t \in Threads, Replies(t)
    PROVE  Discreet(t)
<1>0. pc \in [Threads -> Pcs] /\ blob \in [Threads -> Blobs \cup {None}] /\ out \in [Threads -> Outs]
  BY DEF Inv, JobType, LookupInv
<1>1. CASE pc[t] # "idle" /\ \E p \in Pcs \ {"locate"} : Goto(t, p)
  BY <1>0, <1>1 DEF Goto, Discreet
<1>2. CASE \E o : o # "notfound" /\ Return(t, o)
  BY <1>0, <1>2 DEF Return, Discreet, Outs
<1> QED
  BY <1>1, <1>2 DEF Replies

Plain(t) ==
    \/ Fault(t) \/ PutStart(t) \/ PutStream(t) \/ PutCheck(t) \/ PutRename(t) \/ PutDirSync(t)
    \/ PutSide(t) \/ SideRename(t) \/ SideDirSync(t)
    \/ PackStart(t) \/ PackRename(t) \/ PackDirSync(t) \/ PackMap(t) \/ LooseDropSync(t)
    \/ RepackForget(t) \/ RepackUnlink(t) \/ RepackUnlinkSync(t) \/ Unlink(t) \/ UnlinkSync(t)
    \/ GetOpen(t) \/ RangeLen(t) \/ RangeTree(t) \/ RangeFetch(t)

LEMMA PlainReplies ==
    ASSUME NEW t \in Threads, Plain(t)
    PROVE  Replies(t)
<1>1. CASE Fault(t) \/ PutStart(t) \/ PutStream(t) \/ PutCheck(t)
  BY <1>1 DEF Fault, PutStart, PutStream, PutCheck, Replies, Pcs
<1>2. CASE PutRename(t) \/ PutDirSync(t) \/ PutSide(t) \/ SideRename(t) \/ SideDirSync(t)
  BY <1>2 DEF PutRename, PutDirSync, PutSide, SideRename, SideDirSync, Replies, Pcs
<1>3. CASE PackStart(t) \/ PackRename(t) \/ PackDirSync(t) \/ PackMap(t) \/ LooseDropSync(t)
  BY <1>3 DEF PackStart, PackRename, PackDirSync, PackMap, LooseDropSync, Replies, Pcs
<1>4. CASE RepackForget(t) \/ RepackUnlink(t) \/ RepackUnlinkSync(t) \/ Unlink(t) \/ UnlinkSync(t)
  BY <1>4 DEF RepackForget, RepackUnlink, RepackUnlinkSync, Unlink, UnlinkSync, Replies, Pcs
<1>5. CASE GetOpen(t) \/ RangeLen(t) \/ RangeTree(t) \/ RangeFetch(t)
  BY <1>5 DEF GetOpen, RangeLen, RangeTree, RangeFetch, Replies, Pcs
<1> QED
  BY <1>1, <1>2, <1>3, <1>4, <1>5 DEF Plain

LEMMA LookupStep ==
    ASSUME Inv, LookupInv, NEW t \in Threads, Step(t), Watch
    PROVE  LookupInv'
<1>0. /\ pc \in [Threads -> Pcs] /\ blob \in [Threads -> Blobs \cup {None}] /\ out \in [Threads -> Outs]
      /\ members \in [Threads -> SUBSET Blobs]
  BY DEF Inv, JobType, LookupInv
<1>1. /\ out' \in [Threads -> Outs]
      /\ \A u \in Threads \ {t} : out'[u] = out[u] /\ pc'[u] = pc[u] /\ blob'[u] = blob[u]
      /\ out'[t] = "notfound" => \/ pc[t] = "locate" /\ map[blob[t]] = NoPack
                                 \/ out[t] = "notfound" /\ pc[t] # "idle"
      /\ pc'[t] = "locate" => /\ pc[t] # "idle" /\ blob'[t] = blob[t]
                              /\ map' = map /\ Loose(blob[t]) \notin live'
  <2>1. CASE Plain(t)
    BY <2>1, PlainReplies, RepliesDiscreetly DEF Discreet
  <2>2. CASE Begin(t)
    <3>1. PICK o \in Ops, h \in Blobs \cup {None}, S \in SUBSET Blobs, D \in SUBSET Blobs : Start(t, o, h, S, D)
      BY <2>2 DEF Begin, Ops, Packs
    <3> QED BY <1>0, <3>1 DEF Start, Outs
  <2>3. CASE RepackStart(t)
    <3>1. CASE Return(t, "error")
      BY <3>1, RepliesDiscreetly DEF Replies, Discreet
    <3>2. CASE /\ pc' = [pc EXCEPT ![t] = IF members[t] \ gone[t] = {} THEN "forget" ELSE "psynced"]
               /\ UNCHANGED <<op, blob, gone, out>>
      BY <1>0, <3>2, <2>3 DEF RepackStart
    <3> QED BY <2>3, <3>1, <3>2 DEF RepackStart
  <2>4. CASE LooseDrop(t)
    <3>1. CASE members[t] = {}
      BY <2>4, <3>1, RepliesDiscreetly DEF LooseDrop, Replies, Discreet
    <3>2. CASE members[t] # {}
      BY <1>0, <2>4, <3>2 DEF LooseDrop
    <3> QED BY <3>1, <3>2
  <2>5. CASE GetLoose(t)
    <3>1. CASE Loose(blob[t]) \in live
      BY <2>5, <3>1, RepliesDiscreetly DEF GetLoose, Replies, Discreet
    <3>2. CASE Loose(blob[t]) \notin live
      BY <1>0, <2>5, <3>2 DEF GetLoose, Goto, files
    <3> QED BY <3>1, <3>2
  <2>6. CASE GetLocate(t)
    <3>1. CASE PackedLoc(blob[t]) = NoPack
      BY <1>0, <2>6, <3>1 DEF GetLocate, Return, Outs, PackedLoc
    <3>2. CASE PackedLoc(blob[t]) # NoPack
      BY <1>0, <2>6, <3>2 DEF GetLocate
    <3> QED BY <3>1, <3>2
  <2> QED BY <2>1, <2>2, <2>3, <2>4, <2>5, <2>6 DEF Step, Plain
<1>2. ASSUME NEW u \in Threads \ {t} PROVE Sighted(u)'
  <2>1. Sighted(u) /\ out'[u] = out[u] /\ pc'[u] = pc[u] /\ blob'[u] = blob[u]
    BY <1>1 DEF LookupInv
  <2>2. ASSUME pc'[u] = "locate", steady'[u] PROVE map'[blob'[u]] # NoPack
    <3>1. steady[u] /\ blob[u] \in Blobs \ Doomed'
      BY <2>1, <2>2, Watched DEF Held
    <3>2. map[blob[u]] # NoPack
      BY <2>1, <2>2, <3>1 DEF Sighted
    <3> QED BY <2>1, <3>1, <3>2, MapShrinks
  <2>3. ASSUME out'[u] = "notfound", steady'[u] PROVE FALSE
    <3>1. pc[u] # "idle" /\ steady[u]
      BY <2>1, <2>3, Watched
    <3> QED BY <2>1, <2>3, <3>1 DEF Sighted
  <2> QED BY <2>2, <2>3 DEF Sighted
<1>3. Sighted(t)'
  <2>1. ASSUME pc'[t] = "locate", steady'[t] PROVE map'[blob'[t]] # NoPack
    <3>1. blob[t] \in Held'
      BY <1>1, <2>1, Watched
    <3> QED BY <1>1, <2>1, <3>1 DEF Held, Has, PackedLoc
  <2>2. ASSUME out'[t] = "notfound", steady'[t] PROVE FALSE
    <3>1. pc[t] # "idle" /\ Sighted(t)
      BY <1>1, <2>2 DEF LookupInv
    <3>2. steady[t]
      BY <2>2, <3>1, Watched
    <3> QED BY <1>1, <2>2, <3>1, <3>2 DEF Sighted
  <2> QED BY <2>1, <2>2 DEF Sighted
<1> QED
  BY <1>1, <1>2, <1>3 DEF LookupInv

\* NoFalseAbsence: Store::get takes no lock, yet it never reports a blob absent
\* that was held, and that nobody was removing, from the call to the answer.
THEOREM LookupNeverMisses == Spec => []NoFalseAbsence
<1>1. Init => Inv /\ LookupInv
  <2>1. Init => LookupInv
    BY DEF Init, LookupInv, Sighted, Outs
  <2> QED BY <2>1, InitStep
<1>2. Inv /\ LookupInv /\ [Next]_vars => Inv' /\ LookupInv'
  <2> SUFFICES ASSUME Inv, LookupInv, [Next]_vars PROVE LookupInv'
    BY NextStep
  <2>1. CASE UNCHANGED vars
    BY <2>1 DEF vars, files, job, LookupInv, Sighted
  <2>2. CASE Crash
    BY <2>2 DEF Crash, LookupInv, Sighted, Outs
  <2>3. CASE Watch /\ \E t \in Threads : Step(t)
    BY <2>3, LookupStep
  <2> QED BY <2>1, <2>2, <2>3 DEF Next
<1>3. LookupInv => NoFalseAbsence
  BY DEF LookupInv, Sighted, NoFalseAbsence
<1> QED
  BY <1>1, <1>2, <1>3, PTL DEF Spec
=============================================================================
