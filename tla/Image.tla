------------------------------- MODULE Image --------------------------------
(***************************************************************************)
(* Reified disk images (decision D62): a view snapshot laid out as a FAT32 *)
(* volume whose bytes are one assemble@1 recipe over a FAT, a directory    *)
(* skeleton and the content blobs.  fat32.rs says of its own arithmetic    *)
(* that no runtime verification can catch a mistake in it: a wrong chain   *)
(* serves faithfully wrong bytes.  So the image is read back here the way  *)
(* a FAT driver reads it.                                                  *)
(*                                                                         *)
(* A cell stands for a byte of file content, a FAT entry or a 32-byte      *)
(* directory slot; sectors and clusters are counted in cells.  A name is a *)
(* string, and what its conversions give is tabulated in NameOf.           *)
(***************************************************************************)
EXTENDS Integers, Sequences, FiniteSets, SequencesExt

CONSTANTS
    NameOf,         \* NameOf[n]: [fold, plain, lossy, exact, tails, units, legal]
    NameOrder,      \* the names in byte order
    PathOrder,      \* the paths in byte order
    Checksum,       \* Checksum[s]: the eight-bit sum of a short name
    Snapshots,      \* the view snapshots: sequences of [path, hash, size]
    Volumes,        \* the parameters: [label, partition, cluster]
    BlobLen,        \* BlobLen[h]: the length of a content blob on disk
    Sector, Reserved, BackupAt, PartitionLba, LfnUnits,
    MinClusters, MaxClusters, MaxSlots, MaxSectors, MaxFileSize,
    MaxFaults

VARIABLES
    snap,       \* the snapshot being rendered
    volume,     \* its parameters
    mint,       \* where the mint stands, and what it holds
    literals,   \* the content blobs that are resident
    recipes,    \* the indexed image recipes: <<image, verify state>>
    tag,        \* the image the image/<name> tag names
    faults

imagevars == <<snap, volume, mint, literals, recipes, tag, faults>>

Ceil(a, b) == (a + b - 1) \div b
Zero == [kind |-> "zero"]
Eoc == [kind |-> "eoc"]
Byte(h, k) == [kind |-> "byte", of |-> h, at |-> k]
Link(c) == [kind |-> "link", next |-> c]

-----------------------------------------------------------------------------
(* build_tree: directories in the order they are met, children by name.    *)

Rank(x, order) == CHOOSE i \in DOMAIN order : order[i] = x

EmptyTree == [ok |-> TRUE, at |-> 1, dirs |-> <<[path |-> <<>>, parent |-> 1, kids |-> <<>>]>>]

\* Files and directories of one parent share a namespace that ignores case.
Taken(t, n) == \E i \in DOMAIN t.dirs[t.at].kids :
                    NameOf[t.dirs[t.at].kids[i].name].fold = NameOf[n].fold

AddKid(t, kid) == [t EXCEPT !.dirs[t.at].kids = Append(@, kid)]

\* ensure_dir, one component of the path.
EnsureDir(t, comp) ==
    LET path == Append(t.dirs[t.at].path, comp)
        had  == {i \in DOMAIN t.dirs : t.dirs[i].path = path}
        next == Len(t.dirs) + 1
    IN  CASE ~ t.ok -> t
          [] t.ok /\ had # {} -> [t EXCEPT !.at = CHOOSE i \in had : TRUE]
          [] t.ok /\ had = {} /\ (~ NameOf[comp].legal \/ Taken(t, comp)) -> [t EXCEPT !.ok = FALSE]
          [] OTHER ->
                [AddKid(t, [name |-> comp, dir |-> TRUE, ix |-> next]) EXCEPT
                    !.dirs = Append(@, [path |-> path, parent |-> t.at, kids |-> <<>>]),
                    !.at = next]

AddFile(t, f) ==
    LET name == Last(f.row.path)
        home == FoldLeft(EnsureDir, [t EXCEPT !.at = 1], Front(f.row.path))
    IN  IF ~ home.ok \/ f.row.size > MaxFileSize \/ ~ NameOf[name].legal \/ Taken(home, name)
        THEN [t EXCEPT !.ok = FALSE]
        ELSE AddKid(home, [name |-> name, dir |-> FALSE, ix |-> f.ix])

BuildTree(rows) ==
    LET built  == FoldLeft(AddFile, EmptyTree, [i \in DOMAIN rows |-> [row |-> rows[i], ix |-> i]])
        sorted == \A i \in 1..(Len(rows) - 1) :
                      Rank(rows[i].path, PathOrder) < Rank(rows[i + 1].path, PathOrder)
        byName(a, b) == Rank(a.name, NameOrder) < Rank(b.name, NameOrder)
    IN  [ok   |-> sorted /\ built.ok,
         dirs |-> [d \in DOMAIN built.dirs |->
                      [built.dirs[d] EXCEPT !.kids = SortSeq(@, byName)]]]

-----------------------------------------------------------------------------
(* Short names and directory slots.                                        *)

\* short_name: the plain 8.3 form when nothing is lost and nobody has it, else
\* the first numbered tail that is free.
ShortName(n, used) ==
    IF ~ NameOf[n].lossy /\ NameOf[n].plain \notin used
    THEN [short |-> NameOf[n].plain, lfn |-> ~ NameOf[n].exact]
    ELSE LET t == NameOf[n].tails
         IN  [short |-> t[CHOOSE i \in DOMAIN t : t[i] \notin used /\ \A j \in 1..(i - 1) : t[j] \in used],
              lfn |-> TRUE]

Shortened(kids) ==
    LET step(acc, kid) ==
            LET s == ShortName(kid.name, {acc[i].short : i \in DOMAIN acc})
            IN  Append(acc, [name |-> kid.name, dir |-> kid.dir, ix |-> kid.ix,
                             short |-> s.short, lfn |-> s.lfn])
    IN  FoldLeft(step, <<>>, kids)

LfnEntryCount(n) == Ceil(NameOf[n].units, LfnUnits)

\* Mutant: the long-name slots are counted by rounding down.
DirSlotsShort(d, kids, vol) ==
    FoldLeft(LAMBDA n, k : n + 1 + (IF k.lfn THEN NameOf[k.name].units \div LfnUnits ELSE 0),
             IF d = 1 THEN (IF vol.label THEN 1 ELSE 0) ELSE 2, kids)

DirSlots(d, kids, vol) ==
    FoldLeft(LAMBDA n, k : n + 1 + (IF k.lfn THEN LfnEntryCount(k.name) ELSE 0),
             IF d = 1 THEN (IF vol.label THEN 1 ELSE 0) ELSE 2, kids)

\* push_lfn: the slots of a long name, last part first; push_sfn: the short entry.
PushLfn(k) ==
    LET n == LfnEntryCount(k.name)
    IN  [i \in 1..n |-> [kind |-> "lfn", seq |-> n + 1 - i, last |-> i = 1,
                         name |-> k.name, sum |-> Checksum[k.short]]]
PushSfn(short, attr, first, size) ==
    <<[kind |-> "sfn", short |-> short, attr |-> attr, first |-> first, size |-> size]>>

Zeros(n) == [i \in 1..n |-> Zero]
Pad(cells, n) == cells \o Zeros(n - Len(cells))

-----------------------------------------------------------------------------
(* layout.                                                                 *)

\* The clusters handed out one after the other, from first on.
Runs(first, lens) ==
    LET step(acc, n) == [next |-> acc.next + n, runs |-> Append(acc.runs, [first |-> acc.next, n |-> n])]
    IN  FoldLeft(step, [next |-> first, runs |-> <<>>], lens)

\* A chain is a contiguous run that ends in the marker.
Chain(run, c) == IF c = run.first + run.n - 1 THEN Eoc ELSE Link(c + 1)

\* The FAT: reserved entries, the chains, zeros for the free clusters.
Fat(runs, cells) ==
    [i \in 1..cells |->
        LET c == i - 1
            owner == {k \in DOMAIN runs : c \in runs[k].first..(runs[k].first + runs[k].n - 1)}
        IN  IF c < 2 THEN Eoc ELSE IF owner = {} THEN Zero ELSE Chain(runs[CHOOSE k \in owner : TRUE], c)]

\* One directory's slots: the label or the dot entries, then the children.
DirCells(d, dirs, kids, dirRuns, fileRuns, rows, vol) ==
    LET dot  == PushSfn(".", "dir", dirRuns[d].first, 0)
        up   == PushSfn("..", "dir", IF dirs[d].parent = 1 THEN 0 ELSE dirRuns[dirs[d].parent].first, 0)
        head == IF d = 1 THEN (IF vol.label THEN PushSfn("LABEL", "label", 0, 0) ELSE <<>>) ELSE dot \o up
        body(k) == (IF k.lfn THEN PushLfn(k) ELSE <<>>) \o
                   (IF k.dir THEN PushSfn(k.short, "dir", dirRuns[k.ix].first, 0)
                    ELSE PushSfn(k.short, "file",
                                 IF fileRuns[k.ix].n = 0 THEN 0 ELSE fileRuns[k.ix].first, rows[k.ix].size))
    IN  FoldLeft(LAMBDA acc, k : acc \o body(k), head, kids)

Sectored(cell) == <<cell>> \o Zeros(Sector - 1)
BootSector(vol, total, fatSectors) ==
    Sectored([kind |-> "boot", spc |-> vol.cluster \div Sector, reserved |-> Reserved,
              hidden |-> IF vol.partition THEN PartitionLba ELSE 0,
              total |-> total, fatSectors |-> fatSectors, root |-> 2])
FsinfoSector(free, next) == Sectored([kind |-> "fsinfo", free |-> free, next |-> next])
MbrSector(sectors) == Sectored([kind |-> "mbr", lba |-> PartitionLba, sectors |-> sectors])

Literal(cells) == [kind |-> "literal", len |-> Len(cells), cells |-> cells, ix |-> 0]
Window(kind, ix, len) == [kind |-> kind, len |-> len, cells |-> <<>>, ix |-> ix]
Fill(len) == Literal(Zeros(len))

\* The first pass: short names, and the slots each directory needs.
Sketch(tree, vol) ==
    LET kids == [d \in DOMAIN tree.dirs |-> Shortened(tree.dirs[d].kids)]
    IN  [ok |-> tree.ok, dirs |-> tree.dirs, kids |-> kids,
         slots |-> [d \in DOMAIN tree.dirs |-> DirSlots(d, kids[d], vol)]]

\* Clusters are handed out to the directories and then to the files.
Allocate(dirRuns, fileRuns) ==
    LET used == fileRuns.next - 2
        n    == IF used < MinClusters THEN MinClusters ELSE used
    IN  [dirs |-> dirRuns.runs, files |-> fileRuns.runs, used |-> used, n |-> n,
         fatSectors |-> Ceil(n + 2, Sector)]
AllocateFiles(dirRuns, rows, vol) ==
    Allocate(dirRuns, Runs(dirRuns.next, [i \in DOMAIN rows |-> Ceil(rows[i].size, vol.cluster)]))
AllocateAll(sk, rows, vol) ==
    AllocateFiles(Runs(2, [d \in DOMAIN sk.slots |->
                              IF sk.slots[d] = 0 THEN 1 ELSE Ceil(sk.slots[d], vol.cluster)]), rows, vol)

Skeleton(sk, al, rows, vol) ==
    FoldLeft(LAMBDA acc, d : acc \o Pad(DirCells(d, sk.dirs, sk.kids[d], al.dirs, al.files, rows, vol),
                                       al.dirs[d].n * vol.cluster),
             <<>>, [d \in DOMAIN sk.dirs |-> d])

\* A file's window, and zeros up to the end of its last cluster.
FileSegments(i, size, room) ==
    (IF size > 0 THEN <<Window("file", i, size)>> ELSE <<>>)
    \o (IF room > size THEN <<Fill(room - size)>> ELSE <<>>)

HeadSegments(vol, sectors, boot, info) ==
    (IF vol.partition THEN <<Literal(MbrSector(sectors)), Fill((PartitionLba - 1) * Sector)>> ELSE <<>>)
    \o <<boot, info, Fill((BackupAt - 2) * Sector), boot, info, Fill((Reserved - BackupAt - 2) * Sector)>>

Refused == [ok |-> FALSE, fat |-> <<>>, dirs |-> <<>>, segments |-> <<>>]

\* The second pass: the FAT, the directory skeleton and the assemble program.
Emit(al, dirs, rows, vol, sectors) ==
    [ok |-> TRUE,
     fat |-> Fat(al.dirs \o al.files, al.fatSectors * Sector),
     dirs |-> dirs,
     segments |->
        HeadSegments(vol, sectors, Literal(BootSector(vol, sectors, al.fatSectors)),
                     Literal(FsinfoSector(al.n - al.used, IF al.n > al.used THEN 2 + al.used ELSE 0)))
        \o <<Window("fat", 0, al.fatSectors * Sector), Window("fat", 0, al.fatSectors * Sector),
             Window("dirs", 0, Len(dirs))>>
        \o FoldLeft(LAMBDA acc, i : acc \o FileSegments(i, rows[i].size, al.files[i].n * vol.cluster),
                    <<>>, [i \in DOMAIN rows |-> i])
        \o (IF al.n > al.used THEN <<Fill((al.n - al.used) * vol.cluster)>> ELSE <<>>)]

Measured(sk, al, rows, vol, sectors) ==
    IF al.n > MaxClusters \/ sectors > MaxSectors THEN Refused
    ELSE Emit(al, Skeleton(sk, al, rows, vol), rows, vol, sectors)

Arrange(sk, al, rows, vol) ==
    Measured(sk, al, rows, vol, Reserved + 2 * al.fatSectors + al.n * (vol.cluster \div Sector))

Sketched(sk, rows, vol) ==
    IF ~ sk.ok \/ (\E d \in DOMAIN sk.slots : sk.slots[d] > MaxSlots) THEN Refused
    ELSE Arrange(sk, AllocateAll(sk, rows, vol), rows, vol)

Layout(rows, vol) == Sketched(Sketch(BuildTree(rows), vol), rows, vol)

\* assemble@1 over the opened inputs: the cells of the image.
Assemble(lay, rows) ==
    LET cells(s) == CASE s.kind = "literal" -> s.cells
                      [] s.kind = "fat" -> lay.fat
                      [] s.kind = "dirs" -> lay.dirs
                      [] s.kind = "file" -> [k \in 1..s.len |-> Byte(rows[s.ix].hash, k)]
    IN  FoldLeft(LAMBDA acc, s : acc \o cells(s), <<>>, lay.segments)

-----------------------------------------------------------------------------
(* mint_image.                                                             *)

Idle == [at |-> "idle", layout |-> <<>>, image |-> <<>>]
Laid(lay) == [at |-> IF lay.ok THEN "open" ELSE "refused", layout |-> lay, image |-> <<>>]
Contents(rows) == {rows[i].hash : i \in DOMAIN rows}

\* missing_inputs, and the command's materialization of each before the mint.
MaterializeMissing ==
    /\ mint.at = "idle"
    /\ ~ Contents(snap) \subseteq literals
    /\ literals' = literals \cup Contents(snap)
    /\ UNCHANGED <<snap, volume, mint, recipes, tag, faults>>

\* The layout is computed; a path, a size or a count FAT32 cannot hold refuses it.
MintLayout ==
    /\ mint.at = "idle"
    /\ mint' = Laid(Layout(snap, volume))
    /\ UNCHANGED <<snap, volume, literals, recipes, tag, faults>>

\* Every content blob is opened; a missing one, or a window past its end, refuses.
MintOpen ==
    /\ mint.at = "open"
    /\ mint' = IF /\ Contents(snap) \subseteq literals
                  /\ \A i \in DOMAIN snap : snap[i].size <= BlobLen[snap[i].hash]
               THEN [mint EXCEPT !.at = "index", !.image = Assemble(mint.layout, snap)]
               ELSE [Idle EXCEPT !.at = "refused"]
    /\ UNCHANGED <<snap, volume, literals, recipes, tag, faults>>

Indexed(image) == {r \in recipes : r[1] = image}

\* The recipe row is written unless it is there; it starts pending.
MintIndex ==
    /\ mint.at = "index"
    /\ IF Indexed(mint.image) # {}
       THEN mint' = [mint EXCEPT !.at = "tag"] /\ UNCHANGED recipes
       ELSE /\ recipes' = recipes \cup {<<mint.image, "pending">>}
            /\ mint' = [mint EXCEPT !.at = "verify"]
    /\ UNCHANGED <<snap, volume, literals, tag, faults>>

MintVerify ==
    /\ mint.at = "verify"
    /\ recipes' = (recipes \ Indexed(mint.image)) \cup {<<mint.image, "verified">>}
    /\ mint' = [mint EXCEPT !.at = "tag"]
    /\ UNCHANGED <<snap, volume, literals, tag, faults>>

\* The flip: the tag is the pin and the serving root.
MintTag ==
    /\ mint.at = "tag"
    /\ tag' = mint.image
    /\ mint' = [Idle EXCEPT !.at = "done"]
    /\ UNCHANGED <<snap, volume, literals, recipes, faults>>

\* The daemon evicts a content blob no tagged image pins.
EvictContent ==
    /\ tag = <<>>
    /\ faults < MaxFaults /\ faults' = faults + 1
    /\ \E h \in literals : literals' = literals \ {h}
    /\ UNCHANGED <<snap, volume, mint, recipes, tag>>

\* The command dies; its next run starts over.
MintDies ==
    /\ mint.at \in {"open", "index", "verify", "tag"}
    /\ faults < MaxFaults /\ faults' = faults + 1
    /\ mint' = Idle
    /\ UNCHANGED <<snap, volume, literals, recipes, tag>>

ImInit ==
    /\ snap \in Snapshots
    /\ volume \in Volumes
    /\ mint = Idle
    /\ literals \in {{}, Contents(snap)}
    /\ recipes = {} /\ tag = <<>> /\ faults = 0

ImNext ==
    \/ MaterializeMissing \/ MintLayout \/ MintOpen \/ MintIndex \/ MintVerify \/ MintTag
    \/ EvictContent \/ MintDies

-----------------------------------------------------------------------------
(* A FAT32 driver, from the format's definition.                           *)

At(image, off, len) == SubSeq(image, off + 1, off + len)

\* The clusters from c on, as the first FAT of the volume chains them.
RECURSIVE Follow(_, _, _)
Follow(fat, c, fuel) ==
    IF fuel = 0 \/ c + 1 \notin DOMAIN fat THEN <<>>
    ELSE IF fat[c + 1] = Eoc THEN <<c>>
    ELSE IF fat[c + 1] = Zero THEN <<>>
    ELSE <<c>> \o Follow(fat, fat[c + 1].next, fuel - 1)

\* What the driver finds at the boot sector.
Mount(image) ==
    LET base == IF image[1].kind = "mbr" THEN image[1].lba * Sector ELSE 0
        boot == image[base + 1]
        fatAt == base + boot.reserved * Sector
        fatLen == boot.fatSectors * Sector
    IN  [base |-> base, boot |-> boot, info |-> image[base + Sector + 1],
         cluster |-> boot.spc * Sector,
         fat |-> At(image, fatAt, fatLen), copy |-> At(image, fatAt + fatLen, fatLen),
         data |-> fatAt + 2 * fatLen]

Bytes(image, v, first) ==
    LET cs == Follow(v.fat, first, Len(v.fat))
    IN  FoldLeft(LAMBDA acc, c : acc \o At(image, v.data + (c - 2) * v.cluster, v.cluster), <<>>, cs)

\* The entries of a directory up to the first zero slot, each under its long name
\* when the slots before it spell one and carry its checksum.
Entries(cells) ==
    LET live == {i \in DOMAIN cells : \A j \in 1..i : cells[j] # Zero}
        sfns == {i \in live : cells[i].kind = "sfn" /\ cells[i].attr # "label"}
        named(i) == IF i > 1 /\ cells[i - 1].kind = "lfn" /\ cells[i - 1].seq = 1
                       /\ cells[i - 1].sum = Checksum[cells[i].short]
                       /\ \A q \in 1..LfnEntryCount(cells[i - 1].name) :
                              /\ i - q >= 1
                              /\ cells[i - q].kind = "lfn"
                              /\ cells[i - q].name = cells[i - 1].name /\ cells[i - q].seq = q
                    THEN cells[i - 1].name ELSE cells[i].short
    IN  {[name |-> named(i), short |-> cells[i].short, attr |-> cells[i].attr,
          first |-> cells[i].first, size |-> cells[i].size, slot |-> i] : i \in sfns}

RECURSIVE ListDir(_, _, _, _)
ListDir(image, v, first, path) ==
    LET es   == Entries(Bytes(image, v, first))
        subs == {e \in es : e.attr = "dir" /\ e.name \notin {".", ".."}}
        file(e) == [path |-> Append(path, e.name),
                    bytes |-> IF e.size = 0 THEN <<>> ELSE SubSeq(Bytes(image, v, e.first), 1, e.size)]
    IN  {file(e) : e \in {x \in es : x.attr = "file"}}
        \cup UNION {ListDir(image, v, e.first, Append(path, e.name)) : e \in subs}

\* Every directory's dot entries lead to itself and to its parent, and no two
\* of its children share a short name.
RECURSIVE DirsSound(_, _, _, _)
DirsSound(image, v, first, up) ==
    LET es   == Entries(Bytes(image, v, first))
        subs == {e \in es : e.attr = "dir" /\ e.name \notin {".", ".."}}
    IN  /\ \A e, f \in es : e.short = f.short => e = f
        /\ \A e \in es : e.name = "." => e.first = first
        /\ \A e \in es : e.name = ".." => e.first = up
        /\ \A e \in subs : DirsSound(image, v, e.first, IF first = v.boot.root THEN 0 ELSE first)

ReadBack(image) == LET v == Mount(image) IN ListDir(image, v, v.boot.root, <<>>)

-----------------------------------------------------------------------------
(* Properties.                                                             *)

\* The image the tag names is the view: a driver that mounts it finds exactly
\* the snapshot's paths, each with its blob's bytes; the directories are sound,
\* and the free-cluster count and both FAT copies agree with the chains.
ImageReadsBack ==
    tag # <<>> =>
        LET v == Mount(tag)
        IN  /\ ReadBack(tag) = {[path |-> snap[i].path,
                                 bytes |-> [k \in 1..snap[i].size |-> Byte(snap[i].hash, k)]] : i \in DOMAIN snap}
            /\ DirsSound(tag, v, v.boot.root, 0)
            /\ v.fat = v.copy
            /\ Len(tag) = (v.base \div Sector + v.boot.total) * Sector
            /\ v.info.free = (Len(tag) - v.data) \div v.cluster
                             - Cardinality({i \in DOMAIN v.fat : i > 2 /\ v.fat[i] # Zero})

=============================================================================
