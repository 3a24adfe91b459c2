------------------------------- MODULE Render -------------------------------
(****************************************************************************)
(* What a view shows and what changed in a dat: datboi-catalog/src/views.rs  *)
(* (layout, collisions, bucketing), selection.rs (`select_1g1r`), mame.rs    *)
(* (`render_sets`), profiles.rs (`constrain_path`), diff.rs (`diff_source`), *)
(* and the manifest's own checks in datboi-core/src/viewsnap.rs.             *)
(*                                                                          *)
(* Names are sequences of symbols.  A letter stands for a run of text; "N"   *)
(* is a noise prefix, "R" a region tag and "r" its short form, "?" any       *)
(* symbol FAT bans, and a blob's own name is the symbol of its hash suffix.  *)
(* Widths are scaled down.                                                   *)
(****************************************************************************)
EXTENDS Naturals, Integers, Sequences, SequencesExt, FiniteSets, Folds, TLC

CONSTANTS
    Jobs,      \* the inputs: [kind |-> "layout" | "sets" | "diff", ...]
    Budget,    \* width of a path component, the suffix's reserve taken off
    DirCap     \* entries a directory may have

VARIABLES
    job,       \* the input
    next,      \* layout: the picks laid out so far
    rows,      \* layout: the rows [path, blob, pick]
    out        \* the result: "none" until there is one

rvars == <<job, next, rows, out>>

None == [kind |-> "none"]

----------------------------------------------------------------------------
(* Strings.                                                                 *)

Width(s) == IF s = "R" THEN 3 ELSE IF s = "N" THEN 2 ELSE 1
Wide(n) == FoldFunction(LAMBDA s, w : Width(s) + w, 0, n)
LastAt(n, c) == CHOOSE i \in 0..Len(n) : (i = 0 \/ n[i] = c) /\ \A j \in i + 1 .. Len(n) : n[j] # c
Upto(n, i) == SubSeq(n, 1, i)
From(n, i) == SubSeq(n, i, Len(n))
Mapped(n, bad) == [i \in DOMAIN n |-> IF n[i] \in bad THEN "_" ELSE n[i]]
Trimmed(n, off) ==
    LET keep == CHOOSE i \in 0..Len(n) : (i = 0 \/ n[i] \notin off) /\ \A j \in i + 1 .. Len(n) : n[j] \in off
    IN  Upto(n, keep)

\* split('/') and join("/").
Split(n) ==
    LET cuts == {0, Len(n) + 1} \cup {i \in DOMAIN n : n[i] = "/"}
        at == SetToSortSeq(cuts, <)
    IN  [k \in 1 .. Len(at) - 1 |-> SubSeq(n, at[k] + 1, at[k + 1] - 1)]
Joined(parts) == FoldLeft(LAMBDA acc, p : IF acc = <<>> THEN p ELSE acc \o <<"/">> \o p, <<>>, parts)

Canonical(n) == n # <<>> /\ \A c \in Range(Split(n)) : c \notin {<<>>, <<".">>, <<".", ".">>}

SanitizeComponent(c) ==
    LET cleaned == Mapped(c, {"/", "\\"})
    IN  IF cleaned \in {<<>>, <<".">>, <<".", ".">>} THEN <<"_">> ELSE cleaned
SanitizeName(n) ==
    LET parts == SelectSeq(Split([i \in DOMAIN n |-> IF n[i] = "\\" THEN "/" ELSE n[i]]), LAMBDA c : c # <<>>)
    IN  IF parts = <<>> THEN <<"_">> ELSE Joined([i \in DOMAIN parts |-> SanitizeComponent(parts[i])])

AlphaBucket(n) ==
    LET leaf == From(n, LastAt(n, "/") + 1)
    IN  IF leaf # <<>> /\ leaf[1] \in {"a", "b", "c"} THEN leaf[1] ELSE "#"

----------------------------------------------------------------------------
(* The constraints of a device.                                             *)

\* fit_component: rewrite until it fits: strip the prefix, compress the tags, trim the junk.
StripNoise(n) == IF Len(n) > 1 /\ n[1] = "N" THEN Tail(n) ELSE n
CompressTags(n) == [i \in DOMAIN n |-> IF n[i] = "R" THEN "r" ELSE n[i]]
TrimJunk(n) ==
    LET dot == LastAt(n, ".")
        ext == IF dot > 1 THEN From(n, dot) ELSE <<>>
        stem == Trimmed(IF dot > 1 THEN Upto(n, dot - 1) ELSE n, {" ", ".", "-"})
    IN  (IF stem = <<>> THEN <<"_">> ELSE stem) \o ext
FitComponent(n) ==
    LET tries == <<n, StripNoise(n), CompressTags(StripNoise(n)), TrimJunk(CompressTags(StripNoise(n)))>>
        k == CHOOSE i \in 1..4 : (i = 4 \/ Wide(tries[i]) <= Budget) /\ \A j \in 1 .. i - 1 : Wide(tries[j]) > Budget
    IN  tries[k]

\* cap_component: cut the stem to what the extension leaves, but never to nothing.
CapComponent(n) ==
    LET dot == LastAt(n, ".")
        ext == IF dot > 1 THEN From(n, dot) ELSE <<>>
        stem == IF dot > 1 THEN Upto(n, dot - 1) ELSE n
        fits == {i \in 1..Len(stem) : Wide(Upto(stem, i)) <= Budget - Wide(ext)}
        cut == IF fits = {} THEN 1 ELSE CHOOSE i \in fits : \A j \in fits : j <= i
    IN  IF Wide(n) <= Budget THEN n ELSE Upto(stem, cut) \o ext

ConstrainComponent(c) ==
    LET cleaned == Trimmed(Mapped(c, {"?"}), {".", " "})
    IN  CapComponent(FitComponent(IF cleaned = <<>> THEN <<"_">> ELSE cleaned))
ConstrainPath(n) == LET parts == Split(n) IN Joined([i \in DOMAIN parts |-> ConstrainComponent(parts[i])])

----------------------------------------------------------------------------
(* One entry of a clone family (selection.rs).                              *)

\* The families: a clonelist group, else the dat's parent, else the base name.
Family(c, all) ==
    IF c.group # "" THEN <<"group", c.group>>
    ELSE IF \E x \in all : x.parent # 0 THEN <<"id", IF c.parent # 0 THEN c.parent ELSE c.id>>
    ELSE <<"name", c.base>>

\* Fully held first (unless the policy is strict), then released, preferred, newest, by name.
Score(c, strict) ==
    <<IF strict \/ (c.required > 0 /\ c.held = c.required) THEN 0 ELSE 1, c.dev, c.rank, 0 - c.rev, c.id>>
Better(a, b) == \E i \in DOMAIN a : a[i] < b[i] /\ \A j \in 1 .. i - 1 : a[j] = b[j]
Selected(all, strict) ==
    {c.id : c \in {x \in all : \A y \in all : x # y /\ Family(x, all) = Family(y, all) =>
                                                Better(Score(x, strict), Score(y, strict))}}

----------------------------------------------------------------------------
(* Layout.                                                                  *)

\* The suffix goes before the last dot of the path.
Suffixed(p, b) ==
    LET dot == LastAt(p, ".")
    IN  IF dot > 1 THEN Upto(p, dot - 1) \o <<b>> \o From(p, dot) ELSE p \o <<b>>

PathOf(pick) ==
    LET raw == CASE job.template = "entry" -> SanitizeComponent(pick.entry) \o <<"/">> \o SanitizeName(pick.claim)
                 [] job.template = "flat" -> SanitizeName(pick.claim)
                 [] job.template = "bucket" -> <<AlphaBucket(pick.claim), "/">> \o SanitizeName(pick.claim)
        safe == IF Canonical(raw) THEN raw ELSE SanitizeName(raw)
    IN  IF job.fat THEN ConstrainPath(safe) ELSE safe
Paths(rs) == {r.path : r \in Range(rs)}

\* Mutant: a pick whose path is taken is left out.
PlacedOnce(p, path) == IF path \in Paths(rows) THEN rows ELSE Append(rows, [path |-> path, blob |-> p.blob])

\* A taken path gets the blob's suffix; if that is taken too, the pick is there already.
Placed(p, path) ==
    LET other == Suffixed(path, p.blob)
    IN  IF path \notin Paths(rows) THEN Append(rows, [path |-> path, blob |-> p.blob])
        ELSE IF other \notin Paths(rows) THEN Append(rows, [path |-> other, blob |-> p.blob])
        ELSE rows

Wanted(p) == p.id \in Selected(job.entries, job.strict) /\ ~(job.fat /\ p.huge)

LayoutRow ==
    /\ job.kind = "layout" /\ out = None /\ next < Len(job.picks)
    /\ next' = next + 1
    /\ rows' = IF Wanted(job.picks[next + 1]) THEN Placed(job.picks[next + 1], PathOf(job.picks[next + 1])) ELSE rows
    /\ UNCHANGED <<job, out>>

\* bucket_overfull_dirs: files of a directory with too many children move one level down, to their
\* letter, unless both the new path and its suffixed form are taken.
Parents(n) == LET parts == Split(n) IN {Joined(SubSeq(parts, 1, k)) : k \in 0 .. Len(parts) - 1}
ParentOf(n) == Upto(n, IF LastAt(n, "/") = 0 THEN 0 ELSE LastAt(n, "/") - 1)
Children(rs, d) ==
    LET under == {r.path : r \in {x \in Range(rs) : d \in Parents(x.path)}}
        at == IF d = <<>> THEN 1 ELSE Len(Split(d)) + 1
    IN  {Split(n)[at] : n \in under}
Overfull(rs) == {d \in UNION {Parents(r.path) : r \in Range(rs)} : Cardinality(Children(rs, d)) > DirCap}
Bucketed(rs) ==
    LET full == Overfull(rs)
        Move(acc, i) ==
            LET p == acc[i].path
                up == ParentOf(p)
                leaf == From(p, LastAt(p, "/") + 1)
                to == (IF up = <<>> THEN <<>> ELSE up \o <<"/">>) \o <<AlphaBucket(leaf), "/">> \o leaf
                others == {acc[k].path : k \in DOMAIN acc \ {i}}
            IN  IF up \notin full THEN acc
                ELSE IF to \notin others THEN [acc EXCEPT ![i].path = to]
                ELSE IF Suffixed(to, acc[i].blob) \notin others
                THEN [acc EXCEPT ![i].path = Suffixed(to, acc[i].blob)] ELSE acc
    IN  FoldLeft(Move, rs, [i \in DOMAIN rs |-> i])

\* The manifest refuses a path twice and a path that is not canonical.
Encodes(rs) == Cardinality(Paths(rs)) = Len(rs) /\ \A r \in Range(rs) : Canonical(r.path)

LayoutEnds ==
    /\ job.kind = "layout" /\ out = None /\ next = Len(job.picks)
    /\ LET final == IF job.fat THEN Bucketed(rows) ELSE rows
       IN  /\ rows' = final
           /\ out' = [kind |-> IF Encodes(final) THEN "view" ELSE "corrupt"]
    /\ UNCHANGED <<job, next>>

----------------------------------------------------------------------------
(* The sets of an arcade dat (mame.rs): entry -> [device, bios, of, refs,   *)
(* held], where held is a set of [file, merge, blob].                       *)

\* Mutant: a device's own references are not followed.
ClosureShallow(es, start) == es[start].refs \cap DOMAIN es

\* closure_claims: the devices a machine refers to, and theirs, each once.
Closure(es, start) ==
    LET RECURSIVE Walk(_, _)
        Walk(queue, seen) ==
            IF queue = <<>> THEN seen
            ELSE LET d == Last(queue) IN
                 IF d \notin DOMAIN es \/ d \in seen THEN Walk(Front(queue), seen)
                 ELSE Walk(Front(queue) \o SetToSeq(es[d].refs), seen \cup {d})
    IN  Walk(SetToSeq(es[start].refs), {})

Top(es, e) ==
    LET RECURSIVE Up(_, _)
        Up(x, hops) == IF hops > Cardinality(DOMAIN es) THEN "loop"
                       ELSE IF x \in DOMAIN es /\ es[x].of # "" THEN Up(es[x].of, hops + 1) ELSE x
    IN  Up(e, 0)

Files(claims, set) == {[set |-> set, file |-> c.file, blob |-> c.blob] : c \in claims}
Own(es, e) == {c \in es[e].held : c.merge = ""}
RenderSets ==
    /\ job.kind = "sets" /\ out = None
    /\ LET es == job.entries
           tops == {Top(es, e) : e \in {x \in DOMAIN es : ~es[x].device /\ ~es[x].bios}}
       IN  out' =
            CASE job.mode = "non-merged" ->
                   [kind |-> "sets",
                    files |-> UNION {Files(es[e].held \cup UNION {es[d].held : d \in Closure(es, e)}, e) :
                                       e \in {x \in DOMAIN es : ~es[x].device}}]
              [] job.mode = "split" -> [kind |-> "sets", files |-> UNION {Files(Own(es, e), e) : e \in DOMAIN es}]
              [] job.mode = "merged" /\ "loop" \in tops -> [kind |-> "refused"]
              [] OTHER -> [kind |-> "sets",
                           files |-> UNION {Files(Own(es, e), IF es[e].device \/ es[e].bios THEN e ELSE Top(es, e)) :
                                              e \in DOMAIN es}]
    /\ UNCHANGED <<job, next, rows>>

----------------------------------------------------------------------------
(* The difference of two revisions: sequences of [name, key, print].        *)

\* The entries whose fingerprint no other unmatched entry has.
Unique(es, taken) ==
    LET left == {i \in DOMAIN es : i \notin taken}
        alone == {i \in left : \A j \in left : es[j].print = es[i].print => j = i}
    IN  [p \in {es[i].print : i \in alone} |-> CHOOSE i \in alone : es[i].print = p]

LastWith(es, among, f, v) == CHOOSE i \in among : es[i][f] = v /\ \A j \in among : es[j][f] = v => j <= i
\* The first pass: the same stable key, the last old entry that has it.
Keyed(old, new) ==
    {p \in (DOMAIN old) \X (DOMAIN new) :
       /\ new[p[2]].key # "" /\ old[p[1]].key = new[p[2]].key
       /\ p[1] = LastWith(old, DOMAIN old, "key", new[p[2]].key)}

\* Mutant: an entry that was matched by its key is matched again by its name.
NamedAgain(old, new, o1, n1) ==
    {p \in (DOMAIN old) \X n1 : /\ old[p[1]].name = new[p[2]].name
                              /\ p[1] = LastWith(old, DOMAIN old, "name", new[p[2]].name)}

\* The second: the same name, the last unmatched old entry that has it.
Named(old, new, o1, n1) ==
    {p \in o1 \X n1 : /\ old[p[1]].name = new[p[2]].name
                      /\ p[1] = LastWith(old, o1, "name", new[p[2]].name)}

\* The third is the fingerprint; what no pass matched was added or removed.
DiffSource ==
    /\ job.kind = "diff" /\ out = None
    /\ LET old == job.old
           new == job.new
           keyed == Keyed(old, new)
           named == Named(old, new, DOMAIN old \ {p[1] : p \in keyed}, DOMAIN new \ {p[2] : p \in keyed})
           two == keyed \cup named
           uo == Unique(old, {p[1] : p \in two})
           un == Unique(new, {p[2] : p \in two})
           pairs == two \cup {<<uo[p], un[p]>> : p \in DOMAIN uo \cap DOMAIN un}
           same(p) == old[p[1]].print = new[p[2]].print
       IN  out' = [kind |-> "diff", pairs |-> pairs,
                   rehashed |-> {p \in pairs : ~same(p)},
                   renamed |-> {p \in pairs : same(p) /\ old[p[1]].name # new[p[2]].name},
                   removed |-> DOMAIN old \ {p[1] : p \in pairs},
                   added |-> DOMAIN new \ {p[2] : p \in pairs}]
    /\ UNCHANGED <<job, next, rows>>

----------------------------------------------------------------------------
RInit == job \in Jobs /\ next = 0 /\ rows = <<>> /\ out = None
RNext == LayoutRow \/ LayoutEnds \/ RenderSets \/ DiffSource

----------------------------------------------------------------------------
(* Properties.                                                              *)

\* Nothing that was picked is lost on the way to the manifest: whatever the sanitizing, the device's
\* rewriting and the bucketing make of the names, the manifest is accepted and every blob a selected
\* entry claims, and that fits the device, has a row (views.rs: "same blob mapped twice: one row is
\* enough").
EveryPickServed ==
    job.kind = "layout" /\ out # None =>
        /\ out.kind = "view"
        /\ \A p \in Range(job.picks) : Wanted(p) => \E r \in Range(rows) : r.blob = p.blob

\* A non-merged set stands alone: it holds the files of every device its machine reaches, over any
\* chain of references (mame.rs, closure_claims).
SetsStandAlone ==
    job.kind = "sets" /\ job.mode = "non-merged" /\ out # None =>
        LET es == job.entries
            closed(e, ds) == \A d \in ds \cup {e} : es[d].refs \cap DOMAIN es \subseteq ds
        IN  \A e \in DOMAIN es : ~es[e].device =>
                \E ds \in SUBSET DOMAIN es :
                    /\ closed(e, ds)
                    /\ Files(es[e].held \cup UNION {es[d].held : d \in ds}, e)
                         \subseteq {f \in out.files : f.set = e}

\* Where names and keys are unique in each revision, the difference accounts for every entry once:
\* no old entry became two new ones, and a new entry it does not mention was there, under the same
\* name and with the same content (diff.rs: "Anything left unmatched is added (new side) or removed
\* (old side)").
Unrepeated(es) == \A i, j \in DOMAIN es : i # j => es[i].name # es[j].name /\ (es[i].key = "" \/ es[i].key # es[j].key)
DiffAccounts ==
    job.kind = "diff" /\ out # None /\ Unrepeated(job.old) /\ Unrepeated(job.new) =>
        /\ \A p, q \in out.pairs : p[1] = q[1] \/ p[2] = q[2] => p = q
        /\ \A j \in DOMAIN job.new \ (out.added \cup {p[2] : p \in out.rehashed \cup out.renamed}) :
              \E i \in DOMAIN job.old : job.old[i].print = job.new[j].print /\ job.old[i].name = job.new[j].name

\* "The one place uniqueness was implicitly relied on is cloneof/romof resolution": a revision that
\* lists the very entries of the one before has no difference.
UnchangedIsSilent ==
    job.kind = "diff" /\ out # None /\ job.old = job.new =>
        out.rehashed = {} /\ out.renamed = {} /\ out.removed = {} /\ out.added = {}

\* "identical paths get a deterministic ` (xxxxxxxx)` hash suffix": the suffix leaves a file in the
\* directory of the path it disambiguates.
SuffixStaysInDir ==
    job.kind = "layout" =>
        \A i \in DOMAIN rows : out = None => \E k \in 1..next : ParentOf(rows[i].path) = ParentOf(PathOf(job.picks[k]))

=============================================================================
