------------------------------ MODULE Catalog -------------------------------
(****************************************************************************)
(* Dats, content identities and views: datboi-catalog/src/import.rs          *)
(* (`import_dat`), unify.rs (`unify_claim`, `link_identities_to_blobs`),     *)
(* rollup.rs (`refresh_rollups`), views.rs (`evaluate_view`), and the tables *)
(* of datboi-index/src/dats.rs and blobs.rs they write.                      *)
(*                                                                          *)
(* An import is a program of separate transactions and may stop between any  *)
(* two of them.  Meanwhile blobs arrive and leave, CHDs are verified, and    *)
(* views are evaluated.  A dat is a sequence of claims; a claim, an identity *)
(* and a blob's aliases are partial tuples of hashes ("" where unknown).     *)
(****************************************************************************)
EXTENDS Naturals, Integers, Sequences, FiniteSets, SequencesExt

CONSTANTS
    Dats,        \* dat -> the sequence of the hash tuples it claims
    Stock,       \* the blobs that may arrive, in the order of their hashes
    Alias,       \* blob -> the tuple ingest records for it
    Disk,        \* blob -> the sha1 a CHD declares of its content, "" for none
    MaxImports,  \* bound: imports started
    MaxStops,    \* bound: imports that stop half way
    MaxMoves,    \* bound: arrivals, departures, verifications
    MaxViews     \* bound: evaluations

VARIABLES
    held,      \* blob -> "none", "resident", "absent"
    computed,  \* CHDs whose content's sha1 the chd-verify analyzer computed
    revs,      \* the revisions of the source: [dat, rows, mat, ids]
    current,   \* its current revision, 0 before the first
    ident,     \* identity -> tuple
    nextId,
    links,     \* <<identity, blob>> -> basis
    status,    \* identity -> the rolled-up state
    import,    \* the import under way: [pc, dat, rev, touched]
    answer,    \* what the last import that returned said: "none", "new", "unchanged"
    eval,      \* the evaluation under way: "idle", "relinked", "rolled"
    view,      \* the rows of the last snapshot: [claim, blob, size, held]
    made       \* [imports, stops, moves, views]

cvars == <<held, computed, revs, current, ident, nextId, links, status, import, answer, eval, view,
           made>>

Blobs  == Range(Stock)
Fields == {"size", "crc32", "md5", "sha1"}
BasisDeclared == 0 - 1
BasisCrcSize == 0
BasisMd5 == 1
BasisSha1 == 2
NoImport == [pc |-> "idle", dat |-> "", rev |-> 0, touched |-> {}]

CtInit ==
    /\ held = [b \in Blobs |-> "none"] /\ computed = {}
    /\ revs = <<>> /\ current = 0 /\ ident = <<>> /\ nextId = 1 /\ links = <<>> /\ status = <<>>
    /\ import = NoImport /\ answer = "none" /\ eval = "idle" /\ view = {}
    /\ made = [imports |-> 0, stops |-> 0, moves |-> 0, views |-> 0]

----------------------------------------------------------------------------
(* Hash tuples (unify.rs, Tuple).                                           *)

Strength(t) ==
    CASE t.sha1 # "" -> BasisSha1
      [] t.sha1 = "" /\ t.md5 # "" -> BasisMd5
      [] t.sha1 = "" /\ t.md5 = "" /\ t.crc32 # "" /\ t.size # "" -> BasisCrcSize
      [] OTHER -> BasisDeclared          \* nothing to identify by
Same(a, b, f) == a[f] # "" /\ a[f] = b[f]
Compatible(a, b) == \A f \in Fields : a[f] = "" \/ b[f] = "" \/ a[f] = b[f]
MatchGrade(a, b) == Same(a, b, "sha1") \/ Same(a, b, "md5") \/ (Same(a, b, "crc32") /\ Same(a, b, "size"))
Absorb(a, b) == [f \in Fields |-> IF a[f] = "" THEN b[f] ELSE a[f]]

\* The identities a claim may join, and the one that survives: the strongest, the oldest of those.
Qualifying(ids, t) == {i \in DOMAIN ids : Compatible(t, ids[i]) /\ MatchGrade(t, ids[i])}
Survivor(ids, q) ==
    CHOOSE i \in q : \A j \in q : \/ Strength(ids[i]) > Strength(ids[j])
                                  \/ Strength(ids[i]) = Strength(ids[j]) /\ i <= j

\* Mutant: the losers are absorbed without asking whether they still agree.
MergeLosersAll(t, ids, losers) ==
    LET RECURSIVE Take(_, _)
        Take(acc, rest) ==
            IF rest = {} THEN acc
            ELSE LET l == CHOOSE x \in rest : \A y \in rest : x <= y
                 IN  Take([tuple |-> Absorb(acc.tuple, ids[l]), gone |-> acc.gone \cup {l}], rest \ {l})
    IN  Take([tuple |-> t, gone |-> {}], losers)

\* The other qualifying identities are absorbed one after the other, unless what was absorbed
\* before them disagrees.
MergeLosers(t, ids, losers) ==
    LET RECURSIVE Take(_, _)
        Take(acc, rest) ==
            IF rest = {} THEN acc
            ELSE LET l == CHOOSE x \in rest : \A y \in rest : x <= y
                 IN  Take(IF Compatible(acc.tuple, ids[l])
                          THEN [tuple |-> Absorb(acc.tuple, ids[l]), gone |-> acc.gone \cup {l}]
                          ELSE acc, rest \ {l})
    IN  Take([tuple |-> t, gone |-> {}], losers)

Repoint(s, gone, to) == [k \in DOMAIN s |-> IF s[k] \in gone THEN to ELSE s[k]]

\* unify_claim: find or make the identity of one claim, merging the ones it bridges: their claims
\* and links move to the survivor, whose own link wins where both have one.
UnifyClaim(st, k) ==
    LET t == Dats[st.dat][k]
        q == Qualifying(st.ident, t)
    IN  IF Strength(t) = BasisDeclared THEN st
        ELSE IF q = {}
        THEN [st EXCEPT !.ident = [i \in DOMAIN @ \cup {st.next} |-> IF i = st.next THEN t ELSE @[i]],
                        !.next = @ + 1, !.ids[k] = st.next, !.touched = @ \cup {st.next}]
        ELSE LET s == Survivor(st.ident, q)
                 m == MergeLosers(Absorb(st.ident[s], t), st.ident, q \ {s})
                 moved == {<<IF p[1] \in m.gone THEN s ELSE p[1], p[2]>> : p \in DOMAIN st.links}
             IN  [st EXCEPT
                    !.ident = [i \in DOMAIN @ \ m.gone |-> IF i = s THEN m.tuple ELSE @[i]],
                    !.links = [p \in moved |->
                                 IF p \in DOMAIN @ THEN @[p]
                                 ELSE @[CHOOSE o \in DOMAIN @ : o[1] \in m.gone /\ o[2] = p[2]]],
                    !.status = [i \in DOMAIN @ \ m.gone |-> @[i]],
                    !.revs = [r \in DOMAIN @ |-> [@[r] EXCEPT !.ids = Repoint(@, m.gone, s)]],
                    !.ids = [Repoint(@, m.gone, s) EXCEPT ![k] = s],
                    !.touched = @ \cup {s}]

----------------------------------------------------------------------------
(* Links from identities to blobs.                                          *)

BlobMatches(b, t) == \A f \in Fields : t[f] = "" \/ t[f] = Alias[b][f]

\* link: record, or raise to the stronger of the two bases.
Raised(l, p, basis) ==
    [x \in DOMAIN l \cup {p} |-> IF x # p THEN l[x]
                                 ELSE IF p \in DOMAIN l /\ l[p] > basis THEN l[p] ELSE basis]

\* What link_identities_to_blobs finds for one identity: blobs that match all it knows, and for the
\* shape of a disk claim the CHDs that declare, or were computed to hold, its sha1.
Found(i) ==
    LET t == ident[i]
        rows == {b \in Blobs : held[b] # "none"}
        disk == t.sha1 # "" /\ t.size = ""
    IN  {<<b, Strength(t)>> : b \in {x \in rows : Strength(t) # BasisDeclared /\ BlobMatches(x, t)}}
          \cup {<<b, BasisDeclared>> : b \in {x \in rows : disk /\ Disk[x] = t.sha1}}
          \cup {<<b, BasisSha1>> : b \in {x \in computed : disk /\ Disk[x] = t.sha1}}

Linked(l, ids) ==
    LET new == {<<i, fb[1], fb[2]>> : i \in ids, fb \in UNION {Found(j) : j \in ids}}
        real == {n \in new : <<n[2], n[3]>> \in Found(n[1])}
        pairs == {<<n[1], n[2]>> : n \in real}
        best(p) == CHOOSE x \in {n[3] : n \in {m \in real : <<m[1], m[2]>> = p}} :
                     \A n \in real : <<n[1], n[2]>> = p => n[3] <= x
    IN  [p \in DOMAIN l \cup pairs |->
            IF p \notin pairs THEN l[p] ELSE Raised(l, p, best(p))[p]]

\* refresh_rollups: the best state any linked blob gives, from scratch.
Rolled(l) ==
    LET stateOf(p) == CASE l[p] >= BasisMd5 /\ held[p[2]] = "resident" -> 4
                        [] l[p] <= BasisCrcSize /\ held[p[2]] = "resident" -> 1
                        [] OTHER -> 0
        of(i) == {stateOf(p) : p \in {x \in DOMAIN l : x[1] = i}}
    IN  [i \in {p[1] : p \in DOMAIN l} |-> CHOOSE s \in of(i) : \A x \in of(i) : x <= s]

----------------------------------------------------------------------------
(* The import, one transaction per step.                                    *)

Step(from, to) == import.pc = from /\ import' = [import EXCEPT !.pc = to]
World == <<held, computed, eval, view>>

\* The bytes parse and land; the source exists; if its current revision has these bytes and its
\* rows, the import returns at once.
ImportBegin(d) ==
    /\ import.pc = "idle" /\ made.imports < MaxImports
    /\ made' = [made EXCEPT !.imports = @ + 1]
    /\ IF current # 0 /\ revs[current].dat = d /\ revs[current].mat
       THEN answer' = "unchanged" /\ UNCHANGED import
       ELSE answer' = "none" /\ import' = [NoImport EXCEPT !.pc = "revision", !.dat = d]
    /\ UNCHANGED <<World, revs, current, ident, nextId, links, status>>

ImportRevision ==
    /\ import.pc = "revision"
    /\ revs' = Append(revs, [dat |-> import.dat, rows |-> FALSE, mat |-> TRUE, ids |-> <<>>])
    /\ import' = [import EXCEPT !.pc = "entries", !.rev = Len(revs) + 1]
    /\ UNCHANGED <<World, current, ident, nextId, links, status, answer, made>>

\* Mutant: the revision becomes current before its rows are inserted.
ImportEntriesLate ==
    /\ Step("entries", "current") /\ current' = import.rev
    /\ UNCHANGED <<World, revs, ident, nextId, links, status, answer, made>>

ImportEntries ==
    /\ Step("entries", "current")
    /\ revs' = [revs EXCEPT ![import.rev].rows = TRUE,
                            ![import.rev].ids = [k \in 1..Len(Dats[import.dat]) |-> 0]]
    /\ UNCHANGED <<World, current, ident, nextId, links, status, answer, made>>

ImportCurrent ==
    /\ Step("current", "unify") /\ current' = import.rev
    /\ UNCHANGED <<World, revs, ident, nextId, links, status, answer, made>>

\* unify_revision: every claim of the revision without an identity, in order, in one transaction.
ImportUnify ==
    /\ import.pc = "unify"
    /\ LET RECURSIVE Over(_, _)
           Over(st, k) == IF k > Len(Dats[import.dat]) THEN st ELSE Over(UnifyClaim(st, k), k + 1)
           end == Over([dat |-> import.dat, ident |-> ident, next |-> nextId, links |-> links,
                        status |-> status, revs |-> revs, ids |-> revs[import.rev].ids,
                        touched |-> {}], 1)
       IN  /\ ident' = end.ident /\ nextId' = end.next /\ links' = end.links /\ status' = end.status
           /\ revs' = [end.revs EXCEPT ![import.rev].ids = end.ids]
           /\ import' = [import EXCEPT !.pc = "link", !.touched = end.touched \cap DOMAIN end.ident]
    /\ UNCHANGED <<World, current, answer, made>>

ImportLink ==
    /\ Step("link", "demote") /\ links' = Linked(links, import.touched)
    /\ UNCHANGED <<World, revs, current, ident, nextId, status, answer, made>>

\* demote_old_revisions: the two newest materialized revisions keep their rows.
ImportDemote ==
    /\ Step("demote", "rollup")
    /\ revs' = [r \in DOMAIN revs |->
                  IF revs[r].mat /\ Cardinality({x \in DOMAIN revs : x > r /\ revs[x].mat}) >= 2
                  THEN [revs[r] EXCEPT !.mat = FALSE, !.rows = FALSE, !.ids = <<>>] ELSE revs[r]]
    /\ UNCHANGED <<World, current, ident, nextId, links, status, answer, made>>

ImportRollup ==
    /\ import.pc = "rollup" /\ import' = NoImport
    /\ status' = Rolled(links) /\ answer' = "new"
    /\ UNCHANGED <<World, revs, current, ident, nextId, links, made>>

\* A query fails or the process stops: the import ends where it was.
ImportStops ==
    /\ import.pc # "idle" /\ made.stops < MaxStops
    /\ import' = NoImport /\ made' = [made EXCEPT !.stops = @ + 1]
    /\ UNCHANGED <<World, revs, current, ident, nextId, links, status, answer>>

----------------------------------------------------------------------------
(* The rest of the system, as far as these tables see it.                   *)

Move == made.moves < MaxMoves /\ made' = [made EXCEPT !.moves = @ + 1]
Arrives(b) ==
    /\ held[b] # "resident" /\ Move /\ held' = [held EXCEPT ![b] = "resident"]
    /\ UNCHANGED <<computed, revs, current, ident, nextId, links, status, import, answer, eval, view>>
Leaves(b) ==
    /\ held[b] = "resident" /\ Move /\ held' = [held EXCEPT ![b] = "absent"]
    /\ UNCHANGED <<computed, revs, current, ident, nextId, links, status, import, answer, eval, view>>

\* link_verified_chd_sha1: the computed alias, and the links of the disk claims that name it.
ChdVerified(b) ==
    /\ held[b] = "resident" /\ Disk[b] # "" /\ b \notin computed /\ Move
    /\ computed' = computed \cup {b}
    /\ LET of == {i \in DOMAIN ident : ident[i].sha1 = Disk[b] /\ ident[i].size = ""}
       IN  links' = [p \in DOMAIN links \cup {<<i, b>> : i \in of} |->
                       IF p[1] \in of /\ p[2] = b THEN Raised(links, p, BasisSha1)[p] ELSE links[p]]
    /\ UNCHANGED <<held, revs, current, ident, nextId, status, import, answer, eval, view>>

----------------------------------------------------------------------------
(* The evaluation of a view.                                                *)

EvalRelink ==
    /\ eval = "idle" /\ made.views < MaxViews /\ made' = [made EXCEPT !.views = @ + 1]
    /\ links' = Linked(links, DOMAIN ident) /\ eval' = "relinked"
    /\ UNCHANGED <<held, computed, revs, current, ident, nextId, status, import, answer, view>>
EvalRollup ==
    /\ eval = "relinked" /\ eval' = "rolled" /\ status' = Rolled(links)
    /\ UNCHANGED <<held, computed, revs, current, ident, nextId, links, import, answer, view, made>>

\* A required claim whose identity is had: the smallest hash and the largest size of the blobs that
\* are linked strongly enough.
Pick(i) ==
    LET bs == {b \in Blobs : <<i, b>> \in DOMAIN links /\ links[<<i, b>>] >= BasisMd5}
        first == CHOOSE n \in DOMAIN Stock : Stock[n] \in bs /\ \A k \in DOMAIN Stock : Stock[k] \in bs => n <= k
        largest == CHOOSE b \in bs : \A x \in bs : Len(Alias[x].size) <= Len(Alias[b].size)
    IN  [blob |-> Stock[first], size |-> Alias[largest].size]
Had(i) == i \in DOMAIN status /\ status[i] = 4 /\ \E b \in Blobs : <<i, b>> \in DOMAIN links /\ links[<<i, b>>] >= BasisMd5

EvalPick ==
    /\ eval = "rolled" /\ eval' = "idle"
    /\ view' = IF current = 0 THEN view
               ELSE {[claim |-> k, blob |-> Pick(revs[current].ids[k]).blob,
                      size |-> Pick(revs[current].ids[k]).size,
                      held |-> held[Pick(revs[current].ids[k]).blob]] :
                       k \in {x \in DOMAIN revs[current].ids : Had(revs[current].ids[x])}}
    /\ UNCHANGED <<held, computed, revs, current, ident, nextId, links, status, import, answer, made>>

----------------------------------------------------------------------------
CtNext ==
    \/ \E d \in DOMAIN Dats : ImportBegin(d)
    \/ ImportRevision \/ ImportEntries \/ ImportCurrent \/ ImportUnify \/ ImportLink \/ ImportDemote
    \/ ImportRollup \/ ImportStops \/ EvalRelink \/ EvalRollup \/ EvalPick
    \/ \E b \in Blobs : Arrives(b) \/ Leaves(b) \/ ChdVerified(b)

----------------------------------------------------------------------------
(* Properties.                                                              *)

\* Every claim lies within its identity: all the hashes it states are the identity's, through every
\* merge of identities a later import makes, so that claims that contradict each other never share
\* one (unify_claim: "no hash field conflicts").
IdentityCoherent ==
    \A r \in DOMAIN revs : \A k \in DOMAIN revs[r].ids : revs[r].ids[k] # 0 =>
        LET i == revs[r].ids[k]
            t == Dats[revs[r].dat][k]
        IN  i \in DOMAIN ident /\ \A f \in Fields : t[f] = "" \/ t[f] = ident[i][f]

\* The current revision has its rows, wherever an import stopped and whatever was demoted
\* (set_current_revision after insert_entries; demote_old_revisions keeps the two newest).
CurrentHasRows == current # 0 => revs[current].mat /\ revs[current].rows

\* "Rows are a deterministic function of the blob, so re-deriving them could only produce what is
\* already there": when an import answers, every claim that states enough has its identity.
AnsweredIsUnified ==
    answer # "none" /\ import.pc = "idle" =>
        \A k \in DOMAIN revs[current].ids :
            Strength(Dats[revs[current].dat][k]) # BasisDeclared => revs[current].ids[k] # 0

\* A row of a view names a blob and that blob's own size (views.rs: "resolved to a deterministic
\* blob (smallest hash wins when several blobs share the identity)").
RowsAreWhole == \A v \in view : v.size = Alias[v.blob].size

=============================================================================
