-------------------------------- MODULE Nfs ---------------------------------
(****************************************************************************)
(* The NFS export (server nfs.rs, and the vfs.rs and nfs_handlers.rs that   *)
(* call it): file ids and handles derived from what they name, handles from *)
(* before a restart that are matched to a node again, and directory walks   *)
(* that page through a view while the view is evaluated anew.               *)
(****************************************************************************)
EXTENDS Naturals, Sequences, FiniteSets, SequencesExt

CONSTANTS Root, NoNode, \* the mount's root, and no node at all
          ViewNames,    \* views of the export
          Snaps,        \* snapshots a view's tag can point at
          Files,        \* file names at the top of a snapshot, a sorted sequence
          Tree,         \* Tree[s]: the names snapshot s holds, a set
          Clients,      \* concurrent requests, each with its own walk
          Hashes,       \* the id hash functions to consider
          ColdCeiling,  \* notes kept before all of them are dropped
          Walkers,      \* the clients that also list directories
          MaxRequests,  \* bound: requests of all clients
          MaxEvals,     \* bound: evaluations that move a tag
          MaxNfsRestarts \* bound: restarts of the daemon

VARIABLES
    idHash,        \* which hash the behaviour uses: node -> probe -> fileid
    tag,           \* view -> the snapshot it points at
    bound,         \* IdTable: pairs <<fileid, node>>
    cold,          \* notes of decoded handles: pairs <<fileid, node>>
    held,          \* per client: the nodes it has handles of
    npc,           \* per client: the step of its request
    asked, fid,    \* per client: the node its handle names, and the decoded id
    found,         \* per client: the node resolved so far
    status,        \* per client: what its last request answered
    answered,      \* per client: the node that was served
    cookie, seen,  \* per client: its walk of a view: last cookie, entries so far
    walked,        \* per client: the state of the walk
    lives,         \* history, per client: restarts when its walk began
    evals, reboots,
    requests       \* requests made so far

nvars == <<idHash, tag, bound, cold, held, npc, asked, fid, found, status, answered, cookie, seen, walked,
           lives, evals, reboots, requests>>

Node == {Root} \cup ViewNames \cup (Snaps \X Range(Files))
RootId == 1

TypeOK ==
    /\ tag \in [ViewNames -> Snaps]
    /\ bound \subseteq Nat \X Node /\ cold \subseteq Nat \X Node
    /\ held \in [Clients -> SUBSET Node]
    /\ npc \in [Clients -> {"idle", "table", "cold", "thaw", "forget", "bind", "serve"}]
    /\ asked \in [Clients -> Node] /\ fid \in [Clients -> Nat]
    /\ found \in [Clients -> Node \cup {NoNode}] /\ answered \in [Clients -> Node \cup {NoNode}]
    /\ status \in [Clients -> {"ok", "stale", "badcookie"}]
    /\ cookie \in [Clients -> Nat]
    /\ \A c \in Clients : seen[c] \in Seq(Node)
    /\ walked \in [Clients -> {"fresh", "going", "eof"}]
    /\ lives \in [Clients -> Nat] /\ evals \in 0 .. MaxEvals /\ reboots \in 0 .. MaxNfsRestarts

(****************************************************************************)
(* Identity.                                                                *)
(****************************************************************************)
\* Mutant: the id of a path leaves the snapshot out.
IdOfKeyByPath(n, probe) ==
    IF n = Root THEN RootId
    ELSE idHash[IF n \in Snaps \X Range(Files) THEN <<CHOOSE s \in Snaps : TRUE, n[2]>> ELSE n][probe]

\* id_of_key of the identity key: derived from the node alone.
IdOfKey(n, probe) == IF n = Root THEN RootId ELSE idHash[n][probe]

Bound(id) == {b[2] : b \in {x \in bound : x[1] = id}}
IdsOf(n) == {b[1] : b \in {x \in bound : x[2] = n}}

\* Mutant: a clash is not probed.
IdForUnprobed(n) == IF IdsOf(n) # {} THEN CHOOSE id \in IdsOf(n) : TRUE ELSE IdOfKey(n, 0)

\* id_for: the id a node is bound to, else the first probe no other node holds.
IdFor(n) ==
    IF IdsOf(n) # {} THEN CHOOSE id \in IdsOf(n) : TRUE
    ELSE LET free == {p \in DOMAIN idHash[n] : Bound(IdOfKey(n, p)) \subseteq {n}}
         IN IdOfKey(n, CHOOSE p \in free : \A q \in free : p <= q)

Bind(n) == bound \cup {<<IdFor(n), n>>}

\* fh_to_id and remember_cold: the handle carries the key, the id is its low
\* half, and an id the table does not know leaves a note, which is the only one
\* left when the notes are too many.
Decode(c, n) ==
    /\ npc[c] = "idle" /\ n \in held[c]
    /\ requests < MaxRequests /\ requests' = requests + 1
    /\ asked' = [asked EXCEPT ![c] = n] /\ fid' = [fid EXCEPT ![c] = IdOfKey(n, 0)]
    /\ cold' = IF n = Root \/ Bound(IdOfKey(n, 0)) # {} THEN cold
               ELSE {x \in cold : Cardinality(cold) < ColdCeiling /\ x[1] # IdOfKey(n, 0)}
                        \cup {<<IdOfKey(n, 0), n>>}
    /\ npc' = [npc EXCEPT ![c] = "table"] /\ found' = [found EXCEPT ![c] = NoNode]
    /\ UNCHANGED <<idHash, tag, bound, held, status, answered, cookie, seen, walked, lives, evals, reboots>>

(****************************************************************************)
(* node(): each lock is held for one step only.                             *)
(****************************************************************************)
Answer(c, st, n) ==
    /\ status' = [status EXCEPT ![c] = st] /\ answered' = [answered EXCEPT ![c] = n]

NodeTable(c) ==
    /\ npc[c] = "table"
    /\ IF Bound(fid[c]) # {}
       THEN /\ found' = [found EXCEPT ![c] = CHOOSE n \in Bound(fid[c]) : TRUE]
            /\ npc' = [npc EXCEPT ![c] = "serve"]
       ELSE npc' = [npc EXCEPT ![c] = "cold"] /\ UNCHANGED found
    /\ UNCHANGED <<idHash, tag, bound, cold, held, asked, fid, status, answered, cookie, seen, walked, lives,
                   evals, reboots, requests>>

NodeCold(c) ==
    /\ npc[c] = "cold"
    /\ \/ /\ \E x \in cold : x[1] = fid[c] /\ found' = [found EXCEPT ![c] = x[2]]
          /\ npc' = [npc EXCEPT ![c] = "thaw"] /\ UNCHANGED <<status, answered>>
       \/ /\ \A x \in cold : x[1] # fid[c]
          /\ Answer(c, "stale", NoNode)
          /\ npc' = [npc EXCEPT ![c] = "idle"] /\ UNCHANGED found
    /\ UNCHANGED <<idHash, tag, bound, cold, held, asked, fid, cookie, seen, walked, lives, evals, reboots, requests>>

\* thaw: view names come from the tags, paths from the immutable snapshot.
Thaw(c) ==
    /\ npc[c] = "thaw" /\ npc' = [npc EXCEPT ![c] = "forget"]
    /\ UNCHANGED <<idHash, tag, bound, cold, held, asked, fid, found, status, answered, cookie, seen, walked,
                   lives, evals, reboots, requests>>

NodeForget(c) ==
    /\ npc[c] = "forget" /\ npc' = [npc EXCEPT ![c] = "bind"]
    /\ cold' = {x \in cold : x[1] # fid[c]}
    /\ UNCHANGED <<idHash, tag, bound, held, asked, fid, found, status, answered, cookie, seen, walked, lives,
                   evals, reboots, requests>>

\* The node is bound; if it was probed around a clash the handle is refused.
NodeBind(c) ==
    /\ npc[c] = "bind"
    /\ bound' = Bind(found[c])
    /\ IF IdFor(found[c]) = fid[c]
       THEN npc' = [npc EXCEPT ![c] = "serve"] /\ UNCHANGED <<status, answered>>
       ELSE npc' = [npc EXCEPT ![c] = "idle"] /\ Answer(c, "stale", NoNode)
    /\ UNCHANGED <<idHash, tag, cold, held, asked, fid, found, cookie, seen, walked, lives, evals, reboots, requests>>

(****************************************************************************)
(* Operations on the node.                                                  *)
(****************************************************************************)
Children(n) ==
    IF n = Root THEN ViewNames
    ELSE IF n \in ViewNames THEN {<<tag[n], f>> : f \in Tree[tag[n]]} ELSE {}

\* lookup: the child is bound and its handle is the client's.
Lookup(c) ==
    /\ npc[c] = "serve" /\ npc' = [npc EXCEPT ![c] = "idle"]
    /\ \E n \in Children(found[c]) :
        /\ bound' = Bind(n) /\ held' = [held EXCEPT ![c] = @ \cup {n}]
    /\ Answer(c, "ok", found[c])
    /\ UNCHANGED <<idHash, tag, cold, asked, fid, found, cookie, seen, walked, lives, evals, reboots, requests>>

\* getattr and read: a path of an immutable snapshot.
Read(c) ==
    /\ npc[c] = "serve" /\ found[c] \in Snaps \X Range(Files)
    /\ npc' = [npc EXCEPT ![c] = "idle"]
    /\ Answer(c, "ok", found[c])
    /\ UNCHANGED <<idHash, tag, bound, cold, held, asked, fid, found, cookie, seen, walked, lives, evals, reboots, requests>>

\* Mutant: every page resolves the view by its name.
PinnedNever(c) == {}

\* pinned_snapshot: the cookie of a walk under way names the tree it walks, from
\* the table or from the note of a handle of that entry.
Pinned(c) ==
    IF cookie[c] = 0 THEN {}
    ELSE {n[1] : n \in {b \in Snaps \X Range(Files) :
              b \in Bound(cookie[c]) \/ (Bound(cookie[c]) = {} /\ <<cookie[c], b>> \in cold)}}

\* materialize: the sorted children are bound one by one under one lock.
Listing(s) == SelectSeq(Files, LAMBDA f : f \in Tree[s])

BoundAll(tab, ns) ==
    LET bind(t, n) ==
            LET ids == {b[1] : b \in {x \in t : x[2] = n}}
                free == {p \in DOMAIN idHash[n] : \A x \in t : x[1] = IdOfKey(n, p) => x[2] = n}
                id == IF ids # {} THEN CHOOSE i \in ids : TRUE
                      ELSE IdOfKey(n, CHOOSE p \in free : \A q \in free : p <= q)
            IN  t \cup {<<id, n>>}
    IN  FoldLeft(bind, tab, ns)

\* Mutant: a page cut short still says what the listing said.
EofOptimistic(last, fits, end) == end

\* The eof flag is the listing's only when every entry of the page was written.
Eof(last, fits, end) == last /\ end

\* readdir and nfsproc3_readdirplus of a view: max entries from the file
\* system, of which the reply holds the first that fit.
ReadDir(c) ==
    /\ npc[c] = "serve" /\ found[c] \in ViewNames /\ c \in Walkers /\ walked[c] # "eof"
    /\ npc' = [npc EXCEPT ![c] = "idle"]
    /\ LET s == IF Pinned(c) # {} THEN CHOOSE x \in Pinned(c) : TRUE ELSE tag[found[c]]
           entries == [i \in DOMAIN Listing(s) |-> <<s, Listing(s)[i]>>]
           table == BoundAll(bound, entries)
           idOf(n) == (CHOOSE x \in table : x[2] = n)[1]
           skip == IF cookie[c] = 0 THEN {0} ELSE {i \in DOMAIN entries : idOf(entries[i]) = cookie[c]}
       IN
       /\ bound' = table
       /\ \/ /\ skip = {}
             /\ Answer(c, "badcookie", NoNode)
             /\ UNCHANGED <<held, cookie, seen, walked, lives>>
          \/ \E k \in skip, most \in 1 .. Len(Files), fits \in 1 .. Len(Files) :
             LET window == SubSeq(entries, k + 1, Len(entries))
                 offered == SubSeq(window, 1, IF most < Len(window) THEN most ELSE Len(window))
                 page == SubSeq(offered, 1, IF fits < Len(offered) THEN fits ELSE Len(offered))
             IN
             /\ Answer(c, "ok", found[c])
             /\ held' = [held EXCEPT ![c] = @ \cup Range(page)]
             /\ seen' = [seen EXCEPT ![c] = @ \o page]
             /\ cookie' = [cookie EXCEPT ![c] = IF page = <<>> THEN @ ELSE idOf(Last(page))]
             /\ walked' = [walked EXCEPT ![c] = IF Eof(Len(page) = Len(offered), fits, Len(window) <= most)
                                                THEN "eof" ELSE "going"]
             /\ lives' = [lives EXCEPT ![c] = IF walked[c] = "fresh" THEN reboots ELSE @]
    /\ UNCHANGED <<idHash, tag, cold, asked, fid, found, evals, reboots, requests>>

\* A view evaluation publishes another snapshot under the tag.
Evaluate(v, s) ==
    /\ evals < MaxEvals /\ evals' = evals + 1
    /\ tag[v] # s /\ tag' = [tag EXCEPT ![v] = s]
    /\ UNCHANGED <<idHash, bound, cold, held, npc, asked, fid, found, status, answered, cookie, seen, walked,
                   lives, reboots, requests>>

\* A new process: the table and the notes are empty, the clients keep handles,
\* cookies and mounts, and repeat the requests that got no answer.
NfsRestart ==
    /\ reboots < MaxNfsRestarts /\ reboots' = reboots + 1
    /\ bound' = {<<RootId, Root>>} /\ cold' = {}
    /\ npc' = [c \in Clients |-> "idle"] /\ found' = [c \in Clients |-> NoNode]
    /\ UNCHANGED <<idHash, tag, held, asked, fid, status, answered, cookie, seen, walked, lives, evals, requests>>

NInit ==
    /\ idHash \in Hashes
    /\ tag \in [ViewNames -> {CHOOSE s \in Snaps : TRUE}]
    /\ bound = {<<RootId, Root>>} /\ cold = {}
    /\ held = [c \in Clients |-> {Root} \cup ViewNames]
    /\ npc = [c \in Clients |-> "idle"] /\ asked = [c \in Clients |-> Root]
    /\ fid = [c \in Clients |-> RootId] /\ found = [c \in Clients |-> NoNode]
    /\ status = [c \in Clients |-> "ok"] /\ answered = [c \in Clients |-> NoNode]
    /\ cookie = [c \in Clients |-> 0] /\ seen = [c \in Clients |-> <<>>]
    /\ walked = [c \in Clients |-> "fresh"] /\ lives = [c \in Clients |-> 0]
    /\ evals = 0 /\ reboots = 0 /\ requests = 0

NNext ==
    \/ \E c \in Clients :
        \/ \E n \in Node : Decode(c, n)
        \/ NodeTable(c) \/ NodeCold(c) \/ Thaw(c) \/ NodeForget(c) \/ NodeBind(c)
        \/ Lookup(c) \/ Read(c) \/ ReadDir(c)
    \/ NfsRestart
    \/ \E v \in ViewNames, s \in Snaps : Evaluate(v, s)

NSpec == NInit /\ [][NNext]_nvars

(****************************************************************************)
(* Properties.                                                              *)
(****************************************************************************)
Injective == \A m, n \in Node \ {Root} : m # n => idHash[m][0] # idHash[n][0]

\* "This table stays bijective": no fileid names two nodes and no node has two
\* fileids, however their hashes clash and in whatever order they are met.
TableBijective ==
    \A x, y \in bound : (x[1] = y[1]) <=> (x[2] = y[2])

\* While no two hashes clash, a handle is never served as another node, even
\* when it was minted before a restart or before its view was evaluated anew.
ServedAsNamed ==
    Injective => \A c \in Clients : npc[c] = "serve" => found[c] = asked[c]

\* A walk that reaches its end has listed one snapshot, every entry once and in
\* order, across evaluations and, while no hashes clash, restarts.
WalkFaithful ==
    \A c \in Clients : walked[c] = "eof" /\ (Injective \/ lives[c] = reboots) =>
        \E s \in Snaps : seen[c] = [i \in DOMAIN Listing(s) |-> <<s, Listing(s)[i]>>]

\* "A walk already under way stays on the tree it started on": without a
\* restart no cookie is refused, however often the view is evaluated.
WalkNotStranded ==
    \A c \in Clients : status[c] = "badcookie" => lives[c] # reboots

\* "D129 makes that recoverable rather than ESTALE": a handle of a node that
\* exists is never answered stale.
HandlesOutliveTheProcess == Injective => \A c \in Clients : status[c] # "stale"
=============================================================================
