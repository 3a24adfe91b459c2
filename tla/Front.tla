------------------------------- MODULE Front --------------------------------
(****************************************************************************)
(* The read-only file surfaces of the server: the HTTP trees /view and       *)
(* /snap, the minted image, and WebDAV (datboi-server/src/http.rs, vfs.rs,   *)
(* dav.rs and the gate of auth.rs), with one client that downloads a path in *)
(* as many ranged requests as its connection needs, while views are          *)
(* re-evaluated, blobs come and go and grants are revoked.                   *)
(*                                                                           *)
(* A path is a tuple of segments; a byte is <<blob, offset>>.                *)
(****************************************************************************)
EXTENDS Naturals, Sequences, FiniteSets, SequencesExt

CONSTANTS
    Snapshots,      \* snapshot -> [path -> [hash, size, seek]]: the manifests
    ViewNames,      \* the views
    FirstSnap,      \* the snapshot every view shows at first
    Clients,        \* <<who, tree, name>>: a caller ("local" | "owner" | "user" | "anonymous") of a
                    \* "view", of its "image" or of a "snap"
    Wanted,         \* the path the client is after
    WindowSize,     \* WINDOW
    CacheCap,       \* manifests kept before the cache is cleared (64)
    Nowhere,        \* model value: no snapshot, no blob
    MaxMoves,       \* moves of the world
    MaxAsks         \* requests the client sends

VARIABLES
    tags,           \* "view/<name>" -> [snap, at]
    imageTag,       \* "image/<name>": the minted image, or Nowhere
    held,           \* blobs whose bytes are in the store
    rebuilt,        \* blobs a route can produce
    grants,         \* views the user may read
    manifests,      \* App.manifests: snapshot -> created_at
    client,         \* [who, tree, name, etag, got, full, phase, asks]
    req,            \* the request being answered
    dav,            \* an open RangeFile: [hash, size, pos, got], or hash = Nowhere
    named,          \* history: blobs the wanted path has named since the request came
    moves

fvars == <<tags, imageTag, held, rebuilt, grants, manifests, client, req, dav, named, moves>>

BlobsOf(s) == {Snapshots[s][p].hash : p \in DOMAIN Snapshots[s]}
AllBlobs == UNION {BlobsOf(s) : s \in DOMAIN Snapshots}
SizeOf(b) == (CHOOSE r \in UNION {Range(Snapshots[s]) : s \in DOMAIN Snapshots} : r.hash = b).size
Whole(b) == [i \in 1..SizeOf(b) |-> <<b, i - 1>>]

NoReq == [pc |-> "none", first |-> 0, ifRange |-> Nowhere, inm |-> Nowhere, snap |-> Nowhere, row |-> Nowhere,
          off |-> 0, end |-> 0, status |-> 0]

FInit ==
    /\ tags = [v \in ViewNames |-> [snap |-> FirstSnap, at |-> 1]]
    /\ imageTag = Nowhere
    /\ held \in {AllBlobs, {}} /\ rebuilt = AllBlobs
    /\ grants \in {ViewNames, {}}
    /\ manifests = <<>>
    /\ \E c \in Clients : client = [who |-> c[1], tree |-> c[2], name |-> c[3], etag |-> Nowhere, got |-> <<>>,
                                   full |-> Nowhere, phase |-> "idle", asks |-> 0]
    /\ req = NoReq /\ dav = [hash |-> Nowhere, size |-> 0, pos |-> 0, got |-> <<>>]
    /\ named = {} /\ moves = 0

----------------------------------------------------------------------------
(* What a request is answered from.                                         *)

\* is_owner.
IsOwner == client.who \in {"local", "owner"}

\* view_allowed and snap_allowed: a user reads the views granted, and the snapshots they show now.
Allowed == \/ IsOwner
           \/ client.who = "user" /\ client.tree # "snap" /\ client.name \in grants
           \/ client.who = "user" /\ client.tree = "snap" /\ \E v \in grants : tags[v].snap = client.name

\* tag_created_at: when a tag was last moved onto the snapshot, 0 when none is on it.
CreatedAt(s) == LET at == {tags[v].at : v \in {u \in ViewNames : tags[u].snap = s}}
                IN  IF at = {} THEN 0 ELSE CHOOSE x \in at : \A y \in at : y <= x

\* snapshot_index: a cached manifest, or a decode that is then cached.
Indexed(s) == IF s \in DOMAIN manifests THEN manifests
              ELSE LET kept == IF Cardinality(DOMAIN manifests) >= CacheCap THEN {} ELSE DOMAIN manifests
                   IN  [t \in kept \cup {s} |-> IF t = s THEN CreatedAt(s) ELSE manifests[t]]

\* Mutant: the decoded manifest of a view is remembered under the view's name.
ViewIndexByName(v) == IF DOMAIN manifests = {} THEN tags[v].snap ELSE CHOOSE s \in DOMAIN manifests : TRUE

\* view_index: the tag decides, every time.
ViewIndex(v) == tags[v].snap

\* view_image: how the image would be read, from its row.
ImageSeek(b) == IF b \in held THEN 0 ELSE IF b \in rebuilt THEN 1 ELSE 2

\* What the wanted path names at this moment.
NamedNow ==
    CASE client.tree = "view" -> (IF Wanted \in DOMAIN Snapshots[tags[client.name].snap]
                                  THEN {Snapshots[tags[client.name].snap][Wanted].hash} ELSE {})
      [] client.tree = "snap" -> (IF Wanted \in DOMAIN Snapshots[client.name]
                                  THEN {Snapshots[client.name][Wanted].hash} ELSE {})
      [] OTHER -> {imageTag} \ {Nowhere}

\* is_dir: a directory is what some row lies under.
Under(s, dir) == {p \in DOMAIN Snapshots[s] : Len(p) > Len(dir) /\ SubSeq(p, 1, Len(dir)) = dir}
IsDir(s, dir) == dir = <<>> \/ Under(s, dir) # {}

\* parse_range, for "bytes=<first>-": past the end there is nothing to satisfy.
ParseRange(first, total) == CASE first = 0 -> "full" [] first > 0 /\ first >= total -> "unsatisfiable" [] OTHER -> "partial"

\* if_none_match.
IfNoneMatch(inm, etag) == inm = etag
\* Mutant: the validator of a resumed download is not looked at.
IfRangeAllowsAny(ifRange, etag) == TRUE
\* if_range_allows.
IfRangeAllows(ifRange, etag) == ifRange = Nowhere \/ ifRange = etag

\* serve_range: the bytes asked for, exactly, when anything can produce them.
Servable(b) == b \in held \cup rebuilt
Slice(b, from, upto) == [i \in 1..(upto - from) |-> <<b, from + i - 1>>]

----------------------------------------------------------------------------
(* The client, and the handlers it reaches.                                 *)

\* A fresh request, a revalidation of what it has, or the rest of what it has begun.
Ask ==
    /\ client.phase = "idle" /\ client.asks < MaxAsks /\ req.pc = "none"
    /\ \/ req' = [NoReq EXCEPT !.pc = "gate"] /\ client' = [client EXCEPT !.phase = "wait", !.asks = @ + 1, !.got = <<>>, !.etag = Nowhere, !.full = Nowhere]
       \/ /\ client.full # Nowhere
          /\ req' = [NoReq EXCEPT !.pc = "gate", !.inm = client.etag] /\ client' = [client EXCEPT !.phase = "wait", !.asks = @ + 1]
       \/ /\ client.full = Nowhere /\ client.etag # Nowhere
          /\ req' = [NoReq EXCEPT !.pc = "gate", !.first = Len(client.got), !.ifRange = client.etag]
          /\ client' = [client EXCEPT !.phase = "wait", !.asks = @ + 1]
    /\ named' = NamedNow
    /\ UNCHANGED <<tags, imageTag, held, rebuilt, grants, manifests, dav, moves>>

Answer(status) == /\ req' = [req EXCEPT !.pc = "none", !.status = status]
                  /\ client' = [client EXCEPT !.phase = "idle"]

\* gate: every tree is behind authentication.
Gate ==
    /\ req.pc = "gate"
    /\ \/ client.who = "anonymous" /\ Answer(401)
       \/ client.who # "anonymous" /\ req' = [req EXCEPT !.pc = "tree"] /\ UNCHANGED client
    /\ UNCHANGED <<tags, imageTag, held, rebuilt, grants, manifests, dav, named, moves>>

\* serve_tree and view_image up to the permission.
Permit ==
    /\ req.pc = "tree"
    /\ \/ ~Allowed /\ Answer(404)
       \/ Allowed /\ req' = [req EXCEPT !.pc = IF client.tree = "image" THEN "image" ELSE "index"] /\ UNCHANGED client
    /\ UNCHANGED <<tags, imageTag, held, rebuilt, grants, manifests, dav, named, moves>>

\* serve_tree and tree_response: the manifest, then the row, a redirect to the directory, or 404.
Lookup ==
    /\ req.pc = "index"
    /\ LET s == IF client.tree = "view" THEN ViewIndex(client.name) ELSE client.name
       IN  /\ manifests' = Indexed(s)
           /\ \/ /\ Wanted \in DOMAIN Snapshots[s]
                 /\ req' = [req EXCEPT !.pc = "file", !.snap = s, !.row = Snapshots[s][Wanted]] /\ UNCHANGED client
              \/ Wanted \notin DOMAIN Snapshots[s] /\ IsDir(s, Wanted) /\ Answer(308)
              \/ Wanted \notin DOMAIN Snapshots[s] /\ ~IsDir(s, Wanted) /\ Answer(404)
    /\ UNCHANGED <<tags, imageTag, held, rebuilt, grants, dav, named, moves>>

LookupImage ==
    /\ req.pc = "image"
    /\ \/ imageTag = Nowhere /\ Answer(404)
       \/ /\ imageTag # Nowhere /\ UNCHANGED client
          /\ req' = [req EXCEPT !.pc = "file", !.row = [hash |-> imageTag, size |-> SizeOf(imageTag), seek |-> ImageSeek(imageTag)]]
    /\ UNCHANGED <<tags, imageTag, held, rebuilt, grants, manifests, dav, named, moves>>

\* A status line and its headers reach the client: the body that follows replaces what it has, or
\* goes on from it.
Begin(status) == client' = [client EXCEPT !.etag = req.row.hash, !.got = IF status = 206 THEN @ ELSE <<>>, !.full = Nowhere]

\* file_response: not modified, no such range, a body that fits one window, or a stream of them.
FileResponse ==
    /\ req.pc = "file"
    /\ LET b == req.row.hash
           asked == ParseRange(req.first, req.row.size)
           range == IF asked = "partial" /\ ~IfRangeAllows(req.ifRange, b) THEN "full" ELSE asked
           from == IF range = "partial" THEN req.first ELSE 0
           status == IF range = "partial" THEN 206 ELSE 200
       IN  \/ IfNoneMatch(req.inm, b) /\ Answer(304) /\ UNCHANGED held
           \/ ~IfNoneMatch(req.inm, b) /\ range = "unsatisfiable" /\ Answer(416) /\ UNCHANGED held
           \/ /\ ~IfNoneMatch(req.inm, b) /\ range # "unsatisfiable" /\ req.row.size - from <= WindowSize
              /\ \/ /\ ~Servable(b) /\ Answer(500)
                 \/ /\ Servable(b) /\ req' = [req EXCEPT !.pc = "none", !.status = status]
                    /\ client' = [client EXCEPT !.etag = b, !.full = b, !.phase = "idle",
                                                !.got = (IF status = 206 THEN @ ELSE <<>>) \o Slice(b, from, req.row.size)]
              /\ UNCHANGED held
           \/ /\ ~IfNoneMatch(req.inm, b) /\ range # "unsatisfiable" /\ req.row.size - from > WindowSize
              /\ Begin(status) /\ req' = [req EXCEPT !.pc = "materialize", !.off = from, !.end = req.row.size, !.status = status]
              /\ UNCHANGED held
    /\ UNCHANGED <<tags, imageTag, rebuilt, grants, manifests, dav, named, moves>>

\* The body ends early: the client knows, for it counts.
Break == req' = [req EXCEPT !.pc = "none"] /\ client' = [client EXCEPT !.phase = "idle"]

\* feed_windows: an opaque route is replayed into the store once, rather than once a window.
Materialize ==
    /\ req.pc = "materialize"
    /\ LET b == req.row.hash
       IN  \/ /\ req.row.seek # 2 \/ b \in held
              /\ req' = [req EXCEPT !.pc = "feed"] /\ UNCHANGED <<held, client>>
           \/ /\ req.row.seek = 2 /\ b \notin held /\ b \in rebuilt
              /\ req' = [req EXCEPT !.pc = "feed"] /\ held' = held \cup {b} /\ UNCHANGED client
           \/ /\ req.row.seek = 2 /\ ~Servable(b) /\ Break /\ UNCHANGED held
    /\ UNCHANGED <<tags, imageTag, rebuilt, grants, manifests, dav, named, moves>>

\* feed_windows, one window: delivered, refused by the store, or the client has gone.
Feed ==
    /\ req.pc = "feed"
    /\ LET b == req.row.hash
           upto == IF req.off + WindowSize < req.end THEN req.off + WindowSize ELSE req.end
           all == upto = req.end
       IN  \/ /\ Servable(b)
              /\ req' = [req EXCEPT !.off = upto, !.pc = IF all THEN "none" ELSE "feed"]
              /\ client' = [client EXCEPT !.got = @ \o Slice(b, req.off, upto),
                                          !.full = IF all THEN b ELSE Nowhere, !.phase = IF all THEN "idle" ELSE @]
           \/ ~Servable(b) /\ Break
           \/ moves < MaxMoves /\ Break
    /\ UNCHANGED <<tags, imageTag, held, rebuilt, grants, manifests, dav, named, moves>>

\* WebDAV, for the loopback caller only: resolve and open pin a blob, and read_bytes goes on from
\* where the file stands.
DavOpen ==
    /\ client.who = "local" /\ client.tree = "view" /\ dav.hash = Nowhere
    /\ LET s == ViewIndex(client.name)
       IN  /\ manifests' = Indexed(s)
           /\ Wanted \in DOMAIN Snapshots[s]
           /\ dav' = [hash |-> Snapshots[s][Wanted].hash, size |-> Snapshots[s][Wanted].size, pos |-> 0, got |-> <<>>]
    /\ UNCHANGED <<tags, imageTag, held, rebuilt, grants, client, req, named, moves>>

DavRead ==
    /\ dav.hash # Nowhere /\ dav.pos < dav.size /\ Servable(dav.hash)
    /\ LET upto == IF dav.pos + WindowSize < dav.size THEN dav.pos + WindowSize ELSE dav.size
       IN  dav' = [dav EXCEPT !.pos = upto, !.got = @ \o Slice(dav.hash, dav.pos, upto)]
    /\ UNCHANGED <<tags, imageTag, held, rebuilt, grants, manifests, client, req, named, moves>>

----------------------------------------------------------------------------
(* The world.                                                               *)

Moved == moves < MaxMoves /\ moves' = moves + 1

\* set_tag: a view is evaluated again, and points at what it shows now.
Retag(v, s) ==
    /\ Moved /\ tags' = [tags EXCEPT ![v] = [snap |-> s, at |-> moves + 2]]
    /\ named' = IF client.tree = "view" /\ client.name = v /\ Wanted \in DOMAIN Snapshots[s]
                THEN named \cup {Snapshots[s][Wanted].hash} ELSE named
    /\ UNCHANGED <<imageTag, held, rebuilt, grants, manifests, client, req, dav>>

MintImage(b) ==
    /\ Moved /\ imageTag' = b
    /\ named' = IF client.tree = "image" THEN named \cup {b} ELSE named
    /\ UNCHANGED <<tags, held, rebuilt, grants, manifests, client, req, dav>>

\* A blob is evicted where a route remains, or its bytes and its routes are lost.
Evict(b) == /\ Moved /\ b \in held \cap rebuilt /\ held' = held \ {b}
            /\ UNCHANGED <<tags, imageTag, rebuilt, grants, manifests, client, req, dav, named>>
Lose(b) == /\ Moved /\ held' = held \ {b} /\ rebuilt' = rebuilt \ {b}
           /\ UNCHANGED <<tags, imageTag, grants, manifests, client, req, dav, named>>

Revoke(v) == /\ Moved /\ v \in grants /\ grants' = grants \ {v}
             /\ UNCHANGED <<tags, imageTag, held, rebuilt, manifests, client, req, dav, named>>

FNext == \/ Ask \/ Gate \/ Permit \/ Lookup \/ LookupImage \/ FileResponse \/ Materialize \/ Feed \/ DavOpen \/ DavRead
         \/ (\E v \in ViewNames : (\E s \in DOMAIN Snapshots : Retag(v, s)) \/ Revoke(v))
         \/ (\E b \in AllBlobs : MintImage(b) \/ Evict(b) \/ Lose(b))

----------------------------------------------------------------------------
(* Properties.                                                              *)

\* A download the client believes complete is one blob from its first byte to its last, however
\* many connections it took and whatever the view came to point at between them (if_range_allows,
\* file_response, feed_windows; RangeFile::read_bytes for WebDAV).
ResumedWhole == /\ client.full # Nowhere => client.got = Whole(client.full)
                /\ dav.hash # Nowhere => dav.got = SubSeq(Whole(dav.hash), 1, dav.pos)

\* A body or a "not modified" is about a blob the path has named since the request came, never one
\* it had left before (view_index reads the tag each time; snapshot_index caches by snapshot).
AnsweredAsNamed ==
    req.pc = "none" /\ req.status \in {200, 206, 304} => req.row.hash \in named

\* "If-Range with a stale validator degrades to 200" (tests/http.rs:272): a client that resumes a
\* download of something the path no longer names is sent the new body.
StaleResumeRestarts ==
    req.pc = "none" /\ req.status = 416 => req.ifRange = req.row.hash

\* "Immutable objects, so entries never invalidate" (App.manifests): what is cached of a snapshot
\* is what decoding it again would give.
CacheTransparent == \A s \in DOMAIN manifests : manifests[s] = CreatedAt(s)

=============================================================================
