-------------------------------- MODULE Api ---------------------------------
(****************************************************************************)
(* The JSON API of the server (datboi-server/src/api.rs): what its reads say *)
(* of the store and the catalogue, each a series of statements between which *)
(* the world moves.                                                          *)
(****************************************************************************)
EXTENDS Naturals, Sequences, FiniteSets, FiniteSetsExt

CONSTANTS
    ApiBlobs,       \* 1..n: blob ids
    ApiRecipes,     \* recipe -> [ins, outs]
    Sources,        \* dat sources
    ApiEntries,     \* entry id -> [source, rev, name, blobs]: every revision's entries, in name order
    Revisions,      \* 1..n: a source's revisions
    RootCap,        \* roots named in a blob's detail (20)
    PageLimit,      \* rows a page holds
    MaxChanges,     \* changes the world makes
    MaxCalls        \* requests the client sends

VARIABLES
    current,        \* source -> its current revision, 0 for none
    failed,         \* recipes whose verify state is failed
    call,           \* the request being answered: [kind, step, arg, read]
    answer,         \* the last reply
    truth,          \* history: what a reference says, at each moment since the request came
    pages,          \* the client walks a source: [source, rows, total, still: nothing changed since, over]
    changes, calls

apivars == <<current, failed, call, answer, truth, pages, changes, calls>>

----------------------------------------------------------------------------
(* The queries.                                                             *)

\* Mutant: a poisoned recipe still connects.
EdgesPoisoned == UNION {ApiRecipes[r].ins \X ApiRecipes[r].outs : r \in DOMAIN ApiRecipes}

\* DAG_EDGES_CTE: input to output, poisoned recipes excluded.
Edges == UNION {ApiRecipes[r].ins \X ApiRecipes[r].outs : r \in (DOMAIN ApiRecipes) \ failed}

\* The recursive walks, joined as often as there are blobs.
Flood(start, edges) ==
    FoldSet(LAMBDA n, found : found \cup {e[2] : e \in {x \in edges : x[1] \in found}}, start, ApiBlobs)
Reversed == {<<e[2], e[1]>> : e \in Edges}
Component(b) == Flood({b}, Edges \cup Reversed)
Down(b) == Flood({b}, Edges)
Up(b) == Flood({b}, Reversed)

\* identity_blob joined to rom_claim: claimed by an entry of any revision, or of a current one.
ClaimedEver == UNION {ApiEntries[e].blobs : e \in DOMAIN ApiEntries}
Current(e) == current[ApiEntries[e].source] = ApiEntries[e].rev
ClaimedBy(s) == UNION {ApiEntries[e].blobs : e \in {x \in DOMAIN ApiEntries : ApiEntries[x].source = s /\ Current(x)}}
\* CLAIMS_SQL.
ClaimsOf(b) == {e \in DOMAIN ApiEntries : Current(e) /\ b \in ApiEntries[e].blobs}

\* by_source_sql: what each claimed root reaches, for the roots the source claims now.
BySource(s) == UNION {Component(root) : root \in ClaimedEver \cap ClaimedBy(s)}
\* The "(unattached)" bucket.
Unattached == ApiBlobs \ UNION {Component(root) : root \in ClaimedEver}

\* blob_detail_body: the claimed blobs of the component, the first RootCap of them, and of those
\* the ones a current entry names; each by the direction it lies in.
Walks(b) == [comp |-> Component(b), down |-> Down(b), up |-> Up(b)]
RootIds(b, w) == LET all == (w.comp \ {b}) \cap ClaimedEver
                 IN  {r \in all : Cardinality({x \in all : x < r}) < RootCap}
RelationTo(r, w) == IF r \in w.down THEN "makes" ELSE IF r \in w.up THEN "derived_from" ELSE "related"
Roots(b, w) == {<<r, RelationTo(r, w)>> : r \in {x \in RootIds(b, w) : ClaimsOf(x) # {}}}

\* entries_body: the entries of a source's current revision, ordered by name.
EntriesNow(s) == {e \in DOMAIN ApiEntries : ApiEntries[e].source = s /\ Current(e)}
Nth(es, i) == CHOOSE e \in es : Cardinality({x \in es : x < e}) = i - 1
ByName(es) == [i \in 1..Cardinality(es) |-> Nth(es, i)]
EntriesOf(s) == ByName(EntriesNow(s))
\* Mutant: the page after an offset begins one row late.
PageLate(rows, offset) == SubSeq(rows, offset + 2, IF offset + 1 + PageLimit < Len(rows) THEN offset + 1 + PageLimit ELSE Len(rows))
\* LIMIT and OFFSET.
Page(rows, offset) == SubSeq(rows, offset + 1, IF offset + PageLimit < Len(rows) THEN offset + PageLimit ELSE Len(rows))

----------------------------------------------------------------------------
(* References: attribution by merging the blobs a live recipe touches, and   *)
(* direction by transitive closure.                                          *)

Merge(blocks, r) == LET touched == {k \in blocks : k \cap (ApiRecipes[r].ins \cup ApiRecipes[r].outs) # {}}
                        joins == ApiRecipes[r].ins # {} /\ ApiRecipes[r].outs # {}
                    IN  IF joins THEN (blocks \ touched) \cup {UNION touched} ELSE blocks
Blocks == FoldSet(LAMBDA r, blocks : Merge(blocks, r), {{b} : b \in ApiBlobs}, (DOMAIN ApiRecipes) \ failed)
Attributed(s) == UNION {k \in Blocks : k \cap ClaimedBy(s) # {}}
Twice(R) == UNION {S \cup {<<p[1][1], p[2][2]>> : p \in {q \in S \X S : q[1][2] = q[2][1]}} : S \in {R}}
MakesPairs == Twice(Twice(Twice(UNION {ApiRecipes[r].ins \X ApiRecipes[r].outs : r \in (DOMAIN ApiRecipes) \ failed})))

Truth == [by |-> [s \in Sources |-> Attributed(s)],
          un |-> ApiBlobs \ UNION {k \in Blocks : k \cap ClaimedEver # {}},
          makes |-> MakesPairs]

----------------------------------------------------------------------------
(* The requests.                                                            *)

NoCall == [kind |-> "none", step |-> 0, arg |-> 0, read |-> 0]
NoAnswer == [kind |-> "none", arg |-> 0, body |-> 0]
NoPages == [source |-> "", rows |-> <<>>, total |-> 0, still |-> TRUE, over |-> FALSE]

ApiInit ==
    /\ current \in [Sources -> {1}] /\ failed = {}
    /\ call = NoCall /\ answer = NoAnswer /\ truth = {} /\ pages = NoPages
    /\ changes = 0 /\ calls = 0

Reads == UNCHANGED <<current, failed, changes>>

Request(kind, arg) ==
    /\ call.kind = "none" /\ calls < MaxCalls /\ calls' = calls + 1
    /\ call' = [kind |-> kind, step |-> 1, arg |-> arg, read |-> 0]
    /\ answer' = NoAnswer /\ truth' = {Truth} /\ Reads

\* GET /v1/storage/breakdown: the sources in one statement, the unattached in another.
BreakdownSources ==
    /\ call.kind = "breakdown" /\ call.step = 1
    /\ call' = [call EXCEPT !.step = 2, !.read = [s \in Sources |-> BySource(s)]]
    /\ UNCHANGED <<answer, truth, pages, calls>> /\ Reads
BreakdownRest ==
    /\ call.kind = "breakdown" /\ call.step = 2
    /\ answer' = [kind |-> "breakdown", arg |-> 0, body |-> [by |-> call.read, un |-> Unattached]]
    /\ call' = NoCall /\ UNCHANGED <<truth, pages, calls>> /\ Reads

\* GET /v1/blobs/{hash}: its claims, the walks from it, then the roots they found.
DetailClaims ==
    /\ call.kind = "detail" /\ call.step = 1
    /\ call' = [call EXCEPT !.step = 2, !.read = [claims |-> ClaimsOf(call.arg)]]
    /\ UNCHANGED <<answer, truth, pages, calls>> /\ Reads
DetailWalks ==
    /\ call.kind = "detail" /\ call.step = 2
    /\ call' = [call EXCEPT !.step = 3, !.read = [claims |-> call.read.claims, walks |-> Walks(call.arg)]]
    /\ UNCHANGED <<answer, truth, pages, calls>> /\ Reads
DetailRoots ==
    /\ call.kind = "detail" /\ call.step = 3
    /\ answer' = [kind |-> "detail", arg |-> call.arg,
                  body |-> [claims |-> call.read.claims, roots |-> Roots(call.arg, call.read.walks)]]
    /\ call' = NoCall /\ UNCHANGED <<truth, pages, calls>> /\ Reads

\* GET /v1/systems/{id}/entries: the revision, the count, then the rows of the page.
EntriesCount ==
    /\ call.kind = "entries" /\ call.step = 1
    /\ call' = [call EXCEPT !.step = 2, !.read = Len(EntriesOf(call.arg))]
    /\ UNCHANGED <<answer, truth, pages, calls>> /\ Reads
EntriesRows ==
    /\ call.kind = "entries" /\ call.step = 2
    /\ LET got == Page(EntriesOf(call.arg), Len(pages.rows))
       IN  pages' = [pages EXCEPT !.source = call.arg, !.rows = @ \o got, !.total = call.read,
                                  !.over = got = <<>> \/ Len(pages.rows \o got) >= call.read]
    /\ answer' = [kind |-> "entries", arg |-> call.arg, body |-> 0]
    /\ call' = NoCall /\ UNCHANGED <<truth, calls>> /\ Reads

\* GET /v1/systems/{id}/entries/{name}: the row SQLite comes to first among those of that name.
EntryShown ==
    /\ call.kind = "entry"
    /\ LET asked == ApiEntries[call.arg]
           same == {e \in DOMAIN ApiEntries : Current(e) /\ ApiEntries[e].source = asked.source /\ ApiEntries[e].name = asked.name}
       IN  answer' = [kind |-> "entry", arg |-> call.arg, body |-> IF same = {} THEN 0 ELSE Min(same)]
    /\ call' = NoCall /\ UNCHANGED <<truth, pages, calls>> /\ Reads

Ask == \/ Request("breakdown", 0) /\ UNCHANGED pages
       \/ (\E b \in ApiBlobs : Request("detail", b)) /\ UNCHANGED pages
       \/ \E s \in Sources : /\ pages.source \in {"", s} /\ ~pages.over /\ Request("entries", s)
                             /\ pages' = IF pages.source = "" THEN [pages EXCEPT !.source = s] ELSE pages
       \/ \E e \in DOMAIN ApiEntries : Current(e) /\ Request("entry", e) /\ UNCHANGED pages

----------------------------------------------------------------------------
Change == /\ changes < MaxChanges /\ changes' = changes + 1
          /\ truth' = (IF call.kind = "none" THEN truth ELSE truth \cup {Truth'})
          /\ pages' = [pages EXCEPT !.still = @ /\ pages.source = ""]
          /\ UNCHANGED <<call, answer, calls>>
Import(s) == current[s] < Max(Revisions) /\ current' = [current EXCEPT ![s] = @ + 1] /\ UNCHANGED failed /\ Change
Poison(r) == r \notin failed /\ failed' = failed \cup {r} /\ UNCHANGED current /\ Change

ApiNext ==
    \/ Ask \/ BreakdownSources \/ BreakdownRest \/ DetailClaims \/ DetailWalks \/ DetailRoots \/ EntriesCount \/ EntriesRows \/ EntryShown
    \/ (\E s \in Sources : Import(s)) \/ (\E r \in DOMAIN ApiRecipes : Poison(r))

----------------------------------------------------------------------------
(* Properties.                                                              *)

\* "a blob belongs to every source whose claimed content it is recipe-connected to" (by_source_sql):
\* each part of a breakdown is what merging the blobs of live recipes gives at some moment of the
\* request, and a blob's detail calls a root "makes" or "derived_from" as the closure of those recipes does.
AttributionExact ==
    /\ answer.kind = "breakdown" =>
          (\E t \in truth : t.by = answer.body.by) /\ (\E t \in truth : t.un = answer.body.un)
    /\ answer.kind = "detail" /\ Cardinality(truth) = 1 =>
          \A t \in truth : \A x \in answer.body.roots :
              x[2] = (IF <<answer.arg, x[1]>> \in t.makes THEN "makes"
                      ELSE IF <<x[1], answer.arg>> \in t.makes THEN "derived_from" ELSE "related")

\* A client that pages through a source's entries, while nothing changes, has each one once when
\* the count says it is done (entries_body).
PagingExact == pages.over /\ pages.still => pages.rows = EntriesOf(pages.source)

\* "empty for a truly unattached blob" (BlobDetail.roots): a blob some source is charged with shows
\* a claim or a root.
AttachedShowsWhy ==
    answer.kind = "detail" /\ Cardinality(truth) = 1 =>
        ((\E t \in truth : \E s \in Sources : answer.arg \in t.by[s]) => answer.body.claims # {} \/ answer.body.roots # {})

\* "within a system's current revision the name is a real key" (entry_body): the entry a client
\* picked from the listing is the one it is shown.
EntryIsTheOneListed == answer.kind = "entry" /\ Current(answer.arg) => answer.body = answer.arg

=============================================================================
