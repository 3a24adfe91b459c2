-------------------------------- MODULE Swap --------------------------------
(***************************************************************************)
(* The daemon's maintenance cycle around the affine piece-swap (decisions  *)
(* D91, D112, D116): license the verified routes of resident blobs, trade  *)
(* resident containers for one sealed pack of their grounding leaves, and, *)
(* when the watermark is armed and crossed, evict what is covered.         *)
(*                                                                         *)
(* The recipe graph is a constant; which of its recipes the index knows    *)
(* yet, which of them tell the truth and which blobs are resident are      *)
(* state.  Route ids are naturals: the planner and the candidate query     *)
(* prefer the lowest.                                                      *)
(***************************************************************************)
EXTENDS Integers, FiniteSets, FiniteSetsExt

CONSTANTS
    Pieces,         \* the blobs: containers, intermediates, leaves
    BlobBytes,      \* BlobBytes[b]: the recorded size of b
    Routes,         \* recipe ids, a set of naturals
    Reads,          \* Reads[r]: the blobs recipe r reads
    Makes,          \* Makes[r]: the blob recipe r produces
    Assembles,      \* the pure-builtin affine assemble@1 recipes
    Holdings,       \* the sets of blobs that may be resident at the start
    Late,           \* the sets of recipes that may not be published yet
    Liars,          \* the sets of recipes that may produce other bytes
    ReclaimMin,     \* swap:reclaim-min-bytes
    MaxCrashes, MaxErrors, MaxPublished

VARIABLES
    known,      \* the recipes the index holds
    verify,     \* verify[r]: "verified", "replayed" or "failed"
    resident,   \* the blobs whose row says Resident
    packed,     \* the blobs that lie in a sealed pack
    evicted,    \* the blobs whose row says EvictedCovered
    lies,       \* the recipes that do not produce what they claim
    armed,      \* the high-water mark is set and crossed
    at,         \* where the maintenance thread stands
    todo,       \* the candidates of the phase not taken yet: <<blob, route>>
    swap,       \* the candidate at hand, its leaves and intermediate routes
    crashes, errors, published

swapvars == <<known, verify, resident, packed, evicted, lies, armed, at, todo,
              swap, crashes, errors, published>>

rows == <<known, verify, resident, packed, evicted, lies, armed>>
counters == <<crashes, errors, published>>

NoSwap == [c |-> 0, r |-> 0, leaves |-> {}, routes |-> {}]

-----------------------------------------------------------------------------
(* What the index and the executor answer.                                 *)

Live == {r \in known : verify[r] # "failed"}
RoutesOf(b) == {r \in known : Makes[r] = b}

\* generated_predicate: the output of a non-failed recipe without inputs.
Generated(b) == \E r \in RoutesOf(b) \cap Live : Reads[r] = {}

\* A route with a non-generated input at least as large as its output is a
\* view of a whole, not a decomposition.
IsView(r) == \E i \in Reads[r] : ~ Generated(i) /\ BlobBytes[i] >= BlobBytes[Makes[r]]

\* Executor::plan: a literal where there is one, else the first non-failed
\* route all of whose inputs have a plan, never through a blob on the path.
Plan[b \in Pieces, path \in SUBSET Pieces] ==
    LET way(r) == {Plan[i, path \cup {b}] : i \in Reads[r]}
        ways   == {r \in RoutesOf(b) \cap Live : \A p \in way(r) : p.ok}
    IN  CASE b \in resident -> [ok |-> TRUE, routes |-> {}]
          [] b \notin resident /\ (b \in path \/ ways = {}) -> [ok |-> FALSE, routes |-> {}]
          [] OTHER -> [ok |-> TRUE,
                       routes |-> {Min(ways)} \cup UNION {p.routes : p \in way(Min(ways))}]

\* The routes a replay of r executes beside r itself, and whether it can.
Inner(r) == UNION {Plan[i, {}].routes : i \in Reads[r]}
Runnable(r) == r \in Live /\ \A i \in Reads[r] : Plan[i, {}].ok
Truthful(r) == (Inner(r) \cup {r}) \cap lies = {}

\* What the verify states become when r has run and every output hashed to its
\* claim: r and the recipes that ran inside are licensed.
Licensed(r) == [x \in Routes |-> IF x \in Inner(r) \cup {r} THEN "replayed" ELSE verify[x]]
Poisoned(r) == [verify EXCEPT ![r] = "failed"]

\* The fixpoint of D21 over the licensed recipes: what the blobs of lits yield.
Yield[lits \in SUBSET Pieces] ==
    LET more == {Makes[r] : r \in {x \in known :
                    verify[x] = "replayed" /\ Reads[x] \subseteq lits}} \ lits
    IN  IF more = {} THEN lits ELSE Yield[lits \cup more]

IsEvictable(b) == b \in Yield[resident \ {b}]

\* swap_candidates: resident containers with a trusted affine assemble that is
\* no view, each with the lowest such recipe.
SwapCandidates ==
    {<<Makes[r], r>> : r \in {x \in Live \cap Assembles :
        /\ Makes[x] \in resident
        /\ ~ IsView(x)
        /\ \A y \in RoutesOf(Makes[x]) \cap Live \cap Assembles : IsView(y) \/ x <= y}}

\* downward_route: the first non-failed route that rebuilds b from smaller parts.
Downward(b) == {r \in RoutesOf(b) \cap Live : Reads[r] # {} /\ ~ IsView(r)}

\* collect_leaves: the inputs under route r that end the walk, and the routes of
\* the intermediates passed on the way.
Walk[r \in Routes, path \in SUBSET Pieces] ==
    LET ins    == {i \in Reads[r] : ~ Generated(i) /\ i \notin path}
        inner  == {i \in ins : i \notin resident /\ Downward(i) # {}}
        below  == {Walk[Min(Downward(i)), path \cup {i}] : i \in inner}
    IN  [leaves |-> (ins \ inner) \cup UNION {w.leaves : w \in below},
         routes |-> {Min(Downward(i)) : i \in inner} \cup UNION {w.routes : w \in below}]

Weight(S) == FoldSet(LAMBDA b, n : BlobBytes[b] + n, 0, S)
Absent(leaves) == leaves \ resident
CoveringClaims(b) == Cardinality(RoutesOf(b) \cap Live)

\* The predicate of D112: there is something to pack, and the container frees
\* more than what would have to be written for it alone.
WorthIt(c, leaves) ==
    /\ Absent(leaves) # {}
    /\ BlobBytes[c] - Weight({b \in Absent(leaves) : CoveringClaims(b) < 2}) >= ReclaimMin

-----------------------------------------------------------------------------
(* The cycle.                                                              *)

\* license_pending: the resident blobs with a route that is only verified.
VerifiedOnly ==
    {<<Makes[r], 0>> : r \in {x \in known : verify[x] = "verified" /\ Makes[x] \in resident}}

CycleBegin ==
    /\ at = "idle"
    /\ at' = "license"
    /\ todo' = VerifiedOnly
    /\ UNCHANGED <<rows, swap, counters>>

Biggest(S) == {x \in S : \A y \in S : BlobBytes[x[1]] >= BlobBytes[y[1]]}

\* license_covered for one blob: its verified routes in turn, until one replays.
LicenseOne ==
    /\ at = "license"
    /\ \E x \in Biggest(todo) :
        /\ todo' = todo \ {x}
        /\ LET cand == {r \in RoutesOf(x[1]) : verify[r] = "verified"}
               poor == {r \in cand : Runnable(r) /\ ~ Truthful(r)}
               good == {r \in cand : Runnable(r) /\ Truthful(r)}
               stop == {r \in cand : ~ Runnable(r)}
               end  == good \cup stop
               upto == {r \in poor : \A e \in end : r < e}
               base == [r \in Routes |-> IF r \in upto THEN "failed" ELSE verify[r]]
           IN  verify' = IF end # {} /\ Min(end) \in good
                         THEN [r \in Routes |-> IF r \in upto THEN "failed" ELSE Licensed(Min(end))[r]]
                         ELSE base
    /\ UNCHANGED <<known, resident, packed, evicted, lies, armed, at, swap, counters>>

\* The license phase is over; the swap lists its candidates once.
SwapBegin ==
    /\ at = "license"
    /\ todo = {}
    /\ at' = "swap"
    /\ todo' = SwapCandidates
    /\ UNCHANGED <<rows, swap, counters>>

\* swap_one weighs the biggest candidate left.
SwapTake ==
    /\ at = "swap"
    /\ \E x \in Biggest(todo) :
        /\ todo' = todo \ {x}
        /\ LET w == Walk[x[2], {}]
           IN  IF WorthIt(x[1], w.leaves)
               THEN /\ swap' = [c |-> x[1], r |-> x[2], leaves |-> Absent(w.leaves), routes |-> w.routes]
                    /\ at' = "pack"
               ELSE UNCHANGED <<swap, at>>
    /\ UNCHANGED <<rows, counters>>

\* The leaves stream through the executor into one sealed pack.
SwapPack ==
    /\ at = "pack"
    /\ \A b \in swap.leaves : Plan[b, {}].ok /\ Plan[b, {}].routes \cap lies = {}
    /\ packed' = packed \cup swap.leaves
    /\ at' = "flip"
    /\ UNCHANGED <<known, verify, resident, evicted, lies, armed, todo, swap, counters>>

\* A leaf has no plan, or its bytes are not the ones claimed: nothing is published.
SwapPackFails ==
    /\ at = "pack"
    /\ \E b \in swap.leaves : ~ Plan[b, {}].ok \/ Plan[b, {}].routes \cap lies # {}
    /\ at' = "swap"
    /\ swap' = NoSwap
    /\ UNCHANGED <<rows, todo, counters>>

\* Bytes first, rows second: one row at a time turns Resident.
SwapFlip ==
    /\ at = "flip"
    /\ IF swap.leaves \subseteq resident
       THEN at' = "routes" /\ UNCHANGED <<resident, evicted>>
       ELSE \E b \in swap.leaves \ resident :
                /\ resident' = resident \cup {b}
                /\ evicted' = evicted \ {b}
                /\ UNCHANGED at
    /\ UNCHANGED <<known, verify, packed, lies, armed, todo, swap, counters>>

\* The intermediates whose own intermediates are all licensed come first.
NextRoute(rs) == {r \in rs : \A o \in rs : Makes[o] \notin Reads[r]}

\* Mutant: the intermediates go unlicensed.
SwapLicenseNone ==
    /\ at = "routes"
    /\ \E r \in NextRoute(swap.routes) : swap' = [swap EXCEPT !.routes = @ \ {r}]
    /\ UNCHANGED <<rows, at, todo, counters>>

\* The licensing of one intermediate's route, without storing its output; a
\* failure leaves the candidate.
SwapLicense ==
    /\ at = "routes"
    /\ \E r \in NextRoute(swap.routes) :
        IF verify[r] = "replayed" \/ (Runnable(r) /\ Truthful(r))
        THEN /\ verify' = IF verify[r] = "replayed" THEN verify ELSE Licensed(r)
             /\ swap' = [swap EXCEPT !.routes = @ \ {r}]
             /\ UNCHANGED at
        ELSE /\ verify' = IF Runnable(r) THEN Poisoned(r) ELSE verify
             /\ swap' = NoSwap
             /\ at' = "swap"
    /\ UNCHANGED <<known, resident, packed, evicted, lies, armed, todo, counters>>

\* The rebuild itself replays when it is only verified.
SwapReplay ==
    /\ at = "routes"
    /\ swap.routes = {}
    /\ LET r == swap.r
       IN  IF verify[r] = "replayed" \/ (Runnable(r) /\ Truthful(r))
           THEN /\ verify' = IF verify[r] = "replayed" THEN verify ELSE Licensed(r)
                /\ at' = "evict"
                /\ UNCHANGED swap
           ELSE /\ verify' = IF Runnable(r) THEN Poisoned(r) ELSE verify
                /\ swap' = NoSwap
                /\ at' = "swap"
    /\ UNCHANGED <<known, resident, packed, evicted, lies, armed, todo, counters>>

\* evict: only what stays grounded without its literal; a packed blob keeps its bytes.
Evicts(c) ==
    IF c \in resident \ packed /\ IsEvictable(c)
    THEN resident' = resident \ {c} /\ evicted' = evicted \cup {c}
    ELSE UNCHANGED <<resident, evicted>>

SwapEvict ==
    /\ at = "evict"
    /\ Evicts(swap.c)
    /\ swap' = NoSwap
    /\ at' = "swap"
    /\ UNCHANGED <<known, verify, packed, lies, armed, todo, counters>>

\* An I/O error, or no headroom, leaves the candidate where it stands.
SwapError ==
    /\ at \in {"pack", "routes", "evict"}
    /\ errors < MaxErrors
    /\ errors' = errors + 1
    /\ swap' = NoSwap
    /\ at' = "swap"
    /\ UNCHANGED <<rows, todo, crashes, published>>

SwapEnd ==
    /\ at = "swap"
    /\ todo = {}
    /\ at' = IF armed THEN "water" ELSE "idle"
    /\ todo' = {<<b, 0>> : b \in {x \in resident : armed /\ \E r \in RoutesOf(x) : verify[r] = "replayed"}}
    /\ UNCHANGED <<rows, swap, counters>>

\* watermark_evict: candidates are tried one by one until enough is reclaimed.
WaterEvict ==
    /\ at = "water"
    /\ \/ \E x \in todo : Evicts(x[1]) /\ todo' = todo \ {x} /\ UNCHANGED at
       \/ todo' = {} /\ at' = "idle" /\ UNCHANGED <<resident, evicted>>
    /\ UNCHANGED <<known, verify, packed, lies, armed, swap, counters>>

-----------------------------------------------------------------------------
(* What happens beside the cycle.                                          *)

\* The daemon dies and starts over; rows and packs survive.
Crash ==
    /\ at # "idle"
    /\ crashes < MaxCrashes
    /\ crashes' = crashes + 1
    /\ at' = "idle"
    /\ todo' = {}
    /\ swap' = NoSwap
    /\ UNCHANGED <<rows, errors, published>>

\* An analyzer publishes another recipe of the graph.
Publish ==
    /\ published < MaxPublished
    /\ published' = published + 1
    /\ \E r \in Routes \ known : known' = known \cup {r}
    /\ UNCHANGED <<verify, resident, packed, evicted, lies, armed, at, todo, swap, crashes, errors>>

\* The blob page rebuilds a blob that is not resident.
Materialize ==
    /\ published < MaxPublished
    /\ published' = published + 1
    /\ \E b \in Pieces \ resident :
        /\ Plan[b, {}].ok
        /\ Plan[b, {}].routes \cap lies = {}
        /\ resident' = resident \cup {b}
        /\ evicted' = evicted \ {b}
        /\ verify' = [r \in Routes |-> IF r \in Plan[b, {}].routes THEN "replayed" ELSE verify[r]]
    /\ UNCHANGED <<known, packed, lies, armed, at, todo, swap, crashes, errors>>

SwInit ==
    /\ \E late \in Late : known = Routes \ late
    /\ verify = [r \in Routes |-> "verified"]
    /\ resident \in Holdings
    /\ packed = {} /\ evicted = {}
    /\ lies \in Liars
    /\ armed \in BOOLEAN
    /\ at = "idle" /\ todo = {} /\ swap = NoSwap
    /\ crashes = 0 /\ errors = 0 /\ published = 0

Cycle ==
    \/ CycleBegin \/ LicenseOne \/ SwapBegin \/ SwapTake \/ SwapPack \/ SwapPackFails
    \/ SwapFlip \/ SwapLicense \/ SwapReplay \/ SwapEvict \/ SwapEnd \/ WaterEvict

SwNext == Cycle \/ SwapError \/ Crash \/ Publish \/ Materialize

\* The maintenance thread wakes on its timer for ever.
SwFairness == WF_swapvars(Cycle)

-----------------------------------------------------------------------------
(* Properties.                                                             *)

\* The pack holds enough: when the swap comes to evict the container, the
\* licensed routes rebuild it from the leaves without its own bytes, so the
\* swap never pays for a pack and is then refused the eviction.
LeavesSuffice == at = "evict" => IsEvictable(swap.c)

\* What the pieces were written for happens: once they are resident, the
\* container they replace is evicted, or one of its routes is poisoned.
SwapFinishes ==
    \A c \in Pieces :
        (at = "routes" /\ swap.c = c) ~> (c \in evicted \/ \E r \in RoutesOf(c) : verify[r] = "failed")

=============================================================================
