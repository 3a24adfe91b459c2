------------------------------- MODULE Serve -------------------------------
(****************************************************************************)
(* serve_range: concurrent reads of ranges of one blob that a recipe        *)
(* serves.  The blob's outboard is made on demand behind a per-hash gate    *)
(* (bless_once); a window is produced through the seek paths of the plan's  *)
(* components, verified against the outboard, and a failure is attributed   *)
(* to a component, which is then quarantined.                               *)
(*                                                                          *)
(* A plan is its top op over children; a child is a literal leaf or a       *)
(* transform over one.  A leaf's bytes rot and are repaired at any time.    *)
(****************************************************************************)
EXTENDS Naturals, Sequences, SequencesExt, FiniteSets

CONSTANTS Readers,     \* concurrent calls of serve_range
          Leaves,      \* literals the plans rest on
          Components,  \* wasm transform components
          Plans,       \* the plans to consider: [top, kids]
          NoComponent,
          MaxRots,     \* bound: literals that rot
          MaxReads     \* bound: calls of serve_range

VARIABLES
    shape,        \* the plan of the blob
    affine,       \* locally minted affine assemble over verified inputs
    liars,        \* components whose seek path lies
    seekable,     \* components that declare a seek path
    rotten,       \* leaves whose bytes differ from their address
    resident,     \* the blob itself is a literal
    sidecar,      \* its outboard is stored
    quarantined,  \* the seek_quarantine table
    flight,       \* bless_flight: the gate the hash has an entry for, 0: none
    gate,         \* per reader: the gate it holds a reference to, 0: none
    gates,        \* gates made so far
    locked,       \* readers inside their gate's mutex
    rpc,          \* per reader: its step
    seeks,        \* per reader: the components its plan may seek in
    window,       \* per reader: the produced window is right
    via,          \* per reader: the component to blame
    served,       \* per reader: the answer
    blessings,    \* history: materializations that made the outboard
    rots, reads

environment == <<shape, affine, liars, seekable>>
svvars == <<environment, rotten, resident, sidecar, quarantined, flight, gate, gates, locked, rpc, seeks, window, via,
            served, blessings, rots, reads>>

SVTypeOK ==
    /\ shape \in Plans /\ affine \in BOOLEAN /\ liars \subseteq Components /\ seekable \subseteq Components
    /\ rotten \subseteq Leaves /\ resident \in BOOLEAN /\ sidecar \in BOOLEAN
    /\ quarantined \subseteq Components
    /\ gates \in 0 .. MaxReads /\ flight \in 0 .. gates /\ gate \in [Readers -> 0 .. gates] /\ locked \subseteq Readers
    /\ rpc \in [Readers -> {"idle", "sidecar", "gate", "wait", "bless", "leave", "drop", "produce", "verify",
                            "attribute"}]
    /\ seeks \in [Readers -> SUBSET Components] /\ window \in [Readers -> BOOLEAN]
    /\ via \in [Readers -> Components \cup {NoComponent}]
    /\ served \in [Readers -> {"none", "good", "bad", "raw", "eio"}]
    /\ blessings \in Nat /\ rots \in 0 .. MaxRots /\ reads \in 0 .. MaxReads

SVInit ==
    /\ shape \in Plans
    /\ affine \in (IF shape.top = "assemble" /\ \A k \in Range(shape.kids) : k.op = "literal" THEN BOOLEAN ELSE {FALSE})
    /\ seekable \in SUBSET Components /\ liars \in SUBSET seekable
    /\ rotten = {} /\ resident = FALSE /\ sidecar = FALSE /\ quarantined = {}
    /\ flight = 0 /\ gate = [r \in Readers |-> 0] /\ gates = 0 /\ locked = {}
    /\ rpc = [r \in Readers |-> "idle"] /\ seeks = [r \in Readers |-> {}]
    /\ window = [r \in Readers |-> TRUE] /\ via = [r \in Readers |-> NoComponent]
    /\ served = [r \in Readers |-> "none"]
    /\ blessings = 0 /\ rots = 0 /\ reads = 0

(****************************************************************************)
(* The plan.                                                                *)
(****************************************************************************)
Kids == Range(shape.kids)
TopIsTransform == shape.top # "assemble"
AllLeaves == {k.leaf : k \in Kids}

\* plan_recipe downgrades a quarantined component to an opaque one.
Seekable == seekable \ quarantined

\* first_seekable_transform: the component a composite's failure indicts.
FirstSeekable(able) ==
    IF TopIsTransform /\ shape.top \in able THEN shape.top
    ELSE LET suspects == SelectSeq(shape.kids, LAMBDA k : k.op \in able)
         IN  IF suspects = <<>> THEN NoComponent ELSE Head(suspects).op

\* find_transform_children, then collect_literal_leaves beneath the node.
LeavesUnder(c) == IF shape.top = c THEN AllLeaves ELSE {k.leaf : k \in {j \in Kids : j.op = c}}

\* The sequential path (spill, blessing) is right when the leaves are.
Spilled == AllLeaves \cap rotten = {}

\* open_random in place: a child a component seeks in, or a spilled one.
InPlace(able) == \A k \in Kids : k.leaf \notin rotten /\ ~(k.op \in able /\ k.op \in liars)

\* produce_range: what the window holds and which seek path produced it.  The
\* top transform is looked up in the quarantine again, the children are not.
Produced(able) ==
    IF ~TopIsTransform THEN [right |-> InPlace(able), by |-> FirstSeekable(able)]
    ELSE IF shape.top \in able \ quarantined
         THEN [right |-> InPlace(able) /\ shape.top \notin liars, by |-> shape.top]
         ELSE [right |-> Spilled, by |-> NoComponent]

(****************************************************************************)
(* serve_range.                                                             *)
(****************************************************************************)
Answer(r, what) ==
    /\ rpc' = [rpc EXCEPT ![r] = "idle"] /\ served' = [served EXCEPT ![r] = what]

\* Mutant: the carve-out trusts the leaves as they lie.
CarveoutUnverified(r) == Answer(r, IF Spilled THEN "good" ELSE "bad")

Begin(r) ==
    /\ rpc[r] = "idle" /\ reads < MaxReads
    /\ reads' = reads + 1
    /\ IF resident
       THEN \* verified against the outboard, or the bare file without one
            Answer(r, IF sidecar THEN "good" ELSE "raw") /\ UNCHANGED seeks
       ELSE /\ rpc' = [rpc EXCEPT ![r] = "sidecar"] /\ seeks' = [seeks EXCEPT ![r] = Seekable]
            /\ UNCHANGED served
    /\ UNCHANGED <<environment, rotten, resident, sidecar, quarantined, flight, gate, gates, locked, window, via,
                   blessings, rots>>

\* open_random_verified: every leaf is read against its own outboard.
Carveout(r) == Answer(r, IF Spilled THEN "good" ELSE "eio")

Sidecar(r) ==
    /\ rpc[r] = "sidecar"
    /\ IF ~sidecar /\ affine THEN Carveout(r)
       ELSE rpc' = [rpc EXCEPT ![r] = IF sidecar THEN "produce" ELSE "gate"] /\ UNCHANGED served
    /\ UNCHANGED <<environment, rotten, resident, sidecar, quarantined, flight, gate, gates, locked, seeks, window, via,
                   blessings, rots, reads>>

\* Mutant: the gate is not locked while blessing.
GateLockFree(r) == rpc[r] = "wait"

\* bless_once, first block: find or make the gate, and hold a reference.
GateEnter(r) ==
    /\ rpc[r] = "gate"
    /\ rpc' = [rpc EXCEPT ![r] = "wait"]
    /\ gates' = IF flight = 0 THEN gates + 1 ELSE gates
    /\ flight' = IF flight = 0 THEN gates' ELSE flight
    /\ gate' = [gate EXCEPT ![r] = flight']
    /\ UNCHANGED <<environment, rotten, resident, sidecar, quarantined, locked, seeks, window, via, served,
                   blessings, rots, reads>>

GateFree(r) == rpc[r] = "wait" /\ \A q \in locked : gate[q] # gate[r]

\* bless_output looks for the outboard again under the gate's mutex.
GateLock(r) ==
    /\ GateFree(r)
    /\ IF sidecar THEN rpc' = [rpc EXCEPT ![r] = "leave"] /\ UNCHANGED locked
       ELSE rpc' = [rpc EXCEPT ![r] = "bless"] /\ locked' = locked \cup {r}
    /\ window' = [window EXCEPT ![r] = TRUE]
    /\ UNCHANGED <<environment, rotten, resident, sidecar, quarantined, flight, gate, gates, seeks, via, served,
                   blessings, rots, reads>>

\* bless_plan ends: the root of the streamed bytes is the hash, or not.  A blob
\* that is a literal by now has its outboard made from the file.
Bless(r) ==
    /\ rpc[r] = "bless"
    /\ rpc' = [rpc EXCEPT ![r] = "leave"] /\ locked' = locked \ {r}
    /\ window' = [window EXCEPT ![r] = resident \/ Spilled]
    /\ sidecar' = (sidecar \/ resident \/ Spilled)
    /\ blessings' = IF resident \/ Spilled THEN blessings + 1 ELSE blessings
    /\ UNCHANGED <<environment, rotten, resident, quarantined, flight, gate, gates, seeks, via, served, rots, reads>>

\* bless_once, last block: the last holder drops the entry.
GateLeave(r) ==
    /\ rpc[r] = "leave"
    /\ rpc' = [rpc EXCEPT ![r] = "drop"]
    /\ flight' = IF {q \in Readers : gate[q] = gate[r]} = {r} THEN 0 ELSE flight
    /\ UNCHANGED <<environment, rotten, resident, sidecar, quarantined, gate, gates, locked, seeks, window, via, served,
                   blessings, rots, reads>>

\* The reference goes when the function returns.
GateDrop(r) ==
    /\ rpc[r] = "drop"
    /\ gate' = [gate EXCEPT ![r] = 0]
    /\ IF window[r] THEN rpc' = [rpc EXCEPT ![r] = "produce"] /\ UNCHANGED served ELSE Answer(r, "eio")
    /\ UNCHANGED <<environment, rotten, resident, sidecar, quarantined, flight, gates, locked, seeks, window, via,
                   blessings, rots, reads>>

Produce(r) ==
    /\ rpc[r] = "produce"
    /\ rpc' = [rpc EXCEPT ![r] = "verify"]
    /\ window' = [window EXCEPT ![r] = Produced(seeks[r]).right]
    /\ via' = [via EXCEPT ![r] = Produced(seeks[r]).by]
    /\ UNCHANGED <<environment, rotten, resident, sidecar, quarantined, flight, gate, gates, locked, seeks, served,
                   blessings, rots, reads>>

Verify(r) ==
    /\ rpc[r] = "verify"
    /\ IF window[r] THEN Answer(r, "good")
       ELSE IF via[r] = NoComponent THEN Answer(r, "eio")
       ELSE rpc' = [rpc EXCEPT ![r] = "attribute"] /\ UNCHANGED served
    /\ UNCHANGED <<environment, rotten, resident, sidecar, quarantined, flight, gate, gates, locked, seeks, window, via,
                   blessings, rots, reads>>

\* attribute_seek_failure: the leaves beneath the suspect are re-hashed; with
\* clean ones it is quarantined, unless the connection is read-only.
Attribute(r) ==
    /\ rpc[r] = "attribute"
    /\ Answer(r, "eio")
    /\ \/ LeavesUnder(via[r]) \cap rotten = {} /\ quarantined' = quarantined \cup {via[r]}
       \/ UNCHANGED quarantined
    /\ UNCHANGED <<environment, rotten, resident, sidecar, flight, gate, gates, locked, seeks, window, via, blessings,
                   rots, reads>>

(****************************************************************************)
(* The store around the reads.                                              *)
(****************************************************************************)
Rot(l) ==
    /\ l \notin rotten /\ rots < MaxRots
    /\ rots' = rots + 1 /\ rotten' = rotten \cup {l}
    /\ UNCHANGED <<environment, resident, sidecar, quarantined, flight, gate, gates, locked, rpc, seeks, window, via,
                   served, blessings, reads>>

Repair(l) ==
    /\ l \in rotten
    /\ rotten' = rotten \ {l}
    /\ UNCHANGED <<environment, resident, sidecar, quarantined, flight, gate, gates, locked, rpc, seeks, window, via,
                   served, blessings, rots, reads>>

\* Another thread makes the blob a literal: a replay publishes the outboard
\* with it, an ingest of the same bytes does not.
Materialize ==
    /\ ~resident
    /\ resident' = TRUE
    /\ sidecar' \in (IF Spilled THEN {TRUE, sidecar} ELSE {sidecar})
    /\ UNCHANGED <<environment, rotten, quarantined, flight, gate, gates, locked, rpc, seeks, window, via, served,
                   blessings, rots, reads>>

SVNext ==
    \/ \E r \in Readers :
        \/ Begin(r) \/ Sidecar(r) \/ GateEnter(r) \/ GateLock(r) \/ Bless(r) \/ GateLeave(r) \/ GateDrop(r)
        \/ Produce(r) \/ Verify(r) \/ Attribute(r)
    \/ \E l \in Leaves : Rot(l) \/ Repair(l)
    \/ Materialize

SVSpec == SVInit /\ [][SVNext]_svvars

(****************************************************************************)
(* Properties.                                                              *)
(****************************************************************************)
\* A range a recipe serves is right or it is an error: no seek path that lies,
\* no leaf that rots at any point of the read and no stale plan gets a wrong
\* byte to a client.
ServedBytesTrue == \A r \in Readers : served[r] # "bad"

\* One materialization per blob, ever (the gate of bless_once): readers that
\* arrive together do not stream the same blob twice, and no reader blesses
\* while another does, through whichever gates they hold.
BlessedOnce == blessings <= 1 /\ Cardinality({r \in Readers : rpc[r] = "bless"}) <= 1

\* An error has a cause: a read whose plan may seek nowhere (every component
\* opaque or already quarantined) fails only when a leaf has rotted, so a
\* lying seek path costs one error and is routed around from then on.
EioHasACause ==
    \A r \in Readers : served[r] = "eio" /\ rpc[r] = "idle" /\ seeks[r] = {} => rots > 0

\* The intent stated at attribute_seek_failure: a component is quarantined
\* only when its own seek path lied, never for a corrupt input.
QuarantineIsDeserved == quarantined \subseteq liars

\* The intent stated at bless_flight: entries go once the last holder is done.
FlightDrains == (\A r \in Readers : gate[r] = 0) => flight = 0
=============================================================================
