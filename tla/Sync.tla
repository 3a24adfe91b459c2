-------------------------------- MODULE Sync --------------------------------
(****************************************************************************)
(* sync: reconcile the plans with a peer, fetch the recipes that are        *)
(* missing, walk the local closure for the leaves that ground them, fetch   *)
(* those, and rebuild what was asked for.  A round may be interrupted       *)
(* between any two of its steps and the peer's holdings may shrink under    *)
(* it; what a round has stored and indexed stays for the next one.          *)
(****************************************************************************)
EXTENDS Naturals, Sequences, SequencesExt, FiniteSets

CONSTANTS SBlobs,       \* data blobs
          Worlds,       \* the peers to consider: [plans, lies, holds]
          WantLists,    \* the want lists to consider; {} is mirror mode
          MaxRounds,    \* bound: rounds of sync
          MaxLosses     \* bound: blobs the peer loses

VARIABLES
    world,          \* the peer's plans, and which of them lie
    peerHolds,      \* blobs the peer can serve
    wants,
    plans, failed,  \* peer recipes indexed here; those a replay refuted
    holds,          \* blobs resident here
    phase,
    diff, rootDiff, \* what recon named: recipes to fetch, remote-only roots
    missing,        \* the fetch list, in walk order
    unavailable,    \* leaves the peer did not have, this round
    rounds, losses

syvars == <<world, peerHolds, wants, plans, failed, holds, phase, diff, rootDiff, missing, unavailable, rounds,
            losses>>

\* A recipe is [out, ins]: an assemble of the blobs ins into the blob out.
Recipes == UNION {w.plans : w \in Worlds}

SYTypeOK ==
    /\ world \in Worlds /\ peerHolds \subseteq SBlobs /\ wants \in WantLists
    /\ plans \subseteq Recipes /\ failed \subseteq plans /\ holds \subseteq SBlobs
    /\ phase \in {"idle", "recipes", "pieces", "rebuild", "done", "error"}
    /\ diff \subseteq Recipes /\ rootDiff \subseteq SBlobs /\ Range(missing) \subseteq SBlobs
    /\ unavailable \in 0 .. Cardinality(SBlobs) /\ rounds \in 0 .. MaxRounds /\ losses \in 0 .. MaxLosses

SYInit ==
    /\ world \in Worlds /\ peerHolds = world.holds /\ wants \in WantLists
    /\ plans = {} /\ failed = {} /\ holds = {} /\ phase = "idle"
    /\ diff = {} /\ rootDiff = {} /\ missing = <<>> /\ unavailable = 0 /\ rounds = 0 /\ losses = 0

(****************************************************************************)
(* What the index says.                                                     *)
(****************************************************************************)
Usable == plans \ failed
RoutesOf(b) == {r \in Usable : r.out = b}

\* ROOT_BLOBS_SQL: resident blobs that no usable route produces.
RootBlobs(held, usable) == {b \in held : \A r \in usable : r.out # b}

\* peer_plan_outputs: everything any mirror ever promised to ground.
PlanOutputs == {r.out : r \in Usable}

\* What the blobs held ground, through the usable routes (D21).
Grounded(held) ==
    LET step[n \in 0 .. Cardinality(SBlobs)] ==
            IF n = 0 THEN held
            ELSE LET prev == step[n - 1]
                 IN  prev \cup {b \in SBlobs : \E r \in RoutesOf(b) : Range(r.ins) \subseteq prev}
    IN  step[Cardinality(SBlobs)]

(****************************************************************************)
(* Walk, over [memo, missing]: memo is the set of blobs with an outcome,    *)
(* missing the ones among them that resolved to Fetch, in order.            *)
(****************************************************************************)
Known(b) == b \in holds \/ \E r \in plans : b = r.out \/ b \in Range(r.ins)

\* A route with an input on the current path is circular support.
UsableOnPath(r, path) == Range(r.ins) \cap path = {}

Walks == [memo : SUBSET SBlobs, missing : Seq(SBlobs)]

WalkBlob[b \in SBlobs, path \in SUBSET SBlobs, w \in Walks] ==
    LET routes == {r \in RoutesOf(b) : UsableOnPath(r, path \cup {b})}
        inputs == (CHOOSE r \in routes : TRUE).ins
        under  == FoldLeft(LAMBDA v, i : WalkBlob[i, path \cup {b}, v], w, inputs)
    IN  IF b \in w.memo THEN w
        ELSE IF b \in holds THEN [w EXCEPT !.memo = @ \cup {b}]
        ELSE IF Known(b) /\ routes # {} THEN [under EXCEPT !.memo = @ \cup {b}]
        ELSE [memo |-> w.memo \cup {b}, missing |-> Append(w.missing, b)]

WalkRoots(roots) ==
    FoldLeft(LAMBDA w, b : WalkBlob[b, {}, w], [memo |-> {}, missing |-> <<>>], SetToSeq(roots)).missing

(****************************************************************************)
(* A round.                                                                 *)
(****************************************************************************)
Mirror == wants = {}

\* Both reconciliations, over snapshots of the two sides: the recipes, and in
\* mirror mode the roots.
Reconcile ==
    /\ phase \in {"idle", "done", "error"} /\ rounds < MaxRounds
    /\ rounds' = rounds + 1 /\ phase' = "recipes"
    /\ diff' = world.plans \ plans
    /\ rootDiff' = IF Mirror THEN RootBlobs(peerHolds, world.plans) \ RootBlobs(holds, Usable) ELSE {}
    /\ missing' = <<>> /\ unavailable' = 0
    /\ UNCHANGED <<world, peerHolds, wants, plans, failed, holds, losses>>

FetchRecipe(r) ==
    /\ phase = "recipes" /\ r \in diff
    /\ diff' = diff \ {r} /\ plans' = plans \cup {r}
    /\ UNCHANGED <<world, peerHolds, wants, failed, holds, phase, rootDiff, missing, unavailable, rounds, losses>>

\* Mutant: a mirror round walks from what this round named and nothing else.
WalkFromThisRound == IF Mirror THEN rootDiff ELSE wants

WalkFrom == IF Mirror THEN PlanOutputs \cup rootDiff ELSE wants

WalkClosure ==
    /\ phase = "recipes" /\ diff = {}
    /\ phase' = "pieces" /\ missing' = WalkRoots(WalkFrom)
    /\ UNCHANGED <<world, peerHolds, wants, plans, failed, holds, diff, rootDiff, unavailable, rounds, losses>>

\* put_with_obao stores what hashes to its name, and nothing else.
FetchPiece ==
    /\ phase = "pieces" /\ missing # <<>>
    /\ LET b == Head(missing) IN
       \/ b \in peerHolds /\ holds' = holds \cup {b} /\ missing' = Tail(missing) /\ UNCHANGED <<phase, unavailable>>
       \/ b \notin peerHolds /\ Mirror /\ unavailable' = unavailable + 1 /\ missing' = Tail(missing)
          /\ UNCHANGED <<phase, holds>>
       \/ b \notin peerHolds /\ ~Mirror /\ phase' = "error" /\ UNCHANGED <<holds, missing, unavailable>>
    /\ UNCHANGED <<world, peerHolds, wants, plans, failed, diff, rootDiff, rounds, losses>>

PiecesDone ==
    /\ phase = "pieces" /\ missing = <<>>
    /\ phase' = IF Mirror THEN "done" ELSE "rebuild"
    /\ UNCHANGED <<world, peerHolds, wants, plans, failed, holds, diff, rootDiff, missing, unavailable, rounds, losses>>

\* materialize: the want's usable routes are replayed in turn.  A replay needs
\* its inputs grounded; it meets the claim when neither the route nor a plan it
\* rests on lies, and a mismatch is held against the route that was replayed.
Unmet == wants \ holds

RestsOn[b \in SBlobs, path \in SUBSET SBlobs] ==
    IF b \in holds \/ b \in path THEN {}
    ELSE RoutesOf(b) \cup UNION {RestsOn[i, path \cup {b}] : i \in UNION {Range(r.ins) : r \in RoutesOf(b)}}
Under(r) == {r} \cup UNION {RestsOn[i, {r.out}] : i \in Range(r.ins)}

Ready(r) == Range(r.ins) \subseteq Grounded(holds)

\* Mutant: an input that never came counts against the plan.
RefutesUnready(r) == ~Ready(r) \/ Under(r) \cap world.lies # {}

Refutes(r) == Ready(r) /\ Under(r) \cap world.lies # {}

Replay(r) ==
    /\ phase = "rebuild" /\ r.out \in Unmet /\ r \in Usable
    /\ \/ Ready(r) /\ r \notin world.lies /\ holds' = holds \cup {r.out} /\ UNCHANGED failed
       \/ Refutes(r) /\ failed' = failed \cup {r} /\ UNCHANGED holds
    /\ UNCHANGED <<world, peerHolds, wants, plans, phase, diff, rootDiff, missing, unavailable, rounds, losses>>

\* No route of a want is left to try.
Unbuildable ==
    /\ phase = "rebuild" /\ \E b \in Unmet : \A r \in RoutesOf(b) : ~Ready(r)
    /\ phase' = "error"
    /\ UNCHANGED <<world, peerHolds, wants, plans, failed, holds, diff, rootDiff, missing, unavailable, rounds, losses>>

Rebuilt ==
    /\ phase = "rebuild" /\ Unmet = {}
    /\ phase' = "done"
    /\ UNCHANGED <<world, peerHolds, wants, plans, failed, holds, diff, rootDiff, missing, unavailable, rounds, losses>>

\* The connection drops, or the process dies, anywhere in a round.
Interrupt ==
    /\ phase \in {"recipes", "pieces", "rebuild"}
    /\ phase' = "error"
    /\ UNCHANGED <<world, peerHolds, wants, plans, failed, holds, diff, rootDiff, missing, unavailable, rounds, losses>>

PeerLoses(b) ==
    /\ b \in peerHolds /\ losses < MaxLosses
    /\ losses' = losses + 1 /\ peerHolds' = peerHolds \ {b}
    /\ UNCHANGED <<world, wants, plans, failed, holds, phase, diff, rootDiff, missing, unavailable, rounds>>

\* The local collector drops what the rest still grounds.
Evict(b) ==
    /\ b \in holds /\ b \in Grounded(holds \ {b}) /\ phase \in {"pieces", "done"}
    /\ holds' = holds \ {b}
    /\ UNCHANGED <<world, peerHolds, wants, plans, failed, phase, diff, rootDiff, missing, unavailable, rounds, losses>>

SYNext ==
    \/ Reconcile \/ (\E r \in Recipes : FetchRecipe(r)) \/ WalkClosure \/ FetchPiece \/ PiecesDone
    \/ (\E r \in Recipes : Replay(r)) \/ Unbuildable \/ Rebuilt \/ Interrupt
    \/ \E b \in SBlobs : PeerLoses(b) \/ Evict(b)
SYSpec == SYInit /\ [][SYNext]_syvars

(****************************************************************************)
(* Properties.                                                              *)
(****************************************************************************)
\* A mirror round that found every leaf grounds every plan a mirror ever
\* indexed and every root the peer named, whatever rounds were cut short
\* before it: no circular pair of plans passes for support, and a plan indexed
\* by a round that died is not orphaned behind an empty difference.
MirrorGrounds ==
    phase = "done" /\ Mirror /\ unavailable = 0 => (PlanOutputs \cup rootDiff) \subseteq Grounded(holds)

\* A plan of the peer is refuted only where some plan lied: interrupted rounds,
\* leaves that never came, blobs lost or evicted in between leave it pending.
RefutedOnlyByLies == failed # {} => world.lies # {}
=============================================================================
