----------------------------- MODULE GroundedLoop -----------------------------
(***************************************************************************)
(* The loop of datboi_index::recipes::grounded: the fixpoint as rounds of  *)
(* INSERT ... SELECT into a temporary table.                               *)
(*                                                                         *)
(* Each statement is a transaction of its own, so between two rounds any   *)
(* other connection may license a recipe or poison one: the loop has no    *)
(* snapshot of the recipe table.  always and ever record, for the          *)
(* properties only, the recipes that satisfied the mode's condition at     *)
(* every moment since the seed and at some moment since the seed.          *)
(***************************************************************************)
EXTENDS Grounding

VARIABLES
    usable,     \* recipes that satisfy GroundingMode::recipe_condition now
    literals,   \* blobs whose row says Resident
    seeds,      \* the rows the seeding INSERT copied
    table,      \* temp.grounded
    stage,      \* "idle" | "loop" | "done"
    always,     \* history: usable throughout the call
    ever        \* history: usable at some moment of the call

vars == <<usable, literals, seeds, table, stage, always, ever>>

Init ==
    /\ usable \in SUBSET Recipe
    /\ literals \in SUBSET Blob
    /\ seeds = {}
    /\ table = {}
    /\ stage = "idle"
    /\ always = {}
    /\ ever = {}

-----------------------------------------------------------------------------
\* The seeding INSERT: every resident row except without_literal; a call
\* without that argument passes a set that excludes nothing.
Seed(without) ==
    /\ stage = "idle"
    /\ seeds' = literals \ without
    /\ table' = literals \ without
    /\ always' = usable
    /\ ever' = usable
    /\ stage' = "loop"
    /\ UNCHANGED <<usable, literals>>

YieldedAnyInput ==
    UNION {Out[r] : r \in {q \in usable : In[q] = {} \/ In[q] \cap table # {}}}

\* What one round's SELECT returns: the outputs of every usable recipe with
\* no input outside the table.
Yielded == UNION {Out[r] : r \in {q \in usable : In[q] \subseteq table}}

RoundOnce ==
    /\ stage = "loop"
    /\ table' = table \cup Yielded
    /\ stage' = "done"
    /\ UNCHANGED <<usable, literals, seeds, always, ever>>

RoundForever ==
    /\ stage = "loop"
    /\ table' = table \cup Yielded
    /\ UNCHANGED <<usable, literals, seeds, always, ever, stage>>

\* One round; INSERT OR IGNORE counts the rows it added, and no row added
\* ends the loop.
Round ==
    /\ stage = "loop"
    /\ table' = table \cup Yielded
    /\ stage' = IF Yielded \subseteq table THEN "done" ELSE "loop"
    /\ UNCHANGED <<usable, literals, seeds, always, ever>>

FinishKeepsTable ==
    /\ stage = "done"
    /\ stage' = "idle"
    /\ seeds' = {}
    /\ UNCHANGED <<usable, literals, table, always, ever>>

\* The result set is read out and the table dropped.
Finish ==
    /\ stage = "done"
    /\ stage' = "idle"
    /\ table' = {}
    /\ seeds' = {}
    /\ UNCHANGED <<usable, literals, always, ever>>

\* Another connection moves one recipe into or out of the usable states.
Reverify(r) ==
    /\ usable' = IF r \in usable THEN usable \ {r} ELSE usable \cup {r}
    /\ always' = always \cap usable'
    /\ ever' = ever \cup usable'
    /\ UNCHANGED <<literals, seeds, table, stage>>

\* Another connection flips one row's residency.
Reside(b) ==
    /\ literals' = IF b \in literals THEN literals \ {b} ELSE literals \cup {b}
    /\ UNCHANGED <<usable, seeds, table, stage, always, ever>>

Next ==
    \/ Seed({})
    \/ \E b \in Blob : Seed({b})
    \/ Round
    \/ Finish
    \/ \E r \in Recipe : Reverify(r)
    \/ \E b \in Blob : Reside(b)

Spec == Init /\ [][Next]_vars

FairSpec == Spec /\ WF_vars(Round)

-----------------------------------------------------------------------------
TypeOK ==
    /\ usable \in SUBSET Recipe
    /\ literals \in SUBSET Blob
    /\ seeds \in SUBSET Blob
    /\ table \in SUBSET Blob
    /\ stage \in {"idle", "loop", "done"}
    /\ always \in SUBSET usable
    /\ (stage # "idle" => usable \subseteq ever)
    /\ ever \in SUBSET Recipe
    /\ (stage = "idle" => table = {} /\ seeds = {})

\* grounded() never reports a blob that could not be rebuilt from its seed
\* through recipes that were usable while it ran.
Sound == stage # "idle" => table \subseteq Grounded(seeds, ever, Out)

\* When the loop ends it has found every blob that the recipes usable all
\* along rebuild from the seed, whatever was licensed or poisoned between
\* two rounds.
Complete == stage = "done" => Grounded(seeds, always, Out) \subseteq table

\* The loop of rounds ends: every round but the last adds a row.
Terminates == stage = "loop" ~> stage = "done"

=============================================================================
