------------------------------ MODULE Grounding ------------------------------
(***************************************************************************)
(* The grounding fixpoint of the recipe index (decision D21): which blobs  *)
(* can be rebuilt from a set of literals through a set of recipes.         *)
(*                                                                         *)
(* A recipe r consumes the blobs In[r] and claims to produce Out[r].  The  *)
(* index computes the fixpoint by rounds of SQL inserts (GroundedLoop is   *)
(* the model of that loop); this module gives its declarative meaning, the *)
(* least set that holds the literals and is closed under the recipes.      *)
(***************************************************************************)
CONSTANTS
    Blob,       \* content hashes
    Recipe,     \* recipe objects
    In,         \* In[r]: the blobs a recipe reads
    Out         \* Out[r]: the blobs a recipe claims to produce

ASSUME GroundingAssumption ==
    /\ In \in [Recipe -> SUBSET Blob]
    /\ Out \in [Recipe -> SUBSET Blob]

\* S holds everything the recipes of R yield from inputs that lie in S.
Closed(S, R, yields) ==
    \A r \in R : In[r] \subseteq S => yields[r] \subseteq S

\* The blobs reconstructible from the literals lits through the recipes of
\* R, when recipe r yields yields[r].
Grounded(lits, R, yields) ==
    {b \in Blob :
        \A S \in SUBSET Blob :
            (lits \subseteq S /\ Closed(S, R, yields)) => b \in S}

=============================================================================
