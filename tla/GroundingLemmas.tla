--------------------------- MODULE GroundingLemmas ---------------------------
(***************************************************************************)
(* Facts about the grounding fixpoint, for any recipe graph.               *)
(***************************************************************************)
EXTENDS Grounding, TLAPS

\* The literals themselves are grounded.
LEMMA GroundedHoldsLiterals ==
    ASSUME NEW lits \in SUBSET Blob, NEW R, NEW yields
    PROVE  lits \subseteq Grounded(lits, R, yields)
  BY DEF Grounded

\* Grounded is the least set with the property: it lies inside every closed
\* set that holds the literals.
LEMMA GroundedIsLeast ==
    ASSUME NEW lits, NEW R, NEW yields, NEW S \in SUBSET Blob,
           lits \subseteq S, Closed(S, R, yields)
    PROVE  Grounded(lits, R, yields) \subseteq S
  BY DEF Grounded

\* A recipe whose inputs are grounded has its yield grounded.
LEMMA GroundedIsClosed ==
    ASSUME NEW lits, NEW R, NEW yields,
           \A r \in R : yields[r] \subseteq Blob
    PROVE  Closed(Grounded(lits, R, yields), R, yields)
  <1> SUFFICES ASSUME NEW r \in R, In[r] \subseteq Grounded(lits, R, yields),
                      NEW b \in yields[r], NEW S \in SUBSET Blob,
                      lits \subseteq S, Closed(S, R, yields)
               PROVE  b \in S
    BY DEF Closed, Grounded
  <1>1. In[r] \subseteq S
    BY GroundedIsLeast
  <1> QED
    BY <1>1 DEF Closed

\* More literals, more recipes or larger yields ground at least as much.
LEMMA GroundedIsMonotone ==
    ASSUME NEW lits, NEW more, lits \subseteq more,
           NEW R, NEW Q, R \subseteq Q,
           NEW yields, NEW wider,
           \A r \in R : yields[r] \subseteq wider[r]
    PROVE  Grounded(lits, R, yields) \subseteq Grounded(more, Q, wider)
  <1> SUFFICES ASSUME NEW b \in Grounded(lits, R, yields),
                      NEW S \in SUBSET Blob, more \subseteq S, Closed(S, Q, wider)
               PROVE  b \in S
    BY DEF Grounded
  <1>1. lits \subseteq S /\ Closed(S, R, yields)
    BY DEF Closed
  <1> QED
    BY <1>1 DEF Grounded

\* Drop safety in one line: if b is grounded without its own literal, then
\* dropping that literal loses nothing that was grounded before.
LEMMA DropKeepsGrounded ==
    ASSUME NEW lits \in SUBSET Blob, NEW R, NEW yields, NEW b,
           b \in Grounded(lits \ {b}, R, yields)
    PROVE  Grounded(lits, R, yields) \subseteq Grounded(lits \ {b}, R, yields)
  <1> SUFFICES ASSUME NEW c \in Grounded(lits, R, yields),
                      NEW S \in SUBSET Blob,
                      lits \ {b} \subseteq S, Closed(S, R, yields)
               PROVE  c \in S
    BY DEF Grounded
  <1>1. b \in S
    BY DEF Grounded
  <1>2. lits \subseteq S
    BY <1>1
  <1> QED
    BY <1>2 DEF Grounded

=============================================================================
