------------------------------ MODULE MCRefine ------------------------------
(***************************************************************************)
(* Instances of Refine.                                                    *)
(***************************************************************************)
EXTENDS Refine

\* A structural family that needs a key for the disc, and the chunker.
TwoFamilies == <<"wii", "chunk">>
OneDisc == [wii |-> {"disc"}, chunk |-> {"disc"}]
KeyForWii == [wii |-> [disc |-> "key", key |-> None],
              chunk |-> [disc |-> None, key |-> None]]

\* Documents that need nothing else.
TwoDiscs == [wii |-> {"disc", "rom"}, chunk |-> {"disc", "rom"}]
NoNeeds == [f \in {"wii", "chunk"} |-> [b \in Blob |-> None]]

=============================================================================
