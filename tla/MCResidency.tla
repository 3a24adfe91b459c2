----------------------------- MODULE MCResidency -----------------------------
(***************************************************************************)
(* Instances of Residency.  A record whose fields are recipes or blobs is  *)
(* the function the constant stands for.                                   *)
(***************************************************************************)
EXTENDS Residency, TLC

CONSTANTS p1, p2

\* The archive: a transport container, the one member it holds, and a
\* recompressed form of the member; the member and that form rebuild each
\* other, the mutually inverse pair of D72.
ArchiveIn == [unzip |-> {"zip"}, encode |-> {"rom"}, decode |-> {"enc"}]
ArchiveOut == [unzip |-> {"rom"}, encode |-> {"enc"}, decode |-> {"rom"}]
ArchiveHolds == [zip |-> {"rom"}]

\* The pair alone, faithful or with a recipe that never yields its claim.
PairIn == [encode |-> {"rom"}, decode |-> {"enc"}]
PairOut == [encode |-> {"enc"}, decode |-> {"rom"}]
EncodeLies == [encode |-> {}, decode |-> {"rom"}]
NoHolds == [c \in {} |-> {}]

\* The encoded form as a container of the other.
PairHolds == [enc |-> {"rom"}]

ProcSymmetry == Permutations(Proc)

=============================================================================
