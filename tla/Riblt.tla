------------------------------- MODULE Riblt -------------------------------
(****************************************************************************)
(* Set reconciliation by rateless coded symbols: the responder streams the  *)
(* cells of its set, the initiator takes its own set out of every cell and  *)
(* peels the difference.  The XOR of distinct symbols is their set, added   *)
(* symbol by symbol as a symmetric difference; a cell's hash vouches for    *)
(* its symbol exactly when one symbol is left in it (siphash collisions are *)
(* left out).  RandomMapping is any set of cells that holds cell 0.         *)
(****************************************************************************)
EXTENDS Integers, Sequences, SequencesExt, FiniteSets

CONSTANTS Symbols,   \* the hashes that either side may hold
          LastCell   \* bound: the last cell the responder streams

VARIABLES
    ours, theirs,    \* the two sets
    cellsOf,         \* per symbol: the cells RandomMapping puts it in
    cs,              \* the initiator's cells, peeled so far
    remote, local,   \* symbols peeled: theirs only, ours only
    decodable,       \* queue of cells to look at
    decoded,         \* cells settled
    reconciled       \* "reading" until reconcile returns

peel == <<cs, remote, local, decodable, decoded>>
rbvars == <<ours, theirs, cellsOf, peel, reconciled>>

Empty == [sum |-> {}, count |-> 0]

RBTypeOK ==
    /\ ours \subseteq Symbols /\ theirs \subseteq Symbols
    /\ cellsOf \in [Symbols -> SUBSET (0 .. LastCell)]
    /\ \A i \in DOMAIN cs : cs[i].sum \subseteq Symbols /\ cs[i].count \in Int
    /\ Range(remote) \subseteq Symbols /\ Range(local) \subseteq Symbols
    /\ Range(decodable) \subseteq 0 .. LastCell /\ decoded \in 0 .. LastCell + 1
    /\ reconciled \in {"reading", "decoded", "ended"}

RBInit ==
    /\ ours \in SUBSET Symbols /\ theirs \in SUBSET Symbols
    /\ cellsOf \in [Symbols -> {{0} \cup c : c \in SUBSET (1 .. LastCell)}]
    /\ cs = <<>> /\ remote = <<>> /\ local = <<>> /\ decodable = <<>> /\ decoded = 0
    /\ reconciled = "reading"

\* CodedSymbol::apply
Apply(cell, s, direction) ==
    [sum |-> (cell.sum \cup {s}) \ (cell.sum \cap {s}), count |-> cell.count + direction]

\* CodingWindow::apply_window of a set of symbols at cell j.
ApplyWindow(cell, set, j, direction) ==
    LET here == {s \in set : j \in cellsOf[s]}
    IN  [sum |-> (cell.sum \ here) \cup (here \ cell.sum), count |-> cell.count + direction * Cardinality(here)]

\* encode_block: cell j of the responder's set.
Encoded(j) == ApplyWindow(Empty, theirs, j, 1)

Pure(cell) == cell.count \in {-1, 1} /\ Cardinality(cell.sum) = 1
Settled(cell) == cell.count = 0 /\ cell.sum = {}

\* add_coded_symbol takes out our set and what was peeled already.
Received(j) ==
    ApplyWindow(ApplyWindow(ApplyWindow(Encoded(j), ours, j, -1), Range(remote), j, -1), Range(local), j, 1)

\* One turn of reconcile's loop reads a symbol; the stream ends after LastCell.
AddCodedSymbol ==
    /\ reconciled = "reading" /\ decodable = <<>>
    /\ cs # <<>> => decoded # Len(cs)
    /\ IF Len(cs) > LastCell
       THEN reconciled' = "ended" /\ UNCHANGED <<cs, decodable>>
       ELSE LET c == Received(Len(cs)) IN
            /\ cs' = Append(cs, c)
            /\ decodable' = IF Pure(c) \/ Settled(c) THEN <<Len(cs)>> ELSE <<>>
            /\ UNCHANGED reconciled
    /\ UNCHANGED <<ours, theirs, cellsOf, remote, local, decoded>>

\* apply_new_symbol: take a peeled symbol out of every cell read so far, and
\* queue the cells that are left with one symbol, in order.
Peeled(s, direction) ==
    [i \in DOMAIN cs |-> IF i - 1 \in cellsOf[s] THEN Apply(cs[i], s, direction) ELSE cs[i]]
Uncovered(s, direction) ==
    LET after == Peeled(s, direction)
    IN  SelectSeq([i \in DOMAIN cs |-> i - 1], LAMBDA j : j \in cellsOf[s] /\ Pure(after[j + 1]))

\* Mutant: a cell that another peel emptied meanwhile is not counted.
PeelZeroSkipped(cell) == cell.count = 0 /\ UNCHANGED <<cs, remote, local, decoded>>
                         /\ decodable' = Tail(decodable)

\* A queued cell that another peel has emptied meanwhile is settled as it is.
PeelZero(cell) == cell.count = 0 /\ decoded' = decoded + 1 /\ decodable' = Tail(decodable)
                  /\ UNCHANGED <<cs, remote, local>>

\* Mutant: the sign of a cell's count is read the wrong way round.
PeelOneReversed(cell) ==
    /\ cell.count \in {-1, 1}
    /\ LET s == CHOOSE x \in cell.sum : TRUE IN
       /\ cs' = Peeled(s, -cell.count)
       /\ decodable' = Tail(decodable) \o Uncovered(s, -cell.count)
       /\ IF cell.count = -1 THEN remote' = Append(remote, s) /\ UNCHANGED local
          ELSE local' = Append(local, s) /\ UNCHANGED remote
    /\ decoded' = decoded + 1

PeelOne(cell) ==
    /\ cell.count \in {-1, 1}
    /\ LET s == CHOOSE x \in cell.sum : TRUE IN
       /\ cs' = Peeled(s, -cell.count)
       /\ decodable' = Tail(decodable) \o Uncovered(s, -cell.count)
       /\ IF cell.count = 1 THEN remote' = Append(remote, s) /\ UNCHANGED local
          ELSE local' = Append(local, s) /\ UNCHANGED remote
    /\ decoded' = decoded + 1

\* try_decode, one queued cell at a time.
TryDecode ==
    /\ reconciled = "reading" /\ decodable # <<>>
    /\ LET cell == cs[Head(decodable) + 1] IN PeelOne(cell) \/ PeelZero(cell)
    /\ UNCHANGED <<ours, theirs, cellsOf, reconciled>>

\* reconcile leaves its loop once every cell read is settled.
Decode ==
    /\ reconciled = "reading" /\ decodable = <<>> /\ cs # <<>> /\ decoded = Len(cs)
    /\ reconciled' = "decoded"
    /\ UNCHANGED <<ours, theirs, cellsOf, peel>>

RBNext == AddCodedSymbol \/ TryDecode \/ Decode
RBSpec == RBInit /\ [][RBNext]_rbvars

(****************************************************************************)
(* Properties.                                                              *)
(****************************************************************************)
\* Reconciliation is exact: when reconcile returns, remote_only and local_only
\* are the two differences, each symbol once, whatever cells the symbols fall
\* into and however many cells it took.
DifferenceExact ==
    reconciled = "decoded" =>
        /\ Range(remote) = theirs \ ours /\ Range(local) = ours \ theirs
        /\ Len(remote) = Cardinality(theirs \ ours) /\ Len(local) = Cardinality(ours \ theirs)

\* The cells an honest peer encoded always peel (a queued cell never holds
\* more than one symbol, the case that marks a stream malformed), and the count
\* of settled cells is right: the initiator stops reading exactly when
\* nothing is left in any cell, neither early nor never.
SettledCounted ==
    /\ \A i \in DOMAIN decodable : cs[decodable[i] + 1].count \in {-1, 0, 1}
    /\ reconciled = "reading" /\ decodable = <<>> /\ cs # <<>> =>
        /\ \A i \in DOMAIN cs : cs[i].sum # {} => decoded < Len(cs)
        /\ (\A i \in DOMAIN cs : cs[i].sum = {}) => decoded = Len(cs)
=============================================================================
