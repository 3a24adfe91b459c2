------------------------------- MODULE MCStore -------------------------------
EXTENDS Store, TLC

\* An empty store, a pack of both blobs, and both blobs loose with a's tree.
MCTrees == {{}, {Pack(Blobs)}, {Loose(h) : h \in Blobs} \cup {Side(h) : h \in Big}}

Symm == Permutations(Threads)
=============================================================================
