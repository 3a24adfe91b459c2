------------------------------ MODULE BlobStore ------------------------------
(****************************************************************************)
(* What the blob store promises its callers, with no files in sight:        *)
(* a blob the store answers for stays answered for until somebody asks for  *)
(* its removal, and a crash takes only what was not yet settled.            *)
(*                                                                          *)
(*   held    blobs a lookup finds                                           *)
(*   kept    blobs a lookup finds now and after any crash                   *)
(*   might   blobs a lookup could find after some crash                     *)
(*   doomed  blobs a running operation was asked to remove                  *)
(****************************************************************************)
CONSTANT Blobs

VARIABLES held, kept, might, doomed

vars == <<held, kept, might, doomed>>

Ordered(k, h, m) == k \subseteq h /\ h \subseteq m

\* A store is opened on whatever an earlier run left behind.
Init ==
    /\ held \in SUBSET Blobs /\ kept = held /\ might = held
    /\ doomed = {}

\* Any work of any caller: blobs appear and become durable freely, but only a
\* blob whose removal was asked for stops being found or being durable.
Work ==
    /\ held' \in SUBSET Blobs /\ kept' \in SUBSET Blobs /\ might' \in SUBSET Blobs
    /\ doomed' \in SUBSET Blobs
    /\ Ordered(kept', held', might')
    /\ held \ held' \subseteq doomed
    /\ kept \ kept' \subseteq doomed

\* A crash and the reopening: nothing kept is lost, nothing else is invented,
\* and what is found afterwards is durable.
Crash ==
    /\ held' \in SUBSET Blobs
    /\ Ordered(kept, held', might)
    /\ kept' = held' /\ might' = held'
    /\ doomed' = {}

Next == Work \/ Crash

Spec == Init /\ [][Next]_vars
=============================================================================
