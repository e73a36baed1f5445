----------------------- MODULE MCSyncedPouchDatabase -----------------------
(***************************************************************************)
(* Instances of SyncedPouchDatabase for TLC.                               *)
(***************************************************************************)
EXTENDS SyncedPouchDatabase, TLC, FiniteSets

CONSTANTS d1, d2, c1, c2

\* A deployment nobody has written to yet
Empty == [seq |-> [d \in Docs |-> 0], last |-> 0]

\* Two documents are there already
TwoDocs == [seq |-> d1 :> 1 @@ d2 :> 2, last |-> 2]

EmptyOrTwoDocs == {Empty, TwoDocs}
OneDoc == {[seq |-> d1 :> 1, last |-> 1]}

Symmetry == Permutations(Calls)

Busy == {c \in Calls : call[c] # IdleCall}

\* Two calls overlap on a single document, in a single session, or one call at a time
\* works on two documents; and not everything happens in one behaviour.
OverlapOrTwoDocs ==
    \/ /\ Cardinality(Busy) <= 1 /\ server[d1].seq > 0 /\ server[d2].seq > 0
       /\ edits + faults + sessions <= 3
    \/ /\ server[d2].seq = 0 /\ ~local[d2].held /\ sessions <= 1
       /\ edits + faults <= 2
=============================================================================
