------------------------ MODULE MCRemoteChangesFeed ------------------------
(***************************************************************************)
(* Instances of RemoteChangesFeed for TLC.                                 *)
(***************************************************************************)
EXTENDS RemoteChangesFeed, TLC

CONSTANTS w1, w2, d1, d2

Symmetry == Permutations(Writes) \cup Permutations(Docs)

\* The third change is made to the contended document, while nothing happens to the
\* other one.  (No fair action leads out of these states.)
TwoChangesOrOneDoc ==
    \/ seq <= 2
    \/ /\ changed[d2] = 0
       /\ \A w \in Writes : write[w] # Idle => write[w].doc = d1
=============================================================================
