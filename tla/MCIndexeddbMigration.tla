------------------------ MODULE MCIndexeddbMigration ------------------------
(***************************************************************************)
(* Instances of IndexeddbMigration for TLC.                                *)
(***************************************************************************)
EXTENDS IndexeddbMigration, TLC

CONSTANTS t1, t2

TabSymmetry == Permutations(Tabs)

\* Bound: the last page is loaded next to another one only for a named account whose
\* browser lists its databases.
FewPages == loads < MaxLoads \/ Alone \/ (deployment.username /\ deployment.listable)
=============================================================================
