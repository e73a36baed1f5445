------------------------------ MODULE MCImport ------------------------------
(***************************************************************************)
(* Instances of Import for TLC: a new record and two existing ones; the    *)
(* imported value of one of these is compared by reference.                *)
(***************************************************************************)
EXTENDS Import

CONSTANTS c1, e1, e2, l1, l2, t1

ThreeRecords == <<c1, e1, e2>>
SameTarget == [l \in Links |-> t1]
SomeSizes == {<<1, 1, 1>>, <<3, 1, 1>>, <<1, 4, 1>>}
=============================================================================
