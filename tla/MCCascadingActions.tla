------------------------- MODULE MCCascadingActions -------------------------
(***************************************************************************)
(* Instances of CascadingActions for TLC.                                  *)
(***************************************************************************)
EXTENDS CascadingActions

\* Two reference fields, of which both, the first or the second are composite
TwoFields == <<"part", "link">>
AllRoles == {{"part", "link"}, {"part"}, {"link"}}
OneComposite == {{"part"}}

\* Either somebody else edits a record or a request fails.
OneDisturbance == edits + faults <= 1
=============================================================================
