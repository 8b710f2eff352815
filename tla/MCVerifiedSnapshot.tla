------------------------- MODULE MCVerifiedSnapshot -------------------------
(***************************************************************************)
(* Small instances of VerifiedSnapshot: one grid, two natural keys, a page *)
(* for each and one for both.                                              *)
(***************************************************************************)
EXTENDS VerifiedSnapshot

CONSTANTS a, k, l, pk, pl

PageSizes == [p \in Pages |-> 1]
PageKeys == [p \in Pages |-> IF p = pk THEN {k} ELSE {l}]
PlanA == {<<a>>}
NoPlans == {}
LegacyA == <<a>>
=============================================================================
