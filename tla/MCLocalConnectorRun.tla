------------------------- MODULE MCLocalConnectorRun ------------------------
(***************************************************************************)
(* Small instances of LocalConnectorRun.  The grids a, b are ordinary ones, *)
(* old is a deprecated one, detail needs parent before it.  The pages are   *)
(* an empty one, and two of one record each that differ in content.        *)
(***************************************************************************)
EXTENDS LocalConnectorRun

CONSTANTS a, b, old, empty, x, y

PageSizes == [p \in Pages |-> IF p = empty THEN 0 ELSE 1]

PlanA == {<<a>>}
PlanAB == {<<a, b>>}
PlanDetailOrNone == {<<Detail>>, <<>>}
OldPlansMC == {<<old, Detail>>}
EmptyPlan == {<<>>}
NoPlans == {}
LegacyA == <<a>>
LegacyAB == <<a, b>>
LegacyParent == <<Parent>>
=============================================================================
