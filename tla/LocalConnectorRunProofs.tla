----------------------- MODULE LocalConnectorRunProofs ----------------------
(***************************************************************************)
(* Proofs about LocalConnectorRun: every variable keeps its type, and the  *)
(* promise behind the word COMPLETED holds for any devices, grids, pages,  *)
(* plans and windows.                                                      *)
(***************************************************************************)
EXTENDS LocalConnectorRun, FiniteSetTheorems, SequenceTheorems, TLAPS

-----------------------------------------------------------------------------
(* Plans *)

LEMMA SegmentsOfPlan ==
    ASSUME NEW plan \in Seq(Grids), NEW i \in 1..Len(plan)
    PROVE  /\ SubSeq(plan, 1, i - 1) \in Seq(ToSet(plan))
           /\ SubSeq(plan, i, Len(plan)) \in Seq(ToSet(plan))
           /\ SubSeq(plan, i + 1, Len(plan)) \in Seq(ToSet(plan))
<1>1. \A j \in 1..Len(plan) : plan[j] \in ToSet(plan)
  BY DEF ToSet
<1>2. /\ \A j \in 1..(i - 1) : plan[j] \in ToSet(plan)
      /\ \A j \in i..Len(plan) : plan[j] \in ToSet(plan)
      /\ \A j \in (i + 1)..Len(plan) : plan[j] \in ToSet(plan)
  BY <1>1
<1>3. i - 1 \in Int /\ i \in Int /\ i + 1 \in Int /\ Len(plan) \in Int /\ 1 \in Int
  OBVIOUS
<1> QED  BY <1>2, <1>3, SubSeqProperties

LEMMA RetainedType ==
    ASSUME NEW plan \in Seq(Grids)
    PROVE  /\ Retained(plan) \in Seq(Grids)
           /\ ToSet(Retained(plan)) \subseteq ToSet(plan)
<1> ToSet(plan) \subseteq Grids
  BY DEF ToSet
<1>1. CASE Deprecated \notin ToSet(plan)
  BY <1>1 DEF Retained
<1>2. CASE Deprecated \in ToSet(plan)
  <2> DEFINE i == IndexOf(plan, Deprecated)
  <2>1. i \in 1..Len(plan)
    BY <1>2 DEF IndexOf, ToSet
  <2> HIDE DEF i
  <2>2. RemoveAt(plan, i) \in Seq(ToSet(plan))
    BY <2>1, SegmentsOfPlan, ConcatProperties DEF RemoveAt
  <2>3. \A s \in Seq(ToSet(plan)) : s \in Seq(Grids) /\ ToSet(s) \subseteq ToSet(plan)
    BY DEF ToSet
  <2> QED  BY <1>2, <2>2, <2>3 DEF Retained, i
<1> QED  BY <1>1, <1>2

LEMMA WithPrerequisiteType ==
    ASSUME NEW plan \in Seq(Grids)
    PROVE  WithPrerequisite(plan) \in Seq(Grids)
<1>1. CASE ~(Detail \in ToSet(plan) /\ Parent \notin ToSet(plan))
  BY <1>1 DEF WithPrerequisite
<1>2. CASE Detail \in ToSet(plan) /\ Parent \notin ToSet(plan)
  <2> DEFINE i == IndexOf(plan, Detail)
  <2>1. i \in 1..Len(plan)
    BY <1>2 DEF IndexOf, ToSet
  <2>2. Parent \in Grids /\ ToSet(plan) \subseteq Grids
    BY <1>2, DataAssumption DEF ToSet
  <2> HIDE DEF i
  <2>3. <<Parent>> \in Seq(Grids)
    BY <2>2
  <2>4. /\ SubSeq(plan, 1, i - 1) \in Seq(Grids)
        /\ SubSeq(plan, i, Len(plan)) \in Seq(Grids)
    BY <2>1, <2>2, SegmentsOfPlan
  <2>5. InsertAt(plan, i, Parent) \in Seq(Grids)
    BY <2>3, <2>4, ConcatProperties DEF InsertAt
  <2> QED  BY <1>2, <2>5 DEF WithPrerequisite, i
<1> QED  BY <1>1, <1>2

\* What is left of a plan is all of it but the deprecated source.
LEMMA RetainedKeeps ==
    ASSUME NEW plan \in Seq(Grids), NEW g \in ToSet(plan) \ {Deprecated}
    PROVE  g \in ToSet(Retained(plan))
<1>1. CASE Deprecated \notin ToSet(plan)
  BY <1>1 DEF Retained
<1>2. CASE Deprecated \in ToSet(plan)
  <2> DEFINE i == IndexOf(plan, Deprecated)
             before == SubSeq(plan, 1, i - 1)
             after == SubSeq(plan, i + 1, Len(plan))
  <2>1. i \in 1..Len(plan) /\ plan[i] = Deprecated
    BY <1>2 DEF IndexOf, ToSet
  <2>2. PICK j \in 1..Len(plan) : plan[j] = g
    BY DEF ToSet
  <2> HIDE DEF i
  <2>3. j < i \/ j > i
    BY <2>1, <2>2
  <2>4. /\ before \in Seq(Grids) /\ Len(before) = i - 1
        /\ \A n \in 1..(i - 1) : before[n] = plan[n]
    BY <2>1
  <2>5. /\ after \in Seq(Grids) /\ Len(after) = Len(plan) - i
        /\ \A n \in 1..(Len(plan) - i) : after[n] = plan[i + n]
    BY <2>1
  <2> HIDE DEF before, after
  <2>6. \E n \in 1..Len(before \o after) : (before \o after)[n] = g
    <3>1. CASE j < i
      <4>1. (before \o after)[j] = g /\ j \in 1..Len(before \o after)
        BY <2>1, <2>2, <2>4, <2>5, <3>1, ConcatProperties
      <4> QED  BY <4>1
    <3>2. CASE j > i
      <4>1. j - i \in 1..Len(after) /\ after[j - i] = g
        BY <2>1, <2>2, <2>5, <3>2
      <4>2. /\ (j - 1) \in 1..Len(before \o after)
            /\ (before \o after)[j - 1] = after[j - i]
        BY <2>1, <2>2, <2>4, <2>5, <3>2, ConcatProperties
      <4> QED  BY <4>1, <4>2
    <3> QED  BY <2>3, <3>1, <3>2
  <2>7. before \o after = Retained(plan)
    BY <1>2 DEF Retained, RemoveAt, before, after, i
  <2>8. DOMAIN (before \o after) = 1..Len(before \o after)
    BY <2>4, <2>5, ConcatProperties
  <2> QED  BY <2>6, <2>7, <2>8 DEF ToSet
<1> QED  BY <1>1, <1>2

\* The parent is added to what was planned.
LEMMA WithPrerequisiteKeeps ==
    ASSUME NEW plan \in Seq(Grids), NEW g \in ToSet(plan)
    PROVE  g \in ToSet(WithPrerequisite(plan))
<1>1. CASE ~(Detail \in ToSet(plan) /\ Parent \notin ToSet(plan))
  BY <1>1 DEF WithPrerequisite
<1>2. CASE Detail \in ToSet(plan) /\ Parent \notin ToSet(plan)
  <2> DEFINE i == IndexOf(plan, Detail)
             before == SubSeq(plan, 1, i - 1)
             after == SubSeq(plan, i, Len(plan))
             parent == <<Parent>>
  <2>1. i \in 1..Len(plan)
    BY <1>2 DEF IndexOf, ToSet
  <2>2. PICK j \in 1..Len(plan) : plan[j] = g
    BY DEF ToSet
  <2>3. parent \in Seq(Grids) /\ Len(parent) = 1
    BY <1>2, DataAssumption DEF ToSet
  <2> HIDE DEF i, parent
  <2>4. /\ before \in Seq(Grids) /\ Len(before) = i - 1
        /\ \A n \in 1..(i - 1) : before[n] = plan[n]
    BY <2>1
  <2>5. /\ after \in Seq(Grids) /\ Len(after) = Len(plan) - i + 1
        /\ \A n \in 1..(Len(plan) - i + 1) : after[n] = plan[i + n - 1]
    BY <2>1
  <2> HIDE DEF before, after
  <2> DEFINE head == before \o parent
  <2>6. /\ head \in Seq(Grids) /\ Len(head) = i
        /\ \A n \in 1..(i - 1) : head[n] = plan[n]
    <3>1. /\ head \in Seq(Grids) /\ Len(head) = Len(before) + Len(parent)
          /\ \A n \in 1..(Len(before) + Len(parent)) :
                 head[n] = IF n <= Len(before) THEN before[n] ELSE parent[n - Len(before)]
      BY <2>3, <2>4, ConcatProperties, Zenon
    <3> QED  BY <2>1, <2>3, <2>4, <3>1
  <2> HIDE DEF head
  <2>7. \E n \in 1..Len(head \o after) : (head \o after)[n] = g
    <3>1. CASE j < i
      <4>1. (head \o after)[j] = g /\ j \in 1..Len(head \o after)
        BY <2>1, <2>2, <2>5, <2>6, <3>1, ConcatProperties
      <4> QED  BY <4>1
    <3>2. CASE j >= i
      <4>1. j - i + 1 \in 1..Len(after) /\ after[j - i + 1] = g
        BY <2>1, <2>2, <2>5, <3>2
      <4>2. /\ (j + 1) \in 1..Len(head \o after)
            /\ (head \o after)[j + 1] = after[j - i + 1]
        BY <2>1, <2>2, <2>5, <2>6, <3>2, ConcatProperties
      <4> QED  BY <4>1, <4>2
    <3> QED  BY <2>1, <2>2, <3>1, <3>2
  <2>8. head \o after = WithPrerequisite(plan)
    BY <1>2 DEF WithPrerequisite, InsertAt, head, before, after, parent, i
  <2>9. DOMAIN (head \o after) = 1..Len(head \o after)
    BY <2>5, <2>6, ConcatProperties
  <2> QED  BY <2>7, <2>8, <2>9 DEF ToSet
<1> QED  BY <1>1, <1>2

\* A plan in force is never empty, and neither is what START makes of it.
LEMMA InForceType ==
    ASSUME NEW plan \in Plans
    PROVE  /\ plan \in Seq(Grids)
           /\ InForce(plan) \in Plans \ {<<>>}
           /\ InForce(plan) \in Seq(Grids)
           /\ plan # <<>> => InForce(plan) = plan
BY DataAssumption DEF InForce, Plans

LEMMA FilledPlan ==
    ASSUME NEW plan \in Seq(Grids), NEW g \in ToSet(plan), g # Deprecated
    PROVE  plan \in Plans \ {<<>>}
BY DEF Plans, ToSet

LEMMA RetainedPlan ==
    ASSUME NEW plan \in Plans \ {<<>>}
    PROVE  Retained(plan) \in Plans \ {<<>>}
<1>1. plan \in Seq(Grids)
  BY DEF Plans
<1>2. PICK g : g \in ToSet(plan) \ {Deprecated}
  BY DEF Plans
<1>3. g \in ToSet(Retained(plan)) /\ Retained(plan) \in Seq(Grids)
  BY <1>1, <1>2, RetainedKeeps, RetainedType
<1> QED  BY <1>2, <1>3, FilledPlan

LEMMA WithPrerequisitePlan ==
    ASSUME NEW plan \in Plans
    PROVE  /\ WithPrerequisite(plan) \in Plans
           /\ plan # <<>> => WithPrerequisite(plan) # <<>>
<1>1. plan \in Seq(Grids)
  BY DEF Plans
<1>2. CASE plan = <<>>
  BY <1>2 DEF WithPrerequisite, ToSet
<1>3. CASE plan # <<>>
  <2>1. PICK g : g \in ToSet(plan) \ {Deprecated}
    BY <1>3 DEF Plans
  <2>2. g \in ToSet(WithPrerequisite(plan)) /\ WithPrerequisite(plan) \in Seq(Grids)
    BY <1>1, <2>1, WithPrerequisiteKeeps, WithPrerequisiteType
  <2> QED  BY <2>1, <2>2, FilledPlan
<1> QED  BY <1>2, <1>3

LEMMA NextUnsettledType ==
    ASSUME NEW plan \in Seq(Grids), NEW settled
    PROVE  NextUnsettled(plan, settled) \in Grids \union {NoGrid}
<1>1. CASE \E i \in DOMAIN plan : FirstUnsettled(plan, settled, i)
  <2>1. (CHOOSE i \in DOMAIN plan : FirstUnsettled(plan, settled, i)) \in DOMAIN plan
    BY <1>1
  <2> QED  BY <1>1, <2>1 DEF NextUnsettled
<1>2. CASE ~ \E i \in DOMAIN plan : FirstUnsettled(plan, settled, i)
  BY <1>2 DEF NextUnsettled
<1> QED  BY <1>1, <1>2

LEMMA GridCount ==
    ASSUME NEW S \in SUBSET Grids
    PROVE  IsFiniteSet(S) /\ Cardinality(S) \in Nat
BY DataAssumption, FS_Subset, FS_CardinalityType

-----------------------------------------------------------------------------
(* Rows *)

LEMMA AgeTypes ==
    /\ AgeCap \in Nat /\ 0 \in 0..AgeCap
    /\ \A age \in 0..AgeCap : Older(age) \in 0..AgeCap
BY WindowAssumption DEF AgeCap, Older

LEMMA FailedRowType ==
    ASSUME NEW row \in RunRow
    PROVE  /\ FailedRow(row) \in RunRow
           /\ FailedRow(row).state = "FAILED"
           /\ FailedRow(row).device = row.device
           /\ FailedRow(row).plan = row.plan
BY AgeTypes DEF FailedRow, RunRow, States, Open, Terminal

LEMMA SettledRowType ==
    ASSUME NEW row \in RunRow, NEW plan \in Seq(Grids),
           NEW done \in SUBSET Grids, NEW failed \in SUBSET Grids, NEW count \in Nat
    PROVE  SettledRow(row, plan, done, failed, count) \in RunRow
<1>1. NextUnsettled(plan, done \union failed) \in Grids \union {NoGrid}
  BY NextUnsettledType
<1>2. Cardinality(failed) \in Nat
  BY GridCount
<1> QED
  BY <1>1, <1>2, AgeTypes DEF SettledRow, RunRow, States, Open, Terminal

LEMMA SettledRowFields ==
    ASSUME NEW row \in RunRow, NEW plan, NEW done, NEW failed, NEW count
    PROVE  /\ SettledRow(row, plan, done, failed, count).plan = row.plan
           /\ SettledRow(row, plan, done, failed, count).state = "COMPLETED" =>
                   failed = {} /\ AllSettled(plan, done \union failed)
BY DEF SettledRow, RunRow

LEMMA SettledRowExists ==
    ASSUME NEW row \in RunRow, NEW plan, NEW done, NEW failed, NEW count
    PROVE  /\ SettledRow(row, plan, done, failed, count).device = row.device
           /\ SettledRow(row, plan, done, failed, count).state # "ABSENT"
BY DEF SettledRow, RunRow

LEMMA NewRowType ==
    ASSUME NEW device \in Devices, NEW plan \in Plans
    PROVE  /\ NewRow(device, plan) \in RunRow
           /\ NewRow(device, plan).state = "RUNNING"
<1>1. plan # <<>> => plan[1] \in Grids
  BY DEF Plans
<1> QED  BY <1>1, AgeTypes DEF NewRow, RunRow, States, Open, Terminal

LEMMA ContinuedRowType ==
    ASSUME NEW row \in RunRow, NEW choice \in Choice
    PROVE  /\ ContinuedRow(row, choice) \in RunRow
           /\ ContinuedRow(row, choice).device = row.device
           /\ ContinuedRow(row, choice).state =
                   IF Reopens(choice) THEN "RUNNING" ELSE row.state
           /\ InForce(ContinuedRow(row, choice).plan) =
                   IF choice.changed THEN choice.plan ELSE InForce(row.plan)
<1>1. ContinuedRow(row, choice) \in RunRow
  BY AgeTypes DEF ContinuedRow, RunRow, Choice, States, Open, Terminal
<1>2. InForce(choice.plan) = choice.plan
  BY DEF InForce, Choice
<1> QED  BY <1>1, <1>2 DEF ContinuedRow, RunRow

(***************************************************************************)
(* The sweep of silent runs only moves live rows, and only to FAILED.      *)
(***************************************************************************)
LEMMA FailStaleType ==
    ASSUME run \in [Runs -> RunRow], NEW scope
    PROVE  /\ FailStale(scope) \in [Runs -> RunRow]
           /\ \A r \in Runs :
                 \/ FailStale(scope)[r] = run[r]
                 \/ Live(r) /\ FailStale(scope)[r] = FailedRow(run[r])
BY FailedRowType DEF FailStale, Stale

LEMMA ContinueChoicesType ==
    ASSUME TypeOK, NEW r \in Runs, NEW request, NEW authExpired \in BOOLEAN,
           NEW choice \in ContinueChoices(r, request, authExpired)
    PROVE  /\ choice \in Choice
           /\ choice.target = r
           /\ choice.from = run[r].state
           /\ choice.from = "COMPLETED" => ToSet(choice.plan) \subseteq Planned(r)
<1> DEFINE stored == InForce(run[r].plan)
           kept == Retained(stored)
           addsParent == AddsParent(r, kept, request)
           plan == IF addsParent THEN WithPrerequisite(kept) ELSE kept
           completed == CountedComplete(r, plan)
           failed == failures[r] \intersect ToSet(plan)
<1>1. run[r].plan \in Plans /\ run[r].state \in States
      /\ run[r].completedStages \in Nat /\ run[r].current \in Grids \union {NoGrid}
  BY DEF TypeOK, RunRow
<1>0. stored \in Seq(Grids) /\ stored \in Plans \ {<<>>}
  BY <1>1, InForceType
<1> HIDE DEF stored
<1>2. /\ kept \in Seq(Grids) /\ kept \in Plans \ {<<>>}
      /\ ToSet(kept) \subseteq Planned(r)
  BY <1>0, RetainedType, RetainedPlan DEF Planned, stored
<1>3. plan \in Seq(Grids) /\ plan \in Plans \ {<<>>}
  BY <1>2, WithPrerequisiteType, WithPrerequisitePlan
<1>4. run[r].state = "COMPLETED" => plan = kept
  BY DEF AddsParent
<1>5. ToSet(plan) \subseteq Grids
  BY <1>3 DEF ToSet
<1>6. completed \in SUBSET Grids
  <2>1. CASE Sealed(r) \intersect ToSet(plan) # {}
    BY <2>1, <1>5 DEF CountedComplete
  <2>2. CASE Sealed(r) \intersect ToSet(plan) = {}
    BY <2>2, <1>3, <1>1 DEF CountedComplete
  <2> QED  BY <2>1, <2>2
<1>7. failed \in SUBSET Grids
  BY <1>5
<1>8. Cardinality(completed) \in Nat /\ Cardinality(failed) \in Nat
  BY <1>6, <1>7, GridCount
<1>9. addsParent => Parent \in Grids
  BY <1>2, <1>1, DataAssumption DEF AddsParent, ToSet
<1>10. HandoverGrids(r, plan, addsParent, completed, failed) \subseteq Grids \union {NoGrid}
  <2> HIDE DEF kept, plan, addsParent, completed, failed
  <2>1. /\ NextUnsettled(plan, completed) \in Grids \union {NoGrid}
        /\ NextUnsettled(plan, completed \union failed) \in Grids \union {NoGrid}
    BY <1>3, NextUnsettledType
  <2> QED  BY <2>1, <1>1, <1>7, <1>9 DEF HandoverGrids
<1>11. PICK g \in HandoverGrids(r, plan, addsParent, completed, failed) :
          choice = [target |-> r, from |-> run[r].state, plan |-> plan,
                    changed |-> Len(plan) # Len(stored),
                    renewAuth |-> run[r].state = "RUNNING" /\ authExpired,
                    completed |-> Cardinality(completed), failed |-> Cardinality(failed),
                    next |-> g]
  BY DEF ContinueChoices, stored
<1> HIDE DEF kept, plan, addsParent, completed, failed
<1>12. g \in Grids \union {NoGrid}
  BY <1>10
<1>13. choice \in Choice
  BY <1>1, <1>3, <1>8, <1>11, <1>12 DEF Choice
<1> QED  BY <1>2, <1>4, <1>11, <1>13

\* The plan that the stages of a run go by.
LEMMA PlannedType ==
    ASSUME TypeOK, NEW r \in Runs
    PROVE  /\ run[r] \in RunRow /\ run[r].plan \in Plans
           /\ InForce(run[r].plan) \in Seq(Grids)
           /\ Planned(r) \subseteq Grids
<1>1. run[r] \in RunRow /\ run[r].plan \in Plans
  BY DEF TypeOK, RunRow
<1>2. InForce(run[r].plan) \in Seq(Grids)
  BY <1>1, InForceType
<1> QED  BY <1>1, <1>2 DEF Planned, ToSet

LEMMA CallTypes ==
    ASSUME TypeOK, NEW c \in Calls
    PROVE  /\ IdleCall \in CallState
           /\ \A choice \in Choice : Decided(choice) \in CallState
           /\ call[c].pc \in {"select", "create"} =>
                 call[c].device \in Devices /\ call[c].request \in Plans
           /\ call[c].pc \in {"write", "resolve"} => call[c].choice \in Choice
BY DEF TypeOK, CallState, IdleCall, Decided

-----------------------------------------------------------------------------
(* Type correctness, action by action *)

LEMMA InitType == Init => TypeOK
<1> SUFFICES ASSUME Init PROVE TypeOK
  OBVIOUS
<1>1. (CHOOSE d \in Devices : TRUE) \in Devices
  BY DataAssumption
<1>2. AbsentRow \in RunRow
  BY <1>1, AgeTypes DEF AbsentRow, RunRow, States, Open, Terminal, Plans
<1>3. ASSUME NEW d \in Devices, NEW p \in OldPlans, NEW n \in 0..(Len(InForce(p)) - 1)
      PROVE  OldRow(d, p, n) \in RunRow
  <2>0. p \in Plans /\ InForce(p) \in Seq(Grids)
    BY DataAssumption, InForceType
  <2>1. InForce(p)[n + 1] \in Grids /\ n \in Nat
    BY <2>0
  <2>2. NewRow(d, p) \in RunRow
    BY <2>0, NewRowType
  <2> QED  BY <2>1, <2>2 DEF OldRow, RunRow
<1>4. run \in [Runs -> RunRow]
  <2>1. CASE run = [r \in Runs |-> AbsentRow]
    BY <1>2, <2>1
  <2>2. ASSUME NEW d \in Devices, NEW p \in OldPlans, NEW n \in 0..(Len(InForce(p)) - 1),
               run = [r \in Runs |-> IF r = 1 THEN OldRow(d, p, n) ELSE AbsentRow]
        PROVE  run \in [Runs -> RunRow]
    BY <1>2, <1>3, <2>2
  <2> QED  BY <2>1, <2>2 DEF Init
<1>5. /\ receipts \in [Runs -> [Grids -> [Sequences -> Pages \union {NoPage}]]]
      /\ rawPages \in [Runs -> [Grids -> [Sequences -> Pages \union {NoPage}]]]
  BY DEF Init, NoPages
<1>6. call \in [Calls -> CallState]
  BY DEF Init, IdleCall, CallState
<1> QED  BY <1>4, <1>5, <1>6 DEF Init, TypeOK

LEMMA StartType ==
    ASSUME TypeOK, NEW c \in Calls, StartNext(c)
    PROVE  TypeOK'
<1> USE DEF rows
<1>1. ASSUME NEW d \in Devices, NEW p \in Requests, NEW i \in Intents,
             NEW a \in BOOLEAN, StartRead(c, d, p, i, a)
      PROVE  TypeOK'
  <2> DEFINE request == WithPrerequisite(p)
             live == {r \in Runs : run'[r].device = d /\ run'[r].state = "RUNNING"}
  <2>1. request \in Plans /\ i \in AllIntents
    BY WithPrerequisitePlan, DataAssumption DEF AllIntents
  <2>2. run' \in [Runs -> RunRow]
    BY <1>1, FailStaleType DEF StartRead, TypeOK
  <2>3. call' \in [Calls -> CallState]
    <3>1. CASE LiveWins(live, i)
      <4>1. PICK r \in live : \E choice \in ContinueChoices(r, request, a) :
                call' = [call EXCEPT ![c] = Decided(choice)]
        BY <1>1, <3>1 DEF StartRead
      <4>2. \A choice \in ContinueChoices(r, request, a) : choice \in Choice
        BY ContinueChoicesType
      <4> QED  BY <4>1, <4>2, CallTypes DEF TypeOK
    <3>2. CASE ~LiveWins(live, i)
      <4>1. call' = [call EXCEPT ![c] =
                [pc |-> "select", device |-> d, request |-> request, intent |-> i]]
        BY <1>1, <3>2 DEF StartRead
      <4> QED  BY <4>1, <2>1 DEF TypeOK, CallState
    <3> QED  BY <3>1, <3>2
  <2> QED  BY <1>1, <2>2, <2>3 DEF StartRead, TypeOK
<1>2. CASE StartSelect(c)
  <2>1. call' \in [Calls -> CallState]
    <3>1. call[c].device \in Devices /\ call[c].request \in Plans
      BY <1>2, CallTypes DEF StartSelect
    <3>2. CASE call' = [call EXCEPT ![c] =
                   [pc |-> "create", device |-> @.device, request |-> @.request]]
      BY <3>1, <3>2 DEF TypeOK, CallState
    <3>3. ASSUME NEW r \in Runs, NEW choice \in ContinueChoices(r, call[c].request, FALSE),
                 call' = [call EXCEPT ![c] = Decided(choice)]
          PROVE  call' \in [Calls -> CallState]
      BY <3>3, ContinueChoicesType, CallTypes DEF TypeOK
    <3>4. /\ \A S \in FirstRow(Resumable(call[c].device)) : S \subseteq Runs
          /\ \A S \in FirstRow(NewestCompleted(call[c].device)) : S \subseteq Runs
      BY DEF FirstRow, Resumable, NewestCompleted
    <3>5. \A S, T \in SUBSET Runs : LatestTerminal(S, T) \subseteq Runs
      BY DEF LatestTerminal
    <3> QED  BY <1>2, <3>2, <3>3, <3>4, <3>5 DEF StartSelect
  <2> QED  BY <1>2, <2>1 DEF StartSelect, TypeOK
<1>3. CASE StartCreate(c)
  <2>1. call[c].device \in Devices /\ call[c].request \in Plans
    BY <1>3, CallTypes DEF StartCreate
  <2>2. run' \in [Runs -> RunRow]
    BY <1>3, <2>1, NewRowType DEF StartCreate, TypeOK, Unused
  <2>3. call' \in [Calls -> CallState]
    BY <1>3, CallTypes DEF StartCreate, TypeOK
  <2> QED  BY <1>3, <2>2, <2>3 DEF StartCreate, TypeOK
<1>4. CASE StartWrite(c)
  <2>1. call[c].choice \in Choice
    BY <1>4, CallTypes DEF StartWrite
  <2>2. run' \in [Runs -> RunRow]
    BY <1>4, <2>1, ContinuedRowType DEF StartWrite, TypeOK, Choice
  <2>3. call' \in [Calls -> CallState]
    <3>1. [pc |-> "resolve", choice |-> call[c].choice] \in CallState
      BY <2>1 DEF CallState
    <3> QED  BY <1>4, <3>1, CallTypes DEF StartWrite, TypeOK
  <2> QED  BY <1>4, <2>2, <2>3 DEF StartWrite, TypeOK
<1>5. CASE StartResolve(c)
  BY <1>5, CallTypes DEF StartResolve, TypeOK
<1>6. CASE StartCrash(c)
  BY <1>6, CallTypes DEF StartCrash, TypeOK
<1> QED  BY <1>1, <1>2, <1>3, <1>4, <1>5, <1>6 DEF StartNext, StartStep

LEMMA StageType ==
    ASSUME TypeOK, NEW r \in Runs, NEW g \in Grids
    PROVE  /\ \A s \in Sequences, page \in Pages : PageNext(r, g, s, page) => TypeOK'
           /\ \A n \in 0..MaxTotal, f \in Sequences : Complete(r, g, n, f) => TypeOK'
           /\ QuietNext(r, g) => TypeOK'
<1> USE DEF rows
<1>0. /\ run[r] \in RunRow
      /\ Planned(r) \subseteq Grids
      /\ Sealed(r) \subseteq Grids
  BY PlannedType DEF Sealed
<1>1. ASSUME NEW s \in Sequences, NEW page \in Pages, Ingest(r, g, s, page)
      PROVE  TypeOK'
  <2>1. [run[r] EXCEPT !.current = g, !.idle = 0] \in RunRow
    BY <1>0, AgeTypes DEF RunRow
  <2>2. run' \in [Runs -> RunRow]
    BY <1>1, <2>1 DEF Ingest, TypeOK
  <2> QED  BY <1>1, <2>2 DEF Ingest, IngestPage, TypeOK
<1>2. ASSUME NEW s \in Sequences, NEW page \in Pages, IngestLegacy(r, g, s, page)
      PROVE  TypeOK'
  <2> DEFINE done == Cardinality(Planned(r) \intersect FinalGrids(receipts'[r]))
             completed == done = Len(InForce(run[r].plan))
             new == [run[r] EXCEPT
                        !.state = IF completed THEN "COMPLETED" ELSE "RUNNING",
                        !.completedStages = done,
                        !.current = IF completed THEN NoGrid ELSE g,
                        !.idle = 0, !.closed = 0]
  <2>1. done \in Nat
    BY <1>0, GridCount
  <2>2. run' = [run EXCEPT ![r] = new]
    BY <1>2 DEF IngestLegacy
  <2> HIDE DEF done
  <2>3. new \in RunRow
    BY <2>1, <1>0, AgeTypes DEF RunRow, States, Open, Terminal
  <2>4. run' \in [Runs -> RunRow]
    BY <2>2, <2>3 DEF TypeOK
  <2> QED  BY <1>2, <2>4 DEF IngestLegacy, IngestPage, TypeOK
<1>3. [run[r] EXCEPT !.idle = 0] \in RunRow
  BY <1>0, AgeTypes DEF RunRow
<1>4. ASSUME NEW s \in Sequences, IngestDuplicate(r, g, s)
      PROVE  TypeOK'
  BY <1>3, <1>4 DEF IngestDuplicate, TypeOK
<1>5. ASSUME NEW n \in 0..MaxTotal, NEW f \in Sequences, Complete(r, g, n, f)
      PROVE  TypeOK'
  <2> DEFINE done == Sealed(r) \union {g}
             failed == failures[r] \ {g}
             count == Cardinality(Planned(r) \intersect done)
  <2>1. done \in SUBSET Grids /\ failed \in SUBSET Grids /\ count \in Nat
    BY <1>0, GridCount DEF TypeOK
  <2>2. run' = [run EXCEPT ![r] = SettledRow(run[r], InForce(run[r].plan), done, failed, count)]
    BY <1>5 DEF Complete
  <2>3. InForce(run[r].plan) \in Seq(Grids)
    BY PlannedType
  <2>4. [expected |-> n, final |-> f] \in Completion
    BY DataAssumption DEF Completion, Sequences
  <2> HIDE DEF done, failed, count
  <2>5. run' \in [Runs -> RunRow]
    BY <1>0, <2>1, <2>2, <2>3, SettledRowType DEF TypeOK
  <2>6. completions' \in [Runs -> [Grids -> Completion \union {NoCompletion}]]
    <3>1. completions' = [completions EXCEPT ![r][g] = [expected |-> n, final |-> f]]
      BY <1>5 DEF Complete
    <3> QED  BY <2>4, <3>1 DEF TypeOK
  <2>7. failures' \in [Runs -> SUBSET Grids]
    BY <1>5 DEF Complete, TypeOK
  <2> QED  BY <1>5, <2>5, <2>6, <2>7 DEF Complete, TypeOK
<1>6. ASSUME CompleteReplay(r, g)
      PROVE  TypeOK'
  BY <1>3, <1>6 DEF CompleteReplay, TypeOK
<1>7. ASSUME FailStageRead(r, g)
      PROVE  TypeOK'
  <2>1. [target |-> r, grid |-> g, plan |-> InForce(run[r].plan),
         done |-> Sealed(r), failed |-> failures[r] \union {g}] \in FailTx
    BY <1>0, PlannedType DEF TypeOK, FailTx
  <2> QED  BY <1>7, <2>1 DEF FailStageRead, TypeOK
<1> QED  BY <1>1, <1>2, <1>4, <1>5, <1>6, <1>7 DEF PageNext, QuietNext

LEMMA FailStageType ==
    ASSUME TypeOK, FailStep
    PROVE  TypeOK'
<1> USE DEF rows
<1>1. PICK tx \in failing : FailStageCommit(tx)
  BY DEF FailStep
<1>2. /\ tx.target \in Runs /\ tx.grid \in Grids /\ tx.plan \in Seq(Grids)
      /\ tx.done \in SUBSET Grids /\ tx.failed \in SUBSET Grids
      /\ run[tx.target] \in RunRow
  BY DEF TypeOK, FailTx
<1>3. Cardinality(tx.done) \in Nat
  BY <1>2, GridCount
<1>4. SettledRow(run[tx.target], tx.plan, tx.done, tx.failed, Cardinality(tx.done)) \in RunRow
  BY <1>2, <1>3, SettledRowType
<1>5. run' \in [Runs -> RunRow] /\ failures' \in [Runs -> SUBSET Grids]
  <2>1. CASE ~Live(tx.target)
    BY <1>1, <2>1 DEF FailStageCommit, TypeOK
  <2>2. CASE Live(tx.target)
    <3>1. run' = [run EXCEPT ![tx.target] = SettledRow(run[tx.target], tx.plan, tx.done,
                                             tx.failed, Cardinality(tx.done))]
      BY <1>1, <1>2, <2>2 DEF FailStageCommit, TypeOK
    <3>2. failures' = [failures EXCEPT ![tx.target] = @ \union {tx.grid}]
      BY <1>1, <2>2 DEF FailStageCommit
    <3> QED  BY <1>2, <1>4, <3>1, <3>2 DEF TypeOK
  <2> QED  BY <2>1, <2>2
<1> QED  BY <1>1, <1>5 DEF FailStageCommit, TypeOK

LEMMA EndingType ==
    ASSUME TypeOK, EndNext
    PROVE  TypeOK'
<1> USE DEF rows
<1>1. \A r \in Runs : run[r] \in RunRow
  BY DEF TypeOK
<1>2. ASSUME NEW r \in Runs, FailRun(r)
      PROVE  TypeOK'
  BY <1>1, <1>2, FailedRowType DEF FailRun, TypeOK
<1>3. ASSUME NEW r \in Runs, ExportHeartbeat(r)
      PROVE  TypeOK'
  <2>1. [run[r] EXCEPT !.idle = 0] \in RunRow
    BY <1>1, AgeTypes DEF RunRow
  <2> QED  BY <1>3, <2>1 DEF ExportHeartbeat, TypeOK
<1>4. ASSUME NEW r \in Runs, NEW g \in Grids, NEW s \in Sequences, SweepReceipt(r, g, s)
      PROVE  TypeOK'
  BY <1>4 DEF SweepReceipt, TypeOK
<1>5. ASSUME NEW d \in Devices, RevokeDevice(d)
      PROVE  TypeOK'
  <2>1. run' \in [Runs -> RunRow]
    BY <1>1, <1>5, FailedRowType DEF RevokeDevice, TypeOK
  <2> QED  BY <1>5, <2>1 DEF RevokeDevice, TypeOK
<1>6. ASSUME NEW d \in Devices, DeviceVanishes(d)
      PROVE  TypeOK'
  BY <1>6 DEF DeviceVanishes, TypeOK
<1>7. CASE CancelRuns
  <2>1. \A r \in Runs : [FailedRow(run[r]) EXCEPT !.current = NoGrid] \in RunRow
    BY <1>1, FailedRowType, SMTT(30) DEF RunRow
  <2> QED  BY <1>1, <1>7, <2>1 DEF CancelRuns, TypeOK
<1>8. CASE ExpireStale
  BY <1>8, FailStaleType DEF ExpireStale, TypeOK
<1>9. CASE Tick
  <2>1. ASSUME NEW r \in Runs
        PROVE  [run[r] EXCEPT !.idle = Older(@),
                              !.closed = IF Live(r) THEN @ ELSE Older(@)] \in RunRow
    BY <1>1, AgeTypes DEF RunRow
  <2> QED  BY <1>1, <1>9, <2>1 DEF Tick, TypeOK
<1> QED  BY <1>2, <1>3, <1>4, <1>5, <1>6, <1>7, <1>8, <1>9 DEF EndNext

LEMMA NextType == TypeOK /\ [Next]_vars => TypeOK'
<1> SUFFICES ASSUME TypeOK, [Next]_vars PROVE TypeOK'
  OBVIOUS
<1>1. CASE Next
  BY <1>1, StartType, StageType, FailStageType, EndingType DEF Next
<1>2. CASE UNCHANGED vars
  BY <1>2 DEF vars, rows, TypeOK
<1> QED  BY <1>1, <1>2

(***************************************************************************)
(* Whatever the devices, the janitor and the page polls do and in whatever *)
(* order, the run, stage and call rows keep their types.                   *)
(***************************************************************************)
THEOREM TypeCorrect == Spec => []TypeOK
<1>1. Init => TypeOK
  BY InitType
<1>2. TypeOK /\ [Next]_vars => TypeOK'
  BY NextType
<1> QED  BY <1>1, <1>2, PTL DEF Spec

-----------------------------------------------------------------------------
(* What a step may do to the row of one run *)

RowKept(r) ==
    /\ run'[r].state = run[r].state
    /\ run'[r].device = run[r].device
    /\ run'[r].plan = run[r].plan

RowFailed(r) ==
    /\ Live(r)
    /\ run'[r].state = "FAILED"
    /\ run'[r].device = run[r].device
    /\ run'[r].plan = run[r].plan

RowContinued(r) ==
    \E c \in Calls :
        /\ StartWrite(c)
        /\ call[c].choice.target = r
        /\ call[c].choice.from = run[r].state
        /\ run'[r] = ContinuedRow(run[r], call[c].choice)

RowCreated(r) ==
    /\ run[r].state = "ABSENT"
    /\ run'[r].state = "RUNNING"
    /\ \E c \in Calls :
          /\ StartCreate(c)
          /\ run' = [run EXCEPT ![r] = NewRow(call[c].device, call[c].request)]

RowCompletesStage(r) ==
    \E g \in Grids, n \in 0..MaxTotal, f \in Sequences : Complete(r, g, n, f)

RowReadByPage(r) ==
    /\ Live(r)
    /\ run[r].device \in LegacyDevices
    /\ run'[r].device = run[r].device
    /\ \E g \in Grids, s \in Sequences, page \in Pages : IngestLegacy(r, g, s, page)

RowFailsStage(r) ==
    \E tx \in failing : tx.target = r /\ Live(r) /\ FailStageCommit(tx)

RowStep(r) ==
    \/ RowKept(r) \/ RowFailed(r) \/ RowContinued(r) \/ RowCreated(r)
    \/ RowCompletesStage(r) \/ RowReadByPage(r) \/ RowFailsStage(r)

LEMMA StartRowStep ==
    ASSUME TypeOK, NEW r \in Runs, NEW c \in Calls, StartNext(c)
    PROVE  RowStep(r)
<1> run[r] \in RunRow
  BY DEF TypeOK
<1>1. ASSUME NEW d \in Devices, NEW p \in Requests, NEW i \in Intents,
             NEW a \in BOOLEAN, StartRead(c, d, p, i, a)
      PROVE  RowStep(r)
  <2>1. PICK scope : run' = FailStale(scope)
    BY <1>1 DEF StartRead
  <2> QED  BY <2>1, FailStaleType, FailedRowType DEF TypeOK, RowStep, RowKept, RowFailed
<1>2. CASE StartCreate(c)
  <2>1. PICK u \in Runs : /\ run[u].state = "ABSENT"
                          /\ run' = [run EXCEPT ![u] = NewRow(call[c].device, call[c].request)]
    BY <1>2 DEF StartCreate, Unused
  <2>2. call[c].device \in Devices /\ call[c].request \in Plans
    BY <1>2, CallTypes DEF StartCreate
  <2>3. CASE u = r
    <3>1. run'[r].state = "RUNNING"
      BY <2>1, <2>2, <2>3, NewRowType DEF TypeOK
    <3> QED  BY <1>2, <2>1, <2>3, <3>1 DEF RowStep, RowCreated
  <2>4. CASE u # r
    BY <2>1, <2>4 DEF TypeOK, RowStep, RowKept
  <2> QED  BY <2>3, <2>4
<1>3. CASE StartWrite(c)
  <2>1. call[c].choice.target \in Runs
    BY <1>3, CallTypes DEF StartWrite, Choice
  <2>2. CASE run[call[c].choice.target].state = call[c].choice.from
    BY <1>3, <2>1, <2>2 DEF StartWrite, TypeOK, RowStep, RowKept, RowContinued
  <2>3. CASE run[call[c].choice.target].state # call[c].choice.from
    BY <1>3, <2>3 DEF StartWrite, RowStep, RowKept
  <2> QED  BY <2>2, <2>3
<1>4. CASE StartSelect(c) \/ StartResolve(c) \/ StartCrash(c)
  BY <1>4 DEF StartSelect, StartResolve, StartCrash, RowStep, RowKept
<1> QED  BY <1>1, <1>2, <1>3, <1>4 DEF StartNext, StartStep

LEMMA StageRowStep ==
    ASSUME TypeOK, NEW r \in Runs, NEW q \in Runs, NEW g \in Grids
    PROVE  /\ \A s \in Sequences, page \in Pages : PageNext(q, g, s, page) => RowStep(r)
           /\ \A n \in 0..MaxTotal, f \in Sequences : Complete(q, g, n, f) => RowStep(r)
           /\ QuietNext(q, g) => RowStep(r)
<1> run[q] \in RunRow /\ run[r] \in RunRow
  BY DEF TypeOK
<1>1. ASSUME NEW s \in Sequences, NEW page \in Pages, Ingest(q, g, s, page)
      PROVE  RowStep(r)
  BY <1>1 DEF Ingest, TypeOK, RunRow, RowStep, RowKept
<1>2. ASSUME NEW s \in Sequences, NEW page \in Pages, IngestLegacy(q, g, s, page)
      PROVE  RowStep(r)
  <2>1. CASE r = q
    BY <1>2, <2>1 DEF IngestLegacy, IngestPage, TypeOK, RunRow, RowStep, RowReadByPage
  <2>2. CASE r # q
    BY <1>2, <2>2 DEF IngestLegacy, TypeOK, RowStep, RowKept
  <2> QED  BY <2>1, <2>2
<1>3. ASSUME NEW s \in Sequences, IngestDuplicate(q, g, s)
      PROVE  RowStep(r)
  BY <1>3 DEF IngestDuplicate, TypeOK, RunRow, RowStep, RowKept
<1>4. ASSUME NEW n \in 0..MaxTotal, NEW f \in Sequences, Complete(q, g, n, f)
      PROVE  RowStep(r)
  <2>1. CASE r = q
    BY <1>4, <2>1 DEF RowStep, RowCompletesStage
  <2>2. CASE r # q
    BY <1>4, <2>2 DEF Complete, TypeOK, RowStep, RowKept
  <2> QED  BY <2>1, <2>2
<1>5. ASSUME CompleteReplay(q, g)
      PROVE  RowStep(r)
  BY <1>5 DEF CompleteReplay, TypeOK, RunRow, RowStep, RowKept
<1>6. ASSUME FailStageRead(q, g)
      PROVE  RowStep(r)
  BY <1>6 DEF FailStageRead, RowStep, RowKept
<1> QED  BY <1>1, <1>2, <1>3, <1>4, <1>5, <1>6 DEF PageNext, QuietNext

LEMMA FailStageRowStep ==
    ASSUME TypeOK, NEW r \in Runs, FailStep
    PROVE  RowStep(r)
<1>1. PICK tx \in failing : FailStageCommit(tx)
  BY DEF FailStep
<1>2. CASE tx.target = r /\ Live(r)
  BY <1>1, <1>2 DEF RowStep, RowFailsStage
<1>3. CASE ~(tx.target = r /\ Live(r))
  BY <1>1, <1>3 DEF FailStageCommit, TypeOK, RowStep, RowKept
<1> QED  BY <1>2, <1>3

LEMMA EndingRowStep ==
    ASSUME TypeOK, NEW r \in Runs, EndNext
    PROVE  RowStep(r)
<1> USE DEF RowStep, RowKept, RowFailed
<1>0. \A q \in Runs : run[q] \in RunRow
  BY DEF TypeOK
<1>1. ASSUME NEW q \in Runs, FailRun(q)
      PROVE  RowStep(r)
  BY <1>0, <1>1, FailedRowType DEF FailRun, TypeOK
<1>2. ASSUME NEW q \in Runs, ExportHeartbeat(q)
      PROVE  RowStep(r)
  BY <1>0, <1>2 DEF ExportHeartbeat, TypeOK, RunRow
<1>3. ASSUME NEW q \in Runs, NEW g \in Grids, NEW s \in Sequences, SweepReceipt(q, g, s)
      PROVE  RowStep(r)
  BY <1>3 DEF SweepReceipt
<1>4. ASSUME NEW d \in Devices, RevokeDevice(d)
      PROVE  RowStep(r)
  BY <1>0, <1>4, FailedRowType DEF RevokeDevice
<1>5. ASSUME NEW d \in Devices, DeviceVanishes(d)
      PROVE  RowStep(r)
  BY <1>5 DEF DeviceVanishes
<1>6. CASE CancelRuns
  <2>1. Live(r) => run'[r] = [FailedRow(run[r]) EXCEPT !.current = NoGrid]
    BY <1>6 DEF CancelRuns
  <2>2. ~Live(r) => run'[r] = run[r]
    BY <1>6 DEF CancelRuns
  <2>3. Live(r) => RowFailed(r)
    BY <1>0, <2>1, FailedRowType DEF RunRow
  <2> QED  BY <2>2, <2>3
<1>7. CASE ExpireStale
  BY <1>0, <1>7, FailStaleType, FailedRowType DEF ExpireStale, TypeOK
<1>8. CASE Tick
  BY <1>0, <1>8 DEF Tick, RunRow
<1> QED  BY <1>1, <1>2, <1>3, <1>4, <1>5, <1>6, <1>7, <1>8 DEF EndNext

LEMMA NextRowStep ==
    ASSUME TypeOK, [Next]_vars, NEW r \in Runs
    PROVE  RowStep(r)
<1>1. CASE Next
  BY <1>1, StartRowStep, StageRowStep, FailStageRowStep, EndingRowStep DEF Next
<1>2. CASE UNCHANGED vars
  BY <1>2 DEF vars, RowStep, RowKept
<1> QED  BY <1>1, <1>2

-----------------------------------------------------------------------------
(* A completed run is final, its evidence frozen *)

LEMMA CompletedStays ==
    ASSUME TypeOK, [Next]_vars, NEW r \in Runs, run[r].state = "COMPLETED"
    PROVE  run'[r].state = "COMPLETED" /\ run'[r].device = run[r].device
<1>1. CASE RowContinued(r)
  <2>1. PICK c \in Calls : /\ StartWrite(c)
                           /\ call[c].choice.from = run[r].state
                           /\ run'[r] = ContinuedRow(run[r], call[c].choice)
    BY <1>1 DEF RowContinued
  <2>2. call[c].choice \in Choice /\ run[r] \in RunRow
    BY <2>1, CallTypes DEF StartWrite, TypeOK
  <2> QED  BY <2>1, <2>2, ContinuedRowType DEF Reopens
<1>2. CASE RowCompletesStage(r)
  BY <1>2 DEF RowCompletesStage, Complete, Live
<1> QED
  BY <1>1, <1>2, NextRowStep
  DEF RowStep, RowKept, RowFailed, RowCreated, RowReadByPage, RowFailsStage, Live

(***************************************************************************)
(* No late page, failure, timeout, cancellation, revocation or START ever  *)
(* takes a run out of COMPLETED.                                           *)
(***************************************************************************)
THEOREM CompletedForever == Spec => CompletedIsFinal
<1>1. TypeOK /\ [Next]_vars =>
         [\A r \in Runs : run[r].state = "COMPLETED" => run'[r].state = "COMPLETED"]_vars
  BY CompletedStays
<1> QED  BY <1>1, TypeCorrect, PTL DEF Spec, CompletedIsFinal

LEMMA EvidenceStays ==
    ASSUME TypeOK, [Next]_vars, NEW r \in Runs, NEW g \in Grids,
           completions[r][g] # NoCompletion
    PROVE  rawPages'[r][g] = rawPages[r][g] /\ completions'[r][g] = completions[r][g]
<1> USE DEF rows
<1>1. CASE Next
  <2>1. ASSUME NEW q \in Runs, NEW h \in Grids, NEW s \in Sequences, NEW page \in Pages,
               IngestPage(q, h, s, page)
        PROVE  rawPages'[r][g] = rawPages[r][g]
    BY <2>1 DEF IngestPage, TypeOK
  <2>2. CASE \E q \in Runs, h \in Grids, n \in 0..MaxTotal, f \in Sequences :
                Complete(q, h, n, f)
    BY <2>2 DEF Complete, TypeOK
  <2>3. CASE \E q \in Runs, h \in Grids, s \in Sequences, page \in Pages :
                PageNext(q, h, s, page)
    BY <2>1, <2>3 DEF PageNext, Ingest, IngestLegacy
  <2>4. CASE \E c \in Calls : StartNext(c)
    <3>1. rawPages' = rawPages /\ completions' = completions
      BY <2>4, ZenonT(60) DEF StartNext, StartStep, StartRead, StartSelect, StartCreate, StartWrite, StartResolve, StartCrash
    <3> QED  BY <3>1
  <2>5. CASE \E q \in Runs, h \in Grids : QuietNext(q, h)
    BY <2>5 DEF QuietNext, IngestDuplicate, CompleteReplay, FailStageRead
  <2>6. CASE FailStep
    BY <2>6 DEF FailStep, FailStageCommit
  <2>7. CASE EndNext
    BY <2>7 DEF EndNext, FailRun, ExportHeartbeat, SweepReceipt, RevokeDevice, DeviceVanishes,
       CancelRuns, ExpireStale, Tick
  <2> QED  BY <1>1, <2>2, <2>3, <2>4, <2>5, <2>6, <2>7 DEF Next
<1>2. CASE UNCHANGED vars
  BY <1>2 DEF vars
<1> QED  BY <1>1, <1>2

(***************************************************************************)
(* Nothing that arrives after a grid is completed changes its pages or its *)
(* completion, in any run.                                                 *)
(***************************************************************************)
THEOREM SealedForever == Spec => SealedIsFrozen
<1>1. TypeOK /\ [Next]_vars =>
         [\A r \in Runs, g \in Grids :
             completions[r][g] # NoCompletion =>
                 rawPages'[r][g] = rawPages[r][g] /\ completions'[r][g] = completions[r][g]]_vars
  BY EvidenceStays
<1> QED  BY <1>1, TypeCorrect, PTL DEF Spec, SealedIsFrozen

-----------------------------------------------------------------------------
(* COMPLETED means verified *)

\* Every completion vouches for its grid, in runs of any state.
SealedVouched ==
    \A r \in Runs, g \in Grids : completions[r][g] # NoCompletion => Vouched(r, g)

\* A completed run has sealed all it planned and nothing failed in it.
Settled(r) ==
    run[r].state = "COMPLETED" /\ run[r].device \notin LegacyDevices =>
        Planned(r) \subseteq Sealed(r) /\ failures[r] = {}

\* START chose to rewrite the plan of a completed run: the run is completed
\* still, and the plan about to be written holds sealed grids only.
Justified(c) ==
    call[c].pc = "write" /\ call[c].choice.from = "COMPLETED" =>
        LET t == call[c].choice.target
        IN  /\ run[t].state = "COMPLETED"
            /\ run[t].device \notin LegacyDevices =>
                  ToSet(call[c].choice.plan) \subseteq Sealed(t)

\* A FAIL-STAGE transaction counts the failure it is about to write.
CountsItself(tx) == tx.grid \in tx.failed

VerifiedInv ==
    /\ TypeOK
    /\ SealedVouched
    /\ \A r \in Runs : Settled(r)
    /\ \A c \in Calls : Justified(c)
    /\ \A tx \in failing : CountsItself(tx)

LEMMA VerifiedInit == Init => VerifiedInv
<1> SUFFICES ASSUME Init PROVE VerifiedInv
  OBVIOUS
<1>1. TypeOK
  BY InitType
<1>2. \A r \in Runs, g \in Grids : completions[r][g] = NoCompletion
  BY DEF Init
<1>3. \A r \in Runs : run[r].state \in {"ABSENT", "RUNNING"}
  <2>1. AbsentRow.state = "ABSENT"
    BY DEF AbsentRow
  <2>2. \A d, p, n : OldRow(d, p, n).state = "RUNNING"
    BY DEF OldRow, NewRow
  <2> QED  BY <2>1, <2>2 DEF Init
<1>4. \A c \in Calls : call[c].pc = "idle"
  BY DEF Init, IdleCall
<1>5. SealedVouched
  BY <1>2 DEF SealedVouched
<1>6. \A r \in Runs : Settled(r)
  BY <1>3 DEF Settled
<1>7. \A c \in Calls : Justified(c)
  BY <1>4 DEF Justified
<1>8. failing = {}
  BY DEF Init
<1> QED
  BY <1>1, <1>5, <1>6, <1>7, <1>8 DEF VerifiedInv

LEMMA SealedOnly ==
    ASSUME TypeOK, [Next]_vars, NEW r \in Runs
    PROVE  Sealed(r) \subseteq Sealed(r)'
BY EvidenceStays DEF Sealed

LEMMA VouchedStep ==
    ASSUME TypeOK, SealedVouched, [Next]_vars
    PROVE  SealedVouched'
<1> SUFFICES ASSUME NEW r \in Runs, NEW g \in Grids, completions'[r][g] # NoCompletion
             PROVE  Vouched(r, g)'
  BY DEF SealedVouched
<1>1. CASE completions[r][g] # NoCompletion
  BY <1>1, EvidenceStays DEF SealedVouched, Vouched
<1>2. CASE completions[r][g] = NoCompletion
  <2>1. PICK q \in Runs, h \in Grids, n \in 0..MaxTotal, f \in Sequences :
            Complete(q, h, n, f)
    BY <1>2, ZenonT(60) DEF Next, StartNext, StartStep, PageNext, QuietNext,
       FailStep, EndNext, vars, rows, StartRead, StartSelect, StartCreate, StartWrite,
       StartResolve, StartCrash, Ingest, IngestLegacy, IngestDuplicate, CompleteReplay,
       FailStageRead, FailStageCommit, FailRun, CancelRuns, RevokeDevice, DeviceVanishes,
       ExportHeartbeat, ExpireStale, SweepReceipt, Tick
  <2>2. /\ q = r /\ h = g
        /\ completions'[r][g] = [expected |-> n, final |-> f]
    BY <1>2, <2>1 DEF Complete, TypeOK
  <2>3. /\ Held(rawPages[r][g]) = 0..f
        /\ TotalRecords(rawPages[r][g]) = n
        /\ rawPages' = rawPages
    BY <2>1, <2>2 DEF Complete, Reconciles, TotalRecords
  <2> QED  BY <2>2, <2>3 DEF Vouched
<1> QED  BY <1>1, <1>2

(***************************************************************************)
(* A COMPLETE call that ends its run leaves nothing planned unsealed; a    *)
(* FAIL-STAGE call never calls a run completed.                            *)
(***************************************************************************)
LEMMA CompleteSettles ==
    ASSUME TypeOK, [Next]_vars, NEW r \in Runs, RowCompletesStage(r),
           run'[r].state = "COMPLETED"
    PROVE  Planned(r)' \subseteq Sealed(r)' /\ failures'[r] = {}
<1>0. run[r] \in RunRow
  BY DEF TypeOK
<1>1. PICK g \in Grids, n \in 0..MaxTotal, f \in Sequences : Complete(r, g, n, f)
  BY DEF RowCompletesStage
<1> DEFINE done == Sealed(r) \union {g}
           failed == failures[r] \ {g}
           count == Cardinality(Planned(r) \intersect done)
           plan == InForce(run[r].plan)
<1>2. run'[r] = SettledRow(run[r], plan, done, failed, count)
  BY <1>1 DEF Complete, TypeOK
<1>3. g \in Sealed(r)'
  <2>1. completions'[r][g] = [expected |-> n, final |-> f]
    BY <1>1 DEF Complete, TypeOK
  <2>2. [expected |-> n, final |-> f] \in Completion
    BY DataAssumption DEF Completion, Sequences
  <2> QED  BY <2>1, <2>2, DataAssumption DEF Sealed, Completion
<1>4. failures'[r] = failed
  BY <1>1 DEF Complete, TypeOK
<1> HIDE DEF done, failed, count, plan
<1>5. /\ failed = {} /\ AllSettled(plan, done \union failed)
      /\ run'[r].plan = run[r].plan
  <2>1. \A p, D, F, k :
           /\ SettledRow(run[r], p, D, F, k).plan = run[r].plan
           /\ SettledRow(run[r], p, D, F, k).state = "COMPLETED" =>
                   F = {} /\ AllSettled(p, D \union F)
    BY <1>0, SettledRowFields
  <2> QED  BY <1>2, <2>1
<1>6. Planned(r)' \subseteq done
  BY <1>5 DEF AllSettled, Planned, plan
<1>7. done \subseteq Sealed(r)'
  BY <1>3, SealedOnly DEF done
<1> QED  BY <1>4, <1>5, <1>6, <1>7

LEMMA FailureDoesNotComplete ==
    ASSUME VerifiedInv, NEW r \in Runs, RowFailsStage(r)
    PROVE  run'[r].state # "COMPLETED"
<1>0. TypeOK /\ run[r] \in RunRow
  BY DEF VerifiedInv, TypeOK
<1>1. PICK tx \in failing : tx.target = r /\ Live(r) /\ FailStageCommit(tx)
  BY DEF RowFailsStage
<1>2. tx \in FailTx /\ tx.grid \in tx.failed
  BY <1>1 DEF VerifiedInv, TypeOK, CountsItself
<1>3. run'[r] = SettledRow(run[r], tx.plan, tx.done, tx.failed, Cardinality(tx.done))
  BY <1>0, <1>1 DEF FailStageCommit, TypeOK
<1>4. tx.failed # {}
  BY <1>2
<1> QED  BY <1>0, <1>3, <1>4 DEF SettledRow, RunRow

(***************************************************************************)
(* A run that START continues in COMPLETED was so before, and its plan is  *)
(* the one that START decided on, or unchanged.                            *)
(***************************************************************************)
LEMMA ContinuedCompleted ==
    ASSUME TypeOK, NEW r \in Runs, NEW c \in Calls, StartWrite(c),
           call[c].choice.target = r, call[c].choice.from = run[r].state,
           run'[r] = ContinuedRow(run[r], call[c].choice),
           run'[r].state = "COMPLETED"
    PROVE  /\ run[r].state = "COMPLETED" /\ run'[r].device = run[r].device
           /\ Planned(r)' \subseteq Planned(r) \union ToSet(call[c].choice.plan)
<1>1. call[c].choice \in Choice /\ run[r] \in RunRow
  BY CallTypes DEF StartWrite, TypeOK
<1> QED  BY <1>1, ContinuedRowType DEF Planned

LEMMA SettledStep ==
    ASSUME VerifiedInv, [Next]_vars, NEW r \in Runs
    PROVE  Settled(r)'
<1> SUFFICES ASSUME run'[r].state = "COMPLETED", run'[r].device \notin LegacyDevices
             PROVE  Planned(r)' \subseteq Sealed(r)' /\ failures'[r] = {}
  BY DEF Settled
<1>0. TypeOK /\ run[r] \in RunRow
  BY DEF VerifiedInv, TypeOK
<1>1. CASE RowCompletesStage(r)
  BY <1>0, <1>1, CompleteSettles DEF Planned, Sealed
<1>2. CASE RowFailsStage(r)
  BY <1>2, FailureDoesNotComplete
<1>3. CASE RowContinued(r)
  <2>1. PICK c \in Calls : /\ StartWrite(c)
                           /\ call[c].choice.target = r
                           /\ call[c].choice.from = run[r].state
                           /\ run'[r] = ContinuedRow(run[r], call[c].choice)
    BY <1>3 DEF RowContinued
  <2>2. /\ run[r].state = "COMPLETED" /\ run'[r].device = run[r].device
        /\ Planned(r)' \subseteq Planned(r) \union ToSet(call[c].choice.plan)
    BY <1>0, <2>1, ContinuedCompleted
  <2>3. ToSet(call[c].choice.plan) \subseteq Sealed(r)
    BY <2>1, <2>2 DEF StartWrite, VerifiedInv, Justified
  <2>4. Planned(r) \subseteq Sealed(r) /\ failures[r] = {}
    BY <2>2 DEF VerifiedInv, Settled
  <2> QED  BY <1>0, <2>1, <2>2, <2>3, <2>4, SealedOnly DEF StartWrite
<1>4. CASE RowKept(r)
  <2>1. Planned(r)' = Planned(r) /\ Planned(r) \subseteq Sealed(r) /\ failures[r] = {}
    BY <1>4 DEF RowKept, VerifiedInv, Settled, Planned
  <2>2. failures'[r] = {}
    <3>1. CASE \E q \in Runs, g \in Grids, n \in 0..MaxTotal, f \in Sequences :
                 Complete(q, g, n, f)
      BY <1>0, <2>1, <3>1 DEF Complete, TypeOK
    <3>2. CASE \E tx \in failing : FailStageCommit(tx)
      <4>1. ~Live(r)
        BY <1>4 DEF RowKept, Live
      <4> QED  BY <1>0, <2>1, <3>2, <4>1 DEF FailStageCommit, TypeOK
    <3>3. CASE \E c \in Calls : StartResolve(c)
      BY <1>0, <2>1, <3>3 DEF StartResolve, TypeOK
    <3>4. CASE UNCHANGED failures
      BY <2>1, <3>4
    <3>5. \/ \E q \in Runs, g \in Grids, n \in 0..MaxTotal, f \in Sequences :
                 Complete(q, g, n, f)
          \/ \E tx \in failing : FailStageCommit(tx)
          \/ \E c \in Calls : StartResolve(c)
          \/ UNCHANGED failures
      BY ZenonT(60) DEF Next, StartNext, StartStep, PageNext, QuietNext, FailStep, EndNext, vars,
       StartRead, StartSelect, StartCreate, StartWrite, StartCrash, Ingest,
         IngestLegacy, IngestDuplicate, CompleteReplay, FailStageRead, FailRun, CancelRuns,
         RevokeDevice, DeviceVanishes, ExportHeartbeat, ExpireStale, SweepReceipt, Tick
    <3> QED  BY <3>1, <3>2, <3>3, <3>4, <3>5
  <2> QED  BY <1>0, <2>1, <2>2, SealedOnly
<1>5. CASE RowFailed(r) \/ RowCreated(r) \/ RowReadByPage(r)
  BY <1>5 DEF RowFailed, RowCreated, RowReadByPage
<1> QED  BY <1>0, <1>1, <1>2, <1>3, <1>4, <1>5, NextRowStep DEF RowStep

(***************************************************************************)
(* A START about to write decided so before, or decides it in this step.   *)
(***************************************************************************)
DecidedAbout(r, choice) ==
    \E b \in BOOLEAN : \E request : choice \in ContinueChoices(r, request, b)

\* The one statement that decides after it has read the terminal runs.
SelectsTerminal(c, choice) ==
    /\ StartSelect(c)
    /\ DecidedAbout(choice.target, choice)
    /\ \/ choice.target \in Resumable(call[c].device)
       \/ choice.target \in NewestCompleted(call[c].device)

\* The one that decides about a live run.
SelectsLive(choice) == DecidedAbout(choice.target, choice) /\ Live(choice.target)

LEMMA WriteOrigin ==
    ASSUME TypeOK, [Next]_vars, NEW c \in Calls, call'[c].pc = "write"
    PROVE  \/ call'[c] = call[c]
           \/ SelectsLive(call'[c].choice)
           \/ SelectsTerminal(c, call'[c].choice)
<1> DEFINE choice == call'[c].choice
<1> USE DEF DecidedAbout, SelectsLive, SelectsTerminal
<1>1. ASSUME NEW e \in Calls, NEW d \in Devices, NEW p \in Requests, NEW i \in Intents,
             NEW a \in BOOLEAN, StartRead(e, d, p, i, a)
      PROVE  call'[c] = call[c] \/ SelectsLive(choice)
  <2>1. CASE e # c
    BY <1>1, <2>1 DEF StartRead, TypeOK
  <2>2. CASE e = c
    <3> DEFINE live == {r \in Runs : run'[r].device = d /\ run'[r].state = "RUNNING"}
    <3>1. LiveWins(live, i)
      BY <1>1, <2>2 DEF StartRead, TypeOK
    <3>2. PICK r \in live : \E ch \in ContinueChoices(r, WithPrerequisite(p), a) :
              call' = [call EXCEPT ![e] = Decided(ch)]
      BY <1>1, <3>1 DEF StartRead
    <3>3. PICK ch \in ContinueChoices(r, WithPrerequisite(p), a) :
              call' = [call EXCEPT ![e] = Decided(ch)]
      BY <3>2
    <3>4. choice = ch
      BY <2>2, <3>3 DEF TypeOK, Decided, IdleCall
    <3>5. Live(r)
      <4>1. PICK scope : run' = FailStale(scope)
        BY <1>1 DEF StartRead
      <4> QED
        BY <3>2, <4>1, FailStaleType, FailedRowType DEF TypeOK, Live
    <3> QED  BY <3>3, <3>4, <3>5, ContinueChoicesType
  <2> QED  BY <2>1, <2>2
<1>2. ASSUME StartSelect(c)
      PROVE  SelectsTerminal(c, choice)
  <2> DEFINE device == call[c].device
             request == call[c].request
             Chosen(r) == \E ch \in ContinueChoices(r, request, FALSE) :
                              call' = [call EXCEPT ![c] = Decided(ch)]
  <2>1. /\ \A S \in FirstRow(Resumable(device)) : S \subseteq Resumable(device)
        /\ \A S \in FirstRow(NewestCompleted(device)) : S \subseteq NewestCompleted(device)
        /\ \A S, T : LatestTerminal(S, T) \subseteq S \union T
    BY DEF FirstRow, LatestTerminal
  <2>2. ~(call' = [call EXCEPT ![c] =
                 [pc |-> "create", device |-> @.device, request |-> @.request]])
    BY DEF TypeOK
  <2>3. PICK found \in FirstRow(Resumable(device)), done \in FirstRow(NewestCompleted(device)) :
          LET resumable == IF call[c].intent = "discardFailedPlans" THEN {} ELSE found
              reusable == {r \in done : ExactPlan(r, request)}
          IN  \E r \in LatestTerminal(resumable, reusable) : Chosen(r)
    BY <1>2, <2>2 DEF StartSelect
  <2> DEFINE resumable == IF call[c].intent = "discardFailedPlans" THEN {} ELSE found
             reusable == {r \in done : ExactPlan(r, request)}
  <2>4. resumable \subseteq Resumable(device) /\ reusable \subseteq NewestCompleted(device)
    BY <2>1, <2>3
  <2>5. LatestTerminal(resumable, reusable) \subseteq resumable \union reusable
    BY <2>1
  <2>6. PICK r \in Resumable(device) \union NewestCompleted(device) : Chosen(r)
    BY <2>3, <2>4, <2>5
  <2>7. PICK ch \in ContinueChoices(r, request, FALSE) :
               call' = [call EXCEPT ![c] = Decided(ch)]
    BY <2>6
  <2>8. choice = ch /\ r \in Runs
    BY <2>7 DEF TypeOK, Decided, IdleCall, Resumable, NewestCompleted
  <2>9. choice.target = r
    <3>1. ch.target = r
      BY <2>8, ContinueChoicesType
    <3> QED  BY <2>8, <3>1
  <2>10. DecidedAbout(choice.target, choice)
    BY <2>7, <2>8, <2>9
  <2>11. choice.target \in Resumable(device) \/ choice.target \in NewestCompleted(device)
    BY <2>6, <2>9
  <2> QED  BY <1>2, <2>10, <2>11
<1>6. ASSUME NEW e \in Calls, e # c, StartSelect(e)
      PROVE  call'[c] = call[c]
  BY <1>6 DEF StartSelect, TypeOK
<1>3. ASSUME NEW e \in Calls,
             StartCreate(e) \/ StartWrite(e) \/ StartResolve(e) \/ StartCrash(e)
      PROVE  call'[c] = call[c]
  BY <1>3 DEF StartCreate, StartWrite, StartResolve, StartCrash, TypeOK, IdleCall
<1>4. CASE UNCHANGED call
  BY <1>4
<1>5. CASE \E e \in Calls : StartNext(e)
  BY <1>1, <1>2, <1>3, <1>5, <1>6 DEF StartNext, StartStep
<1> QED
  BY <1>4, <1>5, ZenonT(60) DEF Next, PageNext, QuietNext,
     FailStep, EndNext, vars, Ingest, IngestLegacy, IngestDuplicate, Complete,
     CompleteReplay, FailStageRead, FailStageCommit, FailRun, CancelRuns, RevokeDevice,
     DeviceVanishes, ExportHeartbeat, ExpireStale, SweepReceipt, Tick

LEMMA JustifiedStep ==
    ASSUME VerifiedInv, [Next]_vars, NEW c \in Calls
    PROVE  Justified(c)'
<1>0. TypeOK /\ TypeOK'
  BY NextType DEF VerifiedInv
<1>1. call'[c].pc = "write" => call'[c].choice \in Choice
  BY <1>0 DEF TypeOK, CallState
<1> SUFFICES ASSUME NEW choice \in Choice, call'[c].pc = "write",
                    choice = call'[c].choice, choice.from = "COMPLETED"
             PROVE  /\ run'[choice.target].state = "COMPLETED"
                    /\ run'[choice.target].device \notin LegacyDevices =>
                          ToSet(choice.plan) \subseteq Sealed(choice.target)'
  BY <1>1 DEF Justified
<1> DEFINE t == choice.target
<1>2. t \in Runs
  BY DEF Choice
<1>3. /\ run[t].state = "COMPLETED" =>
             run'[t].state = "COMPLETED" /\ run'[t].device = run[t].device
      /\ Sealed(t) \subseteq Sealed(t)'
  BY <1>0, <1>2, CompletedStays, SealedOnly
<1>4. CASE call'[c] = call[c]
  <2>1. /\ run[t].state = "COMPLETED"
        /\ run[t].device \notin LegacyDevices => ToSet(choice.plan) \subseteq Sealed(t)
    BY <1>4 DEF VerifiedInv, Justified
  <2> QED  BY <1>3, <2>1
<1>5. CASE DecidedAbout(t, choice)
  <2>1. run[t].state = "COMPLETED" /\ ToSet(choice.plan) \subseteq Planned(t)
    BY <1>0, <1>2, <1>5, ContinueChoicesType DEF DecidedAbout
  <2>2. run[t].device \notin LegacyDevices => Planned(t) \subseteq Sealed(t)
    BY <1>2, <2>1 DEF VerifiedInv, Settled
  <2> QED  BY <1>3, <2>1, <2>2
<1> QED  BY <1>0, <1>4, <1>5, WriteOrigin DEF SelectsLive, SelectsTerminal

LEMMA VerifiedNext == VerifiedInv /\ [Next]_vars => VerifiedInv'
<1> SUFFICES ASSUME VerifiedInv, [Next]_vars PROVE VerifiedInv'
  OBVIOUS
<1>1. TypeOK'
  BY NextType DEF VerifiedInv
<1>2. SealedVouched'
  BY VouchedStep DEF VerifiedInv
<1>3. \A r \in Runs : Settled(r)'
  BY SettledStep
<1>4. \A c \in Calls : Justified(c)'
  BY JustifiedStep
<1>5. \A tx \in failing' : CountsItself(tx)
  <2>1. \/ failing' \subseteq failing
        \/ \E r \in Runs, g \in Grids : FailStageRead(r, g)
    BY ZenonT(60) DEF Next, StartNext, StartStep, PageNext, QuietNext, FailStep, EndNext, vars,
       StartRead, StartSelect, StartCreate, StartWrite, StartResolve,
       StartCrash, Ingest, IngestLegacy, IngestDuplicate, Complete, CompleteReplay,
       FailStageCommit, FailRun, CancelRuns, RevokeDevice, DeviceVanishes, ExportHeartbeat,
       ExpireStale, SweepReceipt, Tick
  <2>2. CASE \E r \in Runs, g \in Grids : FailStageRead(r, g)
    BY <2>2 DEF FailStageRead, CountsItself, VerifiedInv
  <2> QED  BY <2>1, <2>2 DEF VerifiedInv
<1> QED  BY <1>1, <1>2, <1>3, <1>4, <1>5 DEF VerifiedInv, CountsItself

(***************************************************************************)
(* A run the server calls COMPLETED, other than over the retired protocol, *)
(* holds for every grid it planned the exact pages the carrier's totals    *)
(* vouch for, and has no unresolved failure.                               *)
(***************************************************************************)
THEOREM CompletedVerified == Spec => []CompletedMeansVerified
<1>1. Init => VerifiedInv
  BY VerifiedInit
<1>2. VerifiedInv /\ [Next]_vars => VerifiedInv'
  BY VerifiedNext
<1>3. VerifiedInv => CompletedMeansVerified
  BY DEF VerifiedInv, SealedVouched, Settled, Sealed, CompletedMeansVerified, Vouched
<1> QED  BY <1>1, <1>2, <1>3, PTL DEF Spec

-----------------------------------------------------------------------------
(* What a step may do to the pages of one run *)

PagesKept(r) == receipts'[r] = receipts[r] /\ rawPages'[r] = rawPages[r]

PageLanded(r) ==
    \E g \in Grids, s \in Sequences, page \in Pages : IngestPage(r, g, s, page)

ReceiptSwept(r) == \E g \in Grids, s \in Sequences : SweepReceipt(r, g, s)

LEMMA PagesStep ==
    ASSUME TypeOK, [Next]_vars, NEW r \in Runs
    PROVE  PagesKept(r) \/ PageLanded(r) \/ ReceiptSwept(r)
<1>1. ASSUME NEW q \in Runs, NEW g \in Grids, NEW s \in Sequences, NEW page \in Pages,
             IngestPage(q, g, s, page)
      PROVE  PagesKept(r) \/ PageLanded(r)
  <2>1. CASE q = r
    BY <1>1, <2>1 DEF PageLanded, IngestPage, Live, Served, Planned
  <2>2. CASE q # r
    BY <1>1, <2>2 DEF PagesKept, IngestPage, TypeOK
  <2> QED  BY <2>1, <2>2
<1>2. ASSUME NEW q \in Runs, NEW g \in Grids, NEW s \in Sequences, SweepReceipt(q, g, s)
      PROVE  PagesKept(r) \/ ReceiptSwept(r)
  <2>1. CASE q = r
    BY <1>2, <2>1 DEF ReceiptSwept, SweepReceipt, rows
  <2>2. CASE q # r
    BY <1>2, <2>2 DEF PagesKept, SweepReceipt, TypeOK
  <2> QED  BY <2>1, <2>2
<1>3. CASE UNCHANGED <<receipts, rawPages>>
  BY <1>3 DEF PagesKept
<1>4. CASE \E q \in Runs, g \in Grids, s \in Sequences, page \in Pages :
              PageNext(q, g, s, page)
  BY <1>1, <1>4 DEF PageNext, Ingest, IngestLegacy
<1>5. CASE EndNext
  BY <1>2, <1>3, <1>5 DEF EndNext, FailRun, ExportHeartbeat, RevokeDevice, DeviceVanishes,
     CancelRuns, ExpireStale, Tick, rows
<1> QED
  BY <1>3, <1>4, <1>5, ZenonT(60) DEF Next, StartNext, StartStep, QuietNext, FailStep, vars, rows,
     StartRead, StartSelect, StartCreate, StartWrite, StartResolve, StartCrash,
     IngestDuplicate, Complete, CompleteReplay, FailStageRead, FailStageCommit

-----------------------------------------------------------------------------
(* The retired protocol *)

LEMMA PlanCovered ==
    ASSUME NEW plan \in Seq(Grids), NEW S, Cardinality(ToSet(plan) \intersect S) = Len(plan)
    PROVE  ToSet(plan) \subseteq S
<1> DEFINE T == ToSet(plan)
<1>1. T \subseteq Grids
  BY DEF ToSet
<1>2. IsFiniteSet(T)
  BY <1>1, GridCount
<1>3. plan \in Surjection(1..Len(plan), T)
  BY DEF Surjection, ToSet
<1>4. Cardinality(T) <= Len(plan)
  BY <1>3, FS_SurjCardinalityBound DEF ExistsSurjection
<1> HIDE DEF T
<1>5. T \intersect S \in SUBSET T
  OBVIOUS
<1>6. /\ Cardinality(T \intersect S) <= Cardinality(T)
      /\ Cardinality(T) = Cardinality(T \intersect S) => T = T \intersect S
  BY <1>2, <1>5, FS_Subset
<1>7. Cardinality(T) \in Nat /\ Len(plan) \in Nat
  BY <1>2, FS_CardinalityType
<1>8. Cardinality(T \intersect S) = Len(plan)
  BY DEF T
<1> QED  BY <1>4, <1>6, <1>7, <1>8 DEF T

HasFinalPage(r, g) == \E s \in Sequences : rawPages[r][g][s] \in Pages \ TruncatedPages

Evidenced(r, g) == HasFinalPage(r, g) \/ Vouched(r, g)

\* A receipt that is there has its raw page beside it.
ReceiptsAreRaw ==
    \A r \in Runs, g \in Grids, s \in Sequences :
        receipts[r][g][s] # NoPage => receipts[r][g][s] = rawPages[r][g][s]

Answerable(r) == run[r].state = "COMPLETED" => \A g \in Planned(r) : Evidenced(r, g)

\* START rewrites the plan of a completed run with grids that have evidence.
Backed(c) ==
    call[c].pc = "write" /\ call[c].choice.from = "COMPLETED" =>
        LET t == call[c].choice.target
        IN  /\ run[t].state = "COMPLETED"
            /\ \A g \in ToSet(call[c].choice.plan) : Evidenced(t, g)

EvidenceInv ==
    /\ VerifiedInv
    /\ ReceiptsAreRaw
    /\ \A r \in Runs : Answerable(r)
    /\ \A c \in Calls : Backed(c)

LEMMA EvidenceInit == Init => EvidenceInv
<1> SUFFICES ASSUME Init PROVE EvidenceInv
  OBVIOUS
<1>1. VerifiedInv
  BY VerifiedInit
<1>2. ReceiptsAreRaw
  BY DEF Init, ReceiptsAreRaw, NoPages
<1>3. \A r \in Runs : run[r].state \in {"ABSENT", "RUNNING"}
  <2>1. AbsentRow.state = "ABSENT"
    BY DEF AbsentRow
  <2>2. \A d, p, n : OldRow(d, p, n).state = "RUNNING"
    BY DEF OldRow, NewRow
  <2> QED  BY <2>1, <2>2 DEF Init
<1>4. \A c \in Calls : call[c].pc = "idle"
  BY DEF Init, IdleCall
<1> QED  BY <1>1, <1>2, <1>3, <1>4 DEF EvidenceInv, Answerable, Backed

LEMMA RawStep ==
    ASSUME TypeOK, ReceiptsAreRaw, [Next]_vars
    PROVE  ReceiptsAreRaw'
<1> SUFFICES ASSUME NEW r \in Runs, NEW g \in Grids, NEW s \in Sequences,
                    receipts'[r][g][s] # NoPage
             PROVE  receipts'[r][g][s] = rawPages'[r][g][s]
  BY DEF ReceiptsAreRaw
<1>1. CASE PagesKept(r)
  BY <1>1 DEF PagesKept, ReceiptsAreRaw
<1>2. CASE PageLanded(r)
  BY <1>2 DEF PageLanded, IngestPage, TypeOK, ReceiptsAreRaw
<1>3. CASE ReceiptSwept(r)
  BY <1>3 DEF ReceiptSwept, SweepReceipt, rows, TypeOK, ReceiptsAreRaw
<1> QED  BY <1>1, <1>2, <1>3, PagesStep

LEMMA EvidenceKept ==
    ASSUME EvidenceInv, [Next]_vars, NEW r \in Runs, run[r].state = "COMPLETED",
           NEW g \in Grids, Evidenced(r, g)
    PROVE  Evidenced(r, g)'
<1>1. rawPages'[r] = rawPages[r]
  <2>1. ~PageLanded(r)
    BY DEF PageLanded, IngestPage, Live
  <2>2. ReceiptSwept(r) => rawPages' = rawPages
    BY DEF ReceiptSwept, SweepReceipt
  <2> QED  BY <2>1, <2>2, PagesStep DEF EvidenceInv, VerifiedInv, PagesKept
<1>2. Vouched(r, g) => Vouched(r, g)'
  BY EvidenceStays DEF EvidenceInv, VerifiedInv, Vouched
<1> QED  BY <1>1, <1>2 DEF Evidenced, HasFinalPage

LEMMA LegacyCompletes ==
    ASSUME EvidenceInv, NEW r \in Runs, NEW g \in Grids, NEW s \in Sequences,
           NEW page \in Pages, IngestLegacy(r, g, s, page), ReceiptsAreRaw',
           run'[r].state = "COMPLETED"
    PROVE  \A h \in Planned(r)' : HasFinalPage(r, h)'
<1> DEFINE final == FinalGrids(receipts'[r])
           done == Cardinality(Planned(r) \intersect final)
<1>1. TypeOK /\ run[r] \in RunRow
  BY DEF EvidenceInv, VerifiedInv, TypeOK
<1>2. run'[r] = [run[r] EXCEPT
                    !.state = IF done = Len(InForce(run[r].plan)) THEN "COMPLETED" ELSE "RUNNING",
                    !.completedStages = done,
                    !.current = IF done = Len(InForce(run[r].plan)) THEN NoGrid ELSE g,
                    !.idle = 0, !.closed = 0]
  BY <1>1 DEF IngestLegacy, TypeOK
<1> HIDE DEF done
<1>3. done = Len(InForce(run[r].plan)) /\ run'[r].plan = run[r].plan
  BY <1>1, <1>2 DEF RunRow
<1>4. Planned(r) \subseteq final
  BY <1>1, <1>3, PlannedType, PlanCovered DEF done, Planned
<1>5. \A h \in final : HasFinalPage(r, h)'
  BY DataAssumption DEF FinalGrids, ReceiptsAreRaw, HasFinalPage
<1> QED  BY <1>3, <1>4, <1>5 DEF Planned

LEMMA AnswerableStep ==
    ASSUME EvidenceInv, [Next]_vars, ReceiptsAreRaw', SealedVouched', NEW r \in Runs
    PROVE  Answerable(r)'
<1> SUFFICES ASSUME run'[r].state = "COMPLETED", NEW g \in Planned(r)'
             PROVE  Evidenced(r, g)'
  BY DEF Answerable
<1>0. TypeOK /\ TypeOK' /\ run[r] \in RunRow /\ g \in Grids
  <2>1. TypeOK'
    BY NextType DEF EvidenceInv, VerifiedInv
  <2>2. run'[r].plan \in Plans
    BY <2>1 DEF TypeOK, RunRow
  <2>3. InForce(run'[r].plan) \in Seq(Grids)
    BY <2>2, InForceType
  <2>4. g \in Grids
    BY <2>3 DEF Planned, ToSet
  <2> QED  BY <2>1, <2>4 DEF EvidenceInv, VerifiedInv, TypeOK
<1>1. CASE RowKept(r)
  <2>1. run[r].state = "COMPLETED" /\ Planned(r)' = Planned(r)
    BY <1>1 DEF RowKept, Planned
  <2> QED  BY <1>0, <2>1, EvidenceKept DEF EvidenceInv, Answerable
<1>2. CASE RowContinued(r)
  <2>1. PICK c \in Calls : /\ StartWrite(c)
                           /\ call[c].choice.target = r
                           /\ call[c].choice.from = run[r].state
                           /\ run'[r] = ContinuedRow(run[r], call[c].choice)
    BY <1>2 DEF RowContinued
  <2>2. /\ run[r].state = "COMPLETED"
        /\ Planned(r)' \subseteq Planned(r) \union ToSet(call[c].choice.plan)
    BY <1>0, <2>1, ContinuedCompleted
  <2>3. Evidenced(r, g)
    BY <2>1, <2>2 DEF StartWrite, EvidenceInv, Backed, Answerable
  <2> QED  BY <1>0, <2>2, <2>3, EvidenceKept
<1>3. CASE RowCompletesStage(r)
  <2>1. g \in Sealed(r)'
    BY <1>0, <1>3, CompleteSettles DEF Planned, Sealed
  <2> QED  BY <1>0, <2>1 DEF SealedVouched, Sealed, Evidenced
<1>4. CASE RowFailsStage(r)
  BY <1>4, FailureDoesNotComplete DEF EvidenceInv
<1>5. CASE RowFailed(r) \/ RowCreated(r)
  BY <1>5 DEF RowFailed, RowCreated
<1>6. CASE RowReadByPage(r)
  BY <1>6, LegacyCompletes DEF RowReadByPage, Planned, Evidenced, HasFinalPage
<1> QED  BY <1>0, <1>1, <1>2, <1>3, <1>4, <1>5, <1>6, NextRowStep DEF RowStep

LEMMA BackedStep ==
    ASSUME EvidenceInv, [Next]_vars, NEW c \in Calls
    PROVE  Backed(c)'
<1>0. TypeOK /\ TypeOK'
  BY NextType DEF EvidenceInv, VerifiedInv
<1>1. call'[c].pc = "write" => call'[c].choice \in Choice
  BY <1>0 DEF TypeOK, CallState
<1> SUFFICES ASSUME NEW choice \in Choice, call'[c].pc = "write",
                    choice = call'[c].choice, choice.from = "COMPLETED"
             PROVE  /\ run'[choice.target].state = "COMPLETED"
                    /\ \A g \in ToSet(choice.plan) : Evidenced(choice.target, g)'
  BY <1>1 DEF Backed, Evidenced, HasFinalPage, Vouched
<1> DEFINE t == choice.target
<1>2. t \in Runs /\ ToSet(choice.plan) \subseteq Grids
  BY DEF Choice, Plans, ToSet
<1>3. run[t].state = "COMPLETED" /\ \A g \in ToSet(choice.plan) : Evidenced(t, g)
  <2>1. CASE call'[c] = call[c]
    BY <2>1 DEF EvidenceInv, Backed
  <2>2. CASE DecidedAbout(t, choice)
    <3>1. run[t].state = "COMPLETED" /\ ToSet(choice.plan) \subseteq Planned(t)
      BY <1>0, <1>2, <2>2, ContinueChoicesType DEF DecidedAbout
    <3> QED  BY <1>2, <3>1 DEF EvidenceInv, Answerable
  <2> QED  BY <1>0, <2>1, <2>2, WriteOrigin DEF SelectsLive, SelectsTerminal
<1> HIDE DEF t
<1>4. run'[t].state = "COMPLETED"
  BY <1>0, <1>2, <1>3, CompletedStays
<1>5. \A g \in ToSet(choice.plan) : Evidenced(t, g)'
  BY <1>2, <1>3, EvidenceKept
<1> QED  BY <1>4, <1>5 DEF t

(***************************************************************************)
(* A completed run, also one of the retired protocol, which completes by   *)
(* page and counts what it holds, has for every grid it planned a page     *)
(* that was not truncated, or a completion with all its pages.             *)
(***************************************************************************)
THEOREM LegacyCompletedBacked == Spec => []LegacyCompletedHasFinalPages
<1>1. Init => EvidenceInv
  BY EvidenceInit
<1>2. EvidenceInv /\ [Next]_vars => EvidenceInv'
  <2> SUFFICES ASSUME EvidenceInv, [Next]_vars PROVE EvidenceInv'
    OBVIOUS
  <2>1. VerifiedInv'
    BY VerifiedNext DEF EvidenceInv
  <2>2. ReceiptsAreRaw'
    BY RawStep DEF EvidenceInv, VerifiedInv
  <2>3. \A r \in Runs : Answerable(r)'
    BY <2>1, <2>2, AnswerableStep DEF VerifiedInv
  <2>4. \A c \in Calls : Backed(c)'
    BY BackedStep
  <2> QED  BY <2>1, <2>2, <2>3, <2>4 DEF EvidenceInv
<1>3. EvidenceInv => LegacyCompletedHasFinalPages
  BY DEF EvidenceInv, Answerable, Evidenced, HasFinalPage, LegacyCompletedHasFinalPages
<1> QED  BY <1>1, <1>2, <1>3, PTL DEF Spec

-----------------------------------------------------------------------------
(* Receipts *)

\* START no longer takes the run up again.
Outdated(r) ==
    \/ run[r].state = "COMPLETED"
    \/ run[r].state = "FAILED" /\ ~Recent(run[r].idle)
    \/ run[r].state = "PARTIAL" /\ ~Recent(run[r].closed)

\* A run is written to as it ends and at times later.
EndsBeforeIdle(r) == run[r].state \in Terminal => run[r].idle <= run[r].closed

\* The janitor takes receipts of outdated runs only.
SweptOutdated(r) == receipts[r] # rawPages[r] => Outdated(r)

\* A run that START is about to reopen, unless it changed, is not outdated: no
\* tick passes between what START reads and what it writes.
ReopensInTime(c) ==
    call[c].pc = "write" /\ Reopens(call[c].choice) =>
        LET t == call[c].choice.target
        IN  run[t].state = call[c].choice.from => ~Outdated(t)

ReceiptInv ==
    /\ TypeOK
    /\ \A r \in Runs : EndsBeforeIdle(r) /\ SweptOutdated(r)
    /\ \A c \in Calls : ReopensInTime(c)

\* What a step does to the ages of a run that has ended.
Ages(r) ==
    \/ /\ PendingCalls = {} /\ run'[r].state = run[r].state
       /\ run'[r].idle = Older(run[r].idle) /\ run'[r].closed = Older(run[r].closed)
    \/ /\ run'[r].state = run[r].state /\ run'[r].closed = run[r].closed
       /\ \/ run'[r].idle = run[r].idle
          \/ run'[r].idle = 0 /\ run[r].state # "FAILED"
    \/ Live(r) /\ run'[r].idle = 0 /\ run'[r].closed = 0

LEMMA SettledRowAges ==
    ASSUME NEW row \in RunRow, NEW plan, NEW done, NEW failed, NEW count
    PROVE  /\ SettledRow(row, plan, done, failed, count).idle = 0
           /\ SettledRow(row, plan, done, failed, count).closed = 0
BY DEF SettledRow, RunRow

LEMMA FailedRowAges ==
    ASSUME NEW row \in RunRow
    PROVE  FailedRow(row).idle = 0 /\ FailedRow(row).closed = 0
BY DEF FailedRow, RunRow

LEMMA HeartbeatAges ==
    ASSUME TypeOK, NEW r \in Runs, NEW q \in Runs, run[q].state # "FAILED",
           run' = [run EXCEPT ![q].idle = 0]
    PROVE  Ages(r)
<1>1. run[r] \in RunRow /\ run[q] \in RunRow
  BY DEF TypeOK
<1>2. CASE r = q
  <2>1. run'[r] = [run[r] EXCEPT !.idle = 0]
    BY <1>2 DEF TypeOK
  <2> QED  BY <1>1, <1>2, <2>1 DEF Ages, RunRow
<1>3. CASE r # q
  BY <1>3 DEF Ages, TypeOK
<1> QED  BY <1>2, <1>3

LEMMA EndedAges ==
    ASSUME TypeOK, NEW r \in Runs, NEW q \in Runs, Live(q), NEW row,
           row.idle = 0, row.closed = 0, run' = [run EXCEPT ![q] = row]
    PROVE  Ages(r)
BY DEF Ages, TypeOK

LEMMA AgesStep ==
    ASSUME TypeOK, [Next]_vars, NEW r \in Runs, run'[r].state \in Terminal
    PROVE  Ages(r)
<1> USE DEF Ages
<1>0. \A q \in Runs : run[q] \in RunRow
  BY DEF TypeOK
<1>1. ASSUME NEW c \in Calls, StartNext(c)
      PROVE  Ages(r)
  <2>1. ASSUME NEW d \in Devices, NEW p \in Requests, NEW i \in Intents, NEW a \in BOOLEAN,
               StartRead(c, d, p, i, a)
        PROVE  Ages(r)
    BY <1>0, <2>1, FailStaleType, FailedRowAges DEF StartRead, TypeOK
  <2>2. CASE StartCreate(c)
    <3>1. PICK u \in Runs : run' = [run EXCEPT ![u] = NewRow(call[c].device, call[c].request)]
      BY <2>2 DEF StartCreate, Unused
    <3>2. NewRow(call[c].device, call[c].request).state = "RUNNING"
      BY DEF NewRow
    <3> QED  BY <1>0, <3>1, <3>2 DEF TypeOK, Terminal
  <2>3. CASE StartWrite(c)
    <3> DEFINE choice == call[c].choice
    <3>1. choice \in Choice
      BY <2>3, CallTypes DEF StartWrite
    <3>2. CASE run'[r] = run[r]
      BY <3>2
    <3>3. CASE run'[r] = ContinuedRow(run[r], choice) /\ choice.from = run[r].state
      <4>1. ~Reopens(choice)
        BY <1>0, <3>1, <3>3, ContinuedRowType DEF Terminal
      <4>2. /\ run'[r].state = run[r].state /\ run'[r].closed = run[r].closed
            /\ run'[r].idle = 0
        BY <1>0, <3>3, <4>1 DEF ContinuedRow, RunRow
      <4>3. run[r].state # "FAILED"
        BY <3>3, <4>1 DEF Reopens
      <4> QED  BY <4>2, <4>3
    <3> QED
      BY <2>3, <3>1, <3>2, <3>3 DEF StartWrite, TypeOK, Choice
  <2>4. CASE StartSelect(c) \/ StartResolve(c) \/ StartCrash(c)
    BY <2>4 DEF StartSelect, StartResolve, StartCrash
  <2> QED  BY <1>1, <2>1, <2>2, <2>3, <2>4 DEF StartNext, StartStep
<1>2. ASSUME NEW q \in Runs, NEW g \in Grids, NEW s \in Sequences, NEW page \in Pages,
             PageNext(q, g, s, page)
      PROVE  Ages(r)
  <2>1. CASE Ingest(q, g, s, page)
    <3>1. Live(q) /\ run'[q] = [run[q] EXCEPT !.current = g, !.idle = 0]
      BY <1>0, <2>1 DEF Ingest, IngestPage, TypeOK
    <3>2. run'[q].state = "RUNNING"
      BY <1>0, <3>1 DEF Live, RunRow
    <3> QED  BY <2>1, <3>2 DEF Ingest, Terminal, TypeOK
  <2>2. CASE IngestLegacy(q, g, s, page)
    <3>1. PICK row : /\ run' = [run EXCEPT ![q] = row]
                     /\ row.idle = 0 /\ row.closed = 0
      <4> DEFINE done == Cardinality(Planned(q) \intersect FinalGrids(receipts'[q]))
                 row == [run[q] EXCEPT
                            !.state = IF done = Len(InForce(run[q].plan)) THEN "COMPLETED" ELSE "RUNNING",
                            !.completedStages = done,
                            !.current = IF done = Len(InForce(run[q].plan)) THEN NoGrid ELSE g,
                            !.idle = 0, !.closed = 0]
      <4>1. run' = [run EXCEPT ![q] = row]
        BY <2>2 DEF IngestLegacy
      <4>2. row.idle = 0 /\ row.closed = 0
        BY <1>0 DEF RunRow
      <4> HIDE DEF row
      <4> QED  BY <4>1, <4>2
    <3> QED  BY <2>2, <3>1, EndedAges DEF IngestLegacy, IngestPage
  <2> QED  BY <1>2, <2>1, <2>2 DEF PageNext
<1>3. ASSUME NEW q \in Runs, NEW g \in Grids, NEW n \in 0..MaxTotal, NEW f \in Sequences,
             Complete(q, g, n, f)
      PROVE  Ages(r)
  <2>1. PICK done, failed, count :
            run' = [run EXCEPT ![q] = SettledRow(run[q], InForce(run[q].plan), done, failed, count)]
    BY <1>3 DEF Complete
  <2> QED  BY <1>0, <1>3, <2>1, SettledRowAges DEF Complete, TypeOK
<1>4. ASSUME NEW q \in Runs, NEW g \in Grids, QuietNext(q, g)
      PROVE  Ages(r)
  <2>1. \/ run' = run
        \/ run[q].state # "FAILED" /\ run' = [run EXCEPT ![q].idle = 0]
    BY <1>4 DEF QuietNext, IngestDuplicate, CompleteReplay, FailStageRead, Live
  <2> QED  BY <2>1, HeartbeatAges
<1>5. CASE FailStep
  <2>1. PICK tx \in failing : FailStageCommit(tx)
    BY <1>5 DEF FailStep
  <2>2. CASE ~Live(tx.target)
    BY <2>1, <2>2 DEF FailStageCommit
  <2>3. CASE Live(tx.target)
    <3>1. tx.target \in Runs
      BY DEF TypeOK, FailTx
    <3> DEFINE row == SettledRow(run[tx.target], tx.plan, tx.done, tx.failed,
                                 Cardinality(tx.done))
    <3>2. run' = [run EXCEPT ![tx.target] = row]
      BY <2>1, <2>3 DEF FailStageCommit
    <3>3. row.idle = 0 /\ row.closed = 0
      BY <1>0, <3>1, SettledRowAges
    <3> HIDE DEF row
    <3> QED  BY <2>3, <3>1, <3>2, <3>3, EndedAges
  <2> QED  BY <2>2, <2>3
<1>6. CASE EndNext
  <2>1. ASSUME NEW q \in Runs, FailRun(q) \/ ExportHeartbeat(q)
        PROVE  Ages(r)
    <3>1. CASE FailRun(q)
      BY <1>0, <3>1, FailedRowAges, EndedAges DEF FailRun
    <3>2. CASE ExportHeartbeat(q)
      BY <3>2, HeartbeatAges DEF ExportHeartbeat
    <3> QED  BY <2>1, <3>1, <3>2
  <2>2. ASSUME NEW d \in Devices, RevokeDevice(d)
        PROVE  Ages(r)
    BY <1>0, <2>2, FailedRowAges DEF RevokeDevice
  <2>3. CASE CancelRuns
    <3>1. \A q \in Runs : /\ [FailedRow(run[q]) EXCEPT !.current = NoGrid].idle = 0
                          /\ [FailedRow(run[q]) EXCEPT !.current = NoGrid].closed = 0
      BY <1>0, FailedRowAges, FailedRowType DEF RunRow
    <3> QED  BY <2>3, <3>1 DEF CancelRuns
  <2>4. CASE ExpireStale
    BY <1>0, <2>4, FailStaleType, FailedRowAges DEF ExpireStale, TypeOK
  <2>5. CASE Tick
    BY <1>0, <2>5 DEF Tick, RunRow, Live, Terminal
  <2>6. CASE UNCHANGED run
    BY <2>6
  <2> QED
    BY <1>6, <2>1, <2>2, <2>3, <2>4, <2>5, <2>6 DEF EndNext, SweepReceipt, DeviceVanishes
<1>7. CASE UNCHANGED vars
  BY <1>7 DEF vars
<1> QED  BY <1>1, <1>2, <1>3, <1>4, <1>5, <1>6, <1>7 DEF Next

LEMMA OlderOnly ==
    ASSUME NEW age \in 0..AgeCap
    PROVE  /\ age <= Older(age) /\ (~Recent(age) => ~Recent(Older(age)))
           /\ \A other \in 0..AgeCap : age <= other => Older(age) <= Older(other)
BY AgeTypes, WindowAssumption DEF Older, Recent, AgeCap

LEMMA EndsBeforeIdleStep ==
    ASSUME ReceiptInv, [Next]_vars, NEW r \in Runs
    PROVE  EndsBeforeIdle(r)'
<1> SUFFICES ASSUME run'[r].state \in Terminal
             PROVE  run'[r].idle <= run'[r].closed
  BY DEF EndsBeforeIdle
<1>1. TypeOK /\ run[r].idle \in 0..AgeCap /\ run[r].closed \in 0..AgeCap
  BY DEF ReceiptInv, TypeOK, RunRow
<1>2. run'[r].state = run[r].state => run[r].idle <= run[r].closed
  BY DEF ReceiptInv, EndsBeforeIdle
<1> QED  BY <1>1, <1>2, AgesStep, OlderOnly DEF Ages

LEMMA OutdatedStays ==
    ASSUME ReceiptInv, [Next]_vars, NEW r \in Runs, Outdated(r)
    PROVE  Outdated(r)'
<1>0. TypeOK /\ run[r] \in RunRow
  BY DEF ReceiptInv, TypeOK
<1>1. run'[r].state = run[r].state
  <2>1. CASE RowContinued(r)
    <3>1. PICK c \in Calls : /\ StartWrite(c)
                             /\ call[c].choice.target = r
                             /\ call[c].choice.from = run[r].state
                             /\ run'[r] = ContinuedRow(run[r], call[c].choice)
      BY <2>1 DEF RowContinued
    <3>2. call[c].choice \in Choice
      BY <1>0, <3>1, CallTypes DEF StartWrite
    <3>3. ~Reopens(call[c].choice)
      BY <3>1 DEF StartWrite, ReceiptInv, ReopensInTime
    <3> QED  BY <1>0, <3>1, <3>2, <3>3, ContinuedRowType
  <2>2. ~Live(r) /\ run[r].state # "ABSENT"
    BY DEF Outdated, Live
  <2>3. ~RowCompletesStage(r)
    BY <2>2 DEF RowCompletesStage, Complete
  <2> QED
    BY <1>0, <2>1, <2>2, <2>3, NextRowStep DEF RowStep, RowKept, RowFailed, RowCreated,
       RowReadByPage, RowFailsStage
<1>2. run'[r].state \in Terminal /\ ~Live(r)
  BY <1>1 DEF Outdated, Terminal, Live
<1>3. run[r].idle \in 0..AgeCap /\ run[r].closed \in 0..AgeCap
  BY <1>0 DEF RunRow
<1> QED  BY <1>0, <1>1, <1>2, <1>3, AgesStep, OlderOnly DEF Ages, Outdated

LEMMA SweptStep ==
    ASSUME ReceiptInv, [Next]_vars, NEW r \in Runs
    PROVE  SweptOutdated(r)'
<1> SUFFICES ASSUME receipts'[r] # rawPages'[r]
             PROVE  Outdated(r)'
  BY DEF SweptOutdated
<1>0. TypeOK /\ run[r] \in RunRow
  BY DEF ReceiptInv, TypeOK
<1>1. Outdated(r)
  <2>1. CASE PagesKept(r)
    BY <2>1 DEF PagesKept, ReceiptInv, SweptOutdated
  <2>2. CASE PageLanded(r)
    <3>1. PICK g \in Grids, s \in Sequences, page \in Pages : IngestPage(r, g, s, page)
      BY <2>2 DEF PageLanded
    <3>2. receipts[r] # rawPages[r]
      BY <1>0, <3>1 DEF IngestPage, TypeOK
    <3> QED  BY <3>2 DEF ReceiptInv, SweptOutdated
  <2>3. CASE ReceiptSwept(r)
    <3>1. run[r].state \in Terminal /\ run[r].idle > Retention
      BY <2>3 DEF ReceiptSwept, SweepReceipt
    <3>2. run[r].closed >= run[r].idle /\ run[r].idle \in Nat /\ run[r].closed \in Nat
      BY <1>0, <3>1 DEF ReceiptInv, EndsBeforeIdle, RunRow
    <3> QED  BY <3>1, <3>2, WindowAssumption DEF Outdated, Recent, Terminal
  <2> QED  BY <1>0, <2>1, <2>2, <2>3, PagesStep
<1> QED  BY <1>1, OutdatedStays

LEMMA ReopensInTimeStep ==
    ASSUME ReceiptInv, [Next]_vars, NEW c \in Calls
    PROVE  ReopensInTime(c)'
<1>0. TypeOK /\ TypeOK'
  BY NextType DEF ReceiptInv
<1>1. call'[c].pc = "write" => call'[c].choice \in Choice
  BY <1>0 DEF TypeOK, CallState
<1> SUFFICES ASSUME NEW choice \in Choice, call'[c].pc = "write",
                    choice = call'[c].choice, Reopens(choice),
                    run'[choice.target].state = choice.from
             PROVE  ~Outdated(choice.target)'
  BY <1>1 DEF ReopensInTime, Outdated
<1> DEFINE t == choice.target
<1>2. t \in Runs /\ run'[t].state \in {"FAILED", "PARTIAL"}
  BY DEF Choice, Reopens
<1>3. run[t].idle \in 0..AgeCap /\ run[t].closed \in 0..AgeCap
  BY <1>0, <1>2 DEF TypeOK, RunRow
<1>4. CASE call'[c] = call[c]
  <2>1. PendingCalls # {}
    BY <1>4 DEF PendingCalls
  <2>2. run[t].state = choice.from => ~Outdated(t)
    BY <1>4 DEF ReceiptInv, ReopensInTime
  <2> HIDE DEF t
  <2>3. Ages(t)
    BY <1>0, <1>2, AgesStep DEF Terminal
  <2> QED
    BY <1>2, <1>3, <2>1, <2>2, <2>3, WindowAssumption DEF Ages, Outdated, Recent, t
<1>5. CASE SelectsTerminal(c, choice)
  <2>1. choice.from = run[t].state
    BY <1>0, <1>2, <1>5, ContinueChoicesType DEF SelectsTerminal, DecidedAbout
  <2>2. t \in Resumable(call[c].device)
    BY <1>5, <2>1 DEF SelectsTerminal, NewestCompleted, Reopens
  <2>3. run' = run
    BY <1>5 DEF SelectsTerminal, StartSelect
  <2> QED  BY <1>2, <2>2, <2>3 DEF Resumable, Outdated
<1>6. CASE SelectsLive(choice)
  <2>1. choice.from = run[t].state /\ Live(t)
    BY <1>0, <1>2, <1>6, ContinueChoicesType DEF SelectsLive, DecidedAbout
  <2> QED  BY <2>1 DEF Live, Reopens
<1> QED  BY <1>0, <1>4, <1>5, <1>6, WriteOrigin

(***************************************************************************)
(* While a run can take uploads its receipts are those of its raw pages,   *)
(* so that a COMPLETE finds every page it needs: the janitor takes no      *)
(* receipt of a run that START may still reopen, nor of one that START is  *)
(* about to reopen, whatever heartbeats kept the run looking young.        *)
(***************************************************************************)
THEOREM ReceiptsBackLiveRuns == Spec => []ReceiptsBackUploads
<1>1. Init => ReceiptInv
  <2> SUFFICES ASSUME Init PROVE ReceiptInv
    OBVIOUS
  <2>1. TypeOK
    BY InitType
  <2>2. \A r \in Runs : run[r].state \in {"ABSENT", "RUNNING"}
    <3>1. AbsentRow.state = "ABSENT"
      BY DEF AbsentRow
    <3>2. \A d, p, n : OldRow(d, p, n).state = "RUNNING"
      BY DEF OldRow, NewRow
    <3> QED  BY <3>1, <3>2 DEF Init
  <2> QED
    BY <2>1, <2>2 DEF Init, ReceiptInv, EndsBeforeIdle, SweptOutdated, ReopensInTime, Terminal,
       IdleCall
<1>2. ReceiptInv /\ [Next]_vars => ReceiptInv'
  <2> SUFFICES ASSUME ReceiptInv, [Next]_vars PROVE ReceiptInv'
    OBVIOUS
  <2>1. TypeOK'
    BY NextType DEF ReceiptInv
  <2>2. \A r \in Runs : EndsBeforeIdle(r)' /\ SweptOutdated(r)'
    BY EndsBeforeIdleStep, SweptStep
  <2>3. \A c \in Calls : ReopensInTime(c)'
    BY ReopensInTimeStep
  <2> QED  BY <2>1, <2>2, <2>3 DEF ReceiptInv
<1>3. ReceiptInv => ReceiptsBackUploads
  BY DEF ReceiptInv, SweptOutdated, Outdated, ReceiptsBackUploads, Live
<1> QED  BY <1>1, <1>2, <1>3, PTL DEF Spec

-----------------------------------------------------------------------------
(* One live run per device *)

\* The device a START is about.
Caller(c) == IF call[c].pc \in {"select", "create"} THEN call[c].device
             ELSE run[call[c].choice.target].device

\* The hypothesis: the extension of one device waits for the answer of a START
\* before it sends another.  Other devices, and all other requests, do not wait.
OneStartAtATime ==
    \A c, e \in Calls : c \in PendingCalls /\ e \in PendingCalls /\ Caller(c) = Caller(e) => c = e

\* A START that may still turn a run live.
MayOpen(c) ==
    \/ call[c].pc \in {"select", "create"}
    \/ call[c].pc = "write" /\ Reopens(call[c].choice)

\* Such a START found no live run of its device, and none has come up since.
\* The run it reopens exists, so its device is settled.
Clear(c) ==
    MayOpen(c) => /\ \A r \in Runs : Live(r) => run[r].device # Caller(c)
                  /\ call[c].pc = "write" => run[call[c].choice.target].state # "ABSENT"

OneLiveInv == TypeOK /\ OneLiveRun /\ \A c \in Calls : Clear(c)

LEMMA RowStays ==
    ASSUME TypeOK, [Next]_vars, NEW r \in Runs, run[r].state # "ABSENT"
    PROVE  run'[r].state # "ABSENT" /\ run'[r].device = run[r].device
<1>0. run[r] \in RunRow
  BY DEF TypeOK
<1>1. CASE RowContinued(r)
  <2>1. PICK c \in Calls : StartWrite(c) /\ run'[r] = ContinuedRow(run[r], call[c].choice)
    BY <1>1 DEF RowContinued
  <2>2. call[c].choice \in Choice
    BY <2>1, CallTypes DEF StartWrite
  <2> QED  BY <1>0, <2>1, <2>2, ContinuedRowType
<1>2. CASE RowCompletesStage(r) \/ RowFailsStage(r)
  <2>1. PICK plan, done, failed, count :
            run'[r] = SettledRow(run[r], plan, done, failed, count)
    <3>1. CASE RowCompletesStage(r)
      BY <3>1 DEF RowCompletesStage, Complete, TypeOK
    <3>2. CASE RowFailsStage(r)
      BY <3>2 DEF RowFailsStage, FailStageCommit, TypeOK
    <3> QED  BY <1>2, <3>1, <3>2
  <2> QED  BY <1>0, <2>1, SettledRowExists
<1>3. CASE RowReadByPage(r)
  BY <1>0, <1>3 DEF RowReadByPage, IngestLegacy, TypeOK, RunRow
<1> QED
  BY <1>1, <1>2, <1>3, NextRowStep DEF RowStep, RowKept, RowFailed, RowCreated

\* The statement of START that turns run r live.
Opens(c, r) ==
    /\ MayOpen(c) /\ ~MayOpen(c)'
    /\ c \in PendingCalls
    /\ Caller(c) = run'[r].device
    /\ \A q \in Runs \ {r} : run'[q] = run[q]

LEMMA BecomesLive ==
    ASSUME TypeOK, [Next]_vars, NEW r \in Runs, ~Live(r), Live(r)'
    PROVE  \E c \in Calls : Opens(c, r)
<1>0. run[r] \in RunRow
  BY DEF TypeOK
<1>1. CASE RowContinued(r)
  <2>1. PICK c \in Calls : /\ StartWrite(c)
                           /\ call[c].choice.target = r
                           /\ call[c].choice.from = run[r].state
                           /\ run'[r] = ContinuedRow(run[r], call[c].choice)
    BY <1>1 DEF RowContinued
  <2>2. call[c].choice \in Choice
    BY <2>1, CallTypes DEF StartWrite
  <2>3. Reopens(call[c].choice) /\ run'[r].device = run[r].device
    BY <1>0, <2>1, <2>2, ContinuedRowType DEF Live
  <2>4. MayOpen(c) /\ c \in PendingCalls /\ Caller(c) = run[r].device
    BY <2>1, <2>3 DEF MayOpen, StartWrite, PendingCalls, Caller
  <2>5. call'[c].pc = "resolve"
    BY <2>1, <2>3 DEF StartWrite, TypeOK
  <2>6. \A q \in Runs \ {r} : run'[q] = run[q]
    BY <2>1 DEF StartWrite, TypeOK
  <2> QED  BY <2>3, <2>4, <2>5, <2>6 DEF Opens, MayOpen
<1>2. CASE RowCreated(r)
  <2>1. PICK c \in Calls : /\ StartCreate(c)
                           /\ run' = [run EXCEPT ![r] = NewRow(call[c].device, call[c].request)]
    BY <1>2 DEF RowCreated
  <2>2. run'[r].device = call[c].device
    <3>1. NewRow(call[c].device, call[c].request).device = call[c].device
      BY DEF NewRow
    <3> QED  BY <2>1, <3>1 DEF TypeOK
  <2>3. MayOpen(c) /\ c \in PendingCalls /\ Caller(c) = call[c].device
    BY <2>1 DEF MayOpen, StartCreate, PendingCalls, Caller
  <2>4. call'[c].pc = "idle"
    BY <2>1 DEF StartCreate, TypeOK, IdleCall
  <2>5. \A q \in Runs \ {r} : run'[q] = run[q]
    BY <2>1 DEF TypeOK
  <2> QED  BY <2>2, <2>3, <2>4, <2>5 DEF Opens, MayOpen
<1>3. ~(RowKept(r) \/ RowFailed(r) \/ RowReadByPage(r) \/ RowFailsStage(r))
  BY DEF RowKept, RowFailed, RowReadByPage, RowFailsStage, Live
<1>4. ~RowCompletesStage(r)
  BY DEF RowCompletesStage, Complete
<1> QED  BY <1>1, <1>2, <1>3, <1>4, NextRowStep DEF RowStep

\* A START before its last statement was there already, or has just found that
\* its device has no live run, or goes on with the device it was asked by.
LEMMA OpeningOrigin ==
    ASSUME TypeOK, [Next]_vars, NEW c \in Calls, call'[c].pc \in {"select", "create"}
    PROVE  \/ call'[c] = call[c]
           \/ \A r \in Runs : Live(r)' => run'[r].device # call'[c].device
           \/ /\ call[c].pc = "select" /\ run' = run
              /\ call'[c].device = call[c].device
<1>1. ASSUME NEW e \in Calls, NEW d \in Devices, NEW p \in Requests, NEW i \in Intents,
             NEW a \in BOOLEAN, StartRead(e, d, p, i, a), e = c
      PROVE  \A r \in Runs : Live(r)' => run'[r].device # call'[c].device
  <2> DEFINE live == {r \in Runs : run'[r].device = d /\ run'[r].state = "RUNNING"}
             asks == [pc |-> "select", device |-> d, request |-> WithPrerequisite(p),
                      intent |-> i]
  <2>1. \A choice : Decided(choice).pc \notin {"select", "create"}
    BY DEF Decided, IdleCall
  <2>2. ~LiveWins(live, i) /\ call' = [call EXCEPT ![e] = asks]
    BY <1>1, <2>1 DEF StartRead, TypeOK
  <2>3. call'[c].device = d
    BY <1>1, <2>2 DEF TypeOK
  <2> QED  BY <2>2, <2>3 DEF LiveWins, Live
<1>2. ASSUME StartSelect(c)
      PROVE  /\ call[c].pc = "select" /\ run' = run
             /\ call'[c].device = call[c].device
  <2>1. \A choice : Decided(choice).pc \notin {"select", "create"}
    BY DEF Decided, IdleCall
  <2>2. \/ call' = [call EXCEPT ![c] = [pc |-> "create", device |-> @.device,
                                        request |-> @.request]]
        \/ \E choice : call' = [call EXCEPT ![c] = Decided(choice)]
    BY <1>2 DEF StartSelect
  <2>3. call'[c].device = call[c].device
    BY <2>1, <2>2 DEF TypeOK
  <2> QED  BY <1>2, <2>3 DEF StartSelect
<1>3. ASSUME NEW e \in Calls,
             StartCreate(e) \/ StartWrite(e) \/ StartResolve(e) \/ StartCrash(e)
      PROVE  call'[c] = call[c]
  BY <1>3 DEF StartCreate, StartWrite, StartResolve, StartCrash, TypeOK, IdleCall
<1>4. ASSUME NEW e \in Calls, e # c, StartSelect(e)
      PROVE  call'[c] = call[c]
  BY <1>4 DEF StartSelect, TypeOK
<1>5. ASSUME NEW e \in Calls, e # c, NEW d \in Devices, NEW p \in Requests, NEW i \in Intents,
             NEW a \in BOOLEAN, StartRead(e, d, p, i, a)
      PROVE  call'[c] = call[c]
  BY <1>5 DEF StartRead, TypeOK
<1>6. CASE \E e \in Calls : StartNext(e)
  BY <1>1, <1>2, <1>3, <1>4, <1>5, <1>6 DEF StartNext, StartStep
<1>7. CASE UNCHANGED call
  BY <1>7
<1> QED
  BY <1>6, <1>7, ZenonT(60) DEF Next, PageNext, QuietNext,
     FailStep, EndNext, vars, Ingest, IngestLegacy, IngestDuplicate, Complete,
     CompleteReplay, FailStageRead, FailStageCommit, FailRun, CancelRuns,
     RevokeDevice, DeviceVanishes, ExportHeartbeat, ExpireStale, SweepReceipt, Tick

LEMMA ClearStep ==
    ASSUME OneLiveInv, OneStartAtATime, [Next]_vars, NEW c \in Calls
    PROVE  Clear(c)'
<1>0. TypeOK /\ TypeOK' /\ Clear(c)
  BY NextType DEF OneLiveInv
<1> SUFFICES ASSUME MayOpen(c)'
             PROVE  /\ \A r \in Runs : Live(r)' => run'[r].device # Caller(c)'
                    /\ call'[c].pc = "write" => run'[call'[c].choice.target].state # "ABSENT"
  BY DEF Clear, Live
<1>1. CASE call'[c] = call[c]
  <2>1. MayOpen(c) /\ c \in PendingCalls
    BY <1>1 DEF MayOpen, PendingCalls
  <2>2. call[c].pc = "write" => /\ call[c].choice.target \in Runs
                                /\ run[call[c].choice.target].state # "ABSENT"
    BY <1>0, <2>1, CallTypes DEF Clear, Choice
  <2>3. Caller(c)' = Caller(c)
    BY <1>0, <1>1, <2>1, <2>2, RowStays DEF Caller, MayOpen
  <2>4. ASSUME NEW r \in Runs, Live(r)', run'[r].device = Caller(c)
        PROVE  FALSE
    <3>1. ~Live(r)
      <4>1. Live(r) => run'[r].device = run[r].device
        BY <1>0, RowStays DEF Live
      <4> QED  BY <1>0, <2>1, <2>4, <4>1 DEF Clear
    <3>2. PICK e \in Calls : Opens(e, r)
      BY <1>0, <2>4, <3>1, BecomesLive
    <3>3. e = c
      BY <2>1, <2>4, <3>2 DEF Opens, OneStartAtATime
    <3>4. ~MayOpen(c)'
      BY <3>2, <3>3 DEF Opens, MayOpen
    <3> QED  BY <3>4
  <2> QED  BY <1>0, <1>1, <2>2, <2>3, <2>4, RowStays
<1>2. CASE call'[c] # call[c] /\ call'[c].pc \in {"select", "create"}
  <2>1. Caller(c)' = call'[c].device
    BY <1>2 DEF Caller
  <2>2. CASE call[c].pc = "select" /\ run' = run /\ call'[c].device = call[c].device
    BY <1>0, <1>2, <2>1, <2>2 DEF Clear, MayOpen, Caller, Live
  <2> QED  BY <1>0, <1>2, <2>1, <2>2, OpeningOrigin
<1>3. CASE call'[c] # call[c] /\ call'[c].pc = "write"
  <2> DEFINE choice == call'[c].choice
             t == choice.target
  <2>1. Reopens(choice) /\ choice \in Choice /\ t \in Runs
    BY <1>0, <1>3, CallTypes DEF MayOpen, TypeOK, CallState, Choice
  <2> HIDE DEF choice
  <2>2. choice.from = run[t].state /\ ~Live(t)
    <3>1. DecidedAbout(t, choice)
      BY <1>0, <1>3, WriteOrigin DEF choice, SelectsLive, SelectsTerminal
    <3> QED  BY <1>0, <2>1, <3>1, ContinueChoicesType DEF DecidedAbout, Reopens, Live
  <2>3. StartSelect(c) /\ t \in Resumable(call[c].device) \union NewestCompleted(call[c].device)
    BY <1>0, <1>3, <2>2, WriteOrigin DEF choice, SelectsLive, SelectsTerminal
  <2>4. run[t].device = call[c].device
    BY <2>3 DEF Resumable, NewestCompleted
  <2>5. run' = run /\ call[c].pc = "select"
    BY <2>3 DEF StartSelect
  <2>6. Caller(c)' = Caller(c) /\ MayOpen(c)
    BY <1>3, <2>4, <2>5 DEF Caller, MayOpen, choice
  <2> QED
    BY <1>0, <1>3, <2>1, <2>2, <2>5, <2>6 DEF Clear, Live, Reopens, choice
<1> QED  BY <1>1, <1>2, <1>3 DEF MayOpen

LEMMA OneLiveRunStep ==
    ASSUME OneLiveInv, [Next]_vars
    PROVE  OneLiveRun'
<1>0. TypeOK
  BY DEF OneLiveInv
<1> SUFFICES ASSUME NEW r \in Runs, NEW q \in Runs, Live(r)', Live(q)',
                    run'[r].device = run'[q].device, r # q
             PROVE  FALSE
  BY DEF OneLiveRun, Live
<1>1. ASSUME NEW x \in Runs, Live(x)
      PROVE  run'[x].device = run[x].device
  BY <1>0, <1>1, RowStays DEF Live
<1>2. ASSUME NEW x \in Runs, NEW y \in Runs, x # y, Live(x)', Live(y)', ~Live(x),
             run'[x].device = run'[y].device
      PROVE  FALSE
  <2>1. PICK c \in Calls : Opens(c, x)
    BY <1>0, <1>2, BecomesLive
  <2>2. Live(y) /\ run[y].device = Caller(c)
    BY <1>2, <2>1 DEF Opens, Live
  <2> QED  BY <2>1, <2>2 DEF Opens, OneLiveInv, Clear
<1> QED  BY <1>1, <1>2 DEF OneLiveInv, OneLiveRun

(***************************************************************************)
(* As long as a device sends one START at a time, it never has two live    *)
(* runs: what START found before its last statement still holds there,     *)
(* whatever pages, failures, cancellations, timeouts and other devices'    *)
(* STARTs come in between.                                                 *)
(***************************************************************************)
THEOREM OneRunPerDevice == Spec /\ []OneStartAtATime => []OneLiveRun
<1>1. Init => OneLiveInv
  <2> SUFFICES ASSUME Init PROVE OneLiveInv
    OBVIOUS
  <2>1. \A r, q \in Runs : Live(r) /\ Live(q) => r = q
    <3>1. AbsentRow.state = "ABSENT"
      BY DEF AbsentRow
    <3>2. \A r \in Runs : r # 1 => run[r] = AbsentRow
      BY DEF Init
    <3> QED  BY <3>1, <3>2 DEF Live
  <2>2. \A c \in Calls : call[c].pc = "idle"
    BY DEF Init, IdleCall
  <2> QED  BY <2>1, <2>2, InitType DEF OneLiveInv, OneLiveRun, Clear, MayOpen
<1>2. OneLiveInv /\ OneStartAtATime /\ [Next]_vars => OneLiveInv'
  <2> SUFFICES ASSUME OneLiveInv, OneStartAtATime, [Next]_vars PROVE OneLiveInv'
    OBVIOUS
  <2>1. TypeOK'
    BY NextType DEF OneLiveInv
  <2>2. \A c \in Calls : Clear(c)'
    BY ClearStep
  <2> QED  BY <2>1, <2>2, OneLiveRunStep DEF OneLiveInv
<1>3. OneLiveInv => OneLiveRun
  BY DEF OneLiveInv
<1> QED  BY <1>1, <1>2, <1>3, PTL DEF Spec
=============================================================================
