----------------------- MODULE VerifiedSnapshotProofs -----------------------
(***************************************************************************)
(* The published reports are verified snapshots, for any number of         *)
(* devices, runs, grids and rows, and any clocks; and pruning spares what  *)
(* was verified, if the devices' clocks agree.                             *)
(***************************************************************************)
EXTENDS VerifiedSnapshot, LocalConnectorRunProofs

(***************************************************************************)
(* Landing, publishing and pruning take nothing away from the run service  *)
(* and add nothing to it: what is proved of Spec holds here.               *)
(***************************************************************************)
THEOREM SnapshotsRefineRuns == SnapSpec => Spec
<1>1. SnapInit => Init
  BY DEF SnapInit
<1>2. [SnapNext]_<<vars, snapVars>> => [Next]_vars
  <2>1. SnapNext => Next
    BY DEF SnapNext, LandNext, PublishNext, OtherNext, Next
  <2> QED  BY <2>1
<1> QED  BY <1>1, <1>2, PTL DEF SnapSpec, Spec

-----------------------------------------------------------------------------
(* The inductive invariant *)

\* The cursor of a grid names a completion, at the time that was sealed.
CursorSound(g) ==
    cursor[g] # NoCursor =>
        /\ cursor[g].run \in Runs
        /\ completions[cursor[g].run][g] # NoCompletion
        /\ sealedAt[cursor[g].run][g] = cursor[g].at

\* A completion has a time.
Stamped(r, g) == completions[r][g] # NoCompletion => sealedAt[r][g] > Never

\* The rows of one grid: PublishedMatchesCursor is this of every report grid.
RowsSound(g) ==
    /\ \A k \in Keys : published[g][k] # NoRun =>
          /\ completions[published[g][k]][g] # NoCompletion
          /\ k \in KeysIn(rawPages[published[g][k]][g])
          /\ g \in HistoricalGrids \/ published[g][k] = cursor[g].run
    /\ cursor[g] # NoCursor =>
          \A k \in KeysIn(rawPages[cursor[g].run][g]) : published[g][k] = cursor[g].run

PublishedInv ==
    /\ TypeOK /\ SnapTypeOK
    /\ \A r \in Runs, g \in Grids : Stamped(r, g)
    /\ \A g \in ReportGrids : CursorSound(g) /\ RowsSound(g)

LEMMA KeysInType ==
    ASSUME NEW pages \in [Sequences -> Pages \union {NoPage}]
    PROVE  KeysIn(pages) \subseteq Keys
BY SnapshotAssumption DEF KeysIn, Held

LEMMA PublishedInit == SnapInit => PublishedInv
<1> SUFFICES ASSUME SnapInit PROVE PublishedInv
  OBVIOUS
<1>1. TypeOK
  BY InitType DEF SnapInit
<1>2. SnapTypeOK
  BY DEF SnapInit, SnapTypeOK, NoCursor, Never, NoRun
<1>3. \A r \in Runs, g \in Grids : Stamped(r, g)
  BY DEF SnapInit, Init, Stamped
<1>4. ASSUME NEW g \in ReportGrids PROVE CursorSound(g) /\ RowsSound(g)
  <2>1. /\ g \in Grids /\ cursor[g] = NoCursor
        /\ \A k \in Keys : published[g][k] = NoRun
    BY SnapshotAssumption DEF SnapInit
  <2> QED  BY <2>1 DEF CursorSound, RowsSound
<1> QED  BY <1>1, <1>2, <1>3, <1>4 DEF PublishedInv

LEMMA SnapTypeStep ==
    ASSUME TypeOK, SnapTypeOK, [SnapNext]_<<vars, snapVars>>
    PROVE  SnapTypeOK'
<1>1. ASSUME NEW r \in Runs, NEW g \in Grids, NEW s \in Sequences, NEW page \in Pages,
             NEW t \in 1..MaxRead, Land(r, g, page, t)
      PROVE  SnapTypeOK'
  <2>1. t \in Nat /\ run[r].device \in Devices
    BY SnapshotAssumption DEF TypeOK, RunRow
  <2>2. \A k \in Keys : (IF k \in KeysOf[page] THEN t ELSE snapshot[g][k]) \in Nat
    BY <2>1 DEF SnapTypeOK
  <2>3. snapshot' \in [Grids -> [Keys -> Nat]]
    BY <1>1, <2>2 DEF Land, SnapTypeOK
  <2>4. observed' \in [Runs -> [Grids -> Nat]]
    BY <1>1, <2>1 DEF Land, SnapTypeOK
  <2> QED  BY <1>1, <2>1, <2>3, <2>4 DEF Land, SnapTypeOK
<1>2. ASSUME NEW r \in Runs, NEW g \in Grids, NEW now \in 1..MaxSealed, Publish(r, g, now)
      PROVE  SnapTypeOK'
  <2> DEFINE at == IF completions[r][g] = NoCompletion THEN now ELSE sealedAt[r][g]
  <2>1. at \in Nat
    BY SnapshotAssumption DEF SnapTypeOK
  <2>2. Materialized(r, g, at) \in [Keys -> Runs \union {NoRun}]
    BY DEF Materialized, SnapTypeOK
  <2>3. Pruned(r, g) \in [Keys -> Nat]
    BY DEF Pruned, SnapTypeOK, Never
  <2> HIDE DEF at
  <2>4. /\ sealedAt' = [sealedAt EXCEPT ![r][g] = at]
        /\ cursor' \in {cursor, [cursor EXCEPT ![g] = [run |-> r, at |-> at]]}
        /\ published' = [published EXCEPT ![g] = Materialized(r, g, at)]
        /\ snapshot' \in {snapshot, [snapshot EXCEPT ![g] = Pruned(r, g)]}
        /\ verified' \in {verified, [verified EXCEPT ![g] = r]}
        /\ UNCHANGED <<clock, observed>>
    BY <1>2 DEF Publish, at
  <2>5. sealedAt' \in [Runs -> [Grids -> Nat]]
    BY <2>1, <2>4 DEF SnapTypeOK
  <2>6. cursor' \in [Grids -> [run : Runs \union {NoRun}, at : Nat]]
    <3>1. [run |-> r, at |-> at] \in [run : Runs \union {NoRun}, at : Nat]
      BY <2>1
    <3> QED  BY <2>4, <3>1 DEF SnapTypeOK
  <2>7. published' \in [Grids -> [Keys -> Runs \union {NoRun}]]
    BY <2>2, <2>4 DEF SnapTypeOK
  <2>8. snapshot' \in [Grids -> [Keys -> Nat]]
    BY <2>3, <2>4 DEF SnapTypeOK
  <2>9. verified' \in [Grids -> Runs \union {NoRun}]
    BY <2>4 DEF SnapTypeOK
  <2> QED  BY <2>4, <2>5, <2>6, <2>7, <2>8, <2>9 DEF SnapTypeOK
<1>3. CASE UNCHANGED snapVars
  BY <1>3 DEF snapVars, SnapTypeOK
<1> QED
  BY <1>1, <1>2, <1>3 DEF SnapNext, LandNext, PublishNext, OtherNext

\* A step that neither publishes nor completes leaves what was published sound,
\* since the evidence it names stays.
LEMMA QuietGrid ==
    ASSUME TypeOK, SnapTypeOK, [Next]_vars, NEW g \in ReportGrids, CursorSound(g), RowsSound(g),
           cursor'[g] = cursor[g], published'[g] = published[g],
           \A r \in Runs : completions[r][g] # NoCompletion => sealedAt'[r][g] = sealedAt[r][g]
    PROVE  CursorSound(g)' /\ RowsSound(g)'
<1>1. g \in Grids
  BY SnapshotAssumption
<1>2. \A r \in Runs : completions[r][g] # NoCompletion =>
          rawPages'[r][g] = rawPages[r][g] /\ completions'[r][g] = completions[r][g]
  BY <1>1, EvidenceStays
<1>3. CursorSound(g)'
  BY <1>2 DEF CursorSound
<1>4. \A k \in Keys : published[g][k] # NoRun => published[g][k] \in Runs
  BY <1>1 DEF SnapTypeOK
<1>5. \A r \in Runs : completions[r][g] # NoCompletion =>
          KeysIn(rawPages'[r][g]) = KeysIn(rawPages[r][g])
  BY <1>2
<1>6. ASSUME NEW k \in Keys, published[g][k] # NoRun
      PROVE  /\ completions'[published[g][k]][g] # NoCompletion
             /\ k \in KeysIn(rawPages'[published[g][k]][g])
             /\ g \in HistoricalGrids \/ published[g][k] = cursor[g].run
  BY <1>2, <1>4, <1>5, <1>6 DEF RowsSound
<1>7. cursor[g] # NoCursor =>
          \A k \in KeysIn(rawPages'[cursor[g].run][g]) : published[g][k] = cursor[g].run
  BY <1>5 DEF RowsSound, CursorSound
<1>8. RowsSound(g)'
  BY <1>6, <1>7 DEF RowsSound
<1> QED  BY <1>3, <1>8

\* The grid that is completed.
LEMMA PublishedGrid ==
    ASSUME PublishedInv, NEW r \in Runs, NEW g \in ReportGrids,
           NEW n \in 0..MaxTotal, NEW f \in Sequences, NEW now \in 1..MaxSealed,
           Complete(r, g, n, f), Publish(r, g, now)
    PROVE  /\ CursorSound(g)' /\ RowsSound(g)'
           /\ cursor'[g] # cursor[g] => cursor'[g].at > cursor[g].at
<1> DEFINE at == IF completions[r][g] = NoCompletion THEN now ELSE sealedAt[r][g]
<1>0. /\ TypeOK /\ SnapTypeOK /\ g \in Grids /\ CursorSound(g) /\ RowsSound(g)
      /\ \A k \in Keys : published[g][k] \in Runs \union {NoRun}
  BY SnapshotAssumption DEF PublishedInv, SnapTypeOK
<1>1. /\ rawPages' = rawPages
      /\ completions'[r][g] # NoCompletion
      /\ \A q \in Runs : completions[q][g] # NoCompletion => completions'[q][g] # NoCompletion
  <2>1. [expected |-> n, final |-> f] # NoCompletion
    BY DataAssumption DEF Sequences
  <2> QED  BY <1>0, <2>1 DEF Complete, TypeOK
<1>2. /\ at \in Nat /\ at > Never
      /\ completions[r][g] # NoCompletion => at = sealedAt[r][g]
  BY <1>0, SnapshotAssumption DEF PublishedInv, Stamped, SnapTypeOK, Never
<1>3. /\ sealedAt'[r][g] = at
      /\ \A q \in Runs : completions[q][g] # NoCompletion => sealedAt'[q][g] = sealedAt[q][g]
      /\ published'[g] = Materialized(r, g, at)
      /\ cursor'[g] = IF Advances(r, g, at) THEN [run |-> r, at |-> at] ELSE cursor[g]
  BY <1>0 DEF Publish, SnapTypeOK
<1> HIDE DEF at
<1>4. CASE Advances(r, g, at)
  <2>1. cursor'[g] = [run |-> r, at |-> at]
    BY <1>3, <1>4
  <2>2. cursor[g] = NoCursor \/ cursor[g].run = r \/ cursor[g].at < at
    BY <1>4 DEF Advances
  <2>3. CursorSound(g)'
    BY <1>1, <1>3, <2>1 DEF CursorSound
  <2>4. \A k \in Keys : published'[g][k] =
            IF k \in KeysIn(rawPages[r][g]) THEN r
            ELSE IF g \in HistoricalGrids THEN published[g][k] ELSE NoRun
    BY <1>3, <1>4 DEF Materialized
  <2>5. rawPages[r][g] \in [Sequences -> Pages \union {NoPage}] /\ KeysIn(rawPages[r][g])' = KeysIn(rawPages[r][g])
    BY <1>0, <1>1 DEF TypeOK, KeysIn, Held
  <2>6. RowsSound(g)'
    BY <1>0, <1>1, <2>1, <2>4, <2>5, KeysInType DEF RowsSound, NoRun, Runs
  <2>7. cursor'[g] # cursor[g] => cursor'[g].at > cursor[g].at
    <3>1. CASE cursor[g] = NoCursor
      BY <1>2, <2>1, <3>1 DEF NoCursor
    <3>2. CASE cursor[g] # NoCursor /\ cursor[g].run = r
      <4>1. cursor[g].at = at
        BY <1>0, <1>2, <3>2 DEF CursorSound
      <4>2. cursor[g] = [run |-> cursor[g].run, at |-> cursor[g].at]
        BY <1>0 DEF SnapTypeOK
      <4> QED  BY <2>1, <3>2, <4>1, <4>2
    <3>3. CASE cursor[g].at < at
      BY <1>0, <1>2, <2>1, <3>3 DEF SnapTypeOK
    <3> QED  BY <2>2, <3>1, <3>2, <3>3
  <2> QED  BY <2>3, <2>6, <2>7
<1>5. CASE ~Advances(r, g, at)
  <2>1. cursor'[g] = cursor[g]
    BY <1>3, <1>5
  <2>2. \A k \in Keys : published'[g][k] = published[g][k]
    BY <1>3, <1>5 DEF Materialized
  <2>3. CursorSound(g)'
    BY <1>0, <1>1, <1>3, <2>1 DEF CursorSound
  <2>4. RowsSound(g)'
    <3>1. ASSUME NEW k \in Keys, published[g][k] # NoRun
          PROVE  /\ completions'[published[g][k]][g] # NoCompletion
                 /\ k \in KeysIn(rawPages'[published[g][k]][g])
                 /\ g \in HistoricalGrids \/ published[g][k] = cursor[g].run
      BY <1>0, <1>1, <3>1 DEF RowsSound
    <3>2. ASSUME cursor[g] # NoCursor, NEW k \in KeysIn(rawPages'[cursor[g].run][g])
          PROVE  published'[g][k] = cursor[g].run
      <4>1. rawPages[cursor[g].run][g] \in [Sequences -> Pages \union {NoPage}]
        BY <1>0, <3>2 DEF CursorSound, TypeOK
      <4>2. k \in Keys
        BY <1>1, <3>2, <4>1, KeysInType
      <4> QED  BY <1>0, <1>1, <2>2, <3>2, <4>2 DEF RowsSound
    <3> QED  BY <2>1, <2>2, <3>1, <3>2 DEF RowsSound
  <2> QED  BY <2>1, <2>3, <2>4
<1> QED  BY <1>4, <1>5

\* What a step does to what was published of grid g.
LEMMA PublishedStep ==
    ASSUME PublishedInv, [SnapNext]_<<vars, snapVars>>, NEW g \in ReportGrids
    PROVE  /\ CursorSound(g)' /\ RowsSound(g)'
           /\ cursor'[g] # cursor[g] => cursor'[g].at > cursor[g].at
<1>0. TypeOK /\ SnapTypeOK /\ g \in Grids /\ CursorSound(g) /\ RowsSound(g)
  BY SnapshotAssumption DEF PublishedInv
<1>1. [Next]_vars
  BY DEF SnapNext, LandNext, PublishNext, OtherNext, Next
<1>2. CASE UNCHANGED <<cursor, published, sealedAt>>
  BY <1>0, <1>1, <1>2, QuietGrid
<1>3. ASSUME NEW r \in Runs, NEW h \in Grids, NEW n \in 0..MaxTotal, NEW f \in Sequences,
             NEW now \in 1..MaxSealed, Complete(r, h, n, f), Publish(r, h, now)
      PROVE  /\ CursorSound(g)' /\ RowsSound(g)'
             /\ cursor'[g] # cursor[g] => cursor'[g].at > cursor[g].at
  <2>1. CASE h = g
    BY <1>3, <2>1, PublishedGrid
  <2>2. CASE h # g
    <3>1. /\ cursor'[g] = cursor[g] /\ published'[g] = published[g]
          /\ \A q \in Runs : sealedAt'[q][g] = sealedAt[q][g]
      BY <1>0, <1>3, <2>2 DEF Publish, SnapTypeOK
    <3> QED  BY <1>0, <1>1, <3>1, QuietGrid
  <2> QED  BY <2>1, <2>2
<1>4. CASE UNCHANGED <<vars, snapVars>> \/ OtherNext
  BY <1>2, <1>4 DEF OtherNext, snapVars
<1>5. CASE \E r \in Runs, h \in Grids, s \in Sequences, page \in Pages : LandNext(r, h, s, page)
  BY <1>2, <1>5 DEF LandNext, Land
<1>6. CASE \E r \in Runs, h \in Grids, n \in 0..MaxTotal, f \in Sequences :
              PublishNext(r, h, n, f)
  BY <1>3, <1>6 DEF PublishNext
<1> QED  BY <1>4, <1>5, <1>6 DEF SnapNext

LEMMA StampedStep ==
    ASSUME PublishedInv, [SnapNext]_<<vars, snapVars>>, NEW q \in Runs, NEW g \in Grids
    PROVE  Stamped(q, g)'
<1>0. TypeOK /\ SnapTypeOK /\ Stamped(q, g)
  BY DEF PublishedInv
<1>1. ASSUME NEW r \in Runs, NEW h \in Grids, NEW n \in 0..MaxTotal, NEW f \in Sequences,
             NEW now \in 1..MaxSealed, Complete(r, h, n, f), Publish(r, h, now)
      PROVE  Stamped(q, g)'
  <2>1. CASE r = q /\ h = g
    BY <1>0, <1>1, <2>1, SnapshotAssumption DEF Publish, Stamped, SnapTypeOK, Never
  <2>2. CASE ~(r = q /\ h = g)
    <3>1. sealedAt'[q][g] = sealedAt[q][g] /\ completions'[q][g] = completions[q][g]
      BY <1>0, <1>1, <2>2 DEF Publish, Complete, SnapTypeOK, TypeOK
    <3> QED  BY <1>0, <3>1 DEF Stamped
  <2> QED  BY <2>1, <2>2
<1>2. CASE UNCHANGED <<completions, sealedAt>>
  BY <1>0, <1>2 DEF Stamped
<1>3. CASE UNCHANGED <<vars, snapVars>>
  BY <1>2, <1>3 DEF vars, rows, snapVars
<1>4. CASE OtherNext
  <2>1. UNCHANGED completions
    BY <1>4, ZenonT(60) DEF OtherNext, rows, StartNext, StartStep, QuietNext, FailStep, EndNext,
       StartRead, StartSelect, StartCreate, StartWrite, StartResolve, StartCrash,
       IngestDuplicate, CompleteReplay, FailStageRead, FailStageCommit, FailRun, CancelRuns,
       RevokeDevice, DeviceVanishes, ExportHeartbeat, ExpireStale, SweepReceipt, Tick
  <2> QED  BY <1>2, <1>4, <2>1 DEF OtherNext, snapVars
<1>5. CASE \E r \in Runs, h \in Grids, s \in Sequences, page \in Pages : LandNext(r, h, s, page)
  BY <1>2, <1>5 DEF LandNext, Land, PageNext, Ingest, IngestLegacy
<1>6. CASE \E r \in Runs, h \in Grids, n \in 0..MaxTotal, f \in Sequences :
              PublishNext(r, h, n, f)
  BY <1>1, <1>6 DEF PublishNext
<1> QED  BY <1>3, <1>4, <1>5, <1>6 DEF SnapNext

LEMMA PublishedNext == PublishedInv /\ [SnapNext]_<<vars, snapVars>> => PublishedInv'
<1> SUFFICES ASSUME PublishedInv, [SnapNext]_<<vars, snapVars>> PROVE PublishedInv'
  OBVIOUS
<1>1. TypeOK'
  <2>1. [Next]_vars
    BY DEF SnapNext, LandNext, PublishNext, OtherNext, Next
  <2> QED  BY <2>1, NextType DEF PublishedInv
<1>2. SnapTypeOK'
  BY SnapTypeStep DEF PublishedInv
<1>3. \A r \in Runs, g \in Grids : Stamped(r, g)'
  BY StampedStep
<1>4. \A g \in ReportGrids : CursorSound(g)' /\ RowsSound(g)'
  BY PublishedStep
<1> QED  BY <1>1, <1>2, <1>3, <1>4 DEF PublishedInv

(***************************************************************************)
(* Rows of two devices' snapshots mix in historical grids only, each       *)
(* published row is one that a completed grid's pages hold, and the        *)
(* completion the cursor names is published whole.                         *)
(***************************************************************************)
THEOREM PublishedVerified == SnapSpec => []PublishedMatchesCursor
<1>1. PublishedInv => PublishedMatchesCursor
  BY DEF PublishedInv, RowsSound, PublishedMatchesCursor
<1> QED  BY <1>1, PublishedInit, PublishedNext, PTL DEF SnapSpec

(***************************************************************************)
(* However the commits of two completions are ordered, and however often a *)
(* completion is repeated, the publication of a grid only moves forward.   *)
(***************************************************************************)
THEOREM PublicationMovesForward == SnapSpec => PublicationAdvances
<1>1. PublishedInv /\ [SnapNext]_<<vars, snapVars>> =>
         [\A g \in ReportGrids : cursor'[g] # cursor[g] => cursor'[g].at > cursor[g].at]_snapVars
  BY PublishedStep
<1> QED  BY <1>1, PublishedInit, PublishedNext, PTL DEF SnapSpec, PublicationAdvances

-----------------------------------------------------------------------------
(* Pruning *)

\* The hypothesis: a page is not stamped with a time before a stamp that a
\* device, this one or another, has given.  Nothing is asked of the order in
\* which pages arrive from one device, be it of several runs, or of completions.
ClocksAgree ==
    [][\A d, e \in Devices : clock'[d] # clock[d] => clock[e] <= clock'[d]]_snapVars

\* A time that a device has reached.
Reached(t) == t = Never \/ \E d \in Devices : t <= clock[d]

\* The rows of a run's pages are no older than the oldest of these pages.
RowsRecent(r, g) ==
    \A k \in KeysIn(rawPages[r][g]) : snapshot[g][k] # Never => observed[r][g] <= snapshot[g][k]

PrunedInv ==
    /\ TypeOK /\ SnapTypeOK
    /\ \A r \in Runs, g \in Grids : /\ Reached(observed[r][g])
                                    /\ observed[r][g] = Never => KeysIn(rawPages[r][g]) = {}
    /\ \A r \in Runs, g \in SnapshotGrids : RowsRecent(r, g)

LEMMA PrunedInit == SnapInit => PrunedInv
<1> SUFFICES ASSUME SnapInit PROVE PrunedInv
  OBVIOUS
<1>1. TypeOK /\ SnapTypeOK
  BY PublishedInit DEF PublishedInv
<1>2. ASSUME NEW r \in Runs, NEW g \in Grids
      PROVE  observed[r][g] = Never /\ KeysIn(rawPages[r][g]) = {}
  BY <1>2 DEF SnapInit, Init, KeysIn, Held, NoPages
<1>3. SnapshotGrids \subseteq Grids
  BY SnapshotAssumption
<1> QED  BY <1>1, <1>2, <1>3 DEF PrunedInv, Reached, RowsRecent

\* A page that lands is newer than all that was read before it.
LEMMA LandKeepsRows ==
    ASSUME PrunedInv, NEW r \in Runs, NEW g \in Grids, NEW s \in Sequences, NEW page \in Pages,
           NEW t \in 1..MaxRead, Land(r, g, page, t), rawPages' = [rawPages EXCEPT ![r][g][s] = page],
           \A d, e \in Devices : clock'[d] # clock[d] => clock[e] <= clock'[d]
    PROVE  /\ \A q \in Runs, h \in Grids : /\ Reached(observed[q][h])'
                                           /\ observed'[q][h] = Never => KeysIn(rawPages'[q][h]) = {}
           /\ \A q \in Runs, h \in SnapshotGrids : RowsRecent(q, h)'
           /\ \A h \in SnapshotGrids, k \in Keys : snapshot[h][k] # Never => snapshot'[h][k] # Never
<1>0. /\ TypeOK /\ SnapTypeOK /\ t \in Nat /\ t > 0 /\ SnapshotGrids \subseteq Grids
      /\ run[r].device \in Devices /\ KeysOf[page] \subseteq Keys
  BY SnapshotAssumption DEF PrunedInv, TypeOK, RunRow
<1>1. clock'[run[r].device] = t /\ t > clock[run[r].device]
      /\ \A d \in Devices \ {run[r].device} : clock'[d] = clock[d]
  BY <1>0 DEF Land, SnapTypeOK
<1>2. \A e \in Devices : clock[e] <= t /\ clock[e] \in Nat
  BY <1>0, <1>1 DEF SnapTypeOK
<1>3. /\ observed'[r][g] = IF observed[r][g] = Never THEN t ELSE observed[r][g]
      /\ \A q \in Runs, h \in Grids : q # r \/ h # g => observed'[q][h] = observed[q][h]
      /\ \A q \in Runs, h \in Grids : observed[q][h] \in Nat /\ Reached(observed[q][h])
  BY <1>0 DEF Land, SnapTypeOK, PrunedInv
<1>4. \A q \in Runs, h \in Grids : observed[q][h] <= t /\ observed'[q][h] <= t /\ observed'[q][h] \in Nat
  BY <1>0, <1>2, <1>3 DEF Reached, Never
<1>5. \A q \in Runs, h \in Grids : Reached(observed[q][h])'
  <2>1. \A q \in Runs, h \in Grids : observed'[q][h] <= clock'[run[r].device]
    BY <1>1, <1>4
  <2> QED  BY <1>0, <2>1 DEF Reached
<1>6. /\ \A q \in Runs, h \in Grids : q # r \/ h # g => rawPages'[q][h] = rawPages[q][h]
      /\ rawPages'[r][g] = [rawPages[r][g] EXCEPT ![s] = page]
      /\ rawPages[r][g] \in [Sequences -> Pages \union {NoPage}]
  BY <1>0 DEF TypeOK
<1>7. \A q \in Runs, h \in Grids : q # r \/ h # g => KeysIn(rawPages'[q][h]) = KeysIn(rawPages[q][h])
  BY <1>6
<1>8. KeysIn(rawPages'[r][g]) \subseteq KeysIn(rawPages[r][g]) \union KeysOf[page]
  <2>1. \A pages, more : more = [pages EXCEPT ![s] = page] /\ pages \in [Sequences -> Pages \union {NoPage}]
                         => KeysIn(more) \subseteq KeysIn(pages) \union KeysOf[page]
    BY DEF KeysIn, Held
  <2> QED  BY <1>6, <2>1
<1>9. ASSUME NEW q \in Runs, NEW h \in Grids, observed'[q][h] = Never
      PROVE  KeysIn(rawPages'[q][h]) = {}
  <2>1. (q # r \/ h # g) /\ observed[q][h] = Never
    BY <1>0, <1>3, <1>9 DEF Never
  <2> QED  BY <1>7, <2>1 DEF PrunedInv
<1>10. ASSUME NEW h \in SnapshotGrids, NEW k \in Keys
       PROVE  snapshot'[h][k] = IF h = g /\ k \in KeysOf[page] THEN t ELSE snapshot[h][k]
  BY <1>0, <1>10 DEF Land, SnapTypeOK
<1>11. ASSUME NEW q \in Runs, NEW h \in SnapshotGrids PROVE RowsRecent(q, h)'
  <2>0. h \in Grids /\ RowsRecent(q, h)
    BY <1>0 DEF PrunedInv
  <2>1. SUFFICES ASSUME NEW k \in KeysIn(rawPages'[q][h]), snapshot'[h][k] # Never
                 PROVE  observed'[q][h] <= snapshot'[h][k]
    BY DEF RowsRecent
  <2>2. rawPages[q][h] \in [Sequences -> Pages \union {NoPage}]
    BY <1>0, <2>0 DEF TypeOK
  <2>3. KeysIn(rawPages[q][h]) \subseteq Keys
    BY <2>2, KeysInType
  <2>4. k \in Keys /\ (k \in KeysIn(rawPages[q][h]) \/ (q = r /\ h = g /\ k \in KeysOf[page]))
    BY <1>0, <1>7, <1>8, <2>0, <2>1, <2>3
  <2>5. CASE h = g /\ k \in KeysOf[page]
    BY <1>4, <1>10, <2>0, <2>4, <2>5
  <2>6. CASE ~(h = g /\ k \in KeysOf[page])
    <3>1. k \in KeysIn(rawPages[q][h]) /\ snapshot'[h][k] = snapshot[h][k]
      BY <1>10, <2>4, <2>6
    <3>2. observed[q][h] # Never /\ observed'[q][h] = observed[q][h]
      BY <1>3, <2>0, <3>1 DEF PrunedInv
    <3> QED  BY <2>0, <2>1, <3>1, <3>2 DEF RowsRecent
  <2> QED  BY <2>5, <2>6
<1>12. \A h \in SnapshotGrids, k \in Keys : snapshot[h][k] # Never => snapshot'[h][k] # Never
  BY <1>0, <1>10 DEF Never
<1> QED  BY <1>5, <1>9, <1>11, <1>12

\* A completion takes nothing that its own pages hold.
LEMMA PublishKeepsRows ==
    ASSUME PrunedInv, NEW r \in Runs, NEW g \in Grids, NEW now \in 1..MaxSealed, Publish(r, g, now),
           rawPages' = rawPages
    PROVE  /\ \A q \in Runs, h \in SnapshotGrids : RowsRecent(q, h)'
           /\ \A h \in SnapshotGrids, k \in Keys :
                 snapshot[h][k] # Never /\ snapshot'[h][k] = Never =>
                     k \notin KeysIn(rawPages[verified'[h]][h])
<1>0. TypeOK /\ SnapTypeOK /\ SnapshotGrids \subseteq Grids
  BY SnapshotAssumption DEF PrunedInv
<1>1. observed' = observed
      /\ \A h \in SnapshotGrids, k \in Keys :
            snapshot'[h][k] = IF h = g /\ snapshot[h][k] < observed[r][h] THEN Never ELSE snapshot[h][k]
  BY <1>0 DEF Publish, Pruned, SnapTypeOK
<1>2. ASSUME NEW q \in Runs, NEW h \in SnapshotGrids PROVE RowsRecent(q, h)'
  <2>1. RowsRecent(q, h)
    BY DEF PrunedInv
  <2>2. KeysIn(rawPages[q][h]) \subseteq Keys
    <3>1. rawPages[q][h] \in [Sequences -> Pages \union {NoPage}]
      BY <1>0 DEF TypeOK
    <3> QED  BY <3>1, KeysInType
  <2>3. SUFFICES ASSUME NEW k \in KeysIn(rawPages'[q][h]), snapshot'[h][k] # Never
                 PROVE  observed'[q][h] <= snapshot'[h][k]
    BY DEF RowsRecent
  <2>4. k \in KeysIn(rawPages[q][h]) /\ k \in Keys
    BY <2>2, <2>3
  <2>5. snapshot'[h][k] = snapshot[h][k]
    BY <1>1, <2>3, <2>4
  <2> QED  BY <1>1, <2>1, <2>3, <2>4, <2>5 DEF RowsRecent
<1>3. ASSUME NEW h \in SnapshotGrids, NEW k \in Keys, snapshot[h][k] # Never, snapshot'[h][k] = Never
      PROVE  k \notin KeysIn(rawPages[verified'[h]][h])
  <2>1. h = g /\ snapshot[h][k] < observed[r][h]
    BY <1>1, <1>3
  <2>2. verified'[h] = r
    BY <1>0, <2>1 DEF Publish, SnapTypeOK
  <2>3. RowsRecent(r, h) /\ snapshot[h][k] \in Nat /\ observed[r][h] \in Nat
    BY <1>0 DEF PrunedInv, SnapTypeOK
  <2> QED  BY <1>3, <2>1, <2>2, <2>3 DEF RowsRecent
<1> QED  BY <1>2, <1>3

LEMMA PrunedNext ==
    ASSUME PrunedInv, [SnapNext]_<<vars, snapVars>>,
           [\A d, e \in Devices : clock'[d] # clock[d] => clock[e] <= clock'[d]]_snapVars
    PROVE  /\ PrunedInv'
           /\ [\A g \in SnapshotGrids, k \in Keys :
                  snapshot[g][k] # Never /\ snapshot'[g][k] = Never =>
                      k \notin KeysIn(rawPages[verified'[g]][g])]_snapVars
<1>0. TypeOK' /\ SnapTypeOK'
  <2>1. [Next]_vars
    BY DEF SnapNext, LandNext, PublishNext, OtherNext, Next
  <2> QED  BY <2>1, NextType, SnapTypeStep DEF PrunedInv
<1>1. SnapshotGrids \subseteq Grids
  BY SnapshotAssumption
<1>2. CASE UNCHANGED <<rawPages, snapVars>>
  BY <1>0, <1>1, <1>2 DEF PrunedInv, Reached, RowsRecent, snapVars
<1>3. ASSUME NEW r \in Runs, NEW g \in Grids, NEW s \in Sequences, NEW page \in Pages, LandNext(r, g, s, page),
             snapVars' # snapVars
      PROVE  /\ PrunedInv'
             /\ \A h \in SnapshotGrids, k \in Keys : snapshot[h][k] # Never => snapshot'[h][k] # Never
  <2>1. PICK t \in 1..MaxRead : Land(r, g, page, t)
    BY <1>3 DEF LandNext
  <2>2. rawPages' = [rawPages EXCEPT ![r][g][s] = page]
    BY <1>3 DEF LandNext, PageNext, Ingest, IngestPage, IngestLegacy
  <2>3. \A d, e \in Devices : clock'[d] # clock[d] => clock[e] <= clock'[d]
    BY <1>3
  <2> QED  BY <1>0, <2>1, <2>2, <2>3, LandKeepsRows DEF PrunedInv
<1>4. ASSUME NEW r \in Runs, NEW g \in Grids, NEW n \in 0..MaxTotal, NEW f \in Sequences, PublishNext(r, g, n, f)
      PROVE  /\ PrunedInv'
             /\ \A h \in SnapshotGrids, k \in Keys :
                   snapshot[h][k] # Never /\ snapshot'[h][k] = Never =>
                       k \notin KeysIn(rawPages[verified'[h]][h])
  <2>1. PICK now \in 1..MaxSealed : Publish(r, g, now)
    BY <1>4 DEF PublishNext
  <2>2. rawPages' = rawPages
    BY <1>4 DEF PublishNext, Complete
  <2>3. UNCHANGED <<clock, observed>>
    BY <2>1 DEF Publish
  <2>4. /\ \A q \in Runs, h \in SnapshotGrids : RowsRecent(q, h)'
        /\ \A h \in SnapshotGrids, k \in Keys :
              snapshot[h][k] # Never /\ snapshot'[h][k] = Never =>
                  k \notin KeysIn(rawPages[verified'[h]][h])
    BY <2>1, <2>2, PublishKeepsRows
  <2>5. \A q \in Runs, h \in Grids : /\ Reached(observed[q][h])'
                                     /\ observed'[q][h] = Never => KeysIn(rawPages'[q][h]) = {}
    BY <2>2, <2>3 DEF PrunedInv, Reached
  <2> QED  BY <1>0, <2>4, <2>5 DEF PrunedInv
<1>5. CASE OtherNext \/ UNCHANGED <<vars, snapVars>>
  <2>1. UNCHANGED rawPages
    BY <1>5, ZenonT(60) DEF vars, OtherNext, rows, StartNext, StartStep, QuietNext, FailStep, EndNext,
       StartRead, StartSelect, StartCreate, StartWrite, StartResolve, StartCrash,
       IngestDuplicate, CompleteReplay, FailStageRead, FailStageCommit, FailRun, CancelRuns,
       RevokeDevice, DeviceVanishes, ExportHeartbeat, ExpireStale, SweepReceipt, Tick
  <2> QED  BY <1>2, <1>5, <2>1 DEF OtherNext
<1>6. ASSUME NEW r \in Runs, NEW g \in Grids, NEW s \in Sequences, NEW page \in Pages, LandNext(r, g, s, page)
      PROVE  snapVars' # snapVars
  <2>1. PICK t \in 1..MaxRead : Land(r, g, page, t)
    BY <1>6 DEF LandNext
  <2>2. run[r].device \in Devices /\ t > clock[run[r].device] /\ clock[run[r].device] \in Nat
    BY <2>1 DEF Land, PrunedInv, TypeOK, RunRow, SnapTypeOK
  <2>3. clock'[run[r].device] = t
    BY <2>1, <2>2 DEF Land, PrunedInv, SnapTypeOK
  <2>4. clock' # clock
    BY <2>2, <2>3
  <2> QED  BY <2>4 DEF snapVars
<1> QED  BY <1>3, <1>4, <1>5, <1>2, <1>6 DEF SnapNext

(***************************************************************************)
(* As long as no device's clock is behind a stamp that another has given,  *)
(* however many devices refresh a policy grid, are interrupted, resume and *)
(* complete, a completion removes a row only if its own pages do not hold  *)
(* it, and nothing else removes rows.  Clocks that disagree break this:    *)
(* the row of a page read later may carry the older stamp.                 *)
(***************************************************************************)
THEOREM VerifiedRowsAreSpared == SnapSpec /\ ClocksAgree => PruneSparesVerified
<1>1. /\ PrunedInv /\ [SnapNext]_<<vars, snapVars>>
      /\ [\A d, e \in Devices : clock'[d] # clock[d] => clock[e] <= clock'[d]]_snapVars
      => PrunedInv'
  BY PrunedNext
<1>2. /\ PrunedInv /\ [SnapNext]_<<vars, snapVars>>
      /\ [\A d, e \in Devices : clock'[d] # clock[d] => clock[e] <= clock'[d]]_snapVars
      => [\A g \in SnapshotGrids, k \in Keys :
             snapshot[g][k] # Never /\ snapshot'[g][k] = Never =>
                 k \notin KeysIn(rawPages[verified'[g]][g])]_snapVars
  BY PrunedNext
<1> QED  BY <1>1, <1>2, PrunedInit, PTL DEF SnapSpec, ClocksAgree, PruneSparesVerified

\* With one device there is one clock, and it only goes on.
LEMMA OneClock ==
    ASSUME \A d, e \in Devices : d = e, TypeOK, SnapTypeOK, [SnapNext]_<<vars, snapVars>>
    PROVE  [\A d, e \in Devices : clock'[d] # clock[d] => clock[e] <= clock'[d]]_snapVars
<1>1. ASSUME NEW r \in Runs, NEW g \in Grids, NEW page \in Pages, NEW t \in 1..MaxRead, Land(r, g, page, t)
      PROVE  \A d, e \in Devices : clock[e] <= clock'[d]
  <2>1. run[r].device \in Devices /\ t > clock[run[r].device]
    BY <1>1 DEF Land, TypeOK, RunRow
  <2>2. clock'[run[r].device] = t /\ clock[run[r].device] \in Nat
    BY <1>1, <2>1 DEF Land, SnapTypeOK
  <2> QED  BY <2>1, <2>2
<1>2. ASSUME clock' # clock
      PROVE  \A d, e \in Devices : clock[e] <= clock'[d]
  <2>1. \E r \in Runs, g \in Grids, s \in Sequences, page \in Pages : LandNext(r, g, s, page)
    BY <1>2 DEF SnapNext, PublishNext, Publish, OtherNext, snapVars
  <2> QED  BY <1>1, <2>1 DEF LandNext
<1> QED  BY <1>2

\* A single device, which is what the run checks, needs no hypothesis on clocks.
THEOREM OneDeviceSparesVerified ==
    ASSUME \A d, e \in Devices : d = e
    PROVE  SnapSpec => PruneSparesVerified
<1>1. /\ PrunedInv /\ [SnapNext]_<<vars, snapVars>>
      => [\A d, e \in Devices : clock'[d] # clock[d] => clock[e] <= clock'[d]]_snapVars
  BY OneClock DEF PrunedInv
<1>2. PrunedInv /\ [SnapNext]_<<vars, snapVars>> => PrunedInv'
  BY <1>1, PrunedNext
<1>3. SnapSpec => ClocksAgree
  BY <1>1, <1>2, PrunedInit, PTL DEF SnapSpec, ClocksAgree
<1> QED  BY <1>3, VerifiedRowsAreSpared, PTL
====
