-------------------------- MODULE VerifiedSnapshot --------------------------
(***************************************************************************)
(* What the agent is shown of the carrier: the rows that the sync runs of  *)
(* LocalConnectorRun land, publish and prune (persistRecords,              *)
(* publishVerifiedReportRows and pruneRowsMissingFromVerifiedSnapshot of   *)
(* run-service.ts), which are shared by all devices of the agent.          *)
(*                                                                         *)
(* Case and policy grids are upserted as each page lands, stamped with the *)
(* time at which the device read the page by its own clock, and pruned     *)
(* when the grid is completed.  Report grids are published whole when the  *)
(* grid is completed, under one cursor per grid, and historical ones are   *)
(* never pruned.                                                           *)
(*                                                                         *)
(* Both happen inside the transactions of LocalConnectorRun, so the steps  *)
(* here are conjoined to its steps.  Time stamps are small numbers.  A     *)
(* device reads page after page, so its own stamps increase; nothing       *)
(* relates the clocks of two devices, nor the order in which completions   *)
(* of two devices read the server's clock to the order they commit in.     *)
(***************************************************************************)
EXTENDS LocalConnectorRun

CONSTANTS
    SnapshotGrids,    \* NEW_BUSINESS, RECENTLY_CLOSED, INFORCE_CLIENTS
    ReportGrids,      \* REPORT_ROW_GRIDS; the other grids keep raw pages only
    HistoricalGrids,  \* NATIONAL_LIFE_HISTORICAL_REPORT_GRID_KEYS
    Keys,             \* natural keys of rows
    KeysOf,           \* the keys that the records of a page normalize to
    MaxRead,          \* bound: the devices' time stamps are 1..MaxRead
    MaxSealed         \* bound: the server's time stamps are 1..MaxSealed

NoRun == 0
Never == 0
NoCursor == [run |-> NoRun, at |-> Never]

ASSUME SnapshotAssumption ==
    /\ SnapshotGrids \subseteq Grids /\ ReportGrids \subseteq Grids
    /\ SnapshotGrids \intersect ReportGrids = {}
    /\ HistoricalGrids \subseteq ReportGrids
    /\ KeysOf \in [Pages -> SUBSET Keys]
    /\ MaxRead \in Nat /\ MaxSealed \in Nat

VARIABLES
    clock,      \* the last time stamp each device put on a page
    observed,   \* observedAt of the oldest raw page of a run's grid
    sealedAt,   \* completedAt of a stage completion
    snapshot,   \* case and policy rows: fetchedAt by grid and key
    cursor,     \* NationalLifeReportPublication: one row per grid
    published,  \* published report rows: the run whose completion they name
    verified    \* the run whose completion of a case or policy grid was last

snapVars == <<clock, observed, sealedAt, snapshot, cursor, published, verified>>

-----------------------------------------------------------------------------
(* Landing a page *)

KeysIn(pages) == UNION {KeysOf[pages[s]] : s \in Held(pages)}

\* persistRecords and the raw page's time stamp, at device time t.
Land(r, g, page, t) ==
    /\ t > clock[run[r].device]
    /\ clock' = [clock EXCEPT ![run[r].device] = t]
    /\ observed' = [observed EXCEPT ![r][g] = IF @ = Never THEN t ELSE @]
    /\ snapshot' = IF g \in SnapshotGrids
                   THEN [snapshot EXCEPT ![g] =
                            [k \in Keys |-> IF k \in KeysOf[page] THEN t ELSE @[k]]]
                   ELSE snapshot
    /\ UNCHANGED <<sealedAt, cursor, published, verified>>

-----------------------------------------------------------------------------
(* Completing a grid *)

\* Mutant: the cursor is moved to whoever completes last.
AdvancesAlways(r, g, at) == g \in ReportGrids

\* The publication moves to this completion unless a later one holds it.
Advances(r, g, at) ==
    /\ g \in ReportGrids
    /\ cursor[g] = NoCursor \/ cursor[g].run = r \/ cursor[g].at < at

\* Mutant: rows are written before the cursor is compared, as in an ingest.
MaterializedEarly(r, g, at) ==
    [k \in Keys |->
        IF g \in ReportGrids /\ k \in KeysIn(rawPages[r][g]) THEN r
        ELSE IF Advances(r, g, at) /\ g \notin HistoricalGrids THEN NoRun
        ELSE published[g][k]]

\* The published rows of g once completion r has been handled.
Materialized(r, g, at) ==
    [k \in Keys |->
        IF ~Advances(r, g, at) THEN published[g][k]
        ELSE IF k \in KeysIn(rawPages[r][g]) THEN r
        ELSE IF g \in HistoricalGrids THEN published[g][k]
        ELSE NoRun]

\* Mutant: the boundary is the newest stamp of the device, not the run's oldest.
PrunedToNewest(r, g) ==
    [k \in Keys |-> IF snapshot[g][k] < clock[run[r].device] THEN Never ELSE snapshot[g][k]]

\* Rows older than the oldest page of the completed run are gone.
Pruned(r, g) ==
    [k \in Keys |-> IF snapshot[g][k] < observed[r][g] THEN Never ELSE snapshot[g][k]]

\* The rest of completeLocalConnectorStage, at server time now.  A completion
\* that is already there keeps its completedAt.
Publish(r, g, now) ==
    LET at == IF completions[r][g] = NoCompletion THEN now ELSE sealedAt[r][g]
    IN  /\ \A q \in Runs : run[q].device = run[r].device => sealedAt[q][g] < now
        /\ sealedAt' = [sealedAt EXCEPT ![r][g] = at]
        /\ cursor' = IF Advances(r, g, at)
                     THEN [cursor EXCEPT ![g] = [run |-> r, at |-> at]] ELSE cursor
        /\ published' = [published EXCEPT ![g] = Materialized(r, g, at)]
        /\ snapshot' = IF g \in SnapshotGrids
                       THEN [snapshot EXCEPT ![g] = Pruned(r, g)] ELSE snapshot
        /\ verified' = IF g \in SnapshotGrids
                       THEN [verified EXCEPT ![g] = r] ELSE verified
        /\ UNCHANGED <<clock, observed>>

-----------------------------------------------------------------------------
(* Specification *)

SnapInit ==
    /\ Init
    /\ clock = [d \in Devices |-> Never]
    /\ observed = [r \in Runs |-> [g \in Grids |-> Never]]
    /\ sealedAt = [r \in Runs |-> [g \in Grids |-> Never]]
    /\ snapshot = [g \in Grids |-> [k \in Keys |-> Never]]
    /\ cursor = [g \in Grids |-> NoCursor]
    /\ published = [g \in Grids |-> [k \in Keys |-> NoRun]]
    /\ verified = [g \in Grids |-> NoRun]

LandNext(r, g, s, page) ==
    PageNext(r, g, s, page) /\ \E t \in 1..MaxRead : Land(r, g, page, t)

PublishNext(r, g, n, f) ==
    Complete(r, g, n, f) /\ \E now \in 1..MaxSealed : Publish(r, g, now)

OtherNext ==
    /\ \/ \E c \in Calls : StartNext(c)
       \/ \E r \in Runs, g \in Grids : QuietNext(r, g)
       \/ FailStep
       \/ EndNext
    /\ UNCHANGED snapVars

SnapNext ==
    \/ \E r \in Runs, g \in Grids, s \in Sequences, page \in Pages :
          LandNext(r, g, s, page)
    \/ \E r \in Runs, g \in Grids, n \in 0..MaxTotal, f \in Sequences :
          PublishNext(r, g, n, f)
    \/ OtherNext

SnapSpec == SnapInit /\ [][SnapNext]_<<vars, snapVars>>

-----------------------------------------------------------------------------
(* Properties *)

\* Every variable has its type.
SnapTypeOK ==
    /\ clock \in [Devices -> Nat]
    /\ observed \in [Runs -> [Grids -> Nat]]
    /\ sealedAt \in [Runs -> [Grids -> Nat]]
    /\ snapshot \in [Grids -> [Keys -> Nat]]
    /\ cursor \in [Grids -> [run : Runs \union {NoRun}, at : Nat]]
    /\ published \in [Grids -> [Keys -> Runs \union {NoRun}]]
    /\ verified \in [Grids -> Runs \union {NoRun}]

\* A published row names a completion whose verified pages hold that row, and
\* a report grid shows all rows of the completion its cursor names: rows of two
\* devices' snapshots mix in historical grids only.
PublishedMatchesCursor ==
    \A g \in ReportGrids :
        /\ \A k \in Keys : published[g][k] # NoRun =>
              /\ completions[published[g][k]][g] # NoCompletion
              /\ k \in KeysIn(rawPages[published[g][k]][g])
              /\ g \in HistoricalGrids \/ published[g][k] = cursor[g].run
        /\ cursor[g] # NoCursor =>
              \A k \in KeysIn(rawPages[cursor[g].run][g]) : published[g][k] = cursor[g].run

\* The publication of a grid never moves back to an older completion.
PublicationAdvances ==
    [][\A g \in ReportGrids : cursor'[g] # cursor[g] => cursor'[g].at > cursor[g].at]_snapVars

\* A case or policy row disappears only when a grid is verified whose pages do
\* not hold it: neither an interrupted refresh nor a completion loses a row that
\* the carrier still shows.
PruneSparesVerified ==
    [][\A g \in SnapshotGrids, k \in Keys :
          snapshot[g][k] # Never /\ snapshot'[g][k] = Never =>
              k \notin KeysIn(rawPages[verified'[g]][g])]_snapVars

=============================================================================
