------------------------- MODULE LocalConnectorRun -------------------------
(***************************************************************************)
(* The sync runs of one agent's local connector: the server side of        *)
(* lib/national-life/local-connector/run-service.ts, with the other        *)
(* handlers that write the same rows (janitor.ts, device-service.ts,       *)
(* export-upload-service.ts, app/onboarding/actions.ts).                   *)
(*                                                                         *)
(* A device (a paired browser extension) asks to START a run, uploads the  *)
(* pages of each planned grid, closes each grid with a COMPLETE or a FAIL  *)
(* call, and may vanish at any moment.  The server keeps, per run, one     *)
(* NationalLifeSyncRun row and its stage receipts, raw pages, stage        *)
(* completions and stage failures.                                         *)
(*                                                                         *)
(* One action is one committed transaction or one autocommitted statement. *)
(* INGEST and COMPLETE update the run row first and so hold its lock until *)
(* they commit: each is one action.  FAIL-STAGE only locks the run row     *)
(* with its last write: it is a read step and a commit step.  START is not *)
(* a transaction at all: it is a read of the live run, a read of the       *)
(* terminal runs, a compare-and-set on the chosen run, and a later write   *)
(* to its failure rows, and its handler can be killed between any two.     *)
(*                                                                         *)
(* Timestamps are kept as ages in coarse ticks: run[r].idle is now minus   *)
(* updatedAt, run[r].closed is now minus completedAt.  Ages of one tick    *)
(* are not ordered, so a comparison that they do not decide is a choice.   *)
(***************************************************************************)
EXTENDS Naturals, Sequences, FiniteSets, SequencesExt

CONSTANTS
    Devices,        \* paired devices of the agent
    LegacyDevices,  \* devices still speaking the retired page-only protocol
    MaxRuns,        \* bound: run rows, numbered in creation order
    Grids,          \* grid keys
    NoGrid,         \* currentGridKey = null
    Detail, Parent, \* COMMISSIONS_EARNING_REPORT and PAID_COMMISSIONS
    Deprecated,     \* PROJECTED_COMMISSIONS, the one deprecated grid key
    Requests,       \* the plans a START may ask for
    OldPlans,       \* plans of runs created by earlier releases
    LegacyPlan,     \* LOCAL_CONNECTOR_LEGACY_GRID_KEYS
    MaxSequence,    \* bound: page sequence numbers are 0..MaxSequence
    Pages,          \* page contents (one per content hash)
    TruncatedPages, \* the contents whose envelope says truncated
    NoPage,         \* no row for that sequence
    RecordCount,    \* records in each page
    MaxTotal,       \* bound: the carrier total a device may claim
    NoCompletion,   \* no stage-completion row
    Intents,        \* the START options in use
    Calls,          \* START requests that can be in flight together
    MaxFailing,     \* bound: FAIL-STAGE transactions in flight together
    TTL,            \* LOCAL_CONNECTOR_RUN_TTL_MS, in ticks
    Fresh,          \* LOCAL_CONNECTOR_VERIFIED_FRESH_MS
    Retention       \* LOCAL_CONNECTOR_RECEIPT_RETENTION_MS

Runs == 1..MaxRuns
Sequences == 0..MaxSequence
AgeCap == Retention + 1

\* Stored plans.  The server chooses them: empty, for a run that predates the
\* column or an agent who may read nothing, or never of the deprecated grid alone.
Plans == {plan \in Seq(Grids) : plan = <<>> \/ ToSet(plan) \ {Deprecated} # {}}

(***************************************************************************)
(* The order of the three windows is what the janitor relies on.           *)
(***************************************************************************)
ASSUME WindowAssumption ==
    /\ TTL \in Nat /\ Fresh \in Nat /\ Retention \in Nat
    /\ TTL <= Fresh /\ Fresh < Retention

ASSUME DataAssumption ==
    /\ MaxRuns \in Nat /\ MaxSequence \in Nat /\ MaxFailing \in Nat /\ MaxTotal \in Nat
    /\ IsFiniteSet(Grids) /\ NoGrid \notin Grids
    /\ NoPage \notin Pages /\ TruncatedPages \subseteq Pages
    /\ RecordCount \in [Pages -> Nat]
    /\ NoCompletion \notin [expected : Nat, final : Nat]
    /\ LegacyDevices \subseteq Devices /\ Devices # {}
    /\ Intents \subseteq {"resume", "discardFailedPlans", "forceRefresh"}
    /\ (Detail \in Grids => Parent \in Grids)
    /\ Requests \subseteq Plans /\ OldPlans \subseteq Plans
    /\ LegacyPlan \in Plans \ {<<>>}

VARIABLES
    connected,   \* devices that can still send requests
    run,         \* NationalLifeSyncRun rows
    receipts,    \* stage receipts: content held per run, grid, sequence
    rawPages,    \* raw grid pages, same key
    completions, \* stage completions per run and grid
    failures,    \* grids with an unresolved stage failure, per run
    call,        \* START handlers
    failing      \* FAIL-STAGE transactions that have read and not committed

rows == <<receipts, rawPages, completions>>
vars == <<connected, run, receipts, rawPages, completions, failures, call, failing>>

-----------------------------------------------------------------------------
(* Rows *)

Open == {"RUNNING"}
Terminal == {"COMPLETED", "PARTIAL", "FAILED"}
States == {"ABSENT"} \union Open \union Terminal

RunRow == [state : States, device : Devices, plan : Plans,
           completedStages : Nat, failedStages : Nat,
           current : Grids \union {NoGrid},
           idle : 0..AgeCap, closed : 0..AgeCap]

Completion == [expected : Nat, final : Nat]

NoPages == [s \in Sequences |-> NoPage]

\* plannedGridKeys: an empty column is read as the plan that runs had before it.
InForce(plan) == IF plan = <<>> THEN LegacyPlan ELSE plan

Planned(r) == ToSet(InForce(run[r].plan))

Sealed(r) == {g \in Grids : completions[r][g] # NoCompletion}

Live(r) == run[r].state = "RUNNING"

\* The device that owns the run is the one sending the request.
Served(r) == run[r].device \in connected

-----------------------------------------------------------------------------
(* Page arithmetic *)

Held(pages) == {s \in Sequences : pages[s] # NoPage}

RecordsIn(pages) ==
    [s \in Sequences |-> IF pages[s] = NoPage THEN 0 ELSE RecordCount[pages[s]]]

TotalRecords(pages) == SumFunctionOnSet(RecordsIn(pages), Sequences)

-----------------------------------------------------------------------------
(* Plans *)

\* Plans hold no key twice: they are built from a Set of keys.
IndexOf(plan, g) == CHOOSE i \in DOMAIN plan : plan[i] = g

\* The plan without the deprecated source.
Retained(plan) ==
    IF Deprecated \in ToSet(plan) THEN RemoveAt(plan, IndexOf(plan, Deprecated)) ELSE plan

\* withCommissionDetailPrerequisite: the parent is read just before the detail.
WithPrerequisite(plan) ==
    IF Detail \in ToSet(plan) /\ Parent \notin ToSet(plan)
    THEN InsertAt(plan, IndexOf(plan, Detail), Parent)
    ELSE plan

\* nextUnsettledStageIndex, as the grid found there.
FirstUnsettled(plan, settled, i) ==
    plan[i] \notin settled /\ \A j \in 1..(i - 1) : plan[j] \in settled

NextUnsettled(plan, settled) ==
    IF \E i \in DOMAIN plan : FirstUnsettled(plan, settled, i)
    THEN plan[CHOOSE i \in DOMAIN plan : FirstUnsettled(plan, settled, i)]
    ELSE NoGrid

AllSettled(plan, settled) == ToSet(plan) \subseteq settled

-----------------------------------------------------------------------------
(* Closing a run *)

\* Mutant: a cancelled run gets a state of its own, which no reader knows.
FailedRowCancelled(row) == [row EXCEPT !.state = "CANCELLED", !.idle = 0, !.closed = 0]

FailedRow(row) == [row EXCEPT !.state = "FAILED", !.idle = 0, !.closed = 0]

\* Mutant: the sweep of silent runs forgets to ask for live ones.
StaleAnyState(r) == run[r].state # "ABSENT" /\ run[r].idle > TTL

Stale(r) == Live(r) /\ run[r].idle > TTL

\* failStaleLocalRuns over the runs in scope.
FailStale(scope) ==
    [r \in Runs |-> IF r \in scope /\ Stale(r) THEN FailedRow(run[r]) ELSE run[r]]

\* updateRunningRun after a stage settled: the run ends when no planned grid is
\* left unsettled, clean only when no failure is unresolved.
\* Mutant: only the completed grids are counted to call the run clean.
SettledRowByCount(row, plan, done, failed, completedStages) ==
    LET terminal == AllSettled(plan, done \union failed)
    IN  [row EXCEPT !.state = IF ~terminal THEN "RUNNING"
                              ELSE IF ToSet(plan) \subseteq done
                              THEN "COMPLETED" ELSE "PARTIAL",
                    !.completedStages = completedStages,
                    !.failedStages = Cardinality(failed),
                    !.current = NextUnsettled(plan, done \union failed),
                    !.idle = 0, !.closed = 0]

SettledRow(row, plan, done, failed, completedStages) ==
    LET terminal == AllSettled(plan, done \union failed)
    IN  [row EXCEPT !.state = IF ~terminal THEN "RUNNING"
                              ELSE IF failed = {} THEN "COMPLETED" ELSE "PARTIAL",
                    !.completedStages = completedStages,
                    !.failedStages = Cardinality(failed),
                    !.current = NextUnsettled(plan, done \union failed),
                    !.idle = 0, !.closed = 0]

-----------------------------------------------------------------------------
(* START: which run to continue, and with what *)

\* Keys the cursor counts as completed: the sealed ones, or, for a run older
\* than stage completions, the prefix its counter names.
CountedComplete(r, plan) ==
    LET exact == Sealed(r) \intersect ToSet(plan)
    IN  IF exact # {} THEN exact
        ELSE {plan[i] : i \in {j \in 1..Len(plan) : j <= run[r].completedStages}}

\* The grids a continued run may be handed over at.  The failure rows come back
\* in no particular order, so any failed grid can be the first one found.
HandoverGrids(r, plan, addsParent, completed, failed) ==
    CASE addsParent -> {Parent}
      [] run[r].state = "COMPLETED" -> {NoGrid}
      [] run[r].state = "FAILED" -> {NextUnsettled(plan, completed)}
      [] run[r].state = "PARTIAL" /\ failed # {} -> failed
      [] run[r].current \in ToSet(plan) -> {run[r].current}
      [] OTHER -> {NextUnsettled(plan, completed \union failed)}

\* addsMissingCommissionParent: the one repair a failed run's plan gets.
AddsParent(r, kept, request) ==
    /\ run[r].state \in {"FAILED", "PARTIAL"}
    /\ Parent \in ToSet(request)
    /\ Detail \in ToSet(kept)
    /\ Parent \notin ToSet(kept)

Choice == [target : Runs, from : States, plan : Plans \ {<<>>}, changed : BOOLEAN,
           renewAuth : BOOLEAN, completed : Nat, failed : Nat,
           next : Grids \union {NoGrid}]

\* What START decides to write about run r when it reads it now.  authExpired
\* says whether the run waits in an authentication episode older than its
\* maximum age (those columns belong to the credential lease component).
ContinueChoices(r, request, authExpired) ==
    LET stored == InForce(run[r].plan)
        kept == Retained(stored)
        addsParent == AddsParent(r, kept, request)
        plan == IF addsParent THEN WithPrerequisite(kept) ELSE kept
        completed == CountedComplete(r, plan)
        failed == failures[r] \intersect ToSet(plan)
    IN  {[target |-> r, from |-> run[r].state, plan |-> plan,
          changed |-> Len(plan) # Len(stored),
          renewAuth |-> run[r].state = "RUNNING" /\ authExpired,
          completed |-> Cardinality(completed), failed |-> Cardinality(failed),
          next |-> g] : g \in HandoverGrids(r, plan, addsParent, completed, failed)}

Reopens(choice) == choice.from \in {"FAILED", "PARTIAL"}

MustWrite(choice) == Reopens(choice) \/ choice.changed \/ choice.renewAuth

\* The row written by START's compare-and-set.
ContinuedRow(row, choice) ==
    [row EXCEPT !.state = IF Reopens(choice) THEN "RUNNING" ELSE @,
                !.failedStages = IF Reopens(choice) THEN 0 ELSE choice.failed,
                !.closed = IF Reopens(choice) THEN 0 ELSE @,
                !.plan = IF choice.changed THEN choice.plan ELSE @,
                !.completedStages = IF choice.changed THEN choice.completed ELSE @,
                !.current = choice.next,
                !.idle = 0]

NewRow(device, plan) ==
    [state |-> "RUNNING", device |-> device, plan |-> plan,
     completedStages |-> 0, failedStages |-> 0,
     current |-> IF plan = <<>> THEN NoGrid ELSE plan[1],
     idle |-> 0, closed |-> 0]

\* Mutant: the resume window is dropped.
RecentEnough(age) == age <= AgeCap

\* Inside LOCAL_CONNECTOR_VERIFIED_FRESH_MS.
Recent(age) == age <= Fresh

\* Terminal runs START may look at: a failed or partial one inside the resume
\* window, furthest cursor first and newest among equals; the latest completed
\* one inside the freshness window.
Resumable(device) ==
    LET candidates == {r \in Runs : /\ run[r].device = device
                                    /\ \/ run[r].state = "FAILED" /\ Recent(run[r].idle)
                                       \/ run[r].state = "PARTIAL" /\ Recent(run[r].closed)}
    IN  {r \in candidates : \A q \in candidates \ {r} :
            \/ run[r].completedStages > run[q].completedStages
            \/ run[r].completedStages = run[q].completedStages /\ r > q}

NewestCompleted(device) ==
    LET candidates == {r \in Runs : /\ run[r].device = device
                                    /\ run[r].state = "COMPLETED"
                                    /\ Recent(run[r].closed)}
    IN  {r \in candidates : \A q \in candidates : run[r].closed <= run[q].closed}

\* findFirst: one row of the first ones in the order, or none.
FirstRow(S) == IF S = {} THEN {{}} ELSE {{r} : r \in S}

\* Mutant: a full refresh does not look at the live run.
LiveUnlessForced(live, intent) == live # {} /\ intent # "forceRefresh"

\* active = running ?? ...: a live run wins, whatever was asked for.
LiveWins(live, intent) == live # {}

\* completedPlanMatchesExactly
ExactPlan(r, request) == Retained(InForce(run[r].plan)) = Retained(request)

\* latestTerminal: the younger of the two, either when one tick holds both;
\* empty when there is neither.
TerminalAge(r) == IF run[r].idle < run[r].closed THEN run[r].idle ELSE run[r].closed

LatestTerminal(resumable, reusable) ==
    IF resumable = {} THEN reusable
    ELSE IF reusable = {} THEN resumable
    ELSE {r \in resumable : \E q \in reusable : TerminalAge(r) <= TerminalAge(q)}
         \union {q \in reusable : \E r \in resumable : TerminalAge(q) <= TerminalAge(r)}

AllIntents == {"resume", "discardFailedPlans", "forceRefresh"}

CallState ==
    [pc : {"idle"}]
    \union [pc : {"select"}, device : Devices, request : Plans,
            intent : AllIntents]
    \union [pc : {"create"}, device : Devices, request : Plans]
    \union [pc : {"write", "resolve"}, choice : Choice]

IdleCall == [pc |-> "idle"]

PendingCalls == {c \in Calls : call[c].pc # "idle"}

Unused == {r \in Runs : run[r].state = "ABSENT"}

\* A call that decided: it has a row to update, or it answers at once.
Decided(choice) ==
    IF MustWrite(choice) THEN [pc |-> "write", choice |-> choice] ELSE IdleCall

-----------------------------------------------------------------------------
(* START, statement by statement *)

\* A device asks for a run.  Its stale runs are failed and the newest live one
\* is read; a live run wins over everything else.
StartRead(c, device, asked, intent, authExpired) ==
    LET request == WithPrerequisite(asked)
        live == {r \in Runs : run'[r].device = device /\ run'[r].state = "RUNNING"}
    IN  /\ call[c].pc = "idle"
        /\ device \in connected \ LegacyDevices
        /\ run' = FailStale({r \in Runs : run[r].device = device})
        /\ IF LiveWins(live, intent)
           THEN \E r \in live : /\ \A q \in live : q <= r
                                 /\ \E choice \in ContinueChoices(r, request, authExpired) :
                                        call' = [call EXCEPT ![c] = Decided(choice)]
           ELSE call' = [call EXCEPT ![c] =
                    [pc |-> "select", device |-> device, request |-> request,
                     intent |-> intent]]
        /\ UNCHANGED <<connected, rows, failures, failing>>

\* No live run was seen: the terminal ones are read and one is continued, or,
\* when there is none or a fresh read was asked for, a new run is needed.
StartSelect(c) ==
    /\ call[c].pc = "select"
    /\ \E found \in FirstRow(Resumable(call[c].device)),
          done \in FirstRow(NewestCompleted(call[c].device)) :
          LET resumable == IF call[c].intent = "discardFailedPlans" THEN {} ELSE found
              reusable == {r \in done : ExactPlan(r, call[c].request)}
              latest == LatestTerminal(resumable, reusable)
          IN  IF call[c].intent = "forceRefresh" \/ latest = {}
              THEN call' = [call EXCEPT ![c] =
                       [pc |-> "create", device |-> @.device, request |-> @.request]]
              ELSE \E r \in latest :
                   \E choice \in ContinueChoices(r, call[c].request, FALSE) :
                       call' = [call EXCEPT ![c] = Decided(choice)]
    /\ UNCHANGED <<connected, run, rows, failures, failing>>

\* (The bound: with every run number used the call can only be dropped.)
StartCreate(c) ==
    /\ call[c].pc = "create"
    /\ \E r \in Unused :
          /\ \A q \in Unused : r <= q
          /\ run' = [run EXCEPT ![r] = NewRow(call[c].device, call[c].request)]
    /\ call' = [call EXCEPT ![c] = IdleCall]
    /\ UNCHANGED <<connected, rows, failures, failing>>

\* The compare-and-set on the state that was read.  Losing it is not an error,
\* and the failure rows are written next either way.
StartWrite(c) ==
    LET choice == call[c].choice
        t == choice.target
    IN  /\ call[c].pc = "write"
        /\ run' = IF run[t].state = choice.from
                  THEN [run EXCEPT ![t] = ContinuedRow(@, choice)]
                  ELSE run
        /\ call' = [call EXCEPT ![c] =
                       IF Reopens(choice) \/ choice.changed
                       THEN [pc |-> "resolve", choice |-> choice] ELSE IdleCall]
        /\ UNCHANGED <<connected, rows, failures, failing>>

StartResolve(c) ==
    LET choice == call[c].choice
    IN  /\ call[c].pc = "resolve"
        /\ failures' = [failures EXCEPT ![choice.target] =
                           IF Reopens(choice) THEN {} ELSE @ \ {Deprecated}]
        /\ call' = [call EXCEPT ![c] = IdleCall]
        /\ UNCHANGED <<connected, run, rows, failing>>

\* The handler dies between two statements: what it wrote stays.
StartCrash(c) ==
    /\ call[c].pc # "idle"
    /\ call' = [call EXCEPT ![c] = IdleCall]
    /\ UNCHANGED <<connected, run, rows, failures, failing>>

-----------------------------------------------------------------------------
(* Stages *)

\* Mutant: the stage completion is not looked at, so a late page still lands.
IngestPageUnsealed(r, g, s, page) ==
    /\ Live(r) /\ Served(r)
    /\ g \in Planned(r)
    /\ receipts[r][g][s] = NoPage
    /\ receipts' = [receipts EXCEPT ![r][g][s] = page]
    /\ rawPages' = [rawPages EXCEPT ![r][g][s] = page]

\* ingestLocalConnectorStage: a new page of an unsealed planned grid.
IngestPage(r, g, s, page) ==
    /\ Live(r) /\ Served(r)
    /\ g \in Planned(r)
    /\ receipts[r][g][s] = NoPage
    /\ completions[r][g] = NoCompletion
    /\ receipts' = [receipts EXCEPT ![r][g][s] = page]
    /\ rawPages' = [rawPages EXCEPT ![r][g][s] = page]

Ingest(r, g, s, page) ==
    /\ IngestPage(r, g, s, page)
    /\ run' = [run EXCEPT ![r].current = g, ![r].idle = 0]
    /\ UNCHANGED <<connected, completions, failures, call, failing>>

\* The same page under another idempotency key: a heartbeat and nothing else.
IngestDuplicate(r, g, s) ==
    /\ Live(r) /\ Served(r)
    /\ g \in Planned(r)
    /\ receipts[r][g][s] # NoPage
    /\ run' = [run EXCEPT ![r].idle = 0]
    /\ UNCHANGED <<connected, rows, failures, call, failing>>

\* Mutant: a truncated page counts as the end of its grid.
FinalGridsAny(held) ==
    {g \in Grids : \E s \in Sequences : held[g][s] \in Pages}

\* finalizedGrids
FinalGrids(held) ==
    {g \in Grids : \E s \in Sequences : held[g][s] \in Pages \ TruncatedPages}

\* The retired protocol has no COMPLETE call: a grid counts as done when any
\* page of it was not truncated.
IngestLegacy(r, g, s, page) ==
    LET done == Cardinality(Planned(r) \intersect FinalGrids(receipts'[r]))
        completed == done = Len(InForce(run[r].plan))
    IN  /\ run[r].device \in LegacyDevices
        /\ IngestPage(r, g, s, page)
        /\ run' = [run EXCEPT ![r] =
                      [@ EXCEPT !.state = IF completed THEN "COMPLETED" ELSE "RUNNING",
                                !.completedStages = done,
                                !.current = IF completed THEN NoGrid ELSE g,
                                !.idle = 0, !.closed = 0]]
        /\ UNCHANGED <<connected, completions, failures, call, failing>>

\* Mutant: the pages are counted, not matched with their sequence numbers.
ReconcilesByCount(held, raw, expected, final) ==
    /\ Cardinality(Held(held)) = final + 1
    /\ Held(raw) = Held(held)
    /\ RecordsIn(raw) = RecordsIn(held)
    /\ TotalRecords(held) = expected

\* sequencesAreComplete, receivedRecordCount and rawPagesAreComplete.
Reconciles(held, raw, expected, final) ==
    /\ Held(held) = 0..final
    /\ Held(raw) = Held(held)
    /\ RecordsIn(raw) = RecordsIn(held)
    /\ TotalRecords(held) = expected

\* completeLocalConnectorStage on a live run.  A repeated call must name the
\* completion that is already there.
Complete(r, g, expected, final) ==
    LET this == [expected |-> expected, final |-> final]
        done == Sealed(r) \union {g}
        failed == failures[r] \ {g}
    IN  /\ Live(r) /\ Served(r)
        /\ g \in Planned(r)
        /\ Reconciles(receipts[r][g], rawPages[r][g], expected, final)
        /\ completions[r][g] \in {NoCompletion, this}
        /\ completions' = [completions EXCEPT ![r][g] = this]
        /\ failures' = [failures EXCEPT ![r] = failed]
        /\ run' = [run EXCEPT ![r] = SettledRow(@, InForce(@.plan), done, failed,
                        Cardinality(Planned(r) \intersect done))]
        /\ UNCHANGED <<connected, receipts, rawPages, call, failing>>

\* The same call after the run ended: answered from the completion.
CompleteReplay(r, g) ==
    /\ run[r].state \in {"COMPLETED", "PARTIAL"} /\ Served(r)
    /\ g \in Planned(r)
    /\ completions[r][g] # NoCompletion
    /\ run' = [run EXCEPT ![r].idle = 0]
    /\ UNCHANGED <<connected, rows, failures, call, failing>>

\* failLocalConnectorStage up to its last statement: the failure row is written
\* but not visible, and the rows it counts were read without locking the run.
FailStageRead(r, g) ==
    /\ Live(r) /\ Served(r)
    /\ g \in Planned(r)
    /\ Cardinality(failing) < MaxFailing
    /\ failing' = failing \union
          {[target |-> r, grid |-> g, plan |-> InForce(run[r].plan),
            done |-> Sealed(r), failed |-> failures[r] \union {g}]}
    /\ UNCHANGED <<connected, run, rows, failures, call>>

\* Its compare-and-set and commit, or its rollback when the run has ended.
FailStageCommit(tx) ==
    LET r == tx.target
    IN  /\ tx \in failing
        /\ failing' = failing \ {tx}
        /\ IF Live(r)
           THEN /\ failures' = [failures EXCEPT ![r] = @ \union {tx.grid}]
                /\ run' = [run EXCEPT ![r] = SettledRow(@, tx.plan, tx.done, tx.failed,
                                                 Cardinality(tx.done))]
           ELSE UNCHANGED <<run, failures>>
        /\ UNCHANGED <<connected, rows, call>>

-----------------------------------------------------------------------------
(* Ending a run, and the passing of time *)

\* failLocalConnectorRun: the device gives up, the user cancels in the
\* extension, or a route finds that the agent lost access to the plan.
FailRun(r) ==
    /\ Live(r) /\ Served(r)
    /\ run' = [run EXCEPT ![r] = FailedRow(@)]
    /\ UNCHANGED <<connected, rows, failures, call, failing>>

\* skipNationalLifeOnboardingAction cancels every live run of the agent.
CancelRuns ==
    /\ \E r \in Runs : Live(r)
    /\ run' = [r \in Runs |-> IF Live(r)
                              THEN [FailedRow(run[r]) EXCEPT !.current = NoGrid]
                              ELSE run[r]]
    /\ UNCHANGED <<connected, rows, failures, call, failing>>

\* revokeLocalConnectorDevice: its live runs end with it.  A START that was
\* already authenticated keeps going.
RevokeDevice(device) ==
    /\ device \in connected
    /\ connected' = connected \ {device}
    /\ run' = [r \in Runs |-> IF Live(r) /\ run[r].device = device
                              THEN FailedRow(run[r]) ELSE run[r]]
    /\ UNCHANGED <<rows, failures, call, failing>>

\* The browser is closed, the extension removed, the laptop lost.
DeviceVanishes(device) ==
    /\ device \in connected
    /\ connected' = connected \ {device}
    /\ UNCHANGED <<run, rows, failures, call, failing>>

\* lockExportRun: uploading an export touches the run it feeds.
ExportHeartbeat(r) ==
    /\ run[r].state \in {"RUNNING", "COMPLETED", "PARTIAL"} /\ Served(r)
    /\ run' = [run EXCEPT ![r].idle = 0]
    /\ UNCHANGED <<connected, rows, failures, call, failing>>

\* Mutant: only the runs of devices that still talk are looked at.
ExpireStaleServed ==
    /\ run' = FailStale({r \in Runs : Served(r)})
    /\ UNCHANGED <<connected, rows, failures, call, failing>>

\* expireStaleLocalConnectorRuns, on every status poll of the agent's page.
ExpireStale ==
    /\ run' = FailStale(Runs)
    /\ UNCHANGED <<connected, rows, failures, call, failing>>

\* sweepLocalConnectorTables: receipts go with the age of their run, raw pages
\* and completions stay.  A pass may stop at any row.
SweepReceipt(r, g, s) ==
    /\ run[r].state \in Terminal
    /\ run[r].idle > Retention
    /\ receipts[r][g][s] # NoPage
    /\ receipts' = [receipts EXCEPT ![r][g][s] = NoPage]
    /\ UNCHANGED <<connected, run, rawPages, completions, failures, call, failing>>

\* A tick is much longer than a request: none is in flight across it.
Older(age) == IF age < AgeCap THEN age + 1 ELSE age

Tick ==
    /\ PendingCalls = {} /\ failing = {}
    /\ run' = [r \in Runs |->
                  IF run[r].state = "ABSENT" THEN run[r]
                  ELSE [run[r] EXCEPT !.idle = Older(@),
                                      !.closed = IF Live(r) THEN @ ELSE Older(@)]]
    /\ UNCHANGED <<connected, rows, failures, call, failing>>

-----------------------------------------------------------------------------
(* Specification *)

AbsentRow ==
    [state |-> "ABSENT", device |-> CHOOSE d \in Devices : TRUE, plan |-> <<>>,
     completedStages |-> 0, failedStages |-> 0, current |-> NoGrid,
     idle |-> 0, closed |-> 0]

\* A live run left by an earlier release, whose cursor is a counter.
OldRow(device, plan, count) ==
    [NewRow(device, plan) EXCEPT !.completedStages = count, !.current = InForce(plan)[count + 1]]

Init ==
    /\ connected = Devices
    /\ run \in {[r \in Runs |-> AbsentRow]} \union
               UNION {{[r \in Runs |-> IF r = 1 THEN OldRow(d, p, n) ELSE AbsentRow] :
                          n \in 0..(Len(InForce(p)) - 1)} : d \in Devices, p \in OldPlans}
    /\ receipts = [r \in Runs |-> [g \in Grids |-> NoPages]]
    /\ rawPages = [r \in Runs |-> [g \in Grids |-> NoPages]]
    /\ completions = [r \in Runs |-> [g \in Grids |-> NoCompletion]]
    /\ failures = [r \in Runs |-> {}]
    /\ call = [c \in Calls |-> IdleCall]
    /\ failing = {}

StartStep(c) ==
    \/ StartSelect(c) \/ StartCreate(c) \/ StartWrite(c) \/ StartResolve(c)
    \/ StartCrash(c)

FailStep == \E tx \in failing : FailStageCommit(tx)

StartNext(c) ==
    \/ \E d \in Devices, p \in Requests, i \in Intents, a \in BOOLEAN :
          StartRead(c, d, p, i, a)
    \/ StartStep(c)

\* A page lands.
PageNext(r, g, s, page) == Ingest(r, g, s, page) \/ IngestLegacy(r, g, s, page)

\* A stage call that neither lands a page nor completes a grid.
QuietNext(r, g) ==
    \/ \E s \in Sequences : IngestDuplicate(r, g, s)
    \/ CompleteReplay(r, g)
    \/ FailStageRead(r, g)

EndNext ==
    \/ \E r \in Runs : FailRun(r) \/ ExportHeartbeat(r)
    \/ \E r \in Runs, g \in Grids, s \in Sequences : SweepReceipt(r, g, s)
    \/ \E d \in Devices : RevokeDevice(d) \/ DeviceVanishes(d)
    \/ CancelRuns
    \/ ExpireStale
    \/ Tick

Next ==
    \/ \E c \in Calls : StartNext(c)
    \/ \E r \in Runs, g \in Grids, s \in Sequences, page \in Pages : PageNext(r, g, s, page)
    \/ \E r \in Runs, g \in Grids, n \in 0..MaxTotal, f \in Sequences : Complete(r, g, n, f)
    \/ \E r \in Runs, g \in Grids : QuietNext(r, g)
    \/ FailStep
    \/ EndNext

Spec == Init /\ [][Next]_vars

(***************************************************************************)
(* Handlers run to their end or are killed, transactions commit or roll    *)
(* back, time passes, and the agent's page polls the sync status.  Nothing *)
(* is assumed of the device.                                               *)
(***************************************************************************)
Fairness ==
    /\ \A c \in Calls : WF_vars(StartStep(c))
    /\ WF_vars(FailStep)
    /\ WF_vars(Tick)
    /\ WF_vars(ExpireStale)

FairSpec == Spec /\ Fairness

-----------------------------------------------------------------------------
(* Properties *)

FailTx == [target : Runs, grid : Grids, plan : Seq(Grids),
           done : SUBSET Grids, failed : SUBSET Grids]

\* Every variable has its type.
TypeOK ==
    /\ connected \subseteq Devices
    /\ run \in [Runs -> RunRow]
    /\ receipts \in [Runs -> [Grids -> [Sequences -> Pages \union {NoPage}]]]
    /\ rawPages \in [Runs -> [Grids -> [Sequences -> Pages \union {NoPage}]]]
    /\ completions \in [Runs -> [Grids -> Completion \union {NoCompletion}]]
    /\ failures \in [Runs -> SUBSET Grids]
    /\ call \in [Calls -> CallState]
    /\ failing \subseteq FailTx

\* The raw pages of grid g are exactly the ones its completion vouches for.
Vouched(r, g) ==
    /\ completions[r][g] # NoCompletion
    /\ Held(rawPages[r][g]) = 0..completions[r][g].final
    /\ TotalRecords(rawPages[r][g]) = completions[r][g].expected

\* A run reported COMPLETED has, for every grid it planned, a completion whose
\* pages are all still there and add up to the carrier's total, and no failure
\* is left unresolved.  (Devices of the retired protocol complete by page.)
CompletedMeansVerified ==
    \A r \in Runs :
        run[r].state = "COMPLETED" /\ run[r].device \notin LegacyDevices =>
            /\ \A g \in Planned(r) : Vouched(r, g)
            /\ failures[r] = {}

\* A run completed over the retired protocol has, for every grid it planned, a
\* page that was not truncated or a completion.
LegacyCompletedHasFinalPages ==
    \A r \in Runs :
        run[r].state = "COMPLETED" =>
            \A g \in Planned(r) :
                \/ \E s \in Sequences : rawPages[r][g][s] \in Pages \ TruncatedPages
                \/ Vouched(r, g)

\* As long as a run can take uploads, its receipts and its raw pages agree: the
\* janitor never takes a receipt from a run that can still be reopened.
ReceiptsBackUploads ==
    \A r \in Runs : Live(r) => receipts[r] = rawPages[r]

\* Once a grid is completed its evidence is frozen: neither its raw pages nor
\* its completion ever change again, whatever arrives late.
SealedIsFrozen ==
    [][\A r \in Runs, g \in Grids :
          completions[r][g] # NoCompletion =>
              rawPages'[r][g] = rawPages[r][g] /\ completions'[r][g] = completions[r][g]]_vars

\* A completed run never leaves COMPLETED: no late page, failure, timeout,
\* cancellation, revocation or START reopens it.
CompletedIsFinal ==
    [][\A r \in Runs : run[r].state = "COMPLETED" => run'[r].state = "COMPLETED"]_vars

\* One live run per device.
OneLiveRun ==
    \A r, q \in Runs : Live(r) /\ Live(q) /\ run[r].device = run[q].device => r = q

\* A run whose device is gone does not stay live for ever.
OrphanedRunEnds ==
    \A r \in Runs : (Live(r) /\ ~Served(r)) ~> ~Live(r)

=============================================================================
