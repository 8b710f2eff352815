# Keepr One in TLA+

Keepr One is a CRM for insurance agents. What makes it a distributed program is
its data: the carrier (National Life) has no API, so the agent's own browser
reads it. A paired browser extension ("local connector") pages through the
carrier's grids and uploads them; the server decides when a grid, and a whole
run, is complete, and only then shows it as the agent's portfolio. A second
distributed part is the calendar, kept in step with Google Calendar through an
outbox, and a third is the messages the K-Bot sends on the agent's behalf.

This directory holds TLA+ modules translated from that code, the TLC
configurations that check small instances, and proofs for every instance.
Paths below are relative to `src/`.

## Inventory

| Component | State it keeps | Operations | What is hard |
|---|---|---|---|
| Sync runs (`lib/national-life/local-connector/run-service.ts`) | a run row, stage receipts, raw pages, stage completions, stage failures | START, page upload, COMPLETE, FAIL-STAGE, FAIL, stale sweep | START is four autocommitted statements; pages arrive late, twice, out of order; the device vanishes |
| Verified snapshot (same file, `persistRecords` to `pruneRowsMissingFromVerifiedSnapshot`) | case and policy snapshots, published report rows, one publication cursor per grid | upsert at page upload, publish and prune at COMPLETE | two devices of one agent write the same rows, each by its own clock |
| Receipt janitor (`janitor.ts`) | nothing of its own; deletes nonces, pairings, receipts by age | sweep | must not take receipts of a run that START may still reopen |
| Pairing and device signature (`pairing.ts`, `device-signature.ts`, `device-service.ts`) | devices, nonces | pair, authenticate, revoke | revocation while a request is in flight |
| Connector commands (`lib/national-life/connector-command-service.ts`, `command-dispatch-service.ts`) | command row, events numbered from 0, approvals | request, approve, dispatch, record event, retry authentication | read-check-write without a transaction |
| Illustrations (`app/agent/illustrations/actions.ts`, `illustration-service.ts`) | an illustration, its attempts and its PDF | dispatch, resume, retry, issue again | a click, a poll and an expiry decide the same command |
| Application add-on (`app/agent/cases/[id]/actions.ts`, `lib/application-addon/`) | dossier, hash of the reviewed dossier, state | save, review, prepare, take receipts | the row has neither lock nor version |
| Credential leases (`lib/national-life/credentials/`) | credential, lease per device, operation and epoch | save, revoke, issue, deliver, commit outcome | one-shot delivery; a rejected password must stop auto-login |
| Exports and documents (`export-upload-service.ts`, `document-transfer-service.ts`) | chunked uploads | open, chunk, finish, recover | interrupted uploads, same grid from page and export |
| Extension (`apps/keeprone-connect`) | cursor in local storage | run loop, paging, commands | service worker killed at any await |
| Portfolio promotion (`current-portfolio-prisma.ts`) | current portfolio | promote after a terminal stage | runs after the commit, against rows that move |
| Google Calendar (`lib/calendar/repository.ts`, `lib/calendar/google/`) | events with a local revision, sync jobs, sources with sync tokens, watch channels | edit, claim, deliver, inbound sync, watch | lost responses, expired leases, a newer edit while Google answers |
| Scheduling (`lib/scheduling/`) | booking links, bookings, email outbox | book, cancel, deliver | two visitors for one slot |
| K-Bot (`lib/kbot-messaging`, `lib/kbot-followup`) | jobs, credit grants, approvals | queue, approve, claim, send, settle | credits spent twice, jobs claimed twice |
| Billing and invitations (`lib/stripe`, `lib/agency-invitation-finalization.ts`) | subscriptions, invitations | checkout, webhook, finalize | webhooks repeated and reordered |
| Agency tree, access, CRM, CSV import, email, pages | rows edited in single transactions | forms | nothing concurrent beyond row locks |

How they interact: the extension calls the run service over signed requests;
COMPLETE publishes the snapshot in the same transaction, and its route promotes
the portfolio after the commit; connector commands and credential leases belong
to the same devices; an edit of an event writes the event and its outbox job in
one transaction, and a scheduled worker delivers it; a public booking creates a
calendar event; the K-Bot reads portfolio and bookings and spends credits.

## The components, and what makes each correct

- *Sync runs.* A run called COMPLETED holds every page that the carrier's totals
  vouch for, and stays COMPLETED; a completed grid is frozen; a device has one
  live run, which always points at a stage; a device that disappears does not
  leave a run live; the janitor takes no receipt of a run that can be resumed.
- *Verified snapshot.* Only rows of completed grids are published; a current-state
  report shows one device's snapshot, never a mixture, and never goes back; what
  the last completed run holds is not pruned.
- *Google Calendar.* What is called SYNCED is what Google holds; Google holds the
  event once; a cancelled event does not come back; newer contents are never
  overwritten by older ones; the agent can retry whatever is shown in error.
- *Connector commands.* A command is bound once, to one device, and carried out
  by no other; its log only grows, and says of the work what was done, in order.
- *Illustrations, applications.* Nothing reaches the carrier that the agent did
  not ask for; a draft that is reported is stored; only the agent gives up a draft
  that has landed.
- *Credential leases.* A password is typed once in an episode; a rejected one is
  not leased again until the agent enters another.
- *Exports.* A finished export has every chunk, and its rows are those of one file.
- *Portfolio promotion.* A promoted portfolio is the one of a terminal run's rows.
- *Scheduling.* No two live bookings of one agent overlap; each booking is
  confirmed by e-mail once.
- *K-Bot.* Credits spent plus credits reserved never exceed credits granted; a
  job is sent at most once; a contact gets one message in a week, of whatever
  kind; a follow-up does not stay in preparation.
- *Billing, invitations.* Repeated and reordered webhooks end in the state of
  the newest.

`PROJECT.json` lists, under "hazards", the line at which each of these could
break and the property that would notice.

## Modules

| Module | Models | State |
|---|---|---|
| `LocalConnectorRun` | sync runs: `run-service.ts`, and every other handler that writes the same rows | done |
| `MCLocalConnectorRun` | its small instances | done |
| `LocalConnectorRunProofs` | every safety property of the next section; `OneLiveRun` while STARTs of a device do not overlap | done |
| `VerifiedSnapshot` | landing, publishing and pruning, conjoined to the steps of `LocalConnectorRun` | done |
| `MCVerifiedSnapshot`, `VerifiedSnapshotProofs` | its instances; refinement, publication, and what pruning spares | done |
| `CalendarOutbox` | one event, its outbox, its drains and its copies at Google | done |
| `MCCalendarOutbox`, `CalendarOutboxProofs` | its instances; SYNCED means equal, for any number of drains; four properties of drains that do not overlap | done |
| `CommandLedger` | what connector commands promise: bound once, an append-only log | done |
| `ConnectorCommand`, `ConnectorCommandProofs` | issue, approval, dispatch, events, authentication retry, and the extension that polls; every action keeps `CommandInv` and is a step of the ledger | done |
| `IllustrationCommand`, `MCIllustrationCommand`, `IllustrationCommandProofs` | one illustration over `ConnectorCommand`; refinement of `CommandLedger` | done |
| `ApplicationDraft`, `MCApplicationDraft`, `ApplicationDraftProofs` | one application over `ConnectorCommand` | done |
| `CredentialLease`, `MCCredentialLease`, `CredentialLeaseProofs` | stored password, leases, outcomes, and the extension that types it | done |
| `KBotQueue`, `MCKBotQueue`, `KBotQueueProofs` | follow-ups and scheduled messages: credit, approval, workers, sends; sums of credit over any set of jobs | done |
| `SchedulingBookings` | holds, bookings and the e-mail outbox; composed with `CalendarOutbox` through CreateEvent | planned |
| `ExtensionCursor` | the extension's run loop as the client of `LocalConnectorRun`: its steps are a subset of the arbitrary client's, to show that a killed service worker repeats and never skips a page | planned |

The abstract specifications are `LocalConnectorRun` for `VerifiedSnapshot` and
`CommandLedger` for the two modules over `ConnectorCommand`; both refinements
are proved, the second is a property of a run as well. Each module has
theorems of its own in its `Proofs` module, or in that of the module above it
(`ConnectorCommand` has no behaviour of its own: what asks for its commands is
`IllustrationCommand` or `ApplicationDraft`). Planned next: bookings do not
overlap.

## LocalConnectorRun

One action is one committed transaction or one autocommitted statement, at the
grain at which PostgreSQL lets others in between. Page upload and COMPLETE first
update the run row, so hold its lock to the end: one action each (`Ingest`,
`Complete`, and `IngestDuplicate`, `CompleteReplay` for what was already done).
FAIL-STAGE reads under no lock and writes last: `FailStageRead`,
`FailStageCommit`, with any number of others between. START is no transaction:
`StartRead` (the live run), `StartSelect` (the terminal runs and the decision),
`StartCreate` or `StartWrite` (the compare-and-set), `StartResolve` (the failure
rows), and `StartCrash` between any two. `CancelRuns`, `RevokeDevice`,
`FailRun`, `ExpireStale`, `SweepReceipt` and `ExportHeartbeat` are the other
writers. The device is an arbitrary client: it sends any planned call, of any
grid, in any order, any number of times, and may vanish (`DeviceVanishes`).

| Variable | In the code |
|---|---|
| `run` | `NationalLifeSyncRun` rows, by order of creation; `idle`, `closed` are now minus `updatedAt`, `completedAt` |
| `receipts`, `rawPages` | stage receipts and raw grid pages by run, grid and sequence, with the content hash as contents |
| `completions`, `failures` | stage completions (expected total, final sequence) and unresolved failures |
| `call`, `failing` | START and FAIL-STAGE handlers between two statements |
| `connected` | devices that are paired, not revoked, and still there |

*Data left out.* A page is a name, its record count and its truncated flag. Row
contents appear in `VerifiedSnapshot`. Signature checks decide who may call; the
model's caller is allowed to. The job rows that mirror a run are not read back.

*Plans.* The server chooses a plan, not the device. An empty one is stored by
releases older than the column and by a START for an agent who may read nothing;
every reader then goes by the legacy pair (`InForce`, `LegacyPlan`). No release
plans the deprecated grid alone, which `DataAssumption` states (`Plans`): START
would drop it and store the empty plan, and the run would go by the legacy pair.

*Time.* Ages are counted in ticks up to one beyond the longest window (`AgeCap`);
two ages of one tick are not ordered, and a comparison that they do not decide is
a choice. The windows enter by their order only, which `WindowAssumption`
states: run timeout <= verified-fresh window < receipt retention.

| Run | Instance | Shows |
|---|---|---|
| `starts` | one device, one grid, two run rows, one START in flight, all options, windows 1, 1, 2 | `OneLiveRun`, `ReceiptsBackUploads`, and under fairness `OrphanedRunEnds` |
| `stages` | plan with a detail grid and its prerequisite, an old plan with the deprecated grid, a START with no grids, one FAIL-STAGE in flight | `CompletedMeansVerified`, `CompletedIsFinal` |
| `pages` | two devices (one of the retired protocol), two grids, an old run whose plan is empty, two sequences, an empty, a truncated and an ordinary page | `CompletedMeansVerified`, `SealedIsFrozen`, `LegacyCompletedHasFinalPages`, `TypeOK` |

With two STARTs in flight (`Calls = {c1, c2}`) TLC finds two live runs; see
Findings. `OneLiveRun` is proved for any number of devices and STARTs, of which
those of one device do not overlap (`OneStartAtATime`).

*Why these bounds.* Two run rows are the least for a run to be superseded and for
START to choose among terminal runs; two grids the least for one to be completed
while the other fails; two sequences the least for a gap; two contents the least
for a page to be repeated with others. A handler in flight sees at most one
relevant change of each kind, so one of each suffices.
The three runs differ in what they make large because all at once is out of reach;
what each makes small is what the proofs cover for every size.

*Fairness* (`starts` only). Handlers run to their end or are killed,
transactions commit or roll back, time passes, and the agent's page keeps asking
for the sync status, which is what sweeps stale runs
(`expireStaleLocalConnectorRuns` is called by
`lib/national-life/sync-run-service.ts:265`). Nothing is assumed of the device,
and nothing that extends a run's life is fair.

## VerifiedSnapshot

`SnapNext` conjoins to a page upload what it lands (`Land`) and to a COMPLETE
what it publishes and prunes (`Publish`), because both happen inside the same
transactions; every other step leaves these variables alone. `snapshot` keeps for
each natural key the time stamp of its row, `published` the run that a report row
names, `cursor` the publication row, `observed` the read stamp of a grid's oldest
page (the pruning boundary), `sealedAt` the server's stamp of a completion.

Stamps are small numbers. A device reads page after page, so its own stamps
increase; its clock is related neither to another device's nor to the server's,
and the order in which two devices' completions take the server's time is not the
order in which they commit. Rows that a document export brings (stamped with the
export's creation) are left out.

| Run | Instance | Shows |
|---|---|---|
| `snap_reports` | two devices, one report grid, two natural keys | `PublishedMatchesCursor`, `PublicationAdvances` |
| `snap_policies` | one device, one policy grid, two runs of two pages, interrupted and refreshed | `PruneSparesVerified` |

`PruneSparesVerified` is checked with one device: with two whose clocks disagree
it does not hold (see Findings). It is proved for one device, and for any number
whose clocks agree (`ClocksAgree`).

## CalendarOutbox

One event of the agent. `event` is its row, `jobs` its outbox (one job per
revision), `google` the copy in each calendar, `worker` the drains, `page` a page
of `events.list` read and not yet applied. Edits (`CreateEvent`, `UpdateEvent`,
which may move the event, `CancelEvent`) write the event and its job in one
transaction. A drain claims a job (`Claim`, also one whose lease has run out),
reads the event (`ReadEvent`, which closes a superseded job), reserves the
provider id, makes its calls, and persists (`Stamp`, `CloseJob`, or `FailJob` and
`BlameEvent`, two transactions). Each call is applied and answered, applied and
its answer lost, refused, or never made (`Applies`, `Answered`, `Refused`,
`Fails`), and the drain may be killed at each step (`Crash`). `EditOutside`,
`ListPage` and `ApplyPage` are the other direction; between a page's reading and
its application anything may happen.

*Data left out.* Contents are named by the revision that wrote them, those written
at Google by `Outside`; so "older" is a smaller number. An ETag is the number of
the change that Google applied. Backoff is left out: after one failure it makes
the order of claims arbitrary, which is what the model has. Leases may run out
under a live drain, because a call has no time limit. Google is modelled from how
the code uses it: conditional writes answer 412 for another ETag, an insert of a
known id answers 409, a lookup or delete of nothing answers 404. Recurring events,
deletion at Google, sources, tokens, watch channels and reconnection are not
modelled.

| Run | Instance | Shows |
|---|---|---|
| `cal_deliveries` | three calendars, one drain, three revisions, three changes at Google, one attempt | `SyncedMatchesGoogle`, `CancelledIsGone`, `ErrorCanBeRetried`, `MoveLeavesNoCopy`, `GoogleNeverOlder` |
| `cal_race` | two drains of one process, two revisions, two attempts | **violated** `GoogleNeverOlder` (see Findings) |

`MoveLeavesNoCopy` speaks of moves that no later edit overtook: after one that
was, the code can leave a second copy (see Findings).

*Why these bounds.* With three calendars two moves in a row need not return to
where the event was. Three revisions are a creation, a move and a cancellation,
or a move and an edit after it; three changes are an insert, a move and the
patch after it, an insert, an edit made at Google and the patch that overwrites
it, or an insert, a patch and a delete. With one attempt every failure is final,
and a job is attempted again after the agent's retry or after a lost lease, so
each call is still repeated after each kind of failure; the automatic retry adds
the same repetition. Two larger instances were checked once as well and hold:
four changes (2.8 million states), and two attempts with two calendars.
`ErrorCanBeRetried`, `CancelledIsGone`, `MoveLeavesNoCopy` and `GoogleNeverOlder`
are checked with one drain, and proved for any number of which no two are at work
together (`OneDrain`): two that overlap break each of them, the last as in
`cal_race`. `SyncedMatchesGoogle` is proved for any number.

A run stops where every bound is used up (the next revision, the next change, the
next event, the next fault), so the calendar runs do not check for deadlock, nor
do `illustrations`, `drafts`, `draft_resumes`, `leases` and `kbot`; the others do.

## Connector commands

`ConnectorCommand` has the statements in which a command is issued, approved,
dispatched and reported, none of them in one transaction with the next:

| In the code | Actions |
|---|---|
| `issueConnectorCommand` | `Ask`, `IssueFind`, `IssueCreate`, `IssueFirstEvent` |
| `approveConnectorCommand` | `ApproveRead`, `ApproveWrite`, `ApproveAccept` |
| `retryConnectorCommandAuthentication` | `RetryRead`, `RetryCommit` |
| dispatch at a poll (`command-dispatch-prisma.ts`) | `ClaimOwned`, `ClaimUnbound`, `ClaimCommit` |
| `recordConnectorCommandEvent` | `PostRead`, `PostAppend`, `PostUpdate` |
| the extension (`background.ts`) | `ReadInput`, `ReportStart`, `Execute`, `ExecuteFails`, `ReportCompletion`, `ReportFailure`, `SignInNeeded`, `RestartAuthentication` |
| faults | `AnswerLost`, `WorkerKilled`, `RequestCrash`, `PostCrash`, `Expire` |

`command` is the row and its log by idempotency key, `request` and `post` the
calls between two statements, `retry` a retry that has read, `ext` what each
device is doing. Payloads, capabilities without confirmation and the
confirmation row (never read back) are left out. A command may expire at any
time.

`CommandLedger` is the same without how: `Bind` takes a confirmed command that
is free and binds it for good, only its device takes it up, and a log is
extended at its end, by a device only after the binding. `ImplementsLedger`
reads the ledger's `confirmed`, `holder`, `hands` and `log` off the rows and the
extensions.

`IllustrationCommand` composes it with the page of one illustration: the first
command is dispatched in the transaction that creates the illustration
(`Dispatch`), the button resumes the latest attempt, retries its login or issues
a further one (`PressButton`, `PressRetry`), and the PDF is stored by a request
of its own before the receipt is posted (`StorePdf`, `PostReceipt`).

`ApplicationDraft` composes it with one application: `SaveDossier`,
`ChangeDocuments`, `ReviewRead` and `ReviewWrite` (which writes the hash of the
dossier it read), `Prepare` and its three steps (issue, `MoveToPreparing`,
approve, and `PrepareCatch`), and what an event's handler does to the
application before it records the event (`ReceiptRead` and `ReceiptWrite`, two
statements of a transaction that locks nothing; `CheckCompletion`;
`TakeFailure`). A key is the hash of a reviewed dossier. `asked` and `stored`
are history variables.

| Run | Instance | Shows |
|---|---|---|
| `illustrations` | two attempts, two symmetric devices, one click and one event handler in flight, the login page, six events, one fault | `ImplementsLedger`, `WorkFollowsItsReport`, `EpisodesAreLogged` |
| `drafts` | two symmetric dossiers, one device, two symmetric event requests, one call and one review in flight, five events, two edits, one fault | `ExecutedWasAsked`, `DraftsAreStored`, `LandedDraftStays` |
| `draft_resumes` | one dossier, one device, one fault, fair | **violated** `RecordedDraftCompletes` (see Findings) |

*Why these bounds.* Two commands are the least for one to overtake the other; two
devices the least for both to read the same unbound command. Six events are a
life with one login (accepted, waiting, started, login, retried, batch), five one
without. The log's order is decided by the event number that two handlers of one
command both read, so `illustrations` has one handler at a time, lost and posted
again. The application's row has no such number: in `drafts` two event requests
overlap (a worker dies while its receipt is under way, and the next one posts
another), and both may have checked the row before either writes it. The proofs
are for any number.

*Fairness* (`draft_resumes` only). Event handlers end, and the extension goes on:
it polls every minute from an alarm that wakes its worker
(`COMMAND_POLL_ALARM`, `apps/keeprone-connect/entrypoints/background.ts:821-840`).
Nothing is assumed of the agent or of time.

## CredentialLease

A sync finds itself at the carrier's login page. The extension notifies the
server (a new episode, `epoch`), asks the broker for a lease of the stored
password, types it once and reports what it saw.

| Variable | In the code |
|---|---|
| `credential`, `run`, `lease` | the agent's credential, the authentication state of each device's run, the broker's leases (unique by device and episode) |
| `issues`, `results`, `notices` | requests on their way or between two steps of the broker: `LoadIssueContext`, `LimitReached`, `ReserveLease`, `Deliver` or `DeliveryFails`; `CommitOutcome`; `ReadAuthState`, `WriteAuthState` |
| `ext` | the sync state in the extension's storage |
| `work` | its worker, where three things go on at once: the queue that looks at an authentication page, the handler of a page that is ready, the retry button |
| `page` | what the carrier shows: `CarrierAnswers`, `AgentSignsIn`, `SessionLost` |
| `submitted` | history: how often a password was typed in an episode |

A request outlives the worker that sent it (`AnswerLost`, `WorkerKilled`), and the
broker may die between reserving and delivering (`BrokerKilled`). The clocks (an
episode older than five minutes, the rate limit) are refusals. Left out:
connector commands, whose episodes are in `ConnectorCommand`, notifications,
device keys and the envelope.

| Run | Instance | Shows |
|---|---|---|
| `leases` | one device, two episodes, one password, one fault | `OneSubmissionPerEpisode`, `NoLeaseAfterRejection` |

*Why these bounds.* Devices share only the credential. Two episodes are what a
late request of the first needs to meet the second; one password can be saved,
rejected, revoked and saved no more, so that "until the agent saves another" is
left to the proof and to an instance checked once, with two passwords and no
fault. One fault is one lost answer or one killed process anywhere.

## KBotQueue

The agent asks for follow-ups, a pass of the scheduled messages raises proposals
for a date or a lapse. Both are rows of one table, reserve credit in the same
grants and reach the same contacts.

| Variable | In the code |
|---|---|
| `job` | `KBotFollowupJob` rows: status, lease, whether the text was read by the agent |
| `credit` | a job's credit state and its allocations by grant |
| `grants` | `KBotCreditGrant` rows, in the order in which they expire |
| `work` | what each process is doing: a timer of a server (follow-ups) or a pass (proposals) |
| `gateway` | WhatsApp: how often it was given a job's message and what came of it |

Most transactions hold the agent's advisory lock and are one action: raising
(`StartFollowup`, `QueueTemplate`, `QueueWritten`, `ChargeUnqueued`), `Approve`,
`Discard`, billing, `Dispatch`, `SettleCredit`, and `Terminal` in whatever ends a
job. A claim, the release of leases and what is noted after a send hold no such
lock; so `Stop` may find a row otherwise than it read it. Between two actions of
a process are the calls to the model and to WhatsApp, and `Crash`.

The week of the recency window passes at no point (a message sent stays recent);
leases, the agent's two days for a proposal and the day of a follow-up may have
passed at any time. Three choices are wider than the code: any PENDING row may be
claimed, not only the oldest; the limit of attempts may be reached at any time;
`Stop` may have seen a proposal in preparation that has been put back. Texts,
candidates, preferences (refusals), batches of several, the daily ceiling of
model calls and notifications are left out.

| Run | Instance | Shows |
|---|---|---|
| `kbot` | a follow-up and a proposal to one contact, one timer, one pass, a grant for half a message and one for a message and a half, a model call within or above the reservation | `CreditsConserved`, `HandedOverOnce`, `OneMessageInAWeek`, `TypeOK`, and under fairness `FollowupsEnd` |

`OneMessageInAWeek` excepts a job on record as FAILED or CANCELLED: while one
worker sends a proposal, another that claimed it after the lease ran out may fail
and record so, and a timer may cancel a follow-up that it read as PENDING while
another server sends it. The window does not count such a job.

*Why these bounds.* One contact, because contacts share nothing but credit; two
grants because one reservation may be split over both and one of them may expire
under it. A job that is claimed twice needs a worker that lost its lease: with one
pass that worker has died. Two instances were checked once for the safety
properties, with two symmetric passes that overlap (1.3 million states) and with
two proposals (5.8 million); the proofs are for any number.

*Fairness.* The timer ticks every ten seconds and maintains before it drains
(`lib/kbot-followup/scheduler.ts:9-15`); leases run out; a stale follow-up is
found again and again, and a server is not killed each time at the same
statement. Nothing is assumed of the passes, which an outside schedule calls.

## Proofs

Every theorem holds for every value of the constants that the named assumptions
admit: any devices, grids, plans, pages, windows, calendars, drains and bounds.
Six suppose more of a behaviour, and say so in their statements; one is about
agents with a single device.

*Sync runs.* `CompletedMeansVerified` is not inductive: a COMPLETED row is the
work of a handler that counted completions, possibly long before. The invariant
is `VerifiedInv` = `TypeOK` /\ `SealedVouched` (a completion has its pages, in
runs of any state) /\ `Settled` (a completed run has sealed all it planned and
has no failure) /\ `Justified` (a START handler that decided to rewrite the plan
of a completed run will write sealed grids only) /\ `CountsItself` (a FAIL-STAGE
in flight counts the failure it is about to write, so cannot complete the run).
From it follow `CompletedVerified`, `CompletedForever` and `SealedForever`;
`TypeCorrect` is proved first, on its own. `LegacyCompletedBacked` needs
`EvidenceInv`: COMPLETE looks at receipts, the property at raw pages, so receipts
must have their raw page, and a START that rewrites the plan of a completed run
must do so with grids that have their evidence already. `ReceiptsBackLiveRuns`
is about three windows: by `ReceiptInv` the janitor takes receipts of runs only
that START no longer takes up, and between what START reads of a run's age and
what it writes no tick passes. `OneRunPerDevice` is conditional: START reads that
no run is live and creates one two statements later, so `OneLiveInv` needs a
device to wait for the answer of one START before it sends another.

*Snapshot.* `SnapshotsRefineRuns`: every step of `SnapNext` is a step of `Next`
or leaves its variables alone, so what is proved of `Spec` holds here. The
invariant `PublishedInv` = types /\ `Stamped` (a completion has a stamp) /\
`CursorSound` (a cursor names a completion and carries its stamp) /\ `RowsSound`
gives `PublishedVerified` and `PublicationMovesForward`, with `SealedForever` of
the layer below: published rows rest on pages that no longer change.
`VerifiedRowsAreSpared` (`PrunedInv`: a run's rows are no older than the oldest
of its pages, which is where pruning stops) holds while `ClocksAgree`: no page is
stamped before a stamp that any device has given. For one device that is no
hypothesis (`OneDeviceSparesVerified`).

*Calendar.* `SyncedMatchesGoogle` speaks of the row and of Google; between them
are drains with answers, and pages. `DeliveryInv` = `TypeOK` /\ `DrainOK` (what a
drain sends is the event at the revision it claimed, or the event is newer)
/\ `JobsOK` /\ `EtagsKnown` (no ETag is from the future) /\ `EtagsOK` (the ETag
that a row, an answer or a page carries stands for the contents beside it)
/\ `CopiesAgree` (two copies with one ETag are equal). It holds for any number
of drains, with leases that run out under them.

Four theorems more suppose `OneDrain`, that no two drains are at work together; a
drain may still be killed anywhere, and its job be claimed again, reopened by the
agent or superseded. The code does not enforce it (a lease of two minutes, a call
without a limit), and TLC finds each of the four violated with two drains, so
they say what a lease that holds would give. `RetryInv` (`ErrorsStayRetriable`):
a drain holds its lease until it settles its job, and what it settled as failed
is not closed when it blames the event. `GoneInv` (`CancellationLasts`): only
deletions delete, and the answer to the last one finds no copy. `OrderInv`
(`DeliveriesMoveForward`): what a drain is about to send is its job's revision,
and Google holds nothing newer. `MoveInv` (`MovesLeaveNoCopy`): while a copy may
be left in the old calendar, nothing is sent to, read from or known of the new
one, and while something is still sent to the old one the new one is untouched.

*Commands.* `CommandInv` is about rows, calls and extensions at once: a log's
entries come in the order of the work, a handler between two statements has read
what still is or what its number no longer lets it write, an extension at a step
has a command that is its own and a log that got so far. The lemmas of
`ConnectorCommandProofs` show that each action keeps it and is a step of the
ledger or none; the modules above conjoin their own variables.
`IllustrationImplementsLedger` and `DraftImplementsLedger` are the refinements,
`IllustrationWorkFollowsItsReport` and `IllustrationEpisodesAreLogged` follow
from `CommandInv`. `DraftInv` adds that what is confirmed, held or started was
asked for and what is reported is stored, also of the handlers and calls that are
about to say so; from it `DraftsExecutedWereAsked` and `ReportedDraftsAreStored`.
`DraftsStayLanded` goes through the actions that write the row: all but the
agent's edits and reviews and `ReceiptWrite` want a row that is ready or being
prepared, and `ReceiptWrite` leaves a landed state behind.

*Leases.* `LeaseInv` = `TypeOK` /\ `SubmissionInv` (a lease that is on its way or
held has a row, is in one place only, and has not been typed) /\ `RejectionInv`
(the stored password, once rejected, is not used automatically). `SubmittedOnce`
needs the first because an episode may be asked for twice and answered late;
`RejectedNotLeased` the second because the broker reads the credential long
before it reserves.

*K-Bot.* `QueueInv` = types /\ `HandInv` /\ `WeekInv`. `HandInv`: a process about
to send has a dispatched job of its own, which WhatsApp was not given, and a
dispatched job never returns to the queue; so `NothingIsSentTwice`, whatever the
leases do. `WeekInv`: of two jobs of one contact one at most is out, and a
follow-up is raised only where nothing else is live and keeps proposals from
going out, which is why it need not look again at dispatch; so
`ContactsAreSpared`. Credit plays no part in either. `CreditIsConserved` has an
invariant of its own, `CreditInv`: a grant holds in reserve the sum of what the
reserving jobs took from it, and a job that reserves is a row, so is not raised
again. Each transaction adds a job to that sum, takes one from it, or replaces
one. What this needs of sums over finite sets (`SumStep`, `SumTake`, `SumSame`,
`SumSplit`) is proved without an induction theorem: a counterexample would have a
smallest set (`SmallestSet`, as strict inclusion is well-founded), which its
element contradicts.

Assumed: `WindowAssumption`, `DataAssumption`, `SnapshotAssumption`,
`CalendarAssumption`, `NothingAssumption`, `KeyAssumption`, `DeviceAssumption`,
`PostAssumption`, `CapabilityAssumption`, `SignInAssumption`,
`EventBoundAssumption`, `AttemptAssumption`, `IllustrationCapability`,
`DraftCapability`, `EditBoundAssumption`, `FaultBoundAssumption`,
`LeaseBoundAssumption` and `QueueAssumption`. They give the constants their
kinds, say that the null values are none of the real ones, and order the windows;
the bounds are any natural numbers. TLC evaluates each in the runs.

*Hypotheses on behaviours*: `OneStartAtATime`, `OneDrain` and `ClocksAgree`, each
where TLC has a counterexample without it (see Findings). The passing runs that
check these properties meet them: one START, one drain, one device.

*Only model-checked*: `OrphanedRunEnds` and `FollowupsEnd`; liveness under fairness
is outside this prover's reach. What a recursive definition computes for every
input cannot be proved by an induction theorem here: plans and page sums are used
through the library's definitions, credit sums as told above, and no module
declares a recursive operator.

## Findings

Two runs violate what a text of the repository says; `PROJECT.json` quotes it.

1. `cal_race`: a delivery under way when the event is edited can put the older
   contents over the newer ones at Google, after the newer ones were delivered.
   By `DeliveriesMoveForward`, only drains that overlap can do it.
2. `draft_resumes`: a worker killed after its receipt was recorded asks for the
   input once more, is refused because the application has moved on, and cannot
   report a failure either: the command stays RUNNING until it expires.

TLC reaches more that the authors may not expect; each is a hazard in
`PROJECT.json` or is named here, and none has a run:

- two START requests of one device in flight together create two live runs;
- START writes a failure count that a FAIL-STAGE has changed in the meantime, and
  dropping a deprecated last grid leaves a live run without a stage until it
  times out;
- with two devices, a completion can prune a row that it has verified;
- an edit that follows an undelivered move leaves a second copy in Google; an
  event cancelled before it was ever sent stays PENDING; a process that dies
  between the two failure transactions leaves an event PENDING; a page listed
  before an edit brings the older contents back until the next pass;
- two clicks on an illustration can leave two live attempts;
- `persistOwnedDraftReceipt` checks the application with a read and updates it by
  its id alone (`commands/[commandId]/events/route.ts:183-194`): of two receipts
  that overlap the later one can turn DRAFT_READY into NEEDS_INFORMATION or back,
  and a receipt that was checked before a save, a failure, a stale click's catch
  or another preparation lands over it, so that a dossier nobody reviewed, or one
  with another hash, reads as landed;
- after MFA_REQUIRED was reported for a lease, the AUTHENTICATED of the same login
  is refused; a late outcome of an old password is written to the one saved since;
- a proposal stopped while in preparation, or whose worker died after dispatch,
  stays active: its credit (until settled) and its contact stay blocked;
- a proposal may be recorded as FAILED although it was sent, by a second worker
  that took it over;
- the claim of a follow-up that reaches its limit takes the row, then the agent's
  lock, and a cancellation the other way round: PostgreSQL aborts one of them.

## Not modelled

Pairing and signatures (cryptography: a paired device is a member of a set), the
credential broker's process and vault, the normalization of carrier records,
promotion of the portfolio, exports beyond their heartbeat, the legacy browser
fleet, bookings, billing, the agency tree, CRM pages and imports. Most of the
repository's lines are pages, forms, PDF layout and reports over rows, which keep
no state that these properties could be about. `PROJECT.json` gives the reason
for each component; those marked planned are in the table of modules above.
