--------------------------- MODULE CalendarOutbox ---------------------------
(***************************************************************************)
(* One event of the agent's calendar and its copies at Google: the local   *)
(* edits of lib/calendar/repository.ts, which put one job in the outbox    *)
(* for every revision, the drains of lib/calendar/google/outbox.ts, which  *)
(* deliver them, the agent's retry (lib/calendar/retry.ts) and the pages   *)
(* that lib/calendar/google/sync.ts reads from Google and applies.         *)
(*                                                                         *)
(* A drain is a Worker: every statement and every call to Google is a step *)
(* of its own, and it may be killed between any two.  Workers of one       *)
(* process (the scheduler's tick, the internal route, a public booking)    *)
(* carry the same workerId.  A lease lasts two minutes and a call has no   *)
(* time limit, so a job may be claimed again under a live worker.          *)
(*                                                                         *)
(* The contents of the event are named by the revision whose edit wrote    *)
(* them, those that someone wrote at Google by Outside.  Backoff is left   *)
(* out: after one failure it makes the order of claims arbitrary.  The     *)
(* event is not recurring, and its provider id is a function of its own.   *)
(***************************************************************************)
EXTENDS Integers, FiniteSets

CONSTANTS
    Calendars,    \* the agent's writable calendars
    NoCalendar,
    Workers,      \* drains that may run at the same time
    WorkerIds,
    WorkerId,     \* workerId of each drain
    NoWorker,
    MaxAttempts,  \* GOOGLE_CALENDAR_MAX_JOB_ATTEMPTS
    MaxRevision,  \* bound: revisions of the event
    MaxWrites,    \* bound: changes that Google applies, also its ETags
    NoEvent, NoJob, NoCopy, NoPage

ASSUME CalendarAssumption ==
    /\ NoCalendar \notin Calendars
    /\ NoWorker \notin WorkerIds
    /\ WorkerId \in [Workers -> WorkerIds]
    /\ MaxAttempts \in Nat \ {0}
    /\ MaxRevision \in Nat \ {0}
    /\ MaxWrites \in Nat

Revisions == 1..MaxRevision
Outside == 0
Contents == Revisions \union {Outside}
NoEtag == 0
Etags == 1..MaxWrites

\* CalendarEvent; linked says that providerEventId is set.
Event == [revision : Revisions, content : Contents, calendar : Calendars,
          cancelled : BOOLEAN, linked : BOOLEAN, etag : Etags \union {NoEtag},
          status : {"PENDING", "SYNCED", "ERROR"}]

Operations == {"CREATE_EVENT", "UPDATE_EVENT", "DELETE_EVENT"}

\* CalendarSyncJob; it is found by the revision it desires.
Job == [operation : Operations, previous : Calendars \union {NoCalendar},
        status : {"PENDING", "PROCESSING", "SUCCEEDED", "DEAD_LETTER"},
        attempts : 0..MaxAttempts, owner : WorkerIds \union {NoWorker}]

Copy == [content : Contents, etag : Etags]
Page == [calendar : Calendars, copy : Copy]

ASSUME NothingAssumption ==
    NoEvent \notin Event /\ NoJob \notin Job /\ NoCopy \notin Copy /\ NoPage \notin Page

VARIABLES
    event,   \* the local row
    jobs,    \* the outbox
    google,  \* the copy of the event in each calendar at Google
    writes,  \* changes that Google has applied so far
    worker,  \* what each drain is doing
    page     \* a page of events.list read and not yet applied

vars == <<event, jobs, google, writes, worker, page>>

-----------------------------------------------------------------------------
(* Local edits *)

Queued(operation, previous) ==
    [operation |-> operation, previous |-> previous, status |-> "PENDING",
     attempts |-> 0, owner |-> NoWorker]

Exists == event # NoEvent
Room == event.revision < MaxRevision

\* createCalendarEvent: the event and its job in one transaction.
CreateEvent(c) ==
    /\ ~Exists
    /\ event' = [revision |-> 1, content |-> 1, calendar |-> c, cancelled |-> FALSE,
                 linked |-> FALSE, etag |-> NoEtag, status |-> "PENDING"]
    /\ jobs' = [jobs EXCEPT ![1] = Queued("CREATE_EVENT", NoCalendar)]
    /\ UNCHANGED <<google, writes, worker, page>>

\* updateCalendarEvent, which compares the base revision under its lock; the
\* event may stay in its calendar or move to another.
UpdateEvent(c) ==
    /\ Exists /\ ~event.cancelled /\ Room
    /\ LET next == event.revision + 1
           operation == IF event.linked THEN "UPDATE_EVENT" ELSE "CREATE_EVENT"
       IN  /\ event' = [event EXCEPT !.revision = next, !.content = next,
                                     !.calendar = c, !.status = "PENDING"]
           /\ jobs' = [jobs EXCEPT ![next] = Queued(operation, event.calendar)]
    /\ UNCHANGED <<google, writes, worker, page>>

\* cancelCalendarEvent.
CancelEvent ==
    /\ Exists /\ ~event.cancelled /\ Room
    /\ LET next == event.revision + 1
       IN  /\ event' = [event EXCEPT !.revision = next, !.cancelled = TRUE,
                                     !.status = "PENDING"]
           /\ jobs' = [jobs EXCEPT ![next] = Queued("DELETE_EVENT", NoCalendar)]
    /\ UNCHANGED <<google, writes, worker, page>>

\* retryCalendarEventSync.
RetrySync ==
    /\ Exists /\ event.status = "ERROR"
    /\ jobs[event.revision] # NoJob
    /\ jobs[event.revision].status # "SUCCEEDED"
    /\ jobs' = IF jobs[event.revision].status = "DEAD_LETTER"
               THEN [jobs EXCEPT ![event.revision] =
                        [@ EXCEPT !.status = "PENDING", !.attempts = 0, !.owner = NoWorker]]
               ELSE jobs
    /\ event' = [event EXCEPT !.status = "PENDING"]
    /\ UNCHANGED <<google, writes, worker, page>>

-----------------------------------------------------------------------------
(* A worker: which job, and what to ask of Google *)

Steps == {"idle", "read", "reserve", "recover", "insert", "move", "get", "patch",
          "refetch", "overwrite", "delete", "stamp", "close", "fail", "blame"}
Calls == {"recover", "insert", "move", "get", "patch", "refetch", "overwrite", "delete"}

\* What the calls carry of the event that was read.
Payload == [content : Contents, calendar : Calendars]

Drain == [step : Steps, job : Revisions, seen : Payload \union {NoEvent},
          attempts : 0..MaxAttempts, etag : Etags \union {NoEtag}, dead : BOOLEAN]

IdleWorker ==
    [step |-> "idle", job |-> 1, seen |-> NoEvent, attempts |-> 0, etag |-> NoEtag,
     dead |-> FALSE]

At(w, step) == worker[w].step = step
Goes(w, step) == worker' = [worker EXCEPT ![w].step = step]
\* What was read and answered is of no more use.
Ends(w, step, dead) ==
    worker' = [worker EXCEPT ![w] = [@ EXCEPT !.step = step, !.dead = dead,
                                              !.seen = NoEvent, !.etag = NoEtag]]
JobOf(w) == jobs[worker[w].job]
Seen(w) == worker[w].seen

\* claimNextGoogleCalendarJob, also of a job whose lease ran out: nobody looks
\* at the attempts then.
Claim(w, j) ==
    /\ At(w, "idle")
    /\ jobs[j] # NoJob /\ jobs[j].status \in {"PENDING", "PROCESSING"}
    /\ LET attempts == IF jobs[j].attempts < MaxAttempts
                       THEN jobs[j].attempts + 1 ELSE MaxAttempts
       IN  /\ jobs' = [jobs EXCEPT ![j] = [@ EXCEPT !.status = "PROCESSING",
                                   !.owner = WorkerId[w], !.attempts = attempts]]
           /\ worker' = [worker EXCEPT ![w] = [IdleWorker EXCEPT !.step = "read",
                                   !.job = j, !.attempts = attempts]]
    /\ UNCHANGED <<event, google, writes, page>>

\* Mutant: any job delivers the event as it is when the job is read.
SupersededNever(seen, j) == FALSE

\* A later edit has its own job.
Superseded(seen, j) == seen.revision # j

\* Mutant: an event that Google never acknowledged is not looked for where it was.
RelocatesKnown(seen, job) ==
    /\ seen.linked /\ seen.etag # NoEtag
    /\ job.previous # NoCalendar /\ job.previous # seen.calendar

\* The edit of this very revision changed the event's calendar.
Relocates(seen, job) ==
    seen.linked /\ job.previous # NoCalendar /\ job.previous # seen.calendar

\* The first call to make for what was read.
FirstCall(seen, job) ==
    IF job.operation = "DELETE_EVENT"
    THEN IF seen.linked THEN "delete" ELSE "close"
    ELSE IF job.operation = "CREATE_EVENT" \/ ~seen.linked \/ seen.etag = NoEtag
    THEN IF Relocates(seen, job) THEN "recover" ELSE "insert"
    ELSE IF Relocates(seen, job) THEN "move" ELSE "patch"

PayloadOf(e) == [content |-> e.content, calendar |-> e.calendar]

\* The first read of processOutboundEvent.
ReadEvent(w) ==
    /\ At(w, "read")
    /\ LET step == IF Superseded(event, worker[w].job) THEN "close"
                   ELSE IF JobOf(w).operation = "CREATE_EVENT" /\ ~event.linked
                   THEN "reserve" ELSE FirstCall(event, JobOf(w))
       IN  IF step = "close" THEN Ends(w, step, FALSE)
           ELSE worker' = [worker EXCEPT ![w] =
                              [@ EXCEPT !.seen = PayloadOf(event), !.etag = event.etag,
                                        !.step = step]]
    /\ UNCHANGED <<event, jobs, google, writes, page>>

\* The provider id is written before the insert, so that a push finds it; the
\* event that was read had none, and is not looked for elsewhere.
Reserve(w) ==
    /\ At(w, "reserve")
    /\ event' = [event EXCEPT !.linked = TRUE]
    /\ Goes(w, "insert")
    /\ UNCHANGED <<jobs, google, writes, page>>

-----------------------------------------------------------------------------
(* Calls to Google *)

Dies(w, dead) == Ends(w, "fail", dead \/ worker[w].attempts >= MaxAttempts)

\* A call is refused or never arrives, or the database fails; some of
\* Google's errors, also of the access token, are final.
Fails(w) ==
    /\ worker[w].step \notin {"idle", "fail", "blame"}
    /\ \E final \in BOOLEAN :
          /\ final => worker[w].step \in Calls \union {"reserve"}
          /\ Dies(w, final)
    /\ UNCHANGED <<event, jobs, google, writes, page>>

\* Google answers without changing anything; 404 and 409 are final errors.
Answered(w, step, etag) ==
    /\ worker' = [worker EXCEPT ![w].step = step, ![w].etag = etag]
    /\ UNCHANGED <<event, jobs, google, writes, page>>

Refused(w) == Dies(w, TRUE) /\ UNCHANGED <<event, jobs, google, writes, page>>

\* Google applies a change, and its answer may be lost.
Applies(w, copies, step) ==
    /\ writes < MaxWrites
    /\ writes' = writes + 1
    /\ google' = copies
    /\ \/ worker' = [worker EXCEPT ![w].step = step, ![w].etag = writes + 1]
       \/ Dies(w, FALSE)
    /\ UNCHANGED <<event, jobs, page>>

Fresh(content) == [content |-> content, etag |-> writes + 1]
Target(w) == google[Seen(w).calendar]
Source(w) == google[JobOf(w).previous]

\* Events.move keeps the id; where the source has no copy the event was never
\* created, or was moved by an attempt whose answer was lost.
Move(w, absent) ==
    \/ /\ Source(w) = NoCopy
       /\ Answered(w, absent, worker[w].etag)
    \/ /\ Source(w) # NoCopy /\ Target(w) = NoCopy
       /\ Applies(w, [google EXCEPT ![JobOf(w).previous] = NoCopy,
                                    ![Seen(w).calendar] = Fresh(Source(w).content)], "patch")
    \/ Source(w) # NoCopy /\ Target(w) # NoCopy /\ Refused(w)

MoveUnconfirmed(w) == At(w, "recover") /\ Move(w, "insert")
MoveConfirmed(w) == At(w, "move") /\ Move(w, "get")

\* Events.insert under the event's own id: 409 tells that an earlier attempt
\* got through.
Insert(w) ==
    /\ At(w, "insert")
    /\ \/ /\ Target(w) = NoCopy
          /\ Applies(w, [google EXCEPT ![Seen(w).calendar] = Fresh(Seen(w).content)], "stamp")
       \/ Target(w) # NoCopy /\ Answered(w, "get", worker[w].etag)

\* The copy's present ETag, for the update that follows.
Get(w) ==
    \/ /\ At(w, "get")
       /\ Target(w) # NoCopy /\ Answered(w, "patch", Target(w).etag)
    \/ /\ At(w, "refetch")
       /\ Target(w) # NoCopy /\ Answered(w, "overwrite", Target(w).etag)
    \/ /\ worker[w].step \in {"get", "refetch"}
       /\ Target(w) = NoCopy /\ Refused(w)

\* Events.patch with If-Match: one conflict is resolved in favour of the local
\* event, a second one is retried later.
Patch(w) ==
    /\ worker[w].step \in {"patch", "overwrite"}
    /\ \/ Target(w) = NoCopy /\ Refused(w)
       \/ /\ Target(w) # NoCopy /\ Target(w).etag = worker[w].etag
          /\ Applies(w, [google EXCEPT ![Seen(w).calendar] = Fresh(Seen(w).content)], "stamp")
       \/ /\ Target(w) # NoCopy /\ Target(w).etag # worker[w].etag
          /\ IF At(w, "patch") THEN Answered(w, "refetch", worker[w].etag)
             ELSE Dies(w, FALSE) /\ UNCHANGED <<event, jobs, google, writes, page>>

\* Events.delete: 404 is as good as success.
Delete(w) ==
    /\ At(w, "delete")
    /\ \/ Target(w) = NoCopy /\ Answered(w, "stamp", worker[w].etag)
       \/ /\ Target(w) # NoCopy
          /\ Applies(w, [google EXCEPT ![Seen(w).calendar] = NoCopy], "stamp")

-----------------------------------------------------------------------------
(* What the worker writes back *)

\* Mutant: the answer is stamped on whatever revision is there by now.
StampableAny(w) == TRUE

\* The answer belongs to the revision that was sent.
Stampable(w) == event.revision = worker[w].job

Stamp(w) ==
    /\ At(w, "stamp")
    /\ event' = IF ~Stampable(w) THEN event
                ELSE IF JobOf(w).operation = "DELETE_EVENT"
                THEN [event EXCEPT !.status = "SYNCED"]
                ELSE [event EXCEPT !.status = "SYNCED", !.linked = TRUE,
                                   !.etag = worker[w].etag]
    /\ Ends(w, "close", FALSE)
    /\ UNCHANGED <<jobs, google, writes, page>>

\* The lease is checked by the worker's id.
Leased(w) == JobOf(w).status = "PROCESSING" /\ JobOf(w).owner = WorkerId[w]

\* The attempts of a closed job are never read again.
Settled(w, status) ==
    IF Leased(w)
    THEN [jobs EXCEPT ![worker[w].job] =
             [JobOf(w) EXCEPT !.status = status, !.owner = NoWorker,
                              !.attempts = IF status = "PENDING" THEN JobOf(w).attempts
                                                                 ELSE 0]]
    ELSE jobs

CloseJob(w) ==
    /\ At(w, "close")
    /\ jobs' = Settled(w, "SUCCEEDED")
    /\ worker' = [worker EXCEPT ![w] = IdleWorker]
    /\ UNCHANGED <<event, google, writes, page>>

\* Failure is two statements: the job first, then the event.
FailJob(w) ==
    /\ At(w, "fail")
    /\ jobs' = Settled(w, IF worker[w].dead THEN "DEAD_LETTER" ELSE "PENDING")
    /\ Ends(w, "blame", FALSE)
    /\ UNCHANGED <<event, google, writes, page>>

\* Mutant: a failure is blamed on the event whatever was edited since.
BlamesAny(w) == TRUE

Blames(w) == event.revision = worker[w].job

BlameEvent(w) ==
    /\ At(w, "blame")
    /\ event' = IF Blames(w) THEN [event EXCEPT !.status = "ERROR"] ELSE event
    /\ worker' = [worker EXCEPT ![w] = IdleWorker]
    /\ UNCHANGED <<jobs, google, writes, page>>

\* The process is killed; its lease runs out.
Crash(w) ==
    /\ ~At(w, "idle")
    /\ worker' = [worker EXCEPT ![w] = IdleWorker]
    /\ UNCHANGED <<event, jobs, google, writes, page>>

-----------------------------------------------------------------------------
(* Google's side *)

\* Someone edits the event in Google Calendar.
EditOutside(c) ==
    /\ google[c] # NoCopy /\ writes < MaxWrites
    /\ google' = [google EXCEPT ![c] = Fresh(Outside)]
    /\ writes' = writes + 1
    /\ UNCHANGED <<event, jobs, worker, page>>

\* events.list of a calendar reads the copy.
ListPage(c) ==
    /\ page = NoPage /\ google[c] # NoCopy
    /\ page' = [calendar |-> c, copy |-> google[c]]
    /\ UNCHANGED <<event, jobs, google, writes, worker>>

\* A local edit that Google has not acknowledged wins over the page.
Defers == event.status # "SYNCED"

\* applyGoogleEvent: deferred, already known, or taken over as a new revision.
\* A copy in another calendar than the event's is another row, not modelled.
ApplyPage ==
    /\ page # NoPage
    /\ page' = NoPage
    /\ IF /\ Exists /\ event.linked /\ event.calendar = page.calendar
          /\ ~Defers /\ event.etag # page.copy.etag
       THEN /\ Room
            /\ event' = [event EXCEPT !.revision = @ + 1, !.content = page.copy.content,
                                      !.cancelled = FALSE, !.etag = page.copy.etag,
                                      !.status = "SYNCED"]
       ELSE event' = event
    /\ UNCHANGED <<jobs, google, writes, worker>>

-----------------------------------------------------------------------------
(* Specification *)

Init ==
    /\ event = NoEvent
    /\ jobs = [j \in Revisions |-> NoJob]
    /\ google = [c \in Calendars |-> NoCopy]
    /\ writes = 0
    /\ worker = [w \in Workers |-> IdleWorker]
    /\ page = NoPage

LocalNext ==
    \/ \E c \in Calendars : CreateEvent(c) \/ UpdateEvent(c)
    \/ CancelEvent
    \/ RetrySync

GoogleCall(w) ==
    \/ MoveUnconfirmed(w) \/ MoveConfirmed(w) \/ Insert(w) \/ Get(w) \/ Patch(w)
    \/ Delete(w)

WorkerNext(w) ==
    \/ \E j \in Revisions : Claim(w, j)
    \/ ReadEvent(w) \/ Reserve(w)
    \/ GoogleCall(w)
    \/ Stamp(w) \/ CloseJob(w) \/ FailJob(w) \/ BlameEvent(w)
    \/ Fails(w) \/ Crash(w)

InboundNext ==
    \/ \E c \in Calendars : EditOutside(c) \/ ListPage(c)
    \/ ApplyPage

Next == LocalNext \/ (\E w \in Workers : WorkerNext(w)) \/ InboundNext

Spec == Init /\ [][Next]_vars

-----------------------------------------------------------------------------
(* Properties *)

\* Every variable has its type.
TypeOK ==
    /\ event \in Event \union {NoEvent}
    /\ jobs \in [Revisions -> Job \union {NoJob}]
    /\ google \in [Calendars -> Copy \union {NoCopy}]
    /\ writes \in 0..MaxWrites
    /\ worker \in [Workers -> Drain]
    /\ page \in Page \union {NoPage}

\* A live event called SYNCED under the ETag that Google's copy carries has the
\* contents of that copy: an inbound pass that skips a known ETag skips nothing.
SyncedMatchesGoogle ==
    Exists /\ event.status = "SYNCED" /\ ~event.cancelled =>
        \A c \in Calendars :
            google[c] # NoCopy /\ google[c].etag = event.etag =>
                google[c].content = event.content

\* A delivery never puts contents at Google over those of a later local edit.
GoogleNeverOlder ==
    [][\A c \in Calendars :
          google[c] # NoCopy /\ google'[c] # NoCopy =>
              google'[c].content \in {Outside} \union (google[c].content .. MaxRevision)]_vars

\* The agent can always retry an event shown in error that Google may hold.
ErrorCanBeRetried ==
    Exists /\ event.linked /\ event.status = "ERROR" =>
        jobs[event.revision] # NoJob /\ jobs[event.revision].status # "SUCCEEDED"

\* Once its cancellation is delivered, no worker brings the event back at Google.
CancelledIsGone ==
    Exists /\ event.cancelled /\ event.status = "SYNCED" => google[event.calendar] = NoCopy

\* Once delivered, the event has no copy in a calendar it is not in.
OneCopy ==
    Exists /\ event.status = "SYNCED" =>
        \A c \in Calendars \ {event.calendar} : google[c] = NoCopy

\* Only the last edit can have moved the event: every edit found it in one calendar.
MovedLast ==
    \A i, j \in Revisions :
        jobs[i] # NoJob /\ jobs[j] # NoJob /\ NoCalendar \notin {jobs[i].previous, jobs[j].previous} =>
            jobs[i].previous = jobs[j].previous

\* A move that no later edit overtook leaves no copy behind, however its calls
\* failed and were repeated.
MoveLeavesNoCopy == MovedLast /\ ~(Exists /\ event.cancelled) => OneCopy

=============================================================================
