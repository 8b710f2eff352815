------------------------ MODULE CalendarOutboxProofs ------------------------
(***************************************************************************)
(* What holds of the calendar outbox for any number of calendars, drains,  *)
(* revisions and attempts, also when leases run out under live drains.     *)
(***************************************************************************)
EXTENDS CalendarOutbox, TLAPS

\* Steps between the read of the event and the answer to be stamped.
Sending == Calls \union {"reserve", "stamp"}
Moving == {"recover", "move"}

\* What a drain knows of its job and of the event it read.
DrainOK(w) ==
    /\ worker[w].step # "idle" => Exists /\ jobs[worker[w].job] \in Job
    /\ worker[w].step \in Sending =>
          /\ Seen(w) \in Payload
          /\ worker[w].job <= event.revision
          /\ worker[w].job = event.revision => Seen(w).content = event.content
    /\ worker[w].step \in Moving => JobOf(w).previous \in Calendars
    /\ worker[w].step = "delete" => JobOf(w).operation = "DELETE_EVENT"

\* No job is ahead of its event, and a cancelled revision stays cancelled.
JobsOK ==
    /\ ~Exists => \A j \in Revisions : jobs[j] = NoJob
    /\ Exists => \A j \in Revisions : j > event.revision => jobs[j] = NoJob
    /\ Exists /\ jobs[event.revision] \in Job
          /\ jobs[event.revision].operation = "DELETE_EVENT" => event.cancelled

\* Nobody holds an ETag that Google has not given out.
EtagsKnown ==
    /\ \A c \in Calendars : google[c] # NoCopy => google[c].etag <= writes
    /\ Exists => event.etag <= writes
    /\ \A w \in Workers : worker[w].etag <= writes
    /\ page # NoPage => page.copy.etag <= writes

\* The contents behind an ETag are those of the copy that carries it.
Carries(etag, content) ==
    \A c \in Calendars : google[c] # NoCopy /\ google[c].etag = etag => google[c].content = content

EtagsOK ==
    /\ Exists /\ event.status = "SYNCED" /\ ~event.cancelled => Carries(event.etag, event.content)
    /\ \A w \in Workers :
          At(w, "stamp") /\ JobOf(w).operation # "DELETE_EVENT" =>
              Carries(worker[w].etag, Seen(w).content)
    /\ page # NoPage => Carries(page.copy.etag, page.copy.content)

\* Two copies under one ETag have the same contents.
CopiesAgree == \A c \in Calendars : google[c] # NoCopy => Carries(google[c].etag, google[c].content)

DeliveryInv ==
    /\ TypeOK
    /\ \A w \in Workers : DrainOK(w)
    /\ JobsOK
    /\ EtagsKnown
    /\ EtagsOK
    /\ CopiesAgree

-----------------------------------------------------------------------------
(* Initial states, and what every step keeps *)

LEMMA DeliveryInit == Init => DeliveryInv
BY CalendarAssumption, SMTT(30)
   DEF Init, DeliveryInv, TypeOK, DrainOK, JobsOK, EtagsKnown, EtagsOK, CopiesAgree, Exists, IdleWorker,
       Drain, Steps, Sending, Moving, Calls, Revisions, At, NoEtag, Etags

\* The event never goes back, and a revision keeps its contents.
Onward ==
    Exists => /\ Exists' /\ event' \in Event
              /\ event'.revision >= event.revision
              /\ event'.revision = event.revision => event'.content = event.content

\* A job keeps what it was queued for.
JobKept(j) ==
    jobs[j] \in Job => /\ jobs'[j] \in Job
                       /\ jobs'[j].operation = jobs[j].operation
                       /\ jobs'[j].previous = jobs[j].previous

LEMMA RowFacts ==
    ASSUME TypeOK
    PROVE  /\ Exists => event \in Event /\ event.revision \in Nat /\ event.etag \in Nat
           /\ writes \in Nat
           /\ \A c \in Calendars : google[c] # NoCopy => google[c] \in Copy /\ google[c].etag \in Nat
           /\ \A j \in Revisions : jobs[j] # NoJob => jobs[j] \in Job
           /\ \A w \in Workers : worker[w] \in Drain /\ worker[w].etag \in Nat
           /\ page # NoPage => page \in Page /\ page.copy \in Copy /\ page.copy.etag \in Nat
BY CalendarAssumption, SMTT(30)
   DEF TypeOK, Exists, Event, Revisions, Etags, NoEtag, Copy, Drain, Page

LEMMA EventFields ==
    ASSUME NEW e \in Event
    PROVE  /\ \A r \in Revisions, k \in Contents, c \in Calendars :
                 [e EXCEPT !.revision = r, !.content = k, !.calendar = c, !.status = "PENDING"] \in Event
           /\ \A r \in Revisions :
                 [e EXCEPT !.revision = r, !.cancelled = TRUE, !.status = "PENDING"] \in Event
           /\ \A s \in {"PENDING", "SYNCED", "ERROR"} : [e EXCEPT !.status = s] \in Event
           /\ [e EXCEPT !.linked = TRUE] \in Event
           /\ \A t \in Etags : 
                 [e EXCEPT !.status = "SYNCED", !.linked = TRUE, !.etag = t] \in Event
           /\ \A r \in Revisions, k \in Contents, t \in Etags :
                 [e EXCEPT !.revision = r, !.content = k, !.cancelled = FALSE, !.etag = t,
                           !.status = "SYNCED"] \in Event
BY DEF Event

JobClosed(job, s, a) == [job EXCEPT !.status = s, !.owner = NoWorker, !.attempts = a]

LEMMA JobClosedKeeps ==
    ASSUME NEW job \in Job, NEW s \in {"PENDING", "SUCCEEDED", "DEAD_LETTER"}, NEW a \in 0..MaxAttempts
    PROVE  /\ JobClosed(job, s, a) \in Job
           /\ JobClosed(job, s, a).operation = job.operation
           /\ JobClosed(job, s, a).previous = job.previous
<1>1. JobClosed(job, s, a) \in Job
  BY DEF Job, JobClosed
<1>2. JobClosed(job, s, a).operation = job.operation /\ JobClosed(job, s, a).previous = job.previous
  BY DEF Job, JobClosed
<1> QED  BY <1>1, <1>2

LEMMA JobReopened ==
    ASSUME NEW job \in Job
    PROVE  LET reopened == [job EXCEPT !.status = "PENDING", !.attempts = 0, !.owner = NoWorker]
           IN  /\ reopened \in Job
               /\ reopened.operation = job.operation /\ reopened.previous = job.previous
<1> DEFINE reopened == [job EXCEPT !.status = "PENDING", !.attempts = 0, !.owner = NoWorker]
<1>1. 0 \in 0..MaxAttempts
  BY CalendarAssumption
<1>2. reopened \in Job
  BY <1>1 DEF Job
<1>3. reopened.operation = job.operation /\ reopened.previous = job.previous
  BY DEF Job
<1> QED  BY <1>2, <1>3

LEMMA JobClaimed ==
    ASSUME NEW job \in Job, NEW a \in 0..MaxAttempts, NEW i \in WorkerIds
    PROVE  LET claimed == [job EXCEPT !.status = "PROCESSING", !.owner = i, !.attempts = a]
           IN  /\ claimed \in Job
               /\ claimed.operation = job.operation /\ claimed.previous = job.previous
<1> DEFINE claimed == [job EXCEPT !.status = "PROCESSING", !.owner = i, !.attempts = a]
<1>1. claimed \in Job
  BY DEF Job
<1>2. claimed.operation = job.operation /\ claimed.previous = job.previous
  BY DEF Job
<1> QED  BY <1>1, <1>2

\* A drain that does not move keeps what it knows.
LEMMA DrainFrame ==
    ASSUME TypeOK, Onward, \A j \in Revisions : JobKept(j),
           NEW v \in Workers, DrainOK(v), worker'[v] = worker[v]
    PROVE  DrainOK(v)'
<1>1. worker[v].job \in Revisions /\ JobKept(worker[v].job)
  BY RowFacts DEF Drain
<1>2. worker[v].step \in Sending \union Moving \union {"delete"} => worker[v].step # "idle"
  BY DEF Sending, Moving, Calls
<1>3. worker[v].step \in Sending =>
         /\ worker[v].job \in Nat /\ event.revision \in Nat /\ event'.revision \in Nat
         /\ Exists
  BY <1>1, <1>2, CalendarAssumption DEF DrainOK, Onward, Event, Exists, TypeOK, Revisions, Seen
<1> QED
  BY <1>1, <1>2, <1>3, SMTT(30) DEF DrainOK, Onward, JobKept, Seen, JobOf, Moving

-----------------------------------------------------------------------------
(* Local edits *)

LEMMA CreateKeeps ==
    ASSUME DeliveryInv, NEW c \in Calendars, CreateEvent(c)  PROVE DeliveryInv'
<1> USE CalendarAssumption, NothingAssumption
<1>1. event' \in Event /\ event'.revision = 1 /\ event'.status = "PENDING" /\ ~event'.cancelled
      /\ event'.etag = 0
  BY SMTT(30) DEF DeliveryInv, CreateEvent, TypeOK, Event, Revisions, Contents, NoEtag
<1>2. Queued("CREATE_EVENT", NoCalendar) \in Job
  BY SMTT(30) DEF Queued, Job, Operations
<1>3. \A j \in Revisions : jobs'[j] = IF j = 1 THEN Queued("CREATE_EVENT", NoCalendar) ELSE jobs[j]
  BY DEF DeliveryInv, CreateEvent, TypeOK
<1>4. TypeOK'
  BY <1>1, <1>2, SMTT(30) DEF DeliveryInv, CreateEvent, TypeOK, Revisions
<1>5. \A v \in Workers : DrainOK(v)'
  BY SMTT(30) DEF DeliveryInv, CreateEvent, DrainOK, Exists, Sending, Moving, Calls
<1>6. JobsOK'
  <2>1. Queued("CREATE_EVENT", NoCalendar).operation = "CREATE_EVENT"
    BY DEF Queued
  <2>2. \A j \in Revisions : jobs[j] = NoJob
    BY DEF DeliveryInv, JobsOK, CreateEvent
  <2> QED
    BY <1>1, <1>3, <2>1, <2>2, SMTT(30) DEF JobsOK, Exists, Revisions
<1>7. EtagsKnown'
  BY <1>1, RowFacts, SMTT(30) DEF DeliveryInv, CreateEvent, EtagsKnown
<1>8. EtagsOK'
  BY <1>1, SMTT(30) DEF DeliveryInv, CreateEvent, EtagsOK, DrainOK, Exists, At, Carries
<1>40. CopiesAgree'
  BY DEF DeliveryInv, CopiesAgree, Carries, CreateEvent
<1> QED  BY <1>4, <1>5, <1>6, <1>7, <1>8, <1>40 DEF DeliveryInv

LEMMA UpdateKeeps ==
    ASSUME DeliveryInv, NEW c \in Calendars, UpdateEvent(c)  PROVE DeliveryInv'
<1> USE CalendarAssumption, NothingAssumption
<1> DEFINE next == event.revision + 1
           queued == Queued(IF event.linked THEN "UPDATE_EVENT" ELSE "CREATE_EVENT", event.calendar)
<1>1. event \in Event /\ event.revision \in Nat /\ event.revision < MaxRevision /\ Exists
  BY RowFacts DEF DeliveryInv, UpdateEvent, Room
<1>2. next \in Revisions
  BY <1>1 DEF Revisions
<1>3. event' = [event EXCEPT !.revision = next, !.content = next,
                             !.calendar = c, !.status = "PENDING"]
  BY DEF UpdateEvent
<1>4. queued \in Job /\ queued.operation = IF event.linked THEN "UPDATE_EVENT" ELSE "CREATE_EVENT"
  BY <1>1, SMTT(30) DEF Queued, Job, Operations, Event
<1>5. jobs' = [jobs EXCEPT ![next] = queued]
  BY DEF UpdateEvent
<1>6. \A j \in Revisions : jobs'[j] = IF j = next THEN queued ELSE jobs[j]
  BY <1>5 DEF DeliveryInv, TypeOK
<1>7. jobs[next] = NoJob
  BY <1>1, <1>2 DEF DeliveryInv, JobsOK
<1>8. UNCHANGED <<google, writes, worker, page>>
  BY DEF UpdateEvent
<1> HIDE DEF next, queued
<1>20. event' \in Event
  BY <1>1, <1>2, <1>3, EventFields DEF Contents
<1>21. /\ event'.revision = next /\ event'.status = "PENDING"
       /\ event'.etag = event.etag
  BY <1>1, <1>3, SMTT(30) DEF Event
<1>9. TypeOK'
  BY <1>20, <1>4, <1>5, <1>2, <1>8 DEF DeliveryInv, TypeOK
<1>10. \A j \in Revisions : JobKept(j)
  BY <1>6, <1>7 DEF JobKept
<1>11. next >= event.revision /\ next # event.revision /\ event' # NoEvent
  BY <1>1, <1>20 DEF next
<1>12. Onward
  BY <1>1, <1>20, <1>21, <1>11 DEF Onward, Exists
<1>13. \A v \in Workers : DrainOK(v)'
  BY <1>8, <1>10, <1>12, DrainFrame DEF DeliveryInv
<1>14. JobsOK'
  <2>1. \A j \in Revisions : j > next => j > event.revision /\ j # next
    BY <1>1, <1>11 DEF next, Revisions
  <2> QED  BY <1>1, <1>2, <1>4, <1>6, <1>11, <1>20, <1>21, <2>1 DEF JobsOK, Exists, DeliveryInv
<1>15. EtagsKnown'
  BY <1>1, <1>21, <1>8 DEF DeliveryInv, EtagsKnown, Exists
<1>16. EtagsOK'
  <2>1. \A v \in Workers : At(v, "stamp") =>
           worker[v].job \in Revisions /\ jobs[worker[v].job] \in Job
    BY RowFacts DEF DeliveryInv, DrainOK, At, Drain
  <2>2. \A v \in Workers : At(v, "stamp") => JobOf(v)'.operation = JobOf(v).operation
    BY <1>8, <1>10, <2>1 DEF JobKept, JobOf
  <2> QED
    BY <1>21, <1>8, <2>2 DEF DeliveryInv, EtagsOK, At, Carries, Seen
<1>40. CopiesAgree'
  BY <1>8 DEF DeliveryInv, CopiesAgree, Carries
<1> QED  BY <1>9, <1>13, <1>14, <1>15, <1>16, <1>40 DEF DeliveryInv

LEMMA CancelKeeps ==
    ASSUME DeliveryInv, CancelEvent  PROVE DeliveryInv'
<1> USE CalendarAssumption, NothingAssumption
<1> DEFINE next == event.revision + 1
           queued == Queued("DELETE_EVENT", NoCalendar)
<1>1. event \in Event /\ event.revision \in Nat /\ event.revision < MaxRevision /\ Exists
  BY RowFacts DEF DeliveryInv, CancelEvent, Room
<1>2. next \in Revisions
  BY <1>1 DEF Revisions
<1>3. event' = [event EXCEPT !.revision = next, !.cancelled = TRUE,
                             !.status = "PENDING"]
  BY DEF CancelEvent
<1>4. queued \in Job /\ queued.operation = "DELETE_EVENT"
  BY <1>1, SMTT(30) DEF Queued, Job, Operations, Event
<1>5. jobs' = [jobs EXCEPT ![next] = queued]
  BY DEF CancelEvent
<1>6. \A j \in Revisions : jobs'[j] = IF j = next THEN queued ELSE jobs[j]
  BY <1>5 DEF DeliveryInv, TypeOK
<1>7. jobs[next] = NoJob
  BY <1>1, <1>2 DEF DeliveryInv, JobsOK
<1>8. UNCHANGED <<google, writes, worker, page>>
  BY DEF CancelEvent
<1> HIDE DEF next, queued
<1>20. event' \in Event
  BY <1>1, <1>2, <1>3, EventFields DEF Contents
<1>21. /\ event'.revision = next /\ event'.status = "PENDING"
       /\ event'.etag = event.etag /\ event'.cancelled
  BY <1>1, <1>3, SMTT(30) DEF Event
<1>9. TypeOK'
  BY <1>20, <1>4, <1>5, <1>2, <1>8 DEF DeliveryInv, TypeOK
<1>10. \A j \in Revisions : JobKept(j)
  BY <1>6, <1>7 DEF JobKept
<1>11. next >= event.revision /\ next # event.revision /\ event' # NoEvent
  BY <1>1, <1>20 DEF next
<1>12. Onward
  BY <1>1, <1>20, <1>21, <1>11 DEF Onward, Exists
<1>13. \A v \in Workers : DrainOK(v)'
  BY <1>8, <1>10, <1>12, DrainFrame DEF DeliveryInv
<1>14. JobsOK'
  <2>1. \A j \in Revisions : j > next => j > event.revision /\ j # next
    BY <1>1, <1>11 DEF next, Revisions
  <2> QED  BY <1>1, <1>2, <1>4, <1>6, <1>11, <1>20, <1>21, <2>1 DEF JobsOK, Exists, DeliveryInv
<1>15. EtagsKnown'
  BY <1>1, <1>21, <1>8 DEF DeliveryInv, EtagsKnown, Exists
<1>16. EtagsOK'
  <2>1. \A v \in Workers : At(v, "stamp") =>
           worker[v].job \in Revisions /\ jobs[worker[v].job] \in Job
    BY RowFacts DEF DeliveryInv, DrainOK, At, Drain
  <2>2. \A v \in Workers : At(v, "stamp") => JobOf(v)'.operation = JobOf(v).operation
    BY <1>8, <1>10, <2>1 DEF JobKept, JobOf
  <2> QED
    BY <1>21, <1>8, <2>2 DEF DeliveryInv, EtagsOK, At, Carries, Seen
<1>40. CopiesAgree'
  BY <1>8 DEF DeliveryInv, CopiesAgree, Carries
<1> QED  BY <1>9, <1>13, <1>14, <1>15, <1>16, <1>40 DEF DeliveryInv

LEMMA RetryKeeps ==
    ASSUME DeliveryInv, RetrySync PROVE DeliveryInv'
<1>1. event \in Event /\ event.revision \in Revisions /\ Exists
  BY RowFacts DEF DeliveryInv, RetrySync, Event
<1>2. event' = [event EXCEPT !.status = "PENDING"] /\ event' \in Event
  BY <1>1, EventFields DEF RetrySync
<1>3. /\ event'.revision = event.revision /\ event'.content = event.content
      /\ event'.cancelled = event.cancelled /\ event'.etag = event.etag
      /\ event'.status = "PENDING"
  BY <1>1, <1>2 DEF Event
<1>4. jobs[event.revision] \in Job
  BY <1>1, RowFacts DEF DeliveryInv, RetrySync
<1> DEFINE reopened == [jobs[event.revision] EXCEPT !.status = "PENDING", !.attempts = 0,
                                                    !.owner = NoWorker]
<1>5. /\ reopened \in Job /\ reopened.operation = jobs[event.revision].operation
      /\ reopened.previous = jobs[event.revision].previous
  BY <1>4, JobReopened
<1>6. jobs' = jobs \/ jobs' = [jobs EXCEPT ![event.revision] = reopened]
  BY DEF RetrySync
<1> HIDE DEF reopened
<1>7. /\ jobs' \in [Revisions -> Job \union {NoJob}]
      /\ \A j \in Revisions : JobKept(j) /\ (jobs[j] = NoJob => jobs'[j] = NoJob)
  BY <1>1, <1>4, <1>5, <1>6, NothingAssumption DEF DeliveryInv, TypeOK, JobKept
<1>8. UNCHANGED <<google, writes, worker, page>>
  BY DEF RetrySync
<1>9. TypeOK'
  BY <1>2, <1>7, <1>8 DEF DeliveryInv, TypeOK
<1>10. event' # NoEvent
  BY <1>2, NothingAssumption
<1>11. Onward
  BY <1>1, <1>2, <1>3, <1>10, CalendarAssumption DEF Onward, Exists, Revisions
<1>12. \A v \in Workers : DrainOK(v)'
  BY <1>7, <1>8, <1>11, DrainFrame DEF DeliveryInv
<1>13. JobsOK'
  BY <1>1, <1>3, <1>7, <1>10, NothingAssumption, RowFacts DEF DeliveryInv, JobsOK, JobKept, Exists
<1>14. EtagsKnown'
  BY <1>1, <1>3, <1>8 DEF DeliveryInv, EtagsKnown, Exists
<1>15. EtagsOK'
  <2>1. \A v \in Workers : At(v, "stamp") =>
           worker[v].job \in Revisions /\ jobs[worker[v].job] \in Job
    BY RowFacts DEF DeliveryInv, DrainOK, At, Drain
  <2>2. \A v \in Workers : At(v, "stamp") => JobOf(v)'.operation = JobOf(v).operation
    BY <1>7, <1>8, <2>1 DEF JobKept, JobOf
  <2> QED
    BY <1>3, <1>8, <2>2 DEF DeliveryInv, EtagsOK, At, Carries, Seen
<1>40. CopiesAgree'
  BY <1>8 DEF DeliveryInv, CopiesAgree, Carries
<1> QED  BY <1>9, <1>12, <1>13, <1>14, <1>15, <1>40 DEF DeliveryInv

-----------------------------------------------------------------------------
(* Steps of a worker *)

\* A step of a worker that changes nothing at Google.
LEMMA LocalStep ==
    ASSUME DeliveryInv, NEW w \in Workers, NEW d \in Drain,
           worker' = [worker EXCEPT ![w] = d],
           UNCHANGED <<google, writes, page>>,
           Exists, Exists', event' \in Event,
           event'.revision = event.revision,
           event'.content = event.content,
           event'.cancelled = event.cancelled,
           event'.etag <= writes,
           event'.status = "SYNCED" /\ ~event'.cancelled => Carries(event'.etag, event'.content),
           jobs' \in [Revisions -> Job \union {NoJob}],
           \A j \in Revisions : JobKept(j) /\ (jobs[j] = NoJob => jobs'[j] = NoJob),
           DrainOK(w)', d.etag <= writes,
           d.step = "stamp" /\ jobs'[d.job].operation # "DELETE_EVENT" =>
               Carries(d.etag, d.seen.content)
    PROVE  DeliveryInv'
<1>1. /\ worker' \in [Workers -> Drain] /\ worker'[w] = d
      /\ \A v \in Workers \ {w} : worker'[v] = worker[v]
  BY DEF DeliveryInv, TypeOK
<1>2. TypeOK'
  BY <1>1 DEF DeliveryInv, TypeOK
<1>3. Onward
  BY RowFacts, CalendarAssumption DEF DeliveryInv, Onward
<1>4. \A v \in Workers : DrainOK(v)'
  BY <1>1, <1>3, DrainFrame DEF DeliveryInv
<1>5. JobsOK'
  BY RowFacts, NothingAssumption DEF DeliveryInv, JobsOK, JobKept, Event
<1>6. EtagsKnown'
  BY <1>1 DEF DeliveryInv, EtagsKnown
<1>7. EtagsOK'
  <2>1. \A v \in Workers : At(v, "stamp") =>
           worker[v].job \in Revisions /\ jobs[worker[v].job] \in Job
    BY RowFacts DEF DeliveryInv, DrainOK, At, Drain
  <2>2. ASSUME NEW v \in Workers \ {w}, At(v, "stamp")' PROVE
           At(v, "stamp") /\ JobOf(v)'.operation = JobOf(v).operation /\ UNCHANGED worker[v]
    BY <1>1, <2>1, <2>2 DEF JobKept, JobOf, At
  <2>3. \A e, k : Carries(e, k) => Carries(e, k)'
    BY DEF Carries
  <2>4. \A v \in Workers : At(v, "stamp")' /\ JobOf(v)'.operation # "DELETE_EVENT" =>
           Carries(worker[v].etag, Seen(v).content)'
    <3> TAKE v \in Workers
    <3>1. CASE v = w
      BY <1>1, <2>3, <3>1 DEF At, JobOf, Seen
    <3>2. CASE v # w
      BY <2>2, <2>3, <3>2 DEF DeliveryInv, EtagsOK, Seen
    <3> QED  BY <3>1, <3>2
  <2> QED
    BY <2>3, <2>4 DEF DeliveryInv, EtagsOK, Carries
<1>40. CopiesAgree'
  BY DEF DeliveryInv, CopiesAgree, Carries
<1> QED  BY <1>2, <1>4, <1>5, <1>6, <1>7, <1>40 DEF DeliveryInv

LEMMA ClaimKeeps ==
    ASSUME DeliveryInv, NEW w \in Workers, NEW j \in Revisions, Claim(w, j) PROVE DeliveryInv'
<1> DEFINE attempts == IF jobs[j].attempts < MaxAttempts THEN jobs[j].attempts + 1 ELSE MaxAttempts
           claimed == [jobs[j] EXCEPT !.status = "PROCESSING", !.owner = WorkerId[w],
                                      !.attempts = attempts]
           d == [IdleWorker EXCEPT !.step = "read", !.job = j, !.attempts = attempts]
<1>1. jobs[j] \in Job /\ Exists
  BY RowFacts DEF DeliveryInv, Claim, JobsOK
<1>2. attempts \in 0..MaxAttempts /\ WorkerId[w] \in WorkerIds
  BY <1>1, CalendarAssumption DEF Job
<1>3. worker' = [worker EXCEPT ![w] = d] /\ jobs' = [jobs EXCEPT ![j] = claimed]
      /\ UNCHANGED <<event, google, writes, page>>
  BY DEF Claim
<1> HIDE DEF attempts
<1>4. claimed \in Job /\ claimed.operation = jobs[j].operation /\ claimed.previous = jobs[j].previous
  BY <1>1, <1>2, JobClaimed
<1>5. d \in Drain /\ d.step = "read" /\ d.job = j /\ d.etag = 0
  BY <1>2 DEF IdleWorker, Drain, Steps, NoEtag
<1> HIDE DEF claimed, d
<1>6. /\ jobs' \in [Revisions -> Job \union {NoJob}] /\ jobs'[j] \in Job
      /\ \A i \in Revisions : JobKept(i) /\ (jobs[i] = NoJob => jobs'[i] = NoJob)
  BY <1>1, <1>3, <1>4, NothingAssumption DEF DeliveryInv, TypeOK, JobKept
<1>7. worker'[w] = d
  BY <1>3 DEF DeliveryInv, TypeOK
<1>8. DrainOK(w)'
  BY <1>1, <1>3, <1>5, <1>6, <1>7 DEF DrainOK, Sending, Moving, Calls, Exists
<1>9. event \in Event /\ Exists' /\ event.etag <= writes /\ d.etag <= writes
  BY <1>1, <1>3, <1>5, RowFacts DEF DeliveryInv, EtagsKnown, Exists
<1> QED
  BY <1>1, <1>3, <1>5, <1>6, <1>8, <1>9, LocalStep DEF DeliveryInv, EtagsOK

\* A step of a worker that changes nothing but the worker.
LEMMA OwnStep ==
    ASSUME DeliveryInv, NEW w \in Workers, NEW d \in Drain,
           worker' = [worker EXCEPT ![w] = d],
           UNCHANGED <<event, jobs, google, writes, page>>,
           Exists, DrainOK(w)', d.etag <= writes,
           d.step = "stamp" /\ jobs[d.job].operation # "DELETE_EVENT" =>
               Carries(d.etag, d.seen.content)
    PROVE  DeliveryInv'
<1>1. event \in Event /\ Exists' /\ event.etag <= writes
  BY RowFacts DEF DeliveryInv, EtagsKnown, Exists
<1>2. /\ jobs' \in [Revisions -> Job \union {NoJob}]
      /\ \A j \in Revisions : JobKept(j) /\ (jobs[j] = NoJob => jobs'[j] = NoJob)
  BY DEF DeliveryInv, TypeOK, JobKept
<1> QED
  BY <1>1, <1>2, LocalStep DEF DeliveryInv, EtagsOK

\* A worker that has nothing more to send.
Ended(w, step, dead) ==
    [worker[w] EXCEPT !.step = step, !.dead = dead, !.seen = NoEvent, !.etag = NoEtag]

LEMMA EndedDrain ==
    ASSUME DeliveryInv, NEW w \in Workers,
           NEW step \in {"close", "fail", "blame"}, NEW dead \in BOOLEAN
    PROVE  /\ Ended(w, step, dead) \in Drain /\ Ended(w, step, dead).step = step
           /\ Ended(w, step, dead).job = worker[w].job
           /\ Ended(w, step, dead).etag <= writes
           /\ Ends(w, step, dead) => /\ worker' = [worker EXCEPT ![w] = Ended(w, step, dead)]
                                     /\ worker'[w] = Ended(w, step, dead)
<1> DEFINE d == [worker[w] EXCEPT !.step = step, !.dead = dead, !.seen = NoEvent, !.etag = NoEtag]
<1>1. worker[w] \in Drain /\ writes \in Nat
  BY RowFacts DEF DeliveryInv
<1>2. d \in Drain
  BY <1>1 DEF Drain, Steps
<1>3. d.step = step /\ d.job = worker[w].job /\ d.etag = NoEtag
  BY <1>1 DEF Drain
<1>4. NoEtag <= writes
  BY <1>1 DEF NoEtag
<1>5. Ends(w, step, dead) => worker' = [worker EXCEPT ![w] = d] /\ worker'[w] = d
  BY DEF Ends, DeliveryInv, TypeOK
<1> QED  BY <1>2, <1>3, <1>4, <1>5 DEF Ended

LEMMA EndsKeeps ==
    ASSUME DeliveryInv, NEW w \in Workers,
           NEW step \in {"close", "fail", "blame"}, NEW dead \in BOOLEAN, worker[w].step # "idle",
           Ends(w, step, dead), UNCHANGED <<event, jobs, google, writes, page>>
    PROVE  DeliveryInv'
<1>1. PICK d \in Drain : /\ d.step = step /\ d.job = worker[w].job /\ d.etag <= writes
                         /\ worker' = [worker EXCEPT ![w] = d] /\ worker'[w] = d
  BY EndedDrain
<1>2. DrainOK(w)' /\ Exists
  BY <1>1 DEF DeliveryInv, DrainOK, Sending, Calls, Moving, Exists
<1> QED  BY <1>1, <1>2, OwnStep

LEMMA ReadKeeps ==
    ASSUME DeliveryInv, NEW w \in Workers, ReadEvent(w) PROVE DeliveryInv'
<1> DEFINE step == IF Superseded(event, worker[w].job) THEN "close"
                   ELSE IF JobOf(w).operation = "CREATE_EVENT" /\ ~event.linked
                   THEN "reserve" ELSE FirstCall(event, JobOf(w))
           payload == PayloadOf(event)
           d == [worker[w] EXCEPT !.seen = payload, !.etag = event.etag, !.step = step]
<1>1. /\ Exists /\ event \in Event /\ jobs[worker[w].job] \in Job
      /\ worker[w] \in Drain /\ worker[w].step # "idle" /\ worker[w].job \in Revisions
  BY RowFacts DEF DeliveryInv, ReadEvent, At, DrainOK, Drain
<1>2. /\ IF step = "close" THEN Ends(w, step, FALSE) ELSE worker' = [worker EXCEPT ![w] = d]
      /\ UNCHANGED <<event, jobs, google, writes, page>>
  BY DEF ReadEvent
<1>3. /\ step \in Steps \ {"idle", "stamp"}
      /\ step # "close" => event.revision = worker[w].job
      /\ step \in Moving => JobOf(w).previous \in Calendars
      /\ step = "delete" => JobOf(w).operation = "DELETE_EVENT"
  BY <1>1 DEF FirstCall, Relocates, Superseded, Steps, Sending, Calls, Moving, Job, JobOf
<1> HIDE DEF step
<1>9. CASE step = "close"
  BY <1>1, <1>2, <1>9, EndsKeeps
<1>10. CASE step # "close"
  <2>1. payload \in Payload /\ payload.content = event.content
    BY <1>1 DEF PayloadOf, Payload, Event
  <2> HIDE DEF payload
  <2>2. d \in Drain
    BY <1>1, <1>3, <2>1 DEF Drain, Event
  <2>3. d.step = step /\ d.job = worker[w].job /\ d.seen = payload /\ d.etag = event.etag
    BY <1>1 DEF Drain
  <2> HIDE DEF d
  <2>4. worker'[w] = d /\ worker' = [worker EXCEPT ![w] = d]
    BY <1>2, <1>10 DEF DeliveryInv, TypeOK
  <2>5. DrainOK(w)'
    BY <1>1, <1>2, <1>3, <1>10, <2>1, <2>3, <2>4, RowFacts
       DEF DrainOK, DeliveryInv, Seen, JobOf, Exists, Sending, Calls
  <2>6. d.etag <= writes
    BY <1>1, <2>3 DEF DeliveryInv, EtagsKnown
  <2> QED  BY <1>1, <1>2, <1>3, <2>2, <2>3, <2>4, <2>5, <2>6, OwnStep
<1> QED  BY <1>9, <1>10

LEMMA DiesKeeps ==
    ASSUME DeliveryInv, NEW w \in Workers, NEW dead \in BOOLEAN, worker[w].step # "idle",
           Dies(w, dead), UNCHANGED <<event, jobs, google, writes, page>>
    PROVE  DeliveryInv'
<1> DEFINE final == dead \/ worker[w].attempts >= MaxAttempts
<1>1. Ends(w, "fail", final)
  BY DEF Dies
<1>2. final \in BOOLEAN
  OBVIOUS
<1> HIDE DEF final
<1> QED  BY <1>1, <1>2, EndsKeeps

\* An answer of Google that changed nothing there.
LEMMA AnsweredKeeps ==
    ASSUME DeliveryInv, NEW w \in Workers, worker[w].step \in Calls,
           NEW step \in {"insert", "get", "patch", "refetch", "overwrite", "stamp"},
           NEW etag \in Etags \union {NoEtag}, etag <= writes,
           Answered(w, step, etag),
           step = "stamp" => JobOf(w).operation = "DELETE_EVENT"
    PROVE  DeliveryInv'
<1> DEFINE d == [worker[w] EXCEPT !.step = step, !.etag = etag]
<1>1. /\ worker[w] \in Drain /\ worker[w].step # "idle" /\ worker[w].step \in Sending
      /\ step \in Sending /\ step \notin Moving /\ step # "delete" /\ step # "idle"
  BY RowFacts DEF DeliveryInv, Calls, Sending, Moving
<1>2. worker' = [worker EXCEPT ![w] = d] /\ UNCHANGED <<event, jobs, google, writes, page>>
  BY DEF Answered, DeliveryInv, TypeOK
<1>3. d \in Drain
  BY <1>1 DEF Drain, Steps
<1>4. /\ d.step = step /\ d.job = worker[w].job /\ d.etag = etag /\ d.seen = worker[w].seen
  BY <1>1 DEF Drain
<1> HIDE DEF d
<1>5. worker'[w] = d
  BY <1>2 DEF DeliveryInv, TypeOK
<1>6. DrainOK(w)' /\ Exists
  BY <1>1, <1>2, <1>4, <1>5 DEF DeliveryInv, DrainOK, Seen, Exists
<1> QED  BY <1>1, <1>2, <1>3, <1>4, <1>6, OwnStep DEF JobOf

LEMMA ReserveKeeps ==
    ASSUME DeliveryInv, NEW w \in Workers, Reserve(w) PROVE DeliveryInv'
<1> DEFINE d == [worker[w] EXCEPT !.step = "insert"]
<1>1. /\ Exists /\ event \in Event /\ jobs[worker[w].job] \in Job /\ Seen(w) \in Payload
      /\ worker[w] \in Drain /\ worker[w].step \in Sending /\ worker[w].etag <= writes
  BY RowFacts DEF DeliveryInv, Reserve, At, DrainOK, Sending, EtagsKnown
<1>2. /\ worker' = [worker EXCEPT ![w] = d] /\ UNCHANGED <<jobs, google, writes, page>>
      /\ event' = [event EXCEPT !.linked = TRUE]
  BY DEF Reserve, Goes, DeliveryInv, TypeOK
<1>3. /\ event' \in Event /\ event'.revision = event.revision /\ event'.content = event.content
      /\ event'.cancelled = event.cancelled /\ event'.etag = event.etag
      /\ event'.status = event.status
  <2>1. event' \in Event
    BY <1>1, <1>2, EventFields
  <2> QED  BY <1>1, <1>2, <2>1 DEF Event
<1>4. "insert" \in Steps /\ "insert" \in Sending /\ "insert" \notin Moving
  BY DEF Steps, Sending, Calls, Moving
<1>5. d \in Drain
  BY <1>1, <1>4 DEF Drain
<1>6. d.step = "insert" /\ d.job = worker[w].job /\ d.etag = worker[w].etag /\ d.seen = worker[w].seen
  BY <1>1 DEF Drain
<1> HIDE DEF d
<1>7. worker'[w] = d /\ Exists'
  BY <1>2, <1>3, NothingAssumption DEF DeliveryInv, TypeOK, Exists
<1>8. DrainOK(w)'
  BY <1>1, <1>2, <1>3, <1>4, <1>6, <1>7 DEF DrainOK, DeliveryInv, Seen, JobOf
<1>9. /\ jobs' \in [Revisions -> Job \union {NoJob}]
      /\ \A j \in Revisions : JobKept(j) /\ (jobs[j] = NoJob => jobs'[j] = NoJob)
  BY <1>2 DEF DeliveryInv, TypeOK, JobKept
<1>10. event.etag <= writes
  BY <1>1 DEF DeliveryInv, EtagsKnown
<1> QED
  BY <1>1, <1>2, <1>3, <1>4, <1>5, <1>6, <1>7, <1>8, <1>9, <1>10, LocalStep
     DEF DeliveryInv, EtagsOK

LEMMA StampKeeps ==
    ASSUME DeliveryInv, NEW w \in Workers, Stamp(w) PROVE DeliveryInv'
<1> DEFINE d == Ended(w, "close", FALSE)
<1>1. /\ Exists /\ event \in Event /\ jobs[worker[w].job] \in Job /\ Seen(w) \in Payload
      /\ worker[w] \in Drain /\ worker[w].etag <= writes /\ worker[w].etag \in Nat
      /\ event.etag <= writes /\ worker[w].step # "idle"
      /\ Stampable(w) => event.content = Seen(w).content
  BY RowFacts DEF DeliveryInv, Stamp, At, DrainOK, Sending, EtagsKnown, Stampable
<1>2. UNCHANGED <<jobs, google, writes, page>>
  BY DEF Stamp
<1>3. /\ d \in Drain /\ d.step = "close" /\ d.job = worker[w].job /\ d.etag <= writes
      /\ worker' = [worker EXCEPT ![w] = d]
  BY <1>1, EndedDrain DEF Stamp
<1> HIDE DEF d
<1>4. /\ event' \in Event /\ event'.revision = event.revision /\ event'.content = event.content
      /\ event'.cancelled = event.cancelled /\ event'.etag \in {event.etag, worker[w].etag}
      /\ event'.status = "SYNCED" /\ ~event'.cancelled => Carries(event'.etag, event'.content)
  <2>1. CASE ~Stampable(w)
    BY <1>1, <2>1 DEF Stamp, DeliveryInv, EtagsOK
  <2>2. CASE Stampable(w) /\ JobOf(w).operation = "DELETE_EVENT"
    <3>1. event' = [event EXCEPT !.status = "SYNCED"]
      BY <2>2 DEF Stamp
    <3>2. event.cancelled
      BY <1>1, <2>2 DEF DeliveryInv, JobsOK, Stampable, JobOf
    <3>3. event' \in Event
      BY <1>1, <3>1, EventFields
    <3>4. /\ event'.revision = event.revision /\ event'.content = event.content
          /\ event'.cancelled = event.cancelled /\ event'.etag = event.etag
      BY <1>1, <3>1 DEF Event
    <3> QED  BY <3>2, <3>3, <3>4
  <2>3. CASE Stampable(w) /\ JobOf(w).operation # "DELETE_EVENT"
    <3>1. event' = [event EXCEPT !.status = "SYNCED", !.linked = TRUE, !.etag = worker[w].etag]
      BY <2>3 DEF Stamp
    <3>2. Carries(worker[w].etag, Seen(w).content)
      BY <2>3 DEF DeliveryInv, EtagsOK, Stamp
    <3>3. /\ event'.revision = event.revision /\ event'.content = event.content
          /\ event'.cancelled = event.cancelled /\ event'.etag = worker[w].etag
      BY <1>1, <3>1 DEF Event
    <3>4. event' \in Event
      BY <1>1, <3>1 DEF Event, Drain
    <3> QED  BY <1>1, <2>3, <3>2, <3>3, <3>4
  <2> QED  BY <2>1, <2>2, <2>3
<1>5. worker'[w] = d /\ Exists'
  BY <1>3, <1>4, NothingAssumption DEF DeliveryInv, TypeOK, Exists
<1>6. DrainOK(w)'
  BY <1>1, <1>2, <1>3, <1>5 DEF DrainOK, Sending, Calls, Moving
<1>7. /\ jobs' \in [Revisions -> Job \union {NoJob}]
      /\ \A j \in Revisions : JobKept(j) /\ (jobs[j] = NoJob => jobs'[j] = NoJob)
  BY <1>2 DEF DeliveryInv, TypeOK, JobKept
<1>8. event'.etag <= writes
  BY <1>1, <1>4
<1> QED
  BY <1>1, <1>2, <1>3, <1>4, <1>5, <1>6, <1>7, <1>8, LocalStep

LEMMA SettledKeepsJobs ==
    ASSUME TypeOK, NEW w \in Workers, jobs[worker[w].job] \in Job,
           NEW s \in {"PENDING", "SUCCEEDED", "DEAD_LETTER"}, jobs' = Settled(w, s)
    PROVE  /\ jobs' \in [Revisions -> Job \union {NoJob}]
           /\ \A j \in Revisions : JobKept(j) /\ (jobs[j] = NoJob => jobs'[j] = NoJob)
<1>1. /\ JobOf(w).attempts \in 0..MaxAttempts /\ 0 \in 0..MaxAttempts
      /\ JobOf(w) \in Job /\ JobOf(w) = jobs[worker[w].job]
  BY CalendarAssumption DEF Job, JobOf
<1>2. worker[w].job \in Revisions
  BY RowFacts DEF Drain
<1>3. CASE ~Leased(w)
  BY <1>3 DEF Settled, TypeOK, JobKept
<1>4. CASE Leased(w)
  <2> DEFINE a == IF s = "PENDING" THEN JobOf(w).attempts ELSE 0
             closed == JobClosed(JobOf(w), s, a)
  <2>1. jobs' = [jobs EXCEPT ![worker[w].job] = closed]
    <3>1. closed = [JobOf(w) EXCEPT !.status = s, !.owner = NoWorker, !.attempts = a]
      BY DEF JobClosed
    <3>2. CASE s = "PENDING"
      BY <1>1, <1>2, <1>4, <3>1, <3>2 DEF Settled, TypeOK
    <3>3. CASE s # "PENDING"
      BY <1>1, <1>2, <1>4, <3>1, <3>3 DEF Settled, TypeOK
    <3> QED  BY <3>2, <3>3
  <2>2. a \in 0..MaxAttempts
    BY <1>1
  <2> HIDE DEF a
  <2>3. closed \in Job /\ closed.operation = JobOf(w).operation /\ closed.previous = JobOf(w).previous
    BY <1>1, <2>2, JobClosedKeeps
  <2> HIDE DEF closed
  <2> QED  BY <1>1, <1>2, <2>1, <2>3, NothingAssumption DEF TypeOK, JobKept
<1> QED  BY <1>3, <1>4

\* A worker that is done with its job, or has only the event left to blame.
LEMMA RestKeeps ==
    ASSUME DeliveryInv, NEW w \in Workers, NEW d \in Drain, worker[w].step # "idle",
           d.step \in {"idle", "blame"}, d.job = worker[w].job \/ d.step = "idle",
           d.etag <= writes,
           worker' = [worker EXCEPT ![w] = d],
           jobs' = jobs \/ \E s \in {"PENDING", "SUCCEEDED", "DEAD_LETTER"} : jobs' = Settled(w, s),
           UNCHANGED <<google, writes, page>>,
           event' = event \/ event' = [event EXCEPT !.status = "ERROR"]
    PROVE  DeliveryInv'
<1>1. /\ Exists /\ event \in Event /\ jobs[worker[w].job] \in Job /\ worker[w].job \in Revisions
      /\ event.etag <= writes
  BY RowFacts DEF DeliveryInv, DrainOK, EtagsKnown, Drain
<1>2. /\ jobs' \in [Revisions -> Job \union {NoJob}]
      /\ \A j \in Revisions : JobKept(j) /\ (jobs[j] = NoJob => jobs'[j] = NoJob)
  BY <1>1, SettledKeepsJobs DEF DeliveryInv, TypeOK, JobKept
<1>3. /\ event' \in Event /\ event'.revision = event.revision /\ event'.content = event.content
      /\ event'.cancelled = event.cancelled /\ event'.etag = event.etag
      /\ event'.status = "SYNCED" => event.status = "SYNCED"
  <2>1. CASE event' = event
    BY <1>1, <2>1
  <2>2. CASE event' = [event EXCEPT !.status = "ERROR"]
    <3>1. event' \in Event
      BY <1>1, <2>2, EventFields
    <3> QED  BY <1>1, <2>2, <3>1 DEF Event
  <2> QED  BY <2>1, <2>2
<1>4. worker'[w] = d /\ Exists'
  BY <1>3, NothingAssumption DEF DeliveryInv, TypeOK, Exists
<1>5. DrainOK(w)'
  BY <1>1, <1>2, <1>4 DEF DrainOK, Sending, Calls, Moving, JobKept
<1> QED
  BY <1>1, <1>2, <1>3, <1>4, <1>5, LocalStep DEF DeliveryInv, EtagsOK

LEMMA EndKeeps ==
    ASSUME DeliveryInv, NEW w \in Workers,
           CloseJob(w) \/ FailJob(w) \/ BlameEvent(w) \/ Crash(w)
    PROVE  DeliveryInv'
<1> DEFINE blaming == Ended(w, "blame", FALSE)
<1>1. worker[w] \in Drain /\ worker[w].etag <= writes /\ writes \in Nat
  BY RowFacts DEF DeliveryInv, EtagsKnown
<1>2. IdleWorker \in Drain /\ IdleWorker.step = "idle" /\ IdleWorker.etag <= writes
  BY <1>1, CalendarAssumption DEF IdleWorker, Drain, Steps, NoEtag, Revisions
<1>4. CASE CloseJob(w)
  BY <1>2, <1>4, RestKeeps DEF CloseJob, At
<1>5. CASE FailJob(w)
  <2>1. worker[w].step # "idle" /\ Ends(w, "blame", FALSE)
    BY <1>5 DEF FailJob, At
  <2>2. /\ blaming \in Drain /\ blaming.step = "blame" /\ blaming.job = worker[w].job
        /\ blaming.etag <= writes /\ worker' = [worker EXCEPT ![w] = blaming]
    BY <2>1, EndedDrain
  <2> HIDE DEF blaming
  <2> QED  BY <1>5, <2>1, <2>2, RestKeeps DEF FailJob
<1>6. CASE BlameEvent(w)
  BY <1>2, <1>6, RestKeeps DEF BlameEvent, At
<1>7. CASE Crash(w)
  BY <1>2, <1>7, RestKeeps DEF Crash, At
<1> QED  BY <1>4, <1>5, <1>6, <1>7

-----------------------------------------------------------------------------
(* Changes at Google *)

\* Google only ever adds copies under a new ETag.
Renewed ==
    \A c \in Calendars :
        google'[c] # NoCopy => google'[c] = google[c] \/ google'[c].etag = writes + 1

LEMMA RenewedCarries ==
    ASSUME DeliveryInv, Renewed, writes' = writes + 1, google' \in [Calendars -> Copy \union {NoCopy}]
    PROVE  /\ \A c \in Calendars : google'[c] # NoCopy => google'[c].etag <= writes'
           /\ \A e \in Nat : \A k : e <= writes /\ Carries(e, k) => Carries(e, k)'
BY RowFacts DEF DeliveryInv, EtagsKnown, Renewed, Carries

\* A change that writes one copy leaves the ETags telling contents apart.
LEMMA OneRenewed ==
    ASSUME DeliveryInv, NEW t \in Calendars,
           google'[t] # NoCopy => google'[t].etag = writes + 1,
           \A c \in Calendars \ {t} : google'[c] # NoCopy => google'[c] = google[c]
    PROVE  CopiesAgree'
<1>1. ASSUME NEW b \in Calendars, NEW c \in Calendars, google'[b] # NoCopy, google'[c] # NoCopy,
             google'[b].etag = google'[c].etag
      PROVE  google'[b].content = google'[c].content
  <2>1. \A a \in Calendars \ {t} : google'[a] # NoCopy =>
           google'[a] = google[a] /\ google[a].etag \in Nat /\ google[a].etag <= writes
    BY RowFacts DEF DeliveryInv, EtagsKnown
  <2>2. writes \in Nat
    BY RowFacts DEF DeliveryInv
  <2>3. CASE b = t \/ c = t
    BY <1>1, <2>1, <2>2, <2>3
  <2>4. CASE b # t /\ c # t
    BY <1>1, <2>1, <2>4 DEF DeliveryInv, CopiesAgree, Carries
  <2> QED  BY <2>3, <2>4
<1> QED  BY <1>1 DEF CopiesAgree, Carries

LEMMA EditOutsideKeeps ==
    ASSUME DeliveryInv, NEW c \in Calendars, EditOutside(c) PROVE DeliveryInv'
<1> DEFINE copy == Fresh(Outside)
<1>1. /\ google' = [google EXCEPT ![c] = copy] /\ writes' = writes + 1
      /\ writes \in Nat /\ writes' \in 1..MaxWrites
      /\ UNCHANGED <<event, jobs, worker, page>>
  BY RowFacts, CalendarAssumption DEF EditOutside, DeliveryInv
<1>2. copy \in Copy /\ copy.etag = writes + 1
  BY <1>1 DEF Fresh, Copy, Etags, Contents
<1> HIDE DEF copy
<1>3. google' \in [Calendars -> Copy \union {NoCopy}] /\ Renewed
  BY <1>1, <1>2 DEF DeliveryInv, TypeOK, Renewed
<1>4. TypeOK'
  BY <1>1, <1>3, CalendarAssumption DEF DeliveryInv, TypeOK
<1>5. \A v \in Workers : DrainOK(v)'
  BY <1>1 DEF DeliveryInv, DrainOK, Seen, JobOf, Exists
<1>6. JobsOK'
  BY <1>1 DEF DeliveryInv, JobsOK, Exists
<1>7. EtagsKnown'
  BY <1>1, <1>3, RenewedCarries, RowFacts DEF DeliveryInv, EtagsKnown, Exists
<1>8. EtagsOK'
  BY <1>1, <1>3, RenewedCarries, RowFacts
     DEF DeliveryInv, EtagsOK, EtagsKnown, Exists, At, JobOf, Seen
<1>9. CopiesAgree'
  BY <1>1, <1>2, <1>3, OneRenewed DEF DeliveryInv, TypeOK
<1> QED  BY <1>4, <1>5, <1>6, <1>7, <1>8, <1>9 DEF DeliveryInv

\* A change that Google applies for a worker, with its answer or without.
LEMMA AppliesKeeps ==
    ASSUME DeliveryInv, NEW w \in Workers, worker[w].step \in Calls,
           NEW copies, NEW step \in {"stamp", "patch"}, Applies(w, copies, step),
           copies \in [Calendars -> Copy \union {NoCopy}], NEW t \in Calendars,
           \A c \in Calendars \ {t} : copies[c] # NoCopy => copies[c] = google[c],
           copies[t] # NoCopy =>
               /\ copies[t].etag = writes + 1
               /\ step = "stamp" => copies[t].content = Seen(w).content
    PROVE  DeliveryInv'
<1> DEFINE answered == [worker[w] EXCEPT !.step = step, !.etag = writes + 1]
           final == FALSE \/ worker[w].attempts >= MaxAttempts
           lost == Ended(w, "fail", final)
<1>1. /\ google' = copies /\ writes' = writes + 1 /\ writes \in Nat /\ writes + 1 \in Etags
      /\ UNCHANGED <<event, jobs, page>>
  BY RowFacts, CalendarAssumption DEF Applies, DeliveryInv, Etags
<1>2. Renewed
  BY <1>1 DEF Renewed
<1>3. PICK d \in {answered, lost} : worker' = [worker EXCEPT ![w] = d]
  BY DEF Applies, Dies, Ends, Ended, DeliveryInv, TypeOK
<1>4. /\ worker[w] \in Drain /\ worker[w].etag <= writes /\ worker[w].etag \in Nat
      /\ worker[w].step # "idle" /\ worker[w].step \in Sending
  BY RowFacts DEF DeliveryInv, EtagsKnown, Calls, Sending
<1>5. /\ answered \in Drain /\ answered.step = step /\ answered.etag = writes + 1
      /\ answered.job = worker[w].job /\ answered.seen = worker[w].seen
  BY <1>1, <1>4 DEF Drain, Steps
<1>6. /\ lost \in Drain /\ lost.step = "fail" /\ lost.etag <= writes
      /\ lost.job = worker[w].job
  <2>1. final \in BOOLEAN
    OBVIOUS
  <2> HIDE DEF final
  <2> QED  BY <1>4, <2>1, EndedDrain
<1> HIDE DEF answered, lost
<1>7. /\ d \in Drain /\ d.step \in {step, "fail"} /\ d.etag <= writes + 1
      /\ d.step = "stamp" => step = "stamp" /\ d.etag = writes + 1
      /\ d.job = worker[w].job /\ (d.step # "fail" => d.seen = worker[w].seen)
  <2>1. CASE d = answered
    BY <1>1, <1>5, <2>1
  <2>2. CASE d = lost
    <3>1. lost.etag <= writes + 1
      <4>1. lost.etag \in Nat
        BY <1>6, CalendarAssumption DEF Drain, Etags, NoEtag
      <4> QED  BY <1>1, <1>6, <4>1
    <3> QED  BY <1>6, <2>2, <3>1
  <2> QED  BY <1>3, <2>1, <2>2
<1>8. /\ worker' \in [Workers -> Drain] /\ worker'[w] = d
      /\ \A v \in Workers \ {w} : worker'[v] = worker[v]
  BY <1>3, <1>7 DEF DeliveryInv, TypeOK
<1>9. TypeOK'
  BY <1>1, <1>8 DEF DeliveryInv, TypeOK, Etags
<1>10. \A v \in Workers : DrainOK(v)'
  <2>1. DrainOK(w)'
    BY <1>1, <1>4, <1>7, <1>8 DEF DeliveryInv, DrainOK, Seen, Exists, Moving, Sending, Calls
  <2>2. \A v \in Workers \ {w} : DrainOK(v)'
    BY <1>1, <1>8 DEF DeliveryInv, DrainOK, Seen, JobOf, Exists
  <2> QED  BY <2>1, <2>2
<1>11. JobsOK'
  BY <1>1 DEF DeliveryInv, JobsOK, Exists
<1>12. EtagsKnown'
  <2>1. \A v \in Workers : worker'[v].etag <= writes'
    BY <1>1, <1>7, <1>8, RowFacts DEF DeliveryInv, EtagsKnown
  <2> QED
    BY <1>1, <1>2, <2>1, RenewedCarries, RowFacts DEF DeliveryInv, EtagsKnown, Exists
<1>13. EtagsOK'
  <2>1. ASSUME NEW v \in Workers \ {w},
               At(v, "stamp") /\ JobOf(v).operation # "DELETE_EVENT"
        PROVE  Carries(worker[v].etag, Seen(v).content)'
    BY <1>1, <1>2, <1>8, <2>1, RenewedCarries, RowFacts
       DEF DeliveryInv, EtagsOK, EtagsKnown, Seen
  <2>2. ASSUME d.step = "stamp" PROVE Carries(d.etag, d.seen.content)'
    <3>1. \A c \in Calendars : google[c] # NoCopy => google[c].etag # writes + 1
      BY <1>1, RowFacts DEF DeliveryInv, EtagsKnown
    <3> QED  BY <1>1, <1>7, <2>2, <3>1 DEF Carries, Seen
  <2>3. \A v \in Workers : At(v, "stamp")' /\ JobOf(v)'.operation # "DELETE_EVENT" =>
           Carries(worker[v].etag, Seen(v).content)'
    BY <1>1, <1>8, <2>1, <2>2 DEF At, JobOf, Seen, Carries
  <2>4. Exists' /\ event'.status = "SYNCED" /\ ~event'.cancelled =>
           Carries(event.etag, event.content)'
    BY <1>1, <1>2, RenewedCarries, RowFacts DEF DeliveryInv, EtagsOK, EtagsKnown, Exists
  <2>5. page' # NoPage => Carries(page.copy.etag, page.copy.content)'
    BY <1>1, <1>2, RenewedCarries, RowFacts DEF DeliveryInv, EtagsOK, EtagsKnown
  <2> QED  BY <2>3, <2>4, <2>5 DEF EtagsOK
<1>14. CopiesAgree'
  BY <1>1, OneRenewed
<1> QED  BY <1>9, <1>10, <1>11, <1>12, <1>13, <1>14 DEF DeliveryInv

-----------------------------------------------------------------------------
(* Pages from Google *)

LEMMA ListKeeps ==
    ASSUME DeliveryInv, NEW c \in Calendars, ListPage(c) PROVE DeliveryInv'
<1>1. /\ page' = [calendar |-> c, copy |-> google[c]] /\ google[c] \in Copy
      /\ UNCHANGED <<event, jobs, google, writes, worker>>
  BY RowFacts DEF DeliveryInv, ListPage
<1>2. page' \in Page /\ page'.copy = google[c]
  BY <1>1 DEF Page
<1>3. TypeOK'
  BY <1>1, <1>2 DEF DeliveryInv, TypeOK
<1>4. \A v \in Workers : DrainOK(v)'
  BY <1>1 DEF DeliveryInv, DrainOK, Seen, JobOf, Exists
<1>5. JobsOK'
  BY <1>1 DEF DeliveryInv, JobsOK, Exists
<1>6. EtagsKnown'
  BY <1>1, <1>2, NothingAssumption DEF DeliveryInv, EtagsKnown, Exists
<1>7. EtagsOK'
  <2>1. Carries(google[c].etag, google[c].content)
    BY DEF DeliveryInv, CopiesAgree, ListPage
  <2> QED
    BY <1>1, <1>2, <2>1 DEF DeliveryInv, EtagsOK, Exists, At, JobOf, Seen, Carries
<1>40. CopiesAgree'
  BY <1>1 DEF DeliveryInv, CopiesAgree, Carries
<1> QED  BY <1>3, <1>4, <1>5, <1>6, <1>7, <1>40 DEF DeliveryInv

LEMMA ApplyKeeps ==
    ASSUME DeliveryInv, ApplyPage PROVE DeliveryInv'
<1>1. /\ page # NoPage /\ page' = NoPage /\ UNCHANGED <<jobs, google, writes, worker>>
      /\ page \in Page /\ page.copy \in Copy
      /\ page.copy.etag <= writes /\ Carries(page.copy.etag, page.copy.content)
  BY RowFacts DEF ApplyPage, DeliveryInv, EtagsKnown, EtagsOK
<1>2. CopiesAgree'
  BY <1>1 DEF DeliveryInv, CopiesAgree, Carries
<1>3. CASE event' = event
  <2>1. TypeOK'
    BY <1>1, <1>3 DEF DeliveryInv, TypeOK
  <2>2. \A v \in Workers : DrainOK(v)'
    BY <1>1, <1>3 DEF DeliveryInv, DrainOK, Seen, JobOf, Exists
  <2>3. JobsOK'
    BY <1>1, <1>3 DEF DeliveryInv, JobsOK, Exists
  <2>4. EtagsKnown'
    BY <1>1, <1>3 DEF DeliveryInv, EtagsKnown, Exists
  <2>5. EtagsOK'
    BY <1>1, <1>3 DEF DeliveryInv, EtagsOK, Exists, At, JobOf, Seen, Carries
  <2> QED  BY <1>2, <2>1, <2>2, <2>3, <2>4, <2>5 DEF DeliveryInv
<1>4. CASE event' # event
  <2> DEFINE next == event.revision + 1
             copy == page.copy
  <2>1. /\ Exists /\ Room /\ event \in Event /\ event.revision \in Nat
        /\ event' = [event EXCEPT !.revision = @ + 1, !.content = copy.content,
                                  !.cancelled = FALSE, !.etag = copy.etag, !.status = "SYNCED"]
    BY <1>4, RowFacts DEF ApplyPage, DeliveryInv
  <2>2. next \in Revisions /\ next > event.revision
    BY <2>1, CalendarAssumption DEF Room, Revisions
  <2>3. event' = [event EXCEPT !.revision = next, !.content = copy.content,
                              !.cancelled = FALSE, !.etag = copy.etag, !.status = "SYNCED"]
    BY <2>1 DEF Event
  <2> HIDE DEF next, copy
  <2>4. copy \in Copy /\ copy.etag <= writes /\ Carries(copy.etag, copy.content)
    BY <1>1 DEF copy
  <2>5. event' \in Event
    <3>1. copy.content \in Contents /\ copy.etag \in Etags
      BY <2>4 DEF Copy
    <3> QED  BY <2>1, <2>2, <2>3, <3>1 DEF Event
  <2>6. /\ event'.revision = next /\ event'.content = copy.content /\ event'.etag = copy.etag
        /\ Exists'
    BY <2>1, <2>3, <2>5, NothingAssumption DEF Event, Exists
  <2>7. TypeOK'
    BY <1>1, <2>5 DEF DeliveryInv, TypeOK
  <2>8. Onward
    BY <2>1, <2>2, <2>5, <2>6, CalendarAssumption DEF Onward, Revisions
  <2>9. \A v \in Workers : DrainOK(v)'
    BY <1>1, <2>8, DrainFrame DEF DeliveryInv, JobKept
  <2>10. JobsOK'
    <3>1. jobs[next] = NoJob /\ \A j \in Revisions : j > next => jobs[j] = NoJob
      BY <2>1, <2>2, CalendarAssumption DEF DeliveryInv, JobsOK, Revisions
    <3> QED  BY <1>1, <2>6, <3>1, NothingAssumption DEF JobsOK
  <2>11. EtagsKnown'
    BY <1>1, <2>4, <2>6 DEF DeliveryInv, EtagsKnown
  <2>12. EtagsOK'
    BY <1>1, <2>1, <2>4, <2>6 DEF DeliveryInv, EtagsOK, At, JobOf, Seen, Carries
  <2> QED  BY <1>2, <2>7, <2>9, <2>10, <2>11, <2>12 DEF DeliveryInv
<1> QED  BY <1>3, <1>4

-----------------------------------------------------------------------------
(* Calls to Google *)

\* What a worker that calls Google holds, and where it calls.
LEMMA CallerFacts ==
    ASSUME DeliveryInv, NEW w \in Workers, worker[w].step \in Calls
    PROVE  /\ worker[w] \in Drain /\ worker[w].step # "idle"
           /\ worker[w].etag \in Etags \union {NoEtag} /\ worker[w].etag <= writes
           /\ Seen(w).calendar \in Calendars /\ Seen(w).content \in Contents
           /\ worker[w].step \in Moving => JobOf(w).previous \in Calendars
           /\ worker[w].step = "delete" => JobOf(w).operation = "DELETE_EVENT"
BY RowFacts DEF DeliveryInv, EtagsKnown, DrainOK, Sending, Calls, Drain, Payload, Seen

LEMMA MoveKeeps ==
    ASSUME DeliveryInv, NEW w \in Workers, worker[w].step \in Moving,
           NEW absent \in {"insert", "get"}, Move(w, absent)
    PROVE  DeliveryInv'
<1>1. /\ worker[w].step \in Calls /\ Seen(w).calendar \in Calendars
      /\ JobOf(w).previous \in Calendars
  BY CallerFacts DEF Moving, Calls
<1>2. CASE Source(w) = NoCopy /\ Answered(w, absent, worker[w].etag)
  BY <1>1, <1>2, CallerFacts, AnsweredKeeps
<1>3. CASE Source(w) # NoCopy /\ Target(w) = NoCopy
  <2> DEFINE moved == Fresh(Source(w).content)
             copies == [google EXCEPT ![JobOf(w).previous] = NoCopy, ![Seen(w).calendar] = moved]
  <2>1. Applies(w, copies, "patch")
    BY <1>3 DEF Move, Answered
  <2>2. moved \in Copy /\ moved.etag = writes + 1
    <3>1. writes + 1 \in Etags
      BY <2>1, RowFacts, CalendarAssumption DEF Applies, DeliveryInv, Etags
    <3>2. Source(w) \in Copy
      BY <1>1, <1>3, RowFacts DEF DeliveryInv, Source
    <3> QED  BY <3>1, <3>2 DEF Fresh, Copy
  <2> HIDE DEF moved
  <2>3. copies \in [Calendars -> Copy \union {NoCopy}]
    BY <1>1, <2>2 DEF DeliveryInv, TypeOK
  <2>4. /\ copies[Seen(w).calendar] = moved
        /\ \A c \in Calendars \ {Seen(w).calendar} : copies[c] # NoCopy => copies[c] = google[c]
    BY <1>1 DEF DeliveryInv, TypeOK
  <2> HIDE DEF copies
  <2> QED  BY <1>1, <2>1, <2>2, <2>3, <2>4, AppliesKeeps
<1>4. CASE Refused(w)
  BY <1>1, <1>4, CallerFacts, DiesKeeps DEF Refused
<1> QED  BY <1>2, <1>3, <1>4 DEF Move

\* Google takes the contents that the worker read, or deletes the copy.
LEMMA WriteKeeps ==
    ASSUME DeliveryInv, NEW w \in Workers, worker[w].step \in Calls,
           NEW copy, copy = NoCopy \/ copy = Fresh(Seen(w).content),
           Applies(w, [google EXCEPT ![Seen(w).calendar] = copy], "stamp")
    PROVE  DeliveryInv'
<1> DEFINE copies == [google EXCEPT ![Seen(w).calendar] = copy]
<1>1. Seen(w).calendar \in Calendars /\ Seen(w).content \in Contents
  BY CallerFacts
<1>2. writes + 1 \in Etags
  BY RowFacts, CalendarAssumption DEF Applies, DeliveryInv, Etags
<1>3. /\ copy \in Copy \union {NoCopy}
      /\ copy # NoCopy => copy.etag = writes + 1 /\ copy.content = Seen(w).content
  BY <1>1, <1>2 DEF Fresh, Copy
<1>4. copies \in [Calendars -> Copy \union {NoCopy}]
  BY <1>1, <1>3 DEF DeliveryInv, TypeOK
<1>5. /\ copies[Seen(w).calendar] = copy
      /\ \A c \in Calendars \ {Seen(w).calendar} : copies[c] # NoCopy => copies[c] = google[c]
  BY <1>1 DEF DeliveryInv, TypeOK
<1>6. Applies(w, copies, "stamp")
  OBVIOUS
<1> HIDE DEF copies
<1> QED  BY <1>1, <1>3, <1>4, <1>5, <1>6, AppliesKeeps

LEMMA GoogleCallKeeps ==
    ASSUME DeliveryInv, NEW w \in Workers, GoogleCall(w) PROVE DeliveryInv'
<1>1. CASE MoveUnconfirmed(w)
  BY <1>1, MoveKeeps DEF MoveUnconfirmed, At, Moving
<1>2. CASE MoveConfirmed(w)
  BY <1>2, MoveKeeps DEF MoveConfirmed, At, Moving
<1>3. CASE Insert(w)
  <2>1. worker[w].step \in Calls
    BY <1>3 DEF Insert, At, Calls
  <2>2. CASE Answered(w, "get", worker[w].etag)
    BY <2>1, <2>2, CallerFacts, AnsweredKeeps
  <2> QED  BY <1>3, <2>1, <2>2, WriteKeeps DEF Insert
<1>4. CASE Get(w)
  <2>1. worker[w].step \in Calls
    BY <1>4 DEF Get, At, Calls
  <2>2. CASE Refused(w)
    BY <2>1, <2>2, CallerFacts, DiesKeeps DEF Refused
  <2>3. CASE Target(w) # NoCopy /\ (\/ Answered(w, "patch", Target(w).etag)
                                   \/ Answered(w, "overwrite", Target(w).etag))
    <3>1. Target(w) \in Copy /\ Target(w).etag <= writes
      BY <2>1, <2>3, CallerFacts, RowFacts DEF DeliveryInv, EtagsKnown, Target
    <3>2. Target(w).etag \in Etags \union {NoEtag}
      BY <3>1 DEF Copy
    <3> QED  BY <2>1, <2>3, <3>1, <3>2, AnsweredKeeps
  <2> QED  BY <1>4, <2>2, <2>3 DEF Get
<1>5. CASE Patch(w)
  <2>1. worker[w].step \in Calls
    BY <1>5 DEF Patch, Calls
  <2>2. CASE Refused(w)
    BY <2>1, <2>2, CallerFacts, DiesKeeps DEF Refused
  <2>3. CASE Dies(w, FALSE) /\ UNCHANGED <<event, jobs, google, writes, page>>
    BY <2>1, <2>3, CallerFacts, DiesKeeps
  <2>4. CASE Answered(w, "refetch", worker[w].etag)
    BY <2>1, <2>4, CallerFacts, AnsweredKeeps
  <2> QED  BY <1>5, <2>1, <2>2, <2>3, <2>4, WriteKeeps DEF Patch
<1>6. CASE Delete(w)
  <2>1. worker[w].step \in Calls /\ worker[w].step = "delete"
    BY <1>6 DEF Delete, At, Calls
  <2>2. CASE Answered(w, "stamp", worker[w].etag)
    BY <2>1, <2>2, CallerFacts, AnsweredKeeps
  <2> QED  BY <1>6, <2>1, <2>2, WriteKeeps DEF Delete
<1> QED  BY <1>1, <1>2, <1>3, <1>4, <1>5, <1>6 DEF GoogleCall

-----------------------------------------------------------------------------
(* Theorems *)

LEMMA DeliveryNext == DeliveryInv /\ [Next]_vars => DeliveryInv'
<1> SUFFICES ASSUME DeliveryInv, [Next]_vars PROVE DeliveryInv'
  OBVIOUS
<1>1. CASE LocalNext
  BY <1>1, CreateKeeps, UpdateKeeps, CancelKeeps, RetryKeeps DEF LocalNext
<1>2. ASSUME NEW w \in Workers, WorkerNext(w) PROVE DeliveryInv'
  <2>1. CASE Fails(w)
    BY <2>1, DiesKeeps DEF Fails
  <2> QED
    BY <1>2, <2>1, ClaimKeeps, ReadKeeps, ReserveKeeps, GoogleCallKeeps, StampKeeps, EndKeeps
       DEF WorkerNext
<1>3. CASE InboundNext
  BY <1>3, EditOutsideKeeps, ListKeeps, ApplyKeeps DEF InboundNext
<1>4. CASE UNCHANGED vars
  BY <1>4 DEF vars, DeliveryInv, TypeOK, DrainOK, JobsOK, EtagsKnown, EtagsOK, CopiesAgree,
              Exists, Seen, JobOf, At, Carries
<1> QED  BY <1>1, <1>2, <1>3, <1>4 DEF Next

\* What the drains and the outbox rely on holds in every state: a worker sends the contents of
\* a revision no newer than the event's, and no ETag stands for two contents.
THEOREM DeliveryInvariant == Spec => []DeliveryInv
<1>1. DeliveryInv /\ [Next]_vars => DeliveryInv'
  BY DeliveryNext
<1> QED  BY DeliveryInit, <1>1, PTL DEF Spec

\* Every variable keeps its type: no job's attempts pass their limit, no ETag its bound.
THEOREM CalendarTyped == Spec => []TypeOK
<1>1. DeliveryInv => TypeOK
  BY DEF DeliveryInv
<1> QED  BY DeliveryInvariant, <1>1, PTL

\* A live event called SYNCED has the contents of the copy whose ETag it holds, whatever edits,
\* lost answers, expired leases and inbound pages came before: skipping a known ETag is safe.
THEOREM SyncedIsGoogles == Spec => []SyncedMatchesGoogle
<1>1. DeliveryInv => SyncedMatchesGoogle
  BY DEF DeliveryInv, EtagsOK, Carries, SyncedMatchesGoogle
<1> QED  BY DeliveryInvariant, <1>1, PTL


-----------------------------------------------------------------------------
(* One drain at a time *)

\* The hypothesis: no two drains are at work together.  (A drain may still be
\* killed anywhere, and its job claimed again.)
OneDrain == \A v, w \in Workers : v # w => At(v, "idle") \/ At(w, "idle")

\* Steps that lead to a copy at Google.
Upserts == (Calls \ {"delete"}) \union {"reserve"}

\* The latest revision is sent as it is, and only deletions delete.
SendsLatest(w) ==
    /\ worker[w].step \in Sending /\ worker[w].job = event.revision => Seen(w) = PayloadOf(event)
    /\ worker[w].step \in Upserts => JobOf(w).operation # "DELETE_EVENT"

\* A drain holds the lease of its job until it settles it, and what it settled
\* as failed is not closed when it blames the event.
LeaseKept(w) ==
    /\ worker[w].step \notin {"idle", "blame"} => Leased(w)
    /\ At(w, "blame") => JobOf(w).status \in {"PENDING", "DEAD_LETTER"}
    /\ At(w, "close") /\ worker[w].job = event.revision =>
          event.status # "ERROR" \/ ~event.linked

\* The revision of an event in error has a job; it was closed without a call
\* only because Google had never heard of the event, nor is about to.
ErrorOpen ==
    Exists /\ event.status = "ERROR" =>
        /\ jobs[event.revision] \in Job
        /\ jobs[event.revision].status = "SUCCEEDED" =>
              ~event.linked /\ \A w \in Workers : ~At(w, "reserve")

RetryInv == DeliveryInv /\ (\A w \in Workers : LeaseKept(w)) /\ ErrorOpen

\* A cancelled event has a deletion queued for its revision.
CancelQueued ==
    Exists /\ event.cancelled =>
        jobs[event.revision] \in Job /\ jobs[event.revision].operation = "DELETE_EVENT"

\* The answer to the deletion of the latest revision finds no copy, and once it
\* is written back nobody is about to make one.
DeletionDone ==
    /\ \A w \in Workers :
          At(w, "stamp") /\ worker[w].job = event.revision
          /\ JobOf(w).operation = "DELETE_EVENT" => google[event.calendar] = NoCopy
    /\ Exists /\ event.cancelled /\ event.status = "SYNCED" =>
          /\ google[event.calendar] = NoCopy
          /\ \A w \in Workers : worker[w].step \notin Upserts

GoneInv ==
    /\ DeliveryInv
    /\ \A w \in Workers : SendsLatest(w)
    /\ CancelQueued /\ DeletionDone

\* An edit found the event in this calendar.
Left(c) == \E j \in Revisions : jobs[j] \in Job /\ jobs[j].previous = c

Whereabouts == {c \in Calendars : c = event.calendar \/ Left(c)}

\* No copy stayed behind.
MovedClean == \A c \in Calendars \ {event.calendar} : Left(c) => google[c] = NoCopy

\* What the outbox knows of the event's calendars.
JobsPlaced ==
    /\ \A j \in Revisions : jobs[j] \in Job =>
          /\ jobs[j].operation = "UPDATE_EVENT" => event.linked
          /\ jobs[j].operation # "DELETE_EVENT" => (jobs[j].previous = NoCalendar <=> j = 1)

\* Copies, pages and drains are where the event is or was.
AllPlaced ==
    /\ \A c \in Calendars : google[c] # NoCopy => c \in Whereabouts
    /\ page # NoPage => page.calendar \in Whereabouts
    /\ \A w \in Workers : worker[w].step \in Sending => Seen(w).calendar \in Whereabouts

\* Google hears of the event after its id was written.
LinkedFirst ==
    /\ \A w \in Workers : worker[w].step \in Calls => event.linked
    /\ \A w \in Workers : At(w, "reserve") => ~event.linked
    /\ ~event.linked => \A c \in Calendars : google[c] = NoCopy

\* Nothing is sent to, read from or known of the new calendar while a copy may
\* be left in the old one.
NewIsClean ==
    /\ google[event.calendar] # NoCopy => MovedClean
    /\ page # NoPage /\ page.calendar = event.calendar => MovedClean
    /\ event.status = "SYNCED" /\ ~event.cancelled => MovedClean
    /\ \A w \in Workers :
          worker[w].step \in Sending \ Moving /\ JobOf(w).operation # "DELETE_EVENT"
          /\ Seen(w).calendar = event.calendar => MovedClean

\* While something is still sent to the old one, the new one is untouched.
OldIsLast ==
    \A w \in Workers :
        worker[w].step \in Sending /\ Seen(w).calendar # event.calendar =>
            /\ google[event.calendar] = NoCopy
            /\ page # NoPage => page.calendar # event.calendar
            /\ event.status # "SYNCED"

MoveInv ==
    /\ GoneInv
    /\ ~Exists => page = NoPage /\ \A c \in Calendars : google[c] = NoCopy
    /\ Exists => JobsPlaced /\ LinkedFirst
    /\ Exists /\ MovedLast => AllPlaced /\ NewIsClean /\ OldIsLast

-----------------------------------------------------------------------------
(* What a step of a drain does, field by field *)

Alone(w) == \A v \in Workers \ {w} : worker'[v] = worker[v]

\* Jobs are as they were queued.
JobsSteady == \A j \in Revisions : (jobs'[j] \in Job <=> jobs[j] \in Job) /\ JobKept(j)

\* The event is the revision it was.
EventSteady ==
    /\ event'.revision = event.revision /\ event'.calendar = event.calendar
    /\ event'.content = event.content /\ event'.cancelled = event.cancelled

SameJob(w) == worker'[w].job = worker[w].job
SameWork(w) == SameJob(w) /\ worker'[w].seen = worker[w].seen
Becomes(w, step) == worker'[w].step = step

\* Only the copy in one calendar may have changed.
OnlyIn(c) == \A d \in Calendars \ {c} : google'[d] = google[d]

Claimed(w) ==
    /\ At(w, "idle") /\ Becomes(w, "read")
    /\ UNCHANGED <<event, google>>
    /\ jobs[worker'[w].job] \in Job /\ jobs[worker'[w].job].status \in {"PENDING", "PROCESSING"}
    /\ jobs'[worker'[w].job].status = "PROCESSING" /\ jobs'[worker'[w].job].owner = WorkerId[w]
    /\ \A j \in Revisions \ {worker'[w].job} : jobs'[j] = jobs[j]

Passed(w) ==
    /\ At(w, "read") /\ Becomes(w, "close") /\ SameJob(w)
    /\ UNCHANGED <<event, jobs, google>>
    /\ event.revision # worker[w].job \/ ~event.linked

Took(w) ==
    /\ At(w, "read") /\ SameJob(w)
    /\ UNCHANGED <<event, jobs, google>>
    /\ event.revision = worker[w].job /\ worker'[w].seen = PayloadOf(event)
    /\ \/ Becomes(w, "delete") /\ JobOf(w).operation = "DELETE_EVENT" /\ event.linked
       \/ Becomes(w, "reserve") /\ JobOf(w).operation = "CREATE_EVENT" /\ ~event.linked
       \/ /\ JobOf(w).operation # "DELETE_EVENT"
          /\ JobOf(w).operation = "CREATE_EVENT" => event.linked
          /\ \/ worker'[w].step \in Moving /\ event.linked
             \/ worker'[w].step \in {"insert", "patch"} /\ ~Relocates(event, JobOf(w))

Reserved(w) ==
    /\ At(w, "reserve") /\ Becomes(w, "insert") /\ SameWork(w)
    /\ UNCHANGED <<jobs, google>>
    /\ event'.linked /\ event'.status = event.status

Stopped(w) ==
    /\ worker[w].step \notin {"idle", "fail", "blame"} /\ Becomes(w, "fail") /\ SameJob(w)
    /\ UNCHANGED <<event, jobs, google>>

Heard(w) ==
    /\ worker[w].step \in Calls /\ SameWork(w)
    /\ UNCHANGED <<event, jobs, google>>
    /\ worker'[w].step \in {"insert", "get", "patch", "refetch", "overwrite", "stamp"}
    /\ Becomes(w, "stamp") <=> At(w, "delete")
    /\ At(w, "delete") => Target(w) = NoCopy
    /\ worker[w].step \in Moving => Source(w) = NoCopy

Wrote(w) ==
    /\ worker[w].step \in Calls /\ SameJob(w)
    /\ UNCHANGED <<event, jobs>>
    /\ \/ Becomes(w, "fail")
       \/ SameWork(w) /\ Becomes(w, IF worker[w].step \in Moving THEN "patch" ELSE "stamp")
    /\ \/ worker[w].step \in Upserts \ Moving /\ OnlyIn(Seen(w).calendar)
       \/ At(w, "delete") /\ OnlyIn(Seen(w).calendar) /\ google'[Seen(w).calendar] = NoCopy
       \/ /\ worker[w].step \in Moving
          /\ \A c \in Calendars : google'[c] = IF c = Seen(w).calendar THEN google'[c]
                                               ELSE IF c = JobOf(w).previous THEN NoCopy
                                               ELSE google[c]

Stamped(w) ==
    /\ At(w, "stamp") /\ Becomes(w, "close") /\ SameJob(w)
    /\ UNCHANGED <<jobs, google>>
    /\ \/ event.revision # worker[w].job /\ event' = event
       \/ event.revision = worker[w].job /\ event'.status = "SYNCED"
    /\ event.linked => event'.linked
    /\ event'.linked => event.linked \/ event'.status = "SYNCED"

Closed(w, status) ==
    /\ SameJob(w) \/ Becomes(w, "idle")
    /\ UNCHANGED <<event, google>>
    /\ Leased(w) => jobs'[worker[w].job].status = status
    /\ \A j \in Revisions \ {worker[w].job} : jobs'[j] = jobs[j]

Blamed(w) ==
    /\ At(w, "blame") /\ Becomes(w, "idle")
    /\ UNCHANGED <<jobs, google>>
    /\ \/ event.revision # worker[w].job /\ event' = event
       \/ event.revision = worker[w].job /\ event'.status = "ERROR"
    /\ event'.linked = event.linked

Killed(w) == worker[w].step # "idle" /\ Becomes(w, "idle") /\ UNCHANGED <<event, jobs, google>>

DrainStep(w) ==
    \/ Claimed(w) \/ Passed(w) \/ Took(w) \/ Reserved(w) \/ Stopped(w) \/ Heard(w) \/ Wrote(w)
    \/ Stamped(w)
    \/ At(w, "close") /\ Becomes(w, "idle") /\ Closed(w, "SUCCEEDED")
    \/ /\ At(w, "fail") /\ Becomes(w, "blame")
       /\ Closed(w, "PENDING") \/ Closed(w, "DEAD_LETTER")
    \/ Blamed(w) \/ Killed(w)

Framed(w) == Exists /\ Exists' /\ Alone(w) /\ JobsSteady /\ EventSteady /\ page' = page

LEMMA EndsDoes ==
    ASSUME DeliveryInv, NEW w \in Workers, NEW step, NEW dead, Ends(w, step, dead)
    PROVE  Becomes(w, step) /\ SameJob(w) /\ Alone(w)
<1>1. worker[w] \in Drain
  BY RowFacts DEF DeliveryInv
<1> DEFINE d == [worker[w] EXCEPT !.step = step, !.dead = dead, !.seen = NoEvent, !.etag = NoEtag]
<1>2. d.step = step /\ d.job = worker[w].job
  BY <1>1 DEF Drain
<1>3. worker' = [worker EXCEPT ![w] = d]
  BY DEF Ends
<1> HIDE DEF d
<1> QED  BY <1>2, <1>3 DEF Becomes, SameJob, Alone, DeliveryInv, TypeOK

LEMMA DiesDoes ==
    ASSUME DeliveryInv, NEW w \in Workers, NEW dead, Dies(w, dead)
    PROVE  Becomes(w, "fail") /\ SameJob(w) /\ Alone(w)
BY EndsDoes DEF Dies

LEMMA Unmoved ==
    ASSUME DeliveryInv, UNCHANGED <<event, jobs>>
    PROVE  JobsSteady /\ EventSteady /\ (Exists => Exists')
BY DEF JobsSteady, EventSteady, JobKept, Exists

LEMMA BusyFacts ==
    ASSUME DeliveryInv, NEW w \in Workers, worker[w].step # "idle"
    PROVE  /\ Exists /\ event \in Event /\ jobs[worker[w].job] \in Job
           /\ worker[w] \in Drain /\ worker[w].job \in Revisions
           /\ worker[w].step \in Sending => Seen(w) \in Payload
BY RowFacts DEF DeliveryInv, DrainOK, Drain

LEMMA ClaimDoes ==
    ASSUME DeliveryInv, NEW w \in Workers, NEW j \in Revisions, Claim(w, j)
    PROVE  Claimed(w) /\ Framed(w)
<1> DEFINE attempts == IF jobs[j].attempts < MaxAttempts THEN jobs[j].attempts + 1 ELSE MaxAttempts
           claimed == [jobs[j] EXCEPT !.status = "PROCESSING", !.owner = WorkerId[w],
                                      !.attempts = attempts]
           d == [IdleWorker EXCEPT !.step = "read", !.job = j, !.attempts = attempts]
<1>1. jobs[j] \in Job /\ Exists
  BY RowFacts DEF DeliveryInv, Claim, JobsOK
<1>2. attempts \in 0..MaxAttempts /\ WorkerId[w] \in WorkerIds
  BY <1>1, CalendarAssumption DEF Job
<1>3. worker' = [worker EXCEPT ![w] = d] /\ jobs' = [jobs EXCEPT ![j] = claimed]
      /\ UNCHANGED <<event, google, writes, page>>
  BY DEF Claim
<1> HIDE DEF attempts
<1>4. claimed \in Job /\ claimed.operation = jobs[j].operation /\ claimed.previous = jobs[j].previous
  BY <1>1, <1>2, JobClaimed
<1>5. claimed.status = "PROCESSING" /\ claimed.owner = WorkerId[w]
  BY <1>1 DEF Job
<1>6. d.step = "read" /\ d.job = j
  BY DEF IdleWorker
<1> HIDE DEF claimed, d
<1>7. worker'[w] = d /\ jobs'[j] = claimed /\ \A i \in Revisions \ {j} : jobs'[i] = jobs[i]
  BY <1>3 DEF DeliveryInv, TypeOK
<1>8. Claimed(w)
  BY <1>1, <1>3, <1>5, <1>6, <1>7 DEF Claimed, Claim, Becomes
<1>9. Framed(w)
  BY <1>1, <1>3, <1>4, <1>7
     DEF Framed, Alone, JobsSteady, JobKept, EventSteady, Exists, DeliveryInv, TypeOK
<1> QED  BY <1>8, <1>9

LEMMA ReadDoes ==
    ASSUME DeliveryInv, NEW w \in Workers, ReadEvent(w)
    PROVE  (Passed(w) \/ Took(w)) /\ Framed(w)
<1> DEFINE step == IF Superseded(event, worker[w].job) THEN "close"
                   ELSE IF JobOf(w).operation = "CREATE_EVENT" /\ ~event.linked
                   THEN "reserve" ELSE FirstCall(event, JobOf(w))
           payload == PayloadOf(event)
           d == [worker[w] EXCEPT !.seen = payload, !.etag = event.etag, !.step = step]
<1>1. /\ Exists /\ event \in Event /\ jobs[worker[w].job] \in Job
      /\ worker[w] \in Drain
  BY BusyFacts DEF ReadEvent, At
<1>2. /\ IF step = "close" THEN Ends(w, step, FALSE) ELSE worker' = [worker EXCEPT ![w] = d]
      /\ UNCHANGED <<event, jobs, google, writes, page>>
  BY DEF ReadEvent
<1>3. JobsSteady /\ EventSteady /\ Exists'
  BY <1>1, <1>2, Unmoved
<1>4. /\ step = "close" => event.revision # worker[w].job \/ ~event.linked
      /\ step # "close" =>
            /\ event.revision = worker[w].job
            /\ \/ step = "delete" /\ JobOf(w).operation = "DELETE_EVENT" /\ event.linked
               \/ step = "reserve" /\ JobOf(w).operation = "CREATE_EVENT" /\ ~event.linked
               \/ /\ JobOf(w).operation # "DELETE_EVENT"
                  /\ JobOf(w).operation = "CREATE_EVENT" => event.linked
                  /\ \/ step \in Moving /\ event.linked
                     \/ step \in {"insert", "patch"} /\ ~Relocates(event, JobOf(w))
  BY <1>1 DEF FirstCall, Relocates, Superseded, Moving
<1> HIDE DEF step
<1>5. CASE step = "close"
  BY <1>1, <1>2, <1>3, <1>4, <1>5, EndsDoes DEF Passed, ReadEvent, Framed
<1>6. CASE step # "close"
  <2>1. d.step = step /\ d.job = worker[w].job /\ d.seen = payload
    BY <1>1 DEF Drain
  <2> HIDE DEF d
  <2>2. worker'[w] = d /\ worker' = [worker EXCEPT ![w] = d]
    BY <1>2, <1>6 DEF DeliveryInv, TypeOK
  <2>3. Alone(w)
    BY <2>2 DEF Alone, DeliveryInv, TypeOK
  <2>4. Took(w)
    BY <1>1, <1>2, <1>4, <1>6, <2>1, <2>2 DEF Took, ReadEvent, SameJob, Becomes
  <2> QED  BY <1>1, <1>2, <1>3, <2>3, <2>4 DEF Framed
<1> QED  BY <1>5, <1>6

LEMMA ReserveDoes ==
    ASSUME DeliveryInv, NEW w \in Workers, Reserve(w)
    PROVE  Reserved(w) /\ Framed(w)
<1> DEFINE d == [worker[w] EXCEPT !.step = "insert"]
<1>1. Exists /\ event \in Event /\ worker[w] \in Drain
  BY BusyFacts DEF Reserve, At
<1>2. /\ worker' = [worker EXCEPT ![w] = d] /\ UNCHANGED <<jobs, google, writes, page>>
      /\ event' = [event EXCEPT !.linked = TRUE]
  BY DEF Reserve, Goes, DeliveryInv, TypeOK
<1>3. d.step = "insert" /\ d.job = worker[w].job /\ d.seen = worker[w].seen
  BY <1>1 DEF Drain
<1> HIDE DEF d
<1>4. worker'[w] = d /\ Alone(w)
  BY <1>2 DEF DeliveryInv, TypeOK, Alone
<1>5. event' \in Event /\ EventSteady /\ event'.linked /\ event'.status = event.status
  <2>1. event' \in Event
    BY <1>1, <1>2, EventFields
  <2> QED  BY <1>1, <1>2, <2>1 DEF Event, EventSteady
<1>6. Exists' /\ JobsSteady
  BY <1>2, <1>5, NothingAssumption DEF Exists, JobsSteady, JobKept
<1>7. Reserved(w)
  BY <1>2, <1>3, <1>4, <1>5 DEF Reserved, Reserve, Becomes, SameWork, SameJob
<1> QED  BY <1>1, <1>2, <1>4, <1>5, <1>6, <1>7 DEF Framed

LEMMA AnsweredDoes ==
    ASSUME DeliveryInv, NEW w \in Workers, worker[w].step # "idle", NEW step, NEW etag,
           Answered(w, step, etag)
    PROVE  /\ Becomes(w, step) /\ SameWork(w) /\ UNCHANGED <<event, jobs, google>>
           /\ Framed(w)
<1> DEFINE d == [worker[w] EXCEPT !.step = step, !.etag = etag]
<1>1. worker[w] \in Drain /\ Exists
  BY BusyFacts
<1>2. worker' = [worker EXCEPT ![w] = d] /\ UNCHANGED <<event, jobs, google, writes, page>>
  BY DEF Answered, DeliveryInv, TypeOK
<1>3. d.step = step /\ d.job = worker[w].job /\ d.seen = worker[w].seen
  BY <1>1 DEF Drain
<1> HIDE DEF d
<1>4. worker'[w] = d /\ Alone(w)
  BY <1>2 DEF DeliveryInv, TypeOK, Alone
<1> QED
  BY <1>1, <1>2, <1>3, <1>4, Unmoved DEF Framed, Becomes, SameWork, SameJob

LEMMA AppliesDoes ==
    ASSUME DeliveryInv, NEW w \in Workers, worker[w].step # "idle", NEW copies, NEW step,
           Applies(w, copies, step)
    PROVE  /\ Becomes(w, "fail") \/ (SameWork(w) /\ Becomes(w, step))
           /\ SameJob(w) /\ UNCHANGED <<event, jobs>> /\ google' = copies
           /\ Framed(w)
<1> DEFINE d == [worker[w] EXCEPT !.step = step, !.etag = writes + 1]
<1>1. worker[w] \in Drain /\ Exists
  BY BusyFacts
<1>2. UNCHANGED <<event, jobs, page>> /\ google' = copies
  BY DEF Applies
<1>3. CASE worker' = [worker EXCEPT ![w] = d]
  <2>1. d.step = step /\ d.job = worker[w].job /\ d.seen = worker[w].seen
    BY <1>1 DEF Drain
  <2> HIDE DEF d
  <2>2. worker'[w] = d /\ Alone(w)
    BY <1>3 DEF DeliveryInv, TypeOK, Alone
  <2> QED
    BY <1>1, <1>2, <2>1, <2>2, Unmoved DEF Framed, Becomes, SameWork, SameJob
<1>4. CASE Dies(w, FALSE)
  BY <1>1, <1>2, <1>4, DiesDoes, Unmoved DEF Framed
<1>5. worker' = [worker EXCEPT ![w] = d] \/ Dies(w, FALSE)
  BY DEF Applies, DeliveryInv, TypeOK
<1> QED  BY <1>3, <1>4, <1>5

LEMMA StoppedDoes ==
    ASSUME DeliveryInv, NEW w \in Workers, NEW dead, worker[w].step \notin {"idle", "fail", "blame"},
           Dies(w, dead), UNCHANGED <<event, jobs, google, writes, page>>
    PROVE  Stopped(w) /\ Framed(w)
BY BusyFacts, DiesDoes, Unmoved DEF Stopped, Framed

LEMMA MoveDoes ==
    ASSUME DeliveryInv, NEW w \in Workers, worker[w].step \in Moving,
           NEW absent \in {"insert", "get"}, Move(w, absent)
    PROVE  (Stopped(w) \/ Heard(w) \/ Wrote(w)) /\ Framed(w)
<1>1. /\ worker[w].step \in Calls /\ worker[w].step # "idle" /\ ~At(w, "delete")
      /\ worker[w].step \notin {"fail", "blame"}
      /\ Seen(w).calendar \in Calendars /\ JobOf(w).previous \in Calendars
  BY CallerFacts DEF Moving, Calls, At
<1>2. CASE Source(w) = NoCopy /\ Answered(w, absent, worker[w].etag)
  BY <1>1, <1>2, AnsweredDoes DEF Heard, Becomes
<1>3. CASE Source(w) # NoCopy /\ Target(w) = NoCopy
  <2> DEFINE moved == Fresh(Source(w).content)
             copies == [google EXCEPT ![JobOf(w).previous] = NoCopy, ![Seen(w).calendar] = moved]
  <2>1. Applies(w, copies, "patch")
    BY <1>3 DEF Move, Answered
  <2> HIDE DEF moved
  <2>2. \A c \in Calendars : copies[c] = IF c = Seen(w).calendar THEN copies[c]
                                         ELSE IF c = JobOf(w).previous THEN NoCopy
                                         ELSE google[c]
    BY <1>1 DEF DeliveryInv, TypeOK
  <2> HIDE DEF copies
  <2> QED  BY <1>1, <2>1, <2>2, AppliesDoes DEF Wrote
<1>4. CASE Refused(w)
  BY <1>1, <1>4, StoppedDoes DEF Refused
<1> QED  BY <1>2, <1>3, <1>4 DEF Move

LEMMA WriteDoes ==
    ASSUME DeliveryInv, NEW w \in Workers, worker[w].step \in Calls \ Moving, NEW copy,
           At(w, "delete") => copy = NoCopy,
           Applies(w, [google EXCEPT ![Seen(w).calendar] = copy], "stamp")
    PROVE  Wrote(w) /\ Framed(w)
<1> DEFINE copies == [google EXCEPT ![Seen(w).calendar] = copy]
<1>1. Seen(w).calendar \in Calendars /\ worker[w].step # "idle"
  BY CallerFacts
<1>2. copies[Seen(w).calendar] = copy
      /\ \A c \in Calendars \ {Seen(w).calendar} : copies[c] = google[c]
  BY <1>1 DEF DeliveryInv, TypeOK
<1>3. Applies(w, copies, "stamp")
  OBVIOUS
<1> HIDE DEF copies
<1>4. /\ Becomes(w, "fail") \/ (SameWork(w) /\ Becomes(w, "stamp"))
      /\ SameJob(w) /\ UNCHANGED <<event, jobs>> /\ google' = copies
      /\ Framed(w)
  BY <1>1, <1>3, AppliesDoes
<1>5. OnlyIn(Seen(w).calendar)
  BY <1>2, <1>4 DEF OnlyIn
<1>6. At(w, "delete") => google'[Seen(w).calendar] = NoCopy
  BY <1>2, <1>4
<1> QED  BY <1>4, <1>5, <1>6 DEF Wrote, Upserts, At

LEMMA GoogleCallDoes ==
    ASSUME DeliveryInv, NEW w \in Workers, GoogleCall(w)
    PROVE  (Stopped(w) \/ Heard(w) \/ Wrote(w)) /\ Framed(w)
<1>0. /\ worker[w].step \in Calls => /\ worker[w].step # "idle"
                                     /\ worker[w].step \notin {"fail", "blame"}
      /\ \A step : At(w, step) /\ step \in Calls => worker[w].step \in Calls
  BY DEF Calls, At
<1>1. CASE MoveUnconfirmed(w)
  BY <1>1, MoveDoes DEF MoveUnconfirmed, At, Moving
<1>2. CASE MoveConfirmed(w)
  BY <1>2, MoveDoes DEF MoveConfirmed, At, Moving
<1>3. CASE Insert(w)
  <2>1. worker[w].step \in Calls \ Moving /\ ~At(w, "delete")
    BY <1>3 DEF Insert, At, Calls, Moving
  <2>2. CASE Answered(w, "get", worker[w].etag)
    BY <1>0, <2>1, <2>2, AnsweredDoes DEF Heard, Becomes
  <2> QED  BY <1>3, <2>1, <2>2, WriteDoes DEF Insert
<1>4. CASE Get(w)
  <2>1. worker[w].step \in Calls \ Moving /\ ~At(w, "delete")
    BY <1>4 DEF Get, At, Calls, Moving
  <2>2. CASE Refused(w)
    BY <1>0, <2>1, <2>2, StoppedDoes DEF Refused
  <2>3. CASE \/ Answered(w, "patch", Target(w).etag)
             \/ Answered(w, "overwrite", Target(w).etag)
    BY <1>0, <2>1, <2>3, AnsweredDoes DEF Heard, Becomes
  <2> QED  BY <1>4, <2>2, <2>3 DEF Get
<1>5. CASE Patch(w)
  <2>1. worker[w].step \in Calls \ Moving /\ ~At(w, "delete")
    BY <1>5 DEF Patch, At, Calls, Moving
  <2>2. CASE Refused(w)
    BY <1>0, <2>1, <2>2, StoppedDoes DEF Refused
  <2>3. CASE Dies(w, FALSE) /\ UNCHANGED <<event, jobs, google, writes, page>>
    BY <1>0, <2>1, <2>3, StoppedDoes
  <2>4. CASE Answered(w, "refetch", worker[w].etag)
    BY <1>0, <2>1, <2>4, AnsweredDoes DEF Heard, Becomes
  <2> QED  BY <1>5, <2>1, <2>2, <2>3, <2>4, WriteDoes DEF Patch
<1>6. CASE Delete(w)
  <2>1. worker[w].step \in Calls \ Moving /\ At(w, "delete")
    BY <1>6 DEF Delete, At, Calls, Moving
  <2>2. CASE Target(w) = NoCopy /\ Answered(w, "stamp", worker[w].etag)
    BY <1>0, <2>1, <2>2, AnsweredDoes DEF Heard, Becomes
  <2> QED  BY <1>6, <2>1, <2>2, WriteDoes DEF Delete
<1> QED  BY <1>1, <1>2, <1>3, <1>4, <1>5, <1>6 DEF GoogleCall

LEMMA StampDoes ==
    ASSUME DeliveryInv, NEW w \in Workers, Stamp(w)
    PROVE  Stamped(w) /\ Framed(w)
<1>1. /\ Exists /\ event \in Event /\ worker[w] \in Drain
      /\ Becomes(w, "close") /\ SameJob(w) /\ Alone(w)
      /\ UNCHANGED <<jobs, google, page>>
  BY BusyFacts, EndsDoes DEF Stamp, At
<1>2. \/ event.revision # worker[w].job /\ event' = event
      \/ event.revision = worker[w].job /\ event' = [event EXCEPT !.status = "SYNCED"]
      \/ event.revision = worker[w].job
         /\ event' = [event EXCEPT !.status = "SYNCED", !.linked = TRUE, !.etag = worker[w].etag]
  BY DEF Stamp, Stampable
<1>3. event' \in Event
  <2>1. worker[w].etag \in Etags \union {NoEtag}
    BY <1>1 DEF Drain
  <2> QED  BY <1>1, <1>2, <2>1 DEF Event
<1>4. /\ EventSteady /\ Exists'
      /\ event.linked => event'.linked
  BY <1>1, <1>2, <1>3, NothingAssumption, ZenonT(60) DEF Event, EventSteady, Exists
<1>6. /\ \/ event.revision # worker[w].job /\ event' = event
         \/ event.revision = worker[w].job /\ event'.status = "SYNCED"
      /\ event'.linked => event.linked \/ event'.status = "SYNCED"
  BY <1>1, <1>2 DEF Event
<1>5. JobsSteady
  BY <1>1 DEF JobsSteady, JobKept
<1> QED  BY <1>1, <1>4, <1>5, <1>6 DEF Stamped, Framed, Stamp

LEMMA SettledDoes ==
    ASSUME DeliveryInv, NEW w \in Workers, worker[w].step # "idle",
           NEW s \in {"PENDING", "SUCCEEDED", "DEAD_LETTER"}, jobs' = Settled(w, s)
    PROVE  /\ JobsSteady
           /\ Leased(w) => jobs'[worker[w].job].status = s
           /\ \A j \in Revisions \ {worker[w].job} : jobs'[j] = jobs[j]
<1>1. jobs[worker[w].job] \in Job /\ worker[w].job \in Revisions
  BY BusyFacts
<1>2. \A j \in Revisions : JobKept(j) /\ (jobs[j] = NoJob => jobs'[j] = NoJob)
  BY <1>1, SettledKeepsJobs DEF DeliveryInv
<1>3. JobsSteady
  BY <1>2, RowFacts, NothingAssumption DEF DeliveryInv, JobsSteady, JobKept
<1>4. CASE ~Leased(w)
  BY <1>3, <1>4 DEF Settled
<1>5. CASE Leased(w)
  <2>1. PICK a : jobs' = [jobs EXCEPT ![worker[w].job] =
                    [JobOf(w) EXCEPT !.status = s, !.owner = NoWorker, !.attempts = a]]
    BY <1>5 DEF Settled
  <2>2. [JobOf(w) EXCEPT !.status = s, !.owner = NoWorker, !.attempts = a].status = s
    BY <1>1 DEF Job, JobOf
  <2> QED  BY <1>1, <1>3, <2>1, <2>2 DEF DeliveryInv, TypeOK
<1> QED  BY <1>4, <1>5

LEMMA EndDoes ==
    ASSUME DeliveryInv, NEW w \in Workers,
           CloseJob(w) \/ FailJob(w) \/ BlameEvent(w) \/ Crash(w)
    PROVE  DrainStep(w) /\ Framed(w)
<1>0. worker[w].step # "idle"
  BY DEF CloseJob, FailJob, BlameEvent, Crash, At
<1>1. /\ Exists /\ event \in Event /\ worker[w] \in Drain /\ worker[w].step # "idle"
      /\ worker' = [worker EXCEPT ![w] = IdleWorker] => Becomes(w, "idle") /\ Alone(w)
  <2>1. worker' = [worker EXCEPT ![w] = IdleWorker] => Becomes(w, "idle") /\ Alone(w)
    BY DEF IdleWorker, Becomes, Alone, DeliveryInv, TypeOK
  <2> QED  BY <1>0, <2>1, BusyFacts
<1>2. CASE CloseJob(w)
  <2>1. Closed(w, "SUCCEEDED") /\ JobsSteady
    BY <1>1, <1>2, SettledDoes DEF CloseJob, Closed
  <2> QED
    BY <1>1, <1>2, <2>1 DEF CloseJob, DrainStep, Framed, EventSteady, Exists
<1>3. CASE FailJob(w)
  <2>1. Becomes(w, "blame") /\ SameJob(w) /\ Alone(w)
    BY <1>3, EndsDoes DEF FailJob
  <2>2. (Closed(w, "PENDING") \/ Closed(w, "DEAD_LETTER")) /\ JobsSteady
    BY <1>1, <1>3, <2>1, SettledDoes DEF FailJob, Closed
  <2> QED
    BY <1>1, <1>3, <2>1, <2>2 DEF FailJob, DrainStep, Framed, EventSteady, Exists
<1>4. CASE BlameEvent(w)
  <2>1. event' = event \/ event' = [event EXCEPT !.status = "ERROR"]
    BY <1>4 DEF BlameEvent
  <2>2. event' \in Event /\ EventSteady /\ event'.linked = event.linked /\ Exists'
    <3>1. event' \in Event
      BY <1>1, <2>1, EventFields
    <3> QED  BY <1>1, <2>1, <3>1, NothingAssumption DEF Event, EventSteady, Exists
  <2>3. \/ event.revision # worker[w].job /\ event' = event
        \/ event.revision = worker[w].job /\ event'.status = "ERROR"
    BY <1>1, <1>4 DEF BlameEvent, Blames, Event
  <2> QED
    BY <1>1, <1>4, <2>2, <2>3 DEF BlameEvent, Blamed, DrainStep, Framed, JobsSteady, JobKept
<1>5. CASE Crash(w)
  BY <1>1, <1>5, Unmoved DEF Crash, Killed, DrainStep, Framed, At
<1> QED  BY <1>2, <1>3, <1>4, <1>5

LEMMA WorkerDoes ==
    ASSUME DeliveryInv, NEW w \in Workers, WorkerNext(w)
    PROVE  DrainStep(w) /\ Framed(w)
<1>1. CASE Fails(w)
  BY <1>1, StoppedDoes DEF Fails, DrainStep
<1>2. CASE \E j \in Revisions : Claim(w, j)
  BY <1>2, ClaimDoes DEF DrainStep
<1>3. CASE ReadEvent(w) \/ Reserve(w) \/ Stamp(w)
  BY <1>3, ReadDoes, ReserveDoes, StampDoes DEF DrainStep
<1>4. CASE GoogleCall(w)
  BY <1>4, GoogleCallDoes DEF DrainStep
<1>5. CASE CloseJob(w) \/ FailJob(w) \/ BlameEvent(w) \/ Crash(w)
  BY <1>5, EndDoes
<1> QED  BY <1>1, <1>2, <1>3, <1>4, <1>5 DEF WorkerNext

-----------------------------------------------------------------------------
(* What the other steps do, field by field *)

\* A local edit: the next revision and its job.
Edited(operation, previous) ==
    /\ Exists' /\ UNCHANGED <<google, worker, page>>
    /\ event'.revision \in Revisions /\ jobs[event'.revision] = NoJob
    /\ jobs'[event'.revision] \in Job
    /\ jobs'[event'.revision].operation = operation
    /\ jobs'[event'.revision].previous = previous
    /\ jobs'[event'.revision].status = "PENDING"
    /\ \A j \in Revisions \ {event'.revision} : jobs'[j] = jobs[j]
    /\ event'.status = "PENDING"

Created ==
    /\ ~Exists /\ Edited("CREATE_EVENT", NoCalendar)
    /\ event'.revision = 1 /\ ~event'.cancelled /\ ~event'.linked

Updated ==
    /\ Exists /\ ~event.cancelled
    /\ Edited(IF event.linked THEN "UPDATE_EVENT" ELSE "CREATE_EVENT", event.calendar)
    /\ event'.revision = event.revision + 1
    /\ ~event'.cancelled /\ event'.linked = event.linked

Cancelled ==
    /\ Exists /\ ~event.cancelled /\ Edited("DELETE_EVENT", NoCalendar)
    /\ event'.revision = event.revision + 1
    /\ event'.linked = event.linked /\ event'.calendar = event.calendar

Retried ==
    /\ Exists /\ Exists' /\ JobsSteady /\ EventSteady /\ UNCHANGED <<google, worker, page>>
    /\ event'.status = "PENDING" /\ event'.linked = event.linked
    /\ \/ jobs' = jobs
       \/ /\ jobs[event.revision].status = "DEAD_LETTER"
          /\ jobs'[event.revision].status = "PENDING"
          /\ \A j \in Revisions \ {event.revision} : jobs'[j] = jobs[j]

\* The page is put away, or taken over as a new revision without a job.
Applied ==
    /\ page # NoPage /\ page' = NoPage /\ UNCHANGED <<jobs, google, worker>>
    /\ \/ event' = event
       \/ /\ Exists /\ Exists'
          /\ event.calendar = page.calendar /\ event.status = "SYNCED"
          /\ event'.revision = event.revision + 1 /\ event'.revision \in Revisions
          /\ ~event'.cancelled /\ event'.status = "SYNCED"
          /\ event'.linked = event.linked /\ event'.calendar = event.calendar

Listed ==
    /\ page = NoPage /\ page' # NoPage /\ google[page'.calendar] # NoCopy
    /\ page'.calendar \in Calendars
    /\ UNCHANGED <<event, jobs, google, worker>>

EditedOutside ==
    /\ UNCHANGED <<event, jobs, worker, page>>
    /\ \A c \in Calendars : google'[c] = NoCopy <=> google[c] = NoCopy

LEMMA CreateDoes ==
    ASSUME DeliveryInv, NEW c \in Calendars, CreateEvent(c)
    PROVE  Created
<1>1. /\ event' = [revision |-> 1, content |-> 1, calendar |-> c, cancelled |-> FALSE,
                   linked |-> FALSE, etag |-> NoEtag, status |-> "PENDING"]
      /\ 1 \in Revisions
  BY CalendarAssumption DEF CreateEvent, Revisions
<1>2. event' \in Event
  BY <1>1 DEF Event, Contents
<1>3. /\ Exists' /\ event'.revision = 1 /\ ~event'.cancelled /\ ~event'.linked
      /\ event'.status = "PENDING"
  BY <1>1, <1>2, NothingAssumption DEF Exists
<1> DEFINE queued == Queued("CREATE_EVENT", NoCalendar)
<1>4. /\ queued \in Job /\ queued.operation = "CREATE_EVENT" /\ queued.previous = NoCalendar
      /\ queued.status = "PENDING"
  BY CalendarAssumption DEF Queued, Job, Operations
<1> HIDE DEF queued
<1>5. jobs'[1] = queued /\ \A j \in Revisions \ {1} : jobs'[j] = jobs[j]
  BY <1>1 DEF CreateEvent, DeliveryInv, TypeOK, queued
<1> QED
  BY <1>1, <1>3, <1>4, <1>5 DEF Created, Edited, CreateEvent, DeliveryInv, JobsOK

LEMMA UpdateDoes ==
    ASSUME DeliveryInv, NEW c \in Calendars, UpdateEvent(c)
    PROVE  Updated /\ event'.calendar = c
<1> DEFINE next == event.revision + 1
           operation == IF event.linked THEN "UPDATE_EVENT" ELSE "CREATE_EVENT"
           queued == Queued(operation, event.calendar)
<1>1. event \in Event /\ event.revision \in Nat /\ event.revision < MaxRevision /\ Exists
  BY RowFacts DEF DeliveryInv, UpdateEvent, Room
<1>2. next \in Revisions /\ next > event.revision
  BY <1>1, CalendarAssumption DEF Revisions
<1>3. event' = [event EXCEPT !.revision = next, !.content = next,
                             !.calendar = c, !.status = "PENDING"]
      /\ jobs' = [jobs EXCEPT ![next] = queued] /\ UNCHANGED <<google, writes, worker, page>>
  BY DEF UpdateEvent
<1>4. /\ queued \in Job /\ queued.operation = operation /\ queued.previous = event.calendar
      /\ queued.status = "PENDING"
  <2>1. event.calendar \in Calendars
    BY <1>1 DEF Event
  <2> QED  BY <2>1, CalendarAssumption DEF Queued, Job, Operations
<1>5. jobs[next] = NoJob
  BY <1>1, <1>2 DEF DeliveryInv, JobsOK
<1> HIDE DEF next, queued
<1>6. jobs'[next] = queued /\ \A j \in Revisions \ {next} : jobs'[j] = jobs[j]
  BY <1>2, <1>3 DEF DeliveryInv, TypeOK
<1>7. event' \in Event
  BY <1>1, <1>2, <1>3, EventFields DEF Contents
<1>8. /\ Exists' /\ event'.revision = next /\ event'.calendar = c /\ event'.status = "PENDING"
      /\ event'.linked = event.linked /\ event'.cancelled = event.cancelled
  BY <1>1, <1>3, <1>7, NothingAssumption DEF Event, Exists
<1>9. Edited(operation, event.calendar)
  BY <1>2, <1>3, <1>4, <1>5, <1>6, <1>8 DEF Edited
<1> QED  BY <1>1, <1>8, <1>9 DEF Updated, UpdateEvent, next

LEMMA CancelDoes ==
    ASSUME DeliveryInv, CancelEvent
    PROVE  Cancelled
<1> DEFINE next == event.revision + 1
           queued == Queued("DELETE_EVENT", NoCalendar)
<1>1. event \in Event /\ event.revision \in Nat /\ event.revision < MaxRevision /\ Exists
  BY RowFacts DEF DeliveryInv, CancelEvent, Room
<1>2. next \in Revisions /\ next > event.revision
  BY <1>1, CalendarAssumption DEF Revisions
<1>3. event' = [event EXCEPT !.revision = next, !.cancelled = TRUE, !.status = "PENDING"]
      /\ jobs' = [jobs EXCEPT ![next] = queued] /\ UNCHANGED <<google, writes, worker, page>>
  BY DEF CancelEvent
<1>4. /\ queued \in Job /\ queued.operation = "DELETE_EVENT" /\ queued.previous = NoCalendar
      /\ queued.status = "PENDING"
  BY CalendarAssumption DEF Queued, Job, Operations
<1>5. jobs[next] = NoJob
  BY <1>1, <1>2 DEF DeliveryInv, JobsOK
<1> HIDE DEF next, queued
<1>6. jobs'[next] = queued /\ \A j \in Revisions \ {next} : jobs'[j] = jobs[j]
  BY <1>2, <1>3 DEF DeliveryInv, TypeOK
<1>7. event' \in Event
  BY <1>1, <1>2, <1>3, EventFields
<1>8. /\ Exists' /\ event'.revision = next /\ event'.calendar = event.calendar
      /\ event'.status = "PENDING" /\ event'.linked = event.linked
  BY <1>1, <1>3, <1>7, NothingAssumption DEF Event, Exists
<1>9. Edited("DELETE_EVENT", NoCalendar)
  BY <1>2, <1>3, <1>4, <1>5, <1>6, <1>8 DEF Edited
<1> QED  BY <1>1, <1>8, <1>9 DEF Cancelled, CancelEvent, next

LEMMA RetryDoes ==
    ASSUME DeliveryInv, RetrySync
    PROVE  Retried
<1>1. event \in Event /\ event.revision \in Revisions /\ Exists
  BY RowFacts DEF DeliveryInv, RetrySync, Event
<1>2. event' = [event EXCEPT !.status = "PENDING"] /\ event' \in Event
      /\ UNCHANGED <<google, worker, page>>
  BY <1>1, EventFields DEF RetrySync
<1>3. EventSteady /\ event'.linked = event.linked /\ event'.status = "PENDING" /\ Exists'
  BY <1>1, <1>2, NothingAssumption DEF Event, EventSteady, Exists
<1>4. jobs[event.revision] \in Job
  BY <1>1, RowFacts DEF DeliveryInv, RetrySync
<1> DEFINE reopened == [jobs[event.revision] EXCEPT !.status = "PENDING", !.attempts = 0,
                                                    !.owner = NoWorker]
<1>5. /\ reopened \in Job /\ reopened.operation = jobs[event.revision].operation
      /\ reopened.previous = jobs[event.revision].previous
  BY <1>4, JobReopened
<1>6. reopened.status = "PENDING"
  BY <1>4 DEF Job
<1>7. \/ jobs' = jobs
      \/ /\ jobs[event.revision].status = "DEAD_LETTER"
         /\ jobs' = [jobs EXCEPT ![event.revision] = reopened]
  BY DEF RetrySync
<1> HIDE DEF reopened
<1>8. JobsSteady
  BY <1>1, <1>4, <1>5, <1>7 DEF JobsSteady, JobKept, DeliveryInv, TypeOK
<1> QED
  BY <1>1, <1>2, <1>3, <1>6, <1>7, <1>8 DEF Retried, DeliveryInv, TypeOK

LEMMA ApplyDoes ==
    ASSUME DeliveryInv, ApplyPage
    PROVE  Applied
<1>1. page # NoPage /\ page' = NoPage /\ UNCHANGED <<jobs, google, writes, worker>>
      /\ page.copy \in Copy
  BY RowFacts DEF ApplyPage, DeliveryInv
<1>2. CASE event' = event
  BY <1>1, <1>2 DEF Applied
<1>3. CASE event' # event
  <2>1. /\ Exists /\ Room /\ event \in Event /\ event.revision \in Nat
        /\ event.calendar = page.calendar /\ event.status = "SYNCED"
        /\ event' = [event EXCEPT !.revision = @ + 1, !.content = page.copy.content,
                                  !.cancelled = FALSE, !.etag = page.copy.etag,
                                  !.status = "SYNCED"]
    BY <1>3, RowFacts DEF ApplyPage, DeliveryInv, Defers
  <2>2. event.revision + 1 \in Revisions
    BY <2>1, CalendarAssumption DEF Room, Revisions
  <2>3. /\ event'.revision = event.revision + 1 /\ ~event'.cancelled
        /\ event'.status = "SYNCED" /\ event'.linked = event.linked
        /\ event'.calendar = event.calendar
    BY <2>1 DEF Event
  <2>4. event' \in Event
    <3>1. page.copy.content \in Contents /\ page.copy.etag \in Etags
      BY <1>1 DEF Copy
    <3> QED  BY <2>1, <2>2, <3>1 DEF Event
  <2>5. Exists'
    BY <2>4, NothingAssumption DEF Exists
  <2> QED  BY <1>1, <2>1, <2>2, <2>3, <2>5 DEF Applied
<1> QED  BY <1>2, <1>3

LEMMA ListDoes ==
    ASSUME DeliveryInv, NEW c \in Calendars, ListPage(c)
    PROVE  Listed
<1>1. /\ page = NoPage /\ google[c] # NoCopy /\ google[c] \in Copy
      /\ page' = [calendar |-> c, copy |-> google[c]]
      /\ UNCHANGED <<event, jobs, google, worker>>
  BY RowFacts DEF DeliveryInv, ListPage
<1>2. page' \in Page /\ page'.calendar = c
  BY <1>1 DEF Page
<1> QED  BY <1>1, <1>2, NothingAssumption DEF Listed

LEMMA EditOutsideDoes ==
    ASSUME DeliveryInv, NEW c \in Calendars, EditOutside(c)
    PROVE  EditedOutside
<1>1. writes + 1 \in Etags
  BY RowFacts, CalendarAssumption DEF DeliveryInv, EditOutside, Etags
<1>2. Fresh(Outside) \in Copy
  BY <1>1 DEF Fresh, Copy, Contents
<1> QED
  BY <1>2, NothingAssumption DEF EditedOutside, EditOutside, DeliveryInv, TypeOK

\* Every step is one of these.
OtherStep ==
    \/ Created \/ Updated \/ Cancelled \/ Retried \/ Applied \/ Listed \/ EditedOutside
    \/ UNCHANGED <<event, jobs, google, worker, page>>

LEMMA NextDoes ==
    ASSUME DeliveryInv, [Next]_vars
    PROVE  OtherStep \/ \E w \in Workers : DrainStep(w) /\ Framed(w)
<1>1. CASE LocalNext
  BY <1>1, CreateDoes, UpdateDoes, CancelDoes, RetryDoes DEF LocalNext, OtherStep
<1>2. CASE \E w \in Workers : WorkerNext(w)
  BY <1>2, WorkerDoes
<1>3. CASE InboundNext
  BY <1>3, ListDoes, EditOutsideDoes, ApplyDoes DEF InboundNext, OtherStep
<1>4. CASE UNCHANGED vars
  BY <1>4 DEF vars, OtherStep
<1> QED  BY <1>1, <1>2, <1>3, <1>4 DEF Next

\* The drain that takes the step is the only one at work.
LEMMA OthersIdle ==
    ASSUME NEW w \in Workers, DrainStep(w), Alone(w), OneDrain, OneDrain'
    PROVE  \A v \in Workers \ {w} : At(v, "idle") /\ At(v, "idle")'
<1>1. ~At(w, "idle") \/ ~At(w, "idle")'
  BY DEF DrainStep, Claimed, Passed, Took, Reserved, Stopped, Heard, Wrote, Stamped, Blamed, Killed,
         At, Becomes, Calls
<1> QED  BY <1>1 DEF OneDrain, Alone, At


-----------------------------------------------------------------------------
(* An event in error keeps an open job *)

LEMMA IdleLease ==
    ASSUME NEW v \in Workers, At(v, "idle")
    PROVE  LeaseKept(v)
BY DEF LeaseKept, At

LEMMA RetryOther ==
    ASSUME RetryInv, DeliveryInv', OtherStep
    PROVE  (\A v \in Workers : LeaseKept(v)') /\ ErrorOpen'
<1>0. \A v \in Workers : ~At(v, "idle") => Exists /\ jobs[worker[v].job] \in Job /\ worker[v].job \in Revisions
  BY BusyFacts DEF RetryInv, At
<1>1. CASE Created \/ Updated \/ Cancelled
  <2>1. worker' = worker /\ event'.status = "PENDING" /\ jobs[event'.revision] = NoJob
        /\ \A j \in Revisions \ {event'.revision} : jobs'[j] = jobs[j]
    BY <1>1 DEF Created, Updated, Cancelled, Edited
  <2>2. \A v \in Workers : ~At(v, "idle") =>
           jobs'[worker[v].job] = jobs[worker[v].job] /\ worker[v].job # event'.revision
    BY <1>0, <2>1, NothingAssumption
  <2> QED  BY <2>1, <2>2, IdleLease DEF RetryInv, LeaseKept, ErrorOpen, Leased, JobOf, At
<1>2. CASE Retried
  <2>1. \A v \in Workers : ~At(v, "idle") =>
           \/ jobs'[worker[v].job] = jobs[worker[v].job]
           \/ jobs[worker[v].job].status = "DEAD_LETTER" /\ jobs'[worker[v].job].status = "PENDING"
    BY <1>0, <1>2 DEF Retried
  <2>2. worker' = worker /\ event'.status = "PENDING"
    BY <1>2 DEF Retried
  <2> QED  BY <2>1, <2>2, IdleLease DEF RetryInv, LeaseKept, ErrorOpen, Leased, JobOf, At
<1>3. CASE Applied \/ Listed \/ EditedOutside \/ UNCHANGED <<event, jobs, google, worker, page>>
  <2>1. jobs' = jobs /\ worker' = worker /\ (event' = event \/ event'.status = "SYNCED")
    BY <1>3 DEF Applied, Listed, EditedOutside
  <2> QED  BY <2>1 DEF RetryInv, LeaseKept, ErrorOpen, Leased, JobOf, At, Exists
<1> QED  BY <1>1, <1>2, <1>3 DEF OtherStep

LEMMA RetryDrain ==
    ASSUME RetryInv, DeliveryInv', NEW w \in Workers, DrainStep(w), Framed(w),
           \A v \in Workers \ {w} : At(v, "idle") /\ At(v, "idle")'
    PROVE  LeaseKept(w)' /\ ErrorOpen'
<1>1. /\ Exists /\ Exists' /\ event'.revision = event.revision
      /\ event.revision \in Revisions
      /\ jobs[event.revision] \in Job => jobs'[event.revision] \in Job
  <2>1. Exists /\ Exists' /\ event'.revision = event.revision /\ JobsSteady
    BY DEF Framed, EventSteady
  <2>2. event.revision \in Revisions
    BY <2>1, RowFacts DEF RetryInv, DeliveryInv, Event
  <2> QED  BY <2>1, <2>2 DEF JobsSteady
<1>2. ~At(w, "reserve")' => \A v \in Workers : ~At(v, "reserve")'
  BY DEF At
<1>3. LeaseKept(w) /\ ErrorOpen
  BY DEF RetryInv
<1>4. worker[w].step # "idle" => worker[w].job \in Revisions /\ jobs[worker[w].job] \in Job
  BY BusyFacts DEF RetryInv
<1>5. worker'[w].step # "idle" => worker'[w].job \in Revisions
  BY RowFacts DEF RetryInv, DeliveryInv, TypeOK, Drain
<1>6. CASE Claimed(w)
  BY <1>1, <1>2, <1>3, <1>5, <1>6
     DEF Claimed, LeaseKept, ErrorOpen, Leased, JobOf, At, Becomes
<1>7. CASE Passed(w)
  BY <1>1, <1>2, <1>3, <1>4, <1>7
     DEF Passed, LeaseKept, ErrorOpen, Leased, JobOf, At, Becomes, SameJob
<1>8. CASE Took(w)
  <2>1. Leased(w) /\ worker'[w].step \notin {"idle", "blame", "close"}
    BY <1>3, <1>8 DEF Took, LeaseKept, At, Becomes, Moving
  <2> QED
    BY <1>1, <1>3, <1>8, <2>1
       DEF Took, LeaseKept, ErrorOpen, Leased, JobOf, At, SameJob
<1>9. CASE Reserved(w)
  BY <1>1, <1>2, <1>3, <1>9
     DEF Reserved, LeaseKept, ErrorOpen, Leased, JobOf, At, Becomes, SameJob, SameWork
<1>10. CASE Stopped(w) \/ Heard(w) \/ Wrote(w)
  <2>1. /\ worker[w].step \notin {"idle", "blame"}
        /\ worker'[w].step \notin {"idle", "blame", "close", "reserve"}
        /\ SameJob(w) /\ UNCHANGED <<event, jobs>>
    BY <1>10 DEF Stopped, Heard, Wrote, Calls, Becomes, SameWork
  <2> QED
    BY <1>1, <1>2, <1>3, <2>1 DEF LeaseKept, ErrorOpen, Leased, JobOf, At, SameJob
<1>11. CASE Stamped(w)
  BY <1>1, <1>2, <1>3, <1>11
     DEF Stamped, LeaseKept, ErrorOpen, Leased, JobOf, At, Becomes, SameJob
<1>12. CASE At(w, "close") /\ Becomes(w, "idle") /\ Closed(w, "SUCCEEDED")
  BY <1>1, <1>2, <1>3, <1>4, <1>12
     DEF Closed, LeaseKept, ErrorOpen, At, Becomes
<1>13. ASSUME NEW s \in {"PENDING", "DEAD_LETTER"}, At(w, "fail"), Becomes(w, "blame"), Closed(w, s)
       PROVE  LeaseKept(w)' /\ ErrorOpen'
  <2>1. Leased(w) /\ SameJob(w) /\ event' = event
    BY <1>3, <1>13 DEF LeaseKept, At, Becomes, Closed
  <2>2. jobs'[worker[w].job].status \in {"PENDING", "DEAD_LETTER"}
        /\ \A j \in Revisions \ {worker[w].job} : jobs'[j] = jobs[j]
    BY <1>13, <2>1 DEF Closed
  <2> QED
    BY <1>1, <1>2, <1>3, <1>13, <2>1, <2>2
       DEF LeaseKept, ErrorOpen, JobOf, At, Becomes, SameJob
<1>14. CASE Blamed(w)
  BY <1>1, <1>2, <1>3, <1>4, <1>14 DEF Blamed, LeaseKept, ErrorOpen, At, Becomes, JobOf
<1>15. CASE Killed(w)
  BY <1>1, <1>2, <1>3, <1>15 DEF Killed, LeaseKept, ErrorOpen, At, Becomes
<1> QED
  BY <1>6, <1>7, <1>8, <1>9, <1>10, <1>11, <1>12, <1>13, <1>14, <1>15 DEF DrainStep

LEMMA RetryStep ==
    RetryInv /\ OneDrain /\ OneDrain' /\ [Next]_vars => RetryInv'
<1> SUFFICES ASSUME RetryInv, OneDrain, OneDrain', [Next]_vars  PROVE RetryInv'
  OBVIOUS
<1>1. DeliveryInv /\ DeliveryInv'
  BY DeliveryNext DEF RetryInv
<1>2. CASE OtherStep
  BY <1>1, <1>2, RetryOther DEF RetryInv
<1>3. ASSUME NEW w \in Workers, DrainStep(w), Framed(w)  PROVE RetryInv'
  <2>1. \A v \in Workers \ {w} : At(v, "idle") /\ At(v, "idle")'
    BY <1>3, OthersIdle DEF Framed
  <2>2. LeaseKept(w)' /\ ErrorOpen'
    BY <1>1, <1>3, <2>1, RetryDrain
  <2>3. \A v \in Workers \ {w} : LeaseKept(v)'
    BY <2>1 DEF LeaseKept, At
  <2> QED  BY <1>1, <2>2, <2>3 DEF RetryInv
<1> QED  BY <1>1, <1>2, <1>3, NextDoes

\* While one drain works at a time, the agent can always retry an event that is shown in error
\* and that Google may hold: a failure is blamed on a revision whose job is still open, however
\* often the drain was killed between the two statements of a failure.
THEOREM ErrorsStayRetriable == Spec /\ []OneDrain => []ErrorCanBeRetried
<1>1. Init => RetryInv
  BY DeliveryInit, SMTT(30) DEF Init, RetryInv, LeaseKept, ErrorOpen, IdleWorker, At, Exists
<1>2. RetryInv /\ OneDrain /\ OneDrain' /\ [Next]_vars => RetryInv'
  BY RetryStep
<1>3. RetryInv => ErrorCanBeRetried
  <2>1. RetryInv => (Exists => event.revision \in Revisions)
    BY RowFacts DEF RetryInv, DeliveryInv, Event
  <2> QED  BY <2>1, NothingAssumption DEF RetryInv, ErrorOpen, ErrorCanBeRetried
<1> QED  BY <1>1, <1>2, <1>3, PTL DEF Spec


-----------------------------------------------------------------------------
(* A delivered cancellation stays delivered *)

LEMMA SendersBusy ==
    ASSUME DeliveryInv, NEW v \in Workers
    PROVE  /\ worker[v].step \in Sending =>
                 /\ Exists /\ worker[v].job \in Revisions /\ jobs[worker[v].job] \in Job
                 /\ worker[v].job \in Nat /\ event.revision \in Nat /\ worker[v].job <= event.revision
           /\ worker[v].step \in Upserts \union {"delete", "stamp"} => worker[v].step \in Sending
<1>1. worker[v].step \in Sending => worker[v].step # "idle"
  BY DEF Sending, Calls
<1>2. worker[v].step \in Sending =>
         /\ Exists /\ event \in Event /\ jobs[worker[v].job] \in Job /\ worker[v].job \in Revisions
         /\ worker[v].job <= event.revision
  BY <1>1, BusyFacts DEF DeliveryInv, DrainOK
<1> QED  BY <1>2, CalendarAssumption DEF Upserts, Sending, Calls, Event, Revisions

LEMMA GoneOther ==
    ASSUME GoneInv, DeliveryInv', OtherStep
    PROVE  (\A v \in Workers : SendsLatest(v)') /\ CancelQueued' /\ DeletionDone'
<1>0. DeliveryInv /\ CancelQueued /\ DeletionDone /\ \A v \in Workers : SendsLatest(v)
  BY DEF GoneInv
<1>1. CASE Created \/ Updated \/ Cancelled
  <2>1. /\ worker' = worker /\ google' = google
        /\ event'.revision \in Revisions /\ jobs[event'.revision] = NoJob
        /\ jobs'[event'.revision] \in Job
        /\ event'.cancelled => jobs'[event'.revision].operation = "DELETE_EVENT"
        /\ event'.status = "PENDING"
        /\ \A j \in Revisions \ {event'.revision} : jobs'[j] = jobs[j]
    BY <1>1 DEF Created, Updated, Cancelled, Edited
  <2>2. \A v \in Workers : worker[v].step \in Sending =>
           jobs'[worker[v].job] = jobs[worker[v].job] /\ worker[v].job # event'.revision
    BY <1>0, <2>1, SendersBusy, NothingAssumption
  <2>3. \A v \in Workers : SendsLatest(v)'
    BY <1>0, <2>1, <2>2, SendersBusy DEF SendsLatest, JobOf
  <2>4. CancelQueued' /\ DeletionDone'
    BY <1>0, <2>1, <2>2, SendersBusy DEF CancelQueued, DeletionDone, At
  <2> QED  BY <2>3, <2>4
<1>2. CASE Retried
  <2>1. /\ worker' = worker /\ google' = google /\ JobsSteady /\ EventSteady
        /\ event'.status = "PENDING" /\ Exists
    BY <1>2 DEF Retried
  <2>2. \A v \in Workers : worker[v].step \in Sending =>
           jobs'[worker[v].job] \in Job /\ jobs'[worker[v].job].operation = jobs[worker[v].job].operation
    BY <1>0, <2>1, SendersBusy DEF JobsSteady, JobKept
  <2>3. PayloadOf(event') = PayloadOf(event)
    BY <2>1 DEF PayloadOf, EventSteady
  <2>4. \A v \in Workers : SendsLatest(v)'
    BY <1>0, <2>1, <2>2, <2>3, SendersBusy DEF SendsLatest, JobOf, EventSteady, Seen
  <2>5. event.revision \in Revisions
    BY <1>0, <2>1, RowFacts DEF DeliveryInv, Event
  <2>6. CancelQueued'
    BY <1>0, <2>1, <2>5 DEF CancelQueued, EventSteady, JobsSteady, JobKept
  <2>7. DeletionDone'
    BY <1>0, <2>1, <2>2, SendersBusy DEF DeletionDone, At, JobOf, EventSteady
  <2> QED  BY <2>4, <2>6, <2>7
<1>3. CASE Applied /\ event' # event
  <2>1. /\ worker' = worker /\ google' = google /\ jobs' = jobs /\ ~event'.cancelled
        /\ event'.revision = event.revision + 1
    BY <1>3 DEF Applied
  <2>2. \A v \in Workers : worker[v].step \in Sending => worker[v].job # event'.revision
    BY <1>0, <2>1, SendersBusy
  <2>3. \A v \in Workers : SendsLatest(v)'
    BY <1>0, <2>1, <2>2, SendersBusy DEF SendsLatest, JobOf
  <2> QED  BY <2>1, <2>2, <2>3, <1>0, SendersBusy DEF CancelQueued, DeletionDone, At
<1>4. CASE UNCHANGED <<event, jobs, worker>>
           /\ \A c \in Calendars : google'[c] = NoCopy <=> google[c] = NoCopy
  <2>1. \A v \in Workers : SendsLatest(v)'
    BY <1>0, <1>4 DEF SendsLatest, JobOf, Seen
  <2>2. Exists => event.calendar \in Calendars
    BY <1>0, RowFacts DEF DeliveryInv, Event
  <2>3. \A v \in Workers : At(v, "stamp") => Exists
    BY <1>0, SendersBusy DEF At
  <2> QED  BY <1>0, <1>4, <2>1, <2>2, <2>3 DEF CancelQueued, DeletionDone, At, JobOf, Exists
<1>5. \/ Applied /\ event' # event
      \/ Created \/ Updated \/ Cancelled \/ Retried
      \/ UNCHANGED <<event, jobs, worker>>
         /\ \A c \in Calendars : google'[c] = NoCopy <=> google[c] = NoCopy
  BY DEF OtherStep, Applied, Listed, EditedOutside
<1> QED  BY <1>1, <1>2, <1>3, <1>4, <1>5

\* A step of a drain leaves what its job is for and what the event asks for.
LEMMA StepsSteady ==
    ASSUME DeliveryInv, NEW w \in Workers, Framed(w)
    PROVE  /\ Exists /\ Exists' /\ event.revision \in Revisions /\ event.calendar \in Calendars
           /\ event'.revision = event.revision /\ event'.calendar = event.calendar
           /\ event'.cancelled = event.cancelled /\ PayloadOf(event') = PayloadOf(event)
           /\ \A j \in Revisions : jobs[j] \in Job =>
                 /\ jobs'[j] \in Job /\ jobs'[j].operation = jobs[j].operation
                 /\ jobs'[j].previous = jobs[j].previous
           /\ worker[w].step # "idle" => worker[w].job \in Revisions /\ jobs[worker[w].job] \in Job
<1>1. Exists /\ Exists' /\ event \in Event /\ EventSteady /\ JobsSteady
  BY RowFacts DEF Framed, DeliveryInv
<1>2. worker[w].step # "idle" => worker[w].job \in Revisions /\ jobs[worker[w].job] \in Job
  BY BusyFacts
<1> QED  BY <1>1, <1>2 DEF EventSteady, JobsSteady, JobKept, PayloadOf, Event

LEMMA LatestSent ==
    ASSUME GoneInv, NEW w \in Workers, DrainStep(w), Framed(w)
    PROVE  SendsLatest(w)'
<1>0. DeliveryInv /\ SendsLatest(w)
  BY DEF GoneInv
<1>1. /\ event'.revision = event.revision /\ PayloadOf(event') = PayloadOf(event)
      /\ worker[w].step # "idle" =>
            jobs[worker[w].job] \in Job /\ jobs'[worker[w].job].operation = JobOf(w).operation
  BY <1>0, StepsSteady DEF JobOf
<1>2. CASE worker'[w].step \notin Sending
  BY <1>2 DEF SendsLatest, Sending, Upserts
<1>3. CASE worker'[w].step \in Sending
  <2>1. Took(w) \/ Reserved(w) \/ Heard(w) \/ (Wrote(w) /\ ~Becomes(w, "fail"))
    BY <1>3 DEF DrainStep, Claimed, Passed, Stopped, Stamped, Blamed, Killed, Becomes, Sending, Calls
  <2>2. CASE Took(w)
    <3>1. worker[w].step = "read" /\ worker'[w].job = worker[w].job
          /\ worker'[w].seen = PayloadOf(event)
      BY <2>2 DEF Took, At, SameJob
    <3>2. worker'[w].step \in Upserts => JobOf(w).operation # "DELETE_EVENT"
      BY <2>2 DEF Took, Becomes, Upserts
    <3> QED  BY <1>1, <3>1, <3>2 DEF SendsLatest, Seen, JobOf
  <2>3. CASE Reserved(w) \/ Heard(w) \/ (Wrote(w) /\ ~Becomes(w, "fail"))
    <3>1. worker[w].step \in Sending /\ worker[w].step # "idle" /\ SameWork(w)
      BY <2>3 DEF Reserved, Heard, Wrote, At, Sending, Calls
    <3>2. worker'[w].step \in Upserts => worker[w].step \in Upserts
      BY <2>3 DEF Reserved, Heard, Wrote, At, Becomes, Upserts, Calls, Moving
    <3> QED  BY <1>0, <1>1, <3>1, <3>2 DEF SendsLatest, SameWork, SameJob, Seen, JobOf
  <2> QED  BY <2>1, <2>2, <2>3
<1> QED  BY <1>2, <1>3

LEMMA DeletionAnswered ==
    ASSUME GoneInv, NEW w \in Workers, DrainStep(w), Framed(w),
           At(w, "stamp")', worker'[w].job = event'.revision, JobOf(w)'.operation = "DELETE_EVENT"
    PROVE  google'[event'.calendar] = NoCopy
<1>0. DeliveryInv /\ SendsLatest(w)
  BY DEF GoneInv
<1>1. /\ event'.revision = event.revision /\ event'.calendar = event.calendar
      /\ event.calendar \in Calendars
      /\ worker[w].step # "idle" =>
            jobs[worker[w].job] \in Job /\ jobs'[worker[w].job].operation = JobOf(w).operation
  BY <1>0, StepsSteady DEF JobOf
<1>2. Heard(w) \/ Wrote(w)
  BY DEF DrainStep, Claimed, Passed, Took, Reserved, Stopped, Stamped, Blamed, Killed, At, Becomes, Moving
<1>3. worker[w].step \in Sending /\ worker[w].step # "idle" /\ SameJob(w)
  BY <1>2 DEF Heard, Wrote, SameWork, Sending, Calls
<1>4. worker[w].job = event.revision /\ JobOf(w).operation = "DELETE_EVENT"
  BY <1>1, <1>3 DEF SameJob, JobOf
<1>5. worker[w].step \notin Upserts /\ Seen(w) = PayloadOf(event)
  BY <1>0, <1>3, <1>4 DEF SendsLatest
<1>6. At(w, "delete") /\ Seen(w).calendar = event.calendar
  BY <1>2, <1>5 DEF Heard, Wrote, At, Upserts, PayloadOf
<1> QED
  BY <1>1, <1>2, <1>6 DEF Heard, Wrote, At, Target, Upserts, Moving

LEMMA DeletionKept ==
    ASSUME GoneInv, NEW w \in Workers, DrainStep(w), Framed(w),
           event'.cancelled, event'.status = "SYNCED"
    PROVE  google'[event'.calendar] = NoCopy /\ worker'[w].step \notin Upserts
<1>0. DeliveryInv /\ CancelQueued /\ DeletionDone
  BY DEF GoneInv
<1>1. /\ Exists /\ event'.calendar = event.calendar /\ event.calendar \in Calendars /\ event.cancelled
      /\ jobs[event.revision].operation = "DELETE_EVENT"
  BY <1>0, StepsSteady DEF CancelQueued
<1>2. event.status = "SYNCED" => google[event.calendar] = NoCopy /\ worker[w].step \notin Upserts
  BY <1>0, <1>1 DEF DeletionDone
<1>3. CASE Claimed(w) \/ Passed(w) \/ Stopped(w) \/ Killed(w)
  BY <1>1, <1>2, <1>3 DEF Claimed, Passed, Stopped, Killed, Becomes, Upserts, Calls
<1>4. CASE Took(w)
  <2>1. JobOf(w).operation = "DELETE_EVENT" /\ event' = event /\ google' = google
    BY <1>1, <1>4 DEF Took, JobOf
  <2> QED  BY <1>1, <1>2, <1>4, <2>1 DEF Took, Becomes, Upserts
<1>5. CASE Reserved(w)
  BY <1>1, <1>2, <1>5 DEF Reserved, At, Upserts
<1>6. CASE Heard(w) \/ Wrote(w)
  <2>1. At(w, "delete") /\ event' = event /\ google[event.calendar] = NoCopy
    BY <1>2, <1>6 DEF Heard, Wrote, At, Upserts
  <2>2. worker'[w].step \in {"stamp", "fail"}
    BY <1>6, <2>1 DEF Heard, Wrote, At, Becomes, Moving
  <2>3. google'[event.calendar] = NoCopy
    BY <1>1, <1>6, <2>1 DEF Heard, Wrote, At, OnlyIn, Upserts, Moving
  <2> QED  BY <1>1, <2>2, <2>3 DEF Upserts, Calls
<1>7. CASE Stamped(w)
  <2>1. google' = google /\ worker'[w].step = "close" /\ At(w, "stamp")
    BY <1>7 DEF Stamped, Becomes
  <2>2. event.revision = worker[w].job => google[event.calendar] = NoCopy
    BY <1>0, <1>1, <2>1 DEF DeletionDone, JobOf
  <2> QED  BY <1>1, <1>2, <1>7, <2>1, <2>2 DEF Stamped, Upserts, Calls
<1>8. CASE (At(w, "close") /\ Becomes(w, "idle")) \/ (At(w, "fail") /\ Becomes(w, "blame"))
  <2>1. CASE UNCHANGED <<event, google>>
    BY <1>1, <1>2, <1>8, <2>1 DEF Becomes, Upserts, Calls
  <2>2. UNCHANGED <<event, google>>
    BY <1>8 DEF DrainStep, Claimed, Passed, Took, Reserved, Stopped, Heard, Wrote, Stamped, Closed,
                Blamed, Killed, At, Becomes, Calls
  <2> QED  BY <2>1, <2>2
<1>9. CASE Blamed(w)
  BY <1>1, <1>2, <1>9 DEF Blamed, Becomes, Upserts, Calls
<1> QED  BY <1>3, <1>4, <1>5, <1>6, <1>7, <1>8, <1>9 DEF DrainStep

LEMMA GoneStep ==
    GoneInv /\ OneDrain /\ OneDrain' /\ [Next]_vars => GoneInv'
<1> SUFFICES ASSUME GoneInv, OneDrain, OneDrain', [Next]_vars  PROVE GoneInv'
  OBVIOUS
<1>1. DeliveryInv /\ DeliveryInv'
  BY DeliveryNext DEF GoneInv
<1>2. CASE OtherStep
  BY <1>1, <1>2, GoneOther DEF GoneInv
<1>3. ASSUME NEW w \in Workers, DrainStep(w), Framed(w)  PROVE GoneInv'
  <2>1. \A v \in Workers \ {w} : At(v, "idle") /\ At(v, "idle")'
    BY <1>3, OthersIdle DEF Framed
  <2>2. \A v \in Workers : SendsLatest(v)'
    <3>1. SendsLatest(w)'
      BY <1>3, LatestSent
    <3>2. \A v \in Workers \ {w} : SendsLatest(v)'
      BY <2>1 DEF SendsLatest, At, Sending, Upserts, Calls
    <3> QED  BY <3>1, <3>2
  <2>3. CancelQueued'
    BY <1>1, <1>3, StepsSteady DEF GoneInv, CancelQueued
  <2>4. DeletionDone'
    <3>1. \A v \in Workers : At(v, "stamp")' => v = w
      BY <2>1 DEF At
    <3>2. At(w, "stamp")' /\ worker'[w].job = event'.revision /\ JobOf(w)'.operation = "DELETE_EVENT"
          => google'[event'.calendar] = NoCopy
      BY <1>3, DeletionAnswered
    <3>3. event'.cancelled /\ event'.status = "SYNCED" =>
             google'[event'.calendar] = NoCopy /\ worker'[w].step \notin Upserts
      BY <1>3, DeletionKept
    <3>4. \A v \in Workers \ {w} : worker'[v].step \notin Upserts
      BY <2>1 DEF At, Upserts, Calls
    <3> QED  BY <3>1, <3>2, <3>3, <3>4 DEF DeletionDone
  <2> QED  BY <1>1, <2>2, <2>3, <2>4 DEF GoneInv
<1> QED  BY <1>1, <1>2, <1>3, NextDoes

LEMMA GoneInit == Init => GoneInv
BY DeliveryInit, SMTT(30)
   DEF Init, GoneInv, SendsLatest, CancelQueued, DeletionDone, IdleWorker, At, Exists, Sending, Upserts, Calls

\* While one drain works at a time, a delivered cancellation stays delivered: no drain that read
\* the event before, was killed, or lost an answer puts a copy back in the event's calendar.
THEOREM CancellationLasts == Spec /\ []OneDrain => []CancelledIsGone
<1>1. GoneInv /\ OneDrain /\ OneDrain' /\ [Next]_vars => GoneInv'
  BY GoneStep
<1>2. GoneInv => CancelledIsGone
  BY DEF GoneInv, DeletionDone, CancelledIsGone
<1> QED  BY GoneInit, <1>1, <1>2, PTL DEF Spec


-----------------------------------------------------------------------------
(* A move leaves no copy behind: local edits and inbound pages *)

\* Without an edit, the event has left the calendars it had left.
LEMMA LeftSteady ==
    ASSUME TypeOK, TypeOK', JobsSteady
    PROVE  (\A c \in Calendars : Left(c)' <=> Left(c)) /\ (MovedLast' <=> MovedLast)
<1>1. \A j \in Revisions :
         /\ jobs[j] # NoJob <=> jobs[j] \in Job
         /\ jobs'[j] # NoJob <=> jobs'[j] \in Job
  BY NothingAssumption DEF TypeOK
<1>2. \A j \in Revisions :
         /\ jobs'[j] \in Job <=> jobs[j] \in Job
         /\ jobs[j] \in Job => jobs'[j].previous = jobs[j].previous
  BY DEF JobsSteady, JobKept
<1>3. \A c \in Calendars : Left(c)' <=> Left(c)
  BY <1>2 DEF Left
<1>4. MovedLast' <=> MovedLast
  BY <1>1, <1>2 DEF MovedLast
<1> QED  BY <1>3, <1>4

\* The only calendar that the event has left is the one its job names.
LEMMA OneLeft ==
    ASSUME TypeOK, MovedLast, NEW j \in Revisions, jobs[j] \in Job, jobs[j].previous # NoCalendar,
           NEW c \in Calendars, Left(c)
    PROVE  c = jobs[j].previous
<1>1. PICK i \in Revisions : jobs[i] \in Job /\ jobs[i].previous = c
  BY DEF Left
<1> QED  BY <1>1, NothingAssumption, CalendarAssumption DEF MovedLast

LEMMA EventWhere ==
    ASSUME DeliveryInv
    PROVE  Exists => event \in Event /\ event.calendar \in Calendars /\ event.revision \in Revisions
                     /\ event.revision \in Nat /\ event.revision >= 1
BY RowFacts, CalendarAssumption DEF DeliveryInv, Event, Revisions

LEMMA MoveCreate ==
    ASSUME MoveInv, GoneInv', Created
    PROVE  MoveInv'
<1>0. DeliveryInv /\ DeliveryInv' /\ ~Exists /\ Exists'
  BY DEF MoveInv, GoneInv, Created, Edited
<1>1. /\ page' = NoPage /\ \A c \in Calendars : google'[c] = NoCopy
      /\ \A v \in Workers : worker'[v].step \notin Sending
  <2>1. \A v \in Workers : worker[v].step = "idle"
    BY <1>0 DEF DeliveryInv, DrainOK
  <2> QED  BY <1>0, <2>1 DEF MoveInv, Created, Edited, Sending, Calls
<1>2. /\ \A j \in Revisions : jobs[j] = NoJob
      /\ event'.revision = 1 /\ jobs'[1].operation = "CREATE_EVENT" /\ jobs'[1].previous = NoCalendar
      /\ \A j \in Revisions \ {1} : jobs'[j] = NoJob
  <2>1. \A j \in Revisions : jobs[j] = NoJob
    BY <1>0 DEF DeliveryInv, JobsOK
  <2> QED  BY <2>1 DEF Created, Edited
<1>3. JobsPlaced'
  BY <1>2, NothingAssumption DEF JobsPlaced
<1>4. LinkedFirst'
  BY <1>1 DEF LinkedFirst, Sending, At
<1>5. AllPlaced' /\ NewIsClean' /\ OldIsLast'
  BY <1>1 DEF AllPlaced, NewIsClean, OldIsLast, MovedClean
<1> QED  BY <1>0, <1>3, <1>4, <1>5 DEF MoveInv

LEMMA MoveUpdate ==
    ASSUME MoveInv, GoneInv', Updated
    PROVE  MoveInv'
<1>0. DeliveryInv /\ DeliveryInv' /\ Exists /\ Exists' /\ JobsPlaced /\ LinkedFirst
  BY DEF MoveInv, GoneInv, Updated, Edited
<1>o. PICK old \in Calendars : old = event.calendar
  BY <1>0, EventWhere
<1> DEFINE next == event'.revision
           new == event'.calendar
<1>1. old = event.calendar /\ new \in Calendars /\ next \in Revisions /\ next # 1 /\ old # NoCalendar
  <2>1. next = event.revision + 1 /\ next \in Revisions
    BY DEF Updated, Edited
  <2> QED  BY <1>0, <1>o, <2>1, EventWhere, CalendarAssumption DEF DeliveryInv, TypeOK, Exists, Event
<1>2. /\ jobs[next] = NoJob /\ jobs'[next] \in Job /\ jobs'[next].previous = old
      /\ jobs'[next].operation = IF event.linked THEN "UPDATE_EVENT" ELSE "CREATE_EVENT"
      /\ \A j \in Revisions \ {next} : jobs'[j] = jobs[j]
      /\ UNCHANGED <<google, worker, page>>
      /\ event'.status = "PENDING" /\ event'.linked = event.linked
  BY <1>o DEF Updated, Edited
<1> HIDE DEF next, new
<1>3. JobsPlaced'
  BY <1>0, <1>1, <1>2 DEF JobsPlaced
<1>4. LinkedFirst'
  BY <1>0, <1>2 DEF LinkedFirst, At
<1>5. ASSUME MovedLast'
      PROVE  AllPlaced' /\ NewIsClean' /\ OldIsLast'
  <2>1. \A j \in Revisions : jobs[j] # NoJob => j # next /\ jobs'[j] = jobs[j]
    BY <1>1, <1>2
  <2>2. MovedLast
    BY <1>5, <2>1 DEF MovedLast
  <2>3. AllPlaced
    BY <1>0, <2>2 DEF MoveInv
  <2>4. \A c \in Calendars : Left(c)' => c = old
    <3> SUFFICES ASSUME NEW c \in Calendars, Left(c)'  PROVE c = old
      OBVIOUS
    <3>1. PICK j \in Revisions : jobs'[j] \in Job /\ jobs'[j].previous = c
      BY DEF Left
    <3> QED  BY <1>1, <1>2, <1>5, <3>1, CalendarAssumption, NothingAssumption DEF MovedLast
  <2>5. \A c \in Calendars : c = old => Left(c)'
    BY <1>1, <1>2 DEF Left
  <2>6. \A c \in Calendars : Left(c) => c = old
    BY <2>1, <2>4, NothingAssumption DEF Left
  <2>7. /\ \A c \in Calendars : google[c] # NoCopy => c = old
        /\ page # NoPage => page.calendar = old
        /\ \A w \in Workers : worker[w].step \in Sending => Seen(w).calendar = old
    BY <1>1, <2>3, <2>6 DEF AllPlaced, Whereabouts
  <2>8. old \in Whereabouts'
    BY <1>1, <2>5 DEF Whereabouts
  <2>9. AllPlaced'
    BY <1>2, <2>7, <2>8 DEF AllPlaced, Seen
  <2>10. new = old => MovedClean'
    BY <1>1, <2>4 DEF MovedClean, new
  <2>11. NewIsClean'
    BY <1>1, <1>2, <2>7, <2>10 DEF NewIsClean, Seen, new
  <2>12. OldIsLast'
    BY <1>1, <1>2, <2>7 DEF OldIsLast, Seen, new
  <2> QED  BY <2>9, <2>11, <2>12
<1> QED  BY <1>0, <1>3, <1>4, <1>5 DEF MoveInv

\* What a drain is sending is of a job that is kept.
LEMMA SendersKeep ==
    ASSUME DeliveryInv, \A j \in Revisions : JobKept(j), worker' = worker
    PROVE  \A v \in Workers : worker[v].step \in Sending =>
              JobOf(v)'.operation = JobOf(v).operation
BY SendersBusy DEF JobKept, JobOf

LEMMA MoveCancel ==
    ASSUME MoveInv, GoneInv', Cancelled
    PROVE  MoveInv'
<1>0. DeliveryInv /\ DeliveryInv' /\ Exists /\ Exists' /\ JobsPlaced /\ LinkedFirst
  BY DEF MoveInv, GoneInv, Cancelled, Edited
<1> DEFINE next == event'.revision
<1>1. /\ next \in Revisions
      /\ jobs[next] = NoJob /\ jobs'[next] \in Job /\ jobs'[next].previous = NoCalendar
      /\ jobs'[next].operation = "DELETE_EVENT"
      /\ \A j \in Revisions \ {next} : jobs'[j] = jobs[j]
      /\ UNCHANGED <<google, worker, page>>
      /\ event'.status = "PENDING" /\ event'.linked = event.linked
      /\ event'.calendar = event.calendar
  BY DEF Cancelled, Edited
<1> HIDE DEF next
<1>2. \A j \in Revisions : jobs[j] # NoJob => j # next /\ jobs'[j] = jobs[j]
  BY <1>1
<1>3. \A v \in Workers : worker[v].step \in Sending => JobOf(v)'.operation = JobOf(v).operation
  <2>1. \A j \in Revisions : JobKept(j)
    BY <1>2, NothingAssumption DEF JobKept
  <2> QED  BY <1>0, <1>1, <2>1, SendersKeep
<1>4. JobsPlaced'
  BY <1>0, <1>1 DEF JobsPlaced
<1>5. LinkedFirst'
  BY <1>0, <1>1 DEF LinkedFirst, At
<1>6. ASSUME MovedLast'
      PROVE  AllPlaced' /\ NewIsClean' /\ OldIsLast'
  <2>1. MovedLast
    BY <1>2, <1>6 DEF MovedLast
  <2>2. AllPlaced /\ NewIsClean /\ OldIsLast
    BY <1>0, <2>1 DEF MoveInv
  <2>3. \A c \in Calendars : Left(c)' <=> Left(c)
    BY <1>1, <1>2, CalendarAssumption, NothingAssumption DEF Left
  <2>4. Whereabouts' = Whereabouts /\ (MovedClean' <=> MovedClean)
    BY <1>1, <2>3 DEF Whereabouts, MovedClean
  <2>5. AllPlaced'
    BY <1>1, <2>2, <2>4 DEF AllPlaced, Seen
  <2>6. NewIsClean'
    BY <1>1, <1>3, <2>2, <2>4 DEF NewIsClean, Seen
  <2>7. OldIsLast'
    BY <1>1, <2>2 DEF OldIsLast, Seen
  <2> QED  BY <2>5, <2>6, <2>7
<1> QED  BY <1>0, <1>4, <1>5, <1>6 DEF MoveInv

LEMMA MoveRetry ==
    ASSUME MoveInv, GoneInv', Retried
    PROVE  MoveInv'
<1>0. DeliveryInv /\ DeliveryInv' /\ Exists /\ Exists' /\ JobsPlaced /\ LinkedFirst
  BY DEF MoveInv, GoneInv, Retried
<1>1. /\ JobsSteady /\ UNCHANGED <<google, worker, page>>
      /\ event'.status = "PENDING" /\ event'.linked = event.linked
      /\ event'.calendar = event.calendar
  BY DEF Retried, EventSteady
<1>2. (\A c \in Calendars : Left(c)' <=> Left(c)) /\ (MovedLast' <=> MovedLast)
  BY <1>0, <1>1, LeftSteady DEF DeliveryInv
<1>3. \A v \in Workers : worker[v].step \in Sending => JobOf(v)'.operation = JobOf(v).operation
  BY <1>0, <1>1, SendersKeep DEF JobsSteady
<1>4. JobsPlaced'
  BY <1>0, <1>1 DEF JobsPlaced, JobsSteady, JobKept
<1>5. LinkedFirst'
  BY <1>0, <1>1 DEF LinkedFirst, At
<1>6. ASSUME MovedLast'
      PROVE  AllPlaced' /\ NewIsClean' /\ OldIsLast'
  <2>1. AllPlaced /\ NewIsClean /\ OldIsLast
    BY <1>0, <1>2, <1>6 DEF MoveInv
  <2>2. Whereabouts' = Whereabouts /\ (MovedClean' <=> MovedClean)
    BY <1>1, <1>2 DEF Whereabouts, MovedClean
  <2>3. AllPlaced'
    BY <1>1, <2>1, <2>2 DEF AllPlaced, Seen
  <2>4. NewIsClean'
    BY <1>1, <1>3, <2>1, <2>2 DEF NewIsClean, Seen
  <2>5. OldIsLast'
    BY <1>1, <2>1 DEF OldIsLast, Seen
  <2> QED  BY <2>3, <2>4, <2>5
<1> QED  BY <1>0, <1>4, <1>5, <1>6 DEF MoveInv

\* Pages are read and applied, and someone edits at Google: the jobs and the drains are as they were.
LEMMA MoveInbound ==
    ASSUME MoveInv, GoneInv', UNCHANGED <<jobs, worker>>,
           \A c \in Calendars : google'[c] = NoCopy <=> google[c] = NoCopy,
           \/ event' = event /\ page' = NoPage
           \/ event' = event /\ page' = page
           \/ event' = event /\ Listed
           \/ Applied /\ event' # event
    PROVE  MoveInv'
<1>0. DeliveryInv /\ DeliveryInv' /\ (Exists' <=> Exists)
  BY DEF MoveInv, GoneInv, Exists, Applied
<1>1. /\ Exists => event'.linked = event.linked /\ event'.calendar = event.calendar
      /\ MovedLast' <=> MovedLast
      /\ \A c \in Calendars : Left(c)' <=> Left(c)
  BY DEF Applied, MovedLast, Left
<1>2. ~Exists => page' = NoPage /\ \A c \in Calendars : google'[c] = NoCopy
  BY DEF MoveInv, Listed, Applied
<1>3. Exists => JobsPlaced' /\ LinkedFirst'
  BY <1>1 DEF MoveInv, JobsPlaced, LinkedFirst, At
<1>4. ASSUME Exists, MovedLast
      PROVE  AllPlaced' /\ NewIsClean' /\ OldIsLast'
  <2>1. AllPlaced /\ NewIsClean /\ OldIsLast
    BY <1>4 DEF MoveInv
  <2>2. Whereabouts' = Whereabouts /\ (MovedClean' <=> MovedClean)
    BY <1>1, <1>4 DEF Whereabouts, MovedClean
  <2>3. event.calendar \in Calendars
    BY <1>0, <1>4, EventWhere
  <2>4. AllPlaced'
    BY <2>1, <2>2 DEF AllPlaced, Seen, Listed, Applied
  <2>5. CASE event' = event
    <3>1. page' # NoPage /\ page'.calendar = event.calendar =>
             (page # NoPage /\ page.calendar = event.calendar) \/ google[event.calendar] # NoCopy
      BY <2>5 DEF Listed
    <3>2. NewIsClean'
      BY <2>1, <2>2, <2>3, <2>5, <3>1 DEF NewIsClean, Seen, JobOf
    <3>3. OldIsLast'
      BY <2>1, <2>3, <2>5, <3>1 DEF OldIsLast, Seen
    <3> QED  BY <2>4, <3>2, <3>3
  <2>6. CASE Applied /\ event' # event
    <3>1. page # NoPage /\ page.calendar = event.calendar /\ page' = NoPage
      BY <2>6 DEF Applied
    <3>2. MovedClean
      BY <2>1, <3>1 DEF NewIsClean
    <3>3. OldIsLast'
      BY <1>1, <1>4, <2>1, <3>1 DEF OldIsLast, Seen
    <3> QED  BY <2>2, <2>4, <3>2, <3>3 DEF NewIsClean
  <2> QED  BY <2>4, <2>5, <2>6
<1> QED  BY <1>0, <1>1, <1>2, <1>3, <1>4 DEF MoveInv

LEMMA MoveOther ==
    ASSUME MoveInv, GoneInv', OtherStep
    PROVE  MoveInv'
<1>1. CASE Applied \/ Listed \/ EditedOutside \/ UNCHANGED <<event, jobs, google, worker, page>>
  <2>1. /\ UNCHANGED <<jobs, worker>>
        /\ \A c \in Calendars : google'[c] = NoCopy <=> google[c] = NoCopy
        /\ \/ event' = event /\ page' = NoPage
           \/ event' = event /\ page' = page
           \/ event' = event /\ Listed
           \/ Applied /\ event' # event
    BY <1>1 DEF Applied, Listed, EditedOutside
  <2> QED  BY <2>1, MoveInbound
<1> QED
  BY <1>1, MoveCreate, MoveUpdate, MoveCancel, MoveRetry DEF OtherStep


-----------------------------------------------------------------------------
(* A move leaves no copy behind: the drains *)

\* What the steps of a drain leave alone of the event's calendars.
LEMMA PlacesSteady ==
    ASSUME GoneInv, GoneInv', NEW w \in Workers, Framed(w)
    PROVE  /\ MovedLast' <=> MovedLast
           /\ \A c \in Calendars : Left(c)' <=> Left(c)
           /\ event'.calendar = event.calendar /\ event.calendar \in Calendars
           /\ Whereabouts' = Whereabouts /\ event.calendar \in Whereabouts
           /\ page' = page
<1>1. (MovedLast' <=> MovedLast) /\ \A c \in Calendars : Left(c)' <=> Left(c)
  BY LeftSteady DEF GoneInv, DeliveryInv, Framed
<1>2. event'.calendar = event.calendar /\ event.calendar \in Calendars /\ page' = page
  BY EventWhere DEF GoneInv, Framed, EventSteady
<1> QED  BY <1>1, <1>2 DEF Whereabouts

LEMMA LinkedDrain ==
    ASSUME MoveInv, GoneInv', NEW w \in Workers, DrainStep(w), Framed(w),
           \A v \in Workers \ {w} : At(v, "idle") /\ At(v, "idle")'
    PROVE  JobsPlaced' /\ LinkedFirst'
<1>0. GoneInv /\ DeliveryInv /\ Exists /\ JobsPlaced /\ LinkedFirst
  BY DEF MoveInv, GoneInv, Framed
<1>1. event.linked => event'.linked
  BY DEF DrainStep, Claimed, Passed, Took, Reserved, Stopped, Heard, Wrote, Stamped, Closed, Blamed, Killed
<1>2. JobsPlaced'
  BY <1>0, <1>1 DEF JobsPlaced, Framed, JobsSteady, JobKept
<1>3. worker'[w].step \in Calls => event'.linked
  <2>1. CASE Took(w)
    <3>1. jobs[worker[w].job] \in Job /\ worker[w].job \in Revisions
      BY <1>0, <2>1, BusyFacts DEF Took, At
    <3>2. JobOf(w).operation \in Operations
      BY <3>1 DEF Job, JobOf
    <3>3. JobOf(w).operation = "UPDATE_EVENT" => event.linked
      BY <1>0, <3>1 DEF JobsPlaced, JobOf
    <3> QED  BY <2>1, <3>2, <3>3 DEF Took, Becomes, Calls, Operations
  <2>2. CASE Reserved(w)
    BY <2>2 DEF Reserved
  <2>3. CASE Heard(w) \/ Wrote(w)
    BY <1>0, <1>1, <2>3 DEF Heard, Wrote, LinkedFirst
  <2>4. worker'[w].step \in Calls => Took(w) \/ Reserved(w) \/ Heard(w) \/ Wrote(w)
    BY DEF DrainStep, Claimed, Passed, Stopped, Stamped, Blamed, Killed, Becomes, Calls
  <2> QED  BY <2>1, <2>2, <2>3, <2>4
<1>4. At(w, "reserve")' => ~event'.linked
  BY DEF DrainStep, Claimed, Passed, Took, Reserved, Stopped, Heard, Wrote, Stamped, Blamed, Killed,
         At, Becomes, Moving
<1>5. ~event'.linked => \A c \in Calendars : google'[c] = NoCopy
  <2>1. Wrote(w) => event.linked
    BY <1>0 DEF Wrote, LinkedFirst
  <2>2. ~Wrote(w) => google' = google
    BY DEF DrainStep, Claimed, Passed, Took, Reserved, Stopped, Heard, Stamped, Closed, Blamed, Killed
  <2> QED  BY <1>0, <1>1, <2>1, <2>2 DEF LinkedFirst
<1>6. \A v \in Workers \ {w} : worker'[v].step \notin Calls /\ ~At(v, "reserve")'
  BY DEF At, Calls
<1> QED  BY <1>2, <1>3, <1>4, <1>5, <1>6 DEF LinkedFirst

\* What a change at Google does to the copies, whichever calendar it was meant for.
LEMMA WroteWhere ==
    ASSUME MoveInv, GoneInv', MovedLast, NEW w \in Workers, Wrote(w), Framed(w)
    PROVE  /\ \A c \in Calendars : google'[c] # NoCopy => google[c] # NoCopy \/ c = Seen(w).calendar
           /\ Seen(w).calendar = event.calendar /\ MovedClean => MovedClean'
           /\ Seen(w).calendar = event.calendar /\ JobOf(w).operation # "DELETE_EVENT" => MovedClean'
           /\ Seen(w).calendar # event.calendar => google'[event.calendar] = NoCopy
<1>0. GoneInv /\ DeliveryInv /\ Exists /\ NewIsClean /\ OldIsLast
  BY DEF MoveInv, GoneInv, Framed
<1>1. /\ worker[w].step \in Sending /\ worker[w].step # "idle"
      /\ Seen(w).calendar \in Calendars /\ jobs[worker[w].job] \in Job /\ worker[w].job \in Revisions
  <2>1. worker[w].step \in Sending /\ worker[w].step # "idle"
    BY DEF Wrote, Sending, Calls
  <2> QED  BY <1>0, <2>1, BusyFacts DEF Payload
<1>2. /\ event'.calendar = event.calendar /\ event.calendar \in Calendars
      /\ \A c \in Calendars : Left(c)' <=> Left(c)
  BY <1>0, PlacesSteady
<1>3. Seen(w).calendar # event.calendar => google[event.calendar] = NoCopy
  BY <1>0, <1>1 DEF OldIsLast
<1>4. CASE worker[w].step \in Moving
  <2>1. JobOf(w).previous \in Calendars
    BY <1>0, <1>4 DEF DeliveryInv, DrainOK
  <2>2. \A c \in Calendars : Left(c) => c = JobOf(w).previous
    BY <1>0, <1>1, <2>1, OneLeft, CalendarAssumption DEF JobOf, DeliveryInv
  <2>3. \A c \in Calendars : c # Seen(w).calendar =>
           google'[c] = IF c = JobOf(w).previous THEN NoCopy ELSE google[c]
    BY <1>4 DEF Wrote, Upserts, At, Moving
  <2> QED  BY <1>1, <1>2, <1>3, <2>2, <2>3 DEF MovedClean
<1>5. CASE worker[w].step \notin Moving
  <2>1. OnlyIn(Seen(w).calendar)
    BY <1>5 DEF Wrote
  <2>2. JobOf(w).operation # "DELETE_EVENT" /\ Seen(w).calendar = event.calendar => MovedClean
    BY <1>0, <1>1, <1>5 DEF NewIsClean
  <2> QED  BY <1>1, <1>2, <1>3, <2>1, <2>2 DEF MovedClean, OnlyIn
<1> QED  BY <1>4, <1>5

\* The first call for a job that moves nothing is made when nothing is left to move.
LEMMA TookClean ==
    ASSUME MoveInv, MovedLast, Exists, NEW w \in Workers, Took(w),
           worker'[w].step \in Sending \ Moving, JobOf(w).operation # "DELETE_EVENT"
    PROVE  MovedClean
<1>0. DeliveryInv /\ JobsPlaced /\ LinkedFirst
  BY DEF MoveInv, GoneInv
<1>1. jobs[worker[w].job] \in Job /\ worker[w].job \in Revisions /\ event.revision = worker[w].job
  BY <1>0, BusyFacts DEF Took, At
<1>2. CASE ~event.linked
  BY <1>0, <1>2 DEF LinkedFirst, MovedClean
<1>3. CASE event.linked
  <2>1. ~Relocates(event, JobOf(w))
    BY <1>3 DEF Took, Becomes, Sending, Calls, Moving
  <2>2. JobOf(w).previous = NoCalendar \/ JobOf(w).previous = event.calendar
    BY <1>3, <2>1 DEF Relocates
  <2>3. CASE JobOf(w).previous # NoCalendar
    <3>1. \A c \in Calendars : Left(c) => c = event.calendar
      BY <1>0, <1>1, <2>2, <2>3, OneLeft DEF JobOf, DeliveryInv
    <3> QED  BY <3>1 DEF MovedClean
  <2>4. CASE JobOf(w).previous = NoCalendar
    <3>1. event.revision = 1
      BY <1>0, <1>1, <2>4 DEF JobsPlaced, JobOf
    <3>2. \A j \in Revisions : jobs[j] \in Job => j = 1
      BY <1>0, <3>1, CalendarAssumption, NothingAssumption DEF DeliveryInv, JobsOK, Revisions
    <3>3. \A c \in Calendars : ~Left(c)
      BY <1>1, <2>4, <3>1, <3>2, CalendarAssumption DEF Left, JobOf
    <3> QED  BY <3>3 DEF MovedClean
  <2> QED  BY <2>3, <2>4
<1> QED  BY <1>2, <1>3

\* Where a drain that will be sending comes from.
LEMMA SendersCome ==
    ASSUME NEW w \in Workers, DrainStep(w), worker'[w].step \in Sending
    PROVE  /\ Took(w) \/ Reserved(w) \/ Heard(w) \/ (Wrote(w) /\ SameWork(w))
           /\ Reserved(w) \/ Heard(w) \/ Wrote(w) => worker[w].step \in Sending
           /\ ~Took(w) => SameWork(w)
           /\ Took(w) => SameJob(w) /\ worker'[w].seen = PayloadOf(event)
           /\ worker[w].step = "idle" => FALSE
<1>1. Took(w) \/ Reserved(w) \/ Heard(w) \/ (Wrote(w) /\ SameWork(w))
  BY DEF DrainStep, Claimed, Passed, Wrote, Stopped, Stamped, Blamed, Killed, Becomes, Sending, Calls
<1>2. Reserved(w) \/ Heard(w) \/ Wrote(w) => worker[w].step \in Sending
  BY DEF Reserved, Heard, Wrote, Sending, At
<1>3. Took(w) => SameJob(w) /\ worker'[w].seen = PayloadOf(event) /\ worker[w].step # "idle"
  BY DEF Took, At
<1>4. ~Took(w) => SameWork(w) /\ worker[w].step # "idle"
  BY <1>1, <1>2 DEF Reserved, Heard, Sending, Calls
<1> QED  BY <1>1, <1>2, <1>3, <1>4

LEMMA PlacedDrain ==
    ASSUME MoveInv, GoneInv', MovedLast, NEW w \in Workers, DrainStep(w), Framed(w),
           \A v \in Workers \ {w} : At(v, "idle") /\ At(v, "idle")'
    PROVE  AllPlaced'
<1>0. GoneInv /\ DeliveryInv /\ Exists /\ AllPlaced
  BY DEF MoveInv, GoneInv, Framed
<1>1. /\ Whereabouts' = Whereabouts /\ event.calendar \in Whereabouts /\ page' = page
  BY <1>0, PlacesSteady
<1>2. \A c \in Calendars : google'[c] # NoCopy => c \in Whereabouts
  <2>1. ~Wrote(w) => google' = google
    BY DEF DrainStep, Claimed, Passed, Took, Reserved, Stopped, Heard, Stamped, Closed, Blamed, Killed
  <2>2. Wrote(w) => worker[w].step \in Sending
    BY DEF Wrote, Sending
  <2>3. Wrote(w) => \A c \in Calendars : google'[c] # NoCopy => google[c] # NoCopy \/ c = Seen(w).calendar
    BY WroteWhere
  <2> QED  BY <1>0, <2>1, <2>2, <2>3 DEF AllPlaced
<1>3. worker'[w].step \in Sending => Seen(w)'.calendar \in Whereabouts
  BY <1>0, <1>1, SendersCome DEF AllPlaced, Seen, SameWork, PayloadOf
<1>4. \A v \in Workers \ {w} : worker'[v].step \notin Sending
  BY DEF At, Sending, Calls
<1> QED  BY <1>0, <1>1, <1>2, <1>3, <1>4 DEF AllPlaced

LEMMA LastDrain ==
    ASSUME MoveInv, GoneInv', MovedLast, NEW w \in Workers, DrainStep(w), Framed(w),
           \A v \in Workers \ {w} : At(v, "idle") /\ At(v, "idle")'
    PROVE  OldIsLast'
<1>0. GoneInv /\ DeliveryInv /\ Exists /\ OldIsLast
  BY DEF MoveInv, GoneInv, Framed
<1>1. page' = page /\ event'.calendar = event.calendar
  BY <1>0, PlacesSteady
<1>2. \A v \in Workers \ {w} : worker'[v].step \notin Sending
  BY DEF At, Sending, Calls
<1>3. SUFFICES ASSUME worker'[w].step \in Sending, Seen(w)'.calendar # event.calendar
               PROVE  /\ google'[event.calendar] = NoCopy
                      /\ page # NoPage => page.calendar # event.calendar
                      /\ event'.status # "SYNCED"
  BY <1>1, <1>2 DEF OldIsLast
<1>4. ~Took(w)
  BY <1>3, SendersCome DEF Seen, PayloadOf
<1>5. worker[w].step \in Sending /\ Seen(w).calendar # event.calendar
  BY <1>3, <1>4, SendersCome DEF Seen, SameWork
<1>6. /\ google[event.calendar] = NoCopy
      /\ page # NoPage => page.calendar # event.calendar
      /\ event.status # "SYNCED"
  BY <1>0, <1>5 DEF OldIsLast
<1>7. event'.status = event.status
  BY <1>3, <1>4, SendersCome DEF Reserved, Heard, Wrote
<1>8. google'[event.calendar] = NoCopy
  <2>1. CASE Wrote(w)
    BY <1>5, <2>1, WroteWhere
  <2>2. CASE ~Wrote(w)
    BY <1>3, <1>4, <1>6, <2>2, SendersCome DEF Reserved, Heard
  <2> QED  BY <2>1, <2>2
<1> QED  BY <1>6, <1>7, <1>8

LEMMA CleanDrain ==
    ASSUME MoveInv, GoneInv', MovedLast, NEW w \in Workers, DrainStep(w), Framed(w),
           \A v \in Workers \ {w} : At(v, "idle") /\ At(v, "idle")'
    PROVE  NewIsClean'
<1>0. GoneInv /\ DeliveryInv /\ Exists /\ NewIsClean /\ OldIsLast /\ SendsLatest(w)
  BY DEF MoveInv, GoneInv, Framed
<1>1. /\ page' = page /\ event'.calendar = event.calendar /\ event.calendar \in Calendars
      /\ \A c \in Calendars : Left(c)' <=> Left(c)
  BY <1>0, PlacesSteady
<1>2. google' = google => (MovedClean' <=> MovedClean)
  BY <1>1 DEF MovedClean
<1>3. /\ event'.cancelled = event.cancelled
      /\ worker[w].step # "idle" => JobOf(w).operation = jobs'[worker[w].job].operation
  BY <1>0, StepsSteady DEF JobOf
<1>4. ~Wrote(w) => google' = google
  BY DEF DrainStep, Claimed, Passed, Took, Reserved, Stopped, Heard, Stamped, Closed, Blamed, Killed
<1>5. Wrote(w) => worker[w].step \in Sending /\ event' = event
  BY DEF Wrote, Sending
<1>6. Wrote(w) => 
         /\ Seen(w).calendar = event.calendar /\ MovedClean => MovedClean'
         /\ Seen(w).calendar = event.calendar /\ JobOf(w).operation # "DELETE_EVENT" => MovedClean'
         /\ Seen(w).calendar # event.calendar => google'[event.calendar] = NoCopy
  BY WroteWhere
<1>7. Wrote(w) /\ Seen(w).calendar # event.calendar =>
         event.status # "SYNCED" /\ (page # NoPage => page.calendar # event.calendar)
  BY <1>0, <1>5 DEF OldIsLast
<1>8. Wrote(w) /\ Seen(w).calendar = event.calendar /\ JobOf(w).operation = "DELETE_EVENT" =>
         (google'[event.calendar] # NoCopy => google[event.calendar] # NoCopy)
  BY <1>0, <1>1 DEF Wrote, SendsLatest, Upserts, Moving, Calls
<1>9. google'[event.calendar] # NoCopy => MovedClean'
  BY <1>0, <1>2, <1>4, <1>6, <1>8 DEF NewIsClean
<1>10. page # NoPage /\ page.calendar = event.calendar => MovedClean'
  BY <1>0, <1>2, <1>4, <1>6, <1>7 DEF NewIsClean
<1>11. event'.status = "SYNCED" /\ ~event'.cancelled => MovedClean'
  <2>1. CASE event.status = "SYNCED"
    BY <1>0, <1>2, <1>3, <1>4, <1>6, <1>7, <2>1 DEF NewIsClean
  <2>2. CASE event.status # "SYNCED" /\ event'.status = "SYNCED" /\ ~event'.cancelled
    <3>1. Stamped(w) /\ event.revision = worker[w].job
      BY <2>2 DEF DrainStep, Claimed, Passed, Took, Reserved, Stopped, Heard, Wrote, Stamped, Closed,
                  Blamed, Killed
    <3>2. worker[w].step \in Sending \ Moving /\ At(w, "stamp") /\ google' = google
      BY <3>1 DEF Stamped, At, Sending, Moving
    <3>3. Seen(w).calendar = event.calendar
      BY <1>0, <3>1, <3>2 DEF SendsLatest, PayloadOf
    <3>4. jobs[event.revision] \in Job
      BY <1>0, <3>1, <3>2, BusyFacts DEF At
    <3>5. JobOf(w).operation # "DELETE_EVENT"
      BY <1>0, <1>3, <2>2, <3>1, <3>4 DEF DeliveryInv, JobsOK, JobOf
    <3> QED  BY <1>0, <1>2, <3>2, <3>3, <3>5 DEF NewIsClean
  <2> QED  BY <2>1, <2>2
<1>12. ASSUME worker'[w].step \in Sending \ Moving, JobOf(w)'.operation # "DELETE_EVENT",
              Seen(w)'.calendar = event.calendar
       PROVE  MovedClean'
  <2>1. JobOf(w).operation # "DELETE_EVENT"
    BY <1>3, <1>12, SendersCome DEF JobOf, SameWork, SameJob
  <2>2. CASE Took(w)
    BY <1>0, <1>2, <1>4, <1>12, <2>1, <2>2, TookClean DEF Took
  <2>3. CASE ~Took(w)
    <3>1. worker[w].step \in Sending /\ Seen(w).calendar = event.calendar
      BY <1>12, <2>3, SendersCome DEF Seen, SameWork
    <3>2. CASE Wrote(w)
      BY <1>6, <2>1, <3>1, <3>2
    <3>3. CASE worker[w].step \notin Moving /\ ~Wrote(w)
      BY <1>0, <1>2, <1>4, <2>1, <3>1, <3>3 DEF NewIsClean
    <3>4. CASE worker[w].step \in Moving /\ ~Wrote(w)
      <4>1. Heard(w) /\ google[JobOf(w).previous] = NoCopy
        BY <1>12, <2>3, <3>4, SendersCome DEF Reserved, Heard, At, Moving, Source
      <4>2. /\ JobOf(w).previous \in Calendars /\ jobs[worker[w].job] \in Job
            /\ worker[w].job \in Revisions
        BY <1>0, <3>4, BusyFacts DEF DeliveryInv, DrainOK, Moving
      <4>3. \A c \in Calendars : Left(c) => c = JobOf(w).previous
        BY <1>0, <4>2, OneLeft, CalendarAssumption DEF JobOf, DeliveryInv
      <4>4. MovedClean
        BY <4>1, <4>3 DEF MovedClean
      <4> QED  BY <1>2, <1>4, <3>4, <4>4
    <3> QED  BY <3>2, <3>3, <3>4
  <2> QED  BY <2>2, <2>3
<1>13. \A v \in Workers \ {w} : worker'[v].step \notin Sending
  BY DEF At, Sending, Calls
<1> QED  BY <1>1, <1>9, <1>10, <1>11, <1>12, <1>13 DEF NewIsClean

LEMMA MoveStep ==
    MoveInv /\ OneDrain /\ OneDrain' /\ [Next]_vars => MoveInv'
<1> SUFFICES ASSUME MoveInv, OneDrain, OneDrain', [Next]_vars  PROVE MoveInv'
  OBVIOUS
<1>1. GoneInv /\ GoneInv' /\ DeliveryInv
  BY GoneStep DEF MoveInv, GoneInv
<1>2. CASE OtherStep
  BY <1>1, <1>2, MoveOther
<1>3. ASSUME NEW w \in Workers, DrainStep(w), Framed(w)  PROVE MoveInv'
  <2>1. \A v \in Workers \ {w} : At(v, "idle") /\ At(v, "idle")'
    BY <1>3, OthersIdle DEF Framed
  <2>2. JobsPlaced' /\ LinkedFirst'
    BY <1>1, <1>3, <2>1, LinkedDrain
  <2>3. (MovedLast' <=> MovedLast) /\ Exists'
    BY <1>1, <1>3, PlacesSteady DEF Framed
  <2>4. MovedLast => AllPlaced' /\ NewIsClean' /\ OldIsLast'
    BY <1>1, <1>3, <2>1, PlacedDrain, CleanDrain, LastDrain
  <2> QED  BY <1>1, <2>2, <2>3, <2>4 DEF MoveInv
<1> QED  BY <1>1, <1>2, <1>3, NextDoes

LEMMA MoveInit == Init => MoveInv
BY GoneInit DEF Init, MoveInv, Exists

\* While one drain works at a time, a move that no later edit overtook leaves no copy behind once
\* it is delivered, however its calls failed, lost their answers and were repeated, and whatever
\* was read from and edited at Google meanwhile.
THEOREM MovesLeaveNoCopy == Spec /\ []OneDrain => []MoveLeavesNoCopy
<1>1. MoveInv /\ OneDrain /\ OneDrain' /\ [Next]_vars => MoveInv'
  BY MoveStep
<1>2. MoveInv => MoveLeavesNoCopy
  <2> SUFFICES ASSUME MoveInv, MovedLast, Exists, ~event.cancelled, event.status = "SYNCED",
                      NEW c \in Calendars \ {event.calendar}, google[c] # NoCopy
               PROVE  FALSE
    BY DEF MoveLeavesNoCopy, OneCopy
  <2>1. Left(c)
    BY DEF MoveInv, AllPlaced, Whereabouts
  <2>2. MovedClean
    BY DEF MoveInv, NewIsClean
  <2> QED  BY <2>1, <2>2 DEF MovedClean
<1> QED  BY MoveInit, <1>1, <1>2, PTL DEF Spec


-----------------------------------------------------------------------------
(* Deliveries move forward *)

\* The latest revision, if an edit to be sent made it, has contents of its own.
LatestIsOwn ==
    Exists /\ jobs[event.revision] \in Job /\ jobs[event.revision].operation # "DELETE_EVENT" =>
        event.content = event.revision

\* Google holds nothing newer than the event,
CopiesNotNewer ==
    \A c \in Calendars : google[c] # NoCopy => Exists /\ google[c].content <= event.revision

\* nor newer than what a drain is about to send, which is its job's revision.
SendsForward(w) ==
    worker[w].step \in Upserts =>
        /\ Seen(w).content = worker[w].job
        /\ \A c \in Calendars : google[c] # NoCopy => google[c].content <= worker[w].job

OrderInv ==
    /\ GoneInv
    /\ LatestIsOwn /\ CopiesNotNewer
    /\ \A w \in Workers : SendsForward(w)

\* A copy that a drain leaves at Google is the one that was there, has the
\* contents that the drain read, or was moved from another calendar.
SentBy(w) ==
    \A c \in Calendars : google'[c] # NoCopy =>
        \/ google'[c] = google[c]
        \/ worker[w].step \in Upserts /\ google'[c].content = Seen(w).content
        \/ /\ google[c] = NoCopy
           /\ \E d \in Calendars : google[d] # NoCopy /\ google'[c].content = google[d].content

LEMMA SentWrite ==
    ASSUME DeliveryInv, NEW w \in Workers, worker[w].step \in Upserts, worker[w].step \in Calls,
           Applies(w, [google EXCEPT ![Seen(w).calendar] = Fresh(Seen(w).content)], "stamp")
    PROVE  SentBy(w)
<1>1. Seen(w).calendar \in Calendars
  BY CallerFacts
<1> DEFINE fresh == Fresh(Seen(w).content)
<1>2. fresh.content = Seen(w).content
  BY DEF Fresh
<1>3. google' = [google EXCEPT ![Seen(w).calendar] = fresh]
  BY DEF Applies
<1> HIDE DEF fresh
<1>4. \A c \in Calendars : google'[c] = IF c = Seen(w).calendar THEN fresh ELSE google[c]
  BY <1>1, <1>3 DEF DeliveryInv, TypeOK
<1> QED  BY <1>2, <1>4 DEF SentBy

LEMMA SentMove ==
    ASSUME DeliveryInv, NEW w \in Workers, worker[w].step \in Moving,
           NEW absent \in {"insert", "get"}, Move(w, absent)
    PROVE  SentBy(w)
<1>1. Seen(w).calendar \in Calendars /\ JobOf(w).previous \in Calendars
  BY CallerFacts DEF Moving, Calls
<1>2. CASE google' = google
  BY <1>2 DEF SentBy
<1>3. CASE Source(w) # NoCopy /\ Target(w) = NoCopy
  <2> DEFINE moved == Fresh(Source(w).content)
  <2>1. moved.content = Source(w).content
    BY DEF Fresh
  <2>2. google' = [google EXCEPT ![JobOf(w).previous] = NoCopy, ![Seen(w).calendar] = moved]
    BY <1>3 DEF Move, Applies
  <2> HIDE DEF moved
  <2>3. \A c \in Calendars : google'[c] = IF c = Seen(w).calendar THEN moved
                                          ELSE IF c = JobOf(w).previous THEN NoCopy
                                          ELSE google[c]
    BY <1>1, <2>2 DEF DeliveryInv, TypeOK
  <2> QED  BY <1>1, <1>3, <2>1, <2>3 DEF SentBy, Source, Target
<1> QED  BY <1>2, <1>3 DEF Move, Answered, Refused

LEMMA SentStep ==
    ASSUME DeliveryInv, NEW w \in Workers, WorkerNext(w)
    PROVE  SentBy(w)
<1>1. CASE google' = google
  BY <1>1 DEF SentBy
<1>2. CASE MoveUnconfirmed(w) \/ MoveConfirmed(w)
  BY <1>2, SentMove DEF MoveUnconfirmed, MoveConfirmed, At, Moving
<1>3. CASE Insert(w) \/ Patch(w)
  <2>1. worker[w].step \in Upserts /\ worker[w].step \in Calls
    BY <1>3 DEF Insert, Patch, At, Upserts, Calls
  <2>2. \/ google' = google
        \/ Applies(w, [google EXCEPT ![Seen(w).calendar] = Fresh(Seen(w).content)], "stamp")
    BY <1>3 DEF Insert, Patch, Answered, Refused
  <2> QED  BY <1>1, <2>1, <2>2, SentWrite
<1>4. CASE Delete(w)
  <2>1. CASE google' = [google EXCEPT ![Seen(w).calendar] = NoCopy]
    BY <1>4, <2>1 DEF SentBy, DeliveryInv, TypeOK
  <2> QED  BY <1>1, <1>4, <2>1 DEF Delete, Answered, Applies
<1>5. CASE Get(w)
  BY <1>1, <1>5 DEF Get, Answered, Refused
<1> QED
  BY <1>1, <1>2, <1>3, <1>4, <1>5
     DEF WorkerNext, GoogleCall, Claim, ReadEvent, Reserve, Stamp, CloseJob, FailJob, BlameEvent, Fails,
         Crash

\* Contents are numbers.
LEMMA CopyContents ==
    ASSUME TypeOK
    PROVE  \A c \in Calendars : google[c] # NoCopy => google[c].content \in 0..MaxRevision
BY RowFacts, CalendarAssumption DEF Copy, Contents, Revisions, Outside

\* An edit that is to be sent has contents of its own.
LEMMA OwnOther ==
    ASSUME OrderInv, DeliveryInv', LocalNext \/ InboundNext \/ UNCHANGED vars
    PROVE  LatestIsOwn'
<1>0. DeliveryInv /\ LatestIsOwn
  BY DEF OrderInv, GoneInv
<1>1. CASE \E c \in Calendars : CreateEvent(c)
  BY <1>1 DEF CreateEvent, LatestIsOwn
<1>2. CASE \E c \in Calendars : UpdateEvent(c)
  <2>1. event \in Event
    BY <1>0, <1>2, RowFacts DEF DeliveryInv, UpdateEvent
  <2> QED  BY <1>2, <2>1 DEF UpdateEvent, LatestIsOwn, Event
<1>3. CASE CancelEvent
  <2>1. Cancelled
    BY <1>0, <1>3, CancelDoes
  <2> QED  BY <2>1 DEF Cancelled, Edited, LatestIsOwn
<1>4. CASE RetrySync
  <2>1. Retried
    BY <1>0, <1>4, RetryDoes
  <2>2. event.revision \in Revisions
    BY <1>0, <2>1, RowFacts DEF Retried, DeliveryInv, Event
  <2> QED
    BY <1>0, <2>1, <2>2 DEF Retried, LatestIsOwn, EventSteady, JobsSteady, JobKept
<1>5. CASE InboundNext
  <2>1. Applied \/ Listed \/ EditedOutside
    BY <1>0, <1>5, ListDoes, EditOutsideDoes, ApplyDoes DEF InboundNext
  <2>2. CASE UNCHANGED <<event, jobs>>
    BY <1>0, <2>2 DEF LatestIsOwn, Exists
  <2>3. CASE Applied /\ event' # event
    <3>1. Exists /\ event'.revision > event.revision /\ event'.revision \in Revisions /\ jobs' = jobs
      BY <1>0, <2>3, RowFacts DEF Applied, DeliveryInv
    <3>2. jobs[event'.revision] = NoJob
      BY <1>0, <3>1 DEF DeliveryInv, JobsOK
    <3> QED  BY <3>1, <3>2, NothingAssumption DEF LatestIsOwn
  <2> QED  BY <2>1, <2>2, <2>3 DEF Applied, Listed, EditedOutside
<1>6. CASE UNCHANGED vars
  BY <1>0, <1>6 DEF vars, LatestIsOwn, Exists
<1> QED  BY <1>1, <1>2, <1>3, <1>4, <1>5, <1>6 DEF LocalNext

\* The other steps leave Google's copies, or write at Google what came from outside.
LEMMA OthersSend ==
    ASSUME OrderInv, DeliveryInv', LocalNext \/ InboundNext \/ UNCHANGED vars
    PROVE  /\ \A c \in Calendars : google'[c] # NoCopy =>
                 google[c] # NoCopy /\ (google'[c] = google[c] \/ google'[c].content = Outside)
           /\ worker' = worker
           /\ Exists => Exists' /\ event.revision \in Nat /\ event'.revision \in Nat
                               /\ event'.revision >= event.revision
<1>0. DeliveryInv
  BY DEF OrderInv, GoneInv
<1>1. \A c \in Calendars : google'[c] # NoCopy =>
         google[c] # NoCopy /\ (google'[c] = google[c] \/ google'[c].content = Outside)
  <2>1. CASE \E c \in Calendars : EditOutside(c)
    <3> PICK c \in Calendars : EditOutside(c)
      BY <2>1
    <3> DEFINE fresh == Fresh(Outside)
    <3>1. fresh.content = Outside
      BY DEF Fresh
    <3>2. google[c] # NoCopy /\ google' = [google EXCEPT ![c] = fresh]
      BY DEF EditOutside
    <3> HIDE DEF fresh
    <3> QED  BY <1>0, <3>1, <3>2 DEF DeliveryInv, TypeOK
  <2>2. CASE google' = google
    BY <2>2
  <2> QED
    BY <2>1, <2>2 DEF LocalNext, InboundNext, CreateEvent, UpdateEvent, CancelEvent, RetrySync, ListPage,
                      ApplyPage, vars
<1>2. worker' = worker
  BY DEF LocalNext, InboundNext, CreateEvent, UpdateEvent, CancelEvent, RetrySync, EditOutside, ListPage,
         ApplyPage, vars
<1>3. Exists => Exists' /\ event.revision \in Nat /\ event'.revision \in Nat
                        /\ event'.revision >= event.revision
  <2>1. OtherStep
    BY <1>0, CreateDoes, UpdateDoes, CancelDoes, RetryDoes, ListDoes, EditOutsideDoes, ApplyDoes
       DEF LocalNext, InboundNext, OtherStep, vars
  <2>2. Exists => event.revision \in Nat
    BY <1>0, RowFacts DEF DeliveryInv
  <2> QED
    BY <2>1, <2>2 DEF OtherStep, Created, Updated, Cancelled, Edited, Retried, EventSteady, Applied, Listed,
                      EditedOutside, Exists
<1> QED  BY <1>1, <1>2, <1>3

LEMMA OrderOther ==
    ASSUME OrderInv, DeliveryInv', LocalNext \/ InboundNext \/ UNCHANGED vars
    PROVE  LatestIsOwn' /\ CopiesNotNewer' /\ \A w \in Workers : SendsForward(w)'
<1>0. DeliveryInv /\ CopiesNotNewer /\ \A w \in Workers : SendsForward(w)
  BY DEF OrderInv, GoneInv
<1>1. \A c \in Calendars : google[c] # NoCopy => google[c].content \in 0..MaxRevision
  BY <1>0, CopyContents DEF DeliveryInv
<1>2. CopiesNotNewer'
  BY <1>0, <1>1, OthersSend, CalendarAssumption DEF CopiesNotNewer, Outside
<1>3. \A w \in Workers : SendsForward(w)'
  <2>1. \A w \in Workers : worker[w].job \in Nat
    BY <1>0, RowFacts, CalendarAssumption DEF DeliveryInv, Drain, Revisions
  <2> QED
    BY <1>0, <1>1, <2>1, OthersSend, CalendarAssumption DEF SendsForward, Seen, Outside
<1> QED  BY <1>2, <1>3, OwnOther

\* A drain sends no contents but those of the event as it is when it reads it.
LEMMA OrderDrain ==
    ASSUME OrderInv, DeliveryInv', NEW w \in Workers, WorkerNext(w),
           \A v \in Workers \ {w} : At(v, "idle") /\ At(v, "idle")'
    PROVE  /\ LatestIsOwn' /\ CopiesNotNewer' /\ \A v \in Workers : SendsForward(v)'
           /\ \A c \in Calendars : google[c] # NoCopy /\ google'[c] # NoCopy =>
                 google'[c].content \in google[c].content .. MaxRevision
<1>0. /\ DeliveryInv /\ LatestIsOwn /\ CopiesNotNewer /\ SendsForward(w) /\ SendsLatest(w)
      /\ DrainStep(w) /\ Framed(w) /\ SentBy(w)
  BY WorkerDoes, SentStep DEF OrderInv, GoneInv
<1>1. /\ \A c \in Calendars : google[c] # NoCopy => google[c].content \in Nat
      /\ \A c \in Calendars : google'[c] # NoCopy => google'[c].content \in 0..MaxRevision
  <2>1. TypeOK /\ google' \in [Calendars -> Copy \union {NoCopy}]
    BY <1>0 DEF DeliveryInv, TypeOK
  <2>2. \A copy \in Copy : copy.content \in 0..MaxRevision
    BY CalendarAssumption DEF Copy, Contents, Revisions, Outside
  <2> QED  BY <2>1, <2>2, CopyContents, CalendarAssumption
<1>2. /\ worker[w].job \in Nat /\ event.revision \in Nat /\ event'.revision = event.revision
      /\ worker[w].step \in Upserts => worker[w].job <= event.revision
  BY <1>0, StepsSteady, RowFacts, SendersBusy, CalendarAssumption DEF DeliveryInv, Drain, Revisions
<1>3. LatestIsOwn'
  BY <1>0, StepsSteady DEF LatestIsOwn, Framed, EventSteady, JobsSteady, JobKept
<1>4. CopiesNotNewer'
  BY <1>0, <1>1, <1>2, StepsSteady DEF CopiesNotNewer, SentBy, SendsForward
<1>5. \A c \in Calendars : google[c] # NoCopy /\ google'[c] # NoCopy =>
         google'[c].content \in google[c].content .. MaxRevision
  BY <1>0, <1>1, <1>2, CalendarAssumption DEF SentBy, SendsForward
<1>6. SendsForward(w)'
  <2>1. CASE worker'[w].step \notin Upserts
    BY <2>1 DEF SendsForward
  <2>2. CASE Took(w) /\ worker'[w].step \in Upserts
    <3>1. /\ worker'[w].job = worker[w].job /\ worker[w].job = event.revision /\ google' = google
          /\ worker'[w].seen = PayloadOf(event) /\ worker[w].step # "idle"
          /\ JobOf(w).operation # "DELETE_EVENT"
      BY <2>2 DEF Took, SameJob, At, Becomes, Upserts, Calls
    <3>2. event.content = event.revision
      BY <1>0, <3>1, StepsSteady DEF LatestIsOwn, JobOf
    <3>3. worker'[w].seen.content = event.content
      BY <3>1 DEF PayloadOf
    <3> QED  BY <1>0, <3>1, <3>2, <3>3 DEF SendsForward, CopiesNotNewer, Seen
  <2>3. CASE ~Took(w) /\ worker'[w].step \in Upserts
    <3>1. SameWork(w) /\ worker[w].step \in Upserts
      BY <1>0, <2>3 DEF DrainStep, Claimed, Passed, Reserved, Stopped, Heard, Wrote, Stamped, Blamed, Killed,
                        At, Becomes, Upserts, Calls, Moving
    <3> QED
      BY <1>0, <1>1, <1>2, <3>1 DEF SendsForward, SentBy, SameWork, SameJob, Seen
  <2> QED  BY <2>1, <2>2, <2>3
<1>7. \A v \in Workers \ {w} : SendsForward(v)'
  BY DEF SendsForward, At, Upserts, Calls
<1> QED  BY <1>3, <1>4, <1>5, <1>6, <1>7

LEMMA OrderStep ==
    OrderInv /\ OneDrain /\ OneDrain' /\ [Next]_vars =>
        /\ OrderInv'
        /\ \A c \in Calendars : google[c] # NoCopy /\ google'[c] # NoCopy =>
              google'[c].content \in {Outside} \union (google[c].content .. MaxRevision)
<1> SUFFICES ASSUME OrderInv, OneDrain, OneDrain', [Next]_vars
             PROVE  /\ OrderInv'
                    /\ \A c \in Calendars : google[c] # NoCopy /\ google'[c] # NoCopy =>
                          google'[c].content \in {Outside} \union (google[c].content .. MaxRevision)
  OBVIOUS
<1>1. GoneInv' /\ DeliveryInv /\ DeliveryInv'
  BY GoneStep DEF OrderInv, GoneInv
<1>2. CASE LocalNext \/ InboundNext \/ UNCHANGED vars
  <2>1. \A c \in Calendars : google[c] # NoCopy => google[c].content \in google[c].content .. MaxRevision
    BY <1>1, CopyContents, CalendarAssumption DEF DeliveryInv
  <2> QED  BY <1>1, <1>2, <2>1, OrderOther, OthersSend DEF OrderInv
<1>3. CASE \E w \in Workers : WorkerNext(w)
  <2> PICK w \in Workers : WorkerNext(w)
    BY <1>3
  <2>1. \A v \in Workers \ {w} : At(v, "idle") /\ At(v, "idle")'
    BY <1>1, WorkerDoes, OthersIdle DEF Framed
  <2> QED  BY <1>1, <2>1, OrderDrain DEF OrderInv
<1> QED  BY <1>2, <1>3 DEF Next

LEMMA OrderInit == Init => OrderInv
BY GoneInit, SMTT(30)
   DEF Init, OrderInv, LatestIsOwn, CopiesNotNewer, SendsForward, IdleWorker, Exists, Upserts, Calls

\* While one drain works at a time, no delivery puts contents at Google over those of a later edit.
\* (Two drains can: the run cal_race shows how.)
THEOREM DeliveriesMoveForward == Spec /\ []OneDrain => GoogleNeverOlder
<1>1. OrderInv /\ OneDrain /\ OneDrain' /\ [Next]_vars =>
         OrderInv' /\ [\A c \in Calendars : google[c] # NoCopy /\ google'[c] # NoCopy =>
            google'[c].content \in {Outside} \union (google[c].content .. MaxRevision)]_vars
  BY OrderStep
<1> QED  BY OrderInit, <1>1, PTL DEF Spec, GoogleNeverOlder

=============================================================================
