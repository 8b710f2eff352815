------------------------------ MODULE KBotQueue ------------------------------
(***************************************************************************)
(* The messages the K-Bot sends on an agent's behalf: follow-ups the agent *)
(* asks for (src/lib/kbot-followup/) and proposals raised by a date or a   *)
(* lapse (src/lib/kbot-messaging/).  Both are jobs of one table, reserve   *)
(* credit in the same grants and reach the same contacts.                  *)
(*                                                                         *)
(* Most transactions hold the agent's advisory lock from first to last:    *)
(* one action each.  A claim, the release of leases and what is noted      *)
(* after a send do not, so a transaction under the lock may find a job     *)
(* otherwise than it read it (Stop).  Between two statements of a process  *)
(* are calls to a model, to Chatwoot and to WhatsApp.                      *)
(*                                                                         *)
(* The recency window of a week passes at no point: a message sent stays   *)
(* recent.  Shorter windows (a lease, the day of an authorization, the two *)
(* days of a proposal) may have passed at any time.  Left out: texts, the  *)
(* contact's preferences, which enter as refusals, requests for several    *)
(* candidates at once, the daily ceiling of model calls, notifications.    *)
(***************************************************************************)
EXTENDS Integers, FiniteSets, Functions, FiniteSetsExt

CONSTANTS
    Followups,      \* candidates the agent may ask to follow up, each once
    Proposals,      \* events that may raise a proposal, each once
    Contact,        \* the number of each
    Timers,         \* server processes: one drain of follow-ups each
    Passes,         \* calls of the scheduled-messages route that may overlap
    LastGrant,      \* credit grants are 1..LastGrant, by expiry; 1 is the free one
    Allowance,      \* tokens of each grant
    Reservation,    \* TOKEN_RESERVATION
    Costs,          \* tokens a model call may have used
    Receipts,       \* what WhatsApp may tell of a message that went out
    NoJob

Jobs == Followups \union Proposals
Processes == Timers \union Passes
Grants == 1..LastGrant

ASSUME QueueAssumption ==
    /\ Followups \intersect Proposals = {} /\ Timers \intersect Passes = {}
    /\ NoJob \notin Jobs
    /\ LastGrant \in Nat \ {0} /\ Allowance \in [Grants -> Nat]
    /\ Reservation \in Nat \ {0} /\ Costs \subseteq Nat \ {0}
    /\ Receipts \subseteq {"SENT", "DELIVERED", "READ"}

VARIABLES
    job,        \* KBotFollowupJob rows
    credit,     \* their credit: its state, and the allocations by grant
    grants,     \* KBotCreditGrant rows
    work,       \* what each process is in the middle of
    gateway     \* WhatsApp: whether it was given a job's message, how often, and what came of it

vars == <<job, credit, grants, work, gateway>>

Sent == {"SENT", "DELIVERED", "READ"}
Unconfirmed == {"DISPATCHING", "ACCEPTED", "UNKNOWN"}
Queued == {"PENDING", "PREPARING"}
Active == Queued \union {"CANCEL_REQUESTED"} \union Unconfirmed
Statuses == {"NONE", "AWAITING_APPROVAL", "FAILED", "CANCELLED"} \union Active \union Sent

\* text: the row carries the text that the agent reads before releasing it.
JobRow == [status : Statuses, lease : {"none", "live", "over"}, text : BOOLEAN]
NoRow == [status |-> "NONE", lease |-> "none", text |-> FALSE]
NoCredit == [state |-> "NONE", held |-> [g \in Grants |-> 0]]

\* What a process executes next, for which job, and what the model or WhatsApp told it.
WorkRow ==
    [at : {"idle", "queueing", "charging", "preparing", "billing", "rechecking", "writing", "settling",
           "failing", "sending", "recording", "cancelling", "expiring", "reconciling"},
     job : Jobs \union {NoJob}, cost : Costs \union {0}, usable : BOOLEAN,
     answer : {"NONE", "FAILED", "ACCEPTED", "UNKNOWN"} \union Sent]
Idle == [at |-> "idle", job |-> NoJob, cost |-> 0, usable |-> FALSE, answer |-> "NONE"]

Init ==
    /\ job = [j \in Jobs |-> NoRow]
    /\ credit = [j \in Jobs |-> NoCredit]
    /\ grants = [g \in Grants |-> [state |-> IF g = 1 THEN "open" ELSE "none", reserved |-> 0, spent |-> 0]]
    /\ work = [w \in Processes |-> Idle]
    /\ gateway = [j \in Jobs |-> [given |-> 0, state |-> "NONE"]]

\* The next statement of w, which needs nothing of the last, and the end of its work.
Goto(w, at) == work' = [work EXCEPT ![w] = [Idle EXCEPT !.at = at, !.job = work[w].job]]
Finish(w) == work' = [work EXCEPT ![w] = Idle]

-----------------------------------------------------------------------------
(* Credit *)

Room == [g \in Grants |-> IF grants[g].state # "open" THEN 0
                          ELSE Max({0, Allowance[g] - grants[g].reserved - grants[g].spent})]

Affordable == SumFunction(Room) >= Reservation

\* Taking n tokens from what there is, first from the grant that expires first.
Fill(room, n) ==
    [g \in Grants |-> Max({0, Min({room[g], n - SumFunctionOnSet(room, 1..(g - 1))})})]

\* What each job took from the grant, its row in KBotCreditAllocation.
HeldFrom(g) == [j \in Jobs |-> credit[j].held[g]]

\* Mutant: whatever its state, a job's reservation is given back.
ReleaseAgain(J) ==
    /\ grants' = [g \in Grants |-> [grants[g] EXCEPT !.reserved = @ - SumFunctionOnSet(HeldFrom(g), J)]]
    /\ credit' = [j \in Jobs |-> IF j \in J THEN [credit[j] EXCEPT !.state = "RELEASED"] ELSE credit[j]]

\* The reservations of the jobs J, if they still have them, go back.
Release(J) ==
    LET held == {j \in J : credit[j].state = "RESERVED"}
    IN  /\ grants' = [g \in Grants |-> [grants[g] EXCEPT
                        !.reserved = @ - SumFunctionOnSet(HeldFrom(g), held)]]
        /\ credit' = [j \in Jobs |-> IF j \in held THEN [credit[j] EXCEPT !.state = "RELEASED"] ELSE credit[j]]

\* Mutant: a call is paid on top of the reservation, which stays.
ChargeOnTop(j, cost) ==
    /\ grants' = [g \in Grants |-> [grants[g] EXCEPT !.spent = @ + Fill(credit[j].held, Min({Reservation, cost}))[g]]]
    /\ credit' = [credit EXCEPT ![j].state = "SPENT"]

\* A model call is paid from the job's reservation, never above it.
Charge(j, cost) ==
    IF credit[j].state # "RESERVED" THEN UNCHANGED <<credit, grants>>
    ELSE /\ grants' = [g \in Grants |-> [grants[g] EXCEPT
                        !.reserved = @ - credit[j].held[g],
                        !.spent = @ + Fill(credit[j].held, Min({Reservation, cost}))[g]]]
         /\ credit' = [credit EXCEPT ![j].state = "SPENT"]

SettledRow(row, status) == [row EXCEPT !.status = status, !.lease = "none"]

SettleJob(j, status) ==
    /\ job' = [job EXCEPT ![j] = SettledRow(@, status)]
    /\ Release({j})

-----------------------------------------------------------------------------
(* Raising jobs *)

\* Mutant: a message without an answer is taken for one that was not sent.
ClearOfConfirmed(j) ==
    \A k \in Jobs \ {j} : Contact[k] = Contact[j] => job[k].status \notin (Active \union Sent) \ {"UNKNOWN"}

\* Nothing of any category is queued, on its way or sent to the same number.
Clear(j) == \A k \in Jobs \ {j} : Contact[k] = Contact[j] => job[k].status \notin Active \union Sent

Queueable(j) == job[j].status = "NONE" /\ Clear(j) /\ Affordable

\* The row, its reservation, and the charge for a text that was paid before it.
Queue(j, status, text, cost) ==
    LET held == Fill(Room, Reservation)
        paid == cost > 0
    IN  /\ job' = [job EXCEPT ![j] = [status |-> status, text |-> text, lease |-> "none"]]
        /\ credit' = [credit EXCEPT ![j] = [held |-> held, state |-> IF paid THEN "SPENT" ELSE "RESERVED"]]
        /\ grants' = [g \in Grants |-> [grants[g] EXCEPT
                        !.reserved = IF paid THEN @ ELSE @ + held[g],
                        !.spent = @ + Fill(held, Min({Reservation, cost}))[g]]]

\* The agent asks for a follow-up.
StartFollowup(j) ==
    /\ j \in Followups /\ Queueable(j)
    /\ Queue(j, "PENDING", FALSE, 0)
    /\ UNCHANGED <<work, gateway>>

\* A pass raises a proposal without asking the model: the agent's template, or
\* a category that sends by itself and is written at dispatch.
QueueTemplate(w, j) ==
    /\ w \in Passes /\ j \in Proposals /\ work[w] = Idle /\ Queueable(j)
    /\ \/ Queue(j, "AWAITING_APPROVAL", TRUE, 0)
       \/ Queue(j, "PENDING", FALSE, 0)
    /\ UNCHANGED <<work, gateway>>

\* Or the model writes it first; without a usable text there is only its cost.
Propose(w, j) ==
    /\ w \in Passes /\ j \in Proposals /\ work[w] = Idle /\ Queueable(j)
    /\ \E cost \in Costs, at \in {"queueing", "charging"} :
        work' = [work EXCEPT ![w] = [Idle EXCEPT !.at = at, !.job = j, !.cost = cost]]
    /\ UNCHANGED <<job, credit, grants, gateway>>

\* The checks are made again under the lock; the contact may have refused since.
QueueWritten(w) ==
    /\ work[w].at = "queueing"
    /\ \/ /\ Queueable(work[w].job)
          /\ Queue(work[w].job, "AWAITING_APPROVAL", TRUE, work[w].cost)
          /\ Finish(w)
       \/ /\ work' = [work EXCEPT ![w].at = "charging"]
          /\ UNCHANGED <<job, credit, grants>>
    /\ UNCHANGED gateway

\* A call that produced no job is charged to the grants themselves.
ChargeUnqueued(w) ==
    /\ work[w].at = "charging"
    /\ grants' = [g \in Grants |-> [grants[g] EXCEPT
                    !.spent = @ + Fill(Room, Min({Reservation, work[w].cost}))[g]]]
    /\ Finish(w)
    /\ UNCHANGED <<job, credit, gateway>>

Approve(j) ==
    /\ j \in Proposals /\ job[j].status = "AWAITING_APPROVAL"
    /\ job' = [job EXCEPT ![j].status = "PENDING"]
    /\ UNCHANGED <<credit, grants, work, gateway>>

\* The agent discards a proposal, or nobody releases it in two days.
Discard(j) ==
    /\ j \in Proposals /\ job[j].status = "AWAITING_APPROVAL"
    /\ SettleJob(j, "CANCELLED")
    /\ UNCHANGED <<work, gateway>>

-----------------------------------------------------------------------------
(* Working on jobs *)

Progress == [s \in Sent |-> CASE s = "SENT" -> 1 [] s = "DELIVERED" -> 2 [] s = "READ" -> 3]

\* A status settles a scheduled job once; a follow-up's receipts only advance.
MaySettle(w, j, status) ==
    IF w \in Passes THEN job[j].status \notin {"FAILED", "CANCELLED"} \union Sent
    ELSE /\ job[j].status \notin {"FAILED", "CANCELLED", "READ"}
         /\ job[j].status \in Sent => status \in Sent /\ Progress[status] > Progress[job[j].status]

Terminal(w, j, status) ==
    IF MaySettle(w, j, status) THEN SettleJob(j, status) ELSE UNCHANGED <<job, credit, grants>>

\* Mutant: a send without an answer is tried again.
NoteOrRetry(j, status) ==
    /\ job' = IF job[j].status \in Unconfirmed
              THEN [job EXCEPT ![j].status = IF status = "UNKNOWN" THEN "PENDING" ELSE status] ELSE job
    /\ UNCHANGED <<credit, grants>>

\* What is noted after a send needs no lock: only an unconfirmed job takes it.
Note(j, status) ==
    /\ job' = IF job[j].status \in Unconfirmed THEN [job EXCEPT ![j].status = status] ELSE job
    /\ UNCHANGED <<credit, grants>>

\* The grant that a job is counted in: the first that it reserved from.
GrantOf(j) == Min({g \in Grants : credit[j].held[g] > 0})

\* Each drain takes its own category, PENDING rows that nobody else has locked.
Claim(w, j) ==
    /\ work[w] = Idle /\ job[j].status = "PENDING"
    /\ w \in Timers <=> j \in Followups
    /\ w \in Timers => grants[GrantOf(j)].state = "open"
    /\ job' = [job EXCEPT ![j] = [@ EXCEPT !.status = "PREPARING", !.lease = "live"]]
    /\ work' = [work EXCEPT ![w] = [Idle EXCEPT !.at = "preparing", !.job = j]]
    /\ UNCHANGED <<credit, grants, gateway>>

\* The grant expired, or its attempts are used up.
LimitReached(w, j) ==
    /\ w \in Timers /\ j \in Followups /\ work[w] = Idle /\ job[j].status = "PENDING"
    /\ SettleJob(j, "FAILED")
    /\ UNCHANGED <<work, gateway>>

\* A call fails, or what was read for the job forbids it: before anything was
\* handed to WhatsApp the job fails.
Fail(w) ==
    /\ work[w].at \in {"preparing", "writing", "settling", "billing", "rechecking", "failing"}
    /\ Terminal(w, work[w].job, "FAILED")
    /\ Finish(w)
    /\ UNCHANGED gateway

\* A follow-up is generated before it is dispatched ...
Generate(w) ==
    /\ w \in Timers /\ work[w].at = "preparing"
    /\ \E cost \in Costs, usable \in BOOLEAN :
        work' = [work EXCEPT ![w].at = "billing", ![w].cost = cost, ![w].usable = usable]
    /\ UNCHANGED <<job, credit, grants, gateway>>

\* ... and paid, also when it was cancelled meanwhile.
BillGeneration(w) ==
    /\ work[w].at = "billing"
    /\ LET j == work[w].job
       IN  /\ Charge(j, work[w].cost)
           /\ job' = IF work[w].usable /\ job[j].status = "CANCEL_REQUESTED"
                     THEN [job EXCEPT ![j] = SettledRow(@, "CANCELLED")] ELSE job
    /\ Goto(w, IF work[w].usable THEN "rechecking" ELSE "failing")
    /\ UNCHANGED gateway

\* The decision to send, under the lock.  The contact may have refused since,
\* and for a proposal it may be too late in the day (quiet hours) or the window
\* may have closed; a follow-up's window is the one it was raised in.
Dispatch(w) ==
    /\ work[w].at = IF w \in Passes THEN "preparing" ELSE "rechecking"
    /\ LET j == work[w].job
           owned == job[j].status = "PREPARING" /\ job[j].lease = "live"
       IN  \/ ~owned /\ Finish(w) /\ UNCHANGED <<job, credit, grants>>
           \/ owned /\ SettleJob(j, "CANCELLED") /\ Finish(w)
           \/ /\ owned /\ w \in Passes /\ Clear(j)
              /\ job' = [job EXCEPT ![j] = SettledRow(@, "PENDING")]
              /\ Finish(w) /\ UNCHANGED <<credit, grants>>
           \/ /\ owned /\ (w \in Passes => Clear(j))
              /\ job' = [job EXCEPT ![j] = SettledRow(@, "DISPATCHING")]
              /\ Goto(w, IF w \in Passes THEN "writing" ELSE "sending")
              /\ UNCHANGED <<credit, grants>>
    /\ UNCHANGED gateway

\* A proposal without a text is written once it is certain to go out; a text
\* that was approved is sent as it was read.
Write(w) ==
    /\ work[w].at = "writing"
    /\ \E cost \in Costs \union {0}, usable \in BOOLEAN :
        /\ job[work[w].job].text => cost = 0 /\ usable
        /\ work' = [work EXCEPT ![w].at = "settling", ![w].cost = cost, ![w].usable = usable]
    /\ UNCHANGED <<job, credit, grants, gateway>>

\* Its credit is settled before it is sent: charged, or given back unused.
SettleCredit(w) ==
    /\ work[w].at = "settling"
    /\ IF work[w].cost > 0 THEN Charge(work[w].job, work[w].cost) ELSE Release({work[w].job})
    /\ Goto(w, IF work[w].usable THEN "sending" ELSE "failing")
    /\ UNCHANGED <<job, gateway>>

\* WhatsApp takes the message or not; its answer says so, or nothing.
Send(w) ==
    /\ work[w].at = "sending"
    /\ \E outcome \in {"NONE", "OUT", "FAILED"}, answer \in {"SENT", "FAILED", "ACCEPTED", "UNKNOWN"} :
        /\ answer = "SENT" => outcome = "OUT"
        /\ answer = "FAILED" => outcome = "FAILED"
        /\ answer = "ACCEPTED" => outcome # "NONE"
        /\ gateway' = [gateway EXCEPT ![work[w].job] = [given |-> @.given + 1, state |-> outcome]]
        /\ work' = [work EXCEPT ![w].at = "recording", ![w].answer = answer]
    /\ UNCHANGED <<job, credit, grants>>

\* Without a definite answer, or when recording it fails, the send stays
\* unconfirmed: it is never repeated.
Record(w) ==
    /\ work[w].at = "recording"
    /\ \/ work[w].answer \in {"SENT", "FAILED"} /\ Terminal(w, work[w].job, work[w].answer)
       \/ work[w].answer = "ACCEPTED" /\ Note(work[w].job, "ACCEPTED")
       \/ Note(work[w].job, "UNKNOWN")
    /\ Finish(w)
    /\ UNCHANGED gateway

-----------------------------------------------------------------------------
(* Maintenance, faults and everything else that happens *)

\* Mutant: a follow-up whose cancellation was requested is left to its worker.
FindStaleUnlessCancelled(w, j) ==
    /\ w \in Timers /\ j \in Followups /\ work[w] = Idle
    /\ \/ job[j].status = "PENDING"
          /\ work' = [work EXCEPT ![w] = [Idle EXCEPT !.at = "cancelling", !.job = j]]
       \/ job[j].status = "PREPARING" /\ job[j].lease = "over"
          /\ work' = [work EXCEPT ![w] = [Idle EXCEPT !.at = "expiring", !.job = j]]
    /\ UNCHANGED <<job, credit, grants, gateway>>

\* The timer finds a follow-up whose day is over or whose lease ran out ...
FindStale(w, j) ==
    /\ w \in Timers /\ j \in Followups /\ work[w] = Idle
    /\ \/ job[j].status = "PENDING"
          /\ work' = [work EXCEPT ![w] = [Idle EXCEPT !.at = "cancelling", !.job = j]]
       \/ job[j].status \in {"PREPARING", "CANCEL_REQUESTED"} /\ job[j].lease = "over"
          /\ work' = [work EXCEPT ![w] = [Idle EXCEPT !.at = "expiring", !.job = j]]
    /\ UNCHANGED <<job, credit, grants, gateway>>

\* ... and ends it.
EndStale(w) ==
    /\ work[w].at \in {"cancelling", "expiring"}
    /\ Terminal(w, work[w].job, IF work[w].at = "cancelling" THEN "CANCELLED" ELSE "FAILED")
    /\ Finish(w)
    /\ UNCHANGED gateway

\* A job of any category unconfirmed for a day.
GiveUp(w, j) ==
    /\ w \in Timers /\ work[w] = Idle /\ job[j].status \in {"ACCEPTED", "DISPATCHING"}
    /\ Note(j, "UNKNOWN")
    /\ UNCHANGED <<work, gateway>>

\* The timer asks WhatsApp about a job of any category that was on its way;
\* the receipts it reads there are never behind the message, but may be old
\* by the time they are recorded.
AskReceipt(w, j) ==
    /\ w \in Timers /\ work[w] = Idle /\ job[j].status \in Unconfirmed \union {"SENT", "DELIVERED"}
    /\ \E answer \in Receipts \union {"FAILED", "ACCEPTED", "UNKNOWN"} :
        /\ answer \in Sent => gateway[j].state = "OUT"
        /\ answer = "FAILED" => gateway[j].state = "FAILED"
        /\ answer = "ACCEPTED" => gateway[j].state # "NONE"
        /\ work' = [work EXCEPT ![w] = [Idle EXCEPT !.at = "reconciling", !.job = j, !.answer = answer]]
    /\ UNCHANGED <<job, credit, grants, gateway>>

RecordReceipt(w) ==
    /\ work[w].at = "reconciling"
    /\ IF work[w].answer \in Sent \union {"FAILED"} THEN Terminal(w, work[w].job, work[w].answer)
       ELSE Note(work[w].job, work[w].answer)
    /\ Finish(w)
    /\ UNCHANGED gateway

\* A pass puts back the proposals whose worker died.
ReleaseLeases(w) ==
    /\ w \in Passes /\ work[w] = Idle
    /\ LET dead == {j \in Proposals : job[j].status = "PREPARING" /\ job[j].lease = "over"}
       IN  /\ dead # {}
           /\ job' = [j \in Jobs |-> IF j \in dead THEN SettledRow(job[j], "PENDING") ELSE job[j]]
    /\ UNCHANGED <<credit, grants, work, gateway>>

\* The agent cancels a follow-up, or notes of a contact that it was called or
\* wants no messages, which stops whatever is queued to it.  A row may have
\* been claimed, or its lease released, between the read and the write.
Stop(J) ==
    /\ \E seen \in [J -> Queued] :
        /\ \A j \in J : job[j].status \in Queued /\ (seen[j] = "PREPARING" /\ job[j].status = "PENDING" => j \in Proposals)
        /\ job' = [j \in Jobs |->
                    IF j \notin J THEN job[j]
                    ELSE IF seen[j] = "PREPARING" THEN [job[j] EXCEPT !.status = "CANCEL_REQUESTED"]
                    ELSE SettledRow(job[j], "CANCELLED")]
        /\ Release({j \in J : seen[j] = "PENDING"})
    /\ UNCHANGED <<work, gateway>>

\* What one such request stops.
Stoppable ==
    {{j} : j \in Followups} \union
    {{j \in Jobs : Contact[j] = c /\ job[j].status \in Queued} : c \in {Contact[j] : j \in Jobs}}

LeaseRunsOut(j) ==
    /\ job[j].lease = "live"
    /\ job' = [job EXCEPT ![j].lease = "over"]
    /\ UNCHANGED <<credit, grants, work, gateway>>

\* The server or the request's process is killed.
Crash(w) ==
    /\ work[w] # Idle
    /\ Finish(w)
    /\ UNCHANGED <<job, credit, grants, gateway>>

\* A message that WhatsApp had taken does not arrive.
Bounce(j) ==
    /\ gateway[j].state = "OUT"
    /\ gateway' = [gateway EXCEPT ![j].state = "FAILED"]
    /\ UNCHANGED <<job, credit, grants, work>>

GrantPaid(g) ==
    /\ grants[g].state = "none"
    /\ grants' = [grants EXCEPT ![g].state = "open"]
    /\ UNCHANGED <<job, credit, work, gateway>>

ExpireGrant(g) ==
    /\ grants[g].state = "open"
    /\ grants' = [grants EXCEPT ![g].state = "expired"]
    /\ UNCHANGED <<job, credit, work, gateway>>

-----------------------------------------------------------------------------
Step(w) ==
    \/ QueueWritten(w) \/ ChargeUnqueued(w) \/ Fail(w) \/ Generate(w) \/ BillGeneration(w)
    \/ Dispatch(w) \/ Write(w) \/ SettleCredit(w) \/ Send(w) \/ Record(w) \/ EndStale(w) \/ RecordReceipt(w)

Next ==
    \/ \E j \in Jobs : StartFollowup(j) \/ Approve(j) \/ Discard(j) \/ LeaseRunsOut(j) \/ Bounce(j)
    \/ \E w \in Processes, j \in Jobs :
        \/ QueueTemplate(w, j) \/ Propose(w, j) \/ Claim(w, j) \/ LimitReached(w, j)
        \/ FindStale(w, j) \/ GiveUp(w, j) \/ AskReceipt(w, j)
    \/ \E w \in Processes : Step(w) \/ ReleaseLeases(w) \/ Crash(w)
    \/ \E J \in Stoppable : J # {} /\ Stop(J)
    \/ \E g \in Grants : GrantPaid(g) \/ ExpireGrant(g)

Spec == Init /\ [][Next]_vars

\* The timers tick for ever and take up what they find: a follow-up that stays
\* stale is found, also by a process that has other work at times, and ended.
FairSpec ==
    /\ Spec
    /\ \A w \in Timers : WF_vars(Step(w))
    /\ \A j \in Followups :
        /\ WF_vars(LeaseRunsOut(j))
        /\ SF_vars(\E w \in Timers : FindStale(w, j))
        /\ SF_vars(\E w \in Timers : work[w].job = j /\ EndStale(w))

-----------------------------------------------------------------------------
(* Properties *)

TypeOK ==
    /\ job \in [Jobs -> JobRow]
    /\ credit \in [Jobs -> [state : {"NONE", "RESERVED", "SPENT", "RELEASED"}, held : [Grants -> Nat]]]
    /\ grants \in [Grants -> [state : {"none", "open", "expired"}, reserved : Nat, spent : Nat]]
    /\ gateway \in [Jobs -> [given : Nat, state : {"NONE", "OUT", "FAILED"}]]
    /\ work \in [Processes -> WorkRow]

\* What a grant holds in reserve is what its unfinished jobs reserved, and it
\* never promises more than it is: no reservation is charged twice, returned
\* twice or lost, whoever settles the job and whatever dies on the way
\* (settleJob, settleGeneration, releaseReservation, spendWithoutJob).
CreditsConserved ==
    \A g \in Grants :
        /\ grants[g].reserved =
              SumFunctionOnSet(HeldFrom(g), {j \in Jobs : credit[j].state = "RESERVED"})
        /\ grants[g].reserved + grants[g].spent <= Allowance[g]

\* A job is given to WhatsApp once at most, however many workers claim it,
\* lose their lease over it and claim it again ("a retry could send it twice",
\* src/lib/kbot-messaging/scheduled-worker.ts:303).
HandedOverOnce == \A j \in Jobs : gateway[j].given <= 1

\* Two messages reach one contact in a week only if the records say of one of
\* them that it failed or was cancelled, whichever of the two kinds each is and
\* however long either waited ("the recency window that stops a client being
\* texted twice in a week", prisma/schema.prisma:2955).
OneMessageInAWeek ==
    \A j, k \in Jobs :
        j # k /\ Contact[j] = Contact[k] /\ gateway[j].state = "OUT" /\ gateway[k].state = "OUT" =>
            {job[j].status, job[k].status} \intersect {"FAILED", "CANCELLED"} # {}

\* A follow-up never stays in preparation: it is sent, it fails or it is
\* cancelled, whatever dies, so that its credit and its contact are free again.
FollowupsEnd ==
    \A j \in Followups :
        job[j].status \in Queued \union {"CANCEL_REQUESTED"} ~> job[j].status \notin Queued \union {"CANCEL_REQUESTED"}

=============================================================================
