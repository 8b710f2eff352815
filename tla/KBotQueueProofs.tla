--------------------------- MODULE KBotQueueProofs ---------------------------
(***************************************************************************)
(* KBotQueue, for any number of processes, jobs, contacts and grants: no   *)
(* message is given to WhatsApp twice, no two reach one contact in a week, *)
(* and what a grant holds in reserve is what its open reservations took.   *)
(***************************************************************************)
EXTENDS KBotQueue, FiniteSetTheorems, WellFoundedInduction, TLAPS

\* What the argument needs of the types; credit plays no part in it.
Typed ==
    /\ job \in [Jobs -> JobRow]
    /\ work \in [Processes -> WorkRow]
    /\ gateway \in [Jobs -> [given : Nat, state : {"NONE", "OUT", "FAILED"}]]

\* A job that was dispatched never comes back into the queue.
Out == Unconfirmed \union Sent
Past == Out \union {"FAILED", "CANCELLED"}
Live == Active \union Sent
PastKept == \A j \in Jobs : job[j].status \in Past => job'[j].status \in Past

\* About to send; having sent or read a receipt; generating a follow-up.
Sending(row) == row.at \in {"writing", "settling", "sending"}
Dispatched(row) == Sending(row) \/ row.at \in {"recording", "reconciling"}
Generating(row) == row.at \in {"preparing", "billing", "rechecking"}

\* The processes about to send have dispatched jobs of their own, which
\* WhatsApp was not given.
HandInv ==
    /\ \A w \in Processes : work[w].at # "idle" => work[w].job \in Jobs
    /\ \A w \in Processes : Dispatched(work[w]) => job[work[w].job].status \in Past
    /\ \A w \in Processes : work[w].at = "reconciling" => work[w].answer # "NONE"
    /\ \A w \in Processes : Sending(work[w]) => gateway[work[w].job].given = 0
    /\ \A v, w \in Processes : Sending(work[v]) /\ Sending(work[w]) /\ work[v].job = work[w].job => v = w
    /\ \A j \in Jobs : /\ gateway[j].given <= 1
                       /\ gateway[j].given # 0 => job[j].status \in Past
                       /\ gateway[j].given = 0 => gateway[j].state = "NONE"

\* Of two jobs to one contact at most one is out; a follow-up is raised when
\* nothing else is queued or out, and keeps other jobs from going out.
Week(j, k) ==
    /\ ~(job[j].status \in Out /\ job[k].status \in Out)
    /\ j \in Followups /\ k \in Followups => ~(job[j].status \in Live /\ job[k].status \in Live)
    /\ j \in Followups /\ job[k].status \in Out => job[j].status \notin Live

WeekInv ==
    /\ \A j, k \in Jobs : j # k /\ Contact[j] = Contact[k] => Week(j, k)
    /\ \A w \in Timers : Generating(work[w]) => work[w].job \in Followups

QueueInv == Typed /\ HandInv /\ WeekInv

-----------------------------------------------------------------------------
(* What a step does to the processes. *)

\* One process goes on, or none does.
Goes(w, row) == w \in Processes /\ row \in WorkRow /\ work' = [work EXCEPT ![w] = row]

LEMMA Rows ==
    ASSUME QueueAssumption
    PROVE  /\ Idle \in WorkRow /\ Idle.at = "idle"
           /\ NoRow \in JobRow
BY DEF Idle, WorkRow, NoRow, JobRow, Statuses, Active, Queued, Unconfirmed

LEMMA GotoRow ==
    ASSUME QueueAssumption, Typed, NEW w \in Processes,
           NEW at \in {"idle", "queueing", "charging", "preparing", "billing", "rechecking", "writing", "settling",
                       "failing", "sending", "recording", "cancelling", "expiring", "reconciling"},
           Goto(w, at)
    PROVE  /\ work' \in [Processes -> WorkRow]
           /\ work'[w].at = at /\ work'[w].job = work[w].job
           /\ \A v \in Processes \ {w} : work'[v] = work[v]
<1>1. [Idle EXCEPT !.at = at, !.job = work[w].job] \in WorkRow
  BY DEF Typed, Idle, WorkRow
<1>2. QED
  BY <1>1 DEF Typed, Goto, Idle, WorkRow

LEMMA FinishRow ==
    ASSUME QueueAssumption, Typed, NEW w \in Processes, Finish(w)
    PROVE  /\ work' \in [Processes -> WorkRow]
           /\ work'[w].at = "idle"
           /\ \A v \in Processes \ {w} : work'[v] = work[v]
BY Rows DEF Typed, Finish

\* No process becomes one that sends or records.
Calm ==
    \A w \in Processes :
        \/ work'[w] = work[w]
        \/ /\ ~Dispatched(work'[w])
           /\ work'[w].at # "idle" => work'[w].job \in Jobs

LEMMA CalmHands ==
    ASSUME QueueInv, PastKept, Calm, gateway' = gateway
    PROVE  HandInv'
BY DEF QueueInv, HandInv, PastKept, Calm, Dispatched, Sending, Typed

-----------------------------------------------------------------------------
(* What a step does to the jobs. *)

\* A job leaves the queue for good, stays in it, or stays out.
Moves(s, t) ==
    \/ t = s
    \/ t \notin Live /\ (s \in Past => t \in Past)
    \/ s \in Live \ Out /\ t \in Live \ Out
    \/ s \in Out /\ t \in Out

LEMMA MovesKeep ==
    ASSUME QueueInv, job' \in [Jobs -> JobRow],
           \A j \in Jobs : Moves(job[j].status, job'[j].status),
           \A w \in Timers : Generating(work'[w]) => work'[w].job \in Followups
    PROVE  WeekInv' /\ PastKept
<1>1. \A j \in Jobs : /\ job'[j].status \in Live => job[j].status \in Live
                      /\ job'[j].status \in Out => job[j].status \in Out
  BY DEF Moves, Live, Out, Active
<1>2. WeekInv'
  BY <1>1 DEF QueueInv, WeekInv, Week, Jobs
<1>3. PastKept
  BY DEF PastKept, Moves, Past, Live, Out, Active, Queued, Unconfirmed, Sent
<1>4. QED
  BY <1>2, <1>3

\* Only the row of j changes.
Only(j) == job' \in [Jobs -> JobRow] /\ \A k \in Jobs \ {j} : job'[k] = job[k]

\* A job is raised, released by the agent, or dispatched.
LEMMA EntersKeep ==
    ASSUME QueueInv, NEW j \in Jobs, Only(j), job[j].status \notin Past,
           \/ Clear(j)
           \/ j \in Proposals /\ j \notin Followups /\ job'[j].status \notin Out
           \/ j \in Followups /\ job[j].status \in Live,
           \A w \in Timers : Generating(work'[w]) => work'[w].job \in Followups
    PROVE  WeekInv' /\ PastKept
<1>1. PastKept
  BY DEF PastKept, Only
<1>2. ASSUME NEW k \in Jobs, j # k, Contact[j] = Contact[k]
      PROVE  Week(j, k)' /\ Week(k, j)'
  <2>1. job'[k] = job[k]
    BY <1>2 DEF Only
  <2>2. Week(j, k) /\ Week(k, j)
    BY <1>2 DEF QueueInv, WeekInv
  <2>3. Clear(j) => job[k].status \notin Live
    BY <1>2 DEF Clear, Live
  <2>4. Out \subseteq Live
    BY DEF Out, Live, Active
  <2>5. QED
    BY <2>1, <2>2, <2>3, <2>4 DEF Week
<1>3. ASSUME NEW h \in Jobs, NEW k \in Jobs, h # k, Contact[h] = Contact[k]
      PROVE  Week(h, k)'
  <2>1. CASE h = j \/ k = j
    BY <1>2, <1>3, <2>1
  <2>2. CASE h # j /\ k # j
    BY <1>3, <2>2 DEF QueueInv, WeekInv, Week, Only
  <2>3. QED
    BY <2>1, <2>2
<1>4. QED
  BY <1>1, <1>3 DEF WeekInv

LEMMA Settled ==
    ASSUME QueueInv, NEW j \in Jobs, NEW s \in Statuses, job' = [job EXCEPT ![j] = SettledRow(@, s)]
    PROVE  Only(j) /\ job'[j].status = s
BY DEF QueueInv, Typed, Only, SettledRow, JobRow

LEMMA OneMoves ==
    ASSUME NEW j \in Jobs, Only(j), Moves(job[j].status, job'[j].status)
    PROVE  /\ job' \in [Jobs -> JobRow]
           /\ \A k \in Jobs : Moves(job[k].status, job'[k].status)
BY DEF Only, Moves

LEMMA NoneMoves ==
    ASSUME QueueInv, job' = job
    PROVE  /\ job' \in [Jobs -> JobRow]
           /\ \A k \in Jobs : Moves(job[k].status, job'[k].status)
BY DEF QueueInv, Typed, Moves

\* A terminal status leaves the queue; a receipt is for a job that is out.
LEMMA TerminalMoves ==
    ASSUME QueueInv, NEW w \in Processes, NEW j \in Jobs, NEW s \in Sent \union {"FAILED", "CANCELLED"},
           Terminal(w, j, s), s \in Sent => job[j].status \in Past
    PROVE  /\ job' \in [Jobs -> JobRow]
           /\ \A k \in Jobs : Moves(job[k].status, job'[k].status)
<1>1. CASE ~MaySettle(w, j, s)
  BY <1>1, NoneMoves DEF Terminal
<1>2. CASE MaySettle(w, j, s)
  <2>1. job' = [job EXCEPT ![j] = SettledRow(@, s)]
    BY <1>2 DEF Terminal, SettleJob
  <2>2. Only(j) /\ job'[j].status = s
    BY <2>1, Settled DEF Statuses
  <2>3. job[j].status \notin {"FAILED", "CANCELLED"}
    BY <1>2 DEF MaySettle
  <2>4. Moves(job[j].status, s)
    BY <2>3 DEF Moves, Past, Out, Live, Active, Queued, Unconfirmed, Sent
  <2>5. QED
    BY <2>2, <2>4, OneMoves
<1>3. QED
  BY <1>1, <1>2

LEMMA NoteMoves ==
    ASSUME QueueInv, NEW j \in Jobs, NEW s \in Unconfirmed, Note(j, s)
    PROVE  /\ job' \in [Jobs -> JobRow]
           /\ \A k \in Jobs : Moves(job[k].status, job'[k].status)
<1>1. CASE job[j].status \notin Unconfirmed
  BY <1>1, NoneMoves DEF Note
<1>2. CASE job[j].status \in Unconfirmed
  <2>1. Only(j) /\ job'[j].status = s
    BY <1>2 DEF Note, QueueInv, Typed, Only, JobRow, Statuses, Active
  <2>2. QED
    BY <1>2, <2>1, OneMoves DEF Moves, Out
<1>3. QED
  BY <1>1, <1>2

-----------------------------------------------------------------------------
(* The actions *)

\* An action that leaves WhatsApp alone and lets no process come to send.
LEMMA CalmStep ==
    ASSUME QueueInv, Calm, gateway' = gateway, work' \in [Processes -> WorkRow],
           job' \in [Jobs -> JobRow], WeekInv', PastKept
    PROVE  QueueInv'
BY CalmHands DEF QueueInv, Typed

\* Such an action of one process, which goes on in a row of its own.
LEMMA GoesCalmly ==
    ASSUME QueueInv, NEW w \in Processes, work' \in [Processes -> WorkRow],
           \A v \in Processes \ {w} : work'[v] = work[v],
           ~Dispatched(work'[w]), work'[w].at # "idle" => work'[w].job \in Jobs,
           w \in Timers /\ Generating(work'[w]) => work'[w].job \in Followups
    PROVE  Calm /\ \A v \in Timers : Generating(work'[v]) => work'[v].job \in Followups
<1>1. Calm
  BY DEF Calm
<1>2. ASSUME NEW v \in Timers, Generating(work'[v])
      PROVE  work'[v].job \in Followups
  <2>1. CASE v = w
    BY <1>2, <2>1
  <2>2. CASE v # w
    BY <1>2, <2>2 DEF QueueInv, WeekInv, Processes
  <2>3. QED
    BY <2>1, <2>2
<1>3. QED
  BY <1>1, <1>2

LEMMA SameWork ==
    ASSUME QueueInv, work' = work
    PROVE  /\ Calm /\ work' \in [Processes -> WorkRow]
           /\ \A v \in Timers : Generating(work'[v]) => work'[v].job \in Followups
<1>1. Calm /\ work' \in [Processes -> WorkRow]
  BY DEF Calm, QueueInv, Typed
<1>2. QED
  BY <1>1 DEF QueueInv, WeekInv

LEMMA FinishesCalmly ==
    ASSUME QueueAssumption, QueueInv, NEW w \in Processes, Finish(w)
    PROVE  /\ Calm /\ work' \in [Processes -> WorkRow]
           /\ \A v \in Timers : Generating(work'[v]) => work'[v].job \in Followups
<1>1. work' \in [Processes -> WorkRow] /\ work'[w].at = "idle" /\ \A v \in Processes \ {w} : work'[v] = work[v]
  BY FinishRow DEF QueueInv
<1>2. QED
  BY <1>1, GoesCalmly DEF Dispatched, Sending, Generating

\* A process that goes on with its job, neither sending nor recording.
LEMMA GoesOn ==
    ASSUME QueueAssumption, QueueInv, NEW w \in Processes, work[w].job \in Jobs,
           NEW at \in {"charging", "billing", "rechecking", "failing"}, Goto(w, at),
           w \in Timers => work[w].job \in Followups
    PROVE  /\ Calm /\ work' \in [Processes -> WorkRow]
           /\ \A v \in Timers : Generating(work'[v]) => work'[v].job \in Followups
<1>1. work' \in [Processes -> WorkRow] /\ work'[w].at = at /\ work'[w].job = work[w].job
      /\ \A v \in Processes \ {w} : work'[v] = work[v]
  BY GotoRow DEF QueueInv
<1>2. QED
  BY <1>1, GoesCalmly DEF Dispatched, Sending, Generating

\* Raising a job: its contact is clear.
LEMMA Queued1 ==
    ASSUME QueueAssumption, QueueInv, NEW j \in Jobs, Queueable(j),
           NEW s \in {"PENDING", "AWAITING_APPROVAL"}, NEW text \in BOOLEAN, NEW cost \in Nat, Queue(j, s, text, cost)
    PROVE  Only(j) /\ Clear(j) /\ job[j].status \notin Past
<1>1. job' = [job EXCEPT ![j] = [status |-> s, text |-> text, lease |-> "none"]]
  BY DEF Queue
<1>2. Only(j)
  BY <1>1 DEF QueueInv, Typed, Only, JobRow, Statuses, Active, Queued
<1>3. QED
  BY <1>2 DEF Queueable, Past, Out, Unconfirmed, Sent

LEMMA Raises ==
    ASSUME QueueAssumption, QueueInv, NEW j \in Jobs, StartFollowup(j) \/ \E w \in Processes : QueueTemplate(w, j)
    PROVE  QueueInv'
<1>1. Calm /\ work' \in [Processes -> WorkRow]
      /\ \A v \in Timers : Generating(work'[v]) => work'[v].job \in Followups
  BY SameWork DEF StartFollowup, QueueTemplate
<1>2. Only(j) /\ Clear(j) /\ job[j].status \notin Past
  <2>1. Queueable(j) /\ \E s \in {"PENDING", "AWAITING_APPROVAL"}, text \in BOOLEAN : Queue(j, s, text, 0)
    BY DEF StartFollowup, QueueTemplate
  <2>2. QED
    BY <2>1, Queued1
<1>3. WeekInv' /\ PastKept
  BY <1>1, <1>2, EntersKeep
<1>4. QED
  BY <1>1, <1>2, <1>3, CalmStep DEF Only, StartFollowup, QueueTemplate

LEMMA ProposeStep ==
    ASSUME QueueAssumption, QueueInv, NEW w \in Processes, NEW j \in Jobs, Propose(w, j)
    PROVE  QueueInv'
<1>1. PICK cost \in Costs, at \in {"queueing", "charging"} :
        work' = [work EXCEPT ![w] = [Idle EXCEPT !.at = at, !.job = j, !.cost = cost]]
  BY DEF Propose
<1>2. [Idle EXCEPT !.at = at, !.job = j, !.cost = cost] \in WorkRow
  BY DEF Idle, WorkRow
<1>3. /\ work' \in [Processes -> WorkRow] /\ \A v \in Processes \ {w} : work'[v] = work[v]
      /\ work'[w].at = at /\ work'[w].job = j
  BY <1>1, <1>2 DEF QueueInv, Typed, Idle
<1>4. Calm /\ \A v \in Timers : Generating(work'[v]) => work'[v].job \in Followups
  BY <1>3, GoesCalmly DEF Dispatched, Sending, Generating
<1>5. job' \in [Jobs -> JobRow] /\ WeekInv' /\ PastKept
  BY <1>4, NoneMoves, MovesKeep DEF Propose
<1>6. QED
  BY <1>3, <1>4, <1>5, CalmStep DEF Propose

LEMMA QueueWrittenStep ==
    ASSUME QueueAssumption, QueueInv, NEW w \in Processes, QueueWritten(w)
    PROVE  QueueInv'
<1> DEFINE j == work[w].job
<1>0. j \in Jobs /\ work[w].cost \in Nat
  BY DEF QueueWritten, QueueInv, HandInv, Typed, WorkRow, QueueAssumption
<1>1. CASE Queueable(j) /\ Queue(j, "AWAITING_APPROVAL", TRUE, work[w].cost) /\ Finish(w)
  <2>1. Only(j) /\ Clear(j) /\ job[j].status \notin Past
    BY <1>0, <1>1, Queued1
  <2>2. Calm /\ work' \in [Processes -> WorkRow] /\ \A v \in Timers : Generating(work'[v]) => work'[v].job \in Followups
    BY <1>1, FinishesCalmly
  <2>3. WeekInv' /\ PastKept
    BY <1>0, <2>1, <2>2, EntersKeep
  <2>4. QED
    BY <2>1, <2>2, <2>3, CalmStep DEF Only, QueueWritten
<1>2. CASE work' = [work EXCEPT ![w].at = "charging"] /\ UNCHANGED job
  <2>1. /\ work' \in [Processes -> WorkRow] /\ \A v \in Processes \ {w} : work'[v] = work[v]
        /\ work'[w].at = "charging" /\ work'[w].job = j
    <3> DEFINE row == [work[w] EXCEPT !.at = "charging"]
    <3>1. row \in WorkRow /\ row.at = "charging" /\ row.job = j
      BY DEF QueueInv, Typed, WorkRow
    <3>2. work' = [work EXCEPT ![w] = row]
      BY <1>2
    <3> HIDE DEF row
    <3> QED  BY <3>1, <3>2 DEF QueueInv, Typed
  <2>2. Calm /\ \A v \in Timers : Generating(work'[v]) => work'[v].job \in Followups
    BY <1>0, <2>1, GoesCalmly DEF Dispatched, Sending, Generating
  <2>3. job' \in [Jobs -> JobRow] /\ WeekInv' /\ PastKept
    BY <1>2, <2>2, NoneMoves, MovesKeep
  <2>4. QED
    BY <2>1, <2>2, <2>3, CalmStep DEF QueueWritten
<1>3. QED
  BY <1>1, <1>2 DEF QueueWritten

LEMMA ApproveStep ==
    ASSUME QueueAssumption, QueueInv, NEW j \in Jobs, Approve(j)
    PROVE  QueueInv'
<1>1. Only(j) /\ job'[j].status = "PENDING"
  BY DEF Approve, Only, QueueInv, Typed, JobRow, Statuses, Active, Queued
<1>2. Calm /\ work' \in [Processes -> WorkRow] /\ \A v \in Timers : Generating(work'[v]) => work'[v].job \in Followups
  BY SameWork DEF Approve
<1>3. j \in Proposals /\ j \notin Followups /\ job[j].status \notin Past /\ job'[j].status \notin Out
  BY <1>1 DEF Approve, QueueAssumption, Past, Out, Unconfirmed, Sent
<1>4. WeekInv' /\ PastKept
  BY <1>1, <1>2, <1>3, EntersKeep
<1>5. QED
  BY <1>1, <1>2, <1>4, CalmStep DEF Only, Approve

\* An action whose jobs only leave the queue or stay where they are.
LEMMA MovesStep ==
    ASSUME QueueInv, Calm, gateway' = gateway, work' \in [Processes -> WorkRow],
           \A v \in Timers : Generating(work'[v]) => work'[v].job \in Followups,
           job' \in [Jobs -> JobRow], \A k \in Jobs : Moves(job[k].status, job'[k].status)
    PROVE  QueueInv'
BY MovesKeep, CalmStep

LEMMA DiscardStep ==
    ASSUME QueueAssumption, QueueInv, NEW j \in Jobs,
           Discard(j) \/ \E w \in Processes : LimitReached(w, j)
    PROVE  QueueInv'
<1>1. PICK s \in {"CANCELLED", "FAILED"} : job' = [job EXCEPT ![j] = SettledRow(@, s)]
  BY DEF Discard, LimitReached, SettleJob
<1>2. Only(j) /\ job'[j].status = s
  BY <1>1, Settled DEF Statuses
<1>3. job[j].status \notin {"FAILED", "CANCELLED"} /\ job[j].status \notin Past
  BY DEF Discard, LimitReached, Past, Out, Unconfirmed, Sent
<1>4. Moves(job[j].status, job'[j].status)
  BY <1>2, <1>3 DEF Moves, Live, Active, Queued, Unconfirmed, Sent
<1>5. UNCHANGED <<work, gateway>>
  BY DEF Discard, LimitReached
<1>6. QED
  BY <1>2, <1>4, <1>5, OneMoves, SameWork, MovesStep

LEMMA ClaimStep ==
    ASSUME QueueAssumption, QueueInv, NEW w \in Processes, NEW j \in Jobs, Claim(w, j)
    PROVE  QueueInv'
<1> DEFINE row == [job[j] EXCEPT !.status = "PREPARING", !.lease = "live"]
<1>0. job[j] \in JobRow /\ "PREPARING" \in Statuses
  BY DEF QueueInv, Typed, Statuses, Active, Queued
<1>a. row \in JobRow /\ row.status = "PREPARING"
  BY <1>0 DEF JobRow
<1>b. job' = [job EXCEPT ![j] = row]
  BY DEF Claim
<1>1. Only(j) /\ job'[j].status = "PREPARING"
  BY <1>a, <1>b DEF Only, QueueInv, Typed
<1>2. Moves(job[j].status, job'[j].status)
  BY <1>1 DEF Claim, Moves, Live, Out, Active, Queued, Unconfirmed, Sent
<1>3. [Idle EXCEPT !.at = "preparing", !.job = j] \in WorkRow
  BY DEF Idle, WorkRow
<1>4. /\ work' \in [Processes -> WorkRow] /\ \A v \in Processes \ {w} : work'[v] = work[v]
      /\ work'[w].at = "preparing" /\ work'[w].job = j
  BY <1>3 DEF Claim, QueueInv, Typed, Idle
<1>5. Calm /\ \A v \in Timers : Generating(work'[v]) => work'[v].job \in Followups
  BY <1>4, GoesCalmly DEF Claim, Dispatched, Sending
<1>6. QED
  BY <1>1, <1>2, <1>4, <1>5, OneMoves, MovesStep DEF Claim

\* The steps that end a process's work with a terminal status, or drop it.
LEMMA EndsStep ==
    ASSUME QueueAssumption, QueueInv, NEW w \in Processes,
           Fail(w) \/ EndStale(w) \/ Record(w) \/ RecordReceipt(w) \/ Crash(w)
    PROVE  QueueInv'
<1> DEFINE j == work[w].job
<1>1. work[w].at # "idle" => j \in Jobs
  BY DEF QueueInv, HandInv
<1>2. work[w].at \in {"recording", "reconciling"} => job[j].status \in Past
  BY DEF QueueInv, HandInv, Dispatched
<1>3. job' \in [Jobs -> JobRow] /\ \A k \in Jobs : Moves(job[k].status, job'[k].status)
  <2>1. CASE Fail(w)
    BY <1>1, <2>1, TerminalMoves DEF Fail, Sent
  <2>2. CASE EndStale(w)
    <3>1. PICK s \in {"CANCELLED", "FAILED"} : Terminal(w, j, s)
      BY <2>2 DEF EndStale
    <3>2. QED
      BY <1>1, <2>2, <3>1, TerminalMoves DEF EndStale, Sent
  <2>3. CASE Record(w)
    BY <1>1, <1>2, <2>3, TerminalMoves, NoteMoves DEF Record, Sent, Unconfirmed
  <2>4. CASE RecordReceipt(w)
    <3>1. work[w].answer \in {"FAILED", "ACCEPTED", "UNKNOWN"} \union Sent
      BY <2>4 DEF RecordReceipt, QueueInv, HandInv, Typed, WorkRow
    <3>2. CASE work[w].answer \in Sent \union {"FAILED"}
      BY <1>1, <1>2, <2>4, <3>2, TerminalMoves DEF RecordReceipt
    <3>3. CASE work[w].answer \in {"ACCEPTED", "UNKNOWN"}
      BY <1>1, <2>4, <3>3, NoteMoves DEF RecordReceipt, Sent, Unconfirmed
    <3>4. QED
      BY <3>1, <3>2, <3>3
  <2>5. CASE Crash(w)
    BY <2>5, NoneMoves DEF Crash
  <2>6. QED
    BY <2>1, <2>2, <2>3, <2>4, <2>5
<1>4. Finish(w) /\ gateway' = gateway
  BY DEF Fail, EndStale, Record, RecordReceipt, Crash
<1>5. QED
  BY <1>3, <1>4, FinishesCalmly, MovesStep

LEMMA GenerateStep ==
    ASSUME QueueAssumption, QueueInv, NEW w \in Processes, Generate(w)
    PROVE  QueueInv'
<1>1. PICK cost \in Costs, usable \in BOOLEAN :
        work' = [work EXCEPT ![w].at = "billing", ![w].cost = cost, ![w].usable = usable]
  BY DEF Generate
<1>2. work[w] \in WorkRow /\ work[w].job \in Jobs /\ work[w].job \in Followups
  BY DEF Generate, QueueInv, Typed, HandInv, WeekInv, Generating
<1>3. /\ work' \in [Processes -> WorkRow] /\ \A v \in Processes \ {w} : work'[v] = work[v]
      /\ work'[w].at = "billing" /\ work'[w].job = work[w].job
  BY <1>1, <1>2 DEF QueueInv, Typed, WorkRow
<1>4. Calm /\ \A v \in Timers : Generating(work'[v]) => work'[v].job \in Followups
  BY <1>2, <1>3, GoesCalmly DEF Dispatched, Sending
<1>5. QED
  BY <1>3, <1>4, NoneMoves, MovesStep DEF Generate

LEMMA BillStep ==
    ASSUME QueueAssumption, QueueInv, NEW w \in Processes, BillGeneration(w)
    PROVE  QueueInv'
<1> DEFINE j == work[w].job
<1>1. j \in Jobs /\ (w \in Timers => j \in Followups)
  BY DEF BillGeneration, QueueInv, HandInv, WeekInv, Generating
<1>2. job' \in [Jobs -> JobRow] /\ \A k \in Jobs : Moves(job[k].status, job'[k].status)
  <2>1. CASE job' = job
    BY <2>1, NoneMoves
  <2>2. CASE job[j].status = "CANCEL_REQUESTED" /\ job' = [job EXCEPT ![j] = SettledRow(@, "CANCELLED")]
    <3>1. Only(j) /\ job'[j].status = "CANCELLED"
      BY <1>1, <2>2, Settled DEF Statuses
    <3>2. Moves(job[j].status, job'[j].status)
      BY <2>2, <3>1 DEF Moves, Past, Out, Live, Active, Queued, Unconfirmed, Sent
    <3>3. QED
      BY <1>1, <3>1, <3>2, OneMoves
  <2>3. QED
    BY <2>1, <2>2 DEF BillGeneration
<1>3. Calm /\ work' \in [Processes -> WorkRow] /\ \A v \in Timers : Generating(work'[v]) => work'[v].job \in Followups
  BY <1>1, GoesOn DEF BillGeneration
<1>4. QED
  BY <1>2, <1>3, MovesStep DEF BillGeneration

\* A job in preparation was not given to WhatsApp, and nobody else is sending it.
LEMMA DispatchStep ==
    ASSUME QueueAssumption, QueueInv, NEW w \in Processes, Dispatch(w)
    PROVE  QueueInv'
<1> DEFINE j == work[w].job
           owned == job[j].status = "PREPARING" /\ job[j].lease = "live"
<1>1. j \in Jobs /\ (w \in Timers => j \in Followups)
  BY DEF Dispatch, QueueInv, HandInv, WeekInv, Generating
<1>2. Finish(w) => /\ Calm /\ work' \in [Processes -> WorkRow] /\ gateway' = gateway
                   /\ \A v \in Timers : Generating(work'[v]) => work'[v].job \in Followups
  BY FinishesCalmly DEF Dispatch
<1>3. CASE Finish(w) /\ UNCHANGED job
  BY <1>2, <1>3, NoneMoves, MovesStep
<1>4. CASE owned /\ Finish(w) /\ \E s \in {"CANCELLED", "PENDING"} : job' = [job EXCEPT ![j] = SettledRow(@, s)]
  <2>1. PICK s \in {"CANCELLED", "PENDING"} : job' = [job EXCEPT ![j] = SettledRow(@, s)]
    BY <1>4
  <2>2. Only(j) /\ job'[j].status = s
    BY <1>1, <2>1, Settled DEF Statuses, Active, Queued
  <2>3. Moves(job[j].status, job'[j].status)
    BY <1>4, <2>2 DEF Moves, Past, Out, Live, Active, Queued, Unconfirmed, Sent
  <2>4. QED
    BY <1>1, <1>2, <1>4, <2>2, <2>3, OneMoves, MovesStep
<1>5. CASE /\ owned /\ (w \in Passes => Clear(j))
           /\ job' = [job EXCEPT ![j] = SettledRow(@, "DISPATCHING")]
           /\ Goto(w, IF w \in Passes THEN "writing" ELSE "sending")
  <2>1. Only(j) /\ job'[j].status = "DISPATCHING"
    BY <1>1, <1>5, Settled DEF Statuses, Active, Unconfirmed
  <2>2. PICK at \in {"writing", "sending"} : Goto(w, at)
    BY <1>5
  <2>3. /\ work' \in [Processes -> WorkRow] /\ \A v \in Processes \ {w} : work'[v] = work[v]
        /\ work'[w].at = at /\ work'[w].job = j
    BY <2>2, GotoRow DEF QueueInv
  <2>4. job[j].status \notin Past /\ job[j].status \in Live /\ gateway' = gateway
    BY <1>5 DEF Dispatch, Past, Out, Live, Active, Queued, Unconfirmed, Sent
  <2>5. \A v \in Timers : Generating(work'[v]) => work'[v].job \in Followups
    BY <2>3 DEF Generating, QueueInv, WeekInv, Processes
  <2>6. WeekInv' /\ PastKept
    BY <1>1, <1>5, <2>1, <2>4, <2>5, EntersKeep DEF Processes
  <2>7. gateway[j].given = 0 /\ \A v \in Processes : Dispatched(work[v]) => work[v].job # j
    BY <1>1, <2>4 DEF QueueInv, HandInv
  <2>8. "DISPATCHING" \in Past
    BY DEF Past, Out, Unconfirmed
  <2>9. HandInv'
    BY <1>1, <2>1, <2>3, <2>4, <2>6, <2>7, <2>8 DEF QueueInv, HandInv, Dispatched, Sending, PastKept
  <2>10. QED
    BY <2>1, <2>3, <2>4, <2>6, <2>9 DEF QueueInv, Typed, Only
<1>6. QED
  BY <1>3, <1>4, <1>5 DEF Dispatch, SettleJob

\* A process about to send goes on, with the job it has dispatched.
LEMMA GoesOnSending ==
    ASSUME QueueInv, NEW w \in Processes, Sending(work[w]), work' \in [Processes -> WorkRow],
           \A v \in Processes \ {w} : work'[v] = work[v],
           work'[w].at \in {"settling", "sending"}, work'[w].job = work[w].job, UNCHANGED <<job, gateway>>
    PROVE  QueueInv'
<1>1. \A v \in Timers : Generating(work'[v]) => work'[v].job \in Followups
  BY DEF Generating, QueueInv, WeekInv, Processes
<1>2. job' \in [Jobs -> JobRow] /\ WeekInv' /\ PastKept
  BY <1>1, NoneMoves, MovesKeep
<1>3. HandInv'
  BY <1>2 DEF QueueInv, HandInv, Dispatched, Sending
<1>4. QED
  BY <1>2, <1>3 DEF QueueInv, Typed

LEMMA WriteStep ==
    ASSUME QueueAssumption, QueueInv, NEW w \in Processes, Write(w)
    PROVE  QueueInv'
<1>1. PICK cost \in Costs \union {0}, usable \in BOOLEAN :
        work' = [work EXCEPT ![w].at = "settling", ![w].cost = cost, ![w].usable = usable]
  BY DEF Write
<1>2. /\ work' \in [Processes -> WorkRow] /\ \A v \in Processes \ {w} : work'[v] = work[v]
      /\ work'[w].at = "settling" /\ work'[w].job = work[w].job
  <2>1. work[w] \in WorkRow
    BY DEF QueueInv, Typed
  <2>2. QED
    BY <1>1, <2>1 DEF QueueInv, Typed, WorkRow
<1>3. QED
  BY <1>2, GoesOnSending DEF Write, Sending

LEMMA SettleCreditStep ==
    ASSUME QueueAssumption, QueueInv, NEW w \in Processes, SettleCredit(w)
    PROVE  QueueInv'
<1>1. PICK at \in {"sending", "failing"} : Goto(w, at)
  BY DEF SettleCredit
<1>2. /\ work' \in [Processes -> WorkRow] /\ \A v \in Processes \ {w} : work'[v] = work[v]
      /\ work'[w].at = at /\ work'[w].job = work[w].job
  BY <1>1, GotoRow DEF QueueInv
<1>3. CASE at = "sending"
  BY <1>2, <1>3, GoesOnSending DEF SettleCredit, Sending
<1>4. CASE at = "failing"
  <2>1. work'[w].job \in Jobs
    BY <1>2 DEF SettleCredit, QueueInv, HandInv
  <2>2. Calm /\ \A v \in Timers : Generating(work'[v]) => work'[v].job \in Followups
    BY <1>2, <1>4, <2>1, GoesCalmly DEF Dispatched, Sending, Generating
  <2>3. QED
    BY <1>2, <2>2, NoneMoves, MovesStep DEF SettleCredit
<1>5. QED
  BY <1>3, <1>4

\* WhatsApp is given the message: it had not been, and nobody else will give it.
LEMMA SendStep ==
    ASSUME QueueAssumption, QueueInv, NEW w \in Processes, Send(w)
    PROVE  QueueInv'
<1> DEFINE j == work[w].job
<1>1. PICK outcome \in {"NONE", "OUT", "FAILED"}, answer \in {"SENT", "FAILED", "ACCEPTED", "UNKNOWN"} :
        /\ gateway' = [gateway EXCEPT ![j] = [given |-> @.given + 1, state |-> outcome]]
        /\ work' = [work EXCEPT ![w].at = "recording", ![w].answer = answer]
  BY DEF Send
<1>2. j \in Jobs /\ gateway[j].given = 0 /\ job[j].status \in Past
      /\ \A v \in Processes \ {w} : Sending(work[v]) => work[v].job # j
  BY DEF Send, QueueInv, HandInv, Sending, Dispatched
<1>3. /\ work' \in [Processes -> WorkRow] /\ \A v \in Processes \ {w} : work'[v] = work[v]
      /\ work'[w].at = "recording" /\ work'[w].job = j
  <2>1. work[w] \in WorkRow
    BY DEF QueueInv, Typed
  <2>2. QED
    BY <1>1, <2>1, ZenonT(60) DEF QueueInv, Typed, WorkRow, Sent
<1>4. /\ gateway' \in [Jobs -> [given : Nat, state : {"NONE", "OUT", "FAILED"}]]
      /\ gateway'[j].given = 1 /\ \A k \in Jobs \ {j} : gateway'[k] = gateway[k]
  BY <1>1, <1>2 DEF QueueInv, Typed
<1>5. \A v \in Timers : Generating(work'[v]) => work'[v].job \in Followups
  BY <1>3 DEF Generating, QueueInv, WeekInv, Processes
<1>6. job' = job /\ job' \in [Jobs -> JobRow] /\ WeekInv'
  BY <1>5, NoneMoves, MovesKeep DEF Send
<1>7. HandInv'
  <2>1. ~Sending(work'[w]) /\ Dispatched(work'[w]) /\ work'[w].at # "reconciling"
    BY <1>3 DEF Sending, Dispatched
  <2>2. ASSUME NEW v \in Processes
        PROVE  /\ work'[v].at # "idle" => work'[v].job \in Jobs
               /\ Dispatched(work'[v]) => job'[work'[v].job].status \in Past
               /\ work'[v].at = "reconciling" => work'[v].answer # "NONE"
               /\ Sending(work'[v]) => v # w /\ Sending(work[v]) /\ gateway'[work'[v].job].given = 0
    <3>1. CASE v = w
      BY <1>2, <1>3, <1>6, <2>1, <3>1
    <3>2. CASE v # w
      <4>1. work'[v] = work[v]
        BY <1>3, <3>2
      <4>2. Sending(work[v]) => work[v].job \in Jobs \ {j}
        BY <1>2, <3>2 DEF QueueInv, HandInv, Sending
      <4>3. QED
        BY <1>4, <1>6, <3>2, <4>1, <4>2 DEF QueueInv, HandInv
    <3>3. QED
      BY <3>1, <3>2
  <2>3. ASSUME NEW u \in Processes, NEW v \in Processes, Sending(work'[u]), Sending(work'[v]), work'[u].job = work'[v].job
        PROVE  u = v
    BY <1>3, <2>2, <2>3 DEF QueueInv, HandInv
  <2>4. ASSUME NEW k \in Jobs
        PROVE  /\ gateway'[k].given <= 1
               /\ gateway'[k].given # 0 => job'[k].status \in Past
               /\ gateway'[k].given = 0 => gateway'[k].state = "NONE"
    BY <1>2, <1>4, <1>6 DEF QueueInv, HandInv
  <2>5. QED
    BY <2>2, <2>3, <2>4 DEF HandInv
<1>8. QED
  BY <1>3, <1>4, <1>6, <1>7 DEF QueueInv, Typed

LEMMA FindStaleStep ==
    ASSUME QueueAssumption, QueueInv, NEW w \in Processes, NEW j \in Jobs, FindStale(w, j)
    PROVE  QueueInv'
<1>1. PICK at \in {"cancelling", "expiring"} : work' = [work EXCEPT ![w] = [Idle EXCEPT !.at = at, !.job = j]]
  BY DEF FindStale
<1>2. [Idle EXCEPT !.at = at, !.job = j] \in WorkRow
  BY DEF Idle, WorkRow
<1>3. /\ work' \in [Processes -> WorkRow] /\ \A v \in Processes \ {w} : work'[v] = work[v]
      /\ work'[w].at = at /\ work'[w].job = j
  BY <1>1, <1>2 DEF QueueInv, Typed, Idle
<1>4. Calm /\ \A v \in Timers : Generating(work'[v]) => work'[v].job \in Followups
  BY <1>3, GoesCalmly DEF Dispatched, Sending, Generating
<1>5. QED
  BY <1>3, <1>4, NoneMoves, MovesStep DEF FindStale

LEMMA GiveUpStep ==
    ASSUME QueueAssumption, QueueInv, NEW w \in Processes, NEW j \in Jobs, GiveUp(w, j)
    PROVE  QueueInv'
<1>1. job' \in [Jobs -> JobRow] /\ \A k \in Jobs : Moves(job[k].status, job'[k].status)
  BY NoteMoves DEF GiveUp, Unconfirmed
<1>2. QED
  BY <1>1, SameWork, MovesStep DEF GiveUp

\* A receipt is asked for a job that is out, and a job that was out is Past.
LEMMA AskReceiptStep ==
    ASSUME QueueAssumption, QueueInv, NEW w \in Processes, NEW j \in Jobs, AskReceipt(w, j)
    PROVE  QueueInv'
<1>1. PICK answer \in Receipts \union {"FAILED", "ACCEPTED", "UNKNOWN"} :
        work' = [work EXCEPT ![w] = [Idle EXCEPT !.at = "reconciling", !.job = j, !.answer = answer]]
  BY DEF AskReceipt
<1>2. answer # "NONE" /\ [Idle EXCEPT !.at = "reconciling", !.job = j, !.answer = answer] \in WorkRow
  BY DEF Idle, WorkRow, QueueAssumption, Sent
<1>3. /\ work' \in [Processes -> WorkRow] /\ \A v \in Processes \ {w} : work'[v] = work[v]
      /\ work'[w].at = "reconciling" /\ work'[w].job = j /\ work'[w].answer # "NONE"
  BY <1>1, <1>2 DEF QueueInv, Typed, Idle
<1>4. job[j].status \in Past
  BY DEF AskReceipt, Past, Out, Sent
<1>5. \A v \in Timers : Generating(work'[v]) => work'[v].job \in Followups
  BY <1>3 DEF Generating, QueueInv, WeekInv, Processes
<1>6. UNCHANGED <<job, gateway>> /\ job' \in [Jobs -> JobRow] /\ WeekInv'
  BY <1>5, NoneMoves, MovesKeep DEF AskReceipt
<1>7. HandInv'
  BY <1>3, <1>4, <1>6 DEF QueueInv, HandInv, Dispatched, Sending
<1>8. QED
  BY <1>3, <1>6, <1>7 DEF QueueInv, Typed

\* Rows change under the processes that hold them, but only within the queue or out of it.
LEMMA RowsStep ==
    ASSUME QueueAssumption, QueueInv,
           \/ \E w \in Processes : ReleaseLeases(w)
           \/ \E J \in SUBSET Jobs : Stop(J)
           \/ \E j \in Jobs : LeaseRunsOut(j)
    PROVE  QueueInv'
<1>1. job' \in [Jobs -> JobRow] /\ \A k \in Jobs : Moves(job[k].status, job'[k].status)
  <2>0. /\ \A s \in Statuses, k \in Jobs : /\ SettledRow(job[k], s) \in JobRow
                                           /\ SettledRow(job[k], s).status = s
        /\ \A k \in Jobs : job[k] \in JobRow
        /\ {"PENDING", "CANCELLED", "CANCEL_REQUESTED"} \subseteq Statuses
    <3>1. \A k \in Jobs : job[k] \in JobRow
      BY DEF QueueInv, Typed
    <3>2. \A s \in Statuses, row \in JobRow : SettledRow(row, s) \in JobRow /\ SettledRow(row, s).status = s
      BY DEF SettledRow, JobRow
    <3>3. QED
      BY <3>1, <3>2 DEF Statuses, Active, Queued
  <2>1. CASE \E w \in Processes : ReleaseLeases(w)
    <3>1. PICK dead \in SUBSET Jobs :
            /\ \A k \in dead : job[k].status = "PREPARING"
            /\ job' = [k \in Jobs |-> IF k \in dead THEN SettledRow(job[k], "PENDING") ELSE job[k]]
      BY <2>1 DEF ReleaseLeases, Jobs
    <3>2. job' \in [Jobs -> JobRow]
      BY <2>0, <3>1
    <3>3. \A k \in Jobs : \/ job'[k] = job[k]
                          \/ job[k].status = "PREPARING" /\ job'[k].status = "PENDING"
      BY <2>0, <3>1
    <3>4. QED
      BY <3>2, <3>3 DEF Moves, Live, Out, Active, Queued, Unconfirmed, Sent
  <2>2. CASE \E J \in SUBSET Jobs : Stop(J)
    <3>0. PICK J \in SUBSET Jobs : Stop(J)
      BY <2>2
    <3>1. PICK seen \in [J -> Queued] :
            /\ \A j \in J : job[j].status \in Queued
            /\ job' = [j \in Jobs |->
                    IF j \notin J THEN job[j]
                    ELSE IF seen[j] = "PREPARING" THEN [job[j] EXCEPT !.status = "CANCEL_REQUESTED"]
                    ELSE SettledRow(job[j], "CANCELLED")]
      BY <3>0 DEF Stop
    <3>2. \A k \in Jobs : /\ [job[k] EXCEPT !.status = "CANCEL_REQUESTED"] \in JobRow
                          /\ [job[k] EXCEPT !.status = "CANCEL_REQUESTED"].status = "CANCEL_REQUESTED"
      BY <2>0 DEF JobRow
    <3>3. job' \in [Jobs -> JobRow]
      BY <2>0, <3>1, <3>2
    <3>4. \A k \in Jobs : \/ job'[k] = job[k]
                          \/ job[k].status \in Queued /\ job'[k].status \in {"CANCELLED", "CANCEL_REQUESTED"}
      BY <2>0, <3>1, <3>2
    <3>5. QED
      BY <3>3, <3>4 DEF Moves, Past, Live, Out, Active, Queued, Unconfirmed, Sent
  <2>3. CASE \E j \in Jobs : LeaseRunsOut(j)
    <3>1. PICK j \in Jobs : job' = [job EXCEPT ![j].lease = "over"]
      BY <2>3 DEF LeaseRunsOut
    <3>2. job[j] \in JobRow
      BY <2>0
    <3>3. Only(j) /\ job'[j].status = job[j].status
      BY <3>1, <3>2 DEF QueueInv, Typed, Only, JobRow
    <3>4. QED
      BY <3>3, OneMoves DEF Moves
  <2>4. QED
    BY <2>1, <2>2, <2>3
<1>2. UNCHANGED <<work, gateway>>
  BY DEF ReleaseLeases, Stop, LeaseRunsOut
<1>3. QED
  BY <1>1, <1>2, SameWork, MovesStep

LEMMA BounceStep ==
    ASSUME QueueInv, NEW j \in Jobs, Bounce(j)
    PROVE  QueueInv'
<1>1. /\ gateway' \in [Jobs -> [given : Nat, state : {"NONE", "OUT", "FAILED"}]]
      /\ \A k \in Jobs : gateway'[k].given = gateway[k].given
      /\ \A k \in Jobs : gateway'[k].state = gateway[k].state \/ gateway[k].state = "OUT"
  BY DEF Bounce, QueueInv, Typed
<1>2. UNCHANGED <<job, work>>
  BY DEF Bounce
<1>3. Typed' /\ WeekInv'
  BY <1>1, <1>2 DEF QueueInv, Typed, WeekInv, Week, Generating
<1>4. HandInv'
  BY <1>1, <1>2 DEF QueueInv, HandInv, Dispatched, Sending
<1>5. QED
  BY <1>3, <1>4 DEF QueueInv

LEMMA CreditStep ==
    ASSUME QueueInv, UNCHANGED <<job, work, gateway>>
    PROVE  QueueInv'
<1>1. Calm /\ work' \in [Processes -> WorkRow]
      /\ \A v \in Timers : Generating(work'[v]) => work'[v].job \in Followups
  BY SameWork
<1>2. QED
  BY <1>1, NoneMoves, MovesStep

LEMMA ChargeUnqueuedStep ==
    ASSUME QueueAssumption, QueueInv, NEW w \in Processes, ChargeUnqueued(w)
    PROVE  QueueInv'
BY FinishesCalmly, NoneMoves, MovesStep DEF ChargeUnqueued

LEMMA QueueInit ==
    ASSUME QueueAssumption, Init
    PROVE  QueueInv
<1>1. /\ \A w \in Processes : work[w].at = "idle"
      /\ \A j \in Jobs : job[j].status = "NONE" /\ gateway[j].given = 0 /\ gateway[j].state = "NONE"
  BY DEF Init, Idle, NoRow
<1>2. Typed
  BY Rows DEF Init, Typed
<1>3. HandInv
  BY <1>1 DEF HandInv, Dispatched, Sending
<1>4. WeekInv
  <2>1. "NONE" \notin Live /\ "NONE" \notin Out
    BY DEF Live, Out, Active, Queued, Unconfirmed, Sent
  <2>2. QED
    BY <1>1, <2>1 DEF WeekInv, Week, Generating, Processes
<1>5. QED
  BY <1>2, <1>3, <1>4 DEF QueueInv

LEMMA QueueStep ==
    ASSUME QueueAssumption, QueueInv, NEW w \in Processes, Step(w)
    PROVE  QueueInv'
BY QueueWrittenStep, ChargeUnqueuedStep, EndsStep, GenerateStep, BillStep, DispatchStep, WriteStep,
   SettleCreditStep, SendStep DEF Step

LEMMA QueueNext ==
    ASSUME QueueAssumption, QueueInv, Next
    PROVE  QueueInv'
<1>1. ASSUME NEW j \in Jobs, StartFollowup(j) \/ Approve(j) \/ Discard(j) \/ LeaseRunsOut(j) \/ Bounce(j)
      PROVE  QueueInv'
  BY <1>1, Raises, ApproveStep, DiscardStep, RowsStep, BounceStep
<1>2. ASSUME NEW w \in Processes, NEW j \in Jobs,
             \/ QueueTemplate(w, j) \/ Propose(w, j) \/ Claim(w, j) \/ LimitReached(w, j)
             \/ FindStale(w, j) \/ GiveUp(w, j) \/ AskReceipt(w, j)
      PROVE  QueueInv'
  BY <1>2, Raises, ProposeStep, ClaimStep, DiscardStep, FindStaleStep, GiveUpStep, AskReceiptStep
<1>3. ASSUME NEW w \in Processes, Step(w) \/ ReleaseLeases(w) \/ Crash(w)
      PROVE  QueueInv'
  BY <1>3, QueueStep, RowsStep, EndsStep
<1>4. ASSUME NEW J \in Stoppable, Stop(J)
      PROVE  QueueInv'
  <2>1. J \in SUBSET Jobs
    BY DEF Stoppable, Jobs
  <2>2. QED
    BY <1>4, <2>1, RowsStep
<1>5. ASSUME NEW g \in Grants, GrantPaid(g) \/ ExpireGrant(g)
      PROVE  QueueInv'
  BY <1>5, CreditStep DEF GrantPaid, ExpireGrant
<1>6. QED
  BY <1>1, <1>2, <1>3, <1>4, <1>5 DEF Next

\* However the processes, the agent and WhatsApp interleave, whatever dies, a
\* process about to send has a job that nobody has sent or is about to send,
\* and of the jobs of one contact one is out at most (dispatch and its checks,
\* src/lib/kbot-messaging/scheduled-worker.ts:174-238).
THEOREM QueueInvariant == Spec => []QueueInv
<1>1. Init => QueueInv
  BY QueueInit, QueueAssumption
<1>2. QueueInv /\ [Next]_vars => QueueInv'
  <2>1. QueueInv /\ UNCHANGED vars => QueueInv'
    BY CreditStep DEF vars
  <2>2. QED
    BY <2>1, QueueNext, QueueAssumption
<1>3. QED
  BY <1>1, <1>2, PTL DEF Spec

\* No job is ever given to WhatsApp twice.
THEOREM NothingIsSentTwice == Spec => []HandedOverOnce
<1>1. QueueInv => HandedOverOnce
  BY DEF QueueInv, HandInv, HandedOverOnce
<1>2. QED
  BY <1>1, QueueInvariant, PTL

\* Two jobs to one contact that WhatsApp both took are not both out: one has
\* been recorded as failed or cancelled.
THEOREM ContactsAreSpared == Spec => []OneMessageInAWeek
<1>1. QueueInv => OneMessageInAWeek
  <2>1. SUFFICES ASSUME QueueInv, NEW j \in Jobs, NEW k \in Jobs, j # k, Contact[j] = Contact[k],
                        gateway[j].state = "OUT", gateway[k].state = "OUT"
                 PROVE  {job[j].status, job[k].status} \intersect {"FAILED", "CANCELLED"} # {}
    BY DEF OneMessageInAWeek
  <2>2. job[j].status \in Past /\ job[k].status \in Past
    BY <2>1 DEF QueueInv, HandInv, Typed
  <2>3. ~(job[j].status \in Out /\ job[k].status \in Out)
    BY <2>1 DEF QueueInv, WeekInv, Week
  <2>4. QED
    BY <2>2, <2>3 DEF Past
<1>2. QED
  BY <1>1, QueueInvariant, PTL

-----------------------------------------------------------------------------
(* Sums over finite sets.                                                  *)

Pick(s) == CHOOSE x \in s : TRUE

\* it[s] is the sum of f over s, for the subsets s of S.
Sums(it, f, S) == it = [s \in SUBSET S |-> IF s = {} THEN 0 ELSE f[Pick(s)] + it[s \ {Pick(s)}]]

LEMMA SmallestSet ==
    ASSUME NEW S, IsFiniteSet(S), NEW Bad, Bad \subseteq SUBSET S, Bad # {}
    PROVE  \E T \in Bad : \A U \in SUBSET T : U # T => U \notin Bad
<1>1. IsWellFoundedOn(StrictSubsetOrdering(S), SUBSET S)
  BY FS_StrictSubsetOrderingWellFounded, FS_FiniteSubsetsOfFinite
<1>2. PICK T \in Bad : \A U \in Bad : ~(<<U, T>> \in StrictSubsetOrdering(S))
  BY <1>1, WFMin
<1> QED  BY <1>2 DEF StrictSubsetOrdering

LEMMA PickIn == ASSUME NEW s, s # {}  PROVE Pick(s) \in s
BY DEF Pick

LEMMA SumsAgree ==
    ASSUME NEW f, NEW S, IsFiniteSet(S), NEW T, T \subseteq S,
           NEW g, Sums(g, f, S), NEW h, Sums(h, f, T)
    PROVE  \A s \in SUBSET T : g[s] = h[s]
<1> DEFINE Bad == {s \in SUBSET T : g[s] # h[s]}
<1>1. SUFFICES ASSUME Bad # {}  PROVE FALSE
  OBVIOUS
<1>2. PICK s \in Bad : \A u \in SUBSET s : u # s => u \notin Bad
  <2>1. IsFiniteSet(T) /\ Bad \subseteq SUBSET T
    BY FS_Subset
  <2> HIDE DEF Bad
  <2> QED  BY <1>1, <2>1, SmallestSet
<1>3. s \in SUBSET T /\ s \in SUBSET S
  BY <1>2
<1>4. CASE s = {}
  <2>1. g[s] = 0 /\ h[s] = 0
    BY <1>3, <1>4 DEF Sums
  <2> QED  BY <1>2, <2>1
<1>5. CASE s # {}
  <2>1. Pick(s) \in s
    BY <1>5, PickIn
  <2>2. s \ {Pick(s)} \in SUBSET s /\ s \ {Pick(s)} # s /\ s \ {Pick(s)} \in SUBSET T
    BY <1>3, <2>1
  <2>3. g[s \ {Pick(s)}] = h[s \ {Pick(s)}]
    BY <1>2, <2>2
  <2>4. g[s] = f[Pick(s)] + g[s \ {Pick(s)}] /\ h[s] = f[Pick(s)] + h[s \ {Pick(s)}]
    BY <1>3, <1>5 DEF Sums
  <2> QED  BY <1>2, <2>3, <2>4
<1> QED  BY <1>4, <1>5

LEMMA SumsExist ==
    ASSUME NEW f, NEW S, IsFiniteSet(S)
    PROVE  \E it : Sums(it, f, S)
<1> DEFINE Bad == {T \in SUBSET S : ~\E it : Sums(it, f, T)}
<1>1. SUFFICES ASSUME Bad # {}  PROVE FALSE
  OBVIOUS
<1>2. PICK T \in Bad : \A U \in SUBSET T : U # T => U \notin Bad
  <2>1. Bad \subseteq SUBSET S
    OBVIOUS
  <2> HIDE DEF Bad
  <2> QED  BY <1>1, <2>1, SmallestSet
<1>3. T \in SUBSET S /\ ~\E it : Sums(it, f, T)
  BY <1>2
<1> DEFINE G(U) == CHOOSE it : Sums(it, f, U)
           H == [s \in SUBSET T |-> IF s = {} THEN 0
                                    ELSE f[Pick(s)] + G(s \ {Pick(s)})[s \ {Pick(s)}]]
<1>4. \A U \in SUBSET T : U # T => Sums(G(U), f, U)
  BY <1>2, <1>3
<1> HIDE DEF G
<1>5. ASSUME NEW r \in SUBSET T, r # T  PROVE H[r] = G(r)[r]
  <2>1. Sums(G(r), f, r) /\ IsFiniteSet(r)
    BY <1>3, <1>4, <1>5, FS_Subset
  <2>2. CASE r = {}
    BY <2>1, <2>2 DEF Sums
  <2>3. CASE r # {}
    <3> DEFINE q == r \ {Pick(r)}
    <3>1. q \in SUBSET T /\ q # T /\ q \subseteq r
      BY <1>5, <2>3, PickIn
    <3>2. Sums(G(q), f, q)
      BY <1>4, <3>1
    <3>3. G(r)[q] = G(q)[q]
      <4>1. \A a, b : Sums(a, f, r) /\ Sums(b, f, q) => a[q] = b[q]
        BY <2>1, <3>1, SumsAgree
      <4> QED  BY <2>1, <3>2, <4>1
    <3>4. G(r)[r] = f[Pick(r)] + G(r)[q]
      BY <2>1, <2>3 DEF Sums
    <3>5. H[r] = f[Pick(r)] + G(q)[q]
      BY <1>5, <2>3
    <3> QED  BY <3>3, <3>4, <3>5
  <2> QED  BY <2>2, <2>3
<1>6. ASSUME NEW s \in SUBSET T, s # {}  PROVE H[s \ {Pick(s)}] = G(s \ {Pick(s)})[s \ {Pick(s)}]
  <2>1. s \ {Pick(s)} \in SUBSET T /\ s \ {Pick(s)} # T
    BY <1>6, PickIn
  <2> QED  BY <1>5, <2>1
<1>7. H = [s \in SUBSET T |-> IF s = {} THEN 0 ELSE f[Pick(s)] + H[s \ {Pick(s)}]]
  BY <1>6
<1> QED  BY <1>3, <1>7 DEF Sums


LEMMA SumIs ==
    ASSUME NEW f, NEW S, IsFiniteSet(S), NEW it, Sums(it, f, S)
    PROVE  SumFunctionOnSet(f, S) = it[S]
<1> DEFINE sums == CHOOSE i : i = [s \in SUBSET S |-> IF s = {} THEN 0
                                     ELSE f[CHOOSE x \in s : TRUE] + i[s \ {CHOOSE x \in s : TRUE}]]
<1>1. SumFunctionOnSet(f, S) = sums[S]
  BY DEF SumFunctionOnSet, FoldFunctionOnSet, MapThenFoldSet
<1>2. sums = CHOOSE i : Sums(i, f, S)
  BY DEF Sums, Pick
<1> HIDE DEF sums
<1>3. Sums(sums, f, S)
  BY <1>2
<1> QED  BY <1>1, <1>3, SumsAgree

LEMMA SumStep ==
    ASSUME NEW f, NEW S, IsFiniteSet(S)
    PROVE  SumFunctionOnSet(f, S) =
              IF S = {} THEN 0 ELSE f[Pick(S)] + SumFunctionOnSet(f, S \ {Pick(S)})
<1>1. PICK it : Sums(it, f, S)
  BY SumsExist
<1>2. SumFunctionOnSet(f, S) = it[S]
  BY <1>1, SumIs
<1>3. it[S] = IF S = {} THEN 0 ELSE f[Pick(S)] + it[S \ {Pick(S)}]
  BY <1>1 DEF Sums
<1>4. IsFiniteSet(S \ {Pick(S)}) /\ S \ {Pick(S)} \subseteq S
  BY FS_Subset
<1>5. PICK h : Sums(h, f, S \ {Pick(S)})
  BY <1>4, SumsExist
<1>6. SumFunctionOnSet(f, S \ {Pick(S)}) = h[S \ {Pick(S)}]
  BY <1>4, <1>5, SumIs
<1>7. it[S \ {Pick(S)}] = h[S \ {Pick(S)}]
  BY <1>1, <1>4, <1>5, SumsAgree
<1> QED  BY <1>2, <1>3, <1>6, <1>7

\* A sum of naturals is one, and any member of the set may be taken out first.
LEMMA SumNat ==
    ASSUME NEW S, IsFiniteSet(S), NEW f, \A x \in S : f[x] \in Nat
    PROVE  SumFunctionOnSet(f, S) \in Nat
<1> DEFINE Bad == {T \in SUBSET S : SumFunctionOnSet(f, T) \notin Nat}
<1>1. SUFFICES ASSUME Bad # {}  PROVE FALSE
  OBVIOUS
<1>2. PICK T \in Bad : \A U \in SUBSET T : U # T => U \notin Bad
  <2>1. Bad \subseteq SUBSET S
    OBVIOUS
  <2> HIDE DEF Bad
  <2> QED  BY <1>1, <2>1, SmallestSet
<1>3. T \in SUBSET S /\ IsFiniteSet(T) /\ SumFunctionOnSet(f, T) \notin Nat
  BY <1>2, FS_Subset
<1>4. T # {} => f[Pick(T)] \in Nat /\ SumFunctionOnSet(f, T \ {Pick(T)}) \in Nat
  BY <1>2, <1>3, PickIn
<1>5. SumFunctionOnSet(f, T) =
         IF T = {} THEN 0 ELSE f[Pick(T)] + SumFunctionOnSet(f, T \ {Pick(T)})
  BY <1>3, SumStep
<1> QED  BY <1>3, <1>4, <1>5

LEMMA SumTake ==
    ASSUME NEW S, IsFiniteSet(S), NEW f, \A x \in S : f[x] \in Nat, NEW y \in S
    PROVE  SumFunctionOnSet(f, S) = f[y] + SumFunctionOnSet(f, S \ {y})
<1> DEFINE Takes(T, x) == SumFunctionOnSet(f, T) = f[x] + SumFunctionOnSet(f, T \ {x})
           Bad == {T \in SUBSET S : \E x \in T : ~Takes(T, x)}
<1>1. SUFFICES ASSUME Bad # {}  PROVE FALSE
  OBVIOUS
<1>2. PICK T \in Bad : \A U \in SUBSET T : U # T => U \notin Bad
  <2>1. Bad \subseteq SUBSET S
    OBVIOUS
  <2> HIDE DEF Bad
  <2> QED  BY <1>1, <2>1, SmallestSet
<1>3. PICK x \in T : ~Takes(T, x)
  BY <1>2
<1> DEFINE p == Pick(T)
<1>4. T \in SUBSET S /\ IsFiniteSet(T) /\ p \in T
  BY <1>2, <1>3, FS_Subset, PickIn
<1>5. SumFunctionOnSet(f, T) = f[p] + SumFunctionOnSet(f, T \ {p})
  BY <1>3, <1>4, SumStep
<1>6. p # x
  BY <1>3, <1>5
<1>7. Takes(T \ {p}, x) /\ Takes(T \ {x}, p)
  <2>1. /\ T \ {p} \in SUBSET T /\ T \ {p} # T /\ x \in T \ {p}
        /\ T \ {x} \in SUBSET T /\ T \ {x} # T /\ p \in T \ {x}
    BY <1>3, <1>4, <1>6
  <2>2. T \ {p} \notin Bad /\ T \ {x} \notin Bad
    BY <1>2, <2>1
  <2> QED  BY <1>4, <2>1, <2>2
<1>8. (T \ {p}) \ {x} = (T \ {x}) \ {p} /\ IsFiniteSet((T \ {x}) \ {p})
  BY <1>4, FS_Subset
<1>9. f[p] \in Nat /\ f[x] \in Nat /\ SumFunctionOnSet(f, (T \ {x}) \ {p}) \in Nat
  BY <1>3, <1>4, <1>8, SumNat
<1> QED  BY <1>3, <1>5, <1>7, <1>8, <1>9

LEMMA SumEmpty == ASSUME NEW f  PROVE SumFunctionOnSet(f, {}) = 0
BY SumStep, FS_EmptySet

\* Only what the set's members stand for counts.
LEMMA SumSame ==
    ASSUME NEW S, IsFiniteSet(S), NEW f, NEW g, \A x \in S : f[x] = g[x]
    PROVE  SumFunctionOnSet(f, S) = SumFunctionOnSet(g, S)
<1> DEFINE Bad == {T \in SUBSET S : SumFunctionOnSet(f, T) # SumFunctionOnSet(g, T)}
<1>1. SUFFICES ASSUME Bad # {}  PROVE FALSE
  OBVIOUS
<1>2. PICK T \in Bad : \A U \in SUBSET T : U # T => U \notin Bad
  <2>1. Bad \subseteq SUBSET S
    OBVIOUS
  <2> HIDE DEF Bad
  <2> QED  BY <1>1, <2>1, SmallestSet
<1>3. T \in SUBSET S /\ IsFiniteSet(T) /\ SumFunctionOnSet(f, T) # SumFunctionOnSet(g, T)
  BY <1>2, FS_Subset
<1>4. T # {} => f[Pick(T)] = g[Pick(T)]
                /\ SumFunctionOnSet(f, T \ {Pick(T)}) = SumFunctionOnSet(g, T \ {Pick(T)})
  BY <1>2, <1>3, PickIn
<1> QED  BY <1>3, <1>4, SumStep

\* The sum over a set is that over a part of it and over the rest.
LEMMA SumSplit ==
    ASSUME NEW S, IsFiniteSet(S), NEW f, \A x \in S : f[x] \in Nat, NEW P, P \subseteq S
    PROVE  SumFunctionOnSet(f, S) = SumFunctionOnSet(f, P) + SumFunctionOnSet(f, S \ P)
<1> DEFINE Good(T) == SumFunctionOnSet(f, S) = SumFunctionOnSet(f, T) + SumFunctionOnSet(f, S \ T)
           Bad == {T \in SUBSET S : ~Good(T)}
<1>1. SUFFICES ASSUME Bad # {}  PROVE FALSE
  OBVIOUS
<1>2. PICK T \in Bad : \A U \in SUBSET T : U # T => U \notin Bad
  <2>1. Bad \subseteq SUBSET S
    OBVIOUS
  <2> HIDE DEF Bad
  <2> QED  BY <1>1, <2>1, SmallestSet
<1>3. T \in SUBSET S /\ IsFiniteSet(T) /\ IsFiniteSet(S \ T) /\ ~Good(T)
  BY <1>2, FS_Subset
<1>4. T # {}
  <2>1. SumFunctionOnSet(f, S) \in Nat
    BY SumNat
  <2>2. S \ {} = S
    OBVIOUS
  <2> QED  BY <1>3, <2>1, <2>2, SumEmpty
<1>5. PICK x \in T : TRUE
  BY <1>4
<1> DEFINE U == T \ {x}
<1>6. Good(U)
  BY <1>2, <1>5
<1>7. U \subseteq S /\ IsFiniteSet(U) /\ IsFiniteSet(S \ U) /\ (S \ U) \ {x} = S \ T /\ x \in S \ U
  BY <1>3, <1>5, FS_Subset
<1>8. SumFunctionOnSet(f, T) = f[x] + SumFunctionOnSet(f, U)
  BY <1>3, <1>5, SumTake
<1>9. SumFunctionOnSet(f, S \ U) = f[x] + SumFunctionOnSet(f, S \ T)
  BY <1>7, SumTake
<1>10. /\ f[x] \in Nat /\ SumFunctionOnSet(f, U) \in Nat /\ SumFunctionOnSet(f, S \ T) \in Nat
  BY <1>3, <1>7, SumNat
<1> QED  BY <1>3, <1>6, <1>8, <1>9, <1>10

-----------------------------------------------------------------------------
(* What a job takes from each grant *)

LEMMA MinMax ==
    ASSUME NEW a \in Int, NEW b \in Int
    PROVE  Min({a, b}) = (IF a <= b THEN a ELSE b) /\ Max({a, b}) = (IF a >= b THEN a ELSE b)
<1>1. Min({a, b}) = (IF a <= b THEN a ELSE b)
  <2>1. \E x \in {a, b} : \A y \in {a, b} : x <= y
    OBVIOUS
  <2>2. Min({a, b}) \in {a, b} /\ \A y \in {a, b} : Min({a, b}) <= y
    BY <2>1 DEF Min
  <2> QED  BY <2>2
<1>2. Max({a, b}) = (IF a >= b THEN a ELSE b)
  <2>1. \E x \in {a, b} : \A y \in {a, b} : x >= y
    OBVIOUS
  <2>2. Max({a, b}) \in {a, b} /\ \A y \in {a, b} : Max({a, b}) >= y
    BY <2>1 DEF Max
  <2> QED  BY <2>2
<1> QED  BY <1>1, <1>2

\* Nothing is taken that is not there, and no more than is asked for.
LEMMA FillBounds ==
    ASSUME QueueAssumption, NEW room \in [Grants -> Nat], NEW n \in Nat
    PROVE  /\ Fill(room, n) \in [Grants -> Nat]
           /\ \A g \in Grants : Fill(room, n)[g] <= room[g] /\ Fill(room, n)[g] <= n
<1>1. SUFFICES ASSUME NEW g \in Grants
               PROVE  Fill(room, n)[g] \in Nat /\ Fill(room, n)[g] <= room[g] /\ Fill(room, n)[g] <= n
  BY DEF Fill
<1> DEFINE before == SumFunctionOnSet(room, 1..(g - 1))
<1>2. before \in Nat
  <2>1. g \in Nat /\ g - 1 \in Int /\ IsFiniteSet(1..(g - 1))
    BY FS_Interval DEF Grants, QueueAssumption
  <2>2. \A x \in 1..(g - 1) : room[x] \in Nat
    BY <2>1 DEF Grants, QueueAssumption
  <2> QED  BY <2>1, <2>2, SumNat
<1> DEFINE left == n - before
           most == Min({room[g], left})
<1>3. left \in Int /\ room[g] \in Int /\ left <= n
  BY <1>2
<1>4. Fill(room, n)[g] = Max({0, most})
  BY DEF Fill
<1> HIDE DEF before, left
<1>5. most \in Int /\ most <= room[g] /\ most <= left
  <2>1. most = IF room[g] <= left THEN room[g] ELSE left
    BY <1>3, MinMax
  <2> HIDE DEF most
  <2> QED  BY <1>3, <2>1
<1> HIDE DEF most
<1>6. Max({0, most}) = IF 0 >= most THEN 0 ELSE most
  <2>1. \A a, b \in Int : Max({a, b}) = IF a >= b THEN a ELSE b
    BY MinMax
  <2>2. 0 \in Int
    OBVIOUS
  <2> QED  BY <1>5, <2>1, <2>2, Zenon
<1> QED  BY <1>3, <1>4, <1>5, <1>6

-----------------------------------------------------------------------------
(* Credit is conserved *)

CreditTyped ==
    /\ credit \in [Jobs -> [state : {"NONE", "RESERVED", "SPENT", "RELEASED"}, held : [Grants -> Nat]]]
    /\ grants \in [Grants -> [state : {"none", "open", "expired"}, reserved : Nat, spent : Nat]]

\* The jobs whose reservation is open.
Reserving == {j \in Jobs : credit[j].state = "RESERVED"}

Balanced == CreditTyped /\ IsFiniteSet(Reserving) /\ CreditsConserved

\* A job that reserves is a row: it is not raised, and its reservation not taken, again.
CreditInv == Balanced /\ \A j \in Reserving : job[j].status # "NONE"

LEMMA Balances ==
    ASSUME Balanced, NEW g \in Grants
    PROVE  /\ grants[g].reserved = SumFunctionOnSet(HeldFrom(g), Reserving)
           /\ grants[g].reserved \in Nat /\ grants[g].spent \in Nat
           /\ grants[g].reserved + grants[g].spent <= Allowance[g]
           /\ \A j \in Jobs : HeldFrom(g)[j] = credit[j].held[g] /\ HeldFrom(g)[j] \in Nat
           /\ IsFiniteSet(Reserving)
BY ZenonT(60) DEF Balanced, CreditTyped, CreditsConserved, Reserving, HeldFrom

\* To keep the balance it is enough to say what becomes of every grant.
LEMMA BalancedAgain ==
    ASSUME NEW p, NEW q, 
           credit' \in [Jobs -> [state : {"NONE", "RESERVED", "SPENT", "RELEASED"}, held : [Grants -> Nat]]],
           p \in [Grants -> Nat], q \in [Grants -> Nat],
           grants \in [Grants -> [state : {"none", "open", "expired"}, reserved : Nat, spent : Nat]],
           grants' = [g \in Grants |-> [grants[g] EXCEPT !.reserved = p[g], !.spent = q[g]]],
           IsFiniteSet(Reserving'),
           \A g \in Grants : /\ p[g] = SumFunctionOnSet(HeldFrom(g)', Reserving')
                             /\ p[g] + q[g] <= Allowance[g]
    PROVE  Balanced'
<1>1. \A g \in Grants : grants'[g].reserved = p[g] /\ grants'[g].spent = q[g]
  OBVIOUS
<1>2. grants' \in [Grants -> [state : {"none", "open", "expired"}, reserved : Nat, spent : Nat]]
  OBVIOUS
<1> QED  BY <1>1, <1>2 DEF Balanced, CreditTyped, CreditsConserved, Reserving

LEMMA ReleaseKeeps ==
    ASSUME QueueAssumption, Balanced, NEW J \in SUBSET Jobs, Release(J)
    PROVE  Balanced' /\ Reserving' \subseteq Reserving
<1> DEFINE held == {j \in J : credit[j].state = "RESERVED"}
           p == [g \in Grants |-> SumFunctionOnSet(HeldFrom(g), Reserving \ held)]
           q == [g \in Grants |-> grants[g].spent]
<1>1. held \subseteq Reserving /\ IsFiniteSet(held) /\ IsFiniteSet(Reserving \ held) /\ Reserving \subseteq Jobs
  <2>1. held \subseteq Reserving /\ Reserving \ held \subseteq Reserving /\ IsFiniteSet(Reserving)
    BY DEF Reserving, Balanced
  <2> QED  BY <2>1, FS_Subset DEF Reserving
<1>2. credit' = [j \in Jobs |-> IF j \in held THEN [credit[j] EXCEPT !.state = "RELEASED"] ELSE credit[j]]
  BY DEF Release
<1>3. grants' = [g \in Grants |-> [grants[g] EXCEPT
                        !.reserved = @ - SumFunctionOnSet(HeldFrom(g), held)]]
  BY DEF Release
<1>4. \A g \in Grants :
         /\ grants[g].reserved = SumFunctionOnSet(HeldFrom(g), held) + p[g]
         /\ SumFunctionOnSet(HeldFrom(g), held) \in Nat /\ p[g] \in Nat
  <2> TAKE g \in Grants
  <2>1. \A j \in Reserving : HeldFrom(g)[j] \in Nat
    BY <1>1, Balances
  <2>2. SumFunctionOnSet(HeldFrom(g), Reserving)
           = SumFunctionOnSet(HeldFrom(g), held) + SumFunctionOnSet(HeldFrom(g), Reserving \ held)
    BY <1>1, <2>1, SumSplit, Balances
  <2>3. SumFunctionOnSet(HeldFrom(g), held) \in Nat /\ SumFunctionOnSet(HeldFrom(g), Reserving \ held) \in Nat
    BY <1>1, <2>1, SumNat
  <2> QED  BY <2>2, <2>3, Balances
<1> HIDE DEF held
<1>5. \A j \in Jobs : credit[j] \in [state : {"NONE", "RESERVED", "SPENT", "RELEASED"}, held : [Grants -> Nat]]
  BY DEF Balanced, CreditTyped
<1>6. /\ credit' \in [Jobs -> [state : {"NONE", "RESERVED", "SPENT", "RELEASED"}, held : [Grants -> Nat]]]
      /\ \A j \in Jobs : /\ credit'[j].held = credit[j].held
                         /\ j \in held => credit'[j].state = "RELEASED"
                         /\ j \notin held => credit'[j] = credit[j]
  BY <1>2, <1>5
<1>7. Reserving' = Reserving \ held
  BY <1>1, <1>6 DEF Reserving
<1>8. \A g \in Grants : HeldFrom(g)' = HeldFrom(g)
  BY <1>6 DEF HeldFrom
<1>9. grants \in [Grants -> [state : {"none", "open", "expired"}, reserved : Nat, spent : Nat]]
  BY DEF Balanced, CreditTyped
<1>10. \A g \in Grants : /\ p[g] = SumFunctionOnSet(HeldFrom(g)', Reserving') /\ q[g] = grants[g].spent
                        /\ p[g] + q[g] <= Allowance[g]
  <2> TAKE g \in Grants
  <2>1. p[g] = SumFunctionOnSet(HeldFrom(g)', Reserving') /\ q[g] = grants[g].spent
    BY <1>7, <1>8
  <2> HIDE DEF p, q
  <2>2. grants[g].reserved = SumFunctionOnSet(HeldFrom(g), held) + p[g]
        /\ SumFunctionOnSet(HeldFrom(g), held) \in Nat /\ p[g] \in Nat
    BY <1>4
  <2>3. grants[g].spent \in Nat /\ grants[g].reserved + grants[g].spent <= Allowance[g] /\ Allowance[g] \in Nat
    BY Balances DEF QueueAssumption
  <2> QED  BY <2>1, <2>2, <2>3
<1>11. p \in [Grants -> Nat] /\ q \in [Grants -> Nat]
  BY <1>4, <1>9
<1> HIDE DEF p, q
<1>12. \A g \in Grants : [grants[g] EXCEPT !.reserved = @ - SumFunctionOnSet(HeldFrom(g), held)]
                         = [grants[g] EXCEPT !.reserved = p[g], !.spent = q[g]]
  <2> TAKE g \in Grants
  <2>1. grants[g].reserved - SumFunctionOnSet(HeldFrom(g), held) = p[g] /\ q[g] = grants[g].spent
    BY <1>4, <1>10, Balances
  <2> QED  BY <1>9, <2>1
<1>13. grants' = [g \in Grants |-> [grants[g] EXCEPT !.reserved = p[g], !.spent = q[g]]]
  BY <1>3, <1>12
<1>14. IsFiniteSet(Reserving')
  BY <1>1, <1>7
<1>15. credit' \in [Jobs -> [state : {"NONE", "RESERVED", "SPENT", "RELEASED"}, held : [Grants -> Nat]]]
  BY <1>6
<1>16. Balanced'
  BY <1>9, <1>10, <1>11, <1>13, <1>14, <1>15, BalancedAgain
<1> QED  BY <1>7, <1>16

\* A call's price, capped.
LEMMA Price ==
    ASSUME QueueAssumption, NEW cost \in Nat
    PROVE  Min({Reservation, cost}) \in Nat /\ (cost = 0 => Min({Reservation, cost}) = 0)
<1>1. Reservation \in Int /\ cost \in Int /\ Reservation >= 0
  BY DEF QueueAssumption
<1>2. Min({Reservation, cost}) = IF Reservation <= cost THEN Reservation ELSE cost
  BY <1>1, MinMax
<1> QED  BY <1>1, <1>2

LEMMA ChargeKeeps ==
    ASSUME QueueAssumption, Balanced, NEW j \in Jobs, NEW cost \in Nat, Charge(j, cost)
    PROVE  Balanced' /\ Reserving' \subseteq Reserving
<1>1. CASE credit[j].state # "RESERVED"
  BY <1>1, ZenonT(60) DEF Charge, Balanced, CreditTyped, Reserving, CreditsConserved, HeldFrom
<1>2. CASE credit[j].state = "RESERVED"
  <2> DEFINE n == Min({Reservation, cost})
             paid == Fill(credit[j].held, n)
             p == [g \in Grants |-> SumFunctionOnSet(HeldFrom(g), Reserving \ {j})]
             q == [g \in Grants |-> grants[g].spent + paid[g]]
  <2>1. credit' = [credit EXCEPT ![j].state = "SPENT"]
        /\ grants' = [g \in Grants |-> [grants[g] EXCEPT !.reserved = @ - credit[j].held[g], !.spent = @ + paid[g]]]
    BY <1>2 DEF Charge
  <2>2. credit[j].held \in [Grants -> Nat] /\ j \in Reserving /\ Reserving \subseteq Jobs
    BY <1>2 DEF Balanced, CreditTyped, Reserving
  <2>3. n \in Nat
    BY Price
  <2> HIDE DEF n
  <2>4. paid \in [Grants -> Nat] /\ \A g \in Grants : paid[g] <= credit[j].held[g]
    BY <2>2, <2>3, FillBounds
  <2> HIDE DEF paid
  <2>5. IsFiniteSet(Reserving) /\ IsFiniteSet(Reserving \ {j})
    BY FS_Subset DEF Balanced
  <2>6. \A g \in Grants : grants[g].reserved = credit[j].held[g] + p[g] /\ p[g] \in Nat
    <3> TAKE g \in Grants
    <3>1. \A k \in Reserving : HeldFrom(g)[k] \in Nat
      BY <2>2, Balances
    <3>2. SumFunctionOnSet(HeldFrom(g), Reserving)
             = HeldFrom(g)[j] + SumFunctionOnSet(HeldFrom(g), Reserving \ {j})
      BY <2>2, <2>5, <3>1, SumTake
    <3>3. SumFunctionOnSet(HeldFrom(g), Reserving \ {j}) \in Nat
      BY <2>5, <3>1, SumNat
    <3> QED  BY <3>2, <3>3, Balances
  <2>7. credit \in [Jobs -> [state : {"NONE", "RESERVED", "SPENT", "RELEASED"}, held : [Grants -> Nat]]]
        /\ grants \in [Grants -> [state : {"none", "open", "expired"}, reserved : Nat, spent : Nat]]
    BY DEF Balanced, CreditTyped
  <2>8. /\ credit' \in [Jobs -> [state : {"NONE", "RESERVED", "SPENT", "RELEASED"}, held : [Grants -> Nat]]]
        /\ \A k \in Jobs : credit'[k].held = credit[k].held /\ (k # j => credit'[k] = credit[k])
        /\ credit'[j].state = "SPENT"
    BY <2>1, <2>7, ZenonT(60)
  <2>9. Reserving' = Reserving \ {j} /\ \A g \in Grants : HeldFrom(g)' = HeldFrom(g)
    BY <2>8 DEF Reserving, HeldFrom
  <2>10. \A g \in Grants : p[g] = SumFunctionOnSet(HeldFrom(g)', Reserving') /\ q[g] = grants[g].spent + paid[g]
    BY <2>9
  <2> HIDE DEF p
  <2>11. \A g \in Grants : q[g] \in Nat /\ p[g] + q[g] <= Allowance[g]
    <3> TAKE g \in Grants
    <3>1. q[g] = grants[g].spent + paid[g]
      BY <2>10
    <3> HIDE DEF q
    <3>2. credit[j].held[g] \in Nat /\ paid[g] \in Nat /\ paid[g] <= credit[j].held[g]
          /\ grants[g].reserved = credit[j].held[g] + p[g] /\ p[g] \in Nat
      BY <2>2, <2>4, <2>6
    <3>3. grants[g].spent \in Nat /\ grants[g].reserved + grants[g].spent <= Allowance[g] /\ Allowance[g] \in Nat
      BY Balances DEF QueueAssumption
    <3> QED  BY <3>1, <3>2, <3>3
  <2>12. p \in [Grants -> Nat] /\ q \in [Grants -> Nat]
    <3>1. p = [g \in Grants |-> p[g]]
      BY DEF p
    <3>2. q = [g \in Grants |-> q[g]]
      OBVIOUS
    <3> HIDE DEF q
    <3> QED  BY <2>6, <2>11, <3>1, <3>2
  <2> HIDE DEF q
  <2>13. grants' = [g \in Grants |-> [grants[g] EXCEPT !.reserved = p[g], !.spent = q[g]]]
    <3>1. ASSUME NEW g \in Grants
          PROVE  [grants[g] EXCEPT !.reserved = @ - credit[j].held[g], !.spent = @ + paid[g]]
                    = [grants[g] EXCEPT !.reserved = p[g], !.spent = q[g]]
      <4>1. grants[g].reserved = credit[j].held[g] + p[g] /\ p[g] \in Nat /\ credit[j].held[g] \in Nat
        BY <2>2, <2>6
      <4>2. grants[g].reserved - credit[j].held[g] = p[g] /\ grants[g].spent + paid[g] = q[g]
        BY <2>10, <4>1
      <4> QED  BY <2>7, <4>2
    <3> QED  BY <2>1, <3>1
  <2>14. IsFiniteSet(Reserving') /\ Reserving' \subseteq Reserving
    BY <2>5, <2>9
  <2>15. credit' \in [Jobs -> [state : {"NONE", "RESERVED", "SPENT", "RELEASED"}, held : [Grants -> Nat]]]
    BY <2>8
  <2>16. Balanced'
    BY <2>7, <2>10, <2>11, <2>12, <2>13, <2>14, <2>15, BalancedAgain
  <2> QED  BY <2>14, <2>16
<1> QED  BY <1>1, <1>2

\* What is there to take of a grant is never more than what it has left.
LEMMA RoomBounds ==
    ASSUME QueueAssumption, Balanced
    PROVE  /\ Room \in [Grants -> Nat]
           /\ \A g \in Grants : grants[g].reserved + grants[g].spent + Room[g] <= Allowance[g]
<1>1. SUFFICES ASSUME NEW g \in Grants
               PROVE  Room[g] \in Nat /\ grants[g].reserved + grants[g].spent + Room[g] <= Allowance[g]
  BY DEF Room
<1> DEFINE left == Allowance[g] - grants[g].reserved - grants[g].spent
<1>2. /\ grants[g].reserved \in Nat /\ grants[g].spent \in Nat /\ Allowance[g] \in Nat
      /\ grants[g].reserved + grants[g].spent <= Allowance[g]
  BY Balances DEF QueueAssumption
<1>3. left \in Int /\ left >= 0 /\ grants[g].reserved + grants[g].spent + left = Allowance[g]
  BY <1>2
<1>4. Room[g] = IF grants[g].state # "open" THEN 0 ELSE Max({0, left})
  BY DEF Room
<1> HIDE DEF left
<1>5. Max({0, left}) = left
  <2>1. \A a, b \in Int : Max({a, b}) = IF a >= b THEN a ELSE b
    BY MinMax
  <2>2. 0 \in Int
    OBVIOUS
  <2>3. Max({0, left}) = IF 0 >= left THEN 0 ELSE left
    BY <1>3, <2>1, <2>2, Zenon
  <2> QED  BY <1>3, <2>3
<1> QED  BY <1>2, <1>3, <1>4, <1>5

\* Raising a job: what it takes is reserved, or spent if its text was paid before.
LEMMA QueueKeeps ==
    ASSUME QueueAssumption, Balanced, NEW j \in Jobs, j \notin Reserving,
           NEW status, NEW text, NEW cost \in Nat, Queue(j, status, text, cost)
    PROVE  Balanced' /\ Reserving' \subseteq Reserving \union {j}
<1> DEFINE n == Min({Reservation, cost})
           held == Fill(Room, Reservation)
           price == Fill(held, n)
           paid == cost > 0
           p == [g \in Grants |-> IF paid THEN grants[g].reserved ELSE grants[g].reserved + held[g]]
           q == [g \in Grants |-> grants[g].spent + price[g]]
<1>1. credit' = [credit EXCEPT ![j] = [held |-> held, state |-> IF paid THEN "SPENT" ELSE "RESERVED"]]
      /\ grants' = [g \in Grants |-> [grants[g] EXCEPT !.reserved = IF paid THEN @ ELSE @ + held[g],
                                                       !.spent = @ + price[g]]]
  BY DEF Queue
<1>2. n \in Nat /\ (~paid => n = 0) /\ Reservation \in Nat
  BY Price DEF QueueAssumption
<1> HIDE DEF n, paid
<1>3. held \in [Grants -> Nat] /\ \A g \in Grants : held[g] <= Room[g]
  BY <1>2, FillBounds, RoomBounds
<1> HIDE DEF held
<1>4. price \in [Grants -> Nat] /\ \A g \in Grants : price[g] <= held[g] /\ price[g] <= n
  BY <1>2, <1>3, FillBounds
<1> HIDE DEF price
<1>5. credit \in [Jobs -> [state : {"NONE", "RESERVED", "SPENT", "RELEASED"}, held : [Grants -> Nat]]]
      /\ grants \in [Grants -> [state : {"none", "open", "expired"}, reserved : Nat, spent : Nat]]
      /\ IsFiniteSet(Reserving)
  BY DEF Balanced, CreditTyped
<1>6. /\ credit' \in [Jobs -> [state : {"NONE", "RESERVED", "SPENT", "RELEASED"}, held : [Grants -> Nat]]]
      /\ \A k \in Jobs \ {j} : credit'[k] = credit[k]
      /\ credit'[j].held = held /\ credit'[j].state = IF paid THEN "SPENT" ELSE "RESERVED"
  BY <1>1, <1>3, <1>5
<1>7. Reserving' = IF paid THEN Reserving ELSE Reserving \union {j}
  BY <1>6 DEF Reserving
<1>8. IsFiniteSet(Reserving') /\ Reserving \subseteq Jobs
  <2>1. IsFiniteSet(Reserving \union {j})
    BY <1>5, FS_AddElement
  <2>2. IsFiniteSet(Reserving')
    BY <1>5, <1>7, <2>1
  <2> QED  BY <2>2 DEF Reserving
<1>9. \A g \in Grants : p[g] = SumFunctionOnSet(HeldFrom(g)', Reserving')
  <2> TAKE g \in Grants
  <2>1. PICK before, after : before = HeldFrom(g) /\ after = HeldFrom(g)'
    OBVIOUS
  <2>2. after[j] = held[g] /\ \A k \in Jobs \ {j} : after[k] = before[k]
    BY <1>6, <2>1 DEF HeldFrom
  <2>3. grants[g].reserved = SumFunctionOnSet(before, Reserving) /\ \A k \in Reserving : before[k] \in Nat
    BY <1>8, <2>1, Balances
  <2>4. \A k \in Reserving : before[k] = after[k] /\ after[k] \in Nat
    BY <1>8, <2>2, <2>3
  <2>5. SumFunctionOnSet(after, Reserving) = grants[g].reserved
    BY <1>5, <2>3, <2>4, SumSame
  <2>6. CASE paid
    BY <1>7, <2>1, <2>5, <2>6
  <2>7. CASE ~paid
    <3> DEFINE all == Reserving \union {j}
    <3>1. IsFiniteSet(all) /\ j \in all /\ all \ {j} = Reserving
      BY <1>5, FS_AddElement
    <3>2. \A k \in all : after[k] \in Nat
      BY <1>3, <2>2, <2>4
    <3> HIDE DEF all
    <3>3. SumFunctionOnSet(after, all) = after[j] + SumFunctionOnSet(after, all \ {j})
      BY <3>1, <3>2, SumTake
    <3>4. SumFunctionOnSet(after, all) = grants[g].reserved + held[g]
      <4>1. after[j] = held[g] /\ SumFunctionOnSet(after, all \ {j}) = grants[g].reserved
        BY <2>2, <2>5, <3>1
      <4>2. held[g] \in Nat /\ grants[g].reserved \in Nat
        BY <1>3, Balances
      <4> QED  BY <3>3, <4>1, <4>2
    <3> QED  BY <1>7, <2>1, <2>7, <3>4 DEF all
  <2> QED  BY <2>6, <2>7
<1>10. \A g \in Grants :
         /\ p[g] = (IF paid THEN grants[g].reserved ELSE grants[g].reserved + held[g]) /\ q[g] = grants[g].spent + price[g]
         /\ p[g] \in Nat /\ q[g] \in Nat /\ p[g] + q[g] <= Allowance[g]
  <2> TAKE g \in Grants
  <2>1. p[g] = (IF paid THEN grants[g].reserved ELSE grants[g].reserved + held[g]) /\ q[g] = grants[g].spent + price[g]
    OBVIOUS
  <2> HIDE DEF p, q
  <2>2. /\ grants[g].reserved \in Nat /\ grants[g].spent \in Nat /\ Allowance[g] \in Nat
        /\ held[g] \in Nat /\ price[g] \in Nat /\ price[g] <= held[g] /\ (~paid => price[g] = 0)
    BY <1>2, <1>3, <1>4, Balances DEF QueueAssumption
  <2>3. Room[g] \in Nat /\ held[g] <= Room[g] /\ grants[g].reserved + grants[g].spent + Room[g] <= Allowance[g]
    BY <1>3, RoomBounds
  <2> QED  BY <2>1, <2>2, <2>3
<1>11. p \in [Grants -> Nat] /\ q \in [Grants -> Nat]
  BY <1>10
<1>12. grants' = [g \in Grants |-> [grants[g] EXCEPT !.reserved = p[g], !.spent = q[g]]]
  BY <1>1, <1>5
<1> HIDE DEF p, q
<1>13. credit' \in [Jobs -> [state : {"NONE", "RESERVED", "SPENT", "RELEASED"}, held : [Grants -> Nat]]]
  BY <1>6
<1>14. \A g \in Grants : p[g] + q[g] <= Allowance[g]
  BY <1>10
<1>15. Balanced'
  BY <1>5, <1>8, <1>9, <1>11, <1>12, <1>13, <1>14, BalancedAgain
<1> QED  BY <1>7, <1>15

\* A call without a job is paid from what is there.
LEMMA UnqueuedKeeps ==
    ASSUME QueueAssumption, Balanced, NEW w \in Processes, work[w].cost \in Nat, ChargeUnqueued(w)
    PROVE  Balanced' /\ Reserving' \subseteq Reserving
<1> DEFINE n == Min({Reservation, work[w].cost})
           price == Fill(Room, n)
           p == [g \in Grants |-> grants[g].reserved]
           q == [g \in Grants |-> grants[g].spent + price[g]]
<1>1. credit' = credit
      /\ grants' = [g \in Grants |-> [grants[g] EXCEPT !.spent = @ + price[g]]]
  BY DEF ChargeUnqueued
<1>2. n \in Nat
  BY Price
<1> HIDE DEF n
<1>3. price \in [Grants -> Nat] /\ \A g \in Grants : price[g] <= Room[g]
  BY <1>2, FillBounds, RoomBounds
<1> HIDE DEF price
<1>4. credit \in [Jobs -> [state : {"NONE", "RESERVED", "SPENT", "RELEASED"}, held : [Grants -> Nat]]]
      /\ grants \in [Grants -> [state : {"none", "open", "expired"}, reserved : Nat, spent : Nat]]
      /\ IsFiniteSet(Reserving)
  BY DEF Balanced, CreditTyped
<1>5. Reserving' = Reserving /\ IsFiniteSet(Reserving') /\ \A g \in Grants : HeldFrom(g)' = HeldFrom(g)
  BY <1>1, <1>4 DEF Reserving, HeldFrom
<1>6. \A g \in Grants : p[g] = SumFunctionOnSet(HeldFrom(g)', Reserving')
  BY <1>5, Balances
<1>7. \A g \in Grants : p[g] \in Nat /\ q[g] \in Nat /\ p[g] + q[g] <= Allowance[g]
  <2> TAKE g \in Grants
  <2>1. p[g] = grants[g].reserved /\ q[g] = grants[g].spent + price[g]
    OBVIOUS
  <2> HIDE DEF p, q
  <2>2. grants[g].reserved \in Nat /\ grants[g].spent \in Nat /\ Allowance[g] \in Nat /\ price[g] \in Nat
    BY <1>3, Balances DEF QueueAssumption
  <2>3. Room[g] \in Nat /\ price[g] <= Room[g] /\ grants[g].reserved + grants[g].spent + Room[g] <= Allowance[g]
    BY <1>3, RoomBounds
  <2> QED  BY <2>1, <2>2, <2>3
<1>8. p \in [Grants -> Nat] /\ q \in [Grants -> Nat]
  BY <1>7
<1>9. grants' = [g \in Grants |-> [grants[g] EXCEPT !.reserved = p[g], !.spent = q[g]]]
  BY <1>1, <1>4
<1> HIDE DEF p, q
<1>10. credit' \in [Jobs -> [state : {"NONE", "RESERVED", "SPENT", "RELEASED"}, held : [Grants -> Nat]]]
  BY <1>1, <1>4
<1>11. Balanced'
  BY <1>4, <1>5, <1>6, <1>7, <1>8, <1>9, <1>10, BalancedAgain
<1> QED  BY <1>5, <1>11

\* A grant that is paid for or expires keeps its balance.
LEMMA StateKeeps ==
    ASSUME Balanced, NEW g \in Grants, NEW s \in {"open", "expired"}, credit' = credit,
           grants' = [grants EXCEPT ![g].state = s]
    PROVE  Balanced' /\ Reserving' \subseteq Reserving
<1>1. /\ grants' \in [Grants -> [state : {"none", "open", "expired"}, reserved : Nat, spent : Nat]]
      /\ \A h \in Grants : grants'[h].reserved = grants[h].reserved /\ grants'[h].spent = grants[h].spent
  BY DEF Balanced, CreditTyped
<1>2. Reserving' = Reserving /\ \A h \in Grants : HeldFrom(h)' = HeldFrom(h)
  BY DEF Reserving, HeldFrom
<1> QED  BY <1>1, <1>2 DEF Balanced, CreditTyped, CreditsConserved, Reserving

LEMMA NothingKeeps ==
    ASSUME Balanced, UNCHANGED <<credit, grants>>
    PROVE  Balanced' /\ Reserving' \subseteq Reserving
BY DEF Balanced, CreditTyped, CreditsConserved, Reserving, HeldFrom

\* A job that was raised stays a row.
RaisedStay == \A j \in Jobs : job[j].status # "NONE" => job'[j].status # "NONE"

\* A step that opens no reservation.
CreditKept == Balanced' /\ Reserving' \subseteq Reserving /\ RaisedStay

LEMMA KeptIsEnough ==
    ASSUME CreditInv, CreditKept
    PROVE  CreditInv'
BY DEF CreditInv, CreditKept, RaisedStay, Reserving

LEMMA OnlyStays ==
    ASSUME NEW j \in Jobs, Only(j), job'[j].status # "NONE"
    PROVE  RaisedStay
BY DEF Only, RaisedStay

LEMMA SameStays == ASSUME job' = job  PROVE RaisedStay
BY DEF RaisedStay

LEMMA SettleKept ==
    ASSUME QueueAssumption, QueueInv, CreditInv, NEW j \in Jobs, NEW s \in Statuses \ {"NONE"}, SettleJob(j, s)
    PROVE  CreditKept
<1>1. Only(j) /\ job'[j].status = s
  BY Settled DEF SettleJob
<1>2. Balanced' /\ Reserving' \subseteq Reserving
  <2>1. Release({j}) /\ {j} \in SUBSET Jobs /\ Balanced
    BY DEF SettleJob, CreditInv
  <2> QED  BY <2>1, ReleaseKeeps
<1> QED  BY <1>1, <1>2, OnlyStays DEF CreditKept

LEMMA TerminalKept ==
    ASSUME QueueAssumption, QueueInv, CreditInv, NEW w \in Processes, NEW j \in Jobs,
           NEW s \in Sent \union {"FAILED", "CANCELLED"}, Terminal(w, j, s)
    PROVE  CreditKept
<1>1. s \in Statuses \ {"NONE"}
  BY DEF Statuses, Sent
<1>2. SettleJob(j, s) \/ UNCHANGED <<job, credit, grants>>
  BY DEF Terminal
<1>3. CASE UNCHANGED <<job, credit, grants>>
  BY <1>3, NothingKeeps, SameStays DEF CreditInv, CreditKept
<1> QED  BY <1>1, <1>2, <1>3, SettleKept

LEMMA NoteKept ==
    ASSUME QueueInv, CreditInv, NEW j \in Jobs, NEW s \in Unconfirmed, Note(j, s)
    PROVE  CreditKept
<1>1. Balanced' /\ Reserving' \subseteq Reserving
  BY NothingKeeps DEF Note, CreditInv
<1>2. CASE job[j].status \notin Unconfirmed
  BY <1>1, <1>2, SameStays DEF Note, CreditKept
<1>3. CASE job[j].status \in Unconfirmed
  <2>1. Only(j) /\ job'[j].status = s
    BY <1>3 DEF Note, QueueInv, Typed, Only, JobRow, Statuses, Active
  <2> QED  BY <1>1, <2>1, OnlyStays DEF CreditKept, Unconfirmed
<1> QED  BY <1>2, <1>3

\* Raising a job opens the reservation of a job that had none.
LEMMA RaiseKeeps ==
    ASSUME QueueAssumption, QueueInv, CreditInv, NEW j \in Jobs, Queueable(j),
           NEW s \in {"PENDING", "AWAITING_APPROVAL"}, NEW text \in BOOLEAN, NEW cost \in Nat, Queue(j, s, text, cost)
    PROVE  CreditInv'
<1>1. j \notin Reserving
  BY DEF CreditInv, Queueable
<1>2. Balanced' /\ Reserving' \subseteq Reserving \union {j}
  BY <1>1, QueueKeeps DEF CreditInv
<1>3. Only(j)
  BY Queued1
<1>4. job'[j].status = s
  BY DEF Queue, QueueInv, Typed
<1>5. RaisedStay
  BY <1>3, <1>4, OnlyStays
<1> QED  BY <1>2, <1>4, <1>5 DEF CreditInv, RaisedStay, Reserving

\* Steps that leave credit alone.
LEMMA StaysKeep ==
    ASSUME CreditInv, UNCHANGED <<credit, grants>>, RaisedStay
    PROVE  CreditInv'
BY NothingKeeps, KeptIsEnough DEF CreditKept, CreditInv

-----------------------------------------------------------------------------
(* The actions, and credit *)

LEMMA RaisingCredit ==
    ASSUME QueueAssumption, QueueInv, CreditInv,
           \/ \E j \in Jobs : StartFollowup(j) \/ \E w \in Processes : QueueTemplate(w, j)
           \/ \E w \in Processes : QueueWritten(w)
    PROVE  CreditInv'
<1>1. ASSUME NEW j \in Jobs, StartFollowup(j) \/ \E w \in Processes : QueueTemplate(w, j)
      PROVE  CreditInv'
  <2>1. PICK s \in {"PENDING", "AWAITING_APPROVAL"}, text \in BOOLEAN : Queueable(j) /\ Queue(j, s, text, 0)
    BY <1>1 DEF StartFollowup, QueueTemplate
  <2> QED  BY <2>1, RaiseKeeps
<1>2. ASSUME NEW w \in Processes, QueueWritten(w)
      PROVE  CreditInv'
  <2>1. work[w].job \in Jobs /\ work[w].cost \in Nat
    BY <1>2 DEF QueueWritten, QueueInv, HandInv, Typed, WorkRow, QueueAssumption
  <2>2. CASE Queueable(work[w].job) /\ Queue(work[w].job, "AWAITING_APPROVAL", TRUE, work[w].cost)
    BY <2>1, <2>2, RaiseKeeps
  <2>3. CASE UNCHANGED <<job, credit, grants>>
    BY <2>3, SameStays, StaysKeep
  <2> QED  BY <1>2, <2>2, <2>3 DEF QueueWritten
<1> QED  BY <1>1, <1>2

LEMMA WorkingCredit ==
    ASSUME QueueAssumption, QueueInv, CreditInv, NEW w \in Processes,
           Fail(w) \/ EndStale(w) \/ Record(w) \/ RecordReceipt(w)
    PROVE  CreditInv'
<1> DEFINE j == work[w].job
<1>1. j \in Jobs
  BY DEF QueueInv, HandInv, Fail, EndStale, Record, RecordReceipt
<1>2. \/ \E s \in Sent \union {"FAILED", "CANCELLED"} : Terminal(w, j, s)
      \/ \E s \in Unconfirmed : Note(j, s)
  <2>1. CASE Fail(w)
    BY <2>1 DEF Fail
  <2>2. CASE EndStale(w)
    BY <2>2 DEF EndStale
  <2>3. CASE Record(w)
    BY <2>3 DEF Record, Sent, Unconfirmed
  <2>4. CASE RecordReceipt(w)
    <3>1. work[w].answer \in {"FAILED", "ACCEPTED", "UNKNOWN"} \union Sent
      BY <2>4 DEF RecordReceipt, QueueInv, HandInv, Typed, WorkRow
    <3> QED  BY <2>4, <3>1 DEF RecordReceipt, Sent, Unconfirmed
  <2> QED  BY <2>1, <2>2, <2>3, <2>4
<1> QED  BY <1>1, <1>2, TerminalKept, NoteKept, KeptIsEnough

LEMMA EndingCredit ==
    ASSUME QueueAssumption, QueueInv, CreditInv, NEW j \in Jobs,
           Discard(j) \/ \E w \in Processes : LimitReached(w, j) \/ GiveUp(w, j)
    PROVE  CreditInv'
<1>1. \/ \E s \in {"FAILED", "CANCELLED"} : SettleJob(j, s)
      \/ Note(j, "UNKNOWN")
  BY DEF Discard, LimitReached, GiveUp
<1>2. {"FAILED", "CANCELLED"} \subseteq Statuses \ {"NONE"} /\ "UNKNOWN" \in Unconfirmed
  BY DEF Statuses, Unconfirmed
<1> QED  BY <1>1, <1>2, SettleKept, NoteKept, KeptIsEnough

LEMMA DispatchCredit ==
    ASSUME QueueAssumption, QueueInv, CreditInv, NEW w \in Processes, Dispatch(w)
    PROVE  CreditInv'
<1> DEFINE j == work[w].job
<1>1. j \in Jobs
  BY DEF Dispatch, QueueInv, HandInv
<1>2. \/ UNCHANGED <<job, credit, grants>>
      \/ SettleJob(j, "CANCELLED")
      \/ /\ UNCHANGED <<credit, grants>>
         /\ \E s \in {"PENDING", "DISPATCHING"} : job' = [job EXCEPT ![j] = SettledRow(@, s)]
  BY DEF Dispatch
<1>3. {"CANCELLED", "PENDING", "DISPATCHING"} \subseteq Statuses
  BY DEF Statuses, Active, Queued, Unconfirmed
<1>4. CASE UNCHANGED <<job, credit, grants>>
  BY <1>4, SameStays, StaysKeep
<1>5. CASE SettleJob(j, "CANCELLED")
  BY <1>1, <1>3, <1>5, SettleKept, KeptIsEnough
<1>6. CASE /\ UNCHANGED <<credit, grants>>
           /\ \E s \in {"PENDING", "DISPATCHING"} : job' = [job EXCEPT ![j] = SettledRow(@, s)]
  <2>1. PICK s \in {"PENDING", "DISPATCHING"} : job' = [job EXCEPT ![j] = SettledRow(@, s)]
    BY <1>6
  <2>2. Only(j) /\ job'[j].status = s
    BY <1>1, <1>3, <2>1, Settled, ZenonT(60)
  <2>3. RaisedStay
    BY <1>1, <2>2, OnlyStays
  <2> QED  BY <1>6, <2>3, StaysKeep
<1> QED  BY <1>2, <1>4, <1>5, <1>6

LEMMA PayingCredit ==
    ASSUME QueueAssumption, QueueInv, CreditInv, NEW w \in Processes,
           BillGeneration(w) \/ SettleCredit(w) \/ ChargeUnqueued(w)
    PROVE  CreditInv'
<1> DEFINE j == work[w].job
<1>1. j \in Jobs /\ work[w].cost \in Nat
  BY DEF BillGeneration, SettleCredit, ChargeUnqueued, QueueInv, HandInv, Typed, WorkRow, QueueAssumption
<1>2. Balanced' /\ Reserving' \subseteq Reserving
  <2>1. CASE Charge(j, work[w].cost)
    BY <1>1, <2>1, ChargeKeeps DEF CreditInv
  <2>2. CASE Release({j})
    BY <1>1, <2>2, ReleaseKeeps DEF CreditInv
  <2>3. CASE ChargeUnqueued(w)
    BY <1>1, <2>3, UnqueuedKeeps DEF CreditInv
  <2> QED  BY <2>1, <2>2, <2>3 DEF BillGeneration, SettleCredit
<1>3. RaisedStay
  <2>1. CASE job' = job
    BY <2>1, SameStays
  <2>2. CASE job' = [job EXCEPT ![j] = SettledRow(@, "CANCELLED")]
    <3>1. Only(j) /\ job'[j].status = "CANCELLED"
      BY <1>1, <2>2, Settled DEF Statuses
    <3> QED  BY <1>1, <3>1, OnlyStays
  <2> QED  BY <2>1, <2>2 DEF BillGeneration, SettleCredit, ChargeUnqueued
<1> QED  BY <1>2, <1>3, KeptIsEnough DEF CreditKept

LEMMA RowsCredit ==
    ASSUME QueueAssumption, QueueInv, CreditInv,
           \/ \E w \in Processes : ReleaseLeases(w)
           \/ \E J \in SUBSET Jobs : Stop(J)
           \/ \E w \in Processes, j \in Jobs : Claim(w, j)
           \/ \E j \in Jobs : Approve(j) \/ LeaseRunsOut(j)
    PROVE  CreditInv'
<1>1. /\ \A s \in Statuses, k \in Jobs : SettledRow(job[k], s).status = s
      /\ \A k \in Jobs : job[k] \in JobRow
      /\ {"PENDING", "CANCELLED", "CANCEL_REQUESTED"} \subseteq Statuses
  <2>1. \A k \in Jobs : job[k] \in JobRow
    BY DEF QueueInv, Typed
  <2>2. \A s \in Statuses, row \in JobRow : SettledRow(row, s).status = s
    BY DEF SettledRow, JobRow
  <2> QED  BY <2>1, <2>2 DEF Statuses, Active, Queued
<1>2. CASE \E w \in Processes : ReleaseLeases(w)
  <2>1. PICK dead \in SUBSET Jobs :
          job' = [k \in Jobs |-> IF k \in dead THEN SettledRow(job[k], "PENDING") ELSE job[k]]
    BY <1>2 DEF ReleaseLeases, Jobs
  <2>2. RaisedStay
    BY <1>1, <2>1 DEF RaisedStay
  <2> QED  BY <1>2, <2>2, StaysKeep DEF ReleaseLeases
<1>3. CASE \E J \in SUBSET Jobs : Stop(J)
  <2>0. PICK J \in SUBSET Jobs : Stop(J)
    BY <1>3
  <2>1. PICK seen \in [J -> Queued] :
          /\ job' = [j \in Jobs |->
                  IF j \notin J THEN job[j]
                  ELSE IF seen[j] = "PREPARING" THEN [job[j] EXCEPT !.status = "CANCEL_REQUESTED"]
                  ELSE SettledRow(job[j], "CANCELLED")]
          /\ Release({j \in J : seen[j] = "PENDING"})
    BY <2>0 DEF Stop
  <2>2. \A k \in Jobs : [job[k] EXCEPT !.status = "CANCEL_REQUESTED"].status = "CANCEL_REQUESTED"
    BY <1>1 DEF JobRow
  <2>3. RaisedStay
    BY <1>1, <2>1, <2>2 DEF RaisedStay
  <2>4. {j \in J : seen[j] = "PENDING"} \in SUBSET Jobs
    OBVIOUS
  <2>5. Balanced' /\ Reserving' \subseteq Reserving
    BY <2>1, <2>4, ReleaseKeeps DEF CreditInv
  <2> QED  BY <2>3, <2>5, KeptIsEnough DEF CreditKept
<1>4. CASE \E w \in Processes, j \in Jobs : Claim(w, j)
  <2>1. PICK w \in Processes, j \in Jobs : Claim(w, j)
    BY <1>4
  <2>2. job' = [job EXCEPT ![j] = [job[j] EXCEPT !.status = "PREPARING", !.lease = "live"]] /\ UNCHANGED <<credit, grants>>
    BY <2>1 DEF Claim
  <2>3. RaisedStay
    BY <1>1, <2>2 DEF RaisedStay, JobRow, QueueInv, Typed
  <2> QED  BY <2>2, <2>3, StaysKeep
<1>5. CASE \E j \in Jobs : Approve(j) \/ LeaseRunsOut(j)
  <2>1. PICK j \in Jobs : \/ job' = [job EXCEPT ![j].status = "PENDING"]
                          \/ job' = [job EXCEPT ![j].lease = "over"]
    BY <1>5 DEF Approve, LeaseRunsOut
  <2>2. job[j] \in JobRow /\ job \in [Jobs -> JobRow]
    BY DEF QueueInv, Typed
  <2>3. \A k \in Jobs : job'[k].status \in {job[k].status, "PENDING"}
    <3>1. CASE job' = [job EXCEPT ![j].status = "PENDING"]
      BY <2>2, <3>1 DEF JobRow
    <3>2. CASE job' = [job EXCEPT ![j].lease = "over"]
      BY <2>2, <3>2 DEF JobRow
    <3> QED  BY <2>1, <3>1, <3>2
  <2>4. RaisedStay
    BY <2>3 DEF RaisedStay
  <2> QED  BY <1>5, <2>4, StaysKeep DEF Approve, LeaseRunsOut
<1> QED  BY <1>2, <1>3, <1>4, <1>5

LEMMA CreditNext ==
    ASSUME QueueAssumption, QueueInv, CreditInv, Next
    PROVE  CreditInv'
<1>1. UNCHANGED <<job, credit, grants>> => CreditInv'
  BY SameStays, StaysKeep
<1>2. ASSUME NEW j \in Jobs, StartFollowup(j) \/ Approve(j) \/ Discard(j) \/ LeaseRunsOut(j) \/ Bounce(j)
      PROVE  CreditInv'
  BY <1>1, <1>2, RaisingCredit, EndingCredit, RowsCredit DEF Bounce
<1>3. ASSUME NEW w \in Processes, NEW j \in Jobs,
             \/ QueueTemplate(w, j) \/ Propose(w, j) \/ Claim(w, j) \/ LimitReached(w, j)
             \/ FindStale(w, j) \/ GiveUp(w, j) \/ AskReceipt(w, j)
      PROVE  CreditInv'
  BY <1>1, <1>3, RaisingCredit, EndingCredit, RowsCredit DEF Propose, FindStale, AskReceipt
<1>4. ASSUME NEW w \in Processes, Step(w) \/ ReleaseLeases(w) \/ Crash(w)
      PROVE  CreditInv'
  <2>1. CASE QueueWritten(w)
    BY <2>1, RaisingCredit
  <2>2. CASE Step(w) /\ ~QueueWritten(w)
    BY <1>1, <2>2, WorkingCredit, DispatchCredit, PayingCredit DEF Step, Generate, Write, Send
  <2>3. CASE ReleaseLeases(w) \/ Crash(w)
    BY <1>1, <2>3, RowsCredit DEF Crash
  <2> QED  BY <1>4, <2>1, <2>2, <2>3
<1>5. ASSUME NEW J \in Stoppable, Stop(J)
      PROVE  CreditInv'
  <2>1. J \in SUBSET Jobs
    BY DEF Stoppable, Jobs
  <2> QED  BY <1>5, <2>1, RowsCredit
<1>6. ASSUME NEW g \in Grants, GrantPaid(g) \/ ExpireGrant(g)
      PROVE  CreditInv'
  <2>1. PICK s \in {"open", "expired"} : grants' = [grants EXCEPT ![g].state = s] /\ UNCHANGED <<job, credit>>
    BY <1>6 DEF GrantPaid, ExpireGrant
  <2> QED  BY <2>1, StateKeeps, SameStays, KeptIsEnough DEF CreditKept, CreditInv
<1> QED  BY <1>2, <1>3, <1>4, <1>5, <1>6 DEF Next

LEMMA CreditInit ==
    ASSUME QueueAssumption, Init
    PROVE  CreditInv
<1>1. Reserving = {}
  BY DEF Init, Reserving, NoCredit
<1>2. CreditTyped
  BY DEF Init, CreditTyped, NoCredit
<1>3. CreditsConserved
  <2>1. SUFFICES ASSUME NEW g \in Grants
                 PROVE  /\ grants[g].reserved = SumFunctionOnSet(HeldFrom(g), {})
                        /\ grants[g].reserved + grants[g].spent <= Allowance[g]
    BY <1>1 DEF CreditsConserved, Reserving
  <2>2. grants[g].reserved = 0 /\ grants[g].spent = 0 /\ Allowance[g] \in Nat
    BY DEF Init, QueueAssumption
  <2> QED  BY <2>2, SumEmpty
<1>4. IsFiniteSet(Reserving)
  BY <1>1, FS_EmptySet
<1> QED  BY <1>1, <1>2, <1>3, <1>4 DEF CreditInv, Balanced

\* The reserve of a grant is at every moment the sum of what the open
\* reservations took from it, and with what is spent never above the grant.
THEOREM CreditInvariant == Spec => []CreditInv
<1>1. Init => CreditInv
  BY CreditInit, QueueAssumption
<1>2. QueueInv /\ CreditInv /\ [Next]_vars => CreditInv'
  <2>1. QueueInv /\ CreditInv /\ UNCHANGED vars => CreditInv'
    BY SameStays, StaysKeep DEF vars
  <2> QED  BY <2>1, CreditNext, QueueAssumption
<1> QED  BY <1>1, <1>2, QueueInvariant, PTL DEF Spec

\* No reservation is charged twice, returned twice or lost, and no grant is
\* overdrawn, whoever settles a job and whatever dies on the way.
THEOREM CreditIsConserved == Spec => []CreditsConserved
<1>1. CreditInv => CreditsConserved
  BY DEF CreditInv, Balanced
<1> QED  BY <1>1, CreditInvariant, PTL

\* Every row, grant and process stays of its type; no reserve and nothing
\* spent is ever negative.
THEOREM QueueTyped == Spec => []TypeOK
<1>1. QueueInv /\ CreditInv => TypeOK
  BY DEF QueueInv, Typed, CreditInv, Balanced, CreditTyped, TypeOK
<1> QED  BY <1>1, QueueInvariant, CreditInvariant, PTL
====
