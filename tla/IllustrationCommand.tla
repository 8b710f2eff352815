------------------------ MODULE IllustrationCommand -------------------------
(***************************************************************************)
(* Having the carrier make the official PDF of one illustration: the first *)
(* command is dispatched in one transaction when the illustration is       *)
(* created, and the button of its page resumes the latest command, retries *)
(* its login, or issues a further one, until the PDF is there.  Composes   *)
(* ConnectorCommand: a key is the number of the attempt.                   *)
(***************************************************************************)
EXTENDS ConnectorCommand

CONSTANTS
    MaxFaults   \* bound on crashes, lost answers and expiries

ASSUME AttemptAssumption == Keys \subseteq Nat /\ NoKey = 0
ASSUME IllustrationCapability == Capability = "GENERATE_ILLUSTRATION"
ASSUME FaultBoundAssumption == MaxFaults \in Nat

VARIABLES
    fetched,    \* the PDF of the illustration is stored
    faults      \* crashes, lost answers and expiries so far

vars == <<commandVars, fetched, faults>>

\* Type correctness.
TypeOK == CommandTypeOK /\ fetched \in BOOLEAN /\ faults \in 0..MaxFaults

Init == CommandInit /\ fetched = FALSE /\ faults = 0

Step(A) == A /\ UNCHANGED <<fetched, faults>>

\* A step of the environment that the instance bounds.
Fault(A) ==
    /\ A
    /\ faults < MaxFaults
    /\ faults' = faults + 1
    /\ UNCHANGED fetched

-----------------------------------------------------------------------------

Dispatched1 ==
    [NewCommand EXCEPT !.state = "QUEUED", !.confirmation = "APPROVED",
                       !.events = <<"WAITING_FOR_CONFIRMATION", "COMMAND_ACCEPTED">>]

\* The illustration is created with its first command, issued and approved, in one
\* transaction.
Dispatch ==
    /\ 1 \in Keys
    /\ \A k \in Keys : ~Exists(k)
    /\ command' = [command EXCEPT ![1] = Dispatched1]
    /\ UNCHANGED <<request, post, retry, ext>>

\* The latest attempt.
Latest(k) == Exists(k) /\ \A n \in Keys : n > k => ~Exists(n)

Resumable(k) == ~command[k].expired /\ command[k].state \in Live \cup {"WAITING_FOR_CONFIRMATION"}

\* The button asks for another attempt, or resumes the latest one by approving it.
PressButton(u) ==
    /\ ~fetched
    /\ request[u].pc = "free"
    /\ \E k \in Keys :
         /\ Latest(k)
         /\ \/ /\ ~Resumable(k)
               /\ k + 1 \in Keys
               /\ Ask(u, k + 1)
            \/ /\ Resumable(k)
               /\ command[k].confirmation = "PENDING"
               /\ request' = [request EXCEPT ![u] = [Idle EXCEPT !.pc = "approve", !.key = k]]
               /\ UNCHANGED <<command, post, retry, ext>>

\* Or by opening a new login episode.
PressRetry(k) == ~fetched /\ Latest(k) /\ Resumable(k) /\ RetryRead(k)

\* An attempt that was issued, by this call or by another, is approved if nobody has.
Issued(u) ==
    /\ request[u].pc = "issued"
    /\ IF command[request[u].key].confirmation = "PENDING"
       THEN To(u, "approve")
       ELSE request' = [request EXCEPT ![u] = Idle]
    /\ UNCHANGED <<command, post, retry, ext>>

\* A call that failed shows a message.
Failed(u) ==
    /\ request[u].pc = "failed"
    /\ request' = [request EXCEPT ![u] = Idle]
    /\ UNCHANGED <<command, post, retry, ext>>

\* The carrier has made the PDF, which is stored while the command is under way.
StorePdf(d) ==
    /\ ext[d].at = "execute"
    /\ ~fetched
    /\ InputReadable(ext[d].key)
    /\ fetched' = TRUE
    /\ UNCHANGED <<commandVars, faults>>

\* The receipt is posted, and accepted, when the PDF is stored.
PostReceipt(d) == fetched /\ Step(Execute(d))

-----------------------------------------------------------------------------

RequestStep(u) ==
    \/ PressButton(u)
    \/ IssueFind(u)
    \/ IssueCreate(u)
    \/ IssueFirstEvent(u)
    \/ Issued(u)
    \/ ApproveRead(u)
    \/ ApproveWrite(u)
    \/ ApproveAccept(u)
    \/ Failed(u)

EventStep(c) == PostRead(c) \/ PostAppend(c) \/ PostUpdate(c)

\* What the extension does by itself while its worker lives.
ExtensionStep(d) ==
    \/ \E k \in Keys : Step(ClaimOwned(d, k)) \/ Step(ClaimUnbound(d, k))
    \/ Step(ClaimCommit(d))
    \/ Step(RestartAuthentication(d))
    \/ Step(ReadInput(d, TRUE))
    \/ Step(ReportStart(d))
    \/ StorePdf(d)
    \/ PostReceipt(d)
    \/ Step(ReportCompletion(d))
    \/ Step(ReportFailure(d))

\* What happens to it.
ExtensionFate(d) ==
    \/ \E requirement \in SignIns : Step(SignInNeeded(d, requirement))
    \/ Step(ExecuteFails(d))
    \/ Fault(AnswerLost(d))
    \/ Fault(WorkerKilled(d))

Next ==
    \/ Step(Dispatch)
    \/ \E u \in Requests : Step(RequestStep(u)) \/ Fault(RequestCrash(u))
    \/ \E k \in Keys : Step(PressRetry(k)) \/ Step(RetryCommit(k)) \/ Fault(Expire(k))
    \/ \E c \in Posts : Step(EventStep(c)) \/ Fault(PostCrash(c))
    \/ \E d \in Devices : ExtensionStep(d) \/ ExtensionFate(d)

Spec == Init /\ [][Next]_vars
=============================================================================
