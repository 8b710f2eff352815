--------------------- MODULE IllustrationCommandProofs ----------------------
(***************************************************************************)
(* IllustrationCommand implements CommandLedger, and its logs tell of the  *)
(* work and of its login episodes in order: every step keeps CommandInv    *)
(* and is a step of the ledger, or one that the ledger does not see.       *)
(***************************************************************************)
EXTENDS IllustrationCommand, ConnectorCommandProofs

LEMMA DispatchedRow ==
    /\ Dispatched1 \in Command
    /\ Dispatched1.confirmation = "APPROVED"
    /\ Dispatched1.device = NoDevice
    /\ Dispatched1.authEpoch = 0
    /\ Dispatched1.events = <<"WAITING_FOR_CONFIRMATION", "COMMAND_ACCEPTED">>
<1>1. NewCommand \in Command
      BY DEF NewCommand, Command, States, Confirmations, AuthStates
<1>2. <<"WAITING_FOR_CONFIRMATION", "COMMAND_ACCEPTED">> \in Seq(EventTypes)
      BY DEF EventTypes
<1>3. Dispatched1 \in Command
      BY <1>1, <1>2 DEF Dispatched1, Command, States, Confirmations
<1> QED BY <1>3 DEF Dispatched1, NewCommand

LEMMA DispatchKeeps ==
    ASSUME CommandInv, Dispatch
    PROVE  CommandInv'
<1>1. 1 \in Keys /\ ~Exists(1) /\ command' = [command EXCEPT ![1] = Dispatched1]
      BY DEF Dispatch
<1>2. \A i \in DOMAIN Dispatched1.events : Dispatched1.events[i] \in AgentEvents
      BY DispatchedRow DEF AgentEvents, EventTypes, DeviceEvents
<1>3. RowsTyped /\ Grow /\ \A j \in Keys : RowInv(j)'
      BY <1>1, <1>2, DispatchedRow, CreatingKeepsRows
<1>4. RetryInv(1)'
      BY <1>1, <1>3, RetryKept DEF Dispatch
<1> QED BY <1>1, <1>3, <1>4, RetryStepKeeps DEF Dispatch, CommandInv, CommandTypeOK

LEMMA DispatchStep ==
    ASSUME CommandInv, Dispatch
    PROVE  LedgerStep
<1>1. /\ 1 \in Keys
      /\ ~Exists(1)
      /\ command' = [command EXCEPT ![1] = Dispatched1]
      /\ CommandTypeOK
      /\ UNCHANGED Hands
      BY SameHands DEF Dispatch, CommandInv
<1>2. /\ Confirmed' = Confirmed \cup {1}
      /\ Holder' = [Holder EXCEPT ![1] = NoDevice]
      /\ Log' = [Log EXCEPT ![1] = <<"WAITING_FOR_CONFIRMATION", "COMMAND_ACCEPTED">>]
  <2>1. /\ Confirmed' = IF Dispatched1.confirmation = "APPROVED"
                        THEN Confirmed \cup {1} ELSE Confirmed \ {1}
        /\ Holder' = [Holder EXCEPT ![1] = Dispatched1.device]
        /\ Log' = [Log EXCEPT ![1] = Dispatched1.events]
        BY <1>1, DispatchedRow, RowSeen
  <2> QED BY <2>1, DispatchedRow
<1>3. Holder[1] = NoDevice /\ Log[1] = <<>>
      BY <1>1 DEF Holder, Log
<1>4. Holder' = Holder
      BY <1>2, <1>3 DEF Holder
<1>5. Ledger!Open(1, "WAITING_FOR_CONFIRMATION", "COMMAND_ACCEPTED")
      BY <1>1, <1>2, <1>3, <1>4 DEF Ledger!Open
<1>6. {"WAITING_FOR_CONFIRMATION", "COMMAND_ACCEPTED"} \subseteq AgentEvents
      BY DEF AgentEvents, EventTypes, DeviceEvents
<1> QED BY <1>1, <1>5, <1>6 DEF LedgerStep, Ledger!Next

LEMMA PressButtonKeeps ==
    ASSUME CommandInv, NEW u \in Requests, PressButton(u)
    PROVE  CommandInv' /\ LedgerStep
<1>1. PICK k \in Keys :
         /\ Exists(k)
         /\ \/ k + 1 \in Keys /\ Ask(u, k + 1)
            \/ /\ request' = [request EXCEPT ![u] = [Idle EXCEPT !.pc = "approve", !.key = k]]
               /\ UNCHANGED <<command, post, retry, ext>>
      BY DEF PressButton, Latest
<1>2. CASE k + 1 \in Keys /\ Ask(u, k + 1)
      BY <1>2, AskKeeps, AskStep
<1>3. CASE /\ request' = [request EXCEPT ![u] = [Idle EXCEPT !.pc = "approve", !.key = k]]
           /\ UNCHANGED <<command, post, retry, ext>>
  <2>1. RowsTyped /\ Grow /\ \A j \in Keys : RowInv(j)'
        BY <1>3, NothingLost
  <2>2. [Idle EXCEPT !.pc = "approve", !.key = k] \in Request
        BY DEF Idle, Request, RequestSteps
  <2>3. /\ request' \in [Requests -> Request]
        /\ \A v \in Requests \ {u} : request'[v] = request[v]
        /\ request'[u] = [Idle EXCEPT !.pc = "approve", !.key = k]
        BY <1>3, <2>2 DEF CommandInv, CommandTypeOK
  <2>4. RequestInv(u)'
        BY <1>1, <1>3, <2>3 DEF RequestInv, Idle, Exists
  <2> QED BY <1>3, <2>1, <2>3, <2>4, RequestStepKeeps, SameHands, Unseen
<1> QED BY <1>1, <1>2, <1>3

LEMMA IssuedKeeps ==
    ASSUME CommandInv, NEW u \in Requests, Issued(u)
    PROVE  CommandInv' /\ LedgerStep
<1>1. /\ request[u].pc = "issued"
      /\ request[u].key \in Keys
      /\ Exists(request[u].key)
      /\ UNCHANGED <<command, post, retry, ext>>
      BY DEF Issued, CommandInv, RequestInv, RequestSteps
<1>2. RowsTyped /\ Grow /\ \A j \in Keys : RowInv(j)'
      BY <1>1, NothingLost
<1>3. CASE To(u, "approve")
  <2>1. /\ request' \in [Requests -> Request]
        /\ \A v \in Requests \ {u} : request'[v] = request[v]
        /\ request'[u].pc = "approve"
        /\ request'[u].key = request[u].key
        BY <1>3, CallMoves DEF RequestSteps
  <2>2. RequestInv(u)'
        BY <1>1, <2>1 DEF RequestInv, Exists
  <2> QED BY <1>1, <1>2, <2>1, <2>2, RequestStepKeeps, SameHands, Unseen
<1>4. CASE request' = [request EXCEPT ![u] = Idle]
      BY <1>1, <1>2, <1>4, CallEnds, RequestStepKeeps, SameHands, Unseen
<1> QED BY <1>3, <1>4 DEF Issued

LEMMA FailedKeeps ==
    ASSUME CommandInv, NEW u \in Requests, Failed(u)
    PROVE  CommandInv' /\ LedgerStep
<1>1. /\ request' = [request EXCEPT ![u] = Idle]
      /\ UNCHANGED <<command, post, retry, ext>>
      BY DEF Failed
<1>2. RowsTyped /\ Grow /\ \A j \in Keys : RowInv(j)'
      BY <1>1, NothingLost
<1> QED BY <1>1, <1>2, CallEnds, RequestStepKeeps, SameHands, Unseen

LEMMA NextKeeps ==
    ASSUME CommandInv, [Next]_vars
    PROVE  CommandInv' /\ LedgerStep
<1>1. CASE Step(Dispatch)
      BY <1>1, DispatchKeeps, DispatchStep DEF Step
<1>2. ASSUME NEW u \in Requests, Step(RequestStep(u)) \/ Fault(RequestCrash(u))
      PROVE  CommandInv' /\ LedgerStep
  <2>1. CASE PressButton(u)
        BY <2>1, PressButtonKeeps
  <2>2. CASE IssueFind(u)
        BY <2>2, IssueFindKeeps, IssueFindStep
  <2>3. CASE IssueCreate(u)
        BY <2>3, IssueCreateKeeps, IssueCreateStep
  <2>4. CASE IssueFirstEvent(u)
        BY <2>4, IssueFirstEventKeeps, IssueFirstEventStep
  <2>5. CASE Issued(u)
        BY <2>5, IssuedKeeps
  <2>6. CASE ApproveRead(u)
        BY <2>6, ApproveReadKeeps, ApproveReadStep
  <2>7. CASE ApproveWrite(u)
        BY <2>7, ApproveWriteKeeps, ApproveWriteStep
  <2>8. CASE ApproveAccept(u)
        BY <2>8, ApproveAcceptKeeps, ApproveAcceptStep
  <2>9. CASE Failed(u)
        BY <2>9, FailedKeeps
  <2>10. CASE RequestCrash(u)
        BY <2>10, RequestCrashKeeps, RequestCrashStep
  <2> QED BY <1>2, <2>1, <2>2, <2>3, <2>4, <2>5, <2>6, <2>7, <2>8, <2>9, <2>10
          DEF Step, Fault, RequestStep
<1>3. ASSUME NEW k \in Keys, Step(PressRetry(k)) \/ Step(RetryCommit(k)) \/ Fault(Expire(k))
      PROVE  CommandInv' /\ LedgerStep
  <2>1. CASE PressRetry(k)
        BY <2>1, RetryReadKeeps, RetryReadStep DEF PressRetry
  <2>2. CASE RetryCommit(k)
        BY <2>2, RetryCommitKeeps, RetryCommitStep
  <2>3. CASE Expire(k)
        BY <2>3, ExpireKeeps, ExpireStep
  <2> QED BY <1>3, <2>1, <2>2, <2>3 DEF Step, Fault
<1>4. ASSUME NEW c \in Posts, Step(EventStep(c)) \/ Fault(PostCrash(c))
      PROVE  CommandInv' /\ LedgerStep
  <2>1. CASE PostRead(c)
        BY <2>1, PostReadKeeps, PostReadStep
  <2>2. CASE PostAppend(c)
        BY <2>2, PostAppendKeeps, PostAppendStep
  <2>3. CASE PostUpdate(c)
        BY <2>3, PostUpdateKeeps, PostUpdateStep
  <2>4. CASE PostCrash(c)
        BY <2>4, PostCrashKeeps, PostCrashStep
  <2> QED BY <1>4, <2>1, <2>2, <2>3, <2>4 DEF Step, Fault, EventStep
<1>5. ASSUME NEW d \in Devices, ExtensionStep(d)
      PROVE  CommandInv' /\ LedgerStep
  <2>1. ASSUME NEW k \in Keys, ClaimOwned(d, k) PROVE CommandInv' /\ LedgerStep
        BY <2>1, ClaimOwnedKeeps, ClaimOwnedStep
  <2>2. ASSUME NEW k \in Keys, ClaimUnbound(d, k) PROVE CommandInv' /\ LedgerStep
        BY <2>2, ClaimUnboundKeeps, ClaimUnboundStep
  <2>3. CASE ClaimCommit(d)
        BY <2>3, ClaimCommitKeeps, ClaimCommitStep
  <2>4. CASE RestartAuthentication(d)
        BY <2>4, RestartAuthenticationKeeps, RestartAuthenticationStep
  <2>5. CASE ReadInput(d, TRUE)
        BY <2>5, ReadInputKeeps, ReadInputStep
  <2>6. CASE ReportStart(d)
        BY <2>6, ReportStartKeeps, ReportStartStep
  <2>7. CASE StorePdf(d)
        BY <2>7, CommandStutter DEF StorePdf
  <2>8. CASE Execute(d)
        BY <2>8, ExecuteKeeps, ExecuteStep
  <2>9. CASE ReportCompletion(d)
        BY <2>9, ReportCompletionKeeps, ReportCompletionStep
  <2>10. CASE ReportFailure(d)
        BY <2>10, ReportFailureKeeps, ReportFailureStep
  <2> QED BY <1>5, <2>1, <2>2, <2>3, <2>4, <2>5, <2>6, <2>7, <2>8, <2>9, <2>10
          DEF ExtensionStep, Step, PostReceipt
<1>6. ASSUME NEW d \in Devices, ExtensionFate(d)
      PROVE  CommandInv' /\ LedgerStep
  <2>1. ASSUME NEW requirement \in SignIns, SignInNeeded(d, requirement)
        PROVE  CommandInv' /\ LedgerStep
        BY <2>1, SignInNeededKeeps, SignInNeededStep
  <2>2. CASE ExecuteFails(d)
        BY <2>2, ExecuteFailsKeeps, ExecuteFailsStep
  <2>3. CASE AnswerLost(d)
        BY <2>3, AnswerLostKeeps, AnswerLostStep
  <2>4. CASE WorkerKilled(d)
        BY <2>4, WorkerKilledKeeps, WorkerKilledStep
  <2> QED BY <1>6, <2>1, <2>2, <2>3, <2>4 DEF ExtensionFate, Step, Fault
<1>7. CASE UNCHANGED vars
      BY <1>7, CommandStutter DEF vars
<1> QED BY <1>1, <1>2, <1>3, <1>4, <1>5, <1>6, <1>7 DEF Next

\* The commands of an illustration keep the invariant, through every interleaving
\* of calls, retries, event handlers and devices, and every crash.
THEOREM IllustrationInvariant == Spec => []CommandInv
<1>1. Init => CommandInv
      BY CommandInitInv DEF Init
<1>2. CommandInv /\ [Next]_vars => CommandInv'
      BY NextKeeps
<1> QED BY <1>1, <1>2, PTL DEF Spec

\* The events of the work are recorded in its order, for any number of attempts,
\* devices and requests in flight, whichever of them dies.
THEOREM IllustrationWorkFollowsItsReport == Spec => []WorkFollowsItsReport
<1>1. CommandInv => WorkFollowsItsReport
      BY InvImpliesReports
<1> QED BY <1>1, IllustrationInvariant, PTL

\* No authentication episode is counted that the log does not tell of.
THEOREM IllustrationEpisodesAreLogged == Spec => []EpisodesAreLogged
<1>1. CommandInv => EpisodesAreLogged
      BY InvImpliesReports
<1> QED BY <1>1, IllustrationInvariant, PTL

\* The commands of an illustration implement the ledger: a command is bound once,
\* while confirmed, only the device that holds it carries it out, and its log is
\* append-only, with no event of a device before the binding.
THEOREM IllustrationImplementsLedger == Spec => ImplementsLedger
<1>1. Init => Ledger!Init
      BY LedgerStart DEF Init
<1>2. CommandInv /\ [Next]_vars => [Ledger!Next]_(Ledger!vars)
  <2> SUFFICES ASSUME CommandInv, [Next]_vars PROVE [Ledger!Next]_(Ledger!vars)
      OBVIOUS
  <2>1. LedgerStep
        BY NextKeeps
  <2> QED BY <2>1 DEF LedgerStep, Ledger!vars
<1> QED BY <1>1, <1>2, IllustrationInvariant, PTL DEF Spec, ImplementsLedger, Ledger!Spec

=============================================================================
