----------------------- MODULE ApplicationDraftProofs -----------------------
(***************************************************************************)
(* ApplicationDraft: nothing reaches the carrier unasked, reported drafts  *)
(* are stored, and landed drafts stay; and its commands implement          *)
(* CommandLedger.                                                          *)
(***************************************************************************)
EXTENDS ApplicationDraft, ConnectorCommandProofs

\* What is confirmed, held or started was asked for, and what is reported as a
\* draft is stored.
RowAsked(k) ==
    Exists(k) =>
        /\ command[k].confirmation = "APPROVED" => k \in asked
        /\ command[k].device # NoDevice => k \in asked
        /\ "COMMAND_STARTED" \in Logged(k) => k \in asked
        /\ command[k].state = "COMPLETED" => k \in stored
        /\ "DATA_BATCH" \in Logged(k) => k \in stored

\* A call approves what it has moved to preparing.
CallAsked(u) ==
    request[u].pc \in {"approve", "write", "accept"} => request[u].key \in asked

\* An event that tells of a draft has passed the check of its handler.
PostStored(c) ==
    /\ post[c].pc \in {"read", "append", "update"}
    /\ post[c].type \in {"DATA_BATCH", "COMMAND_COMPLETED"}
    => post[c].key \in stored

DraftFacts ==
    /\ \A k \in Keys : RowAsked(k)
    /\ \A u \in Requests : CallAsked(u)
    /\ \A c \in Posts : PostStored(c)
    /\ stored \subseteq asked

DraftInv == TypeOK /\ CommandInv /\ DraftFacts

-----------------------------------------------------------------------------
(* The commands.                                                            *)

\* The handler of an event goes on to store a receipt, or to record the event.
LEMMA CheckPassed ==
    ASSUME CommandInv, NEW c \in Posts, post[c].pc # "free", NEW pc \in {"store", "read"},
           post' = [post EXCEPT ![c].pc = pc], UNCHANGED <<command, request, retry, ext>>
    PROVE  CommandInv' /\ LedgerStep
<1>1. RowsTyped /\ Grow /\ \A j \in Keys : RowInv(j)'
      BY NothingLost
<1>2. post \in [Posts -> Post] /\ post[c] \in Post
      BY DEF CommandInv, CommandTypeOK
<1>3. [post[c] EXCEPT !.pc = pc] \in Post
      BY <1>2 DEF Post, PostSteps
<1>4. /\ post' \in [Posts -> Post]
      /\ post'[c].pc = pc
      /\ post'[c].key = post[c].key
      /\ post'[c].seq = post[c].seq
      /\ post'[c].type = post[c].type
      /\ \A b \in Posts \ {c} : post'[b] = post[b]
      BY <1>2, <1>3 DEF Post
<1>5. PostInv(c)' /\ HandlerInv(c)'
      BY <1>4 DEF CommandInv, PostInv, HandlerInv, Recorded, Exists
<1> QED BY <1>1, <1>4, <1>5, HandlerStepKeeps, SameHands, Unseen

\* Or ends here.
LEMMA CheckRefused ==
    ASSUME CommandInv, NEW c \in Posts, post[c].pc = "effect", Finish(c, FALSE),
           UNCHANGED <<command, request, retry>>
    PROVE  CommandInv' /\ LedgerStep
BY NothingLost, FinishKeeps, SameRows, FinishStep

\* A call moves on, knowing its key.
LEMMA CallMovesOn ==
    ASSUME CommandInv, NEW u \in Requests, NEW pc \in {"approve", "failed"}, To(u, pc),
           request[u].pc = "issued", UNCHANGED <<command, post, retry, ext>>
    PROVE  CommandInv' /\ LedgerStep
<1>1. RowsTyped /\ Grow /\ \A j \in Keys : RowInv(j)'
      BY NothingLost
<1>2. request[u].key \in Keys /\ Exists(request[u].key)
      BY DEF CommandInv, RequestInv, RequestSteps
<1>3. /\ request' \in [Requests -> Request]
      /\ \A v \in Requests \ {u} : request'[v] = request[v]
      /\ request'[u].pc = pc
      /\ request'[u].key = request[u].key
      BY CallMoves DEF RequestSteps
<1>4. RequestInv(u)'
      BY <1>2, <1>3 DEF RequestInv, Exists
<1> QED BY <1>1, <1>3, <1>4, RequestStepKeeps, SameHands, Unseen

LEMMA PrepareStepKeeps ==
    ASSUME DraftInv, NEW u \in Requests, PrepareStep(u)
    PROVE  CommandInv' /\ LedgerStep
<1> USE DEF DraftInv
<1>1. CASE Prepare(u)
  <2>1. app.hash \in Keys /\ Ask(u, app.hash)
        BY <1>1 DEF Prepare, Ready, CommandStep, TypeOK
  <2> QED BY <2>1, AskKeeps, AskStep
<1>2. CASE PrepareRefused(u)
  <2>1. /\ request' = [request EXCEPT ![u] = [Idle EXCEPT !.pc = "failed"]]
        /\ UNCHANGED <<command, post, retry, ext>>
        BY <1>2 DEF PrepareRefused
  <2>2. RowsTyped /\ Grow /\ \A j \in Keys : RowInv(j)'
        BY <2>1, NothingLost
  <2>3. [Idle EXCEPT !.pc = "failed"] \in Request
        BY DEF Idle, Request, RequestSteps
  <2>4. /\ request' \in [Requests -> Request]
        /\ \A v \in Requests \ {u} : request'[v] = request[v]
        /\ request'[u] = [Idle EXCEPT !.pc = "failed"]
        BY <2>1, <2>3 DEF CommandInv, CommandTypeOK
  <2>5. RequestInv(u)'
        BY <2>4 DEF RequestInv, Idle
  <2> QED BY <2>1, <2>2, <2>4, <2>5, RequestStepKeeps, SameHands, Unseen
<1>3. CASE MoveToPreparing(u)
      BY <1>3, CallMovesOn DEF MoveToPreparing
<1>4. CASE PrepareCatch(u)
  <2>1. /\ request' = [request EXCEPT ![u] = Idle]
        /\ UNCHANGED <<command, post, retry, ext>>
        BY <1>4 DEF PrepareCatch
  <2>2. RowsTyped /\ Grow /\ \A j \in Keys : RowInv(j)'
        BY <2>1, NothingLost
  <2> QED BY <2>1, <2>2, CallEnds, RequestStepKeeps, SameHands, Unseen
<1>5. CASE IssueFind(u)
      BY <1>5, IssueFindKeeps, IssueFindStep
<1>6. CASE IssueCreate(u)
      BY <1>6, IssueCreateKeeps, IssueCreateStep
<1>7. CASE IssueFirstEvent(u)
      BY <1>7, IssueFirstEventKeeps, IssueFirstEventStep
<1>8. CASE ApproveRead(u)
      BY <1>8, ApproveReadKeeps, ApproveReadStep
<1>9. CASE ApproveWrite(u)
      BY <1>9, ApproveWriteKeeps, ApproveWriteStep
<1>10. CASE ApproveAccept(u)
      BY <1>10, ApproveAcceptKeeps, ApproveAcceptStep
<1>11. CASE RequestCrash(u)
      BY <1>11, RequestCrashKeeps, RequestCrashStep
<1> QED BY <1>1, <1>2, <1>3, <1>4, <1>5, <1>6, <1>7, <1>8, <1>9, <1>10, <1>11
        DEF PrepareStep, CommandStep, Fault

LEMMA EventStepKeeps ==
    ASSUME CommandInv, NEW c \in Posts, EventStep(c) \/ Fault(PostCrash(c))
    PROVE  CommandInv' /\ LedgerStep
<1>1. CASE ReceiptRead(c)
      BY <1>1, CheckPassed, CheckRefused DEF ReceiptRead
<1>2. CASE ReceiptWrite(c)
      BY <1>2, CheckPassed DEF ReceiptWrite
<1>3. CASE CheckCompletion(c)
      BY <1>3, CheckPassed, CheckRefused DEF CheckCompletion
<1>4. CASE TakeFailure(c)
      BY <1>4, CheckPassed, CheckRefused DEF TakeFailure
<1>5. CASE PostRead(c)
      BY <1>5, PostReadKeeps, PostReadStep
<1>6. CASE PostAppend(c)
      BY <1>6, PostAppendKeeps, PostAppendStep
<1>7. CASE PostUpdate(c)
      BY <1>7, PostUpdateKeeps, PostUpdateStep
<1>8. CASE PostCrash(c)
      BY <1>8, PostCrashKeeps, PostCrashStep
<1> QED BY <1>1, <1>2, <1>3, <1>4, <1>5, <1>6, <1>7, <1>8 DEF EventStep, CommandStep, Fault

LEMMA DeviceStepKeeps ==
    ASSUME CommandInv, NEW d \in Devices, ExtensionStep(d) \/ ExtensionFate(d)
    PROVE  CommandInv' /\ LedgerStep
<1>1. ASSUME NEW k \in Keys, ClaimOwned(d, k) PROVE CommandInv' /\ LedgerStep
      BY <1>1, ClaimOwnedKeeps, ClaimOwnedStep
<1>2. ASSUME NEW k \in Keys, ClaimUnbound(d, k) PROVE CommandInv' /\ LedgerStep
      BY <1>2, ClaimUnboundKeeps, ClaimUnboundStep
<1>3. CASE ClaimCommit(d)
      BY <1>3, ClaimCommitKeeps, ClaimCommitStep
<1>4. CASE ReadInput(d, Input(ext[d].key))
  <2>1. Input(ext[d].key) \in BOOLEAN
        BY DEF Input
  <2> QED BY <1>4, <2>1, ReadInputKeeps, ReadInputStep
<1>5. CASE ReportStart(d)
      BY <1>5, ReportStartKeeps, ReportStartStep
<1>6. CASE Execute(d)
      BY <1>6, ExecuteKeeps, ExecuteStep
<1>7. CASE ReportCompletion(d)
      BY <1>7, ReportCompletionKeeps, ReportCompletionStep
<1>8. CASE ReportFailure(d)
      BY <1>8, ReportFailureKeeps, ReportFailureStep
<1>9. ASSUME NEW requirement \in SignIns, SignInNeeded(d, requirement)
      PROVE  CommandInv' /\ LedgerStep
      BY <1>9, SignInNeededKeeps, SignInNeededStep
<1>10. CASE ExecuteFails(d)
      BY <1>10, ExecuteFailsKeeps, ExecuteFailsStep
<1>11. CASE AnswerLost(d)
      BY <1>11, AnswerLostKeeps, AnswerLostStep
<1>12. CASE WorkerKilled(d)
      BY <1>12, WorkerKilledKeeps, WorkerKilledStep
<1> QED BY <1>1, <1>2, <1>3, <1>4, <1>5, <1>6, <1>7, <1>8, <1>9, <1>10, <1>11, <1>12
        DEF ExtensionStep, ExtensionFate, FetchDossier, CommandStep, Fault

LEMMA NextKeepsCommands ==
    ASSUME DraftInv, [Next]_vars
    PROVE  CommandInv' /\ LedgerStep
<1>1. CommandInv
      BY DEF DraftInv
<1>2. CASE AgentStep
  <2>1. UNCHANGED commandVars
        BY <1>2 DEF AgentStep, SaveDossier, ChangeDocuments, ReviewRead, ReviewWrite
  <2> QED BY <1>1, <2>1, CommandStutter
<1>3. ASSUME NEW u \in Requests, PrepareStep(u) PROVE CommandInv' /\ LedgerStep
      BY <1>3, PrepareStepKeeps
<1>4. ASSUME NEW c \in Posts, EventStep(c) \/ Fault(PostCrash(c)) PROVE CommandInv' /\ LedgerStep
      BY <1>1, <1>4, EventStepKeeps
<1>5. ASSUME NEW d \in Devices, ExtensionStep(d) \/ ExtensionFate(d) PROVE CommandInv' /\ LedgerStep
      BY <1>1, <1>5, DeviceStepKeeps
<1>6. ASSUME NEW k \in Keys, Fault(Expire(k)) PROVE CommandInv' /\ LedgerStep
      BY <1>1, <1>6, ExpireKeeps, ExpireStep DEF Fault
<1>7. CASE UNCHANGED vars
      BY <1>1, <1>7, CommandStutter DEF vars
<1> QED BY <1>2, <1>3, <1>4, <1>5, <1>6, <1>7 DEF Next

-----------------------------------------------------------------------------
(* What was asked, and what is stored.                                      *)

LEMMA RowStaysAsked ==
    ASSUME DraftInv, asked \subseteq asked', stored \subseteq stored',
           NEW k \in Keys, command'[k] = command[k]
    PROVE  RowAsked(k)'
<1>1. RowAsked(k)
      BY DEF DraftInv, DraftFacts
<1> QED BY <1>1 DEF RowAsked, Exists, Logged

LEMMA CallStaysAsked ==
    ASSUME DraftInv, asked \subseteq asked', NEW u \in Requests, request'[u] = request[u]
    PROVE  CallAsked(u)'
BY DEF DraftInv, DraftFacts, CallAsked

LEMMA PostStaysStored ==
    ASSUME DraftInv, stored \subseteq stored', NEW c \in Posts, post'[c] = post[c]
    PROVE  PostStored(c)'
BY DEF DraftInv, DraftFacts, PostStored

\* Neither rows nor calls nor events change.
LEMMA SameFacts ==
    ASSUME DraftInv, UNCHANGED <<command, request, post, asked, stored>>
    PROVE  DraftFacts'
BY RowStaysAsked, CallStaysAsked, PostStaysStored DEF DraftInv, DraftFacts

\* Only one call changes.
LEMMA CallFacts ==
    ASSUME DraftInv, NEW u \in Requests, \A v \in Requests \ {u} : request'[v] = request[v],
           CallAsked(u)', asked \subseteq asked', UNCHANGED <<command, post, stored>>
    PROVE  DraftFacts'
BY RowStaysAsked, CallStaysAsked, PostStaysStored DEF DraftInv, DraftFacts

\* One call and the row that it works on change.
LEMMA RowFacts ==
    ASSUME DraftInv, NEW u \in Requests, \A v \in Requests \ {u} : request'[v] = request[v],
           CallAsked(u)',
           NEW k \in Keys, \A j \in Keys \ {k} : command'[j] = command[j], RowAsked(k)',
           UNCHANGED <<post, asked, stored>>
    PROVE  DraftFacts'
<1>1. \A j \in Keys : RowAsked(j)'
      BY RowStaysAsked
<1>2. \A v \in Requests : CallAsked(v)'
      BY CallStaysAsked
<1>3. \A c \in Posts : PostStored(c)'
      BY PostStaysStored
<1> QED BY <1>1, <1>2, <1>3 DEF DraftInv, DraftFacts

\* One event changes, and perhaps the row that it is about.
LEMMA EventFacts ==
    ASSUME DraftInv, NEW c \in Posts, \A b \in Posts \ {c} : post'[b] = post[b], PostStored(c)',
           NEW k \in Keys, \A j \in Keys \ {k} : command'[j] = command[j], RowAsked(k)',
           stored \subseteq stored', stored' \subseteq asked, UNCHANGED <<request, asked>>
    PROVE  DraftFacts'
<1>1. \A j \in Keys : RowAsked(j)'
      BY RowStaysAsked
<1>2. \A v \in Requests : CallAsked(v)'
      BY CallStaysAsked
<1>3. \A b \in Posts : PostStored(b)'
      BY PostStaysStored
<1> QED BY <1>1, <1>2, <1>3 DEF DraftInv, DraftFacts

LEMMA FinishFacts ==
    ASSUME DraftInv, NEW c \in Posts, NEW ok \in BOOLEAN, Finish(c, ok),
           NEW k \in Keys, \A j \in Keys \ {k} : command'[j] = command[j], RowAsked(k)',
           UNCHANGED <<request, asked, stored>>
    PROVE  DraftFacts'
<1>1. post \in [Posts -> Post]
      BY DEF DraftInv, CommandInv, CommandTypeOK
<1>2. post'[c] = FreePost /\ \A b \in Posts \ {c} : post'[b] = post[b]
      BY <1>1 DEF Finish
<1>3. PostStored(c)'
      BY <1>2 DEF PostStored, FreePost
<1>4. stored \subseteq asked
      BY DEF DraftInv, DraftFacts
<1> QED BY <1>2, <1>3, <1>4, EventFacts

LEMMA SameRowsFinishFacts ==
    ASSUME DraftInv, NEW c \in Posts, NEW ok \in BOOLEAN, Finish(c, ok),
           NEW k \in Keys, UNCHANGED <<command, request, asked, stored>>
    PROVE  DraftFacts'
<1>1. RowAsked(k)'
      BY RowStaysAsked
<1> QED BY <1>1, FinishFacts

LEMMA PostingFacts ==
    ASSUME DraftInv, NEW d \in Devices, NEW type \in DeviceEvents, Posting(d, type),
           UNCHANGED <<asked, stored>>
    PROVE  DraftFacts'
<1>1. PICK c \in Posts : post' = [post EXCEPT ![c] = NewPost(ext[d].key, type, ext[d].next)]
      BY DEF Posting
<1>2. UNCHANGED <<command, request>> /\ post \in [Posts -> Post]
      BY DEF Posting, DraftInv, CommandInv, CommandTypeOK
<1>3. /\ post'[c] = NewPost(ext[d].key, type, ext[d].next)
      /\ \A b \in Posts \ {c} : post'[b] = post[b]
      BY <1>1, <1>2
<1>4. /\ NewPost(ext[d].key, type, ext[d].next).type = type
      /\ type \in {"DATA_BATCH", "COMMAND_COMPLETED"}
         => NewPost(ext[d].key, type, ext[d].next).pc = "effect"
      BY DraftCapability DEF NewPost, FreePost, EffectTypes
<1>5. PostStored(c)'
      BY <1>3, <1>4 DEF PostStored
<1>6. /\ \A j \in Keys : RowAsked(j)'
      /\ \A v \in Requests : CallAsked(v)'
      /\ \A b \in Posts : PostStored(b)'
      BY <1>2, <1>3, <1>5, RowStaysAsked, CallStaysAsked, PostStaysStored
<1> QED BY <1>6 DEF DraftInv, DraftFacts

-----------------------------------------------------------------------------

LEMMA AgentFacts ==
    ASSUME DraftInv, AgentStep
    PROVE  DraftFacts'
<1>1. UNCHANGED <<command, request, post, asked, stored>>
      BY DEF AgentStep, SaveDossier, ChangeDocuments, ReviewRead, ReviewWrite, commandVars
<1> QED BY <1>1, SameFacts

LEMMA PrepareFacts ==
    ASSUME DraftInv, NEW u \in Requests, PrepareStep(u)
    PROVE  DraftFacts'
<1>1. CommandInv /\ CommandTypeOK /\ request \in [Requests -> Request] /\ request[u] \in Request
      BY DEF DraftInv, CommandInv, CommandTypeOK
<1>2. CASE Prepare(u)
  <2>1. /\ request' = [request EXCEPT ![u] = [Idle EXCEPT !.pc = "find", !.key = app.hash]]
        /\ UNCHANGED <<command, post, asked, stored>>
        BY <1>2 DEF Prepare, CommandStep, Ask, draftVars
  <2>2. CallAsked(u)' /\ \A v \in Requests \ {u} : request'[v] = request[v]
        BY <1>1, <2>1 DEF CallAsked, Idle
  <2> QED BY <2>1, <2>2, CallFacts
<1>3. CASE PrepareRefused(u)
  <2>1. /\ request' = [request EXCEPT ![u] = [Idle EXCEPT !.pc = "failed"]]
        /\ UNCHANGED <<command, post, asked, stored>>
        BY <1>3 DEF PrepareRefused, draftVars
  <2>2. CallAsked(u)' /\ \A v \in Requests \ {u} : request'[v] = request[v]
        BY <1>1, <2>1 DEF CallAsked, Idle
  <2> QED BY <2>1, <2>2, CallFacts
<1>4. CASE MoveToPreparing(u)
  <2>1. UNCHANGED <<command, post, stored>> /\ asked \subseteq asked'
        BY <1>4 DEF MoveToPreparing
  <2>2. CallAsked(u)' /\ \A v \in Requests \ {u} : request'[v] = request[v]
    <3>1. CASE Moves(request[u].key)
      <4>1. To(u, "approve") /\ request[u].key \in asked'
            BY <1>4, <3>1 DEF MoveToPreparing
      <4>2. request'[u].key = request[u].key /\ \A v \in Requests \ {u} : request'[v] = request[v]
            BY <1>1, <4>1, CallMoves DEF RequestSteps
      <4> QED BY <4>1, <4>2 DEF CallAsked
    <3>2. CASE ~Moves(request[u].key)
      <4>1. To(u, "failed")
            BY <1>4, <3>2 DEF MoveToPreparing
      <4>2. request'[u].pc = "failed" /\ \A v \in Requests \ {u} : request'[v] = request[v]
            BY <1>1, <4>1, CallMoves DEF RequestSteps
      <4> QED BY <4>2 DEF CallAsked
    <3> QED BY <3>1, <3>2
  <2> QED BY <2>1, <2>2, CallFacts
<1>5. CASE PrepareCatch(u) \/ Fault(RequestCrash(u))
  <2>1. /\ request' = [request EXCEPT ![u] = Idle]
        /\ UNCHANGED <<command, post, asked, stored>>
        BY <1>5 DEF PrepareCatch, Fault, RequestCrash
  <2>2. CallAsked(u)' /\ \A v \in Requests \ {u} : request'[v] = request[v]
        BY <1>1, <2>1 DEF CallAsked, Idle
  <2> QED BY <2>1, <2>2, CallFacts
<1>6. CASE CommandStep(IssueFind(u))
  <2>1. PICK pc \in {"issued", "create"} : To(u, pc)
        BY <1>6 DEF CommandStep, IssueFind
  <2>2. request'[u].pc = pc /\ \A v \in Requests \ {u} : request'[v] = request[v]
        BY <1>1, <2>1, CallMoves DEF RequestSteps
  <2>3. CallAsked(u)' /\ UNCHANGED <<command, post, asked, stored>>
        BY <1>6, <2>2 DEF CallAsked, CommandStep, IssueFind, draftVars
  <2> QED BY <2>2, <2>3, CallFacts
<1>7. CASE CommandStep(IssueCreate(u))
  <2>1. PICK k \in Keys : k = request[u].key /\ UNCHANGED <<post, asked, stored>>
        BY <1>1, <1>7 DEF IssueCreate, CommandInv, RequestInv, RequestSteps, CommandStep, draftVars
  <2>2. PICK pc \in {"failed", "first"} : To(u, pc)
        BY <1>7 DEF CommandStep, IssueCreate
  <2>3. /\ request'[u].pc = pc
        /\ \A v \in Requests \ {u} : request'[v] = request[v]
        BY <1>1, <2>2, CallMoves DEF RequestSteps
  <2>4. CallAsked(u)'
        BY <2>3 DEF CallAsked
  <2>5. /\ command'[k] = command[k] \/ command'[k] = NewCommand
        /\ \A j \in Keys \ {k} : command'[j] = command[j]
        BY <1>1, <1>7, <2>1 DEF CommandStep, IssueCreate, CommandTypeOK
  <2>6. RowAsked(k)'
    <3>1. CASE command'[k] = command[k]
          BY <2>1, <3>1, RowStaysAsked
    <3>2. CASE command'[k] = NewCommand
          BY <3>2 DEF RowAsked, NewCommand, Logged
    <3> QED BY <2>5, <3>1, <3>2
  <2> QED BY <2>1, <2>3, <2>4, <2>5, <2>6, RowFacts
<1>8. CASE CommandStep(IssueFirstEvent(u)) \/ CommandStep(ApproveAccept(u))
  <2>1. PICK k \in Keys :
        /\ k = request[u].key
        /\ Exists(k)
        /\ RowAsked(k)
        /\ UNCHANGED <<post, asked, stored>>
        BY <1>1, <1>8 DEF IssueFirstEvent, ApproveAccept, CommandInv, RequestInv, RequestSteps,
                          CommandStep, draftVars, DraftInv, DraftFacts
  <2>2. CallAsked(u)' /\ \A v \in Requests \ {u} : request'[v] = request[v]
    <3>1. ASSUME NEW pc \in {"issued", "failed"}, To(u, pc)
          PROVE  CallAsked(u)' /\ \A v \in Requests \ {u} : request'[v] = request[v]
      <4>1. request'[u].pc = pc /\ \A v \in Requests \ {u} : request'[v] = request[v]
            BY <1>1, <3>1, CallMoves DEF RequestSteps
      <4> QED BY <4>1 DEF CallAsked
    <3>2. CASE request' = [request EXCEPT ![u] = Idle]
          BY <1>1, <3>2 DEF CallAsked, Idle
    <3> QED BY <1>8, <3>1, <3>2 DEF CommandStep, IssueFirstEvent, ApproveAccept
  <2>3. ASSUME NEW type \in {"WAITING_FOR_CONFIRMATION", "COMMAND_ACCEPTED"}, Append1(k, type)
        PROVE  RowAsked(k)' /\ \A j \in Keys \ {k} : command'[j] = command[j]
    <3>1. type \in EventTypes
          BY DEF EventTypes
    <3>2. /\ Logged(k)' = Logged(k) \cup {type}
          /\ command' = [command EXCEPT ![k] = command'[k]]
          /\ command'[k].confirmation = command[k].confirmation
          /\ command'[k].device = command[k].device
          /\ command'[k].state = command[k].state
          BY <1>1, <2>1, <2>3, <3>1, LoggedAppended, EventAppended
    <3>3. RowAsked(k)'
          BY <2>1, <3>2 DEF RowAsked
    <3> QED BY <3>2, <3>3, <1>1 DEF CommandTypeOK
  <2>4. CASE UNCHANGED command
        BY <2>1, <2>2, <2>4, RowStaysAsked, RowFacts
  <2>5. CASE \E type \in {"WAITING_FOR_CONFIRMATION", "COMMAND_ACCEPTED"} : Append1(k, type)
        BY <2>1, <2>2, <2>3, <2>5, RowFacts
  <2> QED BY <1>8, <2>1, <2>4, <2>5 DEF CommandStep, IssueFirstEvent, ApproveAccept
<1>9. CASE CommandStep(ApproveRead(u))
  <2>1. PICK k \in Keys :
        /\ k = request[u].key
        /\ Exists(k)
        /\ RowAsked(k)
        /\ k \in asked
        /\ command[k] \in Command
        /\ UNCHANGED <<post, asked, stored>>
        BY <1>1, <1>9, RowType DEF ApproveRead, CommandInv, RequestInv, RequestSteps, CallAsked,
                          CommandStep, draftVars, DraftInv, DraftFacts
  <2>2. CallAsked(u)' /\ \A v \in Requests \ {u} : request'[v] = request[v]
    <3>1. request'[u].key = k /\ \A v \in Requests \ {u} : request'[v] = request[v]
          BY <1>1, <1>9, <2>1 DEF CommandStep, ApproveRead, To, Request
    <3> QED BY <2>1, <3>1 DEF CallAsked
  <2>3. CASE UNCHANGED command
        BY <2>1, <2>2, <2>3, RowStaysAsked, RowFacts
  <2>4. CASE command' = [command EXCEPT ![k].state = "CANCELLED", ![k].confirmation = "EXPIRED"]
    <3>1. /\ command'[k].state = "CANCELLED"
          /\ command'[k].device = command[k].device
          /\ command'[k].events = command[k].events
          /\ \A j \in Keys \ {k} : command'[j] = command[j]
          BY <1>1, <2>1, <2>4 DEF Command, CommandTypeOK
    <3>2. RowAsked(k)'
          BY <2>1, <3>1 DEF RowAsked, Logged
    <3> QED BY <2>1, <2>2, <3>1, <3>2, RowFacts
  <2> QED BY <1>9, <2>1, <2>3, <2>4 DEF CommandStep, ApproveRead
<1>10. CASE CommandStep(ApproveWrite(u))
  <2>1. PICK k \in Keys :
        /\ k = request[u].key
        /\ Exists(k)
        /\ RowAsked(k)
        /\ k \in asked
        /\ command[k] \in Command
        /\ UNCHANGED <<post, asked, stored>>
        BY <1>1, <1>10, RowType DEF ApproveWrite, CommandInv, RequestInv, RequestSteps, CallAsked,
                          CommandStep, draftVars, DraftInv, DraftFacts
  <2>2. CallAsked(u)' /\ \A v \in Requests \ {u} : request'[v] = request[v]
    <3>1. request'[u].key = k /\ \A v \in Requests \ {u} : request'[v] = request[v]
          BY <1>1, <1>10, <2>1 DEF CommandStep, ApproveWrite, To, Request
    <3> QED BY <2>1, <3>1 DEF CallAsked
  <2>3. command' = [command EXCEPT ![k].state = "QUEUED", ![k].confirmation = "APPROVED"]
        BY <1>10, <2>1 DEF CommandStep, ApproveWrite
  <2>4. /\ command'[k].state = "QUEUED"
        /\ command'[k].device = command[k].device
        /\ command'[k].events = command[k].events
        /\ \A j \in Keys \ {k} : command'[j] = command[j]
        BY <1>1, <2>1, <2>3 DEF Command, CommandTypeOK
  <2>5. RowAsked(k)'
        BY <2>1, <2>4 DEF RowAsked, Logged
  <2> QED BY <2>1, <2>2, <2>4, <2>5, RowFacts
<1> QED BY <1>2, <1>3, <1>4, <1>5, <1>6, <1>7, <1>8, <1>9, <1>10 DEF PrepareStep

\* An event that is handled is about a command that some device holds.
LEMMA HandledIsAsked ==
    ASSUME DraftInv, NEW c \in Posts, post[c].pc # "free"
    PROVE  /\ post[c].key \in Keys
           /\ Exists(post[c].key)
           /\ RowAsked(post[c].key)
           /\ post[c].key \in asked
           /\ PostStored(c)
<1>1. post[c].key \in Keys /\ Exists(post[c].key) /\ command[post[c].key].device # NoDevice
      BY DEF DraftInv, CommandInv, PostInv
<1>2. RowAsked(post[c].key) /\ PostStored(c)
      BY <1>1 DEF DraftInv, DraftFacts
<1> QED BY <1>1, <1>2 DEF RowAsked

\* The handler goes on to record its event.
LEMMA PassedFacts ==
    ASSUME DraftInv, NEW c \in Posts, post[c].pc # "free",
           post' = [post EXCEPT ![c].pc = "read"],
           stored \subseteq stored', stored' \subseteq asked,
           post[c].type \in {"DATA_BATCH", "COMMAND_COMPLETED"} => post[c].key \in stored',
           UNCHANGED <<command, request, asked>>
    PROVE  DraftFacts'
<1>1. PICK k \in Keys : k = post[c].key
      BY HandledIsAsked
<1>2. post \in [Posts -> Post]
      BY DEF DraftInv, CommandInv, CommandTypeOK
<1>3. /\ post'[c].key = post[c].key
      /\ post'[c].type = post[c].type
      /\ \A b \in Posts \ {c} : post'[b] = post[b]
      BY <1>2 DEF Post
<1>4. PostStored(c)'
      BY <1>3 DEF PostStored
<1>5. RowAsked(k)'
      BY RowStaysAsked
<1> QED BY <1>3, <1>4, <1>5, EventFacts

LEMMA EffectFacts ==
    ASSUME DraftInv, NEW c \in Posts,
           ReceiptRead(c) \/ ReceiptWrite(c) \/ CheckCompletion(c) \/ TakeFailure(c)
    PROVE  DraftFacts'
<1>1. PICK k \in Keys : k = post[c].key /\ k \in asked /\ Exists(k) /\ RowAsked(k)
      BY HandledIsAsked DEF ReceiptRead, ReceiptWrite, CheckCompletion, TakeFailure
<1>2. stored \subseteq asked
      BY DEF DraftInv, DraftFacts
<1>3. ASSUME Finish(c, FALSE), UNCHANGED <<command, request, asked, stored>>
      PROVE  DraftFacts'
      BY <1>3, SameRowsFinishFacts
<1>4. CASE ReceiptRead(c)
  <2>1. UNCHANGED <<command, request, asked, stored>>
        BY <1>4 DEF ReceiptRead, draftVars
  <2>2. CASE Expected(c)
    <3>1. post' = [post EXCEPT ![c].pc = "store"] /\ post \in [Posts -> Post]
          BY <1>4, <2>2 DEF ReceiptRead, DraftInv, CommandInv, CommandTypeOK
    <3>2. post'[c].pc = "store" /\ \A b \in Posts \ {c} : post'[b] = post[b]
          BY <3>1 DEF Post
    <3>3. PostStored(c)'
          BY <3>2 DEF PostStored
    <3>4. RowAsked(k)'
          BY <2>1, RowStaysAsked
    <3> QED BY <1>2, <2>1, <3>2, <3>3, <3>4, EventFacts
  <2>3. CASE ~Expected(c)
        BY <1>3, <1>4, <2>1, <2>3 DEF ReceiptRead
  <2> QED BY <2>2, <2>3
<1>5. CASE ReceiptWrite(c)
  <2>1. /\ post[c].pc = "store"
        /\ stored' = stored \cup {k}
        /\ post' = [post EXCEPT ![c].pc = "read"]
        /\ UNCHANGED <<command, request, asked>>
        BY <1>1, <1>5 DEF ReceiptWrite
  <2>2. /\ stored \subseteq stored'
        /\ stored' \subseteq asked
        /\ post[c].key \in stored'
        BY <1>1, <1>2, <2>1
  <2> QED BY <2>1, <2>2, PassedFacts
<1>6. CASE CheckCompletion(c)
  <2>1. post[c].pc = "effect" /\ UNCHANGED <<command, request, asked, stored>>
        BY <1>6 DEF CheckCompletion, draftVars
  <2>2. CASE "DATA_BATCH" \in Logged(post[c].key)
    <3>1. post[c].key \in stored /\ post' = [post EXCEPT ![c].pc = "read"]
          BY <1>1, <1>6, <2>2 DEF CheckCompletion, RowAsked
    <3>2. /\ stored \subseteq stored'
          /\ stored' \subseteq asked
          /\ post[c].key \in stored'
          BY <1>2, <2>1, <3>1
    <3> QED BY <2>1, <3>1, <3>2, PassedFacts
  <2>3. CASE "DATA_BATCH" \notin Logged(post[c].key)
        BY <1>3, <1>6, <2>1, <2>3 DEF CheckCompletion
  <2> QED BY <2>2, <2>3
<1>7. CASE TakeFailure(c)
  <2>1. /\ post[c].pc = "effect"
        /\ post[c].type = "COMMAND_FAILED"
        /\ UNCHANGED <<command, request, asked, stored>>
        BY <1>7 DEF TakeFailure
  <2>2. CASE app.automation = "PREPARING_DRAFT"
    <3>1. post' = [post EXCEPT ![c].pc = "read"]
          BY <1>7, <2>2 DEF TakeFailure
    <3>2. stored \subseteq stored' /\ stored' \subseteq asked
          BY <1>2, <2>1
    <3> QED BY <2>1, <3>1, <3>2, PassedFacts
  <2>3. CASE app.automation # "PREPARING_DRAFT"
        BY <1>3, <1>7, <2>1, <2>3 DEF TakeFailure
  <2> QED BY <2>2, <2>3
<1> QED BY <1>4, <1>5, <1>6, <1>7

LEMMA PostReadFacts ==
    ASSUME DraftInv, NEW c \in Posts, PostRead(c), UNCHANGED <<asked, stored>>
    PROVE  DraftFacts'
<1>1. PICK k \in Keys : k = post[c].key /\ PostStored(c)
      BY HandledIsAsked DEF PostRead
<1>2. post[c].pc = "read" /\ UNCHANGED <<command, request>>
      BY DEF PostRead
<1>3. CASE Finish(c, FALSE)
      BY <1>2, <1>3, SameRowsFinishFacts
<1>4. CASE post' = [post EXCEPT ![c].pc = "append",
                                ![c].authState = command[post[c].key].authState,
                                ![c].authEpoch = command[post[c].key].authEpoch]
  <2>1. post \in [Posts -> Post]
        BY DEF DraftInv, CommandInv, CommandTypeOK
  <2>2. /\ post'[c].key = post[c].key
        /\ post'[c].type = post[c].type
        /\ \A b \in Posts \ {c} : post'[b] = post[b]
        BY <1>4, <2>1 DEF Post
  <2>3. PostStored(c)'
        BY <1>1, <1>2, <2>2 DEF PostStored
  <2>4. stored \subseteq stored' /\ stored' \subseteq asked
        BY DEF DraftInv, DraftFacts
  <2>5. RowAsked(k)'
        BY <1>2, RowStaysAsked
  <2> QED BY <1>2, <2>2, <2>3, <2>4, <2>5, EventFacts
<1> QED BY <1>3, <1>4 DEF PostRead

LEMMA PostAppendFacts ==
    ASSUME DraftInv, NEW c \in Posts, PostAppend(c), UNCHANGED <<asked, stored>>
    PROVE  DraftFacts'
<1>1. PICK k \in Keys :
      /\ k = post[c].key
      /\ k \in asked
      /\ Exists(k)
      /\ RowAsked(k)
      /\ PostStored(c)
      /\ post[c].type \in EventTypes
      BY HandledIsAsked, PostOf DEF PostAppend, DraftInv
<1>2. post[c].pc = "append" /\ UNCHANGED request /\ CommandTypeOK /\ post \in [Posts -> Post]
      BY DEF PostAppend, DraftInv, CommandInv, CommandTypeOK
<1>3. CASE NextNumber(c)
  <2>1. Append1(k, post[c].type)
        BY <1>1, <1>3 DEF PostAppend
  <2>2. PICK type \in EventTypes : type = post[c].type /\ Append1(k, type)
        BY <1>1, <2>1
  <2>3. /\ Logged(k)' = Logged(k) \cup {type}
        /\ command' = [command EXCEPT ![k] = command'[k]]
        /\ command'[k].confirmation = command[k].confirmation
        /\ command'[k].device = command[k].device
        /\ command'[k].state = command[k].state
        BY <1>1, <1>2, <2>2, LoggedAppended, EventAppended
  <2>4. type = "DATA_BATCH" => k \in stored
        BY <1>1, <1>2, <2>2 DEF PostStored
  <2>5. RowAsked(k)'
        BY <1>1, <2>3, <2>4 DEF RowAsked
  <2>6. \A j \in Keys \ {k} : command'[j] = command[j]
        BY <1>2, <2>3 DEF CommandTypeOK
  <2>7. CASE post' = [post EXCEPT ![c].pc = "update"]
    <3>1. /\ post'[c].key = post[c].key
          /\ post'[c].type = post[c].type
          /\ \A b \in Posts \ {c} : post'[b] = post[b]
          BY <1>2, <2>7 DEF Post
    <3>2. PostStored(c)'
          BY <1>1, <1>2, <3>1 DEF PostStored
    <3>3. stored \subseteq stored' /\ stored' \subseteq asked
          BY DEF DraftInv, DraftFacts
    <3> QED BY <1>2, <2>5, <2>6, <3>1, <3>2, <3>3, EventFacts
  <2>8. CASE Finish(c, TRUE)
        BY <1>2, <2>5, <2>6, <2>8, FinishFacts
  <2> QED BY <1>3, <2>7, <2>8 DEF PostAppend
<1>4. CASE ~NextNumber(c)
  <2>1. Finish(c, FALSE) /\ UNCHANGED command
        BY <1>4 DEF PostAppend
  <2> QED BY <1>1, <1>2, <2>1, SameRowsFinishFacts
<1> QED BY <1>3, <1>4

LEMMA PostUpdateFacts ==
    ASSUME DraftInv, NEW c \in Posts, PostUpdate(c), UNCHANGED <<asked, stored>>
    PROVE  DraftFacts'
<1>1. PICK k \in Keys :
      /\ k = post[c].key
      /\ Exists(k)
      /\ RowAsked(k)
      /\ PostStored(c)
      /\ post[c] \in Post
      BY HandledIsAsked, PostOf DEF PostUpdate, DraftInv
<1>2. /\ post[c].pc = "update"
      /\ UNCHANGED request
      /\ Finish(c, TRUE)
      /\ command' = [command EXCEPT ![k] = Updated(command[k], post[c])]
      BY <1>1 DEF PostUpdate
<1>3. command[k] \in Command /\ CommandTypeOK
      BY <1>1, RowType DEF DraftInv, CommandInv
<1>4. /\ post[c].type \in DOMAIN NextState
      /\ post[c].authEpoch <= Episodes(command[k].events)
      /\ post[c].type = "AUTH_REQUIRED" => post[c].authEpoch + 1 <= Episodes(command[k].events)
      /\ command[k].authEpoch <= Episodes(command[k].events)
      BY <1>1, <1>2 DEF DraftInv, CommandInv, HandlerInv, RowInv
<1>5. /\ NextState[post[c].type] \in States
      /\ NextState[post[c].type] = "COMPLETED" => post[c].type = "COMMAND_COMPLETED"
      BY <1>4 DEF NextState, States
<1>6. /\ Updated(command[k], post[c]).state = NextState[post[c].type]
      /\ Updated(command[k], post[c]).device = command[k].device
      /\ Updated(command[k], post[c]).events = command[k].events
      /\ Updated(command[k], post[c]).confirmation = command[k].confirmation
  <2>1. Episodes(command[k].events) \in Nat
        BY <1>1, <1>3, EpisodesNatural
  <2> QED BY <1>1, <1>3, <1>4, <1>5, <2>1, UpdatedRow
<1>7. command'[k] = Updated(command[k], post[c]) /\ \A j \in Keys \ {k} : command'[j] = command[j]
      BY <1>2, <1>3 DEF CommandTypeOK
<1>8. NextState[post[c].type] = "COMPLETED" => k \in stored
      BY <1>1, <1>2, <1>5 DEF PostStored
<1>9. RowAsked(k)'
  <2>1. /\ command'[k].confirmation = command[k].confirmation
        /\ command'[k].device = command[k].device
        /\ command'[k].state = "COMPLETED" => k \in stored
        BY <1>6, <1>7, <1>8
  <2>2. Logged(k)' = Logged(k)
        BY <1>6, <1>7 DEF Logged
  <2> QED BY <1>1, <2>1, <2>2 DEF RowAsked
<1> QED BY <1>2, <1>7, <1>9, FinishFacts

LEMMA EventStepFacts ==
    ASSUME DraftInv, NEW c \in Posts, EventStep(c) \/ Fault(PostCrash(c))
    PROVE  DraftFacts'
<1>1. CASE ReceiptRead(c) \/ ReceiptWrite(c) \/ CheckCompletion(c) \/ TakeFailure(c)
      BY <1>1, EffectFacts
<1>2. CASE CommandStep(PostRead(c))
      BY <1>2, PostReadFacts DEF CommandStep, draftVars
<1>3. CASE CommandStep(PostAppend(c))
      BY <1>3, PostAppendFacts DEF CommandStep, draftVars
<1>4. CASE CommandStep(PostUpdate(c))
      BY <1>4, PostUpdateFacts DEF CommandStep, draftVars
<1>5. CASE Fault(PostCrash(c))
  <2>1. /\ post[c].pc # "free"
        /\ Finish(c, FALSE)
        /\ UNCHANGED <<command, request, asked, stored>>
        BY <1>5 DEF Fault, PostCrash
  <2>2. PICK k \in Keys : k = post[c].key
        BY <2>1, HandledIsAsked
  <2> QED BY <2>1, SameRowsFinishFacts
<1> QED BY <1>1, <1>2, <1>3, <1>4, <1>5 DEF EventStep

-----------------------------------------------------------------------------

\* Taking a queued command, which was approved, which was asked.
LEMMA ClaimCommitFacts ==
    ASSUME DraftInv, NEW d \in Devices, ClaimCommit(d), UNCHANGED <<asked, stored>>
    PROVE  DraftFacts'
<1>1. PICK k \in Keys : k = ext[d].key /\ Exists(k) /\ RowInv(k) /\ RowAsked(k)
      BY DEF ClaimCommit, DraftInv, CommandInv, ExtensionInv, DraftFacts
<1>2. UNCHANGED <<request, post>> /\ CommandTypeOK
      BY DEF ClaimCommit, DraftInv, CommandInv
<1>3. CASE Claimable(k)
  <2>1. command' = [command EXCEPT ![k].device = d]
        BY <1>1, <1>3 DEF ClaimCommit
  <2>2. k \in asked
        BY <1>1, <1>3 DEF Claimable, RowInv, RowAsked
  <2>3. command[k] \in Command
        BY <1>1, <1>2, RowType
  <2>4. /\ command'[k].confirmation = command[k].confirmation
        /\ command'[k].state = command[k].state
        /\ command'[k].events = command[k].events
        /\ \A j \in Keys \ {k} : command'[j] = command[j]
        BY <1>2, <2>1, <2>3 DEF CommandTypeOK, Command
  <2>5. RowAsked(k)'
        BY <1>1, <2>2, <2>4, ZenonT(60) DEF RowAsked, Logged
  <2>6. \A j \in Keys : RowAsked(j)'
        BY <2>4, <2>5, RowStaysAsked
  <2>7. /\ \A u \in Requests : CallAsked(u)'
        /\ \A c \in Posts : PostStored(c)'
        BY <1>2, CallStaysAsked, PostStaysStored
  <2> QED BY <2>6, <2>7 DEF DraftInv, DraftFacts
<1>4. CASE ~Claimable(k)
  <2>1. UNCHANGED command
        BY <1>1, <1>4 DEF ClaimCommit
  <2> QED BY <1>2, <2>1, SameFacts
<1> QED BY <1>3, <1>4

LEMMA DeviceStepFacts ==
    ASSUME DraftInv, NEW d \in Devices, ExtensionStep(d) \/ ExtensionFate(d)
    PROVE  DraftFacts'
<1>1. UNCHANGED <<asked, stored>>
      BY DEF ExtensionStep, ExtensionFate, FetchDossier, CommandStep, Fault, draftVars
<1>2. ASSUME NEW k \in Keys, ClaimOwned(d, k) \/ ClaimUnbound(d, k) PROVE DraftFacts'
      BY <1>1, <1>2, SameFacts DEF ClaimOwned, ClaimUnbound
<1>3. CASE ClaimCommit(d)
      BY <1>1, <1>3, ClaimCommitFacts
<1>4. CASE ReadInput(d, Input(ext[d].key)) \/ ExecuteFails(d) \/ AnswerLost(d) \/ WorkerKilled(d)
      BY <1>1, <1>4, SameFacts DEF ReadInput, ExecuteFails, AnswerLost, WorkerKilled
<1>5. ASSUME NEW type \in DeviceEvents, Posting(d, type) PROVE DraftFacts'
      BY <1>1, <1>5, PostingFacts
<1>6. CASE ReportStart(d) \/ Execute(d) \/ ReportCompletion(d) \/ ReportFailure(d)
      BY <1>5, <1>6 DEF ReportStart, Execute, ReportCompletion, ReportFailure, DeviceEvents
<1>7. ASSUME NEW requirement \in SignIns, SignInNeeded(d, requirement) PROVE DraftFacts'
  <2>1. requirement \in DeviceEvents
        BY SignInAssumption DEF DeviceEvents
  <2>2. CASE Posting(d, requirement)
        BY <1>5, <2>1, <2>2
  <2>3. CASE UNCHANGED <<command, request, post, retry>>
        BY <1>1, <2>3, SameFacts
  <2> QED BY <1>7, <2>2, <2>3 DEF SignInNeeded
<1> QED BY <1>2, <1>3, <1>4, <1>6, <1>7
        DEF ExtensionStep, ExtensionFate, FetchDossier, CommandStep, Fault

LEMMA ExpireFacts ==
    ASSUME DraftInv, NEW k \in Keys, Fault(Expire(k))
    PROVE  DraftFacts'
<1>1. /\ Exists(k)
      /\ command' = [command EXCEPT ![k].expired = TRUE]
      /\ UNCHANGED <<request, post, asked, stored>>
      BY DEF Fault, Expire
<1>2. command[k] \in Command /\ CommandTypeOK /\ RowAsked(k)
      BY <1>1, RowType DEF DraftInv, DraftFacts, CommandInv
<1>3. /\ command'[k].confirmation = command[k].confirmation
      /\ command'[k].state = command[k].state
      /\ command'[k].device = command[k].device
      /\ command'[k].events = command[k].events
      /\ \A j \in Keys \ {k} : command'[j] = command[j]
      BY <1>1, <1>2 DEF CommandTypeOK, Command
<1>4. RowAsked(k)'
      BY <1>1, <1>2, <1>3 DEF RowAsked, Logged
<1>5. \A j \in Keys : RowAsked(j)'
      BY <1>1, <1>3, <1>4, RowStaysAsked
<1>6. /\ \A u \in Requests : CallAsked(u)'
      /\ \A c \in Posts : PostStored(c)'
      BY <1>1, CallStaysAsked, PostStaysStored
<1> QED BY <1>1, <1>5, <1>6 DEF DraftInv, DraftFacts

LEMMA NextKeepsFacts ==
    ASSUME DraftInv, [Next]_vars
    PROVE  DraftFacts'
<1>1. CASE AgentStep
      BY <1>1, AgentFacts
<1>2. ASSUME NEW u \in Requests, PrepareStep(u) PROVE DraftFacts'
      BY <1>2, PrepareFacts
<1>3. ASSUME NEW c \in Posts, EventStep(c) \/ Fault(PostCrash(c)) PROVE DraftFacts'
      BY <1>3, EventStepFacts
<1>4. ASSUME NEW d \in Devices, ExtensionStep(d) \/ ExtensionFate(d) PROVE DraftFacts'
      BY <1>4, DeviceStepFacts
<1>5. ASSUME NEW k \in Keys, Fault(Expire(k)) PROVE DraftFacts'
      BY <1>5, ExpireFacts
<1>6. CASE UNCHANGED vars
      BY <1>6, SameFacts DEF vars, commandVars, draftVars
<1> QED BY <1>1, <1>2, <1>3, <1>4, <1>5, <1>6 DEF Next

-----------------------------------------------------------------------------
(* The application row and the bounds.                                      *)

Applications == [automation : Automation, dossier : Keys \cup {NoKey}, hash : Keys \cup {NoKey}]

DraftTypes ==
    /\ app \in Applications
    /\ review \in [Reviews -> Keys \cup {NoKey}]
    /\ edits \in 0..MaxEdits
    /\ faults \in 0..MaxFaults
    /\ asked \in SUBSET Keys
    /\ stored \in SUBSET Keys

\* The application takes another automation state.
LEMMA AppMoves ==
    ASSUME app \in Applications, NEW automation \in Automation,
           app' = [app EXCEPT !.automation = automation]
    PROVE  app' \in Applications /\ app'.automation = automation
BY DEF Applications

LEMMA AgentTypes ==
    ASSUME DraftInv, AgentStep
    PROVE  DraftTypes'
<1>1. DraftTypes
      BY DEF DraftInv, TypeOK, DraftTypes, Applications
<1>2. Edited => edits' \in 0..MaxEdits
      BY <1>1, EditBoundAssumption DEF Edited, DraftTypes
<1>3. ASSUME NEW k \in Keys \cup {NoKey}, SaveDossier(k) PROVE DraftTypes'
      BY <1>1, <1>2, <1>3 DEF SaveDossier, DraftTypes, Applications, Automation
<1>4. CASE ChangeDocuments
      BY <1>1, <1>2, <1>4 DEF ChangeDocuments, DraftTypes, Applications, Automation
<1>5. ASSUME NEW r \in Reviews, ReviewRead(r) PROVE DraftTypes'
      BY <1>1, <1>5 DEF ReviewRead, DraftTypes, Applications
<1>6. ASSUME NEW r \in Reviews, ReviewWrite(r) PROVE DraftTypes'
      BY <1>1, <1>6 DEF ReviewWrite, DraftTypes, Applications, Automation
<1> QED BY <1>3, <1>4, <1>5, <1>6 DEF AgentStep

LEMMA PrepareTypes ==
    ASSUME DraftInv, NEW u \in Requests, PrepareStep(u)
    PROVE  DraftTypes'
<1>1. DraftTypes
      BY DEF DraftInv, TypeOK, DraftTypes, Applications
<1>2. ASSUME UNCHANGED draftVars PROVE DraftTypes'
      BY <1>1, <1>2 DEF draftVars, DraftTypes
<1>3. ASSUME faults < MaxFaults, faults' = faults + 1,
             UNCHANGED <<app, review, edits, asked, stored>>
      PROVE  DraftTypes'
      BY <1>1, <1>3, FaultBoundAssumption DEF DraftTypes
<1>4. CASE MoveToPreparing(u)
  <2>1. request[u].key \in Keys
        BY <1>4 DEF MoveToPreparing, DraftInv, CommandInv, RequestInv, RequestSteps
  <2>2. asked' \in SUBSET Keys
        BY <1>1, <1>4, <2>1 DEF MoveToPreparing, DraftTypes
  <2>3. app' \in Applications
        BY <1>1, <1>4 DEF MoveToPreparing, DraftTypes, Applications, Automation
  <2> QED BY <1>1, <1>4, <2>2, <2>3 DEF MoveToPreparing, DraftTypes
<1>5. CASE PrepareCatch(u)
  <2>1. app' \in Applications
        BY <1>1, <1>5 DEF PrepareCatch, TakenBack, DraftTypes, Applications, Automation
  <2> QED BY <1>1, <1>5, <2>1 DEF PrepareCatch, DraftTypes
<1>6. CASE PrepareRefused(u)
      BY <1>2, <1>6 DEF PrepareRefused
<1>7. CASE Fault(RequestCrash(u))
      BY <1>3, <1>7 DEF Fault
<1> QED BY <1>2, <1>4, <1>5, <1>6, <1>7 DEF PrepareStep, Prepare, CommandStep

LEMMA EventTypesKept ==
    ASSUME DraftInv, NEW c \in Posts, EventStep(c) \/ Fault(PostCrash(c))
    PROVE  DraftTypes'
<1>1. DraftTypes
      BY DEF DraftInv, TypeOK, DraftTypes, Applications
<1>2. ASSUME UNCHANGED draftVars PROVE DraftTypes'
      BY <1>1, <1>2 DEF draftVars, DraftTypes
<1>3. CASE Fault(PostCrash(c))
      BY <1>1, <1>3, FaultBoundAssumption DEF Fault, DraftTypes
<1>4. CASE ReceiptWrite(c)
  <2>1. post[c].key \in Keys
        BY <1>4, HandledIsAsked DEF ReceiptWrite
  <2>2. stored' \in SUBSET Keys
        BY <1>1, <1>4, <2>1 DEF ReceiptWrite, DraftTypes
  <2>3. app' \in Applications
        BY <1>1, <1>4 DEF ReceiptWrite, DraftTypes, Applications, Automation, Landed
  <2> QED BY <1>1, <1>4, <2>2, <2>3 DEF ReceiptWrite, DraftTypes
<1>5. CASE ReceiptRead(c) \/ CheckCompletion(c)
      BY <1>2, <1>5 DEF ReceiptRead, CheckCompletion
<1>6. CASE TakeFailure(c)
  <2>1. app' \in Applications
        BY <1>1, <1>6 DEF TakeFailure, DraftTypes, Applications, Automation
  <2> QED BY <1>1, <1>6, <2>1 DEF TakeFailure, DraftTypes
<1> QED BY <1>2, <1>3, <1>4, <1>5, <1>6 DEF EventStep, CommandStep

LEMMA NextKeepsTypes ==
    ASSUME DraftInv, [Next]_vars
    PROVE  DraftTypes'
<1>1. DraftTypes
      BY DEF DraftInv, TypeOK, DraftTypes, Applications
<1>2. ASSUME UNCHANGED draftVars PROVE DraftTypes'
      BY <1>1, <1>2 DEF draftVars, DraftTypes
<1>3. ASSUME faults < MaxFaults, faults' = faults + 1,
             UNCHANGED <<app, review, edits, asked, stored>>
      PROVE  DraftTypes'
      BY <1>1, <1>3, FaultBoundAssumption DEF DraftTypes
<1>4. CASE AgentStep
      BY <1>4, AgentTypes
<1>5. ASSUME NEW u \in Requests, PrepareStep(u) PROVE DraftTypes'
      BY <1>5, PrepareTypes
<1>6. ASSUME NEW c \in Posts, EventStep(c) \/ Fault(PostCrash(c)) PROVE DraftTypes'
      BY <1>6, EventTypesKept
<1>7. ASSUME NEW d \in Devices, ExtensionStep(d) \/ ExtensionFate(d) PROVE DraftTypes'
      BY <1>2, <1>3, <1>7 DEF ExtensionStep, ExtensionFate, FetchDossier, CommandStep, Fault
<1>8. ASSUME NEW k \in Keys, Fault(Expire(k)) PROVE DraftTypes'
      BY <1>3, <1>8 DEF Fault
<1>9. CASE UNCHANGED vars
      BY <1>2, <1>9 DEF vars
<1> QED BY <1>4, <1>5, <1>6, <1>7, <1>8, <1>9 DEF Next

-----------------------------------------------------------------------------
(* Landed drafts.                                                           *)

\* What may change the state of a landed application.
GivenUp == edits' # edits \/ review' # review

PutOver ==
    /\ app'.automation \in Landed
    /\ \E c \in Posts : post[c].pc = "store" /\ post'[c].pc = "read"

LEMMA NextKeepsLanded ==
    ASSUME DraftInv, [Next]_vars, app.automation \in Landed, app'.automation # app.automation
    PROVE  GivenUp \/ PutOver
<1>1. DraftTypes
      BY DEF DraftInv, TypeOK, DraftTypes, Applications
<1>2. app.automation \notin {"PREPARING_DRAFT", "READY_TO_PREPARE"}
      BY DEF Landed
<1>3. Edited => edits' # edits
      BY <1>1 DEF Edited, DraftTypes
<1>4. ASSUME NEW r \in Reviews, ReviewRead(r) \/ ReviewWrite(r) PROVE review' # review
      BY <1>1, <1>4, KeyAssumption DEF ReviewRead, ReviewWrite, DraftTypes, Applications
<1>5. CASE AgentStep
      BY <1>3, <1>4, <1>5 DEF AgentStep, SaveDossier, ChangeDocuments, GivenUp
<1>6. ASSUME NEW u \in Requests, PrepareStep(u) PROVE UNCHANGED app
      BY <1>2, <1>6 DEF PrepareStep, Prepare, PrepareRefused, MoveToPreparing, Moves, PrepareCatch,
                        TakenBack, CommandStep, Fault, draftVars
<1>7. ASSUME NEW c \in Posts, ReceiptWrite(c) PROVE PutOver
  <2>1. app'.automation \in Landed
        BY <1>1, <1>7 DEF ReceiptWrite, DraftTypes, Applications
  <2>2. post \in [Posts -> Post]
        BY DEF DraftInv, CommandInv, CommandTypeOK
  <2>3. post[c].pc = "store" /\ post'[c].pc = "read"
        BY <1>7, <2>2 DEF ReceiptWrite, Post
  <2> QED BY <2>1, <2>3 DEF PutOver
<1>8. ASSUME NEW c \in Posts, EventStep(c) \/ Fault(PostCrash(c)) PROVE UNCHANGED app \/ PutOver
      BY <1>2, <1>7, <1>8 DEF EventStep, ReceiptRead, CheckCompletion, TakeFailure, CommandStep,
                               Fault, draftVars
<1>9. ASSUME NEW d \in Devices, ExtensionStep(d) \/ ExtensionFate(d) PROVE UNCHANGED app
      BY <1>9 DEF ExtensionStep, ExtensionFate, FetchDossier, CommandStep, Fault, draftVars
<1>10. ASSUME NEW k \in Keys, Fault(Expire(k)) PROVE UNCHANGED app
      BY <1>10 DEF Fault
<1>11. CASE UNCHANGED vars
      BY <1>11 DEF vars, draftVars
<1> QED BY <1>5, <1>6, <1>8, <1>9, <1>10, <1>11 DEF Next

-----------------------------------------------------------------------------

\* The inductive invariant: every row, call and event of a command agrees with what
\* was asked of the application and with what the application has stored.
THEOREM DraftInvariant == Spec => []DraftInv
<1>1. Init => DraftInv
  <2> SUFFICES ASSUME Init PROVE DraftInv
      OBVIOUS
  <2>1. CommandInv
        BY CommandInitInv DEF Init
  <2>2. TypeOK
        BY <2>1, EditBoundAssumption, FaultBoundAssumption
        DEF Init, TypeOK, CommandInv, Automation
  <2>3. DraftFacts
        BY DEF Init, CommandInit, DraftFacts, RowAsked, CallAsked, PostStored, Exists, Idle, FreePost
  <2> QED BY <2>1, <2>2, <2>3 DEF DraftInv
<1>2. DraftInv /\ [Next]_vars => DraftInv'
  <2> SUFFICES ASSUME DraftInv, [Next]_vars PROVE DraftInv'
      OBVIOUS
  <2>1. CommandInv'
        BY NextKeepsCommands
  <2>2. DraftFacts' /\ DraftTypes'
        BY NextKeepsFacts, NextKeepsTypes
  <2>3. TypeOK'
        BY <2>1, <2>2 DEF TypeOK, DraftTypes, Applications, CommandInv
  <2> QED BY <2>1, <2>2, <2>3 DEF DraftInv
<1> QED BY <1>1, <1>2, PTL DEF Spec

\* For any dossiers, devices, calls and faults, a command that a device holds or has
\* started was moved to preparing by the agent's own call.
THEOREM DraftsExecutedWereAsked == Spec => []ExecutedWasAsked
<1>1. DraftInv => ExecutedWasAsked
      BY DEF DraftInv, DraftFacts, RowAsked, ExecutedWasAsked
<1> QED BY <1>1, DraftInvariant, PTL

\* Every draft that a command reports is stored by the application.
THEOREM ReportedDraftsAreStored == Spec => []DraftsAreStored
<1>1. DraftInv => DraftsAreStored
      BY DEF DraftInv, DraftFacts, RowAsked, DraftsAreStored
<1> QED BY <1>1, DraftInvariant, PTL

\* Only the agent's edit or review gives up a landed draft, for any number of
\* dossiers, calls, devices and overlapping receipts; a receipt that was checked
\* before can only put one landed state in place of the other.
THEOREM DraftsStayLanded == Spec => LandedDraftStays
<1>1. DraftInv /\ [Next]_vars
      => [app.automation \in Landed /\ app'.automation # app.automation
            => \/ edits' # edits
               \/ review' # review
               \/ /\ app'.automation \in Landed
                  /\ \E c \in Posts : post[c].pc = "store" /\ post'[c].pc = "read"]_vars
      BY NextKeepsLanded DEF GivenUp, PutOver
<1> QED BY <1>1, DraftInvariant, PTL DEF Spec, LandedDraftStays

\* The commands of application drafts implement the ledger as well.
THEOREM DraftImplementsLedger == Spec => ImplementsLedger
<1>1. Init => Ledger!Init
      BY LedgerStart DEF Init
<1>2. DraftInv /\ [Next]_vars => [Ledger!Next]_(Ledger!vars)
  <2> SUFFICES ASSUME DraftInv, [Next]_vars PROVE [Ledger!Next]_(Ledger!vars)
      OBVIOUS
  <2>1. LedgerStep
        BY NextKeepsCommands
  <2> QED BY <2>1 DEF LedgerStep, Ledger!vars
<1> QED BY <1>1, <1>2, DraftInvariant, PTL DEF Spec, ImplementsLedger, Ledger!Spec

=============================================================================
