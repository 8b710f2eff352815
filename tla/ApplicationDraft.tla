-------------------------- MODULE ApplicationDraft --------------------------
(***************************************************************************)
(* Preparing an insurance application in the carrier's iGO: the dossier    *)
(* that the agent edits and reviews, the PREPARE action that issues and    *)
(* approves a connector command for it, and the receipts that the          *)
(* extension's events carry back.  Composes ConnectorCommand: a key is the *)
(* hash of the reviewed dossier, so a dossier stands for its own hash.     *)
(*                                                                         *)
(* Every statement that changes the application row is an action, and so   *)
(* is every read that a later one relies on.  The row has no lock and no   *)
(* version, only the state and hash that some of the statements name in    *)
(* their WHERE; a transaction's write is put at its commit.                *)
(***************************************************************************)
EXTENDS ConnectorCommand

CONSTANTS
    Reviews,    \* review calls in flight
    MaxEdits,   \* bound on saved dossiers and uploaded documents
    MaxFaults   \* bound on crashes, lost answers and expiries

ASSUME DraftCapability == Capability = "PREPARE_APPLICATION_DRAFT"
ASSUME EditBoundAssumption == MaxEdits \in Nat
ASSUME FaultBoundAssumption == MaxFaults \in Nat

VARIABLES
    app,        \* the application row
    review,     \* per review call, the dossier it has read, or NoKey
    edits,      \* saves and uploads so far
    faults,     \* crashes, lost answers and expiries so far
    asked,      \* history: keys that an agent's call has moved to preparing
    stored      \* history: keys whose receipt the application has taken

draftVars == <<app, review, edits, faults, asked, stored>>
vars == <<commandVars, draftVars>>

Automation == {"COLLECTING", "READY_FOR_REVIEW", "READY_TO_PREPARE", "PREPARING_DRAFT",
               "NEEDS_INFORMATION", "DRAFT_READY", "FAILED"}
Landed == {"NEEDS_INFORMATION", "DRAFT_READY"}

\* Type correctness.  `reviewedAt' is set and cleared with `dossierHash'.
TypeOK ==
    /\ CommandTypeOK
    /\ app \in [automation : Automation, dossier : Keys \cup {NoKey}, hash : Keys \cup {NoKey}]
    /\ review \in [Reviews -> Keys \cup {NoKey}]
    /\ edits \in 0..MaxEdits
    /\ faults \in 0..MaxFaults
    /\ asked \in SUBSET Keys
    /\ stored \in SUBSET Keys

Init ==
    /\ CommandInit
    /\ app = [automation |-> "COLLECTING", dossier |-> NoKey, hash |-> NoKey]
    /\ review = [r \in Reviews |-> NoKey]
    /\ edits = 0
    /\ faults = 0
    /\ asked = {}
    /\ stored = {}

-----------------------------------------------------------------------------
(* The dossier.                                                             *)

Edited == edits < MaxEdits /\ edits' = edits + 1

\* A dossier is saved over whatever the application was doing; NoKey is one that
\* is not complete.
SaveDossier(k) ==
    /\ Edited
    /\ app' = [automation |-> IF k = NoKey THEN "COLLECTING" ELSE "READY_FOR_REVIEW",
                dossier |-> k, hash |-> NoKey]
    /\ UNCHANGED <<commandVars, review, faults, asked, stored>>

\* A document is added, or one is reviewed (and the dossier saved again with it,
\* which is a SaveDossier): what was reviewed of the dossier no longer counts.
ChangeDocuments ==
    /\ Edited
    /\ app' = [app EXCEPT !.automation = "COLLECTING", !.hash = NoKey]
    /\ UNCHANGED <<commandVars, review, faults, asked, stored>>

\* Reviewing reads the dossier, and writes its hash to the row later.
ReviewRead(r) ==
    /\ review[r] = NoKey
    /\ app.dossier # NoKey
    /\ review' = [review EXCEPT ![r] = app.dossier]
    /\ UNCHANGED <<commandVars, app, edits, faults, asked, stored>>

ReviewWrite(r) ==
    /\ review[r] # NoKey
    /\ review' = [review EXCEPT ![r] = NoKey]
    /\ app' = [app EXCEPT !.automation = "READY_TO_PREPARE", !.hash = review[r]]
    /\ UNCHANGED <<commandVars, edits, faults, asked, stored>>

-----------------------------------------------------------------------------
(* PREPARE, in one server-action call u.                                    *)

CommandStep(A) == A /\ UNCHANGED draftVars

\* A step of the environment that the instance bounds.
Fault(A) ==
    /\ A
    /\ faults < MaxFaults
    /\ faults' = faults + 1
    /\ UNCHANGED <<app, review, edits, asked, stored>>

Ready == app.automation = "READY_TO_PREPARE" /\ app.hash # NoKey

\* The application is ready: the call will issue the command of its hash.
Prepare(u) == Ready /\ CommandStep(Ask(u, app.hash))

\* The page was stale and the application is not ready: the call throws.
PrepareRefused(u) ==
    /\ ~Ready
    /\ request[u].pc = "free"
    /\ request' = [request EXCEPT ![u] = [Idle EXCEPT !.pc = "failed"]]
    /\ UNCHANGED <<command, post, retry, ext, draftVars>>

Moves(k) == app.automation = "READY_TO_PREPARE" /\ app.hash = k

\* Mutant: nobody looks at how many rows the update moved.
MoveUnchecked(u) ==
    /\ request[u].pc = "issued"
    /\ To(u, "approve")
    /\ IF Moves(request[u].key)
       THEN /\ app' = [app EXCEPT !.automation = "PREPARING_DRAFT"]
            /\ asked' = asked \cup {request[u].key}
       ELSE UNCHANGED <<app, asked>>
    /\ UNCHANGED <<command, post, retry, ext, review, edits, faults, stored>>

\* The row moves if it is still ready with the hash that was read.
MoveToPreparing(u) ==
    /\ request[u].pc = "issued"
    /\ IF Moves(request[u].key)
       THEN /\ To(u, "approve")
            /\ app' = [app EXCEPT !.automation = "PREPARING_DRAFT"]
            /\ asked' = asked \cup {request[u].key}
       ELSE To(u, "failed") /\ UNCHANGED <<app, asked>>
    /\ UNCHANGED <<command, post, retry, ext, review, edits, faults, stored>>

\* Mutant: the call takes back whatever it finds.
TakenBackAny(row) == [row EXCEPT !.automation = "READY_TO_PREPARE"]

TakenBack(row) ==
    IF row.automation = "PREPARING_DRAFT"
    THEN [row EXCEPT !.automation = "READY_TO_PREPARE"] ELSE row

\* Any failure of the call takes back a preparation, whoever began it.
PrepareCatch(u) ==
    /\ request[u].pc = "failed"
    /\ request' = [request EXCEPT ![u] = Idle]
    /\ app' = TakenBack(app)
    /\ UNCHANGED <<command, post, retry, ext, review, edits, faults, asked, stored>>

-----------------------------------------------------------------------------
(* What events do to the application before they are recorded.              *)

\* The receipt is for the preparation that is under way.
Expected(c) == app.automation = "PREPARING_DRAFT" /\ app.hash = post[c].key

\* Mutant: a receipt that nobody waits for is let through.
ReceiptReadLax(c) ==
    /\ post[c].pc = "effect"
    /\ post[c].type = "DATA_BATCH"
    /\ post' = [post EXCEPT ![c].pc = IF Expected(c) THEN "store" ELSE "read"]
    /\ UNCHANGED <<command, request, retry, ext, draftVars>>

\* The transaction of a draft's receipt reads the row, without locking it, and
\* rolls back unless the receipt is expected.
ReceiptRead(c) ==
    /\ post[c].pc = "effect"
    /\ post[c].type = "DATA_BATCH"
    /\ IF Expected(c)
       THEN post' = [post EXCEPT ![c].pc = "store"] /\ UNCHANGED ext
       ELSE Finish(c, FALSE)
    /\ UNCHANGED <<command, request, retry, draftVars>>

\* Its update and commit.  The update names the row and nothing else, so it lands
\* whatever the row has become: saved, taken back, failed, or landed already.
ReceiptWrite(c) ==
    /\ post[c].pc = "store"
    /\ \E outcome \in Landed : app' = [app EXCEPT !.automation = outcome]
    /\ stored' = stored \cup {post[c].key}
    /\ post' = [post EXCEPT ![c].pc = "read"]
    /\ UNCHANGED <<command, request, retry, ext, review, edits, faults, asked>>

\* A completion needs a recorded receipt.
CheckCompletion(c) ==
    /\ post[c].pc = "effect"
    /\ post[c].type = "COMMAND_COMPLETED"
    /\ IF "DATA_BATCH" \in Logged(post[c].key)
       THEN post' = [post EXCEPT ![c].pc = "read"] /\ UNCHANGED ext
       ELSE Finish(c, FALSE)
    /\ UNCHANGED <<command, request, retry, draftVars>>

\* A failure ends the preparation, of whatever hash.
TakeFailure(c) ==
    /\ post[c].pc = "effect"
    /\ post[c].type = "COMMAND_FAILED"
    /\ IF app.automation = "PREPARING_DRAFT"
       THEN /\ app' = [app EXCEPT !.automation = "FAILED"]
            /\ post' = [post EXCEPT ![c].pc = "read"]
            /\ UNCHANGED ext
       ELSE Finish(c, FALSE) /\ UNCHANGED app
    /\ UNCHANGED <<command, request, retry, review, edits, faults, asked, stored>>

\* The dossier that the input route hands out: the one in the row, if it is the
\* one that was reviewed and that the command is for.
Input(k) ==
    /\ app.automation = "PREPARING_DRAFT"
    /\ app.hash # NoKey
    /\ app.dossier = app.hash
    /\ app.hash = k

FetchDossier(d) == CommandStep(ReadInput(d, Input(ext[d].key)))

-----------------------------------------------------------------------------

AgentStep ==
    \/ \E k \in Keys \cup {NoKey} : SaveDossier(k)
    \/ ChangeDocuments
    \/ \E r \in Reviews : ReviewRead(r) \/ ReviewWrite(r)

PrepareStep(u) ==
    \/ Prepare(u)
    \/ PrepareRefused(u)
    \/ MoveToPreparing(u)
    \/ PrepareCatch(u)
    \/ CommandStep(IssueFind(u))
    \/ CommandStep(IssueCreate(u))
    \/ CommandStep(IssueFirstEvent(u))
    \/ CommandStep(ApproveRead(u))
    \/ CommandStep(ApproveWrite(u))
    \/ CommandStep(ApproveAccept(u))
    \/ Fault(RequestCrash(u))

EventStep(c) ==
    \/ ReceiptRead(c)
    \/ ReceiptWrite(c)
    \/ CheckCompletion(c)
    \/ TakeFailure(c)
    \/ CommandStep(PostRead(c))
    \/ CommandStep(PostAppend(c))
    \/ CommandStep(PostUpdate(c))

\* What the extension does by itself while its worker lives.
ExtensionStep(d) ==
    \/ \E k \in Keys : CommandStep(ClaimOwned(d, k)) \/ CommandStep(ClaimUnbound(d, k))
    \/ CommandStep(ClaimCommit(d))
    \/ FetchDossier(d)
    \/ CommandStep(ReportStart(d))
    \/ CommandStep(Execute(d))
    \/ CommandStep(ReportCompletion(d))
    \/ CommandStep(ReportFailure(d))

\* What happens to it.
ExtensionFate(d) ==
    \/ \E requirement \in SignIns : CommandStep(SignInNeeded(d, requirement))
    \/ CommandStep(ExecuteFails(d))
    \/ Fault(AnswerLost(d))
    \/ Fault(WorkerKilled(d))

Next ==
    \/ AgentStep
    \/ \E u \in Requests : PrepareStep(u)
    \/ \E c \in Posts : EventStep(c) \/ Fault(PostCrash(c))
    \/ \E d \in Devices : ExtensionStep(d) \/ ExtensionFate(d)
    \/ \E k \in Keys : Fault(Expire(k))

Spec == Init /\ [][Next]_vars

\* Handlers end, and the extension goes on polling every minute and working while
\* its worker lives.  Nothing obliges the agent, the carrier or a fault.
FairSpec ==
    /\ Spec
    /\ \A c \in Posts : WF_vars(EventStep(c))
    /\ \A d \in Devices : WF_vars(ExtensionStep(d))

-----------------------------------------------------------------------------
(* Properties.                                                              *)

\* Nothing reaches the carrier unasked: a command that a device holds, that has
\* started, or whose receipt is stored was one that the agent's own call moved to
\* preparing.  The unlocked steps of issue, move and approve make it so, and the
\* approval of an expired or overtaken command must not undo it.
ExecutedWasAsked ==
    \A k \in Keys :
        \/ /\ Exists(k)
           /\ command[k].device # NoDevice \/ "COMMAND_STARTED" \in Logged(k)
        \/ k \in stored
        => k \in asked

\* A draft that a command reports is one that the application holds: neither the
\* batch event nor a completed state outlives a receipt that was refused, through
\* lost answers, crashed handlers and repeated posts.
DraftsAreStored ==
    \A k \in Keys :
        Exists(k) /\ (command[k].state = "COMPLETED" \/ "DATA_BATCH" \in Logged(k))
        => k \in stored

\* A draft that has landed is given up only by the agent, who saves, adds a
\* document or reviews again: a late failure or a stale click never takes it back.
\* (A receipt can still put its own outcome over that of another, if it was checked
\* before the other landed: what the update's WHERE leaves open, and no more.)
LandedDraftStays ==
    [][app.automation \in Landed /\ app'.automation # app.automation
       => \/ edits' # edits
          \/ review' # review
          \/ /\ app'.automation \in Landed
             /\ \E c \in Posts : post[c].pc = "store" /\ post'[c].pc = "read"]_vars

\* Once its receipt is recorded, a running command completes, unless it expires
\* first: an interrupted worker resumes and reports the end.
RecordedDraftCompletes ==
    \A k \in Keys :
        (Exists(k) /\ command[k].state = "RUNNING" /\ LastType(k) = "DATA_BATCH")
        ~> (Exists(k) /\ (command[k].state = "COMPLETED" \/ command[k].expired))
=============================================================================
