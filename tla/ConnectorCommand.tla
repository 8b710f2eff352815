-------------------------- MODULE ConnectorCommand --------------------------
(***************************************************************************)
(* Connector commands: what the agent asks the browser extension to do at  *)
(* the carrier (src/lib/national-life/connector-command-service.ts, its    *)
(* dispatch under local-connector/, and the poll loop of the extension).   *)
(*                                                                         *)
(* A command is issued once for an idempotency key, approved by the agent, *)
(* bound to the first device that polls for it, and reported by numbered   *)
(* events.  Nothing of this is one transaction: issuing, approving and     *)
(* recording an event each read, then write in several autocommitted       *)
(* statements, and each statement is an action here.  The extension is     *)
(* modelled as the program it is: one poll at a time, one request after    *)
(* another, killed or disconnected at any of them.                         *)
(*                                                                         *)
(* Left out: capabilities that need no confirmation, the confirmation row  *)
(* (written, never read back), payloads, and the order in which a device   *)
(* that has several commands takes them.                                   *)
(***************************************************************************)
EXTENDS Naturals, Sequences, FiniteSets

CONSTANTS
    Keys,           \* idempotency keys; a key determines the payload
    NoKey,
    Devices,        \* paired devices of the agent
    NoDevice,
    Requests,       \* server-action calls in flight: issue, then approve
    Posts,          \* event requests in flight on the server
    NoPost,
    Capability,     \* what the commands ask for
    SignIns,        \* the sign-in pages that the carrier may show
    MaxEvents       \* bound: no event is posted to a longer log

ASSUME KeyAssumption == NoKey \notin Keys
ASSUME DeviceAssumption == NoDevice \notin Devices
ASSUME PostAssumption == NoPost \notin Posts
ASSUME CapabilityAssumption ==
    Capability \in {"GENERATE_ILLUSTRATION", "PREPARE_APPLICATION_DRAFT"}
ASSUME SignInAssumption == SignIns \subseteq {"AUTH_REQUIRED", "MFA_REQUIRED"}
ASSUME EventBoundAssumption == MaxEvents \in Nat

VARIABLES
    command,    \* command row and event log per key
    request,    \* issue-and-approve calls between two statements
    post,       \* event requests between two statements
    retry,      \* per key, the length of the log a retry has read, or NoRetry
    ext         \* the extension on each device

commandVars == <<command, request, post, retry, ext>>

States == {"QUEUED", "RUNNING", "AUTH_REQUIRED", "WAITING_FOR_CONFIRMATION",
           "COMPLETED", "FAILED", "CANCELLED"}
Confirmations == {"PENDING", "APPROVED", "EXPIRED"}
AuthStates == {"READY", "AUTH_REQUIRED", "MFA_REQUIRED"}
EventTypes == {"COMMAND_ACCEPTED", "WAITING_FOR_CONFIRMATION", "COMMAND_STARTED",
               "AUTH_REQUIRED", "MFA_REQUIRED", "AUTH_RETRY_REQUESTED", "DATA_BATCH",
               "COMMAND_COMPLETED", "COMMAND_FAILED"}
NoEventType == "NONE"

Live == {"QUEUED", "RUNNING", "AUTH_REQUIRED"}

\* The events whose handler first stores or checks what the capability produced.
\* (An illustration's result is overwritten by each batch and is not modelled.)
EffectTypes ==
    IF Capability = "PREPARE_APPLICATION_DRAFT"
    THEN {"DATA_BATCH", "COMMAND_COMPLETED", "COMMAND_FAILED"} ELSE {}

NoCommand == [state |-> "NONE"]
Command ==
    [state : States, confirmation : Confirmations, authState : AuthStates,
     authEpoch : Nat, device : Devices \cup {NoDevice}, expired : BOOLEAN,
     events : Seq(EventTypes)]

Idle == [pc |-> "free", key |-> NoKey, seq |-> 0]
RequestSteps == {"free", "find", "create", "first", "issued", "approve", "write", "accept", "failed"}
Request == [pc : RequestSteps, key : Keys \cup {NoKey}, seq : Nat]

FreePost == [pc |-> "free", key |-> NoKey, type |-> NoEventType, seq |-> 0,
             authState |-> "READY", authEpoch |-> 0]
PostSteps == {"free", "effect", "store", "read", "append", "update"}
Post ==
    [pc : PostSteps, key : Keys \cup {NoKey}, type : EventTypes \cup {NoEventType},
     seq : Nat, authState : AuthStates, authEpoch : Nat]

\* NULL of a retry that is not under way
NoRetry == 0

Asleep == [at |-> "idle", key |-> NoKey, next |-> 0, last |-> NoEventType, call |-> NoPost]
ExtensionSteps == {"idle", "claiming", "dispatched", "start", "execute", "complete",
                   "fail", "waiting", "auth", "mfa"}
Extension ==
    [at : ExtensionSteps, key : Keys \cup {NoKey}, next : Nat,
     last : EventTypes \cup {NoEventType}, call : Posts \cup {NoPost}]

\* Type correctness of every row, handler and extension.
CommandTypeOK ==
    /\ command \in [Keys -> Command \cup {NoCommand}]
    /\ request \in [Requests -> Request]
    /\ post \in [Posts -> Post]
    /\ retry \in [Keys -> Nat]
    /\ ext \in [Devices -> Extension]

CommandInit ==
    /\ command = [k \in Keys |-> NoCommand]
    /\ request = [u \in Requests |-> Idle]
    /\ post = [c \in Posts |-> FreePost]
    /\ retry = [k \in Keys |-> NoRetry]
    /\ ext = [d \in Devices |-> Asleep]

Exists(k) == command[k] # NoCommand
LogLength(k) == Len(command[k].events)
LastType(k) == IF LogLength(k) = 0 THEN NoEventType ELSE command[k].events[LogLength(k)]
Logged(k) == {command[k].events[i] : i \in DOMAIN command[k].events}

-----------------------------------------------------------------------------
(* Issuing and approving, inside one server-action call u.                  *)

To(u, pc) == request' = [request EXCEPT ![u].pc = pc]

\* The call knows what to ask for, and its key.
Ask(u, k) ==
    /\ request[u].pc = "free"
    /\ request' = [request EXCEPT ![u] = [Idle EXCEPT !.pc = "find", !.key = k]]
    /\ UNCHANGED <<command, post, retry, ext>>

\* It looks the key up: a command that is there already is answered as a
\* duplicate, whatever has become of it.
IssueFind(u) ==
    /\ request[u].pc = "find"
    /\ To(u, IF Exists(request[u].key) THEN "issued" ELSE "create")
    /\ UNCHANGED <<command, post, retry, ext>>

NewCommand ==
    [state |-> "WAITING_FOR_CONFIRMATION", confirmation |-> "PENDING",
     authState |-> "READY", authEpoch |-> 0, device |-> NoDevice,
     expired |-> FALSE, events |-> <<>>]

\* The row is created, or the unique key refuses the second one.
IssueCreate(u) ==
    /\ request[u].pc = "create"
    /\ LET k == request[u].key IN
       IF Exists(k)
       THEN To(u, "failed") /\ UNCHANGED command
       ELSE To(u, "first") /\ command' = [command EXCEPT ![k] = NewCommand]
    /\ UNCHANGED <<post, retry, ext>>

Append1(k, type) ==
    command' = [command EXCEPT ![k].events = Append(command[k].events, type)]

\* Event 0; an approval that overtook this call has used the number.
IssueFirstEvent(u) ==
    /\ request[u].pc = "first"
    /\ LET k == request[u].key IN
       IF LogLength(k) = 0
       THEN To(u, "issued") /\ Append1(k, "WAITING_FOR_CONFIRMATION")
       ELSE To(u, "failed") /\ UNCHANGED command
    /\ UNCHANGED <<post, retry, ext>>

\* approveConnectorCommand reads the command.  Past its expiry it is cancelled,
\* whatever its state; only a pending one can be approved.
ApproveRead(u) ==
    /\ request[u].pc = "approve"
    /\ LET k == request[u].key IN
       \/ /\ command[k].expired
          /\ To(u, "failed")
          /\ command' = [command EXCEPT ![k].state = "CANCELLED", ![k].confirmation = "EXPIRED"]
       \/ /\ ~command[k].expired
          /\ IF command[k].confirmation = "PENDING"
             THEN request' = [request EXCEPT ![u].pc = "write", ![u].seq = LogLength(k)]
             ELSE To(u, "failed")
          /\ UNCHANGED command
    /\ UNCHANGED <<post, retry, ext>>

ApproveWrite(u) ==
    /\ request[u].pc = "write"
    /\ To(u, "accept")
    /\ command' = [command EXCEPT ![request[u].key].state = "QUEUED",
                                  ![request[u].key].confirmation = "APPROVED"]
    /\ UNCHANGED <<post, retry, ext>>

\* The event takes the number that was free when the command was read.
ApproveAccept(u) ==
    /\ request[u].pc = "accept"
    /\ LET k == request[u].key IN
       IF LogLength(k) = request[u].seq
       THEN /\ Append1(k, "COMMAND_ACCEPTED")
            /\ request' = [request EXCEPT ![u] = Idle]
       ELSE To(u, "failed") /\ UNCHANGED command
    /\ UNCHANGED <<post, retry, ext>>

\* The process ends between two statements of the call: nothing runs after it.
RequestCrash(u) ==
    /\ request[u].pc # "free"
    /\ request' = [request EXCEPT ![u] = Idle]
    /\ UNCHANGED <<command, post, retry, ext>>

\* The hour passes.
Expire(k) ==
    /\ Exists(k)
    /\ ~command[k].expired
    /\ command' = [command EXCEPT ![k].expired = TRUE]
    /\ UNCHANGED <<request, post, retry, ext>>

-----------------------------------------------------------------------------
(* A new authentication episode, asked for by the agent.                    *)

RetryRead(k) ==
    /\ Exists(k)
    /\ retry[k] = NoRetry
    /\ ~command[k].expired
    /\ command[k].confirmation = "APPROVED"
    /\ command[k].state = "AUTH_REQUIRED"
    /\ command[k].authState = "AUTH_REQUIRED"
    /\ LogLength(k) < MaxEvents
    /\ retry' = [retry EXCEPT ![k] = LogLength(k)]
    /\ UNCHANGED <<command, request, post, ext>>

\* Mutant: the retry opens the episode itself.
RequeuedInNewEpisode(row) ==
    [row EXCEPT !.state = "QUEUED", !.authState = "READY", !.authEpoch = row.authEpoch + 1,
                !.events = Append(row.events, "AUTH_RETRY_REQUESTED")]

\* The number of the episode does not move: the extension opens it with an event.
Requeued(row) ==
    [row EXCEPT !.state = "QUEUED", !.authState = "READY",
                !.events = Append(row.events, "AUTH_RETRY_REQUESTED")]

\* One transaction: the compare-and-set, and the event at the number that was
\* read; either failing leaves nothing behind.
RetryCommit(k) ==
    /\ retry[k] # NoRetry
    /\ retry' = [retry EXCEPT ![k] = NoRetry]
    /\ IF /\ ~command[k].expired
          /\ command[k].confirmation = "APPROVED"
          /\ command[k].state = "AUTH_REQUIRED"
          /\ command[k].authState = "AUTH_REQUIRED"
          /\ LogLength(k) = retry[k]
       THEN command' = [command EXCEPT ![k] = Requeued(command[k])]
       ELSE UNCHANGED command
    /\ UNCHANGED <<request, post, ext>>

-----------------------------------------------------------------------------
(* Dispatch: a device polls for work.                                       *)

MayExecute(k) == ~command[k].expired /\ command[k].confirmation = "APPROVED"

Dispatched(k) ==
    [at |-> "dispatched", key |-> k, next |-> LogLength(k), last |-> LastType(k),
     call |-> NoPost]

\* A poll starts when no other is under way on the device.
Polling(d) == ext[d].at \in {"idle", "auth", "mfa"}

\* A command that the device already holds is handed out again while it lives.
ClaimOwned(d, k) ==
    /\ Polling(d)
    /\ Exists(k)
    /\ command[k].device = d
    /\ command[k].state \in Live
    /\ MayExecute(k)
    /\ ext' = [ext EXCEPT ![d] = Dispatched(k)]
    /\ UNCHANGED <<command, request, post, retry>>

\* The transaction of the poll has read a queued command that no device holds.
ClaimUnbound(d, k) ==
    /\ Polling(d)
    /\ Exists(k)
    /\ command[k].device = NoDevice
    /\ command[k].state = "QUEUED"
    /\ MayExecute(k)
    /\ ext' = [ext EXCEPT ![d] = [Asleep EXCEPT !.at = "claiming", !.key = k]]
    /\ UNCHANGED <<command, request, post, retry>>

\* Mutant: the update does not look at the device again.
ClaimableByAnyone(k) == command[k].state = "QUEUED" /\ ~command[k].expired

\* Still queued and unbound when the row is updated.
Claimable(k) ==
    /\ command[k].device = NoDevice
    /\ command[k].state = "QUEUED"
    /\ ~command[k].expired

ClaimCommit(d) ==
    /\ ext[d].at = "claiming"
    /\ LET k == ext[d].key IN
       IF Claimable(k)
       THEN /\ command' = [command EXCEPT ![k].device = d]
            /\ ext' = [ext EXCEPT ![d] = Dispatched(k)]
       ELSE /\ ext' = [ext EXCEPT ![d] = Asleep]
            /\ UNCHANGED command
    /\ UNCHANGED <<request, post, retry>>

-----------------------------------------------------------------------------
(* Recording an event, in one request c.                                    *)

NewPost(k, type, seq) ==
    [FreePost EXCEPT !.pc = IF type \in EffectTypes THEN "effect" ELSE "read",
                     !.key = k, !.type = type, !.seq = seq]

Following(type) ==
    CASE type = "COMMAND_STARTED" -> "execute"
      [] type = "DATA_BATCH" -> "complete"
      [] type = "AUTH_REQUIRED" -> "auth"
      [] type = "MFA_REQUIRED" -> "mfa"
      [] OTHER -> "idle"

\* What the extension does with the answer to an event it has posted: it goes
\* on, or reports that the command failed, or gives up.
Heard(e, type, ok) ==
    IF ok /\ Following(type) # "idle"
    THEN [e EXCEPT !.at = Following(type), !.next = e.next + 1, !.call = NoPost]
    ELSE IF ok \/ type = "COMMAND_FAILED"
    THEN Asleep
    ELSE [e EXCEPT !.at = "fail", !.call = NoPost]

\* The request ends, and whoever still waits for it hears of it.
Finish(c, ok) ==
    /\ post' = [post EXCEPT ![c] = FreePost]
    /\ ext' = [d \in Devices |->
         IF ext[d].call = c THEN Heard(ext[d], post[c].type, ok) ELSE ext[d]]

\* Mutant: whatever number the event carries, it goes to the end of the log.
AnyNumber(c) == post[c].key \in Keys

\* The event carries the number that comes next.
NextNumber(c) == post[c].seq = LogLength(post[c].key)

PostRead(c) ==
    /\ post[c].pc = "read"
    /\ LET k == post[c].key IN
       IF /\ ~command[k].expired
          /\ post[c].type = "COMMAND_STARTED" => command[k].confirmation = "APPROVED"
          /\ NextNumber(c)
       THEN /\ post' = [post EXCEPT ![c].pc = "append",
                                    ![c].authState = command[k].authState,
                                    ![c].authEpoch = command[k].authEpoch]
            /\ UNCHANGED ext
       ELSE Finish(c, FALSE)
    /\ UNCHANGED <<command, request, retry>>

NextState ==
    [type \in {"COMMAND_STARTED", "AUTH_REQUIRED", "MFA_REQUIRED",
               "WAITING_FOR_CONFIRMATION", "COMMAND_COMPLETED", "COMMAND_FAILED"} |->
        CASE type = "COMMAND_STARTED" -> "RUNNING"
          [] type = "WAITING_FOR_CONFIRMATION" -> "WAITING_FOR_CONFIRMATION"
          [] type = "COMMAND_COMPLETED" -> "COMPLETED"
          [] type = "COMMAND_FAILED" -> "FAILED"
          [] OTHER -> "AUTH_REQUIRED"]

\* The unique key on command and number takes the event, or refuses it.
PostAppend(c) ==
    /\ post[c].pc = "append"
    /\ IF NextNumber(c)
       THEN /\ Append1(post[c].key, post[c].type)
            /\ IF post[c].type \in DOMAIN NextState
               THEN post' = [post EXCEPT ![c].pc = "update"] /\ UNCHANGED ext
               ELSE Finish(c, TRUE)
       ELSE Finish(c, FALSE) /\ UNCHANGED command
    /\ UNCHANGED <<request, retry>>

\* The row follows the event, by the authentication state and epoch that were
\* read before the append, and whatever state it has by now.
Updated(row, p) ==
    [row EXCEPT
        !.state = NextState[p.type],
        !.authState = CASE p.type \in {"AUTH_REQUIRED", "MFA_REQUIRED"} -> p.type
                        [] p.type = "COMMAND_STARTED" -> "READY"
                        [] OTHER -> row.authState,
        !.authEpoch = CASE p.type = "AUTH_REQUIRED" /\ p.authState = "READY" -> p.authEpoch + 1
                        [] p.type \in {"AUTH_REQUIRED", "MFA_REQUIRED"} -> p.authEpoch
                        [] OTHER -> row.authEpoch]

PostUpdate(c) ==
    /\ post[c].pc = "update"
    /\ command' = [command EXCEPT ![post[c].key] = Updated(command[post[c].key], post[c])]
    /\ Finish(c, TRUE)
    /\ UNCHANGED <<request, retry>>

\* The process ends between two statements; the client sees a failed request.
PostCrash(c) ==
    /\ post[c].pc # "free"
    /\ Finish(c, FALSE)
    /\ UNCHANGED <<command, request, retry>>

-----------------------------------------------------------------------------
(* The extension on device d, from one poll to the next.                    *)

Posting(d, type) ==
    /\ ext[d].next < MaxEvents
    /\ \E c \in Posts :
         /\ post[c].pc = "free"
         /\ post' = [post EXCEPT ![c] = NewPost(ext[d].key, type, ext[d].next)]
         /\ ext' = [ext EXCEPT ![d].at = "waiting", ![d].call = c]
    /\ UNCHANGED <<command, request, retry>>

\* A retried command first opens its next authentication episode.
RestartAuthentication(d) ==
    /\ ext[d].at = "dispatched"
    /\ ext[d].last = "AUTH_RETRY_REQUESTED"
    /\ Posting(d, "AUTH_REQUIRED")

\* The carrier shows a sign-in or an MFA page: said once per pause.
SignInNeeded(d, requirement) ==
    /\ ext[d].at = "dispatched"
    /\ ext[d].last # "AUTH_RETRY_REQUESTED"
    /\ IF ext[d].last = requirement
       THEN /\ ext' = [ext EXCEPT ![d].at = Following(requirement)]
            /\ UNCHANGED <<command, request, post, retry>>
       ELSE Posting(d, requirement)

\* The input route refuses a command that is not under way.
InputReadable(k) == MayExecute(k) /\ command[k].state \in Live

\* The carrier shows the portal: the input is fetched and checked.
ReadInput(d, target) ==
    /\ ext[d].at = "dispatched"
    /\ ext[d].last # "AUTH_RETRY_REQUESTED"
    /\ ext' = [ext EXCEPT ![d].last = NoEventType, ![d].at =
         IF ~(InputReadable(ext[d].key) /\ target) THEN "fail"
         ELSE IF ext[d].last \notin {"COMMAND_STARTED", "DATA_BATCH"} THEN "start"
         ELSE IF ext[d].last = "DATA_BATCH" /\ Capability = "PREPARE_APPLICATION_DRAFT"
         THEN "complete"
         ELSE "execute"]
    /\ UNCHANGED <<command, request, post, retry>>

ReportStart(d) == ext[d].at = "start" /\ Posting(d, "COMMAND_STARTED")

\* The work at the carrier succeeds, and its receipt is posted.
Execute(d) == ext[d].at = "execute" /\ Posting(d, "DATA_BATCH")

\* It fails, or no answer comes from the page.
ExecuteFails(d) ==
    /\ ext[d].at = "execute"
    /\ ext' = [ext EXCEPT ![d].at = "fail"]
    /\ UNCHANGED <<command, request, post, retry>>

ReportCompletion(d) == ext[d].at = "complete" /\ Posting(d, "COMMAND_COMPLETED")

\* With the number that the extension keeps in its storage; after a login retry
\* whose first event failed that may be an older one, and the report is refused.
ReportFailure(d) == ext[d].at = "fail" /\ Posting(d, "COMMAND_FAILED")

\* The answer is lost: a failed request to the extension, while the handler runs on.
AnswerLost(d) ==
    /\ ext[d].at = "waiting"
    /\ ext' = [ext EXCEPT ![d] = Heard(ext[d], post[ext[d].call].type, FALSE)]
    /\ UNCHANGED <<command, request, post, retry>>

\* The browser ends the service worker; the pause for a login outlives it.
WorkerKilled(d) ==
    /\ ~Polling(d)
    /\ ext' = [ext EXCEPT ![d] = Asleep]
    /\ UNCHANGED <<command, request, post, retry>>

-----------------------------------------------------------------------------
(* What the commands promise, whatever they are for.                        *)

DeviceEvents == {"COMMAND_STARTED", "AUTH_REQUIRED", "MFA_REQUIRED", "DATA_BATCH",
                 "COMMAND_COMPLETED", "COMMAND_FAILED"}
AgentEvents == EventTypes \ DeviceEvents

Working == {"dispatched", "start", "execute", "complete", "fail", "waiting"}

Confirmed == {k \in Keys : Exists(k) /\ command[k].confirmation = "APPROVED"}
Holder == [k \in Keys |-> IF Exists(k) THEN command[k].device ELSE NoDevice]
Hands == [d \in Devices |-> IF ext[d].at \in Working THEN ext[d].key ELSE NoKey]
Log == [k \in Keys |-> IF Exists(k) THEN command[k].events ELSE <<>>]

Ledger == INSTANCE CommandLedger
    WITH confirmed <- Confirmed, holder <- Holder, hands <- Hands, log <- Log

\* The n-th event of the log is one of these types.
Recorded(k, n, types) == n \in DOMAIN command[k].events /\ command[k].events[n] \in types

\* The pauses for a login that a log tells of.
Episodes(log) == Cardinality({i \in DOMAIN log : log[i] = "AUTH_REQUIRED"})

\* The commands implement the ledger: through polls that race, calls and handlers
\* that die between statements, lost answers and repeated posts, a command is
\* bound only while confirmed, carried out by that one device, and its log only grows.
ImplementsLedger == Ledger!Spec

\* The events of the work are recorded in its order: a batch follows the start or a
\* batch, a completion follows a batch, and no login, retry or late post comes
\* between, because a post that was overtaken is refused by its number.
WorkFollowsItsReport ==
    \A k \in Keys : Exists(k) =>
        \A i \in DOMAIN command[k].events :
            /\ command[k].events[i] = "DATA_BATCH"
               => Recorded(k, i - 1, {"COMMAND_STARTED", "DATA_BATCH"})
            /\ command[k].events[i] = "COMMAND_COMPLETED" => Recorded(k, i - 1, {"DATA_BATCH"})

\* Every episode of authentication, each worth one credential lease, has an event
\* of its own: the number never runs ahead of the log, whatever handler was late.
EpisodesAreLogged ==
    \A k \in Keys : Exists(k) => command[k].authEpoch <= Episodes(command[k].events)
=============================================================================
