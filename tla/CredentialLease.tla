--------------------------- MODULE CredentialLease ---------------------------
(***************************************************************************)
(* Automatic login at the carrier during a sync: the stored credential     *)
(* (src/lib/national-life/credentials/settings-service.ts), the broker's   *)
(* leases (lease-service.ts), the authentication state of a run            *)
(* (local-connector/auth-notification-service.ts), and the extension that  *)
(* is shown the carrier's pages, asks for a lease, types the password once *)
(* and reports what became of it.                                          *)
(*                                                                         *)
(* The broker reads, reserves in a transaction and decrypts afterwards.    *)
(* In the extension three things go on at once for one tab: the queue that *)
(* looks at an authentication page (`login'), the handler of a page that   *)
(* is ready (`ready'), and the retry button (`button'); each reads the     *)
(* stored state, awaits, and writes it.  A request whose sender has gone   *)
(* may still reach the server later.                                       *)
(*                                                                         *)
(* Left out: connector commands (their episodes are in ConnectorCommand),  *)
(* notifications, device keys, the envelope, a run ended by the server     *)
(* alone.  The clocks (an episode older than five minutes, the rate limit) *)
(* enter as refusals.                                                      *)
(***************************************************************************)
EXTENDS Naturals, FiniteSets

CONSTANTS
    Devices,        \* each with one run and one carrier tab
    MaxEpoch,       \* bound on the episodes of a run that are asked for
    MaxSecrets,     \* bound on passwords saved
    MaxFaults       \* bound on lost answers, killed workers and brokers

ASSUME LeaseBoundAssumption == MaxEpoch \in Nat /\ MaxSecrets \in Nat /\ MaxFaults \in Nat

VARIABLES
    credential, \* the agent's credential row; the n-th password saved is n
    run,        \* the server's row of each device's run
    lease,      \* the broker's rows, unique by device and epoch
    issues,     \* lease requests on their way, or between two steps of the broker
    results,    \* lease outcomes on their way
    notices,    \* authentication states on their way, or between read and write
    ext,        \* what the extension has in its storage
    work,       \* what its worker is in the middle of
    page,       \* what the carrier's tab shows
    asks,       \* counter: episodes that were asked for, by device
    faults,     \* counter: lost answers, killed workers and brokers
    submitted   \* history: how often a password was typed, by device and epoch

serverVars == <<credential, run, lease>>
vars == <<serverVars, issues, results, notices, ext, work, page, asks, faults, submitted>>

Epochs == 1..MaxEpoch
Secrets == 0..MaxSecrets
NoSecret == 0
Statuses == {"NONE", "UNTESTED", "READY", "REJECTED", "REVOKED"}
AuthStates == {"READY", "REQUIRED", "MFA_REQUIRED"}
Says == {"REQUIRED", "RETRY_REQUIRED", "MFA_REQUIRED", "RESTORED"}
Outcomes == {"AUTHENTICATED", "MFA_REQUIRED", "REJECTED", "UNKNOWN_PAGE"}
Pages == {"portal", "login", "sent", "mfa", "rejected", "unclear"}
Errors == {"none", "IN_PROGRESS", "MFA_REQUIRED", "REJECTED", "UNSUPPORTED", "UNAVAILABLE"}
Senders == {"login", "ready", "button", "nobody"}

NoLease == [status |-> "NONE", outcome |-> "NONE", secret |-> NoSecret]
Lease == [status : {"NONE", "ISSUED", "COMPLETED", "FAILED"}, outcome : Outcomes \cup {"NONE"},
          secret : Secrets]

\* `from' is the part of the worker that waits for the answer.
Issue == [device : Devices, pc : {"load", "reserve", "deliver"}, epoch : 0..MaxEpoch,
          secret : Secrets, from : Senders]
Result == [device : Devices, lease : Epochs, outcome : Outcomes, from : Senders]
Notice == [device : Devices, pc : {"read", "write"}, says : Says, auth : AuthStates,
           epoch : 0..MaxEpoch, from : Senders]

\* The sync state in storage: a `lease' of 0 with `asked' is a preliminary attempt.
Stored == [status : {"GO", "AUTH_REQUIRED", "ENDED"}, pending : BOOLEAN, asked : BOOLEAN,
           lease : 0..MaxEpoch, error : Errors, reloaded : BOOLEAN]

Resting == [login |-> "idle", ready |-> "idle", button |-> "idle",
            lease |-> 0, error |-> "none"]
Work == [login : {"idle", "leasing", "submitting", "reporting", "pausing"},
         ready : {"idle", "noticing", "resolving", "restoring"}, button : {"idle", "renewing"},
         lease : 0..MaxEpoch, error : Errors]

\* Type correctness of rows, requests, storage and worker.
TypeOK ==
    /\ credential \in [secret : Secrets, saves : Secrets, auto : BOOLEAN, status : Statuses]
    /\ run \in [Devices -> [active : BOOLEAN, auth : AuthStates, epoch : 0..MaxEpoch]]
    /\ lease \in [Devices -> [Epochs -> Lease]]
    /\ issues \in SUBSET Issue
    /\ results \in SUBSET Result
    /\ notices \in SUBSET Notice
    /\ ext \in [Devices -> Stored]
    /\ work \in [Devices -> Work]
    /\ page \in [Devices -> Pages]
    /\ asks \in [Devices -> 0..MaxEpoch]
    /\ faults \in 0..MaxFaults
    /\ submitted \in [Devices -> [Epochs -> Nat]]

Init ==
    /\ credential = [secret |-> NoSecret, saves |-> 0, auto |-> FALSE, status |-> "NONE"]
    /\ run = [d \in Devices |-> [active |-> TRUE, auth |-> "READY", epoch |-> 0]]
    /\ lease = [d \in Devices |-> [n \in Epochs |-> NoLease]]
    /\ issues = {}
    /\ results = {}
    /\ notices = {}
    /\ ext = [d \in Devices |-> [status |-> "GO", pending |-> FALSE, asked |-> FALSE,
                                 lease |-> 0, error |-> "none", reloaded |-> FALSE]]
    /\ work = [d \in Devices |-> Resting]
    /\ page = [d \in Devices |-> "portal"]
    /\ asks = [d \in Devices |-> 0]
    /\ faults = 0
    /\ submitted = [d \in Devices |-> [n \in Epochs |-> 0]]
Becomes(d, fields) == ext' = [ext EXCEPT ![d] = fields]
Works(d, fields) == work' = [work EXCEPT ![d] = fields]

-----------------------------------------------------------------------------
(* The agent's settings, and the run.                                       *)

\* Saving a password enables automatic login, whatever was there before.
Save ==
    /\ credential.saves < MaxSecrets
    /\ credential' = [secret |-> credential.saves + 1, saves |-> credential.saves + 1,
                      auto |-> TRUE, status |-> "UNTESTED"]
    /\ UNCHANGED <<run, lease, issues, results, notices, ext, work, page, asks, faults, submitted>>

Revoke ==
    /\ credential.secret # NoSecret
    /\ credential' = [credential EXCEPT !.secret = NoSecret, !.auto = FALSE, !.status = "REVOKED"]
    /\ UNCHANGED <<run, lease, issues, results, notices, ext, work, page, asks, faults, submitted>>

Lives(d) == ext[d].status # "ENDED"

\* The extension forgets a run that is cancelled or complete first.
DropRun(d) ==
    /\ Lives(d)
    /\ Becomes(d, [ext[d] EXCEPT !.status = "ENDED", !.pending = FALSE, !.asked = FALSE,
                                 !.lease = 0, !.error = "none", !.reloaded = FALSE])
    /\ UNCHANGED <<serverVars, issues, results, notices, work, page, asks, faults, submitted>>

\* And tells the server, which has ended the run.
RunEnds(d) ==
    /\ run[d].active /\ ~Lives(d)
    /\ run' = [run EXCEPT ![d].active = FALSE]
    /\ UNCHANGED <<credential, lease, issues, results, notices, ext, work, page, asks, faults, submitted>>

-----------------------------------------------------------------------------
(* Issuing a lease.                                                         *)

Leasable == credential.auto /\ credential.secret # NoSecret /\ credential.status \in {"UNTESTED", "READY"}
Waits(d) == run[d].active /\ run[d].auth = "REQUIRED" /\ run[d].epoch >= 1

\* Mutant: a lease that was reported makes way for another.
UnleasedOnceReported(d, n) == lease[d][n].status \in {"NONE", "COMPLETED"}

Unleased(d, n) == lease[d][n].status = "NONE"

\* What the sender of a lease request does when it is refused or gets no answer.
Unanswered(q) ==
    IF q.from = "login"
    THEN /\ Works(q.device, [work[q.device] EXCEPT !.login = "idle"])
         /\ Becomes(q.device, [ext[q.device] EXCEPT !.error = "UNAVAILABLE"])
    ELSE UNCHANGED <<work, ext>>

Refuse(q) ==
    /\ issues' = issues \ {q}
    /\ Unanswered(q)

\* The broker reads device, credential, run and lease, and checks them.
LoadIssueContext(q) ==
    /\ q.pc = "load"
    /\ IF Leasable /\ Waits(q.device) /\ Unleased(q.device, run[q.device].epoch)
       THEN /\ issues' = (issues \ {q}) \cup
                 {[q EXCEPT !.pc = "reserve", !.epoch = run[q.device].epoch,
                            !.secret = credential.secret]}
            /\ UNCHANGED <<work, ext>>
       ELSE Refuse(q)
    /\ UNCHANGED <<serverVars, results, notices, page, asks, faults, submitted>>

\* The episode is too old, the limits are used up, or a broker is not there.
LimitReached(q) ==
    /\ q.pc = "load"
    /\ Refuse(q)
    /\ UNCHANGED <<serverVars, results, notices, page, asks, faults, submitted>>

\* Mutant: the reservation trusts the credential that was loaded.
StillOpenAsLoaded(q) ==
    /\ run[q.device].active
    /\ run[q.device].auth = "REQUIRED"
    /\ run[q.device].epoch = q.epoch

StillOpen(q) ==
    /\ run[q.device].active
    /\ run[q.device].auth = "REQUIRED"
    /\ run[q.device].epoch = q.epoch
    /\ credential.auto
    /\ credential.secret # NoSecret

\* One transaction: run and credential are looked at again, and the unique key
\* takes the lease or refuses it.
ReserveLease(q) ==
    /\ q.pc = "reserve"
    /\ IF StillOpen(q) /\ Unleased(q.device, q.epoch)
       THEN /\ lease' = [lease EXCEPT ![q.device][q.epoch] =
                           [status |-> "ISSUED", outcome |-> "NONE", secret |-> q.secret]]
            /\ issues' = (issues \ {q}) \cup {[q EXCEPT !.pc = "deliver"]}
            /\ UNCHANGED <<work, ext>>
       ELSE Refuse(q) /\ UNCHANGED lease
    /\ UNCHANGED <<credential, run, results, notices, page, asks, faults, submitted>>

\* The password that was loaded is decrypted and sent; whoever asked stores the
\* lease before opening it.
Deliver(q) ==
    /\ q.pc = "deliver"
    /\ issues' = issues \ {q}
    /\ IF q.from = "login"
       THEN /\ Works(q.device, [work[q.device] EXCEPT
                    !.login = "submitting", !.lease = q.epoch])
            /\ Becomes(q.device, [ext[q.device] EXCEPT
                    !.asked = TRUE, !.lease = q.epoch, !.error = "IN_PROGRESS"])
       ELSE UNCHANGED <<work, ext>>
    /\ UNCHANGED <<serverVars, results, notices, page, asks, faults, submitted>>

\* Decryption fails: the lease is closed, and the request refused.
DeliveryFails(q) ==
    /\ q.pc = "deliver"
    /\ lease' = [lease EXCEPT ![q.device][q.epoch] =
                    IF @.status = "ISSUED" THEN [@ EXCEPT !.status = "FAILED"] ELSE @]
    /\ Refuse(q)
    /\ UNCHANGED <<credential, run, results, notices, page, asks, faults, submitted>>

-----------------------------------------------------------------------------
(* Recording the outcome of a lease.                                        *)

\* Mutant: a rejection is noted, and the password goes on being used.
TriedAndKept(outcome) ==
    CASE outcome = "AUTHENTICATED" -> [credential EXCEPT !.status = "READY"]
      [] outcome = "REJECTED" -> [credential EXCEPT !.status = "REJECTED"]
      [] OTHER -> credential

Tried(outcome) ==
    CASE outcome = "AUTHENTICATED" -> [credential EXCEPT !.status = "READY"]
      [] outcome = "REJECTED" -> [credential EXCEPT !.status = "REJECTED", !.auto = FALSE]
      [] OTHER -> credential

Post(r) == results' = results \cup {r}
Notify(d, says, from) ==
    notices' = notices \cup {[device |-> d, pc |-> "read", says |-> says, auth |-> "READY",
                              epoch |-> 0, from |-> from]}

\* The login queue has reported, or needed not: a run is told of MFA, and the page
\* that was seen is remembered.
AfterReport(d, error) ==
    IF error = "MFA_REQUIRED"
    THEN /\ Works(d, [work[d] EXCEPT !.login = "pausing", !.error = error])
         /\ Notify(d, "MFA_REQUIRED", "login")
         /\ UNCHANGED ext
    ELSE /\ Works(d, [work[d] EXCEPT !.login = "idle"])
         /\ Becomes(d, [ext[d] EXCEPT !.error = error])
         /\ UNCHANGED notices

\* What follows the answer to an outcome, a failed one included.
Reported(r, ok) ==
    CASE r.from = "login" -> AfterReport(r.device, work[r.device].error)
      [] r.from = "ready" /\ ok ->
            /\ Works(r.device, [work[r.device] EXCEPT !.ready = "restoring"])
            /\ Notify(r.device, "RESTORED", "ready")
            /\ UNCHANGED ext
      [] r.from = "ready" /\ ~ok ->
            /\ Works(r.device, [work[r.device] EXCEPT !.ready = "idle"])
            /\ Becomes(r.device, [ext[r.device] EXCEPT
                    !.status = IF @ = "ENDED" THEN @ ELSE "GO", !.error = "none"])
            /\ UNCHANGED notices
      [] OTHER -> UNCHANGED <<work, ext, notices>>

\* One transaction takes the first outcome of a lease, for the credential as it is
\* by now unless that is revoked; a later outcome is a conflict.
CommitOutcome(r) ==
    /\ results' = results \ {r}
    /\ LET open == lease[r.device][r.lease].status = "ISSUED" IN
       /\ IF open
          THEN /\ lease' = [lease EXCEPT ![r.device][r.lease] =
                              [@ EXCEPT !.status = "COMPLETED", !.outcome = r.outcome]]
               /\ credential' = IF credential.secret = NoSecret THEN credential ELSE Tried(r.outcome)
          ELSE UNCHANGED <<lease, credential>>
       /\ Reported(r, open)
    /\ UNCHANGED <<run, issues, page, asks, faults, submitted>>

-----------------------------------------------------------------------------
(* The authentication state of a run: read, then written.                   *)

\* What follows the answer to an authentication state.
Noticed(q, ok) ==
    LET d == q.device w == work[q.device] e == ext[q.device] IN
    CASE q.from = "login" ->
            /\ Works(d, [w EXCEPT !.login = "idle"])
            /\ Becomes(d, [e EXCEPT !.error = w.error])
            /\ UNCHANGED page
      [] q.from = "ready" /\ w.ready = "noticing" ->
            /\ Works(d, [w EXCEPT !.ready = "idle"])
            /\ UNCHANGED <<ext, page>>
      [] q.from = "ready" /\ w.ready = "restoring" ->
            /\ Works(d, [w EXCEPT !.ready = "idle"])
            /\ Becomes(d, IF e.status = "ENDED" THEN e
                          ELSE [status |-> "GO", pending |-> FALSE, asked |-> FALSE,
                                lease |-> 0, error |-> "none", reloaded |-> FALSE])
            /\ UNCHANGED page
      [] q.from = "button" /\ e.status # "ENDED" ->
            /\ Works(d, [w EXCEPT !.button = "idle"])
            /\ Becomes(d, IF ok THEN [status |-> "AUTH_REQUIRED", pending |-> TRUE, asked |-> FALSE,
                                      lease |-> 0, error |-> "none", reloaded |-> TRUE]
                          ELSE [e EXCEPT !.error = "UNAVAILABLE"])
            /\ page' = IF ok /\ page[d] # "portal" THEN [page EXCEPT ![d] = "login"] ELSE page
      [] q.from = "button" /\ e.status = "ENDED" ->
            /\ Works(d, [w EXCEPT !.button = "idle"])
            /\ UNCHANGED <<ext, page>>
      [] OTHER -> UNCHANGED <<work, ext, page>>

ReadAuthState(q) ==
    /\ q.pc = "read"
    /\ LET r == run[q.device] IN
       IF r.active
       THEN /\ notices' = (notices \ {q}) \cup
                 {[q EXCEPT !.pc = "write", !.auth = r.auth, !.epoch = r.epoch]}
            /\ UNCHANGED <<ext, work, page>>
       ELSE notices' = notices \ {q} /\ Noticed(q, FALSE)
    /\ UNCHANGED <<serverVars, issues, results, asks, faults, submitted>>

Opens(q) == q.says = "RETRY_REQUIRED" \/ (q.says = "REQUIRED" /\ q.auth = "READY")

\* The update names the run's state, not the epoch that was read.
WriteAuthState(q) ==
    /\ q.pc = "write"
    /\ Opens(q) => q.epoch < MaxEpoch
    /\ LET ok == run[q.device].active IN
       /\ run' = IF ok
                 THEN [run EXCEPT ![q.device].auth =
                                      CASE q.says = "RETRY_REQUIRED" -> "REQUIRED"
                                        [] q.says = "RESTORED" -> "READY"
                                        [] OTHER -> q.says,
                                  ![q.device].epoch = IF Opens(q) THEN q.epoch + 1 ELSE q.epoch]
                 ELSE run
       /\ notices' = notices \ {q}
       /\ Noticed(q, ok)
    /\ UNCHANGED <<credential, lease, issues, results, asks, faults, submitted>>

-----------------------------------------------------------------------------
(* The extension: a page of the carrier is ready.                           *)


AsksForEpisode(d) == asks[d] < MaxEpoch /\ asks' = [asks EXCEPT ![d] = @ + 1]

\* A sign-in page pauses the run; the first notice is told to the server.
RequireAuthentication(d) ==
    /\ Lives(d)
    /\ work[d].ready = "idle"
    /\ page[d] # "portal"
    /\ IF ext[d].pending
       THEN /\ ext[d].status # "AUTH_REQUIRED"
            /\ Becomes(d, [ext[d] EXCEPT !.status = "AUTH_REQUIRED"])
            /\ UNCHANGED <<work, notices, asks>>
       ELSE /\ AsksForEpisode(d)
            /\ Becomes(d, [ext[d] EXCEPT !.status = "AUTH_REQUIRED", !.pending = TRUE,
                                         !.error = "none", !.reloaded = FALSE])
            /\ Works(d, [work[d] EXCEPT !.ready = "noticing"])
            /\ Notify(d, "REQUIRED", "ready")
    /\ UNCHANGED <<serverVars, issues, results, page, faults, submitted>>

\* The probe finds a session: the pause, if there is one, is resolved, by the
\* outcome of its lease first.
ProbeSession(d) ==
    /\ Lives(d)
    /\ work[d].ready = "idle"
    /\ page[d] = "portal"
    /\ \/ /\ ~ext[d].pending
          /\ ext[d].status # "GO"
          /\ Becomes(d, [ext[d] EXCEPT !.status = "GO", !.error = "none"])
          /\ UNCHANGED <<work, results, notices>>
       \/ /\ ext[d].pending
          /\ ext[d].lease # 0
          /\ Works(d, [work[d] EXCEPT !.ready = "resolving"])
          /\ Post([device |-> d, lease |-> ext[d].lease, outcome |-> "AUTHENTICATED", from |-> "ready"])
          /\ UNCHANGED <<ext, notices>>
       \/ /\ ext[d].pending
          /\ ext[d].lease = 0
          /\ Works(d, [work[d] EXCEPT !.ready = "restoring"])
          /\ Notify(d, "RESTORED", "ready")
          /\ UNCHANGED <<ext, results>>
    /\ UNCHANGED <<serverVars, issues, page, asks, faults, submitted>>

-----------------------------------------------------------------------------
(* The extension: the queue of a sign-in page.                              *)

LooksAt(d, shown) ==
    /\ ext[d].status = "AUTH_REQUIRED"
    /\ work[d].login = "idle"
    /\ page[d] \in shown

\* A lease is asked for once per attempt, and again if a worker died asking.
AskForLease(d) ==
    /\ LooksAt(d, {"login"})
    /\ ext[d].lease = 0
    /\ ext[d].asked => ext[d].error = "IN_PROGRESS"
    /\ Becomes(d, [ext[d] EXCEPT !.asked = TRUE, !.error = "IN_PROGRESS"])
    /\ Works(d, [work[d] EXCEPT !.login = "leasing"])
    /\ issues' = issues \cup {[device |-> d, pc |-> "load", epoch |-> 0, secret |-> NoSecret,
                               from |-> "login"]}
    /\ UNCHANGED <<serverVars, results, notices, page, asks, faults, submitted>>

\* The outcome of the attempt that was read, if it has a lease.
Report(d, n, outcome, error) ==
    IF n = 0
    THEN AfterReport(d, error) /\ UNCHANGED results
    ELSE /\ Works(d, [work[d] EXCEPT !.login = "reporting", !.error = error])
         /\ Post([device |-> d, lease |-> n, outcome |-> outcome, from |-> "login"])
         /\ UNCHANGED <<ext, notices>>

\* The password is typed into the form; the answer of the page may be lost on the way.
SubmitCredential(d) ==
    /\ work[d].login = "submitting"
    /\ page[d] = "login"
    /\ page' = [page EXCEPT ![d] = "sent"]
    /\ submitted' = [submitted EXCEPT ![d][work[d].lease] = @ + 1]
    /\ \/ /\ Works(d, [work[d] EXCEPT !.login = "idle"])
          /\ UNCHANGED <<ext, results, notices, faults>>
       \/ /\ faults < MaxFaults
          /\ faults' = faults + 1
          /\ Report(d, work[d].lease, "UNKNOWN_PAGE", "UNSUPPORTED")
    /\ UNCHANGED <<serverVars, issues, asks>>

\* The form is gone.
SubmitRefused(d) ==
    /\ work[d].login = "submitting"
    /\ page[d] # "login"
    /\ Report(d, work[d].lease, "UNKNOWN_PAGE", "UNSUPPORTED")
    /\ UNCHANGED <<serverVars, issues, page, asks, faults, submitted>>

Observed ==
    [shown \in {"mfa", "rejected", "unclear", "sent"} |->
        CASE shown = "mfa" -> [outcome |-> "MFA_REQUIRED", error |-> "MFA_REQUIRED"]
          [] shown = "rejected" -> [outcome |-> "REJECTED", error |-> "REJECTED"]
          [] OTHER -> [outcome |-> "UNKNOWN_PAGE", error |-> "UNSUPPORTED"]]

\* A page that is not understood is reloaded once, unless a lease is out; a form
\* that is being sent is such a page.
ReloadPage(d) ==
    /\ LooksAt(d, {"unclear", "sent"})
    /\ ext[d].lease = 0
    /\ ~ext[d].reloaded
    /\ Becomes(d, [ext[d] EXCEPT !.reloaded = TRUE, !.error = "none"])
    /\ page' = [page EXCEPT ![d] = "login"]
    /\ UNCHANGED <<serverVars, issues, results, notices, work, asks, faults, submitted>>

\* What the page shows is reported once.
ObservePage(d) ==
    /\ LooksAt(d, DOMAIN Observed)
    /\ page[d] \in {"unclear", "sent"} => ext[d].lease = 0 /\ ext[d].reloaded
    /\ LET seen == Observed[page[d]] IN
       /\ ext[d].error # seen.error
       /\ Report(d, ext[d].lease, seen.outcome, seen.error)
    /\ UNCHANGED <<serverVars, issues, page, asks, faults, submitted>>

-----------------------------------------------------------------------------
(* The retry button.                                                        *)

\* It asks for a new episode, whatever the other two are doing.
PressRetry(d) ==
    /\ ext[d].status = "AUTH_REQUIRED"
    /\ work[d].button = "idle"
    /\ AsksForEpisode(d)
    /\ Works(d, [work[d] EXCEPT !.button = "renewing"])
    /\ Notify(d, "RETRY_REQUIRED", "button")
    /\ UNCHANGED <<serverVars, issues, results, ext, page, faults, submitted>>

-----------------------------------------------------------------------------
(* The carrier, the agent at its page, and faults.                          *)

\* The tab of a dropped run is looked at no more.
Shows(d, from, to) ==
    /\ Lives(d)
    /\ page[d] \in from
    /\ page' = [page EXCEPT ![d] = to]
    /\ UNCHANGED <<serverVars, issues, results, notices, ext, work, asks, faults, submitted>>

SessionLost(d) == asks[d] < MaxEpoch /\ \E to \in {"login", "unclear"} : Shows(d, {"portal"}, to)
CarrierAnswers(d) == \E to \in {"portal", "mfa", "rejected"} : Shows(d, {"sent"}, to)
AgentSignsIn(d) == Shows(d, Pages \ {"portal", "sent"}, "portal")

Orphaned(S, q) == (S \ {q}) \cup {[q EXCEPT !.from = "nobody"]}
OrphanedOf(S, d) ==
    {q \in S : q.device # d} \cup {[q EXCEPT !.from = "nobody"] : q \in {r \in S : r.device = d}}

Fault == faults < MaxFaults /\ faults' = faults + 1

\* The answer to a request is lost, or later than its sender waits: the request itself
\* may still be under way.
AnswerLost ==
    /\ Fault
    /\ \/ \E q \in issues :
            /\ q.from # "nobody"
            /\ issues' = Orphaned(issues, q)
            /\ Unanswered(q)
            /\ UNCHANGED <<results, notices, page>>
       \/ \E r \in results :
            /\ r.from # "nobody"
            /\ results' = Orphaned(results, r)
            /\ Reported(r, FALSE)
            /\ UNCHANGED <<issues, page>>
       \/ \E q \in notices :
            /\ q.from # "nobody"
            /\ notices' = Orphaned(notices, q)
            /\ Noticed(q, FALSE)
            /\ UNCHANGED <<issues, results>>
    /\ UNCHANGED <<serverVars, asks, submitted>>

\* The browser ends the service worker, and what it had opened is gone.
WorkerKilled(d) ==
    /\ Fault
    /\ work[d] # Resting
    /\ Works(d, Resting)
    /\ issues' = OrphanedOf(issues, d)
    /\ results' = OrphanedOf(results, d)
    /\ notices' = OrphanedOf(notices, d)
    /\ UNCHANGED <<serverVars, ext, page, asks, submitted>>

\* The broker ends between two steps of a request.
BrokerKilled ==
    /\ Fault
    /\ \E q \in issues : Refuse(q)
    /\ UNCHANGED <<serverVars, results, notices, page, asks, submitted>>
-----------------------------------------------------------------------------

BrokerStep(q) ==
    LoadIssueContext(q) \/ LimitReached(q) \/ ReserveLease(q) \/ Deliver(q) \/ DeliveryFails(q)
AuthStateStep(q) == ReadAuthState(q) \/ WriteAuthState(q)
ServerStep ==
    \/ \E q \in issues : BrokerStep(q)
    \/ \E r \in results : CommitOutcome(r)
    \/ \E q \in notices : AuthStateStep(q)

PageReady(d) == RequireAuthentication(d) \/ ProbeSession(d)
LoginQueue(d) ==
    AskForLease(d) \/ SubmitCredential(d) \/ SubmitRefused(d) \/ ReloadPage(d) \/ ObservePage(d)

Next ==
    \/ Save
    \/ Revoke
    \/ ServerStep
    \/ \E d \in Devices :
         \/ RunEnds(d)
         \/ DropRun(d)
         \/ PageReady(d)
         \/ LoginQueue(d)
         \/ PressRetry(d)
         \/ SessionLost(d)
         \/ CarrierAnswers(d)
         \/ AgentSignsIn(d)
         \/ WorkerKilled(d)
    \/ AnswerLost
    \/ BrokerKilled

Spec == Init /\ [][Next]_vars

-----------------------------------------------------------------------------
(* Properties.                                                              *)

\* A password is typed at most once in an episode of authentication, across workers
\* killed and answers lost at any step, late requests, retries pressed meanwhile and
\* episodes that a late write has taken back: a carrier that counts attempts locks.
OneSubmissionPerEpisode == \A d \in Devices, n \in Epochs : submitted[d][n] <= 1

RejectedSecrets ==
    {lease[x[1]][x[2]].secret : x \in {y \in Devices \X Epochs : lease[y[1]][y[2]].outcome = "REJECTED"}}

\* While the stored password is one that the carrier has rejected, no lease is
\* reserved: not by a request that had loaded it before, nor after the success of an
\* older lease, until the agent saves another.
NoLeaseAfterRejection ==
    [][credential.secret \in RejectedSecrets
       => \A d \in Devices, n \in Epochs : Unleased(d, n) => Unleased(d, n)']_vars
=============================================================================
