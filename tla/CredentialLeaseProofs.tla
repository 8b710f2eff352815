------------------------ MODULE CredentialLeaseProofs ------------------------
(***************************************************************************)
(* CredentialLease: a password is typed at most once in an episode, and a  *)
(* rejected one is leased no more.                                         *)
(***************************************************************************)
EXTENDS CredentialLease, TLAPS

\* The lease of a request that is answered next has a row, and has not been typed.
Answerable(q) ==
    q.pc = "deliver" => ~Unleased(q.device, q.epoch) /\ submitted[q.device][q.epoch] = 0
Numbered(q) == q.pc \in {"reserve", "deliver"} => q.epoch \in Epochs

SameLease(p, q) ==
    p.pc = "deliver" /\ q.pc = "deliver" /\ p.device = q.device /\ p.epoch = q.epoch
OnePerLease(S) == \A p, q \in S : SameLease(p, q) => p = q

\* So has the one that an extension holds, and nobody else is sent it.
Typing(d) ==
    work[d].login = "submitting" =>
        /\ work[d].lease \in Epochs
        /\ ~Unleased(d, work[d].lease)
        /\ submitted[d][work[d].lease] = 0
        /\ \A q \in issues : ~(q.pc = "deliver" /\ q.device = d /\ q.epoch = work[d].lease)

TypedOnce(d, n) == submitted[d][n] <= 1 /\ (submitted[d][n] # 0 => ~Unleased(d, n))

SubmissionInv ==
    /\ \A q \in issues : Answerable(q) /\ Numbered(q)
    /\ OnePerLease(issues)
    /\ \A d \in Devices : Typing(d)
    /\ \A d \in Devices, n \in Epochs : TypedOnce(d, n)

\* Leases hold passwords that were saved; a rejected one is not used automatically.
RejectionInv ==
    /\ credential.secret <= credential.saves
    /\ \A q \in issues : q.secret <= credential.saves
    /\ \A d \in Devices, n \in Epochs : lease[d][n].secret <= credential.saves
    /\ credential.secret # NoSecret /\ credential.secret \in RejectedSecrets => ~credential.auto

LeaseInv == TypeOK /\ SubmissionInv /\ RejectionInv

-----------------------------------------------------------------------------
(* What the extension does next.                                            *)

\* No submission begins.
NoneBegins ==
    \A d \in Devices : work'[d].login = "submitting" =>
        work[d].login = "submitting" /\ work'[d].lease = work[d].lease

Held == work' \in [Devices -> Work] /\ ext' \in [Devices -> Stored] /\ NoneBegins

LEMMA WorkUpdated ==
    ASSUME TypeOK, NEW d \in Devices, NEW w \in Work, Works(d, w),
           w.login = "submitting" => work[d].login = "submitting" /\ w.lease = work[d].lease
    PROVE  work' \in [Devices -> Work] /\ NoneBegins
BY DEF TypeOK, Works, NoneBegins

LEMMA StoreUpdated ==
    ASSUME TypeOK, NEW d \in Devices, NEW e \in Stored, Becomes(d, e)
    PROVE  ext' \in [Devices -> Stored]
BY DEF TypeOK, Becomes

LEMMA SameHeld ==
    ASSUME TypeOK
    PROVE  /\ work' = work => work' \in [Devices -> Work] /\ NoneBegins
           /\ ext' = ext => ext' \in [Devices -> Stored]
BY DEF TypeOK, NoneBegins

\* The login queue comes to rest, or waits for the answer to a pause.
LEMMA LoginMoves ==
    ASSUME TypeOK, NEW d \in Devices
    PROVE  /\ [work[d] EXCEPT !.login = "idle"] \in Work
           /\ [work[d] EXCEPT !.login = "idle"].login = "idle"
           /\ [work[d] EXCEPT !.login = "leasing"] \in Work
           /\ [work[d] EXCEPT !.login = "leasing"].login = "leasing"
           /\ \A e \in Errors : /\ [work[d] EXCEPT !.login = "pausing", !.error = e] \in Work
                                /\ [work[d] EXCEPT !.login = "pausing", !.error = e].login = "pausing"
                                /\ [work[d] EXCEPT !.login = "reporting", !.error = e] \in Work
                                /\ [work[d] EXCEPT !.login = "reporting", !.error = e].login = "reporting"
                                /\ [ext[d] EXCEPT !.error = e] \in Stored
<1>1. work[d] \in Work /\ ext[d] \in Stored
      BY DEF TypeOK
<1>2. \A e \in Errors : [ext[d] EXCEPT !.error = e] \in Stored
      BY <1>1 DEF Stored
<1>3. \A e \in Errors : [work[d] EXCEPT !.login = "pausing", !.error = e] \in Work
      BY <1>1 DEF Work
<1>4. \A e \in Errors : [work[d] EXCEPT !.login = "reporting", !.error = e] \in Work
      BY <1>1 DEF Work
<1>5. /\ [work[d] EXCEPT !.login = "idle"] \in Work
      /\ [work[d] EXCEPT !.login = "leasing"] \in Work
      BY <1>1 DEF Work
<1>6. /\ [work[d] EXCEPT !.login = "idle"].login = "idle"
      /\ [work[d] EXCEPT !.login = "leasing"].login = "leasing"
      /\ \A e \in Errors : /\ [work[d] EXCEPT !.login = "pausing", !.error = e].login = "pausing"
                           /\ [work[d] EXCEPT !.login = "reporting", !.error = e].login = "reporting"
      BY <1>1 DEF Work
<1> QED BY <1>2, <1>3, <1>4, <1>5, <1>6

\* The handler of a page or the button moves, and the login queue does not.
LEMMA OthersMove ==
    ASSUME TypeOK, NEW d \in Devices
    PROVE  /\ \A pc \in {"idle", "noticing", "resolving", "restoring"} :
                /\ [work[d] EXCEPT !.ready = pc] \in Work
                /\ [work[d] EXCEPT !.ready = pc].login = work[d].login
                /\ [work[d] EXCEPT !.ready = pc].lease = work[d].lease
           /\ \A pc \in {"idle", "renewing"} :
                /\ [work[d] EXCEPT !.button = pc] \in Work
                /\ [work[d] EXCEPT !.button = pc].login = work[d].login
                /\ [work[d] EXCEPT !.button = pc].lease = work[d].lease
<1>1. work[d] \in Work
      BY DEF TypeOK
<1>2. ASSUME NEW pc \in {"idle", "noticing", "resolving", "restoring"}
      PROVE  /\ [work[d] EXCEPT !.ready = pc] \in Work
             /\ [work[d] EXCEPT !.ready = pc].login = work[d].login
             /\ [work[d] EXCEPT !.ready = pc].lease = work[d].lease
      BY <1>1 DEF Work
<1>3. ASSUME NEW pc \in {"idle", "renewing"}
      PROVE  /\ [work[d] EXCEPT !.button = pc] \in Work
             /\ [work[d] EXCEPT !.button = pc].login = work[d].login
             /\ [work[d] EXCEPT !.button = pc].lease = work[d].lease
      BY <1>1 DEF Work
<1> QED BY <1>2, <1>3

LEMMA UnansweredHolds ==
    ASSUME TypeOK, NEW q \in Issue, Unanswered(q)
    PROVE  Held
<1>1. q.device \in Devices /\ "UNAVAILABLE" \in Errors
      BY DEF Issue, Errors
<1>2. CASE q.from = "login"
  <2>1. /\ Works(q.device, [work[q.device] EXCEPT !.login = "idle"])
        /\ Becomes(q.device, [ext[q.device] EXCEPT !.error = "UNAVAILABLE"])
        BY <1>2 DEF Unanswered
  <2> QED BY <1>1, <2>1, LoginMoves, WorkUpdated, StoreUpdated DEF Held
<1>3. CASE q.from # "login"
      BY <1>3, SameHeld DEF Unanswered, Held
<1> QED BY <1>2, <1>3

LEMMA NotifyTyped ==
    ASSUME TypeOK, NEW d \in Devices, NEW says \in Says, NEW from \in Senders, Notify(d, says, from)
    PROVE  notices' \in SUBSET Notice
<1>1. [device |-> d, pc |-> "read", says |-> says, auth |-> "READY", epoch |-> 0, from |-> from]
          \in Notice
      BY LeaseBoundAssumption DEF Notice, AuthStates
<1> QED BY <1>1 DEF TypeOK, Notify

LEMMA AfterReportHolds ==
    ASSUME TypeOK, NEW d \in Devices, NEW e \in Errors, AfterReport(d, e)
    PROVE  Held /\ notices' \in SUBSET Notice
<1>1. CASE e = "MFA_REQUIRED"
  <2>1. /\ Works(d, [work[d] EXCEPT !.login = "pausing", !.error = e])
        /\ Notify(d, "MFA_REQUIRED", "login")
        /\ ext' = ext
        BY <1>1 DEF AfterReport
  <2>2. notices' \in SUBSET Notice
        BY <2>1, NotifyTyped DEF Says, Senders
  <2> QED BY <2>1, <2>2, LoginMoves, WorkUpdated, SameHeld DEF Held
<1>2. CASE e # "MFA_REQUIRED"
  <2>1. /\ Works(d, [work[d] EXCEPT !.login = "idle"])
        /\ Becomes(d, [ext[d] EXCEPT !.error = e])
        /\ notices' = notices
        BY <1>2 DEF AfterReport
  <2>2. notices' \in SUBSET Notice
        BY <2>1 DEF TypeOK
  <2> QED BY <2>1, <2>2, LoginMoves, WorkUpdated, StoreUpdated DEF Held
<1> QED BY <1>1, <1>2

LEMMA ReportHolds ==
    ASSUME TypeOK, NEW d \in Devices, NEW n \in 0..MaxEpoch, NEW outcome \in Outcomes,
           NEW e \in Errors, Report(d, n, outcome, e)
    PROVE  Held /\ notices' \in SUBSET Notice /\ results' \in SUBSET Result
<1>1. CASE n = 0
  <2>1. AfterReport(d, e) /\ results' = results
        BY <1>1 DEF Report
  <2>2. results' \in SUBSET Result
        BY <2>1 DEF TypeOK
  <2> QED BY <2>1, <2>2, AfterReportHolds
<1>2. CASE n # 0
  <2>1. /\ Works(d, [work[d] EXCEPT !.login = "reporting", !.error = e])
        /\ Post([device |-> d, lease |-> n, outcome |-> outcome, from |-> "login"])
        /\ ext' = ext
        /\ notices' = notices
        BY <1>2 DEF Report
  <2>2. [device |-> d, lease |-> n, outcome |-> outcome, from |-> "login"] \in Result
        BY <1>2, LeaseBoundAssumption DEF Result, Epochs, Senders
  <2>3. notices' \in SUBSET Notice /\ results' \in SUBSET Result
        BY <2>1, <2>2 DEF TypeOK, Post
  <2> QED BY <2>1, <2>3, LoginMoves, WorkUpdated, SameHeld DEF Held
<1> QED BY <1>1, <1>2

\* What the store may hold after an answer.
LEMMA StoredFresh ==
    ASSUME NEW status \in {"GO", "AUTH_REQUIRED", "ENDED"}, NEW pending \in BOOLEAN,
           NEW reloaded \in BOOLEAN
    PROVE  [status |-> status, pending |-> pending, asked |-> FALSE,
            lease |-> 0, error |-> "none", reloaded |-> reloaded] \in Stored
BY LeaseBoundAssumption DEF Stored, Errors

LEMMA ReportedHolds ==
    ASSUME TypeOK, NEW r \in Result, NEW ok \in BOOLEAN, Reported(r, ok)
    PROVE  Held /\ notices' \in SUBSET Notice
<1>1. /\ r.device \in Devices
      /\ work[r.device] \in Work
      /\ work[r.device].error \in Errors
      /\ ext[r.device] \in Stored
      BY DEF TypeOK, Result, Work
<1>2. CASE r.from = "login"
      BY <1>1, <1>2, AfterReportHolds DEF Reported
<1>3. CASE r.from = "ready" /\ ok
  <2>1. /\ Works(r.device, [work[r.device] EXCEPT !.ready = "restoring"])
        /\ Notify(r.device, "RESTORED", "ready")
        /\ ext' = ext
        BY <1>3 DEF Reported
  <2>2. notices' \in SUBSET Notice
        BY <1>1, <2>1, NotifyTyped DEF Says, Senders
  <2> QED BY <1>1, <2>1, <2>2, OthersMove, WorkUpdated, SameHeld DEF Held
<1>4. CASE r.from = "ready" /\ ~ok
  <2>1. /\ Works(r.device, [work[r.device] EXCEPT !.ready = "idle"])
        /\ Becomes(r.device, [ext[r.device] EXCEPT
                !.status = IF @ = "ENDED" THEN @ ELSE "GO", !.error = "none"])
        /\ notices' = notices
        BY <1>4 DEF Reported
  <2>2. [ext[r.device] EXCEPT !.status = IF @ = "ENDED" THEN @ ELSE "GO", !.error = "none"] \in Stored
        BY <1>1 DEF Stored, Errors
  <2>3. notices' \in SUBSET Notice
        BY <2>1 DEF TypeOK
  <2> QED BY <1>1, <2>1, <2>2, <2>3, OthersMove, WorkUpdated, StoreUpdated DEF Held
<1>5. CASE r.from \notin {"login", "ready"}
      BY <1>5, SameHeld DEF Reported, Held, TypeOK
<1> QED BY <1>2, <1>3, <1>4, <1>5

LEMMA NoticedHolds ==
    ASSUME TypeOK, NEW q \in Notice, NEW ok \in BOOLEAN, Noticed(q, ok)
    PROVE  Held /\ page' \in [Devices -> Pages]
<1>1. /\ q.device \in Devices
      /\ work[q.device] \in Work
      /\ work[q.device].error \in Errors
      /\ ext[q.device] \in Stored
      BY DEF TypeOK, Notice, Work
<1>2. CASE q.from = "login"
  <2>1. /\ Works(q.device, [work[q.device] EXCEPT !.login = "idle"])
        /\ Becomes(q.device, [ext[q.device] EXCEPT !.error = work[q.device].error])
        /\ page' = page
        BY <1>2 DEF Noticed
  <2>2. page' \in [Devices -> Pages]
        BY <2>1 DEF TypeOK
  <2> QED BY <1>1, <2>1, <2>2, LoginMoves, WorkUpdated, StoreUpdated DEF Held
<1>3. CASE q.from = "ready" /\ work[q.device].ready = "noticing"
  <2>1. /\ Works(q.device, [work[q.device] EXCEPT !.ready = "idle"])
        /\ ext' = ext
        /\ page' = page
        BY <1>3 DEF Noticed
  <2>2. page' \in [Devices -> Pages]
        BY <2>1 DEF TypeOK
  <2> QED BY <1>1, <2>1, <2>2, OthersMove, WorkUpdated, SameHeld DEF Held
<1>4. CASE q.from = "ready" /\ work[q.device].ready = "restoring"
  <2>1. /\ Works(q.device, [work[q.device] EXCEPT !.ready = "idle"])
        /\ Becomes(q.device, IF ext[q.device].status = "ENDED" THEN ext[q.device]
                             ELSE [status |-> "GO", pending |-> FALSE, asked |-> FALSE,
                                   lease |-> 0, error |-> "none", reloaded |-> FALSE])
        /\ page' = page
        BY <1>4 DEF Noticed
  <2>2. (IF ext[q.device].status = "ENDED" THEN ext[q.device]
         ELSE [status |-> "GO", pending |-> FALSE, asked |-> FALSE,
               lease |-> 0, error |-> "none", reloaded |-> FALSE]) \in Stored
        BY <1>1, StoredFresh
  <2>3. page' \in [Devices -> Pages]
        BY <2>1 DEF TypeOK
  <2> QED BY <1>1, <2>1, <2>2, <2>3, OthersMove, WorkUpdated, StoreUpdated DEF Held
<1>5. CASE q.from = "button" /\ ext[q.device].status # "ENDED"
  <2>1. /\ Works(q.device, [work[q.device] EXCEPT !.button = "idle"])
        /\ Becomes(q.device, IF ok THEN [status |-> "AUTH_REQUIRED", pending |-> TRUE, asked |-> FALSE,
                                         lease |-> 0, error |-> "none", reloaded |-> TRUE]
                             ELSE [ext[q.device] EXCEPT !.error = "UNAVAILABLE"])
        /\ page' = IF ok /\ page[q.device] # "portal"
                   THEN [page EXCEPT ![q.device] = "login"] ELSE page
        BY <1>5 DEF Noticed
  <2>2. [ext[q.device] EXCEPT !.error = "UNAVAILABLE"] \in Stored
        BY <1>1, LoginMoves DEF Errors
  <2>3. (IF ok THEN [status |-> "AUTH_REQUIRED", pending |-> TRUE, asked |-> FALSE,
                     lease |-> 0, error |-> "none", reloaded |-> TRUE]
         ELSE [ext[q.device] EXCEPT !.error = "UNAVAILABLE"]) \in Stored
        BY <2>2, StoredFresh
  <2>4. page' \in [Devices -> Pages]
        BY <2>1 DEF TypeOK, Pages
  <2> QED BY <1>1, <2>1, <2>3, <2>4, OthersMove, WorkUpdated, StoreUpdated DEF Held
<1>6. CASE q.from = "button" /\ ext[q.device].status = "ENDED"
  <2>1. /\ Works(q.device, [work[q.device] EXCEPT !.button = "idle"])
        /\ ext' = ext
        /\ page' = page
        BY <1>6 DEF Noticed
  <2>2. page' \in [Devices -> Pages]
        BY <2>1 DEF TypeOK
  <2> QED BY <1>1, <2>1, <2>2, OthersMove, WorkUpdated, SameHeld DEF Held
<1>7. CASE \/ q.from \notin {"login", "ready", "button"}
           \/ q.from = "ready" /\ work[q.device].ready \notin {"noticing", "restoring"}
      BY <1>7, SameHeld DEF Noticed, Held, TypeOK
<1> QED BY <1>2, <1>3, <1>4, <1>5, <1>6, <1>7

-----------------------------------------------------------------------------
(* What leaves the invariant alone.                                         *)

\* No lease is taken back.
RowsStay == \A d \in Devices, n \in Epochs : ~Unleased(d, n) => ~Unleased(d, n)'

\* No further lease request is answered next.
IssuesFollow ==
    /\ issues' \in SUBSET Issue
    /\ \A q \in issues' : /\ q.pc = "deliver" => \E p \in issues : SameLease(p, q)
                          /\ Numbered(q)
                          /\ q.secret <= credential.saves
    /\ OnePerLease(issues')

LEMMA IssuesStay ==
    ASSUME LeaseInv, issues' = issues
    PROVE  IssuesFollow
BY DEF LeaseInv, TypeOK, SubmissionInv, RejectionInv, IssuesFollow, SameLease, OnePerLease

LEMMA IssueGone ==
    ASSUME LeaseInv, NEW q \in issues, issues' = issues \ {q}
    PROVE  IssuesFollow
BY DEF LeaseInv, TypeOK, SubmissionInv, RejectionInv, IssuesFollow, SameLease, OnePerLease

LEMMA IssueMoves ==
    ASSUME LeaseInv, NEW q \in issues, NEW z \in Issue, issues' = (issues \ {q}) \cup {z},
           z.pc # "deliver", Numbered(z), z.secret <= credential.saves
    PROVE  IssuesFollow
BY DEF LeaseInv, TypeOK, SubmissionInv, RejectionInv, IssuesFollow, SameLease, OnePerLease

LEMMA IssueAsked ==
    ASSUME LeaseInv, NEW z \in Issue, issues' = issues \cup {z},
           z.pc # "deliver", Numbered(z), z.secret <= credential.saves
    PROVE  IssuesFollow
BY DEF LeaseInv, TypeOK, SubmissionInv, RejectionInv, IssuesFollow, SameLease, OnePerLease

\* A request that nobody waits for any more.
LEMMA NobodyWaits ==
    ASSUME NEW q \in Issue
    PROVE  /\ [q EXCEPT !.from = "nobody"] \in Issue
           /\ [q EXCEPT !.from = "nobody"].device = q.device
           /\ [q EXCEPT !.from = "nobody"].pc = q.pc
           /\ [q EXCEPT !.from = "nobody"].epoch = q.epoch
           /\ [q EXCEPT !.from = "nobody"].secret = q.secret
BY DEF Issue, Senders

LEMMA IssueOrphaned ==
    ASSUME LeaseInv, NEW q \in issues, issues' = Orphaned(issues, q)
    PROVE  IssuesFollow
<1> DEFINE z == [q EXCEPT !.from = "nobody"]
<1>1. q \in Issue /\ issues \in SUBSET Issue /\ OnePerLease(issues)
      BY DEF LeaseInv, TypeOK, SubmissionInv
<1>2. /\ z \in Issue
      /\ z.device = q.device
      /\ z.pc = q.pc
      /\ z.epoch = q.epoch
      /\ z.secret = q.secret
      BY <1>1, NobodyWaits
<1>3. issues' = (issues \ {q}) \cup {z}
      BY DEF Orphaned
<1> HIDE DEF z
<1>4. OnePerLease(issues')
      BY <1>1, <1>2, <1>3 DEF OnePerLease, SameLease
<1>5. \A p \in issues' : p.pc = "deliver" => \E o \in issues : SameLease(o, p)
      BY <1>2, <1>3 DEF SameLease
<1>6. \A p \in issues' : Numbered(p) /\ p.secret <= credential.saves
      BY <1>2, <1>3 DEF LeaseInv, SubmissionInv, RejectionInv, Numbered
<1> QED BY <1>1, <1>2, <1>3, <1>4, <1>5, <1>6 DEF IssuesFollow

LEMMA IssuesOrphaned ==
    ASSUME LeaseInv, NEW d \in Devices, issues' = OrphanedOf(issues, d)
    PROVE  IssuesFollow
<1>1. issues \in SUBSET Issue /\ OnePerLease(issues)
      BY DEF LeaseInv, TypeOK, SubmissionInv
<1>2. \A z \in issues' :
         \/ z \in issues /\ z.device # d
         \/ \E q \in issues : /\ q.device = d
                              /\ z = [q EXCEPT !.from = "nobody"]
                              /\ z \in Issue
                              /\ z.device = q.device
                              /\ z.pc = q.pc
                              /\ z.epoch = q.epoch
                              /\ z.secret = q.secret
  <2> SUFFICES ASSUME NEW z \in issues', ~(z \in issues /\ z.device # d)
               PROVE  \E q \in issues : /\ q.device = d
                                        /\ z = [q EXCEPT !.from = "nobody"]
                                        /\ z \in Issue
                                        /\ z.device = q.device
                                        /\ z.pc = q.pc
                                        /\ z.epoch = q.epoch
                                        /\ z.secret = q.secret
      OBVIOUS
  <2>1. PICK q \in issues : q.device = d /\ z = [q EXCEPT !.from = "nobody"]
        BY Zenon DEF OrphanedOf
  <2> QED BY <1>1, <2>1, NobodyWaits
<1>3. ASSUME NEW p \in issues', NEW q \in issues', SameLease(p, q) PROVE p = q
  <2>1. p.device = q.device /\ p.pc = "deliver" /\ q.pc = "deliver" /\ p.epoch = q.epoch
        BY <1>3 DEF SameLease
  <2>2. CASE p \in issues /\ p.device # d
    <3>1. q \in issues
          BY <1>2, <2>1, <2>2
    <3> QED BY <1>1, <1>3, <2>2, <3>1 DEF OnePerLease
  <2>3. CASE p.device = d
    <3>1. PICK o \in issues : /\ p = [o EXCEPT !.from = "nobody"]
                              /\ p.device = o.device
                              /\ p.pc = o.pc
                              /\ p.epoch = o.epoch
          BY <1>2, <2>3
    <3>2. PICK r \in issues : /\ q = [r EXCEPT !.from = "nobody"]
                              /\ q.device = r.device
                              /\ q.pc = r.pc
                              /\ q.epoch = r.epoch
          BY <1>2, <2>1, <2>3
    <3>3. SameLease(o, r)
          BY <2>1, <3>1, <3>2 DEF SameLease
    <3>4. o = r
          BY <1>1, <3>3 DEF OnePerLease
    <3> QED BY <3>1, <3>2, <3>4
  <2> QED BY <1>2, <2>2, <2>3
<1>4. \A p \in issues' : /\ p \in Issue
                         /\ p.pc = "deliver" => \E o \in issues : SameLease(o, p)
                         /\ Numbered(p)
                         /\ p.secret <= credential.saves
      BY <1>1, <1>2 DEF LeaseInv, SubmissionInv, RejectionInv, SameLease, Numbered
<1> QED BY <1>3, <1>4 DEF IssuesFollow, OnePerLease

LEMMA NothingTyped ==
    ASSUME LeaseInv, submitted' = submitted, NoneBegins, RowsStay, IssuesFollow
    PROVE  SubmissionInv'
<1>1. SubmissionInv /\ submitted \in [Devices -> [Epochs -> Nat]]
      BY DEF LeaseInv, TypeOK
<1>2. ASSUME NEW q \in issues', q.pc = "deliver" PROVE Answerable(q)'
  <2>1. PICK p \in issues : SameLease(p, q)
        BY <1>2 DEF IssuesFollow
  <2>2. p.epoch \in Epochs /\ p.device \in Devices /\ p.device = q.device /\ p.epoch = q.epoch
        BY <1>1, <2>1 DEF SubmissionInv, Numbered, SameLease, LeaseInv, TypeOK, Issue
  <2>3. ~Unleased(p.device, p.epoch) /\ submitted[p.device][p.epoch] = 0
        BY <1>1, <2>1 DEF SubmissionInv, Answerable, SameLease
  <2>4. ~Unleased(p.device, p.epoch)'
        BY <2>2, <2>3 DEF RowsStay
  <2> QED BY <2>2, <2>3, <2>4 DEF Answerable, Unleased
<1>3. \A q \in issues' : Answerable(q)' /\ Numbered(q)'
      BY <1>2 DEF Answerable, IssuesFollow, Numbered
<1>4. ASSUME NEW d \in Devices, work'[d].login = "submitting" PROVE Typing(d)'
  <2>1. work[d].login = "submitting" /\ work'[d].lease = work[d].lease
        BY <1>4 DEF NoneBegins
  <2>2. /\ work[d].lease \in Epochs
        /\ ~Unleased(d, work[d].lease)
        /\ submitted[d][work[d].lease] = 0
        /\ \A q \in issues : ~(q.pc = "deliver" /\ q.device = d /\ q.epoch = work[d].lease)
        BY <1>1, <2>1 DEF SubmissionInv, Typing
  <2>3. \A q \in issues' : ~(q.pc = "deliver" /\ q.device = d /\ q.epoch = work[d].lease)
        BY <2>2 DEF IssuesFollow, SameLease
  <2>4. PICK n \in Epochs : n = work[d].lease
        BY <2>2
  <2>5. ~Unleased(d, n)'
        BY <2>2, <2>4 DEF RowsStay
  <2> QED BY <2>1, <2>2, <2>3, <2>4, <2>5 DEF Typing, Unleased
<1>5. \A d \in Devices : Typing(d)'
      BY <1>4 DEF Typing
<1>6. \A d \in Devices, n \in Epochs : TypedOnce(d, n)'
      BY <1>1 DEF SubmissionInv, TypedOnce, RowsStay
<1>7. OnePerLease(issues')
      BY DEF IssuesFollow
<1> QED BY <1>3, <1>5, <1>6, <1>7 DEF SubmissionInv

\* Rejected passwords, spelled out.
LEMMA RejectedOnes ==
    \A s : s \in RejectedSecrets <=>
        \E d \in Devices, n \in Epochs : lease[d][n].outcome = "REJECTED" /\ lease[d][n].secret = s
<1>1. ASSUME NEW s, s \in RejectedSecrets
      PROVE  \E d \in Devices, n \in Epochs : lease[d][n].outcome = "REJECTED" /\ lease[d][n].secret = s
      BY <1>1 DEF RejectedSecrets
<1>2. ASSUME NEW d \in Devices, NEW n \in Epochs, lease[d][n].outcome = "REJECTED"
      PROVE  lease[d][n].secret \in RejectedSecrets
  <2>1. <<d, n>> \in {y \in Devices \X Epochs : lease[y[1]][y[2]].outcome = "REJECTED"}
        BY <1>2
  <2>2. lease[<<d, n>>[1]][<<d, n>>[2]].secret = lease[d][n].secret
        OBVIOUS
  <2> QED BY <2>1, <2>2 DEF RejectedSecrets
<1> QED BY <1>1, <1>2

LEMMA NothingRejected ==
    ASSUME LeaseInv, credential' = credential, IssuesFollow,
           \A d \in Devices, n \in Epochs :
               /\ lease'[d][n].secret = lease[d][n].secret
               /\ lease'[d][n].outcome = lease[d][n].outcome
    PROVE  RejectionInv'
<1>1. RejectedSecrets' = RejectedSecrets
      BY DEF RejectedSecrets
<1> QED BY <1>1 DEF LeaseInv, RejectionInv, IssuesFollow

\* The rows of the server are as they were.
LEMMA SameRows ==
    ASSUME LeaseInv, lease' = lease
    PROVE  /\ RowsStay
           /\ \A d \in Devices, n \in Epochs :
                  /\ lease'[d][n].secret = lease[d][n].secret
                  /\ lease'[d][n].outcome = lease[d][n].outcome
           /\ lease' \in [Devices -> [Epochs -> Lease]]
BY DEF LeaseInv, TypeOK, RowsStay, Unleased

-----------------------------------------------------------------------------
(* The agent's settings, and the run.                                       *)

\* Nothing of requests, leases and extension is touched.
LEMMA SettingsOnly ==
    ASSUME LeaseInv, UNCHANGED <<lease, issues, work, submitted>>
    PROVE  SubmissionInv' /\ IssuesFollow
BY IssuesStay, SameRows, SameHeld, NothingTyped DEF LeaseInv

LEMMA SaveKeeps ==
    ASSUME LeaseInv, Save
    PROVE  LeaseInv'
<1>1. UNCHANGED <<run, lease, issues, results, notices, ext, work, page, asks, faults, submitted>>
      BY DEF Save
<1>2. /\ credential.saves \in Nat
      /\ credential.saves < MaxSecrets
      /\ credential' = [secret |-> credential.saves + 1, saves |-> credential.saves + 1,
                        auto |-> TRUE, status |-> "UNTESTED"]
      BY LeaseBoundAssumption DEF LeaseInv, TypeOK, Save, Secrets
<1>3. credential' \in [secret : Secrets, saves : Secrets, auto : BOOLEAN, status : Statuses]
      BY <1>2, LeaseBoundAssumption DEF Secrets, Statuses
<1>4. TypeOK'
      BY <1>1, <1>3 DEF LeaseInv, TypeOK
<1>5. /\ credential'.secret = credential.saves + 1
      /\ credential'.saves = credential.saves + 1
      BY <1>2
<1>6. /\ \A q \in issues : q.secret \in Nat /\ q.secret <= credential.saves
      /\ \A d \in Devices, n \in Epochs :
            lease[d][n].secret \in Nat /\ lease[d][n].secret <= credential.saves
      BY LeaseBoundAssumption
      DEF LeaseInv, RejectionInv, TypeOK, Issue, Lease, Secrets
<1>7. RejectedSecrets' = RejectedSecrets
      BY <1>1 DEF RejectedSecrets
<1>8. credential'.secret \notin RejectedSecrets'
      BY <1>2, <1>5, <1>6, <1>7, RejectedOnes
<1>9. RejectionInv'
      BY <1>1, <1>2, <1>5, <1>6, <1>8 DEF RejectionInv
<1>10. SubmissionInv'
      BY <1>1, SettingsOnly
<1> QED BY <1>4, <1>9, <1>10 DEF LeaseInv

LEMMA RevokeKeeps ==
    ASSUME LeaseInv, Revoke
    PROVE  LeaseInv'
<1>1. UNCHANGED <<run, lease, issues, results, notices, ext, work, page, asks, faults, submitted>>
      BY DEF Revoke
<1>2. /\ credential \in [secret : Secrets, saves : Secrets, auto : BOOLEAN, status : Statuses]
      /\ credential' = [credential EXCEPT !.secret = NoSecret, !.auto = FALSE, !.status = "REVOKED"]
      BY DEF LeaseInv, TypeOK, Revoke
<1>3. credential' \in [secret : Secrets, saves : Secrets, auto : BOOLEAN, status : Statuses]
  <2>1. NoSecret \in Secrets /\ "REVOKED" \in Statuses
        BY LeaseBoundAssumption DEF Secrets, Statuses, NoSecret
  <2> QED BY <1>2, <2>1
<1>4. TypeOK'
      BY <1>1, <1>3 DEF LeaseInv, TypeOK
<1>5. credential'.secret = NoSecret /\ credential'.saves = credential.saves
      BY <1>2
<1>6. credential.saves \in Nat
      BY <1>2, LeaseBoundAssumption DEF Secrets
<1>7. RejectionInv'
      BY <1>1, <1>5, <1>6 DEF LeaseInv, RejectionInv, NoSecret
<1>8. SubmissionInv'
      BY <1>1, SettingsOnly
<1> QED BY <1>4, <1>7, <1>8 DEF LeaseInv

\* Rows and credential are as they were, and so are requests.
LEMMA RowsOnly ==
    ASSUME LeaseInv, UNCHANGED <<credential, lease, issues, work, submitted>>
    PROVE  SubmissionInv' /\ RejectionInv'
BY SettingsOnly, SameRows, NothingRejected

LEMMA DropRunKeeps ==
    ASSUME LeaseInv, NEW d \in Devices, DropRun(d)
    PROVE  LeaseInv'
<1> DEFINE e == [ext[d] EXCEPT !.status = "ENDED", !.pending = FALSE, !.asked = FALSE,
                               !.lease = 0, !.error = "none", !.reloaded = FALSE]
<1>1. UNCHANGED <<credential, run, lease, issues, results, notices, work, page, asks, faults, submitted>>
      BY DEF DropRun, serverVars
<1>2. ext[d] \in Stored
      BY DEF LeaseInv, TypeOK
<1>3. e \in Stored /\ Becomes(d, e)
  <2>1. 0 \in 0..MaxEpoch /\ "none" \in Errors
        BY LeaseBoundAssumption DEF Errors
  <2>2. e \in Stored
        BY <1>2, <2>1 DEF Stored
  <2> QED BY <2>2 DEF DropRun
<1>4. ext' \in [Devices -> Stored]
      BY <1>3, StoreUpdated DEF LeaseInv
<1>5. TypeOK'
      BY <1>1, <1>4 DEF LeaseInv, TypeOK
<1> QED BY <1>1, <1>5, RowsOnly DEF LeaseInv

LEMMA RunEndsKeeps ==
    ASSUME LeaseInv, NEW d \in Devices, RunEnds(d)
    PROVE  LeaseInv'
<1>1. /\ UNCHANGED <<credential, lease, issues, results, notices, ext, work, page, asks, faults, submitted>>
      /\ run' = [run EXCEPT ![d].active = FALSE]
      BY DEF RunEnds
<1>2. run' \in [Devices -> [active : BOOLEAN, auth : AuthStates, epoch : 0..MaxEpoch]]
      BY <1>1 DEF LeaseInv, TypeOK
<1>3. TypeOK'
      BY <1>1, <1>2 DEF LeaseInv, TypeOK
<1> QED BY <1>1, <1>3, RowsOnly DEF LeaseInv

-----------------------------------------------------------------------------
(* Issuing a lease.                                                         *)

\* A request that is refused: nothing is typed and nothing changes at the server.
LEMMA RefuseHolds ==
    ASSUME LeaseInv, NEW q \in issues, Refuse(q)
    PROVE  Held /\ IssuesFollow
BY IssueGone, UnansweredHolds DEF Refuse, LeaseInv, TypeOK

LEMMA RefusedKeeps ==
    ASSUME LeaseInv, NEW q \in issues, Refuse(q), faults' \in 0..MaxFaults,
           UNCHANGED <<serverVars, results, notices, page, asks, submitted>>
    PROVE  LeaseInv'
<1>1. Held /\ IssuesFollow
      BY RefuseHolds
<1>2. UNCHANGED <<credential, run, lease, results, notices, page, asks, submitted>>
      BY DEF serverVars
<1>3. TypeOK'
      BY <1>1, <1>2 DEF LeaseInv, TypeOK, Held, IssuesFollow
<1>4. SubmissionInv' /\ RejectionInv'
      BY <1>1, <1>2, SameRows, NothingTyped, NothingRejected DEF Held
<1> QED BY <1>3, <1>4 DEF LeaseInv

LEMMA LoadIssueContextKeeps ==
    ASSUME LeaseInv, NEW q \in issues, LoadIssueContext(q)
    PROVE  LeaseInv'
<1>1. /\ UNCHANGED <<credential, run, lease, results, notices, page, asks, faults, submitted>>
      /\ q \in Issue
      /\ q.pc = "load"
      BY DEF LoadIssueContext, serverVars, LeaseInv, TypeOK
<1>2. CASE Leasable /\ Waits(q.device) /\ Unleased(q.device, run[q.device].epoch)
  <2> DEFINE z == [q EXCEPT !.pc = "reserve", !.epoch = run[q.device].epoch,
                            !.secret = credential.secret]
  <2>1. issues' = (issues \ {q}) \cup {z} /\ UNCHANGED <<work, ext>>
        BY <1>2 DEF LoadIssueContext
  <2>2. /\ q.device \in Devices
        /\ run[q.device].epoch \in 0..MaxEpoch
        /\ run[q.device].epoch \in Epochs
        /\ credential.secret \in Secrets
        /\ credential.secret <= credential.saves
        BY <1>1, <1>2, LeaseBoundAssumption
        DEF LeaseInv, TypeOK, RejectionInv, Issue, Waits, Epochs
  <2>3. z \in Issue
        BY <1>1, <2>2 DEF Issue
  <2>4. z.pc = "reserve" /\ z.epoch = run[q.device].epoch /\ z.secret = credential.secret
        BY <1>1 DEF Issue
  <2> HIDE DEF z
  <2>5. IssuesFollow
        BY <2>1, <2>2, <2>3, <2>4, IssueMoves DEF Numbered
  <2>6. Held
        BY <2>1, SameHeld DEF Held, LeaseInv
  <2>7. TypeOK'
        BY <1>1, <2>5, <2>6 DEF LeaseInv, TypeOK, Held, IssuesFollow
  <2>8. SubmissionInv' /\ RejectionInv'
        BY <1>1, <2>5, <2>6, SameRows, NothingTyped, NothingRejected DEF Held
  <2> QED BY <2>7, <2>8 DEF LeaseInv
<1>3. CASE ~(Leasable /\ Waits(q.device) /\ Unleased(q.device, run[q.device].epoch))
  <2>1. Refuse(q)
        BY <1>3 DEF LoadIssueContext
  <2>2. faults' \in 0..MaxFaults
        BY <1>1 DEF LeaseInv, TypeOK
  <2> QED BY <1>1, <2>1, <2>2, RefusedKeeps DEF serverVars
<1> QED BY <1>2, <1>3

LEMMA LimitReachedKeeps ==
    ASSUME LeaseInv, NEW q \in issues, LimitReached(q)
    PROVE  LeaseInv'
BY RefusedKeeps DEF LimitReached, LeaseInv, TypeOK

LEMMA ReserveLeaseKeeps ==
    ASSUME LeaseInv, NEW q \in issues, ReserveLease(q)
    PROVE  LeaseInv'
<1>1. /\ UNCHANGED <<credential, run, results, notices, page, asks, faults, submitted>>
      /\ q \in Issue
      /\ q.pc = "reserve"
      /\ q.device \in Devices
      /\ q.epoch \in Epochs
      /\ q.secret \in Secrets
      /\ q.secret <= credential.saves
      BY DEF ReserveLease, LeaseInv, TypeOK, SubmissionInv, RejectionInv, Numbered, Issue
<1>2. CASE ~(StillOpen(q) /\ Unleased(q.device, q.epoch))
  <2>1. Refuse(q) /\ lease' = lease
        BY <1>2 DEF ReserveLease
  <2>2. faults' \in 0..MaxFaults
        BY <1>1 DEF LeaseInv, TypeOK
  <2> QED BY <1>1, <2>1, <2>2, RefusedKeeps DEF serverVars
<1>3. CASE StillOpen(q) /\ Unleased(q.device, q.epoch)
  <2> DEFINE row == [status |-> "ISSUED", outcome |-> "NONE", secret |-> q.secret]
             z == [q EXCEPT !.pc = "deliver"]
  <2>1. /\ lease' = [lease EXCEPT ![q.device][q.epoch] = row]
        /\ issues' = (issues \ {q}) \cup {z}
        /\ UNCHANGED <<work, ext>>
        BY <1>3 DEF ReserveLease
  <2>2. row \in Lease /\ row.status = "ISSUED" /\ row.outcome = "NONE" /\ row.secret = q.secret
        BY <1>1 DEF Lease
  <2>3. /\ z \in Issue
        /\ z.pc = "deliver"
        /\ z.device = q.device
        /\ z.epoch = q.epoch
        /\ z.secret = q.secret
        BY <1>1 DEF Issue
  <2> HIDE DEF row, z
  <2>4. /\ lease' \in [Devices -> [Epochs -> Lease]]
        /\ lease'[q.device][q.epoch] = row
        /\ \A d \in Devices, n \in Epochs :
              (d # q.device \/ n # q.epoch) => lease'[d][n] = lease[d][n]
        BY <1>1, <2>1, <2>2 DEF LeaseInv, TypeOK
  <2>5. TypeOK'
        BY <1>1, <2>1, <2>3, <2>4 DEF LeaseInv, TypeOK
  <2>6. /\ submitted[q.device][q.epoch] = 0
        /\ \A p \in issues : ~(p.pc = "deliver" /\ p.device = q.device /\ p.epoch = q.epoch)
        /\ \A d \in Devices : work[d].login = "submitting"
                               => ~(d = q.device /\ work[d].lease = q.epoch)
        BY <1>1, <1>3 DEF LeaseInv, SubmissionInv, Answerable, Typing, TypedOnce
  <2>7. RowsStay
        BY <2>2, <2>4 DEF RowsStay, Unleased
  <2>8. \A p \in issues' : Answerable(p)' /\ Numbered(p)
    <3>1. ASSUME NEW p \in issues, p.pc = "deliver" PROVE Answerable(p)'
      <4>1. p.device \in Devices /\ p.epoch \in Epochs
            BY <3>1 DEF LeaseInv, TypeOK, SubmissionInv, Numbered, Issue
      <4>2. ~Unleased(p.device, p.epoch) /\ submitted[p.device][p.epoch] = 0
            BY <3>1 DEF LeaseInv, SubmissionInv, Answerable
      <4>3. ~Unleased(p.device, p.epoch)'
            BY <4>1, <4>2, <2>7 DEF RowsStay
      <4> QED BY <1>1, <4>2, <4>3 DEF Answerable
    <3>2. \A p \in issues : Answerable(p)' /\ Numbered(p)
          BY <3>1 DEF Answerable, LeaseInv, SubmissionInv
    <3>3. Answerable(z)' /\ Numbered(z)
          BY <1>1, <2>2, <2>3, <2>4, <2>6 DEF Answerable, Numbered, Unleased
    <3> QED BY <2>1, <3>2, <3>3
  <2>9. OnePerLease(issues')
        BY <2>1, <2>3, <2>6 DEF LeaseInv, SubmissionInv, OnePerLease, SameLease
  <2>10. ASSUME NEW d \in Devices PROVE Typing(d)'
    <3>1. CASE work[d].login = "submitting"
      <4>1. /\ work[d].lease \in Epochs
            /\ ~Unleased(d, work[d].lease)
            /\ submitted[d][work[d].lease] = 0
            /\ \A p \in issues : ~(p.pc = "deliver" /\ p.device = d /\ p.epoch = work[d].lease)
            /\ ~(d = q.device /\ work[d].lease = q.epoch)
            BY <3>1, <2>6 DEF LeaseInv, SubmissionInv, Typing
      <4>2. PICK n \in Epochs : n = work[d].lease
            BY <4>1
      <4>3. ~Unleased(d, n)'
            BY <4>1, <4>2, <2>7 DEF RowsStay
      <4>4. \A p \in issues' : ~(p.pc = "deliver" /\ p.device = d /\ p.epoch = work[d].lease)
            BY <2>1, <2>3, <4>1
      <4> QED BY <1>1, <2>1, <4>1, <4>2, <4>3, <4>4 DEF Typing, Unleased
    <3>2. CASE work[d].login # "submitting"
          BY <2>1, <3>2 DEF Typing
    <3> QED BY <3>1, <3>2
  <2>11. \A d \in Devices, n \in Epochs : TypedOnce(d, n)'
        BY <1>1, <2>7 DEF LeaseInv, SubmissionInv, TypedOnce, RowsStay
  <2>12. SubmissionInv'
        BY <2>8, <2>9, <2>10, <2>11 DEF SubmissionInv, Numbered
  <2>13. \A s : s \in RejectedSecrets' => s \in RejectedSecrets
    <3>1. \A s : s \in RejectedSecrets' =>
              \E d \in Devices, n \in Epochs : lease'[d][n].outcome = "REJECTED" /\ lease'[d][n].secret = s
          BY RejectedOnes DEF RejectedSecrets
    <3> QED BY <2>2, <2>4, <3>1, RejectedOnes
  <2>14. RejectionInv'
        BY <1>1, <2>1, <2>2, <2>3, <2>4, <2>13 DEF LeaseInv, RejectionInv
  <2> QED BY <2>5, <2>12, <2>14 DEF LeaseInv
<1> QED BY <1>2, <1>3

LEMMA DeliverKeeps ==
    ASSUME LeaseInv, NEW q \in issues, Deliver(q)
    PROVE  LeaseInv'
<1>1. /\ UNCHANGED <<credential, run, lease, results, notices, page, asks, faults, submitted>>
      /\ q \in Issue
      /\ q.pc = "deliver"
      /\ q.device \in Devices
      /\ q.epoch \in Epochs
      /\ issues' = issues \ {q}
      BY DEF Deliver, serverVars, LeaseInv, TypeOK, SubmissionInv, Numbered, Issue
<1>2. IssuesFollow
      BY <1>1, IssueGone
<1>3. CASE q.from # "login"
  <2>1. UNCHANGED <<work, ext>>
        BY <1>3 DEF Deliver
  <2>2. Held
        BY <2>1, SameHeld DEF Held, LeaseInv
  <2>3. TypeOK'
        BY <1>1, <1>2, <2>2 DEF LeaseInv, TypeOK, Held, IssuesFollow
  <2> QED BY <1>1, <1>2, <2>2, <2>3, SameRows, NothingTyped, NothingRejected DEF Held, LeaseInv
<1>4. CASE q.from = "login"
  <2> DEFINE w == [work[q.device] EXCEPT !.login = "submitting", !.lease = q.epoch]
             e == [ext[q.device] EXCEPT !.asked = TRUE, !.lease = q.epoch, !.error = "IN_PROGRESS"]
  <2>1. Works(q.device, w) /\ Becomes(q.device, e)
        BY <1>4 DEF Deliver
  <2>2. /\ work[q.device] \in Work
        /\ ext[q.device] \in Stored
        /\ q.epoch \in 0..MaxEpoch
        BY <1>1 DEF LeaseInv, TypeOK, Issue
  <2>3. w \in Work /\ w.login = "submitting" /\ w.lease = q.epoch
        BY <2>2 DEF Work
  <2>4. e \in Stored
        BY <2>2 DEF Stored, Errors
  <2> HIDE DEF w, e
  <2>5. /\ work' \in [Devices -> Work]
        /\ work'[q.device] = w
        /\ \A d \in Devices \ {q.device} : work'[d] = work[d]
        BY <1>1, <2>1, <2>3 DEF Works, LeaseInv, TypeOK
  <2>6. ext' \in [Devices -> Stored]
        BY <1>1, <2>1, <2>4, StoreUpdated DEF LeaseInv
  <2>7. TypeOK'
        BY <1>1, <1>2, <2>5, <2>6 DEF LeaseInv, TypeOK, IssuesFollow
  <2>8. \A p \in issues' : ~(p.pc = "deliver" /\ p.device = q.device /\ p.epoch = q.epoch)
        BY <1>1 DEF LeaseInv, SubmissionInv, OnePerLease, SameLease
  <2>9. ~Unleased(q.device, q.epoch) /\ submitted[q.device][q.epoch] = 0
        BY <1>1 DEF LeaseInv, SubmissionInv, Answerable
  <2>10. Typing(q.device)'
        BY <1>1, <2>3, <2>5, <2>8, <2>9 DEF Typing, Unleased
  <2>11. \A d \in Devices \ {q.device} : Typing(d)'
        BY <1>1, <2>5 DEF LeaseInv, SubmissionInv, Typing, Unleased
  <2>12. \A p \in issues' : Answerable(p)' /\ Numbered(p)'
        BY <1>1 DEF LeaseInv, SubmissionInv, Answerable, Numbered, Unleased
  <2>13. \A d \in Devices, n \in Epochs : TypedOnce(d, n)'
        BY <1>1 DEF LeaseInv, SubmissionInv, TypedOnce, Unleased
  <2>14. SubmissionInv'
        BY <1>2, <2>10, <2>11, <2>12, <2>13 DEF SubmissionInv, IssuesFollow
  <2>15. RejectionInv'
        BY <1>1, <1>2, SameRows, NothingRejected
  <2> QED BY <2>7, <2>14, <2>15 DEF LeaseInv
<1> QED BY <1>3, <1>4

LEMMA DeliveryFailsKeeps ==
    ASSUME LeaseInv, NEW q \in issues, DeliveryFails(q)
    PROVE  LeaseInv'
<1>1. /\ UNCHANGED <<credential, run, results, notices, page, asks, faults, submitted>>
      /\ q.pc = "deliver"
      /\ q.device \in Devices
      /\ q.epoch \in Epochs
      /\ Refuse(q)
      BY DEF DeliveryFails, LeaseInv, TypeOK, SubmissionInv, Numbered, Issue
<1>2. Held /\ IssuesFollow
      BY <1>1, RefuseHolds
<1>3. lease \in [Devices -> [Epochs -> Lease]]
      BY DEF LeaseInv, TypeOK
<1> DEFINE old == lease[q.device][q.epoch]
           row == IF old.status = "ISSUED" THEN [old EXCEPT !.status = "FAILED"] ELSE old
<1>4. lease' = [lease EXCEPT ![q.device][q.epoch] = row]
      BY DEF DeliveryFails
<1>5. old \in Lease
      BY <1>1, <1>3
<1>6. /\ row \in Lease
      /\ row.status # "NONE" \/ row.status = old.status
      /\ row.secret = old.secret
      /\ row.outcome = old.outcome
      BY <1>5 DEF Lease
<1> HIDE DEF row
<1>7. /\ lease' \in [Devices -> [Epochs -> Lease]]
      /\ lease'[q.device][q.epoch] = row
      /\ \A d \in Devices, n \in Epochs :
            (d # q.device \/ n # q.epoch) => lease'[d][n] = lease[d][n]
      BY <1>1, <1>3, <1>4, <1>6
<1>8. RowsStay
      BY <1>6, <1>7 DEF RowsStay, Unleased
<1>9. \A d \in Devices, n \in Epochs :
          lease'[d][n].secret = lease[d][n].secret /\ lease'[d][n].outcome = lease[d][n].outcome
      BY <1>6, <1>7
<1>10. TypeOK'
      BY <1>1, <1>2, <1>7 DEF LeaseInv, TypeOK, Held, IssuesFollow
<1> QED BY <1>1, <1>2, <1>8, <1>9, <1>10, NothingTyped, NothingRejected DEF Held, LeaseInv

-----------------------------------------------------------------------------
(* Outcomes and authentication states.                                      *)

LEMMA TriedHolds ==
    ASSUME LeaseInv, NEW outcome \in Outcomes
    PROVE  /\ Tried(outcome) \in [secret : Secrets, saves : Secrets, auto : BOOLEAN, status : Statuses]
           /\ Tried(outcome).secret = credential.secret
           /\ Tried(outcome).saves = credential.saves
           /\ Tried(outcome).auto => credential.auto /\ outcome # "REJECTED"
<1>1. credential \in [secret : Secrets, saves : Secrets, auto : BOOLEAN, status : Statuses]
      BY DEF LeaseInv, TypeOK
<1>2. CASE outcome = "AUTHENTICATED"
      BY <1>1, <1>2 DEF Tried, Statuses
<1>3. CASE outcome = "REJECTED"
      BY <1>1, <1>3 DEF Tried, Statuses
<1>4. CASE outcome \notin {"AUTHENTICATED", "REJECTED"}
      BY <1>1, <1>4 DEF Tried
<1> QED BY <1>2, <1>3, <1>4

LEMMA CommitOutcomeKeeps ==
    ASSUME LeaseInv, NEW r \in results, CommitOutcome(r)
    PROVE  LeaseInv'
<1>1. /\ UNCHANGED <<run, issues, page, asks, faults, submitted>>
      /\ r \in Result
      /\ r.device \in Devices
      /\ r.lease \in Epochs
      /\ r.outcome \in Outcomes
      /\ results' = results \ {r}
      BY DEF CommitOutcome, LeaseInv, TypeOK, Result
<1> DEFINE open == lease[r.device][r.lease].status = "ISSUED"
<1>2. Reported(r, open)
      BY DEF CommitOutcome
<1>3. Held /\ notices' \in SUBSET Notice
      BY <1>1, <1>2, ReportedHolds DEF LeaseInv
<1>4. IssuesFollow
      BY <1>1, IssuesStay
<1>5. results' \in SUBSET Result
      BY <1>1 DEF LeaseInv, TypeOK
<1>6. CASE ~open
  <2>1. UNCHANGED <<lease, credential>>
        BY <1>6 DEF CommitOutcome
  <2>2. TypeOK'
        BY <1>1, <1>3, <1>5, <2>1 DEF LeaseInv, TypeOK, Held
  <2> QED BY <1>1, <1>3, <1>4, <2>1, <2>2, SameRows, NothingTyped, NothingRejected DEF Held, LeaseInv
<1>7. CASE open
  <2> DEFINE row == [lease[r.device][r.lease] EXCEPT !.status = "COMPLETED", !.outcome = r.outcome]
  <2>1. /\ lease' = [lease EXCEPT ![r.device][r.lease] = row]
        /\ credential' = IF credential.secret = NoSecret THEN credential ELSE Tried(r.outcome)
        BY <1>7 DEF CommitOutcome
  <2>2. /\ lease \in [Devices -> [Epochs -> Lease]]
        /\ lease[r.device][r.lease] \in Lease
        BY <1>1 DEF LeaseInv, TypeOK
  <2>11. /\ row \in Lease
         /\ row.status = "COMPLETED"
         /\ row.outcome = r.outcome
         /\ row.secret = lease[r.device][r.lease].secret
        BY <1>1, <2>2 DEF Lease
  <2> HIDE DEF row
  <2>3. /\ lease' \in [Devices -> [Epochs -> Lease]]
        /\ lease'[r.device][r.lease].status = "COMPLETED"
        /\ lease'[r.device][r.lease].outcome = r.outcome
        /\ lease'[r.device][r.lease].secret = lease[r.device][r.lease].secret
        /\ \A d \in Devices, n \in Epochs :
              (d # r.device \/ n # r.lease) => lease'[d][n] = lease[d][n]
        BY <1>1, <2>1, <2>2, <2>11
  <2>4. /\ credential' \in [secret : Secrets, saves : Secrets, auto : BOOLEAN, status : Statuses]
        /\ credential'.secret = credential.secret
        /\ credential'.saves = credential.saves
        /\ credential'.secret # NoSecret /\ credential'.auto
           => credential.auto /\ r.outcome # "REJECTED"
        BY <1>1, <2>1, TriedHolds DEF LeaseInv, TypeOK
  <2>5. TypeOK'
        BY <1>1, <1>3, <1>5, <2>3, <2>4 DEF LeaseInv, TypeOK, Held
  <2>6. RowsStay
        BY <2>3 DEF RowsStay, Unleased
  <2>7. SubmissionInv'
        BY <1>1, <1>3, <1>4, <2>6, NothingTyped DEF Held
  <2>8. \A d \in Devices, n \in Epochs : lease'[d][n].secret = lease[d][n].secret
        BY <2>3
  <2>9. ASSUME credential'.secret # NoSecret, credential'.secret \in RejectedSecrets', credential'.auto
        PROVE  FALSE
    <3>1. PICK d \in Devices, n \in Epochs :
              lease'[d][n].outcome = "REJECTED" /\ lease'[d][n].secret = credential.secret
          BY <2>4, <2>9 DEF RejectedSecrets
    <3>2. credential.auto /\ r.outcome # "REJECTED"
          BY <2>4, <2>9
    <3>3. lease[d][n].outcome = "REJECTED" /\ lease[d][n].secret = credential.secret
          BY <2>3, <3>1, <3>2
    <3>4. credential.secret \in RejectedSecrets
          BY <3>3, RejectedOnes
    <3> QED BY <2>4, <2>9, <3>2, <3>4 DEF LeaseInv, RejectionInv
  <2>10. RejectionInv'
        BY <1>1, <2>4, <2>8, <2>9 DEF LeaseInv, RejectionInv
  <2> QED BY <2>5, <2>7, <2>10 DEF LeaseInv
<1> QED BY <1>6, <1>7

LEMMA ReadAuthStateKeeps ==
    ASSUME LeaseInv, NEW q \in notices, ReadAuthState(q)
    PROVE  LeaseInv'
<1>1. /\ UNCHANGED <<credential, run, lease, issues, results, asks, faults, submitted>>
      /\ q \in Notice
      /\ q.device \in Devices
      /\ run[q.device].auth \in AuthStates
      /\ run[q.device].epoch \in 0..MaxEpoch
      BY DEF ReadAuthState, serverVars, LeaseInv, TypeOK, Notice
<1>2. /\ notices' \in SUBSET Notice
      /\ Held
      /\ page' \in [Devices -> Pages]
  <2>1. CASE run[q.device].active
    <3> DEFINE z == [q EXCEPT !.pc = "write", !.auth = run[q.device].auth,
                              !.epoch = run[q.device].epoch]
    <3>1. notices' = (notices \ {q}) \cup {z} /\ UNCHANGED <<ext, work, page>>
          BY <2>1 DEF ReadAuthState
    <3>2. z \in Notice
          BY <1>1 DEF Notice
    <3> QED BY <3>1, <3>2, SameHeld DEF LeaseInv, TypeOK, Held
  <2>2. CASE ~run[q.device].active
    <3>1. notices' = notices \ {q} /\ Noticed(q, FALSE)
          BY <2>2 DEF ReadAuthState
    <3> QED BY <1>1, <3>1, NoticedHolds DEF LeaseInv, TypeOK
  <2> QED BY <2>1, <2>2
<1>3. TypeOK'
      BY <1>1, <1>2 DEF LeaseInv, TypeOK, Held
<1>4. SubmissionInv' /\ RejectionInv'
      BY <1>1, <1>2, IssuesStay, SameRows, NothingTyped, NothingRejected DEF Held
<1> QED BY <1>3, <1>4 DEF LeaseInv

LEMMA WriteAuthStateKeeps ==
    ASSUME LeaseInv, NEW q \in notices, WriteAuthState(q)
    PROVE  LeaseInv'
<1>1. /\ UNCHANGED <<credential, lease, issues, results, asks, faults, submitted>>
      /\ q \in Notice
      /\ q.device \in Devices
      /\ q.says \in Says
      /\ q.epoch \in 0..MaxEpoch
      /\ notices' = notices \ {q}
      BY DEF WriteAuthState, LeaseInv, TypeOK, Notice
<1>2. Noticed(q, run[q.device].active) /\ run[q.device].active \in BOOLEAN
      BY <1>1 DEF WriteAuthState, LeaseInv, TypeOK
<1>3. Held /\ page' \in [Devices -> Pages]
      BY <1>1, <1>2, NoticedHolds DEF LeaseInv
<1> DEFINE auth == CASE q.says = "RETRY_REQUIRED" -> "REQUIRED"
                     [] q.says = "RESTORED" -> "READY"
                     [] OTHER -> q.says
           epoch == IF Opens(q) THEN q.epoch + 1 ELSE q.epoch
<1>4. auth \in AuthStates
      BY <1>1 DEF Says, AuthStates
<1>5. epoch \in 0..MaxEpoch
      BY <1>1, LeaseBoundAssumption DEF WriteAuthState
<1>6. run' = IF run[q.device].active
             THEN [run EXCEPT ![q.device].auth = auth, ![q.device].epoch = epoch] ELSE run
      BY DEF WriteAuthState
<1> HIDE DEF auth, epoch
<1>7. run' \in [Devices -> [active : BOOLEAN, auth : AuthStates, epoch : 0..MaxEpoch]]
      BY <1>1, <1>4, <1>5, <1>6, ZenonT(60) DEF LeaseInv, TypeOK
<1>8. TypeOK'
      BY <1>1, <1>3, <1>7 DEF LeaseInv, TypeOK, Held
<1>9. SubmissionInv' /\ RejectionInv'
      BY <1>1, <1>3, IssuesStay, SameRows, NothingTyped, NothingRejected DEF Held
<1> QED BY <1>8, <1>9 DEF LeaseInv

-----------------------------------------------------------------------------
(* The extension, the carrier and faults.                                   *)

\* A step that types nothing and leaves the server alone.
LEMMA ExtensionKeeps ==
    ASSUME LeaseInv, UNCHANGED <<serverVars, submitted>>, Held, IssuesFollow,
           results' \in SUBSET Result, notices' \in SUBSET Notice, page' \in [Devices -> Pages],
           asks' \in [Devices -> 0..MaxEpoch], faults' \in 0..MaxFaults
    PROVE  LeaseInv'
<1>1. UNCHANGED <<credential, run, lease, submitted>>
      BY DEF serverVars
<1>2. TypeOK'
      BY <1>1 DEF LeaseInv, TypeOK, Held, IssuesFollow
<1>3. SubmissionInv' /\ RejectionInv'
      BY <1>1, SameRows, NothingTyped, NothingRejected DEF Held
<1> QED BY <1>2, <1>3 DEF LeaseInv

\* What a step leaves alone keeps its type.
LEMMA Untouched ==
    ASSUME LeaseInv
    PROVE  /\ issues' = issues => IssuesFollow
           /\ results' = results => results' \in SUBSET Result
           /\ notices' = notices => notices' \in SUBSET Notice
           /\ page' = page => page' \in [Devices -> Pages]
           /\ asks' = asks => asks' \in [Devices -> 0..MaxEpoch]
           /\ faults' = faults => faults' \in 0..MaxFaults
           /\ UNCHANGED <<work, ext>> => Held
BY IssuesStay, SameHeld DEF LeaseInv, TypeOK, Held

LEMMA AskTyped ==
    ASSUME LeaseInv, NEW d \in Devices, AsksForEpisode(d)
    PROVE  asks' \in [Devices -> 0..MaxEpoch]
<1>1. asks \in [Devices -> 0..MaxEpoch] /\ MaxEpoch \in Nat
      BY LeaseBoundAssumption DEF LeaseInv, TypeOK
<1>2. asks[d] + 1 \in 0..MaxEpoch
      BY <1>1 DEF AsksForEpisode
<1> QED BY <1>1, <1>2 DEF AsksForEpisode

LEMMA RequireAuthenticationKeeps ==
    ASSUME LeaseInv, NEW d \in Devices, RequireAuthentication(d)
    PROVE  LeaseInv'
<1>1. /\ UNCHANGED <<serverVars, issues, results, page, faults, submitted>>
      /\ ext[d] \in Stored
      BY DEF RequireAuthentication, LeaseInv, TypeOK
<1>2. CASE ext[d].pending
  <2>1. Becomes(d, [ext[d] EXCEPT !.status = "AUTH_REQUIRED"]) /\ UNCHANGED <<work, notices, asks>>
        BY <1>2 DEF RequireAuthentication
  <2>2. [ext[d] EXCEPT !.status = "AUTH_REQUIRED"] \in Stored
        BY <1>1 DEF Stored
  <2>3. Held
        BY <2>1, <2>2, StoreUpdated, SameHeld DEF LeaseInv, Held
  <2> QED BY <1>1, <2>1, <2>3, Untouched, ExtensionKeeps
<1>3. CASE ~ext[d].pending
  <2> DEFINE e == [ext[d] EXCEPT !.status = "AUTH_REQUIRED", !.pending = TRUE,
                                 !.error = "none", !.reloaded = FALSE]
  <2>1. /\ AsksForEpisode(d)
        /\ Becomes(d, e)
        /\ Works(d, [work[d] EXCEPT !.ready = "noticing"])
        /\ Notify(d, "REQUIRED", "ready")
        BY <1>3 DEF RequireAuthentication
  <2>2. e \in Stored
        BY <1>1 DEF Stored, Errors
  <2> HIDE DEF e
  <2>3. Held
        BY <2>1, <2>2, OthersMove, WorkUpdated, StoreUpdated DEF LeaseInv, Held
  <2>4. notices' \in SUBSET Notice
        BY <2>1, NotifyTyped DEF LeaseInv, Says, Senders
  <2> QED BY <1>1, <2>1, <2>3, <2>4, AskTyped, Untouched, ExtensionKeeps
<1> QED BY <1>2, <1>3

LEMMA ProbeSessionKeeps ==
    ASSUME LeaseInv, NEW d \in Devices, ProbeSession(d)
    PROVE  LeaseInv'
<1>1. /\ UNCHANGED <<serverVars, issues, page, asks, faults, submitted>>
      /\ ext[d] \in Stored
      /\ ext[d].lease \in 0..MaxEpoch
      BY DEF ProbeSession, LeaseInv, TypeOK, Stored
<1>2. CASE ~ext[d].pending
  <2>1. /\ Becomes(d, [ext[d] EXCEPT !.status = "GO", !.error = "none"])
        /\ UNCHANGED <<work, results, notices>>
        BY <1>2 DEF ProbeSession
  <2>2. [ext[d] EXCEPT !.status = "GO", !.error = "none"] \in Stored
        BY <1>1 DEF Stored, Errors
  <2>3. Held
        BY <2>1, <2>2, StoreUpdated, SameHeld DEF LeaseInv, Held
  <2> QED BY <1>1, <2>1, <2>3, Untouched, ExtensionKeeps
<1>3. CASE ext[d].pending /\ ext[d].lease # 0
  <2>1. /\ Works(d, [work[d] EXCEPT !.ready = "resolving"])
        /\ Post([device |-> d, lease |-> ext[d].lease, outcome |-> "AUTHENTICATED", from |-> "ready"])
        /\ UNCHANGED <<ext, notices>>
        BY <1>3 DEF ProbeSession
  <2>2. [device |-> d, lease |-> ext[d].lease, outcome |-> "AUTHENTICATED", from |-> "ready"] \in Result
        BY <1>1, <1>3, LeaseBoundAssumption DEF Result, Epochs, Outcomes, Senders
  <2>3. results' \in SUBSET Result
        BY <2>1, <2>2 DEF Post, LeaseInv, TypeOK
  <2>4. Held
        BY <2>1, OthersMove, WorkUpdated, SameHeld DEF LeaseInv, Held
  <2> QED BY <1>1, <2>1, <2>3, <2>4, Untouched, ExtensionKeeps
<1>4. CASE ext[d].pending /\ ext[d].lease = 0
  <2>1. /\ Works(d, [work[d] EXCEPT !.ready = "restoring"])
        /\ Notify(d, "RESTORED", "ready")
        /\ UNCHANGED <<ext, results>>
        BY <1>4 DEF ProbeSession
  <2>2. notices' \in SUBSET Notice
        BY <2>1, NotifyTyped DEF LeaseInv, Says, Senders
  <2>3. Held
        BY <2>1, OthersMove, WorkUpdated, SameHeld DEF LeaseInv, Held
  <2> QED BY <1>1, <2>1, <2>2, <2>3, Untouched, ExtensionKeeps
<1> QED BY <1>2, <1>3, <1>4

LEMMA AskForLeaseKeeps ==
    ASSUME LeaseInv, NEW d \in Devices, AskForLease(d)
    PROVE  LeaseInv'
<1> DEFINE z == [device |-> d, pc |-> "load", epoch |-> 0, secret |-> NoSecret, from |-> "login"]
<1>1. /\ UNCHANGED <<serverVars, results, notices, page, asks, faults, submitted>>
      /\ ext[d] \in Stored
      /\ Becomes(d, [ext[d] EXCEPT !.asked = TRUE, !.error = "IN_PROGRESS"])
      /\ Works(d, [work[d] EXCEPT !.login = "leasing"])
      /\ issues' = issues \cup {z}
      BY DEF AskForLease, LeaseInv, TypeOK
<1>2. [ext[d] EXCEPT !.asked = TRUE, !.error = "IN_PROGRESS"] \in Stored
      BY <1>1 DEF Stored, Errors
<1>3. Held
      BY <1>1, <1>2, LoginMoves, WorkUpdated, StoreUpdated DEF LeaseInv, Held
<1>4. z \in Issue /\ z.pc = "load" /\ z.secret = 0
      BY LeaseBoundAssumption DEF Issue, Senders, Secrets, NoSecret
<1>5. 0 <= credential.saves
      BY LeaseBoundAssumption DEF LeaseInv, TypeOK, Secrets
<1> HIDE DEF z
<1>6. IssuesFollow
      BY <1>1, <1>4, <1>5, IssueAsked DEF Numbered
<1> QED BY <1>1, <1>3, <1>6, Untouched, ExtensionKeeps

LEMMA SubmitRefusedKeeps ==
    ASSUME LeaseInv, NEW d \in Devices, SubmitRefused(d)
    PROVE  LeaseInv'
<1>1. /\ UNCHANGED <<serverVars, issues, page, asks, faults, submitted>>
      /\ Report(d, work[d].lease, "UNKNOWN_PAGE", "UNSUPPORTED")
      /\ work[d].lease \in 0..MaxEpoch
      BY DEF SubmitRefused, LeaseInv, TypeOK, Work
<1>2. Held /\ notices' \in SUBSET Notice /\ results' \in SUBSET Result
      BY <1>1, ReportHolds DEF LeaseInv, Outcomes, Errors
<1> QED BY <1>1, <1>2, Untouched, ExtensionKeeps

LEMMA ReloadPageKeeps ==
    ASSUME LeaseInv, NEW d \in Devices, ReloadPage(d)
    PROVE  LeaseInv'
<1>1. /\ UNCHANGED <<serverVars, issues, results, notices, work, asks, faults, submitted>>
      /\ ext[d] \in Stored
      /\ Becomes(d, [ext[d] EXCEPT !.reloaded = TRUE, !.error = "none"])
      /\ page' = [page EXCEPT ![d] = "login"]
      BY DEF ReloadPage, LeaseInv, TypeOK
<1>2. [ext[d] EXCEPT !.reloaded = TRUE, !.error = "none"] \in Stored
      BY <1>1 DEF Stored, Errors
<1>3. Held /\ page' \in [Devices -> Pages]
      BY <1>1, <1>2, StoreUpdated, SameHeld DEF LeaseInv, TypeOK, Held, Pages
<1> QED BY <1>1, <1>3, Untouched, ExtensionKeeps

LEMMA ObservePageKeeps ==
    ASSUME LeaseInv, NEW d \in Devices, ObservePage(d)
    PROVE  LeaseInv'
<1>1. /\ UNCHANGED <<serverVars, issues, page, asks, faults, submitted>>
      /\ page[d] \in {"mfa", "rejected", "unclear", "sent"}
      /\ Report(d, ext[d].lease, Observed[page[d]].outcome, Observed[page[d]].error)
      /\ ext[d].lease \in 0..MaxEpoch
      BY DEF ObservePage, LooksAt, Observed, LeaseInv, TypeOK, Stored
<1>2. Observed[page[d]].outcome \in Outcomes /\ Observed[page[d]].error \in Errors
      BY <1>1 DEF Observed, Outcomes, Errors
<1>3. Held /\ notices' \in SUBSET Notice /\ results' \in SUBSET Result
      BY <1>1, <1>2, ReportHolds DEF LeaseInv
<1> QED BY <1>1, <1>3, Untouched, ExtensionKeeps

LEMMA PressRetryKeeps ==
    ASSUME LeaseInv, NEW d \in Devices, PressRetry(d)
    PROVE  LeaseInv'
<1>1. /\ UNCHANGED <<serverVars, issues, results, ext, page, faults, submitted>>
      /\ AsksForEpisode(d)
      /\ Works(d, [work[d] EXCEPT !.button = "renewing"])
      /\ Notify(d, "RETRY_REQUIRED", "button")
      BY DEF PressRetry
<1>2. Held
      BY <1>1, OthersMove, WorkUpdated, SameHeld DEF LeaseInv, Held
<1>3. notices' \in SUBSET Notice
      BY <1>1, NotifyTyped DEF LeaseInv, Says, Senders
<1> QED BY <1>1, <1>2, <1>3, AskTyped, Untouched, ExtensionKeeps

LEMMA ShowsKeeps ==
    ASSUME LeaseInv, NEW d \in Devices, NEW from, NEW to \in Pages, Shows(d, from, to)
    PROVE  LeaseInv'
<1>1. /\ UNCHANGED <<serverVars, issues, results, notices, ext, work, asks, faults, submitted>>
      /\ page' = [page EXCEPT ![d] = to]
      BY DEF Shows
<1>2. page' \in [Devices -> Pages]
      BY <1>1 DEF LeaseInv, TypeOK
<1> QED BY <1>1, <1>2, Untouched, ExtensionKeeps

\* The password of a lease is typed, for the first time.
LEMMA SubmitCredentialKeeps ==
    ASSUME LeaseInv, NEW d \in Devices, SubmitCredential(d)
    PROVE  LeaseInv'
<1> DEFINE n == work[d].lease
<1>1. /\ UNCHANGED <<credential, run, lease, issues, asks>>
      /\ work[d].login = "submitting"
      /\ page' = [page EXCEPT ![d] = "sent"]
      /\ submitted' = [submitted EXCEPT ![d][n] = @ + 1]
      /\ work \in [Devices -> Work]
      /\ work[d] \in Work
      /\ submitted \in [Devices -> [Epochs -> Nat]]
      BY DEF SubmitCredential, serverVars, LeaseInv, TypeOK
<1>2. /\ n \in Epochs
      /\ n # 0
      /\ n \in 0..MaxEpoch
      /\ ~Unleased(d, n)
      /\ submitted[d][n] = 0
      /\ \A q \in issues : ~(q.pc = "deliver" /\ q.device = d /\ q.epoch = n)
      BY <1>1, LeaseBoundAssumption DEF LeaseInv, SubmissionInv, Typing, Epochs
<1>3. /\ Held
      /\ work'[d].login # "submitting"
      /\ results' \in SUBSET Result
      /\ notices' \in SUBSET Notice
      /\ faults' \in 0..MaxFaults
  <2>1. CASE /\ Works(d, [work[d] EXCEPT !.login = "idle"])
             /\ UNCHANGED <<ext, results, notices, faults>>
    <3>1. Held
          BY <2>1, LoginMoves, WorkUpdated, SameHeld DEF LeaseInv, Held
    <3>2. work'[d].login = "idle"
          BY <1>1, <2>1, LoginMoves DEF Works, LeaseInv
    <3> QED BY <2>1, <3>1, <3>2, Untouched
  <2>2. CASE /\ faults < MaxFaults
             /\ faults' = faults + 1
             /\ Report(d, n, "UNKNOWN_PAGE", "UNSUPPORTED")
    <3>1. Held /\ results' \in SUBSET Result /\ notices' \in SUBSET Notice
          BY <1>2, <2>2, ReportHolds DEF LeaseInv, Outcomes, Errors
    <3>2. Works(d, [work[d] EXCEPT !.login = "reporting", !.error = "UNSUPPORTED"])
          BY <1>2, <2>2 DEF Report
    <3>3. work'[d].login = "reporting"
          BY <1>1, <3>2, LoginMoves DEF Works, LeaseInv, Errors
    <3>4. faults' \in 0..MaxFaults
          BY <2>2, LeaseBoundAssumption DEF LeaseInv, TypeOK
    <3> QED BY <3>1, <3>3, <3>4
  <2> QED BY <2>1, <2>2 DEF SubmitCredential
<1> HIDE DEF n
<1>4. page' \in [Devices -> Pages]
      BY <1>1 DEF LeaseInv, TypeOK, Pages
<1>5. /\ submitted' \in [Devices -> [Epochs -> Nat]]
      /\ submitted'[d][n] = 1
      /\ \A e \in Devices, m \in Epochs : (e # d \/ m # n) => submitted'[e][m] = submitted[e][m]
      BY <1>1, <1>2
<1>6. IssuesFollow
      BY <1>1, IssuesStay
<1>7. TypeOK'
      BY <1>1, <1>3, <1>4, <1>5, <1>6 DEF LeaseInv, TypeOK, Held, IssuesFollow
<1>8. RejectionInv'
      BY <1>1, <1>6, SameRows, NothingRejected
<1>9. ASSUME NEW q \in issues PROVE Answerable(q)' /\ Numbered(q)
  <2>1. CASE q.pc = "deliver"
    <3>1. /\ q.device \in Devices
          /\ q.epoch \in Epochs
          /\ ~Unleased(q.device, q.epoch)
          /\ submitted[q.device][q.epoch] = 0
          /\ Numbered(q)
          BY <2>1 DEF LeaseInv, TypeOK, Issue, SubmissionInv, Answerable, Numbered
    <3>2. submitted'[q.device][q.epoch] = 0
          BY <1>2, <1>5, <2>1, <3>1
    <3> QED BY <1>1, <3>1, <3>2 DEF Answerable, Unleased
  <2>2. CASE q.pc # "deliver"
        BY <2>2 DEF Answerable, LeaseInv, SubmissionInv
  <2> QED BY <2>1, <2>2
<1>10. ASSUME NEW e \in Devices, work'[e].login = "submitting" PROVE Typing(e)'
  <2>1. e # d /\ work[e].login = "submitting" /\ work'[e].lease = work[e].lease
        BY <1>3, <1>10 DEF Held, NoneBegins
  <2>2. /\ work[e].lease \in Epochs
        /\ ~Unleased(e, work[e].lease)
        /\ submitted[e][work[e].lease] = 0
        /\ \A q \in issues : ~(q.pc = "deliver" /\ q.device = e /\ q.epoch = work[e].lease)
        BY <2>1 DEF LeaseInv, SubmissionInv, Typing
  <2>3. submitted'[e][work[e].lease] = 0
        BY <1>5, <2>1, <2>2
  <2> QED BY <1>1, <2>1, <2>2, <2>3 DEF Typing, Unleased
<1>11. ASSUME NEW e \in Devices, NEW m \in Epochs PROVE TypedOnce(e, m)'
  <2>1. TypedOnce(e, m)
        BY DEF LeaseInv, SubmissionInv
  <2>2. CASE e = d /\ m = n
        BY <1>1, <1>2, <1>5, <2>2 DEF TypedOnce, Unleased
  <2>3. CASE e # d \/ m # n
        BY <1>1, <1>5, <2>1, <2>3 DEF TypedOnce, Unleased
  <2> QED BY <2>2, <2>3
<1>12. SubmissionInv'
  <2>1. \A e \in Devices : Typing(e)'
        BY <1>10 DEF Typing
  <2>2. OnePerLease(issues')
        BY <1>6 DEF IssuesFollow
  <2> QED BY <1>1, <1>9, <1>11, <2>1, <2>2 DEF SubmissionInv, Numbered
<1> QED BY <1>7, <1>8, <1>12 DEF LeaseInv

LEMMA FaultTyped ==
    ASSUME LeaseInv, Fault
    PROVE  faults' \in 0..MaxFaults
BY LeaseBoundAssumption DEF LeaseInv, TypeOK, Fault

LEMMA AnswerLostKeeps ==
    ASSUME LeaseInv, AnswerLost
    PROVE  LeaseInv'
<1>1. UNCHANGED <<serverVars, asks, submitted>> /\ faults' \in 0..MaxFaults
      BY FaultTyped DEF AnswerLost
<1>2. CASE \E q \in issues :
             /\ q.from # "nobody"
             /\ issues' = Orphaned(issues, q)
             /\ Unanswered(q)
             /\ UNCHANGED <<results, notices, page>>
  <2>1. PICK q \in issues : /\ issues' = Orphaned(issues, q)
                            /\ Unanswered(q)
                            /\ UNCHANGED <<results, notices, page>>
        BY <1>2
  <2>2. Held /\ IssuesFollow
        BY <2>1, IssueOrphaned, UnansweredHolds DEF LeaseInv, TypeOK
  <2> QED BY <1>1, <2>1, <2>2, Untouched, ExtensionKeeps
<1>3. CASE \E r \in results :
             /\ r.from # "nobody"
             /\ results' = Orphaned(results, r)
             /\ Reported(r, FALSE)
             /\ UNCHANGED <<issues, page>>
  <2>1. PICK r \in results : /\ results' = Orphaned(results, r)
                             /\ Reported(r, FALSE)
                             /\ UNCHANGED <<issues, page>>
        BY <1>3
  <2>2. r \in Result /\ results \in SUBSET Result
        BY DEF LeaseInv, TypeOK
  <2>3. Held /\ notices' \in SUBSET Notice
        BY <2>1, <2>2, ReportedHolds DEF LeaseInv
  <2>4. [r EXCEPT !.from = "nobody"] \in Result
        BY <2>2 DEF Result, Senders
  <2>5. results' \in SUBSET Result
        BY <2>1, <2>2, <2>4 DEF Orphaned
  <2> QED BY <1>1, <2>1, <2>3, <2>5, Untouched, ExtensionKeeps
<1>4. CASE \E q \in notices :
             /\ q.from # "nobody"
             /\ notices' = Orphaned(notices, q)
             /\ Noticed(q, FALSE)
             /\ UNCHANGED <<issues, results>>
  <2>1. PICK q \in notices : /\ notices' = Orphaned(notices, q)
                             /\ Noticed(q, FALSE)
                             /\ UNCHANGED <<issues, results>>
        BY <1>4
  <2>2. q \in Notice /\ notices \in SUBSET Notice
        BY DEF LeaseInv, TypeOK
  <2>3. Held /\ page' \in [Devices -> Pages]
        BY <2>1, <2>2, NoticedHolds DEF LeaseInv
  <2>4. [q EXCEPT !.from = "nobody"] \in Notice
        BY <2>2 DEF Notice, Senders
  <2>5. notices' \in SUBSET Notice
        BY <2>1, <2>2, <2>4 DEF Orphaned
  <2> QED BY <1>1, <2>1, <2>3, <2>5, Untouched, ExtensionKeeps
<1> QED BY <1>2, <1>3, <1>4 DEF AnswerLost

LEMMA WorkerKilledKeeps ==
    ASSUME LeaseInv, NEW d \in Devices, WorkerKilled(d)
    PROVE  LeaseInv'
<1>1. /\ UNCHANGED <<serverVars, ext, page, asks, submitted>>
      /\ faults' \in 0..MaxFaults
      /\ Works(d, Resting)
      /\ issues' = OrphanedOf(issues, d)
      /\ results' = OrphanedOf(results, d)
      /\ notices' = OrphanedOf(notices, d)
      BY FaultTyped DEF WorkerKilled
<1>2. Resting \in Work /\ Resting.login = "idle"
      BY LeaseBoundAssumption DEF Resting, Work, Errors
<1>3. Held
      BY <1>1, <1>2, WorkUpdated, SameHeld DEF LeaseInv, Held
<1>4. IssuesFollow
      BY <1>1, IssuesOrphaned
<1>5. results' \in SUBSET Result
  <2>1. results \in SUBSET Result
        BY DEF LeaseInv, TypeOK
  <2>2. \A r \in Result : [r EXCEPT !.from = "nobody"] \in Result
        BY DEF Result, Senders
  <2> QED BY <1>1, <2>1, <2>2 DEF OrphanedOf
<1>6. notices' \in SUBSET Notice
  <2>1. notices \in SUBSET Notice
        BY DEF LeaseInv, TypeOK
  <2>2. \A q \in Notice : [q EXCEPT !.from = "nobody"] \in Notice
        BY DEF Notice, Senders
  <2> QED BY <1>1, <2>1, <2>2 DEF OrphanedOf
<1> QED BY <1>1, <1>3, <1>4, <1>5, <1>6, Untouched, ExtensionKeeps

LEMMA BrokerKilledKeeps ==
    ASSUME LeaseInv, BrokerKilled
    PROVE  LeaseInv'
BY FaultTyped, RefusedKeeps DEF BrokerKilled

-----------------------------------------------------------------------------
(* The theorems.                                                            *)

LEMMA NextKeepsLeases ==
    ASSUME LeaseInv, [Next]_vars
    PROVE  LeaseInv'
<1>1. CASE \E q \in issues : BrokerStep(q)
      BY <1>1, LoadIssueContextKeeps, LimitReachedKeeps, ReserveLeaseKeeps, DeliverKeeps,
         DeliveryFailsKeeps DEF BrokerStep
<1>2. CASE \E r \in results : CommitOutcome(r)
      BY <1>2, CommitOutcomeKeeps
<1>3. CASE \E q \in notices : AuthStateStep(q)
      BY <1>3, ReadAuthStateKeeps, WriteAuthStateKeeps DEF AuthStateStep
<1>4. CASE \E d \in Devices : PageReady(d)
      BY <1>4, RequireAuthenticationKeeps, ProbeSessionKeeps DEF PageReady
<1>5. CASE \E d \in Devices : LoginQueue(d)
      BY <1>5, AskForLeaseKeeps, SubmitCredentialKeeps, SubmitRefusedKeeps, ReloadPageKeeps,
         ObservePageKeeps DEF LoginQueue
<1>6. CASE \E d \in Devices : SessionLost(d) \/ CarrierAnswers(d) \/ AgentSignsIn(d)
      BY <1>6, ShowsKeeps DEF SessionLost, CarrierAnswers, AgentSignsIn, Pages
<1>7. CASE UNCHANGED vars
  <2>1. UNCHANGED <<credential, run, lease, issues, results, notices, ext, work, page, asks,
                    faults, submitted>>
        BY <1>7 DEF vars, serverVars
  <2>2. TypeOK'
        BY <2>1 DEF LeaseInv, TypeOK
  <2> QED BY <2>1, <2>2, RowsOnly DEF LeaseInv
<1> QED BY <1>1, <1>2, <1>3, <1>4, <1>5, <1>6, <1>7, SaveKeeps, RevokeKeeps, DropRunKeeps,
           RunEndsKeeps, PressRetryKeeps, AnswerLostKeeps, WorkerKilledKeeps, BrokerKilledKeeps
        DEF Next, ServerStep

\* The inductive invariant: no lease is answered twice, none that is out has been
\* typed, and a rejected password is used automatically by nobody.
THEOREM LeaseInvariant == Spec => []LeaseInv
<1>1. Init => LeaseInv
  <2> SUFFICES ASSUME Init PROVE LeaseInv
      OBVIOUS
  <2>1. TypeOK
        BY LeaseBoundAssumption
        DEF Init, TypeOK, Secrets, NoSecret, Statuses, AuthStates, Lease, NoLease, Stored, Errors,
            Work, Resting, Pages, Epochs
  <2>2. SubmissionInv
        BY DEF Init, SubmissionInv, OnePerLease, Typing, TypedOnce, Resting
  <2>3. RejectionInv
        BY DEF Init, RejectionInv, NoSecret, NoLease
  <2> QED BY <2>1, <2>2, <2>3 DEF LeaseInv
<1> QED BY <1>1, NextKeepsLeases, PTL DEF Spec

\* For any devices, passwords, episodes and faults, a password is typed at most once
\* in an episode.
THEOREM SubmittedOnce == Spec => []OneSubmissionPerEpisode
<1>1. LeaseInv => OneSubmissionPerEpisode
      BY DEF LeaseInv, SubmissionInv, TypedOnce, OneSubmissionPerEpisode
<1> QED BY <1>1, LeaseInvariant, PTL

\* Only a reservation opens a lease, and it looks at the credential once more.
LEMMA OnlyReservationsLease ==
    ASSUME LeaseInv, [Next]_vars, credential.secret \in RejectedSecrets,
           NEW d \in Devices, NEW n \in Epochs, Unleased(d, n)
    PROVE  Unleased(d, n)'
<1>1. CASE lease' = lease
      BY <1>1 DEF Unleased
<1>2. CASE \E q \in issues : ReserveLease(q)
  <2>1. PICK q \in issues : ReserveLease(q)
        BY <1>2
  <2>2. ~StillOpen(q)
        BY DEF LeaseInv, RejectionInv, StillOpen
  <2> QED BY <1>1, <2>1, <2>2 DEF ReserveLease
<1>3. CASE \E q \in issues : DeliveryFails(q)
  <2>1. PICK q \in issues : DeliveryFails(q)
        BY <1>3
  <2>2. lease \in [Devices -> [Epochs -> Lease]] /\ q.device \in Devices /\ q.epoch \in Epochs
        BY <2>1 DEF DeliveryFails, LeaseInv, TypeOK, SubmissionInv, Numbered, Issue
  <2>3. ~Unleased(q.device, q.epoch)
        BY <2>1 DEF DeliveryFails, LeaseInv, SubmissionInv, Answerable
  <2>4. lease'[d][n] = lease[d][n]
        BY <2>1, <2>2, <2>3 DEF DeliveryFails
  <2> QED BY <2>4 DEF Unleased
<1>4. CASE \E r \in results : CommitOutcome(r)
  <2>1. PICK r \in results : CommitOutcome(r)
        BY <1>4
  <2>2. lease \in [Devices -> [Epochs -> Lease]] /\ r.device \in Devices /\ r.lease \in Epochs
        BY DEF LeaseInv, TypeOK, Result
  <2>3. lease'[d][n] = lease[d][n]
        BY <2>1, <2>2 DEF CommitOutcome, Unleased
  <2> QED BY <2>3 DEF Unleased
<1>5. \/ lease' = lease
      \/ \E q \in issues : ReserveLease(q) \/ DeliveryFails(q)
      \/ \E r \in results : CommitOutcome(r)
  <2>1. CASE ServerStep
        BY <2>1 DEF ServerStep, BrokerStep, AuthStateStep, serverVars, LoadIssueContext,
           LimitReached, Deliver, ReadAuthState, WriteAuthState
  <2>2. CASE \E e \in Devices : PageReady(e) \/ LoginQueue(e)
        BY <2>2 DEF PageReady, LoginQueue, serverVars, RequireAuthentication, ProbeSession,
           AskForLease, SubmitCredential, SubmitRefused, ReloadPage, ObservePage
  <2>3. CASE \E e \in Devices : \/ SessionLost(e) \/ CarrierAnswers(e) \/ AgentSignsIn(e)
                                \/ PressRetry(e) \/ DropRun(e) \/ RunEnds(e) \/ WorkerKilled(e)
        BY <2>3 DEF SessionLost, CarrierAnswers, AgentSignsIn, Shows, PressRetry, DropRun, RunEnds,
           WorkerKilled, serverVars
  <2>4. CASE Save \/ Revoke \/ AnswerLost \/ BrokerKilled \/ UNCHANGED vars
        BY <2>4 DEF Save, Revoke, AnswerLost, BrokerKilled, vars, serverVars
  <2> QED BY <2>1, <2>2, <2>3, <2>4 DEF Next
<1> QED BY <1>1, <1>2, <1>3, <1>4, <1>5

\* For any devices, passwords, episodes and faults, a password that the carrier has
\* rejected is leased no more.
THEOREM RejectedNotLeased == Spec => NoLeaseAfterRejection
<1>1. LeaseInv /\ [Next]_vars
      => [credential.secret \in RejectedSecrets
            => \A d \in Devices, n \in Epochs : Unleased(d, n) => Unleased(d, n)']_vars
      BY OnlyReservationsLease
<1> QED BY <1>1, LeaseInvariant, PTL DEF Spec, NoLeaseAfterRejection

=============================================================================
