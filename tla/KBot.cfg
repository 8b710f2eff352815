SPECIFICATION FairSpec
CONSTANTS
    Followups = {f1}
    Proposals = {s1}
    Timers = {timer}
    Passes = {pass}
    LastGrant = 2
    Reservation = 2
    Costs = {1, 3}
    Receipts = {"SENT", "READ"}
    NoJob = NoJob
    Contact <- MCContact
    Allowance <- MCAllowance
INVARIANTS TypeOK CreditsConserved HandedOverOnce OneMessageInAWeek
PROPERTY FollowupsEnd
CHECK_DEADLOCK FALSE
