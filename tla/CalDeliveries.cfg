SPECIFICATION Spec
CONSTANTS
    process = process
    Calendars = {home, work, third}
    NoCalendar = NoCalendar
    Workers = {w1}
    WorkerIds = {process}
    WorkerId <- SameProcess
    NoWorker = NoWorker
    MaxAttempts = 1
    MaxRevision = 3
    MaxWrites = 3
    NoEvent = NoEvent
    NoJob = NoJob
    NoCopy = NoCopy
    NoPage = NoPage
INVARIANTS
    MoveLeavesNoCopy
    SyncedMatchesGoogle
    ErrorCanBeRetried
    CancelledIsGone
PROPERTY GoogleNeverOlder
SYMMETRY CalendarsAlike
CHECK_DEADLOCK FALSE
