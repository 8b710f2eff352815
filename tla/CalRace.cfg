SPECIFICATION Spec
CONSTANTS
    process = process
    Calendars = {home}
    NoCalendar = NoCalendar
    Workers = {w1, w2}
    WorkerIds = {process}
    WorkerId <- SameProcess
    NoWorker = NoWorker
    MaxAttempts = 2
    MaxRevision = 2
    MaxWrites = 3
    NoEvent = NoEvent
    NoJob = NoJob
    NoCopy = NoCopy
    NoPage = NoPage
PROPERTIES
    GoogleNeverOlder
CHECK_DEADLOCK FALSE
