SPECIFICATION FairSpec
CONSTANTS
    a = a
    b = b
    old = old
    empty = empty
    x = x
    y = y
    Devices = {d1}
    LegacyDevices = {}
    MaxRuns = 2
    Grids = {a}
    NoGrid = NoGrid
    Detail = Detail
    Parent = Parent
    Deprecated = old
    Requests <- PlanA
    OldPlans <- NoPlans
    LegacyPlan <- LegacyA
    MaxSequence = 0
    Pages = {x}
    TruncatedPages = {}
    NoPage = NoPage
    RecordCount <- PageSizes
    MaxTotal = 2
    NoCompletion = NoCompletion
    Intents = {"resume", "discardFailedPlans", "forceRefresh"}
    Calls = {c1}
    MaxFailing = 1
    TTL = 1
    Fresh = 1
    Retention = 2
PROPERTIES
    OrphanedRunEnds
INVARIANTS
    OneLiveRun
    ReceiptsBackUploads
