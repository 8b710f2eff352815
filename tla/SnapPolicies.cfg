SPECIFICATION SnapSpec
CONSTANTS
    a = a
    k = k
    l = l
    pk = pk
    pl = pl
    Devices = {d1}
    LegacyDevices = {}
    MaxRuns = 2
    Grids = {a}
    NoGrid = NoGrid
    Detail = Detail
    Parent = Parent
    Deprecated = Deprecated
    Requests <- PlanA
    OldPlans <- NoPlans
    LegacyPlan <- LegacyA
    MaxSequence = 1
    Pages = {pk, pl}
    TruncatedPages = {}
    NoPage = NoPage
    RecordCount <- PageSizes
    MaxTotal = 2
    NoCompletion = NoCompletion
    Intents = {"resume", "forceRefresh"}
    Calls = {c1}
    MaxFailing = 0
    TTL = 0
    Fresh = 1
    Retention = 2
    SnapshotGrids = {a}
    ReportGrids = {}
    HistoricalGrids = {}
    Keys = {k, l}
    KeysOf <- PageKeys
    MaxRead = 3
    MaxSealed = 2
PROPERTIES
    PruneSparesVerified
