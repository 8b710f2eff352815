SPECIFICATION SnapSpec
CONSTANTS
    a = a
    k = k
    l = l
    pk = pk
    pl = pl
    Devices = {d1, d2}
    LegacyDevices = {}
    MaxRuns = 2
    Grids = {a}
    NoGrid = NoGrid
    Detail = Detail
    Parent = Parent
    Deprecated = Deprecated
    Requests <- PlanA
    OldPlans <- NoPlans
    LegacyPlan <- LegacyA
    MaxSequence = 0
    Pages = {pk, pl}
    TruncatedPages = {}
    NoPage = NoPage
    RecordCount <- PageSizes
    MaxTotal = 2
    NoCompletion = NoCompletion
    Intents = {"resume"}
    Calls = {c1}
    MaxFailing = 0
    TTL = 0
    Fresh = 1
    Retention = 2
    SnapshotGrids = {}
    ReportGrids = {a}
    HistoricalGrids = {}
    Keys = {k, l}
    KeysOf <- PageKeys
    MaxRead = 2
    MaxSealed = 2
INVARIANTS
    PublishedMatchesCursor
PROPERTIES
    PublicationAdvances
