SPECIFICATION Spec
CONSTANTS
    a = a
    b = b
    old = old
    empty = empty
    x = x
    y = y
    Devices = {d1}
    LegacyDevices = {}
    MaxRuns = 1
    Grids = {old, Detail, Parent}
    NoGrid = NoGrid
    Detail = Detail
    Parent = Parent
    Deprecated = old
    Requests <- PlanDetailOrNone
    OldPlans <- OldPlansMC
    LegacyPlan <- LegacyParent
    MaxSequence = 0
    Pages = {x}
    TruncatedPages = {}
    NoPage = NoPage
    RecordCount <- PageSizes
    MaxTotal = 2
    NoCompletion = NoCompletion
    Intents = {"resume"}
    Calls = {c1}
    MaxFailing = 1
    TTL = 0
    Fresh = 1
    Retention = 2
INVARIANTS
    CompletedMeansVerified
PROPERTIES
    CompletedIsFinal
