SPECIFICATION Spec
CONSTANTS
    a = a
    b = b
    old = old
    empty = empty
    x = x
    y = y
    Devices = {d1, d2}
    LegacyDevices = {d2}
    MaxRuns = 1
    Grids = {a, b}
    NoGrid = NoGrid
    Detail = Detail
    Parent = Parent
    Deprecated = old
    Requests <- PlanAB
    OldPlans <- EmptyPlan
    LegacyPlan <- LegacyAB
    MaxSequence = 1
    Pages = {empty, x, y}
    TruncatedPages = {y}
    NoPage = NoPage
    RecordCount <- PageSizes
    MaxTotal = 2
    NoCompletion = NoCompletion
    Intents = {"resume"}
    Calls = {c1}
    MaxFailing = 0
    TTL = 0
    Fresh = 1
    Retention = 2
INVARIANTS
    LegacyCompletedHasFinalPages
    TypeOK
    CompletedMeansVerified
PROPERTIES
    SealedIsFrozen
