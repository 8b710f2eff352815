SPECIFICATION Spec
CONSTANTS
    Keys = {k1, k2}
    NoKey = NoKey
    Devices = {d1}
    NoDevice = NoDevice
    Requests = {u1}
    Posts = {c1, c2}
    NoPost = NoPost
    Capability = "PREPARE_APPLICATION_DRAFT"
    SignIns = {}
    MaxEvents = 5
    Reviews = {r1}
    MaxEdits = 2
    MaxFaults = 1
SYMMETRY Symmetry
INVARIANTS
    ExecutedWasAsked
    DraftsAreStored
PROPERTIES
    LandedDraftStays
CHECK_DEADLOCK FALSE
