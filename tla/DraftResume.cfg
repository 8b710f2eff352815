SPECIFICATION FairSpec
CONSTANTS
    Keys = {k1}
    NoKey = NoKey
    Devices = {d1}
    NoDevice = NoDevice
    Requests = {u1}
    Posts = {c1}
    NoPost = NoPost
    Capability = "PREPARE_APPLICATION_DRAFT"
    SignIns = {}
    MaxEvents = 5
    Reviews = {r1}
    MaxEdits = 1
    MaxFaults = 1
PROPERTIES
    RecordedDraftCompletes
CHECK_DEADLOCK FALSE
