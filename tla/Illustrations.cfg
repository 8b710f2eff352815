SPECIFICATION Spec
CONSTANTS
    Keys = {1, 2}
    NoKey = 0
    Devices = {d1, d2}
    NoDevice = NoDevice
    Requests = {u1}
    Posts = {c1}
    NoPost = NoPost
    Capability = "GENERATE_ILLUSTRATION"
    SignIns = {"AUTH_REQUIRED"}
    MaxEvents = 6
    MaxFaults = 1
SYMMETRY DeviceSymmetry
INVARIANTS
    WorkFollowsItsReport
    EpisodesAreLogged
PROPERTIES
    ImplementsLedger
CHECK_DEADLOCK FALSE
