SPECIFICATION Spec
CONSTANTS
    Devices = {d1}
    MaxEpoch = 2
    MaxSecrets = 1
    MaxFaults = 1
INVARIANTS
    OneSubmissionPerEpisode
PROPERTIES
    NoLeaseAfterRejection
CHECK_DEADLOCK FALSE
