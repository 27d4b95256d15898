\* The times of the code, in seconds; the channel keeps 2 packets instead of 256.
CONSTANTS
    KEEPALIVE_SECS = 55
    MIN_BACKOFF = 1
    MAX_BACKOFF = 30
    MaxFailures = 6
    MaxChanges = 4
    Session = {s1, s2}
    Capacity = 2
    MaxPackets = 4
    Garbage = {2}
SPECIFICATION MediaSpec
CHECK_DEADLOCK FALSE
INVARIANTS
    BackoffIsExponential
    RetryIsBounded
PROPERTIES
    PullResumes
    RelayIsReleased
    PeersCatchUp
