SPECIFICATION FairSpec
CONSTANTS
    c1 = c1
    c2 = c2
    Segment = {c1, c2}
    Requests <- MCRequests
    MaxEpoch = 2
    MaxFaults = 1
    MaxPingFail = 2
    RetryLeft = 1
INVARIANT TypeOK
INVARIANT UnmountedStaysUnmounted
INVARIANT FreedMemoryIsUnmounted
PROPERTY ViewNeverGoesBack
PROPERTY Converges
PROPERTY GracefulReleased
CHECK_DEADLOCK FALSE
