SPECIFICATION Spec
CONSTANTS
    r1 = r1
    r2 = r2
    k1 = k1
    k2 = k2
    Reader = {r1}
    Key = {k1, k2}
    Calls <- MCCalls
    Layouts <- MCLayouts
    Changing = {k1}
    IsShm = TRUE
    MaxVersion = 2
    MaxLeak = 1
    QueueSize = 1
INVARIANT TypeOK
 
INVARIANT PinsBalance
INVARIANT StaleFillsNeverPublish
CHECK_DEADLOCK FALSE
