SPECIFICATION Spec
CONSTANTS
    b1 = b1
    b2 = b2
    t1 = t1
    Context = {1, 2}
    Buffer = {b1, b2}
    Addr <- MCAddr
    Length <- MCLength
    Request = {t1}
    Task = {t1}
    Object <- MCObject
    BlockSize = 2
    FragmentSize = 1
    Watermark = 1
    MaxReg = 3
    MaxFaults = 1
    MaxTargets = 2
    Workers = 1
    MaxRetry = 1
INVARIANT TypeOK
INVARIANT PublishedKeysAreLive
INVARIANT EndedIsWritten
PROPERTY TasksSettle
CHECK_DEADLOCK FALSE
