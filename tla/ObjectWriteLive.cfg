CONSTANTS
  t1 = t1
  t2 = t2
  k1 = k1
  k2 = k2
  None = None
  Thread = {t1}
  Key = {k1, k2}
  Calls <- MCOneThread
  Config <- MCOneMemory
  StorageBackend = TRUE
  SegOf <- MCSegOf
SPECIFICATION FairSpec
INVARIANT TypeOK
PROPERTIES
  CallReturns
  
