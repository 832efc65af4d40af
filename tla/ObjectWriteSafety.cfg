CONSTANTS
  t1 = t1
  t2 = t2
  k1 = k1
  k2 = k2
  None = None
  Thread = {t1, t2}
  Key = {k1, k2}
  Calls <- MCContention
  Config <- MCConfigs
  StorageBackend = FALSE
  SegOf <- MCSegOf
SPECIFICATION Spec
INVARIANTS
  ReadableIsWritten
  NoWriteAfterRevoke
  NothingLeftProcessing
  OkIsReadable
  ErrorLeavesNothing
PROPERTY ImplementsObjectStore
