CONSTANTS
  t1 = t1
  t2 = t2
  k1 = k1
  k2 = k2
  None = None
  Thread = {t1, t2}
  Key = {k1, k2}
  Calls <- MCBatchUpsert
  Config <- MCTwoMemory
  StorageBackend = FALSE
  SegOf <- MCSegOf
SPECIFICATION Spec
INVARIANT ReadableIsWritten
