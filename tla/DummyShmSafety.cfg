SPECIFICATION Spec
CONSTANTS
  local = local
  pool = pool
  a1 = a1
  a2 = a2
  a3 = a3
  b1 = b1
  b2 = b2
  h1 = h1
  h2 = h2
  Shm = {local, pool}
  Local = local
  Addr = {a1, a2, a3}
  NoAddr = NoAddr
  Slot = {b1, b2}
  Handle = {h1, h2}
  NoBuffer = NoBuffer
  MaxId = 1
  MaxFaults = 1
  TtlTicks = 0
  QueueSize = 1
INVARIANT TypeOK
INVARIANT ContextsOwnMemory
INVARIANT TransfersOnMappedMemory
INVARIANT HeldBuffersAreKept
CHECK_DEADLOCK FALSE
SYMMETRY MCSymmetry
