SPECIFICATION FairSpec
CONSTANTS
  local = local
  pool = pool
  a1 = a1
  a2 = a2
  a3 = a3
  b1 = b1
  b2 = b2
  h1 = h1
  h2 = h2
  Shm = {local}
  Local = local
  Addr = {a1, a2, a3}
  NoAddr = NoAddr
  Slot = {}
  Handle = {}
  NoBuffer = NoBuffer
  MaxId = 2
  MaxFaults = 1
  TtlTicks = 0
  QueueSize = 1
CHECK_DEADLOCK FALSE
PROPERTY DeadContextsGo
PROPERTY Reconnects
