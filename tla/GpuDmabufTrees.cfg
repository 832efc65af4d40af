CONSTANTS
  AddrSpace = 8
  Thread = {t1, t2}
  GD = {g1}
  PD = {p1, p2}
  Device = {0}
  Key = {k1, k2}
  Ranges <- MCRanges
  Alloc <- MCAllocsReused
  DeviceOf <- MCDeviceOf
  None = None
SYMMETRY MCSymmetry
SPECIFICATION Spec
INVARIANTS
  IInv
  RegionsDisjoint
  MrHasRegion
  RegisterMrNeverExists
  SearchComplete
  NoMrLeak
  NoMrOnFreedMemory
  InFlightKeyLive
