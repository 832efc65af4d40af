CONSTANTS
  AddrSpace = 8
  Thread = {t1, t2}
  GD = {g1, g2}
  PD = {p1}
  Device = {0, 1}
  Key = {k1, k2}
  Ranges <- MCOneRange
  Alloc <- MCOneAlloc
  DeviceOf <- MCDeviceOf
  None = None
SYMMETRY MCLifeSymmetry
SPECIFICATION Spec
INVARIANTS
  NoUseAfterFree
  FreedDomainsAreEmpty
  PrimaryBalanced
