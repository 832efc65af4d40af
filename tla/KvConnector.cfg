SPECIFICATION Spec
CONSTANTS
  e1 = e1
  e2 = e2
  Engine = {e1, e2}
  Direct = {e1}
  Layers = 2
  BlockSize = 2
  Request <- MCRequest
  MaxBatch = 2
INVARIANT RaisesOnlyOnErrors
CHECK_DEADLOCK FALSE
