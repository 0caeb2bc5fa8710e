SPECIFICATION Spec
CONSTANTS
  p1 = p1
  p2 = p2
  x1 = x1
  x2 = x2
  d1 = d1
  d2 = d2
  k1 = k1
  k2 = k2
  k3 = k3
  Procs <- MCOneProc
  Paths <- MCPaths
  Data <- MCData
  Keys <- MCKeys
  NoKey = NoKey
  NoObject = NoObject
  NoReceipt = NoReceipt
  NoRotation = NoRotation
  Commands = {"put", "delete", "rotate-key", "attest-key-destruction"}
  Overlap = FALSE
  MaxObjects = 5
  MaxFaults = 2
INVARIANT StoreValidates
INVARIANT RemovalRecorded
INVARIANT DestroyedKeysUnused
PROPERTY KeepsPromise
SYMMETRY Symmetry
CHECK_DEADLOCK FALSE
