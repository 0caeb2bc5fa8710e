SPECIFICATION Spec
CONSTANTS
  p1 = p1
  p2 = p2
  x1 = x1
  x2 = x2
  d1 = d1
  d2 = d2
  k1 = k1
  k2 = k2
  k3 = k3
  Procs <- MCOneProc
  Paths <- MCPaths
  Data <- MCOneData
  Keys <- MCTwoKeys
  NoKey = NoKey
  NoObject = NoObject
  NoReceipt = NoReceipt
  NoRotation = NoRotation
  Commands = {"put", "delete", "rotate-key"}
  Overlap = FALSE
  MaxObjects = 4
  MaxFaults = 1
INVARIANT PendingResumable
CHECK_DEADLOCK FALSE
