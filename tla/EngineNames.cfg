SPECIFICATION Spec
CONSTANTS
  p1 = p1
  p2 = p2
  p3 = p3
  x = x
  y = y
  d1 = d1
  d2 = d2
  e1 = e1
  f1 = f1
  k1 = k1
  k2 = k2
  NoEnc = NoEnc
  NoNode = NoNode
  NoPool = NoPool
  NoName = NoName
  Pools = {p1, p2, p3}
  Names = {x, y}
  Disks <- PlainDisks
  Nodes <- PlainNodes
  DevUuid <- PlainUuid
  Enc <- PlainEnc
  FirstPresent <- FirstNodes
  FirstOwner <- PlainOwner
  FirstMeta <- PlainMeta
  MaxSteps = 2
  MaxPending = 1
  Faults = FALSE
  Commands = TRUE
  Gap = FALSE
  Restarts = 1
INVARIANT NothingDropped
CHECK_DEADLOCK FALSE
