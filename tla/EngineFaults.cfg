SPECIFICATION Spec
CONSTANTS
  p1 = p1
  p2 = p2
  p3 = p3
  x = x
  y = y
  d1 = d1
  d2 = d2
  e1 = e1
  f1 = f1
  k1 = k1
  k2 = k2
  NoEnc = NoEnc
  NoNode = NoNode
  NoPool = NoPool
  NoName = NoName
  Pools = {p1, p2, p3}
  Names = {x, y}
  Disks <- PlainDisks
  Nodes <- MovingNodes
  DevUuid <- PlainUuid
  Enc <- PlainEnc
  FirstPresent <- FirstNodes
  FirstOwner <- PlainOwner
  FirstMeta <- PlainMeta
  MaxSteps = 4
  MaxPending = 1
  Faults = TRUE
  Commands = TRUE
  Gap = TRUE
  Restarts = 1
INVARIANTS TypeOK OnePlacePerPool PoolsAreWhole
PROPERTY PoolsOnlyLeaveDestroyed
CHECK_DEADLOCK FALSE
