SPECIFICATION FairSpec
CONSTANTS
  p1 = p1
  p2 = p2
  p3 = p3
  x = x
  y = y
  d1 = d1
  d2 = d2
  e1 = e1
  f1 = f1
  k1 = k1
  k2 = k2
  NoEnc = NoEnc
  NoNode = NoNode
  NoPool = NoPool
  NoName = NoName
  Pools = {p1}
  Names = {x, y}
  Disks <- LuksDisks
  Nodes <- LuksNodes
  DevUuid <- LuksUuid
  Enc <- LuksEnc
  FirstPresent <- LuksFirst
  FirstOwner <- LuksOwner
  FirstMeta <- LuksMeta
  MaxSteps = 5
  MaxPending = 2
  Faults = FALSE
  Commands = FALSE
  Gap = FALSE
  Restarts = 1
INVARIANTS DeviceSetsConsistent
PROPERTY EventuallyUp
CHECK_DEADLOCK FALSE
