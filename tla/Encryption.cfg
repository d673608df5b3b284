SPECIFICATION Spec
CONSTANTS
  Devs = {d1, d2, d3}
  Keys = {k1, k2}
  Passes = {s1, s2}
  RandPass = RandPass
  NoKey = NoKey
  NoPass = NoPass
  NoClevis = NoClevis
  Idle = Idle
  MaxThp = 2
  MaxCommands = 3
SYMMETRY Symmetry
INVARIANTS TypeOK NeverLockedOut CacheIsDisk DevicesAlike
PROPERTY AllOrNothing
CHECK_DEADLOCK FALSE
