SPECIFICATION Spec
CONSTANTS
  Devs = {d1, d2, d3}
  Keys = {k1, k2}
  Passes = {s1, s2}
  RandPass = RandPass
  NoKey = NoKey
  NoPass = NoPass
  NoClevis = NoClevis
  Idle = Idle
  MaxThp = 2
  MaxCommands = 2
SYMMETRY Symmetry
INVARIANT InfosEqual
CHECK_DEADLOCK FALSE
