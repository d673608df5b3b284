\* Every failure, in files of one length.
SPECIFICATION Spec
CONSTANTS
  u1 = u1
  u2 = u2
  u3 = u3
  a = a
  b = b
  c = c
  None = None
  Cut = Cut
  Mess = Mess
  Uuids = {u1, u2, u3}
  Names = {a, b}
  LongNames = {}
  MaxId = 1
  MaxSize = 2
  MaxCommands = 4
  Faults = {"thin", "mdv", "temp", "crash", "setup"}
INVARIANTS TypeOK OwnThinDevice AckedSurvives
SYMMETRY Symmetry
CHECK_DEADLOCK FALSE
