\* save_fs may be interrupted after it has opened the temporary file.
SPECIFICATION Spec
CONSTANTS
  u1 = u1
  u2 = u2
  u3 = u3
  a = a
  b = b
  c = c
  None = None
  Cut = Cut
  Mess = Mess
  Uuids = {u1}
  Names = {a, b, c}
  LongNames = {b}
  MaxId = 1
  MaxSize = 1
  MaxCommands = 3
  Faults = {"temp"}
INVARIANT SavedFilesParse
CHECK_DEADLOCK FALSE
