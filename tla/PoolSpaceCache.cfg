SPECIFICATION Spec
CONSTANTS
  DevSize = 11
  MaxDevs = 2
  MaxCache = 2
  DataBlock = 2
  MetaBlock = 1
  MetaShare = 4
  MaxMeta = 5
  DataInit = 2
  MetaInit = 1
  MdvInit = 1
  NoSave = NoSave
  MaxCommands = 3
  Faults = {}
INVARIANT CheckAssertionHolds
CHECK_DEADLOCK FALSE
