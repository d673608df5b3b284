SPECIFICATION DevicesSpec
CONSTANTS
  DevSize = 11
  MaxDevs = 2
  MaxCache = 2
  DataBlock = 2
  MetaBlock = 1
  MetaShare = 4
  MaxMeta = 5
  DataInit = 2
  MetaInit = 1
  MdvInit = 1
  NoSave = NoSave
  MetaSize = 2
  CacheDev = 3
  CacheMeta = 1
  MaxCacheSize = 5
  MaxCommands = 3
  Faults = {"cap", "table", "water", "cache", "save", "repair", "crash"}
INVARIANTS TypeOK SpaceDisjoint NeverReassigned SavedPassesCheck RestIsRecoverable AllSpaceGranted SegmentsAccounted SectorsStayPut
PROPERTY CheckTerminates
CHECK_DEADLOCK FALSE
