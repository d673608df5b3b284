\* Write errors, crashes, a pool that grows, metadata written to one device per save.
SPECIFICATION Spec
CONSTANTS
    a = a
    b = b
    Devs = {a, b}
    FirstDevs = {a}
    Small = {}
    MaxNumToWrite = 1
    MaxSaves = 3
    MaxTime = 2
    IOErrors = TRUE
    Growing = TRUE
INVARIANTS TypeOK CommittedOnDisk FullViewNeverStale SaveNeverRejected
PROPERTY TornOnlyInFirstCopy
CHECK_DEADLOCK FALSE
