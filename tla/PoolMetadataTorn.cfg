\* One device and a daemon that may die while it saves.
SPECIFICATION Spec
CONSTANTS
    a = a
    b = b
    Devs = {a}
    FirstDevs = {a}
    Small = {}
    MaxNumToWrite = 1
    MaxSaves = 2
    MaxTime = 2
    IOErrors = FALSE
    Growing = FALSE
INVARIANT GetMetadataErrsOnlyIfUnreadable
CHECK_DEADLOCK FALSE
