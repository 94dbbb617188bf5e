\* Both stores, every topic, crashes and failed calls.
CONSTANTS
    Rooms = {"r1", "r2"}
    Logs <- MCLogs
    Legacy <- MCLegacy
    Backends = {"mysql", "mongo"}
    BatchSize = 2
    CacheMax = 2
    MaxFaults = 3
SPECIFICATION FairSpec
INVARIANTS ArchivedIsStored StoreIdentity
PROPERTY EveryRecordArchived
CHECK_DEADLOCK FALSE
