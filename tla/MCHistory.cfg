\* A reader, its background fills and the archiver.
CONSTANTS
    Rooms = {"r1"}
    Logs <- MCLogs
    Legacy <- MCLegacy
    Backends = {"mysql", "mongo"}
    BatchSize = 2
    CacheMax = 2
    MaxFaults = 3
    Limits = {1, 2}
    MaxFills = 1
SPECIFICATION HistorySpec
INVARIANTS CacheCatchesUp ScrollSkipsNothing
CHECK_DEADLOCK FALSE
