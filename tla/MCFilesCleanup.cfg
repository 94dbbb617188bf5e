\* The cleanup of objects without a record, as its comment describes it.
CONSTANTS
    Workers = {w1, w2}
    Loads <- MCFileLoads
    MaxFaults = 1
    Users = {"a", "b"}
    RoomIds = {"r1", "r2"}
    Conns = {b1, b2}
    UserOf <- MCUserOf
    Platform = {"a"}
    None = "none"
    Targets = {"b"}
    Events = {"e1", "e2", "e3"}
    Fields = {"f", "g"}
    Flags = {"f"}
    PageSizes = {0, 1}
    Hours = 1
    Id <- MCId
    EventAbout <- MCEventAbout
    SearchSizes = {0, 1}
    Addrs = {"ip1"}
    Names = {"a", "b"}
    IPLimit = 2
    IPWindow = 1
    PairLimit = 1
    PairWindow = 3
    BcryptConcurrent = 1
    MaxTime = 3
    Keys = {1, 2}
    RecordLimit = 2
    ObjectLimit = 2
    MaxRecords = 3
SPECIFICATION Spec
PROPERTY CleanupSparesFiles
CHECK_DEADLOCK FALSE
