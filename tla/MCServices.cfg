CONSTANTS
    Workers = {w1, w2}
    Loads <- MCLoads
    MaxFaults = 1
    Users = {"a", "b"}
    RoomIds = {"r1", "r2"}
    Conns = {b1, b2}
    UserOf <- MCUserOf
    Platform = {"a"}
    None = "none"
    Targets = {"b"}
    Events = {"e1", "e2", "e3"}
    Fields = {"f", "g"}
    Flags = {"f"}
    PageSizes = {0, 1}
    Hours = 1
    Id <- MCId
    EventAbout <- MCEventAbout
    SearchSizes = {0, 1}
    Addrs = {i1, i2}
    Names = {n1, n2}
    IPLimit = 1
    IPWindow = 2
    PairLimit = 1
    PairWindow = 3
    BcryptConcurrent = 1
    MaxTime = 3
    Keys = {1, 2}
    RecordLimit = 2
    ObjectLimit = 2
    MaxRecords = 3
SPECIFICATION Spec
SYMMETRY Symmetry
INVARIANTS
    SubscriptionsFollowTable
    AuditExplainsTables
    PresenceIsTheLatest
    AuditTellsRow
    ConfigHistoryTells
    PagesSkipNothing
    AttemptsBounded
    HashesBounded
    OneRegistrationWins
    RecordedIsStored
    DeletedIsGone
    SearchFindsStored
    ViewsAgree
CHECK_DEADLOCK FALSE
