\* Two callers and two connections of a user cross each other.
CONSTANTS
    Conns = {"a1", "a2"}
    Users = {"a"}
    Rooms = {"r1", "r2"}
    Callers = {"listener", "grpc"}
    Listener = "listener"
    UserOf <- MCUserOf
    None = "none"
SPECIFICATION FairSpec
INVARIANT RegistryAgrees
PROPERTY BrokenIsClosed
CHECK_DEADLOCK FALSE
