\* A disband crosses a leave and a join of the same room.
CONSTANTS
    Conns = {"a1", "a2"}
    Users = {"a"}
    Rooms = {"r1"}
    Callers = {"listener", "grpc"}
    Listener = "listener"
    UserOf <- MCUserOf
    None = "none"
SPECIFICATION Spec
INVARIANT UnregisteredIsGone
CHECK_DEADLOCK FALSE
