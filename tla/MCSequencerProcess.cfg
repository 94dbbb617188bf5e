\* Both loops of the sequencer process; no promise about Redis.
CONSTANTS
    Rooms = {"r1"}
    Senders = {"s1", "s2"}
    Clients = {"c1"}
    Times = {"t1"}
    Bodies = {"x", "y", "edge", "huge"}
    BodySize <- MCSize
    Requests <- MCRequests
    ClockValues <- MCClock
    IdSpace = 2
    NumberBytes = 1
    MaxMessages = 2
    MaxBytes = 5
    MaxFaults = 1
    MaxIngress = 2
SPECIFICATION ProcessSpec
INVARIANTS BroadcastInOrder LoopsStopForCause RelayedBeforeCommit
PROPERTY ProcessKeepsGoing
CHECK_DEADLOCK FALSE
