\* Numbering under faults: retries, conflicts, clock steps, rebalances.
CONSTANTS
    Rooms = {"r1", "r2"}
    Senders = {"s1", "s2"}
    Clients = {"c1", "c2"}
    Times = {"t1", "t2"}
    Bodies = {"x", "y", "edge", "huge"}
    BodySize <- MCSize
    Requests <- SafetyRequests
    ClockValues <- MCClock
    IdSpace = 2
    NumberBytes = 1
    MaxMessages = 2
    MaxBytes = 3
    MaxFaults = 2
    MaxIngress = 3
SPECIFICATION Spec
INVARIANTS TypeOK FormalIdentity IdsFollowSeq NoGap CommittedIsOut FirstRequestWins
PROPERTY ImplementsNumbering
CHECK_DEADLOCK FALSE
