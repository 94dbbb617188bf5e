\* A gateway's producer with two connections, a small queue and a Close.
CONSTANTS
    Conns = {"a", "b"}
    Script <- MCScript
    MaxMessages = 2
    MaxBytes = 3
    QueueCapacity = 2
    MaxFaults = 2
SPECIFICATION FairSpec
INVARIANTS OutcomeIsTrue SenderOrder
PROPERTY EveryRequestSettled
CHECK_DEADLOCK FALSE
