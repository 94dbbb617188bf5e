\* Both clients' users in the room's shard; small queues, slow and lost clients.
CONSTANTS
    Clients = {"c1", "c2"}
    Shards = {"s1"}
    RoomShard = "s1"
    ShardOf <- MCShardOf
    ForwardCap = 1
    SendCap = 1
    KillCap = 1
    WriteMax = 2
    None = "none"
    MaxMessages = 2
SPECIFICATION FairSpec
INVARIANT StreamIsWhole
PROPERTY FanOutGoesOn
CHECK_DEADLOCK FALSE
