----------------------------- MODULE MCDelivery -----------------------------
(***************************************************************************)
(* Two clients of one room, whose users live in the room's shard: the loop *)
(* that asks for evictions is the one that performs them.                  *)
(***************************************************************************)
EXTENDS Delivery

MCShardOf == [c \in Clients |-> RoomShard]

=============================================================================
