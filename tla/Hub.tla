-------------------------------- MODULE Hub ---------------------------------
(***************************************************************************)
(* The subscription registry of a gateway (gateway/websocket/hub.go): which *)
(* connection a user has, and which connections a room's messages go to.   *)
(* A Client keeps its own list of rooms (roomIDs); the shards keep, per    *)
(* room, the clients (rooms) and, per user, the client registered last     *)
(* (users).                                                                *)
(*                                                                         *)
(* Register, Unregister and the changing parts of JoinRoom and LeaveRoom   *)
(* hold the client's lock from beginning to end and meet others only       *)
(* through one shard entry at a time, so each is one step.  What comes     *)
(* before the lock is a step of its own: JoinRoom and LeaveRoom look the   *)
(* client up first; DisbandRoom empties the room under the shard's lock    *)
(* and then visits the clients it found there one by one.                  *)
(*                                                                         *)
(* Callers are the goroutines that change subscriptions: the room event    *)
(* listener (room_events.go), gRPC calls of the agent (gateway/grpc) and   *)
(* admin calls (admin/control/local.go).  Only the listener makes users    *)
(* join; all of them make users leave and disband rooms.                   *)
(***************************************************************************)
EXTENDS Integers, Sequences

CONSTANTS Conns, Users, Rooms, Callers,
          Listener,  \* the caller that is the room event listener
          UserOf,    \* the user of a connection
          None       \* no client

ASSUME HubAssumption ==
    /\ UserOf \in [Conns -> Users]
    /\ None \notin Conns
    /\ Listener \in Callers

VARIABLES state,    \* a connection's life; "active" is Client.active
          roomIDs,  \* Client.roomIDs
          users,    \* hubShard.users, over all shards
          rooms,    \* hubShard.rooms, over all shards
          broken,   \* connections whose socket is closed
          call,     \* what each caller is doing
          order     \* connections in the order they registered

hubVars == <<state, roomIDs, users, rooms, broken, call, order>>

States == {"new", "active", "unregistered", "closed"}

Idle == [op |-> "idle"]

Member == [op : {"join", "leave"}, conn : Conns, room : Rooms]

Disband == [op : {"disband"}, room : Rooms, left : SUBSET Conns]

TypeOK ==
    /\ state \in [Conns -> States]
    /\ roomIDs \in [Conns -> SUBSET Rooms]
    /\ users \in [Users -> Conns \cup {None}]
    /\ rooms \in [Rooms -> SUBSET Conns]
    /\ broken \subseteq Conns
    /\ call \in [Callers -> {Idle} \cup Member \cup Disband]
    /\ order \in Seq(Conns)

Init ==
    /\ state = [c \in Conns |-> "new"]
    /\ roomIDs = [c \in Conns |-> {}]
    /\ users = [u \in Users |-> None]
    /\ rooms = [r \in Rooms |-> {}]
    /\ broken = {}
    /\ call = [p \in Callers |-> Idle]
    /\ order = << >>

-----------------------------------------------------------------------------
(* The life of a connection *)

(* rs is what the membership table held when WsEndpoint asked it.          *)
Register(c, rs) ==
    /\ state[c] = "new"
    /\ state' = [state EXCEPT ![c] = "active"]
    /\ roomIDs' = [roomIDs EXCEPT ![c] = rs]
    /\ users' = [users EXCEPT ![UserOf[c]] = c]
    /\ rooms' = [r \in Rooms |-> IF r \in rs THEN rooms[r] \cup {c} ELSE rooms[r]]
    /\ order' = Append(order, c)
    /\ UNCHANGED <<broken, call>>

(* External: the peer goes away, or its heartbeat stops.                   *)
PeerLeaves(c) ==
    /\ state[c] = "active"
    /\ c \notin broken
    /\ broken' = broken \cup {c}
    /\ UNCHANGED <<state, roomIDs, users, rooms, call, order>>

(* A newer connection of the user stays.                                   *)
WithoutClient(c) ==
    IF users[UserOf[c]] = c THEN [users EXCEPT ![UserOf[c]] = None] ELSE users

Unregister(c) ==
    /\ state[c] = "active"
    /\ state' = [state EXCEPT ![c] = "unregistered"]
    /\ users' = WithoutClient(c)
    /\ rooms' = [r \in Rooms |-> IF r \in roomIDs[c] THEN rooms[r] \ {c} ELSE rooms[r]]
    /\ roomIDs' = [roomIDs EXCEPT ![c] = {}]
    /\ UNCHANGED <<broken, call, order>>

(* Mutant: only the connection found under the user is unregistered.       *)
ReadPumpEndsFound(c) == c \in broken /\ users[UserOf[c]] = c /\ Unregister(c)

(* ReadPump ends on a closed socket, the shard loop evicts a slow client.  *)
ReadPumpEnds(c) == c \in broken /\ Unregister(c)

Evict(c) == c \notin broken /\ Unregister(c)

(* Unregister goes on to close the send queue; WritePump then closes the   *)
(* socket.                                                                 *)
CloseSend(c) ==
    /\ state[c] = "unregistered"
    /\ state' = [state EXCEPT ![c] = "closed"]
    /\ broken' = broken \cup {c}
    /\ UNCHANGED <<roomIDs, users, rooms, call, order>>

-----------------------------------------------------------------------------
(* JoinRoom, LeaveRoom, DisbandRoom, Kick *)

Call(p, what) ==
    /\ call[p] = Idle
    /\ call' = [call EXCEPT ![p] = what]

(* clientByUser; a user without one makes both calls return.               *)
LookUp(p, op, u, r) ==
    /\ op = "join" => p = Listener
    /\ users[u] # None
    /\ Call(p, [op |-> op, conn |-> users[u], room |-> r])
    /\ UNCHANGED <<state, roomIDs, users, rooms, broken, order>>

Return(p) == call' = [call EXCEPT ![p] = Idle]

JoinRoom(p) ==
    /\ call[p].op = "join"
    /\ LET c == call[p].conn
           r == call[p].room
       IN  IF state[c] = "active" /\ r \notin roomIDs[c]
           THEN /\ roomIDs' = [roomIDs EXCEPT ![c] = @ \cup {r}]
                /\ rooms' = [rooms EXCEPT ![r] = @ \cup {c}]
           ELSE UNCHANGED <<roomIDs, rooms>>
    /\ Return(p)
    /\ UNCHANGED <<state, users, broken, order>>

LeaveRoom(p) ==
    /\ call[p].op = "leave"
    /\ LET c == call[p].conn
           r == call[p].room
       IN  IF state[c] = "active" /\ r \in roomIDs[c]
           THEN /\ roomIDs' = [roomIDs EXCEPT ![c] = @ \ {r}]
                /\ rooms' = [rooms EXCEPT ![r] = @ \ {c}]
           ELSE UNCHANGED <<roomIDs, rooms>>
    /\ Return(p)
    /\ UNCHANGED <<state, users, broken, order>>

(* Mutant: the room is dropped and its clients are not visited.            *)
EmptyRoomOnly(p, r) ==
    /\ Call(p, [op |-> "disband", room |-> r, left |-> {}])
    /\ rooms' = [rooms EXCEPT ![r] = {}]
    /\ UNCHANGED <<state, roomIDs, users, broken, order>>

EmptyRoom(p, r) ==
    /\ Call(p, [op |-> "disband", room |-> r, left |-> rooms[r]])
    /\ rooms' = [rooms EXCEPT ![r] = {}]
    /\ UNCHANGED <<state, roomIDs, users, broken, order>>

DisbandClient(p, c) ==
    /\ call[p].op = "disband"
    /\ c \in call[p].left
    /\ roomIDs' = [roomIDs EXCEPT ![c] = @ \ {call[p].room}]
    /\ call' = [call EXCEPT ![p].left = @ \ {c}]
    /\ UNCHANGED <<state, users, rooms, broken, order>>

DisbandEnds(p) ==
    /\ call[p].op = "disband"
    /\ call[p].left = {}
    /\ Return(p)
    /\ UNCHANGED <<state, roomIDs, users, rooms, broken, order>>

(* Kick and CloseConnection find a client through users and close its      *)
(* socket.                                                                 *)
Kick(u) ==
    /\ users[u] # None
    /\ users[u] \notin broken
    /\ broken' = broken \cup {users[u]}
    /\ UNCHANGED <<state, roomIDs, users, rooms, call, order>>

ConnStep(c) == ReadPumpEnds(c) \/ Evict(c) \/ CloseSend(c) \/ PeerLeaves(c)

CallStep(p) == \/ JoinRoom(p) \/ LeaveRoom(p) \/ DisbandEnds(p)
               \/ \E c \in Conns : DisbandClient(p, c)

Next ==
    \/ \E c \in Conns : ConnStep(c) \/ \E rs \in SUBSET Rooms : Register(c, rs)
    \/ \E p \in Callers : \/ CallStep(p)
                          \/ \E r \in Rooms : EmptyRoom(p, r)
                          \/ \E u \in Users, r \in Rooms, op \in {"join", "leave"} :
                                LookUp(p, op, u, r)
    \/ \E u \in Users : Kick(u)

Spec == Init /\ [][Next]_hubVars

(* Goroutines run, locks are given in the end: a closed socket ends its    *)
(* ReadPump, a call that has begun returns.                                *)
FairSpec ==
    /\ Spec
    /\ \A c \in Conns : WF_hubVars(ReadPumpEnds(c)) /\ WF_hubVars(CloseSend(c))
    /\ \A p \in Callers : WF_hubVars(CallStep(p))

-----------------------------------------------------------------------------
(* Properties *)

(* A caller is between the two halves of DisbandRoom(r) and will visit c.  *)
Disbanding(c, r) ==
    \E p \in Callers : call[p].op = "disband" /\ call[p].room = r /\ c \in call[p].left

(* A connection that counts a room among its own is reached by the room's  *)
(* messages, whatever calls cross each other: the two indexes, kept under  *)
(* different locks, disagree in this direction only while the room is      *)
(* being disbanded.                                                        *)
SubscribedIsReached ==
    \A c \in Conns : \A r \in roomIDs[c] :
        state[c] = "active" /\ (c \in rooms[r] \/ Disbanding(c, r))

IsNewest(c) == \E k \in DOMAIN order :
                  /\ order[k] = c
                  /\ \A j \in (k + 1)..Len(order) : UserOf[order[j]] # UserOf[c]

(* The connection a user opened last is the one calls find for as long as  *)
(* it is registered, also when older connections of the user end after it  *)
(* began; a connection that has been unregistered is never found.          *)
NewestIsFound ==
    \A c \in Conns :
        /\ IsNewest(c) /\ state[c] = "active" => users[UserOf[c]] = c
        /\ users[UserOf[c]] = c => IsNewest(c) /\ state[c] = "active"

(* The three indexes of the hub, each under locks of its own, agree as far *)
(* as deliveries and calls depend on it.                                   *)
RegistryAgrees == SubscribedIsReached /\ NewestIsFound

(* Closing ends: a user's connection that is kicked, or lost, is           *)
(* unregistered and its queue closed in the end.                           *)
BrokenIsClosed == \A c \in Conns : c \in broken ~> state[c] = "closed"

(* As the comment on Unregister and ARCHITECTURE.md have it, Unregister    *)
(* takes a client out of every room.                                       *)
UnregisteredIsGone ==
    \A c \in Conns : \A r \in Rooms :
        state[c] \in {"unregistered", "closed"} => c \notin rooms[r]

=============================================================================
