------------------------------- MODULE Rooms --------------------------------
(***************************************************************************)
(* Rooms, their members, and what a gateway knows of them: the rooms       *)
(* service (services/rooms), the admin's room actions                      *)
(* (services/admin/application/room_service.go), the agent's KickUser      *)
(* (services/gateway/grpc) and WsEndpoint (services/gateway/handlers) work *)
(* on two tables without a common transaction.  A change is committed      *)
(* first and told to the gateway afterwards: by the rooms service through  *)
(* Redis, by the others with a call to the hub.                            *)
(*                                                                         *)
(* Every statement to the database, every publication and every call to    *)
(* the hub is one step of the request that makes it.  The hub is seen from *)
(* outside, each of its operations a single step; module Hub has its       *)
(* inside.                                                                 *)
(***************************************************************************)
EXTENDS Requests

CONSTANTS Users, RoomIds, Conns,
          UserOf,       \* the user of a connection
          Platform,     \* users whose token carries the global role 1
          None

ASSUME RoomsAssumption ==
    /\ UserOf \in [Conns -> Users]
    /\ Platform \subseteq Users
    /\ None \notin Users \cup Conns
    /\ \A l \in Loads : l.rooms \subseteq RoomIds

VARIABLES room,     \* table rooms
          member,   \* table room_members: the role of a user, 0 without a row
          channel,  \* events published and not yet handled
          conn,     \* a connection's life
          got,      \* the rooms WsEndpoint read for a connection
          sub,      \* the rooms a connection is subscribed to
          cur,      \* the connection the hub finds for a user
          ended,    \* observation: the rooms of which a connection was last
                    \*   told that they are disbanded
          ver,      \* observation: changes of a user's row in a room
          known,    \* observation: the change a connection's view is from
          cause     \* observation: why a view may be wrong for good

tables == <<room, member>>
gateway == <<conn, got, sub, cur, ended>>
observed == <<ver, known, cause>>
roomVars == <<tables, channel, gateway, observed>>

-----------------------------------------------------------------------------
(* State *)

Row == [made : BOOLEAN, deleted : BOOLEAN, creator : Users \cup {None},
        frozen : BOOLEAN, moderated : BOOLEAN]

NoRow == [made |-> FALSE, deleted |-> FALSE, creator |-> None,
          frozen |-> FALSE, moderated |-> TRUE]

RowActions == {"freeze", "unfreeze", "moderation_enable", "moderation_disable"}

TargetActions == {"remove_member", "set_admin", "transfer_owner"}

AdminActions == RowActions \cup TargetActions \cup {"admin_disband"}

RoomOps == {"create", "join", "remove", "disband", "agent_kick"} \cup AdminActions

RoomRequest == [op : RoomOps, room : RoomIds, by : Users \cup {None},
            target : Users \cup {None}, row : Row,
            at : {"read", "right", "write", "role", "tell", "kick", "audit"},
            ver : [Users -> Nat]]

Event == [type : {"joined", "left", "disbanded"}, room : RoomIds, user : Users,
          ver : [Users -> Nat]]

RoomsTypeOK ==
    /\ room \in [RoomIds -> Row]
    /\ member \in [RoomIds -> [Users -> 0..3]]
    /\ channel \in Seq(Event)
    /\ conn \in [Conns -> {"new", "reading", "active", "closing", "gone"}]
    /\ got \in [Conns -> SUBSET RoomIds]
    /\ sub \in [Conns -> SUBSET RoomIds]
    /\ ended \in [Conns -> SUBSET RoomIds]
    /\ cur \in [Users -> Conns \cup {None}]
    /\ ver \in [RoomIds -> [Users -> Nat]]
    /\ known \in [Conns -> [RoomIds -> Nat]]
    /\ cause \subseteq Conns \X RoomIds
    /\ \A w \in Workers : req[w] # Idle /\ req[w].op \in RoomOps => req[w] \in RoomRequest

Created(u) == [NoRow EXCEPT !.made = TRUE, !.creator = u]

(* A gateway starts with the rooms there are: created and, besides their   *)
(* creator, joined by some, or still to be created.                        *)
RoomsInit ==
    /\ room \in [RoomIds -> {NoRow} \cup {Created(u) : u \in Users}]
    /\ \A r \in RoomIds \ load.rooms : room[r] = NoRow
    /\ member \in [RoomIds -> [Users -> 0..2]]
    /\ \A r \in RoomIds, u \in Users :
          /\ room[r].made \/ member[r][u] = 0
          /\ member[r][u] = 2 <=> room[r].creator = u
    /\ channel = << >>
    /\ conn = [c \in Conns |-> "new"]
    /\ got = [c \in Conns |-> {}]
    /\ sub = [c \in Conns |-> {}]
    /\ cur = [u \in Users |-> None]
    /\ ended = [c \in Conns |-> {}]
    /\ ver = [r \in RoomIds |-> [u \in Users |-> 0]]
    /\ known = [c \in Conns |-> [r \in RoomIds |-> 0]]
    /\ cause = {}

(* GetRoomByID and every query through the model see no deleted row.       *)
Live(r) == room[r].made /\ ~room[r].deleted

(* Rows of room_members alone, whether the room was disbanded or not.      *)
GetUserRoomIDs(u) == {r \in RoomIds : member[r][u] > 0}

(* The list a user is shown joins the rooms.                               *)
JoinedRooms(u) == {r \in RoomIds : Live(r) /\ member[r][u] > 0}

Registered(c) == conn[c] \in {"active", "closing"}

Present(u) == {c \in Conns : UserOf[c] = u /\ (Registered(c) \/ conn[c] = "reading")}

Changed(r, us) ==
    ver' = [ver EXCEPT ![r] = [u \in Users |-> @[u] + (IF u \in us THEN 1 ELSE 0)]]

-----------------------------------------------------------------------------
(* Requests *)

RoomRequestOf(op, r, by, target, at) ==
    [op |-> op, room |-> r, by |-> by, target |-> target, row |-> NoRow, at |-> at,
     ver |-> ver[r]]

(* The handlers of the rooms service: a user creates, joins, leaves or     *)
(* disbands a room, or takes somebody out of it.                           *)
createRoom(r, u) == RoomRequestOf("create", r, u, u, "write")

joinRoom(r, u) == RoomRequestOf("join", r, u, u, "read")

removeMember(r, u, target) == RoomRequestOf("remove", r, u, target, "read")

disbandRoom(r, u) == RoomRequestOf("disband", r, u, u, "read")

(* The agent's call takes a member out without looking at the room.        *)
AgentKickUser(r, target) == RoomRequestOf("agent_kick", r, None, target, "write")

(* An administrator's action; some of them are meant for a target, which   *)
(* may be missing.                                                         *)
AdminRoomAction(op, r, target) == RoomRequestOf(op, r, None, target, "read")

AdminDeleteRoom(r) == AdminRoomAction("admin_disband", r, None)

RoomRequests(r) ==
    {createRoom(r, u) : u \in Users} \cup {joinRoom(r, u) : u \in Users}
    \cup {disbandRoom(r, u) : u \in Users} \cup {AgentKickUser(r, u) : u \in Users}
    \cup {removeMember(r, u, target) : u, target \in Users}
    \cup {AdminRoomAction(op, r, None) : op \in RowActions} \cup {AdminDeleteRoom(r)}
    \cup {AdminRoomAction(op, r, target) : op \in TargetActions, target \in Users \cup {None}}

BeginRoom(w, q) ==
    /\ (q.op = "create") <=> ~room[q.room].made
    /\ Arrives(w, q)
    /\ UNCHANGED roomVars

(* The change is committed: what is told about it is of this version.      *)
GoTell(w) == req' = [req EXCEPT ![w].at = "tell", ![w].ver = ver'[req[w].room]]

(* The first check of RemoveMember, before the operator's role is read.    *)
MayRemove(q, row) ==
    q.by \in Platform \/ q.by = q.target \/ row.creator = q.by

(* Another than himself, or the platform's administrator, does not remove  *)
(* the owner.                                                              *)
OwnerStays(q, row) ==
    q.target = row.creator /\ q.by # q.target /\ q.by \notin Platform

AfterRead(q, row) ==
    CASE q.op = "disband" -> "right"
      [] q.op = "remove" /\ ~MayRemove(q, row) -> "right"
      [] q.op = "remove" /\ OwnerStays(q, row) -> "refused"
      [] OTHER -> "write"

(* GetRoomByID, or First of ApplyAction: the whole row is kept.            *)
ReadRoom(w) ==
    /\ Doing(w, RoomOps, "read")
    /\ LET q == req[w]
           row == room[q.room]
       IN  IF Live(q.room) /\ AfterRead(q, row) # "refused"
           THEN req' = [req EXCEPT ![w].row = row, ![w].at = AfterRead(q, row)]
           ELSE Return(w)
    /\ Quietly
    /\ UNCHANGED roomVars

HasRight(q, role) ==
    IF q.op = "remove" THEN role >= 2 /\ ~OwnerStays(q, q.row)
                       ELSE role > 0 /\ (q.row.creator = q.by \/ role = 3)

(* GetMemberRole of the operator.                                          *)
ReadRole(w) ==
    /\ Doing(w, RoomOps, "right")
    /\ IF HasRight(req[w], member[req[w].room][req[w].by]) THEN Go(w, "write") ELSE Return(w)
    /\ Quietly
    /\ UNCHANGED roomVars

-----------------------------------------------------------------------------
(* What a request writes *)

Writes(w, ops) == Doing(w, ops, "write")

CreateRoom(w) ==
    /\ Writes(w, {"create"})
    /\ LET r == req[w].room
           u == req[w].by
       IN  /\ ~room[r].made
           /\ room' = [room EXCEPT ![r] = Created(u)]
           /\ member' = [member EXCEPT ![r][u] = 2]
           /\ Changed(r, {u})
    /\ GoTell(w)
    /\ Quietly
    /\ UNCHANGED <<channel, gateway, known, cause>>

(* A row that is there stays as it is; a room disbanded since it was read  *)
(* still gets its member.                                                  *)
JoinRoom(w) ==
    /\ Writes(w, {"join"})
    /\ LET r == req[w].room
           u == req[w].by
       IN  IF member[r][u] = 0
           THEN member' = [member EXCEPT ![r][u] = 1] /\ Changed(r, {u})
           ELSE UNCHANGED <<member, ver>>
    /\ GoTell(w)
    /\ Quietly
    /\ UNCHANGED <<room, channel, gateway, known, cause>>

(* No row is an error to the rooms service and to the agent's call, not to *)
(* an administrator.                                                       *)
RemoveMember(w) ==
    /\ Writes(w, {"remove", "agent_kick", "remove_member"}) /\ req[w].target # None
    /\ LET r == req[w].room
           u == req[w].target
       IN  IF member[r][u] > 0
           THEN member' = [member EXCEPT ![r][u] = 0] /\ Changed(r, {u}) /\ GoTell(w)
           ELSE /\ UNCHANGED <<member, ver>>
                /\ IF req[w].op = "remove_member" THEN GoTell(w) ELSE Return(w)
    /\ Quietly
    /\ UNCHANGED <<room, channel, gateway, known, cause>>

(* Only the row of the room is marked; the members keep theirs.            *)
SoftDeleteRoom(w) ==
    /\ Writes(w, {"disband", "admin_disband"})
    /\ LET r == req[w].room
       IN  /\ room' = [room EXCEPT ![r].deleted = TRUE]
           /\ Changed(r, IF Live(r) THEN Users ELSE {})
    /\ GoTell(w)
    /\ Quietly
    /\ UNCHANGED <<member, channel, gateway, known, cause>>

SetAdmin(w) ==
    /\ Writes(w, {"set_admin"}) /\ req[w].target # None
    /\ member' = [member EXCEPT ![req[w].room][req[w].target] = IF @ > 0 THEN 2 ELSE 0]
    /\ Go(w, "audit")
    /\ Quietly
    /\ UNCHANGED <<room, channel, gateway, observed>>

Acted(row, q) ==
    CASE q.op = "freeze" -> [row EXCEPT !.frozen = TRUE]
      [] q.op = "unfreeze" -> [row EXCEPT !.frozen = FALSE]
      [] q.op = "moderation_enable" -> [row EXCEPT !.moderated = TRUE]
      [] q.op = "moderation_disable" -> [row EXCEPT !.moderated = FALSE]
      [] q.op = "transfer_owner" /\ q.target # None -> [row EXCEPT !.creator = q.target]
      [] OTHER -> row

(* An action that lacks its target saves the row as it is.                 *)
Saves(w) ==
    /\ Writes(w, RowActions \cup TargetActions)
    /\ req[w].op \in {"remove_member", "set_admin"} => req[w].target = None

(* Save writes every column of the row as it was read.  Where no live row  *)
(* is left to update, the ORM inserts it with its key, which for a         *)
(* disbanded room updates the old row: the room is back, and moderated, as *)
(* an insertion takes a column's default for a zero value.                 *)
Written(q, live) ==
    IF live THEN Acted(q.row, q) ELSE [Acted(q.row, q) EXCEPT !.moderated = TRUE]

SaveRoom(w) ==
    /\ Saves(w)
    /\ LET r == req[w].room
           back == IF Live(r) THEN {} ELSE Users
       IN  /\ room' = [room EXCEPT ![r] = Written(req[w], Live(r))]
           /\ Changed(r, back)
           /\ cause' = cause \cup {<<c, r>> : c \in UNION {Present(u) : u \in back}}
    /\ Go(w, IF req[w].op = "transfer_owner" /\ req[w].target # None THEN "role" ELSE "audit")
    /\ Quietly
    /\ UNCHANGED <<member, channel, gateway, known>>

Entry(q) == [op |-> q.op, target |-> q.room]

(* updateMemberRole of transfer_owner, which writes the log as well: no    *)
(* row, or an error, is passed over.                                       *)
OwnerRole(w) ==
    /\ Doing(w, RoomOps, "role")
    /\ member' = [member EXCEPT ![req[w].room][req[w].target] = IF @ > 0 THEN 3 ELSE 0]
    /\ Log(Entry(req[w]))
    /\ Go(w, "audit")
    /\ UNCHANGED <<room, channel, gateway, observed>>

OwnerRoleFails(w) ==
    /\ Doing(w, RoomOps, "role")
    /\ Fault
    /\ Go(w, "audit")
    /\ UNCHANGED roomVars

(* Mutant: an action whose effect is in a row alone is not logged.         *)
WriteAuditOfMembers(w) ==
    /\ Doing(w, RoomOps, "audit")
    /\ IF req[w].op \in RowActions \cup {"transfer_owner"} THEN Quietly ELSE Log(Entry(req[w]))
    /\ Return(w)
    /\ UNCHANGED roomVars

WriteAudit(w) ==
    /\ Doing(w, RoomOps, "audit")
    /\ Log(Entry(req[w]))
    /\ Return(w)
    /\ UNCHANGED roomVars

-----------------------------------------------------------------------------
(* What a gateway is told *)

EventOf(q) ==
    [type |-> CASE q.op \in {"create", "join"} -> "joined"
                [] q.op \in {"disband", "admin_disband"} -> "disbanded"
                [] OTHER -> "left",
     room |-> q.room, user |-> q.target, ver |-> q.ver]

(* The connections a hub operation reaches: the one it finds for the user, *)
(* or all of a disbanded room.                                             *)
Reached(e) ==
    IF e.type = "disbanded" THEN {c \in Conns : Registered(c)}
                            ELSE {c \in Conns : Registered(c) /\ cur[e.user] = c}

(* Mutant: a join is taken for a change the connection knows of.           *)
JoinIgnored(e) == [c \in Conns |-> IF c \in Reached(e) THEN sub[c] \ {e.room} ELSE sub[c]]

Subscriptions(e) ==
    [c \in Conns |-> IF c \notin Reached(e) THEN sub[c]
                     ELSE IF e.type = "joined" THEN sub[c] \cup {e.room}
                     ELSE sub[c] \ {e.room}]

(* Observed: news older than what the connection has, and news that passes *)
(* by a connection whose rooms are read and which is not yet registered.   *)
Concerns(e) == IF e.type = "disbanded" THEN Conns ELSE {c \in Conns : UserOf[c] = e.user}

Overtaken(e) == {c \in Reached(e) : e.ver[UserOf[c]] < known[c][e.room]}

PassedBy(e) == {c \in Concerns(e) : conn[c] = "reading" /\ e.ver[UserOf[c]] > known[c][e.room]}

Apply(e) ==
    /\ sub' = Subscriptions(e)
    /\ known' = [c \in Conns |-> IF c \in Reached(e)
                                 THEN [known[c] EXCEPT ![e.room] = e.ver[UserOf[c]]]
                                 ELSE known[c]]
    /\ ended' = [c \in Conns |-> IF c \notin Reached(e) THEN ended[c]
                                 ELSE IF e.type = "disbanded" THEN ended[c] \cup {e.room}
                                 ELSE ended[c] \ {e.room}]
    /\ cause' = cause \cup {<<c, e.room>> : c \in Overtaken(e) \cup PassedBy(e)}
    /\ UNCHANGED <<conn, got, cur, ver>>

Untold(e) ==
    cause' = cause \cup {<<c, e.room>> : c \in UNION {Present(UserOf[d]) : d \in Concerns(e)}}

Tells(w) == Doing(w, RoomOps, "tell")

RoomService == {"create", "join", "remove", "disband"}

(* Through Redis to every gateway.                                         *)
Publish(w) ==
    /\ Tells(w) /\ req[w].op \in RoomService
    /\ channel' = Append(channel, EventOf(req[w]))
    /\ Return(w)
    /\ Quietly
    /\ UNCHANGED <<tables, gateway, observed>>

(* Straight to the hub, by the admin control plane or the agent's service. *)
CallHub(w) ==
    /\ Tells(w) /\ req[w].op \notin RoomService
    /\ Apply(EventOf(req[w]))
    /\ Go(w, IF req[w].op = "agent_kick" THEN "kick" ELSE "audit")
    /\ Quietly
    /\ UNCHANGED <<tables, channel>>

DisconnectUser(w) ==
    /\ Doing(w, RoomOps, "kick")
    /\ conn' = [c \in Conns |-> IF cur[req[w].target] = c THEN "closing" ELSE conn[c]]
    /\ Return(w)
    /\ Quietly
    /\ UNCHANGED <<tables, channel, got, sub, cur, ended, observed>>

(* A failed publication is logged and the request succeeds; any other      *)
(* error, or the end of the service, ends the request where it is.         *)
RoomFails(w) ==
    /\ req[w] # Idle /\ req[w].op \in RoomOps
    /\ Fault
    /\ IF Tells(w) THEN Untold(EventOf(req[w])) ELSE UNCHANGED cause
    /\ Return(w)
    /\ UNCHANGED <<tables, channel, gateway, ver, known>>

(* External: a subscription to Redis that is interrupted misses events.    *)
LoseEvent ==
    /\ channel # << >>
    /\ Fault
    /\ Untold(Head(channel))
    /\ channel' = Tail(channel)
    /\ UNCHANGED <<tables, req, gateway, ver, known>>

(* StartRoomEventListener, one event after the other.                      *)
HandleEvent ==
    /\ channel # << >>
    /\ Apply(Head(channel))
    /\ channel' = Tail(channel)
    /\ Quietly
    /\ UNCHANGED <<tables, req>>

-----------------------------------------------------------------------------
(* WsEndpoint *)

ReadRooms(c) ==
    /\ conn[c] = "new"
    /\ Asked("connect")
    /\ served < load.max
    /\ conn' = [conn EXCEPT ![c] = "reading"]
    /\ got' = [got EXCEPT ![c] = GetUserRoomIDs(UserOf[c])]
    /\ known' = [known EXCEPT ![c] = [r \in RoomIds |-> ver[r][UserOf[c]]]]
    /\ ended' = [ended EXCEPT ![c] = {}]
    /\ served' = served + 1
    /\ UNCHANGED <<load, faults, audit, tables, req, channel, sub, cur, ver, cause>>

(* The upgrade succeeds and the hub takes the connection with these rooms. *)
Register(c) ==
    /\ conn[c] = "reading"
    /\ conn' = [conn EXCEPT ![c] = "active"]
    /\ sub' = [sub EXCEPT ![c] = got[c]]
    /\ got' = [got EXCEPT ![c] = {}]
    /\ cur' = [cur EXCEPT ![UserOf[c]] = c]
    /\ Quietly
    /\ UNCHANGED <<tables, req, channel, ended, observed>>

(* The client tries again, as another connection.                          *)
UpgradeFails(c) ==
    /\ conn[c] = "reading"
    /\ conn' = [conn EXCEPT ![c] = "new"]
    /\ got' = [got EXCEPT ![c] = {}]
    /\ known' = [known EXCEPT ![c] = [r \in RoomIds |-> 0]]
    /\ cause' = {p \in cause : p[1] # c}
    /\ Quietly
    /\ UNCHANGED <<tables, req, channel, sub, cur, ended, ver>>

Unregister(c) ==
    /\ Registered(c)
    /\ conn' = [conn EXCEPT ![c] = "gone"]
    /\ sub' = [sub EXCEPT ![c] = {}]
    /\ cur' = [u \in Users |-> IF cur[u] = c THEN None ELSE cur[u]]
    /\ Quietly
    /\ UNCHANGED <<tables, req, channel, got, ended, observed>>

-----------------------------------------------------------------------------
(* Next-state relation *)

RoomStep(w) == \/ ReadRoom(w) \/ ReadRole(w)
               \/ CreateRoom(w) \/ JoinRoom(w) \/ RemoveMember(w) \/ SoftDeleteRoom(w)
               \/ SetAdmin(w) \/ SaveRoom(w) \/ OwnerRole(w) \/ WriteAudit(w)
               \/ Publish(w) \/ CallHub(w) \/ DisconnectUser(w)

ConnStep(c) == ReadRooms(c) \/ Register(c) \/ UpgradeFails(c) \/ Unregister(c)

RoomsNext ==
    \/ \E w \in Workers :
          \/ RoomStep(w) \/ RoomFails(w) \/ OwnerRoleFails(w)
          \/ Free(w) /\ \E r \in load.rooms : \E q \in RoomRequests(r) : BeginRoom(w, q)
    \/ HandleEvent \/ LoseEvent
    \/ \E c \in Conns : ConnStep(c)

-----------------------------------------------------------------------------
(* Properties *)

Quiet == channel = << >> /\ Resting

Logged(op, r) ==
    \E i \in DOMAIN audit : audit[i].op = op /\ audit[i].target = r

(* Once requests and events have come to rest, the connection the hub has  *)
(* for a user (not an older one that he opened before it) is subscribed to *)
(* exactly the rooms he has a row in, but for those of which it was last   *)
(* told that they are disbanded.  So the live rooms he is shown as his are *)
(* all there and no others; but as the rows of members outlive their room, *)
(* a connection that reads its rooms after a disband, and is not told of   *)
(* it any more, is subscribed to the disbanded room again.  Nothing is     *)
(* said of a connection and a room (cause) when news of that room was      *)
(* lost, was overtaken by older news or passed the connection by between   *)
(* the reading of its rooms and its registration, or the room came back    *)
(* after it had been disbanded.                                            *)
SubscriptionsFollowTable ==
    Quiet => \A c \in Conns, r \in RoomIds :
        conn[c] = "active" /\ cur[UserOf[c]] = c /\ <<c, r>> \notin cause
            => (r \in sub[c] <=> /\ r \in GetUserRoomIDs(UserOf[c])
                                /\ ~(room[r].deleted /\ r \in ended[c]))

(* What only an administrator's action leaves in the tables is in the log  *)
(* of his actions as soon as no action is under way, also where actions    *)
(* overlapped and undid each other, unless one was cut short.              *)
AuditExplainsTables ==
    Quiet /\ faults = 0 => \A r \in RoomIds :
        /\ room[r].frozen => Logged("freeze", r)
        /\ ~room[r].moderated => Logged("moderation_disable", r)
        /\ (\E u \in Users : member[r][u] = 3) => Logged("transfer_owner", r)

=============================================================================
