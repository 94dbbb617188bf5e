----------------------------- MODULE MCServices ------------------------------
(* A small instance of Services: what its behaviours are about.            *)
EXTENDS Services, TLC

MCUserOf == [c \in Conns |-> "b"]

MCId == [a |-> 1, b |-> 2, r1 |-> 1, r2 |-> 2]

(* Two at the same time, one later.                                        *)
MCEventAbout == [e1 |-> [user |-> "b", room |-> "r1", category |-> "abuse", at |-> 1],
                 e2 |-> [user |-> "b", room |-> "r2", category |-> "spam", at |-> 1],
                 e3 |-> [user |-> "a", room |-> "r2", category |-> "spam", at |-> 2]]

Of(ops, max, rooms) == [ops |-> ops, max |-> max, rooms |-> rooms]

(* A download changes nothing.                                             *)
Changing == FileOps \ {"download", "admin_download"}

MCLoads ==
    { \* changes of members and rooms while a user connects: through Redis,
      \* by calls to the hub and through Redis, and of a room that comes back
      Of({"create", "join", "disband", "connect"}, 2, {"r1"}),
      Of({"join", "remove", "connect"}, 3, {"r1"}),
      Of({"join", "agent_kick", "connect"}, 2, {"r1"}),
      Of({"join", "remove_member", "connect"}, 3, {"r1"}),
      Of({"disband", "admin_disband", "freeze", "connect"}, 3, {"r1"}),
      \* administrators at one room
      Of(AdminActions \cup {"create"}, 2, {"r1"}),
      \* presence of overlapping connections, and a ban; two rooms in a list
      Of({"ban", "connect", "presence"}, 3, {}),
      Of({"connect", "presence"}, 2, RoomIds),
      \* administrators at users, events and the configuration
      Of(UserActions, 2, {}),
      Of({"ban", "unban", "audit_list"}, 3, {}),
      Of(EventActions, 2, {}),
      Of(ConfigActions, 3, {}),
      Of({"config_update", "history_list"}, 2, {}),
      \* the archive grows, with and without an index, and is searched
      Of({"keyword", "index", "search"}, 3, {"r1"}),
      Of(Kinds \cup {"search", "admin_disband"}, 2, {"r1"}),
      \* logins, registrations, files
      Of({"login", "time"}, 3, {}),
      Of({"login"}, 2, {}),
      Of({"admin_login"}, 3, {}),
      Of({"register"}, 3, {}),
      Of({"download", "admin_download", "upload"}, 1, {}),
      Of(Changing \cup {"upload"}, 2, {}) }

(* Files alone.                                                            *)
MCFileLoads == {Of(Changing \cup {"upload"}, 2, {})}

Symmetry == UNION {Permutations(S) : S \in {Workers, Conns, Addrs, Names}}

=============================================================================
