----------------------------- MODULE Statistics ------------------------------
(***************************************************************************)
(* The archive as administrators count it: MessageStatsStore               *)
(* (services/admin/application/message_stats.go) with its two              *)
(* implementations, over MySQL and over MongoDB, as far as the lists and   *)
(* details of users and rooms call it.  MySQL refuses the statements that  *)
(* name a column "key".                                                    *)
(*                                                                         *)
(* No message is ever marked as deleted: nothing calls                     *)
(* SoftDeleteUserMessagesInRoom.                                           *)
(***************************************************************************)
EXTENDS Governance

CONSTANTS Hours   \* created_at, in hours from 0; today began with the last

ASSUME StatisticsAssumption == Hours \in Nat

VARIABLES store,      \* "mysql" or "mongo"
          messages    \* the archive, in the order of its ids

archive == <<store, messages>>

(* Texts that match a keyword, and all other messages.                     *)
Kinds == {"keyword", "other"}

Archived == [room : RoomIds, sender : Users, kind : Kinds, at : 0..Hours]

StatisticsTypeOK ==
    /\ store \in {"mysql", "mongo"}
    /\ messages \in Seq(Archived)

StatisticsInit ==
    /\ store \in IF load.ops \cap Kinds # {} /\ ~Asked("index") THEN {"mysql", "mongo"} ELSE {"mongo"}
    /\ messages = << >>

(* External: messages of members, as many as there may be.                 *)
ToArchive ==
    IF served = load.max \/ load.ops \cap Kinds = {} THEN {}
    ELSE {m \in Archived : Asked(m.kind) /\ member[m.room][m.sender] > 0}

(* External: the archiver saves one.                                       *)
ArchiveMessage(m) ==
    /\ messages' = Append(messages, m)
    /\ served' = served + 1
    /\ UNCHANGED <<req, load, faults, audit, roomVars, presenceVars, governanceVars, store>>

-----------------------------------------------------------------------------
(* Counts for the details *)

InRoom(r) == {i \in DOMAIN messages : messages[i].room = r}

(* created_at >= start AND created_at < end.                               *)
Between(start, end) == {i \in DOMAIN messages : start <= messages[i].at /\ messages[i].at < end}

CountBySender(u) == Cardinality({i \in DOMAIN messages : messages[i].sender = u})

CountByRoom(r, start, end) == Cardinality(InRoom(r) \cap Between(start, end))

CountByRoomTotal(r) == Cardinality(InRoom(r))

-----------------------------------------------------------------------------
(* Counts by keys, for the lists *)

SenderOf == [i \in DOMAIN messages |-> messages[i].sender]

RoomOf == [i \in DOMAIN messages |-> messages[i].room]

(* A key without a message is read as 0.                                   *)
groupCountByKeys(ids, keys, key) ==
    [k \in keys |-> Cardinality({i \in ids : key[i] = k})]

(* MySQL refuses the statement; its callers pass over the error.           *)
Refused(keys) == [k \in keys |-> 0]

CountsBySenderIDs(us) ==
    IF store = "mysql" THEN Refused(us) ELSE groupCountByKeys(DOMAIN messages, us, SenderOf)

CountsByRoomIDs(rs, start, end) ==
    IF store = "mysql" THEN Refused(rs) ELSE groupCountByKeys(Between(start, end), rs, RoomOf)

CountsByRoomTotalIDs(rs) ==
    IF store = "mysql" THEN Refused(rs) ELSE groupCountByKeys(DOMAIN messages, rs, RoomOf)

=============================================================================
