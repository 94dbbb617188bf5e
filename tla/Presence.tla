------------------------------ MODULE Presence ------------------------------
(***************************************************************************)
(* Who is shown as online: one Redis key per user, set by WsEndpoint after *)
(* it registered a connection, renewed by the connection's WritePump,      *)
(* deleted by the same handler when the connection has ended               *)
(* (cache/redisconfig.go).  The key holds the connection that set it, and  *)
(* a connection renews and deletes only a key that is its own.  An         *)
(* administrator who bans or deletes a user deletes the key whoever it     *)
(* belongs to.                                                             *)
(*                                                                         *)
(* The handler of a connection sets and deletes the key in its own order,  *)
(* while the hub may have evicted the connection already.  Behaviours that *)
(* are not about presence leave these steps out.                           *)
(***************************************************************************)
EXTENDS Rooms

VARIABLES online,   \* the connection in a user's key
          shown,    \* what the handler of a connection has done to the key
          latest,   \* observation: the connection that set the key last
          wiped     \* observation: users whose key was taken from its connection

presenceVars == <<online, shown, latest, wiped>>

PresenceTypeOK ==
    /\ online \in [Users -> Conns \cup {None}]
    /\ shown \in [Conns -> {"no", "set", "deleted", "failed"}]
    /\ latest \in [Users -> Conns \cup {None}]
    /\ wiped \subseteq Users

PresenceInit ==
    /\ online = [u \in Users |-> None]
    /\ shown = [c \in Conns |-> "no"]
    /\ latest = [u \in Users |-> None]
    /\ wiped = {}

Sets(c) ==
    /\ online' = [online EXCEPT ![UserOf[c]] = c]
    /\ latest' = [latest EXCEPT ![UserOf[c]] = c]
    /\ wiped' = wiped \ {UserOf[c]}

HandlerSets(c) ==
    /\ Asked("presence")
    /\ shown[c] = "no"
    /\ conn[c] \in {"active", "closing", "gone"}
    /\ shown' = [shown EXCEPT ![c] = "set"]
    /\ UNCHANGED <<req, roomVars>>

SetUserConnectionOnline(c) == HandlerSets(c) /\ Sets(c) /\ Quietly

(* A call that timed out may have been carried out.  The handler goes on   *)
(* either way.                                                             *)
SetOnlineFails(c) ==
    /\ HandlerSets(c)
    /\ Fault
    /\ Sets(c) \/ UNCHANGED <<online, latest, wiped>>

(* Mutant: the key goes, whoever has set it.                               *)
WithoutKey(c) == [online EXCEPT ![UserOf[c]] = None]

(* deleteOwnedOnlineScript.                                                *)
WithoutOwnKey(c) ==
    IF online[UserOf[c]] = c THEN [online EXCEPT ![UserOf[c]] = None] ELSE online

(* The deferred function of WsEndpoint, after Unregister.                  *)
HandlerDeletes(c) ==
    /\ shown[c] = "set"
    /\ conn[c] = "gone"
    /\ UNCHANGED <<req, roomVars, latest, wiped>>

SetUserConnectionOffline(c) ==
    /\ HandlerDeletes(c)
    /\ online' = WithoutOwnKey(c)
    /\ shown' = [shown EXCEPT ![c] = "deleted"]
    /\ Quietly

SetOfflineFails(c) ==
    /\ HandlerDeletes(c)
    /\ Fault
    /\ online' \in {online, WithoutOwnKey(c)}
    /\ shown' = [shown EXCEPT ![c] = "failed"]

(* External: no renewal in 60 seconds.  The WritePump of an open           *)
(* connection renews its own key with every ping, so it must have failed.  *)
Expire(u) ==
    /\ online[u] # None
    /\ IF conn[online[u]] = "active" THEN Fault /\ wiped' = wiped \cup {u}
                                     ELSE Quietly /\ UNCHANGED wiped
    /\ online' = [online EXCEPT ![u] = None]
    /\ UNCHANGED <<req, roomVars, shown, latest>>

PresenceNext ==
    \/ \E c \in Conns : \/ SetUserConnectionOnline(c) \/ SetOnlineFails(c)
                        \/ SetUserConnectionOffline(c) \/ SetOfflineFails(c)
    \/ \E u \in Users : Expire(u)

-----------------------------------------------------------------------------
(* Properties *)

(* Of overlapping connections of a user the one that set the key last owns *)
(* it for as long as it is open, whatever the others do when they end,     *)
(* unless the key was taken from it; and a key never names a connection    *)
(* whose handler has deleted its key without an error.                     *)
PresenceIsTheLatest ==
    \A u \in Users :
        /\ latest[u] # None /\ u \notin wiped /\ conn[latest[u]] = "active"
             => online[u] = latest[u]
        /\ online[u] # None => shown[online[u]] # "deleted"

=============================================================================
