----------------------------- MODULE Governance -----------------------------
(***************************************************************************)
(* What administrators do to users, to moderation events and to the        *)
(* agent's configuration (services/admin/application: user_service.go,     *)
(* moderation_dashboard.go, agent_config_service.go, audit.go).            *)
(*                                                                         *)
(* Every action has one shape: the row is read, changed in memory and      *)
(* saved whole; a ban then closes the user's connection and deletes his    *)
(* presence key; the action is logged with the row as it was read and as   *)
(* it was saved.  Nothing but the saving of a configuration together with  *)
(* its history is a transaction, so two actions on a row may each save     *)
(* what they read before the other saved, and are logged in either order.  *)
(***************************************************************************)
EXTENDS Presence

CONSTANTS Targets,   \* users administrators act on
          Events,    \* moderation events
          Fields,    \* of the agent's configuration
          Flags,     \* those that are set to whatever they are given
          PageSizes  \* sizes of a page that are asked for

ASSUME GovernanceAssumption ==
    /\ Targets \subseteq Users
    /\ Targets \cap Events = {} /\ "config" \notin Targets \cup Events
    /\ Fields # {} /\ Flags \subseteq Fields
    /\ PageSizes \subseteq Int

VARIABLES row,       \* tables users, moderation_events, global_agent_configs
          history,   \* table agent_config_histories
          mixed,     \* observation: rows on which two requests overlapped
          list       \* an administrator who reads the log page by page

governed == <<row, history, mixed>>
governanceVars == <<row, history, mixed, list>>

-----------------------------------------------------------------------------
(* Rows *)

RoleOf == [role_user |-> 0, role_super_admin |-> 1, role_moderator |-> 2, role_operator |-> 3]

UserActions == {"ban", "unban"} \cup DOMAIN RoleOf

Penalty == [warn |-> "warned", mute |-> "muted", kick_event |-> "kicked", ban_event |-> "banned"]

EventActions == DOMAIN Penalty \cup {"revoke", "false_positive", "confirmed"}

ConfigActions == {"config_get", "config_update", "config_rollback"}

GovernanceOps == UserActions \cup EventActions \cup ConfigActions

User == [status : 0..1, role : 0..3]

Event_ == [penalty : {"none", "warned", "muted", "kicked", "banned"},
           review : {"pending", "reviewed", "revoked", "false_positive", "confirmed"}]

Config == [Fields -> 0..1]

NoConfig == << >>

(* defaultGlobalAgentConfig.                                               *)
Defaults == [f \in Fields |-> 0]

Rows == Targets \cup Events \cup {"config"}

First == [t \in Rows |-> IF t \in Targets THEN [status |-> 0, role |-> 0]
                         ELSE IF t \in Events THEN [penalty |-> "none", review |-> "pending"]
                         ELSE NoConfig]

GovernanceTypeOK ==
    /\ \A t \in Targets : row[t] \in User
    /\ \A e \in Events : row[e] \in Event_
    /\ row["config"] \in Config \cup {NoConfig}
    /\ \A i \in DOMAIN history : history[i].before \in Config /\ history[i].after \in Config
    /\ mixed \subseteq Rows

GovernanceInit ==
    /\ row = First
    /\ history = << >>
    /\ mixed = {}
    /\ list = [of |-> "none", page |-> 0, size |-> 0, upto |-> 0, seen |-> {}]

(* An update takes over the fields it names; of those that are no flags    *)
(* zero is none.                                                           *)
Updated(q) ==
    IF q.field \in Flags \/ q.value > 0 THEN [q.row EXCEPT ![q.field] = q.value] ELSE q.row

(* What an action makes of the row it read.  A rollback takes what the     *)
(* newest history row replaced.                                            *)
Changes(q) ==
    CASE q.op = "ban" -> [q.row EXCEPT !.status = 1]
      [] q.op = "unban" -> [q.row EXCEPT !.status = 0]
      [] q.op \in DOMAIN RoleOf -> [q.row EXCEPT !.role = RoleOf[q.op]]
      [] q.op \in DOMAIN Penalty -> [penalty |-> Penalty[q.op], review |-> "reviewed"]
      [] q.op = "revoke" -> [penalty |-> "none", review |-> "revoked"]
      [] q.op = "false_positive" -> [penalty |-> "none", review |-> "false_positive"]
      [] q.op = "confirmed" -> [q.row EXCEPT !.review = "confirmed"]
      [] q.op = "config_update" -> Updated(q)
      [] q.op = "config_rollback" -> q.old

-----------------------------------------------------------------------------
(* Requests *)

ActionOf(op, t, field, value, at) ==
    [op |-> op, target |-> t, field |-> field, value |-> value,
     row |-> NoConfig, old |-> NoConfig, at |-> at]

AdminUserAction(op, u) == ActionOf(op, u, None, 0, "read")

AdminModerationAction(op, e) == ActionOf(op, e, None, 0, "read")

AdminAgentConfigGet == ActionOf("config_get", "config", None, 0, "read")

AdminAgentConfigUpdate(field, value) == ActionOf("config_update", "config", field, value, "read")

AdminAgentConfigRollback == ActionOf("config_rollback", "config", None, 0, "latest")

AdminRequests ==
    {AdminUserAction(op, u) : op \in UserActions, u \in Targets}
    \cup {AdminModerationAction(op, e) : op \in EventActions, e \in Events}
    \cup {AdminAgentConfigGet, AdminAgentConfigRollback}
    \cup {AdminAgentConfigUpdate(field, value) : field \in Fields, value \in 0..1}

BeginAction(w, q) ==
    /\ Arrives(w, q)
    /\ mixed' = IF \E v \in Workers : req[v] # Idle /\ req[v].target = q.target
                THEN mixed \cup {q.target} ELSE mixed
    /\ UNCHANGED <<roomVars, presenceVars, row, history, list>>

(* Mutant: what the newest history row saved.                              *)
AfterData == history[Len(history)].after

(* What the newest history row replaced.                                   *)
BeforeData == history[Len(history)].before

(* Rollback: the newest history row; without one the request is refused.   *)
ReadLatest(w) ==
    /\ Doing(w, {"config_rollback"}, "latest")
    /\ IF history = << >> THEN Return(w)
       ELSE req' = [req EXCEPT ![w].at = "read", ![w].old = BeforeData]
    /\ Quietly
    /\ UNCHANGED <<roomVars, presenceVars, governanceVars>>

(* First; of a configuration that is not there yet the defaults are        *)
(* created.                                                                *)
ReadRow(w) ==
    /\ Doing(w, GovernanceOps, "read")
    /\ LET now == row[req[w].target]
       IN  IF now = NoConfig THEN Go(w, "create")
           ELSE IF req[w].op = "config_get" THEN Return(w)
           ELSE req' = [req EXCEPT ![w].row = now, ![w].at = "save"]
    /\ Quietly
    /\ UNCHANGED <<roomVars, presenceVars, governanceVars>>

(* The second of two creators meets the first one's key, and fails.        *)
CreateConfig(w) ==
    /\ Doing(w, ConfigActions, "create")
    /\ IF row["config"] # NoConfig
       THEN Return(w) /\ UNCHANGED row
       ELSE /\ row' = [row EXCEPT !["config"] = Defaults]
            /\ IF req[w].op = "config_get" THEN Return(w)
               ELSE req' = [req EXCEPT ![w].row = Defaults, ![w].at = "save"]
    /\ Quietly
    /\ UNCHANGED <<roomVars, presenceVars, history, mixed, list>>

SaveRow(w) ==
    /\ Doing(w, UserActions \cup EventActions, "save")
    /\ row' = [row EXCEPT ![req[w].target] = Changes(req[w])]
    /\ Go(w, IF req[w].op = "ban" THEN "kick" ELSE "log")
    /\ Quietly
    /\ UNCHANGED <<roomVars, presenceVars, history, mixed, list>>

MaxVersion == IF history = << >> THEN 0 ELSE history[Len(history)].version

(* One transaction; the row it saves first keeps a second one out of       *)
(* MAX(version).                                                           *)
SaveConfig(w) ==
    /\ Doing(w, {"config_update", "config_rollback"}, "save")
    /\ LET q == req[w]
       IN  /\ row' = [row EXCEPT !["config"] = Changes(q)]
           /\ history' = Append(history, [version |-> MaxVersion + 1, op |-> q.op,
                                          before |-> q.row, after |-> Changes(q)])
    /\ Go(w, "log")
    /\ Quietly
    /\ UNCHANGED <<roomVars, presenceVars, mixed, list>>

(* KickUser closes the connection the hub finds.                           *)
KickUser(w) ==
    /\ Doing(w, {"ban"}, "kick")
    /\ conn' = [c \in Conns |-> IF cur[req[w].target] = c THEN "closing" ELSE conn[c]]
    /\ Go(w, "offline")
    /\ Quietly
    /\ UNCHANGED <<tables, channel, got, sub, cur, ended, observed, presenceVars, governanceVars>>

SetUserOffline(w) ==
    /\ Doing(w, {"ban"}, "offline")
    /\ online' = [online EXCEPT ![req[w].target] = None]
    /\ wiped' = wiped \cup {req[w].target}
    /\ Go(w, "log")
    /\ Quietly
    /\ UNCHANGED <<roomVars, shown, latest, governanceVars>>

(* Mutant: the row is remembered after it was changed.                     *)
BeforeOfSaved(q) == Changes(q)

BeforeOf(q) == q.row

(* What is logged of a rollback is only that there was one.                *)
Shown(q, r) == IF q.op = "config_rollback" THEN NoConfig ELSE r

LogAction(w) ==
    /\ Doing(w, GovernanceOps, "log")
    /\ Log([op |-> req[w].op, target |-> req[w].target,
            before |-> Shown(req[w], BeforeOf(req[w])), after |-> Shown(req[w], Changes(req[w]))])
    /\ Return(w)
    /\ UNCHANGED <<roomVars, presenceVars, governanceVars>>

(* A presence key that cannot be deleted is passed over; any other error   *)
(* ends the action where it is, a kick that fails and a log that fails     *)
(* with it.                                                                *)
ActionFails(w) ==
    /\ req[w] # Idle /\ req[w].op \in GovernanceOps
    /\ Fault
    /\ IF req[w].at = "offline" THEN Go(w, "log") ELSE Return(w)
    /\ UNCHANGED <<roomVars, presenceVars, governanceVars>>

-----------------------------------------------------------------------------
(* Lists, page by page *)

(* Mutant: pages are counted from zero.                                    *)
NewestFirstFromZero(rows, page, size) ==
    OnPage(DOMAIN rows, page + 1, size, [i \in DOMAIN rows |-> Len(rows) - i])

(* Newest first, in the order of the ids.                                  *)
NewestFirst(rows, page, size) ==
    OnPage(DOMAIN rows, page, size, [i \in DOMAIN rows |-> Len(rows) - i])

(* A reader asks for one page after the other, of the log or of the        *)
(* configuration's history.                                                *)
ReadPage(of, rows, size) ==
    /\ list.page > 0 => list.of = of /\ list.size = size
    /\ list.page * PageSize(size) <= list.upto
    /\ list' = [of |-> of, page |-> list.page + 1, size |-> size,
                upto |-> IF list.page = 0 THEN Len(rows) ELSE list.upto,
                seen |-> list.seen \cup NewestFirst(rows, list.page + 1, size)]
    /\ Quietly
    /\ UNCHANGED <<req, roomVars, presenceVars, governed>>

AdminAuditList(size) == Asked("audit_list") /\ ReadPage("audit", audit, size)

AdminAgentConfigHistory(size) == Asked("history_list") /\ ReadPage("history", history, size)

-----------------------------------------------------------------------------
(* Next-state relation *)

GovernanceStep(w) ==
    \/ ReadLatest(w) \/ ReadRow(w) \/ CreateConfig(w) \/ SaveRow(w) \/ SaveConfig(w)
    \/ KickUser(w) \/ SetUserOffline(w) \/ LogAction(w)

GovernanceNext ==
    \/ \E w \in Workers :
          \/ GovernanceStep(w) \/ ActionFails(w)
          \/ Free(w) /\ \E q \in AdminRequests : BeginAction(w, q)
    \/ \E size \in PageSizes : AdminAuditList(size) \/ AdminAgentConfigHistory(size)

-----------------------------------------------------------------------------
(* Properties *)

Entries(t) ==
    {i \in DOMAIN audit : audit[i].op \in UserActions \cup EventActions /\ audit[i].target = t}

Before(t, i) == {j \in Entries(t) : j < i}

(* While nothing fails, the log lets a row of the users or the moderation  *)
(* events be followed: an action starts from the first row or from what    *)
(* another action left, and what is in the table at rest was left by one.  *)
(* Where actions on a row did not overlap it is a chain: each starts from  *)
(* what the one logged before it left, and the last one left the table.    *)
AuditTellsRow ==
    faults = 0 => \A t \in Targets \cup Events :
        LET left == {First[t]} \cup {audit[i].after : i \in Entries(t)}
            end(s) == IF s = {} THEN First[t]
                      ELSE audit[CHOOSE i \in s : \A j \in s : j <= i].after
        IN  Resting =>
            /\ row[t] \in left
            /\ \A i \in Entries(t) : audit[i].before \in left
            /\ t \notin mixed =>
                 /\ row[t] = end(Entries(t))
                 /\ \A i \in Entries(t) : audit[i].before = end(Before(t, i))

(* The history of the configuration has the versions 1, 2, 3, ..., and its *)
(* newest row holds what the configuration is, also when requests overlap  *)
(* and calls fail.  As long as none overlapped, each row starts where the  *)
(* one before it ended, and a rollback returns to what the change before   *)
(* it had replaced.                                                        *)
ConfigHistoryTells ==
    \A i \in DOMAIN history :
        /\ history[i].version = i
        /\ i = Len(history) => row["config"] = history[i].after
        /\ "config" \notin mixed /\ i > 1 =>
             /\ history[i].before = history[i - 1].after
             /\ history[i].op = "config_rollback" => history[i].after = history[i - 1].before

(* Pages of the log, or of the history, read one after the other leave no  *)
(* gap: of the rows there were when the first was read every one newer     *)
(* than one that was shown was shown, however many are added in between,   *)
(* for new rows push old ones to later pages only.                         *)
PagesSkipNothing ==
    \A i \in list.seen, j \in 1..list.upto : i < j => j \in list.seen

=============================================================================
