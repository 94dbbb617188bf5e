------------------------------- MODULE Views --------------------------------
(***************************************************************************)
(* What is read out of the tables: the search in a room's messages         *)
(* (services/messages/api/search_handler.go), and the lists, details and   *)
(* dashboards of administrators (services/admin/application:               *)
(* room_service.go, user_service.go, moderation_dashboard.go) beside those *)
(* of the users (services/rooms).                                          *)
(*                                                                         *)
(* The archive grows while it is searched, and the search index is behind  *)
(* it: a message the archiver could not index stays out of the index.      *)
(* Module Archiver has the inside of both.                                 *)
(***************************************************************************)
EXTENDS Statistics

Ext == INSTANCE FiniteSetsExt

CONSTANTS Id,          \* of users and rooms, by which they are listed
          EventAbout,  \* the user, room and category of an event, and when
                       \*   it was made today
          SearchSizes  \* sizes of a page of hits that are asked for

ASSUME ViewsAssumption ==
    /\ IsFiniteSet(Users) /\ IsFiniteSet(RoomIds) /\ IsFiniteSet(Events)
    /\ \A x \in Users \cup RoomIds : x \in DOMAIN Id /\ Id[x] \in Nat
    /\ EventAbout \in [Events -> [user : Users, room : RoomIds, category : {"abuse", "spam"},
                                 at : Nat]]
    /\ SearchSizes \subseteq Int

VARIABLES indexed,    \* ids in the search index
          found       \* the answer to the search answered last

viewVars == <<archive, indexed, found>>

-----------------------------------------------------------------------------
(* State *)

NoSearch == << >>

ViewsTypeOK == indexed \subseteq DOMAIN messages

ViewsInit ==
    /\ StatisticsInit
    /\ indexed = {}
    /\ found = NoSearch

(* The search index is in use: it was to be, and answered at the start.    *)
Enabled == Asked("index")

(* The archiver indexes what it saved last, or fails to and goes on.       *)
IndexMessage ==
    /\ Enabled
    /\ messages # << >>
    /\ indexed' = indexed \cup {Len(messages)}
    /\ indexed' # indexed
    /\ Quietly
    /\ UNCHANGED <<req, roomVars, presenceVars, governanceVars, archive, found>>

-----------------------------------------------------------------------------
(* SearchMessages *)

(* By created_at, then by id.                                              *)
Later(i, j) ==
    \/ messages[i].at > messages[j].at
    \/ messages[i].at = messages[j].at /\ i > j

(* Later first.                                                            *)
Hits(matched, from, size) ==
    {i \in matched : Cardinality({j \in matched : Later(j, i)}) \in from..(from + size - 1)}

(* The repository's: the keyword is somewhere in the content.              *)
Matching(r) == {i \in InRoom(r) : messages[i].kind = "keyword"}

(* The handler puts right what is asked for out of bounds.                 *)
SearchRequest(r, u, from, size) ==
    [op |-> "search", room |-> r, by |-> u, at |-> "member",
     from |-> IF from < 0 THEN 0 ELSE from,
     size |-> IF size <= 0 THEN 20 ELSE IF size > 100 THEN 100 ELSE size]

BeginSearch(w, r, u, from, size) ==
    /\ Arrives(w, SearchRequest(r, u, from, size))
    /\ UNCHANGED <<roomVars, presenceVars, governanceVars, viewVars>>

CheckIsMember(w) ==
    /\ Doing(w, {"search"}, "member")
    /\ IF member[req[w].room][req[w].by] > 0
       THEN Go(w, IF Enabled THEN "index" ELSE "store")
       ELSE Return(w)
    /\ Quietly
    /\ UNCHANGED <<roomVars, presenceVars, governanceVars, viewVars>>

Answers(w, matched) ==
    /\ found' = [from |-> req[w].from, room |-> req[w].room, upto |-> Len(messages),
                 hits |-> Hits(matched, req[w].from, req[w].size)]
    /\ Return(w)

(* What the index's analyzer takes for a match is its own affair.          *)
Matches(w) == SUBSET (InRoom(req[w].room) \cap indexed)

(* Mutant: whatever the index says is the answer.                          *)
QueryIndexOnly(w) ==
    /\ Doing(w, {"search"}, "index")
    /\ \E matched \in Matches(w) : Answers(w, matched)
    /\ Quietly
    /\ UNCHANGED <<roomVars, presenceVars, governanceVars, archive, indexed>>

(* Only a hit is an answer; none at all sends the handler to the store.    *)
QueryIndex(w) ==
    /\ Doing(w, {"search"}, "index")
    /\ \E matched \in Matches(w) :
          IF matched = {} THEN Go(w, "store") /\ UNCHANGED found ELSE Answers(w, matched)
    /\ Quietly
    /\ UNCHANGED <<roomVars, presenceVars, governanceVars, archive, indexed>>

QueryStore(w) ==
    /\ Doing(w, {"search"}, "store")
    /\ Answers(w, Matching(req[w].room))
    /\ Quietly
    /\ UNCHANGED <<roomVars, presenceVars, governanceVars, archive, indexed>>

(* An index that does not answer sends the handler to the store, a store   *)
(* that does not ends the request.                                         *)
SearchFails(w) ==
    /\ req[w] # Idle /\ req[w].op = "search"
    /\ Fault
    /\ IF req[w].at = "index" THEN Go(w, "store") ELSE Return(w)
    /\ UNCHANGED <<roomVars, presenceVars, governanceVars, viewVars>>

-----------------------------------------------------------------------------
(* Rooms and members, as users see them *)

GetJoinedRoomsWithRole(u) == [r \in JoinedRooms(u) |-> member[r][u]]

GetRoomMembers(r) == [u \in {x \in Users : member[r][x] > 0} |-> member[r][u]]

(* Members only; a room that is disbanded has none to show.                *)
RoomMembers(r, by) == IF member[r][by] = 0 \/ ~Live(r) THEN << >> ELSE GetRoomMembers(r)

(* The repository's search for rooms: no frozen ones.  No room is ever     *)
(* marked as active later than another, so the ids decide.                 *)
RoomsFrom(offset, limit) ==
    LET rooms == {r \in RoomIds : Live(r) /\ ~room[r].frozen}
    IN  {r \in rooms : Cardinality({o \in rooms : Id[o] > Id[r]}) \in offset..(offset + limit - 1)}

SearchRooms(offset, limit) ==
    RoomsFrom(Ext!Max({offset, 0}), IF limit < 1 THEN 20 ELSE Ext!Min({limit, 100}))

(* The handlers of the rooms service.                                      *)
searchRooms(offset, limit) == SearchRooms(offset, limit)

joinedRooms(u) == GetJoinedRoomsWithRole(u)

membersShown(r, by) ==
    LET members == RoomMembers(r, by)
    IN  [u \in DOMAIN members |-> [role |-> members[u], creator |-> room[r].creator = u]]

-----------------------------------------------------------------------------
(* Lists and details of administrators *)

(* ORDER BY id DESC.                                                       *)
Page(rows, page, size) ==
    OnPage(rows, page, size, [x \in rows |-> Cardinality({y \in rows : Id[y] > Id[x]})])

CheckUsersOnline(us) == {u \in us : online[u] # None}

(* The row of a user nobody acted on is the first one.                     *)
UserRow(u) == IF u \in Targets THEN row[u] ELSE [status |-> 0, role |-> 0]

countUserRoomsByIDs(us) ==
    LET rows == {p \in RoomIds \X us : member[p[1]][p[2]] > 0}
    IN  [u \in us |-> Cardinality({p \in rows : p[2] = u})]

countUserViolationsByIDs(us) ==
    LET rows == {e \in Events : EventAbout[e].user \in us}
    IN  [u \in us |-> Cardinality({e \in rows : EventAbout[e].user = u})]

ListUsers(page, size, status) ==
    LET users == {u \in Users : status >= 0 => UserRow(u).status = status}
        us == Page(users, page, size)
        rooms == countUserRoomsByIDs(us)
        sent == CountsBySenderIDs(us)
        violations == countUserViolationsByIDs(us)
        up == CheckUsersOnline(us)
    IN  [u \in us |-> [row |-> UserRow(u), rooms |-> rooms[u], messages |-> sent[u],
                       violations |-> violations[u], online |-> u \in up]]

(* Rows of room_members, also of rooms that are disbanded ...              *)
countUserRooms(u) == Cardinality(GetUserRoomIDs(u))

countUserViolations(u) == Cardinality({e \in Events : EventAbout[e].user = u})

(* ... and the rooms themselves, without those.                            *)
userRooms(u) == [r \in {x \in GetUserRoomIDs(u) : Live(x)} |-> member[r][u]]

GetUserDetail(u) ==
    [row |-> UserRow(u), rooms |-> countUserRooms(u), messages |-> CountBySender(u),
     violations |-> countUserViolations(u), online |-> online[u] # None]

countMembersByIDs(rs) == [r \in rs |-> Cardinality({u \in Users : member[r][u] > 0})]

countRoomViolationsByIDs(rs) ==
    LET rows == {e \in Events : EventAbout[e].room \in rs}
    IN  [r \in rs |-> Cardinality({e \in rows : EventAbout[e].room = r})]

(* Mutant: a user who is online in one room of the page counts there only. *)
onlineOncePerPage(rs) ==
    LET up(r) == CheckUsersOnline({u \in Users : member[r][u] > 0})
        first(u) == CHOOSE r \in rs : member[r][u] > 0
    IN  [r \in rs |-> Cardinality({u \in up(r) : first(u) = r})]

(* The members of all rooms of the page at once, each user looked up once. *)
onlineMemberCounts(rs) ==
    LET rows == {p \in rs \X Users : member[p[1]][p[2]] > 0}
        up == CheckUsersOnline({p[2] : p \in rows})
    IN  [r \in rs |-> Cardinality({p \in rows : p[1] = r /\ p[2] \in up})]

ListRooms(page, size, status) ==
    LET rooms == {r \in RoomIds : Live(r) /\ (status >= 0 => room[r].frozen = (status = 1))}
        rs == Page(rooms, page, size)
        members == countMembersByIDs(rs)
        up == onlineMemberCounts(rs)
        today == CountsByRoomIDs(rs, Hours, Hours + 1)
        total == CountsByRoomTotalIDs(rs)
        violations == countRoomViolationsByIDs(rs)
    IN  [r \in rs |-> [members |-> members[r], online |-> up[r], today |-> today[r],
                       total |-> total[r], violations |-> violations[r]]]

countMembers(r) == Cardinality({u \in Users : member[r][u] > 0})

roomMembers(r) ==
    LET us == {u \in Users : member[r][u] > 0}
        up == CheckUsersOnline(us)
    IN  [u \in us |-> [role |-> member[r][u], online |-> u \in up]]

countOnlineMembers(r) ==
    LET members == roomMembers(r) IN Cardinality({u \in DOMAIN members : members[u].online})

countRoomViolations(r) == Cardinality({e \in Events : EventAbout[e].room = r})

GetRoomDetail(r) ==
    [members |-> countMembers(r), online |-> countOnlineMembers(r),
     today |-> CountByRoom(r, Hours, Hours + 1), total |-> CountByRoomTotal(r),
     violations |-> countRoomViolations(r)]

(* The handlers: a status that is no number, or none, is -1.               *)
AdminUserList(page, size, status) == ListUsers(page, size, status)

AdminRoomList(page, size, status) == ListRooms(page, size, status)

AdminUserDetail(u) == GetUserDetail(u)

AdminRoomDetail(r) == GetRoomDetail(r)

-----------------------------------------------------------------------------
(* Dashboards of moderation *)

Having(review) == {e \in Events : row[e].review = review}

Punished(penalty) == {e \in Events : row[e].penalty = penalty}

moderationItem(e) ==
    [penalty |-> row[e].penalty, review |-> row[e].review, about |-> EventAbout[e]]

GetEvent(e) == moderationItem(e)

(* ORDER BY created_at DESC alone: which of two events of the same time    *)
(* comes first is up to the database, and may change from page to page.    *)
Orders(es) ==
    {[e \in es |-> Cardinality({d \in es : \/ EventAbout[d].at > EventAbout[e].at
                                           \/ EventAbout[d].at = EventAbout[e].at /\ tie[d] > tie[e]})] :
        tie \in {t \in [es -> 1..Cardinality(es)] : \A d, e \in es : t[d] = t[e] => d = e}}

(* The answers there may be.                                               *)
ListEvents(page, size, penalty) ==
    LET es == Punished(penalty)
    IN  {[e \in OnPage(es, page, size, position) |-> moderationItem(e)] : position \in Orders(es)}

AdminModerationList(page, size, penalty) == ListEvents(page, size, penalty)

AdminModerationDetail(e) == GetEvent(e)

Dashboard ==
    [total |-> Cardinality(Events),
     kicks |-> Cardinality(Punished("kicked")),
     bans |-> Cardinality(Punished("banned")),
     reviewed |-> Cardinality(Events \ Having("pending")),
     revoked |-> Cardinality(Having("revoked")),
     categories |-> [c \in {EventAbout[e].category : e \in Events} |->
                        Cardinality({e \in Events : EventAbout[e].category = c})]]

(* Overview, of the same events.                                           *)
Overview == [total |-> Cardinality(Events), pending |-> Cardinality(Having("pending"))]

-----------------------------------------------------------------------------
(* Next-state relation *)

SearchStep(w) == CheckIsMember(w) \/ QueryIndex(w) \/ QueryStore(w)

ViewsNext ==
    \/ \E w \in Workers :
          \/ SearchStep(w) \/ SearchFails(w)
          \/ \E r \in load.rooms, u \in Users, from \in {-1, 1}, size \in SearchSizes :
                BeginSearch(w, r, u, from, size)
    \/ \E m \in ToArchive : ArchiveMessage(m) /\ UNCHANGED <<indexed, found>>
    \/ IndexMessage

-----------------------------------------------------------------------------
(* Properties *)

(* A first page without hits means that no message in the archive held the *)
(* keyword, however far the index is behind and whether or not it answers; *)
(* and every hit is a message of the room that the archive holds.          *)
SearchFindsStored ==
    found # NoSearch =>
        /\ found.hits \subseteq InRoom(found.room)
        /\ found.from = 0 /\ found.hits = {}
             => \A i \in Matching(found.room) : i > found.upto

(* Pages that are asked for: number, size and status.                      *)
Asks == {<<0, 0, -1>>, <<2, 1, 0>>}

(* What the lists show of users and rooms, with one statement for a whole  *)
(* page, is what the details show of each.  Of the message counts this is  *)
(* so where the archive is in MongoDB; the lists cannot have them from     *)
(* MySQL.  The pages of the list show every user, and so does a list       *)
(* without a valid number and size of a page, as long as there are no more *)
(* than 20.                                                                *)
ListMatchesDetail ==
    /\ \A ask \in Asks :
          LET users == AdminUserList(ask[1], ask[2], ask[3])
              rooms == AdminRoomList(ask[1], ask[2], ask[3])
              uncounted(user) == [user EXCEPT !.messages = 0]
              roomUncounted(r) == [r EXCEPT !.today = 0, !.total = 0]
          IN  /\ \A u \in DOMAIN users :
                    /\ uncounted(users[u]) = uncounted(AdminUserDetail(u))
                    /\ store = "mongo" => users[u] = AdminUserDetail(u)
              /\ \A r \in DOMAIN rooms :
                    /\ roomUncounted(rooms[r]) = roomUncounted(AdminRoomDetail(r))
                    /\ store = "mongo" => rooms[r] = AdminRoomDetail(r)
    /\ UNION {DOMAIN AdminUserList(n, 1, -1) : n \in 1..Cardinality(Users)} = Users
    /\ Cardinality(Users) <= 20 => DOMAIN AdminUserList(0, 0, -1) = Users

(* What a user is shown of his rooms and of their members is what an       *)
(* administrator is shown of them; the number of his rooms counts the      *)
(* disbanded ones as well.  Pages of the search for rooms show every room  *)
(* that is neither disbanded nor frozen; the first page of it, for who     *)
(* asks for none in particular, is the administrators'.                    *)
UsersSeeTheSame ==
    /\ \A u \in Users :
          LET rooms == userRooms(u)
          IN  /\ rooms = joinedRooms(u)
              /\ countUserRooms(u) = Cardinality(DOMAIN rooms)
                                       + Cardinality({r \in RoomIds : member[r][u] > 0 /\ ~Live(r)})
              /\ \A r \in DOMAIN rooms :
                    LET members == roomMembers(r)
                        them == membersShown(r, u)
                    IN  /\ DOMAIN them = DOMAIN members
                        /\ \A x \in DOMAIN members : them[x].role = members[x].role
    /\ UNION {searchRooms(n - 1, 1) : n \in 1..Cardinality(RoomIds)}
          = {r \in RoomIds : Live(r) /\ ~room[r].frozen}
    /\ searchRooms(-1, 0) = DOMAIN ListRooms(0, 0, 0)

Sum(f) == Ext!MapThenSumSet(LAMBDA k : f[k], DOMAIN f)

(* The overview and the dashboard count the same events, each reviewed or  *)
(* pending and each of a category, whatever was done to them in which      *)
(* order.  A page with room for as many banned events as the dashboard     *)
(* counts has exactly as many, each as its detail shows it and none that   *)
(* was revoked.  Read page by page, the list shows them all if no two are  *)
(* of the same time (else the pages may be of different orders).           *)
DashboardsAgree ==
    LET bans == Dashboard.bans
        banned == Punished("banned")
        apart == \A d, e \in banned : EventAbout[d].at = EventAbout[e].at => d = e
    IN  /\ Overview.pending + Dashboard.reviewed = Overview.total
        /\ Sum(Dashboard.categories) = Dashboard.total
        /\ Dashboard.kicks + bans + Dashboard.revoked <= Dashboard.reviewed
        /\ \A answer \in AdminModerationList(1, bans, "banned") :
              /\ bans \in 1..100 => Cardinality(DOMAIN answer) = bans
              /\ \A e \in DOMAIN answer :
                    answer[e] = AdminModerationDetail(e) /\ answer[e].review # "revoked"
        /\ apart => \A e \in banned : \E n \in 1..bans :
              \A answer \in AdminModerationList(n, 1, "banned") : e \in DOMAIN answer

(* What changes the tables that are shown.                                 *)
Viewed == RoomOps \cup GovernanceOps \cup Kinds \cup {"presence"}

(* Two ways of showing the same thing never show different things, whatever *)
(* requests left in the tables, finished or cut short.                     *)
ViewsAgree ==
    Resting /\ load.ops \cap Viewed # {}
        => ListMatchesDetail /\ UsersSeeTheSame /\ DashboardsAgree

=============================================================================
