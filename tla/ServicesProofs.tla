--------------------------- MODULE ServicesProofs ---------------------------
(***************************************************************************)
(* Proofs about the HTTP services.                                         *)
(***************************************************************************)
EXTENDS Services, FiniteSetTheorems, TLAPS

-----------------------------------------------------------------------------
(* Orders *)

(* A set of numbers that is not empty has a smallest one.                  *)
LEMMA Smallest ==
  ASSUME NEW S \in SUBSET Nat, S # {}
  PROVE  \E m \in S : \A k \in S : m <= k
<1>1. PICK m \in S : \A k \in S : <<k, m>> \notin OpToRel(<, Nat)
  BY NatLessThanWellFounded, WFMin, Zenon
<1>2. \A k \in S : ~(k < m)
  BY <1>1, Zenon DEF OpToRel
<1> QED
  BY <1>2

(* A finite set of numbers that is not empty has a largest one.            *)
LEMMA Largest ==
  ASSUME NEW S \in SUBSET Nat, S # {}, NEW n \in Nat, \A k \in S : k <= n
  PROVE  \E m \in S : \A k \in S : k <= m
<1> DEFINE T == {n - k : k \in S}
<1>0. PICK x : x \in S
  OBVIOUS
<1>1. T \in SUBSET Nat /\ T # {}
  <2>1. n - x \in T
    BY <1>0
  <2>2. \A k \in S : n - k \in Nat
    OBVIOUS
  <2> QED
    BY <2>1, <2>2, Zenon
<1>2. PICK t \in T : \A k \in T : t <= k
  <2> HIDE DEF T
  <2> QED
    BY <1>1, Smallest
<1>3. PICK m \in S : t = n - m
  OBVIOUS
<1>4. ASSUME NEW k \in S PROVE k <= m
  <2>1. t <= n - k
    BY <1>2
  <2>2. k \in Nat /\ m \in Nat
    OBVIOUS
  <2> HIDE DEF T
  <2> QED
    BY <1>3, <2>1, <2>2
<1> QED
  BY <1>4

-----------------------------------------------------------------------------
(* Requests *)

Mine(q, ops) == q = Idle \/ q.op \in ops

(* Every request has an operation and a place; the log is a sequence.      *)
Shape ==
    /\ req = [w \in Workers |-> req[w]]
    /\ \A w \in Workers : "op" \in DOMAIN req[w] /\ (req[w] # Idle => "at" \in DOMAIN req[w])
    /\ faults \in Nat
    /\ \E S : audit \in Seq(S)

(* What a step of a component with these operations leaves to the others:  *)
(* their requests, and the log but for an entry of its own.                *)
Leaves(ops) ==
    /\ \A w \in Workers : \/ req'[w] = req[w]
                          \/ Mine(req[w], ops) /\ Mine(req'[w], ops)
    /\ \/ audit' = audit
       \/ \E e : e.op \in ops /\ audit' = Append(audit, e)
    /\ faults' >= faults
    /\ load' = load

(* A step that logs nothing leaves the log as it is.                       *)
LEMMA RestOfLog ==
  ASSUME Shape, Quietly \/ Fault
  PROVE  /\ faults' \in Nat /\ faults' >= faults
         /\ audit' = audit /\ load' = load
         /\ \E S : audit' \in Seq(S)
BY DEF Shape, Quietly, Fault

(* A step that logs appends one entry.                                     *)
LEMMA LogGrows ==
  ASSUME Shape, NEW e, Log(e)
  PROVE  /\ faults' \in Nat /\ faults' >= faults
         /\ audit' = Append(audit, e) /\ load' = load
         /\ \E S : audit' \in Seq(S)
<1>1. PICK S : audit \in Seq(S)
  BY DEF Shape
<1>2. audit' \in Seq(S \cup {e})
  <2>1. audit \in Seq(S \cup {e})
    BY <1>1
  <2> QED
    BY <2>1 DEF Log
<1> QED
  BY <1>2 DEF Log, Shape

(* A request goes on: it stays the operation it is.                        *)
Edits(w) ==
    \E q : DOMAIN q = DOMAIN req[w] /\ q.op = req[w].op /\ req' = [req EXCEPT ![w] = q]

(* A step of a request that is under way.                                  *)
LEMMA RequestMoves ==
  ASSUME Shape, NEW w \in Workers, NEW ops, req[w] # Idle, req[w].op \in ops,
         Return(w) \/ Edits(w),
         Quietly \/ Fault \/ (\E e : e.op \in ops /\ Log(e))
  PROVE  Shape' /\ Leaves(ops)
<1> DEFINE Request(x) == "op" \in DOMAIN req'[x] /\ (req'[x] # Idle => "at" \in DOMAIN req'[x])
           Kept(x) == req'[x] = req[x] \/ (Mine(req[x], ops) /\ Mine(req'[x], ops))
<1>1. /\ req' = [x \in Workers |-> req'[x]]
      /\ \A x \in Workers : Request(x) /\ Kept(x)
  <2>1. CASE Return(w)
    BY <2>1 DEF Shape, Mine, Return, Idle
  <2>2. CASE Edits(w)
    BY <2>2 DEF Shape, Mine, Edits
  <2> QED
    BY <2>1, <2>2
<1>2. CASE Quietly \/ Fault
  BY <1>1, <1>2, RestOfLog DEF Shape, Leaves
<1>3. CASE \E e : e.op \in ops /\ Log(e)
  <2>1. PICK e : e.op \in ops /\ Log(e)
    BY <1>3
  <2> QED
    BY <1>1, <2>1, LogGrows DEF Shape, Leaves
<1> QED
  BY <1>2, <1>3

(* Going on to the next statement edits the worker's request alone.        *)
LEMMA GoEdits ==
  ASSUME Shape, NEW w \in Workers, req[w] # Idle, NEW at, Go(w, at)
  PROVE  Edits(w)
<1> DEFINE q == [req[w] EXCEPT !.at = at]
<1>1. DOMAIN q = DOMAIN req[w] /\ q.op = req[w].op
  BY DEF Shape
<1>2. req' = [req EXCEPT ![w] = q]
  BY DEF Go
<1> QED
  BY <1>1, <1>2 DEF Edits

(* A request arrives.                                                      *)
LEMMA RequestArrives ==
  ASSUME Shape, NEW w \in Workers, NEW ops, NEW q, q.op \in ops,
         "op" \in DOMAIN q, "at" \in DOMAIN q, Arrives(w, q)
  PROVE  Shape' /\ Leaves(ops)
<1>1. /\ req' = [x \in Workers |-> req'[x]]
      /\ \A x \in Workers :
            /\ "op" \in DOMAIN req'[x] /\ (req'[x] # Idle => "at" \in DOMAIN req'[x])
            /\ req'[x] = req[x] \/ (Mine(req[x], ops) /\ Mine(req'[x], ops))
  BY DEF Shape, Mine, Arrives, Free
<1> QED
  BY <1>1 DEF Shape, Leaves, Arrives

(* No request is concerned.                                                *)
LEMMA RequestsRest ==
  ASSUME Shape, NEW ops, req' = req,
         Quietly \/ Fault \/ UNCHANGED <<load, faults, audit>>
  PROVE  Shape' /\ Leaves(ops)
BY DEF Shape, Leaves, Mine, Quietly, Fault

-----------------------------------------------------------------------------
(* The steps of the components *)

(* The rooms' steps begin requests on rooms and leave others alone.        *)
LEMMA RoomsLeave ==
  ASSUME Shape, RoomsNext
  PROVE  Shape' /\ Leaves(RoomOps)
<1>1. ASSUME NEW w \in Workers, RoomStep(w) \/ RoomFails(w) \/ OwnerRoleFails(w)
      PROVE  Shape' /\ Leaves(RoomOps)
  <2>1. req[w] # Idle /\ req[w].op \in RoomOps
    BY <1>1 DEF RoomStep, RoomFails, OwnerRoleFails, ReadRoom, ReadRole, CreateRoom, JoinRoom,
       RemoveMember, SoftDeleteRoom, SetAdmin, Saves, SaveRoom, OwnerRole, WriteAudit, Publish, CallHub,
       DisconnectUser, Tells, Writes, Doing, RoomOps, AdminActions, RowActions, TargetActions
  <2>2. Quietly \/ Fault \/ (\E e : e.op \in RoomOps /\ Log(e))
    <3>1. Entry(req[w]).op \in RoomOps
      BY <2>1 DEF Entry
    <3> QED
      BY <1>1, <3>1 DEF RoomStep, RoomFails, OwnerRoleFails, ReadRoom, ReadRole, CreateRoom, JoinRoom,
         RemoveMember, SoftDeleteRoom, SetAdmin, SaveRoom, OwnerRole, WriteAudit, Publish, CallHub,
         DisconnectUser
  <2>3. ASSUME GoTell(w) PROVE Edits(w)
    <3> DEFINE q == [req[w] EXCEPT !.at = "tell", !.ver = ver'[req[w].room]]
    <3>1. DOMAIN q = DOMAIN req[w] /\ q.op = req[w].op
      BY DEF Shape
    <3>2. req' = [req EXCEPT ![w] = q]
      BY <2>3 DEF GoTell
    <3> QED
      BY <3>1, <3>2 DEF Edits
  <2>4. ASSUME NEW at, Go(w, at) PROVE Edits(w)
    BY <2>1, <2>4, GoEdits
  <2>5. ASSUME NEW r, NEW at, req' = [req EXCEPT ![w].row = r, ![w].at = at] PROVE Edits(w)
    <3> DEFINE q == [req[w] EXCEPT !.row = r, !.at = at]
    <3>1. DOMAIN q = DOMAIN req[w] /\ q.op = req[w].op
      BY DEF Shape
    <3>2. req' = [req EXCEPT ![w] = q]
      BY <2>5
    <3> QED
      BY <3>1, <3>2 DEF Edits
  <2>6. Return(w) \/ Edits(w)
    BY <1>1, <2>3, <2>4, <2>5 DEF RoomStep, RoomFails, OwnerRoleFails, ReadRoom, ReadRole, CreateRoom, JoinRoom,
       RemoveMember, SoftDeleteRoom, SetAdmin, SaveRoom, OwnerRole, WriteAudit, Publish, CallHub,
       DisconnectUser
  <2> QED
    BY <2>1, <2>2, <2>6, RequestMoves
<1>2. ASSUME NEW w \in Workers, NEW r, NEW q \in RoomRequests(r), BeginRoom(w, q)
      PROVE  Shape' /\ Leaves(RoomOps)
  <2>1. q.op \in RoomOps /\ "op" \in DOMAIN q /\ "at" \in DOMAIN q
    BY <1>2 DEF RoomRequests, RoomOps, AdminActions, RowActions, TargetActions, createRoom, joinRoom,
       disbandRoom, AgentKickUser, removeMember, AdminRoomAction, AdminDeleteRoom, RoomRequestOf
  <2> QED
    BY <1>2, <2>1, RequestArrives DEF BeginRoom
<1>3. CASE HandleEvent \/ LoseEvent
  BY <1>3, RequestsRest DEF HandleEvent, LoseEvent
<1>4. ASSUME NEW c \in Conns, ConnStep(c)
      PROVE  Shape' /\ Leaves(RoomOps)
  BY <1>4, RequestsRest DEF ConnStep, ReadRooms, Register, UpgradeFails, Unregister
<1> QED
  BY <1>1, <1>2, <1>3, <1>4 DEF RoomsNext

(* The steps of presence begin no request.                                 *)
LEMMA PresenceLeaves ==
  ASSUME Shape, PresenceNext
  PROVE  Shape' /\ Leaves({})
<1>1. req' = req /\ (Quietly \/ Fault)
  BY DEF PresenceNext, SetUserConnectionOnline, SetOnlineFails, HandlerSets, SetUserConnectionOffline,
     SetOfflineFails, HandlerDeletes, Expire
<1> QED
  BY <1>1, RequestsRest

(* The administrators' steps begin their own requests only.                *)
LEMMA GovernanceLeaves ==
  ASSUME Shape, GovernanceNext
  PROVE  Shape' /\ Leaves(GovernanceOps)
<1>1. ASSUME NEW w \in Workers, GovernanceStep(w) \/ ActionFails(w)
      PROVE  Shape' /\ Leaves(GovernanceOps)
  <2>1. req[w] # Idle /\ req[w].op \in GovernanceOps
    BY <1>1 DEF GovernanceStep, ActionFails, ReadLatest, ReadRow, CreateConfig, SaveRow, SaveConfig,
       KickUser, SetUserOffline, LogAction, Doing, GovernanceOps, UserActions, ConfigActions
  <2>2. Quietly \/ Fault \/ (\E e : e.op \in GovernanceOps /\ Log(e))
    <3>1. CASE LogAction(w)
      <4> DEFINE e == [op |-> req[w].op, target |-> req[w].target,
                       before |-> Shown(req[w], BeforeOf(req[w])),
                       after |-> Shown(req[w], Changes(req[w]))]
      <4>1. Log(e) /\ e.op \in GovernanceOps
        BY <2>1, <3>1 DEF LogAction
      <4> QED
        BY <4>1
    <3> QED
      BY <1>1, <3>1 DEF GovernanceStep, ActionFails, ReadLatest, ReadRow, CreateConfig, SaveRow,
         SaveConfig, KickUser, SetUserOffline
  <2>3. ASSUME NEW at, Go(w, at) PROVE Edits(w)
    BY <2>1, <2>3, GoEdits
  <2>4. ASSUME NEW o, NEW at, req' = [req EXCEPT ![w].at = at, ![w].old = o] PROVE Edits(w)
    <3> DEFINE q == [req[w] EXCEPT !.at = at, !.old = o]
    <3>1. DOMAIN q = DOMAIN req[w] /\ q.op = req[w].op
      BY DEF Shape
    <3>2. req' = [req EXCEPT ![w] = q]
      BY <2>4
    <3> QED
      BY <3>1, <3>2 DEF Edits
  <2>5. ASSUME NEW r, NEW at, req' = [req EXCEPT ![w].row = r, ![w].at = at] PROVE Edits(w)
    <3> DEFINE q == [req[w] EXCEPT !.row = r, !.at = at]
    <3>1. DOMAIN q = DOMAIN req[w] /\ q.op = req[w].op
      BY DEF Shape
    <3>2. req' = [req EXCEPT ![w] = q]
      BY <2>5
    <3> QED
      BY <3>1, <3>2 DEF Edits
  <2>6. Return(w) \/ Edits(w)
    BY <1>1, <2>3, <2>4, <2>5 DEF GovernanceStep, ActionFails, ReadLatest, ReadRow, CreateConfig,
       SaveRow, SaveConfig, KickUser, SetUserOffline, LogAction
  <2> QED
    BY <2>1, <2>2, <2>6, RequestMoves
<1>2. ASSUME NEW w \in Workers, NEW q \in AdminRequests, BeginAction(w, q)
      PROVE  Shape' /\ Leaves(GovernanceOps)
  <2>1. q.op \in GovernanceOps /\ "op" \in DOMAIN q /\ "at" \in DOMAIN q
    BY <1>2 DEF AdminRequests, AdminUserAction, AdminModerationAction, AdminAgentConfigGet,
       AdminAgentConfigRollback, AdminAgentConfigUpdate, ActionOf, GovernanceOps, ConfigActions
  <2> QED
    BY <1>2, <2>1, RequestArrives DEF BeginAction
<1>3. ASSUME NEW size \in PageSizes, AdminAuditList(size) \/ AdminAgentConfigHistory(size)
      PROVE  Shape' /\ Leaves(GovernanceOps)
  BY <1>3, RequestsRest DEF AdminAuditList, AdminAgentConfigHistory, ReadPage
<1> QED
  BY <1>1, <1>2, <1>3 DEF GovernanceNext

(* The search's steps begin searches only.                                 *)
LEMMA ViewsLeave ==
  ASSUME Shape, ViewsNext
  PROVE  Shape' /\ Leaves({"search"})
<1>1. ASSUME NEW w \in Workers, SearchStep(w) \/ SearchFails(w)
      PROVE  Shape' /\ Leaves({"search"})
  <2>1. req[w] # Idle /\ req[w].op \in {"search"}
    BY <1>1 DEF SearchStep, SearchFails, CheckIsMember, QueryIndex, QueryStore, Doing
  <2>2. Quietly \/ Fault
    BY <1>1 DEF SearchStep, SearchFails, CheckIsMember, QueryIndex, QueryStore
  <2>3. ASSUME NEW at, Go(w, at) PROVE Edits(w)
    BY <2>1, <2>3, GoEdits
  <2>4. Return(w) \/ Edits(w)
    BY <1>1, <2>3 DEF SearchStep, SearchFails, CheckIsMember, QueryIndex, QueryStore, Answers
  <2> QED
    BY <2>1, <2>2, <2>4, RequestMoves
<1>2. ASSUME NEW w \in Workers, NEW r, NEW u, NEW from, NEW size, BeginSearch(w, r, u, from, size)
      PROVE  Shape' /\ Leaves({"search"})
  <2> DEFINE q == SearchRequest(r, u, from, size)
  <2>1. q.op \in {"search"} /\ "op" \in DOMAIN q /\ "at" \in DOMAIN q
    BY DEF SearchRequest
  <2> HIDE DEF q
  <2> QED
    BY <1>2, <2>1, RequestArrives DEF BeginSearch, q
<1>3. CASE \E m \in ToArchive : ArchiveMessage(m)
  BY <1>3, RequestsRest DEF ArchiveMessage
<1>4. CASE IndexMessage
  BY <1>4, RequestsRest DEF IndexMessage
<1> QED
  BY <1>1, <1>2, <1>3, <1>4 DEF ViewsNext

AccountOps == LoginOps \cup {"register"}

(* The logins' steps begin logins and registrations only.                  *)
LEMMA LoginLeaves ==
  ASSUME Shape, LoginNext
  PROVE  Shape' /\ Leaves(AccountOps)
<1>1. ASSUME NEW w \in Workers, LoginStep(w)
      PROVE  Shape' /\ Leaves(AccountOps)
  <2>1. req[w] # Idle /\ req[w].op \in AccountOps
    BY <1>1 DEF LoginStep, ReadClock, Allow, LookUp, TakeSlot, TimesOut, IssueToken, OtherEntrance, LookForName,
       CreateUser, Answer, RegisterFails, Compared, Waiting, Doing, AccountOps
  <2>2. Quietly \/ Fault
    BY <1>1 DEF LoginStep, ReadClock, Allow, LookUp, TakeSlot, TimesOut, IssueToken, OtherEntrance, LookForName,
       CreateUser, Answer, RegisterFails, Compared
  <2>3. ASSUME NEW at, Go(w, at) PROVE Edits(w)
    BY <2>1, <2>3, GoEdits
  <2>4. ASSUME NEW r, NEW at, req' = [req EXCEPT ![w].role = r, ![w].at = at] PROVE Edits(w)
    <3> DEFINE q == [req[w] EXCEPT !.role = r, !.at = at]
    <3>1. DOMAIN q = DOMAIN req[w] /\ q.op = req[w].op
      BY DEF Shape
    <3>2. req' = [req EXCEPT ![w] = q]
      BY <2>4
    <3> QED
      BY <3>1, <3>2 DEF Edits
  <2>5. ASSUME req' = [req EXCEPT ![w].read = now, ![w].at = "lock"] PROVE Edits(w)
    <3> DEFINE q == [req[w] EXCEPT !.read = now, !.at = "lock"]
    <3>1. DOMAIN q = DOMAIN req[w] /\ q.op = req[w].op
      BY DEF Shape
    <3>2. req' = [req EXCEPT ![w] = q]
      BY <2>5
    <3> QED
      BY <3>1, <3>2 DEF Edits
  <2>6. Return(w) \/ Edits(w)
    BY <1>1, <2>3, <2>4, <2>5 DEF LoginStep, ReadClock, Allow, LookUp, TakeSlot, TimesOut, IssueToken,
       OtherEntrance,
       LookForName, CreateUser, Answer, RegisterFails, Compared
  <2> QED
    BY <2>1, <2>2, <2>6, RequestMoves
<1>2. ASSUME NEW w \in Workers, NEW a, NEW n,
             BeginLogin(w, LoginHandler(a, n)) \/ BeginLogin(w, AdminLogin(a, n))
      PROVE  Shape' /\ Leaves(AccountOps)
  <2>1. \A q \in {LoginHandler(a, n), AdminLogin(a, n)} :
            q.op \in AccountOps /\ "op" \in DOMAIN q /\ "at" \in DOMAIN q
    BY DEF LoginHandler, AdminLogin, AccountOps, LoginOps
  <2> QED
    BY <1>2, <2>1, RequestArrives DEF BeginLogin
<1>3. ASSUME NEW w \in Workers, NEW n, BeginLogin(w, RegisterHandler(n))
      PROVE  Shape' /\ Leaves(AccountOps)
  <2> DEFINE q == RegisterHandler(n)
  <2>1. q.op \in AccountOps /\ "op" \in DOMAIN q /\ "at" \in DOMAIN q
    BY DEF RegisterHandler, AccountOps
  <2> HIDE DEF q
  <2> QED
    BY <1>3, <2>1, RequestArrives DEF BeginLogin, q
<1>4. CASE Tick \/ ComparedLate \/ ReleaseSlot
  BY <1>4, RequestsRest DEF Tick, ComparedLate, ReleaseSlot
<1> QED
  BY <1>1, <1>2, <1>3, <1>4 DEF LoginNext

(* The steps of files begin requests on files only.                        *)
LEMMA FilesLeave ==
  ASSUME Shape, FilesNext
  PROVE  Shape' /\ Leaves(FileOps)
<1>1. ASSUME NEW w \in Workers, FileStep(w) \/ FileFails(w)
      PROVE  Shape' /\ Leaves(FileOps)
  <2>1. req[w] # Idle /\ req[w].op \in FileOps
    BY <1>1 DEF FileStep, FileFails, FindRecord, CreateRecord, SaveRecord, FindDownload, GetDownloadURL,
       GetFile, DeleteRecord, DeleteObject, DeleteObjectFails, LogDelete, ScanRecords, ScanStats,
       ScanStatFails, ScanObjects, CleanOrphan, CleanFails, CleanupEnds, MayComplete, Doing, FileOps
  <2>2. Quietly \/ Fault \/ (\E e : e.op \in FileOps /\ Log(e))
    <3>1. /\ \A n : [op |-> "cleanup", target |-> n].op \in FileOps
          /\ \A n : [op |-> "delete_file", target |-> n].op \in FileOps
      BY DEF FileOps
    <3> QED
      BY <1>1, <3>1 DEF FileStep, FileFails, FindRecord, CreateRecord, SaveRecord, FindDownload,
         GetDownloadURL, GetFile, DeleteRecord, DeleteObject, DeleteObjectFails, LogDelete, ScanRecords,
         ScanStats, ScanStatFails, ScanObjects, CleanOrphan, CleanFails, CleanupEnds, MayComplete
  <2>3. ASSUME NEW at, Go(w, at) PROVE Edits(w)
    BY <2>1, <2>3, GoEdits
  <2>4. ASSUME NEW q, req' = [req EXCEPT ![w] = q], DOMAIN q = DOMAIN req[w], q.op = req[w].op
        PROVE  Edits(w)
    BY <2>4 DEF Edits
  <2>5. Return(w) \/ Edits(w)
    <3>1. CASE FindRecord(w)
      BY <2>1, <2>4, <3>1 DEF FindRecord, Shape
    <3>2. CASE GetFile(w)
      BY <2>1, <2>4, <3>2 DEF GetFile, Shape
    <3>3. CASE ScanRecords(w)
      BY <2>1, <2>4, <3>3 DEF ScanRecords, Shape
    <3>4. CASE ScanObjects(w)
      BY <2>1, <2>4, <3>4 DEF ScanObjects, Shape
    <3>5. CASE CleanOrphan(w) \/ CleanFails(w)
      BY <2>1, <2>4, <3>5 DEF CleanOrphan, CleanFails, Shape
    <3> QED
      BY <1>1, <2>3, <3>1, <3>2, <3>3, <3>4, <3>5 DEF FileStep, FileFails, CreateRecord, SaveRecord,
         FindDownload, GetDownloadURL, DeleteRecord, DeleteObject, DeleteObjectFails, LogDelete,
         ScanStats, ScanStatFails, CleanupEnds, MayComplete
  <2> QED
    BY <2>1, <2>2, <2>5, RequestMoves
<1>2. ASSUME NEW w \in Workers, NEW q \in FileRequests, BeginFile(w, q)
      PROVE  Shape' /\ Leaves(FileOps)
  <2>1. q.op \in FileOps /\ "op" \in DOMAIN q /\ "at" \in DOMAIN q
    BY <1>2 DEF FileRequests, CompleteUpload, DownloadFile, AdminFileDownload, AdminFileDelete,
       AdminFileScan, AdminFileCleanup, FileRequest, FileOps
  <2> QED
    BY <1>2, <2>1, RequestArrives DEF BeginFile
<1>3. ASSUME NEW k \in Keys, PreSignUpload(k) \/ Upload(k) \/ GrowOld(k)
      PROVE  Shape' /\ Leaves(FileOps)
  BY <1>3, RequestsRest DEF PreSignUpload, Upload, GrowOld
<1> QED
  BY <1>1, <1>2, <1>3 DEF FilesNext

-----------------------------------------------------------------------------
(* Invariants *)

(* Logins: a comparison under way has a slot.                              *)
SlotsInv ==
    /\ slots \in Int /\ hashing \in Int
    /\ hashing <= slots /\ slots <= BcryptConcurrent

Registering(q) == q # Idle /\ q.op = "register"

(* Registrations: a row is never replaced, and who is about to be told     *)
(* that he registered owns it.                                             *)
AccountInv ==
    /\ account = [n \in Names |-> account[n]]
    /\ \A n \in Names : account[n] = {} \/ \E u \in account[n] : account[n] = {u}
    /\ \A w \in Workers : Registering(req[w]) =>
          /\ {"name", "id"} \subseteq DOMAIN req[w] /\ req[w].name \in Names
          /\ req[w].at = "answer" => \E u \in account[req[w].name] : u.by = req[w].id
    /\ \A x \in told : x[1] \in Names /\ \E u \in account[x[1]] : u.by = x[2]

(* Presence: a key and what was last set are of a connection of the user   *)
(* whose handler has set it; it sets none before it is registered.         *)
PresenceInv ==
    /\ online \in [Users -> Conns \cup {None}]
    /\ latest \in [Users -> Conns \cup {None}]
    /\ shown \in [Conns -> {"no", "set", "deleted", "failed"}]
    /\ conn \in [Conns -> {"new", "reading", "active", "closing", "gone"}]
    /\ \A c \in Conns : conn[c] \in {"new", "reading"} => shown[c] = "no"
    /\ \A u \in Users :
          /\ online[u] # None => UserOf[online[u]] = u /\ shown[online[u]] \in {"set", "failed"}
          /\ latest[u] # None => UserOf[latest[u]] = u /\ shown[latest[u]] # "no"
    /\ PresenceIsTheLatest

(* Administrators: the shape of their requests.                            *)
Acting(q) == q # Idle /\ q.op \in GovernanceOps

OfConfig(q) == Acting(q) /\ q.target = "config"

ActionRequests ==
    [op : UserActions, target : Targets, field : {None}, value : {0},
     row : User \cup {NoConfig}, old : {NoConfig}, at : {"read", "save", "kick", "offline", "log"}]
    \cup
    [op : EventActions, target : Events, field : {None}, value : {0},
     row : Event_ \cup {NoConfig}, old : {NoConfig}, at : {"read", "save", "log"}]
    \cup
    [op : ConfigActions, target : {"config"}, field : Fields \cup {None}, value : 0..1,
     row : Config \cup {NoConfig}, old : Config \cup {NoConfig},
     at : {"latest", "read", "create", "save", "log"}]

ActionOK(q) ==
    /\ q \in ActionRequests
    /\ q.op \notin ConfigActions => q.at \in {"read", "save", "kick", "offline", "log"}
    /\ q.at \in {"save", "kick", "offline", "log"} => q.row # NoConfig
    /\ q.op = "config_get" => q.at \in {"read", "create"}
    /\ q.op = "config_update" => q.field \in Fields
    /\ q.op = "config_rollback" /\ q.at # "latest" => q.old # NoConfig

HistoryRows == [version : Nat, op : ConfigActions, before : Config, after : Config]

GovernanceInv ==
    /\ row = [t \in Rows |-> row[t]]
    /\ \A t \in Targets : row[t] \in User
    /\ \A e \in Events : row[e] \in Event_
    /\ row["config"] \in Config \cup {NoConfig}
    /\ history \in Seq(HistoryRows)
    /\ \A w \in Workers : Acting(req[w]) => ActionOK(req[w])

(* The history: while no requests overlap, the one there is has read what  *)
(* the newest row of the history says.                                     *)
ConfigInv ==
    /\ \A w \in Workers : Acting(req[w]) =>
          (req[w].op = "config_rollback" /\ req[w].at # "latest" => history # << >>)
    /\ "config" \notin mixed =>
          /\ \A v, w \in Workers : OfConfig(req[v]) /\ OfConfig(req[w]) => v = w
          /\ \A w \in Workers : OfConfig(req[w]) =>
                /\ req[w].at = "save" => req[w].row = row["config"]
                /\ req[w].op = "config_rollback" /\ req[w].at \in {"read", "create", "save"}
                     => req[w].old = history[Len(history)].before
    /\ ConfigHistoryTells

(* Pages: what is newer than the rows a next page can show was shown.      *)
ListLen == IF list.of = "audit" THEN Len(audit) ELSE Len(history)

PagesInv ==
    /\ list.page \in Nat /\ list.upto \in Nat /\ list.size \in Int /\ list.seen \subseteq Nat
    /\ list.page = 0 => list.upto = 0 /\ list.seen = {}
    /\ list.page > 0 => list.of \in {"audit", "history"} /\ list.upto <= ListLen
    /\ \A j \in 1..list.upto : j > ListLen - list.page * PageSize(list.size) => j \in list.seen
    /\ PagesSkipNothing

(* Search.                                                                 *)
Searching(q) == q # Idle /\ q.op = "search"

SearchRequests ==
    [op : {"search"}, room : RoomIds, by : Users, at : {"member", "index", "store"},
     from : Nat, size : Nat \ {0}]

SearchInv ==
    /\ messages \in Seq(Archived)
    /\ indexed \subseteq DOMAIN messages
    /\ \A w \in Workers : Searching(req[w]) => req[w] \in SearchRequests
    /\ found # NoSearch => found.upto \in 0..Len(messages)
    /\ SearchFindsStored

(* Files.                                                                  *)
OfFile(q) == q # Idle /\ q.op \in FileOps

FileRequestTypes ==
    [op : FileOps, key : Keys \cup {AnyKey}, id : Nat, known : SUBSET Keys, orphans : SUBSET Keys,
     cleaned : Nat,
     at : {"member", "find", "create", "save", "url", "unrecord", "delete", "log",
           "records", "stats", "objects", "clean"}]

FilesInv ==
    /\ signed \subseteq Keys /\ put \subseteq Keys
    /\ objects \in [Keys -> {"none", "fresh", "old"}]
    /\ record \in [Keys -> Nat] /\ lastId \in Nat
    /\ \A w \in Workers : OfFile(req[w]) =>
          /\ req[w] \in FileRequestTypes
          /\ req[w].op \notin {"scan", "cleanup"} => req[w].key \in Keys

(* What a deletion or a cleanup is about to take away is unsafe, and what  *)
(* was put and is not unsafe is there.                                     *)
StoredInv ==
    /\ \A w \in Workers : OfFile(req[w]) =>
          /\ req[w].op = "delete_file" /\ req[w].at = "delete" => req[w].key \in unsafe
          /\ req[w].op = "cleanup" =>
                /\ req[w].at \in {"stats", "objects", "clean"} => Keys \ req[w].known \subseteq unsafe
                /\ req[w].orphans \subseteq unsafe
    /\ \A k \in put \ unsafe : Stat(k)
    /\ faults = 0 => missing \subseteq unsafe

Deleting(k, at) ==
    \E w \in Workers : OfFile(req[w]) /\ req[w].op = "delete_file" /\ req[w].key = k /\ req[w].at \in at

DeletionLogged(k) == \E i \in DOMAIN audit : audit[i].op = "delete_file" /\ audit[i].target = k

(* A file whose deletion has begun, and which nothing else has touched     *)
(* since, still has a record only if the deletion that read it is to       *)
(* delete it, and an object only if a deletion is to come to it.           *)
DeletionInv ==
    \A k \in Keys :
        k \notin touched /\ (DeletionLogged(k) \/ Deleting(k, {"unrecord", "delete", "log"})) =>
            /\ \/ record[k] = 0
               \/ \E w \in Workers : /\ OfFile(req[w]) /\ req[w].op = "delete_file"
                                     /\ req[w].key = k /\ req[w].at = "unrecord"
                                     /\ req[w].id = record[k]
            /\ ~Stat(k) \/ Deleting(k, {"unrecord", "delete"})

LoggedFilesInv == \A i \in DOMAIN audit : audit[i].op = "delete_file" => audit[i].target \in Keys

(* Rooms: what an action has left in a row is explained by the log, or by  *)
(* the action that is about to write it.                                   *)
OfRoom(q) == q # Idle /\ q.op \in RoomOps

RoomOK(q) ==
    /\ q \in RoomRequest
    /\ q.op \in RoomService => q.target \in Users /\ q.by \in Users
    /\ q.at = "role" => q.op = "transfer_owner" /\ q.target \in Users
    /\ q.at = "tell" => q.target \in Users \/ q.op = "admin_disband"
    /\ q.at = "kick" => q.target \in Users
    /\ q.at = "right" => q.op \in {"disband", "remove"}

RoomsInv ==
    /\ RoomsTypeOK
    /\ \A w \in Workers : OfRoom(req[w]) => RoomOK(req[w])

Explained(op, r) ==
    \/ Logged(op, r)
    \/ \E w \in Workers : OfRoom(req[w]) /\ req[w].op = op /\ req[w].room = r /\ req[w].at = "audit"

ExplainedInv ==
    faults = 0 =>
        /\ \A r \in RoomIds :
              /\ room[r].frozen => Explained("freeze", r)
              /\ ~room[r].moderated => Explained("moderation_disable", r)
              /\ (\E u \in Users : member[r][u] = 3) => Logged("transfer_owner", r)
        /\ \A w \in Workers : OfRoom(req[w]) =>
              /\ req[w].row.frozen => Explained("freeze", req[w].room)
              /\ ~req[w].row.moderated => Explained("moderation_disable", req[w].room)

-----------------------------------------------------------------------------
(* A step of one component, seen by the others *)

(* The services have no operation in common.                               *)
LEMMA OpsDisjoint ==
  /\ RoomOps \cap GovernanceOps = {} /\ RoomOps \cap {"search"} = {}
  /\ RoomOps \cap AccountOps = {} /\ RoomOps \cap FileOps = {}
  /\ GovernanceOps \cap {"search"} = {} /\ GovernanceOps \cap AccountOps = {}
  /\ GovernanceOps \cap FileOps = {} /\ {"search"} \cap AccountOps = {}
  /\ {"search"} \cap FileOps = {} /\ AccountOps \cap FileOps = {}
<1>1. DOMAIN RoleOf = {"role_user", "role_super_admin", "role_moderator", "role_operator"}
  BY DEF RoleOf
<1>2. DOMAIN Penalty = {"warn", "mute", "kick_event", "ban_event"}
  BY DEF Penalty
<1>3. GovernanceOps = {"ban", "unban", "role_user", "role_super_admin", "role_moderator",
                       "role_operator", "warn", "mute", "kick_event", "ban_event", "revoke",
                       "false_positive", "confirmed", "config_get", "config_update",
                       "config_rollback"}
  BY <1>1, <1>2 DEF GovernanceOps, UserActions, EventActions, ConfigActions
<1>4. RoomOps = {"create", "join", "remove", "disband", "agent_kick", "freeze", "unfreeze",
                 "moderation_enable", "moderation_disable", "remove_member", "set_admin",
                 "transfer_owner", "admin_disband"}
  BY DEF RoomOps, AdminActions, RowActions, TargetActions
<1> QED
  BY <1>3, <1>4 DEF AccountOps, LoginOps, FileOps

(* A component leaves the requests of another alone.                       *)
LEMMA Foreign ==
  ASSUME NEW ops, NEW mine, mine \cap ops = {}, Leaves(ops), NEW w \in Workers
  PROVE  /\ req[w] # Idle /\ req[w].op \in mine => req'[w] = req[w]
         /\ req'[w] # Idle /\ req'[w].op \in mine => req'[w] = req[w]
BY DEF Leaves, Mine

(* Every step is one of a component, or changes nothing.                   *)
LEMMA Components ==
  ASSUME Shape, [Next]_vars
  PROVE  /\ Shape'
         /\ \/ RoomsOnly /\ Leaves(RoomOps)
            \/ PresenceOnly /\ Leaves({})
            \/ GovernanceOnly /\ Leaves(GovernanceOps)
            \/ ViewsOnly /\ Leaves({"search"})
            \/ LoginOnly /\ Leaves(AccountOps)
            \/ FilesOnly /\ Leaves(FileOps)
            \/ UNCHANGED vars /\ Leaves({})
<1>1. CASE RoomsOnly
  BY <1>1, RoomsLeave DEF RoomsOnly
<1>2. CASE PresenceOnly
  BY <1>2, PresenceLeaves DEF PresenceOnly
<1>3. CASE GovernanceOnly
  BY <1>3, GovernanceLeaves DEF GovernanceOnly
<1>4. CASE ViewsOnly
  BY <1>4, ViewsLeave DEF ViewsOnly
<1>5. CASE LoginOnly
  BY <1>5, LoginLeaves DEF LoginOnly
<1>6. CASE FilesOnly
  BY <1>6, FilesLeave DEF FilesOnly
<1>7. CASE UNCHANGED vars
  <2>1. UNCHANGED serving
    BY <1>7 DEF vars
  <2> QED
    BY <1>7, <2>1 DEF serving, Shape, Leaves
<1> QED
  BY <1>1, <1>2, <1>3, <1>4, <1>5, <1>6, <1>7 DEF Next

(* Idle workers and an empty log satisfy the shape.                        *)
LEMMA ShapeInit == Init => Shape
<1> SUFFICES ASSUME Init PROVE Shape
  OBVIOUS
<1>1. audit \in Seq({})
  BY DEF Init, RequestsInit
<1> QED
  BY <1>1 DEF Init, RequestsInit, Shape, Idle

(* Whatever a component does with its requests, it gives back a worker it  *)
(* was given or one with a request of its own, and the log only grows.     *)
THEOREM ShapeHolds == Spec => []Shape
<1>1. Shape /\ [Next]_vars => Shape'
  BY Components
<1> QED
  BY ShapeInit, <1>1, PTL DEF Spec

LoadInv == load \in Loads

(* What a behaviour is about does not change.                              *)
LEMMA LoadHolds == Spec => []LoadInv
<1>1. Init => LoadInv
  BY DEF Init, RequestsInit, LoadInv
<1>2. Shape /\ LoadInv /\ [Next]_vars => LoadInv'
  BY Components DEF Leaves, LoadInv
<1> QED
  BY ShapeHolds, <1>1, <1>2, PTL DEF Spec

-----------------------------------------------------------------------------
(* Logins and registrations *)

(* However many logins are under way, time out and are left behind by      *)
(* their requests, TakeSlot lets no more passwords be compared at once     *)
(* than LoginProtector has slots.                                          *)
THEOREM HashesBoundedHolds == Spec => []HashesBounded
<1>1. Init => SlotsInv
  BY LoginAssumption DEF Init, LoginInit, SlotsInv
<1>2. SlotsInv /\ [Next]_vars => SlotsInv'
  <2> SUFFICES ASSUME SlotsInv, [Next]_vars PROVE SlotsInv'
    OBVIOUS
  <2>1. CASE UNCHANGED loginVars
    BY <2>1 DEF loginVars, SlotsInv
  <2>2. CASE LoginNext
    <3>1. BcryptConcurrent \in Nat
      BY LoginAssumption
    <3>2. \/ slots' = slots /\ hashing' \in {hashing, hashing - 1}
          \/ slots < BcryptConcurrent /\ slots' = slots + 1 /\ hashing' = hashing + 1
          \/ slots > hashing /\ slots' = slots - 1 /\ hashing' = hashing
      <4>1. ASSUME NEW w \in Workers,
                   \/ ReadClock(w) \/ Allow(w) \/ LookUp(w) \/ TimesOut(w) \/ IssueToken(w) \/ OtherEntrance(w)
            PROVE  slots' = slots /\ hashing' = hashing
        BY <4>1 DEF ReadClock, Allow, LookUp, TimesOut, SlotsAfter, IssueToken, OtherEntrance, loginVars
      <4>2. ASSUME NEW w \in Workers, LookForName(w) \/ CreateUser(w) \/ Answer(w) \/ RegisterFails(w)
            PROVE  slots' = slots /\ hashing' = hashing
        BY <4>2 DEF LookForName, CreateUser, Answer, RegisterFails, loginVars
      <4>3. ASSUME NEW w \in Workers, TakeSlot(w)
            PROVE  \/ slots' = slots /\ hashing' = hashing
                   \/ slots < BcryptConcurrent /\ slots' = slots + 1 /\ hashing' = hashing + 1
        BY <4>3 DEF TakeSlot
      <4>4. ASSUME NEW w \in Workers, NEW right \in BOOLEAN, Compared(w, right)
            PROVE  slots' = slots /\ hashing' = hashing - 1
        BY <4>4 DEF Compared
      <4>5. ASSUME NEW w \in Workers, NEW q, BeginLogin(w, q)
            PROVE  slots' = slots /\ hashing' = hashing
        BY <4>5 DEF BeginLogin, loginVars
      <4>6. CASE Tick \/ ComparedLate \/ ReleaseSlot
        BY <4>6 DEF Tick, ComparedLate, ReleaseSlot
      <4> QED
        BY <2>2, <4>1, <4>2, <4>3, <4>4, <4>5, <4>6 DEF LoginNext, LoginStep
    <3> QED
      BY <3>1, <3>2 DEF SlotsInv
  <2> QED
    BY <2>1, <2>2 DEF Next, RoomsOnly, PresenceOnly, GovernanceOnly, ViewsOnly, LoginOnly, FilesOnly,
       vars
<1>3. SlotsInv => HashesBounded
  BY LoginAssumption DEF SlotsInv, HashesBounded
<1> QED
  BY <1>1, <1>2, <1>3, PTL DEF Spec

(* Of overlapping registrations of a name one has its row, whatever        *)
(* LookForName told them, and whom Answer tells that he registered is its  *)
(* owner.                                                                  *)
THEOREM OneRegistrationWinsHolds == Spec => []OneRegistrationWins
<1>1. Init => AccountInv
  <2> SUFFICES ASSUME Init PROVE AccountInv
    OBVIOUS
  <2>1. PICK has : /\ has = {} \/ \E r : has = {r}
                   /\ account = [n \in Names |-> {[by |-> 0, role |-> r] : r \in has}]
    BY DEF Init, LoginInit
  <2>2. \A n \in Names : account[n] = {} \/ \E u \in account[n] : account[n] = {u}
    BY <2>1
  <2>3. \A w \in Workers : req[w] = Idle
    BY DEF Init, RequestsInit
  <2> QED
    BY <2>1, <2>2, <2>3 DEF Init, LoginInit, AccountInv, Registering
<1>2. Shape /\ AccountInv /\ [Next]_vars => AccountInv'
  <2> SUFFICES ASSUME Shape, AccountInv, [Next]_vars PROVE AccountInv'
    OBVIOUS
  <2>1. ASSUME NEW ops, AccountOps \cap ops = {}, Leaves(ops), UNCHANGED loginVars PROVE AccountInv'
    <3>1. \A w \in Workers : Registering(req[w]') => req'[w] = req[w]
      BY <2>1 DEF Leaves, Mine, Registering, AccountOps
    <3> QED
      BY <2>1, <3>1 DEF AccountInv, loginVars, Registering
  <2>2. ASSUME NEW w \in Workers,
               account' = account, told' = told,
               \A x \in Workers : x # w => req'[x] = req[x],
               ~Registering(req'[w])
        PROVE  AccountInv'
    BY <2>2 DEF AccountInv, Registering
  <2>3. ASSUME NEW w \in Workers, Return(w)
        PROVE  (\A x \in Workers : x # w => req'[x] = req[x]) /\ ~Registering(req'[w])
    BY <2>3 DEF Shape, Return, Registering
  <2>4. ASSUME NEW w \in Workers, ReadClock(w) \/ Allow(w) \/ LookUp(w) \/ TakeSlot(w)
        PROVE  AccountInv'
    <3>1. account' = account /\ told' = told
      BY <2>4 DEF ReadClock, Allow, LookUp, TakeSlot, loginVars
    <3>2. \A x \in Workers : x # w => req'[x] = req[x]
      BY <2>4 DEF ReadClock, Allow, LookUp, TakeSlot, Go, Return, Shape
    <3>3. req'[w] = Idle \/ (req[w].op \in LoginOps /\ req'[w].op = req[w].op)
      <4>1. CASE Allow(w)
        BY <4>1 DEF Allow, Go, Return, Doing, Shape
      <4>2. CASE LookUp(w)
        BY <4>2 DEF LookUp, Return, Doing, Shape
      <4>3. CASE TakeSlot(w)
        BY <4>3 DEF TakeSlot, Go, Return, Doing, Shape
      <4>4. CASE ReadClock(w)
        <5>1. req'[w] = [[req[w] EXCEPT !.read = now] EXCEPT !.at = "lock"] /\ req[w].op \in LoginOps
          BY <4>4 DEF ReadClock, Doing, Shape
        <5> QED
          BY <5>1 DEF Shape
      <4> QED
        BY <2>4, <4>1, <4>2, <4>3, <4>4
    <3> QED
      BY <2>2, <3>1, <3>2, <3>3 DEF Registering, LoginOps
  <2>5. ASSUME NEW w \in Workers, TimesOut(w) \/ IssueToken(w) \/ OtherEntrance(w) \/ RegisterFails(w)
        PROVE  AccountInv'
    BY <2>2, <2>3, <2>5 DEF TimesOut, IssueToken, OtherEntrance, RegisterFails, loginVars
  <2>6. ASSUME NEW w \in Workers, NEW right \in BOOLEAN, Compared(w, right)
        PROVE  AccountInv'
    <3>1. account' = account /\ told' = told
      BY <2>6 DEF Compared
    <3>2. \A x \in Workers : x # w => req'[x] = req[x]
      BY <2>6 DEF Compared, Go, Return, Shape
    <3>3. req'[w] = Idle \/ (req[w].op \in LoginOps /\ req'[w].op = req[w].op)
      BY <2>6 DEF Compared, Waiting, Go, Return, Doing, Shape
    <3> QED
      BY <2>2, <3>1, <3>2, <3>3 DEF Registering, LoginOps
  <2>7. ASSUME NEW w \in Workers, LookForName(w)
        PROVE  AccountInv'
    <3>1. account' = account /\ told' = told
      BY <2>7 DEF LookForName, loginVars
    <3>2. Registering(req[w])
      BY <2>7 DEF LookForName, Doing, Registering
    <3>3. CASE Return(w)
      BY <2>2, <2>3, <3>1, <3>3
    <3>4. CASE Go(w, "create")
      <4>1. /\ \A x \in Workers : x # w => req'[x] = req[x]
            /\ DOMAIN req'[w] = DOMAIN req[w] /\ req'[w].at = "create" /\ req'[w].name = req[w].name
        BY <3>2, <3>4 DEF Go, Shape, Registering, AccountInv
      <4> QED
        BY <3>1, <3>2, <4>1 DEF AccountInv, Registering
    <3> QED
      BY <2>7, <3>3, <3>4 DEF LookForName
  <2>8. ASSUME NEW w \in Workers, CreateUser(w)
        PROVE  AccountInv'
    <3> DEFINE n == req[w].name
               u == [by |-> req[w].id, role |-> 0]
    <3>1. Registering(req[w]) /\ told' = told
      BY <2>8 DEF CreateUser, Doing, Registering
    <3>2. CASE account[n] # {}
      BY <2>2, <2>3, <2>8, <3>1, <3>2 DEF CreateUser, UsernameIsFree
    <3>3. CASE account[n] = {}
      <4>1. account' = [account EXCEPT ![n] = {u}] /\ Go(w, "answer")
        BY <2>8, <3>3 DEF CreateUser, UsernameIsFree
      <4>2. /\ \A x \in Workers : x # w => req'[x] = req[x]
            /\ DOMAIN req'[w] = DOMAIN req[w] /\ req'[w].name = n /\ req'[w].id = req[w].id
        BY <3>1, <4>1 DEF Go, Shape, Registering, AccountInv
      <4>3. \A m \in Names : m # n => account'[m] = account[m]
        BY <3>3, <4>1 DEF AccountInv
      <4>4. n \in Names /\ account'[n] = {u} /\ u.by = req[w].id
        BY <3>1, <4>1 DEF AccountInv
      <4>5. account' = [m \in Names |-> account'[m]]
        BY <4>1 DEF AccountInv
      <4>6. \A m \in Names : account'[m] = {} \/ \E v \in account'[m] : account'[m] = {v}
        BY <4>3, <4>4 DEF AccountInv
      <4> QED
        <5>1. \A m \in Names : \A id : (\E v \in account[m] : v.by = id) => \E v \in account'[m] : v.by = id
          BY <3>3, <4>3
        <5>2. \A x \in told' : x[1] \in Names /\ \E v \in account'[x[1]] : v.by = x[2]
          BY <3>1, <5>1 DEF AccountInv
        <5>3. \A x \in Workers : Registering(req'[x]) =>
                  /\ {"name", "id"} \subseteq DOMAIN req'[x] /\ req'[x].name \in Names
                  /\ req'[x].at = "answer" => \E v \in account'[req'[x].name] : v.by = req'[x].id
          <6>1. ASSUME NEW x \in Workers, x # w, Registering(req'[x])
                PROVE  /\ {"name", "id"} \subseteq DOMAIN req'[x] /\ req'[x].name \in Names
                       /\ req'[x].at = "answer" => \E v \in account'[req'[x].name] : v.by = req'[x].id
            <7>1. req'[x] = req[x]
              BY <4>2, <6>1
            <7> QED
              BY <5>1, <6>1, <7>1 DEF AccountInv
          <6>2. /\ {"name", "id"} \subseteq DOMAIN req'[w] /\ req'[w].name \in Names
                /\ \E v \in account'[req'[w].name] : v.by = req'[w].id
            BY <3>1, <4>2, <4>4 DEF AccountInv
          <6> QED
            BY <6>1, <6>2
        <5> QED
          BY <4>5, <4>6, <5>2, <5>3 DEF AccountInv, Registering
    <3> QED
      BY <3>2, <3>3
  <2>9. ASSUME NEW w \in Workers, Answer(w)
        PROVE  AccountInv'
    <3>1. Registering(req[w]) /\ req[w].at = "answer" /\ account' = account
      BY <2>9 DEF Answer, Doing, Registering
    <3>2. told' = told \cup {<<req[w].name, req[w].id>>}
      BY <2>9 DEF Answer
    <3>3. (\A x \in Workers : x # w => req'[x] = req[x]) /\ ~Registering(req'[w])
      BY <2>3, <2>9 DEF Answer
    <3> QED
      BY <3>1, <3>2, <3>3 DEF AccountInv, Registering
  <2>10. ASSUME NEW w \in Workers, NEW q, q.op \in LoginOps, BeginLogin(w, q)
         PROVE  AccountInv'
    BY <2>2, <2>10 DEF BeginLogin, Arrives, loginVars, Registering, LoginOps, Shape
  <2>11. ASSUME NEW w \in Workers, NEW n \in Names, BeginLogin(w, RegisterHandler(n))
         PROVE  AccountInv'
    <3>1. account' = account /\ told' = told
      BY <2>11 DEF BeginLogin, loginVars
    <3>2. /\ \A x \in Workers : x # w => req'[x] = req[x]
          /\ req'[w] = RegisterHandler(n)
      BY <2>11 DEF BeginLogin, Arrives, Shape
    <3> QED
      BY <3>1, <3>2 DEF AccountInv, Registering, RegisterHandler
  <2>12. CASE Tick \/ ComparedLate \/ ReleaseSlot
    BY <2>12 DEF Tick, ComparedLate, ReleaseSlot, AccountInv, Registering
  <2>13. CASE LoginNext
    <3>1. \A a \in Addrs, n \in Names :
              LoginHandler(a, n).op \in LoginOps /\ AdminLogin(a, n).op \in LoginOps
      BY DEF LoginHandler, AdminLogin, LoginOps
    <3> QED
      BY <2>4, <2>5, <2>6, <2>7, <2>8, <2>9, <2>10, <2>11, <2>12, <2>13, <3>1 DEF LoginNext, LoginStep
  <2>14. CASE UNCHANGED loginVars /\ \E ops : AccountOps \cap ops = {} /\ Leaves(ops)
    BY <2>1, <2>14
  <2> QED
    BY <2>13, <2>14, Components, OpsDisjoint DEF RoomsOnly, PresenceOnly, GovernanceOnly, ViewsOnly,
       LoginOnly, FilesOnly, vars
<1>3. AccountInv => OneRegistrationWins
  <2> SUFFICES ASSUME AccountInv, NEW n \in Names
               PROVE  /\ Cardinality(account[n]) <= 1
                      /\ \A id \in {x[2] : x \in {y \in told : y[1] = n}} : \E u \in account[n] : u.by = id
    BY DEF OneRegistrationWins
  <2>1. Cardinality(account[n]) <= 1
    <3>1. CASE account[n] = {}
      BY <3>1, FS_EmptySet
    <3>2. ASSUME NEW u, account[n] = {u} PROVE Cardinality(account[n]) <= 1
      <4>1. Cardinality({u}) = 1
        BY FS_Singleton
      <4> QED
        BY <3>2, <4>1
    <3> QED
      BY <3>1, <3>2 DEF AccountInv
  <2>2. \A id \in {x[2] : x \in {y \in told : y[1] = n}} : \E u \in account[n] : u.by = id
    BY DEF AccountInv
  <2> QED
    BY <2>1, <2>2
<1> QED
  BY ShapeHolds, <1>1, <1>2, <1>3, PTL DEF Spec

-----------------------------------------------------------------------------
(* Attempts that pass.  The definitions are about the attempts p that      *)
(* passed and those l that came late, of one address or of one address and *)
(* name, in a history h of attempts; about all readings R of the clock by  *)
(* then, anybody's; and about the window x they are counted in, of this    *)
(* length and limit.                                                       *)
Stretch(h, s, from, to) == {i \in s : from <= h[i].at /\ h[i].at < to}

Passing(h, p, t, window) == Cardinality(Stretch(h, p, t, t + window))

Delayed(h, l, t, window) == Cardinality(Stretch(h, l, t - window + 1, t + window))

Allowed(h, l, t, window, limit) == limit * Delayed(h, l, t, window)

KeptOf(h, p, l, R) ==
    /\ IsFiniteSet(p) /\ IsFiniteSet(l) /\ R \subseteq Nat
    /\ \A i \in p \cup l : h[i].at \in R

(* What is to be shown.                                                    *)
Bounded(h, p, l, window, limit) ==
    \A t \in Int : Passing(h, p, t, window) <= 2 * limit - 1 + Allowed(h, l, t, window, limit)

(* A stretch from t that has not been left behind by any reading yet.      *)
Open(R, t, window) == \A r \in R : r < t + window

(* No window: what passed of late was in a single one, without its first.  *)
Rested(h, p, l, R, window, limit) ==
    \A t \in Int : Open(R, t, window) =>
        Passing(h, p, t, window) <= limit - 1 + Allowed(h, l, t, window, limit)

(* A window: what passed in it was counted, and what passed of late before *)
(* it was in a single one, without its first.                              *)
Running(h, p, l, R, x, window, limit) ==
    \A t \in Int : Open(R, t, window) =>
        /\ t <= x.start => Passing(h, p, t, window) <= limit - 1 + x.count + Allowed(h, l, t, window, limit)
        /\ t > x.start => Passing(h, p, t, window) <= limit - 1 + Allowed(h, l, t, window, limit)
        /\ t > x.start /\ t < x.start + window =>
              Passing(h, p, t, window) <= x.count - 1 + Allowed(h, l, t, window, limit)

WindowOK(h, p, l, R, x, window, limit) ==
    /\ x \in [start : Int, count : Nat]
    /\ KeptOf(h, p, l, R) /\ Bounded(h, p, l, window, limit)
    /\ x.start = -1 => Rested(h, p, l, R, window, limit)
    /\ x.start # -1 => Running(h, p, l, R, x, window, limit)

(* A stretch has finitely many attempts.                                   *)
LEMMA StretchCounts ==
  ASSUME NEW h, NEW s, IsFiniteSet(s), NEW from, NEW to
  PROVE  IsFiniteSet(Stretch(h, s, from, to)) /\ Cardinality(Stretch(h, s, from, to)) \in Nat
<1>1. IsFiniteSet(Stretch(h, s, from, to))
  BY FS_Subset DEF Stretch
<1> QED
  BY <1>1, FS_CardinalityType

(* One more attempt is one more in the stretches it lies in.               *)
LEMMA StretchGrows ==
  ASSUME NEW h, NEW s, IsFiniteSet(s), NEW j, j \notin s, NEW s2, s2 = s \/ s2 = s \cup {j},
         NEW from, NEW to
  PROVE  /\ Cardinality(Stretch(h, s, from, to)) \in Nat /\ Cardinality(Stretch(h, s2, from, to)) \in Nat
         /\ Cardinality(Stretch(h, s2, from, to)) =
               IF s2 = s \cup {j} /\ from <= h[j].at /\ h[j].at < to
               THEN Cardinality(Stretch(h, s, from, to)) + 1 ELSE Cardinality(Stretch(h, s, from, to))
<1> DEFINE was == Stretch(h, s, from, to)
           is == Stretch(h, s2, from, to)
<1>1. IsFiniteSet(was) /\ Cardinality(was) \in Nat
  BY StretchCounts
<1>2. j \notin was
  BY DEF Stretch
<1>3. CASE s2 = s \cup {j} /\ from <= h[j].at /\ h[j].at < to
  <2>1. is = was \cup {j}
    BY <1>3 DEF Stretch
  <2> HIDE DEF was, is
  <2>2. Cardinality(is) = Cardinality(was) + 1
    BY <1>1, <1>2, <2>1, FS_AddElement
  <2> QED
    BY <1>1, <1>3, <2>2 DEF was, is
<1>4. CASE ~(s2 = s \cup {j} /\ from <= h[j].at /\ h[j].at < to)
  <2>1. is = was
    BY <1>4 DEF Stretch
  <2> QED
    BY <1>1, <1>4, <2>1
<1> QED
  BY <1>3, <1>4

(* What one more attempt j adds to what passed and to what may.            *)
Moved(h, p, l, j, p2, l2, t, window, limit) ==
    /\ Passing(h, p, t, window) \in Nat /\ Passing(h, p2, t, window) \in Nat
    /\ Allowed(h, l, t, window, limit) \in Nat /\ Allowed(h, l2, t, window, limit) \in Nat
    /\ Passing(h, p2, t, window) =
          IF p2 = p \cup {j} /\ t <= h[j].at /\ h[j].at < t + window
          THEN Passing(h, p, t, window) + 1 ELSE Passing(h, p, t, window)
    /\ Allowed(h, l2, t, window, limit) =
          IF l2 = l \cup {j} /\ t - window < h[j].at /\ h[j].at < t + window
          THEN Allowed(h, l, t, window, limit) + limit ELSE Allowed(h, l, t, window, limit)

(* The bounds as numbers, and what one more attempt adds to them.          *)
LEMMA BoundsMove ==
  ASSUME NEW h, NEW p, NEW l, NEW R, KeptOf(h, p, l, R), NEW j, j \notin p \cup l, h[j].at \in Nat,
         NEW p2, p2 = p \/ p2 = p \cup {j}, NEW l2, l2 = l \/ l2 = l \cup {j},
         NEW t \in Int, NEW window \in Nat \ {0}, NEW limit \in Nat \ {0}
  PROVE  Moved(h, p, l, j, p2, l2, t, window, limit)
<1>1. /\ Passing(h, p, t, window) \in Nat /\ Passing(h, p2, t, window) \in Nat
      /\ Passing(h, p2, t, window) =
            IF p2 = p \cup {j} /\ t <= h[j].at /\ h[j].at < t + window
            THEN Passing(h, p, t, window) + 1 ELSE Passing(h, p, t, window)
  BY StretchGrows DEF Passing, KeptOf
<1>2. /\ Delayed(h, l, t, window) \in Nat /\ Delayed(h, l2, t, window) \in Nat
      /\ Delayed(h, l2, t, window) =
            IF l2 = l \cup {j} /\ t - window + 1 <= h[j].at /\ h[j].at < t + window
            THEN Delayed(h, l, t, window) + 1 ELSE Delayed(h, l, t, window)
  BY StretchGrows DEF Delayed, KeptOf
<1>3. \A d \in Nat : limit * d \in Nat /\ limit * (d + 1) = limit * d + limit
  OBVIOUS
<1>4. t - window + 1 <= h[j].at <=> t - window < h[j].at
  OBVIOUS
<1> QED
  BY <1>1, <1>2, <1>3, <1>4 DEF Allowed, Moved

(* A later reading leaves fewer stretches open.                            *)
LEMMA WindowLasts ==
  ASSUME NEW h, NEW p, NEW l, NEW R, NEW r \in Nat, NEW x, NEW window, NEW limit,
         WindowOK(h, p, l, R, x, window, limit)
  PROVE  WindowOK(h, p, l, R \cup {r}, x, window, limit)
<1>1. \A t : Open(R \cup {r}, t, window) => Open(R, t, window)
  BY DEF Open
<1> QED
  BY <1>1 DEF WindowOK, KeptOf, Rested, Running

(* What another history says of the same attempts.                         *)
LEMMA SameAttempts ==
  ASSUME NEW h, NEW h2, NEW p, NEW l, \A i \in p \cup l : h2[i] = h[i], NEW R, NEW x, NEW window, NEW limit,
         WindowOK(h, p, l, R, x, window, limit)
  PROVE  WindowOK(h2, p, l, R, x, window, limit)
<1>1. \A from, to : Stretch(h2, p, from, to) = Stretch(h, p, from, to)
                    /\ Stretch(h2, l, from, to) = Stretch(h, l, from, to)
  BY DEF Stretch
<1>2. \A t : Passing(h2, p, t, window) = Passing(h, p, t, window)
             /\ Allowed(h2, l, t, window, limit) = Allowed(h, l, t, window, limit)
  BY <1>1 DEF Passing, Delayed, Allowed
<1>3. KeptOf(h2, p, l, R) /\ Bounded(h2, p, l, window, limit)
  BY <1>2 DEF WindowOK, KeptOf, Bounded
<1>4. x.start = -1 => Rested(h2, p, l, R, window, limit)
  BY <1>2 DEF WindowOK, Rested
<1>5. x.start # -1 => Running(h2, p, l, R, x, window, limit)
  BY <1>2 DEF WindowOK, Running
<1> QED
  BY <1>3, <1>4, <1>5 DEF WindowOK

(* A sweep takes away windows that are over, and leaves a rest.            *)
LEMMA WindowSwept ==
  ASSUME NEW h, NEW p, NEW l, NEW R, NEW r \in R, NEW x, NEW window \in Nat \ {0}, NEW limit \in Nat \ {0},
         WindowOK(h, p, l, R, x, window, limit)
  PROVE  WindowOK(h, p, l, R, CleanUp(x, r, window), window, limit)
<1>1. CASE ~Over(x, r, window)
  BY <1>1 DEF CleanUp
<1>2. CASE Over(x, r, window)
  <2>1. CleanUp(x, r, window) = NoWindow
    BY <1>2 DEF CleanUp
  <2>2. Running(h, p, l, R, x, window, limit) /\ r \in Nat /\ x.start \in Int /\ r - x.start >= window
    BY <1>2 DEF WindowOK, Over, KeptOf
  <2>3. ASSUME NEW t \in Int, Open(R, t, window)
        PROVE  Passing(h, p, t, window) <= limit - 1 + Allowed(h, l, t, window, limit)
    <3>1. t > x.start
      BY <2>2, <2>3 DEF Open
    <3> QED
      BY <2>2, <2>3, <3>1 DEF Running
  <2>4. NoWindow.start = -1 /\ NoWindow \in [start : Int, count : Nat]
    BY DEF NoWindow
  <2> QED
    BY <2>1, <2>3, <2>4 DEF WindowOK, Rested
<1> QED
  BY <1>1, <1>2

(* An attempt that is not counted here changes nothing but that it may     *)
(* have been late.                                                         *)
LEMMA WindowRests ==
  ASSUME NEW h, NEW p, NEW l, NEW R, NEW x, NEW window \in Nat \ {0}, NEW limit \in Nat \ {0},
         WindowOK(h, p, l, R, x, window, limit), NEW j, j \notin p \cup l, h[j].at \in R,
         NEW l2, l2 = l \/ l2 = l \cup {j}
  PROVE  WindowOK(h, p, l2, R, x, window, limit)
<1>1. x \in [start : Int, count : Nat] /\ KeptOf(h, p, l, R) /\ Bounded(h, p, l, window, limit) /\ h[j].at \in Nat
  BY DEF WindowOK, KeptOf
<1>2. KeptOf(h, p, l2, R)
  BY <1>1, FS_AddElement DEF KeptOf
<1>3. ASSUME NEW t \in Int
      PROVE  /\ Passing(h, p, t, window) \in Nat
             /\ Allowed(h, l, t, window, limit) \in Nat /\ Allowed(h, l2, t, window, limit) \in Nat
             /\ Allowed(h, l2, t, window, limit) >= Allowed(h, l, t, window, limit)
  <2> DEFINE D == Allowed(h, l, t, window, limit)
             D2 == Allowed(h, l2, t, window, limit)
  <2>1. /\ Passing(h, p, t, window) \in Nat /\ D \in Nat /\ D2 \in Nat
        /\ D2 = D + limit \/ D2 = D
    <3>1. Moved(h, p, l, j, p, l2, t, window, limit)
      BY <1>1, BoundsMove
    <3> QED
      BY <3>1 DEF Moved
  <2> HIDE DEF D, D2
  <2>2. D2 >= D
    BY <2>1
  <2> QED
    BY <2>1, <2>2 DEF D, D2
<1>4. Bounded(h, p, l2, window, limit)
  <2> SUFFICES ASSUME NEW t \in Int
               PROVE  Passing(h, p, t, window) <= 2 * limit - 1 + Allowed(h, l2, t, window, limit)
    BY DEF Bounded
  <2> DEFINE D == Allowed(h, l, t, window, limit)
             D2 == Allowed(h, l2, t, window, limit)
             P == Passing(h, p, t, window)
  <2>1. D \in Nat /\ D2 \in Nat /\ P \in Nat /\ D2 >= D /\ P <= 2 * limit - 1 + D
    BY <1>1, <1>3 DEF Bounded
  <2> HIDE DEF D, D2, P
  <2>2. P <= 2 * limit - 1 + D2
    BY <2>1
  <2> QED
    BY <2>2 DEF P, D2
<1>5. ASSUME x.start = -1 PROVE Rested(h, p, l2, R, window, limit)
  <2> SUFFICES ASSUME NEW t \in Int, Open(R, t, window)
               PROVE  Passing(h, p, t, window) <= limit - 1 + Allowed(h, l2, t, window, limit)
    BY DEF Rested
  <2> DEFINE D == Allowed(h, l, t, window, limit)
             D2 == Allowed(h, l2, t, window, limit)
             P == Passing(h, p, t, window)
  <2>1. D \in Nat /\ D2 \in Nat /\ P \in Nat /\ D2 >= D /\ P <= limit - 1 + D
    BY <1>3, <1>5 DEF WindowOK, Rested
  <2> HIDE DEF D, D2, P
  <2>2. P <= limit - 1 + D2
    BY <2>1
  <2> QED
    BY <2>2 DEF P, D2
<1>6. ASSUME x.start # -1 PROVE Running(h, p, l2, R, x, window, limit)
  <2> SUFFICES ASSUME NEW t \in Int, Open(R, t, window)
               PROVE  /\ t <= x.start =>
                            Passing(h, p, t, window) <= limit - 1 + x.count + Allowed(h, l2, t, window, limit)
                      /\ t > x.start =>
                            Passing(h, p, t, window) <= limit - 1 + Allowed(h, l2, t, window, limit)
                      /\ t > x.start /\ t < x.start + window =>
                            Passing(h, p, t, window) <= x.count - 1 + Allowed(h, l2, t, window, limit)
    BY DEF Running
  <2> DEFINE D == Allowed(h, l, t, window, limit)
             D2 == Allowed(h, l2, t, window, limit)
             P == Passing(h, p, t, window)
  <2>1. /\ D \in Nat /\ D2 \in Nat /\ P \in Nat /\ D2 >= D /\ x.start \in Int /\ x.count \in Nat
        /\ t <= x.start => P <= limit - 1 + x.count + D
        /\ t > x.start => P <= limit - 1 + D
        /\ t > x.start /\ t < x.start + window => P <= x.count - 1 + D
    BY <1>1, <1>3, <1>6 DEF WindowOK, Running
  <2> HIDE DEF D, D2, P
  <2>2. /\ t <= x.start => P <= limit - 1 + x.count + D2
        /\ t > x.start => P <= limit - 1 + D2
        /\ t > x.start /\ t < x.start + window => P <= x.count - 1 + D2
    BY <2>1
  <2> QED
    BY <2>2 DEF P, D2
<1> QED
  BY <1>1, <1>2, <1>4, <1>5, <1>6 DEF WindowOK

(* An attempt is late when somebody has a later reading.                   *)
LateAt(R, r) == \E q \in R : q > r

(* A window opens after a rest.                                            *)
LEMMA WindowOpens ==
  ASSUME NEW h, NEW p, NEW l, NEW R, NEW window \in Nat \ {0}, NEW limit \in Nat \ {0},
         KeptOf(h, p, l, R), Bounded(h, p, l, window, limit), Rested(h, p, l, R, window, limit),
         NEW j, j \notin p \cup l, h[j].at \in R, NEW p2, p2 = p \/ p2 = p \cup {j},
         NEW l2, l2 = l \/ l2 = l \cup {j}, l2 = l \cup {j} <=> LateAt(R, h[j].at)
  PROVE  WindowOK(h, p2, l2, R, [start |-> h[j].at, count |-> 1], window, limit)
<1> DEFINE r == h[j].at
           x == [start |-> r, count |-> 1]
<1>1. /\ r \in R /\ r \in Nat /\ KeptOf(h, p, l, R)
      /\ x \in [start : Int, count : Nat] /\ x.start = r /\ x.count = 1 /\ x.start # -1
  <2>1. r \in R /\ r \in Nat
    BY DEF KeptOf
  <2> HIDE DEF r
  <2> QED
    BY <2>1
<1>2. KeptOf(h, p2, l2, R)
  <2>1. IsFiniteSet(p2) /\ IsFiniteSet(l2)
    BY FS_AddElement DEF KeptOf
  <2> QED
    BY <2>1 DEF KeptOf
<1>3. ASSUME NEW t \in Int
      PROVE  /\ Open(R, t, window) =>
                  /\ t <= r => Passing(h, p2, t, window) <= limit - 1 + 1 + Allowed(h, l2, t, window, limit)
                  /\ t > r => Passing(h, p2, t, window) <= limit - 1 + Allowed(h, l2, t, window, limit)
                  /\ t > r /\ t < r + window =>
                        Passing(h, p2, t, window) <= 1 - 1 + Allowed(h, l2, t, window, limit)
             /\ Passing(h, p2, t, window) <= 2 * limit - 1 + Allowed(h, l2, t, window, limit)
  <2> DEFINE D == Allowed(h, l, t, window, limit)
             D2 == Allowed(h, l2, t, window, limit)
             P == Passing(h, p, t, window)
             P2 == Passing(h, p2, t, window)
  <2>1. /\ D \in Nat /\ D2 \in Nat /\ P \in Nat /\ P2 \in Nat
        /\ P2 = P \/ (P2 = P + 1 /\ t <= r /\ r < t + window)
        /\ D2 = IF LateAt(R, r) /\ t - window < r /\ r < t + window THEN D + limit ELSE D
    <3>1. l2 = l \/ l2 = l \cup {j}
      OBVIOUS
    <3>2. l2 = l \cup {j} <=> LateAt(R, r)
      OBVIOUS
    <3>3. /\ D \in Nat /\ D2 \in Nat /\ P \in Nat /\ P2 \in Nat
          /\ P2 = IF p2 = p \cup {j} /\ t <= r /\ r < t + window THEN P + 1 ELSE P
          /\ D2 = IF l2 = l \cup {j} /\ t - window < r /\ r < t + window THEN D + limit ELSE D
      <4>1. /\ KeptOf(h, p, l, R) /\ j \notin p \cup l /\ h[j].at \in Nat
            /\ p2 = p \/ p2 = p \cup {j}
            /\ l2 = l \/ l2 = l \cup {j}
            /\ t \in Int /\ window \in Nat \ {0} /\ limit \in Nat \ {0}
        BY <1>1, <3>1
      <4>2. Moved(h, p, l, j, p2, l2, t, window, limit)
        BY <4>1, BoundsMove
      <4> QED
        BY <4>2, Zenon DEF Moved
    <3> HIDE DEF D, D2, P, P2, r
    <3> QED
      BY <3>2, <3>3
  <2>2. P <= 2 * limit - 1 + D /\ (Open(R, t, window) => P <= limit - 1 + D)
    BY DEF Bounded, Rested
  <2>3. ASSUME ~LateAt(R, r), t > r PROVE P2 = 0
    <3>1. ASSUME NEW i \in p2 PROVE h[i].at <= r
      <4>1. h[i].at \in R /\ h[i].at \in Nat
        BY <1>2 DEF KeptOf
      <4>2. ~(h[i].at > r)
        BY <2>3, <4>1 DEF LateAt
      <4> QED
        BY <1>1, <4>1, <4>2
    <3>2. Stretch(h, p2, t, t + window) = {}
      <4>1. \A i \in p2 : h[i].at \in Nat
        BY <1>2 DEF KeptOf
      <4> QED
        BY <1>1, <2>3, <3>1, <4>1 DEF Stretch
    <3> QED
      BY <3>2, FS_EmptySet DEF Passing
  <2>4. ~LateAt(R, r) /\ r < t + window => Open(R, t, window)
    <3> SUFFICES ASSUME ~LateAt(R, r), r < t + window, NEW q \in R PROVE q < t + window
      BY DEF Open
    <3>1. q \in Nat /\ ~(q > r)
      BY DEF LateAt, KeptOf
    <3> QED
      BY <1>1, <3>1
  <2>5. Open(R, t, window) => r < t + window
    BY <1>1 DEF Open
  <2> HIDE DEF D, D2, P, P2, r, x
  <2>6. P2 <= 2 * limit - 1 + D2
    <3>1. CASE LateAt(R, r)
      BY <1>1, <2>1, <2>2, <3>1
    <3>2. CASE ~LateAt(R, r)
      BY <1>1, <2>1, <2>2, <2>4, <3>2
    <3> QED
      BY <3>1, <3>2
  <2>7. ASSUME Open(R, t, window)
        PROVE  /\ t <= r => P2 <= limit - 1 + 1 + D2
               /\ t > r => P2 <= limit - 1 + D2
               /\ t > r /\ t < r + window => P2 <= 1 - 1 + D2
    <3>1. CASE LateAt(R, r)
      BY <1>1, <2>1, <2>2, <2>5, <2>7, <3>1
    <3>2. CASE ~LateAt(R, r)
      BY <1>1, <2>1, <2>2, <2>3, <2>7, <3>2
    <3> QED
      BY <3>1, <3>2
  <2> QED
    BY <2>6, <2>7 DEF D2, P2, r
<1>4. Bounded(h, p2, l2, window, limit)
  BY <1>3 DEF Bounded
<1>5. Running(h, p2, l2, R, x, window, limit)
  <2> HIDE DEF r
  <2>1. ASSUME NEW t \in Int, Open(R, t, window)
        PROVE  /\ t <= x.start =>
                     Passing(h, p2, t, window) <= limit - 1 + x.count + Allowed(h, l2, t, window, limit)
               /\ t > x.start =>
                     Passing(h, p2, t, window) <= limit - 1 + Allowed(h, l2, t, window, limit)
               /\ t > x.start /\ t < x.start + window =>
                     Passing(h, p2, t, window) <= x.count - 1 + Allowed(h, l2, t, window, limit)
    BY <1>3, <2>1 DEF r
  <2> HIDE DEF x
  <2> QED
    BY <2>1 DEF Running
<1> HIDE DEF x
<1>6. WindowOK(h, p2, l2, R, x, window, limit)
  BY <1>1, <1>2, <1>4, <1>5 DEF WindowOK
<1> QED
  BY <1>6 DEF x

(* A window counts one more.                                               *)
LEMMA WindowCounts ==
  ASSUME NEW h, NEW p, NEW l, NEW R, NEW x, NEW window \in Nat \ {0}, NEW limit \in Nat \ {0},
         WindowOK(h, p, l, R, x, window, limit), x.start # -1,
         NEW j, j \notin p \cup l, h[j].at \in R, h[j].at - x.start < window,
         NEW p2, p2 = p \/ (p2 = p \cup {j} /\ x.count + 1 <= limit),
         NEW l2, l2 = l \/ l2 = l \cup {j}, l2 = l \cup {j} <=> LateAt(R, h[j].at)
  PROVE  WindowOK(h, p2, l2, R, [x EXCEPT !.count = x.count + 1], window, limit)
<1> DEFINE r == h[j].at
           y == [x EXCEPT !.count = x.count + 1]
<1>1. /\ r \in R /\ r \in Nat /\ x.start \in Int /\ x.count \in Nat
      /\ y \in [start : Int, count : Nat] /\ y.start = x.start /\ y.count = x.count + 1
      /\ KeptOf(h, p, l, R) /\ Bounded(h, p, l, window, limit) /\ Running(h, p, l, R, x, window, limit)
  BY DEF WindowOK, KeptOf
<1>2. KeptOf(h, p2, l2, R)
  <2>1. IsFiniteSet(p2) /\ IsFiniteSet(l2)
    BY <1>1, FS_AddElement DEF KeptOf
  <2> QED
    BY <1>1, <2>1 DEF KeptOf
<1> HIDE DEF y
<1>3. ASSUME NEW t \in Int
      PROVE  /\ Open(R, t, window) =>
                  /\ t <= y.start =>
                        Passing(h, p2, t, window) <= limit - 1 + y.count + Allowed(h, l2, t, window, limit)
                  /\ t > y.start => Passing(h, p2, t, window) <= limit - 1 + Allowed(h, l2, t, window, limit)
                  /\ t > y.start /\ t < y.start + window =>
                        Passing(h, p2, t, window) <= y.count - 1 + Allowed(h, l2, t, window, limit)
             /\ Passing(h, p2, t, window) <= 2 * limit - 1 + Allowed(h, l2, t, window, limit)
  <2> DEFINE D == Allowed(h, l, t, window, limit)
             D2 == Allowed(h, l2, t, window, limit)
             P == Passing(h, p, t, window)
             P2 == Passing(h, p2, t, window)
             s == x.start
             c == x.count
  <2>1. /\ D \in Nat /\ D2 \in Nat /\ P \in Nat /\ P2 \in Nat
        /\ P2 = P \/ (P2 = P + 1 /\ t <= r /\ r < t + window /\ c + 1 <= limit)
        /\ D2 = IF LateAt(R, r) /\ t - window < r /\ r < t + window THEN D + limit ELSE D
    <3>1. l2 = l \/ l2 = l \cup {j}
      OBVIOUS
    <3>2. l2 = l \cup {j} <=> LateAt(R, r)
      OBVIOUS
    <3>3. p2 = p \cup {j} => c + 1 <= limit
      OBVIOUS
    <3>4. /\ D \in Nat /\ D2 \in Nat /\ P \in Nat /\ P2 \in Nat
          /\ P2 = IF p2 = p \cup {j} /\ t <= r /\ r < t + window THEN P + 1 ELSE P
          /\ D2 = IF l2 = l \cup {j} /\ t - window < r /\ r < t + window THEN D + limit ELSE D
      <4>1. /\ KeptOf(h, p, l, R) /\ j \notin p \cup l /\ h[j].at \in Nat
            /\ p2 = p \/ p2 = p \cup {j}
            /\ l2 = l \/ l2 = l \cup {j}
            /\ t \in Int /\ window \in Nat \ {0} /\ limit \in Nat \ {0}
        BY <1>1, <3>1
      <4>2. Moved(h, p, l, j, p2, l2, t, window, limit)
        BY <4>1, BoundsMove
      <4> QED
        BY <4>2, Zenon DEF Moved
    <3> HIDE DEF D, D2, P, P2, r
    <3> QED
      BY <3>2, <3>3, <3>4
  <2>2. /\ P <= 2 * limit - 1 + D
        /\ Open(R, t, window) =>
              /\ t <= s => P <= limit - 1 + c + D
              /\ t > s => P <= limit - 1 + D
              /\ t > s /\ t < s + window => P <= c - 1 + D
    BY <1>1 DEF Bounded, Running
  <2>3. ~LateAt(R, r) /\ r < t + window => Open(R, t, window)
    <3> SUFFICES ASSUME ~LateAt(R, r), r < t + window, NEW q \in R PROVE q < t + window
      BY DEF Open
    <3>1. q \in Nat /\ ~(q > r)
      BY <1>1 DEF LateAt, KeptOf
    <3> QED
      BY <1>1, <3>1
  <2>4. y.start = s /\ y.count = c + 1 /\ r - s < window /\ s \in Int /\ c \in Nat /\ r \in Nat
    BY <1>1
  <2> HIDE DEF D, D2, P, P2, r, s, c
  <2>5. P2 <= 2 * limit - 1 + D2
    <3>1. CASE LateAt(R, r)
      BY <2>1, <2>2, <2>4, <3>1
    <3>2. CASE ~LateAt(R, r)
      BY <2>1, <2>2, <2>3, <2>4, <3>2
    <3> QED
      BY <3>1, <3>2
  <2>6. ASSUME Open(R, t, window)
        PROVE  /\ t <= s => P2 <= limit - 1 + (c + 1) + D2
               /\ t > s => P2 <= limit - 1 + D2
               /\ t > s /\ t < s + window => P2 <= (c + 1) - 1 + D2
    <3>1. CASE P2 = P
      <4>1. D2 >= D
        BY <2>1
      <4> QED
        BY <2>1, <2>2, <2>4, <2>6, <3>1, <4>1
    <3>2. CASE P2 = P + 1 /\ t <= r /\ r < t + window /\ c + 1 <= limit
      <4>1. t > s => t < s + window
        BY <2>4, <3>2
      <4>2. D2 >= D
        BY <2>1
      <4> QED
        BY <2>1, <2>2, <2>4, <2>6, <3>2, <4>1, <4>2
    <3> QED
      BY <2>1, <3>1, <3>2
  <2>7. Open(R, t, window) =>
            /\ t <= y.start => P2 <= limit - 1 + y.count + D2
            /\ t > y.start => P2 <= limit - 1 + D2
            /\ t > y.start /\ t < y.start + window => P2 <= y.count - 1 + D2
    BY <2>4, <2>6
  <2> QED
    BY <2>5, <2>7 DEF D2, P2
<1>4. Bounded(h, p2, l2, window, limit)
  BY <1>3 DEF Bounded
<1>5. Running(h, p2, l2, R, y, window, limit)
  BY <1>3 DEF Running
<1>6. y.start # -1
  BY <1>1
<1>7. WindowOK(h, p2, l2, R, y, window, limit)
  BY <1>1, <1>2, <1>4, <1>5, <1>6 DEF WindowOK
<1> QED
  BY <1>7 DEF y

(* incrementWindow opens a window where none runs and counts where one     *)
(* does.                                                                   *)
LEMMA WindowIncrements ==
  ASSUME NEW h, NEW p, NEW l, NEW R, NEW x, NEW window \in Nat \ {0}, NEW limit \in Nat \ {0},
         WindowOK(h, p, l, R, x, window, limit),
         NEW j, j \notin p \cup l, NEW r \in R, h[j].at = r,
         NEW p2, p2 = p \/ (p2 = p \cup {j} /\ incrementWindow(x, r, window).count <= limit),
         NEW l2, l2 = l \/ l2 = l \cup {j}, l2 = l \cup {j} <=> LateAt(R, r)
  PROVE  WindowOK(h, p2, l2, R, incrementWindow(x, r, window), window, limit)
<1>1. /\ x \in [start : Int, count : Nat] /\ KeptOf(h, p, l, R) /\ Bounded(h, p, l, window, limit)
      /\ r \in Nat
  BY DEF WindowOK, KeptOf
<1>2. CASE x.start = -1 \/ r - x.start >= window
  <2>1. Rested(h, p, l, R, window, limit)
    <3>1. CASE x.start = -1
      BY <3>1 DEF WindowOK
    <3>2. CASE x.start # -1
      <4>1. Over(x, r, window)
        BY <1>2, <3>2 DEF Over
      <4>2. CleanUp(x, r, window) = NoWindow /\ NoWindow.start = -1
        BY <4>1 DEF CleanUp, NoWindow
      <4> QED
        BY <4>2, WindowSwept DEF WindowOK
    <3> QED
      BY <3>1, <3>2
  <2>2. incrementWindow(x, r, window) = [start |-> h[j].at, count |-> 1]
    BY <1>2 DEF incrementWindow
  <2> QED
    BY <1>1, <2>1, <2>2, WindowOpens
<1>3. CASE x.start # -1 /\ r - x.start < window
  <2>1. incrementWindow(x, r, window) = [x EXCEPT !.count = x.count + 1]
    BY <1>1, <1>3 DEF incrementWindow
  <2>2. p2 = p \/ (p2 = p \cup {j} /\ x.count + 1 <= limit)
    BY <1>1, <2>1
  <2>3. WindowOK(h, p2, l2, R, [x EXCEPT !.count = x.count + 1], window, limit)
    <3>1. h[j].at \in R /\ h[j].at - x.start < window /\ (l2 = l \cup {j} <=> LateAt(R, h[j].at))
      BY <1>3
    <3> QED
      BY <1>3, <2>2, <3>1, WindowCounts
  <2> QED
    BY <2>1, <2>3
<1> QED
  BY <1>1, <1>2, <1>3

(* The attempts of an address, and of an address and a name; those that    *)
(* passed; those that came late; all readings.                             *)
OfAddr(h, a) == {i \in DOMAIN h : h[i].pair[1] = a}

OfPair(h, p) == {i \in DOMAIN h : h[i].pair = p}

PassedOf(h, s) == {i \in s : h[i].passes}

LateOf(h, s) == {i \in s : \E k \in 1..(i - 1) : h[k].at > h[i].at}

Readings(h) == {h[i].at : i \in DOMAIN h}

(* A window and the attempts s it is for.                                  *)
Windowed(h, s, x, window, limit) ==
    WindowOK(h, PassedOf(h, s), LateOf(h, s), Readings(h), x, window, limit)

Attempt == [pair : Addrs \X Names, at : Nat, passes : BOOLEAN]

(* One more attempt e, the j-th, after the history h.                      *)
OneMore(h, e, h2, j) ==
    /\ h2 \in Seq(Attempt) /\ h2[j] = e /\ j \notin DOMAIN h
    /\ \A i \in DOMAIN h : h2[i] = h[i]
    /\ Readings(h2) = Readings(h) \cup {e.at}
    /\ \A s \in SUBSET DOMAIN h :
          /\ PassedOf(h2, s) = PassedOf(h, s) /\ LateOf(h2, s) = LateOf(h, s)
          /\ PassedOf(h2, s \cup {j}) = IF e.passes THEN PassedOf(h, s) \cup {j} ELSE PassedOf(h, s)
          /\ LateOf(h2, s \cup {j}) = IF LateAt(Readings(h2), e.at) THEN LateOf(h, s) \cup {j}
                                                                  ELSE LateOf(h, s)
    /\ \A a : OfAddr(h2, a) = IF e.pair[1] = a THEN OfAddr(h, a) \cup {j} ELSE OfAddr(h, a)
    /\ \A q : OfPair(h2, q) = IF e.pair = q THEN OfPair(h, q) \cup {j} ELSE OfPair(h, q)

(* One more attempt is one of those that passed if it passed, and of those *)
(* that came late if somebody's reading was later.                         *)
LEMMA AttemptCounted ==
  ASSUME NEW h \in Seq(Attempt), NEW e \in Attempt, NEW h2, h2 = Append(h, e), NEW j, j = Len(h) + 1
  PROVE  OneMore(h, e, h2, j)
<1>1. /\ h2 \in Seq(Attempt)
      /\ DOMAIN h2 = DOMAIN h \cup {j} /\ j \notin DOMAIN h
      /\ h2[j] = e
      /\ \A i \in DOMAIN h : h2[i] = h[i]
      /\ DOMAIN h = 1..(j - 1) /\ j \in Nat
  <2> HIDE DEF Attempt
  <2> QED
    OBVIOUS
<1>2. e.at \in Nat /\ \A i \in DOMAIN h : h[i].at \in Nat
  <2>1. \A i \in DOMAIN h : h[i] \in Attempt
    OBVIOUS
  <2> QED
    BY <2>1 DEF Attempt
<1>3. Readings(h2) = Readings(h) \cup {e.at}
  BY <1>1 DEF Readings
<1>4. (\E k \in 1..(j - 1) : h2[k].at > h2[j].at) <=> LateAt(Readings(h2), e.at)
  <2>1. (\E k \in 1..(j - 1) : h2[k].at > h2[j].at) <=> \E k \in DOMAIN h : h[k].at > e.at
    BY <1>1
  <2>2. LateAt(Readings(h2), e.at) <=> \E k \in DOMAIN h : h[k].at > e.at
    BY <1>2, <1>3 DEF LateAt, Readings
  <2> QED
    BY <2>1, <2>2
<1>5. \A i \in DOMAIN h : (\E k \in 1..(i - 1) : h2[k].at > h2[i].at) <=> \E k \in 1..(i - 1) : h[k].at > h[i].at
  <2> SUFFICES ASSUME NEW i \in DOMAIN h
               PROVE  \A k \in 1..(i - 1) : h2[k] = h[k] /\ h2[i] = h[i]
    OBVIOUS
  <2>1. \A k \in 1..(i - 1) : k \in DOMAIN h
    BY <1>1
  <2> QED
    BY <1>1, <2>1
<1>6. ASSUME NEW s \in SUBSET DOMAIN h
      PROVE  /\ PassedOf(h2, s) = PassedOf(h, s)
             /\ PassedOf(h2, s \cup {j}) = IF e.passes THEN PassedOf(h, s) \cup {j} ELSE PassedOf(h, s)
  BY <1>1 DEF PassedOf
<1>7. ASSUME NEW s \in SUBSET DOMAIN h
      PROVE  /\ LateOf(h2, s) = LateOf(h, s)
             /\ LateOf(h2, s \cup {j}) = IF LateAt(Readings(h2), e.at) THEN LateOf(h, s) \cup {j}
                                                                     ELSE LateOf(h, s)
  BY <1>1, <1>4, <1>5 DEF LateOf
<1>8. \A a : OfAddr(h2, a) = IF e.pair[1] = a THEN OfAddr(h, a) \cup {j} ELSE OfAddr(h, a)
  BY <1>1 DEF OfAddr
<1>9. \A q : OfPair(h2, q) = IF e.pair = q THEN OfPair(h, q) \cup {j} ELSE OfPair(h, q)
  BY <1>1 DEF OfPair
<1> QED
  BY <1>1, <1>3, <1>6, <1>7, <1>8, <1>9 DEF OneMore

(* What becomes of the window y of the attempts s.                         *)
Moves(h2, e, j, s, y, window, limit) ==
    /\ Windowed(h2, s, y, window, limit)
    /\ ~e.passes => Windowed(h2, s \cup {j}, y, window, limit)
    /\ (e.passes => incrementWindow(y, e.at, window).count <= limit) =>
          Windowed(h2, s \cup {j}, incrementWindow(y, e.at, window), window, limit)

(* One more attempt, e, with the sweep if one is due: a window of others   *)
(* rests, one that does not count it rests, and one that counts it and has *)
(* room for it if it passed counts one more.                               *)
LEMMA AttemptMoves ==
  ASSUME NEW h \in Seq(Attempt), NEW e \in Attempt, NEW h2, h2 = Append(h, e), NEW j, j = Len(h) + 1,
         NEW s \in SUBSET DOMAIN h, NEW x, NEW window \in Nat \ {0}, NEW limit \in Nat \ {0},
         Windowed(h, s, x, window, limit), NEW y, y = x \/ y = CleanUp(x, e.at, window)
  PROVE  Moves(h2, e, j, s, y, window, limit)
<1> DEFINE p == PassedOf(h, s)
           l == LateOf(h, s)
           R == Readings(h2)
           p2 == PassedOf(h2, s \cup {j})
           l2 == LateOf(h2, s \cup {j})
<1>1. /\ h2[j] = e /\ j \notin DOMAIN h
      /\ \A i \in DOMAIN h : h2[i] = h[i]
      /\ R = Readings(h) \cup {e.at}
      /\ PassedOf(h2, s) = p /\ LateOf(h2, s) = l
      /\ p2 = IF e.passes THEN p \cup {j} ELSE p
      /\ l2 = IF LateAt(R, e.at) THEN l \cup {j} ELSE l
  <2>1. OneMore(h, e, h2, j)
    BY AttemptCounted
  <2> QED
    BY <2>1 DEF OneMore
<1>2. p \subseteq DOMAIN h /\ l \subseteq DOMAIN h
  BY DEF PassedOf, LateOf
<1>3. e.at \in Nat /\ e.passes \in BOOLEAN
  BY DEF Attempt
<1>4. WindowOK(h, p, l, Readings(h), x, window, limit)
  BY DEF Windowed
<1> HIDE DEF p, l, R, p2, l2
<1>5. j \notin p \cup l /\ e.at \in R /\ h2[j].at = e.at
  BY <1>1, <1>2
<1>6. l2 = l \/ l2 = l \cup {j}
  BY <1>1
<1>7. l2 = l \cup {j} <=> LateAt(R, e.at)
  BY <1>1, <1>5
<1>8. WindowOK(h2, p, l, R, x, window, limit)
  <2>1. WindowOK(h, p, l, R, x, window, limit)
    BY <1>1, <1>3, <1>4, WindowLasts
  <2>2. \A i \in p \cup l : h2[i] = h[i]
    BY <1>1, <1>2
  <2> QED
    BY <2>1, <2>2, SameAttempts
<1>9. WindowOK(h2, p, l, R, y, window, limit)
  BY <1>5, <1>8, WindowSwept
<1>10. Windowed(h2, s, y, window, limit)
  BY <1>1, <1>9 DEF Windowed, R
<1>11. ASSUME ~e.passes PROVE Windowed(h2, s \cup {j}, y, window, limit)
  <2>1. WindowOK(h2, p, l2, R, y, window, limit)
    BY <1>5, <1>6, <1>9, WindowRests
  <2>2. p2 = p
    BY <1>1, <1>11
  <2> QED
    BY <2>1, <2>2 DEF Windowed, R, p2, l2
<1>12. ASSUME e.passes => incrementWindow(y, e.at, window).count <= limit
       PROVE  Windowed(h2, s \cup {j}, incrementWindow(y, e.at, window), window, limit)
  <2>1. p2 = p \/ (p2 = p \cup {j} /\ incrementWindow(y, e.at, window).count <= limit)
    BY <1>1, <1>3, <1>12
  <2>2. WindowOK(h2, p2, l2, R, incrementWindow(y, e.at, window), window, limit)
    BY <1>5, <1>6, <1>7, <1>9, <2>1, WindowIncrements
  <2> QED
    BY <2>2 DEF Windowed, R, p2, l2
<1> QED
  BY <1>10, <1>11, <1>12 DEF Moves

(* Requests that log in.                                                   *)
OfLogin(q) == q # Idle /\ q.op \in LoginOps

(* A login says whose it is, and what the clock said when it was read.     *)
Named(q) == OfLogin(q) =>
    /\ {"addr", "name", "read"} \subseteq DOMAIN q
    /\ q.addr \in Addrs /\ q.name \in Names /\ q.read \in Nat

(* Every window says how much has passed since it began and little enough  *)
(* passed before it; where there is none, little enough passed of late.    *)
AttemptsInv ==
    /\ now \in Nat
    /\ tried \in Seq(Attempt)
    /\ ips = [a \in Addrs |-> ips[a]] /\ pairs = [p \in Addrs \X Names |-> pairs[p]]
    /\ \A w \in Workers : Named(req[w])
    /\ \A a \in Addrs : Windowed(tried, OfAddr(tried, a), ips[a], IPWindow, IPLimit)
    /\ \A p \in Addrs \X Names : Windowed(tried, OfPair(tried, p), pairs[p], PairWindow, PairLimit)

(* Allow counts against the address, then against the pair, and lets pass  *)
(* what both windows have room for.                                        *)
LEMMA AllowBounded ==
  ASSUME AttemptsInv, NEW w \in Workers, Allow(w)
  PROVE  /\ tried' \in Seq(Attempt)
         /\ ips' = [a \in Addrs |-> ips'[a]] /\ pairs' = [p \in Addrs \X Names |-> pairs'[p]]
         /\ \A a \in Addrs : Windowed(tried', OfAddr(tried', a), ips'[a], IPWindow, IPLimit)
         /\ \A p \in Addrs \X Names : Windowed(tried', OfPair(tried', p), pairs'[p], PairWindow, PairLimit)
<1>1. /\ IPWindow \in Nat \ {0} /\ IPLimit \in Nat \ {0} /\ PairWindow \in Nat \ {0} /\ PairLimit \in Nat \ {0}
      /\ tried \in Seq(Attempt)
  BY LoginAssumption DEF AttemptsInv
<1>2. OfLogin(req[w])
  BY DEF Allow, Doing, OfLogin
<1>3. PICK a \in Addrs, n \in Names, t \in Nat : a = req[w].addr /\ n = req[w].name /\ t = req[w].read
  BY <1>2 DEF AttemptsInv, Named
<1> DEFINE p == <<a, n>>
           gc == t >= nextGC
           ips1 == [x \in Addrs |-> IF gc THEN CleanUp(ips[x], t, IPWindow) ELSE ips[x]]
           pairs1 == [x \in Addrs \X Names |-> IF gc THEN CleanUp(pairs[x], t, PairWindow) ELSE pairs[x]]
           ip == incrementWindow(ips1[a], t, IPWindow)
           pair == incrementWindow(pairs1[p], t, PairWindow)
           ipPasses == ip.count <= IPLimit
           passes == ipPasses /\ pair.count <= PairLimit
           e == [pair |-> p, at |-> t, passes |-> passes]
           j == Len(tried) + 1
<1>4. DOMAIN pairs = Addrs \X Names /\ p \in Addrs \X Names /\ p[1] = a
  BY DEF AttemptsInv
<1>5. /\ ips' = [ips1 EXCEPT ![a] = ip]
      /\ pairs' = IF ipPasses THEN [pairs1 EXCEPT ![p] = pair] ELSE pairs1
      /\ tried' = Append(tried, e)
  BY <1>3, <1>4 DEF Allow
<1>6. /\ \A x \in Addrs : ips1[x] = ips[x] \/ ips1[x] = CleanUp(ips[x], t, IPWindow)
      /\ \A x \in Addrs \X Names : pairs1[x] = pairs[x] \/ pairs1[x] = CleanUp(pairs[x], t, PairWindow)
      /\ ips1 = [x \in Addrs |-> ips1[x]] /\ pairs1 = [x \in Addrs \X Names |-> pairs1[x]]
  OBVIOUS
<1>7. e \in Attempt /\ e.pair = p /\ e.at = t /\ (e.passes <=> passes)
  <2> HIDE DEF passes, p
  <2>1. passes \in BOOLEAN
    BY DEF passes
  <2> QED
    BY <1>4, <2>1 DEF Attempt
<1> HIDE DEF gc, ips1, pairs1, p
<1>8. /\ ips'[a] = ip /\ \A x \in Addrs : x # a => ips'[x] = ips1[x]
      /\ ips' = [x \in Addrs |-> ips'[x]]
  BY <1>5, <1>6
<1>9. /\ pairs'[p] = IF ipPasses THEN pair ELSE pairs1[p]
      /\ \A x \in Addrs \X Names : x # p => pairs'[x] = pairs1[x]
      /\ pairs' = [x \in Addrs \X Names |-> pairs'[x]]
  BY <1>4, <1>5, <1>6
<1>10. (passes => ip.count <= IPLimit) /\ (passes => pair.count <= PairLimit) /\ (~ipPasses => ~passes)
  OBVIOUS
<1> DEFINE h2 == tried'
<1> HIDE DEF e, ip, pair, passes, ipPasses, j, h2
<1>11. /\ h2 \in Seq(Attempt) /\ h2 = Append(tried, e)
       /\ \A x : OfAddr(h2, x) = IF a = x THEN OfAddr(tried, x) \cup {j} ELSE OfAddr(tried, x)
       /\ \A x : OfPair(h2, x) = IF p = x THEN OfPair(tried, x) \cup {j} ELSE OfPair(tried, x)
  <2>1. h2 = Append(tried, e) /\ j = Len(tried) + 1
    BY <1>5 DEF h2, j
  <2>2. /\ h2 \in Seq(Attempt)
        /\ \A x : OfAddr(h2, x) = IF e.pair[1] = x THEN OfAddr(tried, x) \cup {j} ELSE OfAddr(tried, x)
        /\ \A x : OfPair(h2, x) = IF e.pair = x THEN OfPair(tried, x) \cup {j} ELSE OfPair(tried, x)
    <3>1. OneMore(tried, e, h2, j)
      BY <1>1, <1>7, <2>1, AttemptCounted
    <3> QED
      BY <3>1 DEF OneMore
  <2> QED
    BY <1>4, <1>7, <2>1, <2>2
<1>12. ASSUME NEW x \in Addrs PROVE Windowed(h2, OfAddr(h2, x), ips'[x], IPWindow, IPLimit)
  <2> DEFINE s == OfAddr(tried, x)
             y == ips1[x]
  <2>1. /\ s \in SUBSET DOMAIN tried /\ Windowed(tried, s, ips[x], IPWindow, IPLimit)
        /\ y = ips[x] \/ y = CleanUp(ips[x], e.at, IPWindow)
    BY <1>6, <1>7 DEF OfAddr, AttemptsInv
  <2> HIDE DEF s, y
  <2>2. /\ Windowed(h2, s, y, IPWindow, IPLimit)
        /\ (e.passes => incrementWindow(y, e.at, IPWindow).count <= IPLimit) =>
              Windowed(h2, s \cup {j}, incrementWindow(y, e.at, IPWindow), IPWindow, IPLimit)
    <3>1. Moves(h2, e, j, s, y, IPWindow, IPLimit)
      BY <1>1, <1>7, <1>11, <2>1, AttemptMoves DEF j
    <3> QED
      BY <3>1 DEF Moves
  <2>3. CASE x # a
    BY <1>8, <1>11, <2>2, <2>3 DEF s, y
  <2>4. CASE x = a
    <3>1. incrementWindow(y, e.at, IPWindow) = ip
      BY <1>7, <2>4 DEF y, ip
    <3>2. Windowed(h2, s \cup {j}, ip, IPWindow, IPLimit)
      BY <1>7, <1>10, <2>2, <3>1
    <3> QED
      BY <1>8, <1>11, <2>4, <3>2 DEF s
  <2> QED
    BY <2>3, <2>4
<1>13. ASSUME NEW x \in Addrs \X Names
       PROVE  Windowed(h2, OfPair(h2, x), pairs'[x], PairWindow, PairLimit)
  <2> DEFINE s == OfPair(tried, x)
             y == pairs1[x]
  <2>1. /\ s \in SUBSET DOMAIN tried /\ Windowed(tried, s, pairs[x], PairWindow, PairLimit)
        /\ y = pairs[x] \/ y = CleanUp(pairs[x], e.at, PairWindow)
    BY <1>6, <1>7 DEF OfPair, AttemptsInv
  <2> HIDE DEF s, y
  <2>2. /\ Windowed(h2, s, y, PairWindow, PairLimit)
        /\ ~e.passes => Windowed(h2, s \cup {j}, y, PairWindow, PairLimit)
        /\ (e.passes => incrementWindow(y, e.at, PairWindow).count <= PairLimit) =>
              Windowed(h2, s \cup {j}, incrementWindow(y, e.at, PairWindow), PairWindow, PairLimit)
    <3>1. Moves(h2, e, j, s, y, PairWindow, PairLimit)
      BY <1>1, <1>7, <1>11, <2>1, AttemptMoves DEF j
    <3> QED
      BY <3>1 DEF Moves
  <2>3. CASE x # p
    BY <1>9, <1>11, <2>2, <2>3 DEF s, y
  <2>4. CASE x = p /\ ~ipPasses
    <3>1. Windowed(h2, s \cup {j}, y, PairWindow, PairLimit)
      BY <1>7, <1>10, <2>2, <2>4
    <3> QED
      BY <1>9, <1>11, <2>4, <3>1 DEF s, y
  <2>5. CASE x = p /\ ipPasses
    <3>1. incrementWindow(y, e.at, PairWindow) = pair
      BY <1>7, <2>5 DEF y, pair
    <3>2. Windowed(h2, s \cup {j}, pair, PairWindow, PairLimit)
      BY <1>7, <1>10, <2>2, <3>1
    <3> QED
      BY <1>9, <1>11, <2>5, <3>2 DEF s
  <2> QED
    BY <2>3, <2>4, <2>5
<1> QED
  BY <1>8, <1>9, <1>11, <1>12, <1>13 DEF h2

(* A login goes on as whose it is.                                         *)
LEMMA LoginsNamed ==
  ASSUME Shape, \A w \in Workers : Named(req[w]), now \in Nat, LoginNext
  PROVE  \A w \in Workers : Named(req'[w])
<1>1. ASSUME NEW w \in Workers, \A x \in Workers : x # w => req'[x] = req[x], Named(req'[w])
      PROVE  \A x \in Workers : Named(req'[x])
  BY <1>1
<1>2. ASSUME NEW w \in Workers, Return(w)
      PROVE  \A x \in Workers : Named(req'[x])
  <2>1. (\A x \in Workers : x # w => req'[x] = req[x]) /\ req'[w] = Idle
    BY <1>2 DEF Return, Shape
  <2> QED
    BY <1>1, <2>1 DEF Named, OfLogin
<1>3. ASSUME NEW w \in Workers, NEW at, Go(w, at)
      PROVE  \A x \in Workers : Named(req'[x])
  <2>1. \A x \in Workers : x # w => req'[x] = req[x]
    BY <1>3 DEF Go, Shape
  <2>2. req'[w] = [req[w] EXCEPT !.at = at]
    BY <1>3 DEF Go, Shape
  <2>3. CASE OfLogin(req[w])
    <3>1. /\ DOMAIN req'[w] = DOMAIN req[w] /\ req'[w].addr = req[w].addr /\ req'[w].name = req[w].name
          /\ req'[w].read = req[w].read
      BY <2>2, <2>3 DEF Named
    <3> QED
      BY <1>1, <2>1, <2>3, <3>1 DEF Named
  <2>4. CASE ~OfLogin(req[w]) /\ req[w] # Idle
    <3>1. req'[w].op = req[w].op
      BY <2>2, <2>4 DEF Shape
    <3> QED
      BY <1>1, <2>1, <2>4, <3>1 DEF Named, OfLogin
  <2>5. CASE req[w] = Idle
    <3>1. DOMAIN req'[w] = {"op"} /\ req'[w].op = "idle"
      BY <2>2, <2>5 DEF Idle
    <3> QED
      BY <1>1, <2>1, <3>1 DEF Named, OfLogin, LoginOps
  <2> QED
    BY <2>3, <2>4, <2>5
<1>4. ASSUME NEW w \in Workers, LookUp(w)
      PROVE  \A x \in Workers : Named(req'[x])
  <2>1. CASE Return(w)
    BY <1>2, <2>1
  <2>2. CASE ~Return(w)
    <3>1. PICK u : req' = [req EXCEPT ![w].role = u.role, ![w].at = "compare"]
      BY <1>4, <2>2 DEF LookUp
    <3>2. OfLogin(req[w])
      BY <1>4 DEF LookUp, Doing, OfLogin
    <3>3. /\ \A x \in Workers : x # w => req'[x] = req[x]
          /\ DOMAIN req'[w] = DOMAIN req[w] /\ req'[w].addr = req[w].addr /\ req'[w].name = req[w].name
          /\ req'[w].read = req[w].read
      BY <3>1, <3>2 DEF Shape, Named
    <3> QED
      BY <1>1, <3>2, <3>3 DEF Named
  <2> QED
    BY <2>1, <2>2
<1>5. ASSUME NEW w \in Workers, ReadClock(w)
      PROVE  \A x \in Workers : Named(req'[x])
  <2>1. OfLogin(req[w])
    BY <1>5 DEF ReadClock, Doing, OfLogin
  <2>2. /\ \A x \in Workers : x # w => req'[x] = req[x]
        /\ req'[w] = [[req[w] EXCEPT !.read = now] EXCEPT !.at = "lock"]
    BY <1>5 DEF ReadClock, Shape
  <2>3. /\ DOMAIN req'[w] = DOMAIN req[w] /\ req'[w].addr = req[w].addr /\ req'[w].name = req[w].name
        /\ req'[w].read = now
    BY <2>1, <2>2 DEF Named
  <2> QED
    BY <1>1, <2>1, <2>2, <2>3 DEF Named
<1>10. ASSUME NEW w \in Workers, LoginStep(w)
      PROVE  \A x \in Workers : Named(req'[x])
  <2>1. ReadClock(w) \/ LookUp(w) \/ Return(w) \/ \E at : Go(w, at)
    BY <1>10 DEF LoginStep, Allow, TakeSlot, TimesOut, IssueToken, OtherEntrance,
       LookForName, CreateUser, Answer, RegisterFails, Compared
  <2> QED
    BY <1>2, <1>3, <1>4, <1>5, <2>1
<1>6. ASSUME NEW w \in Workers, NEW q, Named(q), BeginLogin(w, q)
      PROVE  \A x \in Workers : Named(req'[x])
  <2>1. (\A x \in Workers : x # w => req'[x] = req[x]) /\ req'[w] = q
    BY <1>6 DEF BeginLogin, Arrives, Shape
  <2> QED
    BY <1>1, <1>6, <2>1
<1>7. ASSUME NEW a \in Addrs, NEW n \in Names
      PROVE  Named(LoginHandler(a, n)) /\ Named(AdminLogin(a, n)) /\ Named(RegisterHandler(n))
  <2>1. Named(LoginHandler(a, n)) /\ Named(AdminLogin(a, n))
    BY <1>7 DEF LoginHandler, AdminLogin, Named
  <2>2. Named(RegisterHandler(n))
    BY DEF RegisterHandler, Named, OfLogin, LoginOps
  <2> QED
    BY <2>1, <2>2
<1>8. ASSUME NEW n \in Names PROVE Named(RegisterHandler(n))
  BY DEF RegisterHandler, Named, OfLogin, LoginOps
<1>9. CASE Tick \/ ComparedLate \/ ReleaseSlot
  BY <1>9 DEF Tick, ComparedLate, ReleaseSlot
<1> QED
  BY <1>6, <1>7, <1>8, <1>9, <1>10 DEF LoginNext

(* However often an address, or an address and a name, is tried, and       *)
(* whenever LoginProtector sweeps its maps, Allow lets pass in any stretch *)
(* of time as long as a window fewer than two windows' limits, and one     *)
(* window's limit more for each attempt on that address, or on that        *)
(* address and name, that was overtaken between its reading of the clock   *)
(* and the lock.                                                           *)
THEOREM AttemptsBoundedHolds == Spec => []AttemptsBounded
<1>1. Init => AttemptsInv
  <2> SUFFICES ASSUME Init PROVE AttemptsInv
    OBVIOUS
  <2>1. /\ now = 0 /\ tried = << >> /\ ips = [a \in Addrs |-> NoWindow]
        /\ pairs = [p \in Addrs \X Names |-> NoWindow] /\ \A w \in Workers : req[w] = Idle
    BY DEF Init, LoginInit, RequestsInit
  <2>2. (\A a : OfAddr(tried, a) = {}) /\ (\A p : OfPair(tried, p) = {})
    BY <2>1 DEF OfAddr, OfPair
  <2>3. ASSUME NEW window \in Nat \ {0}, NEW limit \in Nat \ {0}
        PROVE  Windowed(tried, {}, NoWindow, window, limit)
    <3>1. PassedOf(tried, {}) = {} /\ LateOf(tried, {}) = {} /\ Readings(tried) = {}
      BY <2>1 DEF PassedOf, LateOf, Readings
    <3>2. ASSUME NEW t \in Int
          PROVE  Passing(tried, {}, t, window) = 0 /\ Allowed(tried, {}, t, window, limit) = 0
      <4>1. \A from, to : Stretch(tried, {}, from, to) = {}
        BY DEF Stretch
      <4>2. Passing(tried, {}, t, window) = 0 /\ Delayed(tried, {}, t, window) = 0
        BY <4>1, FS_EmptySet DEF Passing, Delayed
      <4> QED
        BY <4>2 DEF Allowed
    <3>3. KeptOf(tried, {}, {}, {})
      BY FS_EmptySet DEF KeptOf
    <3>4. 0 <= limit - 1 + 0 /\ 0 <= 2 * limit - 1 + 0
      OBVIOUS
    <3>5. Bounded(tried, {}, {}, window, limit) /\ Rested(tried, {}, {}, {}, window, limit)
      BY <3>2, <3>4 DEF Bounded, Rested
    <3>6. NoWindow \in [start : Int, count : Nat] /\ NoWindow.start = -1
      BY DEF NoWindow
    <3> QED
      BY <3>1, <3>3, <3>5, <3>6 DEF Windowed, WindowOK
  <2>4. /\ \A a \in Addrs : Windowed(tried, OfAddr(tried, a), ips[a], IPWindow, IPLimit)
        /\ \A p \in Addrs \X Names : Windowed(tried, OfPair(tried, p), pairs[p], PairWindow, PairLimit)
    BY <2>1, <2>2, <2>3, LoginAssumption
  <2>5. /\ now \in Nat /\ tried \in Seq(Attempt)
        /\ ips = [a \in Addrs |-> ips[a]] /\ pairs = [p \in Addrs \X Names |-> pairs[p]]
    BY <2>1
  <2>6. \A w \in Workers : Named(req[w])
    BY <2>1 DEF Named, OfLogin
  <2> QED
    BY <2>4, <2>5, <2>6 DEF AttemptsInv
<1>2. Shape /\ AttemptsInv /\ [Next]_vars => AttemptsInv'
  <2> SUFFICES ASSUME Shape, AttemptsInv, [Next]_vars PROVE AttemptsInv'
    OBVIOUS
  <2>1. ASSUME \A w \in Workers : Named(req'[w]), UNCHANGED <<ips, pairs, tried>>, now' \in Nat
        PROVE  AttemptsInv'
    <3>1. /\ \A a \in Addrs : Windowed(tried', OfAddr(tried', a), ips'[a], IPWindow, IPLimit)
          /\ \A p \in Addrs \X Names : Windowed(tried', OfPair(tried', p), pairs'[p], PairWindow, PairLimit)
      BY <2>1 DEF AttemptsInv
    <3> QED
      BY <2>1, <3>1 DEF AttemptsInv, Named, OfLogin
  <2>2. ASSUME NEW ops, AccountOps \cap ops = {}, Leaves(ops), UNCHANGED loginVars
        PROVE  AttemptsInv'
    <3>1. \A w \in Workers : OfLogin(req'[w]) => req'[w] = req[w]
      BY <2>2 DEF Leaves, Mine, OfLogin, AccountOps
    <3>2. \A w \in Workers : Named(req'[w])
      BY <3>1 DEF AttemptsInv, Named
    <3>3. UNCHANGED <<ips, pairs, tried>> /\ now' \in Nat
      BY <2>2 DEF loginVars, windows, AttemptsInv
    <3> QED
      BY <2>1, <3>2, <3>3
  <2>3. CASE LoginNext
    <3>1. \A w \in Workers : Named(req'[w])
      BY <2>3, LoginsNamed DEF AttemptsInv
    <3>2. ASSUME NEW w \in Workers, Allow(w) PROVE AttemptsInv'
      <4>1. now' \in Nat
        BY <3>2 DEF Allow, AttemptsInv
      <4>2. /\ tried' \in Seq(Attempt)
            /\ ips' = [a \in Addrs |-> ips'[a]] /\ pairs' = [p \in Addrs \X Names |-> pairs'[p]]
            /\ \A a \in Addrs : Windowed(tried', OfAddr(tried', a), ips'[a], IPWindow, IPLimit)
            /\ \A p \in Addrs \X Names : Windowed(tried', OfPair(tried', p), pairs'[p], PairWindow, PairLimit)
        BY <3>2, AllowBounded
      <4> QED
        BY <3>1, <4>1, <4>2 DEF AttemptsInv, Named, OfLogin
    <3>3. CASE Tick
      <4>1. now' = now + 1 /\ UNCHANGED <<ips, pairs, tried>>
        BY <3>3 DEF Tick, windows
      <4> QED
        BY <2>1, <3>1, <4>1 DEF AttemptsInv
    <3>4. ASSUME NEW w \in Workers, LoginStep(w), ~Allow(w)
          PROVE  UNCHANGED <<now, ips, pairs, tried>>
      BY <3>4 DEF LoginStep, ReadClock, LookUp, TakeSlot, TimesOut, IssueToken, OtherEntrance, LookForName,
         CreateUser, Answer, RegisterFails, Compared, loginVars, windows
    <3>5. ASSUME NEW w \in Workers, NEW q, BeginLogin(w, q)
          PROVE  UNCHANGED <<now, ips, pairs, tried>>
      BY <3>5 DEF BeginLogin, loginVars, windows
    <3>6. CASE ComparedLate \/ ReleaseSlot
      BY <2>1, <3>1, <3>6 DEF ComparedLate, ReleaseSlot, windows, AttemptsInv
    <3>7. ASSUME UNCHANGED <<now, ips, pairs, tried>> PROVE AttemptsInv'
      BY <2>1, <3>1, <3>7 DEF AttemptsInv
    <3> QED
      BY <2>3, <3>2, <3>3, <3>4, <3>5, <3>6, <3>7 DEF LoginNext
  <2>4. LoginNext \/ \E ops : AccountOps \cap ops = {} /\ Leaves(ops) /\ UNCHANGED loginVars
    BY Components, OpsDisjoint DEF RoomsOnly, PresenceOnly, GovernanceOnly, ViewsOnly, LoginOnly,
       FilesOnly, vars
  <2> QED
    BY <2>2, <2>3, <2>4
<1>3. AttemptsInv => AttemptsBounded
  <2> SUFFICES ASSUME AttemptsInv PROVE AttemptsBounded
    OBVIOUS
  <2> SUFFICES ASSUME NEW t \in 0..now
               PROVE  /\ \A a \in Addrs : BoundedFrom(t, OfAddr(tried, a), IPWindow, IPLimit)
                      /\ \A p \in Addrs \X Names : BoundedFrom(t, OfPair(tried, p), PairWindow, PairLimit)
    <3>1. DOMAIN pairs = Addrs \X Names
      BY DEF AttemptsInv
    <3> QED
      BY <3>1 DEF AttemptsBounded, OfAddr, OfPair
  <2>1. t \in Int /\ {IPLimit, IPWindow, PairLimit, PairWindow} \subseteq Nat \ {0}
    BY LoginAssumption DEF AttemptsInv
  <2>2. ASSUME NEW s \in SUBSET DOMAIN tried, NEW x, NEW window \in Nat \ {0}, NEW limit \in Nat \ {0},
               Windowed(tried, s, x, window, limit)
        PROVE  BoundedFrom(t, s, window, limit)
    <3> DEFINE p == PassedOf(tried, s)
               l == LateOf(tried, s)
    <3>1. KeptOf(tried, p, l, Readings(tried)) /\ Bounded(tried, p, l, window, limit)
      BY <2>2 DEF Windowed, WindowOK
    <3>2. \A i \in p \cup l : tried[i].at \in Int
      BY <3>1 DEF KeptOf
    <3>3. Passed(s) = p /\ s \cap Late = l
      BY DEF Passed, PassedOf, Late, LateOf
    <3> HIDE DEF p, l
    <3>4. Read(p, t, t + window - 1) = Stretch(tried, p, t, t + window)
      <4>1. \A i \in p : tried[i].at \in t..(t + window - 1) <=> t <= tried[i].at /\ tried[i].at < t + window
        BY <2>1, <3>2
      <4> QED
        BY <4>1, Zenon DEF Read, Stretch
    <3>5. Read(l, t - window + 1, t + window - 1) = Stretch(tried, l, t - window + 1, t + window)
      <4>1. \A i \in l : tried[i].at \in (t - window + 1)..(t + window - 1) <=>
                            t - window + 1 <= tried[i].at /\ tried[i].at < t + window
        BY <2>1, <3>2
      <4> QED
        BY <4>1, Zenon DEF Read, Stretch
    <3>6. Passing(tried, p, t, window) <= 2 * limit - 1 + Allowed(tried, l, t, window, limit)
      BY <2>1, <3>1 DEF Bounded
    <3> QED
      BY <3>3, <3>4, <3>5, <3>6 DEF BoundedFrom, Passing, Delayed, Allowed
  <2>3. \A x : OfAddr(tried, x) \in SUBSET DOMAIN tried /\ OfPair(tried, x) \in SUBSET DOMAIN tried
    BY DEF OfAddr, OfPair
  <2> QED
    BY <2>1, <2>2, <2>3 DEF AttemptsInv
<1> QED
  BY ShapeHolds, <1>1, <1>2, <1>3, PTL DEF Spec

-----------------------------------------------------------------------------
(* Presence *)

(* A connection closes, or goes on as it was: nothing is shown anew.       *)
LEMMA ConnectionsEnd ==
  ASSUME PresenceInv, UNCHANGED presenceVars,
         conn' \in [Conns -> {"new", "reading", "active", "closing", "gone"}],
         \A c \in Conns :
            \/ conn'[c] = conn[c]
            \/ conn'[c] \in {"closing", "gone"}
            \/ conn[c] \in {"new", "reading"}
  PROVE  PresenceInv'
<1>1. online' = online /\ shown' = shown /\ latest' = latest /\ wiped' = wiped
  BY DEF presenceVars
<1>2. ASSUME NEW c \in Conns, conn'[c] \in {"new", "reading"} PROVE shown'[c] = "no"
  BY <1>1, <1>2 DEF PresenceInv
<1>3. ASSUME NEW u \in Users, latest'[u] # None, u \notin wiped', conn'[latest'[u]] = "active"
      PROVE  online'[u] = latest'[u]
  <2>1. latest[u] \in Conns /\ shown[latest[u]] # "no"
    BY <1>1, <1>3 DEF PresenceInv
  <2>2. conn[latest[u]] = "active"
    BY <1>1, <1>3, <2>1 DEF PresenceInv
  <2> QED
    BY <1>1, <1>3, <2>2 DEF PresenceInv, PresenceIsTheLatest
<1> QED
  BY <1>1, <1>2, <1>3 DEF PresenceInv, PresenceIsTheLatest

(* Steps on rooms and connections keep what is known of the keys.          *)
LEMMA PresenceOfRooms ==
  ASSUME PresenceInv, RoomsNext, UNCHANGED presenceVars
  PROVE  PresenceInv'
<1>1. CASE conn' = conn
  BY <1>1, ConnectionsEnd DEF PresenceInv
<1>2. ASSUME NEW w \in Workers, DisconnectUser(w) PROVE PresenceInv'
  <2>1. conn' = [c \in Conns |-> IF cur[req[w].target] = c THEN "closing" ELSE conn[c]]
    BY <1>2 DEF DisconnectUser
  <2>2. /\ conn' \in [Conns -> {"new", "reading", "active", "closing", "gone"}]
        /\ \A c \in Conns : conn'[c] = conn[c] \/ conn'[c] = "closing"
    BY <2>1 DEF PresenceInv
  <2> QED
    BY <2>2, ConnectionsEnd
<1>3. ASSUME NEW c \in Conns, ConnStep(c) PROVE PresenceInv'
  <2>1. \/ conn[c] \in {"new", "reading"}
           /\ \E s \in {"new", "reading", "active"} : conn' = [conn EXCEPT ![c] = s]
        \/ conn' = [conn EXCEPT ![c] = "gone"]
    BY <1>3 DEF ConnStep, ReadRooms, Register, UpgradeFails, Unregister
  <2>2. /\ conn' \in [Conns -> {"new", "reading", "active", "closing", "gone"}]
        /\ \A d \in Conns : \/ conn'[d] = conn[d] \/ conn'[d] = "gone"
                            \/ conn[d] \in {"new", "reading"}
    BY <2>1 DEF PresenceInv
  <2> QED
    BY <2>2, ConnectionsEnd
<1>4. ASSUME NEW w \in Workers, RoomStep(w), ~DisconnectUser(w) PROVE conn' = conn
  BY <1>4 DEF RoomStep, ReadRoom, ReadRole, CreateRoom, JoinRoom, RemoveMember, SoftDeleteRoom, SetAdmin,
     SaveRoom, OwnerRole, WriteAudit, Publish, CallHub, Apply, roomVars, gateway
<1>5. ASSUME NEW w \in Workers, RoomFails(w) \/ OwnerRoleFails(w) \/ \E q : BeginRoom(w, q)
      PROVE  conn' = conn
  BY <1>5 DEF RoomFails, OwnerRoleFails, BeginRoom, roomVars, gateway
<1>6. CASE HandleEvent \/ LoseEvent
  <2>1. conn' = conn
    BY <1>6 DEF HandleEvent, LoseEvent, Apply, gateway
  <2> QED
    BY <1>1, <2>1
<1> QED
  BY <1>1, <1>2, <1>3, <1>4, <1>5, <1>6 DEF RoomsNext

(* So do the steps that set, renew and delete keys.                        *)
LEMMA PresenceOfPresence ==
  ASSUME PresenceInv, PresenceNext
  PROVE  PresenceInv'
<1>0. UserOf \in [Conns -> Users] /\ None \notin Conns
  BY RoomsAssumption
<1>1. ASSUME NEW c \in Conns, HandlerSets(c), Sets(c)
      PROVE  PresenceInv'
  <2>1. /\ shown[c] = "no" /\ conn' = conn
        /\ conn[c] \in {"active", "closing", "gone"}
        /\ shown' = [shown EXCEPT ![c] = "set"]
        /\ online' = [online EXCEPT ![UserOf[c]] = c]
        /\ latest' = [latest EXCEPT ![UserOf[c]] = c]
        /\ wiped' = wiped \ {UserOf[c]}
    BY <1>1 DEF HandlerSets, Sets, roomVars, gateway
  <2>2. \A u \in Users : u # UserOf[c] =>
            online'[u] = online[u] /\ latest'[u] = latest[u] /\ (u \in wiped' <=> u \in wiped)
    BY <2>1 DEF PresenceInv
  <2>3. online'[UserOf[c]] = c /\ latest'[UserOf[c]] = c /\ shown'[c] = "set"
    BY <1>0, <2>1 DEF PresenceInv
  <2>4. \A d \in Conns : d # c => shown'[d] = shown[d]
    BY <2>1 DEF PresenceInv
  <2>5. /\ online' \in [Users -> Conns \cup {None}]
        /\ latest' \in [Users -> Conns \cup {None}]
        /\ shown' \in [Conns -> {"no", "set", "deleted", "failed"}]
        /\ conn' \in [Conns -> {"new", "reading", "active", "closing", "gone"}]
        /\ \A d \in Conns : conn'[d] \in {"new", "reading"} => shown'[d] = "no"
    BY <2>1, <2>4 DEF PresenceInv
  <2>6. ASSUME NEW u \in Users
        PROVE  /\ online'[u] # None => UserOf[online'[u]] = u /\ shown'[online'[u]] \in {"set", "failed"}
               /\ latest'[u] # None => UserOf[latest'[u]] = u /\ shown'[latest'[u]] # "no"
               /\ latest'[u] # None /\ u \notin wiped' /\ conn'[latest'[u]] = "active"
                    => online'[u] = latest'[u]
    <3>1. CASE u = UserOf[c]
      BY <2>3, <3>1
    <3>2. CASE u # UserOf[c]
      BY <2>1, <2>2, <2>3, <2>4, <3>2 DEF PresenceInv, PresenceIsTheLatest
    <3> QED
      BY <3>1, <3>2
  <2> QED
    BY <2>5, <2>6 DEF PresenceInv, PresenceIsTheLatest
<1>2. ASSUME NEW c \in Conns, HandlerSets(c), UNCHANGED <<online, latest, wiped>>
      PROVE  PresenceInv'
  <2>1. /\ shown[c] = "no" /\ conn' = conn
        /\ conn[c] \in {"active", "closing", "gone"}
        /\ shown' = [shown EXCEPT ![c] = "set"]
        /\ online' = online /\ latest' = latest /\ wiped' = wiped
    BY <1>2 DEF HandlerSets, roomVars, gateway
  <2> QED
    BY <2>1 DEF PresenceInv, PresenceIsTheLatest
<1>3. ASSUME NEW c \in Conns, HandlerDeletes(c),
             \/ online' = WithoutOwnKey(c) /\ shown' = [shown EXCEPT ![c] = "deleted"]
             \/ online' \in {online, WithoutOwnKey(c)} /\ shown' = [shown EXCEPT ![c] = "failed"]
      PROVE  PresenceInv'
  <2>1. /\ shown[c] = "set" /\ conn[c] = "gone"
        /\ conn' = conn /\ latest' = latest /\ wiped' = wiped
    BY <1>3 DEF HandlerDeletes, roomVars, gateway
  <2>2. \A d \in Conns : d # c => shown'[d] = shown[d]
    BY <1>3 DEF PresenceInv
  <2>3. \A u \in Users : online'[u] = online[u] \/ (online[u] = c /\ online'[u] = None)
    BY <1>3 DEF PresenceInv, WithoutOwnKey
  <2>4. ASSUME NEW u \in Users, online'[u] # None, shown'[c] = "deleted" PROVE online'[u] # c
    <3>1. online' = WithoutOwnKey(c)
      BY <1>3, <2>4 DEF PresenceInv
    <3> QED
      BY <1>0, <2>4, <3>1 DEF PresenceInv, WithoutOwnKey
  <2>5. /\ online' \in [Users -> Conns \cup {None}]
        /\ shown' \in [Conns -> {"no", "set", "deleted", "failed"}]
        /\ shown'[c] \in {"deleted", "failed"}
    BY <1>3 DEF PresenceInv, WithoutOwnKey
  <2>6. ASSUME NEW u \in Users
        PROVE  /\ online'[u] # None => UserOf[online'[u]] = u /\ shown'[online'[u]] \in {"set", "failed"}
               /\ latest'[u] # None => UserOf[latest'[u]] = u /\ shown'[latest'[u]] # "no"
               /\ latest'[u] # None /\ u \notin wiped' /\ conn'[latest'[u]] = "active"
                    => online'[u] = latest'[u]
    BY <2>1, <2>2, <2>3, <2>4, <2>5 DEF PresenceInv, PresenceIsTheLatest
  <2> QED
    BY <2>1, <2>2, <2>5, <2>6 DEF PresenceInv, PresenceIsTheLatest
<1>4. ASSUME NEW u \in Users, Expire(u)
      PROVE  PresenceInv'
  <2>1. /\ online[u] # None
        /\ conn' = conn /\ latest' = latest /\ shown' = shown
        /\ online' = [online EXCEPT ![u] = None]
        /\ \/ conn[online[u]] = "active" /\ wiped' = wiped \cup {u}
           \/ conn[online[u]] # "active" /\ wiped' = wiped
    BY <1>4 DEF Expire, roomVars, gateway
  <2> QED
    BY <2>1 DEF PresenceInv, PresenceIsTheLatest
<1> QED
  BY <1>1, <1>2, <1>3, <1>4 DEF PresenceNext, SetUserConnectionOnline, SetOnlineFails,
     SetUserConnectionOffline, SetOfflineFails

(* And those of administrators, whose bans delete keys.                    *)
LEMMA PresenceOfGovernance ==
  ASSUME PresenceInv, GovernanceNext
  PROVE  PresenceInv'
<1>1. CASE UNCHANGED <<roomVars, presenceVars>>
  <2>1. conn' = conn
    BY <1>1 DEF roomVars, gateway
  <2> QED
    BY <1>1, <2>1, ConnectionsEnd DEF PresenceInv
<1>2. ASSUME NEW w \in Workers, KickUser(w) PROVE PresenceInv'
  <2>1. conn' = [c \in Conns |-> IF cur[req[w].target] = c THEN "closing" ELSE conn[c]]
    BY <1>2 DEF KickUser
  <2>2. /\ conn' \in [Conns -> {"new", "reading", "active", "closing", "gone"}]
        /\ \A c \in Conns : conn'[c] = conn[c] \/ conn'[c] = "closing"
    BY <2>1 DEF PresenceInv
  <2>3. UNCHANGED presenceVars
    BY <1>2 DEF KickUser
  <2> QED
    BY <2>2, <2>3, ConnectionsEnd
<1>3. ASSUME NEW w \in Workers, SetUserOffline(w) PROVE PresenceInv'
  <2>1. /\ online' = [online EXCEPT ![req[w].target] = None]
        /\ wiped' = wiped \cup {req[w].target}
        /\ conn' = conn /\ latest' = latest /\ shown' = shown
    BY <1>3 DEF SetUserOffline, roomVars, gateway
  <2>2. /\ online' \in [Users -> Conns \cup {None}]
        /\ \A u \in Users : online'[u] = online[u] \/ (u \in wiped' /\ online'[u] = None)
    BY <2>1 DEF PresenceInv
  <2>3. wiped \subseteq wiped'
    BY <2>1
  <2>4. ASSUME NEW u \in Users
        PROVE  /\ online'[u] # None => UserOf[online'[u]] = u /\ shown'[online'[u]] \in {"set", "failed"}
               /\ latest'[u] # None /\ u \notin wiped' /\ conn'[latest'[u]] = "active"
                    => online'[u] = latest'[u]
    BY <2>1, <2>2, <2>3 DEF PresenceInv, PresenceIsTheLatest
  <2> QED
    BY <2>1, <2>2, <2>4 DEF PresenceInv, PresenceIsTheLatest
<1>4. ASSUME NEW w \in Workers, GovernanceStep(w), ~KickUser(w), ~SetUserOffline(w)
      PROVE  UNCHANGED <<roomVars, presenceVars>>
  BY <1>4 DEF GovernanceStep, ReadLatest, ReadRow, CreateConfig, SaveRow, SaveConfig, LogAction
<1>5. ASSUME NEW w \in Workers, ActionFails(w) \/ \E q : BeginAction(w, q)
      PROVE  UNCHANGED <<roomVars, presenceVars>>
  BY <1>5 DEF ActionFails, BeginAction
<1>6. ASSUME NEW size \in PageSizes, AdminAuditList(size) \/ AdminAgentConfigHistory(size)
      PROVE  UNCHANGED <<roomVars, presenceVars>>
  BY <1>6 DEF AdminAuditList, AdminAgentConfigHistory, ReadPage
<1> QED
  BY <1>1, <1>2, <1>3, <1>4, <1>5, <1>6 DEF GovernanceNext

(* The key of a user names the open connection that set it last, however   *)
(* WsEndpoint's handlers of his other connections set and delete it, fail  *)
(* and are cut off, unless a ban or an expiry took it away.                *)
THEOREM PresenceIsTheLatestHolds == Spec => []PresenceIsTheLatest
<1>1. Init => PresenceInv
  BY RoomsAssumption DEF Init, RoomsInit, PresenceInit, PresenceInv, PresenceIsTheLatest
<1>2. PresenceInv /\ [Next]_vars => PresenceInv'
  <2> SUFFICES ASSUME PresenceInv, [Next]_vars PROVE PresenceInv'
    OBVIOUS
  <2>1. CASE RoomsOnly
    BY <2>1, PresenceOfRooms DEF RoomsOnly
  <2>2. CASE PresenceOnly
    BY <2>2, PresenceOfPresence DEF PresenceOnly
  <2>3. CASE GovernanceOnly
    BY <2>3, PresenceOfGovernance DEF GovernanceOnly
  <2>4. CASE UNCHANGED <<roomVars, presenceVars>>
    <3>1. conn' = conn
      BY <2>4 DEF roomVars, gateway
    <3> QED
      BY <2>4, <3>1, ConnectionsEnd DEF PresenceInv
  <2>5. CASE ViewsOnly
    <3>1. UNCHANGED <<roomVars, presenceVars>>
      BY <2>5 DEF ViewsOnly, ViewsNext, SearchStep, CheckIsMember, QueryIndex, QueryStore, SearchFails,
         BeginSearch, ArchiveMessage, IndexMessage
    <3> QED
      BY <2>4, <3>1
  <2> QED
    BY <2>1, <2>2, <2>3, <2>4, <2>5 DEF Next, LoginOnly, FilesOnly, vars, chatVars
<1>3. PresenceInv => PresenceIsTheLatest
  BY DEF PresenceInv
<1> QED
  BY <1>1, <1>2, <1>3, PTL DEF Spec

-----------------------------------------------------------------------------
(* Administrators *)

(* The names of the actions that set a role or a penalty.                  *)
LEMMA ActionNames ==
  /\ DOMAIN RoleOf = {"role_user", "role_super_admin", "role_moderator", "role_operator"}
  /\ \A op \in DOMAIN RoleOf : RoleOf[op] \in 0..3
  /\ DOMAIN Penalty = {"warn", "mute", "kick_event", "ban_event"}
  /\ \A op \in DOMAIN Penalty : Penalty[op] \in {"warned", "muted", "kicked", "banned"}
<1>1. DOMAIN RoleOf = {"role_user", "role_super_admin", "role_moderator", "role_operator"}
  BY DEF RoleOf
<1>2. \A op \in DOMAIN RoleOf : RoleOf[op] \in 0..3
  BY DEF RoleOf
<1>3. DOMAIN Penalty = {"warn", "mute", "kick_event", "ban_event"}
  BY DEF Penalty
<1>4. \A op \in DOMAIN Penalty : Penalty[op] \in {"warned", "muted", "kicked", "banned"}
  BY DEF Penalty
<1> QED
  BY <1>1, <1>2, <1>3, <1>4

(* What an action saves is a row of the table it read.                     *)
LEMMA ChangesType ==
  ASSUME NEW q, ActionOK(q), q.at \in {"save", "kick", "offline", "log"}
  PROVE  /\ q.op \in UserActions => Changes(q) \in User
         /\ q.op \in EventActions => Changes(q) \in Event_
         /\ q.op \in ConfigActions => Changes(q) \in Config
<1>1. /\ q.op \in UserActions => q.row \in User
      /\ q.op \in EventActions => q.row \in Event_
      /\ q.op \in ConfigActions => q.row \in Config /\ q.value \in 0..1
      /\ q.op = "config_update" => q.field \in Fields
      /\ q.op = "config_rollback" => q.old \in Config
      /\ q.op # "config_get"
  BY ActionNames DEF ActionOK, ActionRequests, UserActions, EventActions, ConfigActions
<1>2. ASSUME q.op \in UserActions PROVE Changes(q) \in User
  <2>1. CASE q.op = "ban"
    <3>1. Changes(q) = [q.row EXCEPT !.status = 1]
      BY <2>1, ActionNames DEF Changes
    <3> QED
      BY <1>1, <1>2, <3>1 DEF User
  <2>2. CASE q.op = "unban"
    <3>1. Changes(q) = [q.row EXCEPT !.status = 0]
      BY <2>2, ActionNames DEF Changes
    <3> QED
      BY <1>1, <1>2, <3>1 DEF User
  <2>3. CASE q.op \in DOMAIN RoleOf
    <3>1. Changes(q) = [q.row EXCEPT !.role = RoleOf[q.op]]
      BY <2>3, ActionNames DEF Changes
    <3> QED
      BY <1>1, <1>2, <2>3, <3>1, ActionNames DEF User
  <2> QED
    BY <1>2, <2>1, <2>2, <2>3 DEF UserActions
<1>3. ASSUME q.op \in EventActions PROVE Changes(q) \in Event_
  <2>1. CASE q.op \in DOMAIN Penalty
    <3>1. Changes(q) = [penalty |-> Penalty[q.op], review |-> "reviewed"]
      BY <2>1, ActionNames DEF Changes
    <3> QED
      BY <2>1, <3>1, ActionNames DEF Event_
  <2>2. CASE q.op = "revoke"
    BY <2>2, ActionNames DEF Changes, Event_
  <2>3. CASE q.op = "false_positive"
    BY <2>3, ActionNames DEF Changes, Event_
  <2>4. CASE q.op = "confirmed"
    BY <1>1, <1>3, <2>4, ActionNames DEF Changes, Event_
  <2> QED
    BY <1>3, <2>1, <2>2, <2>3, <2>4 DEF EventActions
<1>4. ASSUME q.op \in ConfigActions PROVE Changes(q) \in Config
  <2>1. CASE q.op = "config_update"
    <3>1. Changes(q) = Updated(q)
      BY <2>1, ActionNames DEF Changes
    <3> QED
      BY <1>1, <1>4, <2>1, <3>1 DEF Updated, Config
  <2>2. CASE q.op = "config_rollback"
    <3>1. Changes(q) = q.old
      BY <2>2, ActionNames DEF Changes
    <3> QED
      BY <1>1, <2>2, <3>1
  <2> QED
    BY <1>1, <1>4, <2>1, <2>2 DEF ConfigActions
<1> QED
  BY <1>2, <1>3, <1>4

(* No configuration is the mark for none.                                  *)
LEMMA ConfigIsNotNone == NoConfig \notin Config
BY GovernanceAssumption DEF Config, NoConfig

(* What the steps of a request make of it.                                 *)
LEMMA ActionGoes ==
  ASSUME Shape, GovernanceInv, NEW w \in Workers, Acting(req[w]), NEW at, Go(w, at)
  PROVE  /\ \A x \in Workers : x # w => req'[x] = req[x]
         /\ DOMAIN req'[w] = DOMAIN req[w] /\ req'[w] = [req[w] EXCEPT !.at = at]
         /\ req'[w].at = at /\ req'[w].op = req[w].op /\ req'[w].target = req[w].target
         /\ req'[w].row = req[w].row /\ req'[w].old = req[w].old
         /\ req'[w].field = req[w].field /\ req'[w].value = req[w].value
<1>1. req[w] \in ActionRequests
  BY DEF GovernanceInv, ActionOK
<1>2. {"op", "target", "row", "old", "field", "value", "at"} = DOMAIN req[w]
  BY <1>1 DEF ActionRequests
<1>3. /\ \A x \in Workers : x # w => req'[x] = req[x]
      /\ req'[w] = [req[w] EXCEPT !.at = at]
  BY DEF Go, Shape
<1> QED
  BY <1>2, <1>3

(* Neither is a user or an event.                                          *)
LEMMA RowsAreNotNone == NoConfig \notin User /\ NoConfig \notin Event_
BY DEF NoConfig, User, Event_

(* An action's target is a row of the kind its name says.                  *)
LEMMA RowTypes ==
  ASSUME GovernanceInv, NEW q, ActionOK(q)
  PROVE  /\ q.op \in UserActions => q.target \in Targets /\ row[q.target] \in User
         /\ q.op \in EventActions => q.target \in Events /\ row[q.target] \in Event_
         /\ q.op \in ConfigActions <=> q.target = "config"
         /\ q.op \in UserActions \/ q.op \in EventActions \/ q.op \in ConfigActions
BY ActionNames, GovernanceAssumption DEF GovernanceInv, ActionOK, ActionRequests, UserActions, EventActions,
   ConfigActions

(* The steps of a request, each with what it makes of the request.         *)
LEMMA ActionSteps ==
  ASSUME Shape, GovernanceInv, NEW w \in Workers, GovernanceStep(w) \/ ActionFails(w)
  PROVE  /\ Acting(req[w]) /\ ActionOK(req[w])
         /\ \A x \in Workers : x # w => req'[x] = req[x]
         /\ req'[w] # Idle => ActionOK(req'[w]) /\ Acting(req'[w]) /\ req'[w].op = req[w].op
                              /\ req'[w].target = req[w].target
<1>1. Acting(req[w]) /\ ActionOK(req[w])
  BY DEF GovernanceStep, ActionFails, ReadLatest, ReadRow, CreateConfig, SaveRow, SaveConfig,
     KickUser, SetUserOffline, LogAction, Doing, GovernanceOps, UserActions, ConfigActions, Acting,
     GovernanceInv
<1>2. DOMAIN req[w] = {"op", "target", "row", "old", "field", "value", "at"}
  BY <1>1 DEF ActionOK, ActionRequests
<1> DEFINE Conclusion == /\ \A x \in Workers : x # w => req'[x] = req[x]
                         /\ req'[w] # Idle => ActionOK(req'[w]) /\ Acting(req'[w])
                                              /\ req'[w].op = req[w].op /\ req'[w].target = req[w].target
<1>3. ASSUME Return(w) PROVE Conclusion
  BY <1>3 DEF Return, Shape
<1>4. ASSUME NEW q, req' = [req EXCEPT ![w] = q], ActionOK(q), q.op = req[w].op, q.target = req[w].target
      PROVE  Conclusion
  BY <1>1, <1>4 DEF Shape, Acting
<1>5. ASSUME NEW at, Go(w, at), ActionOK([req[w] EXCEPT !.at = at]) PROVE Conclusion
  BY <1>2, <1>4, <1>5 DEF Go
<1>6. ASSUME ReadLatest(w) PROVE Conclusion
  <2>1. CASE history = << >>
    BY <1>3, <1>6, <2>1 DEF ReadLatest
  <2>2. CASE history # << >>
    <3> DEFINE q == [req[w] EXCEPT !.at = "read", !.old = BeforeData]
    <3>1. req' = [req EXCEPT ![w] = q] /\ req[w].op = "config_rollback"
      BY <1>6, <2>2 DEF ReadLatest, Doing
    <3>2. Len(history) \in DOMAIN history
      BY <2>2 DEF GovernanceInv
    <3>3. BeforeData \in Config
      <4>1. history[Len(history)] \in HistoryRows
        BY <3>2 DEF GovernanceInv
      <4> QED
        BY <4>1 DEF BeforeData, HistoryRows
    <3>4. q.op = req[w].op /\ q.target = req[w].target /\ ActionOK(q)
      BY <1>1, <1>2, <3>1, <3>3, ConfigIsNotNone, ActionNames DEF ActionOK, ActionRequests, UserActions,
         EventActions, ConfigActions
    <3> HIDE DEF q
    <3> QED
      BY <1>4, <3>1, <3>4
  <2> QED
    BY <2>1, <2>2
<1>7. ASSUME ReadRow(w) PROVE Conclusion
  <2> DEFINE now_ == row[req[w].target]
             q == [req[w] EXCEPT !.row = now_, !.at = "save"]
  <2>1. req[w].at = "read"
    BY <1>7 DEF ReadRow, Doing
  <2>2. CASE now_ = NoConfig
    <3>1. req[w].op \in ConfigActions
      BY <1>1, <2>2, RowTypes, RowsAreNotNone
    <3>2. ActionOK([req[w] EXCEPT !.at = "create"])
      BY <1>1, <1>2, <2>1, <3>1, ActionNames DEF ActionOK, ActionRequests, UserActions, EventActions,
         ConfigActions
    <3> QED
      BY <1>5, <1>7, <2>2, <3>2 DEF ReadRow
  <2>3. CASE now_ # NoConfig /\ req[w].op = "config_get"
    BY <1>3, <1>7, <2>3 DEF ReadRow
  <2>4. CASE now_ # NoConfig /\ req[w].op # "config_get"
    <3>1. req' = [req EXCEPT ![w] = q]
      BY <1>7, <2>4 DEF ReadRow
    <3>2. /\ req[w].op \in UserActions => now_ \in User
          /\ req[w].op \in EventActions => now_ \in Event_
          /\ req[w].op \in ConfigActions => now_ \in Config
      BY <1>1, <2>4, RowTypes DEF GovernanceInv
    <3>3. q.op = req[w].op /\ q.target = req[w].target /\ ActionOK(q)
      BY <1>1, <1>2, <2>1, <2>4, <3>2, ActionNames DEF ActionOK, ActionRequests, UserActions,
         EventActions, ConfigActions
    <3> HIDE DEF q
    <3> QED
      BY <1>4, <3>1, <3>3
  <2> QED
    BY <2>2, <2>3, <2>4
<1>8. ASSUME CreateConfig(w) PROVE Conclusion
  <2> DEFINE q == [req[w] EXCEPT !.row = Defaults, !.at = "save"]
  <2>1. req[w].at = "create" /\ req[w].op \in ConfigActions
    BY <1>8 DEF CreateConfig, Doing
  <2>2. Return(w) \/ (req[w].op # "config_get" /\ req' = [req EXCEPT ![w] = q])
    BY <1>8 DEF CreateConfig
  <2>3. Defaults \in Config /\ Defaults # NoConfig
    BY ConfigIsNotNone DEF Defaults, Config
  <2>4. q.op = req[w].op /\ q.target = req[w].target /\ (req[w].op # "config_get" => ActionOK(q))
    BY <1>1, <1>2, <2>1, <2>3, ActionNames DEF ActionOK, ActionRequests, UserActions,
       EventActions, ConfigActions
  <2> HIDE DEF q
  <2> QED
    BY <1>3, <1>4, <2>2, <2>4
<1>9. ASSUME NEW at, Go(w, at), req[w].at \in {"save", "kick", "offline"},
             at = "log" \/ (req[w].op = "ban" /\ at \in {"kick", "offline"})
      PROVE  Conclusion
  <2>1. ActionOK([req[w] EXCEPT !.at = at])
    BY <1>1, <1>2, <1>9, ActionNames DEF ActionOK, ActionRequests, UserActions, EventActions,
       ConfigActions
  <2> QED
    BY <1>5, <1>9, <2>1
<1>10. ASSUME SaveRow(w) \/ SaveConfig(w) \/ KickUser(w) \/ SetUserOffline(w) PROVE Conclusion
  BY <1>9, <1>10 DEF SaveRow, SaveConfig, KickUser, SetUserOffline, Doing
<1>11. ASSUME LogAction(w) PROVE Conclusion
  BY <1>3, <1>11 DEF LogAction
<1>12. ASSUME ActionFails(w) PROVE Conclusion
  BY <1>3, <1>9, <1>12 DEF ActionFails
<1> HIDE DEF Conclusion
<1>13. Conclusion
  BY <1>6, <1>7, <1>8, <1>10, <1>11, <1>12 DEF GovernanceStep
<1> QED
  BY <1>1, <1>13 DEF Conclusion

(* An action begins with reading its row, a rollback with the latest       *)
(* version.                                                                *)
LEMMA ActionBegins ==
  ASSUME Shape, GovernanceInv, NEW w \in Workers, NEW q \in AdminRequests, BeginAction(w, q)
  PROVE  /\ req[w] = Idle /\ req'[w] = q /\ Acting(q) /\ ActionOK(q) /\ q.at \in {"read", "latest"}
         /\ q.at = "latest" <=> q.op = "config_rollback"
         /\ \A x \in Workers : x # w => req'[x] = req[x]
<1>1. /\ req[w] = Idle /\ req'[w] = q
      /\ \A x \in Workers : x # w => req'[x] = req[x]
  BY DEF BeginAction, Arrives, Free, Shape
<1>2. /\ ActionOK(q) /\ q.at \in {"read", "latest"}
      /\ q.at = "latest" <=> q.op = "config_rollback"
  <2>1. CASE \E op \in UserActions, u \in Targets : q = AdminUserAction(op, u)
    BY <2>1, ActionNames DEF AdminUserAction, ActionOf, ActionOK, ActionRequests, UserActions,
       ConfigActions
  <2>2. CASE \E op \in EventActions, e \in Events : q = AdminModerationAction(op, e)
    BY <2>2, ActionNames DEF AdminModerationAction, ActionOf, ActionOK, ActionRequests, EventActions,
       ConfigActions
  <2>3. CASE q = AdminAgentConfigGet \/ q = AdminAgentConfigRollback
    BY <2>3 DEF AdminAgentConfigGet, AdminAgentConfigRollback, ActionOf, ActionOK, ActionRequests,
       ConfigActions
  <2>4. CASE \E field \in Fields, value \in 0..1 : q = AdminAgentConfigUpdate(field, value)
    BY <2>4 DEF AdminAgentConfigUpdate, ActionOf, ActionOK, ActionRequests, ConfigActions
  <2> QED
    BY <2>1, <2>2, <2>3, <2>4 DEF AdminRequests
<1>3. Acting(q)
  BY <1>2, ActionNames DEF Acting, Idle, ActionOK, ActionRequests, GovernanceOps
<1> QED
  BY <1>1, <1>2, <1>3

(* The steps that leave the tables and the history alone.                  *)
LEMMA ActionsThatRead ==
  ASSUME NEW w \in Workers, ReadLatest(w) \/ ReadRow(w) \/ KickUser(w) \/ SetUserOffline(w)
                            \/ LogAction(w) \/ ActionFails(w)
  PROVE  UNCHANGED governanceVars
BY DEF ReadLatest, ReadRow, KickUser, SetUserOffline, LogAction, ActionFails

(* What the others do to them.                                             *)
LEMMA ActionsThatWrite ==
  ASSUME Shape, GovernanceInv, NEW w \in Workers
  PROVE  /\ SaveRow(w) =>
              /\ req[w].at = "save" /\ req[w].op \in UserActions \cup EventActions
              /\ req[w].target \in Targets \cup Events
              /\ row' = [row EXCEPT ![req[w].target] = Changes(req[w])]
              /\ history' = history /\ mixed' = mixed /\ list' = list
              /\ Go(w, IF req[w].op = "ban" THEN "kick" ELSE "log")
         /\ CreateConfig(w) =>
              /\ req[w].at = "create" /\ req[w].op \in ConfigActions
              /\ \/ row' = row /\ Return(w)
                 \/ row["config"] = NoConfig /\ row' = [row EXCEPT !["config"] = Defaults]
              /\ history' = history /\ mixed' = mixed /\ list' = list
         /\ SaveConfig(w) =>
              /\ req[w].at = "save" /\ req[w].op \in {"config_update", "config_rollback"}
              /\ row' = [row EXCEPT !["config"] = Changes(req[w])]
              /\ history' = Append(history, [version |-> MaxVersion + 1, op |-> req[w].op,
                                             before |-> req[w].row, after |-> Changes(req[w])])
              /\ mixed' = mixed /\ list' = list
              /\ Go(w, "log")
<1>1. ASSUME SaveRow(w)
      PROVE  /\ req[w].at = "save" /\ req[w].op \in UserActions \cup EventActions
             /\ req[w].target \in Targets \cup Events
  <2>1. /\ req[w] # Idle /\ req[w].op \in UserActions \cup EventActions /\ req[w].at = "save"
    BY <1>1 DEF SaveRow, Doing
  <2>2. ActionOK(req[w])
    BY <2>1 DEF GovernanceInv, Acting, GovernanceOps
  <2> QED
    BY <2>1, <2>2, RowTypes
<1>2. ASSUME SaveRow(w)
      PROVE  /\ row' = [row EXCEPT ![req[w].target] = Changes(req[w])]
             /\ history' = history /\ mixed' = mixed /\ list' = list
             /\ Go(w, IF req[w].op = "ban" THEN "kick" ELSE "log")
  BY <1>2 DEF SaveRow
<1>3. ASSUME CreateConfig(w)
      PROVE  /\ req[w].at = "create" /\ req[w].op \in ConfigActions
             /\ \/ row' = row /\ Return(w)
                \/ row["config"] = NoConfig /\ row' = [row EXCEPT !["config"] = Defaults]
             /\ history' = history /\ mixed' = mixed /\ list' = list
  BY <1>3 DEF CreateConfig, Doing
<1>4. ASSUME SaveConfig(w)
      PROVE  /\ req[w].at = "save" /\ req[w].op \in {"config_update", "config_rollback"}
             /\ row' = [row EXCEPT !["config"] = Changes(req[w])]
             /\ history' = Append(history, [version |-> MaxVersion + 1, op |-> req[w].op,
                                            before |-> req[w].row, after |-> Changes(req[w])])
             /\ mixed' = mixed /\ list' = list
             /\ Go(w, "log")
  BY <1>4 DEF SaveConfig, Doing
<1> QED
  BY <1>1, <1>2, <1>3, <1>4

(* The history's rows and its latest version are well typed.               *)
LEMMA LatestVersion ==
  ASSUME GovernanceInv
  PROVE  /\ MaxVersion \in Nat /\ Len(history) \in Nat
         /\ \A i \in 1..Len(history) : history[i] \in HistoryRows
<1>1. /\ Len(history) \in Nat
      /\ \A i \in 1..Len(history) : history[i] \in HistoryRows
  BY DEF GovernanceInv
<1>2. MaxVersion \in Nat
  <2>1. CASE history = << >>
    BY <2>1 DEF MaxVersion
  <2>2. CASE history # << >>
    <3>1. Len(history) \in 1..Len(history)
      BY <2>2 DEF GovernanceInv
    <3> QED
      BY <1>1, <2>2, <3>1 DEF MaxVersion, HistoryRows
  <2> QED
    BY <2>1, <2>2
<1> QED
  BY <1>1, <1>2

(* Administrators' steps keep the types of their tables and requests.      *)
LEMMA GovernanceTypes ==
  ASSUME Shape, GovernanceInv, GovernanceNext
  PROVE  GovernanceInv'
<1> DEFINE Tables == /\ row' = [t \in Rows |-> row'[t]]
                     /\ \A t \in Targets : row'[t] \in User
                     /\ \A e \in Events : row'[e] \in Event_
                     /\ row'["config"] \in Config \cup {NoConfig}
                     /\ history' \in Seq(HistoryRows)
           Asking == \A w \in Workers : Acting(req'[w]) => ActionOK(req'[w])
<1>1. Tables /\ Asking => GovernanceInv'
  BY DEF GovernanceInv, Acting, ActionOK
<1>2. ASSUME row' = row, history' = history PROVE Tables
  BY <1>2 DEF GovernanceInv
<1>3. ASSUME NEW w \in Workers, GovernanceStep(w) \/ ActionFails(w) PROVE Asking
  BY <1>3, ActionSteps DEF GovernanceInv, Acting
<1>4. ASSUME NEW w \in Workers, NEW q \in AdminRequests, BeginAction(w, q) PROVE Tables /\ Asking
  <2>1. Tables
    BY <1>2, <1>4 DEF BeginAction
  <2>2. Asking
    BY <1>4, ActionBegins DEF GovernanceInv
  <2> QED
    BY <2>1, <2>2
<1>5. ASSUME NEW size \in PageSizes, AdminAuditList(size) \/ AdminAgentConfigHistory(size)
      PROVE  Tables /\ Asking
  <2>1. Tables /\ req' = req
    BY <1>2, <1>5 DEF AdminAuditList, AdminAgentConfigHistory, ReadPage, governed
  <2> QED
    BY <2>1 DEF GovernanceInv
<1>6. ASSUME NEW w \in Workers, SaveRow(w) PROVE Tables
  <2>1. /\ req[w].at = "save" /\ req[w].op \in UserActions \cup EventActions
        /\ req[w].target \in Targets \cup Events
        /\ row' = [row EXCEPT ![req[w].target] = Changes(req[w])] /\ history' = history
    BY <1>6, ActionsThatWrite
  <2>2. ActionOK(req[w])
    BY <1>6 DEF SaveRow, Doing, GovernanceInv, Acting, GovernanceOps
  <2>3. /\ req[w].target \in Targets => Changes(req[w]) \in User
        /\ req[w].target \in Events => Changes(req[w]) \in Event_
    BY <2>1, <2>2, ChangesType, RowTypes, GovernanceAssumption
  <2> QED
    BY <2>1, <2>3, GovernanceAssumption DEF GovernanceInv, Rows
<1>7. ASSUME NEW w \in Workers, CreateConfig(w) PROVE Tables
  <2>1. row' = row \/ row' = [row EXCEPT !["config"] = Defaults]
    BY <1>7, ActionsThatWrite
  <2>2. history' = history /\ Defaults \in Config
    <3>1. Defaults \in Config
      BY DEF Defaults, Config
    <3> QED
      BY <1>7, <3>1, ActionsThatWrite
  <2> QED
    BY <2>1, <2>2, GovernanceAssumption DEF GovernanceInv, Rows
<1>8. ASSUME NEW w \in Workers, SaveConfig(w) PROVE Tables
  <2> DEFINE h == [version |-> MaxVersion + 1, op |-> req[w].op,
                   before |-> req[w].row, after |-> Changes(req[w])]
  <2>1. /\ req[w].at = "save" /\ req[w].op \in {"config_update", "config_rollback"}
        /\ row' = [row EXCEPT !["config"] = Changes(req[w])]
        /\ history' = Append(history, h)
    BY <1>8, ActionsThatWrite
  <2>2. ActionOK(req[w])
    BY <1>8 DEF SaveConfig, Doing, GovernanceInv, Acting, GovernanceOps, ConfigActions
  <2>3. Changes(req[w]) \in Config /\ req[w].op \in ConfigActions
    BY <2>1, <2>2, ChangesType DEF ConfigActions
  <2>4. req[w].row \in Config
    BY <2>1, <2>2, ActionNames DEF ActionOK, ActionRequests, UserActions, EventActions
  <2>5. h \in HistoryRows
    BY <2>3, <2>4, LatestVersion DEF HistoryRows
  <2>6. history' \in Seq(HistoryRows)
    BY <2>1, <2>5 DEF GovernanceInv
  <2> QED
    BY <2>1, <2>3, <2>6, GovernanceAssumption DEF GovernanceInv, Rows
<1>9. ASSUME NEW w \in Workers, GovernanceStep(w) \/ ActionFails(w) PROVE Tables
  BY <1>2, <1>6, <1>7, <1>8, <1>9, ActionsThatRead DEF GovernanceStep, governanceVars
<1> QED
  BY <1>1, <1>3, <1>4, <1>5, <1>9 DEF GovernanceNext

(* Every other step leaves the administrators' rows and requests alone.    *)
LEMMA GovernanceApart ==
  ASSUME Shape, [Next]_vars
  PROVE  \/ GovernanceNext /\ UNCHANGED viewVars
         \/ /\ UNCHANGED governanceVars
            /\ \E ops : GovernanceOps \cap ops = {} /\ Leaves(ops)
<1>1. CASE ViewsOnly /\ Leaves({"search"})
  <2>1. UNCHANGED governanceVars
    BY <1>1 DEF ViewsOnly, ViewsNext, SearchStep, CheckIsMember, QueryIndex, QueryStore, SearchFails,
       BeginSearch, ArchiveMessage, IndexMessage
  <2> QED
    BY <1>1, <2>1, OpsDisjoint
<1>2. CASE UNCHANGED vars /\ Leaves({})
  BY <1>2 DEF vars, chatVars
<1> QED
  BY <1>1, <1>2, Components, OpsDisjoint DEF RoomsOnly, PresenceOnly, GovernanceOnly, LoginOnly,
     FilesOnly, chatVars

(* So do the steps of all other services.                                  *)
LEMMA GovernanceForeign ==
  ASSUME GovernanceInv, NEW ops, GovernanceOps \cap ops = {}, Leaves(ops), UNCHANGED governanceVars
  PROVE  /\ GovernanceInv'
         /\ \A w \in Workers : Acting(req'[w]) \/ Acting(req[w]) => req'[w] = req[w]
<1>1. row' = row /\ history' = history
  BY DEF governanceVars
<1>2. \A w \in Workers : Acting(req'[w]) \/ Acting(req[w]) => req'[w] = req[w]
  BY DEF Leaves, Mine, Acting
<1>3. \A w \in Workers : Acting(req'[w]) => ActionOK(req'[w])
  BY <1>2 DEF GovernanceInv
<1> QED
  BY <1>1, <1>2, <1>3 DEF GovernanceInv, Acting, ActionOK

(* Every row and every action on one is of its type, and what an action    *)
(* has read is a row of its target's table.                                *)
THEOREM GovernanceTypesHold == Spec => []GovernanceInv
<1>1. Init => GovernanceInv
  <2> SUFFICES ASSUME Init PROVE GovernanceInv
    OBVIOUS
  <2>1. row = First /\ history = << >> /\ req = [w \in Workers |-> Idle]
    BY DEF Init, GovernanceInit, RequestsInit
  <2>2. /\ \A t \in Targets : First[t] \in User
        /\ \A e \in Events : First[e] \in Event_
        /\ First["config"] = NoConfig
        /\ First = [t \in Rows |-> First[t]]
    BY GovernanceAssumption DEF First, Rows, User, Event_
  <2> QED
    BY <2>1, <2>2 DEF GovernanceInv, Acting
<1>2. Shape /\ GovernanceInv /\ [Next]_vars => GovernanceInv'
  BY GovernanceApart, GovernanceTypes, GovernanceForeign
<1> QED
  BY ShapeHolds, <1>1, <1>2, PTL DEF Spec

-----------------------------------------------------------------------------
(* The history of the configuration *)

RollbackHasHistory(q) == q.op = "config_rollback" /\ q.at # "latest" => history # << >>

HasReadNewest(q) ==
    /\ q.at = "save" => q.row = row["config"]
    /\ q.op = "config_rollback" /\ q.at \in {"read", "create", "save"}
         => q.old = history[Len(history)].before

(* The configuration's invariant, cut into its parts.                      *)
LEMMA ConfigParts ==
  ConfigInv <=>
    /\ \A w \in Workers : Acting(req[w]) => RollbackHasHistory(req[w])
    /\ "config" \notin mixed =>
          /\ \A v, w \in Workers : OfConfig(req[v]) /\ OfConfig(req[w]) => v = w
          /\ \A w \in Workers : OfConfig(req[w]) => HasReadNewest(req[w])
    /\ ConfigHistoryTells
BY DEF ConfigInv, RollbackHasHistory, HasReadNewest

(* An action on the configuration calls neither hub nor presence.          *)
LEMMA ConfigAt ==
  ASSUME NEW q, ActionOK(q), OfConfig(q)
  PROVE  q.op \in ConfigActions /\ q.at \notin {"kick", "offline"}
BY GovernanceAssumption, ActionNames DEF ActionOK, ActionRequests, OfConfig, UserActions, EventActions,
   ConfigActions

(* A request that reads, or ends, and leaves the tables alone.             *)
LEMMA ConfigRead ==
  ASSUME Shape, GovernanceInv, ConfigInv, NEW w \in Workers,
         GovernanceStep(w) \/ ActionFails(w),
         row["config"]' = row["config"], history' = history, mixed' = mixed,
         req'[w] # Idle => RollbackHasHistory(req'[w]) /\ (OfConfig(req'[w]) /\ "config" \notin mixed
                                                             => HasReadNewest(req'[w]))
  PROVE  ConfigInv'
<1>1. /\ Acting(req[w])
      /\ \A x \in Workers : x # w => req'[x] = req[x]
      /\ req'[w] # Idle => Acting(req'[w]) /\ req'[w].target = req[w].target
  BY ActionSteps
<1>2. \A x \in Workers : OfConfig(req'[x]) => OfConfig(req[x])
  BY <1>1 DEF OfConfig, Acting
<1>3. \A x \in Workers : Acting(req'[x]) =>
          (req'[x].op = "config_rollback" /\ req'[x].at # "latest" => history' # << >>)
  BY <1>1, ConfigParts DEF RollbackHasHistory, Acting
<1>4. ASSUME "config" \notin mixed'
      PROVE  /\ \A v, x \in Workers : OfConfig(req'[v]) /\ OfConfig(req'[x]) => v = x
             /\ \A x \in Workers : OfConfig(req'[x]) => HasReadNewest(req'[x])
  <2>1. \A v, x \in Workers : OfConfig(req'[v]) /\ OfConfig(req'[x]) => v = x
    BY <1>2, <1>4, ConfigParts
  <2>2. \A x \in Workers : OfConfig(req'[x]) => HasReadNewest(req'[x])
    BY <1>1, <1>2, <1>4, ConfigParts DEF OfConfig, Acting
  <2> QED
    BY <2>1, <2>2
<1>5. ConfigHistoryTells'
  BY DEF ConfigInv, ConfigHistoryTells
<1> QED
  BY <1>3, <1>4, <1>5 DEF ConfigInv, OfConfig, Acting, HasReadNewest

(* The newest version holds the configuration as it is.                    *)
LEMMA NewestIsConfig ==
  ASSUME GovernanceInv, ConfigInv, history # << >>
  PROVE  /\ Len(history) \in 1..Len(history)
         /\ row["config"] = history[Len(history)].after /\ row["config"] \in Config
         /\ history[Len(history)].version = Len(history)
<1>1. Len(history) \in 1..Len(history) /\ 1..Len(history) = DOMAIN history
  BY DEF GovernanceInv
<1>2. history[Len(history)] \in HistoryRows
  BY <1>1, LatestVersion
<1> QED
  BY <1>1, <1>2 DEF ConfigInv, ConfigHistoryTells, HistoryRows

(* Saving a configuration with its version keeps the invariant.            *)
LEMMA ConfigSaved ==
  ASSUME Shape, GovernanceInv, ConfigInv, NEW w \in Workers, SaveConfig(w)
  PROVE  ConfigInv'
<1> DEFINE n == Len(history)
           h == [version |-> MaxVersion + 1, op |-> req[w].op,
                 before |-> req[w].row, after |-> Changes(req[w])]
<1>1. /\ req[w].at = "save" /\ req[w].op \in {"config_update", "config_rollback"}
      /\ row' = [row EXCEPT !["config"] = Changes(req[w])]
      /\ history' = Append(history, h)
      /\ mixed' = mixed /\ Go(w, "log")
  BY ActionsThatWrite
<1>2. Acting(req[w]) /\ ActionOK(req[w])
  BY ActionSteps DEF GovernanceStep
<1>3. /\ \A x \in Workers : x # w => req'[x] = req[x]
      /\ req'[w].at = "log"
  BY <1>1, <1>2, ActionGoes
<1>4. OfConfig(req[w])
  BY <1>1, <1>2, RowTypes DEF OfConfig, ConfigActions
<1>5. n \in Nat /\ Len(history') = n + 1 /\ history' # << >> /\ history'[n + 1] = h
      /\ \A i \in 1..n : history'[i] = history[i]
  <2>1. history \in Seq(HistoryRows)
    BY DEF GovernanceInv
  <2> QED
    BY <1>1, <2>1
<1>6. MaxVersion = n
  <2>1. CASE history = << >>
    BY <2>1 DEF MaxVersion
  <2>2. CASE history # << >>
    BY <2>2, NewestIsConfig DEF MaxVersion
  <2> QED
    BY <2>1, <2>2
<1>7. row'["config"] = Changes(req[w])
  BY <1>1 DEF GovernanceInv, Rows
<1>8. ASSUME "config" \notin mixed, n > 0
      PROVE  /\ req[w].row = history[n].after
             /\ req[w].op = "config_rollback" => Changes(req[w]) = history[n].before
  <2>1. history # << >>
    BY <1>8
  <2>2. HasReadNewest(req[w])
    BY <1>4, <1>8, ConfigParts
  <2>3. req[w].op = "config_rollback" => Changes(req[w]) = req[w].old
    BY ActionNames DEF Changes
  <2> QED
    BY <1>1, <2>1, <2>2, <2>3, NewestIsConfig DEF HasReadNewest
<1>9. ConfigHistoryTells'
  <2> SUFFICES ASSUME NEW i \in 1..(n + 1)
               PROVE  /\ history'[i].version = i
                      /\ i = n + 1 => row'["config"] = history'[i].after
                      /\ "config" \notin mixed' /\ i > 1 =>
                           /\ history'[i].before = history'[i - 1].after
                           /\ history'[i].op = "config_rollback"
                                => history'[i].after = history'[i - 1].before
    <3>1. DOMAIN history' = 1..(n + 1)
      <4>1. history \in Seq(HistoryRows)
        BY DEF GovernanceInv
      <4> QED
        BY <1>1, <4>1
    <3> QED
      BY <1>5, <3>1 DEF ConfigHistoryTells
  <2>1. CASE i \in 1..n
    <3>1. history'[i] = history[i] /\ i \in DOMAIN history /\ i # n + 1
          /\ (i > 1 => history'[i - 1] = history[i - 1])
      BY <1>5, <2>1 DEF GovernanceInv
    <3> QED
      BY <1>1, <3>1 DEF ConfigInv, ConfigHistoryTells
  <2>2. CASE i = n + 1
    <3>1. history'[i] = h
      BY <1>5, <2>2
    <3>2. h.version = i /\ h.after = Changes(req[w]) /\ h.before = req[w].row /\ h.op = req[w].op
      BY <1>6, <2>2
    <3>3. i > 1 => n > 0 /\ history'[i - 1] = history[n]
      BY <1>5, <2>2
    <3> HIDE DEF h
    <3> QED
      BY <1>1, <1>7, <1>8, <2>2, <3>1, <3>2, <3>3
  <2> QED
    BY <1>5, <2>1, <2>2
<1>10. \A x \in Workers : Acting(req'[x]) =>
          (req'[x].op = "config_rollback" /\ req'[x].at # "latest" => history' # << >>)
  BY <1>5
<1>11. ASSUME "config" \notin mixed'
       PROVE  /\ \A v, x \in Workers : OfConfig(req'[v]) /\ OfConfig(req'[x]) => v = x
              /\ \A x \in Workers : OfConfig(req'[x]) => x = w
  BY <1>1, <1>3, <1>4, <1>11, ConfigParts
<1> QED
  BY <1>3, <1>9, <1>10, <1>11 DEF ConfigInv, OfConfig, Acting

(* So does every step of the administrators.                               *)
LEMMA ConfigStep ==
  ASSUME Shape, GovernanceInv, ConfigInv, GovernanceNext
  PROVE  ConfigInv'
<1>1. ASSUME NEW w \in Workers, ReadLatest(w) PROVE ConfigInv'
  <2>1. row' = row /\ history' = history /\ mixed' = mixed
    BY <1>1, ActionsThatRead DEF governanceVars
  <2>2. req'[w] # Idle => /\ history # << >> /\ req'[w].at = "read"
                          /\ req'[w].old = history[Len(history)].before
    <3>1. DOMAIN req[w] = {"op", "target", "row", "old", "field", "value", "at"}
      <4>1. ActionOK(req[w])
        BY <1>1, ActionSteps DEF GovernanceStep
      <4> QED
        BY <4>1 DEF ActionOK, ActionRequests
    <3> QED
      BY <1>1, <3>1 DEF ReadLatest, Return, Shape, BeforeData
  <2> QED
    BY <1>1, <2>1, <2>2, ConfigRead DEF GovernanceStep, RollbackHasHistory, HasReadNewest
<1>2. ASSUME NEW w \in Workers, ReadRow(w) PROVE ConfigInv'
  <2>1. row' = row /\ history' = history /\ mixed' = mixed
    BY <1>2, ActionsThatRead DEF governanceVars
  <2>2. ActionOK(req[w]) /\ Acting(req[w]) /\ req[w].at = "read"
    BY <1>2, ActionSteps DEF GovernanceStep, ReadRow, Doing
  <2>3. DOMAIN req[w] = {"op", "target", "row", "old", "field", "value", "at"}
    BY <2>2 DEF ActionOK, ActionRequests
  <2>4. req'[w] # Idle => /\ req'[w].at = "save" => req'[w].row = row[req[w].target]
                          /\ req'[w].op = req[w].op /\ req'[w].target = req[w].target
                          /\ req'[w].old = req[w].old
    BY <1>2, <2>3 DEF ReadRow, Go, Return, Shape
  <2>5. RollbackHasHistory(req[w]) /\ (OfConfig(req[w]) /\ "config" \notin mixed => HasReadNewest(req[w]))
    BY <2>2, ConfigParts
  <2>6. req'[w] # Idle => RollbackHasHistory(req'[w])
    BY <2>2, <2>4, <2>5 DEF RollbackHasHistory
  <2>7. req'[w] # Idle /\ OfConfig(req'[w]) /\ "config" \notin mixed => HasReadNewest(req'[w])
    BY <2>2, <2>4, <2>5 DEF HasReadNewest, OfConfig
  <2> QED
    BY <1>2, <2>1, <2>6, <2>7, ConfigRead DEF GovernanceStep
<1>3. ASSUME NEW w \in Workers, KickUser(w) \/ SetUserOffline(w) PROVE ConfigInv'
  <2>1. row' = row /\ history' = history /\ mixed' = mixed
    BY <1>3, ActionsThatRead DEF governanceVars
  <2>2. /\ req'[w] # Idle => Acting(req'[w]) /\ ActionOK(req'[w]) /\ req'[w].op = "ban"
    BY <1>3, ActionSteps DEF GovernanceStep, KickUser, SetUserOffline, Doing
  <2>3. req'[w] # Idle => ~OfConfig(req'[w]) /\ RollbackHasHistory(req'[w])
    BY <2>2, ConfigAt DEF RollbackHasHistory, ConfigActions
  <2> QED
    BY <1>3, <2>1, <2>3, ConfigRead DEF GovernanceStep
<1>4. ASSUME NEW w \in Workers, LogAction(w) PROVE ConfigInv'
  <2>1. row' = row /\ history' = history /\ mixed' = mixed
    BY <1>4, ActionsThatRead DEF governanceVars
  <2>2. req'[w] = Idle
    BY <1>4 DEF LogAction, Return, Shape
  <2> QED
    BY <1>4, <2>1, <2>2, ConfigRead DEF GovernanceStep
<1>5. ASSUME NEW w \in Workers, ActionFails(w) PROVE ConfigInv'
  <2>1. row' = row /\ history' = history /\ mixed' = mixed
    BY <1>5, ActionsThatRead DEF governanceVars
  <2>2. Acting(req[w]) /\ ActionOK(req[w])
    BY <1>5, ActionSteps
  <2>3. CASE Return(w)
    <3>1. req'[w] = Idle
      BY <2>3 DEF Return, Shape
    <3> QED
      BY <1>5, <2>1, <3>1, ConfigRead
  <2>4. CASE req[w].at = "offline" /\ Go(w, "log")
    <3>1. ~OfConfig(req[w])
      BY <2>2, <2>4, ConfigAt
    <3>2. req'[w].op = req[w].op /\ req'[w].target = req[w].target
      BY <2>2, <2>4, ActionGoes
    <3>3. req[w].op \notin ConfigActions
      BY <2>2, <3>1, RowTypes DEF OfConfig
    <3>4. ~OfConfig(req'[w]) /\ RollbackHasHistory(req'[w])
      BY <2>2, <3>1, <3>2, <3>3 DEF OfConfig, RollbackHasHistory, ConfigActions
    <3> QED
      BY <1>5, <2>1, <3>4, ConfigRead
  <2> QED
    BY <1>5, <2>3, <2>4 DEF ActionFails
<1>6. ASSUME NEW w \in Workers, CreateConfig(w) PROVE ConfigInv'
  <2>1. /\ req[w].at = "create" /\ req[w].op \in ConfigActions
        /\ \/ row' = row /\ Return(w)
           \/ row["config"] = NoConfig /\ row' = [row EXCEPT !["config"] = Defaults]
        /\ history' = history /\ mixed' = mixed
    BY <1>6, ActionsThatWrite
  <2>2. CASE row' = row /\ Return(w)
    <3>1. req'[w] = Idle
      BY <2>2 DEF Return, Shape
    <3> QED
      BY <1>6, <2>1, <2>2, <3>1, ConfigRead DEF GovernanceStep
  <2>3. CASE row["config"] = NoConfig /\ row' = [row EXCEPT !["config"] = Defaults]
    <3>1. history = << >>
      BY <2>3, NewestIsConfig, ConfigIsNotNone
    <3>2. /\ Acting(req[w]) /\ ActionOK(req[w])
          /\ \A x \in Workers : x # w => req'[x] = req[x]
          /\ req'[w] # Idle => Acting(req'[w]) /\ req'[w].op = req[w].op
      BY <1>6, ActionSteps DEF GovernanceStep
    <3>3. OfConfig(req[w])
      BY <2>1, <3>2, RowTypes DEF OfConfig
    <3>4. req[w].op # "config_rollback"
      BY <2>1, <3>1, <3>2, ConfigParts DEF RollbackHasHistory
    <3>5. row'["config"] = Defaults
      BY <2>3 DEF GovernanceInv, Rows
    <3>6. req'[w] # Idle => req'[w].row = Defaults
      <4>1. DOMAIN req[w] = {"op", "target", "row", "old", "field", "value", "at"}
        BY <3>2 DEF ActionOK, ActionRequests
      <4> QED
        BY <1>6, <4>1 DEF CreateConfig, Return, Shape
    <3>7. \A x \in Workers : Acting(req'[x]) =>
              (req'[x].op = "config_rollback" /\ req'[x].at # "latest" => history' # << >>)
      BY <2>1, <3>2, <3>4, ConfigParts DEF RollbackHasHistory, Acting
    <3>8. ASSUME "config" \notin mixed'
          PROVE  /\ \A v, x \in Workers : OfConfig(req'[v]) /\ OfConfig(req'[x]) => v = x
                 /\ \A x \in Workers : OfConfig(req'[x]) => x = w
      BY <2>1, <3>2, <3>3, <3>8, ConfigParts
    <3>9. ConfigHistoryTells'
      <4>1. DOMAIN history' = {}
        BY <2>1, <3>1
      <4> QED
        BY <4>1 DEF ConfigHistoryTells
    <3> QED
      BY <3>2, <3>4, <3>5, <3>6, <3>7, <3>8, <3>9 DEF ConfigInv, OfConfig, Acting
  <2> QED
    BY <2>1, <2>2, <2>3
<1>7. ASSUME NEW w \in Workers, SaveRow(w) PROVE ConfigInv'
  <2>1. /\ req[w].at = "save" /\ req[w].op \in UserActions \cup EventActions
        /\ req[w].target \in Targets \cup Events
        /\ row' = [row EXCEPT ![req[w].target] = Changes(req[w])]
        /\ history' = history /\ mixed' = mixed
    BY <1>7, ActionsThatWrite
  <2>2. row'["config"] = row["config"]
    BY <2>1, GovernanceAssumption DEF GovernanceInv
  <2>3. req'[w] # Idle => req'[w].op = req[w].op /\ req'[w].target = req[w].target
    BY <1>7, ActionSteps DEF GovernanceStep
  <2>4. req'[w] # Idle => ~OfConfig(req'[w]) /\ RollbackHasHistory(req'[w])
    BY <2>1, <2>3, GovernanceAssumption, ActionNames DEF OfConfig, RollbackHasHistory, UserActions,
       EventActions
  <2> QED
    BY <1>7, <2>1, <2>2, <2>4, ConfigRead DEF GovernanceStep
<1>8. ASSUME NEW w \in Workers, NEW q \in AdminRequests, BeginAction(w, q) PROVE ConfigInv'
  <2>1. /\ req[w] = Idle /\ req'[w] = q /\ Acting(q) /\ q.at \in {"read", "latest"}
        /\ q.at = "latest" <=> q.op = "config_rollback"
        /\ \A x \in Workers : x # w => req'[x] = req[x]
    BY <1>8, ActionBegins
  <2>2. row' = row /\ history' = history
    BY <1>8 DEF BeginAction
  <2>3. /\ "config" \notin mixed' => "config" \notin mixed
        /\ "config" \notin mixed' /\ q.target = "config"
             => \A v \in Workers : ~(req[v] # Idle /\ req[v].target = "config")
    BY <1>8 DEF BeginAction
  <2>4. \A x \in Workers : Acting(req'[x]) =>
            (req'[x].op = "config_rollback" /\ req'[x].at # "latest" => history' # << >>)
    BY <2>1, <2>2, ConfigParts DEF RollbackHasHistory
  <2>5. ASSUME "config" \notin mixed'
        PROVE  /\ \A v, x \in Workers : OfConfig(req'[v]) /\ OfConfig(req'[x]) => v = x
               /\ \A x \in Workers : OfConfig(req'[x]) => HasReadNewest(req'[x])
    <3>1. \A x \in Workers : x # w /\ OfConfig(req'[x]) => OfConfig(req[x]) /\ req[x] # Idle
      BY <2>1 DEF OfConfig, Acting
    <3>2. \A v, x \in Workers : OfConfig(req'[v]) /\ OfConfig(req'[x]) => v = x
      BY <2>1, <2>3, <2>5, <3>1, ConfigParts DEF OfConfig
    <3>3. HasReadNewest(q)
      BY <2>1 DEF HasReadNewest
    <3>4. \A x \in Workers : OfConfig(req'[x]) => HasReadNewest(req'[x])
      BY <2>1, <2>3, <2>5, <3>1, <3>3, ConfigParts
    <3> QED
      BY <3>2, <3>4
  <2>6. ConfigHistoryTells'
    BY <2>2, <2>3 DEF ConfigInv, ConfigHistoryTells
  <2> QED
    BY <2>2, <2>4, <2>5, <2>6 DEF ConfigInv, HasReadNewest, OfConfig, Acting
<1>9. ASSUME NEW size \in PageSizes, AdminAuditList(size) \/ AdminAgentConfigHistory(size)
      PROVE  ConfigInv'
  <2>1. row' = row /\ history' = history /\ mixed' = mixed /\ req' = req
    BY <1>9 DEF AdminAuditList, AdminAgentConfigHistory, ReadPage, governed
  <2> QED
    BY <2>1 DEF ConfigInv, ConfigHistoryTells, OfConfig, Acting
<1> QED
  BY <1>1, <1>2, <1>3, <1>4, <1>5, <1>6, <1>7, <1>8, <1>9, ConfigSaved DEF GovernanceNext, GovernanceStep

(* The history has the versions 1, 2, 3, ... and its newest row is the     *)
(* configuration, however updates and rollbacks overlap and fail; while    *)
(* none overlapped it is a chain, and a rollback undoes the change before  *)
(* it.                                                                     *)
THEOREM ConfigHistoryTellsHolds == Spec => []ConfigHistoryTells
<1>1. Init => ConfigInv
  <2> SUFFICES ASSUME Init PROVE ConfigInv
    OBVIOUS
  <2>1. history = << >> /\ req = [w \in Workers |-> Idle]
    BY DEF Init, GovernanceInit, RequestsInit
  <2>2. DOMAIN history = {}
    BY <2>1
  <2> QED
    BY <2>1, <2>2 DEF ConfigInv, ConfigHistoryTells, OfConfig, Acting
<1>2. Shape /\ GovernanceInv /\ ConfigInv /\ [Next]_vars => ConfigInv'
  <2> SUFFICES ASSUME Shape, GovernanceInv, ConfigInv, [Next]_vars PROVE ConfigInv'
    OBVIOUS
  <2>1. ASSUME UNCHANGED governanceVars, NEW ops, GovernanceOps \cap ops = {}, Leaves(ops)
        PROVE  ConfigInv'
    <3>1. row' = row /\ history' = history /\ mixed' = mixed
      BY <2>1 DEF governanceVars
    <3>2. \A w \in Workers : Acting(req'[w]) => req'[w] = req[w]
      BY <2>1, GovernanceForeign
    <3> QED
      BY <3>1, <3>2 DEF ConfigInv, ConfigHistoryTells, OfConfig, Acting
  <2> QED
    BY <2>1, ConfigStep, GovernanceApart
<1>3. ConfigInv => ConfigHistoryTells
  BY DEF ConfigInv
<1> QED
  BY ShapeHolds, GovernanceTypesHold, <1>1, <1>2, <1>3, PTL DEF Spec

-----------------------------------------------------------------------------
(* Pages *)

(* The log has a length and places.                                        *)
LEMMA AuditLen ==
  ASSUME Shape
  PROVE  Len(audit) \in Nat /\ DOMAIN audit = 1..Len(audit)
<1>1. PICK S : audit \in Seq(S)
  BY DEF Shape
<1> QED
  BY <1>1

(* Rows are only added to the log.                                         *)
LEMMA AuditGrows ==
  ASSUME Shape, NEW ops, Leaves(ops)
  PROVE  /\ Len(audit') \in Nat /\ Len(audit') >= Len(audit) /\ DOMAIN audit' = 1..Len(audit')
         /\ \A i \in DOMAIN audit : audit'[i] = audit[i]
         /\ \A i \in DOMAIN audit' \ DOMAIN audit : audit'[i].op \in ops
<1>1. PICK S : audit \in Seq(S)
  BY DEF Shape
<1>2. CASE audit' = audit
  BY <1>1, <1>2
<1>3. ASSUME NEW e, e.op \in ops, audit' = Append(audit, e)
      PROVE  /\ Len(audit') \in Nat /\ Len(audit') >= Len(audit) /\ DOMAIN audit' = 1..Len(audit')
             /\ \A i \in DOMAIN audit : audit'[i] = audit[i]
             /\ \A i \in DOMAIN audit' \ DOMAIN audit : audit'[i].op \in ops
  <2>1. audit \in Seq(S \cup {e}) /\ e \in S \cup {e}
    BY <1>1
  <2>2. /\ Len(audit') = Len(audit) + 1 /\ Len(audit) \in Nat /\ DOMAIN audit' = 1..(Len(audit) + 1)
        /\ audit'[Len(audit) + 1] = e /\ DOMAIN audit = 1..Len(audit)
        /\ \A i \in 1..Len(audit) : audit'[i] = audit[i]
    BY <1>3, <2>1
  <2> QED
    BY <1>3, <2>2
<1> QED
  BY <1>2, <1>3 DEF Leaves

(* The history only grows.                                                 *)
LEMMA HistoryGrows ==
  ASSUME Shape, GovernanceInv, GovernanceNext
  PROVE  Len(history') \in Nat /\ Len(history') >= Len(history) /\ Len(history) \in Nat
<1>1. CASE history' = history
  BY <1>1, LatestVersion
<1>2. ASSUME NEW w \in Workers, SaveConfig(w)
      PROVE  Len(history') \in Nat /\ Len(history') >= Len(history) /\ Len(history) \in Nat
  <2>1. PICK h : history' = Append(history, h)
    BY <1>2, ActionsThatWrite
  <2>2. GovernanceInv'
    BY GovernanceTypes
  <2>3. history \in Seq(HistoryRows) /\ history' \in Seq(HistoryRows)
    BY <2>2 DEF GovernanceInv
  <2> QED
    BY <2>1, <2>3
<1>3. ASSUME NEW w \in Workers, GovernanceStep(w) \/ ActionFails(w), ~SaveConfig(w)
      PROVE  history' = history
  BY <1>3, ActionsThatRead, ActionsThatWrite DEF GovernanceStep, governanceVars
<1>4. ASSUME NEW w \in Workers, NEW q, BeginAction(w, q) PROVE history' = history
  BY <1>4 DEF BeginAction
<1>5. ASSUME NEW size \in PageSizes, AdminAuditList(size) \/ AdminAgentConfigHistory(size)
      PROVE  history' = history
  BY <1>5 DEF AdminAuditList, AdminAgentConfigHistory, ReadPage, governed
<1> QED
  BY <1>1, <1>2, <1>3, <1>4, <1>5 DEF GovernanceNext

(* A page has a positive size.                                             *)
LEMMA PageSizeType == \A size \in Int : PageSize(size) \in Nat \ {0}
BY DEF PageSize

(* The page after p pages begins where they end.                           *)
LEMMA OnePageMore ==
  ASSUME NEW p \in Nat, NEW s \in Nat
  PROVE  p * s \in Nat /\ (p + 1) * s = p * s + s /\ ((p + 1) - 1) * s = p * s
<1>1. p * s \in Nat
  OBVIOUS
<1>2. (p + 1) * s = p * s + s
  OBVIOUS
<1>3. (p + 1) - 1 = p
  OBVIOUS
<1> QED
  BY <1>1, <1>2, <1>3

(* What is among the newest a rows of a longer list is so of a shorter.    *)
LEMMA PositionsMove ==
  \A m, n, a, j \in Nat : m >= n /\ j > m - a => j > n - a
OBVIOUS

(* The next page of a list that has n rows now.                            *)
LEMMA NextPage ==
  ASSUME PagesInv, NEW of \in {"audit", "history"}, NEW rows, NEW n \in Nat, NEW size \in Int,
         n = Len(rows), DOMAIN rows = 1..n, ReadPage(of, rows, size),
         list.page > 0 => n = ListLen, ListLen' = n
  PROVE  PagesInv'
<1> DEFINE s == PageSize(size)
           p == list.page
           new == NewestFirst(rows, p + 1, size)
<1>1. /\ list' = [of |-> of, page |-> p + 1, size |-> size,
                  upto |-> IF p = 0 THEN n ELSE list.upto, seen |-> list.seen \cup new]
      /\ p > 0 => list.size = size
  BY DEF ReadPage
<1>2. p \in Nat /\ s \in Nat /\ s > 0 /\ list.upto \in Nat /\ list.seen \subseteq Nat
  <2>1. p \in Nat /\ list.upto \in Nat /\ list.seen \subseteq Nat
    BY DEF PagesInv
  <2>2. s \in Nat \ {0}
    BY PageSizeType
  <2>3. s > 0
    BY <2>2
  <2> QED
    BY <2>1, <2>2, <2>3
<1> HIDE DEF s, p, new
<1>3. PICK a \in Nat : a = p * s /\ (p + 1) * s = a + s /\ ((p + 1) - 1) * s = a
  <2>1. p * s \in Nat /\ (p + 1) * s = p * s + s /\ ((p + 1) - 1) * s = p * s
    BY <1>2, OnePageMore, Zenon
  <2> QED
    BY <2>1, Zenon
<1> USE DEF s, p, new
<1>4. new = {i \in 1..n : n - i \in a..(a + s - 1)}
  <2>1. PageNumber(p + 1) = p + 1
    BY <1>2 DEF PageNumber
  <2>2. Offset(PageNumber(p + 1), PageSize(size)) = a
    <3>1. Offset(PageNumber(p + 1), PageSize(size)) = ((p + 1) - 1) * s
      BY <2>1, Zenon DEF Offset
    <3> QED
      BY <1>3, <3>1, Zenon
  <2>3. PICK f : f = [i \in DOMAIN rows |-> Len(rows) - i]
    OBVIOUS
  <2>4. new = {i \in DOMAIN rows : f[i] \in a..(a + s - 1)}
    BY <2>2, <2>3, Zenon DEF NewestFirst, OnPage
  <2>5. \A i \in 1..n : f[i] = n - i
    BY <2>3
  <2> QED
    BY <2>4, <2>5
<1>5. \A i \in 1..n : i \in new <=> (i <= n - a /\ i > n - (a + s))
  <2> SUFFICES ASSUME NEW i \in 1..n
               PROVE  i \in new <=> (i <= n - a /\ i > n - (a + s))
    OBVIOUS
  <2> HIDE DEF new, s
  <2>1. i \in new <=> n - i \in a..(a + s - 1)
    BY <1>4, Zenon
  <2> QED
    BY <1>2, <2>1
<1>6. new \subseteq 1..n
  BY <1>4
<1> HIDE DEF new, s
<1>7. PICK u \in Nat : u = (IF p = 0 THEN n ELSE list.upto)
  BY <1>2
<1>8. u <= n
  BY <1>2, <1>7 DEF PagesInv
<1>9. \A j \in 1..u : j > n - a => j \in list.seen
  <2>1. CASE p = 0
    BY <1>2, <1>3, <1>7, <2>1
  <2>2. CASE p # 0
    <3>1. p > 0 /\ u = list.upto /\ list.size = size /\ n = ListLen
      BY <1>1, <1>2, <1>7, <2>2
    <3> QED
      BY <1>3, <3>1 DEF PagesInv, s
  <2> QED
    BY <2>1, <2>2
<1>10. list'.page = p + 1 /\ list'.upto = u /\ list'.size = size /\ list'.of = of
       /\ list'.seen = list.seen \cup new
  BY <1>1, <1>7
<1>11. \A j \in 1..u : j > n - (a + s) => j \in list'.seen
  BY <1>2, <1>5, <1>8, <1>9, <1>10
<1>12. \A i \in list'.seen, j \in 1..u : i < j => j \in list'.seen
  <2> SUFFICES ASSUME NEW i \in list'.seen, NEW j \in 1..u, i < j PROVE j \in list'.seen
    OBVIOUS
  <2>1. CASE i \in new
    <3>1. i \in 1..n /\ i > n - (a + s)
      BY <1>5, <1>6, <2>1
    <3> QED
      BY <1>2, <1>11, <3>1
  <2>2. CASE i \in list.seen
    <3>1. p # 0
      BY <2>2 DEF PagesInv
    <3>2. u = list.upto
      BY <1>7, <3>1
    <3> QED
      BY <1>10, <2>2, <3>2 DEF PagesInv, PagesSkipNothing
  <2> QED
    BY <1>10, <2>1, <2>2
<1>13. /\ list'.page \in Nat /\ list'.upto \in Nat /\ list'.size \in Int /\ list'.seen \subseteq Nat
       /\ list'.page # 0 /\ list'.of \in {"audit", "history"} /\ list'.upto <= ListLen'
  <2>0. \A i \in new : i \in Nat
    BY <1>6
  <2>1. list'.seen \subseteq Nat
    BY <1>2, <1>10, <2>0
  <2>2. p + 1 \in Nat /\ p + 1 # 0
    BY <1>2
  <2>3. u <= ListLen'
    BY <1>8
  <2> QED
    BY <1>10, <2>1, <2>2, <2>3
<1>14. \A j \in 1..list'.upto : j > ListLen' - list'.page * PageSize(list'.size) => j \in list'.seen
  BY <1>3, <1>10, <1>11 DEF s
<1> QED
  BY <1>10, <1>12, <1>13, <1>14 DEF PagesInv, PagesSkipNothing

(* A page counts from the newest row, and rows are only added: pages read  *)
(* one after the other leave out no row there was, however many are added  *)
(* in between.                                                             *)
THEOREM PagesSkipNothingHolds == Spec => []PagesSkipNothing
<1>1. Init => PagesInv
  <2> SUFFICES ASSUME Init PROVE PagesInv
    OBVIOUS
  <2>1. list = [of |-> "none", page |-> 0, size |-> 0, upto |-> 0, seen |-> {}]
    BY DEF Init, GovernanceInit
  <2> QED
    BY <2>1 DEF PagesInv, PagesSkipNothing
<1>2. Shape /\ GovernanceInv /\ PagesInv /\ [Next]_vars => PagesInv'
  <2> SUFFICES ASSUME Shape, GovernanceInv, PagesInv, [Next]_vars PROVE PagesInv'
    OBVIOUS
  <2>1. /\ Len(audit) \in Nat /\ Len(audit') \in Nat /\ Len(audit') >= Len(audit)
        /\ DOMAIN audit = 1..Len(audit)
    BY AuditGrows, AuditLen, Components
  <2>2. /\ Len(history) \in Nat /\ Len(history') \in Nat /\ Len(history') >= Len(history)
        /\ DOMAIN history = 1..Len(history)
    <3>1. Len(history) \in Nat /\ DOMAIN history = 1..Len(history)
      BY DEF GovernanceInv
    <3> QED
      BY <3>1, HistoryGrows, GovernanceApart DEF governanceVars
  <2>3. ASSUME list' = list PROVE PagesInv'
    <3>1. ListLen' >= ListLen /\ ListLen' \in Nat /\ ListLen \in Nat
      BY <2>1, <2>2, <2>3 DEF ListLen
    <3>2. list.page \in Nat /\ PageSize(list.size) \in Nat /\ list.upto \in Nat
      BY PageSizeType DEF PagesInv
    <3>3. PICK a \in Nat : a = list.page * PageSize(list.size)
      BY <3>2, OnePageMore
    <3>4. \A j \in 1..list.upto : j > ListLen' - a => j > ListLen - a
      <4>1. \A j \in 1..list.upto : j \in Nat
        BY <3>2
      <4> QED
        BY <3>1, <4>1, PositionsMove
    <3>5. \A j \in 1..list'.upto : j > ListLen' - list'.page * PageSize(list'.size) => j \in list'.seen
      BY <2>3, <3>3, <3>4 DEF PagesInv
    <3>6. list.page > 0 => list.of \in {"audit", "history"} /\ list.upto <= ListLen'
      BY <3>1, <3>2 DEF PagesInv
    <3> QED
      BY <2>3, <3>5, <3>6 DEF PagesInv, PagesSkipNothing
  <2>4. ASSUME NEW size \in PageSizes, AdminAuditList(size) PROVE PagesInv'
    <3>1. ReadPage("audit", audit, size) /\ audit' = audit /\ size \in Int
      BY <2>4, GovernanceAssumption DEF AdminAuditList, ReadPage, Quietly
    <3>2. (list.page > 0 => list.of = "audit") /\ list'.of = "audit"
      BY <3>1 DEF ReadPage
    <3> QED
      BY <2>1, <3>1, <3>2, NextPage DEF ListLen
  <2>5. ASSUME NEW size \in PageSizes, AdminAgentConfigHistory(size) PROVE PagesInv'
    <3>1. ReadPage("history", history, size) /\ history' = history /\ size \in Int
      BY <2>5, GovernanceAssumption DEF AdminAgentConfigHistory, ReadPage, governed
    <3>2. (list.page > 0 => list.of = "history") /\ list'.of = "history"
      BY <3>1 DEF ReadPage
    <3> QED
      BY <2>2, <3>1, <3>2, NextPage DEF ListLen
  <2>6. ASSUME NEW w \in Workers, GovernanceStep(w) \/ ActionFails(w) PROVE list' = list
    BY <2>6, ActionsThatRead, ActionsThatWrite DEF GovernanceStep, governanceVars
  <2>7. ASSUME NEW w \in Workers, NEW q, BeginAction(w, q) PROVE list' = list
    BY <2>7 DEF BeginAction
  <2> QED
    BY <2>3, <2>4, <2>5, <2>6, <2>7, GovernanceApart DEF GovernanceNext, governanceVars
<1>3. PagesInv => PagesSkipNothing
  BY DEF PagesInv
<1> QED
  BY ShapeHolds, GovernanceTypesHold, <1>1, <1>2, <1>3, PTL DEF Spec

-----------------------------------------------------------------------------
(* Search *)

(* Of messages there is always one that no other is later than.            *)
LEMMA LatestHit ==
  ASSUME messages \in Seq(Archived), NEW S \in SUBSET DOMAIN messages, S # {}
  PROVE  \E i \in S : {j \in S : Later(j, i)} = {}
<1> DEFINE times == {messages[j].at : j \in S}
<1>1. \A j \in S : j \in 1..Len(messages) /\ messages[j].at \in 0..Hours
  <2>1. \A j \in S : j \in 1..Len(messages) /\ messages[j] \in Archived
    OBVIOUS
  <2> QED
    BY <2>1 DEF Archived
<1>2. Hours \in Nat
  BY StatisticsAssumption
<1>3. times \in SUBSET Nat /\ times # {} /\ \A t \in times : t <= Hours
  BY <1>1, <1>2
<1>4. PICK m \in times : \A t \in times : t <= m
  <2> HIDE DEF times
  <2> QED
    BY <1>2, <1>3, Largest
<1> DEFINE last == {j \in S : messages[j].at = m}
<1>5. Len(messages) \in Nat
  OBVIOUS
<1>6. last \in SUBSET Nat /\ last # {} /\ \A j \in last : j <= Len(messages)
  BY <1>1, <1>4, <1>5
<1>7. PICK i \in last : \A j \in last : j <= i
  <2> HIDE DEF last
  <2> QED
    BY <1>5, <1>6, Largest
<1>8. \A j \in S : messages[j].at <= m
  BY <1>4
<1>9. i \in S /\ messages[i].at = m /\ \A j \in S : messages[j].at = m => j <= i
  BY <1>7
<1>10. ASSUME NEW j \in S, Later(j, i) PROVE FALSE
  <2>1. messages[j].at \in Nat /\ messages[i].at \in Nat /\ i \in Nat /\ j \in Nat
    BY <1>1, <1>2, <1>9
  <2> QED
    BY <1>8, <1>9, <1>10, <2>1 DEF Later
<1> QED
  BY <1>9, <1>10

(* A first page of hits is empty only where nothing matched.               *)
LEMMA FirstPageHasHits ==
  ASSUME messages \in Seq(Archived), NEW S \in SUBSET DOMAIN messages, S # {},
         NEW size \in Nat \ {0}
  PROVE  Hits(S, 0, size) # {}
<1>1. PICK i \in S : {j \in S : Later(j, i)} = {}
  BY LatestHit
<1>2. Cardinality({j \in S : Later(j, i)}) = 0
  BY <1>1, FS_EmptySet
<1>3. 0 \in 0..(0 + size - 1)
  OBVIOUS
<1>4. i \in Hits(S, 0, size)
  BY <1>2, <1>3 DEF Hits
<1> QED
  BY <1>4

(* What a search answers, from the index or from the store.                *)
LEMMA SearchAnswers ==
  ASSUME SearchInv, NEW w \in Workers, req[w] \in SearchRequests,
         messages' = messages, indexed' = indexed,
         NEW matched, matched \subseteq InRoom(req[w].room),
         matched = {} => Matching(req[w].room) = {}, Answers(w, matched)
  PROVE  found' # NoSearch => found'.upto \in 0..Len(messages') /\ SearchFindsStored'
<1>1. PICK q \in SearchRequests : q = req[w]
  OBVIOUS
<1>2. found' = [from |-> q.from, room |-> q.room, upto |-> Len(messages),
                hits |-> Hits(matched, q.from, q.size)]
  BY <1>1 DEF Answers
<1>3. q.from \in Nat /\ q.size \in Nat \ {0}
  BY DEF SearchRequests
<1>4. messages \in Seq(Archived)
  BY DEF SearchInv
<1>5. InRoom(q.room) \subseteq DOMAIN messages
  BY DEF InRoom
<1>6. Hits(matched, q.from, q.size) \subseteq InRoom(q.room)
  BY <1>1 DEF Hits
<1>7. ASSUME q.from = 0, Hits(matched, q.from, q.size) = {} PROVE Matching(q.room) = {}
  <2>1. matched \in SUBSET DOMAIN messages
    BY <1>1, <1>5
  <2>2. matched = {}
    BY <1>3, <1>4, <1>7, <2>1, FirstPageHasHits
  <2> QED
    BY <1>1, <2>2
<1>8. found'.room = q.room /\ found'.from = q.from /\ found'.upto = Len(messages)
      /\ found'.hits = Hits(matched, q.from, q.size)
  BY <1>2
<1>9. InRoom(q.room)' = InRoom(q.room) /\ Matching(q.room)' = Matching(q.room)
  BY DEF InRoom, Matching
<1>10. Len(messages) \in Nat
  BY <1>4
<1> HIDE DEF Hits
<1> QED
  BY <1>6, <1>7, <1>8, <1>9, <1>10 DEF SearchFindsStored

(* A step that leaves the answer given last alone.                         *)
LEMMA SearchKept ==
  ASSUME SearchInv, found' = found,
         messages' = messages \/ \E m \in Archived : messages' = Append(messages, m)
  PROVE  /\ messages' \in Seq(Archived) /\ DOMAIN messages \subseteq DOMAIN messages'
         /\ found' # NoSearch => found'.upto \in 0..Len(messages') /\ SearchFindsStored'
<1>1. CASE messages' = messages
  BY <1>1 DEF SearchInv, SearchFindsStored, InRoom, Matching
<1>2. ASSUME NEW m \in Archived, messages' = Append(messages, m)
      PROVE  /\ messages' \in Seq(Archived) /\ DOMAIN messages \subseteq DOMAIN messages'
             /\ found' # NoSearch => found'.upto \in 0..Len(messages') /\ SearchFindsStored'
  <2>1. messages \in Seq(Archived)
    BY DEF SearchInv
  <2>2. PICK n \in Nat : n = Len(messages) /\ DOMAIN messages = 1..n
    BY <2>1
  <2>3. /\ messages' \in Seq(Archived) /\ Len(messages') = n + 1 /\ DOMAIN messages' = 1..(n + 1)
        /\ \A i \in 1..n : messages'[i] = messages[i]
    BY <1>2, <2>1, <2>2
  <2>4. \A r : /\ InRoom(r) \subseteq InRoom(r)'
               /\ \A i \in Matching(r)' : i \in Matching(r) \/ i = n + 1
    BY <2>2, <2>3 DEF InRoom, Matching
  <2>5. DOMAIN messages \subseteq DOMAIN messages'
    BY <2>2, <2>3
  <2>6. ASSUME found # NoSearch PROVE found'.upto \in 0..Len(messages') /\ SearchFindsStored'
    <3>1. found.upto \in 0..n /\ SearchFindsStored
      BY <2>2, <2>6 DEF SearchInv
    <3>2. InRoom(found.room) \subseteq InRoom(found.room)'
          /\ \A i \in Matching(found.room)' : i \in Matching(found.room) \/ i = n + 1
      BY <2>4
    <3>3. found.upto \in 0..(n + 1) /\ n + 1 > found.upto
      BY <3>1
    <3> QED
      BY <2>3, <2>6, <3>1, <3>2, <3>3 DEF SearchFindsStored
  <2> QED
    BY <2>3, <2>5, <2>6
<1> QED
  BY <1>1, <1>2

(* A first page that is empty comes from the store, which an index without *)
(* a hit sends the handler to, so no message of the archive held the       *)
(* keyword then.  An index that has some of the matching messages answers  *)
(* for all of them, and of those it lacks this says nothing.               *)
THEOREM SearchFindsStoredHolds == Spec => []SearchFindsStored
<1>1. Init => SearchInv
  <2> SUFFICES ASSUME Init PROVE SearchInv
    OBVIOUS
  <2>1. /\ messages = << >> /\ indexed = {} /\ found = NoSearch
        /\ req = [w \in Workers |-> Idle]
    BY DEF Init, ViewsInit, StatisticsInit, RequestsInit
  <2> QED
    BY <2>1 DEF SearchInv, SearchFindsStored, Searching
<1>2. Shape /\ LoadInv /\ SearchInv /\ [Next]_vars => SearchInv'
  <2> SUFFICES ASSUME Shape, LoadInv, SearchInv, [Next]_vars PROVE SearchInv'
    OBVIOUS
  <2> DEFINE Requests == \A w \in Workers : Searching(req'[w]) => req'[w] \in SearchRequests
             Same == messages' = messages /\ indexed' = indexed /\ found' = found
             Found == found' # NoSearch => found'.upto \in 0..Len(messages') /\ SearchFindsStored'
  <2>0. ASSUME Requests, Found, messages' \in Seq(Archived), indexed' \subseteq DOMAIN messages'
        PROVE  SearchInv'
    <3>1. SearchFindsStored'
      BY <2>0 DEF SearchFindsStored
    <3> QED
      BY <2>0, <3>1 DEF SearchInv
  <2>1. ASSUME NEW ops, {"search"} \cap ops = {}, Leaves(ops), UNCHANGED viewVars PROVE SearchInv'
    <3>1. Requests
      BY <2>1 DEF Leaves, Mine, Searching, SearchInv
    <3>2. messages' = messages /\ indexed' = indexed /\ found' = found
      BY <2>1 DEF viewVars, archive
    <3> QED
      BY <2>0, <3>1, <3>2, SearchKept DEF SearchInv
  <2>2. ASSUME NEW w \in Workers, req[w] # Idle, req[w].op = "search", Return(w) \/ (\E at : Go(w, at) /\ at \in {"index", "store"})
        PROVE  Requests
    <3>1. req[w] \in SearchRequests
      BY <2>2 DEF SearchInv, Searching
    <3>2. CASE Return(w)
      BY <3>2 DEF Return, Searching, SearchInv, Shape
    <3>3. ASSUME NEW at \in {"index", "store"}, Go(w, at) PROVE Requests
      <4>1. [req[w] EXCEPT !.at = at] \in SearchRequests
        BY <3>1 DEF SearchRequests
      <4>2. req' = [req EXCEPT ![w] = [req[w] EXCEPT !.at = at]]
        BY <3>3 DEF Go
      <4> QED
        BY <4>1, <4>2 DEF Searching, SearchInv, Shape
    <3> QED
      BY <2>2, <3>2, <3>3
  <2>3. ASSUME NEW w \in Workers, SearchStep(w) \/ SearchFails(w) PROVE SearchInv'
    <3>1. req[w] # Idle /\ req[w].op = "search" /\ req[w] \in SearchRequests
      BY <2>3 DEF SearchStep, SearchFails, CheckIsMember, QueryIndex, QueryStore, Doing, SearchInv, Searching
    <3>2. messages' = messages /\ indexed' = indexed
      BY <2>3 DEF SearchStep, SearchFails, CheckIsMember, QueryIndex, QueryStore, viewVars, archive
    <3>3. Return(w) \/ (\E at : Go(w, at) /\ at \in {"index", "store"})
      BY <2>3 DEF SearchStep, SearchFails, CheckIsMember, QueryIndex, QueryStore, Answers
    <3>4. CASE found' = found
      BY <2>0, <2>2, <3>1, <3>2, <3>3, <3>4, SearchKept DEF SearchInv
    <3>5. CASE \E matched \in Matches(w) : matched # {} /\ Answers(w, matched)
      <4>1. PICK matched \in Matches(w) : matched # {} /\ Answers(w, matched)
        BY <3>5
      <4>2. matched \subseteq InRoom(req[w].room)
        BY DEF Matches
      <4>3. Found
        BY <3>1, <3>2, <4>1, <4>2, SearchAnswers
      <4> QED
        BY <2>0, <2>2, <3>1, <3>2, <3>3, <4>3 DEF SearchInv
    <3>6. CASE Answers(w, Matching(req[w].room))
      <4>1. Matching(req[w].room) \subseteq InRoom(req[w].room)
        BY DEF Matching
      <4>2. Found
        BY <3>1, <3>2, <3>6, <4>1, SearchAnswers
      <4> QED
        BY <2>0, <2>2, <3>1, <3>2, <3>3, <4>2 DEF SearchInv
    <3>7. found' = found \/ Answers(w, Matching(req[w].room))
          \/ \E matched \in Matches(w) : matched # {} /\ Answers(w, matched)
      BY <2>3 DEF SearchStep, SearchFails, CheckIsMember, QueryIndex, QueryStore, viewVars
    <3> QED
      BY <3>4, <3>5, <3>6, <3>7
  <2>4. ASSUME NEW w \in Workers, NEW r \in load.rooms, NEW u \in Users, NEW from \in {-1, 1},
               NEW size \in SearchSizes, BeginSearch(w, r, u, from, size)
        PROVE  SearchInv'
    <3>0. load.rooms \subseteq RoomIds
      BY RoomsAssumption DEF LoadInv
    <3>1. size \in Int
      BY ViewsAssumption
    <3>2. SearchRequest(r, u, from, size) \in SearchRequests
      BY <2>4, <3>0, <3>1 DEF SearchRequest, SearchRequests
    <3>3. req' = [req EXCEPT ![w] = SearchRequest(r, u, from, size)]
      BY <2>4 DEF BeginSearch, Arrives
    <3>4. Requests
      BY <3>2, <3>3 DEF Shape, SearchInv, Searching
    <3>5. messages' = messages /\ indexed' = indexed /\ found' = found
      BY <2>4 DEF BeginSearch, viewVars, archive
    <3> QED
      BY <2>0, <3>4, <3>5, SearchKept DEF SearchInv
  <2>5. ASSUME NEW m \in ToArchive, ArchiveMessage(m), UNCHANGED <<indexed, found>> PROVE SearchInv'
    <3>1. m \in Archived
      BY DEF ToArchive
    <3>2. Requests
      BY <2>5 DEF ArchiveMessage, SearchInv
    <3>3. messages' = Append(messages, m)
      BY <2>5 DEF ArchiveMessage
    <3> QED
      BY <2>0, <2>5, <3>1, <3>2, <3>3, SearchKept DEF SearchInv
  <2>6. ASSUME IndexMessage PROVE SearchInv'
    <3>1. /\ messages' = messages /\ found' = found /\ req' = req
          /\ indexed' = indexed \cup {Len(messages)} /\ messages # << >>
      BY <2>6 DEF IndexMessage, archive
    <3>2. Len(messages) \in DOMAIN messages
      BY <3>1 DEF SearchInv
    <3>3. Requests
      BY <3>1 DEF SearchInv
    <3> QED
      BY <2>0, <3>1, <3>2, <3>3, SearchKept DEF SearchInv
  <2> QED
    <3>1. CASE ViewsNext
      BY <2>3, <2>4, <2>5, <2>6, <3>1 DEF ViewsNext
    <3>2. ViewsNext \/ (UNCHANGED viewVars /\ \E ops : {"search"} \cap ops = {} /\ Leaves(ops))
      <4>1. CASE UNCHANGED vars /\ Leaves({})
        BY <4>1 DEF vars, chatVars
      <4> QED
        BY <4>1, Components, OpsDisjoint DEF RoomsOnly, PresenceOnly, GovernanceOnly, ViewsOnly, LoginOnly,
           FilesOnly, chatVars
    <3> QED
      BY <2>1, <3>1, <3>2
<1>3. SearchInv => SearchFindsStored
  BY DEF SearchInv
<1> QED
  BY ShapeHolds, LoadHolds, <1>1, <1>2, <1>3, PTL DEF Spec

-----------------------------------------------------------------------------
(* Sums.  Sum takes the elements of a set one by one.                      *)
Taken(s) == CHOOSE x \in s : TRUE

(* g sums up f over every set of S.                                        *)
SumsUp(g, f, S) ==
    g = [s \in S |-> IF s = {} THEN 0 ELSE f[Taken(s)] + g[s \ {Taken(s)}]]

UpTo(D, n) == {s \in SUBSET D : Cardinality(s) <= n}

(* What is left of a set of n elements has one less.                       *)
LEMMA OneLess ==
  ASSUME NEW D, IsFiniteSet(D), NEW s \in SUBSET D
  PROVE  /\ IsFiniteSet(s) /\ Cardinality(s) \in Nat
         /\ s = {} <=> Cardinality(s) = 0
         /\ s # {} => /\ Taken(s) \in s /\ s \ {Taken(s)} \in SUBSET D
                      /\ Cardinality(s \ {Taken(s)}) = Cardinality(s) - 1
<1>1. IsFiniteSet(s) /\ Cardinality(s) \in Nat
  BY FS_Subset, FS_CardinalityType
<1>2. s = {} <=> Cardinality(s) = 0
  BY <1>1, FS_EmptySet
<1>3. ASSUME s # {} PROVE Taken(s) \in s
  BY <1>3 DEF Taken
<1>4. ASSUME s # {} PROVE Cardinality(s \ {Taken(s)}) = Cardinality(s) - 1
  BY <1>1, <1>3, <1>4, FS_RemoveElement
<1> QED
  BY <1>1, <1>2, <1>3, <1>4

(* There is a function that sums up f over the sets of at most n elements: *)
(* if not, take the smallest n without.                                    *)
LEMMA SumsExist ==
  ASSUME NEW D, IsFiniteSet(D), NEW f
  PROVE  \A n \in Nat : \E g : SumsUp(g, f, UpTo(D, n))
<1> DEFINE Lacking == {n \in Nat : ~\E g : SumsUp(g, f, UpTo(D, n))}
<1> SUFFICES ASSUME Lacking # {} PROVE FALSE
  OBVIOUS
<1>1. PICK m \in Lacking : \A k \in Lacking : m <= k
  <2> HIDE DEF Lacking
  <2>1. Lacking \in SUBSET Nat
    BY DEF Lacking
  <2> QED
    BY <2>1, Smallest
<1>2. CASE m = 0
  <2> DEFINE g == [s \in UpTo(D, m) |-> 0]
  <2>1. \A s \in UpTo(D, m) : s = {}
    <3>1. ASSUME NEW s \in UpTo(D, m) PROVE s = {}
      <4>1. s \in SUBSET D /\ Cardinality(s) <= 0
        BY <1>2 DEF UpTo
      <4>2. Cardinality(s) \in Nat /\ (s = {} <=> Cardinality(s) = 0)
        BY <4>1, OneLess
      <4> QED
        BY <4>1, <4>2
    <3> QED
      BY <3>1
  <2>2. SumsUp(g, f, UpTo(D, m))
    BY <2>1 DEF SumsUp
  <2> QED
    BY <1>1, <2>2
<1>3. CASE m # 0
  <2>1. m \in Nat /\ m - 1 \in Nat /\ m - 1 \notin Lacking
    BY <1>1, <1>3
  <2>2. PICK g : SumsUp(g, f, UpTo(D, m - 1))
    BY <2>1
  <2> DEFINE h == [s \in UpTo(D, m) |-> IF s = {} THEN 0 ELSE f[Taken(s)] + g[s \ {Taken(s)}]]
  <2>3. ASSUME NEW s \in UpTo(D, m), s # {}
        PROVE  s \ {Taken(s)} \in UpTo(D, m - 1) /\ s \ {Taken(s)} \in UpTo(D, m)
    <3>1. s \in SUBSET D /\ Cardinality(s) <= m
      BY DEF UpTo
    <3>2. /\ Cardinality(s) \in Nat /\ s \ {Taken(s)} \in SUBSET D
          /\ Cardinality(s \ {Taken(s)}) = Cardinality(s) - 1
      BY <2>3, <3>1, OneLess
    <3>3. Cardinality(s \ {Taken(s)}) <= m - 1 /\ Cardinality(s \ {Taken(s)}) <= m
      BY <2>1, <3>1, <3>2
    <3> QED
      BY <3>2, <3>3 DEF UpTo
  <2>4. ASSUME NEW s \in UpTo(D, m - 1), s \in UpTo(D, m) PROVE h[s] = g[s]
    BY <2>2, <2>4 DEF SumsUp
  <2>5. ASSUME NEW s \in UpTo(D, m), s # {} PROVE h[s \ {Taken(s)}] = g[s \ {Taken(s)}]
    <3> HIDE DEF h
    <3> QED
      BY <2>3, <2>4, <2>5
  <2>6. h = [s \in UpTo(D, m) |-> IF s = {} THEN 0 ELSE f[Taken(s)] + h[s \ {Taken(s)}]]
    BY <2>5
  <2>7. SumsUp(h, f, UpTo(D, m))
    BY <2>6 DEF SumsUp
  <2> QED
    BY <1>1, <2>7
<1> QED
  BY <1>2, <1>3

(* Sum is the value of such a function.                                    *)
LEMMA SumSumsUp ==
  ASSUME NEW f, IsFiniteSet(DOMAIN f)
  PROVE  \E g : SumsUp(g, f, SUBSET DOMAIN f) /\ Sum(f) = g[DOMAIN f]
<1> DEFINE D == DOMAIN f
           g == CHOOSE g : SumsUp(g, f, SUBSET D)
<1>1. Cardinality(D) \in Nat
  BY FS_CardinalityType
<1>2. UpTo(D, Cardinality(D)) = SUBSET D
  BY FS_Subset DEF UpTo
<1>3. SumsUp(g, f, SUBSET D)
  <2>1. \E x : SumsUp(x, f, SUBSET D)
    <3>1. IsFiniteSet(D)
      OBVIOUS
    <3> HIDE DEF D
    <3>2. \A n \in Nat : \E x : SumsUp(x, f, UpTo(D, n))
      BY <3>1, SumsExist
    <3> QED
      BY <1>1, <1>2, <3>2
  <2> QED
    BY <2>1
<1>4. Sum(f) = g[D]
  BY DEF Sum, Ext!MapThenSumSet, Ext!MapThenFoldSet, SumsUp, Taken
<1> QED
  BY <1>3, <1>4

(* The counts of some keys sum up to the count of what has one of them.    *)
LEMMA SumOfCounts ==
  ASSUME NEW ids, IsFiniteSet(ids), NEW key, NEW P, IsFiniteSet(P)
  PROVE  Sum([k \in P |-> Cardinality({i \in ids : key[i] = k})]) = Cardinality({i \in ids : key[i] \in P})
<1> DEFINE f == [k \in P |-> Cardinality({i \in ids : key[i] = k})]
           In(s) == {i \in ids : key[i] \in s}
           Wrong(g) == {s \in SUBSET P : g[s] # Cardinality(In(s))}
<1>1. DOMAIN f = P
  OBVIOUS
<1>2. PICK g : SumsUp(g, f, SUBSET P) /\ Sum(f) = g[P]
  <2> HIDE DEF f
  <2> QED
    BY <1>1, SumSumsUp
<1> DEFINE Sizes == {Cardinality(s) : s \in Wrong(g)}
<1>3. SUFFICES ASSUME Wrong(g) # {} PROVE FALSE
  BY <1>2
<1>4. \A s \in SUBSET P : Cardinality(s) \in Nat
  BY OneLess
<1>5. PICK t \in Wrong(g) : \A s \in Wrong(g) : Cardinality(t) <= Cardinality(s)
  <2>1. Sizes \in SUBSET Nat /\ Sizes # {}
    BY <1>3, <1>4
  <2>2. PICK m \in Sizes : \A k \in Sizes : m <= k
    <3> HIDE DEF Sizes
    <3> QED
      BY <2>1, Smallest
  <2>3. PICK t \in Wrong(g) : m = Cardinality(t)
    OBVIOUS
  <2>4. ASSUME NEW s \in Wrong(g) PROVE Cardinality(t) <= Cardinality(s)
    BY <2>2, <2>3
  <2> QED
    BY <2>4
<1>6. t \in SUBSET P /\ g[t] # Cardinality(In(t))
  OBVIOUS
<1>7. g[t] = IF t = {} THEN 0 ELSE f[Taken(t)] + g[t \ {Taken(t)}]
  BY <1>2, <1>6 DEF SumsUp
<1>8. CASE t = {}
  <2>1. In(t) = {}
    BY <1>8
  <2> QED
    BY <1>6, <1>7, <1>8, <2>1, FS_EmptySet
<1>9. CASE t # {}
  <2> DEFINE k == Taken(t)
             u == t \ {k}
  <2>1. /\ k \in t /\ u \in SUBSET P /\ Cardinality(u) = Cardinality(t) - 1
        /\ Cardinality(u) \in Nat /\ Cardinality(t) \in Nat
    BY <1>4, <1>6, <1>9, OneLess
  <2>2. u \notin Wrong(g)
    <3> HIDE DEF u, k, Wrong
    <3> QED
      BY <1>5, <2>1
  <2>3. g[u] = Cardinality(In(u))
    BY <2>1, <2>2
  <2>4. f[k] = Cardinality({i \in ids : key[i] = k})
    BY <1>6, <2>1
  <2>5. In(t) = In(u) \cup {i \in ids : key[i] = k} /\ In(u) \cap {i \in ids : key[i] = k} = {}
    BY <2>1
  <2>6. IsFiniteSet(In(u)) /\ IsFiniteSet({i \in ids : key[i] = k})
    BY FS_Subset
  <2>7. Cardinality(In(t)) = Cardinality(In(u)) + Cardinality({i \in ids : key[i] = k})
    <3> DEFINE a == In(u)
               b == {i \in ids : key[i] = k}
               c == In(t)
    <3>1. c = a \cup b /\ a \cap b = {} /\ IsFiniteSet(a) /\ IsFiniteSet(b)
      BY <2>5, <2>6
    <3> HIDE DEF a, b, c
    <3>2. Cardinality(a \cup b) = Cardinality(a) + Cardinality(b) - Cardinality(a \cap b)
      BY <3>1, FS_Union
    <3>3. Cardinality(a) \in Nat /\ Cardinality(b) \in Nat /\ Cardinality(a \cap b) = 0
      BY <3>1, FS_CardinalityType, FS_EmptySet
    <3>4. Cardinality(c) = Cardinality(a) + Cardinality(b)
      BY <3>1, <3>2, <3>3
    <3> QED
      BY <3>4 DEF a, b, c
  <2>8. Cardinality(In(u)) \in Nat /\ Cardinality({i \in ids : key[i] = k}) \in Nat
    BY <2>6, FS_CardinalityType
  <2>9. g[t] = f[k] + g[u]
    BY <1>7, <1>9
  <2> HIDE DEF f, k, u, In
  <2> QED
    BY <1>6, <2>3, <2>4, <2>7, <2>8, <2>9
<1> QED
  BY <1>8, <1>9

(* The keys of finitely many things are no more than these.                *)
LEMMA KeysOf ==
  ASSUME NEW ids, IsFiniteSet(ids), NEW key
  PROVE  /\ IsFiniteSet({key[i] : i \in ids})
         /\ Cardinality({key[i] : i \in ids}) <= Cardinality(ids)
         /\ Cardinality({key[i] : i \in ids}) \in Nat /\ Cardinality(ids) \in Nat
<1> DEFINE keys == {key[i] : i \in ids}
           f == [i \in ids |-> key[i]]
<1>1. f \in Surjection(ids, keys)
  BY DEF Surjection
<1>2. IsFiniteSet(keys) /\ Cardinality(keys) <= Cardinality(ids)
  <2> HIDE DEF f, keys
  <2> QED
    BY <1>1, FS_Surjection
<1>3. Cardinality(keys) \in Nat /\ Cardinality(ids) \in Nat
  <2> HIDE DEF keys
  <2> QED
    BY <1>2, FS_CardinalityType
<1> QED
  BY <1>2, <1>3

(* What has a key, counted by its keys.                                    *)
CountBy(ids, key) == [k \in {key[i] : i \in ids} |-> Cardinality({i \in ids : key[i] = k})]

(* It is counted once.                                                     *)
LEMMA GroupsAddUp ==
  ASSUME NEW ids, IsFiniteSet(ids), NEW key
  PROVE  Sum(CountBy(ids, key)) = Cardinality(ids)
<1> DEFINE keys == {key[i] : i \in ids}
<1>1. {i \in ids : key[i] \in keys} = ids
  OBVIOUS
<1>2. IsFiniteSet(keys)
  BY KeysOf
<1>3. Sum([k \in keys |-> Cardinality({i \in ids : key[i] = k})]) = Cardinality({i \in ids : key[i] \in keys})
  <2> HIDE DEF keys
  <2> QED
    BY <1>2, SumOfCounts
<1> QED
  BY <1>1, <1>3 DEF CountBy

-----------------------------------------------------------------------------
(* Files *)

FileOK(q) == q \in FileRequestTypes /\ (q.op \notin {"scan", "cleanup"} => q.key \in Keys)

(* Every other step leaves the files and the requests about them alone.    *)
LEMMA FilesApart ==
  ASSUME Shape, [Next]_vars
  PROVE  \/ FilesNext
         \/ UNCHANGED fileVars /\ \E ops : FileOps \cap ops = {} /\ Leaves(ops)
<1>1. CASE UNCHANGED vars /\ Leaves({})
  BY <1>1 DEF vars
<1> QED
  BY <1>1, Components, OpsDisjoint DEF RoomsOnly, PresenceOnly, GovernanceOnly, ViewsOnly, LoginOnly,
     FilesOnly

(* A request on files begins with its first check.                         *)
LEMMA FileRequestBegins ==
  ASSUME FilesInv, NEW q \in FileRequests
  PROVE  FileOK(q) /\ OfFile(q) /\ q.at \in {"member", "find", "records"} /\ q.orphans = {}
<1>1. ASSUME NEW op \in FileOps, NEW k \in Keys \cup {AnyKey}, NEW at \in {"member", "find", "records"},
             op \notin {"scan", "cleanup"} => k \in Keys, q = FileRequest(op, k, at)
      PROVE  FileOK(q) /\ OfFile(q) /\ q.at \in {"member", "find", "records"} /\ q.orphans = {}
  BY <1>1 DEF FileRequest, FileOK, FileRequestTypes, OfFile, Idle, FileOps
<1>2. \A k \in signed : k \in Keys
  BY DEF FilesInv
<1>3. \A op \in {"complete", "download", "admin_download", "delete_file", "scan", "cleanup"} : op \in FileOps
  BY DEF FileOps
<1>4. CASE q \in {CompleteUpload(k) : k \in signed}
  BY <1>1, <1>2, <1>3, <1>4 DEF CompleteUpload
<1>5. CASE q \in {DownloadFile(k) : k \in Keys}
  BY <1>1, <1>3, <1>5 DEF DownloadFile
<1>6. CASE q \in {AdminFileDownload(k) : k \in Keys}
  BY <1>1, <1>3, <1>6 DEF AdminFileDownload
<1>7. CASE q \in {AdminFileDelete(k) : k \in Keys}
  BY <1>1, <1>3, <1>7 DEF AdminFileDelete
<1>8. CASE q \in {AdminFileScan, AdminFileCleanup}
  BY <1>1, <1>3, <1>8 DEF AdminFileScan, AdminFileCleanup
<1> QED
  BY <1>4, <1>5, <1>6, <1>7, <1>8 DEF FileRequests

(* What each step makes of its request.                                    *)
LEMMA FileSteps ==
  ASSUME Shape, FilesInv, NEW w \in Workers, FileStep(w) \/ FileFails(w)
  PROVE  /\ OfFile(req[w]) /\ FileOK(req[w])
         /\ \A x \in Workers : x # w => req'[x] = req[x]
         /\ req'[w] # Idle => /\ OfFile(req'[w]) /\ FileOK(req'[w])
                              /\ req'[w].op = req[w].op /\ req'[w].key = req[w].key
<1>1. OfFile(req[w]) /\ FileOK(req[w])
  BY DEF FileStep, FileFails, FindRecord, CreateRecord, SaveRecord, FindDownload, GetDownloadURL,
     GetFile, DeleteRecord, DeleteObject, DeleteObjectFails, LogDelete, ScanRecords, ScanStats,
     ScanStatFails, ScanObjects, CleanOrphan, CleanFails, CleanupEnds, MayComplete, Doing, FileOps,
     OfFile, FileOK, FilesInv
<1>2. DOMAIN req[w] = {"op", "key", "id", "known", "orphans", "cleaned", "at"}
  BY <1>1 DEF FileOK, FileRequestTypes
<1> DEFINE Conclusion == /\ \A x \in Workers : x # w => req'[x] = req[x]
                         /\ req'[w] # Idle => /\ OfFile(req'[w]) /\ FileOK(req'[w])
                                              /\ req'[w].op = req[w].op /\ req'[w].key = req[w].key
<1>3. ASSUME Return(w) PROVE Conclusion
  BY <1>3 DEF Return, Shape
<1>4. ASSUME NEW q, req' = [req EXCEPT ![w] = q], FileOK(q), q.op = req[w].op, q.key = req[w].key
      PROVE  Conclusion
  BY <1>1, <1>4 DEF Shape, OfFile
<1>5. ASSUME NEW at \in {"find", "url", "delete", "log", "objects"}, Go(w, at) PROVE Conclusion
  <2> DEFINE q == [req[w] EXCEPT !.at = at]
  <2>1. req' = [req EXCEPT ![w] = q]
    BY <1>5 DEF Go
  <2>2. FileOK(q) /\ q.op = req[w].op /\ q.key = req[w].key
    BY <1>1, <1>2 DEF FileOK, FileRequestTypes
  <2> HIDE DEF q
  <2> QED
    BY <1>4, <2>1, <2>2
<1>6. ASSUME FindRecord(w) PROVE Conclusion
  <2> DEFINE id == record[req[w].key]
             q == [req[w] EXCEPT !.id = id, !.at = IF id = 0 THEN "create" ELSE "save"]
  <2>1. req' = [req EXCEPT ![w] = q] /\ req[w].op = "complete"
    BY <1>6 DEF FindRecord, Doing
  <2>2. id \in Nat
    BY <1>1, <2>1 DEF FileOK, FilesInv
  <2>3. FileOK(q) /\ q.op = req[w].op /\ q.key = req[w].key
    BY <1>1, <1>2, <2>2 DEF FileOK, FileRequestTypes
  <2> HIDE DEF q
  <2> QED
    BY <1>4, <2>1, <2>3
<1>7. ASSUME GetFile(w) PROVE Conclusion
  <2>1. CASE record[req[w].key] = 0
    BY <1>3, <1>7, <2>1 DEF GetFile
  <2>2. CASE record[req[w].key] # 0
    <3> DEFINE q == [req[w] EXCEPT !.id = record[req[w].key], !.at = "unrecord"]
    <3>1. req' = [req EXCEPT ![w] = q] /\ req[w].op = "delete_file"
      BY <1>7, <2>2 DEF GetFile, Doing
    <3>2. record[req[w].key] \in Nat
      BY <1>1, <3>1 DEF FileOK, FilesInv
    <3>3. FileOK(q) /\ q.op = req[w].op /\ q.key = req[w].key
      BY <1>1, <1>2, <3>2 DEF FileOK, FileRequestTypes
    <3> HIDE DEF q
    <3> QED
      BY <1>4, <3>1, <3>3
  <2> QED
    BY <2>1, <2>2
<1>8. ASSUME ScanRecords(w) PROVE Conclusion
  <2> DEFINE q == [req[w] EXCEPT !.known = KnownKeys, !.at = "stats"]
  <2>1. req' = [req EXCEPT ![w] = q]
    BY <1>8 DEF ScanRecords
  <2>2. KnownKeys \subseteq Keys
    BY DEF KnownKeys, Newest, Recorded
  <2>3. FileOK(q) /\ q.op = req[w].op /\ q.key = req[w].key
    BY <1>1, <1>2, <2>2 DEF FileOK, FileRequestTypes
  <2> HIDE DEF q
  <2> QED
    BY <1>4, <2>1, <2>3
<1>9. ASSUME ScanObjects(w) PROVE Conclusion
  <2>1. CASE req[w].op = "scan"
    BY <1>3, <1>9, <2>1 DEF ScanObjects
  <2>2. CASE req[w].op # "scan"
    <3> DEFINE q == [req[w] EXCEPT !.at = "clean", !.orphans = ListObjects(ObjectLimit) \ req[w].known]
    <3>1. req' = [req EXCEPT ![w] = q]
      BY <1>9, <2>2 DEF ScanObjects
    <3>2. ListObjects(ObjectLimit) \ req[w].known \subseteq Keys
      BY DEF ListObjects
    <3>3. FileOK(q) /\ q.op = req[w].op /\ q.key = req[w].key
      BY <1>1, <1>2, <3>2 DEF FileOK, FileRequestTypes
    <3> HIDE DEF q
    <3> QED
      BY <1>4, <3>1, <3>3
  <2> QED
    BY <2>1, <2>2
<1>10. ASSUME CleanOrphan(w) \/ CleanFails(w) PROVE Conclusion
  <2>1. PICK n \in Nat : req' = [req EXCEPT ![w] = [req[w] EXCEPT !.orphans = req[w].orphans \ {NextOrphan(w)},
                                                                  !.cleaned = n]]
    <3>1. req[w].cleaned \in Nat
      BY <1>1 DEF FileOK, FileRequestTypes
    <3>2. CASE CleanOrphan(w)
      <4>1. req' = [req EXCEPT ![w] = [req[w] EXCEPT !.orphans = req[w].orphans \ {NextOrphan(w)},
                                                     !.cleaned = req[w].cleaned + 1]]
        BY <1>2, <3>2 DEF CleanOrphan
      <4>2. req[w].cleaned + 1 \in Nat
        BY <3>1
      <4> QED
        BY <4>1, <4>2
    <3>3. CASE CleanFails(w)
      <4>1. [req[w] EXCEPT !.orphans = req[w].orphans \ {NextOrphan(w)}]
              = [req[w] EXCEPT !.orphans = req[w].orphans \ {NextOrphan(w)}, !.cleaned = req[w].cleaned]
        BY <1>1, <1>2 DEF FileOK, FileRequestTypes
      <4>2. req' = [req EXCEPT ![w] = [req[w] EXCEPT !.orphans = req[w].orphans \ {NextOrphan(w)}]]
        BY <1>2, <3>3 DEF CleanFails
      <4> QED
        BY <3>1, <4>1, <4>2
    <3> QED
      BY <1>10, <3>2, <3>3
  <2> DEFINE q == [req[w] EXCEPT !.orphans = req[w].orphans \ {NextOrphan(w)}, !.cleaned = n]
  <2>2. FileOK(q) /\ q.op = req[w].op /\ q.key = req[w].key
    BY <1>1, <1>2 DEF FileOK, FileRequestTypes
  <2>3. req' = [req EXCEPT ![w] = q]
    BY <2>1
  <2> HIDE DEF q
  <2> QED
    BY <1>4, <2>2, <2>3
<1>11. Conclusion
  BY <1>3, <1>5, <1>6, <1>7, <1>8, <1>9, <1>10 DEF FileStep, FileFails, CreateRecord, SaveRecord,
     FindDownload, GetDownloadURL, DeleteRecord, DeleteObject, DeleteObjectFails, LogDelete,
     ScanStats, ScanStatFails, CleanupEnds, MayComplete
<1> QED
  BY <1>1, <1>11

(* Every step keeps the types of files and of the requests on them.        *)
LEMMA FilesTypes ==
  ASSUME Shape, FilesInv, [Next]_vars
  PROVE  FilesInv'
<1> DEFINE Requests == \A w \in Workers : OfFile(req'[w]) => FileOK(req'[w])
           Tables == /\ signed' \subseteq Keys /\ put' \subseteq Keys
                     /\ objects' \in [Keys -> {"none", "fresh", "old"}]
                     /\ record' \in [Keys -> Nat] /\ lastId' \in Nat
<1>1. ASSUME Requests, Tables PROVE FilesInv'
  BY <1>1 DEF FilesInv, FileOK
<1>2. Tables \/ ~UNCHANGED fileVars
  BY DEF FilesInv, fileVars
<1>3. ASSUME NEW ops, FileOps \cap ops = {}, Leaves(ops) PROVE Requests
  BY <1>3 DEF Leaves, Mine, OfFile, FilesInv, FileOK
<1>4. ASSUME NEW w \in Workers, NEW q \in FileRequests, BeginFile(w, q) PROVE Requests /\ Tables
  <2>1. req' = [req EXCEPT ![w] = q] /\ UNCHANGED fileVars
    BY <1>4 DEF BeginFile, Arrives
  <2>2. FileOK(q)
    BY FileRequestBegins
  <2> QED
    BY <1>2, <2>1, <2>2 DEF Shape, FilesInv, FileOK
<1>5. ASSUME NEW k \in Keys, PreSignUpload(k) \/ Upload(k) \/ GrowOld(k) PROVE Requests /\ Tables
  <2>1. Requests
    BY <1>5 DEF PreSignUpload, Upload, GrowOld, FilesInv, FileOK
  <2>2. Tables
    BY <1>5 DEF PreSignUpload, Upload, GrowOld, FilesInv
  <2> QED
    BY <2>1, <2>2
<1>6. ASSUME NEW w \in Workers, FileStep(w) \/ FileFails(w) PROVE Requests /\ Tables
  <2>1. /\ OfFile(req[w]) /\ FileOK(req[w])
        /\ \A x \in Workers : x # w => req'[x] = req[x]
        /\ req'[w] # Idle => FileOK(req'[w])
    BY <1>6, FileSteps
  <2>2. Requests
    BY <2>1 DEF FilesInv, FileOK, OfFile
  <2>3. req[w].id \in Nat /\ (req[w].op \notin {"scan", "cleanup"} => req[w].key \in Keys)
    BY <2>1 DEF FileOK, FileRequestTypes
  <2>4. CASE CreateRecord(w) \/ SaveRecord(w)
    <3>1. \/ record' = record /\ lastId' = lastId
          \/ \E n \in Nat, m \in Nat : lastId' = m /\ record' = [record EXCEPT ![req[w].key] = n]
      BY <2>3, <2>4 DEF CreateRecord, SaveRecord, FilesInv
    <3>2. signed' = signed /\ put' = put /\ objects' = objects
      BY <2>4 DEF CreateRecord, SaveRecord
    <3> QED
      BY <2>2, <3>1, <3>2 DEF FilesInv
  <2>5. CASE DeleteRecord(w)
    <3>1. PICK n \in Nat : record' = [record EXCEPT ![req[w].key] = n]
      BY <2>3, <2>5 DEF DeleteRecord, FilesInv, Doing
    <3> QED
      BY <2>2, <2>5, <3>1 DEF DeleteRecord, FilesInv
  <2>6. CASE DeleteObject(w) \/ CleanOrphan(w)
    <3>1. \E k : objects' = [objects EXCEPT ![k] = "none"]
      BY <2>6 DEF DeleteObject, CleanOrphan, Without
    <3>2. objects' \in [Keys -> {"none", "fresh", "old"}]
      BY <3>1 DEF FilesInv
    <3> QED
      BY <2>2, <2>6, <3>2 DEF DeleteObject, CleanOrphan, FilesInv
  <2>7. CASE signed' = signed /\ put' = put /\ objects' = objects /\ record' = record /\ lastId' = lastId
    BY <2>2, <2>7 DEF FilesInv
  <2> QED
    BY <1>6, <2>4, <2>5, <2>6, <2>7 DEF FileStep, FileFails, FindRecord, FindDownload, GetDownloadURL,
       GetFile, DeleteObjectFails, LogDelete, ScanRecords, ScanStats, ScanStatFails, ScanObjects,
       CleanFails, CleanupEnds, MayComplete, fileVars
<1> QED
  BY <1>1, <1>2, <1>3, <1>4, <1>5, <1>6, FilesApart DEF FilesNext

(* Files and requests about them are of their types.                       *)
LEMMA FilesTypesHold == Spec => []FilesInv
<1>1. Init => FilesInv
  <2> SUFFICES ASSUME Init PROVE FilesInv
    OBVIOUS
  <2>1. put \subseteq Keys /\ signed = {} /\ lastId = Cardinality(put)
        /\ req = [w \in Workers |-> Idle]
    BY DEF Init, FilesInit, RequestsInit
  <2>2. \A S \in SUBSET Keys : Cardinality(S) \in Nat
    BY FilesAssumption, FS_Subset, FS_CardinalityType
  <2>3. \A k \in Keys : Cardinality({j \in put : j <= k}) \in Nat
    BY <2>1, <2>2
  <2>4. record \in [Keys -> Nat] /\ objects \in [Keys -> {"none", "fresh", "old"}]
    BY <2>3 DEF Init, FilesInit
  <2> QED
    BY <2>1, <2>2, <2>4 DEF FilesInv, OfFile
<1>2. Shape /\ FilesInv /\ [Next]_vars => FilesInv'
  BY FilesTypes
<1> QED
  BY ShapeHolds, <1>1, <1>2, PTL DEF Spec

(* As long as a scan can read all the records there may be, it knows every *)
(* key that is recorded.                                                   *)
LEMMA KnowsRecorded ==
  ASSUME Cardinality(Keys) <= RecordLimit, FilesInv
  PROVE  KnownKeys = Recorded
<1>1. IsFiniteSet(Keys) /\ RecordLimit \in Nat
  BY FilesAssumption
<1>2. IsFiniteSet(Recorded) /\ Cardinality(Recorded) <= Cardinality(Keys)
  BY <1>1, FS_Subset DEF Recorded
<1>3. Cardinality(Keys) \in Nat /\ Cardinality(Recorded) \in Nat
  BY <1>1, <1>2, FS_CardinalityType
<1>4. ASSUME NEW k \in Recorded PROVE Cardinality({j \in Recorded : record[j] > record[k]}) < RecordLimit
  <2> DEFINE newer == {j \in Recorded : record[j] > record[k]}
  <2>0. record[k] \in Nat
    BY DEF Recorded, FilesInv
  <2>1. newer \subseteq Recorded \ {k}
    BY <2>0
  <2>2. IsFiniteSet(Recorded \ {k}) /\ Cardinality(Recorded \ {k}) = Cardinality(Recorded) - 1
    BY <1>2, FS_RemoveElement
  <2>3. IsFiniteSet(newer) /\ Cardinality(newer) <= Cardinality(Recorded \ {k})
    BY <2>1, <2>2, FS_Subset
  <2>4. Cardinality(newer) \in Nat
    BY <2>3, FS_CardinalityType
  <2> HIDE DEF newer
  <2>5. Cardinality(newer) < RecordLimit
    BY <1>1, <1>2, <1>3, <2>2, <2>3, <2>4
  <2> QED
    BY <2>5 DEF newer
<1> QED
  BY <1>4 DEF KnownKeys, Newest

(* Of a request: what it is about to take away, or takes for unrecorded,   *)
(* is unsafe.                                                              *)
Spares(q, u) ==
    /\ q.op = "delete_file" /\ q.at = "delete" => q.key \in u
    /\ q.op = "cleanup" =>
          /\ q.at \in {"stats", "objects", "clean"} => Keys \ q.known \subseteq u
          /\ q.orphans \subseteq u

(* A clean-up that spares some files spares them when more are unsafe.     *)
LEMMA SparesMore ==
  ASSUME NEW q, NEW u, NEW v, u \subseteq v, Spares(q, u)
  PROVE  Spares(q, v)
BY DEF Spares

(* The orphan deleted next is one of those listed.                         *)
LEMMA NextOrphanIsOne ==
  ASSUME NEW w, req[w].orphans \subseteq Keys, req[w].orphans # {}
  PROVE  NextOrphan(w) \in req[w].orphans
<1>1. req[w].orphans \in SUBSET Nat
  BY FilesAssumption
<1>2. \E k \in req[w].orphans : \A j \in req[w].orphans : k <= j
  BY <1>1, Smallest
<1> QED
  BY <1>2 DEF NextOrphan

(* What a step of a request leaves of its safety.                          *)
LEMMA FileSpares ==
  ASSUME Cardinality(Keys) <= RecordLimit, Shape, FilesInv, NEW w \in Workers,
         FileStep(w) \/ FileFails(w), Spares(req[w], unsafe)
  PROVE  /\ unsafe \subseteq unsafe'
         /\ req'[w] # Idle => Spares(req'[w], unsafe')
<1>1. /\ OfFile(req[w]) /\ FileOK(req[w])
      /\ req'[w] # Idle => /\ req'[w].op = req[w].op /\ req'[w].key = req[w].key
  BY FileSteps
<1>2. DOMAIN req[w] = {"op", "key", "id", "known", "orphans", "cleaned", "at"}
  BY <1>1 DEF FileOK, FileRequestTypes
<1>3. unsafe \subseteq unsafe'
  BY DEF FileStep, FileFails, FindRecord, CreateRecord, SaveRecord, FindDownload, GetDownloadURL,
     GetFile, DeleteRecord, DeleteObject, DeleteObjectFails, LogDelete, ScanRecords, ScanStats,
     ScanStatFails, ScanObjects, CleanOrphan, CleanFails, CleanupEnds, MayComplete, fileVars
<1> DEFINE Conclusion == req'[w] # Idle => Spares(req'[w], unsafe')
<1>4. ASSUME Return(w) PROVE Conclusion
  BY <1>4 DEF Return, Shape
<1>5. ASSUME NEW at, Go(w, at), req[w].op # "cleanup", at # "delete" PROVE Conclusion
  BY <1>2, <1>5 DEF Go, Shape, Spares
<1>6. ASSUME Go(w, "objects"), req[w].at = "stats" PROVE Conclusion
  BY <1>2, <1>3, <1>6 DEF Go, Shape, Spares
<1>7. ASSUME DeleteRecord(w) PROVE Conclusion
  BY <1>2, <1>7 DEF DeleteRecord, Doing, Go, Shape, Spares
<1>8. ASSUME FindRecord(w) \/ GetFile(w) PROVE Conclusion
  <2>1. req[w].op # "cleanup" /\ req'[w] # Idle => req'[w].at # "delete"
    BY <1>2, <1>8 DEF FindRecord, GetFile, Doing, Return, Shape
  <2>2. req[w].op # "cleanup"
    BY <1>8 DEF FindRecord, GetFile, Doing
  <2> QED
    BY <1>1, <2>1, <2>2 DEF Spares
<1>9. ASSUME ScanRecords(w) PROVE Conclusion
  <2>1. req'[w] = [req[w] EXCEPT !.known = Recorded, !.at = "stats"]
    BY <1>9, KnowsRecorded DEF ScanRecords, Shape
  <2>2. req'[w].op = req[w].op /\ req'[w].known = Recorded /\ req'[w].orphans = req[w].orphans
        /\ req'[w].at = "stats"
    BY <1>2, <2>1
  <2>3. req[w].op = "cleanup" => Keys \ Recorded \subseteq unsafe'
    BY <1>9 DEF ScanRecords
  <2> QED
    BY <1>3, <2>2, <2>3 DEF Spares
<1>10. ASSUME ScanObjects(w) PROVE Conclusion
  <2>1. CASE req[w].op = "scan"
    BY <1>4, <1>10, <2>1 DEF ScanObjects
  <2>2. CASE req[w].op # "scan"
    <3>1. req[w].op = "cleanup" /\ req[w].at = "objects" /\ unsafe' = unsafe
      BY <1>10, <2>2 DEF ScanObjects, Doing, fileVars
    <3>2. req'[w] = [req[w] EXCEPT !.at = "clean", !.orphans = ListObjects(ObjectLimit) \ req[w].known]
      BY <1>10, <2>2 DEF ScanObjects, Shape
    <3>3. /\ req'[w].op = req[w].op /\ req'[w].known = req[w].known
          /\ req'[w].orphans = ListObjects(ObjectLimit) \ req[w].known
      BY <1>2, <3>2
    <3>4. Keys \ req[w].known \subseteq unsafe
      BY <3>1 DEF Spares
    <3>5. ListObjects(ObjectLimit) \subseteq Keys
      BY DEF ListObjects
    <3> QED
      BY <3>1, <3>3, <3>4, <3>5 DEF Spares
  <2> QED
    BY <2>1, <2>2
<1>11. ASSUME CleanOrphan(w) \/ CleanFails(w) PROVE Conclusion
  <2>1. req[w].op = "cleanup" /\ req[w].at = "clean" /\ unsafe' = unsafe
    BY <1>11 DEF CleanOrphan, CleanFails, Doing, fileVars
  <2>2. /\ req'[w].op = req[w].op /\ req'[w].known = req[w].known
        /\ req'[w].orphans \subseteq req[w].orphans
    BY <1>2, <1>11 DEF CleanOrphan, CleanFails, Shape
  <2> QED
    BY <2>1, <2>2 DEF Spares
<1>12. ASSUME DeleteObject(w) \/ FindDownload(w) \/ \E ok \in BOOLEAN : MayComplete(w, ok)
       PROVE  Conclusion
  BY <1>4, <1>5, <1>12 DEF DeleteObject, FindDownload, MayComplete, Doing
<1>13. ASSUME ScanStats(w) \/ ScanStatFails(w) PROVE Conclusion
  BY <1>6, <1>13 DEF ScanStats, ScanStatFails, Doing
<1>14. Conclusion
  BY <1>4, <1>7, <1>8, <1>9, <1>10, <1>11, <1>12, <1>13 DEF FileStep, FileFails, CreateRecord, SaveRecord,
     GetDownloadURL, DeleteObjectFails, LogDelete, CleanupEnds
<1> QED
  BY <1>3, <1>14

(* What a step does to the objects.                                        *)
LEMMA FileObjects ==
  ASSUME Shape, FilesInv, NEW w \in Workers, FileStep(w) \/ FileFails(w), Spares(req[w], unsafe)
  PROVE  /\ put' = put
         /\ objects' = objects \/ \E k \in unsafe : objects' = [objects EXCEPT ![k] = "none"]
<1>1. put' = put
  BY DEF FileStep, FileFails, FindRecord, CreateRecord, SaveRecord, FindDownload, GetDownloadURL,
     GetFile, DeleteRecord, DeleteObject, DeleteObjectFails, LogDelete, ScanRecords, ScanStats,
     ScanStatFails, ScanObjects, CleanOrphan, CleanFails, CleanupEnds, MayComplete, fileVars
<1>2. CASE DeleteObject(w)
  <2>1. req[w].key \in unsafe
    BY <1>2 DEF DeleteObject, Doing, Spares
  <2> QED
    BY <1>1, <1>2, <2>1 DEF DeleteObject, Without
<1>3. CASE CleanOrphan(w)
  <2>1. req[w].orphans # {} /\ req[w].orphans \subseteq unsafe /\ req[w].orphans \subseteq Keys
    <3>1. FileOK(req[w])
      BY FileSteps
    <3> QED
      BY <1>3, <3>1 DEF CleanOrphan, Doing, Spares, FileOK, FileRequestTypes
  <2>2. NextOrphan(w) \in unsafe
    BY <2>1, NextOrphanIsOne
  <2> QED
    BY <1>1, <1>3, <2>2 DEF CleanOrphan, Without
<1>4. CASE objects' = objects
  BY <1>1, <1>4
<1> QED
  BY <1>2, <1>3, <1>4 DEF FileStep, FileFails, FindRecord, CreateRecord, SaveRecord, FindDownload,
     GetDownloadURL, GetFile, DeleteRecord, DeleteObjectFails, LogDelete, ScanRecords, ScanStats,
     ScanStatFails, ScanObjects, CleanFails, CleanupEnds, MayComplete, fileVars

(* Every step keeps recorded files in the store.                           *)
LEMMA StoredStep ==
  ASSUME Cardinality(Keys) <= RecordLimit, Shape, FilesInv, StoredInv, [Next]_vars
  PROVE  StoredInv'
<1> DEFINE Requests == \A w \in Workers : OfFile(req'[w]) => Spares(req'[w], unsafe')
           Stored == \A k \in put' \ unsafe' : objects'[k] # "none"
           Missing == faults' = 0 => missing' \subseteq unsafe'
<1>1. ASSUME Requests, Stored, Missing PROVE StoredInv'
  BY <1>1 DEF StoredInv, Spares, Stat
<1>2. /\ \A w \in Workers : OfFile(req[w]) => Spares(req[w], unsafe)
      /\ \A k \in put \ unsafe : objects[k] # "none"
      /\ faults = 0 => missing \subseteq unsafe
  BY DEF StoredInv, Spares, Stat
<1>3. faults \in Nat
  BY DEF Shape
<1>4. ASSUME UNCHANGED <<put, objects, missing, unsafe>>, NEW ops, Leaves(ops) PROVE Stored /\ Missing
  <2>1. faults' = 0 => faults = 0
    <3>1. faults' >= faults
      BY <1>4 DEF Leaves
    <3> QED
      BY <1>3, <3>1
  <2> QED
    BY <1>2, <1>4, <2>1
<1>5. ASSUME NEW ops, FileOps \cap ops = {}, Leaves(ops), UNCHANGED fileVars PROVE StoredInv'
  <2>1. UNCHANGED <<put, objects, missing, unsafe>>
    BY <1>5 DEF fileVars
  <2>2. Requests
    BY <1>2, <1>5, <2>1 DEF Leaves, Mine, OfFile
  <2> QED
    BY <1>1, <1>4, <1>5, <2>1, <2>2
<1>6. ASSUME NEW w \in Workers, NEW q \in FileRequests, BeginFile(w, q) PROVE StoredInv'
  <2>1. /\ req' = [req EXCEPT ![w] = q] /\ faults' = faults
        /\ UNCHANGED <<put, objects, missing, unsafe>>
    BY <1>6 DEF BeginFile, Arrives, fileVars
  <2>2. Spares(q, unsafe)
    BY FileRequestBegins DEF Spares
  <2>3. Requests
    BY <1>2, <2>1, <2>2 DEF Shape
  <2> QED
    BY <1>1, <1>2, <2>1, <2>3
<1>7. ASSUME NEW k \in Keys, PreSignUpload(k) \/ Upload(k) \/ GrowOld(k) PROVE StoredInv'
  <2>1. req' = req /\ faults' = faults /\ UNCHANGED <<missing, unsafe>>
    BY <1>7 DEF PreSignUpload, Upload, GrowOld, Quietly
  <2>2. \/ put' = put /\ objects' = objects
        \/ put' = put \cup {k} /\ objects' = [objects EXCEPT ![k] = "fresh"]
        \/ put' = put /\ objects' = [objects EXCEPT ![k] = "old"]
    BY <1>7 DEF PreSignUpload, Upload, GrowOld
  <2>3. Stored
    BY <1>2, <2>1, <2>2 DEF FilesInv
  <2> QED
    BY <1>1, <1>2, <2>1, <2>3
<1>8. ASSUME NEW w \in Workers, FileStep(w) \/ FileFails(w) PROVE StoredInv'
  <2>1. /\ OfFile(req[w]) /\ \A x \in Workers : x # w => req'[x] = req[x]
    BY <1>8, FileSteps
  <2>2. Spares(req[w], unsafe)
    BY <1>2, <2>1
  <2>3. unsafe \subseteq unsafe' /\ (req'[w] # Idle => Spares(req'[w], unsafe'))
    BY <1>8, <2>2, FileSpares
  <2>4. Requests
    <3> SUFFICES ASSUME NEW x \in Workers, OfFile(req'[x]) PROVE Spares(req'[x], unsafe')
      OBVIOUS
    <3>1. CASE x = w
      BY <2>3, <3>1 DEF OfFile
    <3>2. CASE x # w
      BY <1>2, <2>1, <2>3, <3>2, SparesMore
    <3> QED
      BY <3>1, <3>2
  <2>5. Stored
    <3>1. put' = put /\ (objects' = objects \/ \E k \in unsafe : objects' = [objects EXCEPT ![k] = "none"])
      BY <1>8, <2>2, FileObjects
    <3> QED
      BY <1>2, <2>3, <3>1 DEF FilesInv
  <2>6. Missing
    <3>1. CASE ScanStats(w)
      <4>1. missing' = {k \in req[w].known \cap put : objects[k] = "none"} /\ unsafe' = unsafe
        BY <3>1 DEF ScanStats, Stat
      <4> QED
        BY <1>2, <4>1
    <3>2. CASE ScanStatFails(w)
      BY <1>3, <3>2 DEF ScanStatFails, Fault
    <3>3. CASE missing' = missing
      <4>1. faults' >= faults
        BY <1>8, FilesLeave DEF FilesNext, Leaves
      <4> QED
        BY <1>2, <1>3, <2>3, <3>3, <4>1
    <3> QED
      BY <1>8, <3>1, <3>2, <3>3 DEF FileStep, FileFails, FindRecord, CreateRecord, SaveRecord, FindDownload,
         GetDownloadURL, GetFile, DeleteRecord, DeleteObject, DeleteObjectFails, LogDelete, ScanRecords,
         ScanObjects, CleanOrphan, CleanFails, CleanupEnds, MayComplete, fileVars
  <2> QED
    BY <1>1, <2>4, <2>5, <2>6
<1> QED
  BY <1>5, <1>6, <1>7, <1>8, FilesApart DEF FilesNext

(* The pages of one row each show every record.                            *)
LEMMA PagesShowAll ==
  ASSUME FilesInv
  PROVE  /\ \A n \in Nat : DOMAIN AdminFileList(n, 1) \subseteq Recorded
         /\ \A k \in Recorded : \E n \in 1..Cardinality(Keys) : k \in DOMAIN AdminFileList(n, 1)
<1> DEFINE position(k) == Cardinality({j \in Recorded : record[j] > record[k]})
<1>1. ASSUME NEW n \in Nat
      PROVE  DOMAIN AdminFileList(n, 1)
               = {k \in Recorded : position(k) \in Offset(PageNumber(n), 1)..(Offset(PageNumber(n), 1) + 1 - 1)}
  <2>1. PageSize(1) = 1
    BY DEF PageSize
  <2> QED
    BY <2>1 DEF AdminFileList, ListFiles, OnPage
<1>2. ASSUME NEW k \in Recorded
      PROVE  \E n \in 1..Cardinality(Keys) : k \in DOMAIN AdminFileList(n, 1)
  <2> DEFINE newer == {j \in Recorded : record[j] > record[k]}
  <2>1. IsFiniteSet(Keys) /\ newer \subseteq Keys \ {k} /\ k \in Keys
    BY FilesAssumption DEF FilesInv, Recorded
  <2>2. IsFiniteSet(Keys \ {k}) /\ Cardinality(Keys \ {k}) = Cardinality(Keys) - 1
    BY <2>1, FS_RemoveElement
  <2>3. IsFiniteSet(newer) /\ Cardinality(newer) <= Cardinality(Keys \ {k})
    BY <2>1, <2>2, FS_Subset
  <2>4. Cardinality(newer) \in Nat /\ Cardinality(Keys) \in Nat
    BY <2>1, <2>3, FS_CardinalityType
  <2>5. PICK p \in Nat : p = position(k)
    BY <2>4
  <2>6. p + 1 \in 1..Cardinality(Keys) /\ p + 1 \in Nat
    BY <2>2, <2>3, <2>4, <2>5
  <2>7. Offset(PageNumber(p + 1), 1) = p
    BY DEF Offset, PageNumber
  <2>8. p \in p..(p + 1 - 1)
    OBVIOUS
  <2>9. k \in DOMAIN AdminFileList(p + 1, 1)
    BY <1>1, <2>5, <2>6, <2>7, <2>8
  <2> QED
    BY <2>6, <2>9
<1> QED
  BY <1>1, <1>2

(* While the records fit into what a scan reads, a file that was put and   *)
(* is recorded has its object, whatever is uploaded, deleted, scanned and  *)
(* cleaned up in between; the pages of the list show it as there.  The     *)
(* hypothesis is needed: a cleanup takes the object of a record it did not *)
(* read for an orphan.                                                     *)
THEOREM RecordedIsStoredHolds ==
  ASSUME Cardinality(Keys) <= RecordLimit
  PROVE  Spec => []RecordedIsStored
<1>1. Init => StoredInv
  <2> SUFFICES ASSUME Init PROVE StoredInv
    OBVIOUS
  <2>1. /\ req = [w \in Workers |-> Idle] /\ missing = {}
        /\ put \subseteq Keys /\ objects = [k \in Keys |-> IF k \in put THEN "old" ELSE "none"]
    BY DEF Init, RequestsInit, FilesInit
  <2> QED
    BY <2>1 DEF StoredInv, OfFile, Stat
<1>2. Shape /\ FilesInv /\ StoredInv /\ [Next]_vars => StoredInv'
  BY StoredStep
<1>3. FilesInv /\ StoredInv => RecordedIsStored
  <2> SUFFICES ASSUME FilesInv, StoredInv PROVE RecordedIsStored
    OBVIOUS
  <2> DEFINE pages == {AdminFileList(n, 1) : n \in 1..Cardinality(Keys)}
  <2>1. UNION {DOMAIN p : p \in pages} = Recorded
    <3>1. 1..Cardinality(Keys) \subseteq Nat
      BY FilesAssumption, FS_CardinalityType
    <3>2. ASSUME NEW p \in pages PROVE DOMAIN p \subseteq Recorded
      BY <3>1, PagesShowAll
    <3>3. ASSUME NEW k \in Recorded PROVE \E p \in pages : k \in DOMAIN p
      BY PagesShowAll
    <3> HIDE DEF pages
    <3> QED
      BY <3>2, <3>3
  <2>2. \A p \in pages : \A k \in DOMAIN p \cap put : k \notin unsafe => p[k].exists
    <3> SUFFICES ASSUME NEW n \in 1..Cardinality(Keys), NEW k \in DOMAIN AdminFileList(n, 1) \cap put,
                        k \notin unsafe
                 PROVE  AdminFileList(n, 1)[k].exists
      OBVIOUS
    <3>1. AdminFileList(n, 1)[k] = FileItem(k)
      BY DEF AdminFileList, ListFiles
    <3>2. Stat(k)
      BY DEF StoredInv
    <3> QED
      BY <3>1, <3>2 DEF FileItem
  <2>3. faults = 0 => missing \subseteq unsafe
    BY DEF StoredInv
  <2> HIDE DEF pages
  <2> QED
    BY <2>1, <2>2, <2>3 DEF RecordedIsStored, pages
<1> QED
  BY ShapeHolds, FilesTypesHold, <1>1, <1>2, <1>3, PTL DEF Spec

(* A deletion that has read its record.                                    *)
DeletionOf(q, k) ==
    OfFile(q) /\ q.op = "delete_file" /\ q.key = k /\ q.at \in {"unrecord", "delete", "log"}

(* DeletionInv, of one key.                                                *)
DeletionOK(k) ==
    k \notin touched /\ (DeletionLogged(k) \/ \E w \in Workers : DeletionOf(req[w], k)) =>
        /\ \/ record[k] = 0
           \/ \E w \in Workers : DeletionOf(req[w], k) /\ req[w].at = "unrecord" /\ req[w].id = record[k]
        /\ \/ objects[k] = "none"
           \/ \E w \in Workers : DeletionOf(req[w], k) /\ req[w].at \in {"unrecord", "delete"}

(* The invariant about deletions speaks of one key at a time.              *)
LEMMA DeletionParts == DeletionInv <=> \A k \in Keys : DeletionOK(k)
BY DEF DeletionInv, DeletionOK, DeletionOf, Deleting, Stat

(* A step that takes no deletion of the key any further, neither records   *)
(* nor puts it, and does not log its deletion.                             *)
LEMMA KeyRests ==
  ASSUME NEW k, DeletionOK(k), k \notin touched' => k \notin touched,
         record'[k] = record[k], objects[k] = "none" => objects'[k] = "none",
         DeletionLogged(k)' => DeletionLogged(k),
         \A w \in Workers : \/ req'[w] = req[w]
                            \/ ~DeletionOf(req[w], k) /\ ~DeletionOf(req'[w], k)
  PROVE  DeletionOK(k)'
<1>1. ASSUME NEW w \in Workers, DeletionOf(req'[w], k) PROVE DeletionOf(req[w], k)
  BY <1>1
<1>2. ASSUME NEW w \in Workers, DeletionOf(req[w], k) PROVE req'[w] = req[w]
  BY <1>2
<1> QED
  BY <1>1, <1>2 DEF DeletionOK

(* What the log says of a deletion.                                        *)
LEMMA LoggedBefore ==
  ASSUME Shape, NEW k,
         audit' = audit \/ \E e : audit' = Append(audit, e) /\ ~(e.op = "delete_file" /\ e.target = k)
  PROVE  DeletionLogged(k)' => DeletionLogged(k)
<1>1. CASE audit' = audit
  BY <1>1 DEF DeletionLogged
<1>2. ASSUME NEW e, audit' = Append(audit, e), ~(e.op = "delete_file" /\ e.target = k)
      PROVE  DeletionLogged(k)' => DeletionLogged(k)
  <2>1. PICK S : audit \in Seq(S)
    BY DEF Shape
  <2>2. PICK n \in Nat : n = Len(audit) /\ DOMAIN audit = 1..n
    BY <2>1
  <2>3. /\ DOMAIN audit' = 1..(n + 1) /\ audit'[n + 1] = e
        /\ \A i \in 1..n : audit'[i] = audit[i]
    BY <1>2, <2>1, <2>2
  <2>4. ASSUME NEW i \in 1..(n + 1), audit'[i].op = "delete_file" /\ audit'[i].target = k
        PROVE  i \in 1..n
    BY <1>2, <2>3, <2>4
  <2> QED
    BY <2>2, <2>3, <2>4 DEF DeletionLogged
<1> QED
  BY <1>1, <1>2

(* Entries of the log about files are about keys.                          *)
LEMMA LoggedKeys ==
  ASSUME Shape, LoggedFilesInv,
         audit' = audit \/ \E e : audit' = Append(audit, e) /\ (e.op = "delete_file" => e.target \in Keys)
  PROVE  LoggedFilesInv'
<1>1. CASE audit' = audit
  BY <1>1 DEF LoggedFilesInv
<1>2. ASSUME NEW e, audit' = Append(audit, e), e.op = "delete_file" => e.target \in Keys
      PROVE  LoggedFilesInv'
  <2>1. PICK S : audit \in Seq(S)
    BY DEF Shape
  <2>2. PICK n \in Nat : n = Len(audit) /\ DOMAIN audit = 1..n
    BY <2>1
  <2>3. /\ DOMAIN audit' = 1..(n + 1) /\ audit'[n + 1] = e
        /\ \A i \in 1..n : audit'[i] = audit[i]
    BY <1>2, <2>1, <2>2
  <2>4. \A i \in 1..(n + 1) : i \in 1..n \/ i = n + 1
    OBVIOUS
  <2> QED
    BY <1>2, <2>2, <2>3, <2>4 DEF LoggedFilesInv
<1> QED
  BY <1>1, <1>2

(* A step of a request, as the deletions of a key see it.                  *)
LEMMA DeletionStep ==
  ASSUME Shape, FilesInv, DeletionInv, NEW w \in Workers, FileStep(w) \/ FileFails(w), NEW k \in Keys
  PROVE  DeletionOK(k)'
<1>1. /\ OfFile(req[w]) /\ FileOK(req[w])
      /\ \A x \in Workers : x # w => req'[x] = req[x]
      /\ req'[w] # Idle => /\ OfFile(req'[w]) /\ FileOK(req'[w])
                           /\ req'[w].op = req[w].op /\ req'[w].key = req[w].key
  BY FileSteps
<1>2. DOMAIN req[w] = {"op", "key", "id", "known", "orphans", "cleaned", "at"}
  BY <1>1 DEF FileOK, FileRequestTypes
<1>3. DeletionOK(k)
  BY DeletionParts
<1>4. record \in [Keys -> Nat] /\ objects \in [Keys -> {"none", "fresh", "old"}]
  BY DEF FilesInv
<1> DEFINE Apart == ~DeletionOf(req[w], k) /\ ~DeletionOf(req'[w], k)
           Unlogged == DeletionLogged(k)' => DeletionLogged(k)
           Object == objects[k] = "none" => objects'[k] = "none"
<1>5. ASSUME Apart, Unlogged, Object, k \notin touched' => k \notin touched, record'[k] = record[k]
      PROVE  DeletionOK(k)'
  BY <1>1, <1>3, <1>5, KeyRests
<1>6. Object
  <2>1. objects' = objects \/ \E j : objects' = [objects EXCEPT ![j] = "none"]
    BY DEF FileStep, FileFails, FindRecord, CreateRecord, SaveRecord, FindDownload,
       GetDownloadURL, GetFile, DeleteRecord, DeleteObject, DeleteObjectFails, LogDelete, ScanRecords, ScanStats,
       ScanStatFails, ScanObjects, CleanOrphan, CleanFails, CleanupEnds, MayComplete, fileVars, Without
  <2> QED
    BY <1>4, <2>1
<1>7. ~LogDelete(w) => Unlogged
  <2>1. ASSUME CleanupEnds(w) PROVE Unlogged
    <3>1. PICK e : (audit' = audit \/ audit' = Append(audit, e)) /\ e.op = "cleanup"
      <4>1. \A n : [op |-> "cleanup", target |-> n].op = "cleanup"
        OBVIOUS
      <4> QED
        BY <2>1, <4>1 DEF CleanupEnds, Log, Quietly
    <3> QED
      BY <3>1, LoggedBefore
  <2>2. ASSUME audit' = audit PROVE Unlogged
    BY <2>2, LoggedBefore
  <2> QED
    BY <2>1, <2>2 DEF FileStep, FileFails, FindRecord, CreateRecord, SaveRecord, FindDownload,
       GetDownloadURL, GetFile, DeleteRecord, DeleteObject, DeleteObjectFails, ScanRecords, ScanStats,
       ScanStatFails, ScanObjects, CleanOrphan, CleanFails, MayComplete, Quietly, Fault
<1>8. CASE req[w].op # "delete_file"
  <2>1. Apart
    BY <1>1, <1>8 DEF DeletionOf, OfFile
  <2>2. ~LogDelete(w)
    BY <1>8 DEF LogDelete, Doing
  <2>3. touched \subseteq touched'
    BY <1>8 DEF FileStep, FileFails, FindRecord, CreateRecord, SaveRecord, FindDownload,
       GetDownloadURL, GetFile, DeleteRecord, DeleteObject, DeleteObjectFails, LogDelete, ScanRecords, ScanStats,
       ScanStatFails, ScanObjects, CleanOrphan, CleanFails, CleanupEnds, MayComplete, fileVars, Touch, Doing
  <2>4. k \in touched' \/ record'[k] = record[k]
    <3>1. \/ record' = record
          \/ (\E n : record' = [record EXCEPT ![req[w].key] = n]) /\ req[w].key \in touched'
      BY <1>8 DEF FileStep, FileFails, FindRecord, CreateRecord, SaveRecord, FindDownload,
         GetDownloadURL, GetFile, DeleteRecord, DeleteObject, DeleteObjectFails, LogDelete, ScanRecords,
         ScanStats, ScanStatFails, ScanObjects, CleanOrphan, CleanFails, CleanupEnds, MayComplete, fileVars,
         Touch, Doing
    <3> QED
      BY <1>4, <3>1
  <2>5. CASE k \in touched'
    BY <2>5 DEF DeletionOK
  <2> QED
    BY <1>5, <1>6, <1>7, <2>1, <2>2, <2>3, <2>4, <2>5
<1>9. CASE req[w].op = "delete_file" /\ req[w].key # k
  <2>1. Apart
    BY <1>1, <1>9 DEF DeletionOf, OfFile
  <2>2. ~FindRecord(w) /\ ~CreateRecord(w) /\ ~SaveRecord(w) /\ ~FindDownload(w) /\ ~GetDownloadURL(w)
    BY <1>9 DEF FindRecord, CreateRecord, SaveRecord, FindDownload, GetDownloadURL, Doing
  <2>3. /\ ~ScanRecords(w) /\ ~ScanStats(w) /\ ~ScanStatFails(w) /\ ~ScanObjects(w) /\ ~CleanOrphan(w)
        /\ ~CleanFails(w) /\ ~CleanupEnds(w) /\ \A ok : ~MayComplete(w, ok)
    BY <1>9 DEF ScanRecords, ScanStats, ScanStatFails, ScanObjects, CleanOrphan, CleanFails, CleanupEnds,
       MayComplete, Doing
  <2>4. k \notin touched' => k \notin touched
    BY <1>9, <2>2, <2>3 DEF FileStep, FileFails, GetFile, DeleteRecord, DeleteObject, DeleteObjectFails,
       LogDelete, fileVars, Touch
  <2>5. record'[k] = record[k]
    BY <1>4, <1>9, <2>2, <2>3 DEF FileStep, FileFails, GetFile, DeleteRecord, DeleteObject,
       DeleteObjectFails, LogDelete, fileVars
  <2>6. Unlogged
    <3>1. CASE LogDelete(w)
      <4> DEFINE e == [op |-> "delete_file", target |-> req[w].key]
      <4>1. audit' = Append(audit, e) /\ e.target # k
        BY <1>9, <3>1 DEF LogDelete, Log
      <4> HIDE DEF e
      <4> QED
        BY <4>1, LoggedBefore
    <3> QED
      BY <1>7, <3>1
  <2> QED
    BY <1>5, <1>6, <2>1, <2>4, <2>5, <2>6
<1>10. CASE req[w].op = "delete_file" /\ req[w].key = k
  <2>1. CASE GetFile(w) /\ record[k] = 0
    <3>1. /\ record' = record /\ touched' = touched /\ req[w].at = "find" /\ req'[w] = Idle
      BY <1>10, <2>1 DEF GetFile, Doing, Return, Shape
    <3>2. Apart
      BY <3>1 DEF DeletionOf, OfFile
    <3>3. ~LogDelete(w)
      BY <3>1 DEF LogDelete, Doing
    <3> QED
      BY <1>5, <1>6, <1>7, <3>1, <3>2, <3>3
  <2>2. CASE GetFile(w) /\ record[k] # 0
    <3>1. record' = record /\ req'[w] = [req[w] EXCEPT !.id = record[k], !.at = "unrecord"]
      BY <1>10, <2>2 DEF GetFile, Shape
    <3>2. /\ req'[w].op = "delete_file" /\ req'[w].key = k /\ req'[w].at = "unrecord"
          /\ req'[w].id = record[k] /\ req'[w] # Idle
      BY <1>2, <1>10, <3>1 DEF Idle
    <3>3. DeletionOf(req'[w], k)
      BY <1>1, <3>2 DEF DeletionOf
    <3> QED
      BY <3>1, <3>2, <3>3 DEF DeletionOK
  <2>3. CASE DeleteRecord(w)
    <3>1. /\ req[w].at = "unrecord" /\ touched' = touched /\ objects' = objects
          /\ record' = [record EXCEPT ![k] = IF record[k] = req[w].id THEN 0 ELSE record[k]]
          /\ req'[w] = [req[w] EXCEPT !.at = "delete"]
      BY <1>10, <2>3 DEF DeleteRecord, Doing, Go, Shape
    <3>2. /\ req'[w].op = "delete_file" /\ req'[w].key = k /\ req'[w].at = "delete" /\ req'[w] # Idle
      BY <1>2, <1>10, <3>1 DEF Idle
    <3>3. DeletionOf(req'[w], k) /\ DeletionOf(req[w], k)
      BY <1>1, <1>10, <3>1, <3>2 DEF DeletionOf
    <3>4. record'[k] = IF record[k] = req[w].id THEN 0 ELSE record[k]
      BY <1>4, <3>1
    <3>5. CASE k \in touched
      BY <3>1, <3>5 DEF DeletionOK
    <3>6. CASE record'[k] = 0
      BY <3>2, <3>3, <3>6 DEF DeletionOK
    <3>7. CASE k \notin touched /\ record[k] # 0 /\ record[k] # req[w].id
      <4>1. PICK x \in Workers : DeletionOf(req[x], k) /\ req[x].at = "unrecord" /\ req[x].id = record[k]
        BY <1>3, <3>3, <3>7 DEF DeletionOK
      <4>2. req'[x] = req[x] /\ record'[k] = record[k]
        BY <1>1, <3>4, <3>7, <4>1
      <4> QED
        BY <3>2, <3>3, <4>1, <4>2 DEF DeletionOK
    <3> QED
      BY <3>4, <3>5, <3>6, <3>7
  <2>4. CASE DeleteObject(w)
    <3>1. /\ req[w].at = "delete" /\ touched' = touched /\ record' = record
          /\ objects' = [objects EXCEPT ![k] = "none"]
      BY <1>10, <2>4 DEF DeleteObject, Doing, Without
    <3>2. objects'[k] = "none"
      BY <1>4, <3>1
    <3>3. DeletionOf(req[w], k)
      BY <1>1, <1>10, <3>1 DEF DeletionOf
    <3>4. \A x \in Workers : req[x].at = "unrecord" => req'[x] = req[x]
      BY <1>1, <3>1
    <3> QED
      BY <1>3, <3>1, <3>2, <3>3, <3>4 DEF DeletionOK
  <2>5. CASE LogDelete(w)
    <3>1. /\ req[w].at = "log" /\ touched' = touched /\ record' = record /\ objects' = objects
      BY <1>10, <2>5 DEF LogDelete, Doing, fileVars
    <3>2. DeletionOf(req[w], k)
      BY <1>1, <1>10, <3>1 DEF DeletionOf
    <3>3. \A x \in Workers : req[x].at \in {"unrecord", "delete"} => req'[x] = req[x]
      BY <1>1, <3>1
    <3> QED
      BY <1>3, <3>1, <3>2, <3>3 DEF DeletionOK
  <2>6. CASE DeleteObjectFails(w) \/ FileFails(w)
    <3>1. k \in touched'
      BY <1>10, <2>6 DEF DeleteObjectFails, FileFails, Touch
    <3> QED
      BY <3>1 DEF DeletionOK
  <2>7. ~FindRecord(w) /\ ~CreateRecord(w) /\ ~SaveRecord(w) /\ ~FindDownload(w) /\ ~GetDownloadURL(w)
    BY <1>10 DEF FindRecord, CreateRecord, SaveRecord, FindDownload, GetDownloadURL, Doing
  <2>8. /\ ~ScanRecords(w) /\ ~ScanStats(w) /\ ~ScanStatFails(w) /\ ~ScanObjects(w) /\ ~CleanOrphan(w)
        /\ ~CleanFails(w) /\ ~CleanupEnds(w) /\ \A ok : ~MayComplete(w, ok)
    BY <1>10 DEF ScanRecords, ScanStats, ScanStatFails, ScanObjects, CleanOrphan, CleanFails, CleanupEnds,
       MayComplete, Doing
  <2> QED
    BY <2>1, <2>2, <2>3, <2>4, <2>5, <2>6, <2>7, <2>8 DEF FileStep
<1> QED
  BY <1>8, <1>9, <1>10

(* DeleteFile deletes the record, then the object, then logs: a file whose *)
(* deletion is in the log and which nobody put, recorded or half deleted   *)
(* since it began has neither, however deletions, cleanups and completions *)
(* of uploads overlapped.                                                  *)
THEOREM DeletedIsGoneHolds == Spec => []DeletedIsGone
<1>1. Init => DeletionInv /\ LoggedFilesInv
  <2> SUFFICES ASSUME Init PROVE DeletionInv /\ LoggedFilesInv
    OBVIOUS
  <2>1. req = [w \in Workers |-> Idle] /\ audit = << >>
    BY DEF Init, RequestsInit
  <2>2. DeletionInv
    BY <2>1 DEF DeletionInv, DeletionLogged, Deleting, OfFile
  <2>3. LoggedFilesInv
    BY <2>1 DEF LoggedFilesInv
  <2> QED
    BY <2>2, <2>3
<1>2. Shape /\ FilesInv /\ DeletionInv /\ LoggedFilesInv /\ [Next]_vars => DeletionInv' /\ LoggedFilesInv'
  <2> SUFFICES ASSUME Shape, FilesInv, DeletionInv, LoggedFilesInv, [Next]_vars
               PROVE  DeletionInv' /\ LoggedFilesInv'
    OBVIOUS
  <2>1. ASSUME \A k \in Keys : DeletionOK(k)' PROVE DeletionInv'
    BY <2>1, DeletionParts DEF DeletionInv, DeletionOK, DeletionOf, Deleting, Stat
  <2>2. \A k \in Keys : DeletionOK(k)
    BY DeletionParts
  <2>3. ASSUME NEW ops, FileOps \cap ops = {}, Leaves(ops), UNCHANGED fileVars
        PROVE  DeletionInv' /\ LoggedFilesInv'
    <3>1. audit' = audit \/ \E e : audit' = Append(audit, e) /\ e.op # "delete_file"
      BY <2>3 DEF Leaves, FileOps
    <3>2. record' = record /\ objects' = objects /\ touched' = touched
      BY <2>3 DEF fileVars
    <3>3. ASSUME NEW k \in Keys PROVE DeletionOK(k)'
      <4>1. \A w \in Workers : req'[w] = req[w] \/ (~DeletionOf(req[w], k) /\ ~DeletionOf(req'[w], k))
        BY <2>3 DEF Leaves, Mine, DeletionOf, OfFile
      <4>2. DeletionLogged(k)' => DeletionLogged(k)
        BY <3>1, LoggedBefore
      <4> QED
        BY <2>2, <3>2, <4>1, <4>2, KeyRests
    <3> QED
      BY <2>1, <3>1, <3>3, LoggedKeys
  <2>4. ASSUME NEW w \in Workers, NEW q \in FileRequests, BeginFile(w, q)
        PROVE  DeletionInv' /\ LoggedFilesInv'
    <3>1. /\ req' = [req EXCEPT ![w] = q] /\ audit' = audit /\ req[w] = Idle
          /\ record' = record /\ objects' = objects /\ touched' = touched
      BY <2>4 DEF BeginFile, Arrives, Free, fileVars
    <3>2. ASSUME NEW k \in Keys PROVE DeletionOK(k)'
      <4>1. ~DeletionOf(q, k) /\ ~DeletionOf(Idle, k)
        BY FileRequestBegins DEF DeletionOf, OfFile
      <4>2. \A x \in Workers : req'[x] = req[x] \/ (~DeletionOf(req[x], k) /\ ~DeletionOf(req'[x], k))
        BY <3>1, <4>1 DEF Shape
      <4>3. DeletionLogged(k)' => DeletionLogged(k)
        BY <3>1, LoggedBefore
      <4> QED
        BY <2>2, <3>1, <4>2, <4>3, KeyRests
    <3> QED
      BY <2>1, <3>1, <3>2, LoggedKeys
  <2>5. ASSUME NEW j \in Keys, PreSignUpload(j) \/ Upload(j) \/ GrowOld(j)
        PROVE  DeletionInv' /\ LoggedFilesInv'
    <3>1. req' = req /\ audit' = audit /\ record' = record /\ touched \subseteq touched'
      BY <2>5 DEF PreSignUpload, Upload, GrowOld, Quietly, Touch
    <3>2. ASSUME NEW k \in Keys PROVE DeletionOK(k)'
      <4>1. k \in touched' \/ (objects[k] = "none" => objects'[k] = "none")
        BY <2>5 DEF PreSignUpload, Upload, GrowOld, Touch, FilesInv
      <4>2. CASE k \in touched'
        BY <4>2 DEF DeletionOK
      <4>3. DeletionLogged(k)' => DeletionLogged(k)
        BY <3>1, LoggedBefore
      <4> QED
        BY <2>2, <3>1, <4>1, <4>2, <4>3, KeyRests
    <3> QED
      BY <2>1, <3>1, <3>2, LoggedKeys
  <2>6. ASSUME NEW w \in Workers, FileStep(w) \/ FileFails(w) PROVE DeletionInv' /\ LoggedFilesInv'
    <3>1. \A k \in Keys : DeletionOK(k)'
      BY <2>6, DeletionStep
    <3>2. CASE LogDelete(w)
      <4> DEFINE e == [op |-> "delete_file", target |-> req[w].key]
      <4>1. audit' = Append(audit, e) /\ req[w].op = "delete_file"
        BY <3>2 DEF LogDelete, Log, Doing
      <4>2. e.target \in Keys
        BY <2>6, <4>1, FileSteps DEF FileOK
      <4> HIDE DEF e
      <4>3. LoggedFilesInv'
        BY <4>1, <4>2, LoggedKeys
      <4> QED
        BY <2>1, <3>1, <4>3
    <3>3. CASE CleanupEnds(w)
      <4>1. \A n : [op |-> "cleanup", target |-> n].op # "delete_file"
        OBVIOUS
      <4>2. audit' = audit \/ \E e : audit' = Append(audit, e) /\ e.op # "delete_file"
        BY <3>3, <4>1 DEF CleanupEnds, Log, Quietly
      <4>3. LoggedFilesInv'
        BY <4>2, LoggedKeys
      <4> QED
        BY <2>1, <3>1, <4>3
    <3>4. CASE audit' = audit
      BY <2>1, <3>1, <3>4, LoggedKeys
    <3> QED
      BY <2>6, <3>2, <3>3, <3>4 DEF FileStep, FileFails, FindRecord, CreateRecord, SaveRecord, FindDownload,
         GetDownloadURL, GetFile, DeleteRecord, DeleteObject, DeleteObjectFails, ScanRecords, ScanStats,
         ScanStatFails, ScanObjects, CleanOrphan, CleanFails, MayComplete, Quietly, Fault
  <2> QED
    BY <2>3, <2>4, <2>5, <2>6, FilesApart DEF FilesNext
<1>3. FilesInv /\ DeletionInv /\ LoggedFilesInv => DeletedIsGone
  <2> SUFFICES ASSUME DeletionInv, FilesInv, LoggedFilesInv, NEW i \in DOMAIN audit, audit[i].op = "delete_file",
                      audit[i].target \notin touched, ~BeingDeleted(audit[i].target)
               PROVE  ~Stat(audit[i].target) /\ audit[i].target \notin Recorded
    BY DEF DeletedIsGone
  <2>1. PICK k \in Keys : k = audit[i].target
    BY DEF LoggedFilesInv
  <2>2. DeletionLogged(k)
    BY <2>1 DEF DeletionLogged
  <2>3. \A w \in Workers : ~DeletionOf(req[w], k)
    BY <2>1 DEF BeingDeleted, DeletionOf, OfFile
  <2>4. DeletionOK(k)
    BY DeletionParts
  <2>5. record[k] = 0 /\ objects[k] = "none"
    BY <2>1, <2>2, <2>3, <2>4 DEF DeletionOK
  <2> QED
    BY <2>1, <2>5 DEF Stat, Recorded
<1> QED
  BY ShapeHolds, FilesTypesHold, <1>1, <1>2, <1>3, PTL DEF Spec

-----------------------------------------------------------------------------
(* Rooms *)

(* Every step of another component leaves the rooms alone, but for a kick  *)
(* that closes connections.                                                *)
LEMMA RoomsApart ==
  ASSUME Shape, [Next]_vars
  PROVE  \/ RoomsNext
         \/ /\ UNCHANGED <<tables, channel, got, sub, cur, ended, observed>>
            /\ conn' = conn \/ \E u : conn' = [c \in Conns |-> IF cur[u] = c THEN "closing" ELSE conn[c]]
            /\ \E ops : RoomOps \cap ops = {} /\ Leaves(ops)
<1> DEFINE Kept == /\ UNCHANGED <<tables, channel, got, sub, cur, ended, observed>>
                   /\ conn' = conn \/ \E u : conn' = [c \in Conns |-> IF cur[u] = c THEN "closing" ELSE conn[c]]
<1>1. UNCHANGED roomVars => Kept
  BY DEF roomVars, gateway
<1>2. CASE PresenceOnly /\ Leaves({})
  <2>1. UNCHANGED roomVars
    BY <1>2 DEF PresenceOnly, PresenceNext, SetUserConnectionOnline, SetOnlineFails, HandlerSets,
       SetUserConnectionOffline, SetOfflineFails, HandlerDeletes, Expire
  <2> QED
    BY <1>1, <1>2, <2>1
<1>3. CASE GovernanceOnly /\ Leaves(GovernanceOps)
  <2>1. ASSUME NEW w \in Workers, GovernanceStep(w) \/ ActionFails(w) PROVE Kept
    <3>1. CASE KickUser(w)
      BY <3>1 DEF KickUser
    <3> QED
      BY <1>1, <2>1, <3>1 DEF GovernanceStep, ActionFails, ReadLatest, ReadRow, CreateConfig, SaveRow, SaveConfig,
         SetUserOffline, LogAction
  <2>2. ASSUME NEW w, NEW q, BeginAction(w, q) PROVE Kept
    BY <1>1, <2>2 DEF BeginAction
  <2>3. ASSUME NEW size, AdminAuditList(size) \/ AdminAgentConfigHistory(size) PROVE Kept
    BY <1>1, <2>3 DEF AdminAuditList, AdminAgentConfigHistory, ReadPage
  <2>4. Kept
    BY <1>3, <2>1, <2>2, <2>3 DEF GovernanceOnly, GovernanceNext
  <2> QED
    BY <1>3, <2>4, OpsDisjoint
<1>4. CASE ViewsOnly /\ Leaves({"search"})
  <2>1. UNCHANGED roomVars
    BY <1>4 DEF ViewsOnly, ViewsNext, SearchStep, CheckIsMember, QueryIndex, QueryStore, SearchFails,
       BeginSearch, ArchiveMessage, IndexMessage
  <2> QED
    BY <1>1, <1>4, <2>1, OpsDisjoint
<1>5. CASE UNCHANGED vars /\ Leaves({})
  <2>1. UNCHANGED roomVars
    BY <1>5 DEF vars, chatVars
  <2> QED
    BY <1>1, <1>5, <2>1
<1>6. CASE (LoginOnly /\ Leaves(AccountOps)) \/ (FilesOnly /\ Leaves(FileOps))
  <2>1. UNCHANGED roomVars
    BY <1>6 DEF LoginOnly, FilesOnly, chatVars
  <2> QED
    BY <1>1, <1>6, <2>1, OpsDisjoint
<1> QED
  BY <1>2, <1>3, <1>4, <1>5, <1>6, Components DEF RoomsOnly

(* No row, and the row of a new room, are rows.                            *)
LEMMA RowOf == NoRow \in Row /\ \A u \in Users : Created(u) \in Row
BY DEF NoRow, Row, Created

(* What is saved is the row as it was acted on, or moderated besides.      *)
LEMMA WrittenRow ==
  ASSUME NEW q, q.row \in Row, q.target \in Users \cup {None}, NEW live
  PROVE  /\ Written(q, live) \in Row
         /\ Written(q, live).made = q.row.made /\ Written(q, live).deleted = q.row.deleted
         /\ Written(q, live).frozen = Acted(q.row, q).frozen
         /\ ~Written(q, live).moderated => Written(q, live) = Acted(q.row, q)
<1>1. /\ Acted(q.row, q) \in Row
      /\ Acted(q.row, q).made = q.row.made /\ Acted(q.row, q).deleted = q.row.deleted
  BY DEF Acted, Row
<1> QED
  BY <1>1 DEF Written, Row

(* The operations on rooms fall into these groups.                         *)
LEMMA RoomOpNames ==
  /\ RowActions \cup TargetActions \cup RoomService \subseteq RoomOps
  /\ {"agent_kick", "admin_disband"} \subseteq RoomOps
  /\ \A op \in RoomOps : \/ op \in RowActions \/ op \in TargetActions \/ op \in RoomService
                         \/ op = "agent_kick" \/ op = "admin_disband"
BY DEF RoomOps, AdminActions, RowActions, TargetActions, RoomService

(* A request on a room begins with reading or with writing.                *)
LEMMA RoomRequestBegins ==
  ASSUME RoomsInv, NEW r \in RoomIds, NEW q \in RoomRequests(r)
  PROVE  /\ RoomOK(q) /\ OfRoom(q)
         /\ q.row = NoRow /\ q.at \in {"read", "write"} /\ q.room = r
         /\ q.at = "write" => q.op \in {"create", "agent_kick"}
<1>1. ver[r] \in [Users -> Nat]
  BY DEF RoomsInv, RoomsTypeOK
<1>2. ASSUME NEW op \in RoomOps, NEW by \in Users \cup {None}, NEW target \in Users \cup {None},
             NEW at \in {"read", "write"}, op \in RoomService => target \in Users /\ by \in Users,
             at = "write" => op \in {"create", "agent_kick"}, op = "agent_kick" => target \in Users,
             q = RoomRequestOf(op, r, by, target, at)
      PROVE  /\ RoomOK(q) /\ OfRoom(q)
             /\ q.row = NoRow /\ q.at \in {"read", "write"} /\ q.room = r
             /\ q.at = "write" => q.op \in {"create", "agent_kick"}
  <2>1. q \in RoomRequest
    BY <1>1, <1>2, RowOf DEF RoomRequestOf, RoomRequest
  <2>2. /\ q.op = op /\ q.at = at /\ q.by = by /\ q.target = target /\ q.row = NoRow /\ q.room = r
        /\ q # Idle
    BY <1>2 DEF RoomRequestOf, Idle
  <2> QED
    BY <1>2, <2>1, <2>2 DEF RoomOK, OfRoom
<1>3. /\ \A op \in {"create", "join", "remove", "disband", "agent_kick", "admin_disband"} : op \in RoomOps
      /\ \A op \in RowActions \cup TargetActions \cup {"admin_disband"} :
            op \in RoomOps /\ op \notin RoomService /\ op # "agent_kick"
      /\ "agent_kick" \notin RoomService
  BY DEF RoomOps, AdminActions, RowActions, TargetActions, RoomService
<1>4. CASE q \in {createRoom(r, u) : u \in Users}
  BY <1>2, <1>3, <1>4 DEF createRoom
<1>5. CASE q \in {joinRoom(r, u) : u \in Users}
  BY <1>2, <1>3, <1>5 DEF joinRoom
<1>6. CASE q \in {disbandRoom(r, u) : u \in Users}
  BY <1>2, <1>3, <1>6 DEF disbandRoom
<1>7. CASE q \in {AgentKickUser(r, u) : u \in Users}
  BY <1>2, <1>3, <1>7 DEF AgentKickUser
<1>8. CASE q \in {removeMember(r, u, target) : u, target \in Users}
  BY <1>2, <1>3, <1>8 DEF removeMember
<1>9. CASE q \in {AdminRoomAction(op, r, None) : op \in RowActions} \cup {AdminDeleteRoom(r)}
  BY <1>2, <1>3, <1>9 DEF AdminRoomAction, AdminDeleteRoom
<1>10. CASE q \in {AdminRoomAction(op, r, target) : op \in TargetActions, target \in Users \cup {None}}
  BY <1>2, <1>3, <1>10 DEF AdminRoomAction
<1> QED
  BY <1>4, <1>5, <1>6, <1>7, <1>8, <1>9, <1>10 DEF RoomRequests

(* What each step makes of its request.                                    *)
LEMMA RoomSteps ==
  ASSUME Shape, RoomsInv, NEW w \in Workers, RoomStep(w) \/ RoomFails(w) \/ OwnerRoleFails(w),
         ver' \in [RoomIds -> [Users -> Nat]]
  PROVE  /\ OfRoom(req[w]) /\ RoomOK(req[w])
         /\ \A x \in Workers : x # w => req'[x] = req[x]
         /\ req'[w] # Idle =>
               /\ OfRoom(req'[w]) /\ RoomOK(req'[w])
               /\ req'[w].op = req[w].op /\ req'[w].room = req[w].room
               /\ req'[w].row = req[w].row \/ req'[w].row = room[req[w].room]
<1>1. OfRoom(req[w]) /\ RoomOK(req[w])
  BY DEF RoomStep, RoomFails, OwnerRoleFails, ReadRoom, ReadRole, CreateRoom, JoinRoom,
     RemoveMember, SoftDeleteRoom, SetAdmin, Saves, SaveRoom, OwnerRole, WriteAudit, Publish, CallHub,
     DisconnectUser, Tells, Writes, Doing, RoomOps, AdminActions, RowActions, TargetActions, OfRoom, RoomsInv
<1>2. /\ DOMAIN req[w] = {"op", "room", "by", "target", "row", "at", "ver"}
      /\ req[w].op \in RoomOps /\ req[w].room \in RoomIds /\ req[w].target \in Users \cup {None}
  BY <1>1 DEF RoomOK, RoomRequest
<1> DEFINE Conclusion ==
               /\ \A x \in Workers : x # w => req'[x] = req[x]
               /\ req'[w] # Idle =>
                     /\ OfRoom(req'[w]) /\ RoomOK(req'[w])
                     /\ req'[w].op = req[w].op /\ req'[w].room = req[w].room
                     /\ req'[w].row = req[w].row \/ req'[w].row = room[req[w].room]
<1>3. ASSUME Return(w) PROVE Conclusion
  BY <1>3 DEF Return, Shape
<1>4. ASSUME NEW q, req' = [req EXCEPT ![w] = q], RoomOK(q), q.op = req[w].op, q.room = req[w].room,
             q.row = req[w].row \/ q.row = room[req[w].room]
      PROVE  Conclusion
  BY <1>1, <1>4 DEF Shape, OfRoom
<1>5. ASSUME NEW at \in {"write", "role", "kick", "audit"}, Go(w, at),
             at = "role" => req[w].op = "transfer_owner" /\ req[w].target # None,
             at = "kick" => req[w].target \in Users
      PROVE  Conclusion
  <2> DEFINE q == [req[w] EXCEPT !.at = at]
  <2>1. req' = [req EXCEPT ![w] = q]
    BY <1>5 DEF Go
  <2>2. q \in RoomRequest
    BY <1>1, <1>2 DEF RoomOK, RoomRequest
  <2>3. /\ q.op = req[w].op /\ q.room = req[w].room /\ q.row = req[w].row /\ q.at = at
        /\ q.target = req[w].target /\ q.by = req[w].by
    BY <1>2
  <2> HIDE DEF q
  <2>4. RoomOK(q)
    BY <1>1, <1>2, <1>5, <2>2, <2>3 DEF RoomOK
  <2> QED
    BY <1>4, <2>1, <2>3, <2>4
<1>6. ASSUME GoTell(w), req[w].target \in Users \/ req[w].op = "admin_disband" PROVE Conclusion
  <2> DEFINE q == [req[w] EXCEPT !.at = "tell", !.ver = ver'[req[w].room]]
  <2>1. req' = [req EXCEPT ![w] = q]
    BY <1>6 DEF GoTell
  <2>2. ver'[req[w].room] \in [Users -> Nat]
    BY <1>2
  <2>3. q \in RoomRequest
    BY <1>1, <1>2, <2>2 DEF RoomOK, RoomRequest
  <2>4. /\ q.op = req[w].op /\ q.room = req[w].room /\ q.row = req[w].row /\ q.at = "tell"
        /\ q.target = req[w].target /\ q.by = req[w].by
    BY <1>2
  <2> HIDE DEF q
  <2>5. RoomOK(q)
    BY <1>1, <1>6, <2>3, <2>4 DEF RoomOK
  <2> QED
    BY <1>4, <2>1, <2>4, <2>5
<1>7. ASSUME ReadRoom(w) PROVE Conclusion
  <2>1. PICK at : at = AfterRead(req[w], room[req[w].room])
    OBVIOUS
  <2>2. at \in {"right", "write", "refused"} /\ (at = "right" => req[w].op \in {"disband", "remove"})
    BY <2>1 DEF AfterRead
  <2>3. CASE Live(req[w].room) /\ at # "refused"
    <3> DEFINE q == [req[w] EXCEPT !.row = room[req[w].room], !.at = at]
    <3>1. req' = [req EXCEPT ![w] = q]
      BY <1>7, <2>1, <2>3 DEF ReadRoom
    <3>2. room[req[w].room] \in Row
      BY <1>2 DEF RoomsInv, RoomsTypeOK
    <3>3. q \in RoomRequest
      BY <1>1, <1>2, <2>2, <2>3, <3>2 DEF RoomOK, RoomRequest
    <3>4. /\ q.op = req[w].op /\ q.room = req[w].room /\ q.row = room[req[w].room] /\ q.at = at
          /\ q.target = req[w].target /\ q.by = req[w].by
      BY <1>2
    <3> HIDE DEF q
    <3>5. RoomOK(q)
      BY <1>1, <2>2, <2>3, <3>3, <3>4 DEF RoomOK
    <3> QED
      BY <1>4, <3>1, <3>4, <3>5
  <2>4. CASE ~(Live(req[w].room) /\ at # "refused")
    BY <1>3, <1>7, <2>1, <2>4 DEF ReadRoom
  <2> QED
    BY <2>3, <2>4
<1>8. ASSUME CreateRoom(w) \/ JoinRoom(w) \/ SoftDeleteRoom(w) \/ RemoveMember(w) PROVE Conclusion
  <2>1. GoTell(w) \/ Return(w)
    BY <1>8 DEF CreateRoom, JoinRoom, SoftDeleteRoom, RemoveMember
  <2>2. req[w].op \in RoomService \cup {"admin_disband"} \/ req[w].target # None
    BY <1>8 DEF CreateRoom, JoinRoom, SoftDeleteRoom, RemoveMember, Writes, Doing, RoomService
  <2>3. req[w].target \in Users \/ req[w].op = "admin_disband"
    BY <1>1, <1>2, <2>2 DEF RoomOK
  <2> QED
    BY <1>3, <1>6, <2>1, <2>3
<1>9. ASSUME CallHub(w) PROVE Conclusion
  <2>1. req[w].at = "tell"
    BY <1>9 DEF CallHub, Tells, Doing
  <2>2. req[w].op = "agent_kick" => req[w].target \in Users
    BY <1>1, <2>1 DEF RoomOK
  <2> QED
    BY <1>5, <1>9, <2>2 DEF CallHub
<1>10. Conclusion
  BY <1>3, <1>5, <1>7, <1>8, <1>9 DEF RoomStep, RoomFails, OwnerRoleFails, ReadRole, SetAdmin, SaveRoom,
     OwnerRole, WriteAudit, Publish, DisconnectUser
<1> QED
  BY <1>1, <1>10

RoomTables ==
    /\ room \in [RoomIds -> Row] /\ member \in [RoomIds -> [Users -> 0..3]]
    /\ ver \in [RoomIds -> [Users -> Nat]]

GatewayTypes ==
    /\ conn \in [Conns -> {"new", "reading", "active", "closing", "gone"}]
    /\ got \in [Conns -> SUBSET RoomIds] /\ sub \in [Conns -> SUBSET RoomIds]
    /\ cur \in [Users -> Conns \cup {None}] /\ ended \in [Conns -> SUBSET RoomIds]
    /\ known \in [Conns -> [RoomIds -> Nat]] /\ cause \subseteq Conns \X RoomIds

(* The types of the rooms' tables, the gateway, the events and the         *)
(* requests.                                                               *)
LEMMA RoomsTyped ==
  RoomsInv <=> /\ RoomTables /\ GatewayTypes /\ channel \in Seq(Event)
               /\ \A w \in Workers : OfRoom(req[w]) => RoomOK(req[w])
BY DEF RoomsInv, RoomsTypeOK, RoomTables, GatewayTypes, OfRoom, RoomOK

(* Counting a change keeps the counters' types.                            *)
LEMMA ChangedTypes ==
  ASSUME ver \in [RoomIds -> [Users -> Nat]], NEW r \in RoomIds, NEW us, Changed(r, us)
  PROVE  ver' \in [RoomIds -> [Users -> Nat]]
<1> DEFINE row2 == [u \in Users |-> ver[r][u] + (IF u \in us THEN 1 ELSE 0)]
<1>1. ver' = [ver EXCEPT ![r] = row2]
  BY DEF Changed
<1>2. row2 \in [Users -> Nat]
  OBVIOUS
<1> QED
  BY <1>1, <1>2

(* The event of a request is an event.                                     *)
LEMMA EventTypes ==
  ASSUME NEW q, RoomOK(q), q.target \in Users
  PROVE  EventOf(q) \in Event
BY DEF EventOf, Event, RoomOK, RoomRequest

(* What the hub makes of news.                                             *)
LEMMA AppliedTypes ==
  ASSUME GatewayTypes, NEW e, Apply(e), e.room \in RoomIds, e.ver \in [Users -> Nat]
  PROVE  GatewayTypes'
<1>1. UserOf \in [Conns -> Users]
  BY RoomsAssumption
<1>2. sub' \in [Conns -> SUBSET RoomIds] /\ ended' \in [Conns -> SUBSET RoomIds]
  BY DEF GatewayTypes, Apply, Subscriptions
<1>3. known' \in [Conns -> [RoomIds -> Nat]]
  <2>1. \A c \in Conns : e.ver[UserOf[c]] \in Nat
    BY <1>1
  <2>2. \A c \in Conns : [known[c] EXCEPT ![e.room] = e.ver[UserOf[c]]] \in [RoomIds -> Nat]
    BY <2>1 DEF GatewayTypes
  <2> QED
    BY <2>2 DEF GatewayTypes, Apply
<1>4. cause' \subseteq Conns \X RoomIds
  <2>1. Overtaken(e) \subseteq Conns /\ PassedBy(e) \subseteq Conns
    BY DEF Overtaken, Reached, PassedBy, Concerns
  <2> QED
    BY <2>1 DEF GatewayTypes, Apply
<1> QED
  BY <1>2, <1>3, <1>4 DEF GatewayTypes, Apply

(* News that is not told is noted for connections and rooms.               *)
LEMMA UntoldTypes ==
  ASSUME cause \subseteq Conns \X RoomIds, NEW e, Untold(e), e.room \in RoomIds
  PROVE  cause' \subseteq Conns \X RoomIds
<1>1. UNION {Present(UserOf[d]) : d \in Concerns(e)} \subseteq Conns
  BY DEF Present
<1> QED
  BY <1>1 DEF Untold

(* Tables, events and requests are of their types.                         *)
LEMMA RoomStepTypes ==
  ASSUME Shape, RoomsInv, NEW w \in Workers, RoomStep(w) \/ RoomFails(w) \/ OwnerRoleFails(w)
  PROVE  RoomsInv'
<1>1. OfRoom(req[w]) /\ RoomOK(req[w])
  BY DEF RoomStep, RoomFails, OwnerRoleFails, ReadRoom, ReadRole, CreateRoom, JoinRoom,
     RemoveMember, SoftDeleteRoom, SetAdmin, Saves, SaveRoom, OwnerRole, WriteAudit, Publish, CallHub,
     DisconnectUser, Tells, Writes, Doing, RoomOps, AdminActions, RowActions, TargetActions, OfRoom, RoomsInv
<1>2. /\ req[w].op \in RoomOps /\ req[w].room \in RoomIds /\ req[w].target \in Users \cup {None}
      /\ req[w].row \in Row /\ req[w].by \in Users \cup {None} /\ req[w].ver \in [Users -> Nat]
  BY <1>1 DEF RoomOK, RoomRequest
<1>3. RoomTables /\ GatewayTypes /\ channel \in Seq(Event)
  BY RoomsTyped
<1> DEFINE r == req[w].room
<1>4. RoomTables'
  <2>1. ASSUME room' = room, member' = member, ver' = ver PROVE RoomTables'
    BY <1>3, <2>1 DEF RoomTables
  <2>2. ASSUME NEW us, Changed(r, us) \/ ver' = ver,
               NEW x \in Row, room' = room \/ room' = [room EXCEPT ![r] = x],
               NEW u \in Users, NEW n \in 0..3, member' = member \/ member' = [member EXCEPT ![r][u] = n]
        PROVE  RoomTables'
    <3>1. room' \in [RoomIds -> Row]
      BY <1>2, <1>3, <2>2 DEF RoomTables
    <3>2. ver' \in [RoomIds -> [Users -> Nat]]
      BY <1>2, <1>3, <2>2, ChangedTypes DEF RoomTables
    <3>3. member' \in [RoomIds -> [Users -> 0..3]]
      <4>1. member[r] \in [Users -> 0..3] /\ member \in [RoomIds -> [Users -> 0..3]]
        BY <1>2, <1>3 DEF RoomTables
      <4>2. [member[r] EXCEPT ![u] = n] \in [Users -> 0..3]
        BY <4>1
      <4>3. member' = member \/ member' = [member EXCEPT ![r] = [member[r] EXCEPT ![u] = n]]
        BY <2>2
      <4> QED
        BY <1>2, <4>1, <4>2, <4>3
    <3> QED
      BY <3>1, <3>2, <3>3 DEF RoomTables
  <2>3. CASE CreateRoom(w)
    <3>1. req[w].by \in Users
      BY <1>1, <2>3 DEF CreateRoom, Writes, Doing, RoomOK, RoomService
    <3>2. /\ room' = [room EXCEPT ![r] = Created(req[w].by)]
          /\ member' = [member EXCEPT ![r][req[w].by] = 2] /\ Changed(r, {req[w].by})
      BY <2>3 DEF CreateRoom
    <3>3. Created(req[w].by) \in Row /\ 2 \in 0..3
      BY <3>1, RowOf
    <3> QED
      BY <2>2, <3>1, <3>2, <3>3
  <2>4. CASE JoinRoom(w)
    <3>1. req[w].by \in Users
      BY <1>1, <2>4 DEF JoinRoom, Writes, Doing, RoomOK, RoomService
    <3>2. /\ room' = room
          /\ member' = member \/ member' = [member EXCEPT ![r][req[w].by] = 1]
          /\ Changed(r, {req[w].by}) \/ ver' = ver
      BY <2>4 DEF JoinRoom
    <3>3. NoRow \in Row /\ 1 \in 0..3
      BY RowOf
    <3> QED
      BY <2>2, <3>1, <3>2, <3>3
  <2>5. CASE RemoveMember(w)
    <3>1. req[w].target \in Users
      BY <1>2, <2>5 DEF RemoveMember
    <3>2. /\ room' = room
          /\ member' = member \/ member' = [member EXCEPT ![r][req[w].target] = 0]
          /\ Changed(r, {req[w].target}) \/ ver' = ver
      BY <2>5 DEF RemoveMember
    <3>3. NoRow \in Row /\ 0 \in 0..3
      BY RowOf
    <3> QED
      BY <2>2, <3>1, <3>2, <3>3
  <2>6. CASE SoftDeleteRoom(w)
    <3>1. room' = [room EXCEPT ![r].deleted = TRUE] /\ member' = member
          /\ Changed(r, IF Live(r) THEN Users ELSE {})
      BY <2>6 DEF SoftDeleteRoom
    <3>2. room' \in [RoomIds -> Row]
      BY <1>2, <1>3, <3>1 DEF RoomTables, Row
    <3>3. ver' \in [RoomIds -> [Users -> Nat]]
      BY <1>2, <1>3, <3>1, ChangedTypes DEF RoomTables
    <3> QED
      BY <1>3, <3>1, <3>2, <3>3 DEF RoomTables
  <2>7. CASE SetAdmin(w)
    <3>1. req[w].target \in Users /\ room' = room /\ ver' = ver
      BY <1>2, <2>7 DEF SetAdmin, observed
    <3>2. PICK n \in 0..3 : member' = [member EXCEPT ![r][req[w].target] = n]
      <4> DEFINE n == IF member[r][req[w].target] > 0 THEN 2 ELSE 0
      <4>1. member' = [member EXCEPT ![r][req[w].target] = n]
        BY <2>7 DEF SetAdmin
      <4>2. n \in 0..3
        OBVIOUS
      <4> HIDE DEF n
      <4> QED
        BY <4>1, <4>2
    <3> QED
      BY <2>2, <3>1, <3>2, RowOf
  <2>8. CASE SaveRoom(w)
    <3>1. Written(req[w], Live(r)) \in Row
      BY <1>2, WrittenRow
    <3>2. /\ room' = [room EXCEPT ![r] = Written(req[w], Live(r))] /\ member' = member
          /\ Changed(r, IF Live(r) THEN {} ELSE Users)
      BY <2>8 DEF SaveRoom
    <3>3. room' \in [RoomIds -> Row]
      BY <1>2, <1>3, <3>1, <3>2 DEF RoomTables
    <3>4. ver' \in [RoomIds -> [Users -> Nat]]
      BY <1>2, <1>3, <3>2, ChangedTypes DEF RoomTables
    <3> QED
      BY <1>3, <3>2, <3>3, <3>4 DEF RoomTables
  <2>9. CASE OwnerRole(w)
    <3>1. req[w].target \in Users /\ room' = room /\ ver' = ver
      BY <1>1, <2>9 DEF OwnerRole, Doing, RoomOK, observed
    <3>2. PICK n \in 0..3 : member' = [member EXCEPT ![r][req[w].target] = n]
      <4> DEFINE n == IF member[r][req[w].target] > 0 THEN 3 ELSE 0
      <4>1. member' = [member EXCEPT ![r][req[w].target] = n]
        BY <2>9 DEF OwnerRole
      <4>2. n \in 0..3
        OBVIOUS
      <4> HIDE DEF n
      <4> QED
        BY <4>1, <4>2
    <3> QED
      BY <2>2, <3>1, <3>2, RowOf
  <2>10. CASE ReadRoom(w) \/ ReadRole(w) \/ WriteAudit(w) \/ Publish(w) \/ CallHub(w) \/ DisconnectUser(w)
              \/ RoomFails(w) \/ OwnerRoleFails(w)
    BY <2>1, <2>10 DEF ReadRoom, ReadRole, WriteAudit, Publish, CallHub, DisconnectUser, RoomFails,
       OwnerRoleFails, roomVars, tables, observed, Apply
  <2> QED
    BY <2>3, <2>4, <2>5, <2>6, <2>7, <2>8, <2>9, <2>10 DEF RoomStep
<1>5. EventOf(req[w]).room = req[w].room /\ EventOf(req[w]).ver = req[w].ver
  BY DEF EventOf
<1>6. GatewayTypes'
  <2>1. CASE CallHub(w)
    BY <1>2, <1>3, <1>5, <2>1, AppliedTypes DEF CallHub
  <2>2. CASE SaveRoom(w)
    <3>1. cause' \subseteq Conns \X RoomIds
      <4>1. PICK us : cause' = cause \cup {<<c, r>> : c \in UNION {Present(u) : u \in us}}
        BY <2>2 DEF SaveRoom
      <4>2. UNION {Present(u) : u \in us} \subseteq Conns
        BY DEF Present
      <4> QED
        BY <1>2, <1>3, <4>1, <4>2 DEF GatewayTypes
    <3> QED
      BY <1>3, <2>2, <3>1 DEF SaveRoom, GatewayTypes, gateway
  <2>3. CASE RoomFails(w)
    <3>1. cause' \subseteq Conns \X RoomIds
      BY <1>2, <1>3, <1>5, <2>3, UntoldTypes DEF RoomFails, GatewayTypes
    <3> QED
      BY <1>3, <2>3, <3>1 DEF RoomFails, GatewayTypes, gateway
  <2>4. CASE DisconnectUser(w)
    <3>1. conn' \in [Conns -> {"new", "reading", "active", "closing", "gone"}]
      BY <1>3, <2>4 DEF DisconnectUser, GatewayTypes
    <3> QED
      BY <1>3, <2>4, <3>1 DEF DisconnectUser, GatewayTypes, observed
  <2>5. CASE UNCHANGED <<gateway, known, cause>>
    BY <1>3, <2>5 DEF GatewayTypes, gateway
  <2> QED
    BY <2>1, <2>2, <2>3, <2>4, <2>5 DEF RoomStep, OwnerRoleFails, ReadRoom, ReadRole, CreateRoom, JoinRoom,
       RemoveMember, SoftDeleteRoom, SetAdmin, OwnerRole, WriteAudit, Publish, roomVars, observed
<1>7. channel' \in Seq(Event)
  <2>1. CASE Publish(w)
    <3>1. EventOf(req[w]) \in Event
      <4>1. req[w].target \in Users
        BY <1>1, <2>1 DEF Publish, RoomOK
      <4> QED
        BY <1>1, <4>1, EventTypes
    <3>2. channel' = Append(channel, EventOf(req[w]))
      BY <2>1 DEF Publish
    <3> QED
      BY <1>3, <3>1, <3>2
  <2>2. CASE channel' = channel
    BY <1>3, <2>2
  <2> QED
    BY <2>1, <2>2 DEF RoomStep, RoomFails, OwnerRoleFails, ReadRoom, ReadRole, CreateRoom, JoinRoom,
       RemoveMember, SoftDeleteRoom, SetAdmin, SaveRoom, OwnerRole, WriteAudit, CallHub, DisconnectUser, roomVars
<1>8. \A x \in Workers : OfRoom(req'[x]) => RoomOK(req'[x])
  <2>1. ver' \in [RoomIds -> [Users -> Nat]]
    BY <1>4 DEF RoomTables
  <2>2. /\ \A x \in Workers : x # w => req'[x] = req[x]
        /\ req'[w] # Idle => RoomOK(req'[w])
    BY <2>1, RoomSteps
  <2> QED
    BY <2>2 DEF RoomsInv, OfRoom
<1>9. \A q : OfRoom(q)' <=> OfRoom(q)
  BY DEF OfRoom
<1> HIDE DEF r
<1> QED
  BY <1>4, <1>6, <1>7, <1>8 DEF RoomsInv, RoomsTypeOK, RoomTables, GatewayTypes, OfRoom, RoomOK

(* A connection's step keeps the types.                                    *)
LEMMA ConnStepTypes ==
  ASSUME RoomsInv, NEW c \in Conns, ConnStep(c)
  PROVE  RoomsInv'
<1>1. RoomTables /\ GatewayTypes /\ channel \in Seq(Event)
  BY RoomsTyped
<1>2. RoomTables' /\ channel' = channel /\ req' = req
  BY <1>1 DEF ConnStep, ReadRooms, Register, UpgradeFails, Unregister, RoomTables, tables, observed
<1>3. UserOf[c] \in Users
  BY RoomsAssumption
<1>4. GatewayTypes'
  <2>1. CASE ReadRooms(c)
    <3>1. GetUserRoomIDs(UserOf[c]) \subseteq RoomIds
      BY DEF GetUserRoomIDs
    <3>2. [r \in RoomIds |-> ver[r][UserOf[c]]] \in [RoomIds -> Nat]
      BY <1>1, <1>3 DEF RoomTables
    <3> QED
      BY <1>1, <2>1, <3>1, <3>2 DEF ReadRooms, GatewayTypes
  <2>2. CASE Register(c)
    BY <1>1, <1>3, <2>2 DEF Register, GatewayTypes, observed
  <2>3. CASE UpgradeFails(c)
    BY <1>1, <2>3 DEF UpgradeFails, GatewayTypes
  <2>4. CASE Unregister(c)
    BY <1>1, <2>4 DEF Unregister, GatewayTypes, observed
  <2> QED
    BY <2>1, <2>2, <2>3, <2>4 DEF ConnStep
<1> QED
  BY <1>1, <1>2, <1>4 DEF RoomsInv, RoomsTypeOK, RoomTables, GatewayTypes, OfRoom, RoomOK

(* So does an event that is handled or lost.                               *)
LEMMA EventStepTypes ==
  ASSUME RoomsInv, HandleEvent \/ LoseEvent
  PROVE  RoomsInv'
<1>1. RoomTables /\ GatewayTypes /\ channel \in Seq(Event)
  BY RoomsTyped
<1>2. RoomTables' /\ req' = req /\ channel # << >> /\ channel' = Tail(channel)
  BY <1>1 DEF HandleEvent, LoseEvent, RoomTables, tables, Apply
<1>3. channel' \in Seq(Event) /\ Head(channel) \in Event
  BY <1>1, <1>2
<1>4. Head(channel).room \in RoomIds /\ Head(channel).ver \in [Users -> Nat]
  BY <1>3 DEF Event
<1>5. CASE HandleEvent
  <2>1. GatewayTypes'
    BY <1>1, <1>4, <1>5, AppliedTypes DEF HandleEvent
  <2> QED
    BY <1>1, <1>2, <1>3, <2>1 DEF RoomsInv, RoomsTypeOK, RoomTables, GatewayTypes, OfRoom, RoomOK
<1>6. CASE LoseEvent
  <2>1. cause' \subseteq Conns \X RoomIds
    BY <1>1, <1>4, <1>6, UntoldTypes DEF LoseEvent, GatewayTypes
  <2>2. GatewayTypes'
    BY <1>1, <1>6, <2>1 DEF LoseEvent, GatewayTypes, gateway
  <2> QED
    BY <1>1, <1>2, <1>3, <2>2 DEF RoomsInv, RoomsTypeOK, RoomTables, GatewayTypes, OfRoom, RoomOK
<1> QED
  BY <1>5, <1>6

(* Rooms, members, events, subscriptions and the requests about them are   *)
(* of their types: an event that is published names its user, a request    *)
(* that must tell the hub of somebody has somebody to tell it of.          *)
THEOREM RoomsTypesHold == Spec => []RoomsInv
<1>1. Init => RoomsInv
  <2> SUFFICES ASSUME Init PROVE RoomsInv
    OBVIOUS
  <2>1. /\ room \in [RoomIds -> {NoRow} \cup {Created(u) : u \in Users}]
        /\ member \in [RoomIds -> [Users -> 0..2]]
        /\ channel = << >>
        /\ conn = [c \in Conns |-> "new"]
        /\ got = [c \in Conns |-> {}]
        /\ sub = [c \in Conns |-> {}]
        /\ cur = [u \in Users |-> None] /\ ended = [c \in Conns |-> {}]
        /\ ver = [r \in RoomIds |-> [u \in Users |-> 0]]
        /\ known = [c \in Conns |-> [r \in RoomIds |-> 0]]
        /\ cause = {}
        /\ req = [w \in Workers |-> Idle]
    BY DEF Init, RoomsInit, RequestsInit
  <2>2. RoomTables
    <3>1. room \in [RoomIds -> Row]
      <4>1. {NoRow} \cup {Created(u) : u \in Users} \subseteq Row
        BY RowOf
      <4> QED
        BY <2>1, <4>1
    <3>2. member \in [RoomIds -> [Users -> 0..3]]
      BY <2>1
    <3> QED
      BY <2>1, <3>1, <3>2 DEF RoomTables
  <2>3. GatewayTypes
    BY <2>1 DEF GatewayTypes
  <2> QED
    BY <2>1, <2>2, <2>3, RoomsTyped DEF OfRoom
<1>2. Shape /\ LoadInv /\ RoomsInv /\ [Next]_vars => RoomsInv'
  <2> SUFFICES ASSUME Shape, LoadInv, RoomsInv, [Next]_vars PROVE RoomsInv'
    OBVIOUS
  <2>1. ASSUME NEW w \in Workers, RoomStep(w) \/ RoomFails(w) \/ OwnerRoleFails(w) PROVE RoomsInv'
    BY <2>1, RoomStepTypes
  <2>2. ASSUME NEW w \in Workers, NEW r \in load.rooms, NEW q \in RoomRequests(r), BeginRoom(w, q)
        PROVE  RoomsInv'
    <3>1. r \in RoomIds
      BY RoomsAssumption DEF LoadInv
    <3>2. RoomOK(q)
      BY <3>1, RoomRequestBegins
    <3>3. req' = [req EXCEPT ![w] = q] /\ UNCHANGED roomVars
      BY <2>2 DEF BeginRoom, Arrives
    <3>4. \A x \in Workers : OfRoom(req'[x]) => RoomOK(req'[x])
      BY <3>2, <3>3 DEF Shape, RoomsInv
    <3> QED
      BY <3>3, <3>4 DEF RoomsInv, RoomsTypeOK, OfRoom, RoomOK, roomVars, tables, gateway, observed
  <2>3. ASSUME NEW ops, RoomOps \cap ops = {}, Leaves(ops),
               UNCHANGED <<tables, channel, got, sub, cur, ended, observed>>,
               conn' \in [Conns -> {"new", "reading", "active", "closing", "gone"}]
        PROVE  RoomsInv'
    <3>1. \A x \in Workers : OfRoom(req'[x]) => RoomOK(req'[x])
      BY <2>3 DEF Leaves, Mine, OfRoom, RoomsInv
    <3> QED
      BY <2>3, <3>1 DEF RoomsInv, RoomsTypeOK, OfRoom, RoomOK, tables, observed
  <2>4. ASSUME conn' = conn \/ \E u : conn' = [c \in Conns |-> IF cur[u] = c THEN "closing" ELSE conn[c]]
        PROVE  conn' \in [Conns -> {"new", "reading", "active", "closing", "gone"}]
    BY <2>4 DEF RoomsInv, RoomsTypeOK
  <2> QED
    BY <2>1, <2>2, <2>3, <2>4, RoomsApart, ConnStepTypes, EventStepTypes DEF RoomsNext
<1> QED
  BY ShapeHolds, LoadHolds, <1>1, <1>2, PTL DEF Spec

(* What the log says stays said.                                           *)
LEMMA LoggedStays ==
  ASSUME Shape, NEW op, NEW r, Logged(op, r), audit' = audit \/ \E e : audit' = Append(audit, e)
  PROVE  Logged(op, r)'
<1>1. PICK S : audit \in Seq(S)
  BY DEF Shape
<1>2. PICK i \in DOMAIN audit : audit[i].op = op /\ audit[i].target = r
  BY DEF Logged
<1>3. i \in DOMAIN audit' /\ audit'[i] = audit[i]
  BY <1>1, <1>2
<1> QED
  BY <1>2, <1>3 DEF Logged

(* A step that logs leaves an entry of its request.                        *)
LEMMA LogLogs ==
  ASSUME Shape, NEW q, Log(Entry(q))
  PROVE  Logged(q.op, q.room)'
<1>1. PICK S : audit \in Seq(S)
  BY DEF Shape
<1>2. audit' = Append(audit, Entry(q))
  BY DEF Log
<1>3. Len(audit) + 1 \in DOMAIN audit' /\ audit'[Len(audit) + 1] = Entry(q)
  BY <1>1, <1>2
<1>4. Entry(q).op = q.op /\ Entry(q).target = q.room
  BY DEF Entry
<1> QED
  BY <1>3, <1>4 DEF Logged

(* A step that lets every action that is about to be logged be so.         *)
LEMMA ExplainedStays ==
  ASSUME Shape, audit' = audit \/ \E e : audit' = Append(audit, e),
         \A w \in Workers : \A op, r :
            OfRoom(req[w]) /\ req[w].op = op /\ req[w].room = r /\ req[w].at = "audit"
               => req'[w] = req[w] \/ Logged(op, r)'
  PROVE  \A op, r : Explained(op, r) => Explained(op, r)'
<1> SUFFICES ASSUME NEW op, NEW r, Explained(op, r) PROVE Explained(op, r)'
  OBVIOUS
<1>1. CASE Logged(op, r)
  BY <1>1, LoggedStays DEF Explained
<1>2. ASSUME NEW w \in Workers, OfRoom(req[w]), req[w].op = op, req[w].room = r, req[w].at = "audit"
      PROVE  Explained(op, r)'
  BY <1>2 DEF Explained
<1> QED
  BY <1>1, <1>2 DEF Explained

(* What keeps the tables explained by the log.                             *)
LEMMA ExplainedKept ==
  ASSUME ExplainedInv, faults = 0,
         \A op, r : Explained(op, r) => Explained(op, r)',
         \A r : Logged("transfer_owner", r) => Logged("transfer_owner", r)',
         \A r \in RoomIds :
            /\ room'[r].frozen => room[r].frozen \/ Explained("freeze", r)'
            /\ ~room'[r].moderated => ~room[r].moderated \/ Explained("moderation_disable", r)'
            /\ \A u \in Users : member'[r][u] = 3 => member[r][u] = 3 \/ Logged("transfer_owner", r)',
         \A w \in Workers : OfRoom(req'[w]) =>
            \/ OfRoom(req[w]) /\ req'[w].row = req[w].row /\ req'[w].room = req[w].room
            \/ req'[w].row = room[req'[w].room] /\ req'[w].room \in RoomIds
            \/ req'[w].row = NoRow
  PROVE  ExplainedInv'
<1>1. ASSUME NEW r \in RoomIds
      PROVE  /\ room'[r].frozen => Explained("freeze", r)'
             /\ ~room'[r].moderated => Explained("moderation_disable", r)'
             /\ (\E u \in Users : member'[r][u] = 3) => Logged("transfer_owner", r)'
  BY DEF ExplainedInv
<1>2. ASSUME NEW w \in Workers, OfRoom(req'[w]), NEW r, r = req'[w].room
      PROVE  /\ req'[w].row.frozen => Explained("freeze", r)'
             /\ ~req'[w].row.moderated => Explained("moderation_disable", r)'
  <2>1. CASE OfRoom(req[w]) /\ req'[w].row = req[w].row /\ req'[w].room = req[w].room
    <3>1. /\ req'[w].row.frozen => Explained("freeze", r)
          /\ ~req'[w].row.moderated => Explained("moderation_disable", r)
      BY <1>2, <2>1 DEF ExplainedInv
    <3> QED
      BY <3>1
  <2>2. CASE req'[w].row = room[r] /\ r \in RoomIds
    <3>1. /\ req'[w].row.frozen => Explained("freeze", r)
          /\ ~req'[w].row.moderated => Explained("moderation_disable", r)
      BY <1>2, <2>2 DEF ExplainedInv
    <3> QED
      BY <3>1
  <2>3. CASE req'[w].row = NoRow
    BY <2>3 DEF NoRow
  <2> QED
    BY <1>2, <2>1, <2>2, <2>3
<1>3. ASSUME NEW w \in Workers, OfRoom(req'[w])
      PROVE  /\ req'[w].row.frozen => Explained("freeze", req[w].room)'
             /\ ~req'[w].row.moderated => Explained("moderation_disable", req[w].room)'
  <2>1. PICK r : r = req'[w].room
    OBVIOUS
  <2>2. /\ req'[w].row.frozen => Explained("freeze", r)'
        /\ ~req'[w].row.moderated => Explained("moderation_disable", r)'
    BY <1>2, <1>3, <2>1
  <2> QED
    BY <2>1, <2>2 DEF Explained, Logged
<1> QED
  BY <1>1, <1>3 DEF ExplainedInv, OfRoom

(* A fault is counted.                                                     *)
LEMMA FaultSeen == Shape /\ Fault => faults' # 0
BY DEF Shape, Fault

(* A step of a request that does not fail.                                 *)
LEMMA ExplainedStep ==
  ASSUME Shape, RoomsInv, RoomsInv', ExplainedInv, faults = 0, NEW w \in Workers, RoomStep(w)
  PROVE  ExplainedInv'
<1>1. /\ OfRoom(req[w]) /\ RoomOK(req[w])
      /\ \A x \in Workers : x # w => req'[x] = req[x]
      /\ req'[w] # Idle =>
            /\ OfRoom(req'[w]) /\ RoomOK(req'[w])
            /\ req'[w].op = req[w].op /\ req'[w].room = req[w].room
            /\ req'[w].row = req[w].row \/ req'[w].row = room[req[w].room]
  BY RoomSteps DEF RoomsInv, RoomsTypeOK
<1>2. PICK r \in RoomIds : r = req[w].room
  BY <1>1 DEF RoomOK, RoomRequest
<1>3. RoomTables
  BY RoomsTyped
<1>4. DOMAIN req[w] = {"op", "room", "by", "target", "row", "at", "ver"}
  BY <1>1 DEF RoomOK, RoomRequest
<1>5. audit' = audit \/ \E e : audit' = Append(audit, e)
  BY DEF RoomStep, ReadRoom, ReadRole, CreateRoom, JoinRoom, RemoveMember, SoftDeleteRoom, SetAdmin, SaveRoom,
     OwnerRole, WriteAudit, Publish, CallHub, DisconnectUser, Quietly, Log
<1>6. \A op, s : Explained(op, s) => Explained(op, s)'
  <2>1. req[w].at = "audit" => WriteAudit(w)
    BY DEF RoomStep, ReadRoom, ReadRole, CreateRoom, JoinRoom, RemoveMember, SoftDeleteRoom, SetAdmin, Saves,
       SaveRoom, OwnerRole, Publish, CallHub, DisconnectUser, Tells, Writes, Doing
  <2>2. ASSUME NEW op, NEW s, req[w].op = op, req[w].room = s, WriteAudit(w) PROVE Logged(op, s)'
    <3>1. PICK q : q = req[w]
      OBVIOUS
    <3>2. Logged(q.op, q.room)'
      BY <2>2, <3>1, LogLogs DEF WriteAudit
    <3> QED
      BY <2>2, <3>1, <3>2
  <2>3. \A x \in Workers : \A op, s :
            OfRoom(req[x]) /\ req[x].op = op /\ req[x].room = s /\ req[x].at = "audit"
               => req'[x] = req[x] \/ Logged(op, s)'
    BY <1>1, <2>1, <2>2
  <2> QED
    BY <1>5, <2>3, ExplainedStays
<1>7. \A s : Logged("transfer_owner", s) => Logged("transfer_owner", s)'
  BY <1>5, LoggedStays
<1>8. \A x \in Workers : OfRoom(req'[x]) =>
            \/ OfRoom(req[x]) /\ req'[x].row = req[x].row /\ req'[x].room = req[x].room
            \/ req'[x].row = room[req'[x].room] /\ req'[x].room \in RoomIds
            \/ req'[x].row = NoRow
  <2> SUFFICES ASSUME NEW x \in Workers, OfRoom(req'[x])
               PROVE  \/ OfRoom(req[x]) /\ req'[x].row = req[x].row /\ req'[x].room = req[x].room
                      \/ req'[x].row = room[req'[x].room] /\ req'[x].room \in RoomIds
    OBVIOUS
  <2>1. CASE x # w
    BY <1>1, <2>1
  <2>2. CASE x = w
    BY <1>1, <1>2, <2>2 DEF OfRoom
  <2> QED
    BY <2>1, <2>2
<1> DEFINE RowsKept == \A s \in RoomIds :
                          /\ room'[s].frozen => room[s].frozen \/ Explained("freeze", s)'
                          /\ ~room'[s].moderated => ~room[s].moderated \/ Explained("moderation_disable", s)'
           OwnersKept == \A s \in RoomIds, u \in Users :
                            member'[s][u] = 3 => member[s][u] = 3 \/ Logged("transfer_owner", s)'
<1>9. RowsKept
  <2>1. CASE room' = room
    BY <2>1
  <2>2. CASE CreateRoom(w)
    <3>1. room' = [room EXCEPT ![r] = Created(req[w].by)]
      BY <1>2, <2>2 DEF CreateRoom
    <3>2. ~Created(req[w].by).frozen /\ Created(req[w].by).moderated
      BY DEF Created, NoRow
    <3> QED
      BY <1>3, <3>1, <3>2 DEF RoomTables
  <2>3. CASE SoftDeleteRoom(w)
    <3>1. room' = [room EXCEPT ![r].deleted = TRUE]
      BY <1>2, <2>3 DEF SoftDeleteRoom
    <3>2. \A s \in RoomIds : room'[s].frozen = room[s].frozen /\ room'[s].moderated = room[s].moderated
      BY <1>3, <3>1 DEF RoomTables, Row
    <3> QED
      BY <3>2
  <2>4. CASE SaveRoom(w)
    <3>1. /\ room' = [room EXCEPT ![r] = Written(req[w], Live(r))]
          /\ Go(w, IF req[w].op = "transfer_owner" /\ req[w].target # None THEN "role" ELSE "audit")
      BY <1>2, <2>4 DEF SaveRoom
    <3>2. \A s \in RoomIds : s # r => room'[s] = room[s]
      BY <1>3, <3>1 DEF RoomTables
    <3>4. req[w].row \in Row /\ req[w].target \in Users \cup {None}
      BY <1>1 DEF RoomOK, RoomRequest
    <3>3. /\ room'[r].frozen = Acted(req[w].row, req[w]).frozen
          /\ ~room'[r].moderated => ~Acted(req[w].row, req[w]).moderated
      BY <1>3, <3>1, <3>4, WrittenRow DEF RoomTables
    <3>5. CASE req[w].op \in {"freeze", "moderation_disable"}
      <4>1. req'[w] = [req[w] EXCEPT !.at = "audit"]
        BY <3>1, <3>5 DEF Go, Shape
      <4>2. req'[w].op = req[w].op /\ req'[w].room = r /\ req'[w].at = "audit" /\ req'[w] # Idle
        BY <1>2, <1>4, <4>1 DEF Idle
      <4>3. /\ req[w].op = "freeze" => Explained("freeze", r)'
            /\ req[w].op = "moderation_disable" => Explained("moderation_disable", r)'
        BY <1>1, <4>2 DEF Explained, OfRoom
      <4>4. /\ req[w].op = "freeze" /\ ~room'[r].moderated => ~req[w].row.moderated
            /\ req[w].op = "moderation_disable" => room'[r].frozen = req[w].row.frozen
        BY <3>3, <3>4 DEF Acted, Row
      <4>5. /\ req[w].row.frozen => Explained("freeze", r)'
            /\ ~req[w].row.moderated => Explained("moderation_disable", r)'
        BY <1>1, <1>2, <1>6 DEF ExplainedInv
      <4> QED
        BY <3>2, <3>5, <4>3, <4>4, <4>5
    <3>6. CASE req[w].op \notin {"freeze", "moderation_disable"}
      <4>1. /\ room'[r].frozen => req[w].row.frozen
            /\ ~room'[r].moderated => ~req[w].row.moderated
        BY <3>3, <3>4, <3>6 DEF Acted, Row
      <4>2. /\ req[w].row.frozen => Explained("freeze", r)'
            /\ ~req[w].row.moderated => Explained("moderation_disable", r)'
        BY <1>1, <1>2, <1>6 DEF ExplainedInv
      <4> QED
        BY <3>2, <4>1, <4>2
    <3> QED
      BY <3>5, <3>6
  <2> QED
    BY <2>1, <2>2, <2>3, <2>4 DEF RoomStep, ReadRoom, ReadRole, JoinRoom, RemoveMember, SetAdmin, OwnerRole,
       WriteAudit, Publish, CallHub, DisconnectUser, roomVars, tables
<1>10. OwnersKept
  <2>1. CASE member' = member
    BY <2>1
  <2>2. CASE OwnerRole(w)
    <3>0. PICK q : q = req[w]
      OBVIOUS
    <3>1. Logged("transfer_owner", r)'
      <4>1. q.op = "transfer_owner" /\ q.room = r /\ Log(Entry(q))
        BY <1>1, <1>2, <2>2, <3>0 DEF OwnerRole, Doing, RoomOK
      <4> QED
        BY <4>1, LogLogs
    <3>2. \A s \in RoomIds : s # r => member'[s] = member[s]
      BY <1>2, <1>3, <2>2 DEF OwnerRole, RoomTables
    <3> QED
      BY <3>1, <3>2
  <2>3. ASSUME NEW u, NEW n \in 0..2, member' = [member EXCEPT ![r][u] = n] PROVE OwnersKept
    <3>1. \A s \in RoomIds, v \in Users : member'[s][v] = member[s][v] \/ member'[s][v] = n
      BY <1>3, <2>3 DEF RoomTables
    <3> QED
      BY <3>1
  <2>4. CASE CreateRoom(w) \/ JoinRoom(w) \/ RemoveMember(w) \/ SetAdmin(w)
    <3>1. member' = member \/ \E u, n : n \in 0..2 /\ member' = [member EXCEPT ![r][u] = n]
      <4>1. CASE CreateRoom(w) \/ JoinRoom(w) \/ RemoveMember(w)
        <5>1. \/ member' = member \/ member' = [member EXCEPT ![r][req[w].by] = 2]
              \/ member' = [member EXCEPT ![r][req[w].by] = 1]
              \/ member' = [member EXCEPT ![r][req[w].target] = 0]
          BY <1>2, <4>1 DEF CreateRoom, JoinRoom, RemoveMember
        <5>2. 0 \in 0..2 /\ 1 \in 0..2 /\ 2 \in 0..2
          OBVIOUS
        <5> QED
          BY <5>1, <5>2
      <4>2. CASE SetAdmin(w)
        <5>1. member' = [member EXCEPT ![r][req[w].target] = IF member[r][req[w].target] > 0 THEN 2 ELSE 0]
          BY <1>2, <4>2 DEF SetAdmin
        <5>2. (IF member[r][req[w].target] > 0 THEN 2 ELSE 0) \in 0..2
          OBVIOUS
        <5> QED
          BY <5>1, <5>2
      <4> QED
        BY <2>4, <4>1, <4>2
    <3> QED
      BY <2>1, <2>3, <3>1
  <2> QED
    BY <2>1, <2>2, <2>4 DEF RoomStep, ReadRoom, ReadRole, SoftDeleteRoom, SaveRoom,
       WriteAudit, Publish, CallHub, DisconnectUser, roomVars, tables
<1> QED
  BY <1>6, <1>7, <1>8, <1>9, <1>10, ExplainedKept

(* What only an administrator's action leaves in the tables of the rooms   *)
(* is in the log when no action is under way: an action writes what it     *)
(* read back, and what it read was explained by the log already, or by an  *)
(* action that is still to be logged.                                      *)
THEOREM AuditExplainsTablesHolds == Spec => []AuditExplainsTables
<1>1. Init => ExplainedInv
  <2> SUFFICES ASSUME Init PROVE ExplainedInv
    OBVIOUS
  <2>1. /\ room \in [RoomIds -> {NoRow} \cup {Created(u) : u \in Users}]
        /\ member \in [RoomIds -> [Users -> 0..2]]
        /\ req = [w \in Workers |-> Idle]
    BY DEF Init, RoomsInit, RequestsInit
  <2>2. \A r \in RoomIds : ~room[r].frozen /\ room[r].moderated
    <3>1. ~NoRow.frozen /\ NoRow.moderated /\ \A u : ~Created(u).frozen /\ Created(u).moderated
      BY DEF NoRow, Created
    <3> QED
      BY <2>1, <3>1
  <2>3. \A r \in RoomIds, u \in Users : member[r][u] # 3
    BY <2>1
  <2> QED
    BY <2>1, <2>2, <2>3 DEF ExplainedInv, OfRoom
<1>2. Shape /\ LoadInv /\ RoomsInv /\ RoomsInv' /\ ExplainedInv /\ [Next]_vars => ExplainedInv'
  <2> SUFFICES ASSUME Shape, LoadInv, RoomsInv, RoomsInv', ExplainedInv, [Next]_vars, faults' = 0
               PROVE  ExplainedInv'
    BY DEF ExplainedInv
  <2>1. faults = 0
    BY Components DEF Shape, Leaves
  <2>2. ASSUME NEW w \in Workers, RoomStep(w) PROVE ExplainedInv'
    BY <2>1, <2>2, ExplainedStep
  <2>3. ASSUME Fault PROVE FALSE
    BY <2>3, FaultSeen
  <2>4. ASSUME UNCHANGED tables, audit' = audit \/ \E e : audit' = Append(audit, e),
               \A w \in Workers : OfRoom(req[w]) \/ OfRoom(req'[w]) => req'[w] = req[w]
        PROVE  ExplainedInv'
    <3>1. \A op, r : Explained(op, r) => Explained(op, r)'
      BY <2>4, ExplainedStays
    <3>2. \A r : Logged("transfer_owner", r) => Logged("transfer_owner", r)'
      BY <2>4, LoggedStays
    <3>3. room' = room /\ member' = member
      BY <2>4 DEF tables
    <3> QED
      BY <2>1, <2>4, <3>1, <3>2, <3>3, ExplainedKept
  <2>5. ASSUME NEW w \in Workers, NEW r \in load.rooms, NEW q \in RoomRequests(r), BeginRoom(w, q)
        PROVE  ExplainedInv'
    <3>1. r \in RoomIds
      BY RoomsAssumption DEF LoadInv
    <3>2. q.row = NoRow
      BY <3>1, RoomRequestBegins
    <3>3. req' = [req EXCEPT ![w] = q] /\ req[w] = Idle /\ audit' = audit /\ room' = room /\ member' = member
      BY <2>5 DEF BeginRoom, Arrives, Free, roomVars, tables
    <3>4. \A x \in Workers : /\ OfRoom(req[x]) => req'[x] = req[x]
                             /\ req'[x] = req[x] \/ req'[x] = q
      BY <3>3 DEF Shape, OfRoom
    <3>5. \A op, s : Explained(op, s) => Explained(op, s)'
      BY <3>3, <3>4, ExplainedStays
    <3>6. \A s : Logged("transfer_owner", s) => Logged("transfer_owner", s)'
      BY <3>3, LoggedStays
    <3>7. \A x \in Workers : OfRoom(req'[x]) =>
             (OfRoom(req[x]) /\ req'[x].row = req[x].row /\ req'[x].room = req[x].room) \/ req'[x].row = NoRow
      BY <3>2, <3>4
    <3> QED
      BY <2>1, <3>3, <3>5, <3>6, <3>7, ExplainedKept
  <2>6. ASSUME HandleEvent \/ \E c \in Conns : ConnStep(c) PROVE ExplainedInv'
    <3>1. req' = req /\ audit' = audit /\ UNCHANGED tables
      BY <2>6 DEF HandleEvent, ConnStep, ReadRooms, Register, UpgradeFails, Unregister, Quietly
    <3> QED
      BY <2>4, <3>1
  <2>7. ASSUME NEW ops, RoomOps \cap ops = {}, Leaves(ops), UNCHANGED tables PROVE ExplainedInv'
    BY <2>4, <2>7 DEF Leaves, Mine, OfRoom
  <2> QED
    BY <2>2, <2>3, <2>5, <2>6, <2>7, RoomsApart DEF RoomsNext, RoomFails, OwnerRoleFails, LoseEvent
<1>3. Shape /\ RoomsInv /\ ExplainedInv => AuditExplainsTables
  BY DEF ExplainedInv, AuditExplainsTables, Explained, Quiet, Resting, OfRoom
<1> QED
  BY ShapeHolds, LoadHolds, RoomsTypesHold, <1>1, <1>2, <1>3, PTL DEF Spec

-----------------------------------------------------------------------------
(* What a gateway knows of its rooms.  A request on a room that is past    *)
(* its commit, and an event that is published, are news under way; ver and *)
(* known say of which change the news is and a connection's view.          *)
News ==
    {channel[i] : i \in DOMAIN channel}
    \cup {EventOf(req[w]) : w \in {x \in Workers : Tells(x)}}

(* A disbanded room is news to everybody, anything else to one user.       *)
NewsTo(e, u) == e.type = "disbanded" \/ e.user = u

(* No news is of a change that was not made yet; news of the newest one    *)
(* says what the tables say.                                               *)
NewsIsTrue(e, u) ==
    /\ e.ver[u] <= ver[e.room][u]
    /\ e.ver[u] = ver[e.room][u]
         => IF e.type = "disbanded" THEN room[e.room].deleted
                                    ELSE e.type = "joined" <=> member[e.room][u] > 0

(* A connection whose rooms were read, or the one the hub has for a user.  *)
Served(c) == conn[c] = "reading" \/ (Registered(c) /\ cur[UserOf[c]] = c)

(* Its rooms: what was read, until it is registered with it.               *)
RoomsOf(c) == IF conn[c] = "reading" THEN got[c] ELSE sub[c]

(* The rooms its user has a row in, but for those it was told are gone.    *)
Expected(c, r) == member[r][UserOf[c]] > 0 /\ ~(room[r].deleted /\ r \in ended[c])

UpToDate(c, r) ==
    /\ known[c][r] = ver[r][UserOf[c]]
    /\ r \in RoomsOf(c) <=> Expected(c, r)

ToldSoon(c, r) ==
    /\ known[c][r] < ver[r][UserOf[c]]
    /\ \E e \in News : e.room = r /\ NewsTo(e, UserOf[c]) /\ e.ver[UserOf[c]] = ver[r][UserOf[c]]

(* A request reads a row that is made and not deleted, and none but the    *)
(* one that creates it comes before the room; who creates or joins does so *)
(* for himself.                                                            *)
RowSeen(q) ==
    /\ ~q.row.deleted
    /\ q.op # "create" => room[q.room].made
    /\ q.op \in RowActions \cup TargetActions /\ q.at # "read" => q.row.made
    /\ q.op \in {"create", "join"} => q.target = q.by

HubFinds == \A u \in Users : cur[u] # None => UserOf[cur[u]] = u /\ Registered(cur[u])

GoneWasMade == \A r \in RoomIds : room[r].deleted => room[r].made

RowsSeen == \A w \in Workers : OfRoom(req[w]) => RowSeen(req[w])

NewsTrue == \A e \in News, u \in Users : NewsTo(e, u) => NewsIsTrue(e, u)

FollowsTable(c, r) ==
    Served(c) /\ <<c, r>> \notin cause => UpToDate(c, r) \/ ToldSoon(c, r)

ViewsFollow == \A c \in Conns, r \in RoomIds : FollowsTable(c, r)

SubscribedInv == HubFinds /\ GoneWasMade /\ RowsSeen /\ NewsTrue /\ ViewsFollow

(* News is of a room and a user, and has versions for all users.           *)
LEMMA NewsTyped ==
  ASSUME RoomsInv
  PROVE  \A e \in News : /\ e.room \in RoomIds /\ e.ver \in [Users -> Nat]
                         /\ e.type # "disbanded" => e.user \in Users
<1>1. ASSUME NEW i \in DOMAIN channel
      PROVE  channel[i].room \in RoomIds /\ channel[i].ver \in [Users -> Nat] /\ channel[i].user \in Users
  <2>1. channel \in Seq(Event)
    BY DEF RoomsInv, RoomsTypeOK
  <2>2. channel[i] \in Event
    BY <1>1, <2>1
  <2> QED
    BY <2>2 DEF Event
<1>2. ASSUME NEW w \in Workers, Tells(w)
      PROVE  /\ EventOf(req[w]).room \in RoomIds /\ EventOf(req[w]).ver \in [Users -> Nat]
             /\ EventOf(req[w]).type # "disbanded" => EventOf(req[w]).user \in Users
  <2>1. RoomOK(req[w]) /\ req[w].at = "tell"
    BY <1>2 DEF RoomsInv, OfRoom, Tells, Doing
  <2>2. req[w] \in RoomRequest
    BY <2>1 DEF RoomOK
  <2>3. req[w].op = "admin_disband" => EventOf(req[w]).type = "disbanded"
    BY DEF EventOf
  <2> QED
    BY <2>1, <2>2, <2>3 DEF EventOf, RoomRequest, RoomOK
<1> QED
  BY <1>1, <1>2 DEF News

(* A request's step changes the news by what it tells, or is to tell.      *)
LEMMA NewsOfStep ==
  ASSUME NEW w \in Workers, channel' = channel, \A x \in Workers : x # w => req'[x] = req[x]
  PROVE  /\ \A e \in News : e \in News' \/ (Tells(w) /\ e = EventOf(req[w]))
         /\ \A e \in News' : e \in News \/ (Tells(w)' /\ e = EventOf(req'[w]))
BY DEF News, Tells, Doing

(* What changes neither the news, nor the rows, nor what a connection's    *)
(* rooms are, leaves the views as they are.                                *)
LEMMA ViewsKept ==
  ASSUME NewsTrue, ViewsFollow, News \subseteq News', News' \subseteq News, ver' = ver, known' = known,
         cause \subseteq cause',
         RoomsInv,
         \A r \in RoomIds : room'[r].deleted = room[r].deleted, ended' = ended,
         \A r \in RoomIds, u \in Users : member'[r][u] > 0 <=> member[r][u] > 0,
         \A c \in Conns : Served(c)' => Served(c) /\ RoomsOf(c)' = RoomsOf(c)
  PROVE  NewsTrue' /\ ViewsFollow'
<1>1. UserOf \in [Conns -> Users]
  BY RoomsAssumption
<1>2. NewsTrue'
  BY NewsTyped DEF NewsTrue, NewsTo, NewsIsTrue
<1>3. ViewsFollow'
  <2> SUFFICES ASSUME NEW c \in Conns, NEW r \in RoomIds, FollowsTable(c, r) PROVE FollowsTable(c, r)'
    BY DEF ViewsFollow
  <2>1. UpToDate(c, r) /\ Served(c)' => UpToDate(c, r)'
    BY <1>1 DEF UpToDate, Expected
  <2>2. ToldSoon(c, r) => ToldSoon(c, r)'
    BY DEF ToldSoon, NewsTo
  <2> QED
    BY <2>1, <2>2 DEF FollowsTable
<1> QED
  BY <1>2, <1>3

(* News that gets lost is noted for all it would have reached.             *)
LEMMA ViewsUntold ==
  ASSUME RoomsInv, NewsTrue, ViewsFollow, NEW e \in News, Untold(e),
         News' \subseteq News, \A x \in News : x \in News' \/ x = e,
         UNCHANGED <<tables, gateway, ver, known>>
  PROVE  NewsTrue' /\ ViewsFollow'
<1>1. UserOf \in [Conns -> Users]
  BY RoomsAssumption
<1>2. NewsTrue'
  BY NewsTyped DEF NewsTrue, NewsTo, NewsIsTrue, tables
<1>3. ViewsFollow'
  <2> SUFFICES ASSUME NEW c \in Conns, NEW r \in RoomIds, FollowsTable(c, r) PROVE FollowsTable(c, r)'
    BY DEF ViewsFollow
  <2>1. (Served(c)' <=> Served(c)) /\ RoomsOf(c)' = RoomsOf(c) /\ (UpToDate(c, r)' <=> UpToDate(c, r))
    BY DEF Served, Registered, RoomsOf, UpToDate, Expected, gateway, tables
  <2>2. Served(c) => c \in Present(UserOf[c])
    BY DEF Served, Present
  <2>3. Served(c) /\ e.room = r /\ NewsTo(e, UserOf[c]) => <<c, r>> \in cause'
    <3>1. NewsTo(e, UserOf[c]) => c \in Concerns(e)
      BY DEF NewsTo, Concerns
    <3> QED
      BY <2>2, <3>1 DEF Untold
  <2>4. ToldSoon(c, r) => ToldSoon(c, r)' \/ (e.room = r /\ NewsTo(e, UserOf[c]))
    BY DEF ToldSoon, NewsTo
  <2>5. cause \subseteq cause'
    BY DEF Untold
  <2> QED
    BY <2>1, <2>3, <2>4, <2>5 DEF FollowsTable, tables
<1> QED
  BY <1>2, <1>3

(* What the hub makes of news: who is reached has the news' view; who is   *)
(* overtaken or passed by is noted.                                        *)
LEMMA ViewsApplied ==
  ASSUME RoomsInv, HubFinds, NewsTrue, ViewsFollow, NEW e \in News, Apply(e),
         News' \subseteq News, \A x \in News : x \in News' \/ x = e,
         UNCHANGED tables
  PROVE  NewsTrue' /\ ViewsFollow'
<1>1. UserOf \in [Conns -> Users]
  BY RoomsAssumption
<1>2. /\ ver \in [RoomIds -> [Users -> Nat]] /\ known \in [Conns -> [RoomIds -> Nat]]
      /\ sub \in [Conns -> SUBSET RoomIds] /\ ended \in [Conns -> SUBSET RoomIds]
  BY DEF RoomsInv, RoomsTypeOK
<1>3. e.room \in RoomIds /\ e.ver \in [Users -> Nat]
  BY NewsTyped
<1>4. /\ conn' = conn /\ got' = got /\ cur' = cur /\ ver' = ver /\ room' = room /\ member' = member
      /\ cause' = cause \cup {<<c, e.room>> : c \in Overtaken(e) \cup PassedBy(e)}
      /\ sub' = Subscriptions(e)
      /\ known' = [c \in Conns |-> IF c \in Reached(e)
                                   THEN [known[c] EXCEPT ![e.room] = e.ver[UserOf[c]]]
                                   ELSE known[c]]
      /\ ended' = [c \in Conns |-> IF c \notin Reached(e) THEN ended[c]
                                   ELSE IF e.type = "disbanded" THEN ended[c] \cup {e.room}
                                   ELSE ended[c] \ {e.room}]
  BY DEF Apply, tables
<1>5. NewsTrue'
  BY <1>4, NewsTyped DEF NewsTrue, NewsTo, NewsIsTrue
<1>6. ViewsFollow'
  <2> SUFFICES ASSUME NEW c \in Conns, NEW r \in RoomIds, FollowsTable(c, r), Served(c),
                      <<c, r>> \notin cause'
               PROVE  UpToDate(c, r)' \/ ToldSoon(c, r)'
    BY <1>4 DEF ViewsFollow, FollowsTable, Served, Registered
  <2> DEFINE u == UserOf[c]
  <2>1. u \in Users /\ ver[r][u] \in Nat /\ known[c][r] \in Nat /\ e.ver[u] \in Nat
    BY <1>1, <1>2, <1>3
  <2>2. UpToDate(c, r) \/ ToldSoon(c, r)
    BY <1>4 DEF FollowsTable
  <2>3. known[c][r] <= ver[r][u]
    BY <2>1, <2>2 DEF UpToDate, ToldSoon
  <2>4. ToldSoon(c, r) => \/ known[c][r] < ver[r][u] /\ \E x \in News' : x.room = r /\ NewsTo(x, u) /\ x.ver[u] = ver[r][u]
                          \/ e.room = r /\ NewsTo(e, u) /\ e.ver[u] = ver[r][u] /\ known[c][r] < ver[r][u]
    BY DEF ToldSoon
  <2>5. CASE c \notin Reached(e)
    <3>1. known'[c] = known[c] /\ RoomsOf(c)' = RoomsOf(c) /\ ended'[c] = ended[c]
      BY <1>4, <2>5 DEF RoomsOf, Subscriptions
    <3>2. UpToDate(c, r) => UpToDate(c, r)'
      BY <1>4, <3>1 DEF UpToDate, Expected
    <3>3. ~(e.room = r /\ NewsTo(e, u) /\ e.ver[u] = ver[r][u] /\ known[c][r] < ver[r][u])
      <4>1. NewsTo(e, u) => conn[c] = "reading"
        BY <1>1, <2>5 DEF NewsTo, Served, Reached, HubFinds, Registered
      <4>2. NewsTo(e, u) => c \in Concerns(e)
        BY DEF NewsTo, Concerns
      <4> QED
        BY <1>4, <4>1, <4>2 DEF PassedBy
    <3> QED
      BY <1>4, <2>2, <2>4, <3>1, <3>2, <3>3 DEF ToldSoon, NewsTo
  <2>6. CASE c \in Reached(e) /\ e.room # r
    <3>1. /\ known'[c][r] = known[c][r] /\ (r \in RoomsOf(c)' <=> r \in RoomsOf(c))
          /\ r \in ended'[c] <=> r \in ended[c]
      BY <1>2, <1>3, <1>4, <2>6 DEF RoomsOf, Subscriptions
    <3>2. UpToDate(c, r) => UpToDate(c, r)'
      BY <1>4, <3>1 DEF UpToDate, Expected
    <3> QED
      BY <1>4, <2>2, <2>4, <2>6, <3>1, <3>2 DEF ToldSoon, NewsTo
  <2>7. CASE c \in Reached(e) /\ e.room = r
    <3>1. NewsTo(e, u) /\ conn[c] # "reading"
      <4>1. Registered(c)
        BY <2>7 DEF Reached
      <4>2. e.type # "disbanded" => cur[e.user] = c
        BY <2>7 DEF Reached
      <4>3. cur[u] = c
        BY <4>1 DEF Served, Registered
      <4>4. e.type # "disbanded" => e.user = u
        BY <4>2, NewsTyped, RoomsAssumption DEF HubFinds
      <4> QED
        BY <4>1, <4>4 DEF NewsTo, Registered
    <3>2. known'[c][r] = e.ver[u] /\ RoomsOf(c)' = Subscriptions(e)[c]
      <4>1. known'[c] = [known[c] EXCEPT ![r] = e.ver[u]] /\ known[c] \in [RoomIds -> Nat]
        BY <1>2, <1>4, <2>7
      <4> QED
        BY <1>4, <3>1, <4>1 DEF RoomsOf
    <3>3. known[c][r] <= e.ver[u]
      <4>1. c \notin Overtaken(e)
        BY <1>4, <2>7
      <4> QED
        BY <2>1, <2>7, <4>1 DEF Overtaken
    <3>4. /\ e.ver[u] <= ver[r][u]
          /\ e.ver[u] = ver[r][u] => IF e.type = "disbanded" THEN room[r].deleted
                                                             ELSE e.type = "joined" <=> member[r][u] > 0
      BY <1>4, <2>1, <2>7, <3>1 DEF NewsTrue, NewsIsTrue
    <3>5. CASE e.ver[u] = ver[r][u]
      <4>1. r \in RoomsOf(c)' <=> e.type = "joined"
        BY <2>7, <3>2 DEF Subscriptions
      <4>2. r \in ended'[c] <=> e.type = "disbanded"
        BY <1>2, <1>4, <2>7
      <4>3. r \in RoomsOf(c)' <=> Expected(c, r)'
        BY <1>4, <3>4, <3>5, <4>1, <4>2 DEF Expected
      <4> QED
        BY <1>4, <3>2, <3>5, <4>3 DEF UpToDate
    <3>6. CASE e.ver[u] < ver[r][u]
      <4>1. \E x \in News' : x.room = r /\ NewsTo(x, u) /\ x.ver[u] = ver[r][u]
        BY <2>1, <2>2, <2>4, <3>3, <3>6 DEF UpToDate
      <4> QED
        BY <1>4, <3>2, <3>6, <4>1 DEF ToldSoon, NewsTo
    <3> QED
      BY <2>1, <3>4, <3>5, <3>6
  <2> QED
    BY <2>5, <2>6, <2>7
<1> QED
  BY <1>5, <1>6

(* A change counts for the users it is of.                                 *)
LEMMA ChangedCounts ==
  ASSUME ver \in [RoomIds -> [Users -> Nat]], NEW r \in RoomIds, NEW us, Changed(r, us)
  PROVE  /\ \A x \in RoomIds : x # r => ver'[x] = ver[x]
         /\ \A u \in Users : ver'[r][u] = IF u \in us THEN ver[r][u] + 1 ELSE ver[r][u]
<1> DEFINE row2 == [u \in Users |-> ver[r][u] + (IF u \in us THEN 1 ELSE 0)]
<1>1. ver' = [ver EXCEPT ![r] = row2]
  BY DEF Changed
<1>2. \A u \in Users : row2[u] = IF u \in us THEN ver[r][u] + 1 ELSE ver[r][u]
  OBVIOUS
<1> HIDE DEF row2
<1>3. ver'[r] = row2 /\ \A x \in RoomIds : x # r => ver'[x] = ver[x]
  BY <1>1
<1> QED
  BY <1>2, <1>3

(* A user's row in a room changes, or is as it should be, and the request  *)
(* is to tell of it.                                                       *)
LEMMA ViewsOfRow ==
  ASSUME RoomsInv, NewsTrue, ViewsFollow, NEW r \in RoomIds, NEW u \in Users, NEW e \in News',
         News \subseteq News', \A x \in News' : x \in News \/ x = e,
         e.room = r, e.user = u, e.ver = ver'[r], e.type # "disbanded",
         e.type = "joined" <=> member'[r][u] > 0,
         Changed(r, {u}) \/ (ver' = ver /\ (member'[r][u] > 0 <=> member[r][u] > 0)),
         \A x \in RoomIds, v \in Users : <<x, v>> # <<r, u>> => member'[x][v] = member[x][v],
         \A x \in RoomIds : room'[x].deleted = room[x].deleted,
         UNCHANGED <<gateway, known, cause>>
  PROVE  NewsTrue' /\ ViewsFollow'
<1>1. UserOf \in [Conns -> Users]
  BY RoomsAssumption
<1>2. /\ ver \in [RoomIds -> [Users -> Nat]] /\ known \in [Conns -> [RoomIds -> Nat]]
  BY DEF RoomsInv, RoomsTypeOK
<1>3. /\ \A x \in RoomIds, v \in Users : <<x, v>> # <<r, u>> => ver'[x][v] = ver[x][v]
      /\ ver'[r][u] = ver[r][u] + 1 \/ (ver'[r][u] = ver[r][u] /\ (member'[r][u] > 0 <=> member[r][u] > 0))
  BY <1>2, ChangedCounts
<1>4. NewsTrue'
  <2> SUFFICES ASSUME NEW x \in News', NEW v \in Users, NewsTo(x, v)
               PROVE  NewsIsTrue(x, v)'
    BY DEF NewsTrue, NewsTo
  <2>1. CASE x = e
    <3>1. v = u
      BY <2>1 DEF NewsTo
    <3>2. ver'[r][u] \in Nat
      BY <1>2, <1>3
    <3> QED
      BY <2>1, <3>1, <3>2 DEF NewsIsTrue
  <2>2. CASE x \in News
    <3>1. NewsIsTrue(x, v) /\ x.room \in RoomIds /\ x.ver \in [Users -> Nat]
      BY <2>2, NewsTyped DEF NewsTrue
    <3>2. ver[x.room][v] \in Nat /\ x.ver[v] \in Nat
      BY <1>2, <3>1
    <3>3. CASE <<x.room, v>> # <<r, u>>
      BY <1>3, <3>1, <3>3 DEF NewsIsTrue
    <3>4. CASE x.room = r /\ v = u
      BY <1>3, <3>1, <3>2, <3>4 DEF NewsIsTrue
    <3> QED
      BY <3>3, <3>4
  <2> QED
    BY <2>1, <2>2
<1>5. ViewsFollow'
  <2> SUFFICES ASSUME NEW c \in Conns, NEW s \in RoomIds, FollowsTable(c, s) PROVE FollowsTable(c, s)'
    BY DEF ViewsFollow
  <2>1. (Served(c)' <=> Served(c)) /\ RoomsOf(c)' = RoomsOf(c)
    BY DEF Served, Registered, RoomsOf, gateway
  <2>2. UserOf[c] \in Users /\ known[c][s] \in Nat /\ ver[s][UserOf[c]] \in Nat
    BY <1>1, <1>2
  <2>3. CASE <<s, UserOf[c]>> # <<r, u>> \/ ver'[r][u] = ver[r][u]
    <3>1. ver'[s][UserOf[c]] = ver[s][UserOf[c]] /\ (member'[s][UserOf[c]] > 0 <=> member[s][UserOf[c]] > 0)
      BY <1>2, <1>3, <2>2, <2>3
    <3>2. UpToDate(c, s) => UpToDate(c, s)'
      BY <2>1, <3>1 DEF UpToDate, Expected, gateway
    <3>3. ToldSoon(c, s) => ToldSoon(c, s)'
      BY <3>1 DEF ToldSoon, NewsTo
    <3> QED
      BY <2>1, <3>2, <3>3 DEF FollowsTable
  <2>4. CASE s = r /\ UserOf[c] = u /\ ver'[r][u] = ver[r][u] + 1
    <3>1. UpToDate(c, s) \/ ToldSoon(c, s) => ToldSoon(c, s)'
      BY <2>2, <2>4 DEF UpToDate, ToldSoon, NewsTo
    <3> QED
      BY <2>1, <3>1 DEF FollowsTable
  <2> QED
    BY <1>3, <2>3, <2>4
<1> QED
  BY <1>4, <1>5

(* A room is disbanded: everybody is to be told, unless it was already.    *)
LEMMA ViewsOfDisband ==
  ASSUME RoomsInv, NewsTrue, ViewsFollow, NEW r \in RoomIds, NEW e \in News',
         (Changed(r, Users) /\ ~room[r].deleted) \/ (Changed(r, {}) /\ room[r].deleted),
         News \subseteq News', \A x \in News' : x \in News \/ x = e,
         e.room = r, e.ver = ver'[r], e.type = "disbanded",
         room'[r].deleted, \A x \in RoomIds : x # r => room'[x] = room[x],
         UNCHANGED <<member, gateway, known, cause>>
  PROVE  NewsTrue' /\ ViewsFollow'
<1>1. UserOf \in [Conns -> Users]
  BY RoomsAssumption
<1>2. ver \in [RoomIds -> [Users -> Nat]] /\ known \in [Conns -> [RoomIds -> Nat]]
  BY DEF RoomsInv, RoomsTypeOK
<1>3. /\ \A x \in RoomIds : x # r => ver'[x] = ver[x]
      /\ \/ \A u \in Users : ver'[r][u] = ver[r][u] + 1
         \/ room[r].deleted /\ \A u \in Users : ver'[r][u] = ver[r][u]
  <2>1. CASE Changed(r, Users)
    BY <1>2, <2>1, ChangedCounts
  <2>2. CASE Changed(r, {}) /\ room[r].deleted
    BY <1>2, <2>2, ChangedCounts
  <2> QED
    BY <2>1, <2>2
<1>4. NewsTrue'
  <2> SUFFICES ASSUME NEW x \in News', NEW v \in Users, NewsTo(x, v)
               PROVE  NewsIsTrue(x, v)'
    BY DEF NewsTrue, NewsTo
  <2>1. CASE x = e
    <3>1. ver'[r][v] \in Nat
      BY <1>2, <1>3
    <3> QED
      BY <2>1, <3>1 DEF NewsIsTrue
  <2>2. CASE x \in News
    <3>1. NewsIsTrue(x, v) /\ x.room \in RoomIds /\ x.ver \in [Users -> Nat]
      BY <2>2, NewsTyped DEF NewsTrue
    <3>2. ver[x.room][v] \in Nat /\ x.ver[v] \in Nat
      BY <1>2, <3>1
    <3>3. CASE x.room # r
      BY <1>3, <3>1, <3>3 DEF NewsIsTrue
    <3>4. CASE x.room = r
      BY <1>3, <3>1, <3>2, <3>4 DEF NewsIsTrue
    <3> QED
      BY <3>3, <3>4
  <2> QED
    BY <2>1, <2>2
<1>5. ViewsFollow'
  <2> SUFFICES ASSUME NEW c \in Conns, NEW s \in RoomIds, FollowsTable(c, s) PROVE FollowsTable(c, s)'
    BY DEF ViewsFollow
  <2>1. (Served(c)' <=> Served(c)) /\ RoomsOf(c)' = RoomsOf(c) /\ ended' = ended
    BY DEF Served, Registered, RoomsOf, gateway
  <2>2. UserOf[c] \in Users /\ known[c][s] \in Nat /\ ver[s][UserOf[c]] \in Nat
    BY <1>1, <1>2
  <2>3. CASE ver'[s][UserOf[c]] = ver[s][UserOf[c]] /\ (room'[s].deleted <=> room[s].deleted)
    <3>1. UpToDate(c, s) => UpToDate(c, s)'
      BY <2>1, <2>3 DEF UpToDate, Expected
    <3>2. ToldSoon(c, s) => ToldSoon(c, s)'
      BY <2>3 DEF ToldSoon, NewsTo
    <3> QED
      BY <2>1, <3>1, <3>2 DEF FollowsTable
  <2>4. CASE s = r /\ ver'[r][UserOf[c]] = ver[r][UserOf[c]] + 1
    <3>1. UpToDate(c, s) \/ ToldSoon(c, s) => ToldSoon(c, s)'
      BY <2>2, <2>4 DEF UpToDate, ToldSoon, NewsTo
    <3> QED
      BY <2>1, <3>1 DEF FollowsTable
  <2> QED
    BY <1>3, <2>2, <2>3, <2>4
<1> QED
  BY <1>4, <1>5

(* A disbanded room comes back: that is newer than all news of it, and     *)
(* noted for everybody.                                                    *)
LEMMA ViewsOfReturn ==
  ASSUME RoomsInv, NewsTrue, ViewsFollow, NEW r \in RoomIds, Changed(r, Users), News' = News,
         \A x \in RoomIds : x # r => room'[x] = room[x],
         cause' = cause \cup {<<c, r>> : c \in UNION {Present(u) : u \in Users}},
         UNCHANGED <<member, gateway, known>>
  PROVE  NewsTrue' /\ ViewsFollow'
<1>1. UserOf \in [Conns -> Users]
  BY RoomsAssumption
<1>2. ver \in [RoomIds -> [Users -> Nat]]
  BY DEF RoomsInv, RoomsTypeOK
<1>3. /\ \A x \in RoomIds : x # r => ver'[x] = ver[x]
      /\ \A u \in Users : ver'[r][u] = ver[r][u] + 1
  BY <1>2, ChangedCounts
<1>4. NewsTrue'
  <2> SUFFICES ASSUME NEW x \in News, NEW v \in Users, NewsTo(x, v)
               PROVE  NewsIsTrue(x, v)'
    BY DEF NewsTrue, NewsTo
  <2>1. NewsIsTrue(x, v) /\ x.room \in RoomIds /\ x.ver \in [Users -> Nat]
    BY NewsTyped DEF NewsTrue
  <2>2. ver[x.room][v] \in Nat /\ x.ver[v] \in Nat
    BY <1>2, <2>1
  <2>3. CASE x.room # r
    BY <1>3, <2>1, <2>3 DEF NewsIsTrue
  <2>4. CASE x.room = r
    BY <1>3, <2>1, <2>2, <2>4 DEF NewsIsTrue
  <2> QED
    BY <2>3, <2>4
<1>5. ViewsFollow'
  <2> SUFFICES ASSUME NEW c \in Conns, NEW s \in RoomIds, FollowsTable(c, s) PROVE FollowsTable(c, s)'
    BY DEF ViewsFollow
  <2>1. (Served(c)' <=> Served(c)) /\ RoomsOf(c)' = RoomsOf(c) /\ cause \subseteq cause' /\ ended' = ended
    BY DEF Served, Registered, RoomsOf, gateway
  <2>2. CASE s # r
    <3>1. ver'[s] = ver[s] /\ room'[s] = room[s]
      BY <1>3, <2>2
    <3>2. (UpToDate(c, s) => UpToDate(c, s)') /\ (ToldSoon(c, s) => ToldSoon(c, s)')
      BY <2>1, <3>1 DEF UpToDate, Expected, ToldSoon, NewsTo
    <3> QED
      BY <2>1, <3>2 DEF FollowsTable
  <2>3. CASE s = r
    <3>1. Served(c) => c \in Present(UserOf[c])
      BY DEF Served, Present
    <3> QED
      BY <1>1, <2>1, <2>3, <3>1 DEF FollowsTable
  <2> QED
    BY <2>2, <2>3
<1> QED
  BY <1>4, <1>5

(* Disconnecting whom the hub has for a user leaves him registered, with   *)
(* his rooms.                                                              *)
LEMMA ViewsOfKicked ==
  ASSUME RoomsInv, HubFinds, UNCHANGED <<got, sub, cur>>,
         conn' = conn \/ \E u : conn' = [c \in Conns |-> IF cur[u] = c THEN "closing" ELSE conn[c]]
  PROVE  HubFinds' /\ \A c \in Conns : Served(c)' => Served(c) /\ RoomsOf(c)' = RoomsOf(c)
<1>1. ASSUME NEW c \in Conns, Registered(c) PROVE Registered(c)'
  BY <1>1 DEF Registered
<1>2. HubFinds'
  <2> SUFFICES ASSUME NEW u \in Users, cur[u] # None
               PROVE  UserOf[cur[u]] = u /\ Registered(cur[u])'
    BY DEF HubFinds, Registered
  <2>1. UserOf[cur[u]] = u /\ Registered(cur[u])
    BY DEF HubFinds
  <2>2. cur[u] \in Conns
    BY DEF RoomsInv, RoomsTypeOK
  <2> QED
    BY <1>1, <2>1, <2>2
<1>3. ASSUME NEW c \in Conns, Served(c)' PROVE Served(c) /\ RoomsOf(c)' = RoomsOf(c)
  <2>1. conn'[c] = conn[c] \/ conn'[c] = "closing"
    OBVIOUS
  <2>2. UserOf[c] \in Users /\ c # None
    BY RoomsAssumption
  <2>3. cur[UserOf[c]] = c => Registered(c)
    BY <2>2 DEF HubFinds
  <2> QED
    BY <1>3, <2>1, <2>3 DEF Served, Registered, RoomsOf
<1> QED
  BY <1>2, <1>3

(* A request's step that neither tells anything nor is followed by telling *)
(* leaves the news alone.                                                  *)
LEMMA NewsQuiet ==
  ASSUME Shape, RoomsInv, NEW w \in Workers, req[w].at # "tell",
         OfRoom(req[w]), channel' = channel,
         Return(w) \/ (\E at : at # "tell" /\ Go(w, at))
           \/ (\E at, x : at # "tell" /\ req' = [req EXCEPT ![w].row = x, ![w].at = at])
  PROVE  News' = News
<1>1. \A x \in Workers : x # w => req'[x] = req[x]
  BY DEF Return, Go, Shape
<1>2. DOMAIN req[w] = {"op", "room", "by", "target", "row", "at", "ver"}
  BY DEF RoomsInv, RoomOK, RoomRequest
<1>3. req'[w] = Idle \/ req'[w].at # "tell"
  <2>1. CASE Return(w)
    BY <2>1 DEF Return, Shape
  <2>2. ASSUME NEW at, at # "tell", Go(w, at) PROVE req'[w].at # "tell"
    <3>1. req'[w] = [req[w] EXCEPT !.at = at]
      BY <2>2 DEF Go, Shape
    <3> QED
      BY <1>2, <2>2, <3>1
  <2>3. ASSUME NEW at, NEW x, at # "tell", req' = [req EXCEPT ![w].row = x, ![w].at = at] PROVE req'[w].at # "tell"
    <3>1. req'[w] = [req[w] EXCEPT !.row = x, !.at = at]
      BY <2>3 DEF Shape
    <3> QED
      BY <1>2, <2>3, <3>1
  <2> QED
    BY <2>1, <2>2, <2>3
<1>4. ~Tells(w) /\ ~Tells(w)'
  BY <1>3 DEF Tells, Doing
<1> QED
  BY <1>1, <1>4, NewsOfStep

(* A step that commits a change is to tell of it.                          *)
LEMMA NewsToTell ==
  ASSUME Shape, RoomsInv, NEW w \in Workers, req[w].at # "tell", OfRoom(req[w]), channel' = channel, GoTell(w)
  PROVE  \E e \in News' :
            /\ News \subseteq News' /\ \A x \in News' : x \in News \/ x = e
            /\ e.room = req[w].room /\ e.user = req[w].target /\ e.ver = ver'[req[w].room]
            /\ e.type = EventOf(req[w]).type
<1>1. \A x \in Workers : x # w => req'[x] = req[x]
  BY DEF GoTell, Shape
<1>2. DOMAIN req[w] = {"op", "room", "by", "target", "row", "at", "ver"}
  BY DEF RoomsInv, RoomOK, RoomRequest
<1>3. req'[w] = [req[w] EXCEPT !.at = "tell", !.ver = ver'[req[w].room]]
  BY DEF GoTell, Shape
<1>4. /\ req'[w].at = "tell" /\ req'[w].op = req[w].op /\ req'[w].room = req[w].room
      /\ req'[w].target = req[w].target /\ req'[w].ver = ver'[req[w].room]
  BY <1>2, <1>3
<1>5. req'[w] # Idle
  <2>1. "at" \in DOMAIN req'[w] /\ DOMAIN Idle = {"op"}
    BY <1>2, <1>3 DEF Idle
  <2> QED
    BY <2>1
<1>6. Tells(w)' /\ ~Tells(w)
  BY <1>4, <1>5 DEF Tells, Doing, OfRoom
<1>7. EventOf(req'[w]) \in News'
  BY <1>6 DEF News
<1>8. /\ EventOf(req'[w]).room = req[w].room /\ EventOf(req'[w]).user = req[w].target
      /\ EventOf(req'[w]).ver = ver'[req[w].room] /\ EventOf(req'[w]).type = EventOf(req[w]).type
  BY <1>4 DEF EventOf
<1>9. News \subseteq News' /\ \A x \in News' : x \in News \/ x = EventOf(req'[w])
  BY <1>1, <1>6, NewsOfStep
<1> QED
  BY <1>7, <1>8, <1>9

(* What a step makes of the rows, the rooms and the hub, seen without the  *)
(* views.                                                                  *)
LEMMA RowsSeenKept ==
  ASSUME Shape, RoomsInv, HubFinds, GoneWasMade, RowsSeen, NEW w \in Workers,
         RoomStep(w) \/ RoomFails(w) \/ OwnerRoleFails(w), ver' \in [RoomIds -> [Users -> Nat]]
  PROVE  GoneWasMade' /\ RowsSeen'
<1>1. /\ OfRoom(req[w]) /\ RoomOK(req[w])
      /\ \A x \in Workers : x # w => req'[x] = req[x]
      /\ req'[w] # Idle =>
            /\ OfRoom(req'[w]) /\ req'[w].op = req[w].op /\ req'[w].room = req[w].room
  BY RoomSteps
<1>2. PICK r \in RoomIds : r = req[w].room
  BY <1>1 DEF RoomOK, RoomRequest
<1>3. /\ DOMAIN req[w] = {"op", "room", "by", "target", "row", "at", "ver"}
      /\ req[w].row \in Row /\ req[w].op \in RoomOps /\ req[w].target \in Users \cup {None}
  BY <1>1 DEF RoomOK, RoomRequest
<1>4. room \in [RoomIds -> Row]
  BY DEF RoomsInv, RoomsTypeOK
<1>5. RowSeen(req[w])
  BY <1>1 DEF RowsSeen
<1>6. ~(req[w].op \in RowActions \cup TargetActions /\ req[w].op \in {"create", "disband", "admin_disband"})
  BY DEF RowActions, TargetActions
<1>7. /\ room'[r].made \/ (room' = room /\ ~room[r].made)
      /\ room'[r].deleted => room'[r].made
      /\ \A x \in RoomIds : x # r => room'[x] = room[x]
  <2>1. CASE CreateRoom(w)
    <3>1. room' = [room EXCEPT ![r] = Created(req[w].by)]
      BY <1>2, <2>1 DEF CreateRoom
    <3>2. Created(req[w].by).made /\ ~Created(req[w].by).deleted
      BY DEF Created, NoRow
    <3> QED
      BY <1>4, <3>1, <3>2
  <2>2. CASE SoftDeleteRoom(w)
    <3>1. room' = [room EXCEPT ![r].deleted = TRUE]
      BY <1>2, <2>2 DEF SoftDeleteRoom
    <3>2. room[r].made
      BY <1>2, <1>5, <2>2 DEF SoftDeleteRoom, Writes, Doing, RowSeen
    <3> QED
      BY <1>4, <3>1, <3>2 DEF Row
  <2>3. CASE SaveRoom(w)
    <3>1. room' = [room EXCEPT ![r] = Written(req[w], Live(r))]
      BY <1>2, <2>3 DEF SaveRoom
    <3>2. req[w].row.made /\ ~req[w].row.deleted
      BY <1>5, <2>3 DEF SaveRoom, Saves, Writes, Doing, RowSeen
    <3>3. Written(req[w], Live(r)).made /\ ~Written(req[w], Live(r)).deleted
      BY <1>3, <3>2, WrittenRow
    <3> QED
      BY <1>4, <3>1, <3>3
  <2>4. CASE room' = room
    BY <2>4 DEF GoneWasMade
  <2> QED
    BY <2>1, <2>2, <2>3, <2>4 DEF RoomStep, RoomFails, OwnerRoleFails, ReadRoom, ReadRole, JoinRoom, RemoveMember,
       SetAdmin, OwnerRole, WriteAudit, Publish, CallHub, DisconnectUser, roomVars, tables
<1>8. GoneWasMade'
  BY <1>7 DEF GoneWasMade
<1>9. req'[w] # Idle => RowSeen(req[w])'
  <2>1. CASE ReadRoom(w)
    <3>1. PICK at : \/ Return(w)
                    \/ Live(r) /\ req' = [req EXCEPT ![w].row = room[r], ![w].at = at]
      BY <1>2, <2>1 DEF ReadRoom
    <3>2. CASE Return(w)
      BY <3>2 DEF Return, Shape
    <3>3. CASE Live(r) /\ req' = [req EXCEPT ![w].row = room[r], ![w].at = at]
      <4>1. req'[w] = [req[w] EXCEPT !.row = room[r], !.at = at]
        BY <3>3 DEF Shape
      <4>2. req'[w].row = room[r] /\ req'[w].by = req[w].by /\ req'[w].target = req[w].target
        BY <1>3, <4>1
      <4> QED
        BY <1>1, <1>2, <1>5, <1>7, <3>3, <4>1, <4>2 DEF RowSeen, Live
    <3> QED
      BY <3>1, <3>2, <3>3
  <2>2. CASE Return(w)
    BY <2>2 DEF Return, Shape
  <2>3. ASSUME NEW at, NEW v, req[w].at # "read",
               req' = [req EXCEPT ![w].at = at] \/ req' = [req EXCEPT ![w].at = at, ![w].ver = v],
               req[w].op = "create" \/ room[r].made
        PROVE  RowSeen(req[w])'
    <3>1. req'[w] = [req[w] EXCEPT !.at = at] \/ req'[w] = [req[w] EXCEPT !.at = at, !.ver = v]
      BY <2>3 DEF Shape
    <3>2. /\ req'[w].row = req[w].row /\ req'[w].op = req[w].op /\ req'[w].room = r
          /\ req'[w].by = req[w].by /\ req'[w].target = req[w].target
      BY <1>2, <1>3, <3>1
    <3> QED
      BY <1>5, <1>7, <2>3, <3>2 DEF RowSeen
  <2>4. req[w].op = "create" \/ room[r].made
    BY <1>2, <1>5 DEF RowSeen
  <2>5. RoomStep(w) /\ ~ReadRoom(w) => req[w].at # "read" /\ (Return(w) \/ GoTell(w) \/ \E at : Go(w, at))
    BY DEF RoomStep, ReadRole, CreateRoom, JoinRoom, RemoveMember, SoftDeleteRoom, SetAdmin, Saves,
       SaveRoom, OwnerRole, WriteAudit, Publish, CallHub, DisconnectUser, Tells, Writes, Doing
  <2>6. OwnerRoleFails(w) => req[w].at # "read" /\ \E at : Go(w, at)
    BY DEF OwnerRoleFails, Doing
  <2> QED
    BY <2>1, <2>2, <2>3, <2>4, <2>5, <2>6 DEF RoomFails, Go, GoTell
<1>10. ASSUME NEW x \in Workers, x # w, OfRoom(req'[x]) PROVE RowSeen(req[x])'
  <2>1. req'[x] = req[x] /\ RowSeen(req[x])
    BY <1>1, <1>10 DEF RowsSeen
  <2>2. \A s \in RoomIds : room[s].made => room'[s].made
    BY <1>7
  <2>3. req[x].room \in RoomIds
    BY <1>10, <2>1 DEF RoomsInv, RoomOK, RoomRequest
  <2> QED
    BY <2>1, <2>2, <2>3 DEF RowSeen
<1>11. RowsSeen'
  <2> SUFFICES ASSUME NEW x \in Workers, OfRoom(req'[x]) PROVE RowSeen(req[x])'
    BY DEF RowsSeen, OfRoom, RowSeen
  <2> QED
    BY <1>9, <1>10 DEF OfRoom, RowSeen
<1> QED
  BY <1>8, <1>11

(* A request's step keeps the views.                                       *)
LEMMA ViewsOfStep ==
  ASSUME Shape, RoomsInv, RoomsInv', SubscribedInv, NEW w \in Workers,
         RoomStep(w) \/ RoomFails(w) \/ OwnerRoleFails(w)
  PROVE  SubscribedInv'
<1>1. ver' \in [RoomIds -> [Users -> Nat]]
  BY DEF RoomsInv, RoomsTypeOK
<1>2. /\ OfRoom(req[w]) /\ RoomOK(req[w]) /\ RowSeen(req[w])
      /\ \A x \in Workers : x # w => req'[x] = req[x]
  BY <1>1, RoomSteps DEF SubscribedInv, RowsSeen
<1>3. /\ req[w].room \in RoomIds /\ req[w].op \in RoomOps /\ req[w].row \in Row
      /\ req[w].by \in Users \cup {None} /\ req[w].target \in Users \cup {None}
  BY <1>2 DEF RoomOK, RoomRequest
<1>r. PICK r \in RoomIds : r = req[w].room
  BY <1>3
<1>4. /\ room \in [RoomIds -> Row] /\ member \in [RoomIds -> [Users -> 0..3]] /\ channel \in Seq(Event)
      /\ ver \in [RoomIds -> [Users -> Nat]]
  BY DEF RoomsInv, RoomsTypeOK
<1>5. HubFinds /\ GoneWasMade /\ RowsSeen /\ NewsTrue /\ ViewsFollow
  BY DEF SubscribedInv
<1>6. GoneWasMade' /\ RowsSeen'
  BY <1>1, <1>5, RowsSeenKept
<1>7. /\ HubFinds'
      /\ conn' = conn /\ got' = got /\ sub' = sub /\ cur' = cur
            => \A c \in Conns : Served(c)' => Served(c) /\ RoomsOf(c)' = RoomsOf(c)
  <2>1. CASE DisconnectUser(w)
    BY <1>5, <2>1, ViewsOfKicked DEF DisconnectUser
  <2>2. CASE conn' = conn /\ cur' = cur
    BY <1>5, <2>2 DEF HubFinds, Registered, Served, RoomsOf
  <2> QED
    BY <2>1, <2>2 DEF RoomStep, RoomFails, OwnerRoleFails, ReadRoom, ReadRole, CreateRoom, JoinRoom, RemoveMember,
       SoftDeleteRoom, SetAdmin, SaveRoom, OwnerRole, WriteAudit, Publish, CallHub, roomVars, gateway, Apply
<1>8. NewsTrue' /\ ViewsFollow'
  <2>1. CASE ReadRoom(w) \/ ReadRole(w) \/ WriteAudit(w) \/ OwnerRoleFails(w)
    <3>1. UNCHANGED roomVars
      BY <2>1 DEF ReadRoom, ReadRole, WriteAudit, OwnerRoleFails
    <3>2. News' = News
      <4>1. \A at : at = AfterRead(req[w], room[req[w].room]) => at # "tell"
        BY DEF AfterRead
      <4>2. req[w].at # "tell"
        BY <2>1 DEF ReadRoom, ReadRole, WriteAudit, OwnerRoleFails, Doing
      <4>3. Return(w) \/ (\E at : at # "tell" /\ Go(w, at))
               \/ (\E at, x : at # "tell" /\ req' = [req EXCEPT ![w].row = x, ![w].at = at])
        BY <2>1, <4>1 DEF ReadRoom, ReadRole, WriteAudit, OwnerRoleFails
      <4> QED
        BY <1>2, <3>1, <4>2, <4>3, NewsQuiet DEF roomVars
    <3> QED
      BY <1>5, <1>7, <3>1, <3>2, ViewsKept DEF roomVars, tables, gateway, observed
  <2>2. CASE DisconnectUser(w)
    <3>1. News' = News
      BY <1>2, <2>2, NewsQuiet DEF DisconnectUser, Doing
    <3> QED
      BY <1>5, <2>2, <3>1, ViewsOfKicked, ViewsKept DEF DisconnectUser, tables, observed
  <2>3. ASSUME NEW u \in Users, NEW n \in 1..3, SetAdmin(w) \/ OwnerRole(w),
               member' = [member EXCEPT ![r][u] = IF @ > 0 THEN n ELSE 0]
        PROVE  NewsTrue' /\ ViewsFollow'
    <3>1. UNCHANGED <<room, channel, gateway, observed>>
      BY <2>3 DEF SetAdmin, OwnerRole
    <3>2. News' = News
      <4>1. req[w].at # "tell" /\ Go(w, "audit")
        BY <2>3 DEF SetAdmin, OwnerRole, Writes, Doing
      <4> QED
        BY <1>2, <3>1, <4>1, NewsQuiet
    <3>3. \A s \in RoomIds, v \in Users : member'[s][v] > 0 <=> member[s][v] > 0
      <4>1. member[r] \in [Users -> 0..3]
        BY <1>3, <1>4
      <4>2. member' = [member EXCEPT ![r] = [member[r] EXCEPT ![u] = IF member[r][u] > 0 THEN n ELSE 0]]
        BY <2>3
      <4>3. \A s \in RoomIds : s # r => member'[s] = member[s]
        BY <1>4, <4>2
      <4>4. member'[r] = [member[r] EXCEPT ![u] = IF member[r][u] > 0 THEN n ELSE 0]
        BY <1>3, <1>4, <4>2
      <4>5. \A v \in Users : member'[r][v] > 0 <=> member[r][v] > 0
        BY <4>1, <4>4
      <4> QED
        BY <4>3, <4>5
    <3> QED
      BY <1>5, <1>7, <3>1, <3>2, <3>3, ViewsKept DEF gateway, observed
  <2>4. CASE SetAdmin(w)
    <3>1. req[w].target \in Users /\ 2 \in 1..3
      BY <1>3, <2>4 DEF SetAdmin
    <3>2. member' = [member EXCEPT ![r][req[w].target] = IF @ > 0 THEN 2 ELSE 0]
      BY <1>r, <2>4 DEF SetAdmin
    <3> QED
      BY <2>3, <2>4, <3>1, <3>2
  <2>5. CASE OwnerRole(w)
    <3>1. req[w].target \in Users /\ 3 \in 1..3
      BY <1>2, <2>5 DEF OwnerRole, Doing, RoomOK
    <3>2. member' = [member EXCEPT ![r][req[w].target] = IF @ > 0 THEN 3 ELSE 0]
      BY <1>r, <2>5 DEF OwnerRole
    <3> QED
      BY <2>3, <2>5, <3>1, <3>2
  <2>6. CASE SaveRoom(w)
    <3>1. News' = News
      <4>1. req[w].at # "tell" /\ channel' = channel /\ \E at : at # "tell" /\ Go(w, at)
        BY <2>6 DEF SaveRoom, Saves, Writes, Doing
      <4> QED
        BY <1>2, <4>1, NewsQuiet
    <3>2. /\ room' = [room EXCEPT ![r] = Written(req[w], Live(r))]
          /\ Changed(r, IF Live(r) THEN {} ELSE Users)
          /\ cause' = cause \cup {<<c, r>> : c \in UNION {Present(u) : u \in IF Live(r) THEN {} ELSE Users}}
          /\ UNCHANGED <<member, gateway, known>>
      BY <1>r, <2>6 DEF SaveRoom
    <3>3. \A x \in RoomIds : x # r => room'[x] = room[x]
      BY <3>2
    <3>4. CASE Live(r)
      <4>1. ver' = ver
        <5>1. \A s \in RoomIds, v \in Users : ver'[s][v] = ver[s][v]
          <6>1. Changed(r, {})
            BY <3>2, <3>4
          <6>2. /\ \A x \in RoomIds : x # r => ver'[x] = ver[x]
                /\ \A u \in Users : ver'[r][u] = ver[r][u]
            BY <1>4, <6>1, ChangedCounts
          <6> QED
            BY <6>2
        <5>2. \A s \in RoomIds : ver'[s] = ver[s]
          BY <1>1, <1>4, <5>1
        <5> QED
          BY <1>1, <1>4, <5>2
      <4>2. ~Written(req[w], Live(r)).deleted
        BY <1>2, <1>3, WrittenRow DEF RowSeen
      <4>3. \A x \in RoomIds : room'[x].deleted = room[x].deleted
        <5>1. room'[r] = Written(req[w], Live(r))
          BY <1>4, <3>2
        <5>2. ~room'[r].deleted /\ ~room[r].deleted
          BY <3>4, <4>2, <5>1 DEF Live
        <5>3. room'[r].deleted \in BOOLEAN /\ room[r].deleted \in BOOLEAN
          BY DEF RoomsInv, RoomsTypeOK, Row
        <5> QED
          BY <3>3, <5>2, <5>3
      <4> QED
        BY <1>5, <1>7, <3>1, <3>2, <4>1, <4>3, ViewsKept DEF gateway
    <3>5. CASE ~Live(r)
      <4>1. Changed(r, Users) /\ cause' = cause \cup {<<c, r>> : c \in UNION {Present(u) : u \in Users}}
        BY <3>2, <3>5
      <4> QED
        BY <1>3, <1>5, <3>1, <3>2, <3>3, <4>1, ViewsOfReturn
    <3> QED
      BY <3>4, <3>5
  <2>7. CASE SoftDeleteRoom(w)
    <3>1. /\ room' = [room EXCEPT ![r].deleted = TRUE]
          /\ Changed(r, IF Live(r) THEN Users ELSE {})
          /\ UNCHANGED <<member, gateway, known, cause>> /\ channel' = channel /\ GoTell(w) /\ req[w].at # "tell"
      BY <1>r, <2>7 DEF SoftDeleteRoom, Writes, Doing
    <3>2. PICK e \in News' :
            /\ News \subseteq News' /\ \A x \in News' : x \in News \/ x = e
            /\ e.room = r /\ e.ver = ver'[r] /\ e.type = EventOf(req[w]).type
      BY <1>2, <1>r, <3>1, NewsToTell
    <3>3. EventOf(req[w]).type = "disbanded"
      BY <2>7 DEF SoftDeleteRoom, Writes, Doing, EventOf
    <3>4. room[r].made
      BY <1>2, <1>r, <2>7 DEF SoftDeleteRoom, Writes, Doing, RowSeen
    <3>5. room'[r].deleted /\ \A x \in RoomIds : x # r => room'[x] = room[x]
      BY <1>3, <1>4, <3>1 DEF Row
    <3>6. (Changed(r, Users) /\ ~room[r].deleted) \/ (Changed(r, {}) /\ room[r].deleted)
      BY <3>1, <3>4 DEF Live
    <3> QED
      BY <1>3, <1>5, <3>1, <3>2, <3>3, <3>5, <3>6, ViewsOfDisband
  <2>8. ASSUME NEW u \in Users, u = req[w].target, NEW n \in 0..2, GoTell(w), req[w].at # "tell",
               \/ member' = [member EXCEPT ![r][u] = n] /\ Changed(r, {u})
               \/ member' = member /\ ver' = ver,
               EventOf(req[w]).type # "disbanded", EventOf(req[w]).type = "joined" <=> member'[r][u] > 0,
               \A x \in RoomIds : room'[x].deleted = room[x].deleted,
               UNCHANGED <<channel, gateway, known, cause>>
        PROVE  NewsTrue' /\ ViewsFollow'
    <3>1. PICK e \in News' :
            /\ News \subseteq News' /\ \A x \in News' : x \in News \/ x = e
            /\ e.room = r /\ e.user = u /\ e.ver = ver'[r] /\ e.type = EventOf(req[w]).type
      BY <1>2, <1>r, <2>8, NewsToTell
    <3>2. \A x \in RoomIds, v \in Users : <<x, v>> # <<r, u>> => member'[x][v] = member[x][v]
      <4>1. CASE member' = [member EXCEPT ![r][u] = n]
        <5>1. member' = [member EXCEPT ![r] = [member[r] EXCEPT ![u] = n]] /\ member[r] \in [Users -> 0..3]
          BY <1>3, <1>4, <4>1
        <5>2. member'[r] = [member[r] EXCEPT ![u] = n] /\ \A x \in RoomIds : x # r => member'[x] = member[x]
          BY <1>3, <1>4, <5>1
        <5> QED
          BY <5>1, <5>2
      <4> QED
        BY <2>8, <4>1
    <3>3. Changed(r, {u}) \/ (ver' = ver /\ (member'[r][u] > 0 <=> member[r][u] > 0))
      BY <2>8
    <3>4. e.type # "disbanded" /\ (e.type = "joined" <=> member'[r][u] > 0)
      BY <2>8, <3>1
    <3> QED
      BY <1>5, <2>8, <3>1, <3>2, <3>3, <3>4, ViewsOfRow
  <2>9. CASE CreateRoom(w)
    <3>1. /\ req[w].op = "create" /\ req[w].at = "write" /\ ~room[r].made
          /\ room' = [room EXCEPT ![r] = Created(req[w].by)]
          /\ member' = [member EXCEPT ![r][req[w].by] = 2] /\ Changed(r, {req[w].by})
          /\ GoTell(w) /\ UNCHANGED <<channel, gateway, known, cause>>
      BY <1>r, <2>9 DEF CreateRoom, Writes, Doing
    <3>2. req[w].target \in Users /\ req[w].by = req[w].target
      BY <1>2, <3>1 DEF RoomOK, RoomService, RowSeen
    <3>3. EventOf(req[w]).type = "joined"
      BY <3>1 DEF EventOf
    <3>4. member'[r][req[w].target] = 2
      <4>1. member[r] \in [Users -> 0..3]
        BY <1>4
      <4> QED
        BY <1>4, <3>1, <3>2, <4>1
    <3>5. \A x \in RoomIds : room'[x].deleted = room[x].deleted
      <4>1. ~Created(req[w].by).deleted
        BY DEF Created, NoRow
      <4>2. room[r].deleted = FALSE
        BY <1>4, <1>5, <3>1 DEF GoneWasMade, Row
      <4>3. Created(req[w].by).deleted = FALSE
        BY DEF Created, NoRow
      <4> QED
        BY <1>4, <3>1, <4>2, <4>3
    <3>6. 2 \in 0..2 /\ 2 > 0
      OBVIOUS
    <3> QED
      BY <2>8, <3>1, <3>2, <3>3, <3>4, <3>5, <3>6
  <2>10. CASE JoinRoom(w)
    <3>1. /\ req[w].op = "join" /\ req[w].at = "write" /\ room' = room
          /\ \/ member' = [member EXCEPT ![r][req[w].by] = 1] /\ Changed(r, {req[w].by})
             \/ member[r][req[w].by] # 0 /\ member' = member /\ ver' = ver
          /\ GoTell(w) /\ UNCHANGED <<channel, gateway, known, cause>>
      BY <1>r, <2>10 DEF JoinRoom, Writes, Doing
    <3>2. req[w].target \in Users /\ req[w].by = req[w].target
      BY <1>2, <3>1 DEF RoomOK, RoomService, RowSeen
    <3>3. EventOf(req[w]).type = "joined"
      BY <3>1 DEF EventOf
    <3>4. member'[r][req[w].target] > 0
      <4>1. member[r] \in [Users -> 0..3] /\ member[r][req[w].target] \in 0..3
        BY <1>4, <3>2
      <4> QED
        BY <1>4, <3>1, <3>2, <4>1
    <3>5. 1 \in 0..2
      OBVIOUS
    <3> QED
      BY <2>8, <3>1, <3>2, <3>3, <3>4, <3>5
  <2>11. CASE RemoveMember(w)
    <3>1. /\ req[w].op \in {"remove", "agent_kick", "remove_member"} /\ req[w].at = "write"
          /\ req[w].target \in Users /\ room' = room
          /\ \/ member' = [member EXCEPT ![r][req[w].target] = 0] /\ Changed(r, {req[w].target}) /\ GoTell(w)
             \/ ~(member[r][req[w].target] > 0) /\ member' = member /\ ver' = ver /\ GoTell(w)
             \/ member' = member /\ ver' = ver /\ Return(w)
          /\ UNCHANGED <<channel, gateway, known, cause>>
      BY <1>r, <1>3, <2>11 DEF RemoveMember, Writes, Doing
    <3>2. CASE GoTell(w) /\ ~(member' = member /\ ver' = ver /\ Return(w))
      <4>1. EventOf(req[w]).type = "left"
        BY <3>1 DEF EventOf
      <4>2. member[r] \in [Users -> 0..3]
        BY <1>4
      <4>3. ~(member'[r][req[w].target] > 0)
        <5>1. CASE member' = [member EXCEPT ![r][req[w].target] = 0]
          BY <1>4, <3>1, <4>2, <5>1
        <5> QED
          BY <3>1, <3>2, <5>1
      <4>4. 0 \in 0..2
        OBVIOUS
      <4> QED
        BY <2>8, <3>1, <3>2, <4>1, <4>3, <4>4
    <3>3. CASE member' = member /\ ver' = ver /\ Return(w)
      <4>1. News' = News
        BY <1>2, <3>1, <3>3, NewsQuiet
      <4> QED
        BY <1>5, <1>7, <3>1, <3>3, <4>1, ViewsKept DEF gateway
    <3> QED
      BY <3>1, <3>2, <3>3
  <2>12. CASE Publish(w)
    <3>1. /\ Tells(w) /\ channel' = Append(channel, EventOf(req[w])) /\ req' = [req EXCEPT ![w] = Idle]
          /\ UNCHANGED <<tables, gateway, observed>>
      BY <2>12 DEF Publish, Return
    <3>2. News' \subseteq News /\ News \subseteq News'
      <4>1. {channel'[i] : i \in DOMAIN channel'} = {channel[i] : i \in DOMAIN channel} \cup {EventOf(req[w])}
        <5>1. /\ DOMAIN channel' = 1..(Len(channel) + 1) /\ DOMAIN channel = 1..Len(channel) /\ Len(channel) \in Nat
              /\ channel'[Len(channel) + 1] = EventOf(req[w])
              /\ \A i \in 1..Len(channel) : channel'[i] = channel[i]
          BY <1>4, <3>1
        <5> QED
          BY <5>1
      <4>2. ~Tells(w)' /\ \A x \in Workers : x # w => (Tells(x)' <=> Tells(x)) /\ req'[x] = req[x]
        BY <1>2, <3>1 DEF Tells, Doing, Shape
      <4> QED
        BY <3>1, <4>1, <4>2 DEF News
    <3> QED
      BY <1>5, <1>7, <3>1, <3>2, ViewsKept DEF tables, gateway, observed
  <2>13. CASE CallHub(w)
    <3>1. /\ Tells(w) /\ Apply(EventOf(req[w])) /\ UNCHANGED <<tables, channel>>
      BY <2>13 DEF CallHub
    <3>2. News' \subseteq News /\ \A x \in News : x \in News' \/ x = EventOf(req[w])
      <4>1. ~Tells(w)'
        <5>1. PICK at \in {"kick", "audit"} : Go(w, at)
          BY <2>13 DEF CallHub
        <5>2. req'[w] = [req[w] EXCEPT !.at = at]
          BY <5>1 DEF Go, Shape
        <5>3. "at" \in DOMAIN req[w]
          BY <1>2 DEF RoomOK, RoomRequest
        <5>4. req'[w].at # "tell"
          BY <5>2, <5>3
        <5> QED
          BY <5>4 DEF Tells, Doing
      <4> QED
        BY <1>2, <3>1, <4>1, NewsOfStep
    <3>3. EventOf(req[w]) \in News
      BY <3>1 DEF News
    <3> QED
      BY <1>5, <3>1, <3>2, <3>3, ViewsApplied
  <2>14. CASE RoomFails(w)
    <3>1. /\ Return(w) /\ UNCHANGED <<tables, channel, gateway, ver, known>>
          /\ IF Tells(w) THEN Untold(EventOf(req[w])) ELSE UNCHANGED cause
      BY <2>14 DEF RoomFails
    <3>2. CASE Tells(w)
      <4>1. EventOf(req[w]) \in News
        BY <3>2 DEF News
      <4>2. ~Tells(w)'
        BY <3>1 DEF Return, Shape, Tells, Doing
      <4>3. News' \subseteq News /\ \A x \in News : x \in News' \/ x = EventOf(req[w])
        BY <1>2, <3>1, <4>2, NewsOfStep
      <4> QED
        BY <1>5, <3>1, <3>2, <4>1, <4>3, ViewsUntold
    <3>3. CASE ~Tells(w)
      <4>1. req[w].at # "tell"
        BY <1>2, <3>3 DEF Tells, Doing, OfRoom
      <4>2. News' = News
        BY <1>2, <3>1, <4>1, NewsQuiet
      <4> QED
        BY <1>5, <1>7, <3>1, <3>3, <4>2, ViewsKept DEF tables, gateway
    <3> QED
      BY <3>2, <3>3
  <2> QED
    BY <2>1, <2>2, <2>4, <2>5, <2>6, <2>7, <2>9, <2>10, <2>11, <2>12, <2>13, <2>14 DEF RoomStep
<1> QED
  BY <1>6, <1>7, <1>8 DEF SubscribedInv

(* Who has just read his rooms, or has gone, has no wrong view; the others *)
(* keep theirs.                                                            *)
LEMMA ViewsOfOthers ==
  ASSUME RoomsInv, NewsTrue, ViewsFollow, NEW c \in Conns, UNCHANGED <<req, channel, tables, ver>>,
         \A d \in Conns : d # c /\ Served(d)' =>
            /\ Served(d) /\ RoomsOf(d)' = RoomsOf(d) /\ known'[d] = known[d] /\ ended'[d] = ended[d]
            /\ \A r \in RoomIds : <<d, r>> \in cause => <<d, r>> \in cause',
         Served(c)' => \A r \in RoomIds : UpToDate(c, r)'
  PROVE  NewsTrue' /\ ViewsFollow'
<1>1. News' = News
  BY DEF News, Tells, Doing
<1>2. NewsTrue'
  BY <1>1, NewsTyped DEF NewsTrue, NewsTo, NewsIsTrue, tables
<1>3. ViewsFollow'
  <2> SUFFICES ASSUME NEW d \in Conns, NEW r \in RoomIds, FollowsTable(d, r), Served(d)', d # c
               PROVE FollowsTable(d, r)'
    BY DEF ViewsFollow, FollowsTable
  <2>1. (UpToDate(d, r) => UpToDate(d, r)') /\ (ToldSoon(d, r) => ToldSoon(d, r)')
    BY <1>1 DEF UpToDate, Expected, ToldSoon, NewsTo, tables
  <2> QED
    BY <2>1 DEF FollowsTable, tables
<1> QED
  BY <1>2, <1>3

(* A connection's step keeps the views.                                    *)
LEMMA ViewsOfConn ==
  ASSUME RoomsInv, SubscribedInv, NEW c \in Conns, ConnStep(c)
  PROVE  SubscribedInv'
<1>1. HubFinds /\ GoneWasMade /\ RowsSeen /\ NewsTrue /\ ViewsFollow
  BY DEF SubscribedInv
<1>2. UserOf \in [Conns -> Users] /\ None \notin Conns
  BY RoomsAssumption
<1>3. /\ conn \in [Conns -> {"new", "reading", "active", "closing", "gone"}]
      /\ got \in [Conns -> SUBSET RoomIds] /\ sub \in [Conns -> SUBSET RoomIds]
      /\ cur \in [Users -> Conns \cup {None}] /\ ended \in [Conns -> SUBSET RoomIds]
      /\ known \in [Conns -> [RoomIds -> Nat]]
  BY DEF RoomsInv, RoomsTypeOK
<1>4. UNCHANGED <<req, channel, tables, ver>>
  BY DEF ConnStep, ReadRooms, Register, UpgradeFails, Unregister, observed
<1>5. GoneWasMade' /\ RowsSeen'
  BY <1>1, <1>4 DEF GoneWasMade, RowsSeen, RowSeen, tables
<1>6. CASE ReadRooms(c)
  <2>1. /\ conn[c] = "new" /\ conn' = [conn EXCEPT ![c] = "reading"]
        /\ got' = [got EXCEPT ![c] = GetUserRoomIDs(UserOf[c])]
        /\ known' = [known EXCEPT ![c] = [r \in RoomIds |-> ver[r][UserOf[c]]]]
        /\ sub' = sub /\ cur' = cur /\ cause' = cause /\ ended' = [ended EXCEPT ![c] = {}]
    BY <1>6 DEF ReadRooms
  <2>2. HubFinds'
    BY <1>1, <1>3, <2>1 DEF HubFinds, Registered
  <2>3. \A d \in Conns : d # c => /\ conn'[d] = conn[d] /\ got'[d] = got[d] /\ known'[d] = known[d]
                                  /\ ended'[d] = ended[d]
    BY <1>3, <2>1
  <2>4. \A d \in Conns : d # c /\ Served(d)' =>
            /\ Served(d) /\ RoomsOf(d)' = RoomsOf(d) /\ known'[d] = known[d] /\ ended'[d] = ended[d]
            /\ \A r \in RoomIds : <<d, r>> \in cause => <<d, r>> \in cause'
    BY <2>1, <2>3 DEF Served, Registered, RoomsOf
  <2>5. \A r \in RoomIds : UpToDate(c, r)'
    <3>1. conn'[c] = "reading" /\ got'[c] = GetUserRoomIDs(UserOf[c]) /\ ended'[c] = {}
          /\ known'[c] = [r \in RoomIds |-> ver[r][UserOf[c]]]
      BY <1>3, <2>1
    <3> QED
      BY <1>4, <3>1 DEF UpToDate, Expected, RoomsOf, GetUserRoomIDs, tables
  <2>6. NewsTrue' /\ ViewsFollow'
    BY <1>1, <1>4, <2>4, <2>5, ViewsOfOthers
  <2> QED
    BY <1>5, <2>2, <2>6 DEF SubscribedInv
<1>7. CASE UpgradeFails(c) \/ Unregister(c)
  <2>1. /\ conn'[c] \in {"new", "gone"} /\ ended' = ended
        /\ \A d \in Conns : d # c => conn'[d] = conn[d] /\ got'[d] = got[d] /\ known'[d] = known[d] /\ sub'[d] = sub[d]
    BY <1>3, <1>7 DEF UpgradeFails, Unregister, observed
  <2>2. /\ \A u \in Users : cur'[u] = cur[u] \/ (cur[u] = c /\ cur'[u] = None)
        /\ \A d \in Conns, r \in RoomIds : d # c /\ <<d, r>> \in cause => <<d, r>> \in cause'
    BY <1>3, <1>7 DEF UpgradeFails, Unregister, observed
  <2>3. \A u \in Users : cur'[u] # c
    <3>1. CASE UpgradeFails(c)
      BY <1>1, <1>2, <3>1 DEF UpgradeFails, HubFinds, Registered
    <3>2. CASE Unregister(c)
      BY <1>2, <3>2 DEF Unregister
    <3> QED
      BY <1>7, <3>1, <3>2
  <2>4. HubFinds'
    <3> SUFFICES ASSUME NEW u \in Users, cur'[u] # None PROVE UserOf[cur'[u]] = u /\ Registered(cur[u])'
      BY DEF HubFinds, Registered
    <3>1. cur'[u] = cur[u] /\ cur[u] # c /\ cur[u] \in Conns
      BY <1>3, <2>2, <2>3
    <3>2. UserOf[cur[u]] = u /\ Registered(cur[u])
      BY <1>1, <3>1 DEF HubFinds
    <3> QED
      BY <2>1, <3>1, <3>2 DEF Registered
  <2>5. \A d \in Conns : d # c /\ Served(d)' =>
            /\ Served(d) /\ RoomsOf(d)' = RoomsOf(d) /\ known'[d] = known[d] /\ ended'[d] = ended[d]
            /\ \A r \in RoomIds : <<d, r>> \in cause => <<d, r>> \in cause'
    <3> SUFFICES ASSUME NEW d \in Conns, d # c, Served(d)'
                 PROVE  Served(d) /\ RoomsOf(d)' = RoomsOf(d)
      BY <2>1, <2>2
    <3>1. cur'[UserOf[d]] = d => cur[UserOf[d]] = d
      BY <1>2, <2>2
    <3> QED
      BY <2>1, <3>1 DEF Served, Registered, RoomsOf
  <2>6. ~Served(c)'
    BY <2>1 DEF Served, Registered
  <2>7. NewsTrue' /\ ViewsFollow'
    BY <1>1, <1>4, <2>5, <2>6, ViewsOfOthers
  <2> QED
    BY <1>5, <2>4, <2>7 DEF SubscribedInv
<1>8. CASE Register(c)
  <2>1. /\ conn[c] = "reading" /\ conn' = [conn EXCEPT ![c] = "active"]
        /\ sub' = [sub EXCEPT ![c] = got[c]]
        /\ got' = [got EXCEPT ![c] = {}]
        /\ cur' = [cur EXCEPT ![UserOf[c]] = c] /\ known' = known /\ cause' = cause /\ ended' = ended
    BY <1>8 DEF Register, observed
  <2>2. /\ conn'[c] = "active" /\ sub'[c] = got[c] /\ cur'[UserOf[c]] = c /\ UserOf[c] \in Users
        /\ \A d \in Conns : d # c => conn'[d] = conn[d] /\ got'[d] = got[d] /\ sub'[d] = sub[d]
        /\ \A u \in Users : u # UserOf[c] => cur'[u] = cur[u]
    BY <1>2, <1>3, <2>1
  <2>3. HubFinds'
    <3> SUFFICES ASSUME NEW u \in Users, cur'[u] # None PROVE UserOf[cur'[u]] = u /\ Registered(cur[u])'
      BY DEF HubFinds, Registered
    <3>1. CASE u = UserOf[c]
      BY <2>2, <3>1 DEF Registered
    <3>2. CASE u # UserOf[c]
      <4>1. cur'[u] = cur[u] /\ cur[u] \in Conns /\ UserOf[cur[u]] = u /\ Registered(cur[u])
        BY <1>1, <1>3, <2>2, <3>2 DEF HubFinds
      <4> QED
        BY <2>2, <3>2, <4>1 DEF Registered
    <3> QED
      BY <3>1, <3>2
  <2>4. ASSUME NEW d \in Conns, Served(d)' PROVE Served(d) /\ RoomsOf(d)' = RoomsOf(d)
    <3>1. CASE d = c
      BY <2>1, <2>2, <3>1 DEF Served, RoomsOf
    <3>2. CASE d # c
      <4>1. cur'[UserOf[d]] = d => cur[UserOf[d]] = d
        BY <1>2, <2>2, <3>2
      <4> QED
        BY <2>2, <2>4, <3>2, <4>1 DEF Served, Registered, RoomsOf
    <3> QED
      BY <3>1, <3>2
  <2>5. News' = News
    BY <1>4 DEF News, Tells, Doing
  <2>6. NewsTrue' /\ ViewsFollow'
    BY <1>1, <1>4, <2>1, <2>4, <2>5, ViewsKept DEF tables
  <2> QED
    BY <1>5, <2>3, <2>6 DEF SubscribedInv
<1> QED
  BY <1>6, <1>7, <1>8 DEF ConnStep

(* So does an event that is handled or lost.                               *)
LEMMA ViewsOfEvent ==
  ASSUME RoomsInv, SubscribedInv, HandleEvent \/ LoseEvent
  PROVE  SubscribedInv'
<1>1. HubFinds /\ GoneWasMade /\ RowsSeen /\ NewsTrue /\ ViewsFollow
  BY DEF SubscribedInv
<1>2. /\ channel # << >> /\ channel \in Seq(Event) /\ channel' = Tail(channel)
      /\ UNCHANGED <<tables, req>> /\ conn' = conn /\ cur' = cur
  BY DEF HandleEvent, LoseEvent, RoomsInv, RoomsTypeOK, Apply, gateway
<1>3. GoneWasMade' /\ RowsSeen' /\ HubFinds'
  BY <1>1, <1>2 DEF GoneWasMade, RowsSeen, RowSeen, HubFinds, Registered, tables
<1>4. /\ Head(channel) \in News
      /\ News' \subseteq News /\ \A x \in News : x \in News' \/ x = Head(channel)
  <2>1. /\ DOMAIN channel = 1..Len(channel) /\ Len(channel) \in Nat \ {0} /\ DOMAIN channel' = 1..(Len(channel) - 1)
        /\ Head(channel) = channel[1]
        /\ \A i \in 1..(Len(channel) - 1) : channel'[i] = channel[i + 1]
    BY <1>2
  <2>2. 1 \in DOMAIN channel
    BY <2>1
  <2>3. \A i \in DOMAIN channel' : i + 1 \in DOMAIN channel /\ channel'[i] = channel[i + 1]
    BY <2>1
  <2>4. \A i \in DOMAIN channel : i = 1 \/ (i - 1 \in DOMAIN channel' /\ channel'[i - 1] = channel[i])
    BY <2>1
  <2>5. \A w \in Workers : (Tells(w)' <=> Tells(w)) /\ req'[w] = req[w]
    BY <1>2 DEF Tells, Doing
  <2>6. ASSUME NEW x \in News' PROVE x \in News
    <3>1. CASE \E i \in DOMAIN channel' : x = channel'[i]
      BY <2>3, <3>1 DEF News
    <3>2. CASE \E w \in Workers : Tells(w)' /\ x = EventOf(req'[w])
      BY <2>5, <3>2 DEF News
    <3> QED
      BY <2>6, <3>1, <3>2 DEF News
  <2>7. ASSUME NEW x \in News PROVE x \in News' \/ x = channel[1]
    <3>1. CASE \E i \in DOMAIN channel : x = channel[i]
      BY <2>4, <3>1 DEF News
    <3>2. CASE \E w \in Workers : Tells(w) /\ x = EventOf(req[w])
      BY <2>5, <3>2 DEF News
    <3> QED
      BY <2>7, <3>1, <3>2 DEF News
  <2> QED
    BY <2>1, <2>2, <2>6, <2>7 DEF News
<1>5. NewsTrue' /\ ViewsFollow'
  <2>1. CASE HandleEvent
    BY <1>1, <1>2, <1>4, <2>1, ViewsApplied DEF HandleEvent
  <2>2. CASE LoseEvent
    BY <1>1, <1>2, <1>4, <2>2, ViewsUntold DEF LoseEvent
  <2> QED
    BY <2>1, <2>2
<1> QED
  BY <1>3, <1>5 DEF SubscribedInv

(* Once requests and events have come to rest, the connection the hub has  *)
(* for a user is subscribed to the rooms he has a row in but those it was  *)
(* last told are disbanded - so to all the live ones, and to a disbanded   *)
(* one again if it read its rooms after the disband and was not told of    *)
(* it -, whatever order the rows, the publications, the calls of the hub   *)
(* and the steps of WsEndpoint came in, but for what cause notes: while    *)
(* news of a room is under way its version is the row's, and once none is, *)
(* a view is of the row's version.                                         *)
THEOREM SubscriptionsFollowTableHolds == Spec => []SubscriptionsFollowTable
<1>1. Init => SubscribedInv
  <2> SUFFICES ASSUME Init PROVE SubscribedInv
    OBVIOUS
  <2>1. /\ room \in [RoomIds -> {NoRow} \cup {Created(u) : u \in Users}]
        /\ channel = << >> /\ conn = [c \in Conns |-> "new"] /\ cur = [u \in Users |-> None]
        /\ req = [w \in Workers |-> Idle]
    BY DEF Init, RoomsInit, RequestsInit
  <2>2. News = {}
    BY <2>1 DEF News, Tells, Doing
  <2>3. \A r \in RoomIds : ~room[r].deleted
    <3>1. ~NoRow.deleted /\ \A u \in Users : ~Created(u).deleted
      BY DEF NoRow, Created
    <3> QED
      BY <2>1, <3>1
  <2>4. \A c \in Conns : ~Served(c)
    BY <2>1 DEF Served, Registered
  <2> QED
    BY <2>1, <2>2, <2>3, <2>4 DEF SubscribedInv, HubFinds, GoneWasMade, RowsSeen, NewsTrue, ViewsFollow,
       FollowsTable, OfRoom
<1>2. Shape /\ LoadInv /\ RoomsInv /\ RoomsInv' /\ SubscribedInv /\ [Next]_vars => SubscribedInv'
  <2> SUFFICES ASSUME Shape, LoadInv, RoomsInv, RoomsInv', SubscribedInv, [Next]_vars PROVE SubscribedInv'
    OBVIOUS
  <2>1. HubFinds /\ GoneWasMade /\ RowsSeen /\ NewsTrue /\ ViewsFollow
    BY DEF SubscribedInv
  <2>2. ASSUME UNCHANGED <<tables, channel, got, sub, cur, ended, observed>>,
               conn' = conn \/ \E u : conn' = [c \in Conns |-> IF cur[u] = c THEN "closing" ELSE conn[c]],
               \A w \in Workers : OfRoom(req[w]) => req'[w] = req[w],
               \A w \in Workers : OfRoom(req'[w]) => req'[w] = req[w] \/ (req'[w].at # "tell" /\ RowSeen(req'[w]))
        PROVE  SubscribedInv'
    <3>1. HubFinds' /\ \A c \in Conns : Served(c)' => Served(c) /\ RoomsOf(c)' = RoomsOf(c)
      BY <2>1, <2>2, ViewsOfKicked
    <3>2. GoneWasMade'
      BY <2>1, <2>2 DEF GoneWasMade, tables
    <3>3. RowsSeen'
      BY <2>1, <2>2 DEF RowsSeen, RowSeen, OfRoom, tables
    <3>4. News' = News
      <4>1. \A w \in Workers : (Tells(w)' <=> Tells(w)) /\ (Tells(w) => req'[w] = req[w])
        BY <2>2 DEF Tells, Doing, OfRoom
      <4> QED
        BY <2>2, <4>1 DEF News
    <3>5. NewsTrue' /\ ViewsFollow'
      BY <2>1, <2>2, <3>1, <3>4, ViewsKept DEF tables, observed
    <3> QED
      BY <3>1, <3>2, <3>3, <3>5 DEF SubscribedInv
  <2>3. ASSUME NEW w \in Workers, NEW r \in load.rooms, NEW q \in RoomRequests(r), BeginRoom(w, q)
        PROVE  SubscribedInv'
    <3>1. r \in RoomIds
      BY RoomsAssumption DEF LoadInv
    <3>2. q.row = NoRow /\ q.at \in {"read", "write"} /\ q.room = r /\ (q.at = "write" => q.op \in {"create", "agent_kick"})
      BY <3>1, RoomRequestBegins
    <3>3. q.op \in {"create", "join"} => q.target = q.by
      BY DEF RoomRequests, createRoom, joinRoom, disbandRoom, AgentKickUser, removeMember, AdminRoomAction,
         AdminDeleteRoom, RoomRequestOf, RowActions, TargetActions
    <3>4. req' = [req EXCEPT ![w] = q] /\ req[w] = Idle /\ UNCHANGED roomVars /\ (q.op = "create" <=> ~room[r].made)
      BY <2>3, <3>2 DEF BeginRoom, Arrives, Free
    <3>5. RowSeen(q)
      <4>1. ~NoRow.deleted
        BY DEF NoRow
      <4>2. {"create", "agent_kick"} \cap (RowActions \cup TargetActions) = {}
        BY DEF RowActions, TargetActions
      <4> QED
        BY <3>2, <3>3, <3>4, <4>1, <4>2 DEF RowSeen
    <3>6. \A x \in Workers : /\ OfRoom(req[x]) => req'[x] = req[x]
                             /\ req'[x] = req[x] \/ req'[x] = q
      BY <3>4 DEF Shape, OfRoom
    <3> QED
      BY <2>2, <3>2, <3>4, <3>5, <3>6 DEF roomVars, gateway
  <2>4. ASSUME NEW ops, RoomOps \cap ops = {}, Leaves(ops),
               UNCHANGED <<tables, channel, got, sub, cur, ended, observed>>,
               conn' = conn \/ \E u : conn' = [c \in Conns |-> IF cur[u] = c THEN "closing" ELSE conn[c]]
        PROVE  SubscribedInv'
    <3>1. \A w \in Workers : OfRoom(req[w]) \/ OfRoom(req'[w]) => req'[w] = req[w]
      BY <2>4 DEF Leaves, Mine, OfRoom
    <3> QED
      BY <2>2, <2>4, <3>1
  <2> QED
    BY <2>3, <2>4, RoomsApart, ViewsOfStep, ViewsOfEvent, ViewsOfConn DEF RoomsNext
<1>3. RoomsInv /\ SubscribedInv => SubscriptionsFollowTable
  <2> SUFFICES ASSUME RoomsInv, SubscribedInv, Quiet, NEW c \in Conns, NEW r \in RoomIds,
                      conn[c] = "active", cur[UserOf[c]] = c, <<c, r>> \notin cause
               PROVE  r \in sub[c] <=> r \in GetUserRoomIDs(UserOf[c]) /\ ~(room[r].deleted /\ r \in ended[c])
    BY DEF SubscriptionsFollowTable
  <2>1. News = {}
    BY DEF News, Quiet, Resting, Tells, Doing
  <2>2. UpToDate(c, r)
    BY <2>1 DEF SubscribedInv, ViewsFollow, FollowsTable, Served, Registered, ToldSoon
  <2> QED
    BY <2>2 DEF UpToDate, Expected, RoomsOf, GetUserRoomIDs
<1> QED
  BY ShapeHolds, LoadHolds, RoomsTypesHold, <1>1, <1>2, <1>3, PTL DEF Spec

-----------------------------------------------------------------------------
(* The log of what was done to users and events.  The definitions are      *)
(* about one row r of the tables, t its target, with the log a and the     *)
(* requests q.                                                             *)

ActsOn(p, t) == Acting(p) /\ p.target = t

SavedOn(p, t) == ActsOn(p, t) /\ p.at \in {"kick", "offline", "log"}

EntriesOf(a, t) ==
    {i \in DOMAIN a : a[i].op \in UserActions \cup EventActions /\ a[i].target = t}

(* The first row, one an action left that was logged, or one that an       *)
(* action left that is still to be logged.                                 *)
Left(x, t, a, q) ==
    \/ x = First[t]
    \/ \E i \in EntriesOf(a, t) : a[i].after = x
    \/ \E w \in Workers : SavedOn(q[w], t) /\ Changes(q[w]) = x

(* The row that the last of the entries s left.                            *)
LastLeft(x, t, a, s) ==
    \/ s = {} /\ x = First[t]
    \/ \E i \in s : (\A j \in s : j <= i) /\ a[i].after = x

(* Where actions do not overlap there is one at a time, and it starts      *)
(* where the log ends.                                                     *)
Chained(t, r, a, q) ==
    /\ \A v, w \in Workers : ActsOn(q[v], t) /\ ActsOn(q[w], t) => v = w
    /\ \A w \in Workers : ActsOn(q[w], t) =>
          /\ q[w].at \in {"read", "save"} => LastLeft(r, t, a, EntriesOf(a, t))
          /\ q[w].at = "save" => q[w].row = r
          /\ q[w].at \in {"kick", "offline", "log"} =>
                r = Changes(q[w]) /\ LastLeft(q[w].row, t, a, EntriesOf(a, t))
    /\ (\A w \in Workers : ~ActsOn(q[w], t)) => LastLeft(r, t, a, EntriesOf(a, t))
    /\ \A i \in EntriesOf(a, t) : LastLeft(a[i].before, t, a, {j \in EntriesOf(a, t) : j < i})

Followed(t, r, a, q, overlaps) ==
    /\ Left(r, t, a, q)
    /\ \A w \in Workers : ActsOn(q[w], t) /\ q[w].at # "read" => Left(q[w].row, t, a, q)
    /\ \A i \in EntriesOf(a, t) : Left(a[i].before, t, a, q)
    /\ t \notin overlaps => Chained(t, r, a, q)

RowsInv == faults = 0 => \A t \in Targets \cup Events : Followed(t, row[t], audit, req, mixed)

(* A request that does not concern the row, or goes on after its saving.   *)
GoesOn(p, n, t) ==
    \/ ~ActsOn(p, t) /\ ~ActsOn(n, t)
    \/ n = p
    \/ SavedOn(p, t) /\ SavedOn(n, t) /\ n.row = p.row /\ Changes(n) = Changes(p)

(* The log says of the row what it said.                                   *)
SameLog(a, b, t) ==
    EntriesOf(b, t) = EntriesOf(a, t) /\ \A i \in EntriesOf(a, t) : b[i] = a[i]

(* The last entry about a row speaks of the places where it is named.      *)
LEMMA LastLeftStays ==
  ASSUME NEW a, NEW b, NEW t, NEW s, NEW x, \A i \in s : b[i] = a[i]
  PROVE  LastLeft(x, t, a, s) <=> LastLeft(x, t, b, s)
BY DEF LastLeft

(* What a row was left as stays when neither its entries nor the requests  *)
(* that changed it do.                                                     *)
LEMMA LeftStays ==
  ASSUME NEW a, NEW b, NEW q, NEW n, NEW t, NEW x, SameLog(a, b, t), Left(x, t, a, q),
         \A w \in Workers : SavedOn(q[w], t) => SavedOn(n[w], t) /\ Changes(n[w]) = Changes(q[w])
  PROVE  Left(x, t, b, n)
BY DEF SameLog, Left

(* Nothing happens to the row.                                             *)
LEMMA RowRests ==
  ASSUME NEW t, NEW r, NEW a, NEW b, NEW q, NEW n, NEW overlaps, NEW more,
         Followed(t, r, a, q, overlaps), SameLog(a, b, t),
         t \notin more => t \notin overlaps,
         \A w \in Workers : GoesOn(q[w], n[w], t)
  PROVE  Followed(t, r, b, n, more)
<1>1. \A w \in Workers :
         /\ ActsOn(n[w], t) <=> ActsOn(q[w], t)
         /\ SavedOn(n[w], t) <=> SavedOn(q[w], t)
         /\ ActsOn(n[w], t) => /\ n[w].row = q[w].row /\ Changes(n[w]) = Changes(q[w])
                               /\ n[w].at = q[w].at \/ (SavedOn(n[w], t) /\ SavedOn(q[w], t))
  BY DEF GoesOn, SavedOn
<1>2. \A x : Left(x, t, a, q) => Left(x, t, b, n)
  BY <1>1, LeftStays DEF SavedOn
<1>3. ASSUME t \notin more PROVE Chained(t, r, b, n)
  <2>1. Chained(t, r, a, q)
    BY <1>3 DEF Followed
  <2>2. \A x : LastLeft(x, t, b, EntriesOf(b, t)) <=> LastLeft(x, t, a, EntriesOf(a, t))
    BY LastLeftStays DEF SameLog
  <2>3. ASSUME NEW i \in EntriesOf(b, t)
        PROVE  LastLeft(b[i].before, t, b, {j \in EntriesOf(b, t) : j < i})
    <3> DEFINE s == {j \in EntriesOf(a, t) : j < i}
    <3>1. EntriesOf(b, t) = EntriesOf(a, t) /\ b[i] = a[i] /\ \A j \in s : b[j] = a[j]
      BY <2>3 DEF SameLog
    <3>2. LastLeft(a[i].before, t, a, s)
      BY <2>1, <2>3, <3>1 DEF Chained
    <3>3. LastLeft(a[i].before, t, b, s)
      <4> HIDE DEF s
      <4> QED
        BY <3>1, <3>2, LastLeftStays
    <3> QED
      BY <3>1, <3>3
  <2>4. \A w \in Workers : ActsOn(n[w], t) =>
          /\ n[w].at \in {"read", "save"} => LastLeft(r, t, b, EntriesOf(b, t))
          /\ n[w].at = "save" => n[w].row = r
          /\ n[w].at \in {"kick", "offline", "log"} =>
                r = Changes(n[w]) /\ LastLeft(n[w].row, t, b, EntriesOf(b, t))
    BY <1>1, <2>1, <2>2 DEF Chained, SavedOn
  <2>5. /\ \A v, w \in Workers : ActsOn(n[v], t) /\ ActsOn(n[w], t) => v = w
        /\ (\A w \in Workers : ~ActsOn(n[w], t)) => LastLeft(r, t, b, EntriesOf(b, t))
    BY <1>1, <2>1, <2>2 DEF Chained
  <2> QED
    BY <2>3, <2>4, <2>5 DEF Chained
<1>4. \A i \in EntriesOf(b, t) : Left(b[i].before, t, b, n)
  BY <1>2 DEF Followed, SameLog
<1>5. \A w \in Workers : ActsOn(n[w], t) /\ n[w].at # "read" => Left(n[w].row, t, b, n)
  BY <1>1, <1>2 DEF Followed, SavedOn
<1> QED
  BY <1>2, <1>3, <1>4, <1>5 DEF Followed

(* An action on the row begins.                                            *)
LEMMA RowBegins ==
  ASSUME NEW t, NEW r, NEW a, NEW q, NEW n, NEW overlaps, NEW more, NEW w \in Workers,
         Followed(t, r, a, q, overlaps),
         ~ActsOn(q[w], t), ActsOn(n[w], t), n[w].at = "read",
         \A x \in Workers : x # w => n[x] = q[x],
         t \notin more => t \notin overlaps /\ \A x \in Workers : ~ActsOn(q[x], t)
  PROVE  Followed(t, r, a, n, more)
<1>1. \A x : Left(x, t, a, q) => Left(x, t, a, n)
  BY LeftStays DEF SavedOn, SameLog
<1>2. \A x \in Workers : ActsOn(n[x], t) /\ n[x].at # "read" => Left(n[x].row, t, a, n)
  BY <1>1 DEF Followed
<1>3. ASSUME t \notin more PROVE Chained(t, r, a, n)
  BY <1>3 DEF Followed, Chained
<1> QED
  BY <1>1, <1>2, <1>3 DEF Followed

(* It reads the row.                                                       *)
LEMMA RowRead ==
  ASSUME NEW t, NEW r, NEW a, NEW q, NEW n, NEW overlaps, NEW w \in Workers,
         Followed(t, r, a, q, overlaps),
         ActsOn(q[w], t), q[w].at = "read",
         ActsOn(n[w], t), n[w].at = "save", n[w].row = r,
         \A x \in Workers : x # w => n[x] = q[x]
  PROVE  Followed(t, r, a, n, overlaps)
<1>1. \A x : Left(x, t, a, q) => Left(x, t, a, n)
  BY LeftStays DEF SavedOn, SameLog
<1>2. \A x \in Workers : ActsOn(n[x], t) /\ n[x].at # "read" => Left(n[x].row, t, a, n)
  BY <1>1 DEF Followed
<1>3. ASSUME t \notin overlaps PROVE Chained(t, r, a, n)
  BY <1>3 DEF Followed, Chained
<1> QED
  BY <1>1, <1>2, <1>3 DEF Followed

(* It saves the row: the new row is what it left, and still to be logged.  *)
LEMMA RowSaved ==
  ASSUME NEW t, NEW r, NEW s, NEW a, NEW q, NEW n, NEW overlaps, NEW w \in Workers,
         Followed(t, r, a, q, overlaps),
         ActsOn(q[w], t), q[w].at = "save",
         ActsOn(n[w], t), n[w].at \in {"kick", "log"}, n[w].row = q[w].row,
         s = Changes(n[w]),
         \A x \in Workers : x # w => n[x] = q[x]
  PROVE  Followed(t, s, a, n, overlaps)
<1>1. \A x : Left(x, t, a, q) => Left(x, t, a, n)
  BY LeftStays DEF SavedOn, SameLog
<1>2. \A x \in Workers : ActsOn(n[x], t) /\ n[x].at # "read" => Left(n[x].row, t, a, n)
  BY <1>1 DEF Followed
<1>3. Left(s, t, a, n)
  BY DEF Left, SavedOn
<1>4. ASSUME t \notin overlaps PROVE Chained(t, s, a, n)
  <2>1. Chained(t, r, a, q)
    BY <1>4 DEF Followed
  <2>2. \A v \in Workers : ActsOn(q[v], t) => v = w
    BY <2>1 DEF Chained
  <2>3. \A v \in Workers : ActsOn(n[v], t) => v = w
    BY <2>2
  <2>4. LastLeft(n[w].row, t, a, EntriesOf(a, t))
    BY <2>1 DEF Chained
  <2>5. \A i \in EntriesOf(a, t) : LastLeft(a[i].before, t, a, {j \in EntriesOf(a, t) : j < i})
    BY <2>1 DEF Chained
  <2> QED
    BY <2>3, <2>4, <2>5 DEF Chained
<1> QED
  BY <1>1, <1>2, <1>3, <1>4 DEF Followed

(* What an entry adds to a row's.                                          *)
Grown(a, e, b) ==
    \E m \in Nat :
        /\ DOMAIN a = 1..m /\ DOMAIN b = 1..(m + 1)
        /\ \A i \in 1..m : b[i] = a[i]
        /\ b[m + 1] = e

NewEntry(a, b, t, e, k) ==
    /\ EntriesOf(a, t) \subseteq Int /\ \A i \in EntriesOf(a, t) : i < k
    /\ EntriesOf(b, t) = EntriesOf(a, t) \cup {k}
    /\ \A i \in EntriesOf(a, t) : b[i] = a[i]
    /\ b[k] = e

(* Appending an entry keeps those before it.                               *)
LEMMA AppendGrows ==
  ASSUME NEW S, NEW a \in Seq(S), NEW e, NEW b, b = Append(a, e)
  PROVE  Grown(a, e, b)
<1>1. a \in Seq(S \cup {e}) /\ e \in S \cup {e}
  OBVIOUS
<1>2. /\ Len(a) \in Nat /\ DOMAIN a = 1..Len(a) /\ DOMAIN b = 1..(Len(a) + 1)
      /\ \A i \in 1..Len(a) : b[i] = a[i]
      /\ b[Len(a) + 1] = e
  BY <1>1
<1> QED
  BY <1>2 DEF Grown

(* An entry is news for the row it names and for no other.                 *)
LEMMA EntryAdded ==
  ASSUME NEW a, NEW e, NEW t, NEW b, Grown(a, e, b)
  PROVE  /\ ~(e.op \in UserActions \cup EventActions /\ e.target = t) => SameLog(a, b, t)
         /\ e.op \in UserActions \cup EventActions /\ e.target = t =>
              \E k \in Int : NewEntry(a, b, t, e, k)
<1>0. PICK m \in Nat :
        /\ DOMAIN a = 1..m /\ DOMAIN b = 1..(m + 1)
        /\ \A i \in 1..m : b[i] = a[i]
        /\ b[m + 1] = e
  BY DEF Grown
<1> DEFINE k == m + 1
<1>1. /\ DOMAIN a = 1..m /\ DOMAIN b = 1..k
      /\ \A i \in DOMAIN a : b[i] = a[i]
      /\ b[k] = e
  BY <1>0
<1>6. k \in Int /\ \A i \in DOMAIN a : i \in Int /\ i < k
  BY <1>1
<1>2. EntriesOf(a, t) \subseteq DOMAIN a
  BY DEF EntriesOf
<1>3. EntriesOf(b, t) =
        EntriesOf(a, t) \cup {i \in {k} : e.op \in UserActions \cup EventActions /\ e.target = t}
  BY <1>1 DEF EntriesOf
<1>4. ~(e.op \in UserActions \cup EventActions /\ e.target = t) => SameLog(a, b, t)
  BY <1>1, <1>2, <1>3 DEF SameLog
<1>5. e.op \in UserActions \cup EventActions /\ e.target = t
         => EntriesOf(b, t) = EntriesOf(a, t) \cup {k}
  BY <1>3
<1> HIDE DEF k
<1>7. e.op \in UserActions \cup EventActions /\ e.target = t => NewEntry(a, b, t, e, k)
  BY <1>1, <1>2, <1>5, <1>6 DEF NewEntry
<1> QED
  BY <1>4, <1>6, <1>7

(* It is logged: what it left is now an entry's.                           *)
LEMMA RowLogged ==
  ASSUME NEW t, NEW r, NEW a, NEW e, NEW b, NEW q, NEW n, NEW overlaps, NEW w \in Workers,
         Followed(t, r, a, q, overlaps),
         ActsOn(q[w], t), q[w].at = "log", n[w] = Idle,
         Grown(a, e, b), e.op \in UserActions \cup EventActions, e.target = t,
         e.before = q[w].row, e.after = Changes(q[w]),
         \A x \in Workers : x # w => n[x] = q[x]
  PROVE  Followed(t, r, b, n, overlaps)
<1> DEFINE old == EntriesOf(a, t)
<1> PICK k \in Int : NewEntry(a, b, t, e, k)
  BY EntryAdded
<1>k. /\ EntriesOf(a, t) \subseteq Int /\ \A i \in EntriesOf(a, t) : i < k
      /\ EntriesOf(b, t) = EntriesOf(a, t) \cup {k}
      /\ \A i \in EntriesOf(a, t) : b[i] = a[i]
      /\ b[k] = e
  BY DEF NewEntry
<1> USE <1>k
<1>0. ~ActsOn(n[w], t)
  BY DEF ActsOn, Acting
<1>1. ASSUME NEW x, Left(x, t, a, q) PROVE Left(x, t, b, n)
  <2>1. CASE \E v \in Workers : SavedOn(q[v], t) /\ Changes(q[v]) = x
    <3>1. PICK v \in Workers : SavedOn(q[v], t) /\ Changes(q[v]) = x
      BY <2>1
    <3>2. CASE v = w
      BY <3>1, <3>2 DEF Left
    <3>3. CASE v # w
      BY <3>1, <3>3 DEF Left
    <3> QED
      BY <3>2, <3>3
  <2>2. CASE x = First[t] \/ \E i \in EntriesOf(a, t) : a[i].after = x
    BY <2>2 DEF Left
  <2> QED
    BY <1>1, <2>1, <2>2 DEF Left
<1>2. \A x \in Workers : ActsOn(n[x], t) /\ n[x].at # "read" => Left(n[x].row, t, b, n)
  BY <1>0, <1>1 DEF Followed
<1>3. \A i \in EntriesOf(b, t) : Left(b[i].before, t, b, n)
  <2>1. Left(q[w].row, t, a, q)
    BY DEF Followed
  <2> QED
    BY <1>1, <2>1 DEF Followed
<1>4. ASSUME t \notin overlaps PROVE Chained(t, r, b, n)
  <2>1. Chained(t, r, a, q)
    BY <1>4 DEF Followed
  <2>2. \A v \in Workers : ~ActsOn(n[v], t)
    BY <1>0, <2>1 DEF Chained
  <2>3. r = Changes(q[w]) /\ LastLeft(q[w].row, t, a, old)
    BY <2>1 DEF Chained
  <2>4. LastLeft(r, t, b, EntriesOf(b, t))
    <3>1. \A j \in EntriesOf(b, t) : j <= k
      OBVIOUS
    <3> QED
      BY <2>3, <3>1 DEF LastLeft
  <2>5. ASSUME NEW i \in EntriesOf(b, t)
        PROVE  LastLeft(b[i].before, t, b, {j \in EntriesOf(b, t) : j < i})
    <3> DEFINE s == {j \in EntriesOf(a, t) : j < i}
    <3>1. {j \in EntriesOf(b, t) : j < i} = s
      OBVIOUS
    <3>2. LastLeft(b[i].before, t, a, s)
      <4>1. CASE i = k
        <5>1. s = old
          BY <4>1
        <5> QED
          BY <2>3, <4>1, <5>1
      <4>2. CASE i \in EntriesOf(a, t)
        <5>1. b[i] = a[i]
          BY <4>2
        <5> QED
          BY <2>1, <4>2, <5>1 DEF Chained
      <4> QED
        BY <4>1, <4>2
    <3>3. \A j \in s : b[j] = a[j]
      OBVIOUS
    <3> HIDE DEF s
    <3> QED
      BY <3>1, <3>2, <3>3, LastLeftStays
  <2> QED
    BY <2>2, <2>4, <2>5 DEF Chained
<1> QED
  BY <1>1, <1>2, <1>3, <1>4 DEF Followed

(* A request that goes on leaves what it left.                             *)
LEMMA ChangesStay ==
  ASSUME NEW p, NEW n, n.op = p.op, n.row = p.row, n.old = p.old, n.field = p.field, n.value = p.value
  PROVE  Changes(n) = Changes(p)
BY DEF Changes, Updated

(* An action acts on the one row that is its target.                       *)
LEMMA ActionTargets ==
  ASSUME GovernanceInv, NEW t \in Targets \cup Events, NEW w \in Workers, Acting(req[w])
  PROVE  /\ req[w].target = t <=> ActsOn(req[w], t)
         /\ req[w].op \in ConfigActions => ~ActsOn(req[w], t)
         /\ ActsOn(req[w], t) => req[w].op \in UserActions \cup EventActions /\ row[t] # NoConfig
<1>1. ActionOK(req[w])
  BY DEF GovernanceInv
<1>2. /\ req[w].op \in ConfigActions <=> req[w].target = "config"
      /\ req[w].op \in UserActions \cup EventActions \cup ConfigActions
  BY <1>1, RowTypes
<1>3. row[t] # NoConfig
  BY RowsAreNotNone DEF GovernanceInv
<1> QED
  BY <1>2, <1>3, GovernanceAssumption DEF ActsOn

(* A request's step that is not about the row.                             *)
LEMMA OtherRow ==
  ASSUME Shape, GovernanceInv, NEW t \in Targets \cup Events,
         Followed(t, row[t], audit, req, mixed),
         NEW w \in Workers, GovernanceStep(w), ~ActsOn(req[w], t)
  PROVE  Followed(t, row'[t], audit', req', mixed')
<1>1. /\ Acting(req[w]) /\ ActionOK(req[w])
      /\ \A x \in Workers : x # w => req'[x] = req[x]
      /\ req'[w] # Idle => req'[w].target = req[w].target
  BY ActionSteps
<1>2. \A x \in Workers : GoesOn(req[x], req'[x], t)
  BY <1>1 DEF GoesOn, ActsOn, Acting
<1>3. row'[t] = row[t] /\ mixed' = mixed
  <2>1. CASE SaveRow(w)
    <3>1. req[w].target # t
      BY <1>1 DEF ActsOn
    <3> QED
      BY <2>1, <3>1, ActionsThatWrite DEF GovernanceInv, Rows
  <2>2. CASE CreateConfig(w) \/ SaveConfig(w)
    <3>1. t # "config"
      BY GovernanceAssumption
    <3> QED
      BY <2>2, <3>1, ActionsThatWrite DEF GovernanceInv, Rows
  <2> QED
    BY <2>1, <2>2, ActionsThatRead DEF GovernanceStep, governanceVars
<1>4. SameLog(audit, audit', t)
  <2>1. CASE LogAction(w)
    <3>1. PICK e : e.target = req[w].target /\ audit' = Append(audit, e)
      BY <2>1 DEF LogAction, Log
    <3>2. e.target # t
      BY <1>1, <3>1 DEF ActsOn
    <3>3. PICK S : audit \in Seq(S)
      BY DEF Shape
    <3>4. Grown(audit, e, audit')
      BY <3>1, <3>3, AppendGrows
    <3> QED
      BY <3>2, <3>4, EntryAdded
  <2>2. CASE audit' = audit
    BY <2>2 DEF SameLog
  <2> QED
    BY <2>1, <2>2 DEF GovernanceStep, ReadLatest, ReadRow, CreateConfig, SaveRow, SaveConfig,
       KickUser, SetUserOffline, Quietly
<1> QED
  BY <1>2, <1>3, <1>4, RowRests

(* A request's step that is about the row.                                 *)
LEMMA ThisRow ==
  ASSUME Shape, GovernanceInv, NEW t \in Targets \cup Events,
         Followed(t, row[t], audit, req, mixed),
         NEW w \in Workers, GovernanceStep(w), ActsOn(req[w], t)
  PROVE  Followed(t, row'[t], audit', req', mixed')
<1>1. /\ Acting(req[w]) /\ ActionOK(req[w]) /\ req[w].target = t
      /\ \A x \in Workers : x # w => req'[x] = req[x]
      /\ req'[w] # Idle => Acting(req'[w]) /\ req'[w].target = t
  BY ActionSteps DEF ActsOn
<1>2. /\ req[w].op \in UserActions \cup EventActions /\ req[w].op \notin ConfigActions
      /\ row[t] # NoConfig
  <2>1. req[w].op \in UserActions \cup EventActions /\ row[t] # NoConfig
    BY <1>1, ActionTargets
  <2> QED
    BY <2>1, ActionNames DEF UserActions, EventActions, ConfigActions
<1>3. ~ReadLatest(w) /\ ~CreateConfig(w) /\ ~SaveConfig(w)
  BY <1>2 DEF ReadLatest, CreateConfig, SaveConfig, Doing, ConfigActions
<1>4. ASSUME NEW at, Go(w, at)
      PROVE  /\ ActsOn(req'[w], t) /\ req'[w].at = at /\ req'[w].row = req[w].row
             /\ Changes(req'[w]) = Changes(req[w])
  <2>1. /\ req'[w].at = at /\ req'[w].op = req[w].op /\ req'[w].target = req[w].target
        /\ req'[w].row = req[w].row /\ req'[w].old = req[w].old
        /\ req'[w].field = req[w].field /\ req'[w].value = req[w].value
    BY <1>1, <1>4, ActionGoes
  <2>2. PICK p, n : p = req[w] /\ n = req'[w]
    OBVIOUS
  <2>3. Changes(n) = Changes(p)
    BY <2>1, <2>2, ChangesStay
  <2>4. req'[w] # Idle
    BY <1>2, <2>1, ActionNames DEF Idle, UserActions, EventActions
  <2> QED
    BY <1>1, <2>1, <2>2, <2>3, <2>4 DEF ActsOn
<1>5. ASSUME ReadRow(w) PROVE Followed(t, row'[t], audit', req', mixed')
  <2>1. row' = row /\ mixed' = mixed /\ audit' = audit
    BY <1>5, ActionsThatRead DEF ReadRow, governanceVars, Quietly
  <2>2. req[w].op # "config_get"
    BY <1>2 DEF ConfigActions
  <2>3. req' = [req EXCEPT ![w].row = row[t], ![w].at = "save"] /\ req[w].at = "read"
    BY <1>1, <1>2, <1>5, <2>2 DEF ReadRow, Doing
  <2>4. DOMAIN req[w] = {"op", "target", "row", "old", "field", "value", "at"}
    BY <1>1 DEF ActionOK, ActionRequests
  <2>5. req'[w].row = row[t] /\ req'[w].at = "save" /\ req'[w] # Idle
    BY <2>3, <2>4 DEF Shape, Idle
  <2>6. ActsOn(req'[w], t)
    BY <1>1, <2>5 DEF ActsOn
  <2>7. PICK n : n = req'
    OBVIOUS
  <2>8. req[w].at = "read" /\ n[w].row = row[t] /\ n[w].at = "save" /\ ActsOn(n[w], t)
        /\ \A x \in Workers : x # w => n[x] = req[x]
    BY <1>1, <2>3, <2>5, <2>6, <2>7
  <2>9. Followed(t, row[t], audit, n, mixed)
    BY <2>8, RowRead
  <2> QED
    BY <2>1, <2>7, <2>9
<1>6. ASSUME SaveRow(w) PROVE Followed(t, row'[t], audit', req', mixed')
  <2>1. /\ req[w].at = "save" /\ row' = [row EXCEPT ![t] = Changes(req[w])] /\ mixed' = mixed
        /\ Go(w, IF req[w].op = "ban" THEN "kick" ELSE "log")
    BY <1>1, <1>6, ActionsThatWrite
  <2>2. audit' = audit
    BY <1>6 DEF SaveRow, Quietly
  <2>3. row'[t] = Changes(req[w])
    BY <2>1 DEF GovernanceInv, Rows
  <2>4. /\ ActsOn(req'[w], t) /\ req'[w].at \in {"kick", "log"} /\ req'[w].row = req[w].row
        /\ Changes(req'[w]) = Changes(req[w])
    BY <1>4, <2>1
  <2>5. PICK p, n, s : p = req /\ n = req' /\ s = row'[t]
    OBVIOUS
  <2>6. Followed(t, s, audit, n, mixed)
    BY <1>1, <2>1, <2>3, <2>4, <2>5, RowSaved
  <2> QED
    BY <2>1, <2>2, <2>5, <2>6
<1>7. ASSUME KickUser(w) \/ SetUserOffline(w) PROVE Followed(t, row'[t], audit', req', mixed')
  <2>1. row' = row /\ mixed' = mixed /\ audit' = audit
    BY <1>7, ActionsThatRead DEF KickUser, SetUserOffline, governanceVars, Quietly
  <2>2. req[w].at \in {"kick", "offline"} /\ (Go(w, "offline") \/ Go(w, "log"))
    BY <1>7 DEF KickUser, SetUserOffline, Doing
  <2>3. PICK p, n : p = req /\ n = req'
    OBVIOUS
  <2>4. /\ ActsOn(n[w], t) /\ n[w].at \in {"offline", "log"} /\ n[w].row = p[w].row
        /\ Changes(n[w]) = Changes(p[w])
    BY <1>4, <2>2, <2>3
  <2>5. \A x \in Workers : GoesOn(p[x], n[x], t)
    BY <1>1, <2>2, <2>3, <2>4 DEF GoesOn, SavedOn
  <2> QED
    BY <2>1, <2>3, <2>5, RowRests DEF SameLog
<1>8. ASSUME LogAction(w) PROVE Followed(t, row'[t], audit', req', mixed')
  <2>1. row' = row /\ mixed' = mixed
    BY <1>8, ActionsThatRead DEF governanceVars
  <2> DEFINE e == [op |-> req[w].op, target |-> req[w].target,
                   before |-> Shown(req[w], BeforeOf(req[w])),
                   after |-> Shown(req[w], Changes(req[w]))]
  <2>2. audit' = Append(audit, e) /\ req'[w] = Idle /\ req[w].at = "log"
    BY <1>8 DEF LogAction, Log, Return, Shape, Doing
  <2>3. req[w].op # "config_rollback"
    BY <1>2 DEF ConfigActions
  <2>4. /\ e.op = req[w].op /\ e.target = t /\ e.before = req[w].row /\ e.after = Changes(req[w])
    BY <1>1, <2>3 DEF Shown, BeforeOf
  <2>5. PICK S : audit \in Seq(S)
    BY DEF Shape
  <2>6. PICK d, p, n, b : d = e /\ p = req /\ n = req' /\ b = audit'
    OBVIOUS
  <2> HIDE DEF e
  <2>7. b = Append(audit, d) /\ n[w] = Idle /\ d.op \in UserActions \cup EventActions /\ d.target = t
        /\ d.before = p[w].row /\ d.after = Changes(p[w])
    BY <1>2, <2>2, <2>4, <2>6
  <2>8. /\ ActsOn(req[w], t) /\ req[w].at = "log" /\ n[w] = Idle
        /\ d.before = req[w].row /\ d.after = Changes(req[w])
        /\ \A x \in Workers : x # w => n[x] = req[x]
    BY <1>1, <2>2, <2>6, <2>7
  <2>9. Grown(audit, d, b) /\ d.op \in UserActions \cup EventActions /\ d.target = t
    BY <2>5, <2>7, AppendGrows
  <2>10. Followed(t, row[t], b, n, mixed)
    BY <2>8, <2>9, RowLogged
  <2> QED
    BY <2>1, <2>6, <2>10
<1> QED
  BY <1>3, <1>5, <1>6, <1>7, <1>8 DEF GovernanceStep

(* Administrators' steps keep the rows true to the log.                    *)
LEMMA RowsStep ==
  ASSUME Shape, GovernanceInv, RowsInv, GovernanceNext
  PROVE  RowsInv'
<1> SUFFICES ASSUME faults' = 0, NEW t \in Targets \cup Events
             PROVE  Followed(t, row'[t], audit', req', mixed')
  BY DEF RowsInv
<1>1. faults = 0
  <2>1. faults' >= faults /\ faults \in Nat
    BY GovernanceLeaves DEF Leaves, Shape
  <2> QED
    BY <2>1
<1>2. Followed(t, row[t], audit, req, mixed)
  BY <1>1 DEF RowsInv
<1>3. ASSUME NEW w \in Workers, GovernanceStep(w)
      PROVE  Followed(t, row'[t], audit', req', mixed')
  BY <1>2, <1>3, OtherRow, ThisRow
<1>4. ASSUME NEW w \in Workers, ActionFails(w) PROVE FALSE
  BY <1>1, <1>4 DEF ActionFails, Fault
<1>5. ASSUME NEW w \in Workers, NEW p \in AdminRequests, BeginAction(w, p)
      PROVE  Followed(t, row'[t], audit', req', mixed')
  <2>1. /\ req[w] = Idle /\ req'[w] = p /\ Acting(p) /\ ActionOK(p) /\ p.at \in {"read", "latest"}
        /\ p.at = "latest" <=> p.op = "config_rollback"
        /\ \A x \in Workers : x # w => req'[x] = req[x]
    BY <1>5, ActionBegins
  <2>2. row' = row /\ audit' = audit
    BY <1>5 DEF BeginAction, Arrives
  <2>3. /\ t \notin mixed' => t \notin mixed
        /\ t \notin mixed' /\ p.target = t => \A x \in Workers : ~(req[x] # Idle /\ req[x].target = t)
    BY <1>5 DEF BeginAction
  <2>4. PICK n, more : n = req' /\ more = mixed'
    OBVIOUS
  <2>5. ~ActsOn(req[w], t)
    BY <2>1 DEF ActsOn, Acting
  <2>6. CASE p.target = t
    <3>1. p.op # "config_rollback"
      BY <2>1, <2>6, RowTypes, GovernanceAssumption DEF ConfigActions
    <3>2. ActsOn(n[w], t) /\ n[w].at = "read"
      BY <2>1, <2>4, <2>6, <3>1 DEF ActsOn
    <3>3. t \notin more => t \notin mixed /\ \A x \in Workers : ~ActsOn(req[x], t)
      BY <2>3, <2>4, <2>6 DEF ActsOn, Acting
    <3>4. Followed(t, row[t], audit, n, more)
      BY <1>2, <2>1, <2>4, <2>5, <3>2, <3>3, RowBegins
    <3> QED
      BY <2>2, <2>4, <3>4
  <2>7. CASE p.target # t
    <3>1. \A x \in Workers : GoesOn(req[x], n[x], t)
      BY <2>1, <2>4, <2>5, <2>7 DEF GoesOn, ActsOn
    <3> QED
      BY <1>2, <2>2, <2>3, <2>4, <3>1, RowRests DEF SameLog
  <2> QED
    BY <2>6, <2>7
<1>6. ASSUME NEW size \in PageSizes, AdminAuditList(size) \/ AdminAgentConfigHistory(size)
      PROVE  Followed(t, row'[t], audit', req', mixed')
  <2>1. row' = row /\ mixed' = mixed /\ req' = req /\ audit' = audit
    BY <1>6 DEF AdminAuditList, AdminAgentConfigHistory, ReadPage, governed, Quietly
  <2> QED
    BY <1>2, <2>1
<1> QED
  BY <1>3, <1>4, <1>5, <1>6 DEF GovernanceNext

(* So do the steps of all other services.                                  *)
LEMMA RowsForeign ==
  ASSUME Shape, GovernanceInv, RowsInv, NEW ops, GovernanceOps \cap ops = {}, Leaves(ops),
         UNCHANGED governanceVars
  PROVE  RowsInv'
<1> SUFFICES ASSUME faults' = 0, NEW t \in Targets \cup Events
             PROVE  Followed(t, row'[t], audit', req', mixed')
  BY DEF RowsInv
<1>1. faults = 0
  BY DEF Leaves, Shape
<1>2. Followed(t, row[t], audit, req, mixed)
  BY <1>1 DEF RowsInv
<1>3. row' = row /\ mixed' = mixed
  BY DEF governanceVars
<1>4. \A x \in Workers : GoesOn(req[x], req'[x], t)
  BY GovernanceForeign DEF GoesOn, ActsOn
<1>5. SameLog(audit, audit', t)
  <2>1. CASE audit' = audit
    BY <2>1 DEF SameLog
  <2>2. ASSUME NEW e, e.op \in ops, audit' = Append(audit, e) PROVE SameLog(audit, audit', t)
    <3>1. e.op \notin UserActions \cup EventActions
      BY <2>2 DEF GovernanceOps
    <3>2. PICK S : audit \in Seq(S)
      BY DEF Shape
    <3>3. Grown(audit, e, audit')
      BY <2>2, <3>2, AppendGrows
    <3> QED
      BY <3>1, <3>3, EntryAdded
  <2> QED
    BY <2>1, <2>2 DEF Leaves
<1> QED
  BY <1>2, <1>3, <1>4, <1>5, RowRests

(* The row the last entry left, as the log's reader finds it.              *)
LEMMA EndOfLog ==
  ASSUME NEW a, NEW t, NEW s, s \subseteq Int, NEW x, LastLeft(x, t, a, s)
  PROVE  x = IF s = {} THEN First[t] ELSE a[CHOOSE i \in s : \A j \in s : j <= i].after
<1>1. CASE s = {}
  BY <1>1 DEF LastLeft
<1>2. CASE s # {}
  <2>1. PICK i \in s : (\A j \in s : j <= i) /\ a[i].after = x
    BY <1>2 DEF LastLeft
  <2>2. PICK k : k = CHOOSE n \in s : \A j \in s : j <= n
    OBVIOUS
  <2>3. k \in s /\ \A j \in s : j <= k
    BY <2>1, <2>2
  <2>4. k \in Int /\ i \in Int /\ k <= i /\ i <= k
    BY <2>1, <2>3
  <2>5. k = i
    BY <2>4
  <2>6. x = a[k].after
    BY <2>1, <2>5
  <2> QED
    BY <1>2, <2>2, <2>6
<1> QED
  BY <1>1, <1>2

(* The log lets a user's or an event's row be followed: while nothing      *)
(* fails, every logged action starts from a row another one left, and the  *)
(* table at rest is a row that one left; where actions did not overlap     *)
(* they are a chain, in the order they are logged, that ends in the table  *)
(* (user_service.go, moderation_dashboard.go: read, change, save, log).    *)
THEOREM AuditTellsRowHolds == Spec => []AuditTellsRow
<1>1. Init => RowsInv
  <2> SUFFICES ASSUME Init, NEW t \in Targets \cup Events
               PROVE  Followed(t, row[t], audit, req, mixed)
    BY DEF RowsInv
  <2>1. row = First /\ audit = << >> /\ req = [w \in Workers |-> Idle]
    BY DEF Init, GovernanceInit, RequestsInit
  <2>2. EntriesOf(audit, t) = {}
    BY <2>1 DEF EntriesOf
  <2>3. \A w \in Workers : ~ActsOn(req[w], t)
    BY <2>1 DEF ActsOn, Acting
  <2>4. Left(row[t], t, audit, req) /\ LastLeft(row[t], t, audit, {})
    BY <2>1 DEF Left, LastLeft
  <2>5. Chained(t, row[t], audit, req)
    BY <2>2, <2>3, <2>4 DEF Chained
  <2> QED
    BY <2>2, <2>3, <2>4, <2>5 DEF Followed
<1>2. Shape /\ GovernanceInv /\ RowsInv /\ [Next]_vars => RowsInv'
  BY GovernanceApart, RowsStep, RowsForeign
<1>3. Shape /\ RowsInv => AuditTellsRow
  <2> SUFFICES ASSUME Shape, RowsInv, faults = 0, NEW t \in Targets \cup Events, Resting
               PROVE  /\ row[t] \in {First[t]} \cup {audit[i].after : i \in Entries(t)}
                      /\ \A i \in Entries(t) :
                            audit[i].before \in {First[t]} \cup {audit[j].after : j \in Entries(t)}
                      /\ t \notin mixed =>
                           /\ row[t] = IF Entries(t) = {} THEN First[t]
                                       ELSE audit[CHOOSE i \in Entries(t) :
                                                    \A j \in Entries(t) : j <= i].after
                           /\ \A i \in Entries(t) :
                                audit[i].before =
                                  IF Before(t, i) = {} THEN First[t]
                                  ELSE audit[CHOOSE k \in Before(t, i) :
                                               \A j \in Before(t, i) : j <= k].after
    BY DEF AuditTellsRow
  <2>1. Followed(t, row[t], audit, req, mixed)
    BY DEF RowsInv
  <2>2. \A w \in Workers : ~ActsOn(req[w], t)
    BY DEF Resting, ActsOn, Acting
  <2>3. /\ EntriesOf(audit, t) = Entries(t) /\ Entries(t) \subseteq Int
        /\ \A i : Before(t, i) = {j \in EntriesOf(audit, t) : j < i} /\ Before(t, i) \subseteq Int
    BY AuditLen DEF Entries, EntriesOf, Before
  <2>4. \A x : Left(x, t, audit, req) => x \in {First[t]} \cup {audit[i].after : i \in Entries(t)}
    BY <2>2, <2>3 DEF Left, SavedOn
  <2>5. /\ row[t] \in {First[t]} \cup {audit[i].after : i \in Entries(t)}
        /\ \A i \in Entries(t) :
              audit[i].before \in {First[t]} \cup {audit[j].after : j \in Entries(t)}
    BY <2>1, <2>3, <2>4 DEF Followed
  <2>6. ASSUME t \notin mixed
        PROVE  /\ row[t] = IF Entries(t) = {} THEN First[t]
                           ELSE audit[CHOOSE i \in Entries(t) : \A j \in Entries(t) : j <= i].after
               /\ \A i \in Entries(t) :
                    audit[i].before =
                      IF Before(t, i) = {} THEN First[t]
                      ELSE audit[CHOOSE k \in Before(t, i) : \A j \in Before(t, i) : j <= k].after
    <3>1. /\ LastLeft(row[t], t, audit, Entries(t))
          /\ \A i \in Entries(t) : LastLeft(audit[i].before, t, audit, Before(t, i))
      BY <2>1, <2>2, <2>3, <2>6 DEF Followed, Chained
    <3>2. row[t] = IF Entries(t) = {} THEN First[t]
                   ELSE audit[CHOOSE i \in Entries(t) : \A j \in Entries(t) : j <= i].after
      BY <2>3, <3>1, EndOfLog
    <3>3. ASSUME NEW i \in Entries(t)
          PROVE  audit[i].before =
                   IF Before(t, i) = {} THEN First[t]
                   ELSE audit[CHOOSE k \in Before(t, i) : \A j \in Before(t, i) : j <= k].after
      <4>1. PICK s, x : s = Before(t, i) /\ x = audit[i].before
        OBVIOUS
      <4>2. s \subseteq Int /\ LastLeft(x, t, audit, s)
        BY <2>3, <3>1, <4>1
      <4>3. x = IF s = {} THEN First[t] ELSE audit[CHOOSE k \in s : \A j \in s : j <= k].after
        BY <4>2, EndOfLog
      <4> QED
        BY <4>1, <4>3
    <3> QED
      BY <3>2, <3>3
  <2> QED
    BY <2>5, <2>6
<1> QED
  BY ShapeHolds, GovernanceTypesHold, <1>1, <1>2, <1>3, PTL DEF Spec

-----------------------------------------------------------------------------
(* Lists and details *)

(* Pages of one row show every row; the first page, for who asks for no    *)
(* page and no size, shows those that 19 or fewer come before.             *)
LEMMA RowsShown ==
  ASSUME NEW rows, IsFiniteSet(rows), rows \subseteq Users \cup RoomIds
  PROVE  /\ UNION {Page(rows, n, 1) : n \in 1..Cardinality(rows)} = rows
         /\ Page(rows, 0, 0) = {x \in rows : Cardinality({y \in rows : Id[y] > Id[x]}) \in 0..19}
         /\ Cardinality(rows) <= 20 => Page(rows, 0, 0) = rows
         /\ Cardinality(rows) \in Nat
<1> DEFINE before(x) == {y \in rows : Id[y] > Id[x]}
           position == [x \in rows |-> Cardinality({y \in rows : Id[y] > Id[x]})]
<1>1. Cardinality(rows) \in Nat
  BY FS_CardinalityType
<1>2. ASSUME NEW x \in rows
      PROVE  position[x] \in Nat /\ position[x] <= Cardinality(rows) - 1
  <2>1. before(x) \subseteq rows \ {x}
    <3>1. Id[x] \in Nat
      BY ViewsAssumption
    <3> QED
      BY <3>1
  <2>2. IsFiniteSet(rows \ {x}) /\ Cardinality(rows \ {x}) = Cardinality(rows) - 1
    BY FS_RemoveElement
  <2> DEFINE b == before(x)
  <2>3. position[x] = Cardinality(b) /\ b \subseteq rows \ {x}
    BY <2>1
  <2> HIDE DEF b, position
  <2>4. Cardinality(b) \in Nat /\ Cardinality(b) <= Cardinality(rows \ {x})
    BY <2>2, <2>3, FS_Subset, FS_CardinalityType
  <2> QED
    BY <2>2, <2>3, <2>4
<1>3. ASSUME NEW n \in Nat \ {0}
      PROVE  Page(rows, n, 1) = {x \in rows : position[x] \in (n - 1)..(n - 1)}
  <2>1. PageNumber(n) = n /\ PageSize(1) = 1 /\ Offset(n, 1) = n - 1 /\ n - 1 + 1 - 1 = n - 1
    BY DEF PageNumber, PageSize, Offset
  <2> HIDE DEF position
  <2> QED
    BY <2>1 DEF Page, OnPage, position
<1>4. ASSUME NEW x \in rows
      PROVE  \E n \in 1..Cardinality(rows) : x \in Page(rows, n, 1)
  <2> HIDE DEF position
  <2>1. position[x] + 1 \in 1..Cardinality(rows) /\ position[x] + 1 \in Nat \ {0}
    BY <1>1, <1>2
  <2>2. x \in Page(rows, position[x] + 1, 1)
    <3> DEFINE n == position[x] + 1
    <3>1. position[x] \in (n - 1)..(n - 1) /\ n \in Nat \ {0}
      BY <1>2, <2>1
    <3> HIDE DEF n
    <3>2. x \in Page(rows, n, 1)
      BY <1>3, <3>1
    <3> QED
      BY <3>2 DEF n
  <2> QED
    BY <2>1, <2>2
<1>5. UNION {Page(rows, n, 1) : n \in 1..Cardinality(rows)} = rows
  <2>1. \A n \in 1..Cardinality(rows) : Page(rows, n, 1) \subseteq rows
    BY DEF Page, OnPage
  <2> QED
    BY <1>4, <2>1
<1>6. Page(rows, 0, 0) = {x \in rows : position[x] \in 0..19}
  <2>1. PageNumber(0) = 1 /\ PageSize(0) = 20 /\ Offset(1, 20) = 0 /\ 0 + 20 - 1 = 19
    BY DEF PageNumber, PageSize, Offset
  <2> HIDE DEF position
  <2> QED
    BY <2>1 DEF Page, OnPage, position
<1>7. ASSUME Cardinality(rows) <= 20 PROVE \A x \in rows : position[x] \in 0..19
  <2> HIDE DEF position
  <2> QED
    BY <1>1, <1>2, <1>7
<1> QED
  BY <1>1, <1>5, <1>6, <1>7

(* The pairs of a table with one first, or one second, and what is paired. *)
WithFirst(rows, a) == {p \in rows : p[1] = a}

WithSecond(rows, a) == {p \in rows : p[2] = a}

SecondsOf(rows, S, a) == {x \in S : <<a, x>> \in rows}

FirstsOf(rows, S, a) == {x \in S : <<x, a>> \in rows}

(* What is counted with one statement for all keys is what is counted for  *)
(* each, where the key comes first ...                                     *)
LEMMA PairsWithFirst ==
  ASSUME NEW S, IsFiniteSet(S), NEW rows, \A p \in rows : p = <<p[1], p[2]>> /\ p[2] \in S, NEW a
  PROVE  Cardinality(WithFirst(rows, a)) = Cardinality(SecondsOf(rows, S, a))
<1> DEFINE one == SecondsOf(rows, S, a)
           all == WithFirst(rows, a)
           f == [x \in one |-> <<a, x>>]
<1>1. IsFiniteSet(one)
  BY FS_Subset DEF SecondsOf
<1>2. f \in Bijection(one, all)
  <2>1. f \in [one -> all]
    BY DEF WithFirst, SecondsOf
  <2>2. \A x, y \in one : f[x] = f[y] => x = y
    OBVIOUS
  <2>3. \A p \in all : \E x \in one : f[x] = p
    <3>1. ASSUME NEW p \in all PROVE p[2] \in one /\ f[p[2]] = p
      BY DEF WithFirst, SecondsOf
    <3> QED
      BY <3>1
  <2> HIDE DEF f, one, all
  <2> QED
    BY <2>1, <2>2, <2>3 DEF Bijection, Injection, Surjection, IsInjective
<1> HIDE DEF f, one, all
<1>3. ExistsBijection(one, all)
  BY <1>2, Zenon DEF ExistsBijection
<1>4. Cardinality(all) = Cardinality(one)
  BY <1>1, <1>3, FS_Bijection
<1> QED
  BY <1>4 DEF one, all

(* ... or second.                                                          *)
LEMMA PairsWithSecond ==
  ASSUME NEW S, IsFiniteSet(S), NEW rows, \A p \in rows : p = <<p[1], p[2]>> /\ p[1] \in S, NEW a
  PROVE  Cardinality(WithSecond(rows, a)) = Cardinality(FirstsOf(rows, S, a))
<1> DEFINE one == FirstsOf(rows, S, a)
           all == WithSecond(rows, a)
           f == [x \in one |-> <<x, a>>]
<1>1. IsFiniteSet(one)
  BY FS_Subset DEF FirstsOf
<1>2. f \in Bijection(one, all)
  <2>1. f \in [one -> all]
    BY DEF WithSecond, FirstsOf
  <2>2. \A x, y \in one : f[x] = f[y] => x = y
    OBVIOUS
  <2>3. \A p \in all : \E x \in one : f[x] = p
    <3>1. ASSUME NEW p \in all PROVE p[1] \in one /\ f[p[1]] = p
      BY DEF WithSecond, FirstsOf
    <3> QED
      BY <3>1
  <2> HIDE DEF f, one, all
  <2> QED
    BY <2>1, <2>2, <2>3 DEF Bijection, Injection, Surjection, IsInjective
<1> HIDE DEF f, one, all
<1>3. ExistsBijection(one, all)
  BY <1>2, Zenon DEF ExistsBijection
<1>4. Cardinality(all) = Cardinality(one)
  BY <1>1, <1>3, FS_Bijection
<1> QED
  BY <1>4 DEF one, all

(* Of a page of users.                                                     *)
LEMMA UserCounts ==
  ASSUME RoomsInv, NEW us \in SUBSET Users, NEW u \in us
  PROVE  /\ countUserRoomsByIDs(us)[u] = countUserRooms(u)
         /\ countUserViolationsByIDs(us)[u] = countUserViolations(u)
         /\ CountsBySenderIDs(us)[u] = IF store = "mysql" THEN 0 ELSE CountBySender(u)
         /\ u \in CheckUsersOnline(us) <=> online[u] # None
<1>1. countUserRoomsByIDs(us)[u] = countUserRooms(u)
  <2> DEFINE rows == {p \in RoomIds \X us : member[p[1]][p[2]] > 0}
  <2>1. \A p \in rows : p = <<p[1], p[2]>> /\ p[1] \in RoomIds
    OBVIOUS
  <2>2. FirstsOf(rows, RoomIds, u) = GetUserRoomIDs(u)
    BY DEF GetUserRoomIDs, FirstsOf
  <2>3. countUserRoomsByIDs(us)[u] = Cardinality(WithSecond(rows, u))
    BY DEF countUserRoomsByIDs, WithSecond
  <2> HIDE DEF rows
  <2>4. IsFiniteSet(RoomIds)
    BY ViewsAssumption
  <2>5. Cardinality(WithSecond(rows, u)) = Cardinality(FirstsOf(rows, RoomIds, u))
    BY <2>1, <2>4, PairsWithSecond
  <2> QED
    BY <2>2, <2>3, <2>5 DEF countUserRooms
<1>2. countUserViolationsByIDs(us)[u] = countUserViolations(u)
  <2>1. {e \in {x \in Events : EventAbout[x].user \in us} : EventAbout[e].user = u}
          = {e \in Events : EventAbout[e].user = u}
    OBVIOUS
  <2> QED
    BY <2>1 DEF countUserViolationsByIDs, countUserViolations
<1>3. CountsBySenderIDs(us)[u] = IF store = "mysql" THEN 0 ELSE CountBySender(u)
  <2>1. {i \in DOMAIN messages : SenderOf[i] = u} = {i \in DOMAIN messages : messages[i].sender = u}
    BY DEF SenderOf
  <2> QED
    BY <2>1 DEF CountsBySenderIDs, groupCountByKeys, Refused, CountBySender
<1>4. u \in CheckUsersOnline(us) <=> online[u] # None
  BY DEF CheckUsersOnline
<1> QED
  BY <1>1, <1>2, <1>3, <1>4

(* Of a page of rooms: a member who is online counts in every room of his. *)
LEMMA RoomCounts ==
  ASSUME RoomsInv, NEW rs \in SUBSET RoomIds, NEW r \in rs
  PROVE  /\ countMembersByIDs(rs)[r] = countMembers(r)
         /\ onlineMemberCounts(rs)[r] = countOnlineMembers(r)
         /\ countRoomViolationsByIDs(rs)[r] = countRoomViolations(r)
         /\ CountsByRoomIDs(rs, Hours, Hours + 1)[r]
              = IF store = "mysql" THEN 0 ELSE CountByRoom(r, Hours, Hours + 1)
         /\ CountsByRoomTotalIDs(rs)[r] = IF store = "mysql" THEN 0 ELSE CountByRoomTotal(r)
<1>1. countMembersByIDs(rs)[r] = countMembers(r)
  BY DEF countMembersByIDs, countMembers
<1>2. onlineMemberCounts(rs)[r] = countOnlineMembers(r)
  <2> DEFINE rows == {p \in rs \X Users : member[p[1]][p[2]] > 0}
             up == CheckUsersOnline({p[2] : p \in rows})
             seen == {p \in rows : p[2] \in up}
             us == {u \in Users : member[r][u] > 0}
  <2>1. onlineMemberCounts(rs)[r] = Cardinality(WithFirst(seen, r))
    <3>1. WithFirst(seen, r) = {p \in rows : p[1] = r /\ p[2] \in up}
      BY DEF WithFirst
    <3> QED
      BY <3>1 DEF onlineMemberCounts
  <2>2. \A p \in seen : p = <<p[1], p[2]>> /\ p[2] \in Users
    OBVIOUS
  <2>3. SecondsOf(seen, Users, r) = {u \in us : online[u] # None}
    <3>1. ASSUME NEW u \in Users
          PROVE  <<r, u>> \in seen <=> u \in us /\ online[u] # None
      <4>1. <<r, u>> \in rows <=> u \in us
        OBVIOUS
      <4>2. <<r, u>> \in rows => (u \in up <=> online[u] # None)
        BY DEF CheckUsersOnline
      <4> QED
        BY <4>1, <4>2
    <3> HIDE DEF seen, us
    <3>2. us \subseteq Users
      BY DEF us
    <3> QED
      BY <3>1, <3>2 DEF SecondsOf
  <2>4. countOnlineMembers(r) = Cardinality({u \in us : online[u] # None})
    <3>1. DOMAIN roomMembers(r) = us
      BY DEF roomMembers
    <3>2. \A u \in us : roomMembers(r)[u].online <=> online[u] # None
      BY DEF roomMembers, CheckUsersOnline
    <3>3. {u \in DOMAIN roomMembers(r) : roomMembers(r)[u].online} = {u \in us : online[u] # None}
      BY <3>1, <3>2, Zenon
    <3> QED
      BY <3>3 DEF countOnlineMembers
  <2> HIDE DEF seen, us
  <2>5. IsFiniteSet(Users)
    BY ViewsAssumption
  <2>6. Cardinality(WithFirst(seen, r)) = Cardinality(SecondsOf(seen, Users, r))
    BY <2>2, <2>5, PairsWithFirst
  <2> QED
    BY <2>1, <2>3, <2>4, <2>6
<1>3. countRoomViolationsByIDs(rs)[r] = countRoomViolations(r)
  <2>1. {e \in {x \in Events : EventAbout[x].room \in rs} : EventAbout[e].room = r}
          = {e \in Events : EventAbout[e].room = r}
    OBVIOUS
  <2> QED
    BY <2>1 DEF countRoomViolationsByIDs, countRoomViolations
<1>4. CountsByRoomIDs(rs, Hours, Hours + 1)[r]
        = IF store = "mysql" THEN 0 ELSE CountByRoom(r, Hours, Hours + 1)
  <2>1. {i \in Between(Hours, Hours + 1) : RoomOf[i] = r} = InRoom(r) \cap Between(Hours, Hours + 1)
    BY DEF RoomOf, InRoom, Between
  <2> QED
    BY <2>1 DEF CountsByRoomIDs, groupCountByKeys, Refused, CountByRoom
<1>5. CountsByRoomTotalIDs(rs)[r] = IF store = "mysql" THEN 0 ELSE CountByRoomTotal(r)
  <2>1. {i \in DOMAIN messages : RoomOf[i] = r} = InRoom(r)
    BY DEF RoomOf, InRoom
  <2> QED
    BY <2>1 DEF CountsByRoomTotalIDs, groupCountByKeys, Refused, CountByRoomTotal
<1> QED
  BY <1>1, <1>2, <1>3, <1>4, <1>5

(* Message counts as the lists show them; rows that a status asks for.     *)
Listed(n) == IF store = "mysql" THEN 0 ELSE n

UserListed(u) == [GetUserDetail(u) EXCEPT !.messages = Listed(@)]

RoomListed(r) == [GetRoomDetail(r) EXCEPT !.today = Listed(@), !.total = Listed(@)]

UsersAsked(status) == {u \in Users : status >= 0 => UserRow(u).status = status}

RoomsAsked(status) ==
    {r \in RoomIds : Live(r) /\ (status >= 0 => room[r].frozen = (status = 1))}

(* A page of users shows of each his detail, but for the messages.         *)
LEMMA UsersOfPage ==
  ASSUME RoomsInv, NEW page, NEW size, NEW status
  PROVE  /\ DOMAIN AdminUserList(page, size, status) = Page(UsersAsked(status), page, size)
         /\ \A u \in DOMAIN AdminUserList(page, size, status) :
               u \in Users /\ AdminUserList(page, size, status)[u] = UserListed(u)
<1> DEFINE us == Page(UsersAsked(status), page, size)
           users == AdminUserList(page, size, status)
<1>1. us \in SUBSET Users
  BY DEF Page, OnPage, UsersAsked
<1>2. /\ DOMAIN users = us
      /\ \A u \in us :
            users[u] = [row |-> UserRow(u), rooms |-> countUserRoomsByIDs(us)[u],
                        messages |-> CountsBySenderIDs(us)[u],
                        violations |-> countUserViolationsByIDs(us)[u],
                        online |-> u \in CheckUsersOnline(us)]
  BY DEF AdminUserList, ListUsers, UsersAsked
<1> HIDE DEF us, users
<1>3. ASSUME NEW u \in us PROVE users[u] = UserListed(u)
  <2>1. /\ countUserRoomsByIDs(us)[u] = countUserRooms(u)
        /\ countUserViolationsByIDs(us)[u] = countUserViolations(u)
        /\ CountsBySenderIDs(us)[u] = Listed(CountBySender(u))
        /\ (u \in CheckUsersOnline(us)) = (online[u] # None)
    BY <1>1, UserCounts DEF CheckUsersOnline, Listed
  <2>2. UserListed(u) = [row |-> UserRow(u), rooms |-> countUserRooms(u),
                         messages |-> Listed(CountBySender(u)),
                         violations |-> countUserViolations(u), online |-> online[u] # None]
    BY DEF UserListed, GetUserDetail
  <2> QED
    BY <1>2, <2>1, <2>2
<1>4. \A u \in DOMAIN users : u \in Users /\ users[u] = UserListed(u)
  BY <1>1, <1>2, <1>3
<1> QED
  BY <1>2, <1>4, Zenon DEF us, users

(* So it is with rooms.                                                    *)
LEMMA RoomsOfPage ==
  ASSUME RoomsInv, NEW page, NEW size, NEW status
  PROVE  /\ DOMAIN AdminRoomList(page, size, status) = Page(RoomsAsked(status), page, size)
         /\ \A r \in DOMAIN AdminRoomList(page, size, status) :
               r \in RoomIds /\ AdminRoomList(page, size, status)[r] = RoomListed(r)
<1> DEFINE rs == Page(RoomsAsked(status), page, size)
           rooms == AdminRoomList(page, size, status)
<1>1. rs \in SUBSET RoomIds
  BY DEF Page, OnPage, RoomsAsked
<1>2. /\ DOMAIN rooms = rs
      /\ \A r \in rs :
            rooms[r] = [members |-> countMembersByIDs(rs)[r], online |-> onlineMemberCounts(rs)[r],
                        today |-> CountsByRoomIDs(rs, Hours, Hours + 1)[r],
                        total |-> CountsByRoomTotalIDs(rs)[r],
                        violations |-> countRoomViolationsByIDs(rs)[r]]
  BY DEF AdminRoomList, ListRooms, RoomsAsked
<1> HIDE DEF rs, rooms
<1>3. ASSUME NEW r \in rs PROVE rooms[r] = RoomListed(r)
  <2>1. /\ countMembersByIDs(rs)[r] = countMembers(r)
        /\ onlineMemberCounts(rs)[r] = countOnlineMembers(r)
        /\ countRoomViolationsByIDs(rs)[r] = countRoomViolations(r)
        /\ CountsByRoomIDs(rs, Hours, Hours + 1)[r] = Listed(CountByRoom(r, Hours, Hours + 1))
        /\ CountsByRoomTotalIDs(rs)[r] = Listed(CountByRoomTotal(r))
    BY <1>1, RoomCounts DEF Listed
  <2>2. RoomListed(r) = [members |-> countMembers(r), online |-> countOnlineMembers(r),
                         today |-> Listed(CountByRoom(r, Hours, Hours + 1)),
                         total |-> Listed(CountByRoomTotal(r)),
                         violations |-> countRoomViolations(r)]
    <3>1. GetRoomDetail(r) = [members |-> countMembers(r), online |-> countOnlineMembers(r),
                              today |-> CountByRoom(r, Hours, Hours + 1), total |-> CountByRoomTotal(r),
                              violations |-> countRoomViolations(r)]
      BY DEF GetRoomDetail
    <3> DEFINE members == countMembers(r)
               up == countOnlineMembers(r)
               today == CountByRoom(r, Hours, Hours + 1)
               total == CountByRoomTotal(r)
               violations == countRoomViolations(r)
    <3> HIDE DEF members, up, today, total, violations
    <3>2. GetRoomDetail(r) = [members |-> members, online |-> up, today |-> today, total |-> total,
                              violations |-> violations]
      BY <3>1, Zenon DEF members, up, today, total, violations
    <3>3. RoomListed(r) = [members |-> members, online |-> up, today |-> Listed(today),
                           total |-> Listed(total), violations |-> violations]
      <4>1. [GetRoomDetail(r) EXCEPT !.today = Listed(@)]
              = [members |-> members, online |-> up, today |-> Listed(today), total |-> total,
                 violations |-> violations]
        BY <3>2
      <4>2. RoomListed(r) = [[GetRoomDetail(r) EXCEPT !.today = Listed(@)] EXCEPT !.total = Listed(@)]
        BY DEF RoomListed
      <4>3. [[members |-> members, online |-> up, today |-> Listed(today), total |-> total,
              violations |-> violations] EXCEPT !.total = Listed(@)]
              = [members |-> members, online |-> up, today |-> Listed(today), total |-> Listed(total),
                 violations |-> violations]
        OBVIOUS
      <4> QED
        BY <4>1, <4>2, <4>3, Zenon
    <3> QED
      BY <3>3, Zenon DEF members, up, today, total, violations
  <2> QED
    BY <1>2, <2>1, <2>2
<1>4. \A r \in DOMAIN rooms : r \in RoomIds /\ rooms[r] = RoomListed(r)
  BY <1>1, <1>2, <1>3
<1> QED
  BY <1>2, <1>4, Zenon DEF rs, rooms

(* But for the messages, or with MongoDB, that is the detail.              *)
LEMMA ListedUser ==
  ASSUME NEW u
  PROVE  /\ [UserListed(u) EXCEPT !.messages = 0] = [AdminUserDetail(u) EXCEPT !.messages = 0]
         /\ store = "mongo" => UserListed(u) = AdminUserDetail(u)
<1>1. PICK row_, rooms, sent, violations, up :
         GetUserDetail(u) = [row |-> row_, rooms |-> rooms, messages |-> sent,
                             violations |-> violations, online |-> up]
  BY DEF GetUserDetail
<1>2. UserListed(u) = [row |-> row_, rooms |-> rooms, messages |-> Listed(sent),
                       violations |-> violations, online |-> up]
  BY <1>1 DEF UserListed
<1> QED
  BY <1>1, <1>2 DEF AdminUserDetail, Listed

LEMMA ListedRoom ==
  ASSUME NEW r
  PROVE  /\ [RoomListed(r) EXCEPT !.today = 0, !.total = 0]
              = [AdminRoomDetail(r) EXCEPT !.today = 0, !.total = 0]
         /\ store = "mongo" => RoomListed(r) = AdminRoomDetail(r)
<1>1. PICK members, up, today, total, violations :
         GetRoomDetail(r) = [members |-> members, online |-> up, today |-> today, total |-> total,
                             violations |-> violations]
  BY DEF GetRoomDetail
<1>2. RoomListed(r) = [members |-> members, online |-> up, today |-> Listed(today),
                       total |-> Listed(total), violations |-> violations]
  <2>1. [GetRoomDetail(r) EXCEPT !.today = Listed(@)]
          = [members |-> members, online |-> up, today |-> Listed(today), total |-> total,
             violations |-> violations]
    BY <1>1
  <2>2. RoomListed(r) = [[GetRoomDetail(r) EXCEPT !.today = Listed(@)] EXCEPT !.total = Listed(@)]
    BY DEF RoomListed
  <2>3. [[members |-> members, online |-> up, today |-> Listed(today), total |-> total,
          violations |-> violations] EXCEPT !.total = Listed(@)]
          = [members |-> members, online |-> up, today |-> Listed(today), total |-> Listed(total),
             violations |-> violations]
    OBVIOUS
  <2> QED
    BY <2>1, <2>2, <2>3, Zenon
<1>3. \A d : [d EXCEPT !.today = 0, !.total = 0] = [[d EXCEPT !.today = 0] EXCEPT !.total = 0]
  OBVIOUS
<1> DEFINE Detail(x, y) == [members |-> members, online |-> up, today |-> x, total |-> y,
                            violations |-> violations]
<1>4. ASSUME NEW x, NEW y
      PROVE  [[Detail(x, y) EXCEPT !.today = 0] EXCEPT !.total = 0] = Detail(0, 0)
  <2>1. [Detail(x, y) EXCEPT !.today = 0] = Detail(0, y)
    OBVIOUS
  <2>2. [Detail(0, y) EXCEPT !.total = 0] = Detail(0, 0)
    OBVIOUS
  <2> HIDE DEF Detail
  <2> QED
    BY <2>1, <2>2, Zenon
<1>5. [RoomListed(r) EXCEPT !.today = 0, !.total = 0] = [GetRoomDetail(r) EXCEPT !.today = 0, !.total = 0]
  <2>1. GetRoomDetail(r) = Detail(today, total) /\ RoomListed(r) = Detail(Listed(today), Listed(total))
    BY <1>1, <1>2
  <2>2. [[Detail(today, total) EXCEPT !.today = 0] EXCEPT !.total = 0] = Detail(0, 0)
    BY <1>4
  <2>3. [[Detail(Listed(today), Listed(total)) EXCEPT !.today = 0] EXCEPT !.total = 0] = Detail(0, 0)
    BY <1>4
  <2> HIDE DEF Detail
  <2> QED
    BY <1>3, <2>1, <2>2, <2>3, Zenon
<1>6. ASSUME store = "mongo" PROVE RoomListed(r) = GetRoomDetail(r)
  <2>1. Listed(today) = today /\ Listed(total) = total
    BY <1>6 DEF Listed
  <2> QED
    BY <1>1, <1>2, <2>1, Zenon
<1>7. AdminRoomDetail(r) = GetRoomDetail(r)
  BY DEF AdminRoomDetail
<1> QED
  BY <1>5, <1>6, <1>7, Zenon

(* Lists and details, of users and of rooms, match.                        *)
LEMMA ListsMatch ==
  ASSUME RoomsInv
  PROVE  ListMatchesDetail
<1>1. /\ \A page, size, status : \A u \in DOMAIN AdminUserList(page, size, status) :
            u \in Users /\ AdminUserList(page, size, status)[u] = UserListed(u)
      /\ \A page, size, status : \A r \in DOMAIN AdminRoomList(page, size, status) :
            r \in RoomIds /\ AdminRoomList(page, size, status)[r] = RoomListed(r)
  BY UsersOfPage, RoomsOfPage
<1>2. \A page, size : DOMAIN AdminUserList(page, size, -1) = Page(Users, page, size)
  <2>1. UsersAsked(-1) = Users
    BY DEF UsersAsked
  <2> QED
    BY <2>1, UsersOfPage
<1>3. /\ UNION {Page(Users, n, 1) : n \in 1..Cardinality(Users)} = Users
      /\ Cardinality(Users) <= 20 => Page(Users, 0, 0) = Users
  <2>1. IsFiniteSet(Users)
    BY ViewsAssumption
  <2> QED
    BY <2>1, RowsShown
<1>4. UNION {DOMAIN AdminUserList(n, 1, -1) : n \in 1..Cardinality(Users)} = Users
  BY <1>2, <1>3
<1>5. Cardinality(Users) <= 20 => DOMAIN AdminUserList(0, 0, -1) = Users
  BY <1>2, <1>3
<1>6. ASSUME NEW ask
      PROVE  /\ \A u \in DOMAIN AdminUserList(ask[1], ask[2], ask[3]) :
                   LET user == AdminUserList(ask[1], ask[2], ask[3])[u]
                   IN  /\ [user EXCEPT !.messages = 0] = [AdminUserDetail(u) EXCEPT !.messages = 0]
                       /\ store = "mongo" => user = AdminUserDetail(u)
             /\ \A r \in DOMAIN AdminRoomList(ask[1], ask[2], ask[3]) :
                   LET listed == AdminRoomList(ask[1], ask[2], ask[3])[r]
                   IN  /\ [listed EXCEPT !.today = 0, !.total = 0]
                            = [AdminRoomDetail(r) EXCEPT !.today = 0, !.total = 0]
                       /\ store = "mongo" => listed = AdminRoomDetail(r)
  <2>1. ASSUME NEW u \in DOMAIN AdminUserList(ask[1], ask[2], ask[3])
        PROVE  LET user == AdminUserList(ask[1], ask[2], ask[3])[u]
               IN  /\ [user EXCEPT !.messages = 0] = [AdminUserDetail(u) EXCEPT !.messages = 0]
                   /\ store = "mongo" => user = AdminUserDetail(u)
    <3>1. AdminUserList(ask[1], ask[2], ask[3])[u] = UserListed(u)
      BY <1>1
    <3>2. /\ [UserListed(u) EXCEPT !.messages = 0] = [AdminUserDetail(u) EXCEPT !.messages = 0]
          /\ store = "mongo" => UserListed(u) = AdminUserDetail(u)
      BY ListedUser, Zenon
    <3> QED
      BY <3>1, <3>2, Zenon
  <2>2. ASSUME NEW r \in DOMAIN AdminRoomList(ask[1], ask[2], ask[3])
        PROVE  LET listed == AdminRoomList(ask[1], ask[2], ask[3])[r]
               IN  /\ [listed EXCEPT !.today = 0, !.total = 0]
                        = [AdminRoomDetail(r) EXCEPT !.today = 0, !.total = 0]
                   /\ store = "mongo" => listed = AdminRoomDetail(r)
    <3>1. AdminRoomList(ask[1], ask[2], ask[3])[r] = RoomListed(r)
      BY <1>1
    <3>2. /\ [RoomListed(r) EXCEPT !.today = 0, !.total = 0]
               = [AdminRoomDetail(r) EXCEPT !.today = 0, !.total = 0]
          /\ store = "mongo" => RoomListed(r) = AdminRoomDetail(r)
      BY ListedRoom, Zenon
    <3> QED
      BY <3>1, <3>2, Zenon
  <2> QED
    BY <2>1, <2>2
<1> QED
  BY <1>4, <1>5, <1>6, Zenon DEF ListMatchesDetail

-----------------------------------------------------------------------------
(* Two sets that have nothing in common add up to their union.             *)
LEMMA ApartAddUp ==
  ASSUME NEW a, NEW b, IsFiniteSet(a), IsFiniteSet(b), a \cap b = {}
  PROVE  /\ Cardinality(a \cup b) = Cardinality(a) + Cardinality(b) /\ IsFiniteSet(a \cup b)
         /\ Cardinality(a) \in Nat /\ Cardinality(b) \in Nat
<1>1. Cardinality(a \cup b) = Cardinality(a) + Cardinality(b) - Cardinality(a \cap b) /\ IsFiniteSet(a \cup b)
  BY FS_Union
<1>2. Cardinality(a) \in Nat /\ Cardinality(b) \in Nat /\ Cardinality(a \cap b) = 0
  BY FS_CardinalityType, FS_EmptySet
<1> QED
  BY <1>1, <1>2

-----------------------------------------------------------------------------
(* Users and administrators *)

Unfrozen == {r \in RoomIds : Live(r) /\ ~room[r].frozen}

(* The search for rooms counts from 0 what the lists count in pages.       *)
LEMMA RoomsSearched ==
  /\ \A n \in Nat \ {0} : SearchRooms(n - 1, 1) = Page(Unfrozen, n, 1)
  /\ SearchRooms(-1, 0) = Page(Unfrozen, 0, 0)
<1> DEFINE position == [x \in Unfrozen |-> Cardinality({y \in Unfrozen : Id[y] > Id[x]})]
<1>1. \A offset, limit : RoomsFrom(offset, limit) = {r \in Unfrozen : position[r] \in offset..(offset + limit - 1)}
  BY DEF RoomsFrom, Unfrozen
<1>2. \A page, size : Page(Unfrozen, page, size) = OnPage(Unfrozen, page, size, position)
  BY DEF Page
<1> HIDE DEF position
<1>3. ASSUME NEW n \in Nat \ {0} PROVE SearchRooms(n - 1, 1) = Page(Unfrozen, n, 1)
  <2>1. Ext!Max({n - 1, 0}) = n - 1
    BY DEF Ext!Max
  <2>2. Ext!Min({1, 100}) = 1
    BY DEF Ext!Min
  <2>3. PageNumber(n) = n /\ PageSize(1) = 1 /\ Offset(n, 1) = n - 1
    BY DEF PageNumber, PageSize, Offset
  <2>4. SearchRooms(n - 1, 1) = RoomsFrom(n - 1, 1)
    BY <2>1, <2>2 DEF SearchRooms
  <2> DEFINE from == n - 1
  <2> HIDE DEF from
  <2>5. RoomsFrom(from, 1) = {r \in Unfrozen : position[r] \in from..(from + 1 - 1)}
    BY <1>1
  <2>6. Page(Unfrozen, n, 1) = {r \in Unfrozen : position[r] \in from..(from + 1 - 1)}
    BY <1>2, <2>3 DEF OnPage, from
  <2> QED
    BY <2>4, <2>5, <2>6 DEF from
<1>4. SearchRooms(-1, 0) = Page(Unfrozen, 0, 0)
  <2>1. Ext!Max({-1, 0}) = 0
    BY DEF Ext!Max
  <2>2. PageNumber(0) = 1 /\ PageSize(0) = 20 /\ Offset(1, 20) = 0
    BY DEF PageNumber, PageSize, Offset
  <2>3. SearchRooms(-1, 0) = RoomsFrom(0, 20)
    BY <2>1 DEF SearchRooms
  <2> QED
    BY <1>1, <1>2, <2>2, <2>3 DEF OnPage
<1> QED
  BY <1>3, <1>4

(* Rooms that are there and rooms that are disbanded are all of a user's.  *)
LEMMA RoomsOfUser ==
  ASSUME RoomsInv, NEW u \in Users
  PROVE  /\ userRooms(u) = GetJoinedRoomsWithRole(u)
         /\ DOMAIN userRooms(u) = {r \in RoomIds : member[r][u] > 0 /\ Live(r)}
         /\ countUserRooms(u) = Cardinality(DOMAIN userRooms(u))
                                  + Cardinality({r \in RoomIds : member[r][u] > 0 /\ ~Live(r)})
<1> DEFINE there == {r \in RoomIds : member[r][u] > 0 /\ Live(r)}
           gone == {r \in RoomIds : member[r][u] > 0 /\ ~Live(r)}
           all == GetUserRoomIDs(u)
<1>1. {x \in GetUserRoomIDs(u) : Live(x)} = there /\ JoinedRooms(u) = there
  BY DEF GetUserRoomIDs, JoinedRooms
<1>2. all = there \cup gone /\ there \cap gone = {} /\ there \subseteq RoomIds /\ gone \subseteq RoomIds
  BY DEF GetUserRoomIDs
<1>3. DOMAIN userRooms(u) = there /\ userRooms(u) = GetJoinedRoomsWithRole(u)
  BY <1>1 DEF userRooms, GetJoinedRoomsWithRole
<1>4. Cardinality(all) = Cardinality(there) + Cardinality(gone)
  <2> HIDE DEF there, gone, all
  <2>1. IsFiniteSet(there) /\ IsFiniteSet(gone)
    BY <1>2, FS_Subset, ViewsAssumption
  <2> QED
    BY <1>2, <2>1, ApartAddUp
<1> QED
  BY <1>3, <1>4 DEF countUserRooms

(* A user sees of his rooms, and of rooms he searches, what administrators *)
(* see.                                                                    *)
LEMMA UsersSee ==
  ASSUME RoomsInv
  PROVE  UsersSeeTheSame
<1>1. ASSUME NEW u \in Users, NEW r \in DOMAIN userRooms(u)
      PROVE  /\ DOMAIN membersShown(r, u) = DOMAIN roomMembers(r)
             /\ \A x \in DOMAIN roomMembers(r) : membersShown(r, u)[x].role = roomMembers(r)[x].role
  <2>1. r \in RoomIds /\ member[r][u] > 0 /\ Live(r) /\ member[r][u] # 0
    <3>1. r \in RoomIds /\ member[r][u] > 0 /\ Live(r)
      BY RoomsOfUser
    <3>2. member[r][u] \in 0..3
      BY <3>1 DEF RoomsInv, RoomsTypeOK
    <3> QED
      BY <3>1, <3>2
  <2>2. RoomMembers(r, u) = GetRoomMembers(r)
    BY <2>1 DEF RoomMembers
  <2>3. /\ DOMAIN GetRoomMembers(r) = DOMAIN roomMembers(r)
        /\ \A x \in DOMAIN roomMembers(r) : GetRoomMembers(r)[x] = roomMembers(r)[x].role
    BY DEF GetRoomMembers, roomMembers
  <2>4. /\ DOMAIN membersShown(r, u) = DOMAIN GetRoomMembers(r)
        /\ \A x \in DOMAIN GetRoomMembers(r) : membersShown(r, u)[x].role = GetRoomMembers(r)[x]
    BY <2>2 DEF membersShown
  <2> QED
    BY <2>3, <2>4
<1>2. IsFiniteSet(Unfrozen) /\ Unfrozen \subseteq Users \cup RoomIds
  BY FS_Subset, ViewsAssumption DEF Unfrozen
<1>3. UNION {SearchRooms(n - 1, 1) : n \in 1..Cardinality(RoomIds)} = Unfrozen
  <2>1. /\ UNION {Page(Unfrozen, n, 1) : n \in 1..Cardinality(Unfrozen)} = Unfrozen
        /\ Cardinality(Unfrozen) \in Nat
    BY <1>2, RowsShown
  <2>2. Cardinality(Unfrozen) <= Cardinality(RoomIds) /\ Cardinality(RoomIds) \in Nat
    BY FS_Subset, FS_CardinalityType, ViewsAssumption DEF Unfrozen
  <2>3. \A n \in 1..Cardinality(Unfrozen) : n \in 1..Cardinality(RoomIds)
    BY <2>1, <2>2
  <2>4. \A n \in 1..Cardinality(RoomIds) : n \in Nat \ {0}
    BY <2>2
  <2>5. \A n \in 1..Cardinality(RoomIds) : SearchRooms(n - 1, 1) = Page(Unfrozen, n, 1)
    BY <2>4, RoomsSearched
  <2>6. \A n : Page(Unfrozen, n, 1) \subseteq Unfrozen
    BY DEF Page, OnPage
  <2>7. UNION {Page(Unfrozen, n, 1) : n \in 1..Cardinality(RoomIds)} = Unfrozen
    BY <2>1, <2>3, <2>6
  <2> QED
    BY <2>5, <2>7
<1>4. SearchRooms(-1, 0) = DOMAIN ListRooms(0, 0, 0)
  <2>1. RoomsAsked(0) = Unfrozen
    <3>1. \A r \in RoomIds : room[r].frozen \in BOOLEAN
      BY DEF RoomsInv, RoomsTypeOK, Row
    <3> QED
      BY <3>1 DEF RoomsAsked, Unfrozen
  <2>2. DOMAIN AdminRoomList(0, 0, 0) = Page(Unfrozen, 0, 0)
    BY <2>1, RoomsOfPage
  <2> QED
    BY <2>2, RoomsSearched DEF AdminRoomList
<1>5. \A u \in Users :
         /\ userRooms(u) = joinedRooms(u)
         /\ countUserRooms(u) = Cardinality(DOMAIN userRooms(u))
                                  + Cardinality({r \in RoomIds : member[r][u] > 0 /\ ~Live(r)})
  BY RoomsOfUser DEF joinedRooms
<1> QED
  BY <1>1, <1>3, <1>4, <1>5 DEF UsersSeeTheSame, Unfrozen, searchRooms

-----------------------------------------------------------------------------
(* Dashboards *)

(* An event nobody has decided on, or that was revoked, has no penalty.    *)
Fits(e) == e.review \in {"pending", "revoked"} => e.penalty = "none"

PenaltyInv == \A e \in Events : Fits(row[e])

(* What an action makes of an event: its penalty and its review fit.       *)
LEMMA EventsFit ==
  ASSUME NEW q, ActionOK(q), q.op \in EventActions, q.at = "save"
  PROVE  Fits(Changes(q))
<1>1. q.row \in Event_
  BY ActionNames DEF ActionOK, ActionRequests, UserActions, EventActions, ConfigActions
<1>2. CASE q.op \in DOMAIN Penalty
  <2>1. Changes(q) = [penalty |-> Penalty[q.op], review |-> "reviewed"]
    BY <1>2, ActionNames DEF Changes
  <2> QED
    BY <2>1 DEF Fits
<1>3. CASE q.op \in {"revoke", "false_positive"}
  BY <1>3, ActionNames DEF Changes, Fits
<1>4. CASE q.op = "confirmed"
  <2>1. Changes(q) = [q.row EXCEPT !.review = "confirmed"]
    BY <1>4, ActionNames DEF Changes
  <2> QED
    BY <1>1, <2>1 DEF Fits, Event_
<1> QED
  BY <1>2, <1>3, <1>4 DEF EventActions

(* However events of the same time are ordered, each has its place among   *)
(* them all; if no two are of the same time, always the same place.        *)
LEMMA PlaceOfEvent ==
  ASSUME NEW es \in SUBSET Events, NEW position \in Orders(es), NEW e \in es
  PROVE  /\ position[e] \in Nat /\ position[e] <= Cardinality(es) - 1 /\ Cardinality(es) \in Nat
         /\ (\A x, y \in es : EventAbout[x].at = EventAbout[y].at => x = y)
              => position[e] = Cardinality({d \in es : EventAbout[d].at > EventAbout[e].at})
<1> DEFINE at(d) == EventAbout[d].at
<1>1. IsFiniteSet(es) /\ Cardinality(es) \in Nat
  BY FS_Subset, FS_CardinalityType, ViewsAssumption
<1>2. PICK tie \in [es -> 1..Cardinality(es)] :
         position[e] = Cardinality({d \in es : \/ at(d) > at(e)
                                               \/ at(d) = at(e) /\ tie[d] > tie[e]})
  BY DEF Orders
<1> DEFINE before == {d \in es : at(d) > at(e) \/ (at(d) = at(e) /\ tie[d] > tie[e])}
<1>3. \A d \in es : at(d) \in Nat /\ tie[d] \in Nat
  <2>1. \A d \in es : tie[d] \in 1..Cardinality(es)
    OBVIOUS
  <2>2. \A d \in es : at(d) \in Nat
    BY ViewsAssumption
  <2> QED
    BY <1>1, <2>1, <2>2
<1>4. before \subseteq es \ {e}
  BY <1>3
<1>5. position[e] = Cardinality(before)
  BY <1>2
<1>6. position[e] \in Nat /\ position[e] <= Cardinality(es) - 1
  <2>1. IsFiniteSet(es \ {e}) /\ Cardinality(es \ {e}) = Cardinality(es) - 1
    BY <1>1, FS_RemoveElement
  <2> HIDE DEF before
  <2>2. Cardinality(before) \in Nat /\ Cardinality(before) <= Cardinality(es \ {e})
    BY <1>4, <2>1, FS_Subset, FS_CardinalityType
  <2> QED
    BY <1>5, <2>1, <2>2
<1>7. ASSUME \A x, y \in es : EventAbout[x].at = EventAbout[y].at => x = y
      PROVE  before = {d \in es : EventAbout[d].at > EventAbout[e].at}
  BY <1>3, <1>7
<1> QED
  BY <1>1, <1>5, <1>6, <1>7

(* What the list of banned events answers: a first page with room for all  *)
(* shows them all, none of them revoked; pages of one show each of them,   *)
(* if no two are of the same time.                                         *)
LEMMA BannedShown ==
  ASSUME PenaltyInv
  PROVE  LET banned == Punished("banned")
             bans == Cardinality(banned)
             apart == \A d, e \in banned : EventAbout[d].at = EventAbout[e].at => d = e
         IN  /\ \A answer \in AdminModerationList(1, bans, "banned") :
                   /\ bans \in 1..100 => Cardinality(DOMAIN answer) = bans
                   /\ \A e \in DOMAIN answer :
                         answer[e] = AdminModerationDetail(e) /\ answer[e].review # "revoked"
             /\ apart => \A e \in banned : \E n \in 1..bans :
                   \A answer \in AdminModerationList(n, 1, "banned") : e \in DOMAIN answer
<1> DEFINE banned == Punished("banned")
           bans == Cardinality(banned)
           apart == \A d, e \in banned : EventAbout[d].at = EventAbout[e].at => d = e
<1>1. banned \in SUBSET Events /\ \A e \in banned : row[e].penalty = "banned"
  BY DEF Punished
<1>2. \A page, size : AdminModerationList(page, size, "banned")
        = {[e \in OnPage(banned, page, size, position) |-> moderationItem(e)] : position \in Orders(banned)}
  BY DEF AdminModerationList, ListEvents
<1>3. ASSUME NEW answer \in AdminModerationList(1, bans, "banned")
      PROVE  /\ bans \in 1..100 => Cardinality(DOMAIN answer) = bans
             /\ \A e \in DOMAIN answer :
                   answer[e] = AdminModerationDetail(e) /\ answer[e].review # "revoked"
  <2>1. PICK position \in Orders(banned) :
           answer = [e \in OnPage(banned, 1, bans, position) |-> moderationItem(e)]
    BY <1>2
  <2>2. ASSUME NEW e \in DOMAIN answer
        PROVE  answer[e] = AdminModerationDetail(e) /\ answer[e].review # "revoked"
    <3>1. e \in banned /\ answer[e] = moderationItem(e)
      BY <2>1 DEF OnPage
    <3>2. row[e].review # "revoked"
      BY <1>1, <3>1 DEF PenaltyInv, Fits
    <3> QED
      BY <3>1, <3>2 DEF AdminModerationDetail, GetEvent, moderationItem
  <2>3. ASSUME bans \in 1..100 PROVE DOMAIN answer = banned
    <3>1. PageNumber(1) = 1 /\ PageSize(bans) = bans /\ Offset(1, bans) = 0
      <4> HIDE DEF bans
      <4> QED
        BY <2>3 DEF PageNumber, PageSize, Offset
    <3>2. \A e \in banned : position[e] \in 0..(0 + bans - 1)
      <4>1. \A e \in banned : position[e] \in Nat /\ position[e] <= bans - 1 /\ bans \in Nat
        <5> HIDE DEF banned
        <5> QED
          BY <1>1, PlaceOfEvent
      <4> HIDE DEF bans, banned
      <4> QED
        BY <4>1
    <3>3. OnPage(banned, 1, bans, position) = banned
      <4> HIDE DEF bans, banned
      <4> QED
        BY <3>1, <3>2 DEF OnPage
    <3> HIDE DEF bans, banned
    <3> QED
      BY <2>1, <3>3
  <2> HIDE DEF banned
  <2> QED
    BY <2>2, <2>3
<1>4. ASSUME apart, NEW e \in banned
      PROVE  \E n \in 1..bans :
                \A answer \in AdminModerationList(n, 1, "banned") : e \in DOMAIN answer
  <2> DEFINE k == Cardinality({d \in banned : EventAbout[d].at > EventAbout[e].at})
  <2>1. ASSUME NEW position \in Orders(banned)
        PROVE  position[e] = k /\ k \in Nat /\ k <= bans - 1 /\ bans \in Nat
    <3> HIDE DEF banned
    <3> QED
      BY <1>1, <1>4, PlaceOfEvent
  <2>2. CASE Orders(banned) = {}
    <3>1. \A n : AdminModerationList(n, 1, "banned") = {}
      BY <1>2, <2>2
    <3>2. 1 \in 1..bans
      <4>1. IsFiniteSet(banned) /\ bans \in Nat
        BY <1>1, FS_Subset, FS_CardinalityType, ViewsAssumption
      <4>2. bans # 0
        BY <4>1, FS_EmptySet
      <4> HIDE DEF bans
      <4> QED
        BY <4>1, <4>2
    <3> QED
      BY <3>1, <3>2
  <2>3. ASSUME NEW some \in Orders(banned)
        PROVE  \E n \in 1..bans :
                  \A answer \in AdminModerationList(n, 1, "banned") : e \in DOMAIN answer
    <3> DEFINE n == k + 1
    <3>1. n \in 1..bans /\ n \in Nat \ {0} /\ n - 1 = k
      <4> HIDE DEF k, bans
      <4> QED
        BY <2>1, <2>3
    <3>2. PageNumber(n) = n /\ PageSize(1) = 1 /\ Offset(n, 1) = n - 1
      <4> HIDE DEF n
      <4> QED
        BY <3>1 DEF PageNumber, PageSize, Offset
    <3>3. ASSUME NEW answer \in AdminModerationList(n, 1, "banned") PROVE e \in DOMAIN answer
      <4>1. PICK position \in Orders(banned) :
               answer = [x \in OnPage(banned, n, 1, position) |-> moderationItem(x)]
        <5> HIDE DEF n, banned
        <5> QED
          BY <1>2, <3>3
      <4>2. position[e] = n - 1
        BY <2>1, <3>1
      <4>3. position[e] \in (n - 1)..(n - 1 + 1 - 1)
        <5> HIDE DEF n
        <5> QED
          BY <3>1, <4>2
      <4>4. e \in OnPage(banned, n, 1, position)
        <5> HIDE DEF n, banned
        <5> QED
          BY <1>4, <3>2, <4>3 DEF OnPage
      <4> QED
        BY <4>1, <4>4
    <3> HIDE DEF n
    <3> QED
      BY <3>1, <3>3
  <2> QED
    BY <2>2, <2>3
<1> QED
  BY <1>3, <1>4

(* The dashboard and the overview count rows apart that are apart.         *)
LEMMA DashboardsMatch ==
  ASSUME GovernanceInv, PenaltyInv
  PROVE  DashboardsAgree
<1> DEFINE pending == Having("pending")
           reviewed == Events \ Having("pending")
           revoked == Having("revoked")
           kicked == Punished("kicked")
           banned == Punished("banned")
<1>1. /\ Events = pending \cup reviewed /\ pending \cap reviewed = {}
      /\ pending \subseteq Events
  BY DEF Having
<1>2. /\ kicked \cap banned = {} /\ (kicked \cup banned) \cap revoked = {}
      /\ kicked \cup banned \cup revoked \subseteq reviewed
      /\ reviewed \subseteq Events
  <2>1. ASSUME NEW e \in Events
        PROVE  /\ e \in kicked <=> row[e].penalty = "kicked"
               /\ e \in banned <=> row[e].penalty = "banned"
               /\ e \in revoked <=> row[e].review = "revoked"
               /\ e \in pending <=> row[e].review = "pending"
               /\ row[e].review \in {"pending", "revoked"} => row[e].penalty = "none"
    BY DEF Having, Punished, PenaltyInv, Fits
  <2>2. /\ kicked \subseteq Events /\ banned \subseteq Events /\ revoked \subseteq Events
        /\ reviewed \subseteq Events
    BY DEF Having, Punished
  <2>3. ASSUME NEW e \in Events
        PROVE  /\ ~(e \in kicked /\ e \in banned)
               /\ ~(e \in revoked /\ (e \in kicked \/ e \in banned))
               /\ e \in kicked \/ e \in banned \/ e \in revoked => e \notin pending
    BY <2>1
  <2>4. \A e \in Events : e \in reviewed <=> e \notin pending
    OBVIOUS
  <2> HIDE DEF pending, reviewed, revoked, kicked, banned
  <2> QED
    BY <2>2, <2>3, <2>4
<1>3. IsFiniteSet(Events)
  BY ViewsAssumption
<1>4. Cardinality(pending) + Cardinality(reviewed) = Cardinality(Events)
  <2> HIDE DEF pending, reviewed
  <2>1. IsFiniteSet(pending) /\ IsFiniteSet(reviewed)
    BY <1>1, <1>2, <1>3, FS_Subset
  <2> QED
    BY <1>1, <2>1, ApartAddUp
<1>5. /\ Cardinality(kicked) + Cardinality(banned) + Cardinality(revoked) <= Cardinality(reviewed)
      /\ IsFiniteSet(banned)
  <2> HIDE DEF pending, reviewed, revoked, kicked, banned
  <2>1. IsFiniteSet(kicked) /\ IsFiniteSet(banned) /\ IsFiniteSet(revoked) /\ IsFiniteSet(reviewed)
    BY <1>2, <1>3, FS_Subset
  <2> DEFINE both == kicked \cup banned
             all == both \cup revoked
  <2>2. Cardinality(both) = Cardinality(kicked) + Cardinality(banned) /\ IsFiniteSet(both)
    BY <1>2, <2>1, ApartAddUp
  <2>3. all \subseteq reviewed /\ both \cap revoked = {}
    BY <1>2
  <2> HIDE DEF both
  <2>4. Cardinality(all) = Cardinality(both) + Cardinality(revoked)
    BY <2>1, <2>2, <2>3, ApartAddUp
  <2> HIDE DEF all
  <2>5. Cardinality(all) <= Cardinality(reviewed)
    BY <2>1, <2>3, FS_Subset
  <2> QED
    BY <2>1, <2>2, <2>4, <2>5
<1>6. Sum(Dashboard.categories) = Cardinality(Events)
  <2> DEFINE key == [e \in Events |-> EventAbout[e].category]
  <2>1. Sum(CountBy(Events, key)) = Cardinality(Events)
    <3> HIDE DEF key
    <3> QED
      BY <1>3, GroupsAddUp
  <2>2. CountBy(Events, key) = Dashboard.categories
    BY DEF CountBy, Dashboard
  <2> HIDE DEF key
  <2> QED
    BY <2>1, <2>2
<1>7. /\ Dashboard.total = Cardinality(Events) /\ Dashboard.kicks = Cardinality(kicked)
      /\ Dashboard.bans = Cardinality(banned) /\ Dashboard.reviewed = Cardinality(reviewed)
      /\ Dashboard.revoked = Cardinality(revoked)
      /\ Overview.total = Cardinality(Events) /\ Overview.pending = Cardinality(pending)
  BY DEF Dashboard, Overview
<1> QED
  BY <1>4, <1>5, <1>6, <1>7, BannedShown DEF DashboardsAgree

(* Actions that overlap cannot put a penalty back, for each saves penalty  *)
(* and review together, fitting each other.                                *)
LEMMA PenaltiesFit ==
  ASSUME Shape, GovernanceInv, PenaltyInv, [Next]_vars
  PROVE  PenaltyInv'
<1>1. CASE row' = row
  BY <1>1 DEF PenaltyInv, Fits
<1>2. ASSUME NEW w \in Workers, SaveRow(w) PROVE PenaltyInv'
  <2>1. /\ req[w].target \in Targets \cup Events
        /\ row' = [row EXCEPT ![req[w].target] = Changes(req[w])]
        /\ req[w].op \in UserActions \cup EventActions /\ req[w] # Idle /\ req[w].at = "save"
    BY <1>2, ActionsThatWrite DEF SaveRow, Doing
  <2> DEFINE q == req[w]
  <2>2. ActionOK(q)
    BY <2>1 DEF GovernanceInv, Acting, GovernanceOps
  <2>3. ASSUME NEW e \in Events PROVE Fits(row'[e])
    <3>1. CASE q.target # e
      BY <2>1, <3>1 DEF PenaltyInv
    <3>2. CASE q.target = e
      <4>1. q.op \in EventActions
        BY <2>1, <2>2, <3>2, RowTypes, GovernanceAssumption
      <4>2. e \in DOMAIN row /\ row'[e] = Changes(q)
        BY <2>1, <3>2, GovernanceAssumption DEF GovernanceInv, Rows
      <4>3. Fits(Changes(q))
        BY <2>1, <2>2, <4>1, EventsFit
      <4> QED
        BY <4>2, <4>3
    <3> QED
      BY <3>1, <3>2
  <2> QED
    BY <2>3 DEF PenaltyInv, Fits
<1>3. ASSUME NEW w \in Workers, CreateConfig(w) \/ SaveConfig(w) PROVE PenaltyInv'
  <2>1. row' = row \/ \E config : row' = [row EXCEPT !["config"] = config]
    BY <1>3, ActionsThatWrite
  <2>2. \A e \in Events : e # "config" /\ e \in DOMAIN row
    BY GovernanceAssumption DEF GovernanceInv, Rows
  <2>3. \A e \in Events : row'[e] = row[e]
    BY <2>1, <2>2
  <2> QED
    BY <2>3 DEF PenaltyInv, Fits
<1>4. CASE GovernanceNext
  <2>1. ASSUME NEW w \in Workers, GovernanceStep(w) \/ ActionFails(w) PROVE PenaltyInv'
    BY <1>1, <1>2, <1>3, <2>1, ActionsThatRead DEF GovernanceStep, governanceVars
  <2>2. ASSUME NEW w \in Workers, NEW q, BeginAction(w, q) PROVE row' = row
    BY <2>2 DEF BeginAction
  <2>3. ASSUME NEW size, AdminAuditList(size) \/ AdminAgentConfigHistory(size) PROVE row' = row
    BY <2>3 DEF AdminAuditList, AdminAgentConfigHistory, ReadPage, governed
  <2> QED
    BY <1>1, <1>4, <2>1, <2>2, <2>3 DEF GovernanceNext
<1> QED
  BY <1>1, <1>4, GovernanceApart DEF governanceVars

(* Two ways of showing the same thing never show different things: the     *)
(* administrators' lists, with one statement for a whole page, and their   *)
(* details, but for the message counts with MySQL; what users and what     *)
(* administrators are shown of rooms and members; the overview and the     *)
(* dashboard of moderation, and the list of its events in whichever order  *)
(* the database puts those of the same time.  It holds in every state, not *)
(* only at rest.                                                           *)
THEOREM ViewsAgreeHolds == Spec => []ViewsAgree
<1>1. Init => PenaltyInv
  <2>1. \A e \in Events : Fits(First[e])
    BY GovernanceAssumption DEF First, Rows, Fits
  <2> QED
    BY <2>1 DEF Init, GovernanceInit, PenaltyInv
<1>2. Shape /\ GovernanceInv /\ PenaltyInv /\ [Next]_vars => PenaltyInv'
  BY PenaltiesFit
<1>3. RoomsInv /\ GovernanceInv /\ PenaltyInv => ViewsAgree
  BY ListsMatch, UsersSee, DashboardsMatch DEF ViewsAgree
<1> QED
  BY ShapeHolds, RoomsTypesHold, GovernanceTypesHold, <1>1, <1>2, <1>3, PTL DEF Spec

=============================================================================
