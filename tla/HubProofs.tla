------------------------------ MODULE HubProofs -----------------------------
(***************************************************************************)
(* Proofs about Hub, for every set of connections, users, rooms and        *)
(* callers: whatever calls cross each other, the three indexes agree.      *)
(***************************************************************************)
EXTENDS Hub, TLAPS

(* What a caller holds, once the operation it is in is known.              *)
LEMMA CallHolds ==
    ASSUME TypeOK, NEW p \in Callers
    PROVE  /\ call[p].op \in {"join", "leave"} => call[p] \in Member
           /\ call[p].op = "disband" => call[p] \in Disband
BY DEF TypeOK, Idle, Member, Disband

(* The empty hub is well typed.                                            *)
LEMMA InitType == Init => TypeOK
<1>1. << >> \in Seq(Conns)
  OBVIOUS
<1> QED
  BY <1>1 DEF Init, TypeOK, States

(* Every step keeps the types.                                             *)
LEMMA NextType ==
    ASSUME TypeOK, [Next]_hubVars
    PROVE  TypeOK'
<1> USE HubAssumption DEF HubAssumption
<1>1. ASSUME NEW c \in Conns, Unregister(c)
      PROVE  TypeOK'
  BY <1>1 DEF Unregister, WithoutClient, TypeOK, States
<1>2. ASSUME NEW c \in Conns, ConnStep(c)
      PROVE  TypeOK'
  BY <1>1, <1>2 DEF ConnStep, ReadPumpEnds, Evict, CloseSend, PeerLeaves, TypeOK, States
<1>3. ASSUME NEW c \in Conns, NEW rs \in SUBSET Rooms, Register(c, rs)
      PROVE  TypeOK'
  <2>1. Append(order, c) \in Seq(Conns)
    BY DEF TypeOK
  <2> QED
    BY <1>3, <2>1 DEF Register, TypeOK, States
<1>4. ASSUME NEW p \in Callers, CallStep(p)
      PROVE  TypeOK'
  <2>1. CASE JoinRoom(p)
    <3>1. call[p] \in Member
      BY <2>1, CallHolds DEF JoinRoom
    <3> QED
      BY <2>1, <3>1 DEF JoinRoom, Return, TypeOK, Member
  <2>2. CASE LeaveRoom(p)
    <3>1. call[p] \in Member
      BY <2>2, CallHolds DEF LeaveRoom
    <3> QED
      BY <2>2, <3>1 DEF LeaveRoom, Return, TypeOK, Member
  <2>3. CASE DisbandEnds(p)
    BY <2>3 DEF DisbandEnds, Return, TypeOK
  <2>4. ASSUME NEW c \in Conns, DisbandClient(p, c)
        PROVE  TypeOK'
    <3>1. call[p] \in Disband
      BY <2>4, CallHolds DEF DisbandClient
    <3>2. [call[p] EXCEPT !.left = @ \ {c}] \in Disband
      BY <3>1 DEF Disband
    <3>3. call' = [call EXCEPT ![p] = [call[p] EXCEPT !.left = @ \ {c}]]
      BY <2>4 DEF DisbandClient
    <3>4. call' \in [Callers -> {Idle} \cup Member \cup Disband]
      BY <3>2, <3>3 DEF TypeOK
    <3> QED
      BY <2>4, <3>4 DEF DisbandClient, TypeOK
  <2> QED
    BY <1>4, <2>1, <2>2, <2>3, <2>4 DEF CallStep
<1>5. ASSUME NEW p \in Callers, NEW r \in Rooms, EmptyRoom(p, r)
      PROVE  TypeOK'
  <2>1. [op |-> "disband", room |-> r, left |-> rooms[r]] \in Disband
    BY DEF TypeOK, Disband
  <2> QED
    BY <1>5, <2>1 DEF EmptyRoom, Call, TypeOK
<1>6. ASSUME NEW p \in Callers, NEW u \in Users, NEW r \in Rooms,
             NEW op \in {"join", "leave"}, LookUp(p, op, u, r)
      PROVE  TypeOK'
  <2>1. [op |-> op, conn |-> users[u], room |-> r] \in Member
    BY <1>6 DEF LookUp, TypeOK, Member
  <2> QED
    BY <1>6, <2>1 DEF LookUp, Call, TypeOK
<1>7. ASSUME NEW u \in Users, Kick(u)
      PROVE  TypeOK'
  BY <1>7 DEF Kick, TypeOK
<1>8. CASE UNCHANGED hubVars
  BY <1>8 DEF hubVars, TypeOK
<1> QED
  BY <1>2, <1>3, <1>4, <1>5, <1>6, <1>7, <1>8 DEF Next

(* The state of the hub is well typed whatever calls cross each other.     *)
THEOREM TypeCorrect == Spec => []TypeOK
<1>1. TypeOK /\ [Next]_hubVars => TypeOK'
  BY NextType
<1> QED
  BY InitType, <1>1, PTL DEF Spec

-----------------------------------------------------------------------------
(* SubscribedIsReached is inductive: the rooms of a client and the clients *)
(* of a room change in different lock regions, but whatever takes a client *)
(* out of a room without asking it is going to visit it.                   *)
LEMMA ReachedStep ==
    ASSUME TypeOK, SubscribedIsReached, [Next]_hubVars
    PROVE  SubscribedIsReached'
<1> USE HubAssumption DEF HubAssumption
<1>0. SUFFICES ASSUME NEW d \in Conns, NEW s \in roomIDs'[d]
               PROVE  state'[d] = "active" /\ (d \in rooms'[s] \/ Disbanding(d, s)')
  BY DEF SubscribedIsReached
<1>1. s \in Rooms
  BY NextType DEF TypeOK
<1>2. s \in roomIDs[d] => state[d] = "active" /\ (d \in rooms[s] \/ Disbanding(d, s))
  BY DEF SubscribedIsReached
<1>3. UNCHANGED call => (Disbanding(d, s) => Disbanding(d, s)')
  BY DEF Disbanding
<1>4. ASSUME NEW p \in Callers, call[p].op # "disband" \/ call[p].left = {},
             \A q \in Callers : q # p => call'[q] = call[q]
      PROVE  Disbanding(d, s) => Disbanding(d, s)'
  BY <1>4 DEF Disbanding
<1>5. ASSUME NEW c \in Conns, ConnStep(c)
      PROVE  state'[d] = "active" /\ (d \in rooms'[s] \/ Disbanding(d, s)')
  <2>1. CASE Unregister(c)
    <3>1. d # c /\ s \in roomIDs[d]
      BY <2>1 DEF Unregister, TypeOK
    <3> QED
      BY <2>1, <3>1, <1>1, <1>2, <1>3 DEF Unregister, TypeOK
  <2>2. CASE CloseSend(c) \/ PeerLeaves(c)
    BY <2>2, <1>2, <1>3 DEF CloseSend, PeerLeaves, TypeOK
  <2> QED
    BY <1>5, <2>1, <2>2 DEF ConnStep, ReadPumpEnds, Evict
<1>6. ASSUME NEW c \in Conns, NEW rs \in SUBSET Rooms, Register(c, rs)
      PROVE  state'[d] = "active" /\ (d \in rooms'[s] \/ Disbanding(d, s)')
  BY <1>6, <1>1, <1>2, <1>3 DEF Register, TypeOK
<1>7. ASSUME NEW p \in Callers, CallStep(p)
      PROVE  state'[d] = "active" /\ (d \in rooms'[s] \/ Disbanding(d, s)')
  <2>1. CASE JoinRoom(p)
    <3>1. call[p] \in Member
      BY <2>1, CallHolds DEF JoinRoom
    <3>2. Disbanding(d, s) => Disbanding(d, s)'
      BY <2>1, <1>4 DEF JoinRoom, Return, TypeOK
    <3> QED
      BY <2>1, <3>1, <3>2, <1>1, <1>2 DEF JoinRoom, TypeOK, Member
  <2>2. CASE LeaveRoom(p)
    <3>1. call[p] \in Member
      BY <2>2, CallHolds DEF LeaveRoom
    <3>2. Disbanding(d, s) => Disbanding(d, s)'
      BY <2>2, <1>4 DEF LeaveRoom, Return, TypeOK
    <3> QED
      BY <2>2, <3>1, <3>2, <1>1, <1>2 DEF LeaveRoom, TypeOK, Member
  <2>3. CASE DisbandEnds(p)
    BY <2>3, <1>1, <1>2, <1>4 DEF DisbandEnds, Return, TypeOK
  <2>4. ASSUME NEW c \in Conns, DisbandClient(p, c)
        PROVE  state'[d] = "active" /\ (d \in rooms'[s] \/ Disbanding(d, s)')
    <3>1. call[p] \in Disband
      BY <2>4, CallHolds DEF DisbandClient
    <3>2. s \in roomIDs[d] /\ (d # c \/ call[p].room # s)
      BY <2>4, <3>1 DEF DisbandClient, TypeOK, Disband
    <3>3. call' = [call EXCEPT ![p] = [call[p] EXCEPT !.left = @ \ {c}]]
      BY <2>4 DEF DisbandClient
    <3>4. /\ call'[p].op = call[p].op /\ call'[p].room = call[p].room
          /\ call'[p].left = call[p].left \ {c}
          /\ \A q \in Callers : q # p => call'[q] = call[q]
      BY <3>1, <3>3 DEF TypeOK, Disband
    <3>5. Disbanding(d, s) => Disbanding(d, s)'
      BY <3>2, <3>4 DEF Disbanding
    <3> QED
      BY <2>4, <3>2, <3>5, <1>2 DEF DisbandClient
  <2> QED
    BY <1>7, <2>1, <2>2, <2>3, <2>4 DEF CallStep
<1>8. ASSUME NEW p \in Callers, NEW r \in Rooms, EmptyRoom(p, r)
      PROVE  state'[d] = "active" /\ (d \in rooms'[s] \/ Disbanding(d, s)')
  <2>1. Disbanding(d, s) => Disbanding(d, s)'
    BY <1>8, <1>4 DEF EmptyRoom, Call, Idle, TypeOK
  <2>2. d \in rooms[r] => Disbanding(d, r)'
    BY <1>8 DEF EmptyRoom, Call, Disbanding, TypeOK
  <2> QED
    BY <1>8, <2>1, <2>2, <1>1, <1>2 DEF EmptyRoom, TypeOK
<1>9. ASSUME NEW p \in Callers, NEW u \in Users, NEW r \in Rooms,
             NEW op \in {"join", "leave"}, LookUp(p, op, u, r)
      PROVE  state'[d] = "active" /\ (d \in rooms'[s] \/ Disbanding(d, s)')
  <2>1. Disbanding(d, s) => Disbanding(d, s)'
    BY <1>9, <1>4 DEF LookUp, Call, Idle, TypeOK
  <2> QED
    BY <1>9, <2>1, <1>2 DEF LookUp
<1>10. ASSUME NEW u \in Users, Kick(u)
       PROVE  state'[d] = "active" /\ (d \in rooms'[s] \/ Disbanding(d, s)')
  BY <1>10, <1>2, <1>3 DEF Kick
<1>11. CASE UNCHANGED hubVars
  BY <1>11, <1>2, <1>3 DEF hubVars
<1> QED
  BY <1>5, <1>6, <1>7, <1>8, <1>9, <1>10, <1>11 DEF Next

-----------------------------------------------------------------------------
(* Registering a connection makes it the newest of its user, ends that for *)
(* the user's other connections and changes nothing for other users.       *)
LEMMA RegisterNewest ==
    ASSUME TypeOK, NEW c \in Conns, NEW rs \in SUBSET Rooms, Register(c, rs),
           NEW d \in Conns
    PROVE  /\ IsNewest(c)'
           /\ d # c /\ UserOf[d] = UserOf[c] => ~IsNewest(d)'
           /\ UserOf[d] # UserOf[c] => (IsNewest(d)' <=> IsNewest(d))
<1>1. /\ Len(order) \in Nat
      /\ DOMAIN order = 1..Len(order)
      /\ Len(order') = Len(order) + 1
      /\ DOMAIN order' = 1..(Len(order) + 1)
      /\ order'[Len(order) + 1] = c
      /\ \A k \in 1..Len(order) : order'[k] = order[k]
  BY DEF Register, TypeOK
<1>2. IsNewest(c)'
  BY <1>1 DEF IsNewest
<1>3. ASSUME d # c, UserOf[d] = UserOf[c], IsNewest(d)'
      PROVE  FALSE
  <2>1. PICK k \in DOMAIN order' : /\ order'[k] = d
                                   /\ \A j \in (k + 1)..Len(order') :
                                         UserOf[order'[j]] # UserOf[d]
    BY <1>3 DEF IsNewest
  <2>2. k \in 1..Len(order)
    BY <2>1, <1>1, <1>3
  <2>3. Len(order) + 1 \in (k + 1)..Len(order')
    BY <2>2, <1>1
  <2> QED
    BY <2>1, <2>3, <1>1, <1>3
<1>4. ASSUME UserOf[d] # UserOf[c], IsNewest(d)
      PROVE  IsNewest(d)'
  BY <1>1, <1>4 DEF IsNewest
<1>5. ASSUME UserOf[d] # UserOf[c], IsNewest(d)'
      PROVE  IsNewest(d)
  BY <1>1, <1>5 DEF IsNewest
<1> QED
  BY <1>2, <1>3, <1>4, <1>5

(* A step that registers nothing leaves the order of registration alone.   *)
LEMMA NewestStands ==
    ASSUME NEW d \in Conns, UNCHANGED order
    PROVE  IsNewest(d)' <=> IsNewest(d)
BY DEF IsNewest

(* NewestIsFound is inductive: Unregister takes only itself out of users.  *)
LEMMA NewestStep ==
    ASSUME TypeOK, NewestIsFound, [Next]_hubVars
    PROVE  NewestIsFound'
<1> USE HubAssumption DEF HubAssumption
<1>0. SUFFICES ASSUME NEW d \in Conns
               PROVE  /\ IsNewest(d)' /\ state'[d] = "active" => users'[UserOf[d]] = d
                      /\ users'[UserOf[d]] = d => IsNewest(d)' /\ state'[d] = "active"
  BY DEF NewestIsFound
<1>1. /\ IsNewest(d) /\ state[d] = "active" => users[UserOf[d]] = d
      /\ users[UserOf[d]] = d => IsNewest(d) /\ state[d] = "active"
  BY DEF NewestIsFound
<1>2. ASSUME NEW c \in Conns, NEW rs \in SUBSET Rooms, Register(c, rs)
      PROVE  /\ IsNewest(d)' /\ state'[d] = "active" => users'[UserOf[d]] = d
             /\ users'[UserOf[d]] = d => IsNewest(d)' /\ state'[d] = "active"
  <2>1. /\ IsNewest(c)'
        /\ d # c /\ UserOf[d] = UserOf[c] => ~IsNewest(d)'
        /\ UserOf[d] # UserOf[c] => (IsNewest(d)' <=> IsNewest(d))
    BY <1>2, RegisterNewest
  <2>2. /\ users'[UserOf[c]] = c /\ state'[c] = "active"
        /\ UserOf[d] # UserOf[c] => users'[UserOf[d]] = users[UserOf[d]]
        /\ d # c => state'[d] = state[d]
    BY <1>2 DEF Register, TypeOK
  <2> QED
    BY <1>1, <2>1, <2>2
<1>3. ASSUME NEW c \in Conns, Unregister(c)
      PROVE  /\ IsNewest(d)' /\ state'[d] = "active" => users'[UserOf[d]] = d
             /\ users'[UserOf[d]] = d => IsNewest(d)' /\ state'[d] = "active"
  <2>1. IsNewest(d)' <=> IsNewest(d)
    BY <1>3, NewestStands DEF Unregister
  <2>2. /\ state'[c] = "unregistered"
        /\ d # c => state'[d] = state[d]
        /\ users'[UserOf[c]] # c
        /\ users[UserOf[d]] # c => users'[UserOf[d]] = users[UserOf[d]]
        /\ users'[UserOf[d]] \in {users[UserOf[d]], None}
    BY <1>3 DEF Unregister, WithoutClient, TypeOK
  <2> QED
    BY <1>1, <2>1, <2>2
<1>4. ASSUME UNCHANGED <<users, order>>,
             \A c \in Conns : state'[c] = "active" <=> state[c] = "active"
      PROVE  /\ IsNewest(d)' /\ state'[d] = "active" => users'[UserOf[d]] = d
             /\ users'[UserOf[d]] = d => IsNewest(d)' /\ state'[d] = "active"
  BY <1>1, <1>4, NewestStands
<1>5. ASSUME NEW c \in Conns, CloseSend(c)
      PROVE  \A e \in Conns : state'[e] = "active" <=> state[e] = "active"
  BY <1>5 DEF CloseSend, TypeOK
<1>6. Next => \/ \E c \in Conns, rs \in SUBSET Rooms : Register(c, rs)
              \/ \E c \in Conns : Unregister(c) \/ (CloseSend(c) /\ UNCHANGED <<users, order>>)
              \/ UNCHANGED <<state, users, order>>
  BY DEF Next, ConnStep, CallStep, ReadPumpEnds, Evict, CloseSend, PeerLeaves, JoinRoom,
         LeaveRoom, DisbandEnds, DisbandClient, EmptyRoom, LookUp, Kick
<1> QED
  BY <1>2, <1>3, <1>4, <1>5, <1>6 DEF hubVars

-----------------------------------------------------------------------------
(* The indexes of the hub agree in every reachable state: a room that a    *)
(* connection holds reaches it, or a DisbandRoom is about to tell it, and  *)
(* a user is found under its newest registered connection and no other.    *)
THEOREM RegistryAgreesHolds == Spec => []RegistryAgrees
<1> DEFINE Inv == TypeOK /\ RegistryAgrees
<1>1. Init => Inv
  <2>1. Init => SubscribedIsReached
    BY DEF Init, SubscribedIsReached
  <2>2. Init => NewestIsFound
    BY HubAssumption DEF HubAssumption, Init, NewestIsFound
  <2> QED
    BY <2>1, <2>2, InitType DEF RegistryAgrees
<1>2. Inv /\ [Next]_hubVars => Inv'
  BY NextType, ReachedStep, NewestStep DEF RegistryAgrees
<1> QED
  BY <1>1, <1>2, PTL DEF Spec

=============================================================================
