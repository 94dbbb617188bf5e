-------------------------- MODULE SequencerProofs ---------------------------
(***************************************************************************)
(* Proofs about Sequencer, for every set of rooms, senders, client ids and *)
(* requests, every clock and every bound.                                  *)
(***************************************************************************)
EXTENDS Sequencer, SequenceTheorems, TLAPS

(***************************************************************************)
(* Steps that leave the numbers and the topics alone: the loop's own       *)
(* steps.                                                                  *)
(***************************************************************************)
Idle == NextBatch \/ LoopStep \/ LoopFault \/ Shutdown

-----------------------------------------------------------------------------
(* A message built by Assign is well formed.                               *)
LEMMA NumberedType ==
    ASSUME TypeOK, NEW q \in Requests, HasIdentity(q), NEW now \in ClockValues
    PROVE  /\ Numbered(q, NextID(now)) \in Message
           /\ NextID(now) \in Nat
           /\ NextID(now) > lastID
<1>1. now * IdSpace \in Int
  BY SequencerAssumption DEF SequencerAssumption
<1>2. NextID(now) \in Nat /\ NextID(now) > lastID
  BY <1>1 DEF NextID, TypeOK
<1>3. rooms[q.room] + 1 \in Int
  BY DEF TypeOK, HasIdentity
<1>4. q.body \in Bodies /\ q.at \in Times
  BY SequencerAssumption DEF SequencerAssumption
<1> QED
  BY <1>2, <1>3, <1>4 DEF Numbered, Message, HasIdentity

(* A record of the ingress topic has a size.                               *)
LEMMA SizeOfRecord ==
    ASSUME TypeOK, NEW o \in 1..Len(ingress)
    PROVE  BodySize[ingress[o].body] \in Nat
<1>1. ingress[o] \in Requests
  BY DEF TypeOK
<1> QED
  BY <1>1, BatchAssumption, SequencerAssumption
     DEF BatchAssumption, SequencerAssumption

(* The loop's own steps keep the types of its state.                       *)
LEMMA LoopType ==
    ASSUME TypeOK, Idle
    PROVE  LoopTypeOK' /\ OffsetsExist'
<1> USE DEF LoopTypeOK, OffsetsExist, PCs
<1>0. /\ LoopTypeOK /\ OffsetsExist
      /\ Len(ingress) \in Nat
      /\ UNCHANGED <<ingress, formal>>
  BY DEF TypeOK, Idle, NextBatch, LoopStep, LoopFault, Shutdown, topicVars
<1>1. CASE NextBatch
  <2>1. ASSUME NEW o \in 1..Len(ingress), StartBatch(ingress, o)
        PROVE  /\ pc' \in PCs /\ terminal' \in BOOLEAN /\ bytes' \in Nat
               /\ records' \in Seq(Nat)
               /\ \A k \in DOMAIN records' : records'[k] \in 1..Len(ingress)
    <3>1. o \in Nat
      OBVIOUS
    <3>2. /\ <<o>> \in Seq(Nat) /\ << >> \in Seq(Nat)
          /\ \A k \in DOMAIN <<o>> : <<o>>[k] = o
          /\ DOMAIN << >> = {}
      BY <3>1
    <3>3. BodySize[ingress[o].body] \in Nat
      BY SizeOfRecord
    <3>4. /\ records' \in {<< >>, <<o>>}
          /\ pc' \in {"stopped", "collect"}
          /\ terminal' = FALSE
          /\ bytes' \in {0, BodySize[ingress[o].body]}
      BY <2>1 DEF StartBatch
    <3>5. /\ records' \in Seq(Nat)
          /\ \A k \in DOMAIN records' : records'[k] \in 1..Len(ingress)
      BY <3>2, <3>4
    <3>6. pc' \in PCs /\ terminal' \in BOOLEAN
      BY <3>4
    <3>7. bytes' \in Nat
      BY <3>3, <3>4
    <3> QED
      BY <3>5, <3>6, <3>7
  <2>2. CASE FetchFirst(ingress)
    BY <1>0, <2>1, <2>2 DEF FetchFirst
  <2>3. CASE TakePending(ingress)
    BY <1>0, <2>1, <2>3 DEF TakePending
  <2> QED
    BY <1>1, <2>2, <2>3 DEF NextBatch
<1>2. CASE LoopStep
  <2>1. CASE CollectNext(ingress)
    <3>1. fetched + 1 \in 1..Len(ingress)
      BY <1>0, <2>1 DEF CollectNext
    <3>2. BodySize[ingress[fetched + 1].body] \in Nat
      BY <3>1, SizeOfRecord
    <3>3. /\ Append(records, fetched + 1) \in Seq(Nat)
          /\ \A k \in DOMAIN Append(records, fetched + 1) :
                Append(records, fetched + 1)[k] \in 1..Len(ingress)
      BY <1>0, <3>1
    <3>4. /\ records' \in {records, Append(records, fetched + 1)}
          /\ bytes' \in {bytes, bytes + BodySize[ingress[fetched + 1].body]}
      BY <2>1 DEF CollectNext
    <3>5. /\ records' \in Seq(Nat)
          /\ \A k \in DOMAIN records' : records'[k] \in 1..Len(ingress)
      BY <1>0, <3>3, <3>4
    <3>6. bytes' \in Nat
      <4>1. bytes \in Nat
        BY <1>0
      <4>2. bytes + BodySize[ingress[fetched + 1].body] \in Nat
        BY <4>1, <3>2
      <4> QED
        BY <4>1, <4>2, <3>4
    <3> QED
      BY <1>0, <2>1, <3>1, <3>5, <3>6 DEF CollectNext, Collecting
  <2>2. CASE EndCollect
    BY <1>0, <2>2 DEF EndCollect
  <2>3. CASE Commit
    BY <1>0, <2>3 DEF Commit, IsCommitOffset
  <2>4. CASE ReturnOnCancel
    BY <1>0, <2>4 DEF ReturnOnCancel
  <2> QED
    BY <1>2, <2>1, <2>2, <2>3, <2>4 DEF LoopStep
<1>3. CASE LoopFault \/ Shutdown
  <2> USE BatchAssumption DEF BatchAssumption, Fault
  <2>1. CASE FetchFails
    BY <1>0, <2>1 DEF FetchFails
  <2>2. CASE CollectFails
    BY <1>0, <2>2 DEF CollectFails
  <2>3. CASE CommitFails
    BY <1>0, <2>3 DEF CommitFails, IsCommitOffset
  <2>4. CASE Rebalance
    BY <1>0, <2>4 DEF Rebalance
  <2>5. CASE Cancel
    BY <1>0, <2>5 DEF Cancel
  <2> QED
    BY <1>3, <2>1, <2>2, <2>3, <2>4, <2>5 DEF LoopFault, Shutdown
<1> QED
  BY <1>1, <1>2, <1>3 DEF Idle

(* The record a handling step looks at is one of the ingress topic.        *)
LEMMA CurrentType ==
    ASSUME TypeOK, Handling
    PROVE  Current \in Requests /\ records[idx + 1] \in 1..Len(ingress)
<1>1. idx + 1 \in DOMAIN records
  BY DEF TypeOK, LoopTypeOK, Handling
<1> QED
  BY <1>1 DEF TypeOK, OffsetsExist, Current

(* What a new number changes, in a form the later proofs can use.          *)
LEMMA HandleNewFacts ==
    ASSUME TypeOK, NEW now \in ClockValues, HandleNew(now)
    PROVE  \E m \in Message :
              /\ m.id > lastID /\ m.id \in Nat
              /\ m.seq = rooms[m.room] + 1
              /\ m.room = Current.room /\ KeyOf(m) = KeyOf(Current)
              /\ m.body = Current.body /\ m.at = Current.at
              /\ KeyOf(m) \in Keys \ DOMAIN requests
              /\ lastID' = m.id
              /\ rooms' = [rooms EXCEPT ![m.room] = m.seq]
              /\ requests' = [k \in DOMAIN requests \cup {KeyOf(m)} |->
                                  IF k = KeyOf(m) THEN m ELSE requests[k]]
              /\ outputs' = Append(outputs, m)
<1> DEFINE m == Numbered(Current, NextID(now))
<1>1. Current \in Requests /\ HasIdentity(Current)
  BY CurrentType DEF HandleNew, Rejected
<1>2. m \in Message /\ NextID(now) \in Nat /\ NextID(now) > lastID
  BY <1>1, NumberedType
<1>3. /\ m.id = NextID(now) /\ m.seq = rooms[Current.room] + 1
      /\ m.room = Current.room /\ m.sender = Current.sender
      /\ m.client = Current.client
      /\ m.body = Current.body /\ m.at = Current.at
  BY DEF Numbered
<1>4. KeyOf(m) = KeyOf(Current) /\ KeyOf(m) \in Keys
  BY <1>1, <1>3 DEF KeyOf, Keys, HasIdentity
<1> HIDE DEF m
<1> QED
  BY <1>2, <1>3, <1>4 DEF HandleNew, m

(* The initial state is well typed.                                        *)
LEMMA InitType == ASSUME Init PROVE TypeOK
<1>1. LoopTypeOK
  <2>1. ctxDone \in BOOLEAN /\ terminal \in BOOLEAN
    BY DEF Init, LoopInit
  <2>2. pc \in PCs /\ records \in Seq(Nat)
    BY DEF Init, LoopInit, PCs
  <2>3. /\ fetched \in Nat /\ pending \in Nat /\ bytes \in Nat
        /\ committed \in Nat /\ faults \in 0..MaxFaults
    BY BatchAssumption DEF BatchAssumption, Init, LoopInit
  <2> QED
    BY <2>1, <2>2, <2>3 DEF LoopTypeOK
<1>2. OffsetsExist
  BY DEF Init, LoopInit, OffsetsExist
<1>3. DOMAIN requests = {} /\ requests \in [DOMAIN requests -> Message]
  BY DEF Init
<1>4. rooms \in [Rooms -> Nat]
  BY DEF Init
<1> QED
  BY <1>1, <1>2, <1>3, <1>4 DEF Init, TypeOK

(* The type invariant, for every behaviour of the loop: the loop never     *)
(* speaks of a record that does not exist, and every message it builds or  *)
(* writes is a numbered one.                                               *)
THEOREM TypeCorrect == Spec => []TypeOK
<1>1. Init => TypeOK
  BY InitType
<1>2. TypeOK /\ [Next]_vars => TypeOK'
  <2> SUFFICES ASSUME TypeOK, [Next]_vars PROVE TypeOK'
    OBVIOUS
  <2>0. /\ ingress \in Seq(Requests) /\ Len(ingress) \in Nat
        /\ LoopTypeOK /\ OffsetsExist
    BY DEF TypeOK
  <2>1. ASSUME NEW q \in Requests, Produce(q) PROVE TypeOK'
    <3>1. ingress' \in Seq(Requests) /\ Len(ingress') = Len(ingress) + 1
      BY <2>0, <2>1 DEF Produce
    <3>2. LoopTypeOK'
      BY <2>0, <2>1 DEF Produce, loopVars, LoopTypeOK
    <3>3. OffsetsExist'
      BY <2>0, <2>1, <3>1 DEF Produce, loopVars, LoopTypeOK, OffsetsExist
    <3> QED
      BY <2>1, <3>1, <3>2, <3>3 DEF Produce, TypeOK, numberVars
  <2>2. CASE NextBatch
    <3>1. LoopTypeOK' /\ OffsetsExist'
      BY <2>2, LoopType DEF Idle
    <3>2. outputs' \in Seq(Message) /\ idx' \in Nat
      BY <2>2 DEF NextBatch
    <3> QED
      BY <2>2, <3>1, <3>2 DEF NextBatch, TypeOK, topicVars, numberVars
  <2>3. CASE LoopStep \/ LoopFault \/ Shutdown
    <3>1. LoopTypeOK' /\ OffsetsExist'
      BY <2>3, LoopType DEF Idle
    <3> QED
      BY <2>3, <3>1 DEF LoopStep, LoopFault, Shutdown, TypeOK, topicVars, numberVars
  <2>4. CASE Handle
    <3>1. ASSUME UNCHANGED <<ctxDone, fetched, pending, records, bytes,
                             terminal, committed, faults, ingress>>,
                 pc' \in PCs
          PROVE  LoopTypeOK' /\ OffsetsExist'
      BY <2>0, <3>1 DEF LoopTypeOK, OffsetsExist
    <3>2. CASE HandleUnparsable \/ HandleDone
      <4>1. pc' \in PCs
        BY <3>2 DEF HandleUnparsable, HandleDone, PCs
      <4> QED
        BY <3>1, <3>2, <4>1 DEF HandleUnparsable, HandleDone, TypeOK,
           topicVars, numberVars
    <3>3. CASE HandleRejected \/ HandleDuplicate
      <4>0. KeyOf(Current) \in DOMAIN requests => requests[KeyOf(Current)] \in Message
        BY DEF TypeOK
      <4>1. outputs' \in Seq(Message) /\ idx' \in Nat
        <5>1. CASE HandleRejected
          BY <5>1 DEF HandleRejected, TypeOK
        <5>2. CASE HandleDuplicate
          BY <4>0, <5>2 DEF HandleDuplicate, TypeOK
        <5> QED
          BY <3>3, <5>1, <5>2
      <4> QED
        BY <2>0, <3>1, <3>3, <4>1 DEF HandleRejected, HandleDuplicate, TypeOK,
           LoopTypeOK, loopVars, topicVars, numberVars
    <3>4. ASSUME NEW now \in ClockValues, HandleNew(now) PROVE TypeOK'
      <4>1. PICK m \in Message :
              /\ m.id > lastID /\ m.id \in Nat
              /\ m.seq = rooms[m.room] + 1
              /\ KeyOf(m) \in Keys \ DOMAIN requests
              /\ lastID' = m.id
              /\ rooms' = [rooms EXCEPT ![m.room] = m.seq]
              /\ requests' = [k \in DOMAIN requests \cup {KeyOf(m)} |->
                                  IF k = KeyOf(m) THEN m ELSE requests[k]]
              /\ outputs' = Append(outputs, m)
        BY <3>4, HandleNewFacts
      <4>2. rooms' \in [Rooms -> Nat] /\ lastID' \in Nat
        BY <4>1 DEF TypeOK, Message
      <4>3. /\ DOMAIN requests' \subseteq Keys
            /\ requests' \in [DOMAIN requests' -> Message]
        BY <4>1 DEF TypeOK
      <4>4. outputs' \in Seq(Message) /\ idx' \in Nat
        BY <3>4, <4>1 DEF HandleNew, TypeOK
      <4> QED
        BY <2>0, <3>1, <3>4, <4>2, <4>3, <4>4 DEF HandleNew, TypeOK,
           LoopTypeOK, loopVars, topicVars
    <3> QED
      BY <2>4, <3>2, <3>3, <3>4 DEF Handle
  <2>5. CASE Write
    <3>1. formal' \in Seq(Message)
      BY <2>5 DEF Write, TypeOK
    <3>2. pc' \in PCs
      BY <2>5 DEF Write, PCs
    <3> QED
      BY <2>0, <2>5, <3>1, <3>2 DEF Write, TypeOK, LoopTypeOK, OffsetsExist,
         numberVars
  <2>6. CASE WriteFails
    <3>0. PICK n \in 0..Len(outputs) :
              \E part \in [1..n -> 1..Len(outputs)] :
                  formal' = formal \o [k \in 1..n |-> outputs[part[k]]]
      BY <2>6 DEF WriteFails
    <3>1. PICK part \in [1..n -> 1..Len(outputs)] :
              formal' = formal \o [k \in 1..n |-> outputs[part[k]]]
      BY <3>0
    <3>2. [k \in 1..n |-> outputs[part[k]]] \in [1..n -> Message]
      BY DEF TypeOK
    <3>2a. [k \in 1..n |-> outputs[part[k]]] \in Seq(Message)
      BY <3>2, SeqDef
    <3>3. formal' \in Seq(Message)
      BY <3>1, <3>2a DEF TypeOK
    <3>4. faults' \in 0..MaxFaults
      BY <2>0, <2>6, BatchAssumption
         DEF WriteFails, Fault, LoopTypeOK, BatchAssumption
    <3> QED
      BY <2>0, <2>6, <3>3, <3>4 DEF WriteFails, TypeOK, LoopTypeOK,
         OffsetsExist, numberVars
  <2>7. CASE UNCHANGED vars
    BY <2>0, <2>7 DEF vars, TypeOK, LoopTypeOK, OffsetsExist, loopVars,
       topicVars, numberVars
  <2> QED
    BY <2>1, <2>2, <2>3, <2>4, <2>5, <2>6, <2>7 DEF Next, SequencerStep
<1> QED
  BY <1>1, <1>2, PTL DEF Spec

-----------------------------------------------------------------------------
(***************************************************************************)
(* The inductive invariant.  NumberInv: the numbering state is consistent  *)
(* (each key has its own message, ids and room numbers are injective and   *)
(* agree in order, every number up to a room's counter was given).         *)
(* TopicInv: the formal topic and the batch being written hold nothing but *)
(* messages the numbering state remembers.  WrittenInv: a number that was  *)
(* given is in the topic, or still in the batch being written.             *)
(***************************************************************************)
NumberInv ==
    /\ \A k \in DOMAIN requests :
          /\ KeyOf(requests[k]) = k
          /\ requests[k].id \in 1..lastID
          /\ requests[k].seq \in 1..rooms[requests[k].room]
    /\ \A k, l \in DOMAIN requests :
          /\ requests[k].id = requests[l].id => k = l
          /\ requests[k].room = requests[l].room =>
                /\ requests[k].seq = requests[l].seq => k = l
                /\ requests[k].seq < requests[l].seq
                      => requests[k].id < requests[l].id
    /\ \A r \in Rooms : \A n \in 1..rooms[r] : \E k \in DOMAIN requests :
          requests[k].room = r /\ requests[k].seq = n

Known(m) == \E k \in DOMAIN requests : requests[k] = m

TopicInv ==
    /\ \A i \in DOMAIN formal : Known(formal[i])
    /\ \A i \in DOMAIN outputs : Known(outputs[i])

InOutputs(m) == \E i \in DOMAIN outputs : outputs[i] = m

WrittenInv ==
    \A k \in DOMAIN requests :
        \/ InFormal(requests[k])
        \/ pc \in {"handle", "write", "stopped"} /\ InOutputs(requests[k])

(* The elements of a concatenation are those of its parts.                 *)
LEMMA ConcatElements ==
    ASSUME NEW S, NEW s \in Seq(S), NEW t \in Seq(S)
    PROVE  /\ \A i \in DOMAIN s : i \in DOMAIN (s \o t) /\ (s \o t)[i] = s[i]
           /\ \A i \in DOMAIN t : /\ Len(s) + i \in DOMAIN (s \o t)
                                  /\ (s \o t)[Len(s) + i] = t[i]
           /\ \A i \in DOMAIN (s \o t) :
                 \/ i \in DOMAIN s /\ (s \o t)[i] = s[i]
                 \/ \E j \in DOMAIN t : (s \o t)[i] = t[j]
<1>1. /\ DOMAIN s = 1..Len(s) /\ DOMAIN t = 1..Len(t)
      /\ DOMAIN (s \o t) = 1..(Len(s) + Len(t))
      /\ Len(s) \in Nat /\ Len(t) \in Nat
  OBVIOUS
<1>2. \A i \in 1..(Len(s) + Len(t)) :
         (s \o t)[i] = IF i <= Len(s) THEN s[i] ELSE t[i - Len(s)]
  BY ConcatProperties
<1>3. ASSUME NEW i \in DOMAIN (s \o t), i > Len(s)
      PROVE  \E j \in DOMAIN t : (s \o t)[i] = t[j]
  <2>1. i - Len(s) \in DOMAIN t /\ (s \o t)[i] = t[i - Len(s)]
    BY <1>1, <1>2, <1>3
  <2> QED
    BY <2>1
<1>4. ASSUME NEW i \in DOMAIN s
      PROVE  i \in DOMAIN (s \o t) /\ (s \o t)[i] = s[i]
  <2>1. i \in Int /\ 1 <= i /\ i <= Len(s) /\ i <= Len(s) + Len(t)
    BY <1>1
  <2>2. i \in 1..(Len(s) + Len(t))
    BY <1>1, <2>1
  <2> QED
    BY <1>1, <1>2, <2>1, <2>2
<1>5. ASSUME NEW i \in DOMAIN t
      PROVE  Len(s) + i \in DOMAIN (s \o t) /\ (s \o t)[Len(s) + i] = t[i]
  <2>1. /\ Len(s) + i \in 1..(Len(s) + Len(t))
        /\ ~ (Len(s) + i <= Len(s)) /\ (Len(s) + i) - Len(s) = i
    BY <1>1
  <2> QED
    BY <1>1, <1>2, <2>1
<1>6. ASSUME NEW i \in DOMAIN (s \o t), ~ (i > Len(s))
      PROVE  i \in DOMAIN s
  BY <1>1, <1>6
<1> QED
  BY <1>3, <1>4, <1>5, <1>6

(* Giving a number keeps the numbering state consistent.                   *)
LEMMA NumberStep ==
    ASSUME TypeOK, NumberInv, [Next]_vars
    PROVE  NumberInv'
<1>1. CASE UNCHANGED numberVars
  BY <1>1 DEF NumberInv, numberVars
<1>2. ASSUME NEW now \in ClockValues, HandleNew(now)
      PROVE  NumberInv'
  <2>1. PICK m \in Message :
          /\ m.id > lastID /\ m.id \in Nat
          /\ m.seq = rooms[m.room] + 1
          /\ KeyOf(m) \in Keys \ DOMAIN requests
          /\ lastID' = m.id
          /\ rooms' = [rooms EXCEPT ![m.room] = m.seq]
          /\ requests' = [k \in DOMAIN requests \cup {KeyOf(m)} |->
                              IF k = KeyOf(m) THEN m ELSE requests[k]]
    BY <1>2, HandleNewFacts
  <2> DEFINE key == KeyOf(m)
  <2>2. /\ m.room \in Rooms /\ rooms \in [Rooms -> Nat]
        /\ lastID \in Nat /\ m.seq \in Nat
        /\ \A k \in DOMAIN requests : requests[k] \in Message
    BY <2>1 DEF TypeOK, Message
  <2>3. /\ DOMAIN requests' = DOMAIN requests \cup {key}
        /\ requests'[key] = m
        /\ \A k \in DOMAIN requests : k # key /\ requests'[k] = requests[k]
    BY <2>1
  <2>4. /\ rooms'[m.room] = rooms[m.room] + 1
        /\ \A r \in Rooms : r # m.room => rooms'[r] = rooms[r]
    BY <2>1, <2>2
  <2>5. \A k \in DOMAIN requests :
           /\ requests[k].room \in Rooms
           /\ requests[k].id \in Int /\ requests[k].seq \in Int
           /\ requests[k].id < m.id
           /\ requests[k].room = m.room => requests[k].seq < m.seq
    BY <2>1, <2>2 DEF NumberInv, Message
  <2> HIDE DEF key
  <2>6. \A k \in DOMAIN requests' :
           /\ KeyOf(requests'[k]) = k
           /\ requests'[k].id \in 1..lastID'
           /\ requests'[k].seq \in 1..rooms'[requests'[k].room]
    <3>1. /\ KeyOf(m) = key /\ m.id \in 1..lastID'
          /\ m.seq \in 1..rooms'[m.room]
      BY <2>1, <2>2, <2>4 DEF key
    <3>2. ASSUME NEW k \in DOMAIN requests
          PROVE  /\ KeyOf(requests[k]) = k
                 /\ requests[k].id \in 1..lastID'
                 /\ requests[k].seq \in 1..rooms'[requests[k].room]
      BY <2>1, <2>2, <2>4, <2>5 DEF NumberInv
    <3> QED
      BY <2>3, <3>1, <3>2
  <2>7. \A k, l \in DOMAIN requests' :
          /\ requests'[k].id = requests'[l].id => k = l
          /\ requests'[k].room = requests'[l].room =>
                /\ requests'[k].seq = requests'[l].seq => k = l
                /\ requests'[k].seq < requests'[l].seq
                      => requests'[k].id < requests'[l].id
    <3> SUFFICES ASSUME NEW k \in DOMAIN requests', NEW l \in DOMAIN requests'
                 PROVE  /\ requests'[k].id = requests'[l].id => k = l
                        /\ requests'[k].room = requests'[l].room =>
                              /\ requests'[k].seq = requests'[l].seq => k = l
                              /\ requests'[k].seq < requests'[l].seq
                                    => requests'[k].id < requests'[l].id
      OBVIOUS
    <3>1. CASE k \in DOMAIN requests /\ l \in DOMAIN requests
      BY <3>1, <2>3 DEF NumberInv
    <3>2. CASE k = key /\ l = key
      BY <3>2, <2>1, <2>2, <2>3
    <3>3. CASE k = key /\ l \in DOMAIN requests
      BY <3>3, <2>1, <2>2, <2>3, <2>5
    <3>4. CASE k \in DOMAIN requests /\ l = key
      BY <3>4, <2>1, <2>2, <2>3, <2>5
    <3> QED
      BY <2>3, <3>1, <3>2, <3>3, <3>4
  <2>8. ASSUME NEW r \in Rooms, NEW n \in 1..rooms'[r]
        PROVE  \E k \in DOMAIN requests' :
                   requests'[k].room = r /\ requests'[k].seq = n
    <3>1. CASE r = m.room /\ n = m.seq
      BY <3>1, <2>3
    <3>2. CASE ~(r = m.room /\ n = m.seq)
      <4>1. n \in 1..rooms[r]
        BY <3>2, <2>1, <2>2, <2>4
      <4>2. PICK k \in DOMAIN requests : requests[k].room = r /\ requests[k].seq = n
        BY <4>1 DEF NumberInv
      <4> QED
        BY <4>2, <2>3
    <3> QED
      BY <3>1, <3>2
  <2> QED
    BY <2>6, <2>7, <2>8 DEF NumberInv
<1>3. CASE UNCHANGED vars
  BY <1>1, <1>3 DEF vars, numberVars
<1>4. CASE Next
  <2>1. ASSUME NEW q \in Requests, Produce(q) PROVE UNCHANGED numberVars
    BY <2>1 DEF Produce
  <2>2. CASE NextBatch \/ LoopStep \/ LoopFault \/ Shutdown \/ Write \/ WriteFails
    BY <1>1, <2>2 DEF NextBatch, LoopStep, LoopFault, Shutdown, Write, WriteFails
  <2>3. CASE Handle
    BY <1>1, <1>2, <2>3 DEF Handle, HandleUnparsable, HandleRejected,
       HandleDuplicate, HandleDone
  <2> QED
    BY <1>1, <1>4, <2>1, <2>2, <2>3 DEF Next, SequencerStep
<1> QED
  BY <1>3, <1>4

(* Numbers that were given are never changed, and the formal topic only    *)
(* grows.                                                                  *)
LEMMA Monotone ==
    ASSUME TypeOK, [Next]_vars
    PROVE  /\ \A k \in DOMAIN requests :
                 k \in DOMAIN requests' /\ requests'[k] = requests[k]
           /\ \A i \in DOMAIN formal :
                 i \in DOMAIN formal' /\ formal'[i] = formal[i]
<1>1. CASE UNCHANGED <<numberVars, formal>>
  BY <1>1 DEF numberVars
<1>2. ASSUME NEW now \in ClockValues, HandleNew(now)
      PROVE  /\ \A k \in DOMAIN requests :
                   k \in DOMAIN requests' /\ requests'[k] = requests[k]
             /\ UNCHANGED formal
  BY <1>2, HandleNewFacts DEF HandleNew, topicVars
<1>3. CASE Write
  BY <1>3, ConcatElements DEF Write, TypeOK, numberVars
<1>4. CASE WriteFails
  <2>1. PICK s \in Seq(Message) : formal' = formal \o s
    <3>0. PICK n \in 0..Len(outputs) :
              \E part \in [1..n -> 1..Len(outputs)] :
                  formal' = formal \o [k \in 1..n |-> outputs[part[k]]]
      BY <1>4 DEF WriteFails
    <3>1. PICK part \in [1..n -> 1..Len(outputs)] :
              formal' = formal \o [k \in 1..n |-> outputs[part[k]]]
      BY <3>0
    <3>2. [k \in 1..n |-> outputs[part[k]]] \in [1..n -> Message]
      BY DEF TypeOK
    <3>3. [k \in 1..n |-> outputs[part[k]]] \in Seq(Message)
      BY <3>2, SeqDef
    <3> QED
      BY <3>1, <3>3
  <2>2. UNCHANGED requests
    BY <1>4 DEF WriteFails, numberVars
  <2> QED
    BY <2>1, <2>2, ConcatElements DEF TypeOK
<1>5. CASE Handle
  BY <1>1, <1>2, <1>5 DEF Handle, HandleUnparsable, HandleRejected,
     HandleDuplicate, HandleDone, topicVars
<1>6. ASSUME NEW q \in Requests, Produce(q)
      PROVE  UNCHANGED <<numberVars, formal>>
  BY <1>6 DEF Produce
<1>7. CASE NextBatch \/ LoopStep \/ LoopFault \/ Shutdown
  BY <1>1, <1>7 DEF NextBatch, LoopStep, LoopFault, Shutdown, topicVars
<1>8. CASE UNCHANGED vars
  BY <1>1, <1>8 DEF vars, topicVars
<1> QED
  BY <1>1, <1>3, <1>4, <1>5, <1>6, <1>7, <1>8 DEF Next, SequencerStep

(* What a failed write leaves in the topic comes from the batch.           *)
LEMMA WriteFailsFacts ==
    ASSUME TypeOK, WriteFails
    PROVE  \A i \in DOMAIN formal' :
              \/ i \in DOMAIN formal /\ formal'[i] = formal[i]
              \/ \E j \in DOMAIN outputs : formal'[i] = outputs[j]
<1>0. PICK n \in 0..Len(outputs) :
          \E part \in [1..n -> 1..Len(outputs)] :
              formal' = formal \o [k \in 1..n |-> outputs[part[k]]]
  BY DEF WriteFails
<1>1. PICK part \in [1..n -> 1..Len(outputs)] :
          formal' = formal \o [k \in 1..n |-> outputs[part[k]]]
  BY <1>0
<1> DEFINE s == [k \in 1..n |-> outputs[part[k]]]
<1>2. s \in [1..n -> Message] /\ \A k \in DOMAIN s : part[k] \in DOMAIN outputs
  BY DEF TypeOK
<1>3. s \in Seq(Message) /\ \A k \in DOMAIN s : s[k] = outputs[part[k]]
  BY <1>2, SeqDef
<1> HIDE DEF s
<1>4. \A i \in DOMAIN (formal \o s) :
         \/ i \in DOMAIN formal /\ (formal \o s)[i] = formal[i]
         \/ \E j \in DOMAIN s : (formal \o s)[i] = s[j]
  BY <1>3, ConcatElements DEF TypeOK
<1> QED
  BY <1>1, <1>2, <1>3, <1>4 DEF s

(* Only numbered messages reach the batch and the topic.                   *)
LEMMA TopicStep ==
    ASSUME TypeOK, TopicInv, [Next]_vars
    PROVE  TopicInv'
<1>0. \A m : Known(m) => Known(m)'
  BY Monotone DEF Known
<1>1. CASE UNCHANGED <<formal, outputs>>
  BY <1>0, <1>1 DEF TopicInv
<1>2. CASE NextBatch
  <2>1. DOMAIN outputs' = {} /\ UNCHANGED formal
    BY <1>2 DEF NextBatch, topicVars
  <2> QED
    BY <1>0, <2>1 DEF TopicInv
<1>3. CASE HandleDuplicate
  <2>1. Known(requests[KeyOf(Current)]) /\ UNCHANGED formal
    BY <1>3 DEF HandleDuplicate, Known, topicVars
  <2>2. \A i \in DOMAIN outputs' : \/ i \in DOMAIN outputs /\ outputs'[i] = outputs[i]
                                   \/ outputs'[i] = requests[KeyOf(Current)]
    BY <1>3 DEF HandleDuplicate, TypeOK
  <2> QED
    BY <1>0, <2>1, <2>2 DEF TopicInv
<1>4. ASSUME NEW now \in ClockValues, HandleNew(now)
      PROVE  TopicInv'
  <2>1. PICK m \in Message :
          /\ requests' = [k \in DOMAIN requests \cup {KeyOf(m)} |->
                              IF k = KeyOf(m) THEN m ELSE requests[k]]
          /\ outputs' = Append(outputs, m)
    BY <1>4, HandleNewFacts
  <2>2. Known(m)' /\ UNCHANGED formal
    BY <1>4, <2>1 DEF HandleNew, Known, topicVars
  <2>3. \A i \in DOMAIN outputs' : \/ i \in DOMAIN outputs /\ outputs'[i] = outputs[i]
                                   \/ outputs'[i] = m
    BY <2>1 DEF TypeOK
  <2> QED
    BY <1>0, <2>2, <2>3 DEF TopicInv
<1>5. CASE Write
  <2>1. \A i \in DOMAIN formal' :
           \/ i \in DOMAIN formal /\ formal'[i] = formal[i]
           \/ \E j \in DOMAIN outputs : formal'[i] = outputs[j]
    BY <1>5, ConcatElements DEF Write, TypeOK
  <2> QED
    BY <1>0, <1>5, <2>1 DEF TopicInv, Write
<1>6. CASE WriteFails
  BY <1>0, <1>6, WriteFailsFacts DEF TopicInv, WriteFails
<1>7. ASSUME NEW q \in Requests, Produce(q)
      PROVE  UNCHANGED <<formal, outputs>>
  BY <1>7 DEF Produce
<1>8. CASE LoopStep \/ LoopFault \/ Shutdown
  BY <1>1, <1>8 DEF LoopStep, LoopFault, Shutdown, topicVars
<1>9. CASE Handle
  BY <1>1, <1>3, <1>4, <1>9 DEF Handle, HandleUnparsable, HandleRejected,
     HandleDone, topicVars
<1>10. CASE UNCHANGED vars
  BY <1>1, <1>10 DEF vars, topicVars
<1> QED
  BY <1>1, <1>2, <1>5, <1>6, <1>7, <1>8, <1>9, <1>10 DEF Next, SequencerStep

(* A number that was given is not forgotten on the way to the topic.       *)
LEMMA WrittenStep ==
    ASSUME TypeOK, WrittenInv, [Next]_vars
    PROVE  WrittenInv'
<1>0. \A m : InFormal(m) => InFormal(m)'
  BY Monotone DEF InFormal
<1>1. ASSUME UNCHANGED <<requests, outputs>>,
             pc \in {"handle", "write", "stopped"}
                 => pc' \in {"handle", "write", "stopped"}
      PROVE  WrittenInv'
  BY <1>0, <1>1 DEF WrittenInv, InOutputs
<1>2. CASE NextBatch
  BY <1>0, <1>2 DEF NextBatch, FetchFirst, TakePending, WrittenInv, numberVars
<1>3. CASE LoopStep
  BY <1>1, <1>3 DEF LoopStep, CollectNext, Collecting, EndCollect, Commit,
     ReturnOnCancel, numberVars
<1>4. CASE LoopFault \/ Shutdown
  BY <1>1, <1>4 DEF LoopFault, Shutdown, FetchFails, CollectFails, Collecting,
     CommitFails, Rebalance, Cancel, numberVars
<1>5. CASE HandleUnparsable \/ HandleRejected
  BY <1>1, <1>5 DEF HandleUnparsable, HandleRejected, Handling, numberVars,
     loopVars
<1>6. CASE HandleDuplicate
  <2>0. \A i \in DOMAIN outputs :
            i \in DOMAIN outputs' /\ outputs'[i] = outputs[i]
    <3>1. outputs \in Seq(Message) /\ requests[KeyOf(Current)] \in Message
      BY <1>6 DEF HandleDuplicate, TypeOK
    <3>2. outputs' = Append(outputs, requests[KeyOf(Current)])
      BY <1>6 DEF HandleDuplicate
    <3> QED
      BY <3>1, <3>2
  <2>1. \A m : InOutputs(m) => InOutputs(m)'
    BY <2>0 DEF InOutputs
  <2> QED
    BY <1>0, <1>6, <2>1 DEF WrittenInv, HandleDuplicate, numberVars, loopVars
<1>7. ASSUME NEW now \in ClockValues, HandleNew(now)
      PROVE  WrittenInv'
  <2>1. PICK m \in Message :
          /\ requests' = [k \in DOMAIN requests \cup {KeyOf(m)} |->
                              IF k = KeyOf(m) THEN m ELSE requests[k]]
          /\ KeyOf(m) \notin DOMAIN requests
          /\ outputs' = Append(outputs, m)
    BY <1>7, HandleNewFacts
  <2>1a. \A i \in DOMAIN outputs :
            i \in DOMAIN outputs' /\ outputs'[i] = outputs[i]
    BY <2>1 DEF TypeOK
  <2>2. \A x : InOutputs(x) => InOutputs(x)'
    BY <2>1a DEF InOutputs
  <2>3. InOutputs(m)'
    BY <2>1 DEF InOutputs, TypeOK
  <2>4. pc' = "handle"
    BY <1>7 DEF HandleNew, Handling, loopVars
  <2> QED
    BY <1>0, <2>1, <2>2, <2>3, <2>4 DEF WrittenInv
<1>8. CASE HandleDone
  <2>1. outputs = << >> => \A m : ~InOutputs(m)
    BY DEF InOutputs
  <2> QED
    BY <1>0, <1>8, <2>1 DEF HandleDone, WrittenInv, numberVars, InOutputs
<1>9. CASE Write
  <2>0. \A i \in DOMAIN outputs :
           Len(formal) + i \in DOMAIN formal' /\ formal'[Len(formal) + i] = outputs[i]
    <3>1. formal \in Seq(Message) /\ outputs \in Seq(Message)
      BY DEF TypeOK
    <3>2. formal' = formal \o outputs
      BY <1>9 DEF Write
    <3> QED
      BY <3>1, <3>2, ConcatElements
  <2>1. \A m : InOutputs(m) => InFormal(m)'
    BY <2>0 DEF InOutputs, InFormal
  <2> QED
    BY <1>0, <1>9, <2>1 DEF Write, WrittenInv, numberVars
<1>10. CASE WriteFails
  BY <1>1, <1>10 DEF WriteFails, numberVars
<1>11. ASSUME NEW q \in Requests, Produce(q)
       PROVE  WrittenInv'
  BY <1>1, <1>11 DEF Produce, loopVars, numberVars
<1>12. CASE UNCHANGED vars
  BY <1>1, <1>12 DEF vars, loopVars, numberVars
<1> QED
  BY <1>2, <1>3, <1>4, <1>5, <1>6, <1>7, <1>8, <1>9, <1>10, <1>11, <1>12
     DEF Next, SequencerStep, Handle

-----------------------------------------------------------------------------
(***************************************************************************)
(* The loop's bookkeeping.  Every record at or below a position the loop   *)
(* knows of is done (rejected, or its key is known), or waits in the batch,*)
(* or is the one put aside.  This is what makes committing the largest     *)
(* offset of a batch safe, also when a rebalance has moved the reader back *)
(* in the middle of it.                                                    *)
(***************************************************************************)
Done(o) == /\ ingress[o].parses
           /\ HasIdentity(ingress[o]) => KeyOf(ingress[o]) \in DOMAIN requests

Waiting(o) == \E j \in (idx + 1)..Len(records) : records[j] = o

Settled(n) == \A o \in 1..n : Done(o) \/ Waiting(o) \/ o = pending

BatchInv ==
    /\ idx <= Len(records)
    /\ pc \in {"fetch", "write", "commit"} => idx = Len(records)
    /\ pc = "collect" => idx = 0 /\ pending = 0
    /\ pc # "stopped" =>
          /\ Settled(fetched)
          /\ Settled(pending)
          /\ \A i \in DOMAIN records : \A o \in 1..records[i] : Done(o) \/ Waiting(o)

(* The ingress topic only grows.                                           *)
LEMMA IngressStep ==
    ASSUME TypeOK, [Next]_vars, NEW o \in 1..Len(ingress)
    PROVE  ingress'[o] = ingress[o]
<1>1. ASSUME NEW q \in Requests, Produce(q) PROVE ingress'[o] = ingress[o]
  BY <1>1 DEF Produce, TypeOK
<1>2. CASE NextBatch \/ LoopStep \/ LoopFault \/ Shutdown \/ Write \/ WriteFails
  BY <1>2 DEF NextBatch, LoopStep, LoopFault, Shutdown, Write, WriteFails, topicVars
<1>3. CASE Handle
  BY <1>3 DEF Handle, HandleUnparsable, HandleRejected, HandleDuplicate,
     HandleNew, HandleDone, topicVars
<1>4. CASE UNCHANGED vars
  BY <1>4 DEF vars, topicVars
<1> QED
  BY <1>1, <1>2, <1>3, <1>4 DEF Next, SequencerStep

(* A record that is done stays done.                                       *)
LEMMA DoneStep ==
    ASSUME TypeOK, [Next]_vars, NEW o \in 1..Len(ingress), Done(o)
    PROVE  Done(o)'
<1>1. ingress'[o] = ingress[o]
  BY IngressStep
<1>2. \A k \in DOMAIN requests : k \in DOMAIN requests'
  BY Monotone
<1> QED
  BY <1>1, <1>2 DEF Done, HasIdentity, KeyOf

(* Handling a record makes it done.                                        *)
LEMMA HandleDoes ==
    ASSUME TypeOK, [Next]_vars,
           \/ HandleRejected \/ HandleDuplicate
           \/ \E now \in ClockValues : HandleNew(now)
    PROVE  /\ \A o : o = records[idx + 1] => Done(o)'
           /\ idx' = idx + 1 /\ idx < Len(records)
           /\ pc = "handle"
           /\ UNCHANGED <<pc, records, pending, fetched, committed, ingress>>
<1>1. /\ idx' = idx + 1 /\ idx < Len(records) /\ pc = "handle"
      /\ UNCHANGED <<pc, records, pending, fetched, committed, ingress>>
  BY DEF HandleRejected, HandleDuplicate, HandleNew, Handling, loopVars, topicVars
<1>2. Current.parses
  BY DEF HandleRejected, HandleDuplicate, HandleNew
<1>3. HasIdentity(Current) => KeyOf(Current) \in DOMAIN requests'
  <2>1. CASE HandleRejected
    BY <2>1 DEF HandleRejected, Rejected, Conflicts, numberVars
  <2>2. CASE HandleDuplicate
    BY <2>2 DEF HandleDuplicate, numberVars
  <2>3. ASSUME NEW now \in ClockValues, HandleNew(now)
        PROVE  KeyOf(Current) \in DOMAIN requests'
    BY <2>3, HandleNewFacts
  <2> QED
    BY <2>1, <2>2, <2>3
<1>4. \A o : o = records[idx + 1] => ingress'[o] = Current
  BY <1>1 DEF Current
<1> QED
  BY <1>1, <1>2, <1>3, <1>4 DEF Done, HasIdentity, KeyOf

(* Every record the reader has passed is done or still waits in the batch, *)
(* while the batch is collected, handled, written and retried.             *)
LEMMA BatchStep ==
    ASSUME TypeOK, BatchInv, CommittedIsOut, [Next]_vars
    PROVE  BatchInv'
<1>0. /\ LoopTypeOK /\ OffsetsExist /\ idx \in Nat
      /\ ingress \in Seq(Requests) /\ Len(ingress) \in Nat
  BY DEF TypeOK
<1>1. \A o \in 1..Len(ingress) : Done(o) => Done(o)'
  BY DoneStep
<1>2. ASSUME UNCHANGED <<idx, records, pending, fetched>>,
             \/ UNCHANGED pc
             \/ pc' = "stopped"
             \/ pc = "collect" /\ pc' = "handle"
             \/ pc = "handle" /\ pc' \in {"write", "commit"} /\ idx = Len(records)
             \/ pc = "write" /\ pc' = "commit"
             \/ pc = "commit" /\ pc' = "fetch"
      PROVE  BatchInv'
  <2>1. \A o : Waiting(o) => Waiting(o)'
    BY <1>2 DEF Waiting
  <2>2. ASSUME pc # "stopped"
        PROVE  /\ Settled(fetched)'
               /\ Settled(pending)'
               /\ \A i \in DOMAIN records' : \A o \in 1..records'[i] :
                     Done(o)' \/ Waiting(o)'
    BY <1>0, <1>1, <1>2, <2>1, <2>2
       DEF BatchInv, Settled, LoopTypeOK, OffsetsExist
  <2>3. pc' # "stopped" => pc # "stopped"
    BY <1>2
  <2>4. /\ idx' <= Len(records')
        /\ pc' \in {"fetch", "write", "commit"} => idx' = Len(records')
        /\ pc' = "collect" => idx' = 0 /\ pending' = 0
    BY <1>2 DEF BatchInv
  <2> QED
    BY <2>2, <2>3, <2>4 DEF BatchInv
<1>3. CASE NextBatch
  <2>1. /\ pc = "fetch" /\ idx = Len(records) /\ idx' = 0 /\ ingress' = ingress
        /\ Settled(fetched) /\ Settled(pending)
        /\ \A o : ~Waiting(o)
    BY <1>0, <1>3 DEF NextBatch, FetchFirst, TakePending, BatchInv, Waiting,
       topicVars, LoopTypeOK
  <2>2. PICK first \in 1..Len(ingress) :
          /\ StartBatch(ingress, first)
          /\ pending' = 0
          /\ \A o \in 1..first : Done(o) \/ o = first
          /\ \A o \in 1..fetched' : Done(o) \/ o = first
          /\ fetched' <= Len(ingress) /\ fetched' \in Nat
    <3>1. CASE FetchFirst(ingress)
      <4>1. /\ StartBatch(ingress, fetched + 1) /\ pending' = 0 /\ pending = 0
            /\ fetched' = fetched + 1 /\ fetched + 1 \in 1..Len(ingress)
        BY <1>0, <3>1 DEF FetchFirst, LoopTypeOK
      <4>2. \A o \in 1..(fetched + 1) : Done(o) \/ o = fetched + 1
        BY <1>0, <2>1, <4>1 DEF Settled, LoopTypeOK
      <4> QED
        BY <1>0, <4>1, <4>2 DEF LoopTypeOK
    <3>2. CASE TakePending(ingress)
      <4>1. /\ StartBatch(ingress, pending) /\ pending' = 0
            /\ fetched' = fetched /\ pending \in 1..Len(ingress)
        BY <1>0, <3>2 DEF TakePending, LoopTypeOK, OffsetsExist
      <4>2. /\ \A o \in 1..pending : Done(o) \/ o = pending
            /\ \A o \in 1..fetched : Done(o) \/ o = pending
        BY <2>1 DEF Settled
      <4> QED
        BY <1>0, <4>1, <4>2 DEF LoopTypeOK, OffsetsExist
    <3> QED
      BY <1>3, <3>1, <3>2 DEF NextBatch
  <2>3. CASE pc' = "stopped"
    <3>1. records' = << >>
      BY <2>2, <2>3 DEF StartBatch
    <3> QED
      BY <2>1, <2>2, <2>3, <3>1 DEF BatchInv
  <2>4. CASE pc' = "collect" /\ records' = <<first>>
    <3>1. /\ Len(records') = 1 /\ DOMAIN records' = {1} /\ records'[1] = first
      BY <2>4
    <3>2. Waiting(first)'
      BY <2>1, <3>1 DEF Waiting
    <3>3. \A o \in 1..first : Done(o)' \/ Waiting(o)'
      BY <1>1, <2>2, <3>2
    <3>4. \A o \in 1..fetched' : Done(o)' \/ Waiting(o)'
      BY <1>0, <1>1, <2>2, <3>2
    <3>5. Settled(fetched)' /\ Settled(pending)'
      BY <2>2, <3>4 DEF Settled
    <3> QED
      BY <2>1, <2>2, <2>4, <3>1, <3>3, <3>5 DEF BatchInv
  <2> QED
    BY <2>2, <2>3, <2>4 DEF StartBatch
<1>4. CASE CollectNext(ingress) /\ UNCHANGED <<topicVars, numberVars, outputs, idx>>
  <2>1. /\ pc = "collect" /\ idx = 0 /\ idx' = 0 /\ pending = 0
        /\ fetched' = fetched + 1 /\ fetched + 1 \in 1..Len(ingress)
        /\ Settled(fetched)
        /\ \A i \in DOMAIN records : \A o \in 1..records[i] : Done(o) \/ Waiting(o)
    BY <1>0, <1>4 DEF CollectNext, Collecting, BatchInv, LoopTypeOK
  <2>2. CASE pending' = fetched + 1 /\ pc' = "handle" /\ UNCHANGED records
    <3>1. \A o : Waiting(o) => Waiting(o)'
      BY <2>1, <2>2 DEF Waiting
    <3>2. \A o \in 1..(fetched + 1) : Done(o)' \/ Waiting(o)' \/ o = fetched + 1
      BY <1>0, <1>1, <2>1, <3>1 DEF Settled, LoopTypeOK
    <3>3. \A i \in DOMAIN records : \A o \in 1..records[i] : Done(o)' \/ Waiting(o)'
      BY <1>0, <1>1, <2>1, <3>1 DEF LoopTypeOK, OffsetsExist
    <3> QED
      BY <1>0, <2>1, <2>2, <3>2, <3>3 DEF BatchInv, Settled, LoopTypeOK
  <2>3. CASE records' = Append(records, fetched + 1) /\ UNCHANGED <<pc, pending>>
    <3>1. /\ Len(records') = Len(records) + 1 /\ Len(records) \in Nat
          /\ \A j \in 1..Len(records) : records'[j] = records[j]
          /\ records'[Len(records) + 1] = fetched + 1
          /\ DOMAIN records = 1..Len(records)
          /\ DOMAIN records' = 1..(Len(records) + 1)
      BY <1>0, <2>1, <2>3 DEF LoopTypeOK
    <3>2. \A o : Waiting(o) => Waiting(o)'
      BY <2>1, <3>1 DEF Waiting
    <3>3. \A o : o = fetched + 1 => Waiting(o)'
      BY <2>1, <3>1 DEF Waiting
    <3>4. \A o \in 1..(fetched + 1) : Done(o)' \/ Waiting(o)'
      BY <1>0, <1>1, <2>1, <3>2, <3>3 DEF Settled, LoopTypeOK
    <3>5. \A i \in DOMAIN records : \A o \in 1..records[i] : Done(o)' \/ Waiting(o)'
      BY <1>0, <1>1, <2>1, <3>2 DEF LoopTypeOK, OffsetsExist
    <3>6. \A i \in DOMAIN records' : \A o \in 1..records'[i] : Done(o)' \/ Waiting(o)'
      BY <3>1, <3>4, <3>5
    <3>7. Settled(fetched)' /\ Settled(pending)'
      BY <2>1, <2>3, <3>4 DEF Settled
    <3> QED
      BY <2>1, <2>3, <3>1, <3>6, <3>7 DEF BatchInv
  <2> QED
    BY <1>4, <2>2, <2>3 DEF CollectNext
<1>5. CASE LoopStep
  <2>1. CASE EndCollect
    BY <1>2, <1>5, <2>1 DEF LoopStep, EndCollect
  <2>2. CASE Commit
    BY <1>2, <1>5, <2>2 DEF LoopStep, Commit
  <2>3. CASE ReturnOnCancel
    BY <1>2, <1>5, <2>3 DEF LoopStep, ReturnOnCancel
  <2> QED
    BY <1>4, <1>5, <2>1, <2>2, <2>3 DEF LoopStep
<1>6. CASE LoopFault \/ Shutdown
  <2>1. CASE FetchFails \/ CollectFails \/ CommitFails \/ Cancel
    BY <1>2, <1>6, <2>1 DEF LoopFault, Shutdown, FetchFails, CollectFails, Collecting,
       CommitFails, Cancel
  <2>2. CASE Rebalance
    <3>1. UNCHANGED <<pc, pending, records, idx>> /\ fetched' = committed
      BY <1>6, <2>2 DEF LoopFault, Shutdown, Rebalance
    <3>2. \A o : Waiting(o) => Waiting(o)'
      BY <3>1 DEF Waiting
    <3>2a. \A o \in 1..committed : Done(o) /\ o \in 1..Len(ingress)
      BY <1>0 DEF CommittedIsOut, Answered, Done, LoopTypeOK, OffsetsExist
    <3>3. \A o \in 1..committed : Done(o)'
      BY <1>1, <3>2a
    <3>4. pc # "stopped" => /\ Settled(pending)'
                            /\ \A i \in DOMAIN records : \A o \in 1..records[i] :
                                  Done(o)' \/ Waiting(o)'
      BY <1>0, <1>1, <3>1, <3>2 DEF BatchInv, Settled, LoopTypeOK, OffsetsExist
    <3> QED
      BY <3>1, <3>3, <3>4 DEF BatchInv, Settled
  <2> QED
    BY <1>6, <2>1, <2>2 DEF LoopFault, Shutdown
<1>7. CASE \/ HandleRejected \/ HandleDuplicate
           \/ \E now \in ClockValues : HandleNew(now)
  <2>1. /\ \A o : o = records[idx + 1] => Done(o)'
        /\ idx' = idx + 1 /\ idx < Len(records) /\ pc = "handle"
        /\ UNCHANGED <<pc, records, pending, fetched, committed, ingress>>
    BY <1>7, HandleDoes
  <2>2. \A o \in 1..Len(ingress) : Waiting(o) => Done(o)' \/ Waiting(o)'
    <3> SUFFICES ASSUME NEW o \in 1..Len(ingress), Waiting(o)
                 PROVE  Done(o)' \/ Waiting(o)'
      OBVIOUS
    <3>1. PICK j \in (idx + 1)..Len(records) : records[j] = o
      BY DEF Waiting
    <3>2. CASE j = idx + 1
      BY <2>1, <3>1, <3>2
    <3>3. CASE j # idx + 1
      BY <1>0, <2>1, <3>1, <3>3 DEF Waiting, LoopTypeOK
    <3> QED
      BY <3>2, <3>3
  <2>3. \A o \in 1..Len(ingress) : Done(o) \/ Waiting(o) => Done(o)' \/ Waiting(o)'
    BY <1>1, <2>2
  <2>3a. /\ Settled(fetched) /\ Settled(pending)
         /\ \A i \in DOMAIN records : \A o \in 1..records[i] : Done(o) \/ Waiting(o)
    BY <2>1 DEF BatchInv
  <2>4. /\ Settled(fetched)' /\ Settled(pending)'
        /\ \A i \in DOMAIN records : \A o \in 1..records[i] : Done(o)' \/ Waiting(o)'
    <3>1. \A o \in 1..fetched : Done(o)' \/ Waiting(o)' \/ o = pending
      BY <1>0, <2>3, <2>3a DEF Settled, LoopTypeOK, OffsetsExist
    <3>2. \A o \in 1..pending : Done(o)' \/ Waiting(o)' \/ o = pending
      BY <1>0, <2>3, <2>3a DEF Settled, LoopTypeOK, OffsetsExist
    <3>3. \A i \in DOMAIN records : \A o \in 1..records[i] : Done(o)' \/ Waiting(o)'
      BY <1>0, <2>3, <2>3a DEF LoopTypeOK, OffsetsExist
    <3> QED
      BY <2>1, <3>1, <3>2, <3>3 DEF Settled
  <2>5. idx' <= Len(records)
    BY <1>0, <2>1 DEF LoopTypeOK
  <2> QED
    BY <2>1, <2>4, <2>5 DEF BatchInv
<1>8. CASE Handle
  <2>1. CASE HandleUnparsable
    BY <1>2, <2>1 DEF HandleUnparsable
  <2>2. CASE HandleDone
    BY <1>2, <2>2 DEF HandleDone
  <2> QED
    BY <1>7, <1>8, <2>1, <2>2 DEF Handle
<1>9. CASE Write \/ WriteFails
  BY <1>2, <1>9 DEF Write, WriteFails
<1>10. ASSUME NEW q \in Requests, Produce(q) PROVE BatchInv'
  BY <1>2, <1>10 DEF Produce, loopVars
<1>11. CASE UNCHANGED vars
  BY <1>2, <1>11 DEF vars, loopVars
<1> QED
  BY <1>3, <1>5, <1>6, <1>8, <1>9, <1>10, <1>11 DEF Next, SequencerStep

(* A committed record was done before its offset was stored, and stays so. *)
LEMMA CommittedStep ==
    ASSUME TypeOK, WrittenInv, BatchInv, CommittedIsOut, [Next]_vars
    PROVE  CommittedIsOut'
<1>0. /\ LoopTypeOK /\ OffsetsExist /\ Len(ingress) \in Nat
  BY DEF TypeOK
<1>1. \A o \in 1..Len(ingress) : Done(o) => Done(o)' /\ ingress'[o] = ingress[o]
  BY DoneStep, IngressStep
<1>2. \A m : InFormal(m) => InFormal(m)'
  BY Monotone DEF InFormal
<1> DEFINE Out(o) == HasIdentity(ingress[o]) => InFormal(requests[KeyOf(ingress[o])])
<1>3. ASSUME NEW o \in 1..Len(ingress), Done(o), Out(o)
      PROVE  /\ ingress'[o].parses
             /\ HasIdentity(ingress'[o]) =>
                   /\ KeyOf(ingress'[o]) \in DOMAIN requests'
                   /\ \E i \in DOMAIN formal' :
                         formal'[i] = requests'[KeyOf(ingress'[o])]
  <2>1. Done(o)' /\ ingress'[o] = ingress[o]
    BY <1>1, <1>3
  <2>2. ASSUME HasIdentity(ingress[o])
        PROVE  /\ KeyOf(ingress[o]) \in DOMAIN requests
               /\ requests'[KeyOf(ingress[o])] = requests[KeyOf(ingress[o])]
    BY <1>3, <2>2, Monotone DEF Done
  <2>3. ASSUME HasIdentity(ingress[o])
        PROVE  \E i \in DOMAIN formal' : formal'[i] = requests[KeyOf(ingress[o])]
    BY <1>2, <1>3, <2>3 DEF InFormal
  <2> QED
    BY <2>1, <2>2, <2>3 DEF Done
<1>4. \A o \in 1..committed : o \in 1..Len(ingress) /\ Done(o) /\ Out(o)
  BY <1>0 DEF CommittedIsOut, Answered, Done, LoopTypeOK, OffsetsExist
<1>5. \A o \in 1..committed' : o \in 1..Len(ingress) /\ Done(o) /\ Out(o)
  <2>1. CASE UNCHANGED committed
    BY <1>4, <2>1
  <2>2. ASSUME pc = "commit", NEW k \in DOMAIN records, committed' = records[k]
        PROVE  \A o \in 1..committed' : o \in 1..Len(ingress) /\ Done(o) /\ Out(o)
    <3>1. idx = Len(records) /\ Len(records) \in Nat
      BY <1>0, <2>2 DEF BatchInv, LoopTypeOK
    <3>2. \A o \in 1..records[k] : Done(o) \/ Waiting(o)
      BY <2>2 DEF BatchInv
    <3>3. \A o : ~Waiting(o)
      BY <3>1 DEF Waiting
    <3>4. \A l \in DOMAIN requests : InFormal(requests[l])
      BY <2>2 DEF WrittenInv
    <3>5. records[k] \in 1..Len(ingress)
      BY <1>0 DEF OffsetsExist
    <3> QED
      BY <1>0, <2>2, <3>2, <3>3, <3>4, <3>5 DEF Done
  <2>3. CASE Commit
    BY <2>2, <2>3 DEF Commit
  <2>4. CASE CommitFails
    BY <2>1, <2>2, <2>4 DEF CommitFails
  <2>5. CASE NextBatch \/ Handle \/ Write \/ WriteFails
    BY <2>1, <2>5 DEF NextBatch, FetchFirst, TakePending, Handle,
       HandleUnparsable, HandleRejected, HandleDuplicate, HandleNew,
       HandleDone, Write, WriteFails, loopVars
  <2>6. CASE LoopStep
    BY <2>1, <2>3, <2>6 DEF LoopStep, CollectNext, EndCollect, ReturnOnCancel
  <2>7. CASE LoopFault \/ Shutdown
    BY <2>1, <2>4, <2>7 DEF LoopFault, Shutdown, FetchFails, CollectFails, Rebalance, Cancel
  <2>8. ASSUME NEW q \in Requests, Produce(q) PROVE UNCHANGED committed
    BY <2>8 DEF Produce, loopVars
  <2>9. CASE UNCHANGED vars
    BY <2>1, <2>9 DEF vars, loopVars
  <2> QED
    BY <2>1, <2>5, <2>6, <2>7, <2>8, <2>9 DEF Next, SequencerStep
<1> QED
  BY <1>3, <1>5 DEF CommittedIsOut, Answered, InFormal

-----------------------------------------------------------------------------
IInv == /\ TypeOK
        /\ NumberInv
        /\ TopicInv
        /\ WrittenInv
        /\ BatchInv
        /\ CommittedIsOut

(* IInv holds in every state of every behaviour.                           *)
THEOREM Inductive == Spec => []IInv
<1>1. Init => IInv
  <2> SUFFICES ASSUME Init PROVE IInv
    OBVIOUS
  <2>0. /\ DOMAIN requests = {} /\ DOMAIN formal = {} /\ DOMAIN outputs = {}
        /\ DOMAIN records = {} /\ Len(records) = 0
    BY DEF Init, LoopInit
  <2>1. NumberInv
    BY <2>0 DEF Init, NumberInv
  <2>2. TopicInv /\ WrittenInv
    BY <2>0 DEF TopicInv, WrittenInv
  <2>3. BatchInv
    BY <2>0 DEF Init, LoopInit, BatchInv, Settled
  <2>4. CommittedIsOut
    BY DEF Init, LoopInit, CommittedIsOut
  <2>5. TypeOK
    BY InitType
  <2> QED
    BY <2>1, <2>2, <2>3, <2>4, <2>5 DEF IInv
<1>2. IInv /\ TypeOK' /\ [Next]_vars => IInv'
  BY NumberStep, TopicStep, WrittenStep, BatchStep, CommittedStep DEF IInv
<1> QED
  BY <1>1, <1>2, TypeCorrect, PTL DEF Spec

(* The formal topic never shows two messages under one request key, id or  *)
(* room number: Assign's numbers are given once, and every retry, rebalance*)
(* and partial write repeats them unchanged.                               *)
THEOREM FormalIdentityHolds == Spec => []FormalIdentity
<1>1. IInv => FormalIdentity
  <2> SUFFICES ASSUME IInv, NEW i \in DOMAIN formal, NEW j \in DOMAIN formal,
                      \/ KeyOf(formal[i]) = KeyOf(formal[j])
                      \/ formal[i].id = formal[j].id
                      \/ formal[i].room = formal[j].room /\ formal[i].seq = formal[j].seq
               PROVE  formal[i] = formal[j]
    BY DEF FormalIdentity
  <2>1. PICK k \in DOMAIN requests : requests[k] = formal[i]
    BY DEF IInv, TopicInv, Known
  <2>2. PICK l \in DOMAIN requests : requests[l] = formal[j]
    BY DEF IInv, TopicInv, Known
  <2>3. k = l
    BY <2>1, <2>2 DEF IInv, NumberInv
  <2> QED
    BY <2>1, <2>2, <2>3
<1> QED
  BY <1>1, Inductive, PTL

(* Ids and room numbers are positive and order a room the same way,        *)
(* whatever the clock returns.                                             *)
THEOREM IdsFollowSeqHolds == Spec => []IdsFollowSeq
<1>1. IInv => IdsFollowSeq
  <2> SUFFICES ASSUME IInv, NEW i \in DOMAIN formal, NEW j \in DOMAIN formal
               PROVE  /\ formal[i].id > 0
                      /\ formal[i].seq > 0
                      /\ formal[i].room = formal[j].room
                            /\ formal[i].seq < formal[j].seq
                         => formal[i].id < formal[j].id
    BY DEF IdsFollowSeq
  <2>1. PICK k \in DOMAIN requests : requests[k] = formal[i]
    BY DEF IInv, TopicInv, Known
  <2>2. PICK l \in DOMAIN requests : requests[l] = formal[j]
    BY DEF IInv, TopicInv, Known
  <2>3. requests[k].id \in 1..lastID /\ requests[k].seq \in 1..rooms[requests[k].room]
    BY DEF IInv, NumberInv
  <2>4. requests[k] \in Message
    BY DEF IInv, TypeOK
  <2> QED
    BY <2>1, <2>2, <2>3, <2>4 DEF IInv, NumberInv, Message
<1> QED
  BY <1>1, Inductive, PTL

(* Between batches no number of a room is missing from the formal topic.   *)
THEOREM NoGapHolds == Spec => []NoGap
<1>1. IInv => NoGap
  <2> SUFFICES ASSUME IInv, pc \in {"fetch", "collect", "commit"},
                      NEW r \in Rooms, NEW n \in 1..rooms[r]
               PROVE  \E k \in DOMAIN formal : formal[k].room = r /\ formal[k].seq = n
    BY DEF NoGap
  <2>1. PICK k \in DOMAIN requests : requests[k].room = r /\ requests[k].seq = n
    BY DEF IInv, NumberInv
  <2>2. InFormal(requests[k])
    BY DEF IInv, WrittenInv
  <2> QED
    BY <2>1, <2>2 DEF InFormal
<1> QED
  BY <1>1, Inductive, PTL

(* Whatever is committed has been answered in the formal topic.            *)
THEOREM CommittedIsOutHolds == Spec => []CommittedIsOut
BY Inductive, PTL DEF IInv

-----------------------------------------------------------------------------
numberedBar == {requests[k] : k \in DOMAIN requests}

(* Giving a number is a Number step of the promise.                        *)
LEMMA NewIsNumber ==
    ASSUME IInv, NEW now \in ClockValues, HandleNew(now)
    PROVE  Promise!Number
<1>1. PICK m \in Message :
        /\ m.id > lastID /\ m.id \in Nat
        /\ m.seq = rooms[m.room] + 1
        /\ KeyOf(m) \in Keys \ DOMAIN requests
        /\ requests' = [k \in DOMAIN requests \cup {KeyOf(m)} |->
                            IF k = KeyOf(m) THEN m ELSE requests[k]]
  BY HandleNewFacts DEF IInv
<1>2. /\ m.room \in Rooms /\ rooms \in [Rooms -> Nat] /\ lastID \in Nat
      /\ \A k \in DOMAIN requests : requests[k] \in Message
  BY <1>1 DEF IInv, TypeOK, Message
<1>3. numberedBar' = numberedBar \cup {m}
  BY <1>1 DEF numberedBar
<1>4. m.seq > 0 /\ m.id > 0
  BY <1>1, <1>2
<1>5. ASSUME NEW x \in numberedBar
      PROVE  /\ <<x.sender, x.client>> # <<m.sender, m.client>>
             /\ x.id < m.id
             /\ x.room = m.room => x.seq < m.seq
  <2>1. PICK k \in DOMAIN requests : x = requests[k]
    BY DEF numberedBar
  <2>2. /\ KeyOf(x) = k /\ x.id \in 1..lastID /\ x.seq \in 1..rooms[x.room]
        /\ x \in Message
    BY <1>2, <2>1 DEF IInv, NumberInv
  <2>3. <<x.sender, x.client>> # <<m.sender, m.client>>
    BY <1>1, <2>1, <2>2 DEF KeyOf
  <2>4. x.id < m.id
    BY <1>1, <1>2, <2>2
  <2>5. x.room = m.room => x.seq < m.seq
    BY <1>1, <1>2, <2>2
  <2> QED
    BY <2>3, <2>4, <2>5
<1>6. ASSUME NEW n \in 1..(m.seq - 1)
      PROVE  \E x \in numberedBar : x.room = m.room /\ x.seq = n
  <2>1. n \in 1..rooms[m.room]
    BY <1>1, <1>2
  <2> QED
    BY <1>2, <2>1 DEF IInv, NumberInv, numberedBar
<1>7. UNCHANGED formal
  BY DEF HandleNew, topicVars
<1>8. Message = Promise!Message
  BY DEF Message, Promise!Message
<1>9. m \in numberedBar'
  BY <1>3
<1> QED
  BY <1>3, <1>4, <1>5, <1>6, <1>7, <1>8, <1>9 DEF Promise!Number, numberedBar

(* A write, whole or in part, is a Publish step of the promise.            *)
LEMMA WriteIsPublish ==
    ASSUME IInv, NEW s \in Seq(Message), formal' = formal \o s,
           UNCHANGED requests, \A i \in DOMAIN s : Known(s[i])
    PROVE  Promise!Publish
<1>1. formal \in Seq(Message) /\ Len(formal) \in Nat /\ Len(s) \in Nat
  BY DEF IInv, TypeOK
<1>2. /\ Len(formal') = Len(formal) + Len(s)
      /\ \A k \in 1..(Len(formal) + Len(s)) :
            formal'[k] = IF k <= Len(formal) THEN formal[k] ELSE s[k - Len(formal)]
  BY <1>1, ConcatProperties
<1>3. ASSUME NEW k \in (Len(formal) + 1)..Len(formal')
      PROVE  formal'[k] \in numberedBar
  <2>1. k - Len(formal) \in DOMAIN s /\ formal'[k] = s[k - Len(formal)]
    BY <1>1, <1>2
  <2> QED
    BY <2>1 DEF Known, numberedBar
<1>4. UNCHANGED numberedBar
  BY DEF numberedBar
<1> QED
  BY <1>1, <1>2, <1>3, <1>4 DEF Promise!Publish, numberedBar

(* The numbering loop, with all its retries and redeliveries, implements   *)
(* the abstract numbering service of module Numbering.                     *)
THEOREM SequencerImplementsNumbering == Spec => ImplementsNumbering
<1>1. Init => Promise!Init
  BY DEF Init, Promise!Init
<1>2. IInv /\ [Next]_vars => [Promise!Next]_<<numberedBar, formal>>
  <2> SUFFICES ASSUME IInv, [Next]_vars
               PROVE  Promise!Next \/ UNCHANGED <<numberedBar, formal>>
    OBVIOUS
  <2>0. UNCHANGED requests => UNCHANGED numberedBar
    BY DEF numberedBar
  <2>1. ASSUME NEW q \in Requests, Produce(q) PROVE UNCHANGED <<requests, formal>>
    BY <2>1 DEF Produce, numberVars
  <2>2. CASE NextBatch \/ LoopStep \/ LoopFault \/ Shutdown
    BY <2>0, <2>2 DEF NextBatch, LoopStep, LoopFault, Shutdown, topicVars, numberVars
  <2>3. CASE Handle
    <3>1. ASSUME NEW now \in ClockValues, HandleNew(now) PROVE Promise!Next
      BY <3>1, NewIsNumber DEF Promise!Next
    <3> QED
      BY <2>0, <2>3, <3>1 DEF Handle, HandleUnparsable, HandleRejected,
         HandleDuplicate, HandleDone, topicVars, numberVars
  <2>4. CASE Write
    BY <2>4, WriteIsPublish DEF Write, IInv, TypeOK, TopicInv, numberVars,
       Promise!Next
  <2>5. CASE WriteFails
    <3>0. PICK n \in 0..Len(outputs) :
              \E part \in [1..n -> 1..Len(outputs)] :
                  formal' = formal \o [k \in 1..n |-> outputs[part[k]]]
      BY <2>5 DEF WriteFails
    <3>1. PICK part \in [1..n -> 1..Len(outputs)] :
              formal' = formal \o [k \in 1..n |-> outputs[part[k]]]
      BY <3>0
    <3> DEFINE s == [k \in 1..n |-> outputs[part[k]]]
    <3>2. s \in [1..n -> Message]
      BY DEF IInv, TypeOK
    <3>3. s \in Seq(Message)
      BY <3>2, SeqDef
    <3>4. \A i \in DOMAIN s : Known(s[i])
      BY DEF IInv, TypeOK, TopicInv
    <3>5. UNCHANGED requests
      BY <2>5 DEF WriteFails, numberVars
    <3> HIDE DEF s
    <3>6. formal' = formal \o s
      BY <3>1 DEF s
    <3> QED
      BY <3>3, <3>4, <3>5, <3>6, WriteIsPublish DEF Promise!Next
  <2>6. CASE UNCHANGED vars
    BY <2>0, <2>6 DEF vars, topicVars, numberVars
  <2> QED
    BY <2>0, <2>1, <2>2, <2>3, <2>4, <2>5, <2>6 DEF Next, SequencerStep
<1> QED
  BY <1>1, <1>2, Inductive, PTL DEF Spec, ImplementsNumbering, Promise!Spec,
     numberedBar

-----------------------------------------------------------------------------
(***************************************************************************)
(* Order.  A record is handled only after every record before it: BatchInv *)
(* with the positions of the batch told apart.  So the key of a record is  *)
(* new to Assign only at the key's first record, and by then every earlier *)
(* key has its number.                                                     *)
(***************************************************************************)
Before(i, o) == Done(o) \/ \E j \in (idx + 1)..(i - 1) : records[j] = o

BatchOrder ==
    pc # "stopped" =>
        \A i \in DOMAIN records : i > idx => \A o \in 1..(records[i] - 1) : Before(i, o)

FirstIs(k, o) ==
    /\ IsFirst(k, o)
    /\ requests[k].room = ingress[o].room
    /\ requests[k].body = ingress[o].body
    /\ requests[k].at = ingress[o].at
    /\ \A p \in 1..(o - 1) : Done(p)

FirstInv == \A k \in DOMAIN requests : \E o \in DOMAIN ingress : FirstIs(k, o)

FirstOrder ==
    \A k, l \in DOMAIN requests : \A o, p \in DOMAIN ingress :
        IsFirst(k, o) /\ IsFirst(l, p) /\ o < p /\ requests[k].room = requests[l].room
        => requests[k].seq < requests[l].seq

(* Collecting and handling keep the batch in an order that handles every   *)
(* record after those before it.                                           *)
LEMMA BatchOrderStep ==
    ASSUME TypeOK, BatchInv, BatchOrder, [Next]_vars
    PROVE  BatchOrder'
<1>0. /\ LoopTypeOK /\ OffsetsExist /\ idx \in Nat /\ Len(ingress) \in Nat
      /\ Len(records) \in Nat /\ DOMAIN records = 1..Len(records)
  BY DEF TypeOK, LoopTypeOK
<1>1. \A o \in 1..Len(ingress) : Done(o) => Done(o)'
  BY DoneStep
<1>1a. \A i \in DOMAIN records : \A o \in 1..(records[i] - 1) : o \in 1..Len(ingress)
  BY <1>0 DEF OffsetsExist
<1>2. ASSUME UNCHANGED <<idx, records>>, pc' # "stopped" => pc # "stopped"
      PROVE  BatchOrder'
  BY <1>1, <1>1a, <1>2 DEF BatchOrder, Before
<1>3. CASE NextBatch
  <2>1. /\ pc = "fetch" /\ idx' = 0 /\ Settled(fetched) /\ Settled(pending)
        /\ \A o : ~Waiting(o)
    <3>1. pc = "fetch" /\ idx' = 0
      BY <1>3 DEF NextBatch, FetchFirst, TakePending
    <3>2. idx = Len(records) /\ Settled(fetched) /\ Settled(pending)
      BY <3>1 DEF BatchInv
    <3>3. \A j \in (idx + 1)..Len(records) : FALSE
      BY <1>0, <3>2
    <3> QED
      BY <3>1, <3>2, <3>3 DEF Waiting
  <2>2. PICK first \in 1..Len(ingress) :
          StartBatch(ingress, first) /\ \A o \in 1..(first - 1) : Done(o)
    <3>1. CASE FetchFirst(ingress)
      <4>1. /\ StartBatch(ingress, fetched + 1) /\ pending = 0
            /\ fetched + 1 \in 1..Len(ingress)
        BY <1>0, <3>1 DEF FetchFirst, LoopTypeOK
      <4>2. \A o \in 1..((fetched + 1) - 1) : Done(o)
        BY <1>0, <2>1, <4>1 DEF Settled, LoopTypeOK
      <4> QED
        BY <4>1, <4>2
    <3>2. CASE TakePending(ingress)
      <4>1. StartBatch(ingress, pending) /\ pending \in 1..Len(ingress)
        BY <1>0, <3>2 DEF TakePending, LoopTypeOK, OffsetsExist
      <4>2. \A o \in 1..(pending - 1) : Done(o)
        BY <1>0, <2>1, <4>1 DEF Settled, LoopTypeOK
      <4> QED
        BY <4>1, <4>2
    <3> QED
      BY <1>3, <3>1, <3>2 DEF NextBatch
  <2>3. CASE pc' = "stopped"
    BY <2>3 DEF BatchOrder
  <2>4. CASE records' = <<first>>
    <3>1. DOMAIN records' = {1} /\ records'[1] = first
      BY <2>4
    <3>2. \A o \in 1..(first - 1) : Done(o)'
      BY <1>0, <1>1, <2>2
    <3> QED
      BY <3>1, <3>2 DEF BatchOrder, Before
  <2> QED
    BY <2>2, <2>3, <2>4 DEF StartBatch
<1>4. CASE CollectNext(ingress) /\ UNCHANGED <<topicVars, numberVars, outputs, idx>>
  <2>1. /\ pc = "collect" /\ idx' = idx /\ pending = 0 /\ Settled(fetched)
        /\ fetched + 1 \in 1..Len(ingress) /\ fetched \in Nat
    BY <1>0, <1>4 DEF CollectNext, Collecting, BatchInv, LoopTypeOK
  <2>2. CASE UNCHANGED records
    BY <1>2, <2>1, <2>2
  <2>3. CASE records' = Append(records, fetched + 1)
    <3>1. /\ DOMAIN records' = 1..(Len(records) + 1)
          /\ \A j \in 1..Len(records) : records'[j] = records[j]
          /\ records'[Len(records) + 1] = fetched + 1
      BY <1>0, <2>1, <2>3 DEF LoopTypeOK
    <3>2. ASSUME NEW i \in 1..Len(records), i > idx, NEW o \in 1..(records'[i] - 1)
          PROVE  Before(i, o)'
      <4>1. o \in 1..(records[i] - 1) /\ Before(i, o)
        BY <1>0, <2>1, <3>1, <3>2 DEF BatchOrder
      <4>2. \A j \in (idx + 1)..(i - 1) : records'[j] = records[j]
        BY <1>0, <3>1
      <4> QED
        BY <1>0, <1>1, <1>1a, <2>1, <4>1, <4>2 DEF Before
    <3>3. ASSUME NEW i, i = Len(records) + 1, NEW o \in 1..(records'[i] - 1)
          PROVE  Before(i, o)'
      <4>1. o \in 1..fetched /\ o \in 1..Len(ingress)
        BY <1>0, <2>1, <3>1, <3>3
      <4>2. Done(o) \/ Waiting(o)
        BY <2>1, <4>1 DEF Settled
      <4>3. Waiting(o) => \E j \in (idx + 1)..(i - 1) : records'[j] = o
        BY <1>0, <3>1, <3>3 DEF Waiting
      <4> QED
        BY <1>1, <2>1, <4>1, <4>2, <4>3 DEF Before
    <3> QED
      BY <1>0, <2>1, <3>1, <3>2, <3>3 DEF BatchOrder
  <2> QED
    BY <1>4, <2>2, <2>3 DEF CollectNext
<1>5. CASE \/ HandleRejected \/ HandleDuplicate
           \/ \E now \in ClockValues : HandleNew(now)
  <2>1. /\ \A o : o = records[idx + 1] => Done(o)'
        /\ idx' = idx + 1 /\ pc = "handle" /\ UNCHANGED <<pc, records>>
    BY <1>5, HandleDoes
  <2>2. ASSUME NEW i \in DOMAIN records, i > idx + 1, NEW o \in 1..(records[i] - 1)
        PROVE  Before(i, o)'
    <3>1. Before(i, o) /\ o \in 1..Len(ingress)
      BY <1>0, <1>1a, <2>1, <2>2 DEF BatchOrder
    <3>2. CASE Done(o)
      BY <1>1, <3>1, <3>2 DEF Before
    <3>3. ASSUME NEW j \in (idx + 1)..(i - 1), records[j] = o
          PROVE  Before(i, o)'
      <4>1. j = idx + 1 \/ j \in (idx' + 1)..(i - 1)
        BY <1>0, <2>1
      <4> QED
        BY <2>1, <3>3, <4>1 DEF Before
    <3> QED
      BY <3>1, <3>2, <3>3 DEF Before
  <2> QED
    BY <2>1, <2>2 DEF BatchOrder
<1>6. CASE Handle
  BY <1>2, <1>5, <1>6 DEF Handle, HandleUnparsable, HandleDone
<1>7. CASE LoopStep
  BY <1>2, <1>4, <1>7 DEF LoopStep, EndCollect, Commit, ReturnOnCancel
<1>8. CASE LoopFault \/ Shutdown \/ Write \/ WriteFails
  <2>1. CASE Write \/ WriteFails
    BY <1>2, <2>1 DEF Write, WriteFails
  <2>2. CASE LoopFault \/ Shutdown
    BY <1>2, <2>2 DEF LoopFault, Shutdown, FetchFails, CollectFails, Collecting,
       CommitFails, Rebalance, Cancel
  <2> QED
    BY <1>8, <2>1, <2>2
<1>9. ASSUME NEW q \in Requests, Produce(q) PROVE BatchOrder'
  BY <1>2, <1>9 DEF Produce, loopVars
<1>10. CASE UNCHANGED vars
  BY <1>2, <1>10 DEF vars, loopVars
<1> QED
  BY <1>3, <1>6, <1>7, <1>8, <1>9, <1>10 DEF Next, SequencerStep

(* The ingress topic is a sequence, before and after.                      *)
LEMMA IngressGrows ==
    ASSUME TypeOK, [Next]_vars
    PROVE  /\ Len(ingress) \in Nat /\ DOMAIN ingress = 1..Len(ingress)
           /\ Len(ingress') \in Nat /\ DOMAIN ingress' = 1..Len(ingress')
           /\ Len(ingress) <= Len(ingress')
<1>1. UNCHANGED ingress \/ \E q \in Requests : ingress' = Append(ingress, q)
  BY DEF Next, SequencerStep, Produce, Shutdown, NextBatch, LoopStep, LoopFault, Handle,
         HandleUnparsable, HandleRejected, HandleDuplicate, HandleNew, HandleDone,
         Write, WriteFails, vars, topicVars
<1>2. ingress \in Seq(Requests)
  BY DEF TypeOK
<1>3. CASE UNCHANGED ingress
  BY <1>2, <1>3
<1>4. ASSUME NEW q \in Requests, ingress' = Append(ingress, q)
      PROVE  /\ Len(ingress') = Len(ingress) + 1 /\ DOMAIN ingress' = 1..Len(ingress')
             /\ Len(ingress) \in Nat /\ DOMAIN ingress = 1..Len(ingress)
  BY <1>2, <1>4
<1> QED
  BY <1>1, <1>3, <1>4

(* The first record of a key that is known stays its first record.         *)
LEMMA FirstStays ==
    ASSUME TypeOK, [Next]_vars, NEW k, NEW o \in DOMAIN ingress
    PROVE  /\ o \in DOMAIN ingress' /\ ingress'[o] = ingress[o]
           /\ IsFirst(k, o)' <=> IsFirst(k, o)
<1>1. /\ Len(ingress) \in Nat /\ DOMAIN ingress = 1..Len(ingress) /\ o \in Nat
      /\ DOMAIN ingress' = 1..Len(ingress')
      /\ Len(ingress) <= Len(ingress') /\ Len(ingress') \in Nat
  BY IngressGrows
<1>2. \A p \in 1..o : ingress'[p] = ingress[p]
  BY <1>1, IngressStep
<1> QED
  BY <1>1, <1>2 DEF IsFirst, HasIdentity, KeyOf

(* A number is given at the key's first record, after every key before it. *)
LEMMA FirstStep ==
    ASSUME IInv, BatchOrder, FirstInv, FirstOrder, [Next]_vars
    PROVE  FirstInv' /\ FirstOrder'
<1>0. /\ TypeOK /\ LoopTypeOK /\ OffsetsExist /\ idx \in Nat /\ Len(ingress) \in Nat
      /\ DOMAIN ingress = 1..Len(ingress)
  BY DEF IInv, TypeOK
<1>1. \A o \in 1..Len(ingress) : Done(o) => Done(o)'
  BY <1>0, DoneStep
<1>2. \A k \in DOMAIN requests : k \in DOMAIN requests' /\ requests'[k] = requests[k]
  BY <1>0, Monotone
<1>3. ASSUME NEW k \in DOMAIN requests
      PROVE  \E o \in DOMAIN ingress : FirstIs(k, o) /\ FirstIs(k, o)' /\ o \in DOMAIN ingress'
  <2>1. PICK o \in DOMAIN ingress : FirstIs(k, o)
    BY DEF FirstInv
  <2>2. o \in DOMAIN ingress' /\ ingress'[o] = ingress[o] /\ IsFirst(k, o)'
    BY <1>0, <2>1, FirstStays DEF FirstIs
  <2>3. \A p \in 1..(o - 1) : Done(p)'
    BY <1>0, <1>1, <2>1 DEF FirstIs
  <2> QED
    BY <1>2, <2>1, <2>2, <2>3 DEF FirstIs
<1>4. ASSUME NEW k, NEW o \in Nat, NEW p \in Nat, IsFirst(k, o), IsFirst(k, p)
      PROVE  o = p
  BY <1>0, <1>4 DEF IsFirst
<1>5. ASSUME NEW k \in DOMAIN requests, NEW o \in DOMAIN ingress', IsFirst(k, o)'
      PROVE  o \in DOMAIN ingress /\ FirstIs(k, o)
  <2>1. PICK q \in DOMAIN ingress : FirstIs(k, q) /\ FirstIs(k, q)' /\ q \in DOMAIN ingress'
    BY <1>3
  <2>2. IsFirst(k, q)' /\ q \in Nat /\ o \in Nat
    BY <1>0, <2>1, IngressGrows DEF FirstIs
  <2>3. o = q
    <3>1. o < q => o \in 1..(q - 1)
      BY <1>0, <2>2, IngressGrows
    <3>2. q < o => q \in 1..(o - 1)
      BY <1>0, <2>1, <2>2
    <3>3. ~(o < q) /\ ~(q < o)
      BY <1>5, <2>2, <3>1, <3>2 DEF IsFirst, HasIdentity, KeyOf
    <3> QED
      BY <2>2, <3>3
  <2> QED
    BY <2>1, <2>3
<1>6. CASE UNCHANGED requests
  <2>1. FirstInv'
    BY <1>3, <1>6 DEF FirstInv
  <2>2. FirstOrder'
    BY <1>5, <1>6 DEF FirstOrder, FirstIs
  <2> QED
    BY <2>1, <2>2
<1>7. ASSUME NEW now \in ClockValues, HandleNew(now)
      PROVE  FirstInv' /\ FirstOrder'
  <2>1. PICK m \in Message :
          /\ m.seq = rooms[m.room] + 1
          /\ m.room = Current.room /\ KeyOf(m) = KeyOf(Current)
          /\ m.body = Current.body /\ m.at = Current.at
          /\ KeyOf(m) \notin DOMAIN requests
          /\ requests' = [k \in DOMAIN requests \cup {KeyOf(m)} |->
                              IF k = KeyOf(m) THEN m ELSE requests[k]]
    BY <1>0, <1>7, HandleNewFacts
  <2> DEFINE key == KeyOf(m)
  <2>2. /\ DOMAIN requests' = DOMAIN requests \cup {key} /\ requests'[key] = m
        /\ \A k \in DOMAIN requests : k # key /\ requests'[k] = requests[k]
    BY <2>1
  <2>3. /\ idx + 1 \in DOMAIN records /\ pc = "handle" /\ UNCHANGED ingress
        /\ HasIdentity(Current)
    BY <1>0, <1>7 DEF HandleNew, Handling, Rejected, LoopTypeOK, topicVars
  <2>4. PICK at \in DOMAIN ingress :
          /\ at = records[idx + 1] /\ ingress[at] = Current
          /\ HasIdentity(ingress[at]) /\ KeyOf(ingress[at]) = key
    BY <1>0, <1>7, <2>1, <2>3, CurrentType DEF HandleNew, Current
  <2> HIDE DEF key
  <2>5. \A o \in 1..(at - 1) : Done(o)
    <3>1. \A o \in 1..(records[idx + 1] - 1) : Before(idx + 1, o)
      BY <1>0, <2>3 DEF BatchOrder
    <3>2. \A j \in (idx + 1)..((idx + 1) - 1) : FALSE
      BY <1>0
    <3> QED
      BY <2>4, <3>1, <3>2 DEF Before
  <2>6. IsFirst(key, at)
    <3>1. ASSUME NEW o \in 1..(at - 1), HasIdentity(ingress[o])
          PROVE  KeyOf(ingress[o]) # key
      BY <2>1, <2>5, <3>1 DEF Done, key
    <3> QED
      BY <2>4, <3>1 DEF IsFirst
  <2>7. FirstIs(key, at)' /\ IsFirst(key, at)'
    <3>1. IsFirst(key, at)'
      BY <1>0, <2>4, <2>6, FirstStays
    <3>2. \A o \in 1..(at - 1) : Done(o)'
      BY <1>0, <1>1, <2>4, <2>5
    <3> QED
      BY <2>1, <2>2, <2>3, <2>4, <3>1, <3>2 DEF FirstIs
  <2>8. FirstInv'
    BY <1>3, <2>2, <2>3, <2>4, <2>7 DEF FirstInv
  <2>9. ASSUME NEW k \in DOMAIN requests', NEW l \in DOMAIN requests',
               NEW o \in DOMAIN ingress', NEW p \in DOMAIN ingress',
               IsFirst(k, o)', IsFirst(l, p)', o < p,
               requests'[k].room = requests'[l].room
        PROVE  requests'[k].seq < requests'[l].seq
    <3>1. \A q \in DOMAIN ingress' : IsFirst(key, q)' => q = at
      <4>1. \A q \in DOMAIN ingress' : q \in DOMAIN ingress /\ q \in Nat
        BY <1>0, <2>3
      <4>2. \A q \in DOMAIN ingress' : IsFirst(key, q)' => IsFirst(key, q)
        BY <1>0, <4>1, FirstStays
      <4> QED
        BY <1>0, <1>4, <2>4, <2>6, <4>1, <4>2
    <3>2. CASE k \in DOMAIN requests /\ l \in DOMAIN requests
      BY <1>5, <2>2, <2>9, <3>2 DEF FirstOrder, FirstIs
    <3>3. CASE k = key /\ l = key
      BY <1>0, <2>3, <2>9, <3>1, <3>3
    <3>4. CASE k = key /\ l \in DOMAIN requests
      <4>1. FirstIs(l, p) /\ o = at /\ p \in Nat /\ at \in Nat
        BY <1>0, <1>5, <2>3, <2>9, <3>1, <3>4
      <4>2. at \in 1..(p - 1)
        BY <1>0, <2>4, <2>9, <4>1
      <4>3. Done(at)
        BY <4>1, <4>2 DEF FirstIs
      <4> QED
        BY <2>1, <2>4, <4>3 DEF Done, key
    <3>5. CASE k \in DOMAIN requests /\ l = key
      <4>1. /\ requests[k].seq \in 1..rooms[requests[k].room] /\ requests[k].room = m.room
            /\ requests'[k] = requests[k] /\ requests'[l] = m
        BY <2>2, <2>9, <3>5 DEF IInv, NumberInv
      <4>2. rooms[m.room] \in Nat
        BY <1>0 DEF TypeOK, Message
      <4> QED
        BY <2>1, <4>1, <4>2
    <3> QED
      BY <2>2, <3>2, <3>3, <3>4, <3>5
  <2>10. FirstOrder'
    BY <2>9 DEF FirstOrder
  <2> QED
    BY <2>8, <2>10
<1>8. UNCHANGED requests \/ \E now \in ClockValues : HandleNew(now)
  BY DEF Next, SequencerStep, Produce, Shutdown, NextBatch, LoopStep, LoopFault, Handle,
         HandleUnparsable, HandleRejected, HandleDuplicate, HandleDone, Write, WriteFails,
         vars, numberVars
<1> QED
  BY <1>6, <1>7, <1>8

(* The message of a key is the one first requested, and a room's numbers   *)
(* follow the order of first requests, through every redelivery.           *)
THEOREM FirstRequestWinsHolds == Spec => []FirstRequestWins
<1> DEFINE Inv == BatchOrder /\ FirstInv /\ FirstOrder
<1>1. Init => Inv
  <2>1. Init => DOMAIN requests = {} /\ DOMAIN records = {}
    BY DEF Init, LoopInit
  <2> QED
    BY <2>1 DEF BatchOrder, FirstInv, FirstOrder
<1>2. IInv /\ Inv /\ [Next]_vars => Inv'
  BY BatchOrderStep, FirstStep DEF IInv
<1>3. Inv => FirstRequestWins
  BY DEF FirstInv, FirstOrder, FirstIs, FirstRequestWins
<1> QED
  BY <1>1, <1>2, <1>3, Inductive, PTL DEF Spec

-----------------------------------------------------------------------------
(* The loop reads nothing past fetched unless a rebalance, which is a      *)
(* fault, has moved it back.                                               *)
StopInv ==
    /\ terminal => faults > 0
    /\ faults = 0 => /\ pending <= fetched
                     /\ \A k \in DOMAIN records : records[k] <= fetched

(* The loop ends only for a cause that is on record.                       *)
LEMMA StopStep ==
    ASSUME TypeOK, StopInv, StopsForCause, [Next]_vars
    PROVE  StopInv' /\ StopsForCause'
<1>0. /\ LoopTypeOK /\ OffsetsExist /\ idx \in Nat /\ Len(ingress) \in Nat
      /\ Len(records) \in Nat /\ DOMAIN records = 1..Len(records)
      /\ DOMAIN ingress = 1..Len(ingress)
  BY DEF TypeOK, LoopTypeOK
<1>1. \A o \in DOMAIN ingress : o \in DOMAIN ingress' /\ ingress'[o] = ingress[o]
  BY FirstStays
<1>2. ASSUME UNCHANGED <<ctxDone, fetched, pending, records, terminal, faults>>,
             pc' = "stopped" =>
                 \/ pc = "stopped" \/ ctxDone \/ faults > 0
                 \/ \E o \in DOMAIN ingress : o <= fetched /\ ~ingress[o].parses
      PROVE  StopInv' /\ StopsForCause'
  <2>1. StopInv'
    BY <1>2 DEF StopInv
  <2>2. StopsForCause'
    BY <1>1, <1>2 DEF StopsForCause
  <2> QED
    BY <2>1, <2>2
<1>3. ASSUME faults' > 0
      PROVE  StopInv' /\ StopsForCause'
  BY <1>3 DEF StopInv, StopsForCause
<1>4. CASE NextBatch
  <2>1. PICK first \in 1..Len(ingress) :
          /\ StartBatch(ingress, first)
          /\ pending' \in {0, pending} /\ UNCHANGED <<faults, ctxDone, ingress>>
          /\ fetched' \in Nat /\ fetched <= fetched'
          /\ faults = 0 => first <= fetched'
    <3>1. CASE FetchFirst(ingress)
      <4>1. /\ StartBatch(ingress, fetched + 1) /\ fetched + 1 \in 1..Len(ingress)
            /\ fetched' = fetched + 1
        BY <1>0, <3>1 DEF FetchFirst, LoopTypeOK
      <4> QED
        BY <1>0, <1>4, <3>1, <4>1 DEF FetchFirst, LoopTypeOK, NextBatch, topicVars
    <3>2. CASE TakePending(ingress)
      <4>1. StartBatch(ingress, pending) /\ pending \in 1..Len(ingress) /\ UNCHANGED fetched
        BY <1>0, <3>2 DEF TakePending, LoopTypeOK, OffsetsExist
      <4> QED
        BY <1>0, <1>4, <3>2, <4>1 DEF TakePending, LoopTypeOK, NextBatch, topicVars, StopInv
    <3> QED
      BY <1>4, <3>1, <3>2 DEF NextBatch
  <2>2. StopInv'
    <3>1. terminal' = FALSE
      BY <2>1 DEF StartBatch
    <3>2. faults = 0 => pending' <= fetched'
      BY <1>0, <2>1 DEF StopInv, LoopTypeOK
    <3>3. \A k \in DOMAIN records' : records'[k] = first
      BY <2>1 DEF StartBatch
    <3> QED
      BY <2>1, <3>1, <3>2, <3>3 DEF StopInv
  <2>3. StopsForCause'
    <3>1. pc' = "stopped" => BodySize[ingress[first].body] > MaxBytes
      BY <2>1 DEF StartBatch
    <3>2. faults \in Nat
      BY <1>0 DEF LoopTypeOK
    <3> QED
      BY <1>0, <2>1, <3>1, <3>2 DEF StopsForCause
  <2> QED
    BY <2>2, <2>3
<1>5. CASE LoopStep
  <2>1. CASE CollectNext(ingress)
    <3>1. /\ fetched' = fetched + 1 /\ pc' # "stopped" /\ UNCHANGED <<terminal, faults>>
          /\ \/ pending' = fetched + 1 /\ UNCHANGED records
             \/ UNCHANGED pending /\ records' = Append(records, fetched + 1)
      BY <2>1 DEF CollectNext, Collecting
    <3>2. faults = 0 => \A k \in DOMAIN records' : records'[k] <= fetched + 1
      <4>1. faults = 0 => \A k \in DOMAIN records : records[k] <= fetched + 1
        BY <1>0 DEF StopInv, LoopTypeOK, OffsetsExist
      <4>2. CASE UNCHANGED records
        BY <4>1, <4>2
      <4>3. CASE records' = Append(records, fetched + 1)
        <5>1. /\ DOMAIN records' = 1..(Len(records) + 1)
              /\ \A j \in 1..Len(records) : records'[j] = records[j]
              /\ records'[Len(records) + 1] = fetched + 1
          BY <1>0, <4>3 DEF LoopTypeOK
        <5> QED
          BY <1>0, <4>1, <5>1 DEF LoopTypeOK
      <4> QED
        BY <3>1, <4>2, <4>3
    <3>3. faults = 0 => pending' <= fetched'
      BY <1>0, <3>1 DEF StopInv, LoopTypeOK
    <3> QED
      BY <3>1, <3>2, <3>3 DEF StopInv, StopsForCause
  <2>2. CASE EndCollect \/ ReturnOnCancel \/ Commit
    BY <1>2, <2>2 DEF EndCollect, ReturnOnCancel, Commit, StopInv
  <2> QED
    BY <1>5, <2>1, <2>2 DEF LoopStep
<1>6. CASE LoopFault \/ WriteFails
  <2>1. faults' > 0
    BY <1>0, <1>6 DEF LoopFault, WriteFails, FetchFails, CollectFails, CommitFails, Rebalance,
       Fault, LoopTypeOK
  <2> QED
    BY <1>3, <2>1
<1>7. CASE Shutdown
  BY <1>7 DEF Shutdown, Cancel, StopInv, StopsForCause
<1>8. CASE Handle \/ Write
  <2>1. CASE HandleUnparsable
    <3>1. /\ idx + 1 \in DOMAIN records /\ records[idx + 1] \in DOMAIN ingress
          /\ ~ingress[records[idx + 1]].parses
      BY <1>0, <2>1, CurrentType DEF HandleUnparsable, Handling, Current, LoopTypeOK
    <3>2. faults = 0 => records[idx + 1] <= fetched
      BY <3>1 DEF StopInv
    <3>3. faults \in Nat
      BY <1>0 DEF LoopTypeOK
    <3> QED
      BY <1>2, <2>1, <3>1, <3>2, <3>3 DEF HandleUnparsable
  <2>2. CASE HandleRejected \/ HandleDuplicate \/ \E now \in ClockValues : HandleNew(now)
    BY <1>2, <2>2 DEF HandleRejected, HandleDuplicate, HandleNew, loopVars
  <2>3. CASE HandleDone \/ Write
    BY <1>2, <2>3 DEF HandleDone, Write
  <2> QED
    BY <1>8, <2>1, <2>2, <2>3 DEF Handle
<1>9. ASSUME NEW q \in Requests, Produce(q)
      PROVE  StopInv' /\ StopsForCause'
  BY <1>2, <1>9 DEF Produce, loopVars
<1>10. CASE UNCHANGED vars
  BY <1>2, <1>10 DEF vars, loopVars
<1> QED
  BY <1>4, <1>5, <1>6, <1>7, <1>8, <1>9, <1>10 DEF Next, SequencerStep

(* The numbering loop ends only for a cause: never over a rejected request.*)
THEOREM StopsForCauseHolds == Spec => []StopsForCause
<1> DEFINE Inv == StopInv /\ StopsForCause
<1>1. Init => Inv
  <2>1. Init => DOMAIN records = {}
    BY DEF Init, LoopInit
  <2> QED
    BY <2>1 DEF Init, LoopInit, StopInv, StopsForCause
<1>2. TypeOK /\ Inv /\ [Next]_vars => Inv'
  BY StopStep
<1> QED
  BY <1>1, <1>2, TypeCorrect, PTL DEF Spec

=============================================================================
