--------------------------- MODULE ArchiverProofs ---------------------------
(***************************************************************************)
(* Proofs about the archiver and about the history that clients read while *)
(* it works, for every topic, store, batch size, cache size, page size and *)
(* number of background fills, crashes and failed calls.                   *)
(***************************************************************************)
EXTENDS History, FiniteSetTheorems, TLAPS

(***************************************************************************)
(* What makes the properties inductive.  The batch is the piece of the     *)
(* topic that ends at the last record read; whatever precedes it is        *)
(* stored, so lastOffset may be saved as soon as the batch is.             *)
(***************************************************************************)
Stored(o) == \A p \in 1..o : formal[p].valid /\ formal[p] \in store

BatchIsRead ==
    pc # "down" =>
        /\ Len(msgBatch) <= pos
        /\ \A i \in 1..Len(msgBatch) :
               msgBatch[i].valid /\ msgBatch[i] = formal[pos - Len(msgBatch) + i]
        /\ Stored(pos - Len(msgBatch))
        /\ msgBatch # << >> => lastOffset = pos

FlushHasBatch ==
    /\ pc = "run" => Len(msgBatch) < BatchSize
    /\ pc \in {"save", "index", "cache", "offset"} => msgBatch # << >>
    /\ pc \in {"index", "cache", "offset"} => InBatch \subseteq store

IInv == /\ TypeOK /\ BatchIsRead /\ FlushHasBatch
        /\ OffsetIsStored /\ CopiesAreStored /\ StoreIdentity

-----------------------------------------------------------------------------
(* The topic and the batch are sequences of records.                       *)
LEMMA TopicFacts ==
    ASSUME TypeOK
    PROVE  /\ Len(formal) \in Nat /\ DOMAIN formal = 1..Len(formal)
           /\ \A o \in 1..Len(formal) :
                  /\ formal[o] \in Records
                  /\ formal[o].valid => formal[o].seq > 0 /\ formal[o].room \in Rooms
           /\ Len(msgBatch) \in Nat /\ DOMAIN msgBatch = 1..Len(msgBatch)
           /\ InBatch = {msgBatch[i] : i \in 1..Len(msgBatch)}
           /\ InBatch \subseteq Records
           /\ msgBatch = << >> <=> Len(msgBatch) = 0
<1>1. formal \in Seq(Records)
  BY ArchiverAssumption DEF ArchiverAssumption, TypeOK
<1>2. Len(formal) \in Nat /\ DOMAIN formal = 1..Len(formal)
  BY <1>1
<1>3. \A o \in 1..Len(formal) : formal[o] \in Records
  BY <1>1
<1>4. \A o \in 1..Len(formal) :
          formal[o].valid => formal[o].seq > 0 /\ formal[o].room \in Rooms
  BY <1>2, ArchiverAssumption DEF ArchiverAssumption, TypeOK
<1>5. /\ Len(msgBatch) \in Nat /\ DOMAIN msgBatch = 1..Len(msgBatch)
      /\ msgBatch = << >> <=> Len(msgBatch) = 0
      /\ \A i \in 1..Len(msgBatch) : msgBatch[i] \in Records
  BY DEF TypeOK
<1> QED
  BY <1>2, <1>3, <1>4, <1>5 DEF InBatch

(* A batch that is being flushed consists of numbered records.             *)
LEMMA BatchIsNumbered ==
    ASSUME IInv, pc # "down"
    PROVE  \A i \in 1..Len(msgBatch) : msgBatch[i].valid /\ msgBatch[i].seq > 0
<1>1. ASSUME NEW i \in 1..Len(msgBatch)
      PROVE  msgBatch[i].valid /\ msgBatch[i].seq > 0
  <2>1. /\ Len(msgBatch) <= pos /\ pos <= Len(formal) /\ pos \in Nat
        /\ msgBatch[i].valid /\ msgBatch[i] = formal[pos - Len(msgBatch) + i]
    BY TopicFacts DEF IInv, BatchIsRead, TypeOK
  <2>2. pos - Len(msgBatch) + i \in 1..Len(formal)
    BY <2>1, TopicFacts DEF IInv
  <2> QED
    BY <2>1, <2>2, TopicFacts DEF IInv
<1> QED
  BY <1>1

(* A bulk of upserts that nothing has ended keeps the rows, adds only      *)
(* messages of the batch and leaves no two rows in conflict.               *)
LEMMA UpsertedFacts ==
    ASSUME IInv, pc = "save", NEW n \in 0..Len(msgBatch),
           \A i \in 1..n : ~UpsertEnds(i)
    PROVE  /\ store \subseteq Upserted(n)
           /\ Upserted(n) \subseteq store \cup InBatch
           /\ \A x, y \in Upserted(n) : x.seq > 0 => ~Conflict(x, y)
<1> DEFINE New(i) == /\ ~HasKey(store, msgBatch[i].key)
                     /\ \A j \in 1..(i - 1) : msgBatch[j].key # msgBatch[i].key
<1>0. Len(msgBatch) \in Nat /\ InBatch = {msgBatch[i] : i \in 1..Len(msgBatch)}
  BY TopicFacts DEF IInv
<1>1. \A k \in 0..Len(msgBatch) : \A x :
          x \in Upserted(k) <=> x \in store \/ \E i \in 1..k : x = msgBatch[i] /\ New(i)
  BY <1>0 DEF Upserted
<1>2. ASSUME NEW i \in 1..n, New(i), NEW x \in Upserted(i - 1)
      PROVE  ~Conflict(msgBatch[i], x)
  <2>1. i - 1 \in 0..Len(msgBatch) /\ i \in 1..Len(msgBatch)
    BY <1>0
  <2>2. ~HasKey(Upserted(i - 1), msgBatch[i].key)
    BY <1>1, <1>2, <2>1 DEF HasKey
  <2> QED
    BY <1>2, <2>2 DEF UpsertEnds
<1>3. ASSUME NEW x \in Upserted(n), NEW y \in Upserted(n), x.seq > 0
      PROVE  ~Conflict(x, y)
  <2>1. CASE x \in store /\ y \in store
    BY <1>3, <2>1 DEF IInv, StoreIdentity
  <2>2. ASSUME NEW i \in 1..n, New(i), NEW z \in store
        PROVE  ~Conflict(msgBatch[i], z) /\ ~Conflict(z, msgBatch[i])
    <3>1. i - 1 \in 0..Len(msgBatch)
      BY <1>0
    <3>2. z \in Upserted(i - 1)
      BY <1>1, <3>1
    <3> QED
      BY <1>2, <2>2, <3>2 DEF Conflict
  <2>3. ASSUME NEW i \in 1..n, New(i), NEW j \in 1..n, New(j), j < i
        PROVE  ~Conflict(msgBatch[i], msgBatch[j]) /\ ~Conflict(msgBatch[j], msgBatch[i])
    <3>1. i - 1 \in 0..Len(msgBatch) /\ j \in 1..(i - 1)
      BY <1>0, <2>3
    <3>2. msgBatch[j] \in Upserted(i - 1)
      BY <1>1, <2>3, <3>1
    <3> QED
      BY <1>2, <2>3, <3>2 DEF Conflict
  <2>4. ASSUME NEW i \in 1..n, New(i), NEW j \in 1..n, New(j)
        PROVE  ~Conflict(msgBatch[i], msgBatch[j])
    <3>1. j < i \/ i < j \/ i = j
      OBVIOUS
    <3> QED
      BY <3>1, <2>3, <2>4 DEF Conflict
  <2> QED
    <3>1. n \in 0..Len(msgBatch)
      OBVIOUS
    <3>2. /\ x \in store \/ \E i \in 1..n : x = msgBatch[i] /\ New(i)
          /\ y \in store \/ \E i \in 1..n : y = msgBatch[i] /\ New(i)
      BY <1>1, <3>1
    <3> QED
      BY <3>2, <2>1, <2>2, <2>4
<1> QED
  BY <1>0, <1>1, <1>3

(* What a save, complete or not, does to the rows.                         *)
LEMMA SaveFacts ==
    ASSUME IInv, Save \/ SaveFails
    PROVE  /\ store \subseteq store' /\ store' \subseteq store \cup InBatch
           /\ StoreIdentity'
           /\ pc' = "down" \/ (pc' = "index" /\ InBatch \subseteq store')
<1>1. pc = "save"
  BY DEF Save, SaveFails
<1>2. ASSUME ~\E m \in InBatch : \E x \in store \cup InBatch : Conflict(m, x),
             store' = store \cup InBatch
      PROVE  StoreIdentity'
  <2>1. ASSUME NEW x \in store', NEW y \in store', x.seq > 0
        PROVE  ~Conflict(x, y)
    BY <1>2, <2>1 DEF IInv, StoreIdentity, Conflict
  <2> QED
    BY <2>1 DEF StoreIdentity, Conflict
<1>3. ASSUME NEW n \in 0..Len(msgBatch), \A i \in 1..n : ~UpsertEnds(i), store' = Upserted(n)
      PROVE  /\ store \subseteq store' /\ store' \subseteq store \cup InBatch
             /\ StoreIdentity'
  <2>1. \A x, y \in store' : x.seq > 0 => ~Conflict(x, y)
    BY <1>1, <1>3, UpsertedFacts
  <2>2. StoreIdentity'
    BY <2>1 DEF StoreIdentity, Conflict
  <2> QED
    BY <1>1, <1>3, <2>2, UpsertedFacts
<1>4. UNCHANGED store => StoreIdentity'
  BY DEF IInv, StoreIdentity, Conflict
<1>5. Len(msgBatch) \in Nat
  BY TopicFacts DEF IInv
<1>6. CASE Save /\ backend = "mysql"
  BY <1>2, <1>4, <1>6 DEF Save, SaveMySQL, Return
<1>7. CASE Save /\ backend = "mongo"
  <2>1. ASSUME NEW n \in 1..Len(msgBatch), \A i \in 1..(n - 1) : ~UpsertEnds(i),
               store' = Upserted(n - 1), Return
        PROVE  /\ store \subseteq store' /\ store' \subseteq store \cup InBatch
               /\ StoreIdentity' /\ pc' = "down"
    <3>1. n - 1 \in 0..Len(msgBatch)
      BY <1>5
    <3> QED
      BY <1>3, <2>1, <3>1 DEF Return
  <2>2. ASSUME \A i \in 1..Len(msgBatch) : ~UpsertEnds(i),
               store' = Upserted(Len(msgBatch)),
               IF InBatch \subseteq store' THEN pc' = "index" ELSE pc' = "down"
        PROVE  /\ store \subseteq store' /\ store' \subseteq store \cup InBatch
               /\ StoreIdentity'
               /\ pc' = "down" \/ (pc' = "index" /\ InBatch \subseteq store')
    <3>1. Len(msgBatch) \in 0..Len(msgBatch)
      BY <1>5
    <3> QED
      BY <1>3, <2>2, <3>1
  <2> QED
    BY <1>7, <2>1, <2>2 DEF Save, SaveMongo, Return
<1>8. CASE SaveFails
  BY <1>2, <1>3, <1>4, <1>8 DEF SaveFails, Return
<1> QED
  BY <1>6, <1>7, <1>8 DEF Save

-----------------------------------------------------------------------------
(* Rows are only added, so what is stored stays stored.                    *)
LEMMA StoredStays ==
    ASSUME IInv, UNCHANGED formal, store \subseteq store', NEW o, Stored(o)
    PROVE  Stored(o)'
BY DEF Stored

(* A stopped archiver with the old rows alone satisfies the invariant.     *)
LEMMA InitInv == Init => IInv
<1> SUFFICES ASSUME Init PROVE IInv
  OBVIOUS
<1>1. Len(formal) \in Nat
  BY ArchiverAssumption DEF ArchiverAssumption, Init
<1>2. /\ msgBatch \in Seq(Records) /\ Len(msgBatch) = 0
      /\ MaxFaults \in Nat /\ BatchSize \in Nat
  BY ArchiverAssumption DEF ArchiverAssumption, Init
<1>3. TypeOK
  <2>1. store \subseteq Records \cup Legacy /\ index \subseteq Records
    BY DEF Init
  <2>2. cache \in [Rooms -> SUBSET Records]
    BY DEF Init
  <2>3. ctxDone \in BOOLEAN
    BY DEF Init
  <2> QED
    BY <1>1, <1>2, <2>1, <2>2, <2>3 DEF Init, TypeOK
<1>4. StoreIdentity
  BY ArchiverAssumption DEF ArchiverAssumption, Init, StoreIdentity
<1> QED
  BY <1>3, <1>4 DEF Init, IInv, BatchIsRead, FlushHasBatch, OffsetIsStored, CopiesAreStored

(* Steps of the reading loop.                                              *)
LEMMA ReadInv ==
    ASSUME IInv, Read
    PROVE  IInv'
<1>0. /\ pc = "run" /\ pos < Len(formal)
      /\ UNCHANGED <<formal, backend, store, index, cache, offset, faults>>
  BY DEF Read
<1>1. /\ Len(formal) \in Nat /\ Len(msgBatch) \in Nat /\ pos \in Nat
      /\ \A o \in 1..Len(formal) : formal[o] \in Records
      /\ BatchSize \in Nat
  BY TopicFacts, ArchiverAssumption DEF ArchiverAssumption, IInv, TypeOK
<1>2. OffsetIsStored' /\ CopiesAreStored' /\ StoreIdentity'
  BY <1>0 DEF IInv, OffsetIsStored, CopiesAreStored, StoreIdentity, Conflict
<1>3. CASE Return
  BY <1>0, <1>2, <1>3 DEF Return, IInv, TypeOK, BatchIsRead, FlushHasBatch
<1>4. CASE ~Return
  <2> DEFINE m == formal[pos + 1]
  <2>1. /\ m.valid /\ pos' = pos + 1 /\ msgBatch' = Append(msgBatch, m)
        /\ lastOffset' = pos + 1 /\ UNCHANGED ctxDone
        /\ pc' = IF Len(msgBatch) + 1 >= BatchSize THEN "save" ELSE "run"
    BY <1>4 DEF Read
  <2>2. m \in Records
    BY <1>0, <1>1
  <2>3. /\ msgBatch' \in Seq(Records) /\ Len(msgBatch') = Len(msgBatch) + 1
        /\ msgBatch' # << >>
        /\ \A i \in 1..Len(msgBatch) : msgBatch'[i] = msgBatch[i]
        /\ msgBatch'[Len(msgBatch) + 1] = m
    BY <2>1, <2>2 DEF IInv, TypeOK
  <2>4. Len(msgBatch) < BatchSize
    BY <1>0 DEF IInv, FlushHasBatch
  <2>5. TypeOK'
    BY <1>0, <1>1, <2>1, <2>3, <2>4 DEF IInv, TypeOK
  <2>6. BatchIsRead'
    <3>1. /\ Len(msgBatch) <= pos /\ Stored(pos - Len(msgBatch))
          /\ \A i \in 1..Len(msgBatch) :
                 msgBatch[i].valid /\ msgBatch[i] = formal[pos - Len(msgBatch) + i]
      BY <1>0 DEF IInv, BatchIsRead
    <3>2. pos' - Len(msgBatch') = pos - Len(msgBatch)
      BY <1>1, <2>1, <2>3
    <3>3. Stored(pos - Len(msgBatch))'
      BY <1>0, <3>1, <3>2 DEF Stored
    <3>4. ASSUME NEW i \in 1..Len(msgBatch')
          PROVE  msgBatch'[i].valid /\ msgBatch'[i] = formal'[pos' - Len(msgBatch') + i]
      <4>1. CASE i \in 1..Len(msgBatch)
        BY <1>0, <2>3, <3>1, <3>2, <4>1
      <4>2. CASE i = Len(msgBatch) + 1
        <5>1. pos - Len(msgBatch) + i = pos + 1
          BY <1>1, <4>2
        <5> QED
          BY <1>0, <2>1, <2>3, <3>2, <4>2, <5>1
      <4> QED
        BY <1>1, <2>3, <4>1, <4>2
    <3> QED
      BY <1>1, <2>1, <2>3, <3>1, <3>3, <3>4 DEF BatchIsRead
  <2>7. FlushHasBatch'
    BY <1>1, <2>1, <2>3 DEF FlushHasBatch
  <2> QED
    BY <1>2, <2>5, <2>6, <2>7 DEF IInv
<1> QED
  BY <1>3, <1>4

(* NewWorker starts where everything before is stored.                     *)
LEMMA NewWorkerInv ==
    ASSUME IInv, NewWorker
    PROVE  IInv'
<1>1. /\ msgBatch' \in Seq(Records) /\ Len(msgBatch') = 0
      /\ MaxFaults \in Nat /\ BatchSize \in Nat \ {0} /\ Len(formal) \in Nat
  BY TopicFacts, ArchiverAssumption DEF ArchiverAssumption, NewWorker, IInv
<1>2. /\ pos' \in 0..Len(formal) /\ Stored(pos') /\ faults' \in 0..MaxFaults
  BY TopicFacts, ArchiverAssumption
     DEF ArchiverAssumption, NewWorker, Fault, IInv, TypeOK, OffsetIsStored, Stored
<1>3. TypeOK'
  <2>1. ctxDone' \in BOOLEAN
    BY DEF NewWorker
  <2> QED
    BY <1>1, <1>2, <2>1 DEF NewWorker, IInv, TypeOK
<1>4. BatchIsRead'
  <2>0. pos' \in Nat
    BY <1>1, <1>2
  <2>1. pos' - Len(msgBatch') = pos'
    <3>1. \A p \in Nat : p - 0 = p
      OBVIOUS
    <3> QED
      BY <1>1, <2>0, <3>1
  <2>2. Stored(pos - Len(msgBatch))' /\ msgBatch' = << >>
    BY <1>2, <2>1 DEF NewWorker, Stored
  <2> QED
    <3>1. Len(msgBatch') <= pos' /\ \A i \in 1..Len(msgBatch') : FALSE
      BY <1>1, <2>0
    <3> QED
      BY <2>2, <3>1 DEF BatchIsRead
<1>5. FlushHasBatch'
  BY <1>1 DEF NewWorker, FlushHasBatch
<1>6. OffsetIsStored' /\ CopiesAreStored' /\ StoreIdentity'
  BY DEF NewWorker, IInv, OffsetIsStored, CopiesAreStored, StoreIdentity, Conflict
<1> QED
  BY <1>3, <1>4, <1>5, <1>6 DEF IInv

(* A save goes on to the index only with all of the batch in the store.    *)
LEMMA SaveInv ==
    ASSUME IInv, Save \/ SaveFails
    PROVE  IInv'
<1>1. /\ store \subseteq store' /\ store' \subseteq store \cup InBatch
      /\ StoreIdentity'
      /\ pc' = "down" \/ (pc' = "index" /\ InBatch \subseteq store')
  BY SaveFacts
<1>2. /\ pc = "save" /\ faults' \in 0..MaxFaults
      /\ UNCHANGED <<formal, backend, index, cache, offset, ctxDone, pos, msgBatch, lastOffset>>
  BY ArchiverAssumption DEF ArchiverAssumption, Save, SaveFails, SaveMySQL, SaveMongo,
                            Return, Fault, IInv, TypeOK
<1>3. TypeOK'
  BY <1>1, <1>2, TopicFacts DEF IInv, TypeOK
<1>4. BatchIsRead'
  <2>1. /\ Len(msgBatch) <= pos /\ Stored(pos - Len(msgBatch))
        /\ msgBatch # << >> => lastOffset = pos
        /\ \A i \in 1..Len(msgBatch) :
               msgBatch[i].valid /\ msgBatch[i] = formal[pos - Len(msgBatch) + i]
    BY <1>2 DEF IInv, BatchIsRead
  <2>2. Stored(pos - Len(msgBatch))'
    BY <1>1, <1>2, <2>1 DEF Stored
  <2> QED
    BY <1>2, <2>1, <2>2 DEF BatchIsRead
<1>5. FlushHasBatch'
  BY <1>1, <1>2 DEF IInv, FlushHasBatch, InBatch
<1>6. OffsetIsStored' /\ CopiesAreStored'
  BY <1>1, <1>2 DEF IInv, OffsetIsStored, CopiesAreStored
<1> QED
  BY <1>1, <1>3, <1>4, <1>5, <1>6 DEF IInv

(* Index and cache receive messages of the batch, which is stored; what    *)
(* Redis trims away only makes the cache smaller.                          *)
LEMMA CopyInv ==
    ASSUME IInv, IndexBatch \/ PushLatest
    PROVE  IInv'
<1>1. /\ pc \in {"index", "cache"} /\ pc' \in {"cache", "offset"}
      /\ faults' \in 0..MaxFaults
      /\ UNCHANGED <<formal, backend, store, offset, ctxDone, pos, msgBatch, lastOffset>>
  BY ArchiverAssumption DEF ArchiverAssumption, IndexBatch, PushLatest, Fault, IInv, TypeOK
<1>2. /\ InBatch \subseteq store /\ InBatch \subseteq Records
      /\ Len(msgBatch) \in Nat /\ InBatch = {msgBatch[i] : i \in 1..Len(msgBatch)}
  BY <1>1, TopicFacts DEF IInv, FlushHasBatch
<1>3. ASSUME NEW rows \in SUBSET InBatch, cache' = AddToCache(rows)
      PROVE  /\ cache' \in [Rooms -> SUBSET Records]
             /\ \A r \in Rooms : cache'[r] \subseteq {x \in store : x.room = r}
  <2>1. ASSUME NEW r \in Rooms
        PROVE  /\ Trim(cache[r] \cup {m \in rows : m.room = r}) \subseteq Records
               /\ Trim(cache[r] \cup {m \in rows : m.room = r}) \subseteq {x \in store : x.room = r}
    <3>1. cache[r] \subseteq Records /\ cache[r] \subseteq {x \in store : x.room = r}
      BY DEF IInv, TypeOK, CopiesAreStored
    <3>2. \A S : Trim(S) \subseteq S
      BY DEF Trim
    <3> QED
      BY <1>2, <3>1, <3>2
  <2> QED
    BY <1>3, <2>1 DEF AddToCache
<1>4. /\ index' \subseteq Records /\ index' \subseteq store
      /\ cache' \in [Rooms -> SUBSET Records]
      /\ \A r \in Rooms : cache'[r] \subseteq {x \in store : x.room = r}
  <2>1. CASE IndexBatch
    BY <2>1, <1>2 DEF IndexBatch, IInv, TypeOK, CopiesAreStored
  <2>2. CASE PushLatest
    <3>1. \A n \in 0..(Len(msgBatch) - 1) : {msgBatch[i] : i \in 1..n} \subseteq InBatch
      BY <1>2
    <3>2. \E rows \in SUBSET InBatch : cache' = AddToCache(rows)
      BY <2>2, <3>1 DEF PushLatest
    <3> QED
      BY <2>2, <3>2, <1>3 DEF PushLatest, IInv, TypeOK, CopiesAreStored
  <2> QED
    BY <2>1, <2>2
<1>5. TypeOK'
  BY <1>1, <1>4, TopicFacts DEF IInv, TypeOK
<1>6. BatchIsRead' /\ FlushHasBatch' /\ OffsetIsStored' /\ StoreIdentity'
  BY <1>1 DEF IInv, BatchIsRead, Stored, FlushHasBatch, InBatch, OffsetIsStored,
              StoreIdentity, Conflict
<1>7. CopiesAreStored'
  BY <1>1, <1>4 DEF CopiesAreStored
<1> QED
  BY <1>5, <1>6, <1>7 DEF IInv

(* Once the batch is stored, everything up to lastOffset is: saving the    *)
(* offset, and emptying the batch, says no more than that.                 *)
LEMMA OffsetInv ==
    ASSUME IInv, SaveOffset \/ SaveOffsetFails
    PROVE  IInv'
<1>1. /\ pc = "offset" /\ faults' \in 0..MaxFaults
      /\ UNCHANGED <<formal, backend, store, index, cache, ctxDone, pos, lastOffset>>
      /\ offset' \in {offset, lastOffset}
      /\ \/ pc' = "down" /\ UNCHANGED msgBatch
         \/ pc' = "run" /\ msgBatch' = << >>
  <2>1. MaxFaults \in Nat
    BY ArchiverAssumption DEF ArchiverAssumption
  <2>2. CASE SaveOffset
    BY <2>1, <2>2 DEF SaveOffset, IInv, TypeOK
  <2>3. CASE SaveOffsetFails
    BY <2>1, <2>3 DEF SaveOffsetFails, Return, Fault, IInv, TypeOK
  <2> QED
    BY <2>2, <2>3
<1>2. /\ lastOffset = pos /\ pos \in Nat /\ pos <= Len(formal)
      /\ Len(msgBatch) \in Nat /\ Len(msgBatch) <= pos /\ Len(formal) \in Nat
      /\ Stored(pos - Len(msgBatch))
      /\ \A i \in 1..Len(msgBatch) :
             /\ msgBatch[i].valid /\ msgBatch[i] = formal[pos - Len(msgBatch) + i]
             /\ msgBatch[i] \in store
  BY <1>1, TopicFacts DEF IInv, BatchIsRead, FlushHasBatch, TypeOK, InBatch
<1>3. Stored(pos)
  <2>1. ASSUME NEW o \in 1..pos
        PROVE  formal[o].valid /\ formal[o] \in store
    <3>1. CASE o <= pos - Len(msgBatch)
      BY <1>2, <3>1 DEF Stored
    <3>2. CASE o > pos - Len(msgBatch)
      <4> DEFINE i == o - (pos - Len(msgBatch))
      <4>1. i \in 1..Len(msgBatch) /\ pos - Len(msgBatch) + i = o
        BY <1>2, <3>2
      <4> QED
        BY <1>2, <4>1
    <3> QED
      BY <1>2, <3>1, <3>2
  <2> QED
    BY <2>1 DEF Stored
<1>4. << >> \in Seq(Records) /\ Len(<< >>) = 0
  OBVIOUS
<1>5. TypeOK'
  <2>1. msgBatch' \in Seq(Records) /\ Len(msgBatch') <= BatchSize
    <3>1. CASE UNCHANGED msgBatch
      BY <3>1 DEF IInv, TypeOK
    <3>2. CASE msgBatch' = << >>
      BY <3>2, ArchiverAssumption DEF ArchiverAssumption
    <3> QED
      BY <1>1, <3>1, <3>2
  <2> QED
    BY <1>1, <1>2, <2>1 DEF IInv, TypeOK
<1>6. BatchIsRead'
  <2>1. pos - 0 = pos
    BY <1>2
  <2> QED
    BY <1>1, <1>2, <1>3, <1>4, <2>1 DEF BatchIsRead, Stored
<1>7. FlushHasBatch'
  BY <1>1, <1>4, ArchiverAssumption DEF ArchiverAssumption, FlushHasBatch
<1>8. OffsetIsStored'
  BY <1>1, <1>2, <1>3 DEF IInv, OffsetIsStored, Stored
<1>9. CopiesAreStored' /\ StoreIdentity'
  BY <1>1 DEF IInv, CopiesAreStored, StoreIdentity, Conflict
<1> QED
  BY <1>5, <1>6, <1>7, <1>8, <1>9 DEF IInv

(* Flush begins; the worker ends, is told to end, or is killed.            *)
LEMMA QuietInv ==
    ASSUME IInv, Flush \/ Exit \/ Shutdown \/ Crash \/ UNCHANGED vars
    PROVE  IInv'
<1>1. /\ UNCHANGED <<formal, backend, store, index, cache, offset, pos, msgBatch, lastOffset>>
      /\ ctxDone' \in BOOLEAN /\ faults' \in 0..MaxFaults
      /\ pc' \in {"down", pc} \/ (pc = "run" /\ pc' = "save" /\ msgBatch # << >>)
  <2>1. MaxFaults \in Nat /\ faults \in 0..MaxFaults /\ ctxDone \in BOOLEAN
    BY ArchiverAssumption DEF ArchiverAssumption, IInv, TypeOK
  <2>2. CASE Flush \/ Exit
    BY <2>1, <2>2 DEF Flush, Exit, Return
  <2>3. CASE Shutdown
    <3>1. ctxDone' \in BOOLEAN
      BY <2>3 DEF Shutdown
    <3> QED
      BY <2>1, <2>3, <3>1 DEF Shutdown, Fault
  <2>4. CASE Crash
    BY <2>1, <2>4 DEF Crash, Return, Fault
  <2>5. CASE UNCHANGED vars
    BY <2>1, <2>5 DEF vars, workerVars
  <2> QED
    BY <2>2, <2>3, <2>4, <2>5
<1>2. TypeOK'
  BY <1>1 DEF IInv, TypeOK
<1>3. BatchIsRead' /\ FlushHasBatch'
  BY <1>1 DEF IInv, BatchIsRead, Stored, FlushHasBatch, InBatch
<1>4. OffsetIsStored' /\ CopiesAreStored' /\ StoreIdentity'
  BY <1>1 DEF IInv, OffsetIsStored, CopiesAreStored, StoreIdentity, Conflict
<1> QED
  BY <1>2, <1>3, <1>4 DEF IInv

-----------------------------------------------------------------------------
(* The inductive invariant of the archiver.                                *)
THEOREM Inductive == Spec => []IInv
<1>1. IInv /\ [Next]_vars => IInv'
  BY ReadInv, NewWorkerInv, SaveInv, CopyInv, OffsetInv, QuietInv DEF Next, WorkerStep
<1> QED
  BY InitInv, <1>1, PTL DEF Spec

(* The worker's state is well typed, its batch never above BatchSize.      *)
THEOREM TypeCorrect == Spec => []TypeOK
<1>1. IInv => TypeOK
  BY DEF IInv
<1> QED
  BY Inductive, <1>1, PTL

(* However often the worker crashes, is refused or replays: the offset it  *)
(* saved covers only stored records, and search and cache show only stored *)
(* messages.                                                               *)
THEOREM ArchivedIsStoredHolds == Spec => []ArchivedIsStored
<1>1. IInv => ArchivedIsStored
  BY DEF IInv, ArchivedIsStored
<1> QED
  BY Inductive, <1>1, PTL

(* With either store no two rows ever claim one key, id or room number,    *)
(* whatever the topic repeats or contradicts.                              *)
THEOREM StoreIdentityHolds == Spec => []StoreIdentity
<1>1. IInv => StoreIdentity
  BY DEF IInv
<1> QED
  BY Inductive, <1>1, PTL

-----------------------------------------------------------------------------
(* Pages: the highest members of a finite set with a total order           *)
(* Induction for sets of numbers.  If some t were missing, the numbers up  *)
(* to t that are in D with all before them would be as many as their       *)
(* successors, which are the same without 0.                               *)
LEMMA AllNumbers ==
  ASSUME NEW D, 0 \in D, \A n \in Nat : n \in D => n + 1 \in D
  PROVE  Nat \subseteq D
<1>1. SUFFICES ASSUME NEW t \in Nat, t \notin D PROVE FALSE
  OBVIOUS
<1> DEFINE E == {n \in 0..t : \A m \in 0..n : m \in D}
           F == E \ {0}
           f == [n \in E |-> n + 1]
<1>2. 0 \in E /\ E \subseteq 0..t
  OBVIOUS
<1>3. ASSUME NEW n \in E PROVE n + 1 \in F
  <2>1. n \in 0..t /\ n \in Nat /\ n # t /\ n + 1 \in D /\ \A m \in 0..n : m \in D
    BY <1>1, <1>3
  <2>2. \A m \in 0..(n + 1) : m \in D
    BY <2>1
  <2> QED
    BY <2>1, <2>2
<1>4. IsFiniteSet(E) /\ IsFiniteSet(F)
  <2>1. IsFiniteSet(0..t)
    BY FS_Interval
  <2>2. IsFiniteSet(E)
    BY <1>2, <2>1, FS_Subset
  <2> QED
    BY <2>2, FS_RemoveElement
<1> HIDE DEF E, F
<1>5. f \in Injection(E, F)
  <2>1. f \in [E -> F]
    BY <1>3
  <2>2. ASSUME NEW m \in E, NEW n \in E, f[m] = f[n] PROVE m = n
    BY <1>2, <2>2
  <2> QED
    BY <2>1, <2>2 DEF Injection, IsInjective
<1>6. Cardinality(E) <= Cardinality(F)
  BY <1>4, <1>5, FS_Injection
<1>7. Cardinality(F) = Cardinality(E) - 1 /\ Cardinality(E) \in Nat
  BY <1>2, <1>4, FS_RemoveElement, FS_CardinalityType DEF F
<1> QED
  BY <1>6, <1>7

(* The pairs of R put the members of S in a total order, the lower one     *)
(* first.                                                                  *)
Order(R, S) ==
    /\ \A x \in S : <<x, x>> \notin R
    /\ \A x, y, z \in S : <<x, y>> \in R /\ <<y, z>> \in R => <<x, z>> \in R
    /\ \A x, y \in S : x # y => <<x, y>> \in R \/ <<y, x>> \in R

Above(x, S, R) == {y \in S : <<x, y>> \in R}

Top(S, n, R) == {x \in S : Cardinality(Above(x, S, R)) < n}

(* A finite set that is put in order has a least element.                  *)
LEMMA HasLeast ==
  ASSUME NEW S, IsFiniteSet(S), S # {}, NEW R, Order(R, S)
  PROVE  \E x \in S : \A y \in S : <<y, x>> \notin R
<1> DEFINE Good(T) == \E x \in T : \A y \in T : <<y, x>> \notin R
           D == {k \in Nat : \A T \in SUBSET S : Cardinality(T) = k + 1 => Good(T)}
<1>1. ASSUME NEW T \in SUBSET S
      PROVE  IsFiniteSet(T) /\ Cardinality(T) \in Nat
             /\ \A e \in T : Cardinality(T \ {e}) = Cardinality(T) - 1
  BY FS_Subset, FS_CardinalityType, FS_RemoveElement
<1>2. 0 \in D
  <2>1. ASSUME NEW T \in SUBSET S, Cardinality(T) = 0 + 1 PROVE Good(T)
    <3>1. PICK e : T = {e}
      BY <1>1, <2>1, FS_Singleton
    <3> QED
      BY <3>1 DEF Order
  <2> QED
    BY <2>1
<1>3. ASSUME NEW k \in Nat, k \in D PROVE k + 1 \in D
  <2>1. ASSUME NEW T \in SUBSET S, Cardinality(T) = (k + 1) + 1 PROVE Good(T)
    <3>1. PICK e \in T : TRUE
      BY <1>1, <2>1, FS_EmptySet
    <3>2. Cardinality(T \ {e}) = k + 1
      BY <1>1, <1>3, <2>1, <3>1
    <3>3. Good(T \ {e})
      BY <1>3, <3>2
    <3>4. PICK m \in T \ {e} : \A y \in T \ {e} : <<y, m>> \notin R
      BY <3>3
    <3>5. CASE <<e, m>> \in R
      <4>1. ASSUME NEW y \in T PROVE <<y, e>> \notin R
        BY <3>1, <3>4, <3>5, <4>1 DEF Order
      <4> QED
        BY <3>1, <4>1
    <3>6. CASE <<e, m>> \notin R
      BY <3>4, <3>6
    <3> QED
      BY <3>5, <3>6
  <2> QED
    BY <2>1
<1> HIDE DEF D
<1>4. Nat \subseteq D
  BY <1>2, <1>3, AllNumbers
<1>5. PICK n \in Nat : Cardinality(S) = n + 1
  <2>1. Cardinality(S) \in Nat /\ Cardinality(S) # 0
    BY FS_CardinalityType, FS_EmptySet
  <2>2. Cardinality(S) - 1 \in Nat /\ Cardinality(S) = (Cardinality(S) - 1) + 1
    BY <2>1
  <2> QED
    BY <2>2
<1> QED
  BY <1>4, <1>5 DEF D

(* A page is as long as it may be, unless the whole set is on it.          *)
LEMMA TopCount ==
  ASSUME NEW S, IsFiniteSet(S), NEW R, Order(R, S), NEW n \in Nat
  PROVE  Cardinality(Top(S, n, R)) = IF n <= Cardinality(S) THEN n ELSE Cardinality(S)
<1> DEFINE Good(T, k) == Cardinality(Top(T, n, R)) = IF n <= k THEN n ELSE k
           D == {k \in Nat : \A T \in SUBSET S : Cardinality(T) = k => Good(T, k)}
<1>1. ASSUME NEW T \in SUBSET S
      PROVE  IsFiniteSet(T) /\ Cardinality(T) \in Nat
             /\ \A e \in T : Cardinality(T \ {e}) = Cardinality(T) - 1
  BY FS_Subset, FS_CardinalityType, FS_RemoveElement
<1>2. 0 \in D
  <2>1. ASSUME NEW T \in SUBSET S, Cardinality(T) = 0 PROVE Good(T, 0)
    <3>1. T = {}
      BY <1>1, <2>1, FS_EmptySet
    <3>2. Top(T, n, R) = {}
      BY <3>1 DEF Top
    <3> QED
      BY <3>2, FS_EmptySet
  <2> QED
    BY <2>1
<1>3. ASSUME NEW k \in Nat, k \in D PROVE k + 1 \in D
  <2>1. ASSUME NEW T \in SUBSET S, Cardinality(T) = k + 1 PROVE Good(T, k + 1)
    <3>1. PICK m \in T : \A y \in T : <<y, m>> \notin R
      <4>1. T # {} /\ Order(R, T)
        BY <2>1, FS_EmptySet DEF Order
      <4> QED
        BY <1>1, <4>1, HasLeast
    <3> DEFINE U == T \ {m}
    <3>2. /\ U \in SUBSET S /\ Cardinality(U) = k /\ IsFiniteSet(U)
      BY <1>1, <1>3, <2>1, <3>1
    <3>3. Good(U, k)
      BY <1>3, <3>2
    <3>4. Above(m, T, R) = U
      BY <3>1 DEF Above, Order
    <3>5. \A x \in U : Above(x, T, R) = Above(x, U, R)
      BY <3>1 DEF Above
    <3>6. Top(T, n, R) = Top(U, n, R) \cup (IF k < n THEN {m} ELSE {})
      <4>1. \A x \in U : x \in Top(T, n, R) <=> x \in Top(U, n, R)
        BY <3>5 DEF Top
      <4>2. m \in Top(T, n, R) <=> k < n
        BY <3>2, <3>4 DEF Top
      <4>3. Top(T, n, R) \subseteq U \cup {m} /\ Top(U, n, R) \subseteq U
        BY DEF Top
      <4> QED
        BY <4>1, <4>2, <4>3
    <3>7. IsFiniteSet(Top(U, n, R)) /\ m \notin Top(U, n, R)
      BY <3>2, FS_Subset DEF Top
    <3>8. CASE k < n
      <4>1. Cardinality(Top(T, n, R)) = Cardinality(Top(U, n, R)) + 1
        BY <3>6, <3>7, <3>8, FS_AddElement
      <4>2. Cardinality(Top(U, n, R)) = k
        BY <3>3, <3>8
      <4> QED
        BY <1>3, <3>8, <4>1, <4>2
    <3>9. CASE ~(k < n)
      <4>1. Top(T, n, R) = Top(U, n, R)
        BY <3>6, <3>9
      <4>2. Cardinality(Top(U, n, R)) = n
        BY <1>3, <3>3, <3>9
      <4> QED
        BY <1>3, <3>9, <4>1, <4>2
    <3> QED
      BY <3>8, <3>9
  <2> QED
    BY <1>3, <2>1
<1> HIDE DEF D
<1>4. Nat \subseteq D
  BY <1>2, <1>3, AllNumbers
<1> QED
  BY <1>4, FS_CardinalityType DEF D

(* What is not on the page is below all that is.                           *)
LEMMA TopUp ==
  ASSUME NEW S, IsFiniteSet(S), NEW R, Order(R, S), NEW n \in Nat,
         NEW y \in Top(S, n, R), NEW x \in S
  PROVE  /\ <<y, x>> \in R => x \in Top(S, n, R)
         /\ x \notin Top(S, n, R) => <<x, y>> \in R
<1>1. y \in S /\ Cardinality(Above(y, S, R)) < n
  BY DEF Top
<1>2. ASSUME <<y, x>> \in R PROVE x \in Top(S, n, R)
  <2>1. Above(x, S, R) \subseteq Above(y, S, R) /\ Above(y, S, R) \subseteq S
    BY <1>1, <1>2 DEF Above, Order
  <2>2. IsFiniteSet(Above(y, S, R))
    BY <2>1, FS_Subset
  <2>3. /\ Cardinality(Above(x, S, R)) <= Cardinality(Above(y, S, R))
        /\ Cardinality(Above(x, S, R)) \in Nat /\ Cardinality(Above(y, S, R)) \in Nat
    BY <2>1, <2>2, FS_Subset, FS_CardinalityType
  <2> QED
    BY <1>1, <2>3 DEF Top
<1> QED
  BY <1>1, <1>2 DEF Order

-----------------------------------------------------------------------------
(* The inductive invariant of reading *)

(* The rows come from the topic, and none from behind a record whose key   *)
(* no row has.                                                             *)
FromTopic ==
    \A x \in store \ Legacy :
        \E q \in 1..Len(formal) :
            /\ x = formal[q] /\ x.valid
            /\ \A p \in 1..(q - 1) : HasKey(store, formal[p].key)

CopiesAreNumbered ==
    /\ \A r \in Rooms : \A x \in cache[r] : x.seq > 0
    /\ \A f \in fills : \A x \in f.rows : x \in RowsOf(f.room) /\ x.seq > 0

Under(x, S) == \A f \in S : Below(x, f)

(* What the scrolling client has not seen below its first page is below    *)
(* its cursor.                                                             *)
ScrollInv ==
    scroll # << >> /\ scroll.first # {} =>
        /\ scroll.first \subseteq RowsOf(scroll.room)
        /\ scroll.more =>
               \E c \in RowsOf(scroll.room) :
                   /\ c.id = scroll.cursor
                   /\ \A x \in RowsOf(scroll.room) :
                          Under(x, scroll.first) => x \in scroll.seen \/ Below(x, c)
        /\ ~scroll.more =>
               \A x \in RowsOf(scroll.room) : Under(x, scroll.first) => x \in scroll.seen

ReadingInv == HistoryTypeOK /\ FromTopic /\ CopiesAreNumbered /\ ScrollInv

(* Offsets up to which the topic has been pushed.                          *)
Done == {o \in 1..Len(formal) :
            \/ o <= offset
            \/ pc # "down" /\ o <= pos - Len(msgBatch)
            \/ pc = "offset" /\ o <= pos}

DoneIn(r) == {formal[o] : o \in {p \in Done : formal[p].room = r}}

Full(C, v) == Cardinality({x \in C : x.seq > v}) >= CacheMax

(* A cache that holds D and is given C shows no hole where P is due.       *)
NoHole(P, C, D) ==
    \A x \in P : \A c \in C :
        c.seq < x.seq => x \in C \/ x \in D \/ Full(D, x.seq)

(* Neither a cache nor a fill on its way to it has a hole; while a fill is *)
(* untouched, the cache may still expire.                                  *)
CacheInv ==
    /\ \A r \in Rooms \ gappy : NoHole(DoneIn(r), cache[r], {})
    /\ \A f \in fills :
          /\ ~f.touched => NoHole(DoneIn(f.room), f.rows, {})
          /\ f.room \notin gappy => NoHole(DoneIn(f.room), f.rows, cache[f.room])

HistoryInv == IInv /\ ReadingInv /\ CacheInv

ByHistory(S) == {p \in S \X S : Below(p[1], p[2])}

BySeq(S) == {p \in S \X S : p[1].seq < p[2].seq}

-----------------------------------------------------------------------------
(* The rows of a room *)

(* The rows of a room are finite and have ids and numbers of their own.    *)
LEMMA RowFacts ==
  ASSUME IInv, FromTopic
  PROVE  /\ IsFiniteSet(store)
         /\ \A x \in store : /\ x.id \in Int /\ x.seq \in Int
                             /\ x \in Legacy => x.seq = 0
                             /\ x \notin Legacy => x.seq > 0 /\ x \in Records
         /\ \A x, y \in store : x.room = y.room /\ x # y =>
                /\ x.id # y.id
                /\ x.seq > 0 => x.seq # y.seq
<1>1. /\ Len(formal) \in Nat
      /\ \A o \in 1..Len(formal) :
             formal[o] \in Records /\ (formal[o].valid => formal[o].seq > 0)
  BY TopicFacts DEF IInv
<1>2. IsFiniteSet(store)
  <2> DEFINE T == {formal[o] : o \in 1..Len(formal)}
             f == [o \in 1..Len(formal) |-> formal[o]]
  <2>1. f \in Surjection(1..Len(formal), T)
    BY DEF Surjection
  <2>2. IsFiniteSet(T)
    BY <1>1, <2>1, FS_Surjection, FS_Interval
  <2>3. IsFiniteSet(T \cup Legacy)
    BY <2>2, FS_Union, HistoryAssumption DEF HistoryAssumption
  <2>4. store \subseteq T \cup Legacy
    BY DEF FromTopic
  <2> QED
    BY <2>3, <2>4, FS_Subset
<1>3. ASSUME NEW x \in store
      PROVE  /\ x.id \in Int /\ x.seq \in Int
             /\ x \in Legacy => x.seq = 0
             /\ x \notin Legacy => x.seq > 0 /\ x \in Records
  <2>1. x \in Records \cup Legacy
    BY DEF IInv, TypeOK
  <2>2. x \notin Legacy => x.seq > 0 /\ x \in Records
    BY <1>1 DEF FromTopic
  <2> QED
    BY <2>1, <2>2, HistoryAssumption, ArchiverAssumption DEF HistoryAssumption, ArchiverAssumption
<1>4. ASSUME NEW x \in store, NEW y \in store, x.room = y.room, x # y
      PROVE  x.id # y.id /\ (x.seq > 0 => x.seq # y.seq)
  <2>1. CASE x \in Legacy /\ y \in Legacy
    <3>1. x.id # y.id
      BY <1>4, <2>1, HistoryAssumption DEF HistoryAssumption
    <3>2. x.seq = 0
      BY <1>3, <2>1
    <3> QED
      BY <3>1, <3>2
  <2>2. CASE x \notin Legacy
    BY <1>3, <1>4, <2>2 DEF IInv, StoreIdentity, Conflict
  <2>3. CASE y \notin Legacy
    BY <1>3, <1>4, <2>3 DEF IInv, StoreIdentity, Conflict
  <2> QED
    BY <2>1, <2>2, <2>3
<1> QED
  BY <1>2, <1>3, <1>4

(* The rows of one room are in the order of history, those with numbers in *)
(* the order of the numbers; a page is the top of its rows.                *)
LEMMA RoomOrder ==
  ASSUME IInv, FromTopic, NEW r, NEW S \in SUBSET RowsOf(r)
  PROVE  /\ IsFiniteSet(S)
         /\ Order(ByHistory(S), S)
         /\ \A n : Newest(S, n) = Top(S, n, ByHistory(S))
         /\ (\A x \in S : x.seq > 0) => Order(BySeq(S), S)
         /\ Trim(S) = Top(S, CacheMax, BySeq(S))
<1>1. /\ IsFiniteSet(store) /\ S \subseteq store
      /\ \A x \in S : x.id \in Int /\ x.seq \in Int
      /\ \A x, y \in S : x # y => x.id # y.id /\ (x.seq > 0 => x.seq # y.seq)
  BY RowFacts DEF RowsOf
<1>2. IsFiniteSet(S)
  BY <1>1, FS_Subset
<1>3. \A x, y : /\ <<x, y>> \in ByHistory(S) <=> x \in S /\ y \in S /\ Below(x, y)
                /\ <<x, y>> \in BySeq(S) <=> x \in S /\ y \in S /\ x.seq < y.seq
  BY DEF ByHistory, BySeq
<1>4. Order(ByHistory(S), S)
  <2>1. \A x \in S : ~Below(x, x)
    BY <1>1 DEF Below
  <2>2. \A x, y, z \in S : Below(x, y) /\ Below(y, z) => Below(x, z)
    BY <1>1 DEF Below
  <2>3. \A x, y \in S : x # y => Below(x, y) \/ Below(y, x)
    BY <1>1 DEF Below
  <2> QED
    BY <1>3, <2>1, <2>2, <2>3 DEF Order
<1>5. ASSUME \A x \in S : x.seq > 0 PROVE Order(BySeq(S), S)
  <2>1. \A x \in S : ~(x.seq < x.seq)
    BY <1>1
  <2>2. \A x, y, z \in S : x.seq < y.seq /\ y.seq < z.seq => x.seq < z.seq
    BY <1>1
  <2>3. \A x, y \in S : x # y => x.seq < y.seq \/ y.seq < x.seq
    BY <1>1, <1>5
  <2> QED
    BY <1>3, <2>1, <2>2, <2>3 DEF Order
<1>6. ASSUME NEW n PROVE Newest(S, n) = Top(S, n, ByHistory(S))
  <2>1. \A x \in S : Above(x, S, ByHistory(S)) = {y \in S : Below(x, y)}
    BY <1>3 DEF Above
  <2> QED
    BY <2>1 DEF Newest, Top
<1>7. Trim(S) = Top(S, CacheMax, BySeq(S))
  <2>1. \A x \in S : Above(x, S, BySeq(S)) = {y \in S : y.seq > x.seq}
    BY <1>1, <1>3 DEF Above
  <2> QED
    BY <2>1 DEF Trim, Top
<1> QED
  BY <1>2, <1>4, <1>5, <1>6, <1>7

(* The page of a room's rows, and the message the client goes on from.     *)
LEMMA PageFacts ==
  ASSUME IInv, FromTopic, NEW r, NEW S \in SUBSET RowsOf(r), NEW n \in Nat
  PROVE  /\ Newest(S, n) \subseteq S
         /\ Cardinality(Newest(S, n)) = IF n <= Cardinality(S) THEN n ELSE Cardinality(S)
         /\ Cardinality(Newest(S, n)) # n => Newest(S, n) = S
         /\ \A x \in S, y \in Newest(S, n) :
                /\ Below(y, x) => x \in Newest(S, n)
                /\ x \notin Newest(S, n) => Below(x, y)
         /\ Newest(S, n) # {} =>
                /\ Oldest(Newest(S, n)) \in Newest(S, n)
                /\ \A x \in Newest(S, n) : ~Below(x, Oldest(Newest(S, n)))
<1>1. /\ IsFiniteSet(S) /\ Order(ByHistory(S), S)
      /\ Newest(S, n) = Top(S, n, ByHistory(S))
  BY RoomOrder
<1>2. PICK P : P = Newest(S, n)
  OBVIOUS
<1>3. P \subseteq S /\ IsFiniteSet(P) /\ Cardinality(S) \in Nat
  BY <1>1, <1>2, FS_Subset, FS_CardinalityType DEF Newest
<1>4. Cardinality(P) = IF n <= Cardinality(S) THEN n ELSE Cardinality(S)
  BY <1>1, <1>2, TopCount
<1>5. Cardinality(P) # n => P = S
  BY <1>1, <1>3, <1>4, FS_Subset
<1>6. \A x, y : <<x, y>> \in ByHistory(S) <=> x \in S /\ y \in S /\ Below(x, y)
  BY DEF ByHistory
<1>7. ASSUME NEW x \in S, NEW y \in P
      PROVE  /\ Below(y, x) => x \in P
             /\ x \notin P => Below(x, y)
  <2>1. /\ <<y, x>> \in ByHistory(S) => x \in P
        /\ x \notin P => <<x, y>> \in ByHistory(S)
    BY <1>1, <1>2, TopUp
  <2> QED
    BY <1>3, <1>6, <2>1
<1>8. ASSUME P # {} PROVE Oldest(P) \in P /\ \A x \in P : ~Below(x, Oldest(P))
  <2>1. Order(ByHistory(S), P)
    BY <1>1, <1>3 DEF Order
  <2>2. \E x \in P : \A y \in P : <<y, x>> \notin ByHistory(S)
    BY <1>3, <1>8, <2>1, HasLeast
  <2>3. \E x \in P : \A y \in P : ~Below(y, x)
    BY <1>3, <1>6, <2>2
  <2> QED
    BY <2>3 DEF Oldest
<1> QED
  BY <1>2, <1>3, <1>4, <1>5, <1>7, <1>8

-----------------------------------------------------------------------------
(* How the rows grow *)

(* The keys of the messages a bulk has upserted are known.                 *)
LEMMA UpsertedKeys ==
  ASSUME IInv, NEW n \in 0..Len(msgBatch)
  PROVE  /\ store \subseteq Upserted(n)
         /\ \A x \in Upserted(n) \ store :
                \E i \in 1..n : x = msgBatch[i] /\ ~HasKey(store, x.key)
         /\ \A j \in 1..n : HasKey(Upserted(n), msgBatch[j].key)
<1> DEFINE New(i) == /\ ~HasKey(store, msgBatch[i].key)
                     /\ \A j \in 1..(i - 1) : msgBatch[j].key # msgBatch[i].key
           D == {j \in Nat : \A k \in 1..n : k <= j => HasKey(Upserted(n), msgBatch[k].key)}
<1>1. \A x : x \in Upserted(n) <=> x \in store \/ \E i \in 1..n : x = msgBatch[i] /\ New(i)
  BY DEF Upserted
<1>2. Len(msgBatch) \in Nat /\ n \in Nat
  BY TopicFacts DEF IInv
<1>3. 0 \in D
  BY <1>2
<1>4. ASSUME NEW j \in Nat, j \in D PROVE j + 1 \in D
  <2>1. ASSUME NEW k \in 1..n, k = j + 1 PROVE HasKey(Upserted(n), msgBatch[k].key)
    <3>1. CASE HasKey(store, msgBatch[k].key)
      BY <1>1, <3>1 DEF HasKey
    <3>2. CASE New(k)
      <4>1. msgBatch[k] \in Upserted(n)
        BY <1>1, <3>2
      <4> QED
        BY <4>1 DEF HasKey
    <3>3. ASSUME NEW i \in 1..(k - 1), msgBatch[i].key = msgBatch[k].key
          PROVE  HasKey(Upserted(n), msgBatch[k].key)
      <4>1. i \in 1..n /\ i <= j
        BY <1>2, <2>1
      <4>2. HasKey(Upserted(n), msgBatch[i].key)
        BY <1>4, <4>1
      <4> QED
        BY <3>3, <4>2
    <3> QED
      BY <3>1, <3>2, <3>3
  <2>2. ASSUME NEW k \in 1..n, k <= j + 1 PROVE HasKey(Upserted(n), msgBatch[k].key)
    <3>1. k <= j \/ k = j + 1
      BY <1>2, <1>4, <2>2
    <3> QED
      BY <1>4, <2>1, <3>1
  <2> QED
    BY <1>4, <2>2
<1> HIDE DEF D
<1>5. Nat \subseteq D
  BY <1>3, <1>4, AllNumbers
<1>6. \A j \in 1..n : HasKey(Upserted(n), msgBatch[j].key)
  <2>1. n \in D
    BY <1>2, <1>5
  <2> QED
    BY <1>2, <2>1 DEF D
<1>7. ASSUME NEW x \in Upserted(n) \ store
      PROVE  \E i \in 1..n : x = msgBatch[i] /\ ~HasKey(store, x.key)
  BY <1>1
<1> QED
  BY <1>1, <1>6, <1>7

(* A save adds a prefix of the batch; what is new has a key no row had.    *)
LEMMA SaveRows ==
  ASSUME IInv, Save \/ SaveFails
  PROVE  /\ UNCHANGED formal
         /\ pc = "save"
         /\ store \subseteq store'
         /\ \E n \in 0..Len(msgBatch) :
                /\ \A x \in store' \ store :
                       \E i \in 1..n : x = msgBatch[i] /\ ~HasKey(store, x.key)
                /\ \A j \in 1..n : HasKey(store', msgBatch[j].key)
<1> DEFINE Grows == \E n \in 0..Len(msgBatch) :
                        /\ \A x \in store' \ store :
                               \E i \in 1..n : x = msgBatch[i] /\ ~HasKey(store, x.key)
                        /\ \A j \in 1..n : HasKey(store', msgBatch[j].key)
<1>1. Len(msgBatch) \in Nat /\ InBatch = {msgBatch[i] : i \in 1..Len(msgBatch)}
  BY TopicFacts DEF IInv
<1>2. CASE UNCHANGED store
  <2>1. 0 \in 0..Len(msgBatch) /\ \A j \in 1..0 : FALSE
    BY <1>1
  <2> QED
    BY <1>2, <2>1 DEF Save, SaveFails
<1>3. CASE /\ ~\E m \in InBatch : \E x \in store \cup InBatch : Conflict(m, x)
           /\ store' = store \cup InBatch
  <2>1. ASSUME NEW x \in store' \ store
        PROVE  \E i \in 1..Len(msgBatch) : x = msgBatch[i] /\ ~HasKey(store, x.key)
    <3>1. PICK i \in 1..Len(msgBatch) : x = msgBatch[i]
      BY <1>1, <1>3, <2>1
    <3>2. \A y \in store : x # y /\ ~Conflict(x, y)
      BY <1>1, <1>3, <2>1, <3>1
    <3>3. ~HasKey(store, x.key)
      BY <3>2 DEF HasKey, Conflict
    <3> QED
      BY <3>1, <3>3
  <2>2. \A j \in 1..Len(msgBatch) : HasKey(store', msgBatch[j].key)
    BY <1>1, <1>3 DEF HasKey
  <2>3. Len(msgBatch) \in 0..Len(msgBatch)
    BY <1>1
  <2>4. Grows
    BY <2>1, <2>2, <2>3
  <2> QED
    BY <1>3, <2>4 DEF Save, SaveFails
<1>4. ASSUME NEW n \in 0..Len(msgBatch), store' = Upserted(n)
      PROVE  store \subseteq store' /\ Grows
  BY <1>4, UpsertedKeys
<1>5. CASE Save /\ backend = "mongo"
  <2>1. \E n \in 0..Len(msgBatch) : store' = Upserted(n)
    <3>1. \A n \in 1..Len(msgBatch) : n - 1 \in 0..Len(msgBatch)
      BY <1>1
    <3>2. Len(msgBatch) \in 0..Len(msgBatch)
      BY <1>1
    <3> QED
      BY <1>5, <3>1, <3>2 DEF Save, SaveMongo
  <2> QED
    BY <1>4, <1>5, <2>1 DEF Save
<1>6. CASE Save /\ backend = "mysql"
  BY <1>2, <1>3, <1>6 DEF Save, SaveMySQL
<1>7. CASE SaveFails
  <2>1. \/ UNCHANGED store
        \/ /\ ~\E m \in InBatch : \E x \in store \cup InBatch : Conflict(m, x)
           /\ store' = store \cup InBatch
        \/ \E n \in 0..Len(msgBatch) : store' = Upserted(n)
    BY <1>7 DEF SaveFails
  <2> QED
    BY <1>2, <1>3, <1>4, <1>7, <2>1 DEF SaveFails
<1> QED
  BY <1>5, <1>6, <1>7 DEF Save

(* A new row is above all rows of its room.                                *)
LEMMA NewRowsAbove ==
  ASSUME IInv, FromTopic, Save \/ SaveFails
  PROVE  /\ FromTopic'
         /\ \A x \in store' \ store, y \in store : x.room = y.room => Below(y, x)
         /\ \A x \in store' \ store : x \in Records /\ x.seq > 0
<1>1. /\ UNCHANGED formal /\ pc = "save" /\ store \subseteq store'
  BY SaveRows
<1>2. PICK n \in 0..Len(msgBatch) :
          /\ \A x \in store' \ store :
                 \E i \in 1..n : x = msgBatch[i] /\ ~HasKey(store, x.key)
          /\ \A j \in 1..n : HasKey(store', msgBatch[j].key)
  BY SaveRows
<1>3. PICK start : start = pos - Len(msgBatch)
  OBVIOUS
<1>4. /\ start \in Nat /\ Len(msgBatch) \in Nat /\ Len(formal) \in Nat
      /\ start + Len(msgBatch) <= Len(formal)
      /\ \A p \in 1..start : formal[p].valid /\ formal[p] \in store
      /\ \A i \in 1..Len(msgBatch) : msgBatch[i].valid /\ msgBatch[i] = formal[start + i]
  BY <1>1, <1>3, TopicFacts DEF IInv, BatchIsRead, Stored, TypeOK
<1>5. DOMAIN formal = 1..Len(formal) /\ formal \in Logs
  BY TopicFacts DEF IInv, TypeOK
<1>6. \A k : HasKey(store, k) => HasKey(store', k)
  BY <1>1 DEF HasKey
<1>7. ASSUME NEW x \in store' \ store
      PROVE  \E q \in 1..Len(formal) :
                 /\ x = formal[q] /\ x.valid /\ x \in Records /\ x.seq > 0
                 /\ \A p \in 1..(q - 1) : HasKey(store', formal[p].key)
  <2>1. PICK i \in 1..n : x = msgBatch[i]
    BY <1>2
  <2>2. PICK q : q = start + i
    OBVIOUS
  <2>3. q \in 1..Len(formal) /\ x = formal[q] /\ x.valid
    BY <1>4, <2>1, <2>2
  <2>4. ASSUME NEW p \in 1..(q - 1) PROVE HasKey(store', formal[p].key)
    <3>1. CASE p <= start
      <4>1. formal[p] \in store'
        BY <1>1, <1>4, <2>2, <3>1
      <4> QED
        BY <4>1 DEF HasKey
    <3>2. CASE p > start
      <4>1. PICK j : j = p - start
        OBVIOUS
      <4>2. j \in 1..n /\ start + j = p
        BY <1>4, <2>1, <2>2, <3>2, <4>1
      <4>3. formal[p] = msgBatch[j]
        BY <1>4, <4>2
      <4> QED
        BY <1>2, <4>2, <4>3
    <3> QED
      BY <1>4, <3>1, <3>2
  <2> QED
    BY <2>3, <2>4, TopicFacts DEF IInv
<1>8. FromTopic'
  <2>1. ASSUME NEW x \in store' \ Legacy
        PROVE  \E q \in 1..Len(formal) :
                 /\ x = formal[q] /\ x.valid
                 /\ \A p \in 1..(q - 1) : HasKey(store', formal[p].key)
    <3>1. CASE x \in store
      BY <1>6, <2>1, <3>1 DEF FromTopic
    <3>2. CASE x \notin store
      BY <1>7, <2>1, <3>2
    <3> QED
      BY <3>1, <3>2
  <2> QED
    BY <1>1, <2>1 DEF FromTopic
<1>9. ASSUME NEW x \in store' \ store, NEW y \in store, x.room = y.room
      PROVE  Below(y, x)
  <2>1. PICK p \in 1..Len(formal) : x = formal[p] /\ x.valid /\ x \in Records /\ x.seq > 0
    BY <1>7
  <2>2. x.seq \in Int /\ y.seq \in Int
    BY <2>1, RowFacts, HistoryAssumption DEF HistoryAssumption
  <2>3. CASE y \in Legacy
    BY <2>1, <2>2, <2>3, RowFacts DEF Below
  <2>4. CASE y \notin Legacy
    <3>1. PICK q \in 1..Len(formal) :
              /\ y = formal[q] /\ y.valid
              /\ \A k \in 1..(q - 1) : HasKey(store, formal[k].key)
      BY <2>4 DEF FromTopic
    <3>2. ~HasKey(store, x.key)
      BY <1>2
    <3>3. SUFFICES ASSUME x.seq <= y.seq PROVE FALSE
      BY <2>2 DEF Below
    <3>4. PICK i \in 1..q : formal[i] = x
      BY <1>5, <1>9, <2>1, <3>1, <3>3, HistoryAssumption DEF HistoryAssumption
    <3>5. i = q \/ i \in 1..(q - 1)
      BY <1>4, <3>1, <3>4
    <3> QED
      BY <1>9, <3>1, <3>2, <3>4, <3>5
  <2> QED
    BY <2>3, <2>4
<1> QED
  BY <1>7, <1>8, <1>9

-----------------------------------------------------------------------------
(* Steps seen from the store and the cache *)

(* A step of the archiver stores rows above all those of their rooms.      *)
LEMMA WorkerRows ==
  ASSUME IInv, FromTopic, [Next]_vars
  PROVE  /\ IInv' /\ FromTopic' /\ UNCHANGED formal
         /\ store \subseteq store'
         /\ \A x \in store' \ store, y \in store : x.room = y.room => Below(y, x)
<1>1. IInv'
  BY ReadInv, NewWorkerInv, SaveInv, CopyInv, OffsetInv, QuietInv DEF Next, WorkerStep
<1>2. CASE Save \/ SaveFails
  BY <1>1, <1>2, NewRowsAbove, SaveRows
<1>3. CASE UNCHANGED <<store, formal>>
  BY <1>1, <1>3 DEF FromTopic, HasKey
<1> QED
  BY <1>2, <1>3 DEF Next, WorkerStep, NewWorker, Read, Flush, Exit, IndexBatch, PushLatest,
     SaveOffset, SaveOffsetFails, Shutdown, Crash, vars, workerVars

(* A step of a reader or of Redis, which changes at most the cache.        *)
LEMMA CacheStep ==
  ASSUME IInv, FromTopic, UNCHANGED <<formal, backend, store, index, offset, workerVars>>,
         faults' \in 0..MaxFaults, cache' \in [Rooms -> SUBSET Records],
         \A r \in Rooms : cache'[r] \subseteq RowsOf(r)
  PROVE  IInv' /\ FromTopic'
<1>1. UNCHANGED <<formal, backend, store, index, offset, pc, ctxDone, pos, msgBatch, lastOffset>>
  BY DEF workerVars
<1>2. TypeOK'
  BY <1>1 DEF IInv, TypeOK
<1>3. BatchIsRead' /\ FlushHasBatch'
  BY <1>1 DEF IInv, BatchIsRead, Stored, FlushHasBatch, InBatch
<1>4. OffsetIsStored' /\ CopiesAreStored' /\ StoreIdentity'
  BY <1>1 DEF IInv, OffsetIsStored, CopiesAreStored, StoreIdentity, Conflict, RowsOf
<1>5. FromTopic'
  BY <1>1 DEF FromTopic, HasKey
<1> QED
  BY <1>2, <1>3, <1>4, <1>5 DEF IInv

(* Rows pushed into the cache are rows of the store with a number.         *)
LEMMA AddedRows ==
  ASSUME IInv, NEW rows \in SUBSET Records, rows \subseteq store,
         \A x \in rows : x.seq > 0, CopiesAreNumbered, cache' = AddToCache(rows)
  PROVE  /\ cache' \in [Rooms -> SUBSET Records]
         /\ \A r \in Rooms : /\ cache'[r] \subseteq RowsOf(r)
                             /\ \A x \in cache'[r] : x.seq > 0
<1>1. ASSUME NEW r \in Rooms
      PROVE  /\ Trim(cache[r] \cup {m \in rows : m.room = r}) \subseteq Records
             /\ Trim(cache[r] \cup {m \in rows : m.room = r}) \subseteq RowsOf(r)
             /\ \A x \in Trim(cache[r] \cup {m \in rows : m.room = r}) : x.seq > 0
  <2>1. /\ cache[r] \subseteq Records /\ cache[r] \subseteq {x \in store : x.room = r}
        /\ \A x \in cache[r] : x.seq > 0
    BY DEF IInv, TypeOK, CopiesAreStored, CopiesAreNumbered
  <2>2. \A S : Trim(S) \subseteq S
    BY DEF Trim
  <2> QED
    BY <2>1, <2>2 DEF RowsOf
<1> QED
  BY <1>1 DEF AddToCache

(* What the worker pushes: messages of its batch, all of them unless the   *)
(* call fails.                                                             *)
LEMMA PushFacts ==
  ASSUME IInv, PushLatest
  PROVE  \E rows \in SUBSET InBatch :
             /\ cache' = AddToCache(rows)
             /\ faults' = faults => rows = InBatch
<1>1. CASE cache' = AddToCache(InBatch) /\ UNCHANGED faults
  BY <1>1
<1>2. ASSUME Fault, NEW n \in 0..(Len(msgBatch) - 1),
             cache' = AddToCache({msgBatch[i] : i \in 1..n})
      PROVE  \E rows \in SUBSET InBatch :
                 cache' = AddToCache(rows) /\ (faults' = faults => rows = InBatch)
  <2>1. {msgBatch[i] : i \in 1..n} \subseteq InBatch
    BY <1>2, TopicFacts DEF IInv
  <2>2. faults' # faults
    BY <1>2, ArchiverAssumption DEF Fault, IInv, TypeOK, ArchiverAssumption
  <2> QED
    BY <1>2, <2>1, <2>2
<1> QED
  BY <1>1, <1>2 DEF PushLatest

(* Every message of the batch has a number and a room.                     *)
LEMMA BatchRows ==
  ASSUME IInv, pc # "down"
  PROVE  /\ \A x \in InBatch : x.seq > 0 /\ x.room \in Rooms /\ x \in Records
         /\ \A i \in 1..Len(msgBatch) : /\ msgBatch[i].seq > 0 /\ msgBatch[i].room \in Rooms
                                        /\ msgBatch[i] \in InBatch
<1>1. ASSUME NEW i \in 1..Len(msgBatch)
      PROVE  msgBatch[i].seq > 0 /\ msgBatch[i].room \in Rooms
  <2>1. /\ Len(msgBatch) <= pos /\ pos <= Len(formal) /\ pos \in Nat
        /\ msgBatch[i].valid /\ msgBatch[i] = formal[pos - Len(msgBatch) + i]
    BY TopicFacts DEF IInv, BatchIsRead, TypeOK
  <2>2. pos - Len(msgBatch) + i \in 1..Len(formal)
    BY <2>1, TopicFacts DEF IInv
  <2> QED
    BY <2>1, <2>2, TopicFacts DEF IInv
<1> QED
  BY <1>1, TopicFacts DEF IInv

(* A push that crosses a fill only marks that fill.                        *)
LEMMA TouchFacts ==
  ASSUME NEW F \in SUBSET Fill, NEW rs, NEW g \in Touch(F, rs)
  PROVE  /\ g \in Fill
         /\ \E f \in F : /\ g.room = f.room /\ g.rows = f.rows
                         /\ f.room \in rs => g.touched
                         /\ f.room \notin rs => g = f
<1>1. PICK f \in F : g = IF f.room \in rs THEN [f EXCEPT !.touched = TRUE] ELSE f
  BY DEF Touch
<1>2. f \in Fill
  OBVIOUS
<1>3. CASE f.room \in rs
  <2>1. g.room = f.room /\ g.rows = f.rows /\ g.touched = TRUE /\ g \in Fill
    BY <1>1, <1>2, <1>3 DEF Fill
  <2> QED
    BY <1>3, <2>1
<1>4. CASE f.room \notin rs
  BY <1>1, <1>2, <1>4
<1> QED
  BY <1>3, <1>4

(* The reader's place stays good while the store grows at its upper end.   *)
LEMMA ScrollStays ==
  ASSUME IInv, FromTopic, ScrollInv, UNCHANGED scroll, store \subseteq store',
         \A x \in store' \ store, y \in store : x.room = y.room => Below(y, x),
         IInv', FromTopic'
  PROVE  ScrollInv'
<1>1. SUFFICES ASSUME scroll # << >>, scroll.first # {}
      PROVE  /\ scroll.first \subseteq RowsOf(scroll.room)'
             /\ scroll.more =>
                    \E c \in RowsOf(scroll.room)' :
                        /\ c.id = scroll.cursor
                        /\ \A x \in RowsOf(scroll.room)' :
                               Under(x, scroll.first) => x \in scroll.seen \/ Below(x, c)
             /\ ~scroll.more =>
                    \A x \in RowsOf(scroll.room)' :
                        Under(x, scroll.first) => x \in scroll.seen
  BY DEF ScrollInv
<1>2. PICK f \in scroll.first : f \in RowsOf(scroll.room)
  BY <1>1 DEF ScrollInv
<1>3. RowsOf(scroll.room) \subseteq RowsOf(scroll.room)'
  BY DEF RowsOf
<1>4. \A x \in store' : x.seq \in Int /\ x.id \in Int
  <2>1. \A x \in store' : x \in Records \cup Legacy
    BY DEF IInv, TypeOK
  <2> QED
    BY <2>1, HistoryAssumption DEF HistoryAssumption
<1>5. ASSUME NEW x \in RowsOf(scroll.room)', Under(x, scroll.first)
      PROVE  x \in RowsOf(scroll.room)
  <2>1. Below(x, f)
    BY <1>5 DEF Under
  <2>2. x \in store' /\ f \in store /\ f \in store' /\ x.room = f.room
    BY <1>2 DEF RowsOf
  <2>3. ~Below(f, x)
    BY <1>4, <2>1, <2>2 DEF Below
  <2> QED
    BY <1>2, <2>2, <2>3 DEF RowsOf
<1> QED
  BY <1>1, <1>3, <1>5 DEF ScrollInv


(* A first page from the cache is full; one from the store is full or all  *)
(* there is.                                                               *)
LEMMA FirstPageKeeps ==
  ASSUME IInv, FromTopic, UNCHANGED store, NEW r \in Rooms, NEW n \in Limits,
         NEW S \in SUBSET RowsOf(r), S = RowsOf(r) \/ n <= Cardinality(S),
         Begin(r, n, Newest(S, n))
  PROVE  ScrollInv' /\ scroll' \in Scroll
<1>1. PICK page : page = Newest(S, n)
  OBVIOUS
<1>2. n \in Nat \ {0}
  BY HistoryAssumption DEF HistoryAssumption
<1>3. scroll' = [room |-> r, limit |-> n, first |-> page, seen |-> page,
                 cursor |-> IF page = {} THEN 0 ELSE Oldest(page).id,
                 more |-> Cardinality(page) = n]
  BY <1>1 DEF Begin
<1>4. /\ page \subseteq S
      /\ Cardinality(page) = IF n <= Cardinality(S) THEN n ELSE Cardinality(S)
      /\ Cardinality(page) # n => page = S
      /\ page # {} => Oldest(page) \in page
  BY <1>1, <1>2, PageFacts
<1>5. S \subseteq store /\ \A x \in S : x \in Records \cup Legacy /\ x.id \in Int
  BY RowFacts DEF RowsOf, IInv, TypeOK
<1>6. scroll' \in Scroll
  <2>1. (IF page = {} THEN 0 ELSE Oldest(page).id) \in Int
    BY <1>4, <1>5
  <2>2. page \subseteq Records \cup Legacy
    BY <1>4, <1>5
  <2>3. (Cardinality(page) = n) \in BOOLEAN
    OBVIOUS
  <2> QED
    BY <1>3, <2>1, <2>2, <2>3 DEF Scroll
<1>7. RowsOf(r)' = RowsOf(r)
  BY DEF RowsOf
<1>8. CASE Cardinality(page) = n
  <2>1. page # {}
    BY <1>2, <1>8, FS_EmptySet
  <2>2. Oldest(page) \in RowsOf(r)
    BY <1>4, <2>1
  <2>3. \A x : Under(x, page) => Below(x, Oldest(page))
    BY <1>4, <2>1 DEF Under
  <2>4. /\ scroll'.room = r /\ scroll'.first = page /\ scroll'.more
        /\ scroll'.cursor = Oldest(page).id
    BY <1>3, <1>8, <2>1
  <2> QED
    BY <1>4, <1>6, <1>7, <2>2, <2>3, <2>4 DEF ScrollInv
<1>9. CASE Cardinality(page) # n
  <2>1. page = RowsOf(r)
    BY <1>4, <1>9
  <2>2. /\ scroll'.room = r /\ scroll'.first = page /\ ~scroll'.more
        /\ scroll'.seen = page
    BY <1>3, <1>9
  <2> QED
    BY <1>6, <1>7, <2>1, <2>2 DEF ScrollInv
<1> QED
  BY <1>6, <1>8, <1>9

(* A page further down goes on where the page before it ended.             *)
LEMMA OlderPageKeeps ==
  ASSUME IInv, FromTopic, ScrollInv, scroll \in Scroll \cup {<< >>}, OlderPage
  PROVE  ScrollInv' /\ scroll' \in Scroll
<1>1. /\ scroll # << >> /\ scroll \in Scroll /\ scroll.more /\ UNCHANGED store
  BY DEF OlderPage, vars
<1>2. PICK r, n, S, page :
          /\ r = scroll.room /\ n = scroll.limit
          /\ S = Older(scroll.room, scroll.cursor) /\ page = Newest(S, n)
  OBVIOUS
<1>3. r \in Rooms /\ n \in Nat \ {0} /\ S \in SUBSET RowsOf(r)
  BY <1>1, <1>2, HistoryAssumption DEF HistoryAssumption, Scroll, Older
<1>4. scroll' = [scroll EXCEPT
                   !.seen = @ \cup page,
                   !.cursor = IF page = {} THEN 0 ELSE Oldest(page).id,
                   !.more = Cardinality(page) = n]
  BY <1>2 DEF OlderPage
<1>5. /\ page \subseteq S
      /\ Cardinality(page) # n => page = S
      /\ \A x \in S, y \in page : x \notin page => Below(x, y)
      /\ page # {} => Oldest(page) \in page
  <2>1. n \in Nat
    BY <1>3
  <2>2. /\ Newest(S, n) \subseteq S
        /\ Cardinality(Newest(S, n)) # n => Newest(S, n) = S
        /\ \A x \in S, y \in Newest(S, n) : x \notin Newest(S, n) => Below(x, y)
        /\ Newest(S, n) # {} => Oldest(Newest(S, n)) \in Newest(S, n)
    BY <1>3, <2>1, PageFacts
  <2>3. page = Newest(S, n)
    BY <1>2
  <2> QED
    BY <2>2, <2>3
<1>6. S \subseteq store /\ \A x \in S : x \in Records \cup Legacy /\ x.id \in Int
  BY <1>3, RowFacts DEF RowsOf, IInv, TypeOK
<1>7. /\ scroll'.room = r /\ scroll'.first = scroll.first
      /\ scroll'.seen = scroll.seen \cup page
      /\ scroll'.cursor = IF page = {} THEN 0 ELSE Oldest(page).id
      /\ scroll'.more = (Cardinality(page) = n)
      /\ scroll' \in Scroll
  <2>1. (IF page = {} THEN 0 ELSE Oldest(page).id) \in Int
    BY <1>5, <1>6
  <2>2. scroll.seen \cup page \subseteq Records \cup Legacy
    BY <1>1, <1>5, <1>6 DEF Scroll
  <2>3. (Cardinality(page) = n) \in BOOLEAN
    OBVIOUS
  <2> QED
    BY <1>1, <1>2, <1>4, <2>1, <2>2, <2>3 DEF Scroll
<1>8. RowsOf(r)' = RowsOf(r)
  BY <1>1 DEF RowsOf
<1>9. CASE scroll.first = {}
  BY <1>7, <1>9 DEF ScrollInv
<1>10. CASE scroll.first # {}
  <2>1. PICK c \in RowsOf(r) :
            /\ c.id = scroll.cursor
            /\ \A x \in RowsOf(r) : Under(x, scroll.first) => x \in scroll.seen \/ Below(x, c)
    BY <1>1, <1>2, <1>10 DEF ScrollInv
  <2>2. scroll.first \subseteq RowsOf(r)
    BY <1>1, <1>2, <1>10 DEF ScrollInv
  <2>3. {x \in RowsOf(r) : x.id = scroll.cursor} = {c}
    BY <2>1, RowFacts DEF RowsOf
  <2>4. \A x \in RowsOf(r) : Below(x, c) => x \in S
    BY <1>2, <2>3 DEF Older
  <2>5. CASE Cardinality(page) = n
    <3>1. page # {}
      BY <1>3, <2>5, FS_EmptySet
    <3>2. Oldest(page) \in RowsOf(r) /\ Oldest(page) \in page
      BY <1>3, <1>5, <3>1
    <3>3. ASSUME NEW x \in RowsOf(r), Under(x, scroll.first)
          PROVE  x \in scroll.seen \cup page \/ Below(x, Oldest(page))
      BY <1>5, <2>1, <2>4, <3>2, <3>3
    <3> QED
      BY <1>7, <1>8, <2>2, <2>5, <3>1, <3>2, <3>3 DEF ScrollInv
  <2>6. CASE Cardinality(page) # n
    <3>1. \A x \in RowsOf(r) : Under(x, scroll.first) => x \in scroll.seen \cup page
      BY <1>5, <2>1, <2>4, <2>6
    <3> QED
      BY <1>7, <1>8, <2>2, <2>6, <3>1 DEF ScrollInv
  <2> QED
    BY <2>5, <2>6
<1> QED
  BY <1>7, <1>9, <1>10


(* Saving, indexing and committing leave the pages alone.                  *)
LEMMA OtherWorkReads ==
  ASSUME IInv, ReadingInv, OtherWork
  PROVE  IInv' /\ ReadingInv'
<1>1. [Next]_vars /\ UNCHANGED <<cache, fills, scroll, gappy>>
  BY DEF OtherWork, readVars, Next, WorkerStep, NewWorker, Read, Flush, Exit, Save, SaveFails,
         IndexBatch, SaveOffset, SaveOffsetFails, Shutdown, Crash
<1>2. /\ IInv' /\ FromTopic' /\ store \subseteq store'
      /\ \A x \in store' \ store, y \in store : x.room = y.room => Below(y, x)
  BY <1>1, WorkerRows DEF ReadingInv
<1>3. ScrollInv'
  BY <1>1, <1>2, ScrollStays DEF ReadingInv
<1>4. HistoryTypeOK'
  BY <1>1 DEF ReadingInv, HistoryTypeOK
<1>5. CopiesAreNumbered'
  BY <1>1, <1>2 DEF ReadingInv, CopiesAreNumbered, RowsOf
<1> QED
  BY <1>2, <1>3, <1>4, <1>5 DEF ReadingInv

(* Touched fills are fills of the same rows.                               *)
LEMMA TouchReads ==
  ASSUME fills \subseteq Fill, CopiesAreNumbered, NEW F \in SUBSET fills, NEW rs,
         fills' = Touch(F, rs), UNCHANGED store,
         \A r \in Rooms : \A x \in cache'[r] : x.seq > 0
  PROVE  fills' \subseteq Fill /\ CopiesAreNumbered'
<1>1. ASSUME NEW g \in fills'
      PROVE  g \in Fill /\ \A x \in g.rows : x \in RowsOf(g.room) /\ x.seq > 0
  <2>1. g \in Fill /\ \E f \in F : g.room = f.room /\ g.rows = f.rows
    BY <1>1, TouchFacts
  <2> QED
    BY <2>1 DEF CopiesAreNumbered
<1>2. \A r : RowsOf(r)' = RowsOf(r)
  BY DEF RowsOf
<1> QED
  BY <1>1, <1>2 DEF CopiesAreNumbered

(* So does a push into the cache while pages are read.                     *)
LEMMA PushReads ==
  ASSUME IInv, ReadingInv, PushWhileRead
  PROVE  IInv' /\ ReadingInv'
<1>1. /\ PushLatest /\ UNCHANGED <<store, formal, scroll>> /\ pc = "cache"
      /\ fills' = Touch(fills, {m.room : m \in InBatch})
      /\ gappy' \subseteq gappy \cup {m.room : m \in InBatch} \cup Repeated
  BY DEF PushWhileRead, PushLatest
<1>2. IInv'
  BY <1>1, CopyInv
<1>3. PICK rows \in SUBSET InBatch : cache' = AddToCache(rows)
  BY <1>1, PushFacts
<1>4. /\ \A x \in InBatch : x.seq > 0 /\ x.room \in Rooms /\ x \in Records
      /\ \A i \in 1..Len(msgBatch) : msgBatch[i].room \in Rooms
  BY <1>1, BatchRows
<1>5. /\ cache' \in [Rooms -> SUBSET Records]
      /\ \A r \in Rooms : \A x \in cache'[r] : x.seq > 0
  <2>1. rows \subseteq store /\ rows \in SUBSET Records /\ \A x \in rows : x.seq > 0
    BY <1>1, <1>4 DEF IInv, FlushHasBatch
  <2> QED
    BY <1>3, <2>1, AddedRows DEF ReadingInv
<1>6. fills' \subseteq Fill /\ CopiesAreNumbered'
  <2>1. fills \subseteq Fill /\ CopiesAreNumbered
    BY DEF ReadingInv, HistoryTypeOK
  <2>2. fills \in SUBSET fills
    OBVIOUS
  <2> QED
    BY <1>1, <1>5, <2>1, <2>2, TouchReads
<1>7. HistoryTypeOK'
  <2>1. Repeated \subseteq Rooms
    BY <1>4, TopicFacts DEF Repeated, IInv
  <2> QED
    BY <1>1, <1>4, <1>6, <2>1 DEF ReadingInv, HistoryTypeOK
<1>8. FromTopic' /\ ScrollInv'
  <2>1. FromTopic'
    BY <1>1 DEF ReadingInv, FromTopic, HasKey
  <2> QED
    BY <1>1, <1>2, <2>1, ScrollStays DEF ReadingInv
<1> QED
  BY <1>2, <1>6, <1>7, <1>8 DEF ReadingInv

(* What a failed background fill has written is part of its rows.          *)
LEMMA FillFacts ==
  ASSUME NEW f \in fills, BackfillRoomCache(f)
  PROVE  /\ \/ cache' = AddToCache(f.rows) /\ UNCHANGED gappy
            \/ /\ \E rows \in SUBSET f.rows : cache' = AddToCache(rows)
               /\ gappy' = gappy \cup {f.room}
         /\ fills' = Touch(fills \ {f}, {f.room})
         /\ UNCHANGED <<formal, backend, store, index, offset, workerVars, scroll>>
         /\ faults' = faults \/ Fault
<1>1. \A n : f.rows \ n \in SUBSET f.rows
  OBVIOUS
<1> QED
  BY <1>1 DEF BackfillRoomCache

(* So does a background fill of the cache.                                 *)
LEMMA FillReads ==
  ASSUME IInv, ReadingInv, NEW f \in fills, BackfillRoomCache(f)
  PROVE  IInv' /\ ReadingInv'
<1>1. /\ UNCHANGED <<formal, backend, store, index, offset, workerVars, scroll>>
      /\ fills' = Touch(fills \ {f}, {f.room})
      /\ gappy' \subseteq gappy \cup {f.room}
      /\ f \in Fill
      /\ faults' = faults \/ Fault
  BY FillFacts DEF ReadingInv, HistoryTypeOK
<1>2. PICK rows \in SUBSET f.rows : cache' = AddToCache(rows)
  BY FillFacts
<1>3. faults' \in 0..MaxFaults
  BY <1>1, ArchiverAssumption DEF IInv, TypeOK, Fault, ArchiverAssumption
<1>4. /\ cache' \in [Rooms -> SUBSET Records]
      /\ \A r \in Rooms : cache'[r] \subseteq RowsOf(r)
      /\ \A r \in Rooms : \A x \in cache'[r] : x.seq > 0
  <2>1. rows \subseteq store /\ rows \in SUBSET Records /\ \A x \in rows : x.seq > 0
    BY <1>1, <1>2 DEF ReadingInv, CopiesAreNumbered, RowsOf, Fill
  <2> QED
    BY <1>2, <2>1, AddedRows DEF ReadingInv
<1>5. IInv' /\ FromTopic'
  BY <1>1, <1>3, <1>4, CacheStep DEF ReadingInv
<1>6. fills' \subseteq Fill /\ CopiesAreNumbered'
  <2>1. fills \subseteq Fill /\ CopiesAreNumbered
    BY DEF ReadingInv, HistoryTypeOK
  <2>2. fills \ {f} \in SUBSET fills
    OBVIOUS
  <2> QED
    BY <1>1, <1>4, <2>1, <2>2, TouchReads
<1>7. HistoryTypeOK'
  BY <1>1, <1>6 DEF ReadingInv, HistoryTypeOK, Fill
<1>8. ScrollInv'
  BY <1>1, <1>5, ScrollStays DEF ReadingInv
<1> QED
  BY <1>5, <1>6, <1>7, <1>8 DEF ReadingInv

(* And so does the expiry of a room's cache.                               *)
LEMMA ExpireReads ==
  ASSUME IInv, ReadingInv, NEW r \in Rooms, Expire(r)
  PROVE  IInv' /\ ReadingInv'
<1>1. /\ UNCHANGED <<formal, backend, store, index, offset, workerVars, faults, fills, scroll>>
      /\ cache' = [cache EXCEPT ![r] = {}]
      /\ gappy' = gappy \ {r}
  BY DEF Expire
<1>2. \A s \in Rooms : cache'[s] = IF s = r THEN {} ELSE cache[s]
  BY <1>1 DEF IInv, TypeOK
<1>3. /\ cache' \in [Rooms -> SUBSET Records]
      /\ \A s \in Rooms : cache'[s] \subseteq RowsOf(s)
      /\ faults' \in 0..MaxFaults
  BY <1>1, <1>2 DEF IInv, TypeOK, CopiesAreStored, RowsOf
<1>4. IInv' /\ FromTopic'
  BY <1>1, <1>3, CacheStep DEF ReadingInv
<1>5. CopiesAreNumbered'
  BY <1>1, <1>2 DEF ReadingInv, CopiesAreNumbered, RowsOf
<1>6. HistoryTypeOK'
  BY <1>1 DEF ReadingInv, HistoryTypeOK
<1>7. ScrollInv'
  BY <1>1, <1>4, ScrollStays DEF ReadingInv
<1> QED
  BY <1>4, <1>5, <1>6, <1>7 DEF ReadingInv

(* A first page is the newest rows, from the cache or from the store.      *)
LEMMA PagesRead ==
  ASSUME IInv, ReadingInv, NEW r \in Rooms, NEW n \in Limits,
         FirstPageCached(r, n) \/ FirstPageStored(r, n)
  PROVE  IInv' /\ ReadingInv'
<1>1. /\ UNCHANGED <<formal, backend, store, index, cache, offset, workerVars, gappy>>
      /\ faults' \in 0..MaxFaults
  BY ArchiverAssumption DEF FirstPageCached, FirstPageStored, vars, Fault, IInv, TypeOK,
                            ArchiverAssumption
<1>2. IInv' /\ FromTopic'
  <2>1. /\ cache' \in [Rooms -> SUBSET Records]
        /\ \A s \in Rooms : cache'[s] \subseteq RowsOf(s)
    BY <1>1 DEF IInv, TypeOK, CopiesAreStored, RowsOf
  <2> QED
    BY <1>1, <2>1, CacheStep DEF ReadingInv
<1>3. ScrollInv' /\ scroll' \in Scroll
  <2>1. CASE FirstPageCached(r, n)
    <3>1. /\ cache[r] \in SUBSET RowsOf(r) /\ n <= Cardinality(cache[r])
          /\ Begin(r, n, Newest(cache[r], n))
      <4>1. Cardinality(cache[r]) \in Nat /\ cache[r] \in SUBSET RowsOf(r)
        <5>1. cache[r] \in SUBSET RowsOf(r)
          BY DEF IInv, CopiesAreStored, RowsOf
        <5> QED
          BY <5>1, RoomOrder, FS_CardinalityType DEF ReadingInv
      <4>2. n \in Nat
        BY HistoryAssumption DEF HistoryAssumption
      <4> QED
        BY <2>1, <4>1, <4>2 DEF FirstPageCached, CacheHit
    <3> QED
      BY <1>1, <3>1, FirstPageKeeps DEF ReadingInv
  <2>2. CASE FirstPageStored(r, n)
    <3>1. Begin(r, n, Newest(RowsOf(r), n))
      BY <2>2 DEF FirstPageStored
    <3> QED
      BY <1>1, <3>1, FirstPageKeeps DEF ReadingInv
  <2> QED
    BY <2>1, <2>2
<1>4. fills' \subseteq Fill /\ CopiesAreNumbered'
  <2>1. ASSUME NEW f \in fills'
        PROVE  f \in Fill /\ \A x \in f.rows : x \in RowsOf(f.room) /\ x.seq > 0
    <3>1. CASE f \in fills
      BY <3>1 DEF ReadingInv, HistoryTypeOK, CopiesAreNumbered
    <3>2. CASE f \notin fills
      <4>1. f = [room |-> r, rows |-> Numbered(Newest(RowsOf(r), n)), touched |-> FALSE]
        BY <2>1, <3>2 DEF FirstPageCached, FirstPageStored
      <4>2. /\ Numbered(Newest(RowsOf(r), n)) \subseteq RowsOf(r)
            /\ \A x \in Numbered(Newest(RowsOf(r), n)) : x.seq > 0
        BY DEF Numbered, Newest
      <4>3. Numbered(Newest(RowsOf(r), n)) \subseteq Records
        BY <4>2, RowFacts DEF ReadingInv, RowsOf
      <4> QED
        BY <4>1, <4>2, <4>3 DEF Fill
    <3> QED
      BY <3>1, <3>2
  <2>2. \A s : RowsOf(s)' = RowsOf(s)
    BY <1>1 DEF RowsOf
  <2>3. \A s \in Rooms : \A x \in cache'[s] : x.seq > 0
    BY <1>1 DEF ReadingInv, CopiesAreNumbered
  <2> QED
    BY <2>1, <2>2, <2>3 DEF CopiesAreNumbered
<1>5. HistoryTypeOK'
  BY <1>1, <1>3, <1>4 DEF ReadingInv, HistoryTypeOK
<1> QED
  BY <1>2, <1>3, <1>4, <1>5 DEF ReadingInv

(* An older page keeps what is known of the reading.                       *)
LEMMA OlderPageReads ==
  ASSUME IInv, ReadingInv, OlderPage
  PROVE  IInv' /\ ReadingInv'
<1>1. UNCHANGED <<vars, fills, gappy>>
  BY DEF OlderPage
<1>2. IInv'
  BY <1>1, QuietInv
<1>3. ScrollInv' /\ scroll' \in Scroll
  BY OlderPageKeeps DEF ReadingInv, HistoryTypeOK
<1>4. FromTopic' /\ CopiesAreNumbered' /\ HistoryTypeOK'
  BY <1>1, <1>3 DEF ReadingInv, FromTopic, HasKey, CopiesAreNumbered, RowsOf, HistoryTypeOK,
                    vars
<1> QED
  BY <1>2, <1>3, <1>4 DEF ReadingInv

(* Every step keeps it.                                                    *)
LEMMA HistoryNextReads ==
  ASSUME IInv, ReadingInv, [HistoryNext]_historyVars
  PROVE  IInv' /\ ReadingInv'
<1>1. CASE UNCHANGED historyVars
  <2>1. UNCHANGED <<vars, fills, scroll, gappy>>
    BY <1>1 DEF historyVars, readVars
  <2>2. IInv'
    BY <2>1, QuietInv
  <2>3. FromTopic' /\ CopiesAreNumbered' /\ HistoryTypeOK' /\ ScrollInv'
    BY <2>1 DEF ReadingInv, FromTopic, HasKey, CopiesAreNumbered, RowsOf, HistoryTypeOK,
                vars, ScrollInv
  <2> QED
    BY <2>2, <2>3 DEF ReadingInv
<1> QED
  BY <1>1, OtherWorkReads, PushReads, PagesRead, OlderPageReads, FillReads, ExpireReads
     DEF HistoryNext


(* It holds before anything is read.                                       *)
LEMMA HistoryInitReads == HistoryInit => IInv /\ ReadingInv
<1> SUFFICES ASSUME HistoryInit PROVE IInv /\ ReadingInv
  OBVIOUS
<1>1. IInv
  BY InitInv DEF HistoryInit
<1>2. /\ store = Legacy /\ \A r \in Rooms : cache[r] = {}
      /\ fills = {} /\ scroll = << >> /\ gappy = {}
  BY DEF HistoryInit, Init
<1> QED
  BY <1>1, <1>2 DEF ReadingInv, HistoryTypeOK, FromTopic, CopiesAreNumbered, ScrollInv

(* It implies that no stored row lies between two pages unread.            *)
LEMMA ReadingSkipsNothing ==
  ASSUME IInv, ReadingInv
  PROVE  ScrollSkipsNothing
<1> SUFFICES ASSUME scroll # << >>, NEW x \in RowsOf(scroll.room), scroll.first # {},
                    \A f \in scroll.first : Below(x, f),
                    scroll.more => x \notin Older(scroll.room, scroll.cursor)
             PROVE  x \in scroll.seen
  BY DEF ScrollSkipsNothing
<1>1. Under(x, scroll.first)
  BY DEF Under
<1>2. CASE scroll.more
  <2>1. PICK c \in RowsOf(scroll.room) :
            /\ c.id = scroll.cursor
            /\ x \in scroll.seen \/ Below(x, c)
    BY <1>1, <1>2 DEF ReadingInv, ScrollInv
  <2>2. {y \in RowsOf(scroll.room) : y.id = scroll.cursor} = {c}
    BY <2>1, RowFacts DEF RowsOf, ReadingInv
  <2>3. ~Below(x, c)
    BY <1>2, <2>2 DEF Older
  <2> QED
    BY <2>1, <2>3
<1>3. CASE ~scroll.more
  BY <1>1, <1>3 DEF ReadingInv, ScrollInv
<1> QED
  BY <1>2, <1>3

(* A reader and its cache fills beside the archiver leave the archiver's   *)
(* invariant alone, and no worker puts a row below one that was read.      *)
THEOREM ReadingInductive == HistorySpec => [](IInv /\ ReadingInv)
<1>1. HistoryInit => IInv /\ ReadingInv
  BY HistoryInitReads
<1>2. (IInv /\ ReadingInv) /\ [HistoryNext]_historyVars => (IInv /\ ReadingInv)'
  BY HistoryNextReads
<1> QED
  BY <1>1, <1>2, PTL DEF HistorySpec

(* A client that scrolls back through a room (GetHistoryByCursor) misses   *)
(* no stored message below its first page, wherever that page came from    *)
(* and however the archive grows meanwhile.                                *)
THEOREM ScrollSkipsNothingHolds == HistorySpec => []ScrollSkipsNothing
<1>1. IInv /\ ReadingInv => ScrollSkipsNothing
  BY ReadingSkipsNothing
<1> QED
  BY ReadingInductive, <1>1, PTL


-----------------------------------------------------------------------------
(* Caches without holes *)

(* An empty cache is not full.                                             *)
LEMMA NoneIsFull == \A v : ~Full({}, v)
<1>1. \A v : {x \in {} : x.seq > v} = {}
  OBVIOUS
<1> QED
  BY <1>1, FS_EmptySet, ArchiverAssumption DEF Full, ArchiverAssumption

(* What trimming the numbered rows S of a room keeps.                      *)
LEMMA TrimFacts ==
  ASSUME IInv, FromTopic, NEW r, NEW S \in SUBSET RowsOf(r), \A x \in S : x.seq > 0
  PROVE  /\ Trim(S) \subseteq S
         /\ \A c \in Trim(S), x \in S : c.seq < x.seq => x \in Trim(S)
         /\ \A v \in Int : Full(S, v) =>
                Full(Trim(S), v) /\ \A c \in Trim(S) : ~(c.seq < v)
         /\ \A x \in S : x \in Trim(S) \/ Full(Trim(S), x.seq)
<1>1. /\ IsFiniteSet(S) /\ Order(BySeq(S), S) /\ Trim(S) = Top(S, CacheMax, BySeq(S))
      /\ CacheMax \in Nat
  BY RoomOrder, ArchiverAssumption DEF ArchiverAssumption
<1>2. PICK T : T = Trim(S)
  OBVIOUS
<1>3. T \subseteq S /\ \A x \in S : x.seq \in Int
  BY <1>2, RowFacts DEF Trim, RowsOf
<1>4. ASSUME NEW c \in T, NEW x \in S, c.seq < x.seq PROVE x \in T
  <2>1. <<c, x>> \in BySeq(S)
    BY <1>3, <1>4 DEF BySeq
  <2>2. c \in Top(S, CacheMax, BySeq(S))
    BY <1>1, <1>2
  <2>3. x \in Top(S, CacheMax, BySeq(S))
    BY <1>1, <2>1, <2>2, TopUp
  <2> QED
    BY <1>1, <1>2, <2>3
<1>5. ASSUME NEW v \in Int, Full(S, v), NEW c \in T PROVE c.seq > v
  <2>1. SUFFICES ASSUME ~(c.seq > v) PROVE FALSE
    OBVIOUS
  <2>2. {x \in S : x.seq > v} \subseteq {x \in S : x.seq > c.seq}
    BY <1>3, <2>1
  <2>3. /\ IsFiniteSet({x \in S : x.seq > c.seq})
        /\ IsFiniteSet({x \in S : x.seq > v})
    BY <1>1, FS_Subset
  <2>4. /\ Cardinality({x \in S : x.seq > v}) <= Cardinality({x \in S : x.seq > c.seq})
        /\ Cardinality({x \in S : x.seq > v}) \in Nat
        /\ Cardinality({x \in S : x.seq > c.seq}) \in Nat
    BY <2>2, <2>3, FS_Subset, FS_CardinalityType
  <2>5. Cardinality({x \in S : x.seq > c.seq}) < CacheMax
    BY <1>2 DEF Trim
  <2>6. Cardinality({x \in S : x.seq > v}) >= CacheMax
    BY <1>5 DEF Full
  <2> QED
    BY <1>1, <2>4, <2>5, <2>6
<1>6. ASSUME NEW v \in Int, Full(S, v) PROVE Full(T, v)
  <2>1. {x \in T : x.seq > v} = T
    BY <1>5, <1>6
  <2>2. Cardinality(S) >= CacheMax
    <3>1. {x \in S : x.seq > v} \in SUBSET S
      OBVIOUS
    <3>2. /\ Cardinality({x \in S : x.seq > v}) <= Cardinality(S)
          /\ Cardinality({x \in S : x.seq > v}) \in Nat /\ Cardinality(S) \in Nat
      BY <1>1, <3>1, FS_Subset, FS_CardinalityType
    <3>3. Cardinality({x \in S : x.seq > v}) >= CacheMax
      BY <1>6 DEF Full
    <3> QED
      BY <1>1, <3>2, <3>3
  <2>3. Cardinality(T) = IF CacheMax <= Cardinality(S) THEN CacheMax ELSE Cardinality(S)
    BY <1>1, <1>2, TopCount
  <2>4. Cardinality(T) >= CacheMax
    BY <1>1, <2>2, <2>3
  <2> QED
    BY <2>1, <2>4 DEF Full
<1>7. ASSUME NEW x \in S, x \notin T PROVE Full(T, x.seq)
  <2>1. ~(Cardinality({y \in S : y.seq > x.seq}) < CacheMax)
    BY <1>2, <1>7 DEF Trim
  <2>2. Cardinality({y \in S : y.seq > x.seq}) \in Nat
    BY <1>1, FS_Subset, FS_CardinalityType
  <2>3. Full(S, x.seq)
    BY <1>1, <2>1, <2>2 DEF Full
  <2> QED
    BY <1>3, <1>6, <2>3
<1>8. \A v \in Int : Full(S, v) => Full(T, v) /\ \A c \in T : ~(c.seq < v)
  <2>1. ASSUME NEW v \in Int, Full(S, v), NEW c \in T PROVE ~(c.seq < v)
    BY <1>3, <1>5, <2>1
  <2> QED
    BY <1>6, <2>1
<1> QED
  BY <1>2, <1>3, <1>4, <1>7, <1>8

(* A set with a full subset is full.                                       *)
LEMMA FullGrows ==
  ASSUME NEW S, IsFiniteSet(S), NEW C \in SUBSET S, NEW v, Full(C, v)
  PROVE  Full(S, v)
<1>1. {x \in C : x.seq > v} \subseteq {x \in S : x.seq > v}
  OBVIOUS
<1>2. IsFiniteSet({x \in S : x.seq > v}) /\ IsFiniteSet({x \in C : x.seq > v})
  <2>1. IsFiniteSet(C)
    BY FS_Subset
  <2> QED
    BY <2>1, FS_Subset
<1>3. /\ Cardinality({x \in C : x.seq > v}) <= Cardinality({x \in S : x.seq > v})
      /\ Cardinality({x \in C : x.seq > v}) \in Nat
      /\ Cardinality({x \in S : x.seq > v}) \in Nat
  BY <1>1, <1>2, FS_Subset, FS_CardinalityType
<1> QED
  BY <1>3, ArchiverAssumption DEF Full, ArchiverAssumption

(* The cache C of a room is given F, while Q, which is P and some of what  *)
(* is given, becomes due.                                                  *)
LEMMA CacheNoHole ==
  ASSUME IInv, FromTopic, NEW r, NEW C \in SUBSET RowsOf(r), NEW F \in SUBSET RowsOf(r),
         \A x \in C \cup F : x.seq > 0,
         NEW P, NEW Q \in SUBSET store, Q \subseteq P \cup C \cup F,
         NoHole(P, C, {}), NoHole(P, F, C)
  PROVE  NoHole(Q, Trim(C \cup F), {})
<1>1. PICK S : S = C \cup F
  OBVIOUS
<1>2. S \in SUBSET RowsOf(r) /\ C \in SUBSET S /\ IsFiniteSet(S) /\ \A x \in S : x.seq > 0
  BY <1>1, RoomOrder
<1>3. ASSUME NEW x \in Q, NEW c \in Trim(S), c.seq < x.seq PROVE x \in Trim(S)
  <2>1. x.seq \in Int
    BY RowFacts
  <2>2. c \in S
    BY <1>2, TrimFacts
  <2>3. CASE x \in S
    BY <1>2, <1>3, <2>3, TrimFacts
  <2>4. CASE x \notin S
    <3>1. x \in P /\ x \notin C /\ x \notin F
      BY <1>1, <2>4
    <3>2. CASE c \in C
      BY <1>3, <3>1, <3>2, NoneIsFull DEF NoHole
    <3>3. CASE c \in F
      <4>1. Full(C, x.seq)
        BY <1>3, <3>1, <3>3 DEF NoHole
      <4>2. Full(S, x.seq)
        BY <1>2, <4>1, FullGrows
      <4>3. ~(c.seq < x.seq)
        BY <1>2, <2>1, <4>2, TrimFacts
      <4> QED
        BY <1>3, <4>3
    <3> QED
      BY <1>1, <2>2, <3>2, <3>3
  <2> QED
    BY <2>3, <2>4
<1> QED
  BY <1>1, <1>3 DEF NoHole

(* Beside it, the rows G of a fill are still on their way.                 *)
LEMMA FillNoHole ==
  ASSUME IInv, FromTopic, NEW r, NEW C \in SUBSET RowsOf(r), NEW F \in SUBSET RowsOf(r),
         \A x \in C \cup F : x.seq > 0,
         NEW P, NEW Q \in SUBSET store, Q \subseteq P \cup C \cup F,
         NEW G, NoHole(P, G, C)
  PROVE  NoHole(Q, G, Trim(C \cup F))
<1>1. PICK S : S = C \cup F
  OBVIOUS
<1>2. S \in SUBSET RowsOf(r) /\ C \in SUBSET S /\ IsFiniteSet(S) /\ \A x \in S : x.seq > 0
  BY <1>1, RoomOrder
<1>3. ASSUME NEW x \in Q, NEW c \in G, c.seq < x.seq
      PROVE  x \in G \/ x \in Trim(S) \/ Full(Trim(S), x.seq)
  <2>1. x.seq \in Int
    BY RowFacts
  <2>2. CASE x \in S
    BY <1>2, <2>2, TrimFacts
  <2>3. CASE x \notin S /\ x \notin G
    <3>1. Full(C, x.seq)
      BY <1>1, <1>3, <2>3 DEF NoHole
    <3>2. Full(S, x.seq)
      BY <1>2, <3>1, FullGrows
    <3> QED
      BY <1>2, <2>1, <3>2, TrimFacts
  <2> QED
    BY <2>2, <2>3
<1> QED
  BY <1>1, <1>3 DEF NoHole


-----------------------------------------------------------------------------
(* Each step keeps the caches without holes *)

(* What the archiver is done with lies in the topic and in the store.      *)
LEMMA DoneFacts ==
  ASSUME IInv
  PROVE  /\ \A o \in Done : /\ o \in 1..Len(formal) /\ formal[o].valid
                            /\ formal[o] \in store
         /\ \A r : DoneIn(r) \subseteq RowsOf(r)
<1>1. Len(formal) \in Nat /\ Len(msgBatch) \in Nat /\ pos \in Nat /\ offset \in Nat
  BY TopicFacts DEF IInv, TypeOK
<1>2. ASSUME NEW o \in Done
      PROVE  o \in 1..Len(formal) /\ formal[o].valid /\ formal[o] \in store
  <2>1. o \in 1..Len(formal)
    BY DEF Done
  <2>2. CASE o <= offset
    BY <1>1, <2>1, <2>2 DEF IInv, OffsetIsStored
  <2>3. CASE pc # "down" /\ o <= pos - Len(msgBatch)
    <3>1. o \in 1..(pos - Len(msgBatch))
      BY <1>1, <2>1, <2>3
    <3> QED
      BY <2>1, <2>3, <3>1 DEF IInv, BatchIsRead, Stored
  <2>4. CASE pc = "offset" /\ o <= pos /\ ~(o <= pos - Len(msgBatch))
    <3>1. PICK i : i = o - (pos - Len(msgBatch))
      OBVIOUS
    <3>2. i \in 1..Len(msgBatch) /\ o = pos - Len(msgBatch) + i
      BY <1>1, <2>1, <2>4, <3>1
    <3>3. msgBatch[i].valid /\ formal[o] = msgBatch[i] /\ InBatch \subseteq store
      BY <2>4, <3>2 DEF IInv, BatchIsRead, FlushHasBatch
    <3>4. msgBatch[i] \in InBatch
      BY <3>2, TopicFacts DEF IInv
    <3> QED
      BY <2>1, <3>3, <3>4
  <2> QED
    BY <1>1, <2>1, <2>2, <2>3, <2>4 DEF Done
<1> QED
  BY <1>2 DEF DoneIn, RowsOf

(* Fewer rows to account for leave no hole where there was none.           *)
LEMMA NoHoleShrinks ==
  ASSUME NEW P, NEW Q \in SUBSET P, NEW C, NEW D, NoHole(P, C, D) \/ NoHole(P, C, {})
  PROVE  NoHole(Q, C, D)
  BY NoneIsFull DEF NoHole

(* The worker's other steps make nothing due.                              *)
LEMMA OtherWorkCaches ==
  ASSUME IInv, CacheInv, OtherWork
  PROVE  CacheInv'
<1>1. UNCHANGED <<formal, cache, fills, gappy>>
  BY DEF OtherWork, readVars, NewWorker, Read, Flush, Exit, Save, SaveFails,
         IndexBatch, SaveOffset, SaveOffsetFails, Shutdown, Crash
<1>2. /\ Len(formal) \in Nat /\ Len(msgBatch) \in Nat /\ pos \in Nat /\ offset \in Nat
      /\ pc = "offset" => lastOffset = pos
      /\ pc = "down" \/ Len(msgBatch) <= pos
  BY TopicFacts DEF IInv, TypeOK, BatchIsRead, FlushHasBatch
<1>3. Done' \subseteq Done
  <2>1. CASE pc' = "down" /\ offset' = offset
    BY <1>1, <2>1 DEF Done
  <2>2. CASE UNCHANGED <<offset, pos, msgBatch>> /\ pc # "down" /\ (pc' = "offset" => pc = "offset")
    BY <1>1, <2>2 DEF Done
  <2>3. CASE NewWorker
    <3>1. /\ pos' \in {0, offset} /\ Len(msgBatch') = 0 /\ offset' = offset /\ pc' = "run"
      BY <2>3 DEF NewWorker
    <3>2. pos' - Len(msgBatch') = pos' /\ pos' \in Nat /\ pos' <= offset
      <4>1. \A p \in Nat : p - 0 = p
        OBVIOUS
      <4>2. pos' \in Nat /\ pos' <= offset
        BY <1>2, <3>1
      <4> QED
        BY <3>1, <4>1, <4>2
    <3>3. \A o \in 1..Len(formal) : o <= pos' - Len(msgBatch') => o <= offset
      <4>1. \A o \in 1..Len(formal) : o <= pos' => o <= offset
        BY <1>2, <3>2
      <4> QED
        BY <3>2, <4>1
    <3> QED
      BY <1>1, <3>1, <3>3 DEF Done
  <2>4. CASE Read /\ pc' # "down"
    <3>1. /\ pos' = pos + 1 /\ msgBatch' = Append(msgBatch, formal[pos + 1])
          /\ pc' \in {"run", "save"} /\ offset' = offset /\ pc = "run" /\ pos < Len(formal)
      BY <2>4 DEF Read, Return
    <3>2. Len(msgBatch') = Len(msgBatch) + 1
      <4>1. formal[pos + 1] \in Records
        BY <1>2, <3>1, TopicFacts DEF IInv
      <4> QED
        BY <3>1, <4>1 DEF IInv, TypeOK
    <3>3. pos' - Len(msgBatch') = pos - Len(msgBatch)
      BY <1>2, <3>1, <3>2
    <3> QED
      BY <1>1, <3>1, <3>3 DEF Done
  <2>5. CASE SaveOffset
    <3>1. /\ pc = "offset" /\ offset' = pos /\ pos' = pos /\ Len(msgBatch') = 0 /\ pc' = "run"
      BY <1>2, <2>5 DEF SaveOffset
    <3>2. \A o \in 1..Len(formal) : o <= pos' - Len(msgBatch') => o <= pos
      BY <1>2, <3>1
    <3> QED
      BY <1>1, <3>1, <3>2 DEF Done
  <2>6. CASE SaveOffsetFails
    <3>1. pc = "offset" /\ offset' \in {offset, pos} /\ pc' = "down"
      BY <1>2, <2>6 DEF SaveOffsetFails, Return
    <3> QED
      BY <1>1, <3>1 DEF Done
  <2>7. CASE Flush \/ Exit \/ Save \/ SaveFails \/ IndexBatch \/ Shutdown \/ Crash
    <3>1. \/ pc' = "down" /\ offset' = offset
          \/ UNCHANGED <<offset, pos, msgBatch>> /\ pc # "down" /\ (pc' = "offset" => pc = "offset")
      BY <2>7 DEF Flush, Exit, Save, SaveMySQL, SaveMongo, SaveFails, IndexBatch, Shutdown,
                  Crash, Return
    <3> QED
      BY <2>1, <2>2, <3>1
  <2>8. CASE Read /\ pc' = "down"
    <3>1. offset' = offset
      BY <2>8 DEF Read
    <3> QED
      BY <2>1, <2>8, <3>1
  <2> QED
    BY <2>3, <2>4, <2>5, <2>6, <2>7, <2>8 DEF OtherWork
<1>4. \A r : DoneIn(r)' \in SUBSET DoneIn(r)
  BY <1>1, <1>3 DEF DoneIn
<1>5. \A r \in Rooms \ gappy : NoHole(DoneIn(r)', cache[r], {})
  BY <1>4, NoHoleShrinks DEF CacheInv
<1>6. ASSUME NEW f \in fills
      PROVE  /\ ~f.touched => NoHole(DoneIn(f.room)', f.rows, {})
             /\ f.room \notin gappy => NoHole(DoneIn(f.room)', f.rows, cache[f.room])
  BY <1>4, NoHoleShrinks DEF CacheInv
<1> QED
  BY <1>1, <1>5, <1>6 DEF CacheInv

(* So do the pages; a fill that starts holds all that is due above its     *)
(* lowest row.                                                             *)
LEMMA PagesCache ==
  ASSUME IInv, ReadingInv, CacheInv,
         OlderPage \/ \E r \in Rooms, n \in Limits : FirstPageCached(r, n) \/ FirstPageStored(r, n)
  PROVE  CacheInv'
<1>1. UNCHANGED <<formal, backend, store, index, cache, offset, workerVars, gappy>>
  BY DEF OlderPage, FirstPageCached, FirstPageStored, vars
<1>2. \A r : DoneIn(r)' = DoneIn(r)
  BY <1>1 DEF DoneIn, Done, workerVars
<1>3. ASSUME NEW f \in fills', f \notin fills PROVE NoHole(DoneIn(f.room), f.rows, {})
  <2>1. PICK r \in Rooms, n \in Limits : FirstPageStored(r, n)
    BY <1>3 DEF OlderPage, FirstPageCached
  <2>2. f = [room |-> r, rows |-> Numbered(Newest(RowsOf(r), n)), touched |-> FALSE]
    BY <1>3, <2>1 DEF FirstPageStored
  <2>3. n \in Nat
    BY HistoryAssumption DEF HistoryAssumption
  <2>4. ASSUME NEW x \in DoneIn(r), NEW c \in Numbered(Newest(RowsOf(r), n)), c.seq < x.seq
        PROVE  x \in Numbered(Newest(RowsOf(r), n))
    <3>1. x \in RowsOf(r) /\ Below(c, x) /\ c \in Newest(RowsOf(r), n)
      BY <2>4, DoneFacts DEF Below, Numbered
    <3>2. x \in Newest(RowsOf(r), n)
      BY <2>3, <3>1, PageFacts DEF ReadingInv
    <3>3. x.seq \in Int /\ c.seq \in Int /\ c.seq > 0
      <4>1. x \in store /\ c \in store
        BY <3>1 DEF RowsOf, Newest
      <4> QED
        BY <4>1, RowFacts DEF ReadingInv, Numbered
    <3> QED
      BY <2>4, <3>2, <3>3 DEF Numbered
  <2> QED
    BY <2>2, <2>4 DEF NoHole
<1>4. ASSUME NEW f \in fills'
      PROVE  /\ ~f.touched => NoHole(DoneIn(f.room), f.rows, {})
             /\ f.room \notin gappy => NoHole(DoneIn(f.room), f.rows, cache[f.room])
  <2>1. CASE f \in fills
    BY <2>1 DEF CacheInv
  <2>2. CASE f \notin fills
    <3>1. DoneIn(f.room) \in SUBSET DoneIn(f.room)
      OBVIOUS
    <3> QED
      BY <1>3, <2>2, <3>1, NoHoleShrinks
  <2> QED
    BY <2>1, <2>2
<1> QED
  BY <1>1, <1>2, <1>4 DEF CacheInv

(* An expired cache is empty, and the fills on their way to it are whole.  *)
LEMMA ExpireCaches ==
  ASSUME IInv, ReadingInv, CacheInv, NEW r \in Rooms, Expire(r)
  PROVE  CacheInv'
<1>1. /\ UNCHANGED <<formal, backend, store, index, offset, workerVars, fills>>
      /\ \A f \in fills : f.room = r => ~f.touched
      /\ \A s \in Rooms : cache'[s] = IF s = r THEN {} ELSE cache[s]
      /\ gappy' = gappy \ {r}
  BY DEF Expire, IInv, TypeOK
<1>2. \A s : DoneIn(s)' = DoneIn(s)
  BY <1>1 DEF DoneIn, Done, workerVars
<1>3. ASSUME NEW s \in Rooms \ gappy' PROVE NoHole(DoneIn(s), cache'[s], {})
  <2>1. CASE s = r
    BY <1>1, <2>1 DEF NoHole
  <2>2. CASE s # r
    BY <1>1, <1>3, <2>2 DEF CacheInv
  <2> QED
    BY <2>1, <2>2
<1>4. ASSUME NEW f \in fills, f.room \notin gappy'
      PROVE  NoHole(DoneIn(f.room), f.rows, cache'[f.room])
  <2>1. f.room \in Rooms
    BY DEF ReadingInv, HistoryTypeOK, Fill
  <2>2. CASE f.room = r
    <3>1. NoHole(DoneIn(r), f.rows, {}) /\ cache'[r] = {}
      BY <1>1, <2>2 DEF CacheInv
    <3> QED
      BY <2>2, <3>1
  <2>3. CASE f.room # r
    BY <1>1, <1>4, <2>1, <2>3 DEF CacheInv
  <2> QED
    BY <2>2, <2>3
<1>5. \A f \in fills : ~f.touched => NoHole(DoneIn(f.room), f.rows, {})
  BY DEF CacheInv
<1> QED
  BY <1>1, <1>2, <1>3, <1>4, <1>5 DEF CacheInv


(* The room's part of what is added to the caches.                         *)
LEMMA AddedIn ==
  ASSUME IInv, ReadingInv, NEW rows \in SUBSET store, \A x \in rows : x.seq > 0,
         cache' = AddToCache(rows), NEW r \in Rooms
  PROVE  \E F \in SUBSET RowsOf(r) :
             /\ F = {m \in rows : m.room = r}
             /\ cache'[r] = Trim(cache[r] \cup F)
             /\ cache[r] \in SUBSET RowsOf(r)
             /\ \A x \in cache[r] \cup F : x.seq > 0
<1>1. {m \in rows : m.room = r} \in SUBSET RowsOf(r)
  BY DEF RowsOf
<1>2. cache'[r] = Trim(cache[r] \cup {m \in rows : m.room = r})
  BY DEF AddToCache
<1>3. cache[r] \in SUBSET RowsOf(r) /\ \A x \in cache[r] : x.seq > 0
  BY DEF IInv, CopiesAreStored, RowsOf, ReadingInv, CopiesAreNumbered
<1> QED
  BY <1>1, <1>2, <1>3

(* A room that nothing of the added rows is for.                           *)
LEMMA NothingAdded == \A P, C : NoHole(P, {}, C)
BY DEF NoHole

(* A fill adds only what its rows make no hole of.                         *)
LEMMA FillCaches ==
  ASSUME IInv, ReadingInv, CacheInv, NEW f \in fills, BackfillRoomCache(f)
  PROVE  CacheInv'
<1>1. /\ UNCHANGED <<formal, backend, store, index, offset, workerVars, scroll>>
      /\ fills' = Touch(fills \ {f}, {f.room})
      /\ f \in Fill /\ fills \subseteq Fill
  BY FillFacts DEF ReadingInv, HistoryTypeOK
<1>2. PICK rows \in SUBSET f.rows :
          /\ cache' = AddToCache(rows)
          /\ gappy \subseteq gappy'
          /\ rows = f.rows \/ f.room \in gappy'
  BY FillFacts
<1>3. \A r : DoneIn(r)' = DoneIn(r) /\ DoneIn(r) \in SUBSET store
  BY <1>1, DoneFacts DEF DoneIn, Done, workerVars, RowsOf
<1>4. rows \in SUBSET store /\ (\A x \in rows : x.seq > 0) /\ \A x \in rows : x.room = f.room
  BY <1>1, <1>2 DEF ReadingInv, CopiesAreNumbered, RowsOf
<1>5. ASSUME NEW r \in Rooms \ gappy'
      PROVE  /\ NoHole(DoneIn(r), cache'[r], {})
             /\ \A g \in fills : g.room = r => NoHole(DoneIn(r), g.rows, cache'[r])
  <2>1. PICK F \in SUBSET RowsOf(r) :
            /\ F = {m \in rows : m.room = r}
            /\ cache'[r] = Trim(cache[r] \cup F)
            /\ cache[r] \in SUBSET RowsOf(r)
            /\ \A x \in cache[r] \cup F : x.seq > 0
    BY <1>2, <1>4, AddedIn
  <2>2. r \notin gappy /\ NoHole(DoneIn(r), cache[r], {})
    BY <1>2, <1>5 DEF CacheInv
  <2>3. NoHole(DoneIn(r), F, cache[r])
    <3>1. CASE r = f.room
      <4>1. F = f.rows
        BY <1>2, <1>4, <1>5, <2>1, <3>1
      <4> QED
        BY <2>2, <3>1, <4>1 DEF CacheInv
    <3>2. CASE r # f.room
      <4>1. F = {}
        BY <1>4, <2>1, <3>2
      <4> QED
        BY <4>1, NothingAdded
    <3> QED
      BY <3>1, <3>2
  <2>4. DoneIn(r) \subseteq DoneIn(r) \cup cache[r] \cup F
    OBVIOUS
  <2>5. NoHole(DoneIn(r), cache'[r], {})
    BY <1>3, <2>1, <2>2, <2>3, <2>4, CacheNoHole DEF ReadingInv
  <2>6. ASSUME NEW g \in fills, g.room = r PROVE NoHole(DoneIn(r), g.rows, cache'[r])
    <3>1. NoHole(DoneIn(r), g.rows, cache[r])
      BY <2>2, <2>6 DEF CacheInv
    <3>2. PICK G : G = g.rows
      OBVIOUS
    <3>3. NoHole(DoneIn(r), G, cache[r])
      BY <3>1, <3>2
    <3>4. FromTopic
      BY DEF ReadingInv
    <3>5. NoHole(DoneIn(r), G, Trim(cache[r] \cup F))
      BY <1>3, <2>1, <2>4, <3>3, <3>4, FillNoHole
    <3> QED
      BY <2>1, <3>2, <3>5
  <2> QED
    BY <2>5, <2>6
<1>6. ASSUME NEW h \in fills'
      PROVE  /\ ~h.touched => NoHole(DoneIn(h.room), h.rows, {})
             /\ h.room \notin gappy' => NoHole(DoneIn(h.room), h.rows, cache'[h.room])
  <2>1. fills \ {f} \in SUBSET Fill
    BY <1>1
  <2>2. PICK g \in fills \ {f} :
            /\ h.room = g.room /\ h.rows = g.rows
            /\ g.room \in {f.room} => h.touched
            /\ g.room \notin {f.room} => h = g
    BY <1>1, <2>1, TouchFacts
  <2>3. g.room \in Rooms
    BY <1>1 DEF Fill
  <2>4. ~h.touched => NoHole(DoneIn(h.room), h.rows, {})
    BY <2>2 DEF CacheInv
  <2>5. ASSUME h.room \notin gappy' PROVE NoHole(DoneIn(h.room), h.rows, cache'[h.room])
    <3>1. PICK r : r = h.room
      OBVIOUS
    <3>2. r \in Rooms \ gappy' /\ g \in fills /\ g.room = r
      BY <2>2, <2>3, <2>5, <3>1
    <3>3. NoHole(DoneIn(r), g.rows, cache'[r])
      BY <1>5, <3>2
    <3> QED
      BY <2>2, <3>1, <3>3
  <2> QED
    BY <2>4, <2>5
<1> QED
  BY <1>3, <1>5, <1>6 DEF CacheInv


(* A push that goes through, of nothing old, makes what it adds due and    *)
(* leaves no hole behind.                                                  *)
LEMMA PushCaches ==
  ASSUME IInv, ReadingInv, CacheInv, PushWhileRead
  PROVE  CacheInv'
<1> DEFINE rs == {m.room : m \in InBatch}
<1>1. /\ PushLatest /\ pc = "cache" /\ pc' = "offset"
      /\ UNCHANGED <<store, formal, offset, pos, msgBatch, lastOffset>>
      /\ fills' = Touch(fills, rs)
      /\ gappy' = gappy \cup (IF faults' # faults THEN rs ELSE Repeated)
  BY DEF PushWhileRead, PushLatest
<1>2. PICK rows \in SUBSET InBatch :
          cache' = AddToCache(rows) /\ (faults' = faults => rows = InBatch)
  BY <1>1, PushFacts
<1>3. PICK start : start = pos - Len(msgBatch)
  OBVIOUS
<1>4. /\ start \in Nat /\ Len(msgBatch) \in Nat /\ Len(formal) \in Nat /\ offset \in Nat
      /\ pos \in Nat /\ pos = start + Len(msgBatch) /\ pos <= Len(formal)
      /\ lastOffset - Len(msgBatch) = start
      /\ InBatch \subseteq store /\ InBatch = {msgBatch[i] : i \in 1..Len(msgBatch)}
      /\ DOMAIN msgBatch = 1..Len(msgBatch)
      /\ \A i \in 1..Len(msgBatch) : msgBatch[i].valid /\ msgBatch[i] = formal[start + i]
  BY <1>1, <1>3, TopicFacts DEF IInv, BatchIsRead, FlushHasBatch, TypeOK
<1>5. \A x \in rows : x.seq > 0
  BY <1>1, BatchRows
<1>6. \A r : DoneIn(r)' \subseteq DoneIn(r) \cup {x \in InBatch : x.room = r}
  <2>1. ASSUME NEW o \in Done', o \notin Done PROVE formal[o] \in InBatch
    <3>1. o \in 1..Len(formal) /\ o <= pos /\ ~(o <= start)
      BY <1>1, <1>3, <2>1 DEF Done
    <3>2. PICK i : i = o - start
      OBVIOUS
    <3>3. i \in 1..Len(msgBatch) /\ o = start + i
      BY <1>4, <3>1, <3>2
    <3> QED
      BY <1>4, <3>3
  <2> QED
    BY <1>1, <2>1 DEF DoneIn
<1>7. \A r : DoneIn(r)' \in SUBSET store
  BY <1>1, <1>4, <1>6, DoneFacts DEF RowsOf
<1>8. \A o \in Done : o \in 1..Len(formal) /\ formal[o].valid /\ (o <= offset \/ o <= start)
  BY <1>1, <1>3, DoneFacts DEF Done
<1>9. ASSUME NEW r \in Rooms \ gappy'
      PROVE  /\ NoHole(DoneIn(r)', cache'[r], {})
             /\ \A g \in fills : g.room = r => NoHole(DoneIn(r)', g.rows, cache'[r])
  <2>1. PICK F \in SUBSET RowsOf(r) :
            /\ F = {m \in rows : m.room = r}
            /\ cache'[r] = Trim(cache[r] \cup F)
            /\ cache[r] \in SUBSET RowsOf(r)
            /\ \A x \in cache[r] \cup F : x.seq > 0
    <3>1. rows \in SUBSET store
      BY <1>4
    <3> QED
      BY <1>2, <1>5, <3>1, AddedIn
  <2>2. r \notin gappy /\ NoHole(DoneIn(r), cache[r], {})
    BY <1>1, <1>9 DEF CacheInv
  <2>3. F = {x \in InBatch : x.room = r} /\ (F # {} => r \notin Repeated)
    <3>1. CASE r \in rs
      BY <1>1, <1>2, <1>9, <2>1, <3>1
    <3>2. CASE r \notin rs
      BY <2>1, <3>2
    <3> QED
      BY <3>1, <3>2
  <2>4. ASSUME NEW x \in DoneIn(r), NEW c \in F, c.seq < x.seq PROVE x \in cache[r]
    <3>1. CASE c \in cache[r]
      BY <2>2, <2>4, <3>1, NoneIsFull DEF NoHole
    <3>2. CASE c \notin cache[r]
      <4>1. PICK o \in Done : x = formal[o] /\ x.room = r
        BY DEF DoneIn
      <4>2. PICK i \in 1..Len(msgBatch) : c = msgBatch[i] /\ c.room = r
        BY <1>4, <2>3
      <4>3. PICK p : p = start + i
        OBVIOUS
      <4>4. /\ p \in 1..Len(formal) /\ c = formal[p] /\ c.valid /\ p - 1 = start + i - 1
            /\ start < p
        BY <1>4, <4>2, <4>3
      <4>5. /\ ~\E q \in 1..(start + i - 1) : formal[q] = c
            /\ ~(p <= offset)
        BY <1>4, <2>3, <3>2, <4>2, <4>3 DEF Repeated
      <4>6. /\ DOMAIN formal = 1..Len(formal) /\ formal \in Logs
            /\ x.valid /\ o \in 1..Len(formal) /\ o < p
        BY <1>4, <1>8, <4>1, <4>4, <4>5, TopicFacts DEF IInv, TypeOK
      <4>7. c.seq <= x.seq
        <5>1. c \in store /\ x \in store
          BY <1>4, <2>3, DoneFacts DEF RowsOf
        <5>2. c.seq \in Int /\ x.seq \in Int
          BY <5>1, RowFacts DEF ReadingInv
        <5> QED
          BY <2>4, <5>2
      <4>8. PICK j \in 1..o : formal[j] = c
        BY <4>1, <4>2, <4>4, <4>6, <4>7, HistoryAssumption DEF HistoryAssumption
      <4>9. j \in 1..(start + i - 1)
        BY <1>4, <4>2, <4>3, <4>6, <4>8
      <4> QED
        BY <4>5, <4>8, <4>9
    <3> QED
      BY <3>1, <3>2
  <2>5. NoHole(DoneIn(r), F, cache[r])
    BY <2>4 DEF NoHole
  <2>6. PICK P, Q : P = DoneIn(r) /\ Q = DoneIn(r)'
    OBVIOUS
  <2>7. Q \in SUBSET store /\ Q \subseteq P \cup cache[r] \cup F /\ FromTopic
    BY <1>6, <1>7, <2>3, <2>6 DEF ReadingInv
  <2>8. NoHole(Q, cache'[r], {})
    BY <2>1, <2>2, <2>5, <2>6, <2>7, CacheNoHole
  <2>9. ASSUME NEW g \in fills, g.room = r PROVE NoHole(Q, g.rows, cache'[r])
    <3>1. PICK G : G = g.rows
      OBVIOUS
    <3>2. NoHole(P, G, cache[r])
      BY <2>2, <2>6, <2>9, <3>1 DEF CacheInv
    <3>3. NoHole(Q, G, Trim(cache[r] \cup F))
      BY <2>1, <2>7, <3>2, FillNoHole
    <3> QED
      BY <2>1, <3>1, <3>3
  <2> QED
    BY <2>6, <2>8, <2>9
<1>10. ASSUME NEW h \in fills'
       PROVE  /\ ~h.touched => NoHole(DoneIn(h.room)', h.rows, {})
              /\ h.room \notin gappy' => NoHole(DoneIn(h.room)', h.rows, cache'[h.room])
  <2>1. fills \in SUBSET Fill
    BY DEF ReadingInv, HistoryTypeOK
  <2>2. PICK g \in fills :
            /\ h.room = g.room /\ h.rows = g.rows
            /\ g.room \in rs => h.touched
            /\ g.room \notin rs => h = g
    BY <1>1, <2>1, TouchFacts
  <2>3. g.room \in Rooms
    BY <2>1 DEF Fill
  <2>4. PICK r, Q : r = g.room /\ Q = DoneIn(r)'
    OBVIOUS
  <2>5. ASSUME ~h.touched PROVE NoHole(Q, h.rows, {})
    <3>1. h = g /\ r \notin rs /\ NoHole(DoneIn(r), g.rows, {})
      BY <2>2, <2>4, <2>5 DEF CacheInv
    <3>2. {x \in InBatch : x.room = r} = {}
      BY <3>1
    <3>3. Q \in SUBSET DoneIn(r)
      BY <1>6, <2>4, <3>2
    <3> QED
      BY <3>1, <3>3, NoHoleShrinks
  <2>6. ASSUME r \notin gappy' PROVE NoHole(Q, h.rows, cache'[r])
    <3>1. r \in Rooms \ gappy' /\ g.room = r
      BY <2>3, <2>4, <2>6
    <3>2. NoHole(Q, g.rows, cache'[r])
      BY <1>9, <2>4, <3>1
    <3> QED
      BY <2>2, <3>2
  <2>7. h.room = r
    BY <2>2, <2>4
  <2> QED
    BY <2>4, <2>5, <2>6, <2>7
<1> QED
  BY <1>9, <1>10 DEF CacheInv

-----------------------------------------------------------------------------
(* The invariant of history, and what it says                              *)

(* Every step of archiver and reader keeps the cache's invariant.          *)
LEMMA HistoryKeeps == HistoryInv /\ [HistoryNext]_historyVars => HistoryInv'
<1> SUFFICES ASSUME HistoryInv, [HistoryNext]_historyVars PROVE HistoryInv'
  OBVIOUS
<1>1. IInv' /\ ReadingInv'
  BY HistoryNextReads DEF HistoryInv
<1>2. CacheInv'
  <2>1. CASE UNCHANGED historyVars
    <3>1. UNCHANGED <<formal, cache, offset, pc, pos, msgBatch, fills, gappy>>
      BY <2>1 DEF historyVars, readVars, vars, workerVars
    <3>2. \A r : DoneIn(r)' = DoneIn(r)
      BY <3>1 DEF DoneIn, Done
    <3> QED
      BY <3>1, <3>2 DEF HistoryInv, CacheInv
  <2>2. CASE HistoryNext
    BY <2>2, OtherWorkCaches, PushCaches, PagesCache, FillCaches, ExpireCaches
       DEF HistoryNext, HistoryInv
  <2> QED
    BY <2>1, <2>2
<1> QED
  BY <1>1, <1>2 DEF HistoryInv

(* The invariant of the archiver and its readers: beyond the archiver's    *)
(* own, rows grow at their upper end, the scrolling client's place is      *)
(* good, and neither a cache nor a fill on its way to it has a hole.       *)
THEOREM HistoryInductive == HistorySpec => []HistoryInv
<1>1. HistoryInit => HistoryInv
  <2>1. HistoryInit => CacheInv
    BY DEF HistoryInit, Init, CacheInv, NoHole
  <2> QED
    BY <2>1, HistoryInitReads DEF HistoryInv
<1>2. HistoryInv /\ [HistoryNext]_historyVars => HistoryInv'
  BY HistoryKeeps
<1> QED
  BY <1>1, <1>2, PTL DEF HistorySpec

(* The reader's state is well typed.                                       *)
THEOREM HistoryTypesHold == HistorySpec => []HistoryTypeOK
<1>1. HistoryInv => HistoryTypeOK
  BY DEF HistoryInv, ReadingInv
<1> QED
  BY <1>1, HistoryInductive, PTL

(* The invariant implies that the cache has no hole.                       *)
LEMMA InvCatchesUp ==
  ASSUME HistoryInv
  PROVE  CacheCatchesUp
<1>1. Len(formal) \in Nat /\ offset \in 0..Len(formal) /\ pos \in 0..Len(formal)
      /\ Len(msgBatch) \in Nat
  BY TopicFacts DEF HistoryInv, IInv, TypeOK
<1>2. ASSUME NEW o \in 1..Pushed PROVE o \in Done
  <2>1. CASE pc = "down"
    BY <1>1, <1>2, <2>1 DEF Pushed, Done
  <2>2. CASE pc # "down"
    BY <1>1, <1>2, <2>2 DEF Pushed, Done
  <2> QED
    BY <2>1, <2>2
<1>3. ASSUME NEW r \in Rooms \ gappy, NEW o \in 1..Pushed, formal[o].room = r,
             NEW c \in cache[r], c.seq < formal[o].seq
      PROVE  formal[o] \in cache[r]
  <2>1. formal[o] \in DoneIn(r) /\ NoHole(DoneIn(r), cache[r], {})
    BY <1>2, <1>3 DEF DoneIn, HistoryInv, CacheInv
  <2> QED
    BY <1>3, <2>1, NoneIsFull DEF NoHole
<1> QED
  BY <1>3 DEF CacheCatchesUp

(* Whatever fills (BackfillRoomCache), expiries, replays and crashes do to *)
(* it, a room's cache that was written in full, and with nothing old, has  *)
(* neither a hole nor a stale end.                                         *)
THEOREM CacheCatchesUpHolds == HistorySpec => []CacheCatchesUp
<1>1. HistoryInv => CacheCatchesUp
  BY InvCatchesUp
<1> QED
  BY <1>1, HistoryInductive, PTL
=============================================================================
