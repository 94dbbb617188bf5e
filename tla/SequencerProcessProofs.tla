----------------------- MODULE SequencerProcessProofs -----------------------
(***************************************************************************)
(* Proofs about SequencerProcess, for every set of rooms, senders, client  *)
(* ids and requests, every size and every bound: what the numbering loop   *)
(* guarantees survives next to the relay, and what the relay hands to      *)
(* Redis is the formal topic, whole and in order.                          *)
(***************************************************************************)
EXTENDS SequencerProcess, SequencerProofs

(***************************************************************************)
(* The relay's state, and its bookkeeping.  A record is out when Redis has *)
(* been handed its message.  Before(i, o): o is out or comes before the    *)
(* i-th record of the batch, which is what makes publishing any prefix of  *)
(* a batch safe; Passed(n): up to n nothing is forgotten.                  *)
(***************************************************************************)
RelayTypeOK ==
    /\ R!LoopTypeOK
    /\ rfetched <= Len(formal) /\ rpending <= Len(formal) /\ rcommitted <= Len(formal)
    /\ \A k \in DOMAIN rrecords : rrecords[k] \in 1..Len(formal)
    /\ wire \in Seq(Message)

Out(o) == R!OnWire(formal[o])

RelayBefore(i, o) == Out(o) \/ \E j \in 1..(i - 1) : rrecords[j] = o

Passed(n) == \A o \in 1..n : \/ Out(o) \/ o = rpending
                             \/ \E j \in DOMAIN rrecords : rrecords[j] = o

RelayBatchInv ==
    /\ \A o \in 1..rcommitted : Out(o)
    /\ rpc = "collect" => rpending = 0
    /\ rpc \in {"fetch", "commit"} => \A j \in DOMAIN rrecords : Out(rrecords[j])
    /\ rpc # "stopped" =>
          /\ Passed(rfetched) /\ Passed(rpending)
          /\ \A i \in DOMAIN rrecords : \A o \in 1..(rrecords[i] - 1) : RelayBefore(i, o)

(* The relay reads nothing it must refuse, unless Kafka fails.             *)
FormalFits ==
    \A i \in DOMAIN formal : BodySize[formal[i].body] + NumberBytes <= MaxBytes

RelayStopInv ==
    /\ FormalFits
    /\ rterminal => rfaults > 0
    /\ RelayAcceptsNumbered

(* Every message was handed to Redis after all those before it.            *)
WireInv ==
    \A k \in DOMAIN wire : \E o \in DOMAIN formal :
        /\ formal[o] = wire[k]
        /\ \A p \in 1..(o - 1) : \E i \in 1..(k - 1) : wire[i] = formal[p]

RInv == IInv /\ RelayTypeOK /\ RelayBatchInv /\ RelayStopInv /\ WireInv

-----------------------------------------------------------------------------
(* A step of the process is a step of the numbering loop, as the relay has *)
(* it, or leaves the numbering loop alone.                                 *)
LEMMA ProcessStep ==
    ASSUME [ProcessNext]_processVars
    PROVE  /\ [Next]_vars
           /\ \/ UNCHANGED relayOwn
              \/ R!RelayStep /\ UNCHANGED <<seqOwn, formal, ctxDone>>
<1>1. ASSUME NEW q \in Requests, Arrive(q)
      PROVE  Next /\ UNCHANGED relayOwn
  BY <1>1 DEF Arrive, Next
<1>2. CASE Number
  BY <1>2 DEF Number, Next
<1>3. CASE RelayStep
  <2>1. UNCHANGED seqOwn /\ R!RelayStep
    BY <1>3 DEF RelayStep
  <2>2. UNCHANGED <<formal, ctxDone>>
    BY <2>1 DEF R!RelayStep, R!RelayProgress, R!RelayLoop, R!RelayFault, R!CheckBatch,
       R!Publish, R!PublishFails, R!FetchFirst, R!TakePending, R!CollectNext, R!EndCollect,
       R!Commit, R!ReturnOnCancel, R!FetchFails, R!CollectFails, R!CommitFails, R!Rebalance
  <2>3. UNCHANGED vars
    BY <2>1, <2>2 DEF seqOwn, vars, loopVars, topicVars
  <2> QED
    BY <2>1, <2>2, <2>3
<1>4. CASE FirstResult \/ Signal
  <2>1. Shutdown
    BY <1>4 DEF FirstResult, Signal, Shutdown, Cancel, seqOwn, topicVars
  <2> QED
    BY <1>4, <2>1 DEF FirstResult, Signal, Next
<1>5. CASE UNCHANGED processVars
  BY <1>5 DEF processVars
<1> QED
  BY <1>1, <1>2, <1>3, <1>4, <1>5 DEF ProcessNext

(* The process as a whole implements the numbering loop: what is proved of *)
(* Sequencer holds with the relay beside it, whatever Redis does.          *)
THEOREM ProcessImplementsSequencer == ProcessSpec => Spec
<1>1. ProcessInit => Init
  BY DEF ProcessInit
<1>2. [ProcessNext]_processVars => [Next]_vars
  BY ProcessStep
<1> QED
  BY <1>1, <1>2, PTL DEF ProcessSpec, Spec

-----------------------------------------------------------------------------
(* Both topics are sequences; the formal topic grows.                      *)
LEMMA FormalGrows ==
    ASSUME IInv, TypeOK', [Next]_vars
    PROVE  /\ Len(formal) \in Nat /\ DOMAIN formal = 1..Len(formal)
           /\ Len(formal') \in Nat /\ DOMAIN formal' = 1..Len(formal')
           /\ Len(formal) <= Len(formal')
           /\ \A o \in 1..Len(formal) : formal'[o] = formal[o]
           /\ \A o \in 1..Len(formal) : formal[o] \in Message
<1>1. formal \in Seq(Message) /\ formal' \in Seq(Message)
  BY DEF IInv, TypeOK
<1>2. /\ Len(formal) \in Nat /\ DOMAIN formal = 1..Len(formal)
      /\ Len(formal') \in Nat /\ DOMAIN formal' = 1..Len(formal')
      /\ \A o \in 1..Len(formal) : formal[o] \in Message
  BY <1>1
<1>3. \A i \in DOMAIN formal : i \in DOMAIN formal' /\ formal'[i] = formal[i]
  BY Monotone DEF IInv
<1>4. Len(formal) <= Len(formal')
  <2>1. CASE Len(formal) = 0
    BY <1>2, <2>1
  <2>2. CASE Len(formal) # 0
    BY <1>2, <1>3, <2>2
  <2> QED
    BY <2>1, <2>2
<1> QED
  BY <1>2, <1>3, <1>4

(* What the relay holds is well typed.                                     *)
LEMMA RelayFacts ==
    ASSUME RInv
    PROVE  /\ rfetched \in Nat /\ rpending \in Nat /\ rcommitted \in Nat
           /\ rrecords \in Seq(Nat) /\ Len(rrecords) \in Nat
           /\ DOMAIN rrecords = 1..Len(rrecords)
           /\ wire \in Seq(Message) /\ Len(wire) \in Nat /\ DOMAIN wire = 1..Len(wire)
           /\ rfaults \in Nat /\ rbytes \in Nat /\ MaxFaults \in Nat
           /\ formal \in Seq(Message) /\ Len(formal) \in Nat /\ DOMAIN formal = 1..Len(formal)
           /\ \A o \in 1..Len(formal) : formal[o] \in Message
           /\ \A k \in 1..Len(rrecords) : rrecords[k] \in 1..Len(formal)
<1>1. /\ rfetched \in Nat /\ rpending \in Nat /\ rcommitted \in Nat
      /\ rrecords \in Seq(Nat) /\ wire \in Seq(Message) /\ rbytes \in Nat
      /\ rfaults \in 0..MaxFaults /\ MaxFaults \in Nat
      /\ \A k \in DOMAIN rrecords : rrecords[k] \in 1..Len(formal)
  BY BatchAssumption DEF BatchAssumption, RInv, RelayTypeOK, R!LoopTypeOK
<1>2. formal \in Seq(Message)
  BY DEF RInv, IInv, TypeOK
<1> QED
  BY <1>1, <1>2

(* A publish, complete or not, hands Redis a prefix of the batch.          *)
LEMMA PublishFacts ==
    ASSUME RInv, R!Publish \/ R!PublishFails
    PROVE  \E n \in 0..Len(rrecords) :
              /\ wire' \in Seq(Message) /\ Len(wire') = Len(wire) + n
              /\ \A k \in 1..Len(wire) : wire'[k] = wire[k]
              /\ \A k \in 1..n : wire'[Len(wire) + k] = formal[rrecords[k]]
              /\ R!Publish => n = Len(rrecords)
<1> DEFINE msgs == R!Messages
<1>0. /\ Len(rrecords) \in Nat /\ DOMAIN rrecords = 1..Len(rrecords)
      /\ wire \in Seq(Message) /\ Len(wire) \in Nat
  BY RelayFacts
<1>1. /\ msgs = [k \in 1..Len(rrecords) |-> formal[rrecords[k]]]
      /\ \A k \in 1..Len(rrecords) : formal[rrecords[k]] \in Message
  BY RelayFacts DEF R!Messages
<1>2. /\ msgs \in [1..Len(rrecords) -> Message]
      /\ \A k \in 1..Len(rrecords) : msgs[k] = formal[rrecords[k]]
  BY <1>1
<1>3. msgs \in Seq(Message)
  BY <1>0, <1>2, SeqDef
<1>4. Len(msgs) = Len(rrecords)
  BY <1>0, <1>2, <1>3
<1> HIDE DEF msgs
<1>5. ASSUME NEW t \in Seq(Message), NEW n \in 0..Len(rrecords), Len(t) = n,
             \A k \in 1..n : t[k] = formal[rrecords[k]], wire' = wire \o t
      PROVE  /\ wire' \in Seq(Message) /\ Len(wire') = Len(wire) + n
             /\ \A k \in 1..Len(wire) : wire'[k] = wire[k]
             /\ \A k \in 1..n : wire'[Len(wire) + k] = formal[rrecords[k]]
  <2>1. /\ wire' \in Seq(Message) /\ Len(wire') = Len(wire) + n
        /\ \A k \in 1..(Len(wire) + n) :
              wire'[k] = IF k <= Len(wire) THEN wire[k] ELSE t[k - Len(wire)]
    BY <1>0, <1>5, ConcatProperties
  <2>2. \A k \in 1..Len(wire) : wire'[k] = wire[k]
    BY <1>0, <2>1
  <2>3. ASSUME NEW k \in 1..n
        PROVE  wire'[Len(wire) + k] = formal[rrecords[k]]
    <3>1. /\ Len(wire) + k \in 1..(Len(wire) + n) /\ ~(Len(wire) + k <= Len(wire))
          /\ (Len(wire) + k) - Len(wire) = k
      BY <1>0
    <3> QED
      BY <1>5, <2>1, <3>1
  <2> QED
    BY <2>1, <2>2, <2>3
<1>6. CASE R!Publish
  <2>1. wire' = wire \o msgs
    BY <1>6 DEF R!Publish, msgs
  <2>2. Len(rrecords) \in 0..Len(rrecords)
    BY <1>0
  <2> QED
    BY <1>2, <1>3, <1>4, <1>5, <2>1, <2>2
<1>7. CASE R!PublishFails
  <2>1. PICK n \in 0..Len(rrecords) : wire' = wire \o SubSeq(msgs, 1, n)
    BY <1>7 DEF R!PublishFails, msgs
  <2>2. \A k \in 1..n : msgs[k] \in Message
    BY <1>0, <1>2
  <2>3. /\ SubSeq(msgs, 1, n) \in Seq(Message)
        /\ Len(SubSeq(msgs, 1, n)) = IF 1 <= n THEN n - 1 + 1 ELSE 0
        /\ \A k \in 1..(n - 1 + 1) : SubSeq(msgs, 1, n)[k] = msgs[1 + k - 1]
    <3>1. 1 \in Int /\ n \in Int
      OBVIOUS
    <3> QED
      BY <2>2, <3>1, SubSeqProperties
  <2>4. /\ Len(SubSeq(msgs, 1, n)) = n
        /\ \A k \in 1..n : SubSeq(msgs, 1, n)[k] = formal[rrecords[k]]
    <3>1. n - 1 + 1 = n /\ \A k \in 1..n : 1 + k - 1 = k /\ k \in 1..Len(rrecords)
      BY <1>0
    <3> QED
      BY <1>2, <2>3, <3>1
  <2>5. ~R!Publish
    BY <1>0, <1>7, RelayFacts DEF R!PublishFails, R!Publish, R!Fault
  <2> QED
    BY <1>5, <2>1, <2>3, <2>4, <2>5
<1> QED
  BY <1>6, <1>7

(* What was handed to Redis stays handed to it.                            *)
LEMMA WireGrows ==
    ASSUME RInv, [ProcessNext]_processVars
    PROVE  /\ wire' \in Seq(Message) /\ Len(wire') \in Nat /\ Len(wire) <= Len(wire')
           /\ \A k \in 1..Len(wire) : wire'[k] = wire[k]
<1>0. wire \in Seq(Message) /\ Len(wire) \in Nat
  BY RelayFacts
<1>1. CASE UNCHANGED wire
  BY <1>0, <1>1
<1>2. CASE R!Publish \/ R!PublishFails
  <2>1. PICK n \in 0..Len(rrecords) :
          /\ wire' \in Seq(Message) /\ Len(wire') = Len(wire) + n
          /\ \A k \in 1..Len(wire) : wire'[k] = wire[k]
    BY <1>2, PublishFacts
  <2> QED
    BY <1>0, <2>1, RelayFacts
<1>3. UNCHANGED wire \/ R!Publish \/ R!PublishFails
  BY ProcessStep DEF relayOwn, R!RelayStep, R!RelayProgress, R!RelayLoop, R!RelayFault,
     R!CheckBatch
<1> QED
  BY <1>1, <1>2, <1>3

(* A record that is out stays out.                                         *)
LEMMA OutStays ==
    ASSUME RInv, TypeOK', [ProcessNext]_processVars, NEW o \in 1..Len(formal), Out(o)
    PROVE  Out(o)'
<1>1. PICK k \in DOMAIN wire : wire[k] = formal[o]
  BY DEF Out, R!OnWire
<1>2. k \in DOMAIN wire' /\ wire'[k] = wire[k]
  BY WireGrows, RelayFacts
<1>3. formal'[o] = formal[o]
  BY FormalGrows, ProcessStep DEF RInv
<1> QED
  BY <1>1, <1>2, <1>3 DEF Out, R!OnWire

(* The size the relay counts for a record of the formal topic.             *)
LEMMA RelaySize ==
    ASSUME RInv, NEW o \in 1..Len(formal)
    PROVE  /\ [b \in Bodies |-> BodySize[b] + NumberBytes][formal[o].body]
                = BodySize[formal[o].body] + NumberBytes
           /\ BodySize[formal[o].body] + NumberBytes \in Nat
           /\ BodySize[formal[o].body] + NumberBytes <= MaxBytes
<1>1. formal[o].body \in Bodies
  BY RelayFacts DEF Message
<1>2. BodySize[formal[o].body] \in Nat /\ NumberBytes \in Nat
  BY <1>1, BatchAssumption, SequencerAssumption DEF BatchAssumption, SequencerAssumption
<1>3. o \in DOMAIN formal
  BY RelayFacts
<1> QED
  BY <1>1, <1>2, <1>3 DEF RInv, RelayStopInv, FormalFits

(* The first record of a batch: which one, and what the loop then holds.   *)
LEMMA RelayStart ==
    ASSUME RInv, R!FetchFirst(formal) \/ R!TakePending(formal)
    PROVE  \E first \in 1..Len(formal) :
              /\ rpc = "fetch" /\ rpc' = "collect" /\ rterminal' = FALSE
              /\ rrecords' = <<first>> /\ rbytes' \in Nat /\ rpending' = 0
              /\ UNCHANGED <<rcommitted, rfaults>>
              /\ \/ rpending = 0 /\ first = rfetched + 1 /\ rfetched' = rfetched + 1
                 \/ first = rpending /\ UNCHANGED rfetched
<1>1. ASSUME NEW first \in 1..Len(formal), R!StartBatch(formal, first)
      PROVE  /\ rpc' = "collect" /\ rterminal' = FALSE
             /\ rrecords' = <<first>> /\ rbytes' \in Nat
  <2>1. BodySize[formal[first].body] + NumberBytes \in Nat /\ MaxBytes \in Nat
    BY RelaySize, BatchAssumption DEF BatchAssumption
  <2> QED
    BY <1>1, <2>1, RelaySize DEF R!StartBatch
<1>2. CASE R!FetchFirst(formal)
  <2>1. rfetched + 1 \in 1..Len(formal)
    BY <1>2, RelayFacts DEF R!FetchFirst
  <2> QED
    BY <1>1, <1>2, <2>1 DEF R!FetchFirst
<1>3. CASE R!TakePending(formal)
  <2>1. rpending \in 1..Len(formal)
    BY <1>3, RelayFacts DEF R!TakePending, RInv, RelayTypeOK
  <2> QED
    BY <1>1, <1>3, <2>1 DEF R!TakePending
<1> QED
  BY <1>2, <1>3

(* One more record is fetched for the batch.                               *)
LEMMA RelayCollect ==
    ASSUME RInv, R!CollectNext(formal)
    PROVE  /\ rpc = "collect" /\ rfetched' = rfetched + 1 /\ rfetched + 1 \in 1..Len(formal)
           /\ rbytes' \in Nat /\ UNCHANGED <<rterminal, rcommitted, rfaults>>
           /\ \/ rpc' = "handle" /\ rpending' = rfetched + 1 /\ UNCHANGED rrecords
              \/ /\ rrecords' = Append(rrecords, rfetched + 1) /\ UNCHANGED <<rpc, rpending>>
                 /\ rrecords' \in Seq(Nat) /\ DOMAIN rrecords' = 1..(Len(rrecords) + 1)
                 /\ \A j \in 1..Len(rrecords) : rrecords'[j] = rrecords[j]
                 /\ rrecords'[Len(rrecords) + 1] = rfetched + 1
<1>1. rfetched + 1 \in 1..Len(formal) /\ rfetched + 1 \in Nat
  BY RelayFacts DEF R!CollectNext
<1>2. BodySize[formal[rfetched + 1].body] + NumberBytes \in Nat
  BY <1>1, RelaySize
<1>3. /\ rpc = "collect" /\ rfetched' = rfetched + 1
      /\ rbytes' \in Nat /\ UNCHANGED <<rterminal, rcommitted, rfaults>>
      /\ \/ rpc' = "handle" /\ rpending' = rfetched + 1 /\ UNCHANGED rrecords
         \/ rrecords' = Append(rrecords, rfetched + 1) /\ UNCHANGED <<rpc, rpending>>
  <2>1. [b \in Bodies |-> BodySize[b] + NumberBytes][formal[rfetched + 1].body]
           = BodySize[formal[rfetched + 1].body] + NumberBytes
    BY <1>1, RelaySize
  <2>2. rbytes \in Nat /\ \A size \in Nat : rbytes + size \in Nat
    BY RelayFacts
  <2> QED
    BY <1>2, <2>1, <2>2 DEF R!CollectNext, R!Collecting
<1>4. ASSUME rrecords' = Append(rrecords, rfetched + 1)
      PROVE  /\ rrecords' \in Seq(Nat) /\ DOMAIN rrecords' = 1..(Len(rrecords) + 1)
             /\ \A j \in 1..Len(rrecords) : rrecords'[j] = rrecords[j]
             /\ rrecords'[Len(rrecords) + 1] = rfetched + 1
  BY <1>1, <1>4, RelayFacts
<1> QED
  BY <1>1, <1>3, <1>4

(* The other steps of the relay hold on to the batch.                      *)
RelayHolds ==
    /\ UNCHANGED <<rfetched, rpending, rrecords, rbytes>>
    /\ \/ /\ \/ R!EndCollect \/ R!Commit \/ R!ReturnOnCancel \/ R!FetchFails
             \/ R!CollectFails \/ R!CommitFails \/ R!CheckBatch
          /\ UNCHANGED wire
       \/ R!Publish \/ R!PublishFails

(* A step of the process is one of the numbering loop or one of the relay. *)
LEMMA RelayCases ==
    ASSUME [ProcessNext]_processVars
    PROVE  \/ UNCHANGED relayOwn
           \/ /\ UNCHANGED <<seqOwn, formal, ctxDone>>
              /\ \/ (R!FetchFirst(formal) \/ R!TakePending(formal)) /\ UNCHANGED wire
                 \/ R!CollectNext(formal) /\ UNCHANGED wire
                 \/ R!Rebalance /\ UNCHANGED wire
                 \/ RelayHolds
<1>1. CASE R!RelayLoop \/ R!RelayFault
  BY <1>1, ProcessStep DEF R!RelayLoop, R!RelayFault, RelayHolds, R!EndCollect, R!Commit,
     R!ReturnOnCancel, R!FetchFails, R!CollectFails, R!CommitFails
<1>2. CASE R!CheckBatch \/ R!Publish \/ R!PublishFails
  BY <1>2, ProcessStep DEF RelayHolds, R!CheckBatch, R!Publish, R!PublishFails
<1> QED
  BY <1>1, <1>2, ProcessStep DEF R!RelayStep, R!RelayProgress

(* Both keep the types of the relay's variables.                           *)
LEMMA RelayTypeStep ==
    ASSUME RInv, TypeOK', [ProcessNext]_processVars
    PROVE  RelayTypeOK'
<1>0. /\ Len(formal) \in Nat /\ Len(formal') \in Nat /\ Len(formal) <= Len(formal')
      /\ ctxDone' \in BOOLEAN /\ wire' \in Seq(Message)
  BY FormalGrows, ProcessStep, WireGrows DEF RInv, TypeOK, LoopTypeOK
<1>1. R!LoopTypeOK
  BY DEF RInv, RelayTypeOK
<1>2. SUFFICES /\ rpc' \in PCs /\ rterminal' \in BOOLEAN /\ rbytes' \in Nat
               /\ rrecords' \in Seq(Nat) /\ rfaults' \in 0..MaxFaults
               /\ rfetched' \in 0..Len(formal) /\ rpending' \in 0..Len(formal)
               /\ rcommitted' \in 0..Len(formal)
               /\ \A k \in DOMAIN rrecords' : rrecords'[k] \in 1..Len(formal)
  BY <1>0 DEF RelayTypeOK, R!LoopTypeOK, R!PCs, PCs
<1>3. /\ rpc \in PCs /\ rterminal \in BOOLEAN /\ rbytes \in Nat
      /\ rrecords \in Seq(Nat) /\ rfaults \in 0..MaxFaults
      /\ rfetched \in 0..Len(formal) /\ rpending \in 0..Len(formal)
      /\ rcommitted \in 0..Len(formal)
      /\ \A k \in DOMAIN rrecords : rrecords[k] \in 1..Len(formal)
  BY <1>0 DEF RInv, RelayTypeOK, R!LoopTypeOK, R!PCs, PCs
<1>4. MaxFaults \in Nat
  BY RelayFacts
<1>5. CASE UNCHANGED relayOwn
  BY <1>3, <1>5 DEF relayOwn
<1>6. CASE R!FetchFirst(formal) \/ R!TakePending(formal)
  <2>1. PICK first \in 1..Len(formal) :
              /\ rpc' = "collect" /\ rterminal' = FALSE
              /\ rrecords' = <<first>> /\ rbytes' \in Nat /\ rpending' = 0
              /\ UNCHANGED <<rcommitted, rfaults>>
              /\ \/ first = rfetched + 1 /\ rfetched' = rfetched + 1
                 \/ UNCHANGED rfetched
    BY <1>6, RelayStart
  <2>2. /\ rrecords' \in Seq(Nat) /\ rterminal' \in BOOLEAN /\ rpc' \in PCs
        /\ \A k \in DOMAIN rrecords' : rrecords'[k] \in 1..Len(formal)
    <3>1. rterminal' \in BOOLEAN /\ rpc' \in PCs
      BY <2>1 DEF PCs
    <3>2. first \in Nat /\ <<first>> \in Seq(Nat)
      OBVIOUS
    <3>3. \A k \in DOMAIN rrecords' : rrecords'[k] = first
      BY <2>1
    <3> QED
      BY <2>1, <3>1, <3>2, <3>3
  <2> QED
    BY <1>0, <1>3, <2>1, <2>2
<1>7. CASE R!CollectNext(formal)
  <2>1. rrecords' \in Seq(Nat) /\ \A k \in DOMAIN rrecords' : rrecords'[k] \in 1..Len(formal)
    <3>1. CASE UNCHANGED rrecords
      BY <1>3, <3>1
    <3>2. CASE ~UNCHANGED rrecords
      <4>1. /\ rrecords' \in Seq(Nat) /\ DOMAIN rrecords' = 1..(Len(rrecords) + 1)
            /\ \A j \in 1..Len(rrecords) : rrecords'[j] = rrecords[j]
            /\ rrecords'[Len(rrecords) + 1] = rfetched + 1 /\ rfetched + 1 \in 1..Len(formal)
        BY <1>7, <3>2, RelayCollect
      <4>2. \A j \in 1..Len(rrecords) : rrecords[j] \in 1..Len(formal)
        BY RelayFacts
      <4>3. \A k \in 1..(Len(rrecords) + 1) : k \in 1..Len(rrecords) \/ k = Len(rrecords) + 1
        BY RelayFacts
      <4> QED
        BY <4>1, <4>2, <4>3
    <3> QED
      BY <3>1, <3>2
  <2>2. /\ rpc' \in PCs /\ rterminal' \in BOOLEAN /\ rbytes' \in Nat
        /\ rfaults' \in 0..MaxFaults
        /\ rfetched' \in 0..Len(formal) /\ rpending' \in 0..Len(formal)
        /\ rcommitted' \in 0..Len(formal)
    BY <1>0, <1>3, <1>7, RelayCollect DEF PCs
  <2> QED
    BY <2>1, <2>2
<1>8. CASE R!Rebalance
  BY <1>3, <1>4, <1>8 DEF R!Rebalance, R!Fault
<1>9. CASE RelayHolds
  <2>1. rfaults' \in 0..MaxFaults /\ rpc' \in PCs
    BY <1>3, <1>4, <1>9 DEF RelayHolds, R!EndCollect, R!Commit, R!ReturnOnCancel, R!FetchFails,
       R!CollectFails, R!CommitFails, R!CheckBatch, R!Publish, R!PublishFails, R!Fault, PCs
  <2>2. rterminal' \in BOOLEAN
    BY <1>3, <1>9 DEF RelayHolds, R!EndCollect, R!Commit, R!ReturnOnCancel, R!FetchFails,
       R!CollectFails, R!CommitFails, R!CheckBatch, R!Publish, R!PublishFails
  <2>3. UNCHANGED rcommitted \/ \E k \in DOMAIN rrecords : rcommitted' = rrecords[k]
    BY <1>9 DEF RelayHolds, R!EndCollect, R!Commit, R!ReturnOnCancel, R!FetchFails,
       R!CollectFails, R!CommitFails, R!CheckBatch, R!Publish, R!PublishFails
  <2>4. rcommitted' \in 0..Len(formal)
    BY <1>0, <1>3, <2>3
  <2> QED
    BY <1>3, <1>9, <2>1, <2>2, <2>4 DEF RelayHolds
<1> QED
  BY <1>5, <1>6, <1>7, <1>8, <1>9, RelayCases

-----------------------------------------------------------------------------
(* The relay's bookkeeping survives every step: collecting, putting aside, *)
(* partial publishes, commits that fail and rebalances.                    *)
LEMMA RelayBatchStep ==
    ASSUME RInv, TypeOK', [ProcessNext]_processVars
    PROVE  RelayBatchInv'
<1>0. /\ rfetched \in Nat /\ rpending \in Nat /\ rcommitted \in Nat
      /\ Len(rrecords) \in Nat /\ DOMAIN rrecords = 1..Len(rrecords)
      /\ Len(formal) \in Nat
      /\ rfetched <= Len(formal) /\ rpending <= Len(formal) /\ rcommitted <= Len(formal)
      /\ \A k \in DOMAIN rrecords : rrecords[k] \in 1..Len(formal)
  BY RelayFacts DEF RInv, RelayTypeOK
<1>1. \A o \in 1..Len(formal) : Out(o) => Out(o)'
  BY OutStays
<1>2. ASSUME UNCHANGED <<rfetched, rpending, rrecords, rcommitted>>,
             rpc' # "stopped" => rpc # "stopped",
             rpc' = "collect" => rpc = "collect",
             rpc' \in {"fetch", "commit"} =>
                 rpc \in {"fetch", "commit"} \/ \A j \in DOMAIN rrecords : Out(rrecords[j])'
      PROVE  RelayBatchInv'
  <2>1. \A o \in 1..rcommitted : Out(o)'
    BY <1>0, <1>1 DEF RInv, RelayBatchInv
  <2>2. rpc' \in {"fetch", "commit"} => \A j \in DOMAIN rrecords : Out(rrecords[j])'
    <3>1. CASE rpc \in {"fetch", "commit"}
      <4>1. ASSUME NEW j \in DOMAIN rrecords
            PROVE  Out(rrecords[j])'
        <5>1. Out(rrecords[j]) /\ rrecords[j] \in 1..Len(formal)
          BY <1>0, <3>1 DEF RInv, RelayBatchInv
        <5>2. \A o : o = rrecords[j] => Out(o)'
          BY <1>1, <5>1
        <5> QED
          BY <1>2, <5>2 DEF Out
      <4> QED
        BY <4>1
    <3> QED
      BY <1>2, <3>1
  <2>3. ASSUME rpc # "stopped"
        PROVE  /\ Passed(rfetched)' /\ Passed(rpending)'
               /\ \A i \in DOMAIN rrecords : \A o \in 1..(rrecords[i] - 1) : RelayBefore(i, o)'
    <3>1. /\ Passed(rfetched) /\ Passed(rpending)
          /\ \A i \in DOMAIN rrecords : \A o \in 1..(rrecords[i] - 1) : RelayBefore(i, o)
      BY <2>3 DEF RInv, RelayBatchInv
    <3>2. Passed(rfetched)' /\ Passed(rpending)'
      BY <1>0, <1>1, <1>2, <3>1 DEF Passed
    <3>3. ASSUME NEW i \in DOMAIN rrecords, NEW o \in 1..(rrecords[i] - 1)
          PROVE  RelayBefore(i, o)'
      <4>1. o \in 1..Len(formal)
        BY <1>0
      <4> QED
        BY <1>1, <1>2, <3>1, <4>1 DEF RelayBefore
    <3> QED
      BY <3>2, <3>3
  <2> QED
    BY <1>2, <2>1, <2>2, <2>3 DEF RInv, RelayBatchInv
<1>3. CASE UNCHANGED relayOwn
  BY <1>2, <1>3 DEF relayOwn
<1>4. ASSUME rpc = "fetch"
      PROVE  /\ \A o \in 1..rfetched : Out(o) \/ o = rpending
             /\ \A o \in 1..rpending : Out(o) \/ o = rpending
  <2>1. Passed(rfetched) /\ Passed(rpending) /\ \A j \in DOMAIN rrecords : Out(rrecords[j])
    BY <1>4 DEF RInv, RelayBatchInv
  <2> QED
    BY <2>1 DEF Passed
<1>5. CASE R!FetchFirst(formal) \/ R!TakePending(formal)
  <2>1. PICK first \in 1..Len(formal) :
              /\ rpc = "fetch" /\ rpc' = "collect"
              /\ rrecords' = <<first>> /\ rpending' = 0
              /\ UNCHANGED <<rcommitted>>
              /\ \/ rpending = 0 /\ first = rfetched + 1 /\ rfetched' = rfetched + 1
                 \/ first = rpending /\ UNCHANGED rfetched
    BY <1>5, RelayStart
  <2>2. /\ \A o \in 1..(first - 1) : Out(o) /\ o \in 1..Len(formal)
        /\ \A o \in 1..rfetched' : (Out(o) /\ o \in 1..Len(formal)) \/ o = first
    BY <1>0, <1>4, <2>1
  <2>3. DOMAIN rrecords' = {1} /\ rrecords'[1] = first
    BY <2>1
  <2>4. Passed(rfetched)'
    BY <1>1, <2>2, <2>3 DEF Passed
  <2>5. Passed(rpending)'
    BY <2>1 DEF Passed
  <2>6. \A i \in DOMAIN rrecords' : \A o \in 1..(rrecords'[i] - 1) : RelayBefore(i, o)'
    BY <1>1, <2>2, <2>3 DEF RelayBefore
  <2>7. \A o \in 1..rcommitted' : Out(o)'
    BY <1>0, <1>1, <2>1 DEF RInv, RelayBatchInv
  <2> QED
    BY <2>1, <2>4, <2>5, <2>6, <2>7 DEF RelayBatchInv
<1>6. CASE R!CollectNext(formal)
  <2>1. /\ rpc = "collect" /\ rpending = 0 /\ Passed(rfetched)
        /\ \A i \in DOMAIN rrecords : \A o \in 1..(rrecords[i] - 1) : RelayBefore(i, o)
    BY <1>6, RelayCollect DEF RInv, RelayBatchInv
  <2>2. \A o \in 1..rcommitted' : Out(o)'
    BY <1>0, <1>1, <1>6, RelayCollect DEF RInv, RelayBatchInv
  <2>3. \A o \in 1..rfetched : (Out(o) /\ Out(o)') \/ \E j \in DOMAIN rrecords : rrecords[j] = o
    BY <1>0, <1>1, <2>1 DEF Passed
  <2>4. CASE rpc' = "handle" /\ rpending' = rfetched + 1 /\ UNCHANGED rrecords
    <3>1. \A o \in 1..(rfetched + 1) : \/ Out(o)' \/ o = rfetched + 1
                                       \/ \E j \in DOMAIN rrecords : rrecords[j] = o
      BY <1>0, <2>3
    <3>2. Passed(rfetched)' /\ Passed(rpending)'
      BY <1>6, <2>4, <3>1, RelayCollect DEF Passed
    <3>3. ASSUME NEW i \in DOMAIN rrecords, NEW o \in 1..(rrecords[i] - 1)
          PROVE  RelayBefore(i, o)'
      <4>1. o \in 1..Len(formal)
        BY <1>0
      <4> QED
        BY <1>1, <2>1, <2>4, <4>1 DEF RelayBefore
    <3> QED
      BY <2>2, <2>4, <3>2, <3>3 DEF RelayBatchInv
  <2>5. CASE UNCHANGED <<rpc, rpending>> /\ rrecords' = Append(rrecords, rfetched + 1)
    <3>1. /\ DOMAIN rrecords' = 1..(Len(rrecords) + 1)
          /\ \A j \in 1..Len(rrecords) : rrecords'[j] = rrecords[j]
          /\ rrecords'[Len(rrecords) + 1] = rfetched + 1
          /\ rfetched' = rfetched + 1
      BY <1>6, <2>1, <2>5, RelayCollect
    <3>2. \A o \in 1..(rfetched + 1) : Out(o)' \/ \E j \in DOMAIN rrecords' : rrecords'[j] = o
      <4>1. ASSUME NEW o \in 1..rfetched
            PROVE  Out(o)' \/ \E j \in DOMAIN rrecords' : rrecords'[j] = o
        <5>1. \A j \in DOMAIN rrecords : j \in DOMAIN rrecords' /\ rrecords'[j] = rrecords[j]
          BY <1>0, <3>1
        <5> QED
          BY <2>3, <5>1
      <4>2. Len(rrecords) + 1 \in DOMAIN rrecords'
        BY <1>0, <3>1
      <4> QED
        BY <1>0, <3>1, <4>1, <4>2
    <3>3. Passed(rfetched)' /\ Passed(rpending)'
      BY <2>1, <2>5, <3>1, <3>2 DEF Passed
    <3>4. ASSUME NEW i \in 1..Len(rrecords), NEW o \in 1..(rrecords[i] - 1)
          PROVE  RelayBefore(i, o)'
      <4>1. o \in 1..Len(formal) /\ RelayBefore(i, o)
        BY <1>0, <2>1
      <4>2. \A j \in 1..(i - 1) : rrecords'[j] = rrecords[j]
        BY <1>0, <3>1
      <4> QED
        BY <1>1, <4>1, <4>2 DEF RelayBefore
    <3>5. ASSUME NEW i, i = Len(rrecords) + 1, NEW o \in 1..rfetched
          PROVE  RelayBefore(i, o)'
      <4>1. \A j \in DOMAIN rrecords : j \in 1..(i - 1) /\ rrecords'[j] = rrecords[j]
        BY <1>0, <3>1, <3>5
      <4> QED
        BY <2>3, <4>1 DEF RelayBefore
    <3>6. \A i \in DOMAIN rrecords' : \A o \in 1..(rrecords'[i] - 1) : RelayBefore(i, o)'
      <4>1. (rfetched + 1) - 1 = rfetched
        BY <1>0
      <4> QED
        BY <1>0, <3>1, <3>4, <3>5, <4>1
    <3> QED
      BY <2>1, <2>2, <2>5, <3>3, <3>6 DEF RelayBatchInv
  <2> QED
    BY <1>6, <2>4, <2>5, RelayCollect
<1>7. CASE R!Rebalance
  <2>1. /\ UNCHANGED <<rpc, rpending, rrecords, rcommitted>> /\ rfetched' = rcommitted
        /\ rpc # "stopped"
    BY <1>7 DEF R!Rebalance
  <2>2. \A o \in 1..rcommitted : Out(o)'
    BY <1>0, <1>1 DEF RInv, RelayBatchInv
  <2>3. Passed(rfetched)'
    BY <2>1, <2>2 DEF Passed
  <2>4. Passed(rpending)'
    BY <1>0, <1>1, <2>1 DEF RInv, RelayBatchInv, Passed
  <2>5. ASSUME NEW i \in DOMAIN rrecords, NEW o \in 1..(rrecords[i] - 1)
        PROVE  RelayBefore(i, o)'
    <3>1. o \in 1..Len(formal) /\ RelayBefore(i, o)
      BY <1>0, <2>1 DEF RInv, RelayBatchInv
    <3> QED
      BY <1>1, <2>1, <3>1 DEF RelayBefore
  <2>6. rpc \in {"fetch", "commit"} => \A j \in DOMAIN rrecords : Out(rrecords[j])'
    <3>1. ASSUME rpc \in {"fetch", "commit"}, NEW j \in DOMAIN rrecords
          PROVE  Out(rrecords[j])'
      <4>1. Out(rrecords[j]) /\ rrecords[j] \in 1..Len(formal)
        BY <1>0, <3>1 DEF RInv, RelayBatchInv
      <4>2. \A o : o = rrecords[j] => Out(o)'
        BY <1>1, <4>1
      <4> QED
        BY <2>1, <4>2 DEF Out
    <3> QED
      BY <3>1
  <2> QED
    BY <2>1, <2>2, <2>3, <2>4, <2>5, <2>6 DEF RInv, RelayBatchInv
<1>8. CASE RelayHolds /\ UNCHANGED <<seqOwn, formal, ctxDone>>
  <2>0. UNCHANGED <<rfetched, rpending, rrecords>>
    BY <1>8 DEF RelayHolds
  <2>1. CASE R!EndCollect \/ R!ReturnOnCancel \/ R!FetchFails \/ R!CollectFails \/ R!CheckBatch
    BY <1>2, <2>0, <2>1 DEF R!EndCollect, R!ReturnOnCancel, R!FetchFails, R!CollectFails,
       R!Collecting, R!CheckBatch
  <2>2. CASE R!PublishFails
    BY <1>2, <2>0, <2>2 DEF R!PublishFails
  <2>3. CASE R!Publish
    <3>1. PICK n \in 0..Len(rrecords) :
              /\ wire' \in Seq(Message) /\ Len(wire') = Len(wire) + n
              /\ \A k \in 1..n : wire'[Len(wire) + k] = formal[rrecords[k]]
              /\ n = Len(rrecords)
      BY <2>3, PublishFacts
    <3>2. ASSUME NEW j \in DOMAIN rrecords
          PROVE  Out(rrecords[j])'
      <4>1. /\ j \in 1..n /\ Len(wire) + j \in DOMAIN wire'
            /\ wire'[Len(wire) + j] = formal'[rrecords'[j]]
        <5>1. /\ wire \in Seq(Message) /\ Len(wire) \in Nat
              /\ DOMAIN rrecords = 1..Len(rrecords)
          BY <1>0, RelayFacts, Zenon
        <5>2. j \in 1..n
          BY <3>1, <5>1
        <5>3. wire'[Len(wire) + j] = formal'[rrecords'[j]]
          BY <1>8, <2>0, <3>1, <5>2
        <5>4. Len(wire) + j \in DOMAIN wire'
          BY <3>1, <5>1, <5>2
        <5> QED
          BY <5>2, <5>3, <5>4
      <4> QED
        BY <4>1 DEF Out, R!OnWire
    <3> QED
      BY <1>2, <2>0, <2>3, <3>2 DEF R!Publish
  <2>4. CASE R!Commit \/ R!CommitFails
    <3>1. /\ rpc = "commit" /\ rpc' \in {"stopped", "fetch", "commit"}
          /\ UNCHANGED rcommitted \/ \E k \in DOMAIN rrecords : rcommitted' = rrecords[k]
      BY <2>4 DEF R!Commit, R!CommitFails
    <3>2. /\ \A j \in DOMAIN rrecords : Out(rrecords[j])
          /\ \A i \in DOMAIN rrecords : \A o \in 1..(rrecords[i] - 1) : RelayBefore(i, o)
          /\ Passed(rfetched) /\ Passed(rpending)
      BY <3>1 DEF RInv, RelayBatchInv
    <3>3. \A i \in DOMAIN rrecords : \A o \in 1..rrecords[i] : Out(o) /\ o \in 1..Len(formal)
      <4>1. ASSUME NEW i \in DOMAIN rrecords, NEW o \in 1..rrecords[i]
            PROVE  Out(o) /\ o \in 1..Len(formal)
        <5>1. rrecords[i] \in 1..Len(formal) /\ (o = rrecords[i] \/ o \in 1..(rrecords[i] - 1))
          BY <1>0
        <5>2. \A j \in 1..(i - 1) : j \in DOMAIN rrecords
          BY <1>0
        <5> QED
          BY <1>0, <3>2, <5>1, <5>2 DEF RelayBefore
      <4> QED
        BY <4>1
    <3>4. \A o \in 1..rcommitted' : Out(o)'
      BY <1>0, <1>1, <3>1, <3>3 DEF RInv, RelayBatchInv
    <3>5. \A j \in DOMAIN rrecords' : Out(rrecords[j])'
      <4>1. ASSUME NEW j \in DOMAIN rrecords
            PROVE  Out(rrecords[j])'
        <5>1. \A o : o = rrecords[j] => Out(o)'
          BY <1>0, <1>1, <3>2
        <5> QED
          BY <2>0, <5>1 DEF Out
      <4> QED
        BY <2>0, <4>1
    <3>6. Passed(rfetched)' /\ Passed(rpending)'
      BY <1>0, <1>1, <2>0, <3>2 DEF Passed
    <3>7. ASSUME NEW i \in DOMAIN rrecords, NEW o \in 1..(rrecords[i] - 1)
          PROVE  RelayBefore(i, o)'
      <4>1. o \in 1..Len(formal)
        BY <1>0
      <4> QED
        BY <1>1, <2>0, <3>2, <4>1 DEF RelayBefore
    <3> QED
      BY <2>0, <3>1, <3>4, <3>5, <3>6, <3>7 DEF RelayBatchInv
  <2> QED
    BY <1>8, <2>1, <2>2, <2>3, <2>4 DEF RelayHolds
<1> QED
  BY <1>3, <1>5, <1>6, <1>7, <1>8, RelayCases

-----------------------------------------------------------------------------
(* A message that is written to the formal topic fits a batch with its     *)
(* numbers, and is numbered: the relay has no reason of its own to stop.   *)
LEMMA FitsStep ==
    ASSUME IInv, FormalFits, [Next]_vars
    PROVE  FormalFits'
<1>0. formal \in Seq(Message) /\ outputs \in Seq(Message)
  BY DEF IInv, TypeOK
<1>1. CASE UNCHANGED formal
  BY <1>1 DEF FormalFits
<1>2. CASE Write
  <2>1. /\ formal' = formal \o outputs
        /\ \A k \in DOMAIN outputs : BodySize[outputs[k].body] + NumberBytes <= MaxBytes
    BY <1>2 DEF Write, Fits
  <2>2. \A i \in DOMAIN formal' : \/ i \in DOMAIN formal /\ formal'[i] = formal[i]
                                  \/ \E j \in DOMAIN outputs : formal'[i] = outputs[j]
    BY <1>0, <2>1, ConcatElements
  <2> QED
    BY <2>1, <2>2 DEF FormalFits
<1>3. CASE WriteFails
  <2>1. PICK n \in 0..Len(outputs) : \E part \in [1..n -> 1..Len(outputs)] :
            /\ n > 0 => Fits
            /\ formal' = formal \o [k \in 1..n |-> outputs[part[k]]]
    BY <1>3 DEF WriteFails
  <2>2. PICK part \in [1..n -> 1..Len(outputs)] :
            /\ n > 0 => Fits
            /\ formal' = formal \o [k \in 1..n |-> outputs[part[k]]]
    BY <2>1
  <2> DEFINE t == [k \in 1..n |-> outputs[part[k]]]
  <2>3. t \in [1..n -> Message]
    BY <1>0
  <2>4. t \in Seq(Message)
    BY <2>3, SeqDef
  <2>5. \A j \in DOMAIN t : BodySize[t[j].body] + NumberBytes <= MaxBytes
    <3>1. ASSUME NEW j \in 1..n
          PROVE  BodySize[outputs[part[j]].body] + NumberBytes <= MaxBytes
      <4>1. n > 0 /\ part[j] \in DOMAIN outputs
        BY <1>0
      <4> QED
        BY <2>2, <4>1 DEF Fits
    <3> QED
      BY <3>1
  <2> HIDE DEF t
  <2>6. formal' = formal \o t
    BY <2>2 DEF t
  <2>7. \A i \in DOMAIN formal' : \/ i \in DOMAIN formal /\ formal'[i] = formal[i]
                                  \/ \E j \in DOMAIN t : formal'[i] = t[j]
    BY <1>0, <2>4, <2>6, ConcatElements
  <2> QED
    BY <2>5, <2>7 DEF FormalFits
<1> QED
  <2>1. UNCHANGED formal \/ Write \/ WriteFails
    BY DEF Next, SequencerStep, Produce, Shutdown, NextBatch, LoopStep, LoopFault, Handle,
           HandleUnparsable, HandleRejected, HandleDuplicate, HandleNew, HandleDone,
           vars, topicVars
  <2> QED
    BY <1>1, <1>2, <1>3, <2>1

(* What the numbering loop has written is numbered.                        *)
LEMMA FormalIsNumbered ==
    ASSUME IInv, NEW o \in DOMAIN formal
    PROVE  ~R!Unnumbered(formal[o])
<1>1. PICK k \in DOMAIN requests : requests[k] = formal[o]
  BY DEF IInv, TopicInv, Known
<1>2. /\ requests[k].id \in 1..lastID /\ requests[k].seq \in 1..rooms[requests[k].room]
      /\ requests[k] \in Message
  BY DEF IInv, NumberInv, TypeOK
<1> QED
  BY <1>1, <1>2 DEF R!Unnumbered, Message

(* The relay ends only for a cause that is on record.                      *)
LEMMA RelayStopStep ==
    ASSUME RInv, TypeOK', [ProcessNext]_processVars
    PROVE  RelayStopInv'
<1>1. FormalFits'
  BY FitsStep, ProcessStep DEF RInv, RelayStopInv
<1>2. /\ rterminal => rfaults > 0
      /\ rpc = "stopped" => ctxDone \/ rfaults > 0
      /\ rfaults \in Nat
  BY RelayFacts DEF RInv, RelayStopInv, RelayAcceptsNumbered
<1>3. SUFFICES /\ rterminal' => rfaults' > 0
               /\ rpc' = "stopped" => ctxDone' \/ rfaults' > 0
  BY <1>1 DEF RelayStopInv, RelayAcceptsNumbered
<1>4. CASE UNCHANGED relayOwn
  <2>1. ctxDone => ctxDone'
    BY ProcessStep DEF Next, SequencerStep, Produce, Shutdown, Cancel, NextBatch, FetchFirst,
       TakePending, LoopStep, CollectNext, EndCollect, Commit, ReturnOnCancel, LoopFault,
       FetchFails, CollectFails, CommitFails, Rebalance, Handle, HandleUnparsable,
       HandleRejected, HandleDuplicate, HandleNew, HandleDone, Write, WriteFails, vars, loopVars
  <2> QED
    BY <1>2, <1>4, <2>1 DEF relayOwn
<1>5. CASE R!FetchFirst(formal) \/ R!TakePending(formal)
  BY <1>5, RelayStart
<1>6. CASE R!CollectNext(formal)
  BY <1>2, <1>6, RelayCollect
<1>7. ASSUME R!Fault
      PROVE  rfaults' > 0
  BY <1>2, <1>7 DEF R!Fault
<1>8. CASE R!Rebalance
  BY <1>7, <1>8 DEF R!Rebalance
<1>9. CASE RelayHolds /\ UNCHANGED <<seqOwn, formal, ctxDone>>
  <2>1. CASE R!FetchFails \/ R!CollectFails \/ R!CommitFails \/ R!PublishFails
    BY <1>7, <2>1 DEF R!FetchFails, R!CollectFails, R!CommitFails, R!PublishFails
  <2>2. CASE R!CheckBatch
    <3>1. \A k \in DOMAIN R!Messages : ~R!Unnumbered(R!Messages[k])
      <4>1. \A k \in DOMAIN rrecords : rrecords[k] \in DOMAIN formal
        BY RelayFacts
      <4>2. \A k \in DOMAIN rrecords : ~R!Unnumbered(formal[rrecords[k]])
        BY <4>1, FormalIsNumbered DEF RInv
      <4> QED
        BY <4>2 DEF R!Messages
    <3> QED
      BY <1>2, <2>2, <3>1 DEF R!CheckBatch
  <2>3. CASE R!EndCollect \/ R!ReturnOnCancel \/ R!Publish
    BY <1>2, <2>3 DEF R!EndCollect, R!ReturnOnCancel, R!Publish
  <2>4. CASE R!Commit
    BY <1>2, <2>4 DEF R!Commit
  <2> QED
    BY <1>9, <2>1, <2>2, <2>3, <2>4 DEF RelayHolds
<1> QED
  BY <1>4, <1>5, <1>6, <1>8, <1>9, RelayCases

-----------------------------------------------------------------------------
(* Every prefix of a batch extends the wire by messages that come after    *)
(* everything before them.                                                 *)
LEMMA WireStep ==
    ASSUME RInv, TypeOK', [ProcessNext]_processVars
    PROVE  WireInv'
<1>0. /\ Len(wire) \in Nat /\ DOMAIN wire = 1..Len(wire)
      /\ Len(formal) \in Nat /\ DOMAIN formal = 1..Len(formal)
      /\ DOMAIN formal' = 1..Len(formal') /\ Len(formal') \in Nat /\ Len(formal) <= Len(formal')
      /\ \A o \in 1..Len(formal) : formal'[o] = formal[o]
      /\ \A k \in 1..Len(wire) : wire'[k] = wire[k]
  BY RelayFacts, WireGrows, FormalGrows, ProcessStep DEF RInv
<1>1. ASSUME NEW k \in 1..Len(wire)
      PROVE  \E o \in DOMAIN formal' :
                 /\ formal'[o] = wire'[k]
                 /\ \A p \in 1..(o - 1) : \E i \in 1..(k - 1) : wire'[i] = formal'[p]
  <2>1. PICK o \in DOMAIN formal :
            /\ formal[o] = wire[k]
            /\ \A p \in 1..(o - 1) : \E i \in 1..(k - 1) : wire[i] = formal[p]
    BY <1>0 DEF RInv, WireInv
  <2>2. o \in DOMAIN formal' /\ formal'[o] = wire'[k]
    BY <1>0, <2>1
  <2>3. ASSUME NEW p \in 1..(o - 1)
        PROVE  \E i \in 1..(k - 1) : wire'[i] = formal'[p]
    <3>1. formal'[p] = formal[p] /\ \A i \in 1..(k - 1) : wire'[i] = wire[i]
      BY <1>0
    <3> QED
      BY <2>1, <3>1
  <2> QED
    BY <2>2, <2>3
<1>2. CASE UNCHANGED wire
  BY <1>0, <1>1, <1>2 DEF WireInv
<1>3. CASE (R!Publish \/ R!PublishFails) /\ UNCHANGED formal
  <2>1. PICK n \in 0..Len(rrecords) :
              /\ wire' \in Seq(Message) /\ Len(wire') = Len(wire) + n
              /\ \A k \in 1..n : wire'[Len(wire) + k] = formal[rrecords[k]]
    BY <1>3, PublishFacts
  <2>2. /\ Len(rrecords) \in Nat /\ DOMAIN rrecords = 1..Len(rrecords)
        /\ \A k \in 1..Len(rrecords) : rrecords[k] \in 1..Len(formal)
        /\ \A i \in DOMAIN rrecords : \A o \in 1..(rrecords[i] - 1) : RelayBefore(i, o)
    BY <1>3, RelayFacts DEF R!Publish, R!PublishFails, RInv, RelayBatchInv
  <2>3. ASSUME NEW j \in 1..n
        PROVE  \E o \in DOMAIN formal' :
                   /\ formal'[o] = wire'[Len(wire) + j]
                   /\ \A p \in 1..(o - 1) :
                         \E i \in 1..((Len(wire) + j) - 1) : wire'[i] = formal'[p]
    <3>1. j \in DOMAIN rrecords /\ rrecords[j] \in DOMAIN formal'
      BY <1>0, <1>3, <2>2
    <3>2. ASSUME NEW p \in 1..(rrecords[j] - 1)
          PROVE  \E i \in 1..((Len(wire) + j) - 1) : wire'[i] = formal'[p]
      <4>1. RelayBefore(j, p)
        BY <2>2, <3>1
      <4>2. CASE Out(p)
        <5>1. PICK i \in DOMAIN wire : wire[i] = formal[p]
          BY <4>2 DEF Out, R!OnWire
        <5>2. i \in 1..((Len(wire) + j) - 1) /\ wire'[i] = wire[i]
          BY <1>0, <5>1
        <5> QED
          BY <1>3, <5>1, <5>2
      <4>3. ASSUME NEW i \in 1..(j - 1), rrecords[i] = p
            PROVE  \E l \in 1..((Len(wire) + j) - 1) : wire'[l] = formal'[p]
        <5>1. i \in 1..n /\ Len(wire) + i \in 1..((Len(wire) + j) - 1)
          BY <1>0, <2>2
        <5> QED
          BY <1>3, <2>1, <4>3, <5>1
      <4> QED
        BY <4>1, <4>2, <4>3 DEF RelayBefore
    <3> QED
      BY <1>3, <2>1, <3>1, <3>2
  <2>4. ASSUME NEW k \in DOMAIN wire', ~(k \in 1..Len(wire))
        PROVE  \E j \in 1..n : k = Len(wire) + j
    <3>1. k \in 1..(Len(wire) + n)
      BY <2>1
    <3>2. k - Len(wire) \in 1..n /\ k = Len(wire) + (k - Len(wire))
      BY <1>0, <2>2, <2>4, <3>1
    <3> QED
      BY <3>2
  <2> QED
    <3>1. ASSUME NEW k \in DOMAIN wire'
          PROVE  \E o \in DOMAIN formal' :
                     /\ formal'[o] = wire'[k]
                     /\ \A p \in 1..(o - 1) : \E i \in 1..(k - 1) : wire'[i] = formal'[p]
      <4>1. CASE k \in 1..Len(wire)
        BY <1>1, <4>1
      <4>2. CASE ~(k \in 1..Len(wire))
        <5>1. PICK j \in 1..n : k = Len(wire) + j
          BY <2>4, <4>2
        <5> QED
          BY <2>3, <5>1
      <4> QED
        BY <4>1, <4>2
    <3> QED
      BY <3>1 DEF WireInv
<1> QED
  BY <1>2, <1>3, RelayCases DEF relayOwn, RelayHolds

-----------------------------------------------------------------------------
(* The inductive invariant of the process.                                 *)
THEOREM ProcessInductive == ProcessSpec => []RInv
<1> DEFINE Own == RelayTypeOK /\ RelayBatchInv /\ RelayStopInv /\ WireInv
<1>1. ProcessInit => Own
  <2> SUFFICES ASSUME ProcessInit PROVE Own
    OBVIOUS
  <2>0. /\ formal = << >> /\ wire = << >> /\ rpc = "fetch" /\ rfetched = 0 /\ rpending = 0
        /\ rrecords = << >> /\ rbytes = 0 /\ rterminal = FALSE /\ rcommitted = 0
        /\ rfaults = 0 /\ ctxDone = FALSE
    BY DEF ProcessInit, Init, R!RelayInit, R!LoopInit
  <2>1. DOMAIN rrecords = {} /\ DOMAIN formal = {} /\ DOMAIN wire = {} /\ Len(formal) = 0
    BY <2>0
  <2>2. RelayTypeOK
    <3>1. rterminal \in BOOLEAN /\ ctxDone \in BOOLEAN
      BY <2>0
    <3>2. rrecords \in Seq(Nat) /\ wire \in Seq(Message) /\ rpc \in R!PCs
      BY <2>0 DEF R!PCs
    <3>3. rfaults \in 0..MaxFaults
      BY <2>0, BatchAssumption DEF BatchAssumption
    <3> QED
      BY <2>0, <2>1, <3>1, <3>2, <3>3 DEF RelayTypeOK, R!LoopTypeOK
  <2>3. RelayBatchInv
    BY <2>0, <2>1 DEF RelayBatchInv, Passed
  <2>4. RelayStopInv
    BY <2>0, <2>1 DEF RelayStopInv, FormalFits, RelayAcceptsNumbered
  <2>5. WireInv
    BY <2>1 DEF WireInv
  <2> QED
    BY <2>2, <2>3, <2>4, <2>5
<1>2. IInv /\ IInv' /\ Own /\ [ProcessNext]_processVars => Own'
  BY RelayTypeStep, RelayBatchStep, RelayStopStep, WireStep DEF RInv, IInv
<1>3. ProcessSpec => []IInv
  BY ProcessImplementsSequencer, Inductive, PTL
<1>4. ProcessSpec => []Own
  BY <1>1, <1>2, <1>3, PTL DEF ProcessSpec
<1>5. IInv /\ Own => RInv
  BY DEF RInv
<1> QED
  BY <1>3, <1>4, <1>5, PTL

(* The relay commits an offset only after every record up to it was handed *)
(* to Redis, through put-aside records, failed pipelines and rebalances.   *)
THEOREM RelayedBeforeCommitHolds == ProcessSpec => []RelayedBeforeCommit
<1>1. RInv => RelayedBeforeCommit
  BY DEF RInv, RelayBatchInv, Out, RelayedBeforeCommit, R!RelayedBeforeCommit
<1> QED
  BY <1>1, ProcessInductive, PTL

(* Neither loop ends over what it was handed in the ordinary course:       *)
(* rejected requests do not end the numbering, numbered messages do not    *)
(* end the relay.                                                          *)
THEOREM LoopsStopForCauseHolds == ProcessSpec => []LoopsStopForCause
<1>1. RInv => RelayAcceptsNumbered
  BY DEF RInv, RelayStopInv
<1>2. RelayAcceptsNumbered /\ StopsForCause => LoopsStopForCause
  BY DEF LoopsStopForCause
<1> QED
  BY <1>1, <1>2, ProcessInductive, ProcessImplementsSequencer, StopsForCauseHolds, PTL

(* The broadcast consists of messages of the formal topic with the numbers *)
(* they keep, each heard of for the first time in the topic's order.       *)
THEOREM BroadcastInOrderHolds == ProcessSpec => []BroadcastInOrder
<1>1. RInv => BroadcastIsFormal
  <2> SUFFICES ASSUME RInv, NEW k \in DOMAIN wire
               PROVE  InFormal(wire[k]) /\ requests[KeyOf(wire[k])] = wire[k]
    BY DEF BroadcastIsFormal
  <2>1. PICK o \in DOMAIN formal : formal[o] = wire[k]
    BY DEF RInv, WireInv
  <2>2. PICK key \in DOMAIN requests : requests[key] = formal[o]
    BY DEF RInv, IInv, TopicInv, Known
  <2>3. KeyOf(requests[key]) = key
    BY DEF RInv, IInv, NumberInv
  <2> QED
    BY <2>1, <2>2, <2>3 DEF InFormal
<1>2. RInv => RelayOrder
  <2> SUFFICES ASSUME RInv, NEW j \in DOMAIN wire, NEW k \in DOMAIN wire, j < k,
                      R!FirstOnWire(wire[k], k)
               PROVE  \E o \in DOMAIN formal :
                          /\ formal[o] = wire[j]
                          /\ \A p \in 1..o : formal[p] # wire[k]
    BY DEF RelayOrder, R!RelayOrder
  <2>0. j \in Nat /\ k \in Nat /\ \A o \in DOMAIN formal : o \in Nat
    BY RelayFacts
  <2>1. \A i \in 1..(k - 1) : wire[i] # wire[k]
    BY DEF R!FirstOnWire
  <2>2. PICK o \in DOMAIN formal :
            /\ formal[o] = wire[j]
            /\ \A p \in 1..(o - 1) : \E i \in 1..(j - 1) : wire[i] = formal[p]
    BY DEF RInv, WireInv
  <2>3. ASSUME NEW p \in 1..o
        PROVE  formal[p] # wire[k]
    <3>1. CASE p = o
      <4>1. j \in 1..(k - 1)
        BY RelayFacts
      <4> QED
        BY <2>1, <2>2, <3>1, <4>1
    <3>2. CASE p # o
      <4>1. p \in 1..(o - 1)
        BY <2>0, <3>2
      <4>2. PICK i \in 1..(j - 1) : wire[i] = formal[p]
        BY <2>2, <4>1
      <4>3. i \in 1..(k - 1)
        BY <2>0
      <4> QED
        BY <2>1, <4>2, <4>3
    <3> QED
      BY <3>1, <3>2
  <2> QED
    BY <2>2, <2>3
<1>3. BroadcastIsFormal /\ RelayOrder => BroadcastInOrder
  BY DEF BroadcastInOrder
<1> QED
  BY <1>1, <1>2, <1>3, ProcessInductive, PTL

=============================================================================
