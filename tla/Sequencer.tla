----------------------------- MODULE Sequencer ------------------------------
(***************************************************************************)
(* The numbering loop of the sequencer process: Assign (sequencer.go) and  *)
(* RunBatched (batch.go) between the ingress topic, to which gateways      *)
(* append send requests, and the formal topic, from which everyone else    *)
(* reads.  The numbering state lives in memory, for one process lifetime:  *)
(* the container is never restarted (docker-compose.yml, restart: "no").   *)
(*                                                                         *)
(* A request is [room, sender, client, body, at, parses].  body stands for *)
(* content and type, at for the acceptance time and trace context that a   *)
(* retry of the same request carries differently; parses is FALSE for      *)
(* bytes Unmarshal refuses.  A room, sender or client outside Rooms,       *)
(* Senders, Clients stands for an id <= 0 or a client id that is empty or  *)
(* longer than 64.                                                         *)
(***************************************************************************)
EXTENDS ConsumeBatches

CONSTANTS Rooms, Senders, Clients, Times,
          Requests,     \* what gateways may append to the ingress topic
          ClockValues,  \* readings of the wall clock; it may run backwards
          IdSpace,      \* ids per clock tick (2^12 in the code)
          NumberBytes,  \* what id and number add to the size of a record
          MaxIngress    \* bound: records in the ingress topic

ASSUME SequencerAssumption ==
    /\ \A q \in Requests : /\ q.body \in Bodies
                           /\ q.at \in Times
                           /\ q.parses \in BOOLEAN
    /\ ClockValues \subseteq Int
    /\ IdSpace \in Nat \ {0}
    /\ NumberBytes \in Nat
    /\ MaxIngress \in Nat

VARIABLES ingress,   \* the ingress topic
          formal,    \* the formal topic
          rooms,     \* Sequencer.rooms: last number given in each room
          requests,  \* Sequencer.requests: what each request key was given
          lastID,    \* Sequencer.lastID
          outputs,   \* the messages this batch will write
          idx        \* how many records of the batch are handled

numberVars == <<rooms, requests, lastID>>
topicVars == <<ingress, formal>>
vars == <<loopVars, topicVars, numberVars, outputs, idx>>

Keys == Senders \X Clients

Message == [room : Rooms, sender : Senders, client : Clients, body : Bodies,
            at : Times, id : Int, seq : Int]

KeyOf(q) == <<q.sender, q.client>>

(* The loop only ever speaks of records that exist.                        *)
OffsetsExist ==
    /\ fetched <= Len(ingress)
    /\ pending <= Len(ingress)
    /\ committed <= Len(ingress)
    /\ \A k \in DOMAIN records : records[k] \in 1..Len(ingress)

TypeOK ==
    /\ LoopTypeOK
    /\ OffsetsExist
    /\ ingress \in Seq(Requests)
    /\ formal \in Seq(Message)
    /\ rooms \in [Rooms -> Nat]
    /\ DOMAIN requests \subseteq Keys
    /\ requests \in [DOMAIN requests -> Message]
    /\ lastID \in Nat
    /\ outputs \in Seq(Message)
    /\ idx \in Nat

Init ==
    /\ LoopInit
    /\ ingress = << >>
    /\ formal = << >>
    /\ rooms = [r \in Rooms |-> 0]
    /\ requests = [k \in {} |-> 0]
    /\ lastID = 0
    /\ outputs = << >>
    /\ idx = 0

-----------------------------------------------------------------------------
(* Assign *)

HasIdentity(q) == q.room \in Rooms /\ q.sender \in Senders /\ q.client \in Clients

(* The key is known, but with another room, content or type.               *)
Conflicts(q) ==
    /\ KeyOf(q) \in DOMAIN requests
    /\ \/ requests[KeyOf(q)].room # q.room
       \/ requests[KeyOf(q)].body # q.body

Rejected(q) == ~HasIdentity(q) \/ Conflicts(q)

(* Mutant: ids follow the clock, wherever it goes.                         *)
NextIDOfClock(now) == now * IdSpace

NextID(now) == IF now * IdSpace <= lastID THEN lastID + 1 ELSE now * IdSpace

Numbered(q, id) == [room |-> q.room, sender |-> q.sender, client |-> q.client,
                    body |-> q.body, at |-> q.at, id |-> id,
                    seq |-> rooms[q.room] + 1]

-----------------------------------------------------------------------------
(* RunBatched handles the records of a batch in order. *)

Handling == pc = "handle" /\ idx < Len(records)

Current == ingress[records[idx + 1]]

HandleUnparsable ==
    /\ Handling
    /\ ~Current.parses
    /\ pc' = "stopped"
    /\ UNCHANGED <<ctxDone, fetched, pending, records, bytes, terminal,
                   committed, faults, topicVars, numberVars, outputs, idx>>

(* Mutant: a rejected request ends the loop.                               *)
HandleRejectedStops ==
    /\ Handling
    /\ Current.parses
    /\ Rejected(Current)
    /\ pc' = "stopped"
    /\ UNCHANGED <<ctxDone, fetched, pending, records, bytes, terminal,
                   committed, faults, topicVars, numberVars, outputs, idx>>

(* Mutant: a request that reuses a key uses up a number of its room.       *)
HandleRejectedCounts ==
    /\ Handling
    /\ Current.parses
    /\ Rejected(Current)
    /\ rooms' = [r \in Rooms |-> IF r = Current.room THEN rooms[r] + 1 ELSE rooms[r]]
    /\ idx' = idx + 1
    /\ UNCHANGED <<loopVars, topicVars, requests, lastID, outputs>>

HandleRejected ==
    /\ Handling
    /\ Current.parses
    /\ Rejected(Current)
    /\ idx' = idx + 1
    /\ UNCHANGED <<loopVars, topicVars, numberVars, outputs>>

(* A retry is answered with the message first accepted for its key.        *)
HandleDuplicate ==
    /\ Handling
    /\ Current.parses
    /\ ~Rejected(Current)
    /\ KeyOf(Current) \in DOMAIN requests
    /\ outputs' = Append(outputs, requests[KeyOf(Current)])
    /\ idx' = idx + 1
    /\ UNCHANGED <<loopVars, topicVars, numberVars>>

(* Mutant: the request is numbered without looking its key up.             *)
HandleNewAgain(now) ==
    /\ Handling
    /\ Current.parses
    /\ ~Rejected(Current)
    /\ LET m == Numbered(Current, NextID(now))
       IN  /\ lastID' = m.id
           /\ rooms' = [rooms EXCEPT ![m.room] = m.seq]
           /\ requests' = [k \in DOMAIN requests \cup {KeyOf(m)} |->
                               IF k = KeyOf(m) THEN m ELSE requests[k]]
           /\ outputs' = Append(outputs, m)
    /\ idx' = idx + 1
    /\ UNCHANGED <<loopVars, topicVars>>

HandleNew(now) ==
    /\ Handling
    /\ Current.parses
    /\ ~Rejected(Current)
    /\ KeyOf(Current) \notin DOMAIN requests
    /\ LET m == Numbered(Current, NextID(now))
       IN  /\ lastID' = m.id
           /\ rooms' = [rooms EXCEPT ![m.room] = m.seq]
           /\ requests' = [k \in DOMAIN requests \cup {KeyOf(m)} |->
                               IF k = KeyOf(m) THEN m ELSE requests[k]]
           /\ outputs' = Append(outputs, m)
    /\ idx' = idx + 1
    /\ UNCHANGED <<loopVars, topicVars>>

(* Mutant: the batch is committed without being written.                   *)
HandleDoneUnwritten ==
    /\ pc = "handle"
    /\ idx = Len(records)
    /\ pc' = "commit"
    /\ UNCHANGED <<ctxDone, fetched, pending, records, bytes, terminal,
                   committed, faults, topicVars, numberVars, outputs, idx>>

HandleDone ==
    /\ pc = "handle"
    /\ idx = Len(records)
    /\ pc' = IF outputs = << >> THEN "commit" ELSE "write"
    /\ UNCHANGED <<ctxDone, fetched, pending, records, bytes, terminal,
                   committed, faults, topicVars, numberVars, outputs, idx>>

(* The Kafka writer (BatchBytes) refuses a call with a message that its    *)
(* numbers have made larger than a whole batch.                            *)
Fits == \A k \in DOMAIN outputs : BodySize[outputs[k].body] + NumberBytes <= MaxBytes

Write ==
    /\ pc = "write"
    /\ Fits
    /\ formal' = formal \o outputs
    /\ pc' = "commit"
    /\ UNCHANGED <<ctxDone, fetched, pending, records, bytes, terminal,
                   committed, faults, ingress, numberVars, outputs, idx>>

(* A write that fails may have left any part of its messages, in order, in *)
(* the topic (the Kafka writer splits a call into requests of its own and  *)
(* an acknowledgement may be lost); Retry writes the whole batch again.    *)
WriteFails ==
    /\ pc = "write"
    /\ Fault
    /\ \E n \in 0..Len(outputs) : \E part \in [1..n -> 1..Len(outputs)] :
           /\ \A i, j \in 1..n : i < j => part[i] < part[j]
           /\ n > 0 => Fits
           /\ formal' = formal \o [k \in 1..n |-> outputs[part[k]]]
    /\ UNCHANGED <<pc, ctxDone, fetched, pending, records, bytes, terminal,
                   committed, ingress, numberVars, outputs, idx>>

-----------------------------------------------------------------------------
(* The loop of module ConsumeBatches on the ingress topic.  A new batch is *)
(* handled by a fresh call of RunBatched's closure.                        *)

NextBatch == (FetchFirst(ingress) \/ TakePending(ingress))
             /\ outputs' = << >> /\ idx' = 0
             /\ UNCHANGED <<topicVars, numberVars>>

LoopStep == (\/ CollectNext(ingress) \/ EndCollect \/ Commit
             \/ ReturnOnCancel)
            /\ UNCHANGED <<topicVars, numberVars, outputs, idx>>

LoopFault == (FetchFails \/ CollectFails \/ CommitFails \/ Rebalance)
             /\ UNCHANGED <<topicVars, numberVars, outputs, idx>>

Shutdown == Cancel /\ UNCHANGED <<topicVars, numberVars, outputs, idx>>

(* External: gateways append requests, retries among them.                 *)
Produce(q) ==
    /\ Len(ingress) < MaxIngress
    /\ ingress' = Append(ingress, q)
    /\ UNCHANGED <<loopVars, formal, numberVars, outputs, idx>>

Handle == HandleUnparsable \/ HandleRejected \/ HandleDuplicate
          \/ (\E now \in ClockValues : HandleNew(now)) \/ HandleDone

(* The goroutine that runs RunBatched.                                     *)
SequencerStep == NextBatch \/ LoopStep \/ LoopFault \/ Handle \/ Write \/ WriteFails

Next == \/ \E q \in Requests : Produce(q)
        \/ Shutdown
        \/ SequencerStep

Spec == Init /\ [][Next]_vars

-----------------------------------------------------------------------------
(* Properties *)

InFormal(m) == \E k \in DOMAIN formal : formal[k] = m

(* Whatever is redelivered, retried or written twice, the formal topic     *)
(* never shows two different messages under one request key, one id or one *)
(* room number: Assign gives a number once, and a retried write repeats it.*)
FormalIdentity ==
    \A i, j \in DOMAIN formal :
        \/ KeyOf(formal[i]) = KeyOf(formal[j])
        \/ formal[i].id = formal[j].id
        \/ formal[i].room = formal[j].room /\ formal[i].seq = formal[j].seq
        => formal[i] = formal[j]

(* Ids and room numbers are positive (the relay and the archiver stop at   *)
(* one that is not) and order a room's messages the same way, whatever the *)
(* clock does.                                                             *)
IdsFollowSeq ==
    \A i, j \in DOMAIN formal :
        /\ formal[i].id > 0
        /\ formal[i].seq > 0
        /\ formal[i].room = formal[j].room /\ formal[i].seq < formal[j].seq
           => formal[i].id < formal[j].id

(* Between batches the numbers of a room in the formal topic have no gap:  *)
(* a number that was given has been written, a rejected request used none. *)
NoGap ==
    pc \in {"fetch", "collect", "commit"} =>
        \A r \in Rooms : \A n \in 1..rooms[r] :
            \E k \in DOMAIN formal : formal[k].room = r /\ formal[k].seq = n

Answered(q) == HasIdentity(q) => /\ KeyOf(q) \in DOMAIN requests
                                 /\ InFormal(requests[KeyOf(q)])

(* An offset is committed only when every request up to it that has an     *)
(* identity is answered by a message in the formal topic: nothing is lost  *)
(* between the topics, through failed writes, a put-aside record or a      *)
(* rebalance.                                                              *)
CommittedIsOut ==
    \A o \in 1..committed :
        /\ ingress[o].parses
        /\ Answered(ingress[o])

(* o is the first record of the ingress topic that carries key k.          *)
IsFirst(k, o) ==
    /\ o \in DOMAIN ingress
    /\ HasIdentity(ingress[o]) /\ KeyOf(ingress[o]) = k
    /\ \A p \in 1..(o - 1) : HasIdentity(ingress[p]) => KeyOf(ingress[p]) # k

(* The message of a key is the one first requested, in room, content and   *)
(* acceptance time, and messages of a room are numbered in the order of    *)
(* their first requests, also when the reader goes back and hands out      *)
(* records again.                                                          *)
FirstRequestWins ==
    \A k \in DOMAIN requests : \E o \in DOMAIN ingress :
        /\ IsFirst(k, o)
        /\ requests[k].room = ingress[o].room
        /\ requests[k].body = ingress[o].body
        /\ requests[k].at = ingress[o].at
        /\ \A l \in DOMAIN requests : \A p \in DOMAIN ingress :
              IsFirst(l, p) /\ o < p /\ requests[l].room = requests[k].room
              => requests[k].seq < requests[l].seq

(* One bad request does not block every room: rejected requests never stop *)
(* the loop.  It ends only when it is cancelled, when a fetch fails, or at *)
(* a record that is unparsable or larger than a whole batch.               *)
StopsForCause ==
    pc = "stopped" =>
        \/ ctxDone
        \/ faults > 0
        \/ \E o \in DOMAIN ingress :
              o <= fetched /\ (~ingress[o].parses
                              \/ BodySize[ingress[o].body] > MaxBytes)

(* Retry repeats a write that cannot succeed.                              *)
Stuck == pc = "write" /\ ~Fits

(* Every request that reaches the ingress topic is answered in the formal  *)
(* topic in the end (a conflicting one by the message it conflicts with),  *)
(* unless the loop has returned, or is stuck with a message that fitted a  *)
(* batch only without its numbers.                                         *)
EveryRequestAnswered ==
    \A o \in 1..MaxIngress :
        o <= Len(ingress) ~>
            \/ o <= Len(ingress) /\ Answered(ingress[o])
            \/ pc = "stopped" \/ Stuck

(* The numbering promise, seen from outside: module Numbering.             *)
Promise == INSTANCE Numbering
               WITH numbered <- {requests[k] : k \in DOMAIN requests},
                    log <- formal

ImplementsNumbering == Promise!Spec

=============================================================================
