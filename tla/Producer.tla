------------------------------ MODULE Producer ------------------------------
(***************************************************************************)
(* How a gateway hands messages to the ingress topic: each connection's    *)
(* ReadPump (gateway/websocket/client.go) calls HandleIncomingMessageAt    *)
(* (messages/producer/producer-kafka.go), which queues a request for the   *)
(* run goroutine and waits for its result; run writes batches; Close       *)
(* drains the queue.                                                       *)
(*                                                                         *)
(* A connection sends the messages of its script one after the other; a    *)
(* message is [size, formed], formed being FALSE when ReadPump skips it    *)
(* (no JSON, or no client id).  <<c, i>> is the request of message i of    *)
(* connection c.                                                           *)
(***************************************************************************)
EXTENDS Integers, Sequences

CONSTANTS Conns, Script,
          MaxMessages, MaxBytes, QueueCapacity,  \* BatchOptions
          MaxFaults    \* bound: failed attempts to write

ASSUME ProducerAssumption ==
    /\ \A c \in Conns : Script[c] \in Seq([size : Nat \ {0}, formed : BOOLEAN])
    /\ MaxMessages \in Nat \ {0}
    /\ MaxBytes \in Nat \ {0}
    /\ QueueCapacity \in Nat \ {0}
    /\ MaxFaults \in Nat

VARIABLES sent,      \* how many messages each connection has read
          waiting,   \* whether its ReadPump waits for the last one's result
          outcome,   \* what HandleIncomingMessageAt returned, per request
          answers,   \* what run put in the request's result channel
          queue,     \* MessageClient.queue
          closed,    \* MessageClient.closed; the stop channel is closed with it
          pc,        \* where run is; "done" once it has returned
          stopping, pending, batch, bytes,  \* run's own
          topic,     \* the ingress topic
          faults

callVars == <<sent, waiting, outcome>>
runVars == <<pc, stopping, pending, batch, bytes>>
vars == <<callVars, answers, queue, closed, runVars, topic, faults>>

Requests == UNION {{<<c, i>> : i \in DOMAIN Script[c]} : c \in Conns}

Size(q) == Script[q[1]][q[2]].size

None == << >>   \* pending: nil

TypeOK ==
    /\ \A c \in Conns : sent[c] \in 0..Len(Script[c])
    /\ waiting \in [Conns -> BOOLEAN]
    /\ DOMAIN outcome \subseteq Requests
    /\ \A q \in DOMAIN outcome :
          outcome[q] \in {"skipped", "refused", "ok", "error", "timeout"}
    /\ DOMAIN answers \subseteq Requests
    /\ \A q \in DOMAIN answers : answers[q] \in {"ok", "error"}
    /\ queue \in Seq(Requests) /\ Len(queue) <= QueueCapacity
    /\ closed \in BOOLEAN
    /\ pc \in {"first", "collect", "write", "done"}
    /\ stopping \in BOOLEAN
    /\ pending \in Requests \cup {None}
    /\ batch \in Seq(Requests)
    /\ bytes \in Nat
    /\ topic \in Seq(Requests)
    /\ faults \in 0..MaxFaults

Empty == [q \in {} |-> "ok"]

Init ==
    /\ sent = [c \in Conns |-> 0]
    /\ waiting = [c \in Conns |-> FALSE]
    /\ outcome = Empty
    /\ answers = Empty
    /\ queue = << >>
    /\ closed = FALSE
    /\ pc = "first"
    /\ stopping = FALSE
    /\ pending = None
    /\ batch = << >>
    /\ bytes = 0
    /\ topic = << >>
    /\ faults = 0

With(f, q, value) == [p \in DOMAIN f \cup {q} |-> IF p = q THEN value ELSE f[p]]

-----------------------------------------------------------------------------
(* ReadPump and HandleIncomingMessageAt *)

Reads(c) ==
    /\ ~waiting[c]
    /\ sent[c] < Len(Script[c])
    /\ sent' = [sent EXCEPT ![c] = @ + 1]

Upcoming(c) == <<c, sent[c] + 1>>

Skip(c) ==
    /\ Reads(c)
    /\ ~Script[c][sent[c] + 1].formed
    /\ outcome' = With(outcome, Upcoming(c), "skipped")
    /\ UNCHANGED <<waiting, answers, queue, closed, runVars, topic, faults>>

CanQueue(q) == Size(q) <= MaxBytes /\ ~closed /\ Len(queue) < QueueCapacity

(* Too large, closed, or queue full: an error, and the message is dropped. *)
Refuse(c) ==
    /\ Reads(c)
    /\ Script[c][sent[c] + 1].formed
    /\ ~CanQueue(Upcoming(c))
    /\ outcome' = With(outcome, Upcoming(c), "refused")
    /\ UNCHANGED <<waiting, answers, queue, closed, runVars, topic, faults>>

(* The closed flag is read and the request queued under the read lock.     *)
Enqueue(c) ==
    /\ Reads(c)
    /\ Script[c][sent[c] + 1].formed
    /\ CanQueue(Upcoming(c))
    /\ queue' = Append(queue, Upcoming(c))
    /\ waiting' = [waiting EXCEPT ![c] = TRUE]
    /\ UNCHANGED <<outcome, answers, closed, runVars, topic, faults>>

(* The result arrives, or the caller's three seconds are over: the request *)
(* stays where it is.                                                      *)
Learn(c) ==
    /\ waiting[c]
    /\ LET q == <<c, sent[c]>>
       IN  \/ q \in DOMAIN answers /\ outcome' = With(outcome, q, answers[q])
           \/ outcome' = With(outcome, q, "timeout")
    /\ waiting' = [waiting EXCEPT ![c] = FALSE]
    /\ UNCHANGED <<sent, answers, queue, closed, runVars, topic, faults>>

-----------------------------------------------------------------------------
(* run *)

StartBatch(q) ==
    /\ batch' = <<q>>
    /\ bytes' = Size(q)
    /\ pc' = "collect"

(* Mutant: the queue goes before the request put aside.                    *)
TakeFirstOvertakes ==
    /\ pc = "first"
    /\ \/ /\ pending # None
          /\ StartBatch(pending)
          /\ pending' = None
          /\ UNCHANGED queue
       \/ /\ queue # << >>
          /\ StartBatch(Head(queue))
          /\ queue' = Tail(queue)
          /\ UNCHANGED pending
    /\ UNCHANGED <<callVars, answers, closed, stopping, topic, faults>>

TakeFirst ==
    /\ pc = "first"
    /\ \/ /\ pending # None
          /\ StartBatch(pending)
          /\ pending' = None
          /\ UNCHANGED queue
       \/ /\ pending = None
          /\ queue # << >>
          /\ StartBatch(Head(queue))
          /\ queue' = Tail(queue)
          /\ UNCHANGED pending
    /\ UNCHANGED <<callVars, answers, closed, stopping, topic, faults>>

(* Both selects of run may notice the closed stop channel.                 *)
SeeStop ==
    /\ closed
    /\ ~stopping
    /\ \/ pc = "first" /\ pending = None
       \/ pc = "collect"
    /\ stopping' = TRUE
    /\ UNCHANGED <<callVars, answers, queue, closed, pc, pending, batch, bytes,
                   topic, faults>>

(* Mutant: run returns without draining the queue.                         *)
ReturnEarly ==
    /\ pc = "first"
    /\ pending = None
    /\ stopping
    /\ pc' = "done"
    /\ UNCHANGED <<callVars, answers, queue, closed, stopping, pending, batch,
                   bytes, topic, faults>>

Return ==
    /\ pc = "first"
    /\ pending = None
    /\ stopping
    /\ queue = << >>
    /\ pc' = "done"
    /\ UNCHANGED <<callVars, answers, queue, closed, stopping, pending, batch,
                   bytes, topic, faults>>

Collecting == pc = "collect" /\ Len(batch) < MaxMessages /\ bytes < MaxBytes

CollectNext ==
    /\ Collecting
    /\ queue # << >>
    /\ queue' = Tail(queue)
    /\ LET q == Head(queue)
       IN  \/ /\ bytes + Size(q) > MaxBytes
              /\ pending' = q
              /\ pc' = "write"
              /\ UNCHANGED <<batch, bytes>>
           \/ /\ bytes + Size(q) <= MaxBytes
              /\ batch' = Append(batch, q)
              /\ bytes' = bytes + Size(q)
              /\ UNCHANGED <<pending, pc>>
    /\ UNCHANGED <<callVars, answers, closed, stopping, topic, faults>>

(* Full, out of time, or, when stopping, out of requests.                  *)
EndCollect ==
    /\ pc = "collect"
    /\ Collecting /\ stopping => queue = << >>
    /\ pc' = "write"
    /\ UNCHANGED <<callVars, answers, queue, closed, stopping, pending, batch,
                   bytes, topic, faults>>

(* Mutant: the error of the write is not passed on.                        *)
AnswerOk(result) ==
    LET asked == {batch[k] : k \in DOMAIN batch}
    IN  /\ answers' = [q \in DOMAIN answers \cup asked |->
                          IF q \in asked THEN "ok" ELSE answers[q]]
        /\ pc' = "first"

Answer(result) ==
    LET asked == {batch[k] : k \in DOMAIN batch}
    IN  /\ answers' = [q \in DOMAIN answers \cup asked |->
                          IF q \in asked THEN result ELSE answers[q]]
        /\ pc' = "first"

Write ==
    /\ pc = "write"
    /\ topic' = topic \o batch
    /\ Answer("ok")
    /\ UNCHANGED <<callVars, queue, closed, stopping, pending, batch, bytes, faults>>

(* The Kafka writer sends the batch in one request or in several, one      *)
(* after the other.  When a request fails it may have been executed all    *)
(* the same, and the writer sends it again; when it fails too often the    *)
(* others are still sent, and all callers are given the error.             *)
WriteFails ==
    /\ pc = "write"
    /\ faults < MaxFaults
    /\ faults' = faults + 1
    /\ \/ /\ \E n \in DOMAIN batch : topic' = topic \o SubSeq(batch, 1, n)
          /\ UNCHANGED <<answers, pc>>
       \/ /\ \E n \in 0..Len(batch) : \E at \in [1..n -> DOMAIN batch] :
                 /\ \A i, j \in 1..n : i < j => at[i] < at[j]
                 /\ topic' = topic \o [i \in 1..n |-> batch[at[i]]]
          /\ Answer("error")
    /\ UNCHANGED <<callVars, queue, closed, stopping, pending, batch, bytes>>

(* Close sets the flag and closes the stop channel under the write lock.   *)
Close ==
    /\ ~closed
    /\ closed' = TRUE
    /\ UNCHANGED <<callVars, answers, queue, runVars, topic, faults>>

RunStep == TakeFirst \/ SeeStop \/ Return \/ CollectNext \/ EndCollect \/ Write

Next == \/ \E c \in Conns : Skip(c) \/ Refuse(c) \/ Enqueue(c) \/ Learn(c)
        \/ RunStep
        \/ WriteFails
        \/ Close

Spec == Init /\ [][Next]_vars

(* run keeps running and a write comes to an end.                          *)
FairSpec == Spec /\ WF_vars(RunStep)

-----------------------------------------------------------------------------
(* Properties *)

InTopic(q) == \E k \in DOMAIN topic : topic[k] = q

Taken == {q \in Requests : \/ q \in DOMAIN answers
                           \/ q = pending
                           \/ \E k \in DOMAIN queue : queue[k] = q
                           \/ pc # "first" /\ \E k \in DOMAIN batch : batch[k] = q}

(* A sender that is told its message was accepted finds it in the topic;   *)
(* one that was refused, or skipped, leaves nothing there.  Only an error  *)
(* or a timeout leaves it in doubt.                                        *)
OutcomeIsTrue ==
    \A q \in DOMAIN outcome :
        /\ outcome[q] = "ok" => InTopic(q)
        /\ outcome[q] \in {"refused", "skipped"} => ~InTopic(q) /\ q \notin Taken

(* What one connection sends enters the topic in the order it was sent,    *)
(* also when a caller gave up on a message that was still queued, and when *)
(* a message was put aside for the next batch.                             *)
SenderOrder ==
    \A j, k \in DOMAIN topic :
        /\ topic[j][1] = topic[k][1]
        /\ topic[j][2] > topic[k][2]
        => \E i \in 1..(j - 1) : topic[i] = topic[k]

(* A queued request is answered in the end, caller or no caller, and a     *)
(* client that is closed ends: Close loses none, however it falls between  *)
(* queueing and draining.                                                  *)
EveryRequestSettled ==
    /\ \A q \in Requests : q \in Taken ~> q \in DOMAIN answers
    /\ closed ~> pc = "done"

=============================================================================
