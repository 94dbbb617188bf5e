------------------------------ MODULE Delivery ------------------------------
(***************************************************************************)
(* How a room's messages travel through a gateway to its connections       *)
(* (gateway/websocket/hub.go, client.go): Publish puts a message from      *)
(* Redis into the forward queue of the room's shard; the shard's loop      *)
(* hands it to the send queue of every subscribed client, asking for the   *)
(* eviction of those whose queue is full; each client's WritePump collects *)
(* a batch and writes it to the socket.  The eviction of a client is done  *)
(* by the loop of its user's shard, which may be the same loop.            *)
(*                                                                         *)
(* Messages are numbered in the order they come from Redis.  The clients   *)
(* are subscribed to the room from the beginning.                          *)
(***************************************************************************)
EXTENDS Integers, Sequences

CONSTANTS Clients,
          Shards, RoomShard,  \* the shards, and the one of the room
          ShardOf,            \* the shard of a client's user
          ForwardCap,         \* capacity of forward (1024)
          SendCap,            \* capacity of Client.Send (512)
          KillCap,            \* capacity of killClient (64)
          WriteMax,           \* writeBatchMaxMessages (64)
          None,
          MaxMessages         \* bound: messages that come from Redis

ASSUME DeliveryAssumption ==
    /\ RoomShard \in Shards
    /\ ShardOf \in [Clients -> Shards]
    /\ {ForwardCap, SendCap, KillCap, WriteMax} \subseteq Nat \ {0}
    /\ None \notin Clients
    /\ MaxMessages \in Nat

VARIABLES arrived,     \* messages that have come from Redis
          lost,        \* those of them that found the forward queue full
          forward,     \* hubShard.forward of the room's shard
          taken,       \* messages its loop has taken from it, in order
          todo,        \* message and client pairs dispatchMessage has to try
          subscribed,  \* the room's clients
          killClient,  \* hubShard.killClient, per shard
          killing,     \* the client whose Unregister a shard's loop runs
          closing,     \* clients unregistered, their send queue still open
          sendClosed,  \* clients whose send queue is closed
          send,        \* Client.Send
          batch,       \* WritePump's batch
          wire,        \* what was written to the socket
          writing,     \* clients whose WritePump runs
          open,        \* clients whose socket is open
          dropped      \* messages that found a client full, paired with it,
                       \*   and whose request for its eviction was dropped

queueVars == <<arrived, lost, forward, taken, todo>>
killVars == <<killClient, killing, dropped>>
connVars == <<subscribed, closing, sendClosed>>
pumpVars == <<batch, wire, writing, open>>
vars == <<queueVars, killVars, connVars, send, pumpVars>>

Msgs == 1..MaxMessages

TypeOK ==
    /\ arrived \in 0..MaxMessages
    /\ lost \subseteq Msgs
    /\ forward \in Seq(Msgs) /\ Len(forward) <= ForwardCap
    /\ taken \in Seq(Msgs)
    /\ todo \subseteq Msgs \X Clients
    /\ killClient \in [Shards -> Seq(Clients)]
    /\ \A s \in Shards : Len(killClient[s]) <= KillCap
    /\ killing \in [Shards -> Clients \cup {None}]
    /\ send \in [Clients -> Seq(Msgs)]
    /\ \A c \in Clients : Len(send[c]) <= SendCap
    /\ batch \in [Clients -> Seq(Msgs)]
    /\ wire \in [Clients -> Seq(Msgs)]
    /\ {subscribed, closing, sendClosed, writing, open} \subseteq SUBSET Clients
    /\ dropped \subseteq Msgs \X Clients

Init ==
    /\ arrived = 0
    /\ lost = {}
    /\ forward = << >>
    /\ taken = << >>
    /\ todo = {}
    /\ subscribed = Clients
    /\ killClient = [s \in Shards |-> << >>]
    /\ killing = [s \in Shards |-> None]
    /\ closing = {}
    /\ sendClosed = {}
    /\ send = [c \in Clients |-> << >>]
    /\ batch = [c \in Clients |-> << >>]
    /\ wire = [c \in Clients |-> << >>]
    /\ writing = Clients
    /\ open = Clients
    /\ dropped = {}

-----------------------------------------------------------------------------
(* Publish and the loops of the shards *)

(* A full queue drops the message.                                         *)
Publish ==
    /\ arrived < MaxMessages
    /\ arrived' = arrived + 1
    /\ \/ /\ Len(forward) < ForwardCap
          /\ forward' = Append(forward, arrived + 1)
          /\ UNCHANGED lost
       \/ /\ Len(forward) = ForwardCap
          /\ lost' = lost \cup {arrived + 1}
          /\ UNCHANGED forward
    /\ UNCHANGED <<taken, todo, killVars, connVars, send, pumpVars>>

(* Mutant: the next message does not wait for the clients of this one.     *)
LoopFreeUnwaited(s) == killing[s] \notin closing

(* The loop is not in the middle of a dispatch or of an Unregister.        *)
LoopFree(s) == (s = RoomShard => todo = {}) /\ killing[s] \notin closing

(* dispatchMessage reads the room's clients once; then it tries each, in   *)
(* its own goroutine or spread over the pool, and waits for all of them.   *)
TakeForward ==
    /\ LoopFree(RoomShard)
    /\ forward # << >>
    /\ forward' = Tail(forward)
    /\ taken' = Append(taken, Head(forward))
    /\ todo' = todo \cup ({Head(forward)} \X subscribed)
    /\ UNCHANGED <<arrived, lost, killVars, connVars, send, pumpVars>>

CanSend(c) == c \notin sendClosed /\ Len(send[c]) < SendCap

(* Mutant: requestEvict waits for room in the queue.                       *)
RequestEvictWaits(m, c) ==
    LET s == ShardOf[c]
    IN  /\ Len(killClient[s]) < KillCap
        /\ killClient' = [killClient EXCEPT ![s] = Append(@, c)]
        /\ UNCHANGED dropped

(* requestEvict does not wait for room in the queue: the request is        *)
(* dropped when there is none.                                             *)
RequestEvict(m, c) ==
    LET s == ShardOf[c]
    IN  IF Len(killClient[s]) < KillCap
        THEN killClient' = [killClient EXCEPT ![s] = Append(@, c)] /\ UNCHANGED dropped
        ELSE dropped' = dropped \cup {<<m, c>>} /\ UNCHANGED killClient

TrySend(m, c) ==
    /\ <<m, c>> \in todo
    /\ todo' = todo \ {<<m, c>>}
    /\ \/ /\ CanSend(c)
          /\ send' = [send EXCEPT ![c] = Append(@, m)]
          /\ UNCHANGED <<killClient, dropped>>
       \/ /\ ~CanSend(c)
          /\ RequestEvict(m, c)
          /\ UNCHANGED send
    /\ UNCHANGED <<arrived, lost, forward, taken, killing, connVars, pumpVars>>

(* Unregister of a client that is still active.                            *)
Unregister(c) ==
    /\ subscribed' = subscribed \ {c}
    /\ closing' = closing \cup {c}
    /\ UNCHANGED sendClosed

Kill(s) ==
    /\ LoopFree(s)
    /\ killClient[s] # << >>
    /\ killClient' = [killClient EXCEPT ![s] = Tail(@)]
    /\ LET c == Head(killClient[s])
       IN  IF c \in subscribed
           THEN Unregister(c) /\ killing' = [killing EXCEPT ![s] = c]
           ELSE UNCHANGED <<connVars, killing>>
    /\ UNCHANGED <<queueVars, dropped, send, pumpVars>>

CloseSend(c) ==
    /\ c \in closing
    /\ closing' = closing \ {c}
    /\ sendClosed' = sendClosed \cup {c}
    /\ UNCHANGED <<queueVars, killVars, subscribed, send, pumpVars>>

-----------------------------------------------------------------------------
(* ReadPump and WritePump of a client *)

(* External: the peer goes away, its heartbeat stops, or it is kicked.     *)
Disconnect(c) ==
    /\ c \in open
    /\ open' = open \ {c}
    /\ UNCHANGED <<queueVars, killVars, connVars, send, batch, wire, writing>>

(* Reading from a closed socket fails and ReadPump unregisters the client. *)
ReadPumpEnds(c) ==
    /\ c \notin open
    /\ c \in subscribed
    /\ Unregister(c)
    /\ UNCHANGED <<queueVars, killVars, send, pumpVars>>

Receive(c) ==
    /\ c \in writing
    /\ Len(batch[c]) < WriteMax
    /\ send[c] # << >>
    /\ send' = [send EXCEPT ![c] = Tail(@)]
    /\ batch' = [batch EXCEPT ![c] = Append(@, Head(send[c]))]
    /\ UNCHANGED <<queueVars, killVars, connVars, wire, writing, open>>

(* The batch is full, in count or in bytes, or its window is over.         *)
Flush(c) ==
    /\ c \in writing
    /\ batch[c] # << >>
    /\ c \in open
    /\ wire' = [wire EXCEPT ![c] = @ \o batch[c]]
    /\ batch' = [batch EXCEPT ![c] = << >>]
    /\ UNCHANGED <<queueVars, killVars, connVars, send, writing, open>>

WritePumpEnds(c) ==
    /\ writing' = writing \ {c}
    /\ open' = open \ {c}
    /\ UNCHANGED <<queueVars, killVars, connVars, send>>

(* A write or a ping fails, at the latest after writeWait; the frame is    *)
(* lost or has arrived whole.                                              *)
WriteFails(c) ==
    /\ c \in writing
    /\ batch[c] # << >> \/ c \notin open
    /\ \/ UNCHANGED wire
       \/ wire' = [wire EXCEPT ![c] = @ \o batch[c]]
    /\ batch' = [batch EXCEPT ![c] = << >>]
    /\ WritePumpEnds(c)

(* A closed send queue is emptied first; then the pump says goodbye.       *)
Goodbye(c) ==
    /\ c \in writing
    /\ c \in sendClosed
    /\ send[c] = << >>
    /\ c \in open => batch[c] = << >>
    /\ UNCHANGED <<wire, batch>>
    /\ WritePumpEnds(c)

LoopStep == TakeForward \/ (\E m \in Msgs, c \in Clients : TrySend(m, c))

PumpStep(c) == Receive(c) \/ Flush(c) \/ WriteFails(c) \/ Goodbye(c)

Next ==
    \/ Publish
    \/ LoopStep
    \/ \E s \in Shards : Kill(s)
    \/ \E c \in Clients : \/ CloseSend(c) \/ Disconnect(c) \/ ReadPumpEnds(c)
                          \/ PumpStep(c)

Spec == Init /\ [][Next]_vars

(* The goroutines run and locks are given in the end.  The two branches of *)
(* a shard's select both get their turn.  A socket is not asked to take    *)
(* anything: a write may hang until its deadline.                          *)
FairSpec ==
    /\ Spec
    /\ WF_vars(\E m \in Msgs, c \in Clients : TrySend(m, c))
    /\ SF_vars(TakeForward)
    /\ \A s \in Shards : SF_vars(Kill(s))
    /\ \A c \in Clients : WF_vars(CloseSend(c)) /\ WF_vars(ReadPumpEnds(c))
                          /\ WF_vars(PumpStep(c))

-----------------------------------------------------------------------------
(* Properties *)

(* What a client was given, in order.                                      *)
Accepted(c) == wire[c] \o batch[c] \o send[c]

(* A connection gets messages in the order they came from Redis, none      *)
(* twice, also when a large room's clients are served by several           *)
(* goroutines at once.                                                     *)
StreamInOrder ==
    \A c \in Clients : \A i, j \in DOMAIN Accepted(c) :
        i < j => Accepted(c)[i] < Accepted(c)[j]

(* A message that a subscribed client with a running pump was not given is *)
(* on its way, or has one of three causes: Publish found the forward queue *)
(* full, the client was full and its eviction is still to come, or it was  *)
(* full and the request for its eviction was dropped.  A client evicted    *)
(* comes back and reads what it lacks from the history; the other two      *)
(* causes leave a gap in a connection that lives on, which nothing but a   *)
(* metric of dropped messages notices.                                     *)
GapHasCause ==
    \A c \in subscribed \cap writing : \A m \in 1..arrived :
        \/ \E i \in DOMAIN Accepted(c) : Accepted(c)[i] = m
        \/ (\E k \in DOMAIN forward : forward[k] = m) \/ <<m, c>> \in todo
        \/ m \in lost
        \/ \E i \in DOMAIN killClient[ShardOf[c]] : killClient[ShardOf[c]][i] = c
        \/ <<m, c>> \in dropped

(* Clients that take nothing do not stop the room: every message in the    *)
(* forward queue is dispatched in the end, with all queues full and with   *)
(* evictions handled by the loop that asks for them.                       *)
EveryMessageDispatched ==
    \A m \in Msgs :
        (\E k \in DOMAIN forward : forward[k] = m) ~>
            (\E k \in DOMAIN taken : taken[k] = m) /\ todo = {}

(* Whoever unregisters a client, its send queue is closed, its WritePump   *)
(* ends and its socket is closed in the end: no goroutine is left behind.  *)
UnregisteredEnds ==
    \A c \in Clients : c \notin subscribed ~>
        c \in sendClosed /\ c \notin writing /\ c \notin open

(* A client hears the messages of its room once and in order, and those it *)
(* does not hear have one of the causes of GapHasCause.                    *)
StreamIsWhole == StreamInOrder /\ GapHasCause

(* No queue that is full and no client that is gone holds up the loops or  *)
(* leaves a goroutine behind.                                              *)
FanOutGoesOn == EveryMessageDispatched /\ UnregisteredEnds

=============================================================================
