-------------------------- MODULE SequencerProcess --------------------------
(***************************************************************************)
(* The sequencer process (cmd/sequencer/main.go): the numbering loop and   *)
(* the relay loop run side by side on one context.  The first loop that    *)
(* returns makes run cancel the context, and the process ends when both    *)
(* have returned.  The formal topic the numbering loop writes is the one   *)
(* the relay loop reads.                                                   *)
(***************************************************************************)
EXTENDS Sequencer

VARIABLES rpc, rfetched, rpending, rrecords, rbytes, rterminal, rcommitted,
          rfaults,  \* the relay loop's own copy of the loop state
          wire      \* what was published to Redis

R == INSTANCE Relay WITH
         pc <- rpc, fetched <- rfetched, pending <- rpending,
         records <- rrecords, bytes <- rbytes, terminal <- rterminal,
         committed <- rcommitted, faults <- rfaults,
         BodySize <- [b \in Bodies |-> BodySize[b] + NumberBytes]

relayOwn == <<rpc, rfetched, rpending, rrecords, rbytes, rterminal,
              rcommitted, rfaults, wire>>
seqOwn == <<pc, fetched, pending, records, bytes, terminal, committed, faults,
            ingress, numberVars, outputs, idx>>
processVars == <<vars, relayOwn>>

ProcessInit == Init /\ R!RelayInit

Arrive(q) == Produce(q) /\ UNCHANGED relayOwn

Number == SequencerStep /\ UNCHANGED relayOwn

RelayStep == R!RelayStep /\ UNCHANGED seqOwn

(* Mutant: only the numbering loop is waited for.                          *)
FirstResultOfNumbering ==
    /\ pc = "stopped"
    /\ ~ctxDone
    /\ ctxDone' = TRUE
    /\ UNCHANGED <<seqOwn, formal, relayOwn>>

(* run receives the first result of the loops and cancels the rest.        *)
FirstResult ==
    /\ pc = "stopped" \/ rpc = "stopped"
    /\ ~ctxDone
    /\ ctxDone' = TRUE
    /\ UNCHANGED <<seqOwn, formal, relayOwn>>

(* External: SIGINT or SIGTERM (signal.NotifyContext), or the metrics      *)
(* server returning, which cancels the same context.                       *)
Signal ==
    /\ ~ctxDone
    /\ ctxDone' = TRUE
    /\ UNCHANGED <<seqOwn, formal, relayOwn>>

ProcessNext == \/ \E q \in Requests : Arrive(q)
               \/ Number
               \/ RelayStep
               \/ FirstResult
               \/ Signal

(* Both goroutines keep running and Kafka answers in the end.  Redis owes  *)
(* nothing: a publish may be retried for ever.                             *)
ProcessSpec ==
    /\ ProcessInit
    /\ [][ProcessNext]_processVars
    /\ WF_processVars((NextBatch \/ LoopStep \/ Handle \/ Write) /\ UNCHANGED relayOwn)
    /\ WF_processVars((R!RelayLoop \/ R!CheckBatch) /\ UNCHANGED seqOwn)
    /\ WF_processVars(FirstResult)

(* A Redis that answers in the end.                                        *)
RedisAnswers == WF_processVars(R!Publish /\ UNCHANGED seqOwn)

-----------------------------------------------------------------------------
(* Properties *)

(* The relay commits an offset only after every record up to it was handed *)
(* to Redis: a record put aside, a failed pipeline or a rebalance skips    *)
(* none.                                                                   *)
RelayedBeforeCommit == R!RelayedBeforeCommit

(* A subscriber that drops repetitions sees the messages in the order of   *)
(* the formal topic, although batches are published again from their start *)
(* and records are handed out again after a rebalance.                     *)
RelayOrder == R!RelayOrder

(* Whatever is broadcast is a numbered message, and the number broadcast   *)
(* is the one every other reader of the formal topic sees: numbers are     *)
(* settled before the broadcast, and a relay that rereads the topic meets  *)
(* the numbers it broadcast.                                               *)
BroadcastIsFormal ==
    \A k \in DOMAIN wire :
        /\ InFormal(wire[k])
        /\ requests[KeyOf(wire[k])] = wire[k]

(* The relay never ends the process by itself over a message the numbering *)
(* loop wrote, for want of numbers or for its size: it stops only when it  *)
(* is cancelled or when Kafka fails.                                       *)
RelayAcceptsNumbered == rpc = "stopped" => ctxDone \/ rfaults > 0

(* When one loop returns, for whatever reason, the other returns as well   *)
(* and the process ends: no half of it keeps running alone.                *)
StopsTogether ==
    (pc = "stopped" \/ rpc = "stopped") ~> (pc = "stopped" /\ rpc = "stopped")

(* Redis trouble does not keep numbers out of Kafka: requests are answered *)
(* in the formal topic even if no publish ever succeeds.                   *)
NumberingIgnoresRedis == EveryRequestAnswered

(* If Redis answers, every request is broadcast in the end, unless the     *)
(* process stops or the numbering loop is stuck.                           *)
EveryRequestBroadcast ==
    RedisAnswers => \A o \in 1..MaxIngress :
        o <= Len(ingress) ~>
            \/ ctxDone \/ pc = "stopped" \/ rpc = "stopped" \/ Stuck
            \/ /\ o <= Len(ingress)
               /\ HasIdentity(ingress[o]) =>
                    /\ KeyOf(ingress[o]) \in DOMAIN requests
                    /\ R!OnWire(requests[KeyOf(ingress[o])])

(* What clients see is what was numbered, in the order of the numbers:     *)
(* whatever is retried, reread or cut off on the way, the broadcast is     *)
(* made of messages of the formal topic, each first heard of in its turn.  *)
BroadcastInOrder == BroadcastIsFormal /\ RelayOrder

(* Neither loop ends over what another part of the system handed it in the *)
(* ordinary course: no rejected request stops the numbering, and nothing   *)
(* that was numbered stops the relay.                                      *)
LoopsStopForCause == StopsForCause /\ RelayAcceptsNumbered

(* The process keeps going as a whole or ends as a whole: numbering does   *)
(* not wait for Redis, requests are broadcast in the end if Redis answers, *)
(* and when one loop returns the other does too.                           *)
ProcessKeepsGoing == StopsTogether /\ NumberingIgnoresRedis /\ EveryRequestBroadcast

=============================================================================
