------------------------------- MODULE Relay --------------------------------
(***************************************************************************)
(* The relay loop of the sequencer process: RelayBatched (relay_batch.go)  *)
(* reads the formal topic with the batch loop of ConsumeBatches and        *)
(* publishes each batch to the rooms' Redis channels through a pipeline    *)
(* (cmd/sequencer/main.go).                                                *)
(*                                                                         *)
(* wire is everything Redis was asked to publish, in order.  A record that *)
(* does not parse, or has no room, is one without numbers: all three end   *)
(* the loop at the same point.                                             *)
(***************************************************************************)
EXTENDS ConsumeBatches

VARIABLES formal,  \* the formal topic
          wire     \* what was published to Redis, in order

relayVars == <<loopVars, formal, wire>>

RelayInit == LoopInit /\ wire = << >>

Unnumbered(m) == m.id <= 0 \/ m.seq <= 0

Messages == [k \in DOMAIN records |-> formal[records[k]]]

(* Mutant: a good batch is committed without being published.              *)
CheckBatchUnpublished ==
    /\ pc = "handle"
    /\ pc' = IF \E k \in DOMAIN Messages : Unnumbered(Messages[k])
             THEN "stopped" ELSE "commit"
    /\ UNCHANGED <<ctxDone, fetched, pending, records, bytes, terminal,
                   committed, faults, formal, wire>>

(* The whole batch is decoded before any of it is published: one record    *)
(* without numbers ends the loop and the others stay unpublished.          *)
CheckBatch ==
    /\ pc = "handle"
    /\ pc' = IF \E k \in DOMAIN Messages : Unnumbered(Messages[k])
             THEN "stopped" ELSE "write"
    /\ UNCHANGED <<ctxDone, fetched, pending, records, bytes, terminal,
                   committed, faults, formal, wire>>

Publish ==
    /\ pc = "write"
    /\ wire' = wire \o Messages
    /\ pc' = "commit"
    /\ UNCHANGED <<ctxDone, fetched, pending, records, bytes, terminal,
                   committed, faults, formal>>

(* Mutant: a failed pipeline may have executed only its last commands.     *)
PublishFailsSuffix ==
    /\ pc = "write"
    /\ Fault
    /\ \E n \in 0..Len(records) :
           wire' = wire \o SubSeq(Messages, n + 1, Len(records))
    /\ UNCHANGED <<pc, ctxDone, fetched, pending, records, bytes, terminal,
                   committed, formal>>

(* A pipeline that fails may have executed any prefix of its commands;     *)
(* Retry publishes the whole batch again.                                  *)
PublishFails ==
    /\ pc = "write"
    /\ Fault
    /\ \E n \in 0..Len(records) : wire' = wire \o SubSeq(Messages, 1, n)
    /\ UNCHANGED <<pc, ctxDone, fetched, pending, records, bytes, terminal,
                   committed, formal>>

RelayLoop == (\/ FetchFirst(formal) \/ TakePending(formal)
              \/ CollectNext(formal) \/ EndCollect \/ Commit
              \/ ReturnOnCancel)
             /\ UNCHANGED <<formal, wire>>

RelayFault == (FetchFails \/ CollectFails \/ CommitFails \/ Rebalance)
              /\ UNCHANGED <<formal, wire>>

(* What the relay's goroutine does when Redis and Kafka answer.            *)
RelayProgress == RelayLoop \/ CheckBatch \/ Publish

RelayStep == RelayProgress \/ RelayFault \/ PublishFails

-----------------------------------------------------------------------------
(* Properties *)

OnWire(m) == \E k \in DOMAIN wire : wire[k] = m

(* An offset is committed only after every record up to it was handed to   *)
(* Redis: a record put aside, a failed pipeline or a rebalance skips none. *)
RelayedBeforeCommit == \A o \in 1..committed : OnWire(formal[o])

(* k is where m is published for the first time.                           *)
FirstOnWire(m, k) == wire[k] = m /\ \A j \in 1..(k - 1) : wire[j] # m

(* A subscriber that drops repetitions sees the messages in the order of   *)
(* the formal topic, although batches are published again from their start *)
(* and records are handed out again after a rebalance.                     *)
RelayOrder ==
    \A j, k \in DOMAIN wire :
        /\ j < k
        /\ FirstOnWire(wire[j], j) /\ FirstOnWire(wire[k], k)
        => \E o \in DOMAIN formal :
              /\ formal[o] = wire[j]
              /\ \A p \in 1..o : formal[p] # wire[k]

=============================================================================
