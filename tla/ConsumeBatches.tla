--------------------------- MODULE ConsumeBatches ---------------------------
(***************************************************************************)
(* The batch loop shared by the numbering loop and the relay loop of the   *)
(* sequencer process (services/messages/sequencer/batch.go,                *)
(* consumeBatches, with Retry of pipeline.go).                             *)
(*                                                                         *)
(* The loop reads a single-partition Kafka topic through a consumer group, *)
(* collects a batch bounded by count, bytes and time, lets its user handle *)
(* the batch, commits the batch's offsets and goes on.  The topic itself   *)
(* is a parameter of the actions: a sequence of records that only grows.   *)
(* Offsets are positions 1, 2, ... in it.  What handling a batch means is  *)
(* the business of the modules that extend this one: they move pc from     *)
(* "handle" to "commit".                                                   *)
(*                                                                         *)
(* A record's size (key and value bytes) is a function of its body.        *)
(***************************************************************************)
EXTENDS Integers, Sequences

CONSTANTS MaxMessages,  \* BatchOptions.MaxMessages
          MaxBytes,     \* BatchOptions.MaxBytes
          Bodies,       \* the message bodies (content and type)
          BodySize,     \* the size of a record that carries a given body
          MaxFaults     \* bound: Kafka failures and rebalances per behaviour

ASSUME BatchAssumption ==
    /\ MaxMessages \in Nat \ {0}
    /\ MaxBytes \in Nat \ {0}
    /\ BodySize \in [Bodies -> Nat]
    /\ MaxFaults \in Nat

VARIABLES pc,         \* where the loop is; "stopped" once it has returned
          ctxDone,    \* the process's context has been cancelled
          fetched,    \* offset of the last record the reader handed out
          pending,    \* a fetched record kept for the next batch (0: none)
          records,    \* offsets of the current batch, in the order fetched
          bytes,      \* their total size
          terminal,   \* a fetch failed while the batch was being collected
          committed,  \* offset committed to the consumer group
          faults      \* failures so far

loopVars == <<pc, ctxDone, fetched, pending, records, bytes, terminal,
              committed, faults>>

PCs == {"fetch", "collect", "handle", "write", "commit", "stopped"}

LoopTypeOK ==
    /\ pc \in PCs
    /\ ctxDone \in BOOLEAN
    /\ fetched \in Nat
    /\ pending \in Nat
    /\ records \in Seq(Nat)
    /\ bytes \in Nat
    /\ terminal \in BOOLEAN
    /\ committed \in Nat
    /\ faults \in 0..MaxFaults

LoopInit ==
    /\ pc = "fetch"
    /\ ctxDone = FALSE
    /\ fetched = 0
    /\ pending = 0
    /\ records = << >>
    /\ bytes = 0
    /\ terminal = FALSE
    /\ committed = 0
    /\ faults = 0

-----------------------------------------------------------------------------
(* Every failure of Kafka the environment is allowed costs one fault.      *)
Fault == faults < MaxFaults /\ faults' = faults + 1

(* The first record of a batch.  One that is larger than a whole batch     *)
(* makes the loop return an error.                                         *)
StartBatch(log, offset) ==
    /\ terminal' = FALSE
    /\ \/ /\ BodySize[log[offset].body] > MaxBytes
          /\ pc' = "stopped"
          /\ records' = << >>
          /\ bytes' = 0
       \/ /\ BodySize[log[offset].body] <= MaxBytes
          /\ pc' = "collect"
          /\ records' = <<offset>>
          /\ bytes' = BodySize[log[offset].body]

(* Mutant: a fetched record overtakes the one put aside.                   *)
FetchFirstOvertakes(log) ==
    /\ pc = "fetch"
    /\ fetched < Len(log)
    /\ fetched' = fetched + 1
    /\ StartBatch(log, fetched + 1)
    /\ UNCHANGED <<ctxDone, pending, committed, faults>>

FetchFirst(log) ==
    /\ pc = "fetch"
    /\ pending = 0
    /\ fetched < Len(log)
    /\ fetched' = fetched + 1
    /\ StartBatch(log, fetched + 1)
    /\ UNCHANGED <<ctxDone, pending, committed, faults>>

TakePending(log) ==
    /\ pc = "fetch"
    /\ pending # 0
    /\ pending' = 0
    /\ StartBatch(log, pending)
    /\ UNCHANGED <<ctxDone, fetched, committed, faults>>

(* The blocking fetch at the top of the loop returns an error.             *)
FetchFails ==
    /\ pc = "fetch"
    /\ pending = 0
    /\ Fault
    /\ pc' = "stopped"
    /\ UNCHANGED <<ctxDone, fetched, pending, records, bytes, terminal,
                   committed>>

Collecting ==
    /\ pc = "collect"
    /\ Len(records) < MaxMessages
    /\ bytes < MaxBytes

(* One more record joins the batch, or is put aside when it does not fit.  *)
CollectNext(log) ==
    /\ Collecting
    /\ fetched < Len(log)
    /\ fetched' = fetched + 1
    /\ LET size == BodySize[log[fetched + 1].body]
       IN  \/ /\ bytes + size > MaxBytes
              /\ ~ctxDone
              /\ pending' = fetched + 1
              /\ pc' = "handle"
              /\ UNCHANGED <<records, bytes>>
           \/ /\ bytes + size <= MaxBytes
              /\ records' = Append(records, fetched + 1)
              /\ bytes' = bytes + size
              /\ UNCHANGED <<pc, pending>>
    /\ UNCHANGED <<ctxDone, terminal, committed, faults>>

(* A fetch inside the collecting loop fails: the batch is still handled    *)
(* and committed before the error is returned.                             *)
CollectFails ==
    /\ Collecting
    /\ ~ctxDone
    /\ Fault
    /\ terminal' = TRUE
    /\ pc' = "handle"
    /\ UNCHANGED <<ctxDone, fetched, pending, records, bytes, committed>>

(* The batch is full, or its waiting time is over.                         *)
EndCollect ==
    /\ pc = "collect"
    /\ ~ctxDone
    /\ pc' = "handle"
    /\ UNCHANGED <<ctxDone, fetched, pending, records, bytes, terminal,
                   committed, faults>>

(* CommitMessages commits, per partition, the largest offset of its list.  *)
IsCommitOffset(c) ==
    \E k \in DOMAIN records :
        /\ c = records[k]
        /\ \A j \in DOMAIN records : records[j] <= records[k]

(* Mutant: the offset of the next record is committed.                     *)
CommitOffByOne ==
    /\ pc = "commit"
    /\ \E k \in DOMAIN records :
           IsCommitOffset(records[k]) /\ committed' = records[k] + 1
    /\ pc' = IF terminal THEN "stopped" ELSE "fetch"
    /\ UNCHANGED <<ctxDone, fetched, pending, records, bytes, terminal,
                   faults>>

Commit ==
    /\ pc = "commit"
    /\ \E k \in DOMAIN records :
           IsCommitOffset(records[k]) /\ committed' = records[k]
    /\ pc' = IF terminal THEN "stopped" ELSE "fetch"
    /\ UNCHANGED <<ctxDone, fetched, pending, records, bytes, terminal,
                   faults>>

(* A commit that fails may have reached the broker all the same; Retry     *)
(* issues it again.                                                        *)
CommitFails ==
    /\ pc = "commit"
    /\ Fault
    /\ \/ \E k \in DOMAIN records :
              IsCommitOffset(records[k]) /\ committed' = records[k]
       \/ UNCHANGED committed
    /\ UNCHANGED <<pc, ctxDone, fetched, pending, records, bytes, terminal>>

(* Every blocking call of the loop, and Retry before every attempt, return *)
(* the context's error once it is cancelled.                               *)
ReturnOnCancel ==
    /\ ctxDone
    /\ pc # "stopped"
    /\ pc' = "stopped"
    /\ UNCHANGED <<ctxDone, fetched, pending, records, bytes, terminal,
                   committed, faults>>

(* External: the process is signalled, or the other loop has returned      *)
(* (cmd/sequencer/main.go cancels the context in both cases).              *)
Cancel ==
    /\ ~ctxDone
    /\ ctxDone' = TRUE
    /\ UNCHANGED <<pc, fetched, pending, records, bytes, terminal,
                   committed, faults>>

(* External: the consumer group rebalances and the reader starts again     *)
(* from the committed offset, in the middle of whatever the loop is doing. *)
Rebalance ==
    /\ pc # "stopped"
    /\ Fault
    /\ fetched' = committed
    /\ UNCHANGED <<pc, ctxDone, pending, records, bytes, terminal,
                   committed>>

=============================================================================
