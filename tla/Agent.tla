-------------------------------- MODULE Agent --------------------------------
(***************************************************************************)
(* The agent worker (services/agent/runtime/app/workers): a consumer copies *)
(* the formal topic into the table agent_message_inbox; the pipeline claims *)
(* batches of it, has them moderated, lets bots answer the approved         *)
(* messages and indexes them in chunks.  The worker is restarted whenever   *)
(* it ends (docker-compose.yml, restart: unless-stopped), and rows are      *)
(* claimed so that several workers may run (FOR UPDATE SKIP LOCKED).        *)
(*                                                                          *)
(* One room is modelled: the pipeline treats rooms one after another and    *)
(* shares nothing between them.  A record of the topic is [id, client,      *)
(* sender, calls]: sender is a bot of Bots or 0 for a person, calls the     *)
(* bots whose trigger words the content holds.  An inbox row is named by    *)
(* the offset it was read from (uk_agent_kafka_position); it becomes part   *)
(* of aged when the time that matters for its status has passed: created    *)
(* one batch window ago (pending), last updated 5 minutes (processing) or   *)
(* 30 seconds (approved) ago.                                               *)
(***************************************************************************)
EXTENDS Integers, Sequences, FiniteSets, FiniteSetsExt

CONSTANTS Topics,      \* the contents the formal topic may have, of one length
          Workers,
          Bots,        \* bindings of the room, by priority
          RagBots,     \* those whose configuration has rag_enabled
          Verdicts,    \* decisions the moderation agent may take
          BatchSize,   \* settings.kafka.batch_size
          MaxChunks,   \* bound: chunks the chunk agent returns
          MaxEvents    \* bound: crashes, failed calls and administrative
                       \* changes per behaviour

Offsets == UNION {DOMAIN t : t \in Topics}

(* A rejection that asks for the sender's removal is "removal": the request *)
(* is written in the transaction of the record.                             *)
Decisions == {"approved", "rejected", "removal", "needs_review"}

ASSUME AgentAssumption ==
    /\ IsFiniteSet(Workers) /\ Workers # {}
    /\ IsFiniteSet(Bots) /\ Bots \subseteq Nat \ {0} /\ RagBots \subseteq Bots
    /\ Verdicts \subseteq Decisions
    /\ BatchSize \in Nat \ {0} /\ MaxChunks \in Nat \ {0}
    /\ MaxEvents \in Nat
    /\ Topics \subseteq Seq([id : Nat, client : Nat, sender : Bots \cup {0},
                             calls : SUBSET Bots])
    /\ \A t, u \in Topics : Len(t) = Len(u)

VARIABLES topic,      \* the formal topic
          inbox,      \* status of each row; "none" before it is inserted
          aged,       \* rows whose deadline has passed
          record,     \* moderation_records: the decision on each row
          binding,    \* room_agent_bindings
          config,     \* bots that have a room_agent_configs row
          points,     \* the vector store
          chunkRows,  \* agent_chunks
          replies,    \* how often a bot's answer to a row was published
          committed,  \* the consumer group's offset
          pos,        \* offset of the record the consumer is at
          cpc,        \* "record", or "commit" when its offset is due
          skipped,    \* offsets the consumer passed over on purpose
          pc,         \* where each worker's pipeline is
          retrying,   \* its chunking was started by retry_approved_chunks
          batch,      \* the rows it works on
          bindings,   \* the bots it works for, as read with the batch
          talk,       \* bots whose conversation is still to come
          asked,      \* rows the first of them still answers
          writes,     \* chunks still to be written
          events

tableVars == <<inbox, aged, record, points, chunkRows, replies>>
adminVars == <<binding, config>>
consumerVars == <<topic, committed, pos, cpc, skipped>>
workVars == <<retrying, batch, bindings, talk, asked, writes>>
pipeVars == <<pc, workVars>>
vars == <<tableVars, adminVars, consumerVars, pipeVars, events>>

Final == {"rejected", "needs_review", "chunked", "ignored"}

Rows(status) == {o \in Offsets : inbox[o] = status}

Bound == {b \in Bots : binding[b] \in {"on", "off"}}

Enabled == {b \in Bots : binding[b] = "on"}

(* A crash, a failed call or an administrative change.                      *)
Event == events < MaxEvents /\ events' = events + 1

TypeOK ==
    /\ topic \in Topics
    /\ inbox \in [Offsets -> {"none", "pending", "processing", "approved"} \cup Final]
    /\ aged \subseteq Offsets
    /\ record \in [Offsets -> {"none"} \cup Decisions]
    /\ binding \in [Bots -> {"unbound", "on", "off", "removed"}]
    /\ config \subseteq Bots
    /\ points \cup chunkRows \subseteq [bot : Bots, rows : SUBSET Offsets]
    /\ replies \in [Bots -> [Offsets -> Nat]]
    /\ committed \in 0..Len(topic) /\ pos \in 1..Len(topic) + 1
    /\ cpc \in {"record", "commit"} /\ skipped \subseteq Offsets
    /\ pc \in [Workers -> {"requeue", "process", "moderate", "converse", "answer",
                           "chunk", "upsert", "insert", "mark", "retry"}]
    /\ retrying \in [Workers -> BOOLEAN]
    /\ batch \in [Workers -> SUBSET Offsets]
    /\ bindings \in [Workers -> SUBSET Bots]
    /\ talk \in [Workers -> SUBSET Bots]
    /\ asked \in [Workers -> SUBSET Offsets]
    /\ writes \in [Workers -> Seq([bot : Bots, rows : SUBSET Offsets])]
    /\ events \in 0..MaxEvents

Init ==
    /\ topic \in Topics
    /\ inbox = [o \in Offsets |-> "none"]
    /\ aged = {}
    /\ record = [o \in Offsets |-> "none"]
    /\ binding \in {f \in [Bots -> {"on", "off", "unbound"}] :
                        \A b \in Bots : f[b] = "on" <=> b = Min(Bots)}
    /\ config \in {c \in SUBSET Bound : Min(Bots) \in c}
    /\ points = {} /\ chunkRows = {}
    /\ replies = [b \in Bots |-> [o \in Offsets |-> 0]]
    /\ committed = 0 /\ pos = 1 /\ cpc = "record" /\ skipped = {}
    /\ pc = [w \in Workers |-> "requeue"]
    /\ retrying = [w \in Workers |-> FALSE]
    /\ batch = [w \in Workers |-> {}]
    /\ bindings = [w \in Workers |-> {}]
    /\ talk = [w \in Workers |-> {}]
    /\ asked = [w \in Workers |-> {}]
    /\ writes = [w \in Workers |-> << >>]
    /\ events = 0

-----------------------------------------------------------------------------
(* InboxConsumer.run *)

(* A numbered message keeps its key when it is published again at another   *)
(* offset.                                                                  *)
inbox_event_id(o) ==
    IF topic[o].id # 0 THEN <<"message", topic[o].id>>
    ELSE IF topic[o].client # 0
    THEN <<"client", topic[o].sender, topic[o].client>>
    ELSE <<"position", o>>

(* The insert fails on a unique key when the event already has a row; that  *)
(* counts as done.                                                          *)
Insert(o) ==
    IF \E p \in Offsets : inbox[p] # "none" /\ inbox_event_id(p) = inbox_event_id(o)
    THEN UNCHANGED inbox
    ELSE inbox' = [inbox EXCEPT ![o] = "pending"]

(* A record is taken if the room has bots and the sender is none of them.   *)
Consume ==
    /\ cpc = "record" /\ pos \in Offsets
    /\ IF Enabled = {} \/ topic[pos].sender \in Enabled
       THEN skipped' = skipped \cup {pos} /\ UNCHANGED inbox
       ELSE Insert(pos) /\ UNCHANGED skipped
    /\ cpc' = "commit"
    /\ UNCHANGED <<aged, record, points, chunkRows, replies, adminVars,
                   topic, committed, pos, pipeVars, events>>

Commit ==
    /\ cpc = "commit"
    /\ committed' = pos
    /\ pos' = pos + 1
    /\ cpc' = "record"
    /\ UNCHANGED <<tableVars, adminVars, topic, skipped, pipeVars, events>>

(* A consumer that starts anew continues after the committed offset.        *)
ResumeConsumer == pos' = committed + 1 /\ cpc' = "record"

-----------------------------------------------------------------------------
(* AgentPipeline.run: the stages of an iteration *)

(* The pipeline goes to a stage of the iteration and forgets its batch.     *)
Goto(w, stage) ==
    /\ pc' = [pc EXCEPT ![w] = stage]
    /\ retrying' = [retrying EXCEPT ![w] = FALSE]
    /\ batch' = [batch EXCEPT ![w] = {}]
    /\ bindings' = [bindings EXCEPT ![w] = {}]
    /\ talk' = [talk EXCEPT ![w] = {}]
    /\ asked' = [asked EXCEPT ![w] = {}]
    /\ writes' = [writes EXCEPT ![w] = << >>]

(* The next stage, with the same batch.                                     *)
Stage(w, stage) ==
    /\ pc' = [pc EXCEPT ![w] = stage]
    /\ UNCHANGED <<retrying, batch, bindings>>

(* At most BatchSize rows, the oldest first.                                *)
Limit(rows) == {o \in rows : Cardinality({p \in rows : p < o}) < BatchSize}

(* Mutant: rows of a worker that is gone are not taken back.                *)
StaleNever == {}

(* In processing for 5 minutes, whoever holds them.                         *)
Stale == Rows("processing") \cap aged

(* Stale rows are pending again.  They stay in aged: they were created more *)
(* than a batch window ago.                                                 *)
requeue_stale(w) ==
    /\ pc[w] = "requeue"
    /\ inbox' = [o \in Offsets |-> IF o \in Stale THEN "pending" ELSE inbox[o]]
    /\ pc' = [pc EXCEPT ![w] = "process"]
    /\ UNCHANGED <<aged, record, points, chunkRows, replies, adminVars,
                   consumerVars, workVars, events>>

(* The room is processed when its batch is full, its window has passed or a *)
(* pending message calls a bot.                                             *)
ready_rooms ==
    \/ Cardinality(Rows("pending")) >= BatchSize
    \/ Rows("pending") \cap aged # {}
    \/ \E o \in Rows("pending") : topic[o].calls \cap Enabled \cap config # {}

(* The messages of the room's bots are left out.                            *)
user_messages(rows) == {o \in rows : topic[o].sender \notin Enabled}

(* process_room claims a batch of pending rows and reads the bindings in    *)
(* one transaction; the check that the room is ready is part of the step,   *)
(* since a claim that finds nothing left returns.                           *)
claim(w) ==
    LET rows == Limit(Rows("pending"))
        user == user_messages(rows)
    IN  /\ pc[w] = "process" /\ ready_rooms
        /\ inbox' = [o \in Offsets |-> IF o \in user THEN "processing"
                                       ELSE IF o \in rows THEN "ignored"
                                       ELSE inbox[o]]
        /\ aged' = aged \ rows
        /\ \/ user = {} /\ Goto(w, "retry")
           \/ /\ user # {}
              /\ pc' = [pc EXCEPT ![w] = "moderate"]
              /\ batch' = [batch EXCEPT ![w] = user]
              /\ bindings' = [bindings EXCEPT ![w] = Enabled]
              /\ UNCHANGED <<retrying, talk, asked, writes>>
        /\ UNCHANGED <<record, points, chunkRows, replies, adminVars,
                       consumerVars, events>>

no_ready_room(w) ==
    /\ pc[w] = "process" /\ ~ ready_rooms
    /\ Goto(w, "retry")
    /\ UNCHANGED <<tableVars, adminVars, consumerVars, events>>

(* Mutant: moderation_records has no unique key.                            *)
UndecidedAlways(w) == TRUE

(* uk_moderation_inbox lets the records of the batch be inserted.           *)
Undecided(w) == \A o \in batch[w] : record[o] = "none"

(* Mutant: whatever is not rejected is used.                                *)
ApprovedOrReview(decision) ==
    {o \in DOMAIN decision : decision[o] \in {"approved", "needs_review"}}

Approved(decision) == {o \in DOMAIN decision : decision[o] = "approved"}

(* The answer of the moderation agent arrives (an error or a missing result *)
(* is needs_review), and save_moderation writes a record and the status of  *)
(* every row of the batch in one transaction.                               *)
save_moderation(w) ==
    /\ pc[w] = "moderate" /\ Undecided(w)
    /\ \E decision \in [batch[w] -> Verdicts] :
          /\ record' = [o \in Offsets |-> IF o \in batch[w] THEN decision[o]
                                          ELSE record[o]]
          /\ inbox' = [o \in Offsets |->
                         IF o \notin batch[w] THEN inbox[o]
                         ELSE IF decision[o] = "removal" THEN "rejected"
                         ELSE decision[o]]
          /\ \/ Approved(decision) = {} /\ Goto(w, "retry")
             \/ /\ Approved(decision) # {}
                /\ pc' = [pc EXCEPT ![w] = "converse"]
                /\ batch' = [batch EXCEPT ![w] = Approved(decision)]
                /\ talk' = [talk EXCEPT ![w] = bindings[w]]
                /\ UNCHANGED <<retrying, bindings, asked, writes>>
    /\ aged' = aged \ batch[w]
    /\ UNCHANGED <<points, chunkRows, replies, adminVars, consumerVars, events>>

(* A row of the batch has its record already: the transaction is rolled     *)
(* back and the exception ends the iteration.                               *)
save_conflict(w) ==
    /\ pc[w] = "moderate" /\ ~ Undecided(w)
    /\ Goto(w, "requeue")
    /\ UNCHANGED <<tableVars, adminVars, consumerVars, events>>

-----------------------------------------------------------------------------
(* run_conversations *)

(* The configuration of the next bot is read; with it, the bot answers the  *)
(* approved messages that hold one of its words.  A bot that is no longer   *)
(* enabled still does.                                                      *)
load_config(w) ==
    /\ pc[w] = "converse" /\ talk[w] # {}
    /\ LET b == Min(talk[w])
           rows == {o \in batch[w] : b \in config /\ b \in topic[o].calls}
       IN  \/ /\ rows = {}
              /\ talk' = [talk EXCEPT ![w] = @ \ {b}]
              /\ UNCHANGED <<pc, asked>>
           \/ /\ rows # {}
              /\ asked' = [asked EXCEPT ![w] = rows]
              /\ pc' = [pc EXCEPT ![w] = "answer"]
              /\ UNCHANGED talk
    /\ UNCHANGED <<tableVars, adminVars, consumerVars, retrying, batch, bindings,
                   writes, events>>

Publish(b, o) == replies' = [replies EXCEPT ![b][o] = @ + 1]

(* One message is answered; an empty answer is not sent.                    *)
answer(w) ==
    /\ pc[w] = "answer"
    /\ LET b == Min(talk[w])
           o == Min(asked[w])
           last == asked[w] = {o}
       IN  /\ Publish(b, o) \/ UNCHANGED replies
           /\ asked' = [asked EXCEPT ![w] = @ \ {o}]
           /\ talk' = [talk EXCEPT ![w] = IF last THEN @ \ {b} ELSE @]
           /\ Stage(w, IF last THEN "converse" ELSE "answer")
    /\ UNCHANGED <<inbox, aged, record, points, chunkRows, adminVars,
                   consumerVars, writes, events>>

(* A failed call ends the conversations of the batch; a reply whose call    *)
(* failed may have been published.                                          *)
conversation_failed(w) ==
    /\ pc[w] \in {"converse", "answer"} /\ Event
    /\ \/ pc[w] = "answer" /\ Publish(Min(talk[w]), Min(asked[w]))
       \/ UNCHANGED replies
    /\ asked' = [asked EXCEPT ![w] = {}]
    /\ talk' = [talk EXCEPT ![w] = {}]
    /\ Stage(w, "chunk")
    /\ UNCHANGED <<inbox, aged, record, points, chunkRows, adminVars,
                   consumerVars, writes>>

conversations_done(w) ==
    /\ pc[w] = "converse" /\ talk[w] = {}
    /\ Stage(w, "chunk")
    /\ UNCHANGED <<tableVars, adminVars, consumerVars, talk, asked, writes, events>>

-----------------------------------------------------------------------------
(* run_chunking and retry_approved_chunks *)

(* run_chunking returns to process_room, or to the retry that called it.    *)
ChunkingReturns(w) == Goto(w, IF retrying[w] THEN "requeue" ELSE "retry")

rag_bindings(w) == bindings[w] \cap config \cap RagBots

(* The chunk agent groups messages of the batch; every bot with retrieval   *)
(* gets every chunk.                                                        *)
chunk_messages(w) ==
    /\ pc[w] = "chunk" /\ rag_bindings(w) # {}
    /\ \E n \in 1..MaxChunks : \E chunks \in [1..n -> SUBSET batch[w] \ {{}}] :
          LET k == Cardinality(rag_bindings(w))
          IN  \E bots \in [1..k -> rag_bindings(w)] :
                  /\ \A i, j \in 1..k : i < j => bots[i] < bots[j]
                  /\ writes' = [writes EXCEPT ![w] =
                         [i \in 1..(n * k) |->
                             [bot |-> bots[(i - 1) \div n + 1],
                              rows |-> chunks[((i - 1) % n) + 1]]]]
    /\ Stage(w, "upsert")
    /\ UNCHANGED <<tableVars, adminVars, consumerVars, talk, asked, events>>

(* The point of a chunk is written first: its id depends only on the bot    *)
(* and the messages.                                                        *)
upsert_chunk(w) ==
    /\ pc[w] = "upsert"
    /\ points' = points \cup {Head(writes[w])}
    /\ Stage(w, "insert")
    /\ UNCHANGED <<inbox, aged, record, chunkRows, replies, adminVars,
                   consumerVars, talk, asked, writes, events>>

(* Then its row; qdrant_point_id is unique.                                 *)
insert_chunk(w) ==
    /\ pc[w] = "insert" /\ Head(writes[w]) \notin chunkRows
    /\ chunkRows' = chunkRows \cup {Head(writes[w])}
    /\ writes' = [writes EXCEPT ![w] = Tail(@)]
    /\ Stage(w, IF Len(writes[w]) = 1 THEN "mark" ELSE "upsert")
    /\ UNCHANGED <<inbox, aged, record, points, replies, adminVars,
                   consumerVars, talk, asked, events>>

(* A failed call, or a chunk that has its row already, ends the chunking:   *)
(* the rows keep their status, and their update time is new unless they     *)
(* held the same error text before.                                         *)
chunking_failed(w) ==
    /\ \/ pc[w] \in {"upsert", "insert", "mark"} /\ Event
       \/ pc[w] = "chunk" /\ rag_bindings(w) # {} /\ Event
       \/ pc[w] = "insert" /\ Head(writes[w]) \in chunkRows /\ UNCHANGED events
    /\ aged' \in {aged, aged \ batch[w]}
    /\ ChunkingReturns(w)
    /\ UNCHANGED <<inbox, record, points, chunkRows, replies, adminVars,
                   consumerVars>>

(* The rows are done once every chunk is written, or at once if no bot uses *)
(* retrieval.                                                               *)
mark_chunked(w) ==
    /\ pc[w] = "mark" \/ (pc[w] = "chunk" /\ rag_bindings(w) = {})
    /\ inbox' = [o \in Offsets |-> IF o \in batch[w] THEN "chunked" ELSE inbox[o]]
    /\ aged' = aged \ batch[w]
    /\ ChunkingReturns(w)
    /\ UNCHANGED <<record, points, chunkRows, replies, adminVars, consumerVars,
                   events>>

(* If an approved row has waited 30 seconds, the oldest approved rows are   *)
(* chunked, with the bindings of now.                                       *)
retry_approved_chunks(w) ==
    /\ pc[w] = "retry" /\ Rows("approved") \cap aged # {}
    /\ batch' = [batch EXCEPT ![w] = Limit(Rows("approved"))]
    /\ bindings' = [bindings EXCEPT ![w] = Enabled]
    /\ retrying' = [retrying EXCEPT ![w] = TRUE]
    /\ pc' = [pc EXCEPT ![w] = "chunk"]
    /\ UNCHANGED <<tableVars, adminVars, consumerVars, talk, asked, writes, events>>

nothing_to_retry(w) ==
    /\ pc[w] = "retry" /\ Rows("approved") \cap aged = {}
    /\ Goto(w, "requeue")
    /\ UNCHANGED <<tableVars, adminVars, consumerVars, events>>

-----------------------------------------------------------------------------
(* Failures, time and administration *)

(* A worker dies and is started again, or an exception ends its iteration.  *)
(* If the process dies that reads the topic, so does the consumer.          *)
Crash(w) ==
    /\ Event
    /\ Goto(w, "requeue")
    /\ \/ ResumeConsumer
       \/ UNCHANGED <<pos, cpc>>
    /\ UNCHANGED <<tableVars, adminVars, topic, committed, skipped>>

Age(o) ==
    /\ inbox[o] \in {"pending", "processing", "approved"}
    /\ o \notin aged
    /\ aged' = aged \cup {o}
    /\ UNCHANGED <<inbox, record, points, chunkRows, replies, adminVars,
                   consumerVars, pipeVars, events>>

Change ==
    /\ Event
    /\ UNCHANGED <<tableVars, consumerVars, pipeVars>>

create_binding(b) ==
    /\ Change /\ binding[b] = "unbound"
    /\ \E state \in {"on", "off"} : binding' = [binding EXCEPT ![b] = state]
    /\ UNCHANGED config

put_config(b) ==
    /\ Change /\ b \in Bound \ config
    /\ config' = config \cup {b}
    /\ UNCHANGED binding

delete_config(b) ==
    /\ Change /\ b \in config
    /\ config' = config \ {b}
    /\ UNCHANGED binding

(* RoomAgentHandler switches all bots of the room on or off, or removes     *)
(* them with their configurations.                                          *)
RoomAgentHandler(action) ==
    /\ Change /\ Bound # {}
    /\ binding' = [b \in Bots |-> IF b \in Bound THEN action ELSE binding[b]]
    /\ config' = IF action = "removed" THEN config \ Bound ELSE config

-----------------------------------------------------------------------------
Pipeline(w) ==
    \/ requeue_stale(w) \/ claim(w) \/ no_ready_room(w)
    \/ save_moderation(w) \/ save_conflict(w)
    \/ load_config(w) \/ answer(w) \/ conversations_done(w)
    \/ chunk_messages(w) \/ upsert_chunk(w) \/ insert_chunk(w) \/ mark_chunked(w)
    \/ retry_approved_chunks(w) \/ nothing_to_retry(w)

Next ==
    \/ Consume \/ Commit
    \/ \E w \in Workers : \/ Pipeline(w) \/ Crash(w)
                          \/ conversation_failed(w) \/ chunking_failed(w)
    \/ \E o \in Offsets : Age(o)
    \/ \E b \in Bots : create_binding(b) \/ put_config(b) \/ delete_config(b)
    \/ \E action \in {"on", "off", "removed"} : RoomAgentHandler(action)

Spec == Init /\ [][Next]_vars

(* The consumer and every pipeline keep running and time passes; a chunk    *)
(* that collides is a step the pipeline takes by itself.                    *)
FairSpec ==
    /\ Spec
    /\ WF_vars(Consume) /\ WF_vars(Commit)
    /\ \A w \in Workers : WF_vars(Pipeline(w) \/ chunking_failed(w))
    /\ \A o \in Offsets : WF_vars(Age(o))

-----------------------------------------------------------------------------
(* Properties *)

(* A message the consumer has acknowledged, and did not pass over on        *)
(* purpose, has exactly one inbox row, whatever the number of times it was  *)
(* published and read (consumer.py 56-105; message-idempotency.md:112).     *)
InboxExact ==
    \A o \in 1..committed \ skipped :
        Cardinality({p \in Offsets : inbox[p] # "none"
                                     /\ topic[p].id = topic[o].id}) = 1

(* The status of a row agrees with its one moderation record: a decided row *)
(* was decided that way, an undecided one has no record, however late the   *)
(* answer of a worker that lost its lease comes (pipeline.py 199-241).      *)
StatusMatchesRecord ==
    \A o \in Offsets :
        record[o] \in CASE inbox[o] \in {"approved", "chunked"} -> {"approved"}
                        [] inbox[o] = "needs_review" -> {"needs_review"}
                        [] inbox[o] = "rejected" -> {"rejected", "removal"}
                        [] OTHER -> {"none"}

(* Nothing but approved messages is answered or put into the vector store   *)
(* (README of the runtime: rejected and needs_review are never vectorised). *)
OnlyApprovedIsUsed ==
    \A o \in Offsets :
        \/ record[o] = "approved"
        \/ /\ \A b \in Bots : replies[b][o] = 0
           /\ \A p \in points : o \notin p.rows

(* A bot answers a message at most once, though rows are requeued, retried  *)
(* and claimed by two workers (pipeline.py 48-59, 164-173).                 *)
AnsweredOnce == \A b \in Bots, o \in Offsets : replies[b][o] <= 1

(* No bot answers its own message, even one the consumer took before the    *)
(* bot was bound to the room (pipeline.py 151-158).                         *)
NeverAnswersItself ==
    \A b \in Bots, o \in Offsets : topic[o].sender = b => replies[b][o] = 0

(* What the consumer acknowledged, the inbox and the moderation records     *)
(* tell one story.                                                          *)
InboxAgrees == InboxExact /\ StatusMatchesRecord

(* An answer is given at most once, and only where one is due: to an        *)
(* approved message of somebody else; the same goes for the vector store.   *)
AnswersAreDue == OnlyApprovedIsUsed /\ AnsweredOnce /\ NeverAnswersItself

(* Every row comes to its end.  The exception is a row whose chunking       *)
(* failed after a chunk of the room was written: if the chunk agent forms   *)
(* that chunk again, its row collides, and the batch stays approved         *)
(* (pipeline.py 310-350).                                                   *)
EveryRowSettles ==
    \A o \in Offsets :
        (inbox[o] # "none") ~> (\/ inbox[o] \in Final
                                \/ inbox[o] = "approved" /\ chunkRows # {})
==============================================================================
