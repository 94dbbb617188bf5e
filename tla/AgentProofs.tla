----------------------------- MODULE AgentProofs -----------------------------
(***************************************************************************)
(* Proofs about the agent worker, for every topic, every number of workers *)
(* and bots, and every number of crashes, failed calls and changes by      *)
(* administrators.                                                         *)
(***************************************************************************)
EXTENDS Agent, FiniteSetTheorems, TLAPS

-----------------------------------------------------------------------------
(* The least element of a set of numbers *)

(* Induction for sets of numbers.  If some t were missing, the numbers up  *)
(* to t that are in D with all before them would be as many as their       *)
(* successors, which are the same without 0.                               *)
LEMMA AllNumbers ==
  ASSUME NEW D, 0 \in D, \A n \in Nat : n \in D => n + 1 \in D
  PROVE  Nat \subseteq D
<1>1. SUFFICES ASSUME NEW t \in Nat, t \notin D PROVE FALSE
  OBVIOUS
<1> DEFINE E == {n \in 0..t : \A m \in 0..n : m \in D}
           F == E \ {0}
           f == [n \in E |-> n + 1]
<1>2. 0 \in E /\ E \subseteq 0..t
  OBVIOUS
<1>3. ASSUME NEW n \in E PROVE n + 1 \in F
  <2>1. n \in 0..t /\ n \in Nat /\ n # t /\ n + 1 \in D /\ \A m \in 0..n : m \in D
    BY <1>1, <1>3
  <2>2. \A m \in 0..(n + 1) : m \in D
    BY <2>1
  <2> QED
    BY <2>1, <2>2
<1>4. IsFiniteSet(E) /\ IsFiniteSet(F)
  <2>1. IsFiniteSet(0..t)
    BY FS_Interval
  <2>2. IsFiniteSet(E)
    BY <1>2, <2>1, FS_Subset
  <2> QED
    BY <2>2, FS_RemoveElement
<1> HIDE DEF E, F
<1>5. f \in Injection(E, F)
  <2>1. f \in [E -> F]
    BY <1>3
  <2>2. ASSUME NEW m \in E, NEW n \in E, f[m] = f[n] PROVE m = n
    BY <1>2, <2>2
  <2> QED
    BY <2>1, <2>2 DEF Injection, IsInjective
<1>6. Cardinality(E) <= Cardinality(F)
  BY <1>4, <1>5, FS_Injection
<1>7. Cardinality(F) = Cardinality(E) - 1 /\ Cardinality(E) \in Nat
  BY <1>2, <1>4, FS_RemoveElement, FS_CardinalityType DEF F
<1> QED
  BY <1>6, <1>7

(* A non-empty set of offsets has a least one: the first message of a      *)
(* chunk.                                                                  *)
LEMMA LeastOf ==
  ASSUME NEW T, T \subseteq Nat, T # {}
  PROVE  Min(T) \in T /\ \A y \in T : Min(T) <= y
<1>1. \E x \in T : \A y \in T : x <= y
  <2>1. SUFFICES ASSUME \A x \in T : \E y \in T : y < x PROVE FALSE
    OBVIOUS
  <2> DEFINE D == {n \in Nat : \A m \in 0..n : m \notin T}
  <2>2. 0 \notin T
    BY <2>1
  <2>3. 0 \in D
    BY <2>2
  <2>4. ASSUME NEW n \in Nat, n \in D PROVE n + 1 \in D
    <3>1. \A m \in 0..n : m \notin T
      BY <2>4
    <3>2. n + 1 \notin T
      BY <2>1, <3>1
    <3> QED
      BY <3>1, <3>2
  <2> HIDE DEF D
  <2>5. Nat \subseteq D
    BY <2>3, <2>4, AllNumbers
  <2>6. PICK x : x \in T /\ x \in Nat
    OBVIOUS
  <2>7. \A m \in 0..x : m \notin T
    BY <2>5, <2>6 DEF D
  <2> QED
    BY <2>6, <2>7
<1> QED
  BY <1>1 DEF Min

-----------------------------------------------------------------------------
(* The inductive invariant *)

(* Statuses and the records that go with them.                             *)
Fits(status, decision) ==
    \/ status \in {"approved", "chunked"} /\ decision = "approved"
    \/ status = "needs_review" /\ decision = "needs_review"
    \/ status = "rejected" /\ decision \in {"rejected", "removal"}
    \/ status \in {"none", "pending", "processing", "ignored"} /\ decision = "none"

Talking(w) == pc[w] \in {"converse", "answer"}

Deciding(w) == pc[w] = "moderate" \/ Talking(w)

Decided(w) == pc[w] \in {"converse", "answer", "chunk", "upsert", "insert", "mark"}

(* An event has one row at most.                                           *)
RowsAreUnique ==
    \A p, q \in Offsets :
        /\ inbox[p] # "none" /\ inbox[q] # "none"
        /\ inbox_event_id(p) = inbox_event_id(q)
        => p = q

HasRow(o) == \E p \in Offsets : inbox[p] # "none" /\ inbox_event_id(p) = inbox_event_id(o)

(* What is committed has its row, and so has the record that is about to   *)
(* be committed.                                                           *)
ConsumerInv ==
    /\ pos = committed + 1
    /\ cpc = "commit" => pos \in Offsets /\ (pos \in skipped \/ HasRow(pos))
    /\ \A o \in 1..committed : o \in skipped \/ HasRow(o)

(* Nothing was said yet by the bots whose conversation is to come, but for *)
(* what the bot that speaks now has answered.                              *)
Unsaid(w) ==
    \A b \in talk[w], o \in batch[w] :
        \/ replies[b][o] = 0
        \/ pc[w] = "answer" /\ b = Min(talk[w]) /\ o \notin asked[w]

WorkerInv(w) ==
    /\ \A o \in batch[w] : inbox[o] # "none"
    /\ Decided(w) => \A o \in batch[w] : record[o] = "approved"
    /\ Deciding(w) => \A b \in bindings[w], o \in batch[w] : topic[o].sender # b
    /\ Talking(w) => talk[w] \subseteq bindings[w] /\ Unsaid(w)
    /\ pc[w] = "answer" => talk[w] # {} /\ asked[w] # {} /\ asked[w] \subseteq batch[w]
    /\ pc[w] \in {"upsert", "insert"} =>
           /\ writes[w] # << >>
           /\ \A i \in DOMAIN writes[w] : writes[w][i].rows \subseteq batch[w]

(* A row is talked about by one worker.                                    *)
Alone ==
    \A v, w \in Workers : Talking(v) /\ Talking(w) /\ v # w => batch[v] \cap batch[w] = {}

TableInv ==
    /\ \A o \in Offsets : Fits(inbox[o], record[o])
    /\ OnlyApprovedIsUsed /\ AnsweredOnce /\ NeverAnswersItself

PipeInv == (\A w \in Workers : WorkerInv(w)) /\ Alone

IInv == TypeOK /\ RowsAreUnique /\ ConsumerInv /\ TableInv /\ PipeInv

-----------------------------------------------------------------------------
(* Types *)

Statuses == {"none", "pending", "processing", "approved"} \cup Final

Stages == {"requeue", "process", "moderate", "converse", "answer",
           "chunk", "upsert", "insert", "mark", "retry"}

Chunks == [bot : Bots, rows : SUBSET Offsets]

TableTypes ==
    /\ inbox \in [Offsets -> Statuses]
    /\ aged \subseteq Offsets
    /\ record \in [Offsets -> {"none"} \cup Decisions]
    /\ points \subseteq Chunks /\ chunkRows \subseteq Chunks
    /\ replies \in [Bots -> [Offsets -> Nat]]

AdminTypes ==
    /\ binding \in [Bots -> {"unbound", "on", "off", "removed"}]
    /\ config \subseteq Bots

ConsumerTypes ==
    /\ topic \in Topics
    /\ committed \in 0..Len(topic) /\ pos \in 1..Len(topic) + 1
    /\ cpc \in {"record", "commit"} /\ skipped \subseteq Offsets

PipeTypes ==
    /\ pc \in [Workers -> Stages]
    /\ retrying \in [Workers -> BOOLEAN]
    /\ batch \in [Workers -> SUBSET Offsets]
    /\ bindings \in [Workers -> SUBSET Bots]
    /\ talk \in [Workers -> SUBSET Bots]
    /\ asked \in [Workers -> SUBSET Offsets]
    /\ writes \in [Workers -> Seq(Chunks)]

(* The type invariant, cut into the parts that the lemmas below speak of.  *)
LEMMA TypeParts ==
  TypeOK <=> TableTypes /\ AdminTypes /\ ConsumerTypes /\ PipeTypes /\ events \in 0..MaxEvents
<1>1. points \cup chunkRows \subseteq Chunks <=> points \subseteq Chunks /\ chunkRows \subseteq Chunks
  OBVIOUS
<1> QED
  BY <1>1 DEF TypeOK, TableTypes, AdminTypes, ConsumerTypes, PipeTypes, Statuses, Stages, Chunks

(* The same for the next state.                                            *)
LEMMA TypePartsNext ==
  ASSUME TableTypes', AdminTypes', ConsumerTypes', PipeTypes', events' \in 0..MaxEvents
  PROVE  TypeOK'
  BY DEF TypeOK, TableTypes, AdminTypes, ConsumerTypes, PipeTypes, Statuses, Stages, Chunks

(* The records of a topic, and their offsets.                              *)
LEMMA TopicShape ==
  ASSUME NEW t \in Topics
  PROVE  /\ Offsets = 1..Len(t) /\ DOMAIN t = Offsets /\ Len(t) \in Nat
         /\ \A o \in Offsets : t[o].sender \in Bots \cup {0} /\ t[o].id \in Nat
<1> DEFINE R == [id : Nat, client : Nat, sender : Bots \cup {0}, calls : SUBSET Bots]
<1>1. \A u \in Topics : u \in Seq(R) /\ Len(u) = Len(t)
  BY AgentAssumption
<1> HIDE DEF R
<1>2. \A u : u \in Seq(R) => /\ DOMAIN u = 1..Len(u) /\ Len(u) \in Nat
                             /\ \A o \in DOMAIN u : u[o] \in R
  OBVIOUS
<1>3. \A u \in Topics : DOMAIN u = 1..Len(t)
  BY <1>1, <1>2
<1>4. Offsets = 1..Len(t)
  BY <1>3 DEF Offsets
<1>5. \A o \in DOMAIN t : t[o] \in R
  BY <1>1, <1>2
<1>6. \A x \in R : x.sender \in Bots \cup {0} /\ x.id \in Nat
  BY DEF R
<1> QED
  BY <1>1, <1>2, <1>3, <1>4, <1>5, <1>6

-----------------------------------------------------------------------------
(* What the steps leave alone *)

Same(v) == /\ pc'[v] = pc[v] /\ batch'[v] = batch[v] /\ bindings'[v] = bindings[v]
           /\ talk'[v] = talk[v] /\ asked'[v] = asked[v] /\ writes'[v] = writes[v]

Others(w) == \A v \in Workers : v # w => Same(v)

NothingUndone ==
    \A o \in Offsets : /\ record[o] = "approved" => record'[o] = "approved"
                       /\ inbox[o] # "none" => inbox'[o] # "none"

(* A step that leaves a worker's own variables alone and undoes no row     *)
(* keeps what is known of that worker.                                     *)
LEMMA OtherKeeps ==
  ASSUME NEW v \in Workers, WorkerInv(v), Same(v), UNCHANGED topic, NothingUndone,
         batch[v] \subseteq Offsets,
         Talking(v) => \A b \in talk[v], o \in batch[v] : replies'[b][o] = replies[b][o]
  PROVE  WorkerInv(v)'
<1>1. /\ Decided(v)' <=> Decided(v)
      /\ Deciding(v)' <=> Deciding(v)
      /\ Talking(v)' <=> Talking(v)
  BY DEF Same, Decided, Deciding, Talking
<1>2. Talking(v) /\ Unsaid(v) => Unsaid(v)'
  BY DEF Same, Unsaid
<1>3. Decided(v) => \A o \in batch'[v] : record'[o] = "approved"
  BY DEF WorkerInv, Same, NothingUndone
<1>4. Deciding(v) => \A b \in bindings'[v], o \in batch'[v] : topic'[o].sender # b
  BY DEF WorkerInv, Same
<1>5. Talking(v) => talk'[v] \subseteq bindings'[v] /\ Unsaid(v)'
  BY <1>2 DEF WorkerInv, Same
<1>6. \A o \in batch'[v] : inbox'[o] # "none"
  BY DEF WorkerInv, Same, NothingUndone
<1> QED
  BY <1>1, <1>3, <1>4, <1>5, <1>6 DEF WorkerInv, Same

(* A step in which only one worker moves, and takes nothing new into its   *)
(* hands, keeps the workers' batches apart.                                *)
LEMMA AloneKeeps ==
  ASSUME Alone, NEW w \in Workers, Others(w),
         Talking(w)' => Talking(w) /\ batch'[w] \subseteq batch[w]
  PROVE  Alone'
<1>1. ASSUME NEW v \in Workers
      PROVE  Talking(v)' => Talking(v) /\ batch'[v] \subseteq batch[v]
  BY DEF Others, Same, Talking
<1> QED
  BY <1>1 DEF Alone

(* A step outside of the pipelines keeps what is known of them.            *)
LEMMA PipeUnchanged ==
  ASSUME PipeTypes, PipeInv, UNCHANGED <<pipeVars, topic, replies>>, NothingUndone
  PROVE  PipeTypes' /\ PipeInv'
<1>1. UNCHANGED <<pc, retrying, batch, bindings, talk, asked, writes>>
  BY DEF pipeVars, workVars
<1>2. PipeTypes'
  BY <1>1 DEF PipeTypes
<1>3. ASSUME NEW v \in Workers PROVE WorkerInv(v)'
  BY <1>1, OtherKeeps DEF PipeInv, PipeTypes, Same
<1>4. Alone'
  BY <1>1 DEF PipeInv, Alone, Talking
<1> QED
  BY <1>2, <1>3, <1>4 DEF PipeInv

(* Going on to a stage changes nothing but the worker's own place.         *)
LEMMA GotoMoves ==
  ASSUME PipeTypes, NEW w \in Workers, NEW stage \in Stages, Goto(w, stage)
  PROVE  PipeTypes' /\ Others(w) /\ pc'[w] = stage
<1>1. /\ pc' = [pc EXCEPT ![w] = stage]
      /\ retrying' = [retrying EXCEPT ![w] = FALSE]
      /\ batch' = [batch EXCEPT ![w] = {}]
      /\ bindings' = [bindings EXCEPT ![w] = {}]
      /\ talk' = [talk EXCEPT ![w] = {}]
      /\ asked' = [asked EXCEPT ![w] = {}]
      /\ writes' = [writes EXCEPT ![w] = << >>]
  BY DEF Goto
<1>2. /\ pc' \in [Workers -> Stages] /\ retrying' \in [Workers -> BOOLEAN]
      /\ batch' \in [Workers -> SUBSET Offsets] /\ bindings' \in [Workers -> SUBSET Bots]
  BY <1>1 DEF PipeTypes
<1>3. /\ talk' \in [Workers -> SUBSET Bots] /\ asked' \in [Workers -> SUBSET Offsets]
      /\ writes' \in [Workers -> Seq(Chunks)]
  BY <1>1 DEF PipeTypes
<1>4. ASSUME NEW v \in Workers, v # w PROVE Same(v)
  BY <1>1, <1>4 DEF PipeTypes, Same
<1> QED
  BY <1>1, <1>2, <1>3, <1>4 DEF PipeTypes, Others

(* A worker that leaves its batch.                                         *)
LEMMA GotoKeeps ==
  ASSUME PipeTypes, PipeInv, NEW w \in Workers, NEW stage \in {"requeue", "retry"},
         Goto(w, stage), UNCHANGED <<topic, replies>>, NothingUndone
  PROVE  PipeTypes' /\ PipeInv'
<1>1. PipeTypes' /\ Others(w) /\ pc'[w] = stage
  BY GotoMoves DEF Stages
<1>a. batch'[w] = {}
  BY DEF Goto, PipeTypes
<1>2. WorkerInv(w)'
  BY <1>1, <1>a DEF WorkerInv, Decided, Deciding, Talking
<1>3. ASSUME NEW v \in Workers, v # w PROVE WorkerInv(v)'
  BY <1>1, <1>3, OtherKeeps DEF PipeInv, PipeTypes, Others
<1>4. Alone'
  BY <1>1, AloneKeeps DEF PipeInv, Talking
<1> QED
  BY <1>1, <1>2, <1>3, <1>4 DEF PipeInv

(* So does going on to a stage with the batch and the bindings kept.       *)
LEMMA StageMoves ==
  ASSUME PipeTypes, NEW w \in Workers, NEW stage \in Stages, Stage(w, stage)
  PROVE  /\ pc' \in [Workers -> Stages] /\ pc'[w] = stage
         /\ \A v \in Workers : v # w => pc'[v] = pc[v]
         /\ UNCHANGED <<retrying, batch, bindings>>
  BY DEF Stage, PipeTypes

(* What is known of the consumer rests on which rows exist, not on their   *)
(* status.                                                                 *)
LEMMA RowsKeep ==
  ASSUME RowsAreUnique, ConsumerInv, UNCHANGED consumerVars,
         \A o \in Offsets : inbox'[o] = "none" <=> inbox[o] = "none"
  PROVE  RowsAreUnique' /\ ConsumerInv'
<1>1. UNCHANGED <<topic, committed, pos, cpc, skipped>>
  BY DEF consumerVars
<1>2. \A o : inbox_event_id(o)' = inbox_event_id(o)
  BY <1>1 DEF inbox_event_id
<1>3. RowsAreUnique'
  BY <1>2 DEF RowsAreUnique
<1>4. \A o : HasRow(o) => HasRow(o)'
  BY <1>2 DEF HasRow
<1>5. ConsumerInv'
  BY <1>1, <1>4 DEF ConsumerInv
<1> QED
  BY <1>3, <1>5

(* Steps that touch neither the rows nor the consumer.                     *)
LEMMA RowsUnchanged ==
  ASSUME RowsAreUnique, ConsumerInv, UNCHANGED consumerVars, UNCHANGED inbox
  PROVE  RowsAreUnique' /\ ConsumerInv'
  BY RowsKeep

(* Rows get a status that fits their record, and nothing is said or        *)
(* written to the vector store.                                            *)
LEMMA TableKeeps ==
  ASSUME TableInv, NothingUndone, UNCHANGED <<topic, points, replies>>,
         \A o \in Offsets : Fits(inbox'[o], record'[o])
  PROVE  TableInv'
<1>1. OnlyApprovedIsUsed'
  BY DEF TableInv, OnlyApprovedIsUsed, NothingUndone
<1>2. AnsweredOnce' /\ NeverAnswersItself'
  BY DEF TableInv, AnsweredOnce, NeverAnswersItself
<1> QED
  BY <1>1, <1>2 DEF TableInv

-----------------------------------------------------------------------------
(* The consumer *)

(* consumer.py: a record is read and its row inserted, or found to be      *)
(* there.                                                                  *)
LEMMA ConsumeKeeps ==
  ASSUME IInv, Consume
  PROVE  IInv'
<1>0. /\ pos \in Offsets /\ cpc' = "commit"
      /\ UNCHANGED <<aged, record, points, chunkRows, replies, adminVars,
                   topic, committed, pos, pipeVars, events>>
  BY DEF Consume
<1>1. /\ TableTypes /\ AdminTypes /\ ConsumerTypes /\ PipeTypes /\ events \in 0..MaxEvents
  BY TypeParts DEF IInv
<1>2. \/ skipped' = skipped \cup {pos} /\ UNCHANGED inbox
      \/ HasRow(pos) /\ UNCHANGED <<inbox, skipped>>
      \/ ~HasRow(pos) /\ inbox' = [inbox EXCEPT ![pos] = "pending"] /\ UNCHANGED skipped
  BY DEF Consume, Insert, HasRow
<1>3. \A o : inbox_event_id(o)' = inbox_event_id(o)
  BY <1>0 DEF inbox_event_id
<1>4. inbox' \in [Offsets -> Statuses] /\ \A o \in Offsets : inbox[o] # "none" => inbox'[o] = inbox[o]
  <2>1. CASE UNCHANGED inbox
    BY <1>1, <2>1 DEF TableTypes
  <2>2. CASE ~HasRow(pos) /\ inbox' = [inbox EXCEPT ![pos] = "pending"]
    <3>1. inbox[pos] = "none"
      BY <1>0, <2>2 DEF HasRow
    <3>2. "pending" \in Statuses
      BY DEF Statuses
    <3> QED
      BY <1>1, <2>2, <3>1, <3>2 DEF TableTypes
  <2> QED
    BY <1>2, <2>1, <2>2
<1>5. RowsAreUnique'
  <2>1. CASE UNCHANGED inbox
    BY <1>3, <2>1 DEF IInv, RowsAreUnique
  <2>2. CASE ~HasRow(pos) /\ inbox' = [inbox EXCEPT ![pos] = "pending"]
    BY <1>0, <1>1, <1>3, <2>2 DEF IInv, RowsAreUnique, HasRow, TableTypes
  <2> QED
    BY <1>2, <2>1, <2>2
<1>6. \A o : HasRow(o) => HasRow(o)'
  BY <1>3, <1>4 DEF HasRow
<1>7. pos \in skipped' \/ HasRow(pos)'
  <2>1. CASE ~HasRow(pos) /\ inbox' = [inbox EXCEPT ![pos] = "pending"]
    BY <1>0, <1>1, <1>3, <2>1 DEF HasRow, TableTypes
  <2>2. CASE HasRow(pos) /\ UNCHANGED <<inbox, skipped>>
    BY <1>0, <1>3, <2>2 DEF HasRow
  <2> QED
    BY <1>0, <1>2, <2>1, <2>2
<1>8. ConsumerInv'
  BY <1>0, <1>2, <1>6, <1>7 DEF IInv, ConsumerInv
<1>9. NothingUndone
  BY <1>0, <1>4 DEF NothingUndone
<1>10. PipeTypes' /\ PipeInv'
  BY <1>0, <1>1, <1>9, PipeUnchanged DEF IInv
<1>11. \A o \in Offsets : Fits(inbox'[o], record'[o])
  <2>1. CASE UNCHANGED inbox
    BY <1>0, <2>1 DEF IInv, TableInv
  <2>2. CASE ~HasRow(pos) /\ inbox' = [inbox EXCEPT ![pos] = "pending"]
    <3>1. inbox[pos] = "none" /\ Fits(inbox[pos], record[pos])
      BY <1>0, <2>2 DEF HasRow, IInv, TableInv
    <3>2. Fits("pending", record[pos])
      BY <3>1 DEF Fits
    <3>3. inbox'[pos] = "pending" /\ \A o \in Offsets : o # pos => inbox'[o] = inbox[o]
      BY <1>0, <1>1, <2>2 DEF TableTypes
    <3> QED
      BY <1>0, <3>2, <3>3 DEF IInv, TableInv
  <2> QED
    BY <1>2, <2>1, <2>2
<1>12. TableInv'
  BY <1>0, <1>9, <1>11, TableKeeps DEF IInv
<1>13. TypeOK'
  <2>1. TableTypes' /\ AdminTypes'
    BY <1>0, <1>1, <1>4 DEF TableTypes, AdminTypes, adminVars
  <2>2. ConsumerTypes'
    BY <1>0, <1>1, <1>2 DEF ConsumerTypes
  <2> QED
    BY <1>0, <1>1, <1>10, <2>1, <2>2, TypePartsNext
<1> QED
  BY <1>5, <1>8, <1>10, <1>12, <1>13 DEF IInv

(* What is known of the tables holds on when no table changes.             *)
LEMMA TableUnchanged ==
  ASSUME TableInv, TableTypes, UNCHANGED <<tableVars, topic>>
  PROVE  TableInv' /\ TableTypes' /\ NothingUndone
<1>1. UNCHANGED <<inbox, aged, record, points, chunkRows, replies>>
  BY DEF tableVars
<1>2. NothingUndone
  BY <1>1 DEF NothingUndone
<1>3. TableTypes'
  BY <1>1 DEF TableTypes
<1>4. TableInv'
  BY <1>1, <1>2, TableKeeps DEF TableInv
<1> QED
  BY <1>2, <1>3, <1>4

(* consumer.py: the offset is committed after the row is in the inbox.     *)
LEMMA CommitKeeps ==
  ASSUME IInv, Commit
  PROVE  IInv'
<1>0. /\ cpc = "commit" /\ committed' = pos /\ pos' = pos + 1 /\ cpc' = "record"
      /\ UNCHANGED <<tableVars, adminVars, topic, skipped, pipeVars, events>>
      /\ UNCHANGED inbox
  BY DEF Commit, tableVars
<1>1. /\ TableTypes /\ AdminTypes /\ ConsumerTypes /\ PipeTypes /\ events \in 0..MaxEvents
  BY TypeParts DEF IInv
<1>2. TableInv' /\ TableTypes' /\ NothingUndone
  BY <1>0, <1>1, TableUnchanged DEF IInv
<1>3. PipeTypes' /\ PipeInv'
  BY <1>0, <1>1, <1>2, PipeUnchanged DEF IInv, tableVars
<1>4. \A o : inbox_event_id(o)' = inbox_event_id(o)
  BY <1>0 DEF inbox_event_id
<1>5. RowsAreUnique'
  BY <1>0, <1>4 DEF IInv, RowsAreUnique
<1>6. /\ pos \in 1..Len(topic) /\ pos = committed + 1 /\ committed \in Int
      /\ \A o \in 1..pos : o \in 1..committed \/ o = pos
  BY <1>0, <1>1, TopicShape DEF IInv, ConsumerInv, ConsumerTypes
<1>7. \A o \in 1..pos : o \in skipped \/ HasRow(o)
  BY <1>0, <1>6 DEF IInv, ConsumerInv
<1>8. \A o : HasRow(o) => \E p \in Offsets : inbox'[p] # "none" /\ inbox_event_id(p)' = inbox_event_id(o)'
  BY <1>0, <1>4 DEF HasRow
<1>9. ConsumerInv'
  BY <1>0, <1>6, <1>7, <1>8 DEF ConsumerInv, HasRow
<1>10. ConsumerTypes'
  BY <1>0, <1>1, <1>6, TopicShape DEF ConsumerTypes
<1>11. TypeOK'
  BY <1>0, <1>1, <1>2, <1>3, <1>10, TypePartsNext DEF AdminTypes, adminVars
<1> QED
  BY <1>2, <1>3, <1>5, <1>9, <1>11 DEF IInv

(* Steps of a worker that change the status of rows only.                  *)
LEMMA Closing ==
  ASSUME IInv, UNCHANGED <<adminVars, consumerVars>>, events' \in 0..MaxEvents,
         TableTypes', TableInv', PipeTypes', PipeInv',
         \A o \in Offsets : inbox'[o] = "none" <=> inbox[o] = "none"
  PROVE  IInv'
<1>1. TableTypes /\ AdminTypes /\ ConsumerTypes /\ PipeTypes
  BY TypeParts DEF IInv
<1>2. RowsAreUnique' /\ ConsumerInv'
  BY RowsKeep DEF IInv
<1>3. AdminTypes' /\ ConsumerTypes'
  BY <1>1 DEF AdminTypes, ConsumerTypes, adminVars, consumerVars
<1>4. TypeOK'
  BY <1>3, TypePartsNext
<1> QED
  BY <1>2, <1>4 DEF IInv

-----------------------------------------------------------------------------
(* Claiming and moderating *)

(* pipeline.py: rows whose lease ran out go back to pending.               *)
LEMMA RequeueKeeps ==
  ASSUME IInv, NEW w \in Workers, requeue_stale(w)
  PROVE  IInv'
<1>0. /\ inbox' = [o \in Offsets |-> IF o \in Stale THEN "pending" ELSE inbox[o]]
      /\ pc' = [pc EXCEPT ![w] = "process"]
      /\ UNCHANGED <<aged, record, points, chunkRows, replies, adminVars,
                     consumerVars, topic, events>>
      /\ UNCHANGED <<retrying, batch, bindings, talk, asked, writes>>
  BY DEF requeue_stale, workVars, consumerVars
<1>1. TableTypes /\ ConsumerTypes /\ PipeTypes /\ events \in 0..MaxEvents
  BY TypeParts DEF IInv
<1>2. \A o \in Offsets : \/ inbox'[o] = inbox[o]
                         \/ inbox[o] = "processing" /\ inbox'[o] = "pending"
  BY <1>0 DEF Stale, Rows
<1>3. TableTypes'
  <2>1. inbox' \in [Offsets -> Statuses]
    BY <1>0, <1>1 DEF TableTypes, Statuses
  <2> QED
    BY <1>0, <1>1, <2>1 DEF TableTypes
<1>4. NothingUndone
  BY <1>0, <1>2 DEF NothingUndone
<1>5. TableInv'
  <2>1. \A o \in Offsets : Fits(inbox'[o], record'[o])
    BY <1>0, <1>2 DEF IInv, TableInv, Fits
  <2> QED
    BY <1>0, <1>4, <2>1, TableKeeps DEF IInv
<1>6. /\ PipeTypes' /\ pc'[w] = "process" /\ Others(w)
  BY <1>0, <1>1 DEF PipeTypes, Stages, Others, Same
<1>7. PipeInv'
  <2>1. ASSUME NEW v \in Workers, v # w PROVE WorkerInv(v)'
    BY <1>0, <1>1, <1>4, <1>6, <2>1, OtherKeeps DEF IInv, PipeInv, PipeTypes, Others
  <2>2. WorkerInv(w)'
    BY <1>0, <1>4, <1>6, <1>1 DEF IInv, PipeInv, WorkerInv, Decided, Deciding, Talking, NothingUndone, PipeTypes
  <2>3. Alone'
    BY <1>6, AloneKeeps DEF IInv, PipeInv, Talking
  <2> QED
    BY <2>1, <2>2, <2>3 DEF PipeInv
<1> QED
  BY <1>0, <1>1, <1>2, <1>3, <1>5, <1>6, <1>7, Closing

(* pipeline.py: pending rows are claimed, and locked ones skipped.         *)
LEMMA ClaimKeeps ==
  ASSUME IInv, NEW w \in Workers, claim(w)
  PROVE  IInv'
<1>0. PICK rows, user :
        /\ rows \subseteq Rows("pending") /\ user = user_messages(rows)
        /\ inbox' = [o \in Offsets |-> IF o \in user THEN "processing"
                                       ELSE IF o \in rows THEN "ignored"
                                       ELSE inbox[o]]
        /\ aged' = aged \ rows
        /\ \/ Goto(w, "retry")
           \/ /\ pc' = [pc EXCEPT ![w] = "moderate"]
              /\ batch' = [batch EXCEPT ![w] = user]
              /\ bindings' = [bindings EXCEPT ![w] = Enabled]
              /\ UNCHANGED <<retrying, talk, asked, writes>>
  BY DEF claim, Limit
<1>a. UNCHANGED <<record, points, chunkRows, replies, adminVars, consumerVars, topic, events>>
  BY DEF claim, consumerVars
<1>1. TableTypes /\ ConsumerTypes /\ PipeTypes /\ events \in 0..MaxEvents
  BY TypeParts DEF IInv
<1>2. \A o \in Offsets : \/ inbox'[o] = inbox[o]
                         \/ inbox[o] = "pending" /\ inbox'[o] \in {"processing", "ignored"}
  BY <1>0 DEF Rows, user_messages
<1>3. TableTypes'
  <2>1. inbox' \in [Offsets -> Statuses]
    BY <1>0, <1>1 DEF TableTypes, Statuses, Final
  <2> QED
    BY <1>0, <1>a, <1>1, <2>1 DEF TableTypes
<1>4. NothingUndone
  BY <1>a, <1>2 DEF NothingUndone
<1>5. TableInv'
  <2>1. \A o \in Offsets : Fits(inbox'[o], record'[o])
    BY <1>a, <1>2 DEF IInv, TableInv, Fits
  <2> QED
    BY <1>a, <1>4, <2>1, TableKeeps DEF IInv
<1>6. CASE Goto(w, "retry")
  <2>1. PipeTypes' /\ PipeInv'
    BY <1>a, <1>1, <1>4, <1>6, GotoKeeps DEF IInv
  <2> QED
    BY <1>a, <1>1, <1>2, <1>3, <1>5, <2>1, Closing
<1>7. CASE /\ pc' = [pc EXCEPT ![w] = "moderate"]
           /\ batch' = [batch EXCEPT ![w] = user]
           /\ bindings' = [bindings EXCEPT ![w] = Enabled]
           /\ UNCHANGED <<retrying, talk, asked, writes>>
  <2>1. user \subseteq Offsets /\ Enabled \subseteq Bots /\ user \subseteq rows
    BY <1>0 DEF user_messages, Rows, Enabled
  <2>2. /\ PipeTypes' /\ Others(w) /\ pc'[w] = "moderate" /\ batch'[w] = user
        /\ bindings'[w] = Enabled
    BY <1>1, <1>7, <2>1 DEF PipeTypes, Stages, Others, Same
  <2>3. ASSUME NEW v \in Workers, v # w PROVE WorkerInv(v)'
    BY <1>a, <1>1, <1>4, <2>2, <2>3, OtherKeeps DEF IInv, PipeInv, PipeTypes, Others
  <2>4. WorkerInv(w)'
    <3>1. \A o \in user : inbox'[o] # "none"
      BY <1>0, <2>1
    <3>2. \A o \in user : topic[o].sender \notin Enabled
      BY <1>0 DEF user_messages
    <3> QED
      BY <1>a, <2>2, <3>1, <3>2 DEF WorkerInv, Decided, Deciding, Talking
  <2>5. Alone'
    BY <2>2, AloneKeeps DEF IInv, PipeInv, Talking
  <2>6. PipeInv'
    BY <2>3, <2>4, <2>5 DEF PipeInv
  <2> QED
    BY <1>a, <1>1, <1>2, <1>3, <1>5, <2>2, <2>6, Closing
<1> QED
  BY <1>0, <1>6, <1>7

(* A worker that goes on to another iteration, or dies, and leaves the     *)
(* tables alone.                                                           *)
LEMMA LeaveKeeps ==
  ASSUME IInv, NEW w \in Workers, NEW stage \in {"requeue", "retry"}, Goto(w, stage),
         UNCHANGED <<tableVars, adminVars, consumerVars>>, events' \in 0..MaxEvents
  PROVE  IInv'
<1>1. TableTypes /\ PipeTypes
  BY TypeParts DEF IInv
<1>2. UNCHANGED <<topic, replies, inbox>>
  BY DEF consumerVars, tableVars
<1>3. TableInv' /\ TableTypes' /\ NothingUndone
  BY <1>1, <1>2, TableUnchanged DEF IInv
<1>4. PipeTypes' /\ PipeInv'
  BY <1>1, <1>2, <1>3, GotoKeeps DEF IInv
<1> QED
  BY <1>2, <1>3, <1>4, Closing

(* pipeline.py: verdicts are written to the rows the worker still holds.   *)
LEMMA SaveKeeps ==
  ASSUME IInv, NEW w \in Workers, save_moderation(w)
  PROVE  IInv'
<1>0. PICK decision \in [batch[w] -> Verdicts] :
          /\ record' = [o \in Offsets |-> IF o \in batch[w] THEN decision[o]
                                          ELSE record[o]]
          /\ inbox' = [o \in Offsets |->
                         IF o \notin batch[w] THEN inbox[o]
                         ELSE IF decision[o] = "removal" THEN "rejected"
                         ELSE decision[o]]
          /\ \/ Approved(decision) = {} /\ Goto(w, "retry")
             \/ /\ Approved(decision) # {}
                /\ pc' = [pc EXCEPT ![w] = "converse"]
                /\ batch' = [batch EXCEPT ![w] = Approved(decision)]
                /\ talk' = [talk EXCEPT ![w] = bindings[w]]
                /\ UNCHANGED <<retrying, bindings, asked, writes>>
  BY DEF save_moderation
<1>a. /\ pc[w] = "moderate" /\ \A o \in batch[w] : record[o] = "none"
      /\ aged' = aged \ batch[w]
      /\ UNCHANGED <<points, chunkRows, replies, adminVars, consumerVars, topic, events>>
  BY DEF save_moderation, Undecided, consumerVars
<1>1. TableTypes /\ ConsumerTypes /\ PipeTypes /\ events \in 0..MaxEvents
  BY TypeParts DEF IInv
<1>2. /\ \A o \in batch[w] : /\ o \in Offsets /\ inbox[o] # "none"
                             /\ decision[o] \in {"approved", "rejected", "removal", "needs_review"}
      /\ \A b \in bindings[w], o \in batch[w] : topic[o].sender # b
  BY <1>1, <1>a, AgentAssumption DEF IInv, PipeInv, WorkerInv, Deciding, PipeTypes, Decisions
<1>3. \A o \in Offsets :
         \/ o \notin batch[w] /\ inbox'[o] = inbox[o] /\ record'[o] = record[o]
         \/ /\ o \in batch[w] /\ record'[o] = decision[o]
            /\ inbox'[o] = IF decision[o] = "removal" THEN "rejected" ELSE decision[o]
  BY <1>0
<1>4. TableTypes'
  <2>1. inbox' \in [Offsets -> Statuses]
    BY <1>0, <1>1, <1>2 DEF TableTypes, Statuses, Final
  <2>2. record' \in [Offsets -> {"none"} \cup Decisions]
    BY <1>0, <1>1, <1>2 DEF TableTypes, Decisions
  <2> QED
    BY <1>a, <1>1, <2>1, <2>2 DEF TableTypes
<1>5. /\ NothingUndone
      /\ \A o \in Offsets : inbox'[o] = "none" <=> inbox[o] = "none"
  BY <1>a, <1>2, <1>3 DEF NothingUndone
<1>6. TableInv'
  <2>1. ASSUME NEW o \in Offsets PROVE Fits(inbox'[o], record'[o])
    BY <1>2, <1>3 DEF IInv, TableInv, Fits
  <2> QED
    BY <1>a, <1>5, <2>1, TableKeeps DEF IInv
<1>7. CASE Goto(w, "retry")
  <2>1. PipeTypes' /\ PipeInv'
    BY <1>a, <1>1, <1>5, <1>7, GotoKeeps DEF IInv
  <2> QED
    BY <1>a, <1>1, <1>4, <1>5, <1>6, <2>1, Closing
<1>8. CASE /\ pc' = [pc EXCEPT ![w] = "converse"]
           /\ batch' = [batch EXCEPT ![w] = Approved(decision)]
           /\ talk' = [talk EXCEPT ![w] = bindings[w]]
           /\ UNCHANGED <<retrying, bindings, asked, writes>>
  <2>1. /\ Approved(decision) \subseteq batch[w]
        /\ \A o \in Approved(decision) : decision[o] = "approved"
    BY DEF Approved
  <2>2. /\ PipeTypes' /\ Others(w) /\ pc'[w] = "converse" /\ batch'[w] = Approved(decision)
        /\ bindings'[w] = bindings[w] /\ talk'[w] = bindings[w]
    BY <1>1, <1>2, <1>8, <2>1 DEF PipeTypes, Stages, Others, Same
  <2>3. ASSUME NEW v \in Workers, v # w PROVE WorkerInv(v)'
    BY <1>a, <1>1, <1>5, <2>2, <2>3, OtherKeeps DEF IInv, PipeInv, PipeTypes, Others
  <2>4. WorkerInv(w)'
    <3>1. \A o \in batch'[w] : inbox'[o] # "none" /\ record'[o] = "approved"
      BY <1>2, <1>3, <2>1, <2>2
    <3>2. \A b \in bindings'[w], o \in batch'[w] : topic'[o].sender # b
      BY <1>a, <1>2, <2>1, <2>2
    <3>3. ASSUME NEW b \in talk'[w], NEW o \in batch'[w] PROVE replies'[b][o] = 0
      <4>1. o \in Offsets /\ record[o] = "none" /\ b \in Bots
        BY <1>a, <1>1, <1>2, <2>1, <2>2, <3>3 DEF PipeTypes
      <4> QED
        BY <1>a, <4>1 DEF IInv, TableInv, OnlyApprovedIsUsed
    <3>4. Unsaid(w)'
      BY <3>3 DEF Unsaid
    <3> QED
      BY <2>2, <3>1, <3>2, <3>4 DEF WorkerInv, Talking
  <2>5. Alone'
    <3>1. ASSUME NEW v \in Workers, v # w, Talking(v)' PROVE batch'[v] \cap batch'[w] = {}
      <4>1. Decided(v) /\ batch'[v] = batch[v]
        BY <2>2, <3>1 DEF Talking, Decided, Others, Same
      <4>2. \A o \in batch[v] : record[o] = "approved"
        BY <4>1 DEF IInv, PipeInv, WorkerInv
      <4> QED
        BY <1>a, <2>1, <2>2, <4>1, <4>2
    <3>2. ASSUME NEW u \in Workers, NEW v \in Workers, u # w, v # w, u # v,
                 Talking(u)', Talking(v)'
          PROVE  batch'[u] \cap batch'[v] = {}
      BY <2>2, <3>2 DEF IInv, PipeInv, Alone, Talking, Others, Same
    <3> QED
      BY <3>1, <3>2 DEF Alone
  <2>6. PipeInv'
    BY <2>3, <2>4, <2>5 DEF PipeInv
  <2> QED
    BY <1>a, <1>1, <1>4, <1>5, <1>6, <2>2, <2>6, Closing
<1> QED
  BY <1>0, <1>7, <1>8

-----------------------------------------------------------------------------
(* Answering *)

(* A worker takes a step of its own, the others do nothing.                *)
LEMMA WorkKeeps ==
  ASSUME IInv, NEW w \in Workers, Others(w), PipeTypes', WorkerInv(w)',
         Talking(w)' => Talking(w) /\ batch'[w] \subseteq batch[w],
         UNCHANGED <<adminVars, consumerVars>>, events' \in 0..MaxEvents,
         TableTypes', TableInv', NothingUndone,
         \A o \in Offsets : inbox'[o] = "none" <=> inbox[o] = "none",
         \A v \in Workers : v # w /\ Talking(v) =>
             \A b \in talk[v], o \in batch[v] : replies'[b][o] = replies[b][o]
  PROVE  IInv'
<1>1. PipeTypes
  BY TypeParts DEF IInv
<1>2. ASSUME NEW v \in Workers, v # w PROVE WorkerInv(v)'
  BY <1>1, <1>2, OtherKeeps DEF IInv, PipeInv, PipeTypes, Others, consumerVars
<1>3. Alone'
  BY AloneKeeps DEF IInv, PipeInv
<1>4. PipeInv'
  BY <1>2, <1>3 DEF PipeInv
<1> QED
  BY <1>4, Closing

(* pipeline.py: the bots' bindings are read after the verdicts are saved.  *)
LEMMA LoadKeeps ==
  ASSUME IInv, NEW w \in Workers, load_config(w)
  PROVE  IInv'
<1>0. /\ pc[w] = "converse" /\ talk[w] # {}
      /\ UNCHANGED <<tableVars, adminVars, consumerVars, topic, replies, retrying, batch,
                     bindings, writes, events>>
  BY DEF load_config, consumerVars, tableVars
<1>1. TableTypes /\ ConsumerTypes /\ PipeTypes /\ events \in 0..MaxEvents
  BY TypeParts DEF IInv
<1>2. PICK b, rows :
        /\ b = Min(talk[w]) /\ rows \subseteq batch[w]
        /\ \/ /\ talk' = [talk EXCEPT ![w] = @ \ {b}]
              /\ UNCHANGED <<pc, asked>>
           \/ /\ rows # {}
              /\ asked' = [asked EXCEPT ![w] = rows]
              /\ pc' = [pc EXCEPT ![w] = "answer"]
              /\ UNCHANGED talk
  BY DEF load_config
<1>3. TableInv' /\ TableTypes' /\ NothingUndone
  BY <1>0, <1>1, TableUnchanged DEF IInv
<1>4. \A o \in batch[w] : /\ o \in Offsets /\ inbox[o] # "none" /\ record[o] = "approved"
  BY <1>0, <1>1 DEF IInv, PipeInv, WorkerInv, Decided, PipeTypes
<1>5. /\ \A c \in bindings[w], o \in batch[w] : topic[o].sender # c
      /\ talk[w] \subseteq bindings[w]
      /\ \A c \in talk[w], o \in batch[w] : replies[c][o] = 0
  BY <1>0 DEF IInv, PipeInv, WorkerInv, Deciding, Talking, Unsaid
<1>6. Talking(w) /\ UNCHANGED <<inbox, record>>
  BY <1>0 DEF Talking, tableVars
<1>7. CASE /\ talk' = [talk EXCEPT ![w] = @ \ {b}]
           /\ UNCHANGED <<pc, asked>>
  <2>1. PipeTypes' /\ Others(w) /\ talk'[w] \subseteq talk[w]
    BY <1>0, <1>1, <1>7 DEF PipeTypes, Others, Same
  <2>2. WorkerInv(w)'
    BY <1>0, <1>4, <1>5, <1>6, <1>7, <2>1 DEF WorkerInv, Talking, Unsaid
  <2> QED
    BY <1>0, <1>1, <1>3, <1>6, <2>1, <2>2, WorkKeeps
<1>8. CASE /\ rows # {}
           /\ asked' = [asked EXCEPT ![w] = rows]
           /\ pc' = [pc EXCEPT ![w] = "answer"]
           /\ UNCHANGED talk
  <2>1. rows \subseteq Offsets
    BY <1>2, <1>4
  <2>2. PipeTypes' /\ Others(w) /\ asked'[w] = rows /\ pc'[w] = "answer"
    BY <1>0, <1>1, <1>8, <2>1 DEF PipeTypes, Stages, Others, Same
  <2>3. WorkerInv(w)'
    BY <1>0, <1>2, <1>4, <1>5, <1>6, <1>8, <2>2 DEF WorkerInv, Talking, Unsaid
  <2> QED
    BY <1>0, <1>1, <1>3, <1>6, <2>2, <2>3, WorkKeeps
<1> QED
  BY <1>2, <1>7, <1>8

(* A bot's answer, or none.                                                *)
LEMMA SayKeeps ==
  ASSUME TableInv, TableTypes, ConsumerTypes, NEW b \in Bots, NEW o \in Offsets,
         record[o] = "approved", replies[b][o] = 0, topic[o].sender # b,
         Publish(b, o) \/ UNCHANGED replies,
         UNCHANGED <<inbox, aged, record, points, chunkRows, topic>>
  PROVE  /\ TableInv' /\ TableTypes'
         /\ \A c \in Bots, p \in Offsets : <<c, p>> # <<b, o>> => replies'[c][p] = replies[c][p]
<1>1. replies \in [Bots -> [Offsets -> Nat]]
  BY DEF TableTypes
<1>2. /\ replies' \in [Bots -> [Offsets -> Nat]] /\ replies'[b][o] \in {0, 1}
      /\ \A c \in Bots, p \in Offsets : c # b \/ p # o => replies'[c][p] = replies[c][p]
  <2>1. CASE UNCHANGED replies
    BY <1>1, <2>1
  <2>2. CASE Publish(b, o)
    <3>1. replies' = [replies EXCEPT ![b] = [replies[b] EXCEPT ![o] = replies[b][o] + 1]]
      BY <2>2 DEF Publish
    <3>2. replies[b] \in [Offsets -> Nat]
      BY <1>1
    <3>3. PICK r : r = [replies[b] EXCEPT ![o] = replies[b][o] + 1]
      OBVIOUS
    <3>4. /\ r \in [Offsets -> Nat] /\ r[o] = 1
          /\ \A p \in Offsets : p # o => r[p] = replies[b][p]
      BY <3>2, <3>3
    <3>5. replies' = [replies EXCEPT ![b] = r]
      BY <3>1, <3>3
    <3> QED
      BY <1>1, <3>4, <3>5
  <2> QED
    BY <2>1, <2>2
<1>3. TableTypes'
  BY <1>2 DEF TableTypes
<1>4. OnlyApprovedIsUsed'
  <2>1. ASSUME NEW p \in Offsets, record'[p] # "approved"
        PROVE  (\A c \in Bots : replies'[c][p] = 0) /\ (\A q \in points' : p \notin q.rows)
    BY <1>2, <2>1 DEF TableInv, OnlyApprovedIsUsed
  <2> QED
    BY <2>1 DEF OnlyApprovedIsUsed
<1>5. AnsweredOnce'
  <2>1. ASSUME NEW c \in Bots, NEW p \in Offsets PROVE replies'[c][p] <= 1
    BY <1>2, <1>1 DEF TableInv, AnsweredOnce
  <2> QED
    BY <2>1 DEF AnsweredOnce
<1>6. NeverAnswersItself'
  <2>1. ASSUME NEW c \in Bots, NEW p \in Offsets, topic'[p].sender = c PROVE replies'[c][p] = 0
    BY <1>2, <2>1 DEF TableInv, NeverAnswersItself
  <2> QED
    BY <2>1 DEF NeverAnswersItself
<1>7. TableInv'
  BY <1>4, <1>5, <1>6 DEF TableInv
<1> QED
  BY <1>2, <1>3, <1>7

(* The bot that speaks, and what it answers.                               *)
LEMMA Speaker ==
  ASSUME IInv, NEW w \in Workers, pc[w] = "answer"
  PROVE  /\ Min(talk[w]) \in talk[w] /\ Min(asked[w]) \in asked[w]
         /\ asked[w] \subseteq batch[w] /\ batch[w] \subseteq Offsets
         /\ talk[w] \subseteq bindings[w] /\ bindings[w] \subseteq Bots
         /\ \A o \in batch[w] : inbox[o] # "none" /\ record[o] = "approved"
         /\ \A b \in bindings[w], o \in batch[w] : topic[o].sender # b
         /\ \A b \in talk[w], o \in batch[w] :
                replies[b][o] = 0 \/ (b = Min(talk[w]) /\ o \notin asked[w])
<1>1. PipeTypes /\ ConsumerTypes
  BY TypeParts DEF IInv
<1>2. /\ asked[w] \subseteq Offsets /\ batch[w] \subseteq Offsets
      /\ talk[w] \subseteq Bots /\ bindings[w] \subseteq Bots
  BY <1>1 DEF PipeTypes
<1>3. /\ talk[w] # {} /\ asked[w] # {} /\ asked[w] \subseteq batch[w]
      /\ talk[w] \subseteq bindings[w] /\ Unsaid(w)
      /\ \A o \in batch[w] : inbox[o] # "none" /\ record[o] = "approved"
      /\ \A b \in bindings[w], o \in batch[w] : topic[o].sender # b
  BY DEF IInv, PipeInv, WorkerInv, Talking, Deciding, Decided
<1>4. Offsets \subseteq Nat /\ Bots \subseteq Nat
  <2>1. Offsets \subseteq Nat
    BY <1>1, TopicShape DEF ConsumerTypes
  <2> QED
    BY <2>1, AgentAssumption
<1>5. Min(talk[w]) \in talk[w]
  BY <1>2, <1>3, <1>4, LeastOf
<1>6. Min(asked[w]) \in asked[w]
  BY <1>2, <1>3, <1>4, LeastOf
<1> QED
  BY <1>2, <1>3, <1>5, <1>6 DEF Unsaid

(* pipeline.py: a bot answers one message of the batch through the         *)
(* gateway.                                                                *)
LEMMA AnswerKeeps ==
  ASSUME IInv, NEW w \in Workers, answer(w)
  PROVE  IInv'
<1>0. PICK b, o :
        /\ b = Min(talk[w]) /\ o = Min(asked[w])
        /\ Publish(b, o) \/ UNCHANGED replies
        /\ asked' = [asked EXCEPT ![w] = @ \ {o}]
        /\ talk' = [talk EXCEPT ![w] = IF asked[w] = {o} THEN @ \ {b} ELSE @]
        /\ Stage(w, IF asked[w] = {o} THEN "converse" ELSE "answer")
  BY DEF answer
<1>a. /\ pc[w] = "answer"
      /\ UNCHANGED <<inbox, aged, record, points, chunkRows, adminVars,
                     consumerVars, topic, writes, events>>
  BY DEF answer, consumerVars
<1>1. TableTypes /\ ConsumerTypes /\ PipeTypes /\ events \in 0..MaxEvents
  BY TypeParts DEF IInv
<1>2. /\ b \in talk[w] /\ o \in asked[w]
      /\ asked[w] \subseteq batch[w] /\ batch[w] \subseteq Offsets
      /\ talk[w] \subseteq bindings[w] /\ bindings[w] \subseteq Bots
      /\ \A p \in batch[w] : inbox[p] # "none" /\ record[p] = "approved"
      /\ \A c \in bindings[w], p \in batch[w] : topic[p].sender # c
      /\ \A c \in talk[w], p \in batch[w] :
             replies[c][p] = 0 \/ (c = b /\ p \notin asked[w])
  BY <1>0, <1>a, Speaker
<1>3. /\ TableInv' /\ TableTypes'
      /\ \A c \in Bots, p \in Offsets : <<c, p>> # <<b, o>> => replies'[c][p] = replies[c][p]
  <2>1. /\ b \in Bots /\ o \in Offsets /\ record[o] = "approved" /\ topic[o].sender # b
        /\ replies[b][o] = 0
    BY <1>2
  <2> QED
    BY <1>0, <1>a, <1>1, <2>1, SayKeeps DEF IInv
<1>4. NothingUndone /\ Talking(w)
  BY <1>a DEF NothingUndone, Talking
<1>5. /\ pc' = [pc EXCEPT ![w] = IF asked[w] = {o} THEN "converse" ELSE "answer"]
      /\ UNCHANGED <<retrying, batch, bindings, writes>>
  BY <1>0, <1>a DEF Stage
<1>6. /\ PipeTypes' /\ Others(w)
      /\ asked'[w] = asked[w] \ {o}
      /\ talk'[w] = (IF asked[w] = {o} THEN talk[w] \ {b} ELSE talk[w])
      /\ pc'[w] = IF asked[w] = {o} THEN "converse" ELSE "answer"
  BY <1>0, <1>1, <1>5 DEF PipeTypes, Stages, Others, Same
<1>7. WorkerInv(w)'
  <2>1. ASSUME NEW c \in talk'[w], NEW p \in batch[w]
        PROVE  \/ replies'[c][p] = 0
               \/ pc'[w] = "answer" /\ c = Min(talk'[w]) /\ p \notin asked'[w]
    <3>1. c \in talk[w] /\ c \in Bots /\ p \in Offsets
      BY <1>2, <1>6, <2>1
    <3>2. CASE asked[w] = {o}
      BY <1>2, <1>3, <1>6, <2>1, <3>1, <3>2
    <3>3. CASE asked[w] # {o}
      <4>1. talk'[w] = talk[w] /\ pc'[w] = "answer"
        BY <1>6, <3>3
      <4>2. CASE c = b /\ p = o
        BY <1>0, <1>6, <4>1, <4>2
      <4>3. CASE c # b \/ p # o
        BY <1>0, <1>2, <1>3, <1>6, <3>1, <4>1, <4>3
      <4> QED
        BY <4>2, <4>3
    <3> QED
      BY <3>2, <3>3
  <2>2. Unsaid(w)'
    BY <1>5, <2>1 DEF Unsaid
  <2>3. pc'[w] = "answer" => talk'[w] # {} /\ asked'[w] # {} /\ asked'[w] \subseteq batch'[w]
    BY <1>2, <1>5, <1>6
  <2>4. talk'[w] \subseteq bindings'[w]
    BY <1>2, <1>5, <1>6
  <2>5. /\ \A p \in batch'[w] : inbox'[p] # "none" /\ record'[p] = "approved"
        /\ \A c \in bindings'[w], p \in batch'[w] : topic'[p].sender # c
    BY <1>a, <1>2, <1>5
  <2>6. pc'[w] \in {"converse", "answer"}
    BY <1>6
  <2> QED
    BY <2>2, <2>3, <2>4, <2>5, <2>6 DEF WorkerInv
<1>8. ASSUME NEW v \in Workers, v # w, Talking(v), NEW c \in talk[v], NEW p \in batch[v]
      PROVE  replies'[c][p] = replies[c][p]
  <2>1. c \in Bots /\ p \in Offsets
    BY <1>1, <1>8 DEF PipeTypes
  <2>2. p # o
    BY <1>2, <1>4, <1>8 DEF IInv, PipeInv, Alone
  <2> QED
    BY <1>3, <2>1, <2>2
<1> QED
  BY <1>a, <1>1, <1>3, <1>4, <1>5, <1>6, <1>7, <1>8, WorkKeeps

(* A conversation ends; the batch goes on to be chunked.                   *)
LEMMA TalkEnds ==
  ASSUME IInv, NEW w \in Workers, Talking(w), Stage(w, "chunk"),
         asked' \in [Workers -> SUBSET Offsets], talk' \in [Workers -> SUBSET Bots],
         \A v \in Workers : v # w => asked'[v] = asked[v] /\ talk'[v] = talk[v],
         UNCHANGED <<inbox, aged, record, points, chunkRows, adminVars, consumerVars, writes>>,
         TableTypes', TableInv', events' \in 0..MaxEvents,
         \A v \in Workers : v # w /\ Talking(v) =>
             \A b \in talk[v], o \in batch[v] : replies'[b][o] = replies[b][o]
  PROVE  IInv'
<1>1. PipeTypes
  BY TypeParts DEF IInv
<1>2. /\ pc' \in [Workers -> Stages] /\ pc'[w] = "chunk"
      /\ \A v \in Workers : v # w => pc'[v] = pc[v]
      /\ UNCHANGED <<retrying, batch, bindings>>
  BY <1>1, StageMoves DEF Stages
<1>3. PipeTypes' /\ Others(w)
  BY <1>1, <1>2 DEF PipeTypes, Others, Same
<1>4. NothingUndone
  BY DEF NothingUndone
<1>5. WorkerInv(w)'
  <2>1. \A o \in batch[w] : inbox[o] # "none" /\ record[o] = "approved"
    BY DEF IInv, PipeInv, WorkerInv, Talking, Decided
  <2> QED
    BY <1>2, <2>1 DEF WorkerInv, Deciding, Talking
<1> QED
  BY <1>2, <1>3, <1>4, <1>5, WorkKeeps DEF Talking

(* pipeline.py: a failing answer ends that bot's part and no other's.      *)
LEMMA ConversationFailedKeeps ==
  ASSUME IInv, NEW w \in Workers, conversation_failed(w)
  PROVE  IInv'
<1>0. /\ pc[w] \in {"converse", "answer"} /\ events < MaxEvents /\ events' = events + 1
      /\ asked' = [asked EXCEPT ![w] = {}] /\ talk' = [talk EXCEPT ![w] = {}]
      /\ Stage(w, "chunk")
      /\ UNCHANGED <<inbox, aged, record, points, chunkRows, adminVars,
                     consumerVars, topic, writes>>
      /\ \/ pc[w] = "answer" /\ Publish(Min(talk[w]), Min(asked[w]))
         \/ UNCHANGED replies
  BY DEF conversation_failed, Event, consumerVars
<1>1. TableTypes /\ ConsumerTypes /\ PipeTypes /\ events' \in 0..MaxEvents
  BY <1>0, TypeParts, AgentAssumption DEF IInv
<1>2. /\ asked' \in [Workers -> SUBSET Offsets] /\ talk' \in [Workers -> SUBSET Bots]
      /\ \A v \in Workers : v # w => asked'[v] = asked[v] /\ talk'[v] = talk[v]
  BY <1>0, <1>1 DEF PipeTypes
<1>3. Talking(w)
  BY <1>0 DEF Talking
<1>4. CASE UNCHANGED replies
  <2>1. TableInv' /\ TableTypes'
    BY <1>0, <1>1, <1>4, TableUnchanged DEF IInv, tableVars
  <2> QED
    BY <1>0, <1>1, <1>2, <1>3, <1>4, <2>1, TalkEnds
<1>5. CASE pc[w] = "answer" /\ Publish(Min(talk[w]), Min(asked[w]))
  <2>1. PICK b, o : b = Min(talk[w]) /\ o = Min(asked[w])
    OBVIOUS
  <2>2. /\ b \in talk[w] /\ o \in asked[w]
        /\ asked[w] \subseteq batch[w] /\ batch[w] \subseteq Offsets
        /\ talk[w] \subseteq bindings[w] /\ bindings[w] \subseteq Bots
        /\ \A p \in batch[w] : record[p] = "approved"
        /\ \A c \in bindings[w], p \in batch[w] : topic[p].sender # c
        /\ \A c \in talk[w], p \in batch[w] :
               replies[c][p] = 0 \/ (c = b /\ p \notin asked[w])
    BY <1>5, <2>1, Speaker
  <2>3. /\ b \in Bots /\ o \in Offsets /\ record[o] = "approved" /\ topic[o].sender # b
        /\ replies[b][o] = 0
    BY <2>2
  <2>4. /\ TableInv' /\ TableTypes'
        /\ \A c \in Bots, p \in Offsets : <<c, p>> # <<b, o>> => replies'[c][p] = replies[c][p]
    BY <1>0, <1>1, <1>5, <2>1, <2>3, SayKeeps DEF IInv
  <2>5. ASSUME NEW v \in Workers, v # w, Talking(v), NEW c \in talk[v], NEW p \in batch[v]
        PROVE  replies'[c][p] = replies[c][p]
    <3>1. c \in Bots /\ p \in Offsets
      BY <1>1, <2>5 DEF PipeTypes
    <3>2. p # o
      BY <1>3, <2>2, <2>5 DEF IInv, PipeInv, Alone
    <3> QED
      BY <2>4, <3>1, <3>2
  <2> QED
    BY <1>0, <1>1, <1>2, <1>3, <2>4, <2>5, TalkEnds
<1> QED
  BY <1>0, <1>4, <1>5

(* pipeline.py: when all answers are tried the worker goes on to the       *)
(* chunks.                                                                 *)
LEMMA ConversationsDoneKeeps ==
  ASSUME IInv, NEW w \in Workers, conversations_done(w)
  PROVE  IInv'
<1>0. /\ pc[w] = "converse" /\ Stage(w, "chunk")
      /\ UNCHANGED <<tableVars, adminVars, consumerVars, topic, talk, asked, writes, events>>
  BY DEF conversations_done, consumerVars
<1>1. TableTypes /\ PipeTypes /\ events \in 0..MaxEvents
  BY TypeParts DEF IInv
<1>2. TableInv' /\ TableTypes'
  BY <1>0, <1>1, TableUnchanged DEF IInv
<1>3. /\ asked' \in [Workers -> SUBSET Offsets] /\ talk' \in [Workers -> SUBSET Bots]
      /\ Talking(w) /\ UNCHANGED <<inbox, aged, record, points, chunkRows, replies>>
  BY <1>0, <1>1 DEF PipeTypes, Talking, tableVars
<1> QED
  BY <1>0, <1>1, <1>2, <1>3, TalkEnds

-----------------------------------------------------------------------------
(* Chunking *)

(* Numbers from 1 to n * k fall into k groups of n.                        *)
LEMMA Places ==
  ASSUME NEW n \in Nat \ {0}, NEW k \in Nat \ {0}
  PROVE  /\ n * k \in Nat \ {0}
         /\ \A i \in 1..(n * k) : /\ (i - 1) \div n + 1 \in 1..k
                                  /\ ((i - 1) % n) + 1 \in 1..n
<1>0. n * k \in Nat \ {0}
  OBVIOUS
<1>1. ASSUME NEW i \in 1..(n * k) PROVE (i - 1) \div n + 1 \in 1..k
  <2> DEFINE q == (i - 1) \div n
  <2>1. q \in Int /\ n * q <= i - 1 /\ q >= 0
    BY <1>0
  <2>2. q < k
    <3>1. SUFFICES ASSUME q >= k PROVE FALSE
      BY <2>1
    <3> HIDE DEF q
    <3>2. n * q >= n * k
      BY <2>1, <3>1
    <3> QED
      BY <1>0, <2>1, <3>2
  <2> QED
    BY <2>1, <2>2
<1>2. ASSUME NEW i \in 1..(n * k) PROVE ((i - 1) % n) + 1 \in 1..n
  <2>1. i - 1 \in Nat
    BY <1>0, <1>2
  <2> QED
    BY <2>1
<1> QED
  BY <1>0, <1>1, <1>2

(* pipeline.py: the approved messages of the batch are grouped into        *)
(* chunks.                                                                 *)
LEMMA ChunkMessagesKeeps ==
  ASSUME IInv, NEW w \in Workers, chunk_messages(w)
  PROVE  IInv'
<1>0. /\ pc[w] = "chunk" /\ rag_bindings(w) # {} /\ Stage(w, "upsert")
      /\ UNCHANGED <<tableVars, adminVars, consumerVars, topic, replies, inbox, record,
                     talk, asked, events>>
  BY DEF chunk_messages, consumerVars, tableVars
<1>1. TableTypes /\ PipeTypes /\ events \in 0..MaxEvents
  BY TypeParts DEF IInv
<1>2. PICK k : k = Cardinality(rag_bindings(w))
  OBVIOUS
<1>a. PICK n \in 1..MaxChunks : \E chunks \in [1..n -> SUBSET batch[w] \ {{}}],
                                      bots \in [1..k -> rag_bindings(w)] :
        writes' = [writes EXCEPT ![w] =
                     [i \in 1..(n * k) |-> [bot |-> bots[(i - 1) \div n + 1],
                                            rows |-> chunks[((i - 1) % n) + 1]]]]
  BY <1>2, Zenon DEF chunk_messages
<1>3. PICK chunks \in [1..n -> SUBSET batch[w] \ {{}}], bots \in [1..k -> rag_bindings(w)] :
        writes' = [writes EXCEPT ![w] =
                     [i \in 1..(n * k) |-> [bot |-> bots[(i - 1) \div n + 1],
                                            rows |-> chunks[((i - 1) % n) + 1]]]]
  BY <1>a
<1>4. rag_bindings(w) \subseteq Bots /\ batch[w] \subseteq Offsets
  BY <1>1, AgentAssumption DEF rag_bindings, PipeTypes
<1>5. k \in Nat \ {0} /\ n \in Nat \ {0}
  <2>1. IsFiniteSet(rag_bindings(w))
    BY <1>4, AgentAssumption, FS_Subset
  <2> QED
    BY <1>0, <1>2, <1>3, <2>1, FS_EmptySet, FS_CardinalityType, AgentAssumption
<1>6. PICK m : m = n * k
  OBVIOUS
<1>7. m \in Nat \ {0} /\ \A i \in 1..m : /\ (i - 1) \div n + 1 \in 1..k
                                         /\ ((i - 1) % n) + 1 \in 1..n
  BY <1>5, <1>6, Places
<1>8. PICK s : s = [i \in 1..m |-> [bot |-> bots[(i - 1) \div n + 1],
                                    rows |-> chunks[((i - 1) % n) + 1]]]
  OBVIOUS
<1>9. /\ s \in [1..m -> Chunks] /\ \A i \in 1..m : s[i].rows \subseteq batch[w]
  <2>1. ASSUME NEW i \in 1..m PROVE s[i] \in Chunks /\ s[i].rows \subseteq batch[w]
    <3>1. s[i] = [bot |-> bots[(i - 1) \div n + 1], rows |-> chunks[((i - 1) % n) + 1]]
      BY <1>8
    <3>2. bots[(i - 1) \div n + 1] \in Bots
      BY <1>4, <1>7, <2>1
    <3>3. chunks[((i - 1) % n) + 1] \subseteq batch[w]
      BY <1>7, <2>1
    <3> QED
      BY <1>4, <3>1, <3>2, <3>3 DEF Chunks
  <2> QED
    BY <1>8, <2>1
<1>10. s \in Seq(Chunks) /\ DOMAIN s = 1..m /\ s # << >>
  BY <1>7, <1>9
<1>11. writes' = [writes EXCEPT ![w] = s]
  BY <1>3, <1>6, <1>8
<1>12. /\ pc' \in [Workers -> Stages] /\ pc'[w] = "upsert"
       /\ \A v \in Workers : v # w => pc'[v] = pc[v]
       /\ UNCHANGED <<retrying, batch, bindings>>
  BY <1>0, <1>1, StageMoves DEF Stages
<1>13. PipeTypes' /\ Others(w) /\ writes'[w] = s
  BY <1>0, <1>1, <1>10, <1>11, <1>12 DEF PipeTypes, Others, Same
<1>14. TableInv' /\ TableTypes' /\ NothingUndone
  BY <1>0, <1>1, TableUnchanged DEF IInv
<1>15. WorkerInv(w)'
  <2>1. \A o \in batch[w] : inbox[o] # "none" /\ record[o] = "approved"
    BY <1>0 DEF IInv, PipeInv, WorkerInv, Decided
  <2> QED
    BY <1>0, <1>9, <1>10, <1>12, <1>13, <2>1 DEF WorkerInv, Deciding, Talking
<1> QED
  BY <1>0, <1>1, <1>12, <1>13, <1>14, <1>15, WorkKeeps DEF Talking

(* pipeline.py: a chunk goes to the vector store.                          *)
LEMMA UpsertKeeps ==
  ASSUME IInv, NEW w \in Workers, upsert_chunk(w)
  PROVE  IInv'
<1>0. /\ pc[w] = "upsert" /\ points' = points \cup {Head(writes[w])} /\ Stage(w, "insert")
      /\ UNCHANGED <<inbox, aged, record, chunkRows, replies, adminVars,
                     consumerVars, topic, talk, asked, writes, events>>
  BY DEF upsert_chunk, consumerVars
<1>1. TableTypes /\ PipeTypes /\ events \in 0..MaxEvents
  BY TypeParts DEF IInv
<1>2. /\ writes[w] # << >> /\ \A i \in DOMAIN writes[w] : writes[w][i].rows \subseteq batch[w]
      /\ \A o \in batch[w] : inbox[o] # "none" /\ record[o] = "approved"
  BY <1>0 DEF IInv, PipeInv, WorkerInv, Decided
<1>3. writes[w] \in Seq(Chunks)
  BY <1>1 DEF PipeTypes
<1>4. PICK h : h = Head(writes[w])
  OBVIOUS
<1>5. h \in Chunks /\ h.rows \subseteq batch[w]
  BY <1>2, <1>3, <1>4
<1>6. /\ pc' \in [Workers -> Stages] /\ pc'[w] = "insert"
      /\ \A v \in Workers : v # w => pc'[v] = pc[v]
      /\ UNCHANGED <<retrying, batch, bindings>>
  BY <1>0, <1>1, StageMoves DEF Stages
<1>7. PipeTypes' /\ Others(w)
  BY <1>0, <1>1, <1>6 DEF PipeTypes, Others, Same
<1>8. TableTypes'
  BY <1>0, <1>1, <1>4, <1>5 DEF TableTypes
<1>9. TableInv'
  <2>1. \A o \in Offsets : record[o] # "approved" => o \notin h.rows
    BY <1>2, <1>5
  <2>2. OnlyApprovedIsUsed'
    BY <1>0, <1>4, <2>1 DEF IInv, TableInv, OnlyApprovedIsUsed
  <2> QED
    BY <1>0, <2>2 DEF IInv, TableInv, AnsweredOnce, NeverAnswersItself
<1>10. NothingUndone
  BY <1>0 DEF NothingUndone
<1>11. WorkerInv(w)'
  BY <1>0, <1>2, <1>6 DEF WorkerInv, Deciding, Talking
<1> QED
  BY <1>0, <1>1, <1>6, <1>7, <1>8, <1>9, <1>10, <1>11, WorkKeeps DEF Talking

(* pipeline.py: the chunk's row follows, unless there is one like it       *)
(* already.                                                                *)
LEMMA InsertKeeps ==
  ASSUME IInv, NEW w \in Workers, insert_chunk(w)
  PROVE  IInv'
<1>0. /\ pc[w] = "insert" /\ chunkRows' = chunkRows \cup {Head(writes[w])}
      /\ writes' = [writes EXCEPT ![w] = Tail(@)]
      /\ Stage(w, IF Len(writes[w]) = 1 THEN "mark" ELSE "upsert")
      /\ UNCHANGED <<inbox, aged, record, points, replies, adminVars,
                     consumerVars, topic, talk, asked, events>>
  BY DEF insert_chunk, consumerVars
<1>1. TableTypes /\ PipeTypes /\ events \in 0..MaxEvents
  BY TypeParts DEF IInv
<1>2. /\ writes[w] # << >> /\ \A i \in DOMAIN writes[w] : writes[w][i].rows \subseteq batch[w]
      /\ \A o \in batch[w] : inbox[o] # "none" /\ record[o] = "approved"
  BY <1>0 DEF IInv, PipeInv, WorkerInv, Decided
<1>3. PICK s : s = writes[w]
  OBVIOUS
<1>4. s \in Seq(Chunks) /\ s # << >> /\ \A i \in DOMAIN s : s[i].rows \subseteq batch[w]
  BY <1>1, <1>2, <1>3 DEF PipeTypes
<1>5. PICK t : t = Tail(s)
  OBVIOUS
<1>6. /\ Head(s) \in Chunks /\ t \in Seq(Chunks)
      /\ Len(s) # 1 => t # << >>
  <2>1. Head(s) \in Chunks /\ t \in Seq(Chunks) /\ Len(t) = Len(s) - 1
    BY <1>4, <1>5
  <2>2. Len(t) # 0 => t # << >>
    OBVIOUS
  <2>3. Len(s) \in Nat
    BY <1>4
  <2> QED
    BY <2>1, <2>2, <2>3
<1>7. \A i \in DOMAIN t : i + 1 \in DOMAIN s /\ t[i] = s[i + 1]
  BY <1>4, <1>5
<1>8. PICK stage \in Stages : /\ stage = IF Len(writes[w]) = 1 THEN "mark" ELSE "upsert"
                              /\ Stage(w, stage)
  BY <1>0 DEF Stages
<1>9. /\ pc' \in [Workers -> Stages] /\ pc'[w] = stage
      /\ \A v \in Workers : v # w => pc'[v] = pc[v]
      /\ UNCHANGED <<retrying, batch, bindings>>
  BY <1>1, <1>8, StageMoves
<1>10. PipeTypes' /\ Others(w) /\ writes'[w] = t
  BY <1>0, <1>1, <1>3, <1>5, <1>6, <1>9 DEF PipeTypes, Others, Same
<1>11. TableTypes'
  BY <1>0, <1>1, <1>3, <1>6 DEF TableTypes
<1>12. TableInv' /\ NothingUndone
  BY <1>0 DEF IInv, TableInv, OnlyApprovedIsUsed, AnsweredOnce, NeverAnswersItself, NothingUndone
<1>13. WorkerInv(w)'
  <2>1. \A i \in DOMAIN writes'[w] : writes'[w][i].rows \subseteq batch'[w]
    BY <1>4, <1>7, <1>9, <1>10
  <2>2. pc'[w] = "upsert" => writes'[w] # << >>
    BY <1>3, <1>6, <1>8, <1>9, <1>10
  <2>3. pc'[w] \in {"mark", "upsert"}
    BY <1>8, <1>9
  <2> QED
    BY <1>0, <1>2, <1>9, <2>1, <2>2, <2>3 DEF WorkerInv, Deciding, Talking
<1> QED
  BY <1>0, <1>1, <1>8, <1>9, <1>10, <1>11, <1>12, <1>13, WorkKeeps DEF Talking

(* pipeline.py: a failure while chunking leaves the rows approved.         *)
LEMMA ChunkingFailedKeeps ==
  ASSUME IInv, NEW w \in Workers, chunking_failed(w)
  PROVE  IInv'
<1>0. /\ aged' \in {aged, aged \ batch[w]} /\ ChunkingReturns(w)
      /\ UNCHANGED <<inbox, record, points, chunkRows, replies, adminVars, consumerVars, topic>>
      /\ events' = events \/ (events < MaxEvents /\ events' = events + 1)
  BY DEF chunking_failed, Event, consumerVars
<1>1. TableTypes /\ PipeTypes /\ events \in 0..MaxEvents /\ events' \in 0..MaxEvents
  BY <1>0, TypeParts, AgentAssumption DEF IInv
<1>2. TableTypes'
  BY <1>0, <1>1 DEF TableTypes
<1>3. TableInv' /\ NothingUndone
  BY <1>0 DEF IInv, TableInv, OnlyApprovedIsUsed, AnsweredOnce, NeverAnswersItself, NothingUndone
<1>4. PICK stage \in {"requeue", "retry"} : Goto(w, stage)
  BY <1>0 DEF ChunkingReturns
<1>5. PipeTypes' /\ PipeInv'
  BY <1>0, <1>1, <1>3, <1>4, GotoKeeps DEF IInv
<1> QED
  BY <1>0, <1>1, <1>2, <1>3, <1>5, Closing

(* pipeline.py: the rows whose chunks are written become chunked.          *)
LEMMA MarkKeeps ==
  ASSUME IInv, NEW w \in Workers, mark_chunked(w)
  PROVE  IInv'
<1>0. /\ pc[w] \in {"mark", "chunk"}
      /\ inbox' = [o \in Offsets |-> IF o \in batch[w] THEN "chunked" ELSE inbox[o]]
      /\ aged' = aged \ batch[w] /\ ChunkingReturns(w)
      /\ UNCHANGED <<record, points, chunkRows, replies, adminVars, consumerVars, topic, events>>
  BY DEF mark_chunked, consumerVars
<1>1. TableTypes /\ PipeTypes /\ events \in 0..MaxEvents
  BY TypeParts DEF IInv
<1>2. \A o \in batch[w] : inbox[o] # "none" /\ record[o] = "approved"
  BY <1>0 DEF IInv, PipeInv, WorkerInv, Decided
<1>3. TableTypes'
  <2>1. inbox' \in [Offsets -> Statuses]
    BY <1>0, <1>1 DEF TableTypes, Statuses, Final
  <2> QED
    BY <1>0, <1>1, <2>1 DEF TableTypes
<1>4. /\ NothingUndone
      /\ \A o \in Offsets : inbox'[o] = "none" <=> inbox[o] = "none"
  BY <1>0, <1>2 DEF NothingUndone
<1>5. TableInv'
  <2>1. ASSUME NEW o \in Offsets PROVE Fits(inbox'[o], record'[o])
    BY <1>0, <1>2 DEF IInv, TableInv, Fits
  <2> QED
    BY <1>0, <1>4, <2>1, TableKeeps DEF IInv
<1>6. PICK stage \in {"requeue", "retry"} : Goto(w, stage)
  BY <1>0 DEF ChunkingReturns
<1>7. PipeTypes' /\ PipeInv'
  BY <1>0, <1>1, <1>4, <1>6, GotoKeeps DEF IInv
<1> QED
  BY <1>0, <1>1, <1>3, <1>4, <1>5, <1>7, Closing

(* pipeline.py: approved rows that were left behind are taken up again.    *)
LEMMA RetryKeeps ==
  ASSUME IInv, NEW w \in Workers, retry_approved_chunks(w)
  PROVE  IInv'
<1>0. /\ batch' = [batch EXCEPT ![w] = Limit(Rows("approved"))]
      /\ bindings' = [bindings EXCEPT ![w] = Enabled]
      /\ retrying' = [retrying EXCEPT ![w] = TRUE]
      /\ pc' = [pc EXCEPT ![w] = "chunk"]
      /\ UNCHANGED <<tableVars, adminVars, consumerVars, topic, inbox, record, replies,
                     talk, asked, writes, events>>
  BY DEF retry_approved_chunks, consumerVars, tableVars
<1>1. TableTypes /\ PipeTypes /\ events \in 0..MaxEvents
  BY TypeParts DEF IInv
<1>2. PICK rows : rows = Limit(Rows("approved"))
  OBVIOUS
<1>3. rows \subseteq Offsets /\ \A o \in rows : inbox[o] = "approved" /\ record[o] = "approved"
  BY <1>2 DEF Limit, Rows, IInv, TableInv, Fits
<1>4. /\ PipeTypes' /\ Others(w) /\ pc'[w] = "chunk" /\ batch'[w] = rows
  BY <1>0, <1>1, <1>2, <1>3 DEF PipeTypes, Stages, Others, Same, Enabled
<1>5. WorkerInv(w)'
  BY <1>0, <1>3, <1>4 DEF WorkerInv, Deciding, Talking
<1>6. TableInv' /\ TableTypes' /\ NothingUndone
  BY <1>0, <1>1, TableUnchanged DEF IInv
<1> QED
  BY <1>0, <1>1, <1>4, <1>5, <1>6, WorkKeeps DEF Talking

-----------------------------------------------------------------------------
(* Crashes, time and administration *)

(* The consumer starts anew after the committed offset.                    *)
LEMMA CrashKeeps ==
  ASSUME IInv, NEW w \in Workers, Crash(w)
  PROVE  IInv'
<1>0. /\ events < MaxEvents /\ events' = events + 1 /\ Goto(w, "requeue")
      /\ UNCHANGED <<tableVars, adminVars, topic, inbox, replies, committed, skipped>>
      /\ pos' = committed + 1 /\ cpc' \in {"record", cpc}
  BY DEF Crash, Event, ResumeConsumer, tableVars, IInv, ConsumerInv
<1>1. /\ TableTypes /\ AdminTypes /\ ConsumerTypes /\ PipeTypes /\ events' \in 0..MaxEvents
  BY <1>0, TypeParts, AgentAssumption DEF IInv
<1>2. TableInv' /\ TableTypes' /\ NothingUndone
  BY <1>0, <1>1, TableUnchanged DEF IInv
<1>3. PipeTypes' /\ PipeInv'
  BY <1>0, <1>1, <1>2, GotoKeeps DEF IInv
<1>4. pos = committed + 1 /\ pos' = pos
  BY <1>0 DEF IInv, ConsumerInv
<1>5. \A o : inbox_event_id(o)' = inbox_event_id(o)
  BY <1>0 DEF inbox_event_id
<1>6. RowsAreUnique'
  BY <1>0, <1>5 DEF IInv, RowsAreUnique
<1>7. ConsumerInv'
  BY <1>0, <1>4, <1>5 DEF IInv, ConsumerInv, HasRow
<1>8. ConsumerTypes' /\ AdminTypes'
  BY <1>0, <1>1, <1>4 DEF ConsumerTypes, AdminTypes, adminVars
<1>9. TypeOK'
  BY <1>1, <1>2, <1>3, <1>8, TypePartsNext
<1> QED
  BY <1>2, <1>3, <1>6, <1>7, <1>9 DEF IInv

(* The time that matters for a row's status passes.                        *)
LEMMA AgeKeeps ==
  ASSUME IInv, NEW o \in Offsets, Age(o)
  PROVE  IInv'
<1>0. /\ aged' = aged \cup {o}
      /\ UNCHANGED <<inbox, record, points, chunkRows, replies, adminVars,
                     consumerVars, topic, pipeVars, events>>
  BY DEF Age, consumerVars
<1>1. TableTypes /\ PipeTypes /\ events \in 0..MaxEvents
  BY TypeParts DEF IInv
<1>2. TableTypes'
  BY <1>0, <1>1 DEF TableTypes
<1>3. TableInv' /\ NothingUndone
  BY <1>0 DEF IInv, TableInv, OnlyApprovedIsUsed, AnsweredOnce, NeverAnswersItself, NothingUndone
<1>4. PipeTypes' /\ PipeInv'
  BY <1>0, <1>1, <1>3, PipeUnchanged DEF IInv
<1> QED
  BY <1>0, <1>1, <1>2, <1>3, <1>4, Closing

(* A change of the bots' bindings or configurations touches no row.        *)
LEMMA ChangeKeeps ==
  ASSUME IInv, Change, AdminTypes'
  PROVE  IInv'
<1>0. /\ events < MaxEvents /\ events' = events + 1
      /\ UNCHANGED <<tableVars, inbox, replies, consumerVars, topic, pipeVars>>
  BY DEF Change, Event, tableVars, consumerVars
<1>1. TableTypes /\ ConsumerTypes /\ PipeTypes /\ events' \in 0..MaxEvents
  BY <1>0, TypeParts, AgentAssumption DEF IInv
<1>2. TableInv' /\ TableTypes' /\ NothingUndone
  BY <1>0, <1>1, TableUnchanged DEF IInv
<1>3. PipeTypes' /\ PipeInv'
  BY <1>0, <1>1, <1>2, PipeUnchanged DEF IInv
<1>4. RowsAreUnique' /\ ConsumerInv'
  BY <1>0, RowsUnchanged DEF IInv
<1>5. ConsumerTypes'
  BY <1>0, <1>1 DEF ConsumerTypes, consumerVars
<1>6. TypeOK'
  BY <1>1, <1>2, <1>3, <1>5, TypePartsNext
<1> QED
  BY <1>2, <1>3, <1>4, <1>6 DEF IInv

(* router.py, room_agent.go: every administrative call is such a change.   *)
LEMMA AdminKeeps ==
  ASSUME IInv,
         \/ \E b \in Bots : create_binding(b) \/ put_config(b) \/ delete_config(b)
         \/ \E action \in {"on", "off", "removed"} : RoomAgentHandler(action)
  PROVE  IInv'
<1>1. AdminTypes
  BY TypeParts DEF IInv
<1>2. Bound \subseteq Bots
  BY DEF Bound
<1>3. ASSUME NEW b \in Bots, create_binding(b) PROVE IInv'
  <2>1. Change /\ AdminTypes'
    BY <1>1, <1>3 DEF create_binding, AdminTypes
  <2> QED
    BY <2>1, ChangeKeeps
<1>4. ASSUME NEW b \in Bots, put_config(b) \/ delete_config(b) PROVE IInv'
  <2>1. Change /\ AdminTypes'
    BY <1>1, <1>2, <1>4 DEF put_config, delete_config, AdminTypes
  <2> QED
    BY <2>1, ChangeKeeps
<1>5. ASSUME NEW action \in {"on", "off", "removed"}, RoomAgentHandler(action) PROVE IInv'
  <2>1. Change /\ AdminTypes'
    BY <1>1, <1>5 DEF RoomAgentHandler, AdminTypes
  <2> QED
    BY <2>1, ChangeKeeps
<1> QED
  BY <1>3, <1>4, <1>5

(* A step that changes nothing keeps the invariant.                        *)
LEMMA StutterKeeps ==
  ASSUME IInv, UNCHANGED vars
  PROVE  IInv'
<1>0. UNCHANGED <<tableVars, adminVars, consumerVars, topic, inbox, replies, pipeVars, events>>
  BY DEF vars, tableVars, consumerVars
<1>1. TableTypes /\ PipeTypes /\ events \in 0..MaxEvents
  BY TypeParts DEF IInv
<1>2. TableInv' /\ TableTypes' /\ NothingUndone
  BY <1>0, <1>1, TableUnchanged DEF IInv
<1>3. PipeTypes' /\ PipeInv'
  BY <1>0, <1>1, <1>2, PipeUnchanged DEF IInv
<1> QED
  BY <1>0, <1>1, <1>2, <1>3, Closing

(* Every step keeps the invariant: one case per action.                    *)
LEMMA NextKeeps ==
  ASSUME IInv, [Next]_vars
  PROVE  IInv'
<1>1. ASSUME NEW w \in Workers, Pipeline(w) PROVE IInv'
  <2>0. events \in 0..MaxEvents
    BY TypeParts DEF IInv
  <2>1. CASE no_ready_room(w) \/ save_conflict(w) \/ nothing_to_retry(w)
    <3>1. \E stage \in {"requeue", "retry"} : Goto(w, stage)
      BY <2>1 DEF no_ready_room, save_conflict, nothing_to_retry
    <3>2. UNCHANGED <<tableVars, adminVars, consumerVars, events>>
      BY <2>1 DEF no_ready_room, save_conflict, nothing_to_retry
    <3> QED
      BY <2>0, <3>1, <3>2, LeaveKeeps
  <2>2. CASE requeue_stale(w)
    BY <2>2, RequeueKeeps
  <2>3. CASE claim(w)
    BY <2>3, ClaimKeeps
  <2>4. CASE save_moderation(w)
    BY <2>4, SaveKeeps
  <2>5. CASE load_config(w)
    BY <2>5, LoadKeeps
  <2>6. CASE answer(w)
    BY <2>6, AnswerKeeps
  <2>7. CASE conversations_done(w)
    BY <2>7, ConversationsDoneKeeps
  <2>8. CASE chunk_messages(w)
    BY <2>8, ChunkMessagesKeeps
  <2>9. CASE upsert_chunk(w)
    BY <2>9, UpsertKeeps
  <2>10. CASE insert_chunk(w)
    BY <2>10, InsertKeeps
  <2>11. CASE mark_chunked(w)
    BY <2>11, MarkKeeps
  <2>12. CASE retry_approved_chunks(w)
    BY <2>12, RetryKeeps
  <2> QED
    BY <1>1, <2>1, <2>2, <2>3, <2>4, <2>5, <2>6, <2>7, <2>8, <2>9, <2>10, <2>11, <2>12
    DEF Pipeline
<1>2. ASSUME NEW w \in Workers, Crash(w) \/ conversation_failed(w) \/ chunking_failed(w)
      PROVE  IInv'
  BY <1>2, CrashKeeps, ConversationFailedKeeps, ChunkingFailedKeeps
<1>3. CASE Consume
  BY <1>3, ConsumeKeeps
<1>4. CASE Commit
  BY <1>4, CommitKeeps
<1>5. ASSUME NEW o \in Offsets, Age(o) PROVE IInv'
  BY <1>5, AgeKeeps
<1>6. CASE \/ \E b \in Bots : create_binding(b) \/ put_config(b) \/ delete_config(b)
           \/ \E action \in {"on", "off", "removed"} : RoomAgentHandler(action)
  BY <1>6, AdminKeeps
<1>7. CASE UNCHANGED vars
  BY <1>7, StutterKeeps
<1> QED
  BY <1>1, <1>2, <1>3, <1>4, <1>5, <1>6, <1>7 DEF Next

(* The empty inbox satisfies it.                                           *)
LEMMA InitInv ==
  ASSUME Init
  PROVE  IInv
<1>1. TableTypes /\ AdminTypes /\ PipeTypes /\ events \in 0..MaxEvents
  <2>1. TableTypes
    BY DEF Init, TableTypes, Statuses
  <2>2. AdminTypes
    BY DEF Init, AdminTypes, Bound
  <2>3. PipeTypes
    BY DEF Init, PipeTypes, Stages
  <2> QED
    BY <2>1, <2>2, <2>3, AgentAssumption DEF Init
<1>2. ConsumerTypes
  <2>1. topic \in Topics
    BY DEF Init
  <2>2. Len(topic) \in Nat
    BY <2>1, TopicShape
  <2> QED
    BY <2>1, <2>2 DEF Init, ConsumerTypes
<1>3. RowsAreUnique /\ ConsumerInv
  BY DEF Init, RowsAreUnique, ConsumerInv
<1>4. TableInv
  BY DEF Init, TableInv, Fits, OnlyApprovedIsUsed, AnsweredOnce, NeverAnswersItself
<1>5. PipeInv
  BY DEF Init, PipeInv, WorkerInv, Alone, Decided, Deciding, Talking
<1> QED
  BY <1>1, <1>2, <1>3, <1>4, <1>5, TypeParts DEF IInv

-----------------------------------------------------------------------------
(* The theorems *)

(* The invariant holds of every state of the worker.                       *)
THEOREM Inductive == Spec => []IInv
<1>1. Init => IInv
  BY InitInv
<1>2. IInv /\ [Next]_vars => IInv'
  BY NextKeeps
<1> QED
  BY <1>1, <1>2, PTL DEF Spec

(* Every variable of the consumer, the pipelines and the tables keeps its  *)
(* type, and no stage is reached that the pipeline (pipeline.py) does not  *)
(* have.                                                                   *)
THEOREM TypeCorrect == Spec => []TypeOK
<1>1. IInv => TypeOK
  BY DEF IInv
<1> QED
  BY <1>1, Inductive, PTL

(* An answer is given at most once, and only to approved messages of       *)
(* somebody else; nothing else enters the vector store: however many       *)
(* workers there are, and however they crash, lose their leases and claim  *)
(* each other's rows (pipeline.py).                                        *)
THEOREM AnswersAreDueHolds == Spec => []AnswersAreDue
<1>1. IInv => AnswersAreDue
  BY DEF IInv, TableInv, AnswersAreDue
<1> QED
  BY <1>1, Inductive, PTL

(* Status and moderation record of a row agree (save_moderation).          *)
THEOREM StatusMatchesRecordHolds == Spec => []StatusMatchesRecord
<1>1. ASSUME IInv, NEW o \in Offsets
      PROVE  record[o] \in CASE inbox[o] \in {"approved", "chunked"} -> {"approved"}
                             [] inbox[o] = "needs_review" -> {"needs_review"}
                             [] inbox[o] = "rejected" -> {"rejected", "removal"}
                             [] OTHER -> {"none"}
  <2>1. Fits(inbox[o], record[o])
    BY <1>1 DEF IInv, TableInv
  <2> QED
    BY <2>1 DEF Fits
<1>2. IInv => StatusMatchesRecord
  BY <1>1 DEF StatusMatchesRecord
<1> QED
  BY <1>2, Inductive, PTL

(* A message with a number that the consumer has acknowledged, and did not *)
(* pass over on purpose, has exactly one inbox row (InboxConsumer.run).    *)
(* Without a number a message has no identity that InboxExact could ask    *)
(* about; the sequencer numbers everything it puts into the formal topic.  *)
THEOREM InboxExactHolds ==
  ASSUME \A t \in Topics : \A o \in Offsets : t[o].id # 0
  PROVE  Spec => []InboxExact
<1>1. ASSUME IInv, NEW o \in 1..committed \ skipped
      PROVE  Cardinality({p \in Offsets : inbox[p] # "none"
                                          /\ topic[p].id = topic[o].id}) = 1
  <2>1. topic \in Topics /\ committed \in 0..Len(topic)
    BY <1>1, TypeParts DEF IInv, ConsumerTypes
  <2>2. o \in Offsets
    BY <2>1, TopicShape
  <2>3. PICK p \in Offsets : inbox[p] # "none" /\ inbox_event_id(p) = inbox_event_id(o)
    BY <1>1 DEF IInv, ConsumerInv, HasRow
  <2>4. \A q \in Offsets : inbox_event_id(q) = <<"message", topic[q].id>>
    BY <2>1 DEF inbox_event_id
  <2>5. \A q \in Offsets :
           topic[q].id = topic[o].id <=> inbox_event_id(q) = inbox_event_id(p)
    BY <2>2, <2>3, <2>4
  <2>6. \A q \in Offsets :
           (inbox[q] # "none" /\ topic[q].id = topic[o].id) <=> q = p
    BY <1>1, <2>3, <2>5 DEF IInv, RowsAreUnique
  <2>7. {q \in Offsets : inbox[q] # "none" /\ topic[q].id = topic[o].id} = {p}
    BY <2>6
  <2> QED
    BY <2>7, FS_Singleton
<1>2. IInv => InboxExact
  BY <1>1 DEF InboxExact
<1> QED
  BY <1>2, Inductive, PTL

(* Both stories the inbox tells.                                           *)
THEOREM InboxAgreesHolds ==
  ASSUME \A t \in Topics : \A o \in Offsets : t[o].id # 0
  PROVE  Spec => []InboxAgrees
<1>1. InboxExact /\ StatusMatchesRecord => InboxAgrees
  BY DEF InboxAgrees
<1> QED
  BY <1>1, InboxExactHolds, StatusMatchesRecordHolds, PTL

=============================================================================
