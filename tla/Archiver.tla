------------------------------ MODULE Archiver ------------------------------
(***************************************************************************)
(* The archiver (services/messages/archiver/worker-kafka.go): one worker   *)
(* reads partition 0 of the formal topic, saves batches to the message     *)
(* store (MySQL or MongoDB), then feeds the search index and the rooms'    *)
(* cache of latest messages, and last saves its offset in Redis.  Its      *)
(* container is restarted whenever it ends (docker-compose.yml,            *)
(* restart: unless-stopped).                                               *)
(*                                                                         *)
(* A record of the topic is [room, key, body, id, seq, valid]: key stands  *)
(* for sender and client id, body for content and type; valid is FALSE for *)
(* one that does not parse or carries no numbers.  A stored row is a       *)
(* record; rows of the time before numbering have seq = 0 (NULL).          *)
(*                                                                         *)
(* The topic does not change: a worker that has not reached its end cannot *)
(* tell whether the rest has been written yet.                             *)
(***************************************************************************)
EXTENDS Integers, Sequences, FiniteSets, FiniteSetsExt

CONSTANTS Rooms,
          Logs,        \* the contents the formal topic may have
          Legacy,      \* rows stored before numbering was introduced
          Backends,    \* MESSAGE_STORE: a subset of {"mysql", "mongo"}
          BatchSize,   \* batchSize
          CacheMax,    \* roomLatestMax
          MaxFaults    \* bound: crashes and failed calls per behaviour

Records == UNION {{log[o] : o \in DOMAIN log} : log \in Logs}

ASSUME ArchiverAssumption ==
    /\ Backends \subseteq {"mysql", "mongo"}
    /\ BatchSize \in Nat \ {0}
    /\ CacheMax \in Nat \ {0}
    /\ MaxFaults \in Nat
    /\ \A row \in Legacy : row.seq = 0 /\ row.room \in Rooms
    /\ Logs \subseteq Seq(Records)
    /\ \A log \in Logs : \A o \in DOMAIN log :
           log[o].valid => log[o].seq > 0 /\ log[o].room \in Rooms

VARIABLES formal,      \* the formal topic
          backend,     \* the store this deployment uses
          store,       \* its rows
          index,       \* documents of the search index
          cache,       \* im:room:latest:v2: a sorted set per room
          offset,      \* im:kafka:offset: last offset saved (0: none)
          pc,          \* where the worker is; "down" when it is not running
          ctxDone,     \* the worker's context is cancelled
          pos,         \* offset of the last record read
          msgBatch,    \* records read and not flushed
          lastOffset,  \* offset of the last of them
          faults

workerVars == <<pc, ctxDone, pos, msgBatch, lastOffset>>
vars == <<formal, backend, store, index, cache, offset, workerVars, faults>>

InBatch == {msgBatch[i] : i \in DOMAIN msgBatch}

TypeOK ==
    /\ formal \in Logs
    /\ backend \in Backends
    /\ store \subseteq Records \cup Legacy
    /\ index \subseteq Records
    /\ cache \in [Rooms -> SUBSET Records]
    /\ offset \in 0..Len(formal)
    /\ pc \in {"down", "run", "save", "index", "cache", "offset"}
    /\ ctxDone \in BOOLEAN
    /\ pos \in 0..Len(formal)
    /\ msgBatch \in Seq(Records) /\ Len(msgBatch) <= BatchSize
    /\ lastOffset \in 0..Len(formal)
    /\ faults \in 0..MaxFaults

Init ==
    /\ formal \in Logs
    /\ backend \in Backends
    /\ store = Legacy
    /\ index = {}
    /\ cache = [r \in Rooms |-> {}]
    /\ offset = 0
    /\ pc = "down"
    /\ ctxDone = FALSE
    /\ pos = 0
    /\ msgBatch = << >>
    /\ lastOffset = 0
    /\ faults = 0

Fault == faults < MaxFaults /\ faults' = faults + 1

-----------------------------------------------------------------------------
(* NewWorker and the reading loop of Start *)

(* Mutant: without an offset the worker starts at the end of the topic.    *)
NewWorkerAtEnd ==
    /\ pc = "down"
    /\ \/ pos' = offset /\ UNCHANGED faults
       \/ pos' = Len(formal) /\ Fault
    /\ pc' = "run"
    /\ ctxDone' = FALSE
    /\ msgBatch' = << >>
    /\ lastOffset' = 0
    /\ UNCHANGED <<formal, backend, store, index, cache, offset>>

(* The worker resumes after the saved offset; if Redis does not give it,   *)
(* from the beginning of the topic.                                        *)
NewWorker ==
    /\ pc = "down"
    /\ \/ pos' = offset /\ UNCHANGED faults
       \/ pos' = 0 /\ Fault
    /\ pc' = "run"
    /\ ctxDone' = FALSE
    /\ msgBatch' = << >>
    /\ lastOffset' = 0
    /\ UNCHANGED <<formal, backend, store, index, cache, offset>>

(* Start returns, and with it the process.                                 *)
Return == pc' = "down" /\ UNCHANGED <<ctxDone, pos, msgBatch, lastOffset>>

(* One record; a full batch is flushed at once.  A bad record ends the     *)
(* worker and the batch collected so far is not flushed.                   *)
Read ==
    /\ pc = "run"
    /\ pos < Len(formal)
    /\ LET m == formal[pos + 1]
       IN  \/ ~m.valid /\ Return
           \/ /\ m.valid
              /\ pos' = pos + 1
              /\ msgBatch' = Append(msgBatch, m)
              /\ lastOffset' = pos + 1
              /\ pc' = IF Len(msgBatch) + 1 >= BatchSize THEN "save" ELSE "run"
              /\ UNCHANGED ctxDone
    /\ UNCHANGED <<formal, backend, store, index, cache, offset, faults>>

(* The ticker, or the shutdown, flushes what has been read.                *)
Flush ==
    /\ pc = "run"
    /\ msgBatch # << >>
    /\ pc' = "save"
    /\ UNCHANGED <<formal, backend, store, index, cache, offset, ctxDone, pos,
                   msgBatch, lastOffset, faults>>

Exit ==
    /\ pc = "run"
    /\ ctxDone
    /\ msgBatch = << >>
    /\ Return
    /\ UNCHANGED <<formal, backend, store, index, cache, offset, faults>>

-----------------------------------------------------------------------------
(* SaveMessageBatch of the two repositories *)

(* Two different messages that claim one request key, one id or one number *)
(* of a room: the three unique indexes keep only one of them.              *)
Conflict(m, x) ==
    /\ m # x
    /\ m.key = x.key \/ m.id = x.id \/ (m.room = x.room /\ m.seq = x.seq)

(* MySQL inserts the batch, ignoring duplicates, and compares each message *)
(* with the row of its key, in one transaction: all of it or nothing.      *)
SaveMySQL ==
    IF \E m \in InBatch : \E x \in store \cup InBatch : Conflict(m, x)
    THEN UNCHANGED store /\ Return
    ELSE /\ store' = store \cup InBatch
         /\ pc' = "index"
         /\ UNCHANGED <<ctxDone, pos, msgBatch, lastOffset>>

(* MongoDB runs the upserts in order: a message whose key is known leaves  *)
(* the document as it is, one whose id or room number is taken ends the    *)
(* bulk.                                                                   *)
HasKey(rows, k) == \E x \in rows : x.key = k

Upserted(n) ==
    store \cup {msgBatch[i] : i \in
        {i \in 1..n : /\ ~HasKey(store, msgBatch[i].key)
                      /\ \A j \in 1..(i - 1) : msgBatch[j].key # msgBatch[i].key}}

(* Mutant: no unique index besides the key's.                              *)
UpsertNeverEnds(i) == FALSE

UpsertEnds(i) ==
    /\ ~HasKey(Upserted(i - 1), msgBatch[i].key)
    /\ \E x \in Upserted(i - 1) : Conflict(msgBatch[i], x)

(* Mutant: after the bulk nothing is compared.                             *)
SaveMongoUnchecked ==
    \/ \E n \in 1..Len(msgBatch) :
           /\ UpsertEnds(n)
           /\ \A i \in 1..(n - 1) : ~UpsertEnds(i)
           /\ store' = Upserted(n - 1)
           /\ Return
    \/ /\ \A i \in 1..Len(msgBatch) : ~UpsertEnds(i)
       /\ store' = Upserted(Len(msgBatch))
       /\ pc' = "index"
       /\ UNCHANGED <<ctxDone, pos, msgBatch, lastOffset>>

(* After a complete bulk each message is compared with the document of its *)
(* key.                                                                    *)
SaveMongo ==
    \/ \E n \in 1..Len(msgBatch) :
           /\ UpsertEnds(n)
           /\ \A i \in 1..(n - 1) : ~UpsertEnds(i)
           /\ store' = Upserted(n - 1)
           /\ Return
    \/ /\ \A i \in 1..Len(msgBatch) : ~UpsertEnds(i)
       /\ store' = Upserted(Len(msgBatch))
       /\ IF InBatch \subseteq store'
          THEN pc' = "index" /\ UNCHANGED <<ctxDone, pos, msgBatch, lastOffset>>
          ELSE Return

Save ==
    /\ pc = "save"
    /\ \/ backend = "mysql" /\ SaveMySQL
       \/ backend = "mongo" /\ SaveMongo
    /\ UNCHANGED <<formal, backend, index, cache, offset, faults>>

(* The call fails: a transaction has been rolled back, or was committed    *)
(* and its answer is lost; a bulk has got as far as it has got.            *)
SaveFails ==
    /\ pc = "save"
    /\ Fault
    /\ \/ /\ backend = "mysql"
          /\ \/ UNCHANGED store
             \/ /\ ~\E m \in InBatch : \E x \in store \cup InBatch : Conflict(m, x)
                /\ store' = store \cup InBatch
       \/ /\ backend = "mongo"
          /\ \E n \in 0..Len(msgBatch) :
                 /\ \A i \in 1..n : ~UpsertEnds(i)
                 /\ store' = Upserted(n)
    /\ Return
    /\ UNCHANGED <<formal, backend, index, cache, offset>>

-----------------------------------------------------------------------------
(* The rest of flush *)

(* IndexMessages: a failure is logged; items of the bulk may be refused.   *)
IndexBatch ==
    /\ pc = "index"
    /\ \/ index' = index \cup InBatch /\ UNCHANGED faults
       \/ Fault /\ \E some \in SUBSET InBatch : index' = index \cup some
    /\ pc' = "cache"
    /\ UNCHANGED <<formal, backend, store, cache, offset, ctxDone, pos,
                   msgBatch, lastOffset>>

(* Redis keeps the CacheMax members with the highest room numbers.         *)
Trim(members) ==
    {m \in members : Cardinality({x \in members : x.seq > m.seq}) < CacheMax}

(* Mutant: what is written to a room's cache replaces it.                  *)
ReplaceCache(rows) ==
    [r \in Rooms |-> IF \E m \in rows : m.room = r
                     THEN Trim({m \in rows : m.room = r}) ELSE cache[r]]

AddToCache(rows) ==
    [r \in Rooms |-> Trim(cache[r] \cup {m \in rows : m.room = r})]

(* pushLatestToRedis: a pipeline whose failure is logged; any prefix of it *)
(* may have run.                                                           *)
PushLatest ==
    /\ pc = "cache"
    /\ \/ cache' = AddToCache(InBatch) /\ UNCHANGED faults
       \/ /\ Fault
          /\ \E n \in 0..(Len(msgBatch) - 1) :
                 cache' = AddToCache({msgBatch[i] : i \in 1..n})
    /\ pc' = "offset"
    /\ UNCHANGED <<formal, backend, store, index, offset, ctxDone, pos,
                   msgBatch, lastOffset>>

SaveOffset ==
    /\ pc = "offset"
    /\ offset' = lastOffset
    /\ pc' = "run"
    /\ msgBatch' = << >>
    /\ UNCHANGED <<formal, backend, store, index, cache, ctxDone, pos,
                   lastOffset, faults>>

SaveOffsetFails ==
    /\ pc = "offset"
    /\ Fault
    /\ offset' \in {offset, lastOffset}
    /\ Return
    /\ UNCHANGED <<formal, backend, store, index, cache>>

(* External: SIGTERM.  Whoever stopped the worker starts it again.         *)
Shutdown ==
    /\ pc # "down"
    /\ ~ctxDone
    /\ Fault
    /\ ctxDone' = TRUE
    /\ UNCHANGED <<formal, backend, store, index, cache, offset, pc, pos,
                   msgBatch, lastOffset>>

Crash ==
    /\ pc # "down"
    /\ Fault
    /\ Return
    /\ UNCHANGED <<formal, backend, store, index, cache, offset>>

WorkerStep == Read \/ Flush \/ Exit \/ Save \/ IndexBatch \/ PushLatest \/ SaveOffset

Next == NewWorker \/ WorkerStep \/ SaveFails \/ SaveOffsetFails \/ Shutdown \/ Crash

Spec == Init /\ [][Next]_vars

(* The worker keeps running and Docker restarts it; crashes and failures   *)
(* are finitely many.                                                      *)
FairSpec == Spec /\ WF_vars(NewWorker) /\ WF_vars(WorkerStep /\ pc # "run")
            /\ WF_vars(Read) /\ WF_vars(Flush) /\ WF_vars(Exit)

-----------------------------------------------------------------------------
(* Properties *)

(* The saved offset never gets ahead of the store: every record up to it   *)
(* is a valid one and is stored exactly as it was numbered.  What a crash, *)
(* a lost answer or a refused save leaves behind is read again; a record   *)
(* that conflicts with the store holds the archive up instead of being     *)
(* skipped.                                                                *)
OffsetIsStored ==
    \A o \in 1..offset : formal[o].valid /\ formal[o] \in store

(* No two rows claim the same key, id or room number, whatever is replayed *)
(* and however far a bulk got; a replay makes no second copy.              *)
StoreIdentity ==
    \A x, y \in store : x.seq > 0 => ~Conflict(x, y)

(* Search and cache never show a message that is not archived.             *)
CopiesAreStored ==
    /\ index \subseteq store
    /\ \A r \in Rooms : cache[r] \subseteq {x \in store : x.room = r}

(* Whatever says that a message is archived, the offset or a copy, the     *)
(* store has it.                                                           *)
ArchivedIsStored == OffsetIsStored /\ CopiesAreStored

(* Nothing at or before o is bad or contradicts what came before it.       *)
Clean(o) ==
    \A p \in 1..o : /\ formal[p].valid
                    /\ \A q \in 1..(p - 1) : ~Conflict(formal[p], formal[q])
                    /\ \A x \in Legacy : ~Conflict(formal[p], x)

(* Every record with nothing bad before it, or near enough behind it to    *)
(* share its batch, is archived in the end, and the offset says so.  (A    *)
(* bad record takes the rest of its batch down with it, at every restart.) *)
EveryRecordArchived ==
    <>[](\A o \in DOMAIN formal :
             Clean(Min({o + BatchSize - 1, Len(formal)}))
             => formal[o] \in store /\ o <= offset)

=============================================================================
