# LAN-sync: a TLA+ verification project

LAN-sync is a group chat: browsers talk to gateways over WebSocket, messages
travel through Kafka, are numbered by a sequencer, broadcast over Redis,
archived into MySQL or MongoDB, and moderated, answered and indexed by an agent.
Around that path stand HTTP services: rooms and members, presence, logins, files,
search, and the administrators' back office. This directory models both in TLA+,
checks them with TLC on small instances, and proves with TLAPS what can be proved
of them: nearly every safety property, for all values of the constants.
All source paths below are relative to the repository's root; `gateway/`,
`messages/`, `rooms/`, `admin/`, `agent/`, `auth/` live under `services/`.

## 1. The system

```
browser -> ReadPump -> producer -> [ingress topic] -> numbering -> [formal topic]
                                                                     |        |
browser <- WritePump <- hub <- [Redis channel of the room] <- relay -+--- archiver
                         ^                                           |     |  |  |
               room events, gRPC, admin calls      agent worker -----+    store, index, cache
                                                   (answers by gRPC)       |         |
                                                                        history handler
```

| part | state it keeps | operations | how others meet it |
|---|---|---|---|
| producer (`messages/producer`) | a bounded queue, the batch in hand, a request put aside | queue a request and wait for its result; batch and write; `Close` | one `ReadPump` per connection calls it; it appends to the ingress topic |
| numbering (`messages/sequencer`) | last number per room, message per request key, last id; offset, batch, put-aside record | number a batch, write it, commit | reads the ingress topic, writes the formal topic |
| relay (`messages/sequencer`) | offset, batch, put-aside record | publish a batch, commit | reads the formal topic, publishes to Redis; shares a context with numbering |
| hub (`gateway/websocket`) | per user the newest connection, per room its connections, per connection its rooms | register, unregister, join, leave, disband, kick | connections' goroutines, the room event listener, gRPC and admin calls, all at once |
| delivery (`gateway/websocket`) | a forward and an eviction queue per shard, a send queue and a batch per connection | publish, dispatch, evict, write, flush | Redis listener, shard loops, a pool of goroutines, two pumps per connection |
| archiver (`messages/archiver`, `messages/repository`) | rows, search index, cache of latest messages, saved offset | read, save, index, cache, save the offset | reads the formal topic; restarted by Docker |
| history (`messages/api`, `cache`) | pages being read, fills of the cache under way | first page from cache or store, older pages by cursor, background fill | shares store and cache with the archiver |
| rooms service (`rooms`) | rooms and memberships in MySQL | create, join, remove, disband, search, lists | publishes room events to the gateways; gateways read memberships when a connection opens |
| presence (`cache`) | a Redis key per user, holding the connection that set it | set, renew, delete one's own, delete | connections' handlers, administrators' bans |
| logins (`auth/security`, `gateway/handlers`, `admin/api`) | attempt windows per address and per address and name, slots for password comparisons, users | allow, compare, log in, register | HTTP; users and administrators have an entrance each |
| agent runtime (`agent/runtime`, Python) | inbox rows, moderation records, chunks, vectors, bindings of bots to rooms | consume, claim, moderate, answer, chunk, requeue, retry | reads the formal topic, calls the gateway by gRPC; bindings are changed by its API and by the gateway |
| admin (`admin`) | log of actions, moderation events, agent configuration and its history | actions on rooms, users, events, files and the configuration; lists, details, dashboards | changes the tables of the other services, calls the gateways' control port |
| files (`messages/application`, `messages/storage`) | rows of files, objects in a store | sign, complete, download; delete, scan, clean up | clients put objects straight into the store |
| search (`messages/api`, `messages/search`) | the index | search index or archive | the archiver feeds the index |
| frontend (`frontend`) | the merged message list, chunk uploads | merge, upload | HTTP and WebSocket |

What is hard here: retried writes and publishes that may already have happened;
a consumer group that hands records out again in the middle of a batch; a record
put aside for the next batch; a wall clock behind the last id; a worker that ends
between two of its five stores; callers that give up on a queued request; a
`Close` that races them; two indexes of one relation under two kinds of locks;
queues that are full at the loop that would drain them; leases that run out under
a slow language model; rows read, changed in memory and saved whole beside others
who do the same; two tables, or a table and a store, changed without a common
transaction; news of a change sent after it, which may be lost or overtaken;
password comparisons that outlive their request. `PROJECT.json` lists
these hazards at their lines, with the properties that watch them.

What makes each part correct:

- numbering: one message per request key, id and room number; ids and numbers in
  the same order; no gap; nothing committed that is not answered; the first
  request of a key decides; bad requests do not stop the rest; every request is
  answered.
- relay: nothing is committed unpublished; first publications in topic order;
  what is published is what was numbered.
- producer: what the sender is told is true; a sender's messages keep their
  order; `Close` loses nothing.
- archiver: the offset never gets ahead of the store; replays change nothing;
  copies show only what is stored; clean records are archived.
- history: no hole in the cache; scrolling skips nothing.
- hub: a connection gets the rooms it counts as its own; calls find the newest
  connection; lost connections are cleaned up.
- delivery: order per connection; a gap has one of three causes, and no other;
  slow clients stop nobody; no goroutine stays behind.
- agent: one inbox row per message and one decision per row; only approved
  messages are answered or indexed, each answered once per bot and never by the
  bot that sent it; every row comes to an end.
- rooms: what a connection is subscribed to is what the table of members says,
  once the news has arrived; what only an administrator can do to a room is in the
  log.
- presence: of overlapping connections the one that set the key last keeps it.
- administrators: the log lets a row be followed from change to change; the
  configuration's history ends in the configuration; pages leave no gap.
- logins: attempts stay bounded however windows, sweeps and overtaken readings of
  the clock fall; comparisons stay bounded when requests time out; a name is
  registered once.
- files: a recorded file has its object; a deletion that is logged has happened.
- search and views: an empty answer of the index is not taken for an empty room;
  lists, details and dashboards show the same thing.

## 2. Modules

`ConsumeBatches` is the loop of `batch.go` that numbering and relay share: fetch
a first record or take the one put aside, collect until count, bytes or time is
over, hand the batch to its user, commit, go on. `pc` is the place in the loop.
Kafka's failures cost one of `MaxFaults` faults each, so that behaviours are
finite; a failed commit or write may have happened all the same. A rebalance sets
the reader back to the committed offset at any point, with batch and put-aside
record still in hand.

`Sequencer` adds `Assign` and `RunBatched`: one action per outcome of a record
(unparsable, rejected, known key, new), `HandleDone`, the write and its failure.
A write that fails leaves a prefix of the batch in the topic and is repeated.
`Fits` says whether the numbered batch is one the writer accepts: a record at the
limit gets longer by its numbers, and `Retry` then repeats for ever what cannot
succeed. `Numbering` is the abstract service (`Number`, `Publish`), which
`Sequencer` implements under a refinement mapping that forgets the loop.

`Relay` is `RelayBatched` with the publish pipeline of `cmd/sequencer/main.go`.
`SequencerProcess` runs both loops on one context and one formal topic, with the
first result cancelling the rest.

`Producer` has one script of messages per connection, the queue, and `run`.
`Archiver` has the topic as an unknown of the initial state (every topic of
`Logs`), and keeps MySQL's all-or-nothing transaction and MongoDB's ordered bulk
apart. `History` extends it with a reader, background fills and the expiry of the
cache, so that every step of the archiver interleaves with them.

`Hub` splits a call where it leaves a lock: the look-up of `JoinRoom` and
`LeaveRoom` is a step before the change; `DisbandRoom` empties the room and then
visits clients one by one. `Delivery` splits dispatch per client, so that the
inline path and the pool are both covered, and gives eviction to the loop of the
client's user shard.

`Agent` has one consumer and a pipeline per worker, for one room. An iteration is
a walk of `pc` through its stages; calls to the language model, to the gateway
and to the vector store lie between steps, each database transaction is one
step. `aged` stands for all of the code's cut-off times: a row joins it when the
time that matters for its status is over. The verdicts, the grouping into chunks
and the answers are arbitrary; a failing or silent moderation agent is
`needs_review`, as in the code. Several workers are modelled because the claim
is written for them (`FOR UPDATE SKIP LOCKED`); `docker-compose.yml` starts one.

The HTTP services are one family. `Requests` has what they share: workers that
serve one request each as a sequence of statements (`at` is the statement a
request has reached), the log of administrators' actions, `Fault` for a call that
fails, and the arithmetic of paged lists. A step is one statement to MySQL,
Redis, the object store or the hub, so that two requests interleave between any
two of them.

- `Rooms` has the tables `rooms` and `room_members`, the requests of the rooms
  service, of administrators and of the agent, the events through Redis, and
  `WsEndpoint` from the reading of a user's rooms to the end of the connection.
  The hub is seen from outside, one step per call: `Hub` has its inside. `Save`
  writes every column as it was read; for a room disbanded meanwhile the ORM
  inserts the row again, so the room is back, and moderated, since an insertion
  takes the column's default for a zero value. `ver`, `known`, `cause` and `ended`
  only observe: they say of which change a connection knows, whether news was
  lost, overtaken or passed by, and of which rooms' end it was told.
- `Presence` extends it with the users' keys.
- `Governance` extends that with administrators' actions on users, moderation
  events and the agent's configuration, and with the paged reading of the log
  and the history while they grow. `mixed` observes on which rows requests
  overlapped.
- `Statistics` extends that with the archive and the counts of `MessageStatsStore`
  that somebody calls, for MySQL and for MongoDB; `Views` with the search and with
  the lists, details and dashboards of users and administrators, which are
  operators over the tables and are compared whenever requests have come to rest.
  The list of moderation events is the set of answers the database may give, as
  its order leaves open which of two events of the same time comes first.
- `Login` and `Files` extend `Requests` alone. In `Login`, `ReadClock` and `Allow`
  are two steps, since the clock is read before the lock is taken; `tried` records
  the attempts in the order they were counted. In `Files` the objects' ages are
  fresh and old (24 hours); `unsafe` and `touched` observe which files a cleanup
  or a deletion met half way.
- `Services` puts them together. What a behaviour is about is its *load*: the
  operations that are asked for, how many requests there are, and which rooms
  exist. Loads keep behaviours of unrelated services from multiplying.

| module | code |
|---|---|
| ConsumeBatches | `messages/sequencer/batch.go` consumeBatches, `pipeline.go` Retry |
| Sequencer, Numbering | `messages/sequencer/sequencer.go`, `batch.go` RunBatched, `contracts/events/message.go` |
| Relay | `messages/sequencer/relay_batch.go` |
| SequencerProcess | `messages/cmd/sequencer/main.go` |
| Producer | `messages/producer/producer-kafka.go`, `gateway/websocket/client.go` ReadPump |
| Archiver | `messages/archiver/worker-kafka.go`, both repositories, `models/message_identity.go`, `search/elasticsearch.go`, `infrastructure/mongo.go` |
| History | `messages/api/history_handler.go`, `cache/redisconfig.go`, both repositories |
| Hub | `gateway/websocket/hub.go`, `room_events.go`, `gateway/handlers/ws_handler.go`, `gateway/grpc/server.go` |
| Delivery | `gateway/websocket/hub.go`, `client.go` WritePump |
| Requests | `admin/application/audit.go` |
| Rooms | `rooms/application/service.go`, `rooms/api`, `rooms/repository`, `rooms/events`, `admin/application/room_service.go`, `gateway/handlers/ws_handler.go`, `gateway/websocket/room_events.go`, `gateway/grpc/server.go` |
| Presence | `cache/redisconfig.go`, `gateway/handlers/ws_handler.go` |
| Governance | `admin/application/user_service.go`, `moderation_dashboard.go`, `agent_config_service.go`, `audit.go`, `admin/api` |
| Statistics | `admin/application/message_stats.go` |
| Views | `messages/api/search_handler.go`, `messages/search/elasticsearch.go`, `admin/application/room_service.go`, `user_service.go`, `moderation_dashboard.go` |
| Login | `auth/security/login_protector.go`, `gateway/handlers/auth_handler.go`, `admin/api/admin_auth.go` |
| Files | `messages/application/file_service.go`, `messages/api/file_handler.go`, `messages/storage`, `admin/application/file_service.go` |
| Agent | `agent/runtime/app/workers/consumer.py`, `pipeline.py`, `storage/models.py`, `api/router.py`, `gateway/handlers/room_agent.go` |

Every module states its type invariant. Only the one of `Sequencer` is a
property of a run; the others spend their runs on behaviour, and the proofs show
their types (section 5).

Operators introduced by a comment "Mutant:" are small faults in a definition;
each property is known to fail when the definition is replaced by one of them.
They are not part of any specification.

## 3. Runs

| run | question | bounds |
|---|---|---|
| sequencer | Are numbers unique, ordered, gap-free and never lost; does the loop implement Numbering? | 3 ingress records out of 7 (a request, its retry, a reuse of its key, two more, one without a room, one that does not parse), 2 faults, batches of 2, clock -1..1 |
| sequencer_process | What may end the loops, and do they end together; is every request answered whatever Redis does; is what is broadcast what was numbered, in order, before it is committed? | 2 records of 5, among them unparsable, oversize and limit-size ones, 1 fault per loop |
| archiver | Does the offset stay behind the store through crashes; is everything archived? | 8 topics of 3 or 4 records, both stores, 3 faults |
| history | Is the cache without holes; does scrolling skip nothing? | 3 records and an old row, 1 fill at a time, 3 faults, pages of 1 and 2 |
| producer | Is the sender told the truth, in order, and does Close drain? | 2 connections with 3 messages, queue of 2, batches of 2, 2 faults |
| hub | Do the indexes agree and do calls find the newest connection? | 2 connections of one user, 2 rooms, 2 callers |
| hub_disband | Finding on Unregister | as hub, one room |
| delivery | Order, the causes of gaps, progress and clean ends with full queues | 2 clients, 2 messages, queues of 1, write batches of 2 |
| agent | One row, one decision, one answer, with leases that run out? | 2 workers, 2 bots, a message published twice or two messages, batches of 2, one chunk, 1 crash, failed call or change of bindings |
| agent_progress | Does every row come to its end? | 1 worker, two chunks, all verdicts, else as agent |
| services | Do tables, events, log, keys, objects and views stay true to each other when requests interleave and calls fail? | 2 workers; 21 loads of at most 3 requests (`MCLoads`); 1 fault; 2 users, 2 rooms, 2 connections of one user; 3 events, two of the same time; 2 configuration fields, one a flag; hours 0 and 1 on either side of the day's beginning; 2 addresses, 2 names, windows of 2 and 3 ticks with 1 attempt each, times 0 to 3, 1 slot; 2 file keys |
| files_cleanup | Finding on CleanupOrphans | the load of files alone |

Why the bounds are enough for the cases that matter: three ingress records hold a
request, its repetition and a third one, in every order, over two batches and a
put-aside record; two faults allow a failed write followed by a rebalance, or two
retries; the archiver's three faults allow a crash after a lost answer and a start
without an offset. In `history` three faults are what it takes to push an old
message: an offset that is not saved, a crash, and a start to which Redis gives no
offset; with two fills at once the instance has three million states and was
checked once without an error, and the proof covers any number of fills. Two
connections of a user are what the hub's shared entry can
confuse, and two callers are what its two-lock operation can meet. Queues of one
place are full after one message. Two workers are what a lease can be lost between;
the account that sends the called message is that of the second bot, which is
bound to the room but off, or not bound yet.

In `services` two workers are what a row can be changed by at once, and three
requests let a third one come between the statements of the second; with a single
fault each call can be the one that fails, which mostly ends its request. Each load names operations that meet on the same rows: a
join, a removal and a disband while a user connects; an action on a room that is
being disbanded; a ban between two connections; updates and a rollback of the
configuration; an upload, its completion, a deletion and a cleanup. The windows of
the login differ in length so that a sweep for the shorter one meets entries of
the longer one, and let one attempt pass each, so that three requests are enough
to pass a bound; two workers are what can overtake each other between the clock
and the lock. Of the three events two have the same time, so that the list has
more than one order and, without one of them, only one. `RecordLimit` and `ObjectLimit` are not reached in this run: what
happens beyond 5000 records is the finding below. Workers and connections are
interchangeable and only invariants are checked, so the symmetry is sound.

Deadlock is checked in the agent's
runs, whose pipelines poll for ever; the other systems stop on their own (topics
and scripts are finite, and processes may end), so there it is not.

Fairness. The goroutines of the code keep running: weak fairness of each loop's
own steps. Kafka answers in the end because its failures are bounded; Redis owes
nothing in `sequencer_process` except where a property assumes it
(`ProcessKeepsGoing`). The archiver is restarted (`docker-compose.yml`,
`restart: unless-stopped`); the sequencer is not (`restart: "no"`), and its
liveness ends with it. In `Delivery` the two branches of a shard's `select` are
strongly fair (Go picks at random among those ready); a socket is not asked to
take anything, since a write fails at its deadline. The agent's pipeline and
consumer keep running and time passes; the chunk agent is asked to return usable
chunks except in the bounded failures.

## 4. Findings

1. `hub_disband`: `Unregister` removes a client from the rooms in its own list.
   A `DisbandRoom` that crosses a leave and a join of the same room leaves the
   client in the room without the room in the client, and the closed client stays
   in the room's set until the room is disbanded.
2. `files_cleanup`: the comment of `CleanupOrphans`
   (`admin/application/file_service.go:212`) says that it cleans objects older
   than 24 hours and spares what was just uploaded or is in use. The code looks
   at no age, and takes for known only the newest 5000 records: an object put a
   moment ago and not recorded yet is deleted, and so would be the files of older
   records.

`ProcessKeepsGoing`, `EveryRecordArchived` and `EveryRowSettles` state three
limits of the code as they are: a request that fits a batch only without its
numbers blocks numbering; a bad record takes the records before it in its batch
down with it; and rows whose chunks were written in part stay `approved` as long
as the chunk agent forms the same chunk again, because the chunk's row is already
there. Answers that were due when a worker ended are not made up for.

The exceptions in `SubscriptionsFollowTable`, `AuditTellsRow`,
`ConfigHistoryTells` and `DeletedIsGone` are such limits too: a subscription stays
wrong when news is lost, overtaken, or arrives between the reading of a
connection's rooms and its registration, or when the room comes back after a
disband; and what is said is of the connection the hub has for the user, not of
an older one he still has open. Overlapping actions on one row undo each other,
and `AuditTellsRow` and `ConfigHistoryTells` say nothing of rows and versions to
which that happened.

So are the causes that `StreamIsWhole` names. `Publish` drops a message when the
forward queue of the shard is full (`hub.go:335`), and a full client's eviction
is not asked for when the eviction queue is full (`hub.go:576`): then the
connection lives on with a gap, of which only a metric tells. The property says
that there is no other cause, and that what is not lost comes in order.

`AttemptsBounded` allows one window more for every attempt that was overtaken
between the reading of the clock (`login_protector.go:72`) and the lock (`:74`):
such an attempt is counted with its old reading, and may close a window that has
just begun or open one that is over. Without such attempts fewer than two windows'
attempts pass in any stretch of a window's length.

Other things met while modelling, without a run of their own:

- A replayed old message becomes the newest of a cache that has expired,
  against `docs/message-idempotency.md:107` and `cache/redisconfig.go:144`. The
  topic may repeat a message, or the archiver may read again from before the saved
  offset, because Redis did not give it the offset when it started
  (`worker-kafka.go:118`). `CacheCatchesUp` leaves such rooms out until their cache
  expires (`gappy`, `Repeated` in `History`).
- `LeaveRoom` (`hub.go:287`) takes only the connection registered last out of the
  room; an older one of the same user keeps receiving it.
- `DeleteFile` means to put the record back when the store fails
  (`admin/application/file_service.go:135`), but creates it from a list item with
  columns the table lacks: the record stays deleted and the object remains.
- `README.md:177` says that the list of users shows message counts ("群聊与消息数量"),
  and `README.md:183` that the list of rooms shows today's messages ("今日消息"). With
  MySQL as the message store they do not: the grouped counts name a column `key`,
  a reserved word (`message_stats.go:258`, `:278`, `:298`), the statement is refused,
  and the callers pass over the error, so that the lists show 0 where the details
  show the number. `ViewsAgree` compares these counts with MongoDB only, and what
  else the lists show with both.
- A connection opened after a room was disbanded is subscribed to the disbanded
  room again: the rows of its members stay (`SoftDeleteRoom` changes `rooms` alone),
  and `GetUserRoomIDs` (`rooms/repository/room_member_repo_impl.go:45`) reads
  `room_members` alone. The connections that were open at the disband are not.
- The list of moderation events is ordered by `created_at` alone
  (`moderation_dashboard.go:251`): of events of the same time, one may be shown on
  two pages and another on none.
- An index that has some of the messages that match answers for all of them
  (`search_handler.go:66`); those it lacks are missing from the page.
- The number of a user's rooms counts disbanded ones, the list of them does not.
  `last_active_at` of a room is never updated, and no file record gets its
  message, so every record older than a day is reported as stale.
- `searchRooms` echoes a limit of 1 where the service used 20.

## 5. Proofs

Each module of proofs EXTENDS the module it is about, and its theorems hold for
every value of the constants that the named assumptions allow: any number of
connections, workers, rooms, users, requests and messages, any limits, and any
bound on failures.

| module | about | theorems |
|---|---|---|
| SequencerProofs | Sequencer, Numbering | `TypeCorrect`, `Inductive`, `FormalIdentityHolds`, `IdsFollowSeqHolds`, `NoGapHolds`, `CommittedIsOutHolds`, `FirstRequestWinsHolds`, `StopsForCauseHolds`, `SequencerImplementsNumbering` |
| SequencerProcessProofs | SequencerProcess, Relay | `ProcessImplementsSequencer`, `ProcessInductive`, `RelayedBeforeCommitHolds`, `BroadcastInOrderHolds`, `LoopsStopForCauseHolds` |
| ProducerProofs | Producer | `Inductive`, `TypeCorrect`, `SenderOrderHolds`, `OutcomeIsTrueHolds` |
| ArchiverProofs | Archiver, History | `Inductive`, `TypeCorrect`, `ArchivedIsStoredHolds`, `StoreIdentityHolds`; `ReadingInductive`, `HistoryInductive`, `HistoryTypesHold`, `ScrollSkipsNothingHolds`, `CacheCatchesUpHolds` |
| HubProofs | Hub | `TypeCorrect`, `RegistryAgreesHolds` |
| DeliveryProofs | Delivery | `Inductive`, `TypeCorrect`, `StreamIsWholeHolds` |
| AgentProofs | Agent | `Inductive`, `TypeCorrect`, `AnswersAreDueHolds`, `StatusMatchesRecordHolds`, `InboxExactHolds`, `InboxAgreesHolds` |
| ServicesProofs | Services and all it is made of | `ShapeHolds`, `HashesBoundedHolds`, `OneRegistrationWinsHolds`, `PresenceIsTheLatestHolds`, `RoomsTypesHold`, `AuditExplainsTablesHolds`, `GovernanceTypesHold`, `AuditTellsRowHolds`, `ConfigHistoryTellsHolds`, `PagesSkipNothingHolds`, `SearchFindsStoredHolds`, `RecordedIsStoredHolds`, `DeletedIsGoneHolds`, `SubscriptionsFollowTableHolds`, `AttemptsBoundedHolds`, `ViewsAgreeHolds` |

Hardly any of the properties is inductive as it stands; what has to be added says
how the code keeps it. The invariants of history, of delivery, of the login's
windows and of the penalties were checked by TLC before they were proved.

- **Numbering.** A number reaches the topic two steps after it is given, and an
  offset is committed long after its record was read. `IInv` adds what holds in
  between. Its number part says that `requests`, `rooms` and `lastID` agree (each
  room's messages are numbered 1 to its counter, ids at most `lastID`, a key names
  its own message). Its topic part says that batch and topic hold only messages of
  `requests`, so identity in the topic follows from identity in the map. Its
  written part says that a message not yet in the topic is in the batch about to be
  written, which gives `NoGap` when the loop is not between the two. Its batch part
  says that every record the reader has passed is done or waits in the batch or
  aside; with the written part this is what makes a commit safe, and a rebalance
  harmless. `FirstRequestWins` adds that the records passed are handled in their
  order, for which batch and put-aside record must be the next ones in the topic.
  The refinement maps the loop's places to nothing, `Assign` to `Number`, and a
  written message to `Publish`.
- **Process.** A step of the process is a step of the numbering loop or leaves its
  variables alone (`ProcessImplementsSequencer`), so all the above holds in it.
  `RInv` adds that the relay's batch is the part of the topic between its offset
  and its reader, and that a message was handed to Redis after all before it.
- **Producer.** Topic, batch, put-aside request and queue are one line: each
  connection's requests stand in it in the order they were sent, repetitions
  aside. What has entered the line was sent and was neither refused nor skipped;
  an answer of success means that the request is in the topic.
- **Archiver.** The batch is the part of the topic that the reader passed last, in
  order; all before it is stored, and after the saving the batch is too; what lies
  behind the saved offset is stored.
  MongoDB's bulk may leave a prefix, which the repeated batch meets as rows of its
  own.
- **History.** `ReadingInv` relates a client's page to the rows: what lies under
  the first page is seen or below the cursor. It needs that new rows are above all
  rows of their room, which holds because messages first appear in the topic in
  the order of their numbers. `CacheInv` says that neither a cache nor a fill on
  its way to it has a hole, where a fill may count on what the cache holds now as
  long as no one has touched it since.
- **Hub.** Both halves are inductive given the types: a connection that counts a
  room as its own is in the room's set or on the list of a `DisbandRoom` under way,
  which is why that call may empty the room before it visits the clients; and a
  user is found under its newest registered connection, because an unregistering
  connection takes only itself out of the index.
- **Delivery.** For every client, what was written, collected and queued is in
  order, and older than what is in the forward queue or still to be dispatched;
  every message of the room was given to the client, is still to be tried, or
  has one of the three causes on record: dropped at the full forward queue, the
  eviction of the client is under way, or the request to evict it was dropped.
- **Agent.** Status and record of a row fit; the rows in a worker's hands after
  the moderation are approved, and no two workers talk about the same row, since
  only the worker whose update found a row undecided goes on with it. That is what
  leases that run out cannot break. What a bot has yet to answer it has not
  answered.
- **Services.** `Shape` and a family of lemmas say which requests each component
  begins and which variables it leaves alone (`Leaves`), so that a property of one
  component is carried past the steps of all others at once. Then: a comparison
  under way has a slot; who is about to be told that he registered owns the row;
  the key in Redis belongs to a connection that set it; what a request holds of a
  room's row is explained by the log or by a request that is about to log it;
  where actions on a row do not overlap, the action under way starts from what
  the last entry left; the configuration is what its newest version says; rows
  newer than those a next page can show were shown; what a deletion or cleanup is
  about to take away is marked unsafe; a deletion that was logged has no record
  left, or a deletion that will take it; an event that nobody has decided on, or
  that was revoked, has no penalty, since every action saves penalty and review
  together (`PenaltyInv`).
- **Subscriptions.** `SubscribedInv` follows every piece of news of a membership
  from the table through the request that will tell it, or the channel, to the
  connection. Each piece carries the version of the row it is about and is true
  of the newest one if it carries that, and a connection that differs from the table has either a
  piece of news under way that will put it right, or a cause that the property
  names (news lost, overtaken, or between reading and registration). Of a
  disbanded room `ended` records the connections that were told of the end; the
  others follow the rows of `room_members` there too.
- **Windows of the login.** `AttemptsInv` compares the attempts that passed with
  the protector's entries. A window that runs has counted what passed in it, and
  what passed within its length before it began was in a single one; where no
  window runs, or its entry was swept away, what passed within the length before
  now was in a single one. So any stretch of that length meets two windows at
  most, the first without its first attempt. An attempt that was overtaken between
  clock and lock may open or close one window more, and the bound grows by it.
- **Views.** These compare operators over the tables, and need little of the
  behaviour: that rooms, rows and memberships are of their types, and
  `PenaltyInv`. What they need is arithmetic. A sum over a function is a fold; the
  library's induction cannot be used, so its existence and its value are shown by
  a smallest counterexample, for which the well-foundedness of < on the naturals is
  enough (`Smallest`, `SumsExist`, `SumOfCounts`). From there: whoever is counted by
  a key is counted once; pairs counted with one statement for a page are the pairs
  counted for each (a bijection); the pages of one row show all rows (`RowsShown`);
  an event that no other shares its time with has the same place in every order
  (`PlaceOfEvent`).

The assumptions. Most say that limits are positive and sets are what their names
say; TLC evaluates them in every run. Those that carry weight:

- `HistoryAssumption`: in every room, messages first appear in the topic in the
  order of their numbers. This is `NoGap` and `BroadcastInOrder` of the sequencer,
  seen by its reader. Old rows are finitely many and have ids of their own, the
  primary key of their table.
- `ArchiverAssumption`: old rows have no number, valid records have one.
- `AgentAssumption`: all topics a behaviour may be about have the same length;
  there are finitely many workers and bots. `InboxExactHolds` and
  `InboxAgreesHolds` assume moreover that messages have ids (`id # 0`): a message
  without one is known by its offset only, and its repetition gets a row of its
  own. The sequencer gives ids from 1 on (`IdsFollowSeqHolds`).
- `RecordedIsStoredHolds` assumes that there are at most `RecordLimit` files,
  5000 in the code. Beyond that a cleanup reads the newest records only and takes
  the objects of the others for orphans, as the finding `files_cleanup` tells.
- `GovernanceAssumption`: the configuration has a field.
- `ViewsAssumption`: the tables of users, rooms and events are finite, and the ids
  of users and rooms and the times of events are numbers. Neither need differ.

What the attempts at proofs have corrected in the models:

- `CacheCatchesUp` was false with a third fault: a record read again from before
  the saved offset enters an expired cache as its newest. The code does that; the
  property now leaves such rooms out, and the run has the third fault.
- The cases of `StatusMatchesRecord` overlapped, so that it did not say which of
  two answers held for such a status.
- `list` in `Governance` did not say which table is being read, so that one reader
  might have continued in the other.
- `ViewsAgree` was stated for the instance of the run only: no more users or rooms
  than a page of 20 has, two rooms in the sums. It now says what holds for any
  number (the union of all pages, sums over all keys), and the limits of the code
  are in the model as they are.
- A bound of two windows on logins was false once the reading of the clock was a
  step of its own: an attempt that is overtaken may open one more.
- A write of the producer that fails for good may leave any selection of its
  messages in the topic, in order, not only a prefix.

Only model-checked. All liveness (`EveryRequestSettled`, `EveryRecordArchived`,
`BrokenIsClosed`, `FanOutGoesOn`, `EveryRowSettles`, `ProcessKeepsGoing`):
fairness is beyond the prover. Every other property of a passing run is proved.
`UnregisteredIsGone` and `CleanupSparesFiles` are false of the code.

## 6. Not modelled, and the plan

Left out: `Run` and `Relay` (unbatched variants without a caller),
`UpdateRooms`, `SoftDeleteUserMessagesInRoom`, `GetMessagesAfterID`,
`CountMessagesAfterID`, `AdminDeleteUser`, `Save` of the storage providers (no
caller or no route), `EnsureTopics`, the metrics and tracing of every part. The
permissions per route and the tokens are decided once per request from fixed
tables, before anything modelled here. The dashboards of retrieval, tool calls,
errors and of the runtime read tables nothing modelled here writes, or the
process itself. The generated Protocol Buffers code and the storage drivers are
libraries to this code; the control port's gRPC client and server pass calls
through to the hub, and are part of the call in `Rooms` and `Governance`. The
agent's queries are rewritten and only read. Of `MessageStatsStore` the totals, the
groups, the hours and days and the tops have no caller; `FetchMessages` of the
gateway is called by a tool in `agent/runtime/app/graph.py`, which nothing imports.
Both only read. The frontend is JavaScript on one
thread. The end of a gateway process is not modelled in `Hub` and `Delivery`. In
`Agent` the contents of a configuration (trigger words, retrieval) do not change,
and the consumer's group has an offset from the start. In `Rooms` there is one
gateway; a second one would get the same events.

Order of the work: numbering first, since every other part relies on what it
promises; then its process, the parts that read the formal topic, the gateway, the
agent, and the HTTP services over the same tables. These are done, and so are the
proofs of all safety properties; what stays with TLC is liveness. The least
modelled part with a hazard of its own is an old message pushed into a cache
(section 4), which the property leaves out instead of stating it as a finding.

## 7. Running it

    tlc -config MCSequencer.cfg MCSequencer     # and so on, see PROJECT.json
    tlc -config MCServices.cfg MCServices       # the longest, some minutes
    tlapm SequencerProofs.tla                   # and each other *Proofs.tla
