------------------------------ MODULE History -------------------------------
(***************************************************************************)
(* Reading a room's history while the archiver writes it: GetChatHistory   *)
(* (services/messages/api/history_handler.go) serves the first page from   *)
(* the room's cache when it holds enough messages, else from the store,    *)
(* and then fills the cache in the background (cache/redisconfig.go);      *)
(* older pages come from the store, located by the id of the oldest        *)
(* message seen (GetHistoryByCursor of the repositories).                  *)
(*                                                                         *)
(* A room's cache expires 30 minutes after its last write; a background    *)
(* fill gives up after 5 seconds.  So a cache that was written while a     *)
(* fill was under way does not expire before that fill is over.            *)
(***************************************************************************)
EXTENDS Archiver

CONSTANTS Limits,    \* page sizes clients ask for
          MaxFills   \* bound: background fills under way at once

(* Ids are keys of the old rows; in every room, messages first appear in   *)
(* the topic in the order of their numbers, as the sequencer writes them.  *)
ASSUME HistoryAssumption ==
    /\ Limits \subseteq Nat \ {0} /\ MaxFills \in Nat
    /\ IsFiniteSet(Legacy)
    /\ \A x \in Records \cup Legacy : x.id \in Int /\ x.seq \in Int
    /\ \A x, y \in Legacy : x.id = y.id => x = y
    /\ \A log \in Logs : \A p, q \in DOMAIN log :
           /\ log[p].valid /\ log[q].valid
           /\ log[p].room = log[q].room /\ log[p].seq <= log[q].seq
           => \E i \in 1..q : log[i] = log[p]

VARIABLES fills,   \* background fills: room, rows read, and whether the
                   \* room's cache was written since
          scroll,  \* a client that reads a room page by page
          gappy    \* rooms whose cache, since it last expired, was written
                   \* only in part, or was given an old message again

readVars == <<fills, scroll, gappy>>
historyVars == <<vars, readVars>>

Fill == [room : Rooms, rows : SUBSET Records, touched : BOOLEAN]

Scroll == [room : Rooms, limit : Limits, first : SUBSET (Records \cup Legacy),
           seen : SUBSET (Records \cup Legacy), cursor : Int, more : BOOLEAN]

HistoryTypeOK ==
    /\ fills \subseteq Fill
    /\ scroll \in Scroll \cup {<< >>}
    /\ gappy \subseteq Rooms

HistoryInit == Init /\ fills = {} /\ scroll = << >> /\ gappy = {}

-----------------------------------------------------------------------------
(* The order of history: numbered messages after the old rows, by number,  *)
(* then by id.                                                             *)
Below(x, y) == x.seq < y.seq \/ (x.seq = y.seq /\ x.id < y.id)

Newest(rows, n) == {x \in rows : Cardinality({y \in rows : Below(x, y)}) < n}

Oldest(page) == CHOOSE x \in page : \A y \in page : ~Below(y, x)

RowsOf(r) == {x \in store : x.room = r}

(* Mutant: older means a smaller id.                                       *)
OlderById(r, cursor) == {x \in RowsOf(r) : x.id < cursor}

(* The cursor is located in its own room; an unknown one is compared by id.*)
Older(r, cursor) ==
    LET at == {x \in RowsOf(r) : x.id = cursor}
    IN  IF at = {} THEN {x \in RowsOf(r) : x.id < cursor}
                   ELSE {x \in RowsOf(r) : \A c \in at : Below(x, c)}

(* The cache counts only if it fills the page, and never for MongoDB.      *)
CacheHit(r, n) == backend = "mysql" /\ Cardinality(cache[r]) >= n

(* What the client makes of the first page.                                *)
Begin(r, n, page) ==
    scroll' = [room |-> r, limit |-> n, first |-> page, seen |-> page,
               cursor |-> IF page = {} THEN 0 ELSE Oldest(page).id,
               more |-> Cardinality(page) = n]

FirstPageCached(r, n) ==
    /\ CacheHit(r, n)
    /\ Begin(r, n, Newest(cache[r], n))
    /\ UNCHANGED <<vars, fills, gappy>>

(* The rows of a page that can be cached.                                  *)
Numbered(page) == {x \in page : x.seq > 0}

(* A miss, or a Redis that does not answer: the store serves the page, and *)
(* its numbered rows start on their way to the cache.                      *)
FirstPageStored(r, n) ==
    /\ Cardinality(fills) < MaxFills
    /\ \/ ~CacheHit(r, n) /\ UNCHANGED faults
       \/ CacheHit(r, n) /\ Fault
    /\ LET page == Newest(RowsOf(r), n)
           rows == Numbered(page)
       IN  /\ Begin(r, n, page)
           /\ fills' = IF rows = {} THEN fills
                       ELSE fills \cup {[room |-> r, rows |-> rows, touched |-> FALSE]}
    /\ UNCHANGED <<formal, backend, store, index, cache, offset, workerVars, gappy>>

OlderPage ==
    /\ scroll # << >>
    /\ scroll.more
    /\ LET page == Newest(Older(scroll.room, scroll.cursor), scroll.limit)
       IN  scroll' = [scroll EXCEPT
                        !.seen = @ \cup page,
                        !.cursor = IF page = {} THEN 0 ELSE Oldest(page).id,
                        !.more = Cardinality(page) = scroll.limit]
    /\ UNCHANGED <<vars, fills, gappy>>

Touch(fs, rs) == {IF f.room \in rs THEN [f EXCEPT !.touched = TRUE] ELSE f : f \in fs}

(* BackfillRoomCache, oldest row first; a failure is logged, and the part  *)
(* of the pipeline that has run stays.                                     *)
BackfillRoomCache(f) ==
    /\ \/ cache' = AddToCache(f.rows) /\ UNCHANGED <<faults, gappy>>
       \/ /\ Fault
          /\ \E n \in 0..(Cardinality(f.rows) - 1) :
                 cache' = AddToCache(f.rows \ Newest(f.rows, Cardinality(f.rows) - n))
          /\ gappy' = gappy \cup {f.room}
    /\ fills' = Touch(fills \ {f}, {f.room})
    /\ UNCHANGED <<formal, backend, store, index, offset, workerVars, scroll>>

(* External: Redis drops the room's cache 30 minutes after its last write. *)
Expire(r) ==
    /\ cache[r] # {} \/ r \in gappy
    /\ \A f \in fills : f.room = r => ~f.touched
    /\ cache' = [cache EXCEPT ![r] = {}]
    /\ gappy' = gappy \ {r}
    /\ UNCHANGED <<formal, backend, store, index, offset, workerVars, faults,
                   fills, scroll>>

(* Rooms of the batch to whose cache it adds an old message: one that the  *)
(* topic repeats, or one before the saved offset, which Redis did not give.*)
Repeated ==
    LET start == lastOffset - Len(msgBatch)
    IN  {msgBatch[i].room : i \in
            {i \in DOMAIN msgBatch : /\ \/ \E p \in 1..(start + i - 1) : formal[p] = msgBatch[i]
                                       \/ start + i <= offset
                                    /\ msgBatch[i] \notin cache[msgBatch[i].room]}}

(* The archiver's own cache write, seen from here.                         *)
PushWhileRead ==
    /\ PushLatest
    /\ LET rs == {m.room : m \in InBatch}
       IN  /\ fills' = Touch(fills, rs)
           /\ gappy' = gappy \cup (IF faults' # faults THEN rs ELSE Repeated)
    /\ UNCHANGED scroll

OtherWork ==
    /\ \/ NewWorker \/ Read \/ Flush \/ Exit \/ Save \/ SaveFails
       \/ IndexBatch \/ SaveOffset \/ SaveOffsetFails \/ Shutdown \/ Crash
    /\ UNCHANGED readVars

HistoryNext ==
    \/ OtherWork
    \/ PushWhileRead
    \/ \E r \in Rooms, n \in Limits : FirstPageCached(r, n) \/ FirstPageStored(r, n)
    \/ OlderPage
    \/ \E f \in fills : BackfillRoomCache(f)
    \/ \E r \in Rooms : Expire(r)

HistorySpec == HistoryInit /\ [][HistoryNext]_historyVars

-----------------------------------------------------------------------------
(* Properties *)

(* The records the worker is done with, unless it is sent back.            *)
Pushed == IF pc = "down" THEN offset ELSE pos - Len(msgBatch)

(* Whatever fills, expiries, replays and crashes do to it, a cache whose   *)
(* writes all went through, and that was not given a repeated message, has *)
(* no hole and no stale end, apart from records the worker has yet to      *)
(* push: a message it is done with, newer than one that is cached, is      *)
(* cached too.                                                             *)
CacheCatchesUp ==
    \A r \in Rooms \ gappy : \A o \in 1..Pushed :
        /\ formal[o].room = r
        /\ \E c \in cache[r] : c.seq < formal[o].seq
        => formal[o] \in cache[r]

(* A client that scrolls back meets every stored message below its first   *)
(* page, the old ones without number included, although the archive grows  *)
(* meanwhile and the first page came from the cache.                       *)
ScrollSkipsNothing ==
    scroll # << >> =>
        \A x \in RowsOf(scroll.room) :
            /\ scroll.first # {}
            /\ \A f \in scroll.first : Below(x, f)
            /\ scroll.more => x \notin Older(scroll.room, scroll.cursor)
            => x \in scroll.seen

=============================================================================
