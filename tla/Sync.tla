-------------------------------- MODULE Sync --------------------------------
(***************************************************************************)
(* The stream of a device: sync_events_route (api/client_server/sync.rs)   *)
(* against the writers of what it reads, append_pdu                        *)
(* (service/rooms/timeline.rs), mark_device_key_update and                 *)
(* add_to_device_event (database/key_value/users.rs).                      *)
(*                                                                         *)
(* A writer takes a number of the global counter and later inserts a row   *)
(* under it.  A sync reads the counter, answers with the rows after the    *)
(* client's token, and the number it read becomes the next token.  So a    *)
(* row that is inserted under a smaller number after the sync looked for   *)
(* it is never sent.  append_pdu takes the room's insert lock around both  *)
(* steps and a sync waits for it; the other writers take no lock.          *)
(*                                                                         *)
(* The lock is the abstract one of KeyLock.tla.  The device is joined to   *)
(* all of Rooms.                                                           *)
(***************************************************************************)
EXTENDS Integers, FiniteSets

CONSTANTS
  Rooms,
  Own,            \* the prefix of the device's own rows, which belong to no room
  Writers,        \* concurrent requests that write
  NoOne,          \* nobody has the lock
  Trees,          \* which of the trees "pdu", "key", "todevice" are written
  TimelineLimit,  \* at most so many events of a room in an answer, 10
  MaxCount,       \* bound: the largest value of the counter
  MaxLoadErrors,  \* bound: rooms that cannot be loaded
  MaxCrashes      \* bound: crashes of one behaviour

ASSUME NamesAssumption == Own \notin Rooms /\ NoOne \notin Writers

ASSUME LimitsAssumption ==
  /\ TimelineLimit \in Nat \ {0}
  /\ MaxCount \in Nat /\ MaxLoadErrors \in Nat /\ MaxCrashes \in Nat

VARIABLES
  \* the database
  counter,    \* globals.current_count()
  rows,       \* pduid_pdu, keychangeid_userid, todeviceid_events
  \* memory
  cache,      \* lasttimelinecount_cache, 0 where the room has no entry
  lock,       \* roomid_mutex_insert: per room, the writer that has its token
  writer,     \* where a writer is, and its locals
  sync,       \* where the sync request is, and its locals
  \* the client
  token,      \* next_batch of the last answer it has got
  received,   \* the rows in the answers it has got
  gaps,       \* the events behind a `limited' timeline, to be paged in
  omitted,    \* the rows its answers lack because a room could not be loaded
  \* history and bounds
  raced,      \* rows that were between number and insert when a sync began
  removed,    \* the to-device rows remove_to_device_events deleted
  loadErrors, crashes

vars == <<counter, rows, cache, lock, writer, sync, token, received, gaps, omitted,
          raced, removed, loadErrors, crashes>>

Prefixes == Rooms \cup {Own}

Row == [tree : {"pdu", "key", "todevice"}, prefix : Prefixes, count : Nat]

RowOf(t, p, n) == [tree |-> t, prefix |-> p, count |-> n]

\* The rows of a tree under a prefix that are newer than n.
After(t, p, n) == {x \in rows : x.tree = t /\ x.prefix = p /\ x.count > n}

NoRequest == [pc |-> "idle"]

\* `todo' are the prefixes under which a row is still to be inserted.
BusyWriter ==
  [pc : {"locking", "reading", "counting", "inserting", "waking", "caching", "unlocking"},
   tree : {"pdu", "key", "todevice"}, todo : SUBSET Prefixes, at : Prefixes, count : Nat]

BusySync ==
  [pc : {"own", "rooms", "timeline", "keys", "get", "done", "hanging", "replying"},
   since : Nat, next : Nat, todo : SUBSET Rooms, room : Prefixes,
   got : SUBSET Row, gap : SUBSET Row, lost : SUBSET Row, woken : BOOLEAN]

WriterState == {NoRequest} \cup BusyWriter

SyncState == {NoRequest} \cup BusySync

Init ==
  /\ counter = 0
  /\ rows = {}
  /\ cache = [r \in Rooms |-> 0]
  /\ lock = [r \in Rooms |-> NoOne]
  /\ writer = [w \in Writers |-> NoRequest]
  /\ sync = NoRequest
  /\ token = 0
  /\ received = {} /\ gaps = {} /\ omitted = {}
  /\ raced = {} /\ removed = {}
  /\ loadErrors = 0 /\ crashes = 0

----------------------------------------------------------------------------
(* append_pdu.                                                             *)

AppendPdu(w, r) ==
  /\ "pdu" \in Trees
  /\ writer[w].pc = "idle"
  /\ writer' = [writer EXCEPT ![w] = [pc |-> "locking", tree |-> "pdu",
                                      todo |-> {r}, at |-> r, count |-> 0]]
  /\ UNCHANGED <<counter, rows, cache, lock, sync, token, received, gaps, omitted,
                 raced, removed, loadErrors, crashes>>

\* roomid_mutex_insert.lock_key()
LockRoom(w) ==
  /\ writer[w].pc = "locking"
  /\ lock[writer[w].at] = NoOne
  /\ lock' = [lock EXCEPT ![writer[w].at] = w]
  /\ writer' = [writer EXCEPT ![w].pc = "reading"]
  /\ UNCHANGED <<counter, rows, cache, sync, token, received, gaps, omitted,
                 raced, removed, loadErrors, crashes>>

\* private_read_set and reset_notification_counts for the sender: they take
\* numbers, and write rows that only change the unread counts of an answer.
ResetCounts(w) ==
  /\ writer[w].pc = "reading"
  /\ counter < MaxCount
  /\ counter' = counter + 1
  /\ writer' = [writer EXCEPT ![w].pc = "counting"]
  /\ UNCHANGED <<rows, cache, lock, sync, token, received, gaps, omitted,
                 raced, removed, loadErrors, crashes>>

\* count2, the number in the PDU's id
CountPdu(w) ==
  /\ writer[w].pc = "counting"
  /\ counter < MaxCount
  /\ counter' = counter + 1
  /\ writer' = [writer EXCEPT ![w].pc = "inserting", ![w].count = counter + 1]
  /\ UNCHANGED <<rows, cache, lock, sync, token, received, gaps, omitted,
                 raced, removed, loadErrors, crashes>>

\* Mutant: the cache is not updated.
CacheNothing(w) ==
  /\ writer[w].pc = "caching"
  /\ writer' = [writer EXCEPT ![w].pc = "unlocking"]
  /\ UNCHANGED <<counter, rows, cache, lock, sync, token, received, gaps, omitted,
                 raced, removed, loadErrors, crashes>>

\* The second half of db.append_pdu: the number goes into the cache, then the
\* PDU is found by its event ID and is no outlier any more.
CachePdu(w) ==
  /\ writer[w].pc = "caching"
  /\ cache' = [cache EXCEPT ![writer[w].at] = writer[w].count]
  /\ writer' = [writer EXCEPT ![w].pc = "unlocking"]
  /\ UNCHANGED <<counter, rows, lock, sync, token, received, gaps, omitted,
                 raced, removed, loadErrors, crashes>>

\* drop(insert_token)
UnlockRoom(w) ==
  /\ writer[w].pc = "unlocking"
  /\ lock' = [lock EXCEPT ![writer[w].at] = NoOne]
  /\ writer' = [writer EXCEPT ![w] = NoRequest]
  /\ UNCHANGED <<counter, rows, cache, sync, token, received, gaps, omitted,
                 raced, removed, loadErrors, crashes>>

----------------------------------------------------------------------------
(* The writers without a lock.                                             *)

\* mark_device_key_update: one number for a row in every encrypted room of the
\* user whose keys changed, and for that user's own prefix.
MarkDeviceKeyUpdate(w, prefixes) ==
  /\ "key" \in Trees
  /\ writer[w].pc = "idle"
  /\ prefixes # {}
  /\ counter < MaxCount
  /\ counter' = counter + 1
  /\ writer' = [writer EXCEPT ![w] = [pc |-> "inserting", tree |-> "key",
                                      todo |-> prefixes, at |-> Own, count |-> counter + 1]]
  /\ UNCHANGED <<rows, cache, lock, sync, token, received, gaps, omitted,
                 raced, removed, loadErrors, crashes>>

\* add_to_device_event
AddToDeviceEvent(w) ==
  /\ "todevice" \in Trees
  /\ writer[w].pc = "idle"
  /\ counter < MaxCount
  /\ counter' = counter + 1
  /\ writer' = [writer EXCEPT ![w] = [pc |-> "inserting", tree |-> "todevice",
                                      todo |-> {Own}, at |-> Own, count |-> counter + 1]]
  /\ UNCHANGED <<rows, cache, lock, sync, token, received, gaps, omitted,
                 raced, removed, loadErrors, crashes>>

----------------------------------------------------------------------------
(* KvTree::insert: the row is stored, then Watchers::wake is called.       *)

InsertRow(w, p) ==
  /\ writer[w].pc = "inserting"
  /\ p \in writer[w].todo
  /\ p = Own => writer[w].todo = {Own}
  /\ rows' = rows \cup {RowOf(writer[w].tree, p, writer[w].count)}
  /\ writer' = [writer EXCEPT ![w].pc = "waking", ![w].todo = @ \ {p}]
  /\ UNCHANGED <<counter, cache, lock, sync, token, received, gaps, omitted,
                 raced, removed, loadErrors, crashes>>

\* A sync that hangs has a watcher on the prefix of every such row.
Wake(w) ==
  /\ writer[w].pc = "waking"
  /\ sync' = IF sync.pc = "hanging" THEN [sync EXCEPT !.woken = TRUE] ELSE sync
  /\ writer' = [writer EXCEPT ![w] =
                  IF @.tree = "pdu" THEN [@ EXCEPT !.pc = "caching"]
                  ELSE IF @.todo # {} THEN [@ EXCEPT !.pc = "inserting"]
                  ELSE NoRequest]
  /\ UNCHANGED <<counter, rows, cache, lock, token, received, gaps, omitted,
                 raced, removed, loadErrors, crashes>>

\* An error of the database before the row is stored, or a caller that goes away
\* while it waits for the lock.  The token is dropped with the future.
Abort(w) ==
  /\ writer[w].pc \in {"locking", "reading", "counting", "inserting"}
  /\ lock' = [r \in Rooms |-> IF lock[r] = w THEN NoOne ELSE lock[r]]
  /\ writer' = [writer EXCEPT ![w] = NoRequest]
  /\ UNCHANGED <<counter, rows, cache, sync, token, received, gaps, omitted,
                 raced, removed, loadErrors, crashes>>

----------------------------------------------------------------------------
(* sync_events_route.  The future of globals.watch() is created first but  *)
(* not polled: it registers its watchers when the sync hangs.              *)

\* The rows without a lock that have a number and are not inserted yet.
InFlight ==
  {x \in [tree : {"key", "todevice"}, prefix : Prefixes, count : 1..counter] :
     \E w \in Writers : /\ writer[w].pc \in {"inserting", "waking"}
                        /\ x.tree = writer[w].tree
                        /\ x.prefix \in writer[w].todo
                        /\ x.count = writer[w].count}

SyncStart ==
  /\ sync.pc = "idle"
  /\ sync' = [pc |-> "own", since |-> token, next |-> counter, todo |-> Rooms,
              room |-> Own, got |-> {}, gap |-> {}, lost |-> {}, woken |-> FALSE]
  /\ raced' = raced \cup InFlight
  /\ UNCHANGED <<counter, rows, cache, lock, writer, token, received, gaps, omitted,
                 removed, loadErrors, crashes>>

\* keys_changed of the user
SyncOwnKeys ==
  /\ sync.pc = "own"
  /\ sync' = [sync EXCEPT !.pc = "rooms", !.got = @ \cup After("key", Own, sync.since)]
  /\ UNCHANGED <<counter, rows, cache, lock, writer, token, received, gaps, omitted,
                 raced, removed, loadErrors, crashes>>

\* Mutant: the insert lock is not waited for.
SyncWithoutLock(r) ==
  /\ sync.pc = "rooms"
  /\ r \in sync.todo
  /\ sync' = [sync EXCEPT !.pc = "timeline", !.room = r, !.todo = @ \ {r}]
  /\ UNCHANGED <<counter, rows, cache, lock, writer, token, received, gaps, omitted,
                 raced, removed, loadErrors, crashes>>

\* load_joined_room gets the insert token of the room, and drops it.
SyncLockRoom(r) ==
  /\ sync.pc = "rooms"
  /\ r \in sync.todo
  /\ lock[r] = NoOne
  /\ sync' = [sync EXCEPT !.pc = "timeline", !.room = r, !.todo = @ \ {r}]
  /\ UNCHANGED <<counter, rows, cache, lock, writer, token, received, gaps, omitted,
                 raced, removed, loadErrors, crashes>>

\* last_timeline_count, which fills the cache
LastTimelineCount(r) ==
  IF cache[r] # 0 \/ After("pdu", r, 0) = {} THEN cache[r]
  ELSE CHOOSE n \in {x.count : x \in After("pdu", r, 0)} :
         \A x \in After("pdu", r, 0) : x.count =< n

\* The last events of a set of rows of a room.
Newest(S) == {x \in S : Cardinality({y \in S : y.count > x.count}) < TimelineLimit}

\* load_timeline
SyncTimeline ==
  /\ sync.pc = "timeline"
  /\ LET r == sync.room
         last == LastTimelineCount(r)
         new == IF last > sync.since THEN After("pdu", r, sync.since) ELSE {}
     IN  /\ cache' = [cache EXCEPT ![r] = last]
         /\ sync' = [sync EXCEPT !.pc = "keys", !.got = @ \cup Newest(new),
                                 !.gap = @ \cup (new \ Newest(new))]
  /\ UNCHANGED <<counter, rows, lock, writer, token, received, gaps, omitted,
                 raced, removed, loadErrors, crashes>>

\* keys_changed of the room
SyncRoomKeys ==
  /\ sync.pc = "keys"
  /\ sync' = [sync EXCEPT !.pc = "rooms", !.got = @ \cup After("key", sync.room, sync.since)]
  /\ UNCHANGED <<counter, rows, cache, lock, writer, token, received, gaps, omitted,
                 raced, removed, loadErrors, crashes>>

\* Mutant: the events of this answer are removed before it is sent.
SyncRemoveUntilNext ==
  /\ sync.pc = "rooms"
  /\ sync.todo = {}
  /\ LET old == {x \in rows : x.tree = "todevice" /\ x.count =< sync.next}
     IN  /\ rows' = rows \ old
         /\ removed' = removed \cup old
  /\ sync' = [sync EXCEPT !.pc = "get"]
  /\ UNCHANGED <<counter, cache, lock, writer, token, received, gaps, omitted, raced, loadErrors, crashes>>

\* The rows this answer should have.
Due(t, p) == {x \in After(t, p, sync.since) : x.count =< sync.next}

\* Any error in load_joined_room, before or after it has read the key changes: the
\* room is left out of the answer.
SyncRoomFails ==
  /\ sync.pc \in {"timeline", "keys"}
  /\ loadErrors < MaxLoadErrors
  /\ loadErrors' = loadErrors + 1
  /\ LET r == sync.room
         pdus == {x \in sync.got : x.tree = "pdu" /\ x.prefix = r}
         keys == After("key", r, sync.since)
     IN  \/ sync' = [sync EXCEPT !.pc = "rooms", !.got = @ \ pdus,
                        !.lost = @ \cup Due("pdu", r) \cup Due("key", r)]
         \/ /\ sync.pc = "keys"
            /\ sync' = [sync EXCEPT !.pc = "rooms", !.got = (@ \ pdus) \cup keys,
                          !.lost = @ \cup Due("pdu", r)]
  /\ UNCHANGED <<counter, rows, cache, lock, writer, token, received, gaps, omitted,
                 raced, removed, crashes>>

\* remove_to_device_events
SyncRemove ==
  /\ sync.pc = "rooms"
  /\ sync.todo = {}
  /\ LET old == {x \in rows : x.tree = "todevice" /\ x.count =< sync.since}
     IN  /\ rows' = rows \ old
         /\ removed' = removed \cup old
  /\ sync' = [sync EXCEPT !.pc = "get"]
  /\ UNCHANGED <<counter, cache, lock, writer, token, received, gaps, omitted, raced, loadErrors, crashes>>

\* get_to_device_events, after which the answer is complete.
SyncGet ==
  /\ sync.pc = "get"
  /\ sync' = [sync EXCEPT !.pc = "done", !.got = @ \cup After("todevice", Own, 0)]
  /\ UNCHANGED <<counter, rows, cache, lock, writer, token, received, gaps, omitted,
                 raced, removed, loadErrors, crashes>>

\* With an empty answer the future of watch() is polled: the watchers of all the
\* prefixes are registered.
SyncHang ==
  /\ sync.pc = "done"
  /\ sync.got = {}
  /\ sync' = [sync EXCEPT !.pc = "hanging"]
  /\ UNCHANGED <<counter, rows, cache, lock, writer, token, received, gaps, omitted,
                 raced, removed, loadErrors, crashes>>

\* A watcher fired, or the timeout is over.
SyncUnhang ==
  /\ sync.pc = "hanging"
  /\ sync' = [sync EXCEPT !.pc = "replying"]
  /\ UNCHANGED <<counter, rows, cache, lock, writer, token, received, gaps, omitted,
                 raced, removed, loadErrors, crashes>>

\* The client gets the answer.
SyncReply ==
  /\ \/ sync.pc = "done" /\ sync.got # {}
     \/ sync.pc = "replying"
  /\ token' = sync.next
  /\ received' = received \cup sync.got
  /\ gaps' = gaps \cup sync.gap
  /\ omitted' = omitted \cup sync.lost
  /\ sync' = NoRequest
  /\ UNCHANGED <<counter, rows, cache, lock, writer, raced, removed, loadErrors, crashes>>

\* The request fails, is given up or its answer is lost: the client will sync
\* again from the token it has.
SyncAbandon ==
  /\ sync.pc # "idle"
  /\ sync' = NoRequest
  /\ UNCHANGED <<counter, rows, cache, lock, writer, token, received, gaps, omitted,
                 raced, removed, loadErrors, crashes>>

\* The server stops and starts again.
Crash ==
  /\ crashes < MaxCrashes
  /\ crashes' = crashes + 1
  /\ cache' = [r \in Rooms |-> 0]
  /\ lock' = [r \in Rooms |-> NoOne]
  /\ writer' = [w \in Writers |-> NoRequest]
  /\ sync' = NoRequest
  /\ UNCHANGED <<counter, rows, token, received, gaps, omitted, raced, removed, loadErrors>>

----------------------------------------------------------------------------
Write(w) ==
  \/ \E r \in Rooms : AppendPdu(w, r)
  \/ LockRoom(w) \/ ResetCounts(w) \/ CountPdu(w) \/ CachePdu(w) \/ UnlockRoom(w)
  \/ \E S \in SUBSET Prefixes : MarkDeviceKeyUpdate(w, S)
  \/ AddToDeviceEvent(w)
  \/ \E p \in Prefixes : InsertRow(w, p)
  \/ Wake(w) \/ Abort(w)

SyncStep ==
  \/ SyncStart \/ SyncOwnKeys
  \/ \E r \in Rooms : SyncLockRoom(r)
  \/ SyncTimeline \/ SyncRoomKeys \/ SyncRoomFails \/ SyncRemove \/ SyncGet
  \/ SyncHang \/ SyncUnhang \/ SyncReply \/ SyncAbandon

Next == (\E w \in Writers : Write(w)) \/ SyncStep \/ Crash

Spec == Init /\ [][Next]_vars

----------------------------------------------------------------------------
(* Properties.                                                             *)

\* Type correctness of the database, the requests and the client.
TypeOK ==
  /\ counter \in Nat
  /\ rows \subseteq Row
  /\ cache \in [Rooms -> Nat]
  /\ lock \in [Rooms -> Writers \cup {NoOne}]
  /\ writer \in [Writers -> WriterState]
  /\ sync \in SyncState
  /\ token \in Nat
  /\ received \subseteq Row /\ gaps \subseteq Row /\ omitted \subseteq Row
  /\ raced \subseteq Row /\ removed \subseteq Row
  /\ loadErrors \in Nat /\ crashes \in Nat

\* "This will make sure the we have all events until next_batch": an event of
\* a room whose number the client's token has passed was in an answer, or in
\* the gap of one that said it was limited, or its room could not be loaded.
NoPduSkipped ==
  \A x \in rows :
    x.tree = "pdu" /\ x.count =< token => x \in received \cup gaps \cup omitted

\* The cached number is the one of the room's latest event whenever nobody has
\* the insert lock, so load_timeline may trust it.
CacheIsLatest ==
  \A r \in Rooms :
    lock[r] = NoOne /\ cache[r] # 0 => \A x \in After("pdu", r, 0) : x.count =< cache[r]

\* A device list update or to-device event that the token has passed was sent,
\* unless it was between its number and its insert when a sync began or its room
\* could not be loaded: nothing else loses one, no lost answer, crash or order of
\* reads.
OnlyRacingRowsAreSkipped ==
  \A x \in rows \cup removed :
    x.tree # "pdu" /\ x.count =< token => x \in received \cup raced \cup omitted

\* "Remove all to-device events the device received *last time*": no other one
\* is removed.
OnlyReceivedEventsAreRemoved == removed \subseteq received

\* "Stop hanging if new info arrives": a request that hangs and was not woken
\* has nothing new to send, but what a writer is about to announce.
StopHangingWhenNewInfoArrives ==
  sync.pc = "hanging" /\ ~sync.woken =>
    \A x \in rows : x.count > sync.since =>
      \E w \in Writers : writer[w].pc = "waking" /\ writer[w].count = x.count

----------------------------------------------------------------------------
(* The inductive invariant (proved in SyncProofs).                         *)

\* A writer of append_pdu between its number and its entry in the cache.
Appending(w) ==
  writer[w].pc \in {"inserting", "waking", "caching"} /\ writer[w].tree = "pdu"

\* A writer of one of the other trees that has rows to insert.
Announcing(w) ==
  writer[w].pc \in {"inserting", "waking"} /\ writer[w].tree # "pdu"

Syncing == sync.pc # "idle"

\* The sync has had the lock of the room, and has read its timeline.
Passed(r)   == Syncing /\ r \notin sync.todo
ReadRoom(r) == Passed(r) /\ ~(sync.pc = "timeline" /\ sync.room = r)

\* The sync has read the key changes under the prefix.
ReadKeys(p) ==
  IF p = Own THEN Syncing /\ sync.pc # "own"
  ELSE Passed(p) /\ ~(sync.pc \in {"timeline", "keys"} /\ sync.room = p)

ReadToDevice == sync.pc \in {"done", "hanging", "replying"}

\* No number is larger than the counter, and a sync continues from the token.
NumberInv ==
  /\ token =< counter
  /\ \A x \in rows : 0 < x.count /\ x.count =< counter
  /\ \A x \in removed : x.count =< token
  /\ \A w \in Writers : writer[w].pc # "idle" => writer[w].count =< counter
  /\ Syncing => /\ sync.since = token
                /\ sync.since =< sync.next
                /\ sync.next =< counter

\* What the program counters say about the locals.
LocalInv ==
  /\ \A w \in Writers :
       /\ writer[w].pc \in {"locking", "reading", "counting", "caching", "unlocking"} =>
            writer[w].tree = "pdu"
       /\ writer[w].pc \in {"inserting", "waking", "caching"} => writer[w].count > 0
       /\ writer[w].pc # "idle" =>
            /\ writer[w].tree = "pdu" =>
                 writer[w].at \in Rooms /\ writer[w].todo \subseteq {writer[w].at}
            /\ writer[w].tree = "todevice" => writer[w].todo \subseteq {Own}
  /\ sync.pc = "own" => sync.todo = Rooms
  /\ sync.pc \in {"timeline", "keys"} => sync.room \in Rooms \ sync.todo
  /\ sync.pc \in {"get", "done", "hanging", "replying"} => sync.todo = {}
  /\ \A x \in rows : /\ x.tree = "pdu" => x.prefix \in Rooms
                     /\ x.tree = "todevice" => x.prefix = Own

\* From its lock to its unlock a writer of append_pdu has the lock of its room.
LockInv ==
  \A w \in Writers :
    /\ writer[w].pc \in {"reading", "counting", "unlocking"} => lock[writer[w].at] = w
    /\ Appending(w) => lock[writer[w].at] = w

\* The number of the cache is behind by at most the event that is being
\* appended, and that one is the latest.
CacheInv ==
  /\ \A x \in rows : x.tree = "pdu" =>
       \/ x.count =< cache[x.prefix]
       \/ cache[x.prefix] = 0
       \/ \E w \in Writers :
            /\ Appending(w) /\ writer[w].pc # "inserting"
            /\ writer[w].at = x.prefix /\ writer[w].count = x.count
  /\ \A w \in Writers : Appending(w) =>
       \A x \in rows : x.tree = "pdu" /\ x.prefix = writer[w].at =>
         x.count =< writer[w].count

\* An event still to be inserted has a number after the token and, in a room
\* whose lock the sync has had, after the next token.
AppendInv ==
  \A w \in Writers :
    /\ Appending(w) /\ writer[w].pc = "inserting" => writer[w].count > token
    /\ Appending(w) /\ Passed(writer[w].at) => writer[w].count > sync.next

\* The answer holds the events between the two tokens of the rooms it has read, but
\* for those that could not be loaded.
AnswerInv ==
  \A x \in rows :
    x.tree = "pdu" /\ ReadRoom(x.prefix) /\ sync.since < x.count /\ x.count =< sync.next =>
      x \in sync.got \cup sync.gap \cup sync.lost

\* The same for the trees without a lock, but for the rows that raced.
RaceInv ==
  /\ \A w \in Writers : Announcing(w) =>
       \A p \in writer[w].todo :
         \/ writer[w].count =< token
         \/ Syncing /\ writer[w].count =< sync.next
         => RowOf(writer[w].tree, p, writer[w].count) \in raced
  /\ \A x \in rows :
       /\ \/ x.tree = "key" /\ ReadKeys(x.prefix)
          \/ x.tree = "todevice" /\ ReadToDevice
       /\ sync.since < x.count
       /\ x.count =< sync.next
       => x \in sync.got \cup sync.lost \cup raced

IInv ==
  /\ TypeOK /\ NumberInv /\ LocalInv /\ LockInv /\ CacheInv
  /\ AppendInv /\ AnswerInv /\ RaceInv
  /\ NoPduSkipped /\ OnlyRacingRowsAreSkipped

=============================================================================
