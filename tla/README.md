# A TLA+ model of grapevine

Grapevine is a Matrix homeserver written in Rust. This directory holds TLA+
modules that model its core, TLC configurations that check them on small
instances, and proofs that TLAPS checks for every value of the constants.
`PROJECT.json` maps every definition to the lines it models and lists the runs,
the hazards of the code, the findings and the theorems.

## 1. The system

A homeserver is one process: HTTP handlers (one tokio task per request),
a few background tasks, and a key-value store (RocksDB or SQLite) that all of
them share. There is no transaction over several writes of the store: every
`insert` and `remove` is atomic and durable by itself, and a process that stops
between two of them leaves the first one behind. What orders the handlers is a
stream counter (`globals.next_count`), a handful of per-key mutexes
(`utils::on_demand_hashmap::TokenSet`) and the channels of the background tasks.

| Component | State it keeps | Operations | What is hard | What makes it correct |
|---|---|---|---|---|
| Sending queue (`service/sending.rs`) | trees `servernameevent_data` (queued) and `servercurrentevent_data` (active), `educount`; in memory a map of transaction statuses and a set of futures | `send_pdu`, `send_push_pdu`, `send_reliable_edu`, `send_pdu_appservice`, the handler loop, `select_events`, `select_edus` | two trees without a transaction, messages lost with the process, retries, back-off, limits | nothing persisted is lost; one transaction per destination; a retry repeats its persisted requests; a receipt is sent once at most |
| Per-key locks (`utils/on_demand_hashmap.rs`) | map of weak references, channel of cleanup messages | `lock_key`, drop of tokens, cleanup task | weak references die at any time, cleanup is asynchronous, futures are cancelled | mutual exclusion per key, every call returns |
| Sync v3 (`api/client_server/sync.rs`) | none of its own: the client's `since` | `sync_events_route`, `load_joined_room`, `load_timeline` | reads a counter and then many trees while others write; answers get lost; hanging | the token passes nothing that was not sent |
| Timeline (`service/rooms/timeline.rs`) | `pduid_pdu`, `lasttimelinecount_cache`, counters | `append_pdu`, `build_and_append_pdu`, `backfill_pdu` | number taken before the row is written; cache filled by readers | cache equals the last row; numbers grow with the order of rows |
| Users and devices (`service/users.rs`) | device lists, keys, `todeviceid_events`, `keychangeid_userid` | `mark_device_key_update`, `add_to_device_event`, `remove_to_device_events`, one-time keys | numbers taken before rows are written, no lock | no update is passed by a token; one-time keys are given out once |
| Incoming federation (`service/rooms/event_handler.rs`) | outliers, soft failed events, back-off maps, per-room mutexes | `handle_incoming_pdu`, `fetch_unknown_prev_events`, `upgrade_outlier_to_timeline_pdu` | missing events, failures in the middle, state read before a lock, a crash between any two writes | an event reaches the timeline once, allowed by the room's state, and after the events it follows |
| Membership (`service/rooms/state_cache.rs`, `api/client_server/membership.rs`, `api/server_server.rs`) | trees by user and by room, counts, list of servers, two caches | `update_membership`, `mark_as_*`, `update_joined_count`, join, leave, invite, kick, ban, forget | the same fact in the room's state and in many rows, some routes without the lock, answers of other servers in between | a user is in one tree; the rows are those of the state; counts and servers recover; the admin room keeps its members; every server is told |
| Accounts (`service/users.rs`, `service/uiaa.rs`, `session.rs`, `account.rs`, `device.rs`, `keys.rs`) | passwords, devices, tokens, keys, signatures, one-time keys, key changes | login, logout, registration, deactivation, upload, claim and query of keys, admin commands | no lock anywhere | tokens and devices agree; key changes are announced; a one-time key is given once |
| State store (`state_compressor.rs`, `short.rs`, `state.rs`, `state_accessor.rs`, `auth_chain.rs`) | short IDs in two directions, layers of differences, states of rooms and events, caches | `append_to_state`, `save_state`, `set_room_state`, look-ups, visibility, `get_auth_chain` | layers are merged, rows come before what they name, caches are filled by readers | a state loads as it was stored, look-ups find what is in it, caches say what the rows say |
| Startup (`database.rs`, `service/admin.rs`) | database version, all trees of old layouts, the admin room | `load_or_create`, thirteen migrations, first run | killed anywhere and started again | the layout is that of the stored version, nothing is lost, the server serves in the end |
| User data (`account_data.rs`, `tag.rs`, `key_backups.rs`, `transaction_ids.rs`) | account data with an index, backups, etags and keys, responses by transaction | set, tag, back up, send | several rows per request, retries | the index leads to a row, keys stay until deleted, one event per transaction |
| New rooms and names (`api/client_server/room.rs`, `alias.rs`, `directory.rs`, `state.rs`) | the state of a room, `alias_roomid`, `aliasid_alias`, `publicroomids` | create, upgrade, make and delete an alias, publish, send state | a room is many events under one lock, an upgrade takes two; aliases have two rows and no lock | an upgrade loses nothing of the state; no request waits for ever |
| Receipts, typing, pushers, appservices, media | rows by counter, in-memory maps | create, read, update, delete | look-up and insertion are separate steps | an operation is done once |

Interactions: a client's event goes through `build_and_append_pdu`, which holds
the room's state mutex, to `append_pdu`, which takes the room's insert lock, a
number from the counter, writes the row and wakes the watchers; it then hands
requests to the sending queue for servers, appservices and pushers. A sync
takes the insert lock of each room for a moment, to wait for an event that has
its number and not yet its row. All mutexes by room are `TokenSet`s.

## 2. Modules

    KeyLock                what a TokenSet promises: one holder per key
    TokenSet               on_demand_hashmap.rs, refines KeyLock
    TokenSetProofs
    Sending                sending.rs and its trees
    SendingProofs
    Sync                   the sync stream, append_pdu, device lists, to-device events
    SyncProofs
    RoomEvents             event_handler.rs, build_and_append_pdu, backfill, the room's trees
    RoomEventsProofs
    Membership             state_cache.rs, membership.rs, the joins and invites of server_server.rs
    Accounts               users.rs, uiaa.rs and the routes for accounts, devices and keys
    AccountsProofs
    StateStore             short IDs, layers of states, look-ups, visibility, auth chains
    Startup                load_or_create, migrations, the admin room
    UserData               account data, tags, key backups, transaction IDs
    UserDataProofs
    NewRooms               creating and upgrading rooms, aliases, the directory, state events
    NewRoomsProofs
    MC*.tla, MC*.cfg       instances for TLC

A definition whose comment begins with *Mutant* is a plausible mistake in the
definition below it. It is part of no specification; `PROJECT.json` lists which
property notices it.

### TokenSet and KeyLock

`TokenSet` has one process per task that calls `lock_key()` and one for the
cleanup task. The map of the code is `entry` (the value a key's weak reference
points to) and a value lives while some task holds a strong reference, which
`Live` computes from the tasks' program counters. `get_or_insert_with` is two
steps, the pass under the read lock and the pass under the write lock; a drop of
a `KeyToken` is three (the drop_guard, the mutex guard, the `Arc`), because the
fields of the struct are dropped in that order and each is visible to others. A
task may be cancelled at each of its await points. `tokio::sync::Mutex` is
external and serves its waiters in order (`ahead`).

`KeyLock` is the abstract specification: a key has at most one holder. Other
modules (`Sync`) use this abstraction for the insert lock. The map is dropped
with the process only, as the services are static, so the end of the cleanup
task is not modelled.

### Sending

The trees are `queued` and `active`, sets of requests per destination, both
durable. `status` is the handler's map of transaction statuses, `txn` the
futures in flight, `channel` the unbounded channel; these are lost in a `Crash`.
`mark_as_active` is a loop of an insertion and a removal and each is a step
(`MarkInsert`, `MarkRemove`), so a crash may come between them; the handler task
is one thread, so its other work is one step per iteration of its loop.
A request's content is abstracted to its number. The back-off
`min(30 s * tries^2, 1 day)` is abstracted to the flag `due`, which
`BackoffElapses` sets, and the tries are kept. The outcomes of the network are
`Succeed`, `Fail` and `PartlyDelivered` (push and appservice notices are sent
one at a time); errors before the request (an event that cannot be read) end
the transaction the same way as a refused one and are part of `Fail`. `Fail` may
also follow a delivery: the answer is lost. A database error in the handler
(`DbError`, `SelectEdusFails`) leaves the destination's status as it is.
`tried` is history: what the transaction of a destination that failed last carried.
A retry reads the active tree, so it has the persisted requests and none of the
EDUs.

`select_edus` is the loop over the rooms (`SelectRoomEdus`): device list changes
and receipts later than the stored count `educount`, at most `MaxReceipts`
receipts over all rooms. Each receipt of `edus` belongs to a user of its own, as
a newer receipt replaces the user's older one.

### Sync

One client syncs in a loop with the token it was last given, and may lose an
answer (`SyncAbandon`). Senders append events to rooms, change their devices'
keys and send to-device events. What they write carries a number from `counter`;
number and row are separate steps. `append_pdu` holds the insert lock from
before it takes the numbers until after the row and the cached count are
written; `mark_device_key_update` and `add_to_device_event` hold nothing. The
sync reads the counter (`SyncStart`), its own key changes, each joined room (the
insert lock, then the last count and the timeline, then the room's key changes),
and at the end removes old to-device events and reads the rest. Each read of a
tree is a step of its own. A room that cannot be loaded is left out
(`SyncRoomFails`) and a device list update there is lost with it; `omitted` and
`lost` keep track of that. The cache `lasttimelinecount_cache` is in memory and
empty after a `Crash`.

Abstractions: the counters for notification and highlight counts are one step of
`append_pdu`; the client is joined to every room of the instance; backfilled
events have negative numbers and are never after a token, so they are left out;
the limit of a timeline marks it as `limited`, from where the client pages
backwards, so a limited timeline counts as answered.

### RoomEvents

One room, and tasks that bring events into it. `Receive` starts a task for an
event from a transaction or a `send_join` (`"transaction"`), from a backfill, or
for a restricted join that comes back from the server that signed it
(`"direct"`); `BuildAndAppend` and `BuildInvite` start one for a local event. The
trees are variables with the names of their contents: `rows` (`pduid_pdu`), `ids`
(`eventid_pduid`), `outliers`, `leaves` (`roomid_pduleaves`), `referenced`,
`softFailed`, `eventState`, `roomState`; `bad` is `bad_event_ratelimiter`, `fed`
and `lock` are the holders of `roomid_mutex_federation` and `roomid_mutex_state`.
Each write of a tree is a step and a `Crash` may come between any two. A handler
runs in a tokio task of its own (`main.rs`), so a client that disconnects does not
interrupt it; only a crash does.

A task's `pc` follows the code: `federation`, `check`, `fetch`
(`fetch_unknown_prev_events`), `prevs` (the loop over the sorted prev events),
`upgrade`, `softcheck`, `lock`, `force`, `state` (`upgrade_outlier_to_timeline_pdu`),
`reference`, `unleaf`, `leaf`, `softfail`, `row`, `id`, `unoutlier`, `roomstate`
(`append_pdu` and what surrounds it). `unguarded`, `torn` and `missed` are
history: events upgraded by a route that does not take the federation lock, rows
whose id a crash prevented, and events that a handler gave up on.

Abstractions. An event is a model value; every state event has a state key of its
own, so a state is a set of events. Authorization is reduced to bans: an event is
allowed in a state that has the create event and none that bans it. State
resolution is an external library and may return any set that has what all forks
agree on. The auth events of an event are not modelled: what the origin sends is
accepted or rejected (`Reject`, `CanBeFetched`). The back-off of 5 minutes times
tries squared is membership in `bad`, which `BackoffElapses` ends. The stack of
prev events is a set. `Time` is the `origin_server_ts` of an event. The time of the
first event of the timeline is read twice, once before the event is handled as an
outlier (`ReadFirst`, `first`) and once by `fetch_unknown_prev_events` (`from`), and
the two uses differ: an event that is older than the first one is skipped, but the
prev events are asked for only of one that is later. An event with the very time of
the first is appended without its own prev events having been asked for.
`mark_as_referenced` is one step. The insert lock of `append_pdu` is the subject
of `Sync` and left out here; redactions, pushers, appservices, indexes and the
membership caches are not written. A database error in the middle of an append
leaves the same trees as a crash at that point.

### Membership

One room of `Rooms` and its users, local and remote; `cast` bounds the local users who
take part. The room's state has a membership per
user (`state`); the rows of the state cache are `db`, one set of users per tree,
with `counts`, `servers`, and the caches `cache` (`our_real_users_cache`) and
`bridge` (`appservice_in_room_cache`). A task is a request: what it reads when it
gets the lock decides its `todo`, a sequence of rows to write and of calls of the
state cache. `Write`, `Scan`, `Store`, `AppserviceInRoom`, `SetRoomState` and `SendPdu`
take one element each; `Call` replaces a call of `update_membership` or
`get_our_real_users` by its rows, which depend on what it reads then, and `ForceEach`
is one round of the loop of `force_state`, over its events in any order.
So `MarkAsJoined` and the like are the sequences of rows the code writes, in its
order. `Arrive` is the moment before the lock: `LeaveChooses` and `JoinRoom` decide
there, by what they see, how the request goes on, as the code does. A remote
invite (`CreateInvite`) and the leaving of a room we are not in run without the
lock.

`update_joined_count` reads the members (`Scan`) and then writes row by row: the two
counts and the cache (`Store`), after a look at the listed servers (`ListServers`) the
row by room and the row by server of each one that goes or comes (`RowByRoom`,
`RowByServer`), and at last it drops what is known about the application service
(`Stored`). `tally` is how far a request has come in it.

An event of another server (`ReceiveMemberEvent`, `CreateJoinEvent`), or one that
another server signed, is checked against the current state before the lock
(`SoftFailCheck`). Under the lock the forks of the room are resolved: `Resolutions` is
what the external library may answer, where the event wins, loses or is dropped with
the one before it, and every user of `Disputed` may get any membership or none. The
outcome is forced (`ForceState`), for a soft failed event too (`IncomingSoftFailed`);
an event that passed is then appended, which writes its row whatever the outcome was
(`HandleIncomingPdu`). In the admin room whose moderators are all users of this
server, a resolution is assumed to take no membership from a local user: the
memberships there rest on events of local users, which other servers cannot revoke.

`torn`, `loose`, `overlap` and `halves` are history. `torn`: users with an update that
a crash cut off. `loose`: users whose last update held no lock, or whose rows are not
those of the state that was set: `force_state` does not look at the member events
that a new state lacks (`_statediffremoved`, `state.rs:43`), so a member whom the
answer to a join or a resolution leaves out keeps the rows of a joined one, and an
event that is appended and lost in the resolution has its row all the same.
`overlap`: whether an update without the lock met another one. `halves`: servers that
a crash left with one of their two rows.

`build_and_append_pdu` keeps the server's user and a second local member in the admin
room, and counts the members by the joined rows. `AdminRoomKeepsMembers` says what
that gives. Where a user of another server may kick (`Mods`), an incoming event removes
anybody, as only our own events are looked at. And a crash between the rows of a join
and the state leaves a user who is counted and is not in the state: once the others
have left, one more invite takes that user out of the joined rows, and the server's
user is alone. That takes five requests, more than the instance of TLC has.

Abstractions: the auth rules are those about membership (`AuthCheck`); the answer
of `send_join` is any state in which the events that do not validate are missing
(`ValidEvents`); power levels are the set `Mods`.

### Accounts

The trees of `kv/users.rs` and `kv/uiaa.rs` are one function `db` from tree and key
to a value. The `todo` of a request is the sequence of service calls it has left
(`"create_device"`, `"remove_device"`, `"sign_key"`, ...), and `at` is the row at which the
first of them is. `RowsOf` gives the rows of a call by the operations of the code
(`SetToken`, `CreateDevice`, `RemoveDevice`, `MarkDeviceKeyUpdate`, ...), in the order of
the code, and a step takes one row. Rows that read (`OldToken`, `ScanOneTimeKeys`,
`ReadKey`, `VisibleSignatures`) look at the trees when their turn comes and keep what
they found in a local of the request; a call may be replaced by others (`EachDevice`,
`Loop`, `FirstAdmin`). `Check` ends a request where an assertion fails or a row
forbids to go on. A key is the set of its signers. `mixed` is history: the devices on
which two requests overlapped; so are `torn`, the users with a request that was cut
off, `fresh`, the number when a call that was not refused last changed a user's keys,
and `given`, how often a one-time key was handed out. `add_cross_signing_keys` stores
the master key before it looks at the others; one that is refused then returns with
the first keys stored and nothing announced (`RefuseCrossSigningKeys`, for the route
and for the EDU of another server).

### StateStore

Rooms with one writer each, as `roomid_mutex_state` makes it, and readers, who hold no
lock. Short IDs are numbers of the counter, in two trees and a cache per kind; the
first row is looked for, and when it is missing both are written, each in a step of
its own (`FindShortEventId`, `NewShortEventId`, `ShortEventId`). An ID whose second
row a crash prevented is found again without it. A state is a set of pairs of short
IDs, stored as a difference and a parent; `SaveStateFromDiff` decides by the number of
layers and by their sizes whether to merge, and `Merge` is the loop that cancels
additions against removals. `saved` is history: the set a stored state was meant to
be. The row of a state hash comes before the state (`GetOrCreateShortStateHash`,
`SaveState`). An event of ours changes the state by itself (`AppendToState`); an
incoming one (`Incoming`), new or sent again after it was cut off, gets its state key,
its short ID, the resolved state of the room and the state at the event in turn. A
state with an ID that leads nowhere does not load and is an error (`CanLoad`,
`RefuseState`). Readers fill the cache of visibility; `ClearCaches` empties all
caches, and they forget otherwise only in a `Crash`.

`get_auth_chain` is a walk of its own (`walk`), with a step for each short ID it looks
up or creates, each chunk, each event and each row it stores, beside the writer:
starting events go to `Buckets`, an event of another room ends the walk with an error
(`Visit`), one that did not arrive is passed over (`gaps`).

Abstractions: state keys are the create event, history visibility and the users'
member events; a resolution replaces or drops one key, as the resolved state is
external.

### Startup

`load_or_create` from the stored version to serving: each `MigrationN` gives the
rows it will convert, `Migrate` puts them before the step that stores the new
version, and every row is a step; so is every row of a batch, which RocksDB stores in
a loop (`rocksdb.rs:193`). An item of the old database stands for one row of every
converted tree. `Init` has a new database and old ones of every version, with or
without the push rules of an account whose registration was cut off. A `Crash` may
come at every step, also during the creation of the admin room or the registration of
the first user. `redone` is history: rooms that drew another short ID when their event
IDs were converted already.

### UserData

One user with requests in flight. `data` and `index` are the two trees of account
data, `algorithm`, `etag` and `keys` those of backups, `txns` that of transactions.
Tags are read, changed and stored as a whole, so of two requests at the same time
one may be lost; the code promises nothing else. Versions of backups are numbers
written as decimal text and ordered by their bytes (`Digits`, `TextLess`). The
events of a room are `events`, `lock` the room's mutex. Session IDs are any text of a
client; `Longer` says which begin with which, as `delete_room_key` removes by a prefix
that has no separator at its end (`OfSession`). An event is refused before it is stored
(`RefuseEvent`) or fails afterwards (`FailAfterEvent`), without a row for its
transaction in both cases. `deleting`, `named`, `kept`, `answers` and `torn` are
history.

### NewRooms

A request is the list of the steps its handler has still to take (`todo`): an event,
a row, a lock. `CreateRoomRoute` and `UpgradeRoomRoute` put the steps in the order of
the code, and `BuildAndAppendPdu` may refuse any event: the handler then returns where
it stands, with half a room made, as `?` does. `lock` is `roomid_mutex_state`; tokens
are dropped when the handler returns, and `upgrade` holds the handler's two room IDs.
Both rows of `set_alias` and every row of `remove_alias` are steps, so that two routes
for one alias interleave.

Abstractions: `join_rules` stands for the events of the preset, `name` for those a
client may add. The rules by which an event is refused are left open, but for the
create event, which comes first and once. The events of invites are left out, their
wait for the lock is not.

## 3. Runs

Every bound is a constant of the module or of its configuration.

| Run | What it checks | Bounds |
|---|---|---|
| `sending_safe` | the safety properties of the queue and of `select_edus` | one server, requests up to number 3 with a batch of 2, two receipts or device list changes in two rooms at a limit of 1, one failure, one crash, one database error |
| `sending_live` | every request is delivered or its destination left failed | a server and a pusher that share one permit, one failure, fair scheduling |
| `tokens_locks` | refinement of `KeyLock`, every call returns | three tasks, one key, four values, a backlog of 4 cleanup messages |
| `sync` | no event is passed by a token, the cache is right, of other rows only a racing one is lost | one room, two senders, numbers up to 5 for events alone and up to 2 with device list updates and to-device events (`Bounded`), one restart, one room that fails to load |
| `rooms_safe` | the room's trees agree, no event is appended twice or after a soft failure, events follow their prev events | a chain of three remote events of which the middle one has the time of the room's first event and may be a restricted join, a local ban, an invite, a backfill of any of them, two tasks (symmetric), two incoming events, one crash, one error |
| `members` | a user is in one tree, rows, counts and servers are those of the state, the admin room keeps its members, servers are told | a shared room with a restricted rule and two local users, a public room that is not known here and one local user, or the admin room with the server's user and two others; one remote user, one disputed, two requests of any kind at once, one crash |
| `accounts` | tokens and devices, announced key changes, one-time keys | a registered user with two devices, one more user, a remote one, two requests of any kind at once, one crash |
| `state_store` | states load exactly, what they name exists, kept visibility is right, kept auth chains are closed | one room, three events (two in a behaviour with walks), one sent again, one read, two walks of one reader, two outliers, one of another room, at most one layer below, one crash, five of all these together |
| `startup` | the layout is that of the version, nothing is lost, the admin room is whole, the server serves | new databases and those of versions 0 to 13 with two rows per tree, an account with or without push rules, two crashes, supervised |
| `userdata` | account data is found, backed up keys are kept, one event per transaction | two requests at a time, four in all, three keys in two rooms, one crash |
| `new_rooms` | an upgrade copies all of the state, every request ends | the admin room and another, two new room IDs, three aliases, two requests of any kind at once, each event refused or not, one crash, fair scheduling |
| `userdata_latest` | *violated*: the latest backup is the newest | versions 7 to 11 |

The bounds reach the cases that matter: a backlog larger than a batch, a limit
exceeded in the middle of the rooms, two tasks that miss the same key while a
third drops it, a number taken before and a row written after a sync, an event
whose prev event is missing and arrives at the same time by another way, two
requests whose rows interleave in every order and a crash between any two of them
followed by the next request, layers that are merged and layers that are not. The
mutants of `PROJECT.json` show that each property notices a change of the code
within them. An event as old as the first one of the timeline is in `rooms_safe`, older
ones in `MCRoomEvents_twice.cfg`, and the theorems hold for any `Time`, also for a chain
of missing events that has to be fetched two deep. In `members`, `accounts` and
`new_rooms` two requests are all there are: a third makes the instance too large. The
server's own user takes part in the admin room only (`cast`). In `sending_safe` there is one server and no pusher; that
a push transaction loses nothing is `sending_live`'s (delivered in part) and the
theorem's.

The limits of the code (30 requests in a batch, 31 at start, 20 receipts, 10
events of a timeline, 3 layers, 50 buckets) are constants of the modules with the
relation the code gives them, and the instances set them so low that they are
exceeded. `TokenSet` and `Sync` check deadlock. The others do not: a server with
nothing to send, or whose failed destination gets no further request, may stop, and
where the requests of an instance are bounded nothing is left to do after the last.
That no task of `RoomEvents` waits for a lock it holds, and that the two locks are
taken in one order, is part of `LocksExclude`, which is proved.

The type invariants (`TypeOK`) of `Sending`, `TokenSet`, `Sync`, `RoomEvents` and `UserData` are
part of the inductive invariants and proved; so are `IdsPointToRows`,
`LocksExclude`, `FailureIsOfARunningTransaction`, `InFlightIsDurable` and
`OneTokenPerKey`, and no run repeats them.

### Fairness

`Sending`: the handler task and the futures are polled as long as they are
ready (weak fairness of their steps); a request to a remote ends because the
HTTP client has timeouts (weak fairness of success or failure together, never of
success alone); nothing is assumed of callers, crashes and errors. The property
therefore says *delivered, or left failed*: a failed destination is tried again
only when a new request for it arrives.
`TokenSet`: the steps of a task that holds a token or waits are weakly fair,
cancellation and the choice to call `lock_key()` are not.

`Startup`: the process runs, and is started again by whoever supervises it, as the
NixOS module asks for (`Restart = "on-failure"`, `nix/modules/default/default.nix:94`):
weak fairness of `Start` and `Step`; crashes are bounded.

`NewRooms`: handlers are polled as long as they are ready (weak fairness of `Step`), and
a mutex is handed on in the order in which it was asked for, so that a request that
waits for one that becomes free again and again gets it (strong fairness of `LockKey`
and `InviteHelper`). Nothing is assumed of clients and crashes.

`RoomEvents` states no liveness: an incoming event may be refused for reasons of
the other server at every point.

### Findings, and other known disagreements

One run ends in a violation, and `findings` in `PROJECT.json` quotes what the code says:
after a backup of version 9 the backup of version 10 is never the latest, although keys
may be added to the latest only (`userdata_latest`).

The modules can reproduce other differences between the code and what its comments
say. Each has a configuration here that TLC stops at, kept beside the runs:

| Configuration, property | What happens |
|---|---|
| `MCSending_restart`, `UnfinishedRequestsAreRetried` | What was queued but not yet active when the server stopped is not sent before another request for the same destination ("Retry requests we could not finish yet", `sending.rs:181`). |
| `MCSending_retry`, `RetryIsThePreviousTransaction` | A retry has the persisted requests of the transaction that failed and none of its EDUs, and as its ID is a hash of the content it is another transaction ("We retry the previous transaction", `sending.rs:409`; `:430`, `:903`). |
| `MCSync_todevice`, `OnlyReceivedEventsAreRemoved` | A to-device event whose row is written after a sync with a larger token has read the tree is deleted unread (`sync.rs:383`). The run `sync` and the theorem `OnlyRacesSkip` show that this race, and a room that cannot be loaded, are the only ways to lose a row. |
| `MCSync_hang`, `StopHangingWhenNewInfoArrives` | The watchers are registered after the answer was built (`sync.rs:81`, `:441`). |
| `MCRoomEvents_twice`, `OneRowPerEvent` | Two routes call `handle_incoming_pdu` without the federation lock (`membership.rs:780`, `:1378`). `RowsDoNotRepeat` shows that these and a crash between the row and its id are the only ways to a second row. |
| `MCRoomEvents_softfail`, `AppendedEventIsAllowed` | The state for the soft fail check is read before the lock (`event_handler.rs:934`, `:1065`). |
| `MCRoomEvents_leaves`, `EveryEndIsALeaf` | With more than 20 forward extremities the rest is forgotten (`timeline.rs:675`, `:1032`). |
| `MCMembership_servers`, `RoomServersParticipate` | An invite from a remote room, recorded without the lock, rewrites the list of servers with members it read before a join (`server_server.rs:1838`, `state_cache.rs:111`). |
| `MCAccounts_refused`, `UploadedKeysAnnounced` | An upload of cross-signing keys that is refused at its second or third key has stored the first, and nobody is told (`kv/users.rs:534`, `:541`, `:617`). |
| `MCAccounts_signatures`, `SignaturesKept` | A query of a remote user's keys stores the master key with the signatures only that the asking user may see (`keys.rs:464`). |
| `MCStartup_rerun`, `OneShortRoomId` | A crash after the event IDs of a room were converted and before version 8 is stored: the next start draws a new short room ID, and the event IDs keep the first (`database.rs:826`, `:857`, `:878`). |
| `MCStartup_firstrun`, `AdminRoomAfterFirstRun` | After a crash between the server's user and the alias of the admin room, no start makes the room again (`database.rs:1139`). |
| `MCStartup_rules`, `ServesInTheEnd` | A registration cut off before the push rules of the account (`account.rs:229`, `:237`) leaves a database on which every start panics in a migration (`database.rs:987`, `:1092`). |
| `MCStateStore_rooms`, `StateIsFound` | Two rooms meet a state key for the first time at once and give it two short IDs (`short.rs:129`): in one of them the event is no longer found by its key. No passing run checks this property: with one room the case cannot happen. |
| `MCUserData_prefix`, `OnlyNamedKeysDeleted` | `delete_room_key` removes by a prefix without a separator (`key_backups.rs:404`): the keys of longer session IDs go too. |
| `MCUserData_retry`, `RetryIsNoop` | `append_pdu` fails after the event's row is stored (`timeline.rs:286`, `:494`), `message.rs:101` returns without `add_txnid`, and a retry makes a second event. |
| `MCNewRooms_aliases`, `ListedAliasesPointToTheRoom` | `set_alias` adds a row for the new room and leaves the one of the old room, so that after an upgrade both rooms list the alias ("Returns all local aliases that point to the given room", `service/rooms/alias.rs:71`); a second upgrade of the old room would take the alias away from the first replacement. `remove_alias` removes the rows of all aliases of the room (`alias.rs:31`). |

Several properties exclude a case that the code really has, with a history variable or
a condition. The property then says that nothing *else* goes wrong; the excluded case is
a known weakness of the code and not covered by it:

| Property | What it leaves out |
|---|---|
| `NothingLost` in `sending_safe` | Pushers: the instance has a server only. A push that fails in the middle (`sending.rs:851`) is in `sending_live` and in the theorem. |
| `RetryRepeatsPersistedRequests` | EDUs, which a retry never has (`MCSending_retry`). |
| `OnlyRacingRowsAreSkipped` (`raced`) | A to-device event or device list update that took its number before a sync read the counter and is written after the sync looked (`kv/users.rs:893`, `:736`): lost. |
| `OnlyTornRowsRepeat` (`unguarded`, `torn`) | A second row from the two routes without the federation lock (`membership.rs:780`, `:1378`), and after a crash between the row and its ID. |
| `SoftFailedStaysOut` | Says nothing of the state that was read before the lock (`event_handler.rs:926`): an event that meanwhile became forbidden is appended (`MCRoomEvents_softfail`). |
| `PrevEventsComeFirst` (`missed`) | Prev events that were given up, and those of an event with the time of the room's first event, which nobody asks for (`event_handler.rs:1505` against `:156`, `:226`). |
| `RoomKeepsALeaf` | A crash between the rows of the forward extremities, and a soft failure that removed them (`kv/rooms/state.rs:83`). |
| `RowsAgreeWithState` (`torn`, `loose`) | Updates without the lock and those that race them, members whom a new state drops, events that lost a resolution, ignored invites, updates cut off by a crash (`membership.rs:1484`, `state.rs:43`). |
| `CountsAgreeAtRest` (`halves`, `overlap`) | A server whose two rows a crash parted keeps one of them until both change again; updates that overlapped (`state_cache.rs:111`, `MCMembership_servers`). |
| `AdminRoomKeepsMembers` | A room where a user of another server has power, and the second member after a crash. |
| `TokensAndDevicesAgree`, `OneTimeKeysGivenOnce` (`mixed`) | Devices on which two requests overlapped: two logins may leave a token that nobody can revoke (`kv/users.rs:356`), and two claims may both get the first one-time key (`kv/users.rs:430`). |
| `KeyChangesAnnounced` (`torn`) | Keys that a refused upload has stored (`MCAccounts_refused`), and requests cut off. |
| `LayoutMatchesVersion` (`redone`) | Event IDs under a first short room ID (`MCStartup_rerun`). |
| `AdminRoomIsWhole` | The admin room that is never made after a crash in the first run (`database.rs:1139`, `MCStartup_firstrun`). |
| `EventuallyServing` (`Doomed`) | An old database with an account without push rules (`MCStartup_rules`). |
| `StatesLoadExactly`, `StateIsThere` (`torn`) | A hash whose state was never stored, and a short ID without its second row, after a crash (`short.rs:261`, `:35`): such a state does not load again. |
| `VisibilityFromState` | Answers that depend on who is a member now (`state_accessor.rs:275`), which are kept after the membership has changed. |
| `AuthChainsClosed` (`gaps`) | Chains cut off at an event that had not arrived are kept for good (`auth_chain.rs:100`); an ID without its second row is left out of the answer. |
| `BackedUpKeysKept` (`deleting`) | Keys whose session ID begins with a deleted one (`MCUserData_prefix`). |
| `OneEventPerTransaction` (`torn`) | A crash or an error between the event and the transaction's row (`MCUserData_retry`). |

Two more hazards have no property. An entry of `OnDemandHashMap` may stay in the map
when the drop guard's message is handled before the last `Arc` is dropped
(`on_demand_hashmap.rs:213`); it costs memory and is used again. `/sendToDevice` looks up
its transaction without a mutex, so a retry during the first try is delivered twice.

## 4. Proofs

All theorems are `Spec => []...` for every value of the constants that satisfies
the named assumptions of the modules (finite sets, limits that are positive and
related as in the code).

* `SendingProofs`. The invariant `IInv` says what ties the memory of the handler
  to the trees: a transaction in flight carries exactly the active requests of
  its destination, a destination without a status has no active request, a
  failed destination's batch stays as it was, a partial `mark_as_active` has each
  of its requests in one of the trees or both, and whatever is in neither was
  delivered. `NothingLost` alone is not inductive: the deletion of the active
  requests after an answer is only right because the answer is for exactly them.
  `StartDropsNothing` needs the batch limit and the size of the active tree in
  every state of the handler. `RetryRepeats` is an action property from the same
  invariant: a failed destination's active requests are those its transaction had
  (`tried`), and a retry has no EDUs. `ReceiptsOnce`, another action property, has an invariant of its own,
  `EduInv`: what `select_edus` has picked so far is above the stored count and not
  above the count it will store. The second half is why `last` follows the scan
  from room to room.
* `TokenSetProofs`. The invariant says that every strong reference to a value of
  a key is to the value in the map while the value lives; from it follow
  mutual exclusion, that the cleanup removes nothing live, and the refinement of
  `KeyLock` (each step of the detailed specification is a step of the abstract
  one or a stutter).
* `SyncProofs`. Four groups of conjuncts: numbers (rows have distinct numbers not
  above the counter, a writer in progress holds the newest), the lock, the cache
  (equal to the last row when the lock is free, or behind by the row just being
  written by its holder) and what the sync has read so far. From these follow
  that no event is passed, and that a lost row had taken its number before the
  sync read the counter and was written after the sync looked for it.

* `RoomEventsProofs`. Three inductive invariants. `IInv` has the types, `LocksExclude`,
  `IdsPointToRows` and `StateEventsExist`, with what a task carries from step to
  step: the row whose id it will write exists, and the states and events it
  remembers are known. It needs that a known event stays known (`Grow`): an
  outlier is removed only after its id leads to a row. `RInv` adds, for
  `OnlyTornRowsRepeat` and `SoftFailedStaysOut`, that whoever has passed the
  look-up of an event without having it in the trees is the only one to handle
  it, by the federation lock for incoming events and by the event's novelty for
  local ones, and that its counts are fresh. Neither property is inductive
  alone: a second row is excluded by what the task found several steps before.
  `PInv` is for the order of events. Every event that the one in hand follows is
  done (has a row, or was given up), or is still on the stack or the list of the
  task that handles it; the forward extremities are done while the state lock is
  free, so a local event follows nothing but what is done; and counts only go
  up. An event whose prev events were not asked for puts those that are missing
  into `missed` when it is picked (`Unasked`). `PrevEventsComeFirst` follows in a
  stronger form, `RowsFollow`, which speaks of the rows and not of the moment they
  are written. `RoomKeepsALeaf` needs that
  the new extremities of an event that is not soft failed contain the event.
* `UserDataProofs`. The invariant has a part per tree. `DataInv`: an index points to
  a row; the row a request is about to put into the index exists, is in no other
  request's hands and in no index yet; and an old row that a request is about to
  remove is in no index, but for the one that the request replaces first. `BackupInv`: what a deletion has found or
  will remove has the prefix that was asked to be deleted. `MessageInv`: the event of a transaction has
  its row, or its sender, who holds the room's lock, is about to write it, or a
  crash or an error came between the two. `OneEventPerTransaction` alone is not inductive: the
  second event is excluded by the lock and by what the look-up under it saw.
* `NewRoomsProofs`. `UpgradeInv` follows an upgrade from step to step: the steps left
  are a suffix of those `UpgradeRoomRoute` gives, their events carry the state read
  from the old room, and what is not left is in the new room. That nobody else
  touches the new room before the upgrade ends is `WorldInv` and the frame lemmas:
  a room's state changes only by the request that holds its lock, and a request
  whose `todo` names a room ID just drawn is the only one to have it.
* `AccountsProofs`. No lock helps here, so each part of the invariant says what holds
  while a request is between two rows of a call. `TokenOfADeviceWorks` speaks of rest
  and is not inductive: `WorksInv` says that the token of a device leads back to it or
  that a `set_token` on that device is about to write one of the two rows, `FreshInv`
  that a new token is known to nobody else before that, and `OwnInv` that what a request
  will remove (`old`, read some rows before) was a token of its own device. `AgreeInv`
  says of a device without overlapping requests which combinations of metadata, token
  and token rows fit the row its request is at (`Fits`, `Halfway`). `OneTimeInv`: a key
  that is there was not handed out since its upload, and the key a claim found is there
  until the claim removes it. `AnnounceInv` with `NumbersInv`: a change is announced
  under a number above the one it was made at, or the row that announces it is ahead
  in the call; what a refused call stores does not count as a change. The proof is in two halves:
  `StepEffect` says what any row does to tokens, devices, keys and numbers, and one
  lemma per part of the invariant shows that the effects keep it; `Steady` covers the
  requests that begin, end or are cut off by a crash.

Only model-checked: the liveness properties, which the prover cannot state, and the
properties of `Membership`, `StateStore` and `Startup`. Of `StateStore`, `AuthChainsClosed` says that a
chain is closed under reachability, which is an induction over the events;
`StateIsThere` and `VisibilityFromState` read a state through `FullState`, and that a
state loads as it was saved (`StatesLoadExactly`) is an induction over the layers below
it, which the library states with an operator as a parameter. `Startup` is one program for each of the
versions; `LayoutMatchesVersion` and `MigrationsLoseNothing` need an invariant for every
row of every one of the thirteen migrations, and TLC checks all versions with every place to
crash.

## 5. Not modelled, and the plan

`PROJECT.json` lists every component with its status. What is left, in the order in
which it is worth modelling:

1. Proofs: the invariants of `Membership`; that `Merge` is exact, with `StatesLoadExactly`, and `LayoutMatchesVersion` of
   `Startup`.
2. The state deltas of a sync with lazy loading, left and invited rooms, and sliding
   sync with its caches per connection.
3. Receipts and typing, and the fan-out of `append_pdu` to the sending queue,
   composed with `Sending`.
4. The list of public rooms, disabled rooms, spaces, the indexes of relations, threads and
   search, the store of remote signing keys, profiles and filters.
5. An abstract specification of a room (a growing, ordered set of events) that
   `RoomEvents` implements outside the races above.

Not modelled because nothing in them is a protocol: media (files and image scaling),
push rules and the building of notices (the `ruma` library decides), the text of admin
commands and their answers, conversions of events and requests, configuration,
metrics and errors. The engines of the key-value store, state resolution,
signatures and the HTTP client are external: the modules choose among their outcomes.
