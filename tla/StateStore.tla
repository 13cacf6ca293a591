------------------------------ MODULE StateStore ------------------------------
(***************************************************************************)
(* How the state of rooms is stored: short IDs (kv rooms/short.rs), layers *)
(* of differences (rooms/state_compressor.rs), the state an event is added *)
(* to (rooms/state.rs), and what is read from it and kept in memory: state *)
(* lookups, visibility (rooms/state_accessor.rs) and auth chains           *)
(* (rooms/auth_chain.rs).                                                  *)
(*                                                                         *)
(* A room has one writer at a time, who holds roomid_mutex_state; writers  *)
(* of different rooms, and readers, who hold no lock, interleave row by    *)
(* row.  A short ID is a number of the global counter; its two rows are    *)
(* stored one after the other.  A compressed event is the pair of the      *)
(* short IDs of its state key and of the event; a state is a set of them.  *)
(***************************************************************************)
EXTENDS Naturals, Sequences, FiniteSets, SequencesExt, FiniteSetsExt, TLC

CONSTANTS
  Rooms,
  Users,       \* users of this server, each also a state key of member events
  Viewers,     \* users who look at events
  Visibilities, Memberships,  \* what events may say
  Readers,     \* who ask for auth chains
  Outliers,    \* events that are named as auth events before they arrive
  OutlierAuth, \* the auth events of an outlier
  Layers,      \* how many layers of differences may be below a new one (3)
  Buckets,     \* NUM_BUCKETS of get_auth_chain (50)
  MaxEvents, MaxAgain, MaxReads, MaxWalks, MaxCrashes,  \* bounds of one behaviour
  EventsWithWalks,  \* bound: events beside a walk, or with auth events missing
  MaxOps       \* bound on all of these together

None == 0

ASSUME StateStoreAssumption ==
  /\ Layers \in Nat /\ Buckets \in Nat \ {0}
  /\ MaxEvents \in Nat /\ EventsWithWalks \in Nat /\ MaxAgain \in Nat
  /\ MaxReads \in Nat /\ MaxWalks \in Nat
  /\ MaxCrashes \in Nat /\ MaxOps \in Nat
  /\ OutlierAuth \in [Outliers -> SUBSET Outliers]
  /\ Outliers \cap (0..MaxEvents) = {} /\ Viewers \subseteq Users
  /\ Visibilities \subseteq {"world", "shared", "invited", "joined"}
  /\ Memberships \subseteq {"invite", "join", "leave"}

Keys == {"create", "visibility"} \cup Users
Events == 1..MaxEvents \cup Outliers
\* Outliers that only events of the timeline name.
Unnamed == {o \in Outliers : \A p \in Outliers : o \notin OutlierAuth[p]}
Values(k) == CASE k = "create" -> {"create"}
               [] k = "visibility" -> Visibilities
               [] OTHER -> Memberships

VARIABLES
  counter,
  shortEvent, eventOf,  \* eventid_shorteventid and shorteventid_eventid
  shortKey, keyOf,      \* statekey_shortstatekey and shortstatekey_statekey
  shortHash,            \* statehash_shortstatehash
  diff,                 \* shortstatehash_statediff
  roomState,            \* roomid_shortstatehash
  eventState,           \* shorteventid_shortstatehash
  pdus,                 \* the events in the timeline and the outliers
  pending,              \* incoming events that are not in the timeline yet
  joined,               \* the membership cache: see Membership
  chainRow,             \* shorteventid_authchain
  eventCache, keyCache, chainCache,  \* in memory
  userSees, serverSees,  \* user_visibility_cache and server_visibility_cache
  task,                 \* what the writer of a room is doing
  walk,                 \* what a reader of auth chains is doing
  events, again, reads, walks, crashes,  \* how many so far
  saved,                \* history: the state a state hash was made for
  torn,                 \* history: short IDs that were left with their first row only
  gaps                  \* history: where the chain of an event was cut off

shorts == <<shortEvent, eventOf, shortKey, keyOf>>
states == <<shortHash, diff, roomState, eventState, saved, torn>>
memory == <<eventCache, keyCache, chainCache, userSees, serverSees>>
chains == <<chainRow, gaps>>
bounds == <<events, again, reads, walks, crashes>>
vars == <<counter, shorts, states, pdus, pending, joined, chains, memory, task, walk, bounds>>

\* A walk takes many steps: beside one there are fewer events, and it counts twice.
EventsLeft == events < IF walks = 0 THEN MaxEvents ELSE EventsWithWalks
More == events + again + reads + 2 * walks + crashes < MaxOps

-----------------------------------------------------------------------------
(* Layers *)

\* The layers of a state hash, from the bottom: load_shortstatehash_info.
LayersOf(h) ==
  LET f[x \in DOMAIN diff \cup {None}] ==
        IF x = None THEN <<>> ELSE Append(f[diff[x].parent], x)
  IN  f[h]

FullState(h) ==
  LET f[x \in DOMAIN diff \cup {None}] ==
        IF x = None THEN {}
        ELSE (f[diff[x].parent] \cup diff[x].added) \ diff[x].removed
  IN  f[h]

Size(d) == Cardinality(d.added) + Cardinality(d.removed)

\* Mutant: what was added below and is removed again stays added.
MergeKeepsAdded(d, below) ==
  LET removed == below.removed \cup (d.removed \ below.added)
  IN  [added |-> below.added \cup (d.added \ removed), removed |-> removed \ d.added]

\* A difference on top of the layer below becomes one to the layer below that.
Merge(d, below) ==
  LET added == below.added \ d.removed
      removed == below.removed \cup (d.removed \ below.added)
  IN  [added |-> added \cup (d.added \ removed), removed |-> removed \ d.added]

TooDeep(n) == n > Layers

\* A difference is merged with the layers below while they are too many or the
\* difference is too big for what changes beside it, and then stored.
SaveStateFromDiff(d, parents, beside) ==
  LET n == Len(parents)
      below(i) == diff[parents[i]]
      \* the difference when i layers are left below it
      merged[i \in 0..n] == IF i = n THEN d ELSE Merge(merged[i + 1], below(i + 1))
      sibling(i) == IF i = n THEN beside ELSE Size(merged[i + 1])
      fits(i) == \/ i = 0
                 \/ /\ ~TooDeep(i)
                    /\ Size(merged[i]) * Size(merged[i])
                         < 2 * sibling(i) * Size(below(i))
      at == Max({i \in 0..n : fits(i)})
  IN  [parent |-> IF at = 0 THEN None ELSE parents[at],
       added |-> merged[at].added, removed |-> merged[at].removed]

-----------------------------------------------------------------------------
(* Looking things up *)

\* get_shortstatekey, get_or_create_shorteventid: memory first, then the row.
GetShortStateKey(k) == IF keyCache[k] # None THEN keyCache[k] ELSE shortKey[k]
GetShortEventId(e) == IF eventCache[e] # None THEN eventCache[e] ELSE shortEvent[e]
\* No event when the row is missing.
GetEventIdFromShort(s) == IF s \in DOMAIN eventOf THEN {eventOf[s]} ELSE {}

\* parse_compressed_state_event
Parse(c) == {<<c[1], e>> : e \in GetEventIdFromShort(c[2])}

GetRoomShortStateHash(r) == roomState[r]

\* Those of a state under the short ID of the key; the code takes the first.
CompressedAt(h, k) == {c \in FullState(h) : c[1] = GetShortStateKey(k)}

StateGetIds(h, k) ==
  IF h \notin DOMAIN diff THEN {} ELSE UNION {GetEventIdFromShort(c[2]) : c \in CompressedAt(h, k)}
StateGets(h, k) == StateGetIds(h, k) \cap DOMAIN pdus
RoomStateGetIds(r, k) == StateGetIds(GetRoomShortStateHash(r), k)
\* state_full, state_full_ids: all of a state, or an error.
CanLoad(h) == h \in DOMAIN diff /\ \A c \in FullState(h) : Parse(c) # {}
StateFull(h) == {p[2] : p \in UNION {Parse(c) : c \in FullState(h)}} \cap DOMAIN pdus

\* As long as a state has one event of every key.
ValueAt(h, k, default) ==
  LET found == StateGets(h, k)
  IN  IF found = {} THEN default ELSE pdus[CHOOSE e \in found : TRUE].value

PduShortStateHash(e) ==
  LET s == shortEvent[e]
  IN  IF s \in DOMAIN eventState THEN eventState[s] ELSE None

UserMembership(h, u) == ValueAt(h, u, "leave")
UserWasJoined(h, u) == UserMembership(h, u) = "join"
UserWasInvited(h, u) == UserMembership(h, u) \in {"join", "invite"}

\* get_auth_events: of the current state, what an event of u must name.
GetAuthEvents(r, u) ==
  UNION {RoomStateGetIds(r, k) : k \in {"create", u}} \cap DOMAIN pdus

\* get_room_version needs the create event.
HasRoomVersion(r) == RoomStateGetIds(r, "create") # {}

-----------------------------------------------------------------------------
(* Writers *)

Idle == [pc |-> "idle"]
Goto(r, pc) == task' = [task EXCEPT ![r].pc = pc]
At(r, pc) == task[r].pc = pc

\* build_and_append_pdu: the writer takes the mutex.
StartAppend(r) ==
  \E u \in Users, k \in Keys :
  \E v \in Values(k) :
    /\ At(r, "idle") /\ EventsLeft /\ More
    /\ k = "create" <=> GetRoomShortStateHash(r) = None
    /\ k # "create" => HasRoomVersion(r)
    /\ k \in Users => k = u
    /\ events' = events + 1
    /\ task' = [task EXCEPT ![r] =
         [pc |-> "event", own |-> TRUE, event |-> events + 1, key |-> k, value |-> v,
          auth |-> GetAuthEvents(r, u)]]
    /\ UNCHANGED <<counter, shorts, states, pdus, pending, joined, chains, memory,
                   walk, again, reads, walks, crashes>>

\* An incoming state event, new or sent again after its handling was cut off.  It
\* is stored as an outlier, and may name auth events that did not arrive.
Incoming(r) ==
  /\ At(r, "idle") /\ HasRoomVersion(r) /\ More
  /\ \/ \E k \in Keys \ {"create"} :
        \E v \in Values(k), missing \in {{}} \cup {{o} : o \in Unnamed} :
          /\ EventsLeft /\ events' = events + 1 /\ UNCHANGED again
          /\ missing # {} => events < EventsWithWalks
          /\ pdus' = (events + 1 :> [room |-> r, key |-> k, value |-> v,
                                     auth |-> GetAuthEvents(r, k) \cup missing]) @@ pdus
          /\ pending' = pending \cup {events + 1}
          /\ task' = [task EXCEPT ![r] =
               [pc |-> "key", own |-> FALSE, event |-> events + 1, key |-> k]]
     \/ \E e \in pending :
          /\ pdus[e].room = r /\ again < MaxAgain /\ again' = again + 1
          /\ task' = [task EXCEPT ![r] =
               [pc |-> "key", own |-> FALSE, event |-> e, key |-> pdus[e].key]]
          /\ UNCHANGED <<events, pdus, pending>>
  /\ UNCHANGED <<counter, shorts, states, joined, chains, memory, walk, reads, walks, crashes>>

AfterEvent(r) == IF task[r].own THEN "state" ELSE "resolve"
AfterKey(r) == IF task[r].own THEN "save" ELSE "event"

\* get_or_create_shorteventid: found, or a new one, whose rows are stored one
\* after the other.
FindShortEventId(r) ==
  LET e == task[r].event
  IN  /\ At(r, "event") /\ GetShortEventId(e) # None
      /\ eventCache' = [eventCache EXCEPT ![e] = GetShortEventId(e)]
      /\ Goto(r, AfterEvent(r))
      /\ UNCHANGED <<counter, shorts, states, pdus, pending, joined, chains, keyCache,
                     chainCache, userSees, serverSees, walk, bounds>>

MissShortEventId(r) ==
  /\ At(r, "event") /\ GetShortEventId(task[r].event) = None
  /\ Goto(r, "newevent")
  /\ UNCHANGED <<counter, shorts, states, pdus, pending, joined, chains, memory, walk, bounds>>

NewShortEventId(r) ==
  /\ At(r, "newevent")
  /\ counter' = counter + 1
  /\ shortEvent' = [shortEvent EXCEPT ![task[r].event] = counter + 1]
  /\ task' = [task EXCEPT ![r] = [pc |-> "eventrow", id |-> counter + 1] @@ @]
  /\ UNCHANGED <<eventOf, shortKey, keyOf, states, pdus, pending, joined, chains,
                 memory, walk, bounds>>

ShortEventIdRow(r) ==
  /\ At(r, "eventrow")
  /\ eventOf' = (task[r].id :> task[r].event) @@ eventOf
  /\ eventCache' = [eventCache EXCEPT ![task[r].event] = task[r].id]
  /\ Goto(r, AfterEvent(r))
  /\ UNCHANGED <<counter, shortEvent, shortKey, keyOf, states, pdus, pending, joined,
                 chains, keyCache, chainCache, userSees, serverSees, walk, bounds>>

\* append_to_state: the event gets the current state.
AppendToState(r) ==
  LET s == GetShortEventId(task[r].event)
      h == GetRoomShortStateHash(r)
  IN  /\ At(r, "state")
      /\ eventState' = IF h = None THEN eventState ELSE (s :> h) @@ eventState
      /\ Goto(r, "key")
      /\ UNCHANGED <<counter, shorts, shortHash, diff, roomState, saved, torn,
                     pdus, pending, joined, chains, memory, walk, bounds>>

\* get_or_create_shortstatekey: found, or a new one.
FindShortStateKey(r) ==
  LET k == task[r].key
  IN  /\ At(r, "key") /\ GetShortStateKey(k) # None
      /\ keyCache' = [keyCache EXCEPT ![k] = GetShortStateKey(k)]
      /\ task' = [task EXCEPT ![r] = [pc |-> AfterKey(r), short |-> GetShortStateKey(k)] @@ @]
      /\ UNCHANGED <<counter, shorts, states, pdus, pending, joined, chains, eventCache,
                     chainCache, userSees, serverSees, walk, bounds>>

MissShortStateKey(r) ==
  /\ At(r, "key") /\ GetShortStateKey(task[r].key) = None
  /\ Goto(r, "newkey")
  /\ UNCHANGED <<counter, shorts, states, pdus, pending, joined, chains, memory, walk, bounds>>

NewShortStateKey(r) ==
  /\ At(r, "newkey")
  /\ counter' = counter + 1
  /\ shortKey' = [shortKey EXCEPT ![task[r].key] = counter + 1]
  /\ task' = [task EXCEPT ![r] = [pc |-> "keyrow", short |-> counter + 1] @@ @]
  /\ UNCHANGED <<shortEvent, eventOf, keyOf, states, pdus, pending, joined, chains,
                 memory, walk, bounds>>

ShortStateKeyRow(r) ==
  /\ At(r, "keyrow")
  /\ keyOf' = (task[r].short :> task[r].key) @@ keyOf
  /\ keyCache' = [keyCache EXCEPT ![task[r].key] = task[r].short]
  /\ Goto(r, AfterKey(r))
  /\ UNCHANGED <<counter, shortEvent, eventOf, shortKey, states, pdus, pending, joined,
                 chains, eventCache, chainCache, userSees, serverSees, walk, bounds>>

\* The new event replaces the one under the same short ID.  One row is stored.
SaveAppended(r) ==
  LET h == GetRoomShortStateHash(r)
      new == <<task[r].short, GetShortEventId(task[r].event)>>
      replaces == {c \in FullState(h) : c[1] = task[r].short}
      d == [added |-> {new}, removed |-> replaces]
  IN  /\ At(r, "save")
      /\ counter' = counter + 1
      /\ diff' = (counter + 1 :> SaveStateFromDiff(d, LayersOf(h), 2)) @@ diff
      /\ saved' = (counter + 1 :> ((FullState(h) \ replaces) \cup {new})) @@ saved
      /\ task' = [task EXCEPT ![r] = [pc |-> "pdu", hash |-> counter + 1] @@ @]
      /\ UNCHANGED <<shorts, shortHash, roomState, eventState, torn, pdus, pending, joined,
                     chains, memory, walk, bounds>>

\* The membership cache after the member events among es.
UpdateMembership(r, es) ==
  LET members == {e \in es : pdus'[e].key \in Users}
  IN  joined' = {m \in joined : m[1] # r \/ \A e \in members : pdus'[e].key # m[2]}
                \cup {<<r, pdus'[e].key>> : e \in {x \in members : pdus'[x].value = "join"}}

\* append_pdu: the event is in the timeline, the membership cache is updated.
AppendPdu(r) ==
  LET t == task[r]
  IN  /\ At(r, "pdu")
      /\ IF t.own
         THEN pdus' = (t.event :> [room |-> r, key |-> t.key, value |-> t.value,
                                   auth |-> t.auth]) @@ pdus
         ELSE pdus' = pdus
      /\ pending' = pending \ {t.event}
      /\ UpdateMembership(r, {t.event})
      /\ IF t.own THEN Goto(r, "room") ELSE task' = [task EXCEPT ![r] = Idle]
      /\ UNCHANGED <<counter, shorts, states, chains, memory, walk, bounds>>

\* Mutant: the room gets its new state before the state is stored.
SetRoomStateEarly(r) ==
  /\ At(r, "room") \/ At(r, "savestate")
  /\ roomState' = [roomState EXCEPT ![r] = task[r].hash]
  /\ task' = IF At(r, "room") /\ task[r].own THEN [task EXCEPT ![r] = Idle]
             ELSE IF At(r, "room") THEN [task EXCEPT ![r].pc = "own"] ELSE task
  /\ UNCHANGED <<counter, shorts, shortHash, diff, eventState, saved, torn, pdus, pending,
                 joined, chains, memory, walk, bounds>>

\* set_room_state: the last row for an event of this server; an incoming one is
\* still to be appended.
SetRoomState(r) ==
  /\ At(r, "room")
  /\ roomState' = [roomState EXCEPT ![r] = task[r].hash]
  /\ IF task[r].own THEN task' = [task EXCEPT ![r] = Idle] ELSE Goto(r, "own")
  /\ UNCHANGED <<counter, shorts, shortHash, diff, eventState, saved, torn, pdus, pending,
                 joined, chains, memory, walk, bounds>>

-----------------------------------------------------------------------------
(* Incoming events: the resolved state of the room and the state of the event *)

\* The hash is taken of the events in the order of a hash set, so that one state
\* may have several.  Its row is stored before the state itself.
GetOrCreateShortStateHash(r, full, fields) ==
  \E order \in {1, 2} :
    LET hash == <<full, IF Cardinality(full) > 1 THEN order ELSE 1>>
        existed == hash \in DOMAIN shortHash
        short == IF existed THEN shortHash[hash] ELSE counter + 1
    IN  /\ counter' = IF existed THEN counter ELSE counter + 1
        /\ shortHash' = IF existed THEN shortHash ELSE (hash :> short) @@ shortHash
        /\ task' = [task EXCEPT ![r] =
             fields @@ [hash |-> short, existed |-> existed, full |-> full] @@ @]
        /\ UNCHANGED <<shorts, diff, roomState, eventState, saved, torn, pdus, pending,
                       joined, chains, memory, walk, bounds>>

\* The state goes on top of the current one, unless its hash was known.
SaveFull(r, beside) ==
  LET t == task[r]
      h == GetRoomShortStateHash(r)
      d == [added |-> t.full \ FullState(h), removed |-> FullState(h) \ t.full]
  IN  IF t.existed
      THEN UNCHANGED <<diff, saved>>
      ELSE /\ diff' = (t.hash :> SaveStateFromDiff(d, LayersOf(h), beside)) @@ diff
           /\ saved' = (t.hash :> t.full) @@ saved

\* What state resolution is given: state keys without a second row are left out.
Fork(h) ==
  {<<keyOf[p[1]], p[2]>> : p \in {q \in UNION {Parse(c) : c \in FullState(h)} : q[1] \in DOMAIN keyOf}}

\* The state at an event, with the keys that it had, and a resolved state:
\* compress_state_event.
CompressIds(h) ==
  {<<p[1], GetShortEventId(p[2])>> : p \in UNION {Parse(c) : c \in FullState(h)}}
Compress(fork) == {<<GetShortStateKey(p[1]), GetShortEventId(p[2])>> : p \in fork}

\* resolve_state: of the states that state resolution may find, those that differ
\* from the current one in one state key.  A state that does not load is an error.
\* The state at the event is one the room has or had.
ResolveState(r) ==
  LET h == GetRoomShortStateHash(r)
      candidates(k) == {e \in DOMAIN pdus : pdus[e].room = r /\ pdus[e].key = k
                                            /\ GetShortEventId(e) # None}
  IN  /\ At(r, "resolve") /\ CanLoad(h)
      /\ \E k \in {x \in Keys \ {"create"} : GetShortStateKey(x) # None} :
         \E in \in {{}} \cup {{<<k, e>>} : e \in candidates(k)},
            at \in {x \in {h} \cup {PduShortStateHash(e) : e \in DOMAIN pdus} : CanLoad(x)} :
           GetOrCreateShortStateHash(r, Compress({p \in Fork(h) : p[1] # k} \cup in),
                                     [pc |-> "savestate", at |-> CompressIds(at)])

RefuseState(r) ==
  /\ At(r, "resolve") /\ ~CanLoad(GetRoomShortStateHash(r))
  /\ task' = [task EXCEPT ![r] = Idle]
  /\ UNCHANGED <<counter, shorts, states, pdus, pending, joined, chains, memory, walk, bounds>>

\* save_state, then force_state updates the membership cache for the events that
\* are new.
SaveState(r) ==
  LET added == task[r].full \ FullState(GetRoomShortStateHash(r))
  IN  /\ At(r, "savestate")
      /\ SaveFull(r, 2)
      /\ pdus' = pdus
      /\ UpdateMembership(r, UNION {GetEventIdFromShort(c[2]) : c \in added})
      /\ Goto(r, "room")
      /\ UNCHANGED <<counter, shorts, shortHash, roomState, eventState, torn, pending,
                     chains, memory, walk, bounds>>

\* set_event_state of the state at the event.  No state is based on it.
StateAtEvent(r) ==
  At(r, "own") /\ GetOrCreateShortStateHash(r, task[r].at, [pc |-> "saveown"])

\* A large number, 1_000_000: the difference is not merged for its size.
Huge == 1000000

SaveStateAtEvent(r) ==
  /\ At(r, "saveown") /\ (task[r].existed \/ GetRoomShortStateHash(r) \in DOMAIN diff)
  /\ SaveFull(r, Huge)
  /\ Goto(r, "eventstate")
  /\ UNCHANGED <<counter, shorts, shortHash, roomState, eventState, torn, pdus, pending,
                 joined, chains, memory, walk, bounds>>

\* The state that the room was given does not load: an error, with the row of the
\* hash stored.
RefuseStateAtEvent(r) ==
  /\ At(r, "saveown") /\ ~task[r].existed /\ GetRoomShortStateHash(r) \notin DOMAIN diff
  /\ torn' = torn \cup {task[r].hash}
  /\ task' = [task EXCEPT ![r] = Idle]
  /\ UNCHANGED <<counter, shorts, shortHash, diff, roomState, eventState, saved, pdus, pending,
                 joined, chains, memory, walk, bounds>>

SetEventState(r) ==
  /\ At(r, "eventstate")
  /\ eventState' = (GetShortEventId(task[r].event) :> task[r].hash) @@ eventState
  /\ Goto(r, "pdu")
  /\ UNCHANGED <<counter, shorts, shortHash, diff, roomState, saved, torn, pdus, pending,
                 joined, chains, memory, walk, bounds>>

-----------------------------------------------------------------------------
(* Readers *)

Read == reads < MaxReads /\ More /\ reads' = reads + 1 /\ UNCHANGED <<events, again, walks, crashes>>

\* Short IDs of events that have their first row only so far.
HalfWritten ==
  {task[r].id : r \in {x \in Rooms : At(x, "eventrow")}}
    \cup {walk[w].id : w \in {x \in Readers : walk[x].pc = "row"}}

\* History: those that a state which is read has.
ReadState(h) ==
  /\ torn' = torn \cup ({c[2] : c \in FullState(h)} \cap HalfWritten)
  /\ UNCHANGED <<shortHash, diff, roomState, eventState, saved>>

\* What user_can_see_event finds when its cache has nothing.
Visible(u, r, h) ==
  LET v == ValueAt(h, "visibility", "shared")
  IN  CASE v = "world" -> TRUE
        [] v = "shared" -> <<r, u>> \in joined
        [] v = "invited" -> UserWasInvited(h, u)
        [] v = "joined" -> UserWasJoined(h, u)

\* The state keys that were looked up for the answer are kept.
LookedUp(u, h) ==
  LET looked == {"visibility"} \cup (IF ValueAt(h, "visibility", "shared") \in {"world", "shared"}
                                     THEN {} ELSE {u})
  IN  keyCache' = [k \in Keys |-> IF k \in looked THEN GetShortStateKey(k) ELSE keyCache[k]]

\* Mutant: the answer is kept for the user in whatever state.
UserCanSeeEventAnyState(u, r, e) ==
  LET h == PduShortStateHash(e)
  IN  /\ Read /\ e \in DOMAIN pdus /\ pdus[e].room = r
      /\ h \in DOMAIN diff /\ <<u, h>> \notin DOMAIN userSees
      /\ userSees' = [x \in {u} \X DOMAIN diff |-> Visible(u, r, h)] @@ userSees
      /\ UNCHANGED <<counter, shorts, states, pdus, pending, joined, chains, eventCache, keyCache,
                     chainCache, serverSees, task, walk>>

\* The answer is kept for the user and the state of the event.  An event with
\* no state is visible to all.
UserCanSeeEvent(u, r, e) ==
  LET h == PduShortStateHash(e)
  IN  /\ Read /\ e \in DOMAIN pdus /\ pdus[e].room = r
      /\ h \in DOMAIN diff /\ <<u, h>> \notin DOMAIN userSees
      /\ userSees' = (<<u, h>> :> Visible(u, r, h)) @@ userSees
      /\ LookedUp(u, h) /\ ReadState(h)
      /\ UNCHANGED <<counter, shorts, pdus, pending, joined, chains, eventCache,
                     chainCache, serverSees, task, walk>>

\* server_can_see_event, for a server whose only user in the room is u.
ServerCanSeeEvent(u, r, e) ==
  LET h == PduShortStateHash(e)
      v == ValueAt(h, "visibility", "shared")
      member == <<r, u>> \in joined
      visible == CASE v \in {"world", "shared"} -> TRUE
                   [] v = "invited" -> member /\ UserWasInvited(h, u)
                   [] v = "joined" -> member /\ UserWasJoined(h, u)
  IN  /\ Read /\ e \in DOMAIN pdus /\ pdus[e].room = r
      /\ h \in DOMAIN diff /\ <<u, h>> \notin DOMAIN serverSees
      /\ serverSees' = (<<u, h>> :> visible) @@ serverSees
      /\ LookedUp(u, h) /\ ReadState(h)
      /\ UNCHANGED <<counter, shorts, pdus, pending, joined, chains, eventCache,
                     chainCache, userSees, task, walk>>

-----------------------------------------------------------------------------
(* Auth chains *)

Resting == [pc |-> "idle"]
Step(w, fields) == walk' = [walk EXCEPT ![w] = fields @@ @]
InChain(w, pc) == walk[w].pc = pc

\* In memory, or for a single event in its row.
HasCachedChain(c) == c \in DOMAIN chainCache \/ \E s \in DOMAIN chainRow : c = {s}
CachedChain(c) ==
  IF c \in DOMAIN chainCache THEN chainCache[c] ELSE chainRow[CHOOSE s \in c : TRUE]

\* Single events are kept in rows too.
CacheAuthChain(c, chain) ==
  /\ chainRow' = IF Cardinality(c) = 1 THEN [s \in c |-> chain] @@ chainRow ELSE chainRow
  /\ chainCache' = (c :> chain) @@ chainCache

\* get_auth_chain of the current state of a room, or of one event, which may be
\* of another room.  No lock is taken.  First the events get short IDs.
GetAuthChain(w, r) ==
  LET h == GetRoomShortStateHash(r)
  IN  /\ walks < MaxWalks /\ events <= EventsWithWalks /\ More
      /\ walks' = walks + 1 /\ UNCHANGED <<events, again, reads, crashes>>
      /\ InChain(w, "idle")
      /\ \E es \in (IF CanLoad(h) THEN {StateFull(h)} ELSE {}) \cup {{e} : e \in DOMAIN pdus} :
           /\ es # {}
           /\ walk' = [walk EXCEPT ![w] =
                [pc |-> "short", room |-> r, ids |-> es, inner |-> FALSE, starts |-> {}]]
      /\ UNCHANGED <<counter, shorts, states, pdus, pending, joined, chains, memory, task>>

\* What is done with a short ID: a starting event goes into its bucket, an auth
\* event that was not met before is walked to.
Got(w, e, s) ==
  LET t == walk[w]
      left == [pc |-> "short", ids |-> t.ids \ {e}]
  IN  IF ~t.inner THEN left @@ [starts |-> t.starts \cup {<<s, e>>}]
      ELSE IF s \in t.found THEN left
      ELSE left @@ [found |-> t.found \cup {s}, todo |-> Append(t.todo, e)]

\* get_or_create_shorteventid for the next event: found, or a new one.
FindShort(w) ==
  /\ InChain(w, "short") /\ walk[w].ids # {}
  /\ LET e == Min(walk[w].ids)
     IN  /\ GetShortEventId(e) # None
         /\ eventCache' = [eventCache EXCEPT ![e] = GetShortEventId(e)]
         /\ Step(w, Got(w, e, GetShortEventId(e)))
  /\ UNCHANGED <<counter, shorts, states, pdus, pending, joined, chains, keyCache,
                 chainCache, userSees, serverSees, task, bounds>>

MissShort(w) ==
  /\ InChain(w, "short") /\ walk[w].ids # {} /\ GetShortEventId(Min(walk[w].ids)) = None
  /\ Step(w, [pc |-> "new"])
  /\ UNCHANGED <<counter, shorts, states, pdus, pending, joined, chains, memory, task, bounds>>

NewShort(w) ==
  /\ InChain(w, "new")
  /\ counter' = counter + 1
  /\ shortEvent' = [shortEvent EXCEPT ![Min(walk[w].ids)] = counter + 1]
  /\ Step(w, [pc |-> "row", id |-> counter + 1])
  /\ UNCHANGED <<eventOf, shortKey, keyOf, states, pdus, pending, joined, chains, memory,
                 task, bounds>>

ShortRow(w) ==
  /\ InChain(w, "row")
  /\ LET e == Min(walk[w].ids)
     IN  /\ eventOf' = (walk[w].id :> e) @@ eventOf
         /\ eventCache' = [eventCache EXCEPT ![e] = walk[w].id]
         /\ Step(w, Got(w, e, walk[w].id))
  /\ UNCHANGED <<counter, shortEvent, shortKey, keyOf, states, pdus, pending, joined,
                 chains, keyCache, chainCache, userSees, serverSees, task, bounds>>

\* The chunks are taken in the order of their buckets; what is known of a chunk
\* as a whole is taken from memory.
NextChunk(w) ==
  LET t == walk[w]
      bucket == Min({p[1] % Buckets : p \in t.starts})
      chunk == {p \in t.starts : p[1] % Buckets = bucket}
      key == {p[1] : p \in chunk}
  IN  /\ InChain(w, "short") /\ t.ids = {} /\ ~t.inner
      /\ IF t.starts = {} THEN walk' = [walk EXCEPT ![w] = Resting]
         ELSE IF HasCachedChain(key) THEN Step(w, [starts |-> t.starts \ chunk])
         ELSE Step(w, [pc |-> "chunk", starts |-> t.starts \ chunk, key |-> key,
                       left |-> chunk, chain |-> {}])
      /\ chainCache' = IF t.starts # {} /\ HasCachedChain(key)
                       THEN (key :> CachedChain(key)) @@ chainCache ELSE chainCache
      /\ UNCHANGED <<counter, shorts, states, pdus, pending, joined, chains, eventCache,
                     keyCache, userSees, serverSees, task, bounds>>

First(chunk) == CHOOSE p \in chunk : \A q \in chunk : p[1] <= q[1]

\* The next event of the chunk, whose chain is known or walked.  A chain that is
\* read from a row is kept in memory.
NextEvent(w) ==
  LET t == walk[w]
      first == First(t.left)
  IN  /\ InChain(w, "chunk") /\ t.left # {}
      /\ IF HasCachedChain({first[1]})
         THEN /\ chainCache' = ({first[1]} :> CachedChain({first[1]})) @@ chainCache
              /\ Step(w, [left |-> t.left \ {first}, chain |-> t.chain \cup CachedChain({first[1]})])
         ELSE /\ Step(w, [pc |-> "walk", todo |-> <<first[2]>>, found |-> {}, inner |-> TRUE])
              /\ UNCHANGED chainCache
      /\ UNCHANGED <<counter, shorts, states, pdus, pending, joined, chains, eventCache,
                     keyCache, userSees, serverSees, task, bounds>>

\* Mutant: the auth events of auth events are left out.
VisitDirect(w) ==
  LET t == walk[w]
      e == Last(t.todo)
      direct == t.found = {}
  IN  /\ InChain(w, "walk") /\ t.todo # <<>>
      /\ gaps' = gaps \cup {<<First(t.left)[1], x>> : x \in {e} \ DOMAIN pdus}
      /\ Step(w, [pc |-> IF direct THEN "short" ELSE "walk", todo |-> Front(t.todo),
                  ids |-> IF direct /\ e \in DOMAIN pdus THEN pdus[e].auth ELSE {}])
      /\ UNCHANGED <<counter, shorts, states, pdus, pending, joined, chainRow, memory, task, bounds>>

\* get_auth_chain_inner: the next event of the walk.  One that is not there is
\* passed over; one of another room is an error, and the caller gives up.
Visit(w) ==
  LET t == walk[w]
      e == Last(t.todo)
  IN  /\ InChain(w, "walk") /\ t.todo # <<>>
      /\ gaps' = gaps \cup {<<First(t.left)[1], x>> : x \in {e} \ DOMAIN pdus}
      /\ IF e \notin DOMAIN pdus THEN Step(w, [todo |-> Front(t.todo)])
         ELSE IF pdus[e].room # t.room THEN walk' = [walk EXCEPT ![w] = Resting]
         ELSE Step(w, [pc |-> "short", todo |-> Front(t.todo), ids |-> pdus[e].auth])
      /\ UNCHANGED <<counter, shorts, states, pdus, pending, joined, chainRow, memory, task, bounds>>

\* All auth events of an event have short IDs: the walk goes on.
Walked(w) ==
  /\ InChain(w, "short") /\ walk[w].ids = {} /\ walk[w].inner
  /\ Step(w, [pc |-> "walk"])
  /\ UNCHANGED <<counter, shorts, states, pdus, pending, joined, chains, memory, task, bounds>>

\* The chain of one event, and of a chunk, is kept.
CacheEvent(w) ==
  LET t == walk[w]
      first == First(t.left)
  IN  /\ InChain(w, "walk") /\ t.todo = <<>>
      /\ CacheAuthChain({first[1]}, t.found)
      /\ Step(w, [pc |-> "chunk", left |-> t.left \ {first}, chain |-> t.chain \cup t.found,
                  found |-> {}, inner |-> FALSE])
      /\ UNCHANGED <<counter, shorts, states, pdus, pending, joined, gaps, eventCache,
                     keyCache, userSees, serverSees, task, bounds>>

CacheChunk(w) ==
  LET t == walk[w]
  IN  /\ InChain(w, "chunk") /\ t.left = {}
      /\ CacheAuthChain(t.key, t.chain)
      /\ Step(w, [pc |-> "short", key |-> {}, chain |-> {}])
      /\ UNCHANGED <<counter, shorts, states, pdus, pending, joined, gaps, eventCache,
                     keyCache, userSees, serverSees, task, bounds>>

Elsewhere == "elsewhere"

\* An outlier arrives: handle_outlier_pdu, see RoomEvents.  It may be of a room
\* that it does not belong to.
Arrive(o) ==
  \E r \in Rooms \cup {Elsewhere} :
    /\ Read /\ o \in Outliers \ DOMAIN pdus /\ \E e \in DOMAIN pdus : o \in pdus[e].auth
    /\ pdus' = (o :> [room |-> r, key |-> "other", value |-> "other",
                      auth |-> OutlierAuth[o]]) @@ pdus
    /\ UNCHANGED <<counter, shorts, states, pending, joined, chains, memory, task, walk>>

\* clear_caches: an admin says how many of the caches, in the code's order.
ClearCaches ==
  \E amount \in {3, 5} :
    /\ Read
    /\ chainCache' = <<>> /\ userSees' = <<>> /\ serverSees' = <<>>
    /\ IF amount = 5
       THEN eventCache' = [e \in Events |-> None] /\ keyCache' = [k \in Keys |-> None]
       ELSE UNCHANGED <<eventCache, keyCache>>
    /\ UNCHANGED <<counter, shorts, states, pdus, pending, joined, chains, task, walk>>

\* The process dies and is started again.
Crash ==
  /\ crashes < MaxCrashes /\ More /\ crashes' = crashes + 1
  /\ (\E r \in Rooms : ~At(r, "idle")) \/ \E w \in Readers : ~InChain(w, "idle")
  /\ task' = [r \in Rooms |-> Idle] /\ walk' = [w \in Readers |-> Resting]
  /\ torn' = torn \cup {task[r].hash : r \in {x \in Rooms : (At(x, "savestate") \/ At(x, "saveown"))
                                                            /\ ~task[x].existed}}
                  \cup {task[r].short : r \in {x \in Rooms : At(x, "keyrow")}}
                  \cup HalfWritten
  /\ chainCache' = <<>> /\ userSees' = <<>> /\ serverSees' = <<>>
  /\ eventCache' = [e \in Events |-> None] /\ keyCache' = [k \in Keys |-> None]
  /\ UNCHANGED <<counter, shorts, shortHash, diff, roomState, eventState, saved,
                 pdus, pending, joined, chains, events, again, reads, walks>>

-----------------------------------------------------------------------------

Init ==
  /\ counter = 0
  /\ shortEvent = [e \in Events |-> None] /\ eventOf = <<>>
  /\ shortKey = [k \in Keys |-> None] /\ keyOf = <<>>
  /\ shortHash = <<>> /\ diff = <<>> /\ roomState = [r \in Rooms |-> None]
  /\ eventState = <<>> /\ saved = <<>> /\ torn = {}
  /\ pdus = <<>> /\ joined = {} /\ chainRow = <<>> /\ gaps = {}
  /\ eventCache = [e \in Events |-> None] /\ keyCache = [k \in Keys |-> None]
  /\ chainCache = <<>> /\ userSees = <<>> /\ serverSees = <<>>
  /\ task = [r \in Rooms |-> Idle] /\ walk = [w \in Readers |-> Resting] /\ pending = {}
  /\ events = 0 /\ again = 0 /\ reads = 0 /\ walks = 0 /\ crashes = 0

LocalEvent(r) ==
  \/ StartAppend(r) \/ AppendToState(r) \/ SaveAppended(r) \/ AppendPdu(r) \/ SetRoomState(r)

HandleIncoming(r) ==
  \/ Incoming(r) \/ ResolveState(r) \/ RefuseState(r) \/ SaveState(r)
  \/ StateAtEvent(r) \/ SaveStateAtEvent(r) \/ RefuseStateAtEvent(r) \/ SetEventState(r)

GetOrCreate(r) ==
  \/ FindShortEventId(r) \/ MissShortEventId(r) \/ NewShortEventId(r) \/ ShortEventIdRow(r)
  \/ FindShortStateKey(r) \/ MissShortStateKey(r) \/ NewShortStateKey(r) \/ ShortStateKeyRow(r)

See(r) ==
  \E u \in Viewers, e \in 1..MaxEvents : UserCanSeeEvent(u, r, e) \/ ServerCanSeeEvent(u, r, e)

Chain(w) ==
  \/ \E r \in Rooms : GetAuthChain(w, r)
  \/ FindShort(w) \/ MissShort(w) \/ NewShort(w) \/ ShortRow(w)
  \/ NextChunk(w) \/ NextEvent(w) \/ Visit(w) \/ Walked(w) \/ CacheEvent(w) \/ CacheChunk(w)

Next ==
  \/ \E r \in Rooms : LocalEvent(r) \/ HandleIncoming(r) \/ GetOrCreate(r) \/ See(r)
  \/ \E w \in Readers : Chain(w)
  \/ \E o \in Outliers : Arrive(o)
  \/ ClearCaches \/ Crash

Spec == Init /\ [][Next]_vars

-----------------------------------------------------------------------------
(* Properties *)

\* The event that a short ID was given to, also where its second row is missing.
Names(s) == GetEventIdFromShort(s) \cup {e \in Events : shortEvent[e] = s}

\* However the differences were merged, and wherever the process died, a stored
\* state loads as the one it was made for, from few enough layers, and every
\* short ID in it leads back to a state key and an event.  Two short IDs do not:
\* one whose second row a crash cut off (short.rs:35, :129), which the found-row
\* branch takes again, and one that another reader is about to store.
StatesLoadExactly ==
  \A h \in DOMAIN diff :
    /\ FullState(h) = saved[h] /\ Len(LayersOf(h)) <= Layers + 1
    /\ \A c \in saved[h] : /\ c[1] \in DOMAIN keyOf \cup torn
                           /\ c[2] \in DOMAIN eventOf \cup torn \cup HalfWritten

\* The states of rooms and events are stored, except one that a crash cut off
\* between the row of its hash and the state, which is then never stored; the
\* events that the current state of a room names, exist.
StateIsThere ==
  /\ \A h \in {roomState[r] : r \in Rooms} \cup {eventState[s] : s \in DOMAIN eventState} :
       h \in DOMAIN diff \cup torn \cup {None}
  /\ \A r \in Rooms : roomState[r] \in DOMAIN diff =>
       \A c \in FullState(roomState[r]) : Names(c[2]) \cap DOMAIN pdus # {}

\* A lookup of a state key in the current state of a room finds the one event of
\* that key that the state has.
StateIsFound ==
  \A r \in Rooms : roomState[r] \in DOMAIN diff =>
    \A k \in Keys :
      RoomStateGetIds(r, k) =
        {e \in StateFull(roomState[r]) : pdus[e].key = k}

\* An answer that is kept on who may see the events of a state is the answer of
\* that state: for a user exactly, unless it depends on the membership now; a
\* server is never let in by a state that keeps its user out.  States that had an
\* event without its second row when they were read are left out.
VisibilityFromState ==
  /\ \A x \in DOMAIN userSees :
       ValueAt(x[2], "visibility", "shared") = "shared" \/ \E c \in FullState(x[2]) : c[2] \in torn
         \/ \A r \in Rooms : userSees[x] = Visible(x[1], r, x[2])
  /\ \A x \in DOMAIN serverSees : serverSees[x] =>
       \/ ValueAt(x[2], "visibility", "shared") \in {"world", "shared"}
       \/ \E c \in FullState(x[2]) : c[2] \in torn
       \/ UserWasInvited(x[2], x[1])

\* A chain that is kept, in memory or in a row, for one event or for a bucket,
\* names the auth events of everything in it, up to events that were not there
\* when it was walked, and although two walks and the writer of the room may give
\* one event two short IDs.  Where a crash cut off the second row of a short ID,
\* the chain has the ID and get_auth_chain leaves the event out of its answer.
AuthChainsClosed ==
  LET closed(starts, chain) ==
        \A s \in starts \cup chain : \A e \in Names(s) :
          (starts \X {e}) \cap gaps # {} \/ \A a \in pdus[e].auth : \E t \in chain : a \in Names(t)
  IN  /\ \A s \in DOMAIN chainRow : closed({s}, chainRow[s])
      /\ \A c \in DOMAIN chainCache : closed(c, chainCache[c])

=============================================================================
