----------------------------- MODULE RoomEvents -----------------------------
(***************************************************************************)
(* How an event gets into a room: the handler of incoming events           *)
(* (service/rooms/event_handler.rs), the builder of local ones and the     *)
(* trees they write (service/rooms/timeline.rs, state.rs).  One room.      *)
(*                                                                         *)
(* A task handles one request.  It takes roomid_mutex_federation (`fed')   *)
(* or not, depending on the route, and roomid_mutex_state (`lock') around  *)
(* every change of the room.  Every write of a tree is a step, so a crash  *)
(* may come between any two.                                               *)
(*                                                                         *)
(* An event is a model value.  The state of the room is the set of its     *)
(* state events, each under a key of its own.  Authorization is abstracted *)
(* to what a ban does: an event is allowed in a state that has the create  *)
(* event and none of the events that ban it.  State resolution is external:*)
(* it keeps what all forks agree on and any part of the rest.              *)
(***************************************************************************)
EXTENDS Integers, FiniteSets

CONSTANTS
  Root,          \* what the room began with, its create event
  Remote,        \* events of other servers
  Local,         \* events built here
  Invites,       \* local events that a remote signs before they are handled
  Direct,        \* remote events that a route of ours handles on its own
  Time,          \* the origin_server_ts of every event
  RemotePrev,    \* the prev_events of the remote events
  StateEvents,   \* the events with a state key
  Bans,          \* <<s, e>>: e is not allowed in a state with s
  Tasks,
  NoTask,
  NoCount,
  NoState,
  PrevLimit,     \* take(20) in create_hash_and_sign_event
  MaxFetch,      \* max_fetch_prev_events
  MaxErrors,     \* failed prev events after which the others are skipped, 5
  MaxReceived,   \* bound: events of one behaviour that are handled as incoming
  MaxCrashes     \* bound: crashes of one behaviour

Events == {Root} \cup Remote \cup Local

ASSUME EventsAssumption ==
  /\ Root \notin Remote \cup Local
  /\ Remote \cap Local = {}
  /\ IsFiniteSet(Events)
  /\ Invites \subseteq Local
  /\ Direct \subseteq Remote
  /\ Time \in [Events -> Nat]
  /\ RemotePrev \in [Remote -> SUBSET Events]
  /\ Root \in StateEvents /\ StateEvents \subseteq Events
  /\ Bans \subseteq StateEvents \X Events

ASSUME ValuesAssumption ==
  /\ NoTask \notin Tasks
  /\ NoCount \notin Int
  /\ \A S \in SUBSET StateEvents : NoState # S

ASSUME LimitsAssumption ==
  /\ PrevLimit \in Nat /\ MaxFetch \in Nat /\ MaxErrors \in Nat
  /\ MaxReceived \in Nat /\ MaxCrashes \in Nat

VARIABLES
  \* the trees
  rows,         \* pduid_pdu: the timeline, [count, event]
  ids,          \* eventid_pduid: per event, the count of its row
  outliers,     \* eventid_outlierpdu
  leaves,       \* roomid_pduleaves, the forward extremities
  referenced,   \* referencedevents
  softFailed,   \* softfailedeventids
  eventState,   \* shorteventid_shortstatehash: the state before an event
  roomState,    \* roomid_shortstatehash
  counter,      \* the next count
  \* memory
  bad,          \* bad_event_ratelimiter: events that are backed off from
  fed,          \* who holds roomid_mutex_federation
  lock,         \* who holds roomid_mutex_state
  task,         \* where each task is
  \* the world and the past
  prev,         \* the prev_events of every event
  built,        \* local events that exist
  received,     \* how many events were handled as incoming
  unguarded,    \* events upgraded without roomid_mutex_federation
  torn,         \* counts of rows whose id was not written before a crash
  missed,       \* events a handler gave up to bring to the timeline, never asked for, or could not
                \* bring there after it had made them a leaf, because of a crash
  crashes

trees == <<rows, ids, outliers, leaves, referenced, softFailed, eventState, roomState, counter>>
world == <<prev, built, received, unguarded, torn, missed, crashes>>
vars == <<trees, bad, fed, lock, task, world>>

Idle ==
  [pc |-> "idle", kind |-> "none", ev |-> Root, cur |-> Root, first |-> 0, from |-> 0,
   stack |-> {}, graph |-> {}, info |-> {}, errors |-> 0, at |-> {}, soft |-> FALSE, exts |-> {}, count |-> NoCount]

Init ==
  /\ rows = {[count |-> 1, event |-> Root]}
  /\ ids = [e \in Events |-> IF e = Root THEN 1 ELSE NoCount]
  /\ outliers = {}
  /\ leaves = {Root}
  /\ referenced = {}
  /\ softFailed = {}
  /\ eventState = [e \in Events |-> IF e = Root THEN {} ELSE NoState]
  /\ roomState = {Root}
  /\ counter = 2
  /\ bad = {}
  /\ fed = NoTask
  /\ lock = NoTask
  /\ task = [t \in Tasks |-> Idle]
  /\ prev = [e \in Events |-> IF e \in Remote THEN RemotePrev[e] ELSE {}]
  /\ built = {}
  /\ received = 0
  /\ unguarded = {}
  /\ torn = {}
  /\ missed = {}
  /\ crashes = 0

----------------------------------------------------------------------------
\* get_pdu_id() finds the event in the timeline, get_pdu() there or among the
\* outliers.
InTimeline(e) == ids[e] # NoCount
Known(e) == InTimeline(e) \/ e \in outliers

\* state_res::auth_check
Allowed(e, state) == Root \in state /\ \A s \in state : <<s, e>> \notin Bans

\* state_res::resolve
Resolutions(forks) ==
  {r \in SUBSET UNION forks : \A s \in UNION forks : (\A f \in forks : s \in f) => s \in r}

\* The state after event p: the state it has with p in it.
StateAfter(p) == eventState[p] \cup ({p} \cap StateEvents)

----------------------------------------------------------------------------
(* Local events: build_and_append_pdu.                                     *)

\* The first PrevLimit leaves, in no particular order.
PrevChoices == {P \in SUBSET leaves : Cardinality(P) =< PrevLimit /\
                                      (P = leaves \/ Cardinality(P) = PrevLimit)}

\* create_hash_and_sign_event under the state lock, and append_to_state: what
\* the state will be is kept for the end.  An event that is not allowed is
\* refused and leaves nothing behind.
BuildAndAppend(t, e) ==
  /\ task[t].pc = "idle"
  /\ lock = NoTask
  /\ e \in Local \ (built \cup Invites)
  /\ Allowed(e, roomState)
  /\ \E P \in PrevChoices : prev' = [prev EXCEPT ![e] = P]
  /\ built' = built \cup {e}
  /\ eventState' = [eventState EXCEPT ![e] = roomState]
  /\ lock' = t
  /\ task' = [task EXCEPT ![t] = [Idle EXCEPT !.pc = "reference", !.kind = "local", !.ev = e,
                !.cur = e, !.at = roomState \cup ({e} \cap StateEvents), !.exts = {e}]]
  /\ UNCHANGED <<rows, ids, outliers, leaves, referenced, softFailed, roomState, counter,
                 bad, fed, received, unguarded, torn, missed, crashes>>

\* invite_helper: the invite is built under the state lock, the lock is dropped,
\* and the event that comes back signed is handled like one from outside, but
\* without the federation lock.
BuildInvite(t, e) ==
  /\ task[t].pc = "idle"
  /\ lock = NoTask
  /\ e \in Invites \ built
  /\ received < MaxReceived
  /\ received' = received + 1
  /\ Allowed(e, roomState)
  /\ \E P \in PrevChoices : prev' = [prev EXCEPT ![e] = P]
  /\ built' = built \cup {e}
  /\ task' = [task EXCEPT ![t] = [Idle EXCEPT !.pc = "check", !.kind = "direct",
                                              !.ev = e, !.cur = e]]
  /\ UNCHANGED <<trees, bad, fed, lock, unguarded, torn, missed, crashes>>

----------------------------------------------------------------------------
(* Incoming events: handle_incoming_pdu.                                   *)

\* An event arrives with a transaction, with send_join or from a backfill; or a
\* restricted join comes back from the server that signed it.
Receive(t, e, kind) ==
  /\ task[t].pc = "idle"
  /\ received < MaxReceived
  /\ received' = received + 1
  /\ kind = "direct" => e \in Direct
  /\ prev[e] \cap Local \subseteq built
  /\ task' = [task EXCEPT ![t] = [Idle EXCEPT !.pc = IF kind = "direct" THEN "check" ELSE "federation",
                                              !.kind = kind, !.ev = e, !.cur = e]]
  /\ UNCHANGED <<trees, bad, fed, lock, prev, built, unguarded, torn, missed, crashes>>

\* Mutant: the federation lock is not waited for.
LockNothing(t) ==
  /\ task[t].pc = "federation"
  /\ task' = [task EXCEPT ![t].pc = "check"]
  /\ UNCHANGED <<trees, bad, fed, lock, world>>

LockFederation(t) ==
  /\ task[t].pc = "federation"
  /\ fed = NoTask
  /\ fed' = t
  /\ task' = [task EXCEPT ![t].pc = "check"]
  /\ UNCHANGED <<trees, bad, lock, world>>

\* The request ends: its locks are dropped.
Finish(t) ==
  /\ task' = [task EXCEPT ![t] = Idle]
  /\ fed' = IF fed = t THEN NoTask ELSE fed
  /\ lock' = IF lock = t THEN NoTask ELSE lock

\* 1. Skip the PDU if we already have it as a timeline event.  backfill_pdu looks
\* for it right before handle_incoming_pdu does: one look here.
SkipKnown(t) ==
  /\ task[t].pc = "check"
  /\ InTimeline(task[t].ev)
  /\ Finish(t)
  /\ UNCHANGED <<trees, bad, world>>

\* first_pdu_in_room: the row in front of all others, one of a backfill too.
FirstRow(r) == r \in rows /\ \A q \in rows : r.count =< q.count

\* The time of the first event is read before the outlier is handled ...
ReadFirst(t) ==
  /\ task[t].pc = "check"
  /\ ~InTimeline(task[t].ev)
  /\ \E r \in rows : /\ FirstRow(r)
                     /\ task' = [task EXCEPT ![t].pc = "outlier", ![t].first = Time[r.event]]
  /\ UNCHANGED <<trees, bad, fed, lock, world>>

\* The room is disabled, an ACL denies the server, or handle_outlier_pdu
\* rejects the event: its signature, its hash, its room or its auth events.  Later
\* a prev event turns out to be of another room, the sort fails, or the room was
\* disabled in the meantime.
Reject(t) ==
  /\ \/ task[t].pc = "check" /\ ~InTimeline(task[t].ev)
     \/ task[t].pc \in {"outlier", "fetch"}
     \/ task[t].pc = "prevs" /\ task[t].graph # {}
  /\ Finish(t)
  /\ UNCHANGED <<trees, bad, world>>

\* Mutant: the prev events are not asked for.
HandleWithoutPrevs(t) ==
  LET k == task[t] IN
  /\ k.pc = "outlier"
  /\ outliers' = outliers \cup {k.ev}
  /\ IF k.kind = "backfill"
     THEN task' = [task EXCEPT ![t].pc = "row"] /\ UNCHANGED <<fed, lock>>
     ELSE IF Time[k.ev] < k.first
     THEN Finish(t)
     ELSE task' = [task EXCEPT ![t].pc = "prevs"] /\ UNCHANGED <<fed, lock>>
  /\ UNCHANGED <<rows, ids, leaves, referenced, softFailed, eventState, roomState, counter,
                 bad, world>>

\* 7. Persist the event as an outlier.  An event from a backfill goes to the
\* front of the timeline, one that is too old stays an outlier.  For any other,
\* fetch_unknown_prev_events begins: it reads the time of the first event again.
HandleOutlier(t) ==
  LET k == task[t] IN
  /\ k.pc = "outlier"
  /\ outliers' = outliers \cup {k.ev}
  /\ IF k.kind = "backfill"
     THEN task' = [task EXCEPT ![t].pc = "row"] /\ UNCHANGED <<fed, lock>>
     ELSE IF Time[k.ev] < k.first
     THEN Finish(t)
     ELSE /\ \E r \in rows :
               /\ FirstRow(r)
               /\ task' = [task EXCEPT ![t].pc = "fetch", ![t].stack = prev[k.ev],
                                       ![t].from = Time[r.event]]
          /\ UNCHANGED <<fed, lock>>
  /\ UNCHANGED <<rows, ids, leaves, referenced, softFailed, eventState, roomState, counter,
                 bad, world>>

\* fetch_and_handle_outliers asks the origin for an event that is not known and
\* not backed off from.  What it sends passes as an outlier, or is backed off from.
CanBeFetched(x) == ~Known(x) /\ x \notin bad /\ x \in Remote

\* The events whose own prev_events are not asked for: those that are not later
\* than the first event of the timeline.
NotAfter(time) == {e \in Events : Time[e] =< time}

\* fetch_unknown_prev_events, one event of the stack.  What is known, or is
\* fetched and passes as an outlier, is remembered if its JSON is that of an
\* outlier, and its own prev_events follow if it is later than the first event;
\* the rest ends there.  The stack is a set: an event that is on it twice is
\* handled once.
FetchPrev(t, x) ==
  LET k == task[t]
      full == Cardinality(k.info \ NotAfter(k.from)) > MaxFetch
      Found ==
        task' = [task EXCEPT ![t].stack = (@ \ {x}) \cup
                                 IF full \/ x \in NotAfter(k.from) THEN {} ELSE prev[x] \ k.graph,
                             ![t].graph = @ \cup {x},
                             ![t].info  = IF full THEN @ ELSE @ \cup {x}]
      NotFound == task' = [task EXCEPT ![t].stack = @ \ {x}, ![t].graph = @ \cup {x}]
  IN
  /\ k.pc = "fetch"
  /\ x \in k.stack
  /\ \/ x \in outliers /\ Found /\ UNCHANGED <<outliers, bad>>
     \/ x \notin outliers /\ InTimeline(x) /\ NotFound /\ UNCHANGED <<outliers, bad>>
     \/ CanBeFetched(x) /\ Found /\ outliers' = outliers \cup {x} /\ UNCHANGED bad
     \/ ~Known(x) /\ NotFound /\ bad' = bad \cup {x} /\ UNCHANGED outliers
  /\ missed' = IF InTimeline(x) \/ x \in task'[t].info THEN missed ELSE missed \cup {x}
  /\ UNCHANGED <<rows, ids, leaves, referenced, softFailed, eventState, roomState, counter,
                 fed, lock, prev, built, received, unguarded, torn, crashes>>

FetchDone(t) ==
  /\ task[t].pc = "fetch"
  /\ task[t].stack = {}
  /\ task' = [task EXCEPT ![t].pc = "prevs"]
  /\ UNCHANGED <<trees, bad, fed, lock, world>>

\* An event that is picked without its own prev_events, which nobody asked for.
Unasked(k, x) ==
  IF x \in NotAfter(k.from) THEN {p \in prev[x] : ~InTimeline(p)} ELSE {}

\* Mutant: the events that were fetched are taken in any order.
PickAnyPrev(t, x) ==
  LET k == task[t]
      skip == x \in bad \/ k.errors >= MaxErrors \/ x \notin k.info \/ Time[x] < k.first IN
  /\ k.pc = "prevs"
  /\ x \in k.graph
  /\ task' = [task EXCEPT ![t].graph = @ \ {x}, ![t].info = @ \ {x},
                          ![t].pc    = IF skip THEN "prevs" ELSE "upgrade",
                          ![t].cur   = IF skip THEN @ ELSE x]
  /\ bad' = IF k.errors >= MaxErrors THEN bad \cup {x} ELSE bad
  /\ missed' = missed \cup IF skip THEN {x} \ {p \in Events : InTimeline(p)} ELSE Unasked(k, x)
  /\ UNCHANGED <<trees, fed, lock, prev, built, received, unguarded, torn, crashes>>

\* The next of the sorted prev events: one whose own prev events are done, if they
\* were asked for.  It is skipped while it is backed off from, when there is nothing
\* to handle or when it is too old, and backed off from after too many errors.  One
\* with the very time of the first event is handled although its own prev events
\* were not asked for.
PickPrev(t, x) ==
  LET k == task[t]
      skip == x \in bad \/ k.errors >= MaxErrors \/ x \notin k.info \/ Time[x] < k.first IN
  /\ k.pc = "prevs"
  /\ x \in k.graph
  /\ x \in k.info \ NotAfter(k.from) => prev[x] \cap k.graph = {}
  /\ task' = [task EXCEPT ![t].graph = @ \ {x}, ![t].info = @ \ {x},
                          ![t].pc    = IF skip THEN "prevs" ELSE "upgrade",
                          ![t].cur   = IF skip THEN @ ELSE x]
  /\ bad' = IF k.errors >= MaxErrors THEN bad \cup {x} ELSE bad
  /\ missed' = missed \cup IF skip THEN {x} \ {p \in Events : InTimeline(p)} ELSE Unasked(k, x)
  /\ UNCHANGED <<trees, fed, lock, prev, built, received, unguarded, torn, crashes>>

\* Done with prev events, now handling the incoming event
PickIncoming(t) ==
  /\ task[t].pc = "prevs"
  /\ task[t].graph = {}
  /\ task' = [task EXCEPT ![t].pc = "upgrade", ![t].cur = task[t].ev]
  /\ UNCHANGED <<trees, bad, fed, lock, world>>

----------------------------------------------------------------------------
(* upgrade_outlier_to_timeline_pdu.                                        *)

\* It returns: to the loop over the prev events, where a failure is counted, or
\* to the route.
Return(t, failed) ==
  LET k == task[t] IN
  IF k.cur # k.ev
  THEN /\ task' = [task EXCEPT ![t] = [k EXCEPT !.pc = "prevs", !.cur = k.ev, !.at = {},
                     !.soft = FALSE, !.exts = {}, !.count = NoCount,
                     !.errors = IF failed THEN @ + 1 ELSE @]]
       /\ lock' = IF lock = t THEN NoTask ELSE lock
       /\ bad' = IF failed THEN bad \cup {k.cur} ELSE bad
       /\ missed' = IF failed THEN missed \cup {k.cur} ELSE missed
       /\ UNCHANGED fed
  ELSE /\ Finish(t)
       /\ UNCHANGED <<bad, missed>>

\* Already in the timeline: Ok.  Soft failed before: an error.
UpgradeSkips(t) ==
  LET x == task[t].cur IN
  /\ task[t].pc = "upgrade"
  /\ InTimeline(x) \/ x \in softFailed
  /\ Return(t, ~InTimeline(x))
  /\ UNCHANGED <<trees, prev, built, received, unguarded, torn, crashes>>

\* The forks the prev events make: extremity_sstatehashes has one event per state,
\* so of two prev events with the same state only one counts.
Forks(x) ==
  {F \in SUBSET prev[x] : \A p \in prev[x] : \E q \in F : /\ eventState[q] = eventState[p]
                                                        /\ \A o \in F \ {q} : eventState[o] # eventState[p]}

\* The states the prev events lead to, if all of them are known with their
\* state.
KnownStates(x) ==
  IF \E p \in prev[x] : eventState[p] = NoState \/ ~Known(p) THEN {}
  ELSE UNION {Resolutions({StateAfter(p) : p \in F}) : F \in Forks(x)}

\* The state of a single prev event is known but not the event.
PrevIsLost(x) ==
  /\ Cardinality(prev[x]) = 1
  /\ \E p \in prev[x] : eventState[p] # NoState /\ ~Known(p)

\* Mutant: nothing is remembered of events that were soft failed.
StateOfAnyEvent(t) ==
  LET x == task[t].cur IN
  /\ task[t].pc = "upgrade"
  /\ ~InTimeline(x)
  /\ \E at \in KnownStates(x) : /\ Allowed(x, at)
                                /\ task' = [task EXCEPT ![t].pc = "softcheck", ![t].at = at]
  /\ UNCHANGED <<trees, bad, fed, lock, world>>

\* 11. Check the auth of the event passes based on the state of the event, which
\* is computed from the prev events.
StateFromPrevs(t) ==
  LET x == task[t].cur IN
  /\ task[t].pc = "upgrade"
  /\ ~InTimeline(x) /\ x \notin softFailed
  /\ \E at \in KnownStates(x) : /\ Allowed(x, at)
                                /\ task' = [task EXCEPT ![t].pc = "softcheck", ![t].at = at]
  /\ UNCHANGED <<trees, bad, fed, lock, world>>

\* 10. Fetch missing state by calling /state_ids: any state with the create event
\* whose events can be had.  Also when the resolution of several states fails.
StateFromRemote(t) ==
  LET x == task[t].cur IN
  /\ task[t].pc = "upgrade"
  /\ ~InTimeline(x) /\ x \notin softFailed
  /\ ~PrevIsLost(x)
  /\ KnownStates(x) = {} \/ Cardinality(prev[x]) > 1
  /\ \E at \in SUBSET (StateEvents \cap ({Root} \cup Remote \cup {e \in Local : Known(e)})) :
       /\ Allowed(x, at)
       /\ x \notin at
       /\ task' = [task EXCEPT ![t].pc = "softcheck", ![t].at = at]
       /\ outliers' = outliers \cup {s \in at : ~Known(s)}
  /\ UNCHANGED <<rows, ids, leaves, referenced, softFailed, eventState, roomState, counter,
                 bad, fed, lock, world>>

\* The state cannot be had, or the event is not allowed in it.
UpgradeFails(t) ==
  /\ task[t].pc = "upgrade"
  /\ ~InTimeline(task[t].cur) /\ task[t].cur \notin softFailed
  /\ Return(t, TRUE)
  /\ UNCHANGED <<trees, prev, built, received, unguarded, torn, crashes>>

\* Soft fail check before doing state res: the current state is read without the
\* room's lock.
SoftFailCheck(t) ==
  /\ task[t].pc = "softcheck"
  /\ task' = [task EXCEPT ![t].pc = "lock", ![t].soft = ~Allowed(task[t].cur, roomState)]
  /\ UNCHANGED <<trees, bad, fed, lock, world>>

\* Mutant: the new event is not one of the extremities.
ExtremitiesWithoutEvent(t) ==
  LET x == task[t].cur
      rest == {l \in leaves \ prev[x] : l \notin referenced} IN
  /\ task[t].pc = "lock"
  /\ lock = NoTask
  /\ lock' = t
  /\ task' = [task EXCEPT ![t].pc   = IF x \in StateEvents THEN "force" ELSE "state",
                          ![t].exts = rest]
  /\ unguarded' = IF task[t].kind = "direct" THEN unguarded \cup {x} ELSE unguarded
  /\ UNCHANGED <<trees, bad, fed, prev, built, received, torn, missed, crashes>>

\* Lock the room and calculate its extremities after the event.
LockState(t) ==
  LET x == task[t].cur
      rest == {l \in leaves \ prev[x] : l \notin referenced} IN
  /\ task[t].pc = "lock"
  /\ lock = NoTask
  /\ lock' = t
  /\ task' = [task EXCEPT ![t].pc   = IF x \in StateEvents THEN "force" ELSE "state",
                          ![t].exts = IF task[t].soft THEN rest ELSE rest \cup {x}]
  /\ unguarded' = IF task[t].kind = "direct" THEN unguarded \cup {x} ELSE unguarded
  /\ UNCHANGED <<trees, bad, fed, prev, built, received, torn, missed, crashes>>

\* 13. Use state resolution to find new room state, and force_state.
ForceState(t) ==
  LET k == task[t] IN
  /\ k.pc = "force"
  /\ \E new \in Resolutions({roomState, k.at \cup {k.cur}}) : roomState' = new
  /\ task' = [task EXCEPT ![t].pc = "state"]
  /\ UNCHANGED <<rows, ids, outliers, leaves, referenced, softFailed, eventState, counter,
                 bad, fed, lock, world>>

ResolveFails(t) ==
  /\ task[t].pc = "force"
  /\ Return(t, TRUE)
  /\ UNCHANGED <<trees, prev, built, received, unguarded, torn, crashes>>

\* append_incoming_pdu: set_event_state
SetEventState(t) ==
  LET k == task[t] IN
  /\ k.pc = "state"
  /\ eventState' = [eventState EXCEPT ![k.cur] = k.at]
  /\ task' = [task EXCEPT ![t].pc = "reference"]
  /\ UNCHANGED <<rows, ids, outliers, leaves, referenced, softFailed, roomState, counter,
                 bad, fed, lock, world>>

----------------------------------------------------------------------------
(* append_pdu, shared by local and incoming events.                        *)

\* Where a task goes when the leaves are L.
NextLeaf(k, L) ==
  IF ~(k.exts \subseteq L) THEN "leaf" ELSE IF k.soft THEN "softfail" ELSE "row"

\* mark_as_referenced
MarkAsReferenced(t) ==
  LET k == task[t] IN
  /\ k.pc = "reference"
  /\ referenced' = referenced \cup prev[k.cur]
  /\ task' = [task EXCEPT ![t].pc = IF leaves = {} THEN NextLeaf(k, {}) ELSE "unleaf"]
  /\ UNCHANGED <<rows, ids, outliers, leaves, softFailed, eventState, roomState, counter,
                 bad, fed, lock, world>>

\* set_forward_extremities removes the old ones ...
RemoveLeaf(t) ==
  LET k == task[t] IN
  /\ k.pc = "unleaf"
  /\ \E l \in leaves :
       /\ leaves' = leaves \ {l}
       /\ task' = [task EXCEPT ![t].pc = IF leaves \ {l} = {} THEN NextLeaf(k, {}) ELSE "unleaf"]
  /\ UNCHANGED <<rows, ids, outliers, referenced, softFailed, eventState, roomState, counter,
                 bad, fed, lock, world>>

\* ... and inserts the new ones.
InsertLeaf(t) ==
  LET k == task[t] IN
  /\ k.pc = "leaf"
  /\ \E l \in k.exts \ leaves :
       /\ leaves' = leaves \cup {l}
       /\ task' = [task EXCEPT ![t].pc = NextLeaf(k, leaves \cup {l})]
  /\ UNCHANGED <<rows, ids, outliers, referenced, softFailed, eventState, roomState, counter,
                 bad, fed, lock, world>>

\* Soft fail, we keep the event as an outlier but don't add it to the timeline
SoftFail(t) ==
  /\ task[t].pc = "softfail"
  /\ softFailed' = softFailed \cup {task[t].cur}
  /\ Return(t, TRUE)
  /\ UNCHANGED <<rows, ids, outliers, leaves, referenced, eventState, roomState, counter,
                 prev, built, received, unguarded, torn, crashes>>

\* Mutant: the outlier is removed with the first write.
InsertRowOnly(t) ==
  LET k == task[t] IN
  /\ k.pc = "row"
  /\ counter' = counter + 1
  /\ rows' = rows \cup {[count |-> counter, event |-> k.cur]}
  /\ outliers' = outliers \ {k.cur}
  /\ task' = [task EXCEPT ![t].pc = "id", ![t].count = counter]
  /\ UNCHANGED <<ids, leaves, referenced, softFailed, eventState, roomState,
                 bad, fed, lock, world>>

\* The row under the next count, or in front of all others for a backfill.
InsertRow(t) ==
  LET k == task[t]
      c == IF k.kind = "backfill" THEN -counter ELSE counter IN
  /\ k.pc = "row"
  /\ counter' = counter + 1
  /\ rows' = rows \cup {[count |-> c, event |-> k.cur]}
  /\ task' = [task EXCEPT ![t].pc = "id", ![t].count = c]
  /\ UNCHANGED <<ids, outliers, leaves, referenced, softFailed, eventState, roomState,
                 bad, fed, lock, world>>

InsertId(t) ==
  LET k == task[t] IN
  /\ k.pc = "id"
  /\ ids' = [ids EXCEPT ![k.cur] = k.count]
  /\ task' = [task EXCEPT ![t].pc = "unoutlier"]
  /\ UNCHANGED <<rows, outliers, leaves, referenced, softFailed, eventState, roomState, counter,
                 bad, fed, lock, world>>

RemoveOutlier(t) ==
  LET k == task[t] IN
  /\ k.pc = "unoutlier"
  /\ outliers' = outliers \ {k.cur}
  /\ IF k.kind = "local"
     THEN task' = [task EXCEPT ![t].pc = "roomstate"] /\ UNCHANGED <<bad, fed, lock, missed>>
     ELSE Return(t, FALSE)
  /\ UNCHANGED <<rows, ids, leaves, referenced, softFailed, eventState, roomState, counter,
                 prev, built, received, unguarded, torn, crashes>>

\* "We set the room state after inserting the pdu"
SetRoomState(t) ==
  /\ task[t].pc = "roomstate"
  /\ roomState' = task[t].at
  /\ Finish(t)
  /\ UNCHANGED <<rows, ids, outliers, leaves, referenced, softFailed, eventState, counter,
                 bad, world>>

----------------------------------------------------------------------------
\* An entry of bad_event_ratelimiter is older than its back-off.
BackoffElapses(e) ==
  /\ e \in bad
  /\ bad' = bad \ {e}
  /\ UNCHANGED <<trees, fed, lock, task, world>>

\* The process stops and starts again: the trees remain.
Crash ==
  /\ crashes < MaxCrashes
  /\ crashes' = crashes + 1
  /\ torn' = torn \cup {task[t].count : t \in {u \in Tasks : task[u].pc = "id"}}
  /\ missed' = missed \cup {task[t].cur : t \in {u \in Tasks : task[u].pc \in {"leaf", "row"}}}
  /\ task' = [t \in Tasks |-> Idle]
  /\ fed' = NoTask
  /\ lock' = NoTask
  /\ bad' = {}
  /\ UNCHANGED <<trees, prev, built, received, unguarded>>

Handle(t) ==
  \/ SkipKnown(t) \/ Reject(t) \/ ReadFirst(t) \/ HandleOutlier(t)
  \/ \E x \in Events : FetchPrev(t, x) \/ PickPrev(t, x)
  \/ FetchDone(t) \/ PickIncoming(t)

Upgrade(t) ==
  \/ UpgradeSkips(t) \/ StateFromPrevs(t) \/ StateFromRemote(t) \/ UpgradeFails(t)
  \/ SoftFailCheck(t) \/ ForceState(t) \/ ResolveFails(t) \/ SetEventState(t)

Append(t) ==
  \/ MarkAsReferenced(t) \/ RemoveLeaf(t) \/ InsertLeaf(t) \/ SoftFail(t)
  \/ InsertRow(t) \/ InsertId(t) \/ RemoveOutlier(t) \/ SetRoomState(t)

Locks(t) == LockFederation(t) \/ LockState(t)

Next ==
  \/ \E t \in Tasks, e \in Local : BuildAndAppend(t, e) \/ BuildInvite(t, e)
  \/ \E t \in Tasks, e \in Remote, kind \in {"transaction", "direct", "backfill"} :
       Receive(t, e, kind)
  \/ \E t \in Tasks : Locks(t) \/ Handle(t) \/ Upgrade(t) \/ Append(t)
  \/ \E e \in Events : BackoffElapses(e)
  \/ Crash

Spec == Init /\ [][Next]_vars

----------------------------------------------------------------------------
(* Properties.                                                             *)

Pcs == {"idle", "federation", "check", "outlier", "fetch", "prevs", "upgrade", "softcheck", "lock",
        "force", "state", "reference", "unleaf", "leaf", "softfail", "row", "id",
        "unoutlier", "roomstate"}

\* The steps that change the room, between the lock and the end.
Changing == {"force", "state", "reference", "unleaf", "leaf", "softfail", "row", "id",
             "unoutlier", "roomstate"}

TaskRecord ==
  [pc : Pcs, kind : {"none", "local", "transaction", "direct", "backfill"},
   ev : Events, cur : Events, first : Nat, from : Nat, stack : SUBSET Events, graph : SUBSET Events,
   info : SUBSET Events, errors : Nat, at : SUBSET StateEvents, soft : BOOLEAN,
   exts : SUBSET Events, count : Int \cup {NoCount}]

\* Type correctness; an event built here has no more than PrevLimit prev events.
TypeOK ==
  /\ rows \subseteq [count : Int, event : Events]
  /\ ids \in [Events -> Int \cup {NoCount}]
  /\ outliers \subseteq Events
  /\ leaves \subseteq Events
  /\ referenced \subseteq Events
  /\ softFailed \subseteq Events
  /\ eventState \in [Events -> {NoState} \cup SUBSET StateEvents]
  /\ roomState \subseteq StateEvents
  /\ counter \in Nat
  /\ bad \subseteq Events
  /\ fed \in Tasks \cup {NoTask}
  /\ lock \in Tasks \cup {NoTask}
  /\ task \in [Tasks -> TaskRecord]
  /\ prev \in [Events -> SUBSET Events]
  /\ built \subseteq Local
  /\ received \in Nat
  /\ unguarded \subseteq Events
  /\ torn \subseteq Int
  /\ missed \subseteq Events
  /\ crashes \in Nat
  /\ \A e \in Local : Cardinality(prev[e]) =< PrevLimit

\* The id of an event leads to its row, whatever was interrupted: the code calls
\* anything else "Invalid pduid in eventid_pduid".
IdsPointToRows ==
  \A e \in Events : InTimeline(e) => [count |-> ids[e], event |-> e] \in rows

\* "We never have a moment in time where events in the current room state do not
\* exist": not for local and not for incoming events, nor for the stored state of
\* an event, and not after a crash.
StateEventsExist ==
  /\ \A s \in roomState : Known(s)
  /\ \A e \in Events : eventState[e] # NoState => \A s \in eventState[e] : Known(s)

\* An event that is only handled under the federation lock has one row.  The
\* exception is an event whose row was written without its id when the process
\* stopped: it is handled again.
OnlyTornRowsRepeat ==
  \A r, s \in rows : r.event = s.event /\ r # s
                       => r.event \in unguarded \/ r.count \in torn \/ s.count \in torn

\* "Skip the PDU if we already have it as a timeline event": no event has two
\* rows.
OneRowPerEvent == \A r, s \in rows : r.event = s.event => r = s

\* An event that is only handled under the federation lock and was soft failed is
\* never appended to the timeline.  A backfill may put it in front of it.
SoftFailedStaysOut ==
  \A r \in rows : r.event \in softFailed \ unguarded => r.count < 0 \/ r.count \in torn

\* The events an event follows come before it in the timeline, if they ever get
\* there, unless a handler had given up on them: they could not be fetched, were
\* refused or skipped, were not asked for as the event is as old as the first one
\* here, or a crash left them as a leaf without a row.
PrevEventsComeFirst ==
  \A r, s \in rows : r.event \in prev[s.event] \ missed /\ s.count > 0
                       => \E q \in rows : q.event = r.event /\ q.count < s.count

\* A room has an event for the next one to follow, except while its leaves are
\* replaced, after a crash in that moment, or after a soft failed event.
RoomKeepsALeaf ==
  leaves = {} => \/ \E t \in Tasks : task[t].pc \in {"leaf", "softfail"}
                 \/ crashes > 0
                 \/ softFailed # {}

\* Whoever changes the room holds its lock, so that no two do, and whoever holds a
\* lock does not wait for it: the federation lock is always taken first.
LocksExclude ==
  /\ \A t \in Tasks : task[t].pc \in Changing /\ task[t].kind # "backfill" => lock = t
  /\ \A t \in Tasks : lock = t => task[t].pc \in Changing
  /\ \A t \in Tasks : fed = t => task[t].pc \notin {"idle", "federation"}

\* "Since this PDU references all pdu_leaves we can update the leaves of the room":
\* an event of the timeline that no event follows is a leaf, so that a later one
\* will follow it.
EveryEndIsALeaf ==
  lock = NoTask /\ crashes = 0 => \A r \in rows : r.count > 0 => r.event \in leaves \cup referenced

\* "Check if the event passes auth based on the current state of the room, if not
\* soft fail it": an event of another server that is appended is allowed by the
\* room's state when it is.
AppendedEventIsAllowed ==
  [][\A t \in Tasks : InsertRow(t) /\ task[t].kind = "transaction"
                        => Allowed(task[t].cur, roomState)]_vars
=============================================================================
