-------------------------- MODULE RoomEventsProofs --------------------------
(***************************************************************************)
(* The safety of a room's trees, for any number of tasks, events and       *)
(* crashes.                                                                *)
(*                                                                         *)
(* Three inductive invariants, each on top of the ones before.  IInv ties  *)
(* what a task remembers between two steps to the trees: the row whose id  *)
(* it is about to write is there, the states it carries name known events, *)
(* and whoever is between the lock and the end has the lock.  A known      *)
(* event stays known (Grow), which is why states may be carried over the   *)
(* steps of others.  RInv says who may write a row: an event handled under *)
(* the federation lock is handled by one task, and that task found neither *)
(* an id nor a soft failure for it.  PInv says what a task has done before *)
(* it writes a row: every event that its own follows has a row or was      *)
(* given up, because it was on the task's list or was a leaf while nobody  *)
(* held the lock, and what is done stays done (Kept).                      *)
(***************************************************************************)
EXTENDS RoomEvents, FiniteSetTheorems, TLAPS

\* What a task k knows of itself: of the row it wrote, of the event it handles.
StepOf(k) ==
  /\ k.pc \in {"federation", "check", "outlier"} => k.cur = k.ev
  /\ k.pc = "id" => k.count \in Int /\ [count |-> k.count, event |-> k.cur] \in rows
  /\ k.pc = "force" => k.cur \in StateEvents
  /\ k.pc \in {"unoutlier", "roomstate"} => InTimeline(k.cur)
  /\ k.kind = "local" => /\ k.pc \in Changing \ {"force", "state", "softfail"}
                         /\ ~k.soft /\ k.cur = k.ev

StepInv(t) == StepOf(task[t])

\* The events a task relies on exist.  The state after a local event has the event
\* itself, which exists from the moment its id is written.
KnownOf(k) ==
  /\ k.kind # "local" /\ k.pc \notin {"idle", "federation", "check", "outlier"} => Known(k.cur) /\ Known(k.ev)
  /\ \A x \in k.info : Known(x)
  /\ \A s \in k.at : \/ Known(s)
                     \/ k.kind = "local" /\ s = k.cur /\ k.pc \notin {"unoutlier", "roomstate"}

KnownInv(t) == KnownOf(task[t])

IInv ==
  /\ TypeOK
  /\ \A t \in Tasks : StepInv(t)
  /\ \A t \in Tasks : KnownInv(t)
  /\ LocksExclude
  /\ IdsPointToRows
  /\ StateEventsExist


----------------------------------------------------------------------------
(* What every step of a task has in common.                                *)

TreesOK ==
  /\ rows \subseteq [count : Int, event : Events]
  /\ ids \in [Events -> Int \cup {NoCount}]
  /\ outliers \subseteq Events /\ leaves \subseteq Events
  /\ referenced \subseteq Events /\ softFailed \subseteq Events
  /\ eventState \in [Events -> {NoState} \cup SUBSET StateEvents]
  /\ roomState \subseteq StateEvents
  /\ counter \in Nat

WorldOK ==
  /\ bad \subseteq Events
  /\ prev \in [Events -> SUBSET Events]
  /\ built \subseteq Local
  /\ received \in Nat
  /\ unguarded \subseteq Events
  /\ torn \subseteq Int
  /\ missed \subseteq Events
  /\ crashes \in Nat
  /\ \A e \in Local : Cardinality(prev[e]) =< PrevLimit

\* The type invariant, in the parts that the steps disturb separately.
LEMMA TypeParts ==
  TypeOK <=> /\ TreesOK /\ WorldOK
             /\ fed \in Tasks \cup {NoTask} /\ lock \in Tasks \cup {NoTask}
             /\ task \in [Tasks -> TaskRecord]
  BY DEF TypeOK, TreesOK, WorldOK

\* Nothing that is stored of an event is lost.
Grow ==
  /\ rows \subseteq rows'
  /\ \A e \in Events : InTimeline(e) => InTimeline(e)'
  /\ \A e \in Events : Known(e) => Known(e)'

\* Task t gets the locks, drops them or leaves them alone.
LockMove(t, r) ==
  /\ \/ lock' = lock
     \/ lock = NoTask /\ lock' = t
     \/ lock = t /\ lock' = NoTask
  /\ \/ fed' = fed
     \/ fed = NoTask /\ fed' = t
     \/ fed = t /\ fed' = NoTask
  /\ r.pc \in Changing /\ r.kind # "backfill" => lock' = t
  /\ lock' = t => r.pc \in Changing
  /\ fed' = t => r.pc \notin {"idle", "federation"}

\* A step of task t that takes it to r keeps the invariant if it keeps the parts
\* that are about t and about the trees.
LEMMA OneTask ==
  ASSUME IInv, NEW t \in Tasks, NEW r \in TaskRecord, task' = [task EXCEPT ![t] = r],
         TreesOK', WorldOK', Grow, LockMove(t, r),
         StepInv(t)', KnownInv(t)', IdsPointToRows', StateEventsExist'
  PROVE  IInv'
<1>1. task \in [Tasks -> TaskRecord] /\ fed \in Tasks \cup {NoTask} /\ lock \in Tasks \cup {NoTask}
  BY DEF IInv, TypeOK
<1>2. task' \in [Tasks -> TaskRecord] /\ task'[t] = r /\ \A u \in Tasks \ {t} : task'[u] = task[u]
  BY <1>1
<1>3. TypeOK'
  BY <1>1, <1>2, TypeParts DEF LockMove, TypeOK, TreesOK, WorldOK
<1>4. ASSUME NEW u \in Tasks \ {t}
      PROVE  StepInv(u)' /\ KnownInv(u)'
  <2>1. task'[u] = task[u] /\ task[u] \in TaskRecord /\ StepInv(u) /\ KnownInv(u)
    BY <1>1, <1>2 DEF IInv
  <2>2. task[u].cur \in Events /\ task[u].ev \in Events /\ task[u].info \subseteq Events
        /\ task[u].at \subseteq Events
    BY <2>1, EventsAssumption DEF TaskRecord
  <2>3. StepInv(u)'
    BY <2>1, <2>2 DEF StepInv, StepOf, Grow
  <2>4. KnownInv(u)'
    BY <2>1, <2>2 DEF KnownInv, KnownOf, Grow
  <2> QED
    BY <2>3, <2>4
<1>5. LocksExclude'
  <2>1. LocksExclude
    BY DEF IInv
  <2>2. t # NoTask /\ \A u \in Tasks : u # NoTask
    BY ValuesAssumption
  <2> QED
    BY <1>2, <2>1, <2>2 DEF LocksExclude, LockMove
<1> QED
  BY <1>3, <1>4, <1>5 DEF IInv

\* Where only memory changes, nothing is lost and the trees are as they were.
LEMMA QuietTrees ==
  ASSUME IInv, UNCHANGED trees
  PROVE  /\ TreesOK' /\ Grow /\ IdsPointToRows' /\ StateEventsExist'
         /\ \A e : Known(e)' <=> Known(e)
<1>1. /\ rows' = rows /\ ids' = ids /\ outliers' = outliers /\ leaves' = leaves
      /\ referenced' = referenced /\ softFailed' = softFailed /\ eventState' = eventState
      /\ roomState' = roomState /\ counter' = counter
  BY DEF trees
<1>2. TreesOK'
  BY <1>1, TypeParts DEF IInv, TreesOK
<1>3. Grow /\ \A e : Known(e)' <=> Known(e)
  BY <1>1 DEF Grow, InTimeline, Known
<1>4. IdsPointToRows' /\ StateEventsExist'
  BY <1>1, <1>3 DEF IInv, IdsPointToRows, StateEventsExist, InTimeline, Known
<1> QED
  BY <1>2, <1>3, <1>4

\* What the types say of the fields of a task.
LEMMA Fields ==
  ASSUME TypeOK, NEW t \in Tasks
  PROVE  /\ task[t] \in TaskRecord /\ task[t].pc \in Pcs
         /\ task[t].cur \in Events /\ task[t].ev \in Events
         /\ task[t].info \subseteq Events /\ task[t].graph \subseteq Events
         /\ task[t].stack \subseteq Events /\ task[t].exts \subseteq Events
         /\ task[t].at \subseteq StateEvents /\ task[t].errors \in Nat
         /\ task[t].soft \in BOOLEAN /\ task[t].count \in Int \cup {NoCount}
         /\ task[t].kind \in {"none", "local", "transaction", "direct", "backfill"}
         /\ prev[task[t].cur] \subseteq Events /\ prev[task[t].ev] \subseteq Events
<1>1. task[t] \in TaskRecord /\ prev \in [Events -> SUBSET Events]
  BY DEF TypeOK
<1>2. task[t].cur \in Events /\ task[t].ev \in Events
  BY <1>1 DEF TaskRecord
<1> QED
  BY <1>1, <1>2 DEF TaskRecord

\* A task without a request.
LEMMA IdleType == Idle \in TaskRecord
  BY EventsAssumption DEF Idle, TaskRecord, Pcs, Events

----------------------------------------------------------------------------
(* The end of a request, and of the handling of one event.                 *)

\* A request that ends leaves nothing in memory.
LEMMA FinishStep ==
  ASSUME IInv, NEW t \in Tasks, Finish(t),
         TreesOK', WorldOK', Grow, IdsPointToRows', StateEventsExist'
  PROVE  IInv'
<1>1. task' = [task EXCEPT ![t] = Idle] /\ Idle \in TaskRecord
  BY IdleType DEF Finish
<1>2. task'[t] = Idle
  BY <1>1 DEF IInv, TypeOK
<1>3. StepInv(t)' /\ KnownInv(t)'
  BY <1>2 DEF StepInv, StepOf, KnownInv, KnownOf, Idle
<1>4. LockMove(t, Idle)
  BY ValuesAssumption DEF Finish, LockMove, Idle, Changing
<1> QED
  BY <1>1, <1>3, <1>4, OneTask

\* upgrade_outlier_to_timeline_pdu returns to the loop or to the route.
LEMMA ReturnStep ==
  ASSUME IInv, NEW t \in Tasks, NEW failed, Return(t, failed),
         task[t].kind # "local", task[t].pc \notin {"idle", "federation", "check", "outlier"},
         UNCHANGED <<prev, built, received, unguarded, torn, crashes>>,
         TreesOK', Grow, IdsPointToRows', StateEventsExist'
  PROVE  IInv'
<1> DEFINE k == task[t]
           r == [k EXCEPT !.pc = "prevs", !.cur = k.ev, !.at = {}, !.soft = FALSE,
                          !.exts = {}, !.count = NoCount,
                          !.errors = IF failed THEN k.errors + 1 ELSE k.errors]
<1>0. TypeOK /\ StepInv(t) /\ KnownInv(t)
  BY DEF IInv
<1>1. WorldOK'
  <2>1. k.cur \in Events
    BY <1>0, Fields
  <2>2. bad' \subseteq Events /\ missed' \subseteq Events
    BY <1>0, <2>1 DEF Return, TypeOK
  <2> QED
    BY <1>0, <2>2 DEF TypeOK, WorldOK
<1>2. CASE k.cur = k.ev
  BY <1>1, <1>2, FinishStep DEF Return
<1>3. CASE k.cur # k.ev
  <2>1. task' = [task EXCEPT ![t] = r] /\ UNCHANGED fed
        /\ lock' = IF lock = t THEN NoTask ELSE lock
    BY <1>3 DEF Return
  <2>2. r \in TaskRecord
    <3>1. k \in TaskRecord /\ k.ev \in Events /\ (IF failed THEN k.errors + 1 ELSE k.errors) \in Nat
      BY <1>0, Fields
    <3> QED
      BY <3>1, ZenonT(60) DEF TaskRecord, Pcs
  <2>3. task'[t] = r
    BY <2>1, <1>0 DEF TypeOK
  <2>4. /\ r.pc = "prevs" /\ r.cur = k.ev /\ r.ev = k.ev /\ r.at = {} /\ r.info = k.info
        /\ r.kind = k.kind
    BY <2>2, <1>0, Fields DEF TaskRecord
  <2>5. StepInv(t)' /\ KnownInv(t)'
    <3>1. Known(k.ev) /\ \A x \in k.info : Known(x)
      BY <1>0 DEF KnownInv, KnownOf
    <3>2. k.ev \in Events /\ k.info \subseteq Events
      BY <1>0, Fields
    <3>3. \A e \in {k.ev} \cup k.info : Known(e)'
      BY <3>1, <3>2 DEF Grow
    <3> QED
      BY <2>3, <2>4, <3>3 DEF StepInv, StepOf, KnownInv, KnownOf
  <2>6. LockMove(t, r)
    BY <2>1, <2>4, ValuesAssumption DEF LockMove, Changing
  <2> HIDE DEF r
  <2> QED
    BY <1>1, <2>1, <2>2, <2>5, <2>6, OneTask
<1> QED
  BY <1>2, <1>3

----------------------------------------------------------------------------
(* Steps that write no tree.                                               *)

\* Without a write, what a task knows is as true after the step as before.
LEMMA QuietStep ==
  ASSUME IInv, NEW t \in Tasks, NEW r \in TaskRecord, task' = [task EXCEPT ![t] = r],
         UNCHANGED trees, WorldOK', LockMove(t, r), StepOf(r), KnownOf(r)
  PROVE  IInv'
<1>1. task'[t] = r
  BY DEF IInv, TypeOK
<1>2. rows' = rows /\ ids' = ids /\ outliers' = outliers
  BY DEF trees
<1>3. StepInv(t)' /\ KnownInv(t)'
  BY <1>1, <1>2 DEF StepInv, StepOf, KnownInv, KnownOf, Known, InTimeline
<1> QED
  BY <1>3, QuietTrees, OneTask

\* The federation lock is taken.
LEMMA LockFederationStep ==
  ASSUME IInv, NEW t \in Tasks, LockFederation(t)
  PROVE  IInv'
<1> DEFINE r == [task[t] EXCEPT !.pc = "check"]
<1>0. TypeOK /\ StepInv(t) /\ KnownInv(t) /\ task[t] \in TaskRecord /\ LocksExclude
  BY Fields DEF IInv
<1>1. /\ task' = [task EXCEPT ![t] = r] /\ UNCHANGED trees /\ UNCHANGED <<bad, world>>
      /\ fed = NoTask /\ fed' = t /\ lock' = lock /\ task[t].pc = "federation"
  BY DEF LockFederation
<1>2. r \in TaskRecord
  BY <1>0 DEF TaskRecord, Pcs
<1>3. WorldOK'
  BY <1>0, <1>1 DEF TypeOK, WorldOK, world
<1>4. LockMove(t, r)
  BY <1>0, <1>1 DEF LockMove, LocksExclude, Changing, TaskRecord
<1>5. StepOf(r) /\ KnownOf(r)
  BY <1>0, <1>1 DEF StepInv, StepOf, KnownInv, KnownOf, Changing, TaskRecord
<1> HIDE DEF r
<1> QED
  BY <1>1, <1>2, <1>3, <1>4, <1>5, QuietStep

\* A request arrives.
LEMMA ReceiveStep ==
  ASSUME IInv, NEW t \in Tasks, NEW e \in Remote, NEW kind \in {"transaction", "direct", "backfill"},
         Receive(t, e, kind)
  PROVE  IInv'
<1> DEFINE r == [Idle EXCEPT !.pc = IF kind = "direct" THEN "check" ELSE "federation",
                             !.kind = kind, !.ev = e, !.cur = e]
<1>0. TypeOK /\ LocksExclude /\ e \in Events
  BY DEF IInv, Events
<1>1. /\ task' = [task EXCEPT ![t] = r] /\ UNCHANGED trees /\ task[t].pc = "idle"
      /\ UNCHANGED <<bad, fed, lock, prev, built, unguarded, torn, missed, crashes>>
      /\ received' = received + 1
  BY DEF Receive
<1>2. r \in TaskRecord
  BY <1>0, IdleType DEF TaskRecord, Pcs
<1>3. WorldOK'
  BY <1>0, <1>1 DEF TypeOK, WorldOK
<1>4. LockMove(t, r)
  BY <1>0, <1>1, IdleType DEF LockMove, LocksExclude, Changing, TaskRecord
<1>5. StepOf(r) /\ KnownOf(r)
  BY <1>0, <1>1 DEF StepOf, KnownOf, Idle
<1> HIDE DEF r
<1> QED
  BY <1>1, <1>2, <1>3, <1>4, <1>5, QuietStep

\* An invite is built.
LEMMA BuildInviteStep ==
  ASSUME IInv, NEW t \in Tasks, NEW e \in Local, BuildInvite(t, e)
  PROVE  IInv'
<1> DEFINE r == [Idle EXCEPT !.pc = "check", !.kind = "direct", !.ev = e, !.cur = e]
<1>0. TypeOK /\ LocksExclude /\ e \in Events
  BY DEF IInv, Events
<1>1. /\ task' = [task EXCEPT ![t] = r] /\ UNCHANGED trees /\ task[t].pc = "idle"
      /\ UNCHANGED <<bad, fed, lock, unguarded, torn, missed, crashes>>
      /\ received' = received + 1 /\ built' = built \cup {e}
  BY DEF BuildInvite
<1>2. r \in TaskRecord
  BY <1>0, IdleType DEF TaskRecord, Pcs
<1>3. WorldOK'
  <2>1. PICK P \in PrevChoices : prev' = [prev EXCEPT ![e] = P]
    BY DEF BuildInvite
  <2>2. P \subseteq Events /\ Cardinality(P) =< PrevLimit
    BY <1>0, <2>1 DEF PrevChoices, TypeOK
  <2> QED
    BY <1>0, <1>1, <2>1, <2>2 DEF TypeOK, WorldOK, Events
<1>4. LockMove(t, r)
  BY <1>0, <1>1, IdleType DEF LockMove, LocksExclude, Changing, TaskRecord
<1>5. StepOf(r) /\ KnownOf(r)
  BY <1>0, <1>1 DEF StepOf, KnownOf, Idle
<1> HIDE DEF r
<1> QED
  BY <1>1, <1>2, <1>3, <1>4, <1>5, QuietStep

\* The time of the first event is read.
LEMMA ReadFirstStep ==
  ASSUME IInv, NEW t \in Tasks, ReadFirst(t)
  PROVE  IInv'
<1> DEFINE k == task[t]
<1>0. TypeOK /\ StepInv(t) /\ KnownInv(t) /\ k \in TaskRecord /\ LocksExclude
  BY Fields DEF IInv
<1>1. PICK q \in rows : task' = [task EXCEPT ![t].pc = "outlier", ![t].first = Time[q.event]]
  BY DEF ReadFirst
<1> DEFINE r == [k EXCEPT !.pc = "outlier", !.first = Time[q.event]]
<1>2. /\ task' = [task EXCEPT ![t] = r] /\ UNCHANGED trees /\ UNCHANGED <<bad, fed, lock, world>>
      /\ k.pc = "check"
  BY <1>1 DEF ReadFirst
<1>3. Time[q.event] \in Nat
  BY <1>0, EventsAssumption DEF TypeOK
<1>4. r \in TaskRecord
  BY <1>0, <1>3 DEF TaskRecord, Pcs
<1>5. WorldOK'
  BY <1>0, <1>2 DEF TypeOK, WorldOK, world
<1>6. LockMove(t, r)
  BY <1>0, <1>2 DEF LockMove, LocksExclude, Changing, TaskRecord
<1>7. StepOf(r) /\ KnownOf(r)
  BY <1>0, <1>2 DEF StepInv, StepOf, KnownInv, KnownOf, Changing, TaskRecord
<1> HIDE DEF r
<1> QED
  BY <1>2, <1>4, <1>5, <1>6, <1>7, QuietStep

\* All prev events have been looked for.
LEMMA FetchDoneStep ==
  ASSUME IInv, NEW t \in Tasks, FetchDone(t)
  PROVE  IInv'
<1> DEFINE r == [task[t] EXCEPT !.pc = "prevs"]
<1>0. TypeOK /\ StepInv(t) /\ KnownInv(t) /\ task[t] \in TaskRecord /\ LocksExclude
  BY Fields DEF IInv
<1>1. /\ task' = [task EXCEPT ![t] = r] /\ UNCHANGED trees /\ UNCHANGED <<bad, fed, lock, world>>
      /\ task[t].pc = "fetch"
  BY DEF FetchDone
<1>2. r \in TaskRecord
  BY <1>0 DEF TaskRecord, Pcs
<1>3. WorldOK'
  BY <1>0, <1>1 DEF TypeOK, WorldOK, world
<1>4. LockMove(t, r)
  BY <1>0, <1>1 DEF LockMove, LocksExclude, Changing, TaskRecord
<1>5. StepOf(r) /\ KnownOf(r)
  BY <1>0, <1>1 DEF StepInv, StepOf, KnownInv, KnownOf, Changing, TaskRecord
<1> HIDE DEF r
<1> QED
  BY <1>1, <1>2, <1>3, <1>4, <1>5, QuietStep

\* The next prev event is taken, or skipped.
LEMMA PickPrevStep ==
  ASSUME IInv, NEW t \in Tasks, NEW x \in Events, PickPrev(t, x)
  PROVE  IInv'
<1> DEFINE k == task[t]
           skip == x \in bad \/ k.errors >= MaxErrors \/ x \notin k.info \/ Time[x] < k.first
           r == [k EXCEPT !.graph = k.graph \ {x}, !.info = k.info \ {x},
                          !.pc = IF skip THEN "prevs" ELSE "upgrade",
                          !.cur = IF skip THEN k.cur ELSE x]
<1>0. TypeOK /\ StepInv(t) /\ KnownInv(t) /\ k \in TaskRecord /\ LocksExclude
  BY Fields DEF IInv
<1>1. /\ task' = [task EXCEPT ![t] = r] /\ UNCHANGED trees /\ k.pc = "prevs"
      /\ UNCHANGED <<fed, lock, prev, built, received, unguarded, torn, crashes>>
      /\ bad' \subseteq bad \cup {x} /\ missed' \subseteq missed \cup {x} \cup prev[x]
  BY DEF PickPrev, Unasked
<1> HIDE DEF skip
<1>6. missed' \subseteq Events
  BY <1>0, <1>1 DEF TypeOK
<1>2. r \in TaskRecord
  <2>1. k.graph \ {x} \subseteq Events /\ k.info \ {x} \subseteq Events /\ k.cur \in Events
    BY <1>0, Fields
  <2> QED
    BY <1>0, <2>1 DEF TaskRecord, Pcs
<1>3. WorldOK'
  BY <1>0, <1>1, <1>6 DEF TypeOK, WorldOK
<1>4. LockMove(t, r)
  BY <1>0, <1>1 DEF LockMove, LocksExclude, Changing, TaskRecord
<1>5. StepOf(r) /\ KnownOf(r)
  <2>1. ~skip => x \in k.info
    BY DEF skip
  <2>2. k.kind # "local" /\ Known(k.cur) /\ Known(k.ev) /\ \A y \in k.info : Known(y)
    BY <1>0, <1>1 DEF StepInv, StepOf, KnownInv, KnownOf, Changing
  <2>3. /\ r.pc \in {"prevs", "upgrade"} /\ r.cur \in {k.cur} \cup k.info /\ r.ev = k.ev
        /\ r.info \subseteq k.info /\ r.at = k.at /\ r.kind = k.kind
    BY <1>0, <2>1 DEF TaskRecord
  <2> HIDE DEF r
  <2> QED
    BY <1>0, <2>2, <2>3 DEF StepOf, KnownInv, KnownOf
<1> HIDE DEF r
<1> QED
  BY <1>1, <1>2, <1>3, <1>4, <1>5, QuietStep

\* The incoming event itself is taken.
LEMMA PickIncomingStep ==
  ASSUME IInv, NEW t \in Tasks, PickIncoming(t)
  PROVE  IInv'
<1> DEFINE k == task[t]
           r == [k EXCEPT !.pc = "upgrade", !.cur = k.ev]
<1>0. TypeOK /\ StepInv(t) /\ KnownInv(t) /\ k \in TaskRecord /\ LocksExclude
  BY Fields DEF IInv
<1>1. /\ task' = [task EXCEPT ![t] = r] /\ UNCHANGED trees /\ k.pc = "prevs"
      /\ UNCHANGED <<bad, fed, lock, world>>
  BY DEF PickIncoming
<1>2. r \in TaskRecord
  BY <1>0 DEF TaskRecord, Pcs
<1>3. WorldOK'
  BY <1>0, <1>1 DEF TypeOK, WorldOK, world
<1>4. LockMove(t, r)
  BY <1>0, <1>1 DEF LockMove, LocksExclude, Changing, TaskRecord
<1>5. StepOf(r) /\ KnownOf(r)
  BY <1>0, <1>1 DEF StepInv, StepOf, KnownInv, KnownOf, Changing, TaskRecord
<1> HIDE DEF r
<1> QED
  BY <1>1, <1>2, <1>3, <1>4, <1>5, QuietStep

\* The states that known prev events lead to are states of known events.
LEMMA KnownStatesKnown ==
  ASSUME IInv, NEW x \in Events, NEW at \in KnownStates(x)
  PROVE  at \subseteq StateEvents /\ \A s \in at : Known(s)
<1>0. TypeOK /\ StateEventsExist
  BY DEF IInv
<1>1. \A p \in prev[x] : eventState[p] # NoState /\ Known(p) /\ p \in Events
  BY <1>0 DEF KnownStates, TypeOK
<1>2. PICK F \in Forks(x) : at \in Resolutions({StateAfter(p) : p \in F})
  BY <1>1 DEF KnownStates
<1>3. F \subseteq prev[x]
  BY DEF Forks
<1>4. at \subseteq UNION {StateAfter(p) : p \in F}
  BY <1>2 DEF Resolutions
<1>5. ASSUME NEW p \in F
      PROVE  StateAfter(p) \subseteq StateEvents /\ \A s \in StateAfter(p) : Known(s)
  <2>1. p \in Events /\ eventState[p] # NoState /\ Known(p)
    BY <1>1, <1>3
  <2>2. eventState[p] \subseteq StateEvents /\ \A s \in eventState[p] : Known(s)
    BY <1>0, <2>1 DEF StateEventsExist, TypeOK
  <2> QED
    BY <2>1, <2>2 DEF StateAfter
<1>6. ASSUME NEW s \in at
      PROVE  s \in StateEvents /\ Known(s)
  <2>1. PICK p \in F : s \in StateAfter(p)
    BY <1>4
  <2> QED
    BY <1>5, <2>1
<1> QED
  BY <1>6

\* The state before the event is computed from its prev events.
LEMMA StateFromPrevsStep ==
  ASSUME IInv, NEW t \in Tasks, StateFromPrevs(t)
  PROVE  IInv'
<1> DEFINE k == task[t]
<1>0. TypeOK /\ StepInv(t) /\ KnownInv(t) /\ k \in TaskRecord /\ LocksExclude /\ k.cur \in Events
  BY Fields DEF IInv
<1>1. PICK at \in KnownStates(k.cur) : task' = [task EXCEPT ![t].pc = "softcheck", ![t].at = at]
  BY DEF StateFromPrevs
<1> DEFINE r == [k EXCEPT !.pc = "softcheck", !.at = at]
<1>2. at \subseteq StateEvents /\ \A s \in at : Known(s)
  BY <1>0, KnownStatesKnown
<1>3. /\ task' = [task EXCEPT ![t] = r] /\ UNCHANGED trees /\ k.pc = "upgrade"
      /\ UNCHANGED <<bad, fed, lock, world>>
  BY <1>1 DEF StateFromPrevs
<1>4. r \in TaskRecord
  BY <1>0, <1>2 DEF TaskRecord, Pcs
<1>5. WorldOK'
  BY <1>0, <1>3 DEF TypeOK, WorldOK, world
<1>6. LockMove(t, r)
  BY <1>0, <1>3 DEF LockMove, LocksExclude, Changing, TaskRecord
<1>7. StepOf(r) /\ KnownOf(r)
  BY <1>0, <1>2, <1>3 DEF StepInv, StepOf, KnownInv, KnownOf, Changing, TaskRecord
<1> HIDE DEF r
<1> QED
  BY <1>3, <1>4, <1>5, <1>6, <1>7, QuietStep

\* The current state is read without the lock.
LEMMA SoftFailCheckStep ==
  ASSUME IInv, NEW t \in Tasks, SoftFailCheck(t)
  PROVE  IInv'
<1> DEFINE k == task[t]
           soft == ~Allowed(k.cur, roomState)
           r == [k EXCEPT !.pc = "lock", !.soft = soft]
<1>0. TypeOK /\ StepInv(t) /\ KnownInv(t) /\ k \in TaskRecord /\ LocksExclude
  BY Fields DEF IInv
<1>1. /\ task' = [task EXCEPT ![t] = r] /\ UNCHANGED trees /\ k.pc = "softcheck"
      /\ UNCHANGED <<bad, fed, lock, world>>
  BY DEF SoftFailCheck
<1>2. soft \in BOOLEAN
  OBVIOUS
<1> HIDE DEF soft
<1>3. r \in TaskRecord
  BY <1>0, <1>2 DEF TaskRecord, Pcs
<1>4. WorldOK'
  BY <1>0, <1>1 DEF TypeOK, WorldOK, world
<1>5. LockMove(t, r)
  BY <1>0, <1>1 DEF LockMove, LocksExclude, Changing, TaskRecord
<1>6. StepOf(r) /\ KnownOf(r)
  BY <1>0, <1>1 DEF StepInv, StepOf, KnownInv, KnownOf, Changing, TaskRecord
<1> HIDE DEF r
<1> QED
  BY <1>1, <1>3, <1>4, <1>5, <1>6, QuietStep

\* The room is locked.
LEMMA LockStateStep ==
  ASSUME IInv, NEW t \in Tasks, LockState(t)
  PROVE  IInv'
<1> DEFINE k == task[t]
           pc == IF k.cur \in StateEvents THEN "force" ELSE "state"
           rest == {l \in leaves \ prev[k.cur] : l \notin referenced}
           exts == IF k.soft THEN rest ELSE rest \cup {k.cur}
           r == [k EXCEPT !.pc = pc, !.exts = exts]
<1>0. TypeOK /\ StepInv(t) /\ KnownInv(t) /\ k \in TaskRecord /\ LocksExclude /\ k.cur \in Events
  BY Fields DEF IInv
<1>1. /\ task' = [task EXCEPT ![t] = r] /\ UNCHANGED trees /\ k.pc = "lock"
      /\ lock = NoTask /\ lock' = t
      /\ UNCHANGED <<bad, fed, prev, built, received, torn, missed, crashes>>
      /\ unguarded' \subseteq unguarded \cup {k.cur}
  BY DEF LockState
<1>2. exts \subseteq Events /\ pc \in {"force", "state"} /\ (pc = "force" => k.cur \in StateEvents)
  BY <1>0 DEF TypeOK
<1> HIDE DEF exts, pc
<1>3. r \in TaskRecord
  BY <1>0, <1>2 DEF TaskRecord, Pcs
<1>4. WorldOK'
  BY <1>0, <1>1 DEF TypeOK, WorldOK
<1>5. LockMove(t, r)
  BY <1>0, <1>1, <1>2 DEF LockMove, LocksExclude, Changing, TaskRecord
<1>6. StepOf(r) /\ KnownOf(r)
  BY <1>0, <1>1, <1>2 DEF StepInv, StepOf, KnownInv, KnownOf, Changing, TaskRecord
<1> HIDE DEF r
<1> QED
  BY <1>1, <1>3, <1>4, <1>5, <1>6, QuietStep

\* The steps that end a request, or the handling of one event, without a write.
LEMMA EndSteps ==
  ASSUME IInv, NEW t \in Tasks,
         SkipKnown(t) \/ Reject(t) \/ UpgradeSkips(t) \/ UpgradeFails(t) \/ ResolveFails(t)
  PROVE  IInv'
<1>0. TypeOK /\ StepInv(t) /\ UNCHANGED trees
  BY DEF IInv, SkipKnown, Reject, UpgradeSkips, UpgradeFails, ResolveFails
<1>1. CASE SkipKnown(t) \/ Reject(t)
  <2>1. Finish(t) /\ UNCHANGED <<bad, world>>
    BY <1>1 DEF SkipKnown, Reject
  <2>2. WorldOK'
    BY <1>0, <2>1 DEF TypeOK, WorldOK, world
  <2> QED
    BY <1>0, <2>1, <2>2, QuietTrees, FinishStep
<1>2. CASE UpgradeSkips(t) \/ UpgradeFails(t) \/ ResolveFails(t)
  <2>1. /\ task[t].pc \in {"upgrade", "force"}
        /\ \E failed \in BOOLEAN : Return(t, failed)
        /\ UNCHANGED <<prev, built, received, unguarded, torn, crashes>>
    BY <1>2 DEF UpgradeSkips, UpgradeFails, ResolveFails
  <2>2. task[t].kind # "local"
    BY <1>0, <2>1 DEF StepInv, StepOf, Changing
  <2>3. PICK failed \in BOOLEAN : Return(t, failed)
    BY <2>1
  <2> QED
    BY <1>0, <2>1, <2>2, <2>3, QuietTrees, ReturnStep
<1> QED
  BY <1>1, <1>2

----------------------------------------------------------------------------
(* Steps that write a tree.                                                *)

\* Where no row, no id and no state is written and no outlier is removed, nothing
\* that is known is lost.
LEMMA SideTrees ==
  ASSUME IInv, rows' = rows, ids' = ids, outliers \subseteq outliers',
         eventState' = eventState, roomState' = roomState
  PROVE  Grow /\ IdsPointToRows' /\ StateEventsExist'
<1>0. IdsPointToRows /\ StateEventsExist /\ TypeOK
  BY DEF IInv
<1>1. Grow
  BY DEF Grow, InTimeline, Known
<1>2. IdsPointToRows'
  BY <1>0 DEF IdsPointToRows, InTimeline
<1>3. StateEventsExist'
  BY <1>0 DEF StateEventsExist, Known, InTimeline
<1> QED
  BY <1>1, <1>2, <1>3

\* An event is kept as an outlier.
LEMMA HandleOutlierStep ==
  ASSUME IInv, NEW t \in Tasks, HandleOutlier(t)
  PROVE  IInv'
<1> DEFINE k == task[t]
<1>0. /\ TypeOK /\ StepInv(t) /\ KnownInv(t) /\ k \in TaskRecord /\ LocksExclude
      /\ k.ev \in Events /\ prev[k.ev] \subseteq Events
  BY Fields DEF IInv
<1>1. /\ k.pc = "outlier" /\ outliers' = outliers \cup {k.ev}
      /\ UNCHANGED <<rows, ids, leaves, referenced, softFailed, eventState, roomState, counter, bad>>
      /\ UNCHANGED world
  BY DEF HandleOutlier
<1>2. TreesOK' /\ WorldOK'
  BY <1>0, <1>1 DEF TypeOK, TreesOK, WorldOK, world
<1>3. Grow /\ IdsPointToRows' /\ StateEventsExist'
  BY <1>1, SideTrees
<1>4. CASE Finish(t)
  BY <1>2, <1>3, <1>4, FinishStep
<1>5. CASE ~Finish(t)
  <2>1. \E pc \in {"row", "fetch"}, stack \in SUBSET Events, from \in Nat :
          /\ task' = [task EXCEPT ![t] = [k EXCEPT !.pc = pc, !.stack = stack, !.from = from]]
          /\ UNCHANGED <<fed, lock>>
          /\ pc = "row" => k.kind = "backfill"
    <3>1. CASE k.kind = "backfill"
      <4>1. task' = [task EXCEPT ![t].pc = "row"] /\ UNCHANGED <<fed, lock>>
        BY <1>5, <3>1 DEF HandleOutlier
      <4>2. [k EXCEPT !.pc = "row"] = [k EXCEPT !.pc = "row", !.stack = k.stack, !.from = k.from]
            /\ k.stack \in SUBSET Events /\ k.from \in Nat
        BY <1>0 DEF TaskRecord
      <4> QED
        BY <3>1, <4>1, <4>2
    <3>2. CASE k.kind # "backfill"
      <4>1. PICK q \in rows : task' = [task EXCEPT ![t].pc = "fetch", ![t].stack = prev[k.ev],
                                                   ![t].from = Time[q.event]]
        BY <1>5, <3>2 DEF HandleOutlier
      <4>2. Time[q.event] \in Nat
        BY <1>0, EventsAssumption DEF TypeOK
      <4>3. UNCHANGED <<fed, lock>>
        BY <1>5, <3>2 DEF HandleOutlier
      <4> QED
        BY <1>0, <4>1, <4>2, <4>3
    <3> QED
      BY <3>1, <3>2
  <2>2. PICK pc \in {"row", "fetch"}, stack \in SUBSET Events, from \in Nat :
          /\ task' = [task EXCEPT ![t] = [k EXCEPT !.pc = pc, !.stack = stack, !.from = from]]
          /\ UNCHANGED <<fed, lock>>
          /\ pc = "row" => k.kind = "backfill"
    BY <2>1
  <2> DEFINE r == [k EXCEPT !.pc = pc, !.stack = stack, !.from = from]
  <2>3. r \in TaskRecord
    BY <1>0 DEF TaskRecord, Pcs
  <2>4. /\ r.pc = pc /\ r.cur = k.cur /\ r.ev = k.ev /\ r.info = k.info /\ r.at = k.at
        /\ r.kind = k.kind
    BY <1>0 DEF TaskRecord
  <2> HIDE DEF r
  <2>5. LockMove(t, r)
    BY <1>0, <1>1, <2>2, <2>4 DEF LockMove, LocksExclude, Changing
  <2>6. task'[t] = r /\ k.kind # "local"
    BY <1>0, <1>1, <2>2 DEF r, TypeOK, StepInv, StepOf, Changing
  <2>7. StepInv(t)'
    BY <2>2, <2>4, <2>6 DEF StepInv, StepOf
  <2>8. KnownInv(t)'
    <3>1. k.cur = k.ev
      BY <1>0, <1>1 DEF StepInv, StepOf
    <3> QED
      BY <1>0, <1>1, <2>2, <2>4, <2>6, <3>1 DEF KnownInv, KnownOf, Known, InTimeline
  <2> QED
    BY <1>2, <1>3, <2>2, <2>3, <2>5, <2>7, <2>8, OneTask DEF r
<1> QED
  BY <1>4, <1>5

\* A prev event is found, fetched or not to be had.
LEMMA FetchPrevStep ==
  ASSUME IInv, NEW t \in Tasks, NEW x \in Events, FetchPrev(t, x)
  PROVE  IInv'
<1> DEFINE k == task[t]
<1>0. /\ TypeOK /\ StepInv(t) /\ KnownInv(t) /\ k \in TaskRecord /\ LocksExclude
      /\ prev[x] \subseteq Events
  BY Fields DEF IInv, TypeOK
<1>1. /\ k.pc = "fetch"
      /\ UNCHANGED <<rows, ids, leaves, referenced, softFailed, eventState, roomState, counter>>
      /\ UNCHANGED <<fed, lock, prev, built, received, unguarded, torn, crashes>>
      /\ outliers \subseteq outliers' /\ outliers' \subseteq outliers \cup {x}
      /\ bad' \subseteq bad \cup {x} /\ missed' \subseteq missed \cup {x}
  BY DEF FetchPrev
<1>2. TreesOK' /\ WorldOK'
  BY <1>0, <1>1 DEF TypeOK, TreesOK, WorldOK
<1>3. Grow /\ IdsPointToRows' /\ StateEventsExist'
  BY <1>1, SideTrees
<1>4. \E stack \in SUBSET Events, info \in SUBSET (k.info \cup {x}) :
        /\ task' = [task EXCEPT ![t] = [k EXCEPT !.stack = stack, !.graph = k.graph \cup {x},
                                                 !.info = info]]
        /\ x \in info => x \in k.info \/ x \in outliers'
  <2> DEFINE full == Cardinality(k.info \ NotAfter(k.from)) > MaxFetch
             Stack == (k.stack \ {x}) \cup (IF full \/ x \in NotAfter(k.from) THEN {} ELSE prev[x] \ k.graph)
             Info == IF full THEN k.info ELSE k.info \cup {x}
  <2>1. Stack \in SUBSET Events /\ Info \in SUBSET (k.info \cup {x}) /\ k.stack \ {x} \in SUBSET Events
    BY <1>0, Fields
  <2>2. \/ x \in outliers' /\ task' = [task EXCEPT ![t].stack = Stack, ![t].graph = @ \cup {x}, ![t].info = Info]
        \/ task' = [task EXCEPT ![t].stack = @ \ {x}, ![t].graph = @ \cup {x}]
    BY DEF FetchPrev
  <2> HIDE DEF Stack, Info
  <2>3. CASE x \in outliers' /\ task' = [task EXCEPT ![t].stack = Stack, ![t].graph = @ \cup {x}, ![t].info = Info]
    <3>1. task' = [task EXCEPT ![t] = [k EXCEPT !.stack = Stack, !.graph = k.graph \cup {x}, !.info = Info]]
      BY <2>3
    <3> QED
      BY <2>1, <2>3, <3>1
  <2>4. CASE task' = [task EXCEPT ![t].stack = @ \ {x}, ![t].graph = @ \cup {x}]
    <3>1. task' = [task EXCEPT ![t] = [k EXCEPT !.stack = k.stack \ {x}, !.graph = k.graph \cup {x}]]
      BY <2>4
    <3>2. [k EXCEPT !.stack = k.stack \ {x}, !.graph = k.graph \cup {x}]
            = [k EXCEPT !.stack = k.stack \ {x}, !.graph = k.graph \cup {x}, !.info = k.info]
      BY <1>0 DEF TaskRecord
    <3> QED
      BY <2>1, <3>1, <3>2
  <2> QED
    BY <2>2, <2>3, <2>4
<1>5. PICK stack \in SUBSET Events, info \in SUBSET (k.info \cup {x}) :
        /\ task' = [task EXCEPT ![t] = [k EXCEPT !.stack = stack, !.graph = k.graph \cup {x},
                                                 !.info = info]]
        /\ x \in info => x \in k.info \/ x \in outliers'
  BY <1>4
<1> DEFINE r == [k EXCEPT !.stack = stack, !.graph = k.graph \cup {x}, !.info = info]
<1>6. r \in TaskRecord
  <2>1. k.graph \cup {x} \subseteq Events /\ info \subseteq Events
    BY <1>0, Fields
  <2> QED
    BY <1>0, <2>1 DEF TaskRecord
<1>7. /\ r.pc = k.pc /\ r.cur = k.cur /\ r.ev = k.ev /\ r.info = info /\ r.at = k.at
      /\ r.kind = k.kind
  BY <1>0 DEF TaskRecord
<1>8. task' = [task EXCEPT ![t] = r] /\ task'[t] = r
  BY <1>0, <1>5 DEF TypeOK
<1> HIDE DEF r
<1>9. LockMove(t, r)
  BY <1>0, <1>1, <1>7 DEF LockMove, LocksExclude, Changing
<1>10. StepInv(t)' /\ KnownInv(t)'
  BY <1>0, <1>1, <1>5, <1>7, <1>8 DEF StepInv, StepOf, KnownInv, KnownOf, Known, InTimeline, Changing
<1> QED
  BY <1>2, <1>3, <1>6, <1>8, <1>9, <1>10, OneTask

\* The state before the event is asked for, its events become outliers.
LEMMA StateFromRemoteStep ==
  ASSUME IInv, NEW t \in Tasks, StateFromRemote(t)
  PROVE  IInv'
<1> DEFINE k == task[t]
<1>0. TypeOK /\ StepInv(t) /\ KnownInv(t) /\ k \in TaskRecord /\ LocksExclude
  BY Fields DEF IInv
<1>1. PICK at \in SUBSET StateEvents :
        /\ task' = [task EXCEPT ![t].pc = "softcheck", ![t].at = at]
        /\ outliers' = outliers \cup {s \in at : ~Known(s)}
  BY DEF StateFromRemote
<1> DEFINE r == [k EXCEPT !.pc = "softcheck", !.at = at]
<1>2. /\ task' = [task EXCEPT ![t] = r] /\ k.pc = "upgrade"
      /\ UNCHANGED <<rows, ids, leaves, referenced, softFailed, eventState, roomState, counter>>
      /\ UNCHANGED <<bad, fed, lock>> /\ UNCHANGED world
  <2>1. task' = [task EXCEPT ![t] = r]
    BY <1>1
  <2>2. /\ k.pc = "upgrade"
        /\ UNCHANGED <<rows, ids, leaves, referenced, softFailed, eventState, roomState, counter>>
        /\ UNCHANGED <<bad, fed, lock>> /\ UNCHANGED world
    BY DEF StateFromRemote
  <2> QED
    BY <2>1, <2>2
<1>3. TreesOK' /\ WorldOK'
  BY <1>0, <1>1, <1>2, EventsAssumption DEF TypeOK, TreesOK, WorldOK, world
<1>4. Grow /\ IdsPointToRows' /\ StateEventsExist'
  BY <1>1, <1>2, SideTrees
<1>5. r \in TaskRecord
  BY <1>0 DEF TaskRecord, Pcs
<1>6. /\ r.pc = "softcheck" /\ r.cur = k.cur /\ r.ev = k.ev /\ r.info = k.info /\ r.at = at
      /\ r.kind = k.kind /\ task'[t] = r
  BY <1>0, <1>2 DEF TaskRecord, TypeOK
<1> HIDE DEF r
<1>7. LockMove(t, r)
  BY <1>0, <1>2, <1>6 DEF LockMove, LocksExclude, Changing
<1>8. StepInv(t)'
  BY <1>0, <1>2, <1>6 DEF StepInv, StepOf, Changing
<1>9. KnownInv(t)'
  <2>1. \A s \in at : s \in outliers' \/ Known(s)
    BY <1>1
  <2>2. k.kind # "local" /\ Known(k.cur) /\ Known(k.ev) /\ \A x \in k.info : Known(x)
    BY <1>0, <1>2 DEF StepInv, StepOf, KnownInv, KnownOf, Changing
  <2>3. ids' = ids /\ outliers \subseteq outliers'
    BY <1>1, <1>2
  <2> QED
    BY <1>6, <2>1, <2>2, <2>3 DEF KnownInv, KnownOf, Known, InTimeline
<1> QED
  BY <1>2, <1>3, <1>4, <1>5, <1>7, <1>8, <1>9, OneTask

\* The state of the room is resolved with the state after the event.
LEMMA ForceStateStep ==
  ASSUME IInv, NEW t \in Tasks, ForceState(t)
  PROVE  IInv'
<1> DEFINE k == task[t]
           r == [k EXCEPT !.pc = "state"]
<1>0. /\ TypeOK /\ StepInv(t) /\ KnownInv(t) /\ k \in TaskRecord /\ LocksExclude
      /\ StateEventsExist /\ IdsPointToRows /\ k.at \subseteq StateEvents
  BY Fields DEF IInv
<1>1. /\ task' = [task EXCEPT ![t] = r] /\ k.pc = "force"
      /\ UNCHANGED <<rows, ids, outliers, leaves, referenced, softFailed, eventState, counter>>
      /\ UNCHANGED <<bad, fed, lock>> /\ UNCHANGED world
  BY DEF ForceState
<1>2. k.cur \in StateEvents /\ Known(k.cur) /\ \A s \in k.at : Known(s)
  BY <1>0, <1>1 DEF StepInv, StepOf, KnownInv, KnownOf, Changing
<1>3. roomState' \subseteq StateEvents /\ \A s \in roomState' : Known(s)
  <2>1. roomState' \subseteq roomState \cup k.at \cup {k.cur}
    BY DEF ForceState, Resolutions
  <2> QED
    BY <1>0, <1>2, <2>1 DEF StateEventsExist, TypeOK
<1>4. TreesOK' /\ WorldOK'
  BY <1>0, <1>1, <1>3 DEF TypeOK, TreesOK, WorldOK, world
<1>5. \A e : Known(e)' <=> Known(e)
  BY <1>1 DEF Known, InTimeline
<1>6. Grow /\ IdsPointToRows' /\ StateEventsExist'
  BY <1>0, <1>1, <1>3, <1>5 DEF Grow, IdsPointToRows, StateEventsExist, InTimeline
<1>7. r \in TaskRecord
  BY <1>0 DEF TaskRecord, Pcs
<1>8. /\ r.pc = "state" /\ r.cur = k.cur /\ r.ev = k.ev /\ r.info = k.info /\ r.at = k.at
      /\ r.kind = k.kind /\ r.soft = k.soft /\ task'[t] = r
  BY <1>0, <1>1 DEF TaskRecord, TypeOK
<1> HIDE DEF r
<1>9. LockMove(t, r)
  BY <1>0, <1>1, <1>8 DEF LockMove, LocksExclude, Changing
<1>10. StepInv(t)' /\ KnownInv(t)'
  BY <1>0, <1>1, <1>5, <1>8 DEF StepInv, StepOf, KnownInv, KnownOf, Changing
<1> QED
  BY <1>1, <1>4, <1>6, <1>7, <1>9, <1>10, OneTask

\* The state before the event is stored.
LEMMA SetEventStateStep ==
  ASSUME IInv, NEW t \in Tasks, SetEventState(t)
  PROVE  IInv'
<1> DEFINE k == task[t]
           r == [k EXCEPT !.pc = "reference"]
<1>0. /\ TypeOK /\ StepInv(t) /\ KnownInv(t) /\ k \in TaskRecord /\ LocksExclude
      /\ StateEventsExist /\ IdsPointToRows /\ k.at \subseteq StateEvents /\ k.cur \in Events
  BY Fields DEF IInv
<1>1. /\ task' = [task EXCEPT ![t] = r] /\ k.pc = "state"
      /\ UNCHANGED <<rows, ids, outliers, leaves, referenced, softFailed, roomState, counter>>
      /\ UNCHANGED <<bad, fed, lock>> /\ UNCHANGED world
      /\ eventState' = [eventState EXCEPT ![k.cur] = k.at]
  BY DEF SetEventState
<1>2. \A s \in k.at : Known(s)
  BY <1>0, <1>1 DEF StepInv, StepOf, KnownInv, KnownOf, Changing
<1>3. TreesOK' /\ WorldOK'
  BY <1>0, <1>1 DEF TypeOK, TreesOK, WorldOK, world
<1>4. \A e : Known(e)' <=> Known(e)
  BY <1>1 DEF Known, InTimeline
<1>5. StateEventsExist'
  <2>1. \A e \in Events : eventState'[e] = eventState[e] \/ eventState'[e] = k.at
    BY <1>0, <1>1 DEF TypeOK
  <2> QED
    BY <1>0, <1>1, <1>2, <1>4, <2>1 DEF StateEventsExist
<1>6. Grow /\ IdsPointToRows'
  BY <1>0, <1>1, <1>4 DEF Grow, IdsPointToRows, InTimeline
<1>7. r \in TaskRecord
  BY <1>0 DEF TaskRecord, Pcs
<1>8. /\ r.pc = "reference" /\ r.cur = k.cur /\ r.ev = k.ev /\ r.info = k.info /\ r.at = k.at
      /\ r.kind = k.kind /\ r.soft = k.soft /\ task'[t] = r
  BY <1>0, <1>1 DEF TaskRecord, TypeOK
<1> HIDE DEF r
<1>9. LockMove(t, r)
  BY <1>0, <1>1, <1>8 DEF LockMove, LocksExclude, Changing
<1>10. StepInv(t)' /\ KnownInv(t)'
  BY <1>0, <1>1, <1>4, <1>8 DEF StepInv, StepOf, KnownInv, KnownOf, Changing
<1> QED
  BY <1>1, <1>3, <1>5, <1>6, <1>7, <1>9, <1>10, OneTask

\* References and leaves are written.
LEMMA LeafSteps ==
  ASSUME IInv, NEW t \in Tasks, MarkAsReferenced(t) \/ RemoveLeaf(t) \/ InsertLeaf(t)
  PROVE  IInv'
<1> DEFINE k == task[t]
<1>0. /\ TypeOK /\ StepInv(t) /\ KnownInv(t) /\ k \in TaskRecord /\ LocksExclude
      /\ k.cur \in Events /\ prev[k.cur] \subseteq Events /\ k.exts \subseteq Events
  BY Fields DEF IInv
<1>1. /\ k.pc \in {"reference", "unleaf", "leaf"}
      /\ UNCHANGED <<rows, ids, outliers, softFailed, eventState, roomState, counter>>
      /\ UNCHANGED <<bad, fed, lock>> /\ UNCHANGED world
      /\ leaves' \subseteq leaves \cup k.exts /\ referenced' \subseteq referenced \cup prev[k.cur]
      /\ \E pc \in {"unleaf", "leaf", "row"} \cup (IF k.soft THEN {"softfail"} ELSE {}) :
           task' = [task EXCEPT ![t].pc = pc]
  <2>1. \A L : NextLeaf(k, L) \in {"unleaf", "leaf", "row"} \cup (IF k.soft THEN {"softfail"} ELSE {})
    BY DEF NextLeaf
  <2>2. CASE MarkAsReferenced(t)
    BY <2>1, <2>2 DEF MarkAsReferenced
  <2>3. CASE RemoveLeaf(t)
    BY <2>1, <2>3 DEF RemoveLeaf
  <2>4. CASE InsertLeaf(t)
    BY <2>1, <2>4 DEF InsertLeaf
  <2> QED
    BY <2>2, <2>3, <2>4
<1>2. PICK pc \in {"unleaf", "leaf", "row"} \cup (IF k.soft THEN {"softfail"} ELSE {}) :
        task' = [task EXCEPT ![t].pc = pc]
  BY <1>1
<1> DEFINE r == [k EXCEPT !.pc = pc]
<1>3. pc \in {"unleaf", "leaf", "row", "softfail"} /\ (pc = "softfail" => k.soft)
  BY <1>2
<1>4. TreesOK' /\ WorldOK'
  BY <1>0, <1>1 DEF TypeOK, TreesOK, WorldOK, world
<1>5. Grow /\ IdsPointToRows' /\ StateEventsExist'
  BY <1>1, SideTrees
<1>6. r \in TaskRecord
  BY <1>0, <1>3 DEF TaskRecord, Pcs
<1>7. /\ r.pc = pc /\ r.cur = k.cur /\ r.ev = k.ev /\ r.info = k.info /\ r.at = k.at
      /\ r.kind = k.kind /\ r.soft = k.soft /\ task'[t] = r /\ task' = [task EXCEPT ![t] = r]
  BY <1>0, <1>2 DEF TaskRecord, TypeOK
<1> HIDE DEF r
<1>8. LockMove(t, r)
  BY <1>0, <1>1, <1>3, <1>7 DEF LockMove, LocksExclude, Changing
<1>9. StepInv(t)'
  BY <1>0, <1>1, <1>3, <1>7 DEF StepInv, StepOf, Changing
<1>10. KnownInv(t)'
  BY <1>0, <1>1, <1>3, <1>7 DEF KnownInv, KnownOf, Known, InTimeline
<1> QED
  BY <1>4, <1>5, <1>6, <1>7, <1>8, <1>9, <1>10, OneTask

\* A soft failed event is marked.
LEMMA SoftFailStep ==
  ASSUME IInv, NEW t \in Tasks, SoftFail(t)
  PROVE  IInv'
<1>0. TypeOK /\ StepInv(t) /\ task[t].cur \in Events
  BY Fields DEF IInv
<1>1. /\ task[t].pc = "softfail" /\ softFailed' = softFailed \cup {task[t].cur}
      /\ Return(t, TRUE)
      /\ UNCHANGED <<rows, ids, outliers, leaves, referenced, eventState, roomState, counter>>
      /\ UNCHANGED <<prev, built, received, unguarded, torn, crashes>>
  BY DEF SoftFail
<1>2. TreesOK'
  BY <1>0, <1>1 DEF TypeOK, TreesOK
<1>3. Grow /\ IdsPointToRows' /\ StateEventsExist'
  BY <1>1, SideTrees
<1>4. task[t].kind # "local"
  BY <1>0, <1>1 DEF StepInv, StepOf, Changing
<1> QED
  BY <1>1, <1>2, <1>3, <1>4, ReturnStep

\* The row is written.
LEMMA InsertRowStep ==
  ASSUME IInv, NEW t \in Tasks, InsertRow(t)
  PROVE  IInv'
<1> DEFINE k == task[t]
           c == IF k.kind = "backfill" THEN -counter ELSE counter
           r == [k EXCEPT !.pc = "id", !.count = c]
<1>0. /\ TypeOK /\ StepInv(t) /\ KnownInv(t) /\ k \in TaskRecord /\ LocksExclude
      /\ k.cur \in Events /\ counter \in Nat /\ IdsPointToRows /\ StateEventsExist
  BY Fields DEF IInv, TypeOK
<1>1. /\ task' = [task EXCEPT ![t] = r] /\ k.pc = "row"
      /\ counter' = counter + 1
      /\ rows' = rows \cup {[count |-> c, event |-> k.cur]}
      /\ UNCHANGED <<ids, outliers, leaves, referenced, softFailed, eventState, roomState>>
      /\ UNCHANGED <<bad, fed, lock>> /\ UNCHANGED world
  BY DEF InsertRow
<1>2. c \in Int
  BY <1>0
<1> HIDE DEF c
<1>3. TreesOK' /\ WorldOK'
  BY <1>0, <1>1, <1>2 DEF TypeOK, TreesOK, WorldOK, world
<1>4. \A e : (Known(e)' <=> Known(e)) /\ (InTimeline(e)' <=> InTimeline(e))
  BY <1>1 DEF Known, InTimeline
<1>5. Grow /\ StateEventsExist'
  BY <1>0, <1>1, <1>4 DEF Grow, StateEventsExist
<1>6. IdsPointToRows'
  BY <1>0, <1>1, <1>4 DEF IdsPointToRows
<1>7. r \in TaskRecord
  BY <1>0, <1>2 DEF TaskRecord, Pcs
<1>8. /\ r.pc = "id" /\ r.cur = k.cur /\ r.ev = k.ev /\ r.info = k.info /\ r.at = k.at
      /\ r.kind = k.kind /\ r.soft = k.soft /\ r.count = c /\ task'[t] = r
  BY <1>0, <1>1 DEF TaskRecord, TypeOK
<1> HIDE DEF r
<1>9. LockMove(t, r)
  BY <1>0, <1>1, <1>8 DEF LockMove, LocksExclude, Changing
<1>10. StepInv(t)'
  BY <1>0, <1>1, <1>2, <1>8 DEF StepInv, StepOf, Changing
<1>11. KnownInv(t)'
  BY <1>0, <1>1, <1>4, <1>8 DEF KnownInv, KnownOf
<1> QED
  BY <1>1, <1>3, <1>5, <1>6, <1>7, <1>9, <1>10, <1>11, OneTask

\* The id is written: from here on the event is in the timeline.
LEMMA InsertIdStep ==
  ASSUME IInv, NEW t \in Tasks, InsertId(t)
  PROVE  IInv'
<1> DEFINE k == task[t]
           r == [k EXCEPT !.pc = "unoutlier"]
<1>0. /\ TypeOK /\ StepInv(t) /\ KnownInv(t) /\ k \in TaskRecord /\ LocksExclude
      /\ k.cur \in Events /\ IdsPointToRows /\ StateEventsExist
  BY Fields DEF IInv
<1>1. /\ task' = [task EXCEPT ![t] = r] /\ k.pc = "id"
      /\ ids' = [ids EXCEPT ![k.cur] = k.count]
      /\ UNCHANGED <<rows, outliers, leaves, referenced, softFailed, eventState, roomState, counter>>
      /\ UNCHANGED <<bad, fed, lock>> /\ UNCHANGED world
  BY DEF InsertId
<1>2. k.count \in Int /\ k.count # NoCount /\ [count |-> k.count, event |-> k.cur] \in rows
  BY <1>0, <1>1, ValuesAssumption DEF StepInv, StepOf
<1>3. TreesOK' /\ WorldOK'
  BY <1>0, <1>1, <1>2 DEF TypeOK, TreesOK, WorldOK, world
<1>4. \A e \in Events : ids'[e] = IF e = k.cur THEN k.count ELSE ids[e]
  BY <1>0, <1>1 DEF TypeOK
<1>5. Grow
  BY <1>1, <1>2, <1>4 DEF Grow, Known, InTimeline
<1>6. IdsPointToRows'
  BY <1>0, <1>1, <1>2, <1>4 DEF IdsPointToRows, InTimeline
<1>7. StateEventsExist'
  <2>1. \A s \in StateEvents : Known(s) => Known(s)'
    BY <1>5, EventsAssumption DEF Grow
  <2> QED
    BY <1>0, <1>1, <2>1 DEF StateEventsExist, TypeOK
<1>8. r \in TaskRecord
  BY <1>0 DEF TaskRecord, Pcs
<1>9. /\ r.pc = "unoutlier" /\ r.cur = k.cur /\ r.ev = k.ev /\ r.info = k.info /\ r.at = k.at
      /\ r.kind = k.kind /\ r.soft = k.soft /\ task'[t] = r
  BY <1>0, <1>1 DEF TaskRecord, TypeOK
<1> HIDE DEF r
<1>10. LockMove(t, r)
  BY <1>0, <1>1, <1>9 DEF LockMove, LocksExclude, Changing
<1>11. StepInv(t)'
  BY <1>0, <1>1, <1>2, <1>4, <1>9 DEF StepInv, StepOf, Changing, InTimeline
<1>12. KnownInv(t)'
  <2>1. k.info \subseteq Events /\ k.at \subseteq Events /\ k.ev \in Events
    BY <1>0, Fields, EventsAssumption
  <2>2. \A e \in Events : e = k.cur => Known(e)'
    BY <1>1, <1>2, <1>4 DEF Known, InTimeline
  <2>3. \A e \in Events : Known(e) => Known(e)'
    BY <1>5 DEF Grow
  <2> QED
    BY <1>0, <1>1, <1>9, <2>1, <2>2, <2>3 DEF KnownInv, KnownOf
<1> QED
  BY <1>1, <1>3, <1>5, <1>6, <1>7, <1>8, <1>10, <1>11, <1>12, OneTask

\* The outlier is removed when the event can be found in the timeline.
LEMMA RemoveOutlierStep ==
  ASSUME IInv, NEW t \in Tasks, RemoveOutlier(t)
  PROVE  IInv'
<1> DEFINE k == task[t]
           r == [k EXCEPT !.pc = "roomstate"]
<1>0. /\ TypeOK /\ StepInv(t) /\ KnownInv(t) /\ k \in TaskRecord /\ LocksExclude
      /\ k.cur \in Events /\ IdsPointToRows /\ StateEventsExist
  BY Fields DEF IInv
<1>1. /\ k.pc = "unoutlier" /\ outliers' = outliers \ {k.cur}
      /\ UNCHANGED <<rows, ids, leaves, referenced, softFailed, eventState, roomState, counter>>
      /\ UNCHANGED <<prev, built, received, unguarded, torn, crashes>>
  BY DEF RemoveOutlier
<1>2. ids[k.cur] # NoCount
  BY <1>0, <1>1 DEF StepInv, StepOf, InTimeline
<1>3. TreesOK'
  BY <1>0, <1>1 DEF TypeOK, TreesOK
<1>4. \A e : (Known(e)' <=> Known(e)) /\ (InTimeline(e)' <=> InTimeline(e))
  BY <1>1, <1>2 DEF Known, InTimeline
<1>5. Grow /\ IdsPointToRows' /\ StateEventsExist'
  BY <1>0, <1>1, <1>4 DEF Grow, IdsPointToRows, StateEventsExist
<1>6. CASE k.kind # "local"
  <2>1. Return(t, FALSE)
    BY <1>6 DEF RemoveOutlier
  <2> QED
    BY <1>1, <1>3, <1>5, <1>6, <2>1, ReturnStep
<1>7. CASE k.kind = "local"
  <2>1. task' = [task EXCEPT ![t] = r] /\ UNCHANGED <<bad, fed, lock, missed>>
    BY <1>7 DEF RemoveOutlier
  <2>2. r \in TaskRecord
    BY <1>0 DEF TaskRecord, Pcs
  <2>3. /\ r.pc = "roomstate" /\ r.cur = k.cur /\ r.ev = k.ev /\ r.info = k.info /\ r.at = k.at
        /\ r.kind = k.kind /\ r.soft = k.soft /\ task'[t] = r
    BY <1>0, <2>1 DEF TaskRecord, TypeOK
  <2> HIDE DEF r
  <2>4. LockMove(t, r)
    BY <1>0, <1>1, <2>1, <2>3 DEF LockMove, LocksExclude, Changing
  <2>5. StepInv(t)' /\ KnownInv(t)'
    BY <1>0, <1>1, <1>4, <2>3 DEF StepInv, StepOf, KnownInv, KnownOf, Changing
  <2>6. WorldOK'
    BY <1>0, <1>1, <2>1 DEF TypeOK, WorldOK
  <2> QED
    BY <1>3, <1>5, <2>1, <2>2, <2>4, <2>5, <2>6, OneTask
<1> QED
  BY <1>6, <1>7

\* The state with the local event becomes the state of the room.
LEMMA SetRoomStateStep ==
  ASSUME IInv, NEW t \in Tasks, SetRoomState(t)
  PROVE  IInv'
<1>0. /\ TypeOK /\ KnownInv(t) /\ IdsPointToRows /\ StateEventsExist
      /\ task[t].at \subseteq StateEvents
  BY Fields DEF IInv
<1>1. /\ task[t].pc = "roomstate" /\ roomState' = task[t].at /\ Finish(t)
      /\ UNCHANGED <<rows, ids, outliers, leaves, referenced, softFailed, eventState, counter>>
      /\ UNCHANGED bad /\ UNCHANGED world
  BY DEF SetRoomState
<1>2. TreesOK' /\ WorldOK'
  BY <1>0, <1>1 DEF TypeOK, TreesOK, WorldOK, world
<1>3. \A e : (Known(e)' <=> Known(e)) /\ (InTimeline(e)' <=> InTimeline(e))
  BY <1>1 DEF Known, InTimeline
<1>4. Grow /\ IdsPointToRows'
  BY <1>0, <1>1, <1>3 DEF Grow, IdsPointToRows
<1>5. StateEventsExist'
  BY <1>0, <1>1, <1>3 DEF StateEventsExist, KnownInv, KnownOf
<1> QED
  BY <1>1, <1>2, <1>4, <1>5, FinishStep

\* A local event is built, and the state before it stored.
LEMMA BuildAndAppendStep ==
  ASSUME IInv, NEW t \in Tasks, NEW e \in Local, BuildAndAppend(t, e)
  PROVE  IInv'
<1> DEFINE at == roomState \cup ({e} \cap StateEvents)
           r == [Idle EXCEPT !.pc = "reference", !.kind = "local", !.ev = e, !.cur = e,
                             !.at = at, !.exts = {e}]
<1>0. TypeOK /\ LocksExclude /\ e \in Events /\ IdsPointToRows /\ StateEventsExist
  BY DEF IInv, Events
<1>1. /\ task' = [task EXCEPT ![t] = r] /\ task[t].pc = "idle"
      /\ lock = NoTask /\ lock' = t /\ built' = built \cup {e}
      /\ eventState' = [eventState EXCEPT ![e] = roomState]
      /\ UNCHANGED <<rows, ids, outliers, leaves, referenced, softFailed, roomState, counter>>
      /\ UNCHANGED <<bad, fed, received, unguarded, torn, missed, crashes>>
  BY DEF BuildAndAppend
<1>2. at \subseteq StateEvents /\ \A s \in at : Known(s) \/ s = e
  BY <1>0 DEF StateEventsExist, TypeOK
<1> HIDE DEF at
<1>3. r \in TaskRecord
  BY <1>0, <1>2, IdleType DEF TaskRecord, Pcs
<1>4. /\ r.pc = "reference" /\ r.cur = e /\ r.ev = e /\ r.info = {} /\ r.at = at
      /\ r.kind = "local" /\ r.soft = FALSE /\ task'[t] = r
  BY <1>0, <1>1 DEF Idle, TypeOK
<1> HIDE DEF r
<1>5. WorldOK'
  <2>1. PICK P \in PrevChoices : prev' = [prev EXCEPT ![e] = P]
    BY DEF BuildAndAppend
  <2>2. P \subseteq Events /\ Cardinality(P) =< PrevLimit
    BY <1>0, <2>1 DEF PrevChoices, TypeOK
  <2> QED
    BY <1>0, <1>1, <2>1, <2>2 DEF TypeOK, WorldOK, Events
<1>6. TreesOK'
  BY <1>0, <1>1 DEF TypeOK, TreesOK
<1>7. \A x : (Known(x)' <=> Known(x)) /\ (InTimeline(x)' <=> InTimeline(x))
  BY <1>1 DEF Known, InTimeline
<1>8. Grow /\ IdsPointToRows'
  BY <1>0, <1>1, <1>7 DEF Grow, IdsPointToRows
<1>9. StateEventsExist'
  <2>1. \A x \in Events : eventState'[x] = eventState[x] \/ eventState'[x] = roomState
    BY <1>0, <1>1 DEF TypeOK
  <2> QED
    BY <1>0, <1>1, <1>7, <2>1 DEF StateEventsExist
<1>10. LockMove(t, r)
  BY <1>0, <1>1, <1>4 DEF LockMove, LocksExclude, Changing
<1>11. StepInv(t)' /\ KnownInv(t)'
  BY <1>2, <1>4, <1>7 DEF StepInv, StepOf, KnownInv, KnownOf, Changing
<1> QED
  BY <1>1, <1>3, <1>5, <1>6, <1>8, <1>9, <1>10, <1>11, OneTask

----------------------------------------------------------------------------
(* The whole.                                                              *)

\* A back-off ends.
LEMMA BackoffElapsesStep ==
  ASSUME IInv, NEW e \in Events, BackoffElapses(e)
  PROVE  IInv'
<1>0. TypeOK
  BY DEF IInv
<1>1. UNCHANGED trees /\ UNCHANGED <<fed, lock, task>> /\ UNCHANGED world /\ bad' \subseteq bad
  BY DEF BackoffElapses
<1>2. TypeOK'
  <2>1. WorldOK'
    BY <1>0, <1>1 DEF TypeOK, WorldOK, world
  <2> QED
    BY <1>0, <1>1, <2>1, QuietTrees DEF TypeOK, TreesOK, WorldOK
<1>3. rows' = rows /\ ids' = ids /\ outliers' = outliers
  BY <1>1 DEF trees
<1>4. \A t \in Tasks : StepInv(t)' /\ KnownInv(t)'
  BY <1>1, <1>3 DEF IInv, StepInv, StepOf, KnownInv, KnownOf, Known, InTimeline
<1>5. LocksExclude'
  BY <1>1 DEF IInv, LocksExclude
<1> QED
  BY <1>1, <1>2, <1>4, <1>5, QuietTrees DEF IInv

\* A crash leaves the trees and nothing else.
LEMMA CrashStep ==
  ASSUME IInv, Crash
  PROVE  IInv'
<1>0. TypeOK
  BY DEF IInv
<1>1. /\ UNCHANGED trees /\ UNCHANGED <<prev, built, received, unguarded>>
      /\ task' = [t \in Tasks |-> Idle] /\ fed' = NoTask /\ lock' = NoTask /\ bad' = {}
      /\ crashes' = crashes + 1
      /\ torn' = torn \cup {task[t].count : t \in {u \in Tasks : task[u].pc = "id"}}
      /\ missed' = missed \cup {task[t].cur : t \in {u \in Tasks : task[u].pc \in {"leaf", "row"}}}
  BY DEF Crash
<1>2. torn' \subseteq Int
  <2>1. \A u \in Tasks : task[u].pc = "id" => task[u].count \in Int
    BY DEF IInv, StepInv, StepOf
  <2> QED
    BY <1>0, <1>1, <2>1 DEF TypeOK
<1>3. missed' \subseteq Events
  <2>1. \A u \in Tasks : task[u].cur \in Events
    BY <1>0, Fields
  <2> QED
    BY <1>0, <1>1, <2>1 DEF TypeOK
<1>4. TypeOK'
  <2>1. WorldOK'
    BY <1>0, <1>1, <1>2, <1>3 DEF TypeOK, WorldOK
  <2> QED
    BY <1>1, <2>1, QuietTrees, IdleType DEF TypeOK, TreesOK, WorldOK
<1>5. \A t \in Tasks : task'[t] = Idle
  BY <1>1
<1>6. \A t \in Tasks : StepInv(t)' /\ KnownInv(t)'
  BY <1>5 DEF StepInv, StepOf, KnownInv, KnownOf, Idle
<1>7. LocksExclude'
  BY <1>1, <1>5, ValuesAssumption DEF LocksExclude, Idle, Changing
<1> QED
  BY <1>1, <1>4, <1>6, <1>7, QuietTrees DEF IInv

\* Initially there is the first event, and nobody does anything.
LEMMA InitIInv ==
  ASSUME Init
  PROVE  IInv
<1>1. Root \in Events /\ Root \in StateEvents /\ 1 # NoCount
  BY EventsAssumption, ValuesAssumption DEF Events
<1>2. TypeOK
  <2>1. TreesOK
    BY <1>1, EventsAssumption DEF Init, TreesOK, Events
  <2>2. prev \in [Events -> SUBSET Events] /\ \A e \in Local : prev[e] = {}
    BY EventsAssumption DEF Init, Events
  <2>3. Cardinality({}) = 0
    BY FS_EmptySet
  <2>4. ASSUME NEW e \in Local
        PROVE  Cardinality(prev[e]) =< PrevLimit
    <3>1. Cardinality(prev[e]) = 0
      BY <2>2, <2>3, Zenon
    <3>2. 0 =< PrevLimit
      BY LimitsAssumption
    <3> QED
      BY <3>1, <3>2
  <2>5. WorldOK
    BY <2>2, <2>4 DEF Init, WorldOK
  <2> QED
    BY <2>1, <2>5, IdleType, TypeParts DEF Init
<1>3. \A t \in Tasks : task[t] = Idle
  BY DEF Init
<1>4. \A t \in Tasks : StepInv(t) /\ KnownInv(t)
  BY <1>3 DEF StepInv, StepOf, KnownInv, KnownOf, Idle
<1>5. LocksExclude
  BY <1>3, ValuesAssumption DEF Init, LocksExclude, Idle, Changing
<1>6. IdsPointToRows
  BY <1>1 DEF Init, IdsPointToRows, InTimeline
<1>7. StateEventsExist
  <2>1. ids[Root] = 1
    BY <1>1 DEF Init
  <2> QED
    BY <1>1, <2>1 DEF Init, StateEventsExist, Known, InTimeline
<1> QED
  BY <1>2, <1>4, <1>5, <1>6, <1>7 DEF IInv

\* Every step keeps the invariant.
LEMMA NextIInv ==
  ASSUME IInv, [Next]_vars
  PROVE  IInv'
<1>1. CASE UNCHANGED vars
  <2>1. UNCHANGED trees /\ UNCHANGED <<bad, fed, lock, task>> /\ UNCHANGED world
    BY <1>1 DEF vars
  <2>2. rows' = rows /\ ids' = ids /\ outliers' = outliers
    BY <2>1 DEF trees
  <2>3. TypeOK'
    <3>1. WorldOK'
      BY <2>1 DEF IInv, TypeOK, WorldOK, world
    <3> QED
      BY <2>1, <3>1, QuietTrees DEF IInv, TypeOK, TreesOK, WorldOK
  <2>4. (\A t \in Tasks : StepInv(t)' /\ KnownInv(t)') /\ LocksExclude'
    BY <2>1, <2>2 DEF IInv, StepInv, StepOf, KnownInv, KnownOf, Known, InTimeline, LocksExclude
  <2> QED
    BY <2>1, <2>3, <2>4, QuietTrees DEF IInv
<1>2. CASE \E t \in Tasks, e \in Local : BuildAndAppend(t, e) \/ BuildInvite(t, e)
  BY <1>2, BuildAndAppendStep, BuildInviteStep
<1>3. CASE \E t \in Tasks, e \in Remote, kind \in {"transaction", "direct", "backfill"} : Receive(t, e, kind)
  BY <1>3, ReceiveStep
<1>4. ASSUME NEW t \in Tasks, Locks(t) PROVE IInv'
  BY <1>4, LockFederationStep, LockStateStep DEF Locks
<1>5. ASSUME NEW t \in Tasks, Handle(t) PROVE IInv'
  BY <1>5, EndSteps, ReadFirstStep, HandleOutlierStep, FetchPrevStep, PickPrevStep, FetchDoneStep, PickIncomingStep
     DEF Handle
<1>6. ASSUME NEW t \in Tasks, Upgrade(t) PROVE IInv'
  BY <1>6, EndSteps, StateFromPrevsStep, StateFromRemoteStep, SoftFailCheckStep, ForceStateStep,
     SetEventStateStep DEF Upgrade
<1>7. ASSUME NEW t \in Tasks, Append(t) PROVE IInv'
  BY <1>7, LeafSteps, SoftFailStep, InsertRowStep, InsertIdStep, RemoveOutlierStep, SetRoomStateStep
     DEF Append
<1>8. CASE (\E e \in Events : BackoffElapses(e)) \/ Crash
  BY <1>8, BackoffElapsesStep, CrashStep
<1> QED
  BY <1>1, <1>2, <1>3, <1>4, <1>5, <1>6, <1>7, <1>8 DEF Next

\* The inductive invariant always holds.
LEMMA Invariant == Spec => []IInv
<1>1. Init => IInv
  BY InitIInv
<1>2. IInv /\ [Next]_vars => IInv'
  BY NextIInv
<1> QED
  BY <1>1, <1>2, PTL DEF Spec

----------------------------------------------------------------------------
(* Repeated rows and soft failed events.                                   *)

Guarded == {"transaction", "backfill"}
Deciding == {"softcheck", "lock", "force", "state", "reference", "unleaf", "leaf", "softfail", "row"}

Watching == Deciding \cup {"outlier"}

\* What a task may rely on because of the federation lock: the event it decides
\* about is neither appended nor soft failed meanwhile, unless by a task without it.
GuardInv(t) ==
  LET k == task[t] IN
  /\ k.kind \in Guarded /\ k.pc \notin {"idle", "federation"} => fed = t
  /\ k.kind = "direct" /\ k.pc \in Changing => k.cur \in unguarded
  /\ k.kind \in Guarded /\ k.pc \in Watching => ~InTimeline(k.cur) \/ k.cur \in unguarded
  /\ k.kind = "transaction" /\ k.pc \in Deciding => k.cur \notin softFailed \/ k.cur \in unguarded
  /\ k.kind \notin {"none", "local"} => k.ev \in Remote \cup Invites
  /\ k.kind = "none" => k.pc = "idle"
  /\ k.kind = "backfill" => k.pc \in {"federation", "check", "outlier", "row", "id", "unoutlier"} /\ k.cur = k.ev

\* What the only task that handles a local event may rely on.
LocalInv(t) ==
  LET k == task[t] IN
  k.kind = "local" =>
    /\ k.cur \in built \ Invites
    /\ k.pc \notin {"unoutlier", "roomstate"} => ~Known(k.cur)
    /\ k.pc \notin {"id", "unoutlier", "roomstate"} => \A r \in rows : r.event # k.cur

\* A row that was not torn has an id or will have one.
RowsInv ==
  /\ counter > 0
  /\ \A e \in Local \ (built \cup Invites) : ~Known(e) /\ \A r \in rows : r.event # e
  /\ \A e \in softFailed : Known(e)
  /\ \A r \in rows : \/ r.count \in torn
                     \/ InTimeline(r.event)
                     \/ \E t \in Tasks : /\ task[t].pc = "id" /\ task[t].cur = r.event
                                         /\ task[t].count = r.count

RInv ==
  /\ \A t \in Tasks : GuardInv(t)
  /\ \A t \in Tasks : LocalInv(t)
  /\ RowsInv
  /\ OnlyTornRowsRepeat
  /\ SoftFailedStaysOut

\* Only task t takes a step.
Alone(t) ==
  /\ \A u \in Tasks \ {t} : task'[u] = task[u]
  /\ \/ fed' = fed
     \/ fed = NoTask /\ fed' = t
     \/ fed = t /\ fed' = NoTask
  /\ unguarded \subseteq unguarded' /\ built \subseteq built'

\* What task t does leaves alone what task u relies on.
Apart(u) ==
  LET k == task[u] IN
  /\ k.kind \in Guarded /\ k.pc \in Watching => ids'[k.cur] = ids[k.cur] \/ k.cur \in unguarded'
  /\ k.kind = "transaction" /\ k.pc \in Deciding /\ k.cur \in softFailed'
       => k.cur \in softFailed \/ k.cur \in unguarded'
  /\ k.kind = "local" /\ k.pc \notin {"unoutlier", "roomstate"}
       => /\ k.cur \notin outliers' \/ k.cur \in outliers
          /\ ids'[k.cur] = ids[k.cur]
  /\ k.kind = "local" /\ k.pc \notin {"id", "unoutlier", "roomstate"}
       => \A r \in rows' : r \in rows \/ r.event # k.cur

\* The invariants of the other tasks are kept.
LEMMA OtherTasks ==
  ASSUME IInv, RInv, NEW t \in Tasks, Alone(t), \A u \in Tasks \ {t} : Apart(u),
         NEW u \in Tasks \ {t}
  PROVE  GuardInv(u)' /\ LocalInv(u)'
<1>1. task'[u] = task[u] /\ GuardInv(u) /\ LocalInv(u) /\ Apart(u)
  BY DEF RInv, Alone
<1>2. fed = u => fed' = u
  BY ValuesAssumption DEF Alone
<1>3. unguarded \subseteq unguarded' /\ built \subseteq built'
  BY DEF Alone
<1>4. GuardInv(u)'
  BY <1>1, <1>2, <1>3 DEF GuardInv, Apart, InTimeline
<1>5. LocalInv(u)'
  BY <1>1, <1>3 DEF LocalInv, Apart, Known, InTimeline
<1> QED
  BY <1>4, <1>5

\* A step that writes no row, no id and no soft failed event keeps the invariant if
\* the events it makes known are not local ones that are still to be built.
LEMMA CalmStep ==
  ASSUME IInv, RInv, NEW t \in Tasks, Alone(t), task[t].pc # "id",
         UNCHANGED <<rows, ids, softFailed, counter, torn>>,
         \A e \in Local \ Invites : e \in outliers' => Known(e),
         \A e \in Events : Known(e) => Known(e)',
         GuardInv(t)', LocalInv(t)'
  PROVE  RInv'
<1>0. RowsInv /\ OnlyTornRowsRepeat /\ SoftFailedStaysOut /\ TypeOK
  BY DEF RInv, IInv
<1>1. ASSUME NEW u \in Tasks \ {t}
      PROVE  Apart(u)
  <2>1. LocalInv(u) /\ built \subseteq Local
    BY <1>0 DEF RInv, TypeOK
  <2> QED
    BY <2>1 DEF Apart, LocalInv, Known
<1>2. \A u \in Tasks : GuardInv(u)' /\ LocalInv(u)'
  BY <1>1, OtherTasks
<1>3. RowsInv'
  <2>1. \A e \in Local \ (built' \cup Invites) : ~Known(e)' /\ \A r \in rows' : r.event # e
    BY <1>0 DEF RowsInv, Known, InTimeline, Alone
  <2>2. \A e \in softFailed' : Known(e)'
    BY <1>0 DEF RowsInv, TypeOK
  <2>3. \A r \in rows' : \/ r.count \in torn'
                         \/ InTimeline(r.event)'
                         \/ \E v \in Tasks : /\ task'[v].pc = "id" /\ task'[v].cur = r.event
                                             /\ task'[v].count = r.count
    <3>1. \A v \in Tasks : task[v].pc = "id" => task'[v] = task[v]
      BY DEF Alone
    <3> QED
      BY <1>0, <3>1 DEF RowsInv, InTimeline
  <2> QED
    BY <1>0, <2>1, <2>2, <2>3 DEF RowsInv
<1>4. OnlyTornRowsRepeat' /\ SoftFailedStaysOut'
  BY <1>0 DEF OnlyTornRowsRepeat, SoftFailedStaysOut, Alone
<1> QED
  BY <1>2, <1>3, <1>4 DEF RInv

\* A request that ends relies on nothing.
LEMMA FinishAlone ==
  ASSUME IInv, NEW t \in Tasks, Finish(t), UNCHANGED <<unguarded, built>>
  PROVE  Alone(t) /\ GuardInv(t)' /\ LocalInv(t)'
<1>1. task'[t] = Idle /\ \A u \in Tasks \ {t} : task'[u] = task[u]
  BY DEF Finish, IInv, TypeOK
<1>2. Alone(t)
  BY <1>1 DEF Finish, Alone
<1>3. GuardInv(t)' /\ LocalInv(t)'
  BY <1>1 DEF GuardInv, LocalInv, Idle, Guarded, Changing, Deciding, Watching
<1> QED
  BY <1>2, <1>3

\* Back in the loop over the prev events a task relies on its lock.
LEMMA ReturnAlone ==
  ASSUME IInv, RInv, NEW t \in Tasks, NEW failed, Return(t, failed), UNCHANGED <<unguarded, built>>,
         task[t].kind # "local", task[t].pc \notin {"idle", "federation", "check", "outlier"}
  PROVE  Alone(t) /\ GuardInv(t)' /\ LocalInv(t)'
<1> DEFINE k == task[t]
<1>0. k \in TaskRecord /\ GuardInv(t) /\ task \in [Tasks -> TaskRecord]
  BY Fields DEF IInv, RInv, TypeOK
<1>1. CASE k.cur = k.ev
  BY <1>1, FinishAlone DEF Return
<1>2. CASE k.cur # k.ev
  <2>1. /\ task' = [task EXCEPT ![t] =
                      [k EXCEPT !.pc = "prevs", !.cur = k.ev, !.at = {}, !.soft = FALSE, !.exts = {},
                                !.count = NoCount,
                                !.errors = IF failed THEN k.errors + 1 ELSE k.errors]]
        /\ UNCHANGED fed
    BY <1>2 DEF Return
  <2>2. /\ task'[t].pc = "prevs" /\ task'[t].kind = k.kind /\ task'[t].ev = k.ev /\ task'[t].cur = k.ev
        /\ \A u \in Tasks \ {t} : task'[u] = task[u]
    BY <1>0, <2>1 DEF TaskRecord
  <2>3. k.kind # "backfill" /\ k.kind # "none"
    BY <1>0, <1>2 DEF GuardInv
  <2>4. GuardInv(t)' /\ LocalInv(t)'
    BY <1>0, <2>1, <2>2, <2>3 DEF GuardInv, LocalInv, Changing, Deciding, Watching
  <2> QED
    BY <2>1, <2>2, <2>4 DEF Alone
<1> QED
  BY <1>1, <1>2

\* The event is not in the timeline when the first event is read.
LEMMA ReadFirstKeepsRInv ==
  ASSUME IInv, RInv, NEW t \in Tasks, ReadFirst(t)
  PROVE  RInv'
<1> DEFINE k == task[t]
<1>0. k \in TaskRecord /\ GuardInv(t) /\ task \in [Tasks -> TaskRecord] /\ LocalInv(t)
      /\ StepInv(t) /\ TypeOK
  BY Fields DEF IInv, RInv, TypeOK
<1>1. /\ k.pc = "check" /\ ~InTimeline(k.ev)
      /\ UNCHANGED <<rows, ids, outliers, softFailed, counter, torn, unguarded, built, fed>>
  BY DEF ReadFirst, trees, world
<1>2. /\ task'[t].kind = k.kind /\ task'[t].ev = k.ev /\ task'[t].cur = k.cur
      /\ task'[t].pc = "outlier" /\ \A u \in Tasks \ {t} : task'[u] = task[u]
  <2>1. PICK q \in rows : task' = [task EXCEPT ![t].pc = "outlier", ![t].first = Time[q.event]]
    BY DEF ReadFirst
  <2> QED
    BY <1>0, <2>1 DEF TaskRecord
<1>3. Alone(t)
  BY <1>1, <1>2 DEF Alone
<1>4. k.cur = k.ev /\ k.kind \notin {"none", "local"}
  BY <1>0, <1>1 DEF GuardInv, StepInv, StepOf, Changing
<1>5. GuardInv(t)' /\ LocalInv(t)'
  BY <1>0, <1>1, <1>2, <1>4 DEF GuardInv, LocalInv, Changing, Deciding, Watching, Guarded, InTimeline
<1>6. /\ \A e \in Local \ Invites : e \in outliers' => Known(e)
      /\ \A e \in Events : Known(e) => Known(e)'
  BY <1>1 DEF Known, InTimeline
<1> QED
  BY <1>1, <1>3, <1>5, <1>6, CalmStep

\* Steps before the event to handle is chosen.
LEMMA EarlySteps ==
  ASSUME IInv, RInv, NEW t \in Tasks,
         \/ LockFederation(t) \/ FetchDone(t) \/ PickIncoming(t)
         \/ \E x \in Events : PickPrev(t, x) \/ FetchPrev(t, x)
  PROVE  RInv'
<1> DEFINE k == task[t]
<1>0. k \in TaskRecord /\ GuardInv(t) /\ task \in [Tasks -> TaskRecord] /\ LocalInv(t)
      /\ StepInv(t) /\ TypeOK
  BY Fields DEF IInv, RInv, TypeOK
<1>1. /\ k.pc \in {"federation", "fetch", "prevs"}
      /\ UNCHANGED <<rows, ids, softFailed, counter, torn, unguarded, built>>
      /\ outliers \subseteq outliers' /\ outliers' \subseteq outliers \cup Remote
  BY DEF LockFederation, FetchDone, PickIncoming, PickPrev, FetchPrev, CanBeFetched, trees, world
<1>2. /\ task'[t].kind = k.kind /\ task'[t].ev = k.ev
      /\ \A u \in Tasks \ {t} : task'[u] = task[u]
      /\ \/ task'[t].pc = "check" /\ task'[t].cur = k.cur /\ fed = NoTask /\ fed' = t
         \/ task'[t].pc \in {"fetch", "prevs", "upgrade"} /\ k.pc \in {"fetch", "prevs"} /\ fed' = fed
  <2>1. CASE LockFederation(t)
    BY <1>0, <2>1 DEF LockFederation, TaskRecord
  <2>2. CASE FetchDone(t)
    BY <1>0, <2>2 DEF FetchDone, TaskRecord
  <2>3. CASE PickIncoming(t)
    BY <1>0, <2>3 DEF PickIncoming, TaskRecord
  <2>4. ASSUME NEW x \in Events, PickPrev(t, x)
        PROVE  /\ task'[t].kind = k.kind /\ task'[t].ev = k.ev
               /\ \A u \in Tasks \ {t} : task'[u] = task[u]
               /\ task'[t].pc \in {"prevs", "upgrade"} /\ k.pc = "prevs" /\ fed' = fed
    BY <1>0, <2>4 DEF PickPrev, TaskRecord
  <2>5. ASSUME NEW x \in Events, FetchPrev(t, x)
        PROVE  /\ task'[t].kind = k.kind /\ task'[t].ev = k.ev
               /\ \A u \in Tasks \ {t} : task'[u] = task[u]
               /\ task'[t].pc = "fetch" /\ k.pc = "fetch" /\ fed' = fed
    <3>1. \E S, I : \/ task' = [task EXCEPT ![t].stack = S, ![t].graph = @ \cup {x}, ![t].info = I]
                    \/ task' = [task EXCEPT ![t].stack = S, ![t].graph = @ \cup {x}]
      <4> DEFINE full == Cardinality(k.info \ NotAfter(k.from)) > MaxFetch
                 S == (k.stack \ {x}) \cup (IF full \/ x \in NotAfter(k.from) THEN {} ELSE prev[x] \ k.graph)
                 I == IF full THEN k.info ELSE k.info \cup {x}
      <4>1. \/ task' = [task EXCEPT ![t].stack = S, ![t].graph = @ \cup {x}, ![t].info = I]
            \/ task' = [task EXCEPT ![t].stack = @ \ {x}, ![t].graph = @ \cup {x}]
        BY <2>5 DEF FetchPrev
      <4> HIDE DEF S, I
      <4> QED
        BY <4>1
    <3>2. k.pc = "fetch" /\ fed' = fed
      BY <2>5 DEF FetchPrev
    <3> QED
      BY <1>0, <3>1, <3>2 DEF TaskRecord
  <2> QED
    BY <2>1, <2>2, <2>3, <2>4, <2>5
<1>3. Alone(t)
  BY <1>1, <1>2 DEF Alone
<1>4. k.kind # "local"
  BY <1>0, <1>1 DEF StepInv, StepOf, Changing
<1>5. GuardInv(t)' /\ LocalInv(t)'
  BY <1>0, <1>1, <1>2, <1>4 DEF GuardInv, LocalInv, Changing, Deciding, Watching
<1>6. /\ \A e \in Local \ Invites : e \in outliers' => Known(e)
      /\ \A e \in Events : Known(e) => Known(e)'
  BY <1>1, EventsAssumption DEF Known, InTimeline
<1> QED
  BY <1>1, <1>3, <1>5, <1>6, CalmStep

\* The event was neither in the timeline nor soft failed when its state was found.
LEMMA StateSteps ==
  ASSUME IInv, RInv, NEW t \in Tasks, StateFromPrevs(t) \/ StateFromRemote(t)
  PROVE  RInv'
<1> DEFINE k == task[t]
<1>0. k \in TaskRecord /\ GuardInv(t) /\ task \in [Tasks -> TaskRecord] /\ LocalInv(t)
      /\ StepInv(t) /\ TypeOK
  BY Fields DEF IInv, RInv, TypeOK
<1>1. /\ k.pc = "upgrade" /\ ~InTimeline(k.cur) /\ k.cur \notin softFailed
      /\ UNCHANGED <<rows, ids, softFailed, counter, torn, unguarded, built, fed>>
      /\ outliers \subseteq outliers'
      /\ \A e \in outliers' : e \in outliers \/ e \in {Root} \cup Remote \/ Known(e)
      /\ \E at : task' = [task EXCEPT ![t].pc = "softcheck", ![t].at = at]
  BY DEF StateFromPrevs, StateFromRemote, trees, world
<1>2. /\ task'[t].kind = k.kind /\ task'[t].ev = k.ev /\ task'[t].cur = k.cur
      /\ task'[t].pc = "softcheck" /\ \A u \in Tasks \ {t} : task'[u] = task[u]
  BY <1>0, <1>1 DEF TaskRecord
<1>3. Alone(t)
  BY <1>1, <1>2 DEF Alone
<1>4. k.kind # "local"
  BY <1>0, <1>1 DEF StepInv, StepOf, Changing
<1>5. GuardInv(t)' /\ LocalInv(t)'
  BY <1>0, <1>1, <1>2, <1>4 DEF GuardInv, LocalInv, Changing, InTimeline
<1>6. /\ \A e \in Local \ Invites : e \in outliers' => Known(e)
      /\ \A e \in Events : Known(e) => Known(e)'
  BY <1>1, EventsAssumption DEF Known, InTimeline
<1> QED
  BY <1>1, <1>3, <1>5, <1>6, CalmStep

\* The steps from there to the row.
LEMMA DecidingSteps ==
  ASSUME IInv, RInv, NEW t \in Tasks,
         \/ SoftFailCheck(t) \/ LockState(t) \/ ForceState(t) \/ SetEventState(t)
         \/ MarkAsReferenced(t) \/ RemoveLeaf(t) \/ InsertLeaf(t)
  PROVE  RInv'
<1> DEFINE k == task[t]
<1>0. k \in TaskRecord /\ GuardInv(t) /\ task \in [Tasks -> TaskRecord] /\ LocalInv(t)
      /\ StepInv(t) /\ TypeOK
  BY Fields DEF IInv, RInv, TypeOK
<1>1. /\ k.pc \in Deciding \ {"softfail", "row"}
      /\ UNCHANGED <<rows, ids, outliers, softFailed, counter, torn, built, fed>>
      /\ unguarded \subseteq unguarded'
      /\ k.pc \in Changing \/ k.pc = "softcheck" \/ (k.kind = "direct" => k.cur \in unguarded')
  BY DEF SoftFailCheck, LockState, ForceState, SetEventState, MarkAsReferenced, RemoveLeaf,
         InsertLeaf, Deciding, Watching, Changing, trees, world
<1>2. /\ task'[t].kind = k.kind /\ task'[t].ev = k.ev /\ task'[t].cur = k.cur
      /\ \A u \in Tasks \ {t} : task'[u] = task[u]
      /\ task'[t].pc \in Deciding
      /\ task'[t].pc \in Changing => k.pc # "softcheck"
  <2>1. CASE SoftFailCheck(t)
    BY <1>0, <2>1 DEF SoftFailCheck, TaskRecord, Deciding, Watching, Changing
  <2>2. CASE LockState(t)
    BY <1>0, <2>2 DEF LockState, TaskRecord, Deciding, Watching, Changing
  <2>3. CASE ForceState(t) \/ SetEventState(t)
    BY <1>0, <2>3 DEF ForceState, SetEventState, TaskRecord, Deciding, Watching
  <2>4. CASE MarkAsReferenced(t) \/ RemoveLeaf(t) \/ InsertLeaf(t)
    <3>1. k.pc # "softcheck" /\ \E pc \in {"unleaf", "leaf", "softfail", "row"} : task' = [task EXCEPT ![t].pc = pc]
      BY <2>4 DEF MarkAsReferenced, RemoveLeaf, InsertLeaf, NextLeaf
    <3> QED
      BY <1>0, <3>1 DEF TaskRecord, Deciding, Watching
  <2> QED
    BY <2>1, <2>2, <2>3, <2>4
<1>3. Alone(t)
  BY <1>1, <1>2 DEF Alone
<1>4. k.kind # "backfill" /\ k.kind # "none"
  BY <1>0, <1>1 DEF GuardInv, Deciding, Watching
<1>5. k.pc \notin {"idle", "federation", "id", "unoutlier", "roomstate"}
      /\ task'[t].pc \notin {"idle", "federation"}
  BY <1>1, <1>2 DEF Deciding, Watching
<1>6. GuardInv(t)'
  <2>1. k.pc \in Watching
    BY <1>1 DEF Watching
  <2> QED
    BY <1>0, <1>1, <1>2, <1>4, <1>5, <2>1 DEF GuardInv, InTimeline
<1>7. LocalInv(t)'
  BY <1>0, <1>1, <1>2, <1>5 DEF LocalInv, Known, InTimeline
<1>8. /\ \A e \in Local \ Invites : e \in outliers' => Known(e)
      /\ \A e \in Events : Known(e) => Known(e)'
  BY <1>1 DEF Known, InTimeline
<1> QED
  BY <1>1, <1>3, <1>5, <1>6, <1>7, <1>8, CalmStep

\* A request begins.
LEMMA BeginSteps ==
  ASSUME IInv, RInv, NEW t \in Tasks,
         \/ \E e \in Remote, kind \in {"transaction", "direct", "backfill"} : Receive(t, e, kind)
         \/ \E e \in Local : BuildInvite(t, e)
  PROVE  RInv'
<1>0. task \in [Tasks -> TaskRecord] /\ Idle \in TaskRecord
  BY IdleType DEF IInv, TypeOK
<1>1. /\ task[t].pc = "idle"
      /\ UNCHANGED <<rows, ids, outliers, softFailed, counter, torn, fed, unguarded>>
      /\ built \subseteq built'
  BY DEF Receive, BuildInvite, trees
<1>2. /\ task'[t].kind \in {"transaction", "direct", "backfill"}
      /\ task'[t].ev \in Remote \cup Invites /\ task'[t].cur = task'[t].ev
      /\ task'[t].pc = IF task'[t].kind = "direct" THEN "check" ELSE "federation"
      /\ \A u \in Tasks \ {t} : task'[u] = task[u]
  <2>1. ASSUME NEW e \in Remote, NEW kind \in {"transaction", "direct", "backfill"}, Receive(t, e, kind)
        PROVE  <1>2!:
    <3>1. task' = [task EXCEPT ![t] = [Idle EXCEPT !.pc = IF kind = "direct" THEN "check" ELSE "federation",
                                              !.kind = kind, !.ev = e, !.cur = e]]
      BY <2>1 DEF Receive
    <3> QED
      BY <1>0, <3>1 DEF Idle
  <2>2. ASSUME NEW e \in Local, BuildInvite(t, e)
        PROVE  <1>2!:
    <3>1. task' = [task EXCEPT ![t] = [Idle EXCEPT !.pc = "check", !.kind = "direct", !.ev = e, !.cur = e]]
          /\ e \in Invites
      BY <2>2 DEF BuildInvite
    <3> QED
      BY <1>0, <3>1 DEF Idle
  <2> QED
    BY <2>1, <2>2
<1>3. Alone(t)
  BY <1>1, <1>2 DEF Alone
<1>4. GuardInv(t)' /\ LocalInv(t)'
  BY <1>2 DEF GuardInv, LocalInv, Guarded, Changing, Deciding, Watching
<1>5. /\ \A e \in Local \ Invites : e \in outliers' => Known(e)
      /\ \A e \in Events : Known(e) => Known(e)'
  BY <1>1 DEF Known, InTimeline
<1> QED
  BY <1>1, <1>3, <1>4, <1>5, CalmStep

\* A local event is new: there is no trace of it in the trees.
LEMMA BuildSteps ==
  ASSUME IInv, RInv, NEW t \in Tasks, NEW e \in Local, BuildAndAppend(t, e)
  PROVE  RInv'
<1>0. task \in [Tasks -> TaskRecord] /\ RowsInv
  BY DEF IInv, TypeOK, RInv
<1>1. /\ task[t].pc = "idle" /\ e \in Local \ (built \cup Invites)
      /\ UNCHANGED <<rows, ids, outliers, softFailed, counter, torn, fed, unguarded>>
      /\ built' = built \cup {e}
  BY DEF BuildAndAppend
<1>2. /\ task'[t].kind = "local" /\ task'[t].cur = e /\ task'[t].pc = "reference"
      /\ \A u \in Tasks \ {t} : task'[u] = task[u]
  <2>1. task' = [task EXCEPT ![t] = [Idle EXCEPT !.pc = "reference", !.kind = "local", !.ev = e,
                   !.cur = e, !.at = roomState \cup ({e} \cap StateEvents), !.exts = {e}]]
    BY DEF BuildAndAppend
  <2> QED
    BY <1>0, <2>1 DEF Idle
<1>3. Alone(t)
  BY <1>1, <1>2 DEF Alone
<1>4. GuardInv(t)' /\ LocalInv(t)'
  BY <1>0, <1>1, <1>2 DEF GuardInv, LocalInv, Guarded, RowsInv, Known, InTimeline
<1>5. /\ \A x \in Local \ Invites : x \in outliers' => Known(x)
      /\ \A x \in Events : Known(x) => Known(x)'
  BY <1>1 DEF Known, InTimeline
<1> QED
  BY <1>1, <1>3, <1>4, <1>5, CalmStep

\* An event that becomes an outlier is a remote one or an invite.
LEMMA OutlierSteps ==
  ASSUME IInv, RInv, NEW t \in Tasks, HandleOutlier(t)
  PROVE  RInv'
<1> DEFINE k == task[t]
<1>0. /\ k \in TaskRecord /\ GuardInv(t) /\ task \in [Tasks -> TaskRecord] /\ LocalInv(t)
      /\ StepInv(t) /\ TypeOK
  BY Fields DEF IInv, RInv, TypeOK
<1>1. /\ k.pc = "outlier" /\ outliers' = outliers \cup {k.ev}
      /\ UNCHANGED <<rows, ids, softFailed, counter, torn, unguarded, built>>
  BY DEF HandleOutlier, world
<1>2. k.kind \notin {"none", "local"} /\ k.ev \in Remote \cup Invites /\ k.cur = k.ev
  BY <1>0, <1>1 DEF GuardInv, StepInv, StepOf, Changing
<1>3. /\ \A e \in Local \ Invites : e \in outliers' => Known(e)
      /\ \A e \in Events : Known(e) => Known(e)'
  BY <1>1, <1>2, EventsAssumption DEF Known, InTimeline
<1>4. Alone(t) /\ GuardInv(t)' /\ LocalInv(t)'
  <2>1. CASE Finish(t)
    BY <1>1, <2>1, FinishAlone
  <2>2. CASE ~Finish(t)
    <3>1. /\ task'[t].kind = k.kind /\ task'[t].ev = k.ev /\ task'[t].cur = k.cur
          /\ \A u \in Tasks \ {t} : task'[u] = task[u]
          /\ task'[t].pc = IF k.kind = "backfill" THEN "row" ELSE "fetch"
          /\ fed' = fed
      <4>1. \/ k.kind = "backfill" /\ task' = [task EXCEPT ![t].pc = "row"]
            \/ k.kind # "backfill" /\ \E time : task' = [task EXCEPT ![t].pc = "fetch",
                                                   ![t].stack = prev[k.ev], ![t].from = time]
        BY <2>2 DEF HandleOutlier
      <4>2. fed' = fed
        BY <2>2 DEF HandleOutlier
      <4> QED
        BY <1>0, <4>1, <4>2 DEF TaskRecord
    <3>2. Alone(t)
      BY <1>1, <3>1 DEF Alone
    <3>3. GuardInv(t)'
      BY <1>0, <1>1, <1>2, <3>1 DEF GuardInv, Changing, Deciding, Watching, Guarded, InTimeline
    <3>4. LocalInv(t)'
      BY <1>2, <3>1 DEF LocalInv
    <3> QED
      BY <3>2, <3>3, <3>4
  <2> QED
    BY <2>1, <2>2
<1> QED
  BY <1>1, <1>3, <1>4, CalmStep

\* The steps that end without a row, an id or a soft failed event.
LEMMA CalmEnds ==
  ASSUME IInv, RInv, NEW t \in Tasks,
         \/ SkipKnown(t) \/ Reject(t) \/ SetRoomState(t)
         \/ UpgradeSkips(t) \/ UpgradeFails(t) \/ ResolveFails(t) \/ RemoveOutlier(t)
  PROVE  RInv'
<1> DEFINE k == task[t]
<1>0. /\ k \in TaskRecord /\ GuardInv(t) /\ task \in [Tasks -> TaskRecord] /\ LocalInv(t)
      /\ StepInv(t) /\ TypeOK
  BY Fields DEF IInv, RInv, TypeOK
<1>1. /\ k.pc \in {"check", "outlier", "fetch", "prevs", "roomstate", "upgrade", "force", "unoutlier"}
      /\ UNCHANGED <<rows, ids, softFailed, counter, torn, unguarded, built>>
      /\ outliers' = outliers \/ (k.pc = "unoutlier" /\ outliers' = outliers \ {k.cur})
  BY DEF SkipKnown, Reject, SetRoomState, UpgradeSkips, UpgradeFails, ResolveFails, RemoveOutlier,
         trees, world
<1>2. /\ \A e \in Local \ Invites : e \in outliers' => Known(e)
      /\ \A e \in Events : Known(e) => Known(e)'
  BY <1>0, <1>1 DEF Known, InTimeline, StepInv, StepOf
<1>3. Alone(t) /\ GuardInv(t)' /\ LocalInv(t)'
  <2>1. CASE SkipKnown(t) \/ Reject(t) \/ SetRoomState(t)
    <3>1. Finish(t)
      BY <2>1 DEF SkipKnown, Reject, SetRoomState
    <3> QED
      BY <1>1, <3>1, FinishAlone
  <2>2. CASE \/ UpgradeSkips(t) \/ UpgradeFails(t) \/ ResolveFails(t)
             \/ RemoveOutlier(t) /\ k.kind # "local"
    <3>1. /\ \E failed \in BOOLEAN : Return(t, failed)
          /\ k.pc \in {"upgrade", "force", "unoutlier"}
          /\ k.pc = "unoutlier" => k.kind # "local"
      BY <2>2 DEF UpgradeSkips, UpgradeFails, ResolveFails, RemoveOutlier
    <3>2. k.kind # "local"
      BY <1>0, <3>1 DEF StepInv, StepOf, Changing
    <3>3. PICK failed \in BOOLEAN : Return(t, failed)
      BY <3>1
    <3> QED
      BY <1>1, <3>1, <3>2, <3>3, ReturnAlone
  <2>3. CASE RemoveOutlier(t) /\ k.kind = "local"
    <3>1. task' = [task EXCEPT ![t].pc = "roomstate"] /\ fed' = fed
      BY <2>3 DEF RemoveOutlier
    <3>2. /\ task'[t].kind = "local" /\ task'[t].cur = k.cur /\ task'[t].pc = "roomstate"
          /\ \A u \in Tasks \ {t} : task'[u] = task[u]
      BY <1>0, <2>3, <3>1 DEF TaskRecord
    <3>3. GuardInv(t)' /\ LocalInv(t)'
      BY <1>0, <1>1, <2>3, <3>2 DEF GuardInv, LocalInv, Guarded
    <3> QED
      BY <1>1, <3>1, <3>2, <3>3 DEF Alone
  <2> QED
    BY <2>1, <2>2, <2>3
<1> QED
  BY <1>1, <1>2, <1>3, CalmStep

\* While a task under the federation lock decides about an event, nobody else writes
\* its row, its id or that it was soft failed, unless without that lock.
LEMMA NoRival ==
  ASSUME IInv, RInv, NEW t \in Tasks, task[t].kind \in Guarded, task[t].pc \in Watching,
         task[t].cur \notin unguarded,
         NEW u \in Tasks \ {t}, task[u].cur = task[t].cur
  PROVE  task[u].pc \notin {"row", "id", "softfail"}
<1>0. /\ GuardInv(t) /\ GuardInv(u) /\ LocalInv(u) /\ KnownInv(t) /\ StepInv(t) /\ TypeOK
      /\ task[u].kind \in {"none", "local", "transaction", "direct", "backfill"}
  BY Fields DEF IInv, RInv
<1>1. SUFFICES ASSUME task[u].pc \in {"row", "id", "softfail"}
               PROVE  FALSE
  OBVIOUS
<1>2. fed = t
  BY <1>0 DEF GuardInv, Deciding, Watching
<1>3. task[u].kind \notin Guarded
  BY <1>0, <1>1, <1>2 DEF GuardInv
<1>4. task[u].kind # "direct"
  BY <1>0, <1>1 DEF GuardInv, Changing
<1>5. task[u].kind # "none"
  BY <1>0, <1>1 DEF GuardInv
<1>6. CASE task[t].pc = "outlier"
  <2>1. task[t].cur \in Remote \cup Invites
    BY <1>0, <1>6 DEF GuardInv, StepInv, StepOf, Guarded
  <2>2. task[u].kind = "local" => task[u].cur \in Local \ Invites
    BY <1>0 DEF LocalInv, TypeOK
  <2> QED
    BY <1>0, <1>3, <1>4, <1>5, <2>1, <2>2, EventsAssumption DEF Guarded
<1>7. CASE task[t].pc # "outlier"
  <2>1. Known(task[t].cur)
    BY <1>0, <1>7 DEF KnownInv, KnownOf, Guarded, Deciding, Watching
  <2>2. task[u].kind # "local"
    BY <1>0, <1>1, <2>1 DEF LocalInv
  <2> QED
    BY <1>0, <1>3, <1>4, <1>5, <2>2 DEF Guarded
<1> QED
  BY <1>6, <1>7

\* Then its rows are those a crash has torn.
LEMMA RowsAreTorn ==
  ASSUME IInv, RInv, NEW t \in Tasks, task[t].kind \in Guarded, task[t].pc \in Deciding,
         task[t].cur \notin unguarded, NEW r \in rows, r.event = task[t].cur
  PROVE  r.count \in torn
<1>1. ~InTimeline(r.event)
  BY DEF RInv, GuardInv, Watching
<1>2. task[t].pc # "id"
  BY DEF Deciding, Watching
<1>3. ~ \E u \in Tasks : task[u].pc = "id" /\ task[u].cur = r.event
  BY <1>2, NoRival DEF Watching
<1> QED
  BY <1>1, <1>3 DEF RInv, RowsInv

\* An event is soft failed: it has no row that counts.
LEMMA SoftFailKeepsRInv ==
  ASSUME IInv, RInv, NEW t \in Tasks, SoftFail(t)
  PROVE  RInv'
<1> DEFINE k == task[t]
<1>0. /\ GuardInv(t) /\ StepInv(t) /\ KnownInv(t) /\ TypeOK /\ RowsInv /\ OnlyTornRowsRepeat
      /\ SoftFailedStaysOut
      /\ k.kind \in {"none", "local", "transaction", "direct", "backfill"}
  BY Fields DEF IInv, RInv
<1>1. /\ k.pc = "softfail" /\ softFailed' = softFailed \cup {k.cur} /\ Return(t, TRUE)
      /\ UNCHANGED <<rows, ids, outliers, counter, torn, unguarded, built>>
  BY DEF SoftFail
<1>2. k.kind \in {"transaction", "direct"}
  BY <1>0, <1>1 DEF GuardInv, StepInv, StepOf, Changing
<1>3. k.cur \in unguarded \/ (k.kind \in Guarded /\ k.pc \in Deciding)
  BY <1>0, <1>1, <1>2 DEF GuardInv, Guarded, Deciding, Watching, Changing
<1>4. Alone(t) /\ GuardInv(t)' /\ LocalInv(t)'
  BY <1>1, <1>2, ReturnAlone
<1>5. ASSUME NEW u \in Tasks \ {t}
      PROVE  Apart(u)
  <2>1. GuardInv(u)
    BY DEF RInv
  <2>2. k.kind = "transaction" => fed = t
    BY <1>0, <1>1 DEF GuardInv, Guarded
  <2>3. k.kind = "direct" => k.cur \in unguarded
    BY <1>0, <1>1 DEF GuardInv, Changing
  <2>4. task[u].kind = "transaction" /\ task[u].pc \in Deciding => fed = u
    BY <2>1 DEF GuardInv, Guarded, Deciding, Watching
  <2> QED
    BY <1>1, <1>2, <2>2, <2>3, <2>4 DEF Apart
<1>6. \A u \in Tasks : GuardInv(u)' /\ LocalInv(u)'
  BY <1>4, <1>5, OtherTasks
<1>7. RowsInv'
  <2>1. Known(k.cur)
    BY <1>0, <1>1, <1>2 DEF KnownInv, KnownOf
  <2>2. \A e : (Known(e)' <=> Known(e)) /\ (InTimeline(e)' <=> InTimeline(e))
    BY <1>1 DEF Known, InTimeline
  <2>3. \A v \in Tasks : task[v].pc = "id" => task'[v] = task[v]
    BY <1>1, <1>4 DEF Alone
  <2> QED
    BY <1>0, <1>1, <2>1, <2>2, <2>3 DEF RowsInv
<1>8. OnlyTornRowsRepeat'
  BY <1>0, <1>1 DEF OnlyTornRowsRepeat
<1>9. SoftFailedStaysOut'
  <2>1. ASSUME NEW r \in rows, r.event = k.cur, k.cur \notin unguarded
        PROVE  r.count \in torn
    BY <1>3, <2>1, RowsAreTorn
  <2> QED
    BY <1>0, <1>1, <2>1 DEF SoftFailedStaysOut
<1> QED
  BY <1>6, <1>7, <1>8, <1>9 DEF RInv

\* Two tasks that are about to write: a local event is handled by one of them only.
LEMMA LocalIsAlone ==
  ASSUME IInv, RInv, NEW t \in Tasks, NEW u \in Tasks \ {t},
         task[t].pc \in {"row", "id"}, task[u].kind = "local",
         task[u].pc \notin {"unoutlier", "roomstate"}
  PROVE  task[t].cur # task[u].cur
<1>0. /\ LocalInv(u) /\ GuardInv(t) /\ KnownInv(t) /\ StepInv(u) /\ LocksExclude
  BY DEF IInv, RInv
<1>1. CASE task[t].kind = "local"
  <2>1. lock = t
    BY <1>0, <1>1 DEF LocksExclude, Changing
  <2>2. lock = u
    BY <1>0 DEF LocksExclude, StepInv, StepOf
  <2> QED
    BY <2>1, <2>2
<1>2. CASE task[t].kind # "local"
  <2>1. Known(task[t].cur)
    BY <1>0, <1>2 DEF KnownInv, KnownOf
  <2>2. ~Known(task[u].cur)
    BY <1>0 DEF LocalInv
  <2> QED
    BY <2>1, <2>2
<1> QED
  BY <1>1, <1>2

\* No task is about to write a local event that is still to be built.
LEMMA UnbuiltIsFree ==
  ASSUME IInv, RInv, NEW t \in Tasks, task[t].pc \in {"row", "id"},
         NEW e \in Local \ (built \cup Invites)
  PROVE  task[t].cur # e
<1>0. LocalInv(t) /\ KnownInv(t) /\ RowsInv
  BY DEF IInv, RInv
<1>1. CASE task[t].kind = "local"
  BY <1>0, <1>1 DEF LocalInv
<1>2. CASE task[t].kind # "local"
  BY <1>0, <1>2 DEF KnownInv, KnownOf, RowsInv
<1> QED
  BY <1>1, <1>2

\* A row is written: an earlier one of the same event was torn, or somebody went
\* without the federation lock.
LEMMA InsertRowKeepsRInv ==
  ASSUME IInv, RInv, NEW t \in Tasks, InsertRow(t)
  PROVE  RInv'
<1> DEFINE k == task[t]
           c == IF k.kind = "backfill" THEN -counter ELSE counter
           new == [count |-> c, event |-> k.cur]
<1>0. /\ GuardInv(t) /\ LocalInv(t) /\ StepInv(t) /\ KnownInv(t) /\ TypeOK /\ RowsInv
      /\ OnlyTornRowsRepeat /\ SoftFailedStaysOut /\ counter \in Nat /\ k \in TaskRecord
      /\ k.kind \in {"none", "local", "transaction", "direct", "backfill"}
  BY Fields DEF IInv, RInv, TypeOK
<1>1. /\ k.pc = "row" /\ counter' = counter + 1 /\ rows' = rows \cup {new}
      /\ task' = [task EXCEPT ![t].pc = "id", ![t].count = c]
      /\ UNCHANGED <<ids, outliers, softFailed, torn, unguarded, built, fed>>
  BY DEF InsertRow, world
<1>2. /\ task'[t].pc = "id" /\ task'[t].count = c /\ task'[t].cur = k.cur /\ task'[t].kind = k.kind
      /\ task'[t].ev = k.ev /\ \A u \in Tasks \ {t} : task'[u] = task[u]
  <2> HIDE DEF c
  <2> QED
    BY <1>0, <1>1 DEF TypeOK, TaskRecord
<1>3. c \in Int /\ (k.kind = "backfill" => c < 0) /\ new.count = c /\ new.event = k.cur
  BY <1>0 DEF RowsInv
<1> HIDE DEF c, new
<1>4. k.kind # "none"
  BY <1>0, <1>1 DEF GuardInv
<1>5. Alone(t)
  BY <1>1, <1>2 DEF Alone
<1>6. GuardInv(t)'
  BY <1>0, <1>1, <1>2 DEF GuardInv, Changing, Deciding, Watching
<1>7. LocalInv(t)'
  BY <1>0, <1>1, <1>2 DEF LocalInv, Known, InTimeline
<1>8. ASSUME NEW u \in Tasks \ {t}
      PROVE  Apart(u)
  <2>1. task[u].kind = "local" /\ task[u].pc \notin {"unoutlier", "roomstate"} => k.cur # task[u].cur
    BY <1>1, LocalIsAlone
  <2> QED
    BY <1>1, <1>3, <2>1 DEF Apart
<1>9. \A u \in Tasks : GuardInv(u)' /\ LocalInv(u)'
  BY <1>5, <1>6, <1>7, <1>8, OtherTasks
<1>10. RowsInv'
  <2>1. \A e : (Known(e)' <=> Known(e)) /\ (InTimeline(e)' <=> InTimeline(e))
    BY <1>1 DEF Known, InTimeline
  <2>2. \A e \in Local \ (built \cup Invites) : e # k.cur
    BY <1>1, UnbuiltIsFree
  <2>3. \A v \in Tasks : task[v].pc = "id" => task'[v] = task[v]
    BY <1>1, <1>2
  <2>4. counter' > 0
    BY <1>0, <1>1
  <2>5. \A e \in Local \ (built' \cup Invites) : ~Known(e)' /\ \A r \in rows' : r.event # e
    BY <1>0, <1>1, <1>3, <2>1, <2>2 DEF RowsInv
  <2>6. \A e \in softFailed' : Known(e)'
    BY <1>0, <1>1, <2>1 DEF RowsInv
  <2>7. ASSUME NEW r \in rows'
        PROVE  \/ r.count \in torn'
               \/ InTimeline(r.event)'
               \/ \E v \in Tasks : /\ task'[v].pc = "id" /\ task'[v].cur = r.event
                                   /\ task'[v].count = r.count
    <3>1. CASE r = new
      BY <1>2, <1>3, <3>1
    <3>2. CASE r \in rows
      <4>1. \/ r.count \in torn \/ ids[r.event] # NoCount
            \/ \E v \in Tasks : task[v].pc = "id" /\ task[v].cur = r.event /\ task[v].count = r.count
        BY <1>0, <3>2 DEF RowsInv, InTimeline
      <4> QED
        BY <1>1, <2>3, <4>1 DEF InTimeline
    <3> QED
      BY <1>1, <3>1, <3>2
  <2> QED
    BY <2>4, <2>5, <2>6, <2>7 DEF RowsInv
<1>11. ASSUME NEW r \in rows, r.event = k.cur, k.cur \notin unguarded
       PROVE  r.count \in torn
  <2>1. k.kind # "direct"
    BY <1>0, <1>1, <1>11 DEF GuardInv, Changing
  <2>2. k.kind # "local"
    BY <1>0, <1>1, <1>11 DEF LocalInv
  <2>3. k.kind \in Guarded /\ k.pc \in Deciding
    BY <1>0, <1>1, <1>4, <2>1, <2>2 DEF Guarded, Deciding, Watching
  <2> QED
    BY <1>11, <2>3, RowsAreTorn
<1>12. OnlyTornRowsRepeat'
  BY <1>0, <1>1, <1>3, <1>11 DEF OnlyTornRowsRepeat
<1>13. SoftFailedStaysOut'
  <2>1. k.cur \in softFailed \ unguarded => c < 0
    <3>1. SUFFICES ASSUME k.cur \in softFailed \ unguarded
                   PROVE  c < 0
      OBVIOUS
    <3>2. k.kind # "local"
      BY <1>0, <1>1, <3>1 DEF LocalInv, RowsInv
    <3>3. k.kind # "direct" /\ k.kind # "transaction"
      BY <1>0, <1>1, <3>1 DEF GuardInv, Changing, Deciding, Watching
    <3> QED
      BY <1>0, <1>3, <1>4, <3>2, <3>3
  <2> QED
    BY <1>0, <1>1, <1>3, <2>1 DEF SoftFailedStaysOut
<1> QED
  BY <1>9, <1>10, <1>12, <1>13 DEF RInv

\* An id is written: nobody who relied on its absence is left.
LEMMA InsertIdKeepsRInv ==
  ASSUME IInv, RInv, NEW t \in Tasks, InsertId(t)
  PROVE  RInv'
<1> DEFINE k == task[t]
<1>0. /\ GuardInv(t) /\ LocalInv(t) /\ StepInv(t) /\ KnownInv(t) /\ TypeOK /\ RowsInv
      /\ OnlyTornRowsRepeat /\ SoftFailedStaysOut /\ k \in TaskRecord /\ k.cur \in Events
      /\ k.kind \in {"none", "local", "transaction", "direct", "backfill"}
  BY Fields DEF IInv, RInv
<1>1. /\ k.pc = "id" /\ ids' = [ids EXCEPT ![k.cur] = k.count]
      /\ task' = [task EXCEPT ![t].pc = "unoutlier"]
      /\ UNCHANGED <<rows, outliers, counter, softFailed, torn, unguarded, built, fed>>
  BY DEF InsertId, world
<1>2. /\ task'[t].pc = "unoutlier" /\ task'[t].cur = k.cur /\ task'[t].kind = k.kind
      /\ task'[t].ev = k.ev /\ \A u \in Tasks \ {t} : task'[u] = task[u]
  BY <1>0, <1>1 DEF TypeOK, TaskRecord
<1>3. \A e \in Events : ids'[e] = IF e = k.cur THEN k.count ELSE ids[e]
  BY <1>0, <1>1 DEF TypeOK
<1>4. k.count # NoCount
  BY <1>0, <1>1, ValuesAssumption DEF StepInv, StepOf
<1>5. Alone(t)
  BY <1>1, <1>2 DEF Alone
<1>6. GuardInv(t)' /\ LocalInv(t)'
  BY <1>0, <1>1, <1>2 DEF GuardInv, LocalInv, Changing, Deciding, Watching
<1>7. ASSUME NEW u \in Tasks \ {t}
      PROVE  Apart(u)
  <2>0. task[u].cur \in Events /\ GuardInv(u)
    BY <1>0, Fields DEF RInv
  <2>1. task[u].kind = "local" /\ task[u].pc \notin {"unoutlier", "roomstate"} => k.cur # task[u].cur
    BY <1>1, LocalIsAlone
  <2>2. task[u].kind \in Guarded /\ task[u].pc \in Watching /\ task[u].cur = k.cur
          => task[u].cur \in unguarded
    BY <1>1, NoRival
  <2> QED
    BY <1>1, <1>3, <2>0, <2>1, <2>2 DEF Apart
<1>8. \A u \in Tasks : GuardInv(u)' /\ LocalInv(u)'
  BY <1>5, <1>6, <1>7, OtherTasks
<1>9. RowsInv'
  <2>1. \A e \in Local \ (built \cup Invites) : e # k.cur
    BY <1>1, UnbuiltIsFree
  <2>2. \A e \in Local \ (built' \cup Invites) : ~Known(e)' /\ \A r \in rows' : r.event # e
    BY <1>0, <1>1, <1>3, <2>1 DEF RowsInv, Known, InTimeline, Events
  <2>3. \A e \in softFailed' : Known(e)'
    BY <1>0, <1>1, <1>3, <1>4 DEF RowsInv, Known, InTimeline, TypeOK
  <2>4. ASSUME NEW r \in rows'
        PROVE  \/ r.count \in torn'
               \/ InTimeline(r.event)'
               \/ \E v \in Tasks : /\ task'[v].pc = "id" /\ task'[v].cur = r.event
                                   /\ task'[v].count = r.count
    <3>1. r \in rows /\ r.event \in Events
      BY <1>0, <1>1 DEF TypeOK
    <3>2. \/ r.count \in torn \/ ids[r.event] # NoCount
          \/ \E v \in Tasks : task[v].pc = "id" /\ task[v].cur = r.event /\ task[v].count = r.count
      BY <1>0, <3>1 DEF RowsInv, InTimeline
    <3>3. r.event = k.cur => ids'[r.event] # NoCount
      BY <1>3, <1>4, <3>1
    <3>4. ids[r.event] # NoCount => ids'[r.event] # NoCount
      BY <1>3, <1>4, <3>1
    <3>5. \A v \in Tasks : task[v].pc = "id" => v = t \/ task'[v] = task[v]
      BY <1>2
    <3> QED
      BY <1>1, <3>2, <3>3, <3>4, <3>5 DEF InTimeline
  <2> QED
    BY <1>0, <1>1, <2>2, <2>3, <2>4 DEF RowsInv
<1>10. OnlyTornRowsRepeat' /\ SoftFailedStaysOut'
  BY <1>0, <1>1 DEF OnlyTornRowsRepeat, SoftFailedStaysOut
<1> QED
  BY <1>8, <1>9, <1>10 DEF RInv

\* A crash makes the rows without an id torn ones.
LEMMA CrashKeepsRInv ==
  ASSUME IInv, RInv, Crash
  PROVE  RInv'
<1>0. RowsInv /\ OnlyTornRowsRepeat /\ SoftFailedStaysOut
  BY DEF RInv
<1>1. /\ UNCHANGED trees /\ UNCHANGED <<built, unguarded>> /\ task' = [t \in Tasks |-> Idle]
      /\ torn' = torn \cup {task[t].count : t \in {u \in Tasks : task[u].pc = "id"}}
  BY DEF Crash
<1>2. rows' = rows /\ ids' = ids /\ outliers' = outliers /\ softFailed' = softFailed /\ counter' = counter
  BY <1>1 DEF trees
<1>3. \A t \in Tasks : GuardInv(t)' /\ LocalInv(t)'
  <2>1. \A t \in Tasks : task'[t].kind = "none" /\ task'[t].pc = "idle"
    BY <1>1 DEF Idle
  <2> QED
    BY <2>1 DEF GuardInv, LocalInv, Guarded
<1>4. RowsInv'
  BY <1>0, <1>1, <1>2 DEF RowsInv, Known, InTimeline
<1>5. OnlyTornRowsRepeat' /\ SoftFailedStaysOut'
  BY <1>0, <1>1, <1>2 DEF OnlyTornRowsRepeat, SoftFailedStaysOut
<1> QED
  BY <1>3, <1>4, <1>5 DEF RInv

\* Where no task moves, a step leaves the invariant alone.
LEMMA StillKeepsRInv ==
  ASSUME RInv, UNCHANGED trees, UNCHANGED <<fed, task>>, UNCHANGED world
  PROVE  RInv'
<1>1. /\ rows' = rows /\ ids' = ids /\ outliers' = outliers /\ softFailed' = softFailed
      /\ counter' = counter /\ torn' = torn /\ built' = built /\ unguarded' = unguarded
      /\ fed' = fed /\ task' = task
  BY DEF trees, world
<1>2. \A t \in Tasks : GuardInv(t)' /\ LocalInv(t)'
  BY <1>1 DEF RInv, GuardInv, LocalInv, Known, InTimeline
<1>3. RowsInv' /\ OnlyTornRowsRepeat' /\ SoftFailedStaysOut'
  BY <1>1 DEF RInv, RowsInv, OnlyTornRowsRepeat, SoftFailedStaysOut, Known, InTimeline
<1> QED
  BY <1>2, <1>3 DEF RInv

\* Initially one row, with its id.
LEMMA InitRInv ==
  ASSUME Init
  PROVE  RInv
<1>1. \A t \in Tasks : GuardInv(t) /\ LocalInv(t)
  <2>1. \A t \in Tasks : task[t].kind = "none" /\ task[t].pc = "idle"
    BY DEF Init, Idle
  <2> QED
    BY <2>1 DEF GuardInv, LocalInv, Guarded
<1>2. RowsInv
  <2>1. Root \in Events /\ Local \subseteq Events /\ Root \notin Local /\ 1 # NoCount
    BY EventsAssumption, ValuesAssumption DEF Events
  <2>2. ids[Root] = 1 /\ \A e \in Local : ids[e] = NoCount
    BY <2>1 DEF Init
  <2> QED
    BY <2>1, <2>2 DEF Init, RowsInv, Known, InTimeline
<1>3. OnlyTornRowsRepeat /\ SoftFailedStaysOut
  BY DEF Init, OnlyTornRowsRepeat, SoftFailedStaysOut
<1> QED
  BY <1>1, <1>2, <1>3 DEF RInv

\* Every step keeps both invariants.
LEMMA NextRInv ==
  ASSUME IInv, RInv, [Next]_vars
  PROVE  RInv'
<1>1. CASE UNCHANGED vars
  BY <1>1, StillKeepsRInv DEF vars
<1>2. CASE \E t \in Tasks, e \in Local : BuildAndAppend(t, e) \/ BuildInvite(t, e)
  BY <1>2, BuildSteps, BeginSteps
<1>3. CASE \E t \in Tasks, e \in Remote, kind \in {"transaction", "direct", "backfill"} : Receive(t, e, kind)
  BY <1>3, BeginSteps
<1>4. ASSUME NEW t \in Tasks, Locks(t) PROVE RInv'
  BY <1>4, EarlySteps, DecidingSteps DEF Locks
<1>5. ASSUME NEW t \in Tasks, Handle(t) PROVE RInv'
  BY <1>5, CalmEnds, ReadFirstKeepsRInv, OutlierSteps, EarlySteps DEF Handle
<1>6. ASSUME NEW t \in Tasks, Upgrade(t) PROVE RInv'
  BY <1>6, CalmEnds, StateSteps, DecidingSteps DEF Upgrade
<1>7. ASSUME NEW t \in Tasks, Append(t) PROVE RInv'
  BY <1>7, DecidingSteps, SoftFailKeepsRInv, InsertRowKeepsRInv, InsertIdKeepsRInv, CalmEnds
     DEF Append
<1>8. CASE (\E e \in Events : BackoffElapses(e)) \/ Crash
  BY <1>8, CrashKeepsRInv, StillKeepsRInv DEF BackoffElapses
<1> QED
  BY <1>1, <1>2, <1>3, <1>4, <1>5, <1>6, <1>7, <1>8 DEF Next

----------------------------------------------------------------------------
(* The theorems.                                                           *)

\* RoomEvents is type correct; no local event has more prev events than the limit.
THEOREM TypeCorrect == Spec => []TypeOK
<1>1. IInv => TypeOK
  BY DEF IInv
<1> QED
  BY <1>1, Invariant, PTL

\* Whoever changes the room holds roomid_mutex_state, for any number of tasks and
\* events, and holders do not wait.
THEOREM ChangesAreExclusive == Spec => []LocksExclude
<1>1. IInv => LocksExclude
  BY DEF IInv
<1> QED
  BY <1>1, Invariant, PTL

\* eventid_pduid never leads to a row that is not there, whatever crashes.
THEOREM IdsLeadToRows == Spec => []IdsPointToRows
<1>1. IInv => IdsPointToRows
  BY DEF IInv
<1> QED
  BY <1>1, Invariant, PTL

\* The events of the room's state, and of the state of every event, exist at every
\* moment, whatever crashes and whatever is soft failed.
THEOREM StateExists == Spec => []StateEventsExist
<1>1. IInv => StateEventsExist
  BY DEF IInv
<1> QED
  BY <1>1, Invariant, PTL

\* Both inductive invariants hold always.
LEMMA BothInvariants == Spec => [](IInv /\ RInv)
<1>1. Init => IInv /\ RInv
  BY InitIInv, InitRInv
<1>2. (IInv /\ RInv) /\ [Next]_vars => (IInv /\ RInv)'
  BY NextIInv, NextRInv
<1> QED
  BY <1>1, <1>2, PTL DEF Spec

\* The federation lock keeps an event from being appended twice, but for a crash
\* between its row and its id.
THEOREM RowsDoNotRepeat == Spec => []OnlyTornRowsRepeat
<1>1. IInv /\ RInv => OnlyTornRowsRepeat
  BY DEF RInv
<1> QED
  BY <1>1, BothInvariants, PTL

\* A soft failed event that is handled under the federation lock is never appended.
THEOREM SoftFailedNeverAppended == Spec => []SoftFailedStaysOut
<1>1. IInv /\ RInv => SoftFailedStaysOut
  BY DEF RInv
<1> QED
  BY <1>1, BothInvariants, PTL

----------------------------------------------------------------------------
(* What a room's events follow.                                            *)

\* An event that is in the timeline, even if its id is not, or was given up.
HasRow(e) == \E r \in rows : r.event = e
Done(e) == HasRow(e) \/ e \in missed

Upgrading == {"upgrade", "softcheck", "lock", "force", "state", "reference", "unleaf", "leaf",
              "softfail", "row"}
Replacing == {"force", "state", "reference", "unleaf", "leaf"}

\* The leaves that a task is going to write: others that were leaves when it got
\* the lock, and its own event unless it is soft failed.
LeavesOf(k) ==
  k.pc \in Replacing => /\ k.soft \/ k.cur \in k.exts
                        /\ \A e \in k.exts : Done(e) \/ (e = k.cur /\ ~k.soft)

\* The events a task is to follow: all of them are on its list before it has picked
\* the first, and each is done when it is taken off.
FollowsOf(k) ==
  /\ k.pc = "fetch" =>
       /\ prev[k.ev] \subseteq k.stack \cup k.graph
       /\ \A g \in k.info \ NotAfter(k.from) : prev[g] \subseteq k.stack \cup k.graph
  /\ k.pc = "prevs" =>
       /\ \A p \in prev[k.ev] : p \in k.graph \/ Done(p)
       /\ \A g \in k.info \ NotAfter(k.from) : \A p \in prev[g] : p \in k.graph \/ Done(p)
  /\ k.pc \in Upgrading \cup {"id", "unoutlier"} /\ k.cur # k.ev =>
       /\ \A p \in prev[k.ev] : p \in k.graph \/ Done(p) \/ p = k.cur
       /\ \A g \in k.info \ NotAfter(k.from) : \A p \in prev[g] : p \in k.graph \/ Done(p) \/ p = k.cur
  /\ k.pc \in Upgrading /\ k.kind # "backfill" => \A p \in prev[k.cur] : Done(p)
  /\ k.pc # "idle" => k.ev \in Remote \cup built
  /\ k.pc \in {"federation", "check", "outlier"} => k.info = {}

\* A leaf is done, or about to be by the task that has just made it one.
LeavesDone ==
  \A e \in leaves :
    Done(e) \/ \E t \in Tasks : /\ task[t].pc \in {"leaf", "row"} /\ task[t].kind # "backfill"
                                /\ ~task[t].soft /\ task[t].cur = e

\* Of every event of the timeline, all that it follows was done before.
RowsFollow ==
  \A s \in rows : s.count > 0 =>
    \A p \in prev[s.event] \ missed : \E q \in rows : q.event = p /\ q.count < s.count

\* Counts go up, and what is not built leaves no trace.
CountsBelow == \A r \in rows : r.count < counter
UnbuiltUnknown == \A e \in Local \ built : ~Known(e) /\ ~HasRow(e)

LeavesInv(t) == LeavesOf(task[t])
FollowsInv(t) == FollowsOf(task[t])

PInv ==
  /\ \A t \in Tasks : LeavesInv(t) /\ FollowsInv(t)
  /\ LeavesDone /\ RowsFollow /\ RoomKeepsALeaf
  /\ CountsBelow /\ UnbuiltUnknown

\* Nothing that is done is undone, and nobody gets other prev events.
Kept ==
  /\ rows \subseteq rows' /\ missed \subseteq missed' /\ built \subseteq built'
  /\ \A e \in Events : e \in Local \ built \/ prev'[e] = prev[e]

\* What is done stays done.
LEMMA DoneStays ==
  ASSUME Kept, NEW e, Done(e)
  PROVE  Done(e)'
  BY DEF Kept, Done, HasRow

\* An event that a task handles or has found keeps its prev events.
LEMMA HandledIsBuilt ==
  ASSUME IInv, RInv, PInv, NEW t \in Tasks
  PROVE  /\ task[t].pc # "idle" => task[t].ev \notin Local \ built
         /\ task[t].pc \in Upgrading => task[t].cur \notin Local \ built
         /\ \A g \in task[t].info : g \notin Local \ built
<1>1. /\ KnownInv(t) /\ LocalInv(t) /\ FollowsInv(t) /\ UnbuiltUnknown
      /\ \A e \in Remote : e \notin Local
  BY EventsAssumption DEF IInv, RInv, PInv
<1>2. task[t].pc # "idle" => task[t].ev \notin Local \ built
  BY <1>1 DEF FollowsInv, FollowsOf
<1>3. task[t].pc \in Upgrading => task[t].cur \notin Local \ built
  <2>1. CASE task[t].kind = "local"
    BY <1>1, <2>1 DEF LocalInv
  <2>2. CASE task[t].kind # "local"
    BY <1>1, <2>2 DEF KnownInv, KnownOf, UnbuiltUnknown, Upgrading
  <2> QED
    BY <2>1, <2>2
<1>4. \A g \in task[t].info : g \notin Local \ built
  BY <1>1 DEF KnownInv, KnownOf, UnbuiltUnknown
<1> QED
  BY <1>2, <1>3, <1>4

\* The invariants of a task that takes no step are kept.
LEMMA OthersFollow ==
  ASSUME IInv, RInv, PInv, Kept, NEW u \in Tasks, task'[u] = task[u]
  PROVE  LeavesInv(u)' /\ FollowsInv(u)'
<1> DEFINE k == task[u]
<1>1. LeavesOf(k) /\ FollowsOf(k) /\ k.cur \in Events /\ k.ev \in Events /\ k.info \subseteq Events
  BY Fields DEF PInv, LeavesInv, FollowsInv, IInv
<1>2. /\ k.pc # "idle" => prev'[k.ev] = prev[k.ev]
      /\ k.pc \in Upgrading => prev'[k.cur] = prev[k.cur]
      /\ \A g \in k.info : prev'[g] = prev[g]
  BY <1>1, HandledIsBuilt DEF Kept
<1>3. \A e : Done(e) => Done(e)'
  BY DoneStays
<1> HIDE DEF k
<1>4. LeavesOf(k)'
  BY <1>1, <1>3 DEF LeavesOf, k
<1>5. FollowsOf(k)'
  <2>1. k' = k /\ built \subseteq built'
    BY DEF k, Kept
  <2>2. k.pc = "fetch" =>
          /\ prev'[k.ev] \subseteq k.stack \cup k.graph
          /\ \A g \in k.info \ NotAfter(k.from) : prev'[g] \subseteq k.stack \cup k.graph
    BY <1>1, <1>2 DEF FollowsOf
  <2>3. k.pc = "prevs" =>
          /\ \A p \in prev'[k.ev] : p \in k.graph \/ Done(p)'
          /\ \A g \in k.info \ NotAfter(k.from) : \A p \in prev'[g] : p \in k.graph \/ Done(p)'
    BY <1>1, <1>2, <1>3 DEF FollowsOf
  <2>4. k.pc \in Upgrading \cup {"id", "unoutlier"} /\ k.cur # k.ev =>
          /\ \A p \in prev'[k.ev] : p \in k.graph \/ Done(p)' \/ p = k.cur
          /\ \A g \in k.info \ NotAfter(k.from) : \A p \in prev'[g] : p \in k.graph \/ Done(p)' \/ p = k.cur
    <3>1. "idle" \notin Upgrading \cup {"id", "unoutlier"}
      BY DEF Upgrading
    <3> QED
      BY <1>1, <1>2, <1>3, <3>1 DEF FollowsOf
  <2>5. k.pc \in Upgrading /\ k.kind # "backfill" => \A p \in prev'[k.cur] : Done(p)'
    BY <1>1, <1>2, <1>3 DEF FollowsOf
  <2>6. /\ k.pc # "idle" => k.ev \in Remote \cup built'
        /\ k.pc \in {"federation", "check", "outlier"} => k.info = {}
    BY <1>1, <2>1 DEF FollowsOf
  <2> QED
    BY <2>1, <2>2, <2>3, <2>4, <2>5, <2>6 DEF FollowsOf
<1> QED
  BY <1>4, <1>5 DEF LeavesInv, FollowsInv, k

\* A step of task t keeps the invariant if it keeps what is about t and the trees.
LEMMA FollowStep ==
  ASSUME IInv, RInv, PInv, NEW t \in Tasks, \A u \in Tasks \ {t} : task'[u] = task[u],
         Kept, LeavesInv(t)', FollowsInv(t)', LeavesDone', RowsFollow', RoomKeepsALeaf',
         CountsBelow', UnbuiltUnknown'
  PROVE  PInv'
<1>1. \A u \in Tasks : LeavesInv(u)' /\ FollowsInv(u)'
  BY OthersFollow
<1> QED
  BY <1>1 DEF PInv

\* Steps that write neither a row nor a leaf.
LEMMA QuietFollow ==
  ASSUME IInv, RInv, PInv, NEW t \in Tasks, \A u \in Tasks \ {t} : task'[u] = task[u],
         UNCHANGED <<rows, leaves, counter, prev, built, crashes>>,
         softFailed \subseteq softFailed', missed \subseteq missed',
         task[t].pc \notin {"leaf", "row"}, task[t].pc # "softfail" \/ softFailed' # {},
         \A e \in Local \ built : ~Known(e)',
         LeavesInv(t)', FollowsInv(t)'
  PROVE  PInv'
<1>1. Kept
  BY DEF Kept
<1>2. /\ \A u \in Tasks : task[u].pc \in {"leaf", "row"} => task'[u] = task[u]
      /\ softFailed' = {} =>
           \A u \in Tasks : task[u].pc \in {"leaf", "softfail"} => task'[u] = task[u]
  OBVIOUS
<1>3. LeavesDone'
  BY <1>1, <1>2, DoneStays DEF PInv, LeavesDone
<1>4. RowsFollow' /\ CountsBelow'
  BY DEF PInv, RowsFollow, CountsBelow
<1>5. RoomKeepsALeaf'
  BY <1>2 DEF PInv, RoomKeepsALeaf
<1>6. UnbuiltUnknown'
  BY DEF PInv, UnbuiltUnknown, HasRow
<1> QED
  BY <1>1, <1>3, <1>4, <1>5, <1>6, FollowStep

\* A request that ends follows nothing.
LEMMA FinishFollow ==
  ASSUME IInv, RInv, PInv, NEW t \in Tasks, Finish(t),
         UNCHANGED <<rows, leaves, counter, prev, built, crashes>>,
         softFailed \subseteq softFailed', missed \subseteq missed',
         task[t].pc \notin {"leaf", "row"}, task[t].pc # "softfail" \/ softFailed' # {},
         \A e \in Local \ built : ~Known(e)'
  PROVE  PInv'
<1>1. task'[t] = Idle /\ \A u \in Tasks \ {t} : task'[u] = task[u]
  BY DEF Finish, IInv, TypeOK
<1>2. LeavesInv(t)' /\ FollowsInv(t)'
  BY <1>1 DEF LeavesInv, LeavesOf, FollowsInv, FollowsOf, Idle, Replacing, Upgrading
<1> QED
  BY <1>1, <1>2, QuietFollow

\* Back in the loop: the event that was handled is done.
LEMMA ReturnFollow ==
  ASSUME IInv, RInv, PInv, NEW t \in Tasks, NEW failed \in BOOLEAN, Return(t, failed),
         task[t].pc \in (Upgrading \ {"leaf", "row"}) \cup {"unoutlier"},
         failed \/ HasRow(task[t].cur),
         UNCHANGED <<rows, leaves, counter, prev, built, crashes>>,
         softFailed \subseteq softFailed', task[t].pc # "softfail" \/ softFailed' # {},
         \A e \in Local \ built : ~Known(e)'
  PROVE  PInv'
<1> DEFINE k == task[t]
<1>0. k \in TaskRecord /\ task \in [Tasks -> TaskRecord] /\ FollowsOf(k)
  BY Fields DEF IInv, TypeOK, PInv, FollowsInv
<1>1. missed \subseteq missed' /\ k.pc \notin {"leaf", "row"}
  BY DEF Return, Upgrading
<1>2. CASE k.cur = k.ev
  BY <1>1, <1>2, FinishFollow DEF Return
<1>3. CASE k.cur # k.ev
  <2>1. /\ task' = [task EXCEPT ![t] =
                      [k EXCEPT !.pc = "prevs", !.cur = k.ev, !.at = {}, !.soft = FALSE, !.exts = {},
                                !.count = NoCount,
                                !.errors = IF failed THEN k.errors + 1 ELSE k.errors]]
        /\ missed' = IF failed THEN missed \cup {k.cur} ELSE missed
    BY <1>3 DEF Return
  <2>2. /\ task'[t].pc = "prevs" /\ task'[t].ev = k.ev /\ task'[t].graph = k.graph
        /\ task'[t].info = k.info /\ task'[t].kind = k.kind /\ task'[t].from = k.from
        /\ \A u \in Tasks \ {t} : task'[u] = task[u]
    BY <1>0, <2>1 DEF TaskRecord
  <2>3. Kept
    BY <1>1 DEF Kept
  <2>4. \A e : Done(e) => Done(e)'
    BY <2>3, DoneStays
  <2>8. ASSUME NEW x, x = k.cur
        PROVE  Done(x)'
    <3>1. CASE failed
      BY <2>1, <2>8, <3>1 DEF Done
    <3>2. CASE ~failed
      BY <2>4, <2>8, <3>2 DEF Done
    <3> QED
      BY <3>1, <3>2
  <2>5. /\ \A p \in prev[k.ev] : p \in k.graph \/ Done(p)'
        /\ \A g \in k.info \ NotAfter(k.from) : \A p \in prev[g] : p \in k.graph \/ Done(p)'
        /\ k.ev \in Remote \cup built
    <3>1. k.pc \in Upgrading \cup {"id", "unoutlier"} /\ k.pc # "idle"
      BY DEF Upgrading
    <3>2. /\ \A p \in prev[k.ev] : p \in k.graph \/ Done(p) \/ p = k.cur
          /\ \A g \in k.info \ NotAfter(k.from) : \A p \in prev[g] : p \in k.graph \/ Done(p) \/ p = k.cur
          /\ k.ev \in Remote \cup built
      BY <1>0, <1>3, <3>1 DEF FollowsOf
    <3>3. ASSUME NEW p, Done(p) \/ p = k.cur
          PROVE  Done(p)'
      <4>1. CASE Done(p)
        BY <2>4, <4>1
      <4>2. CASE p = k.cur
        BY <2>8, <4>2
      <4> QED
        BY <3>3, <4>1, <4>2
    <3> QED
      BY <3>2, <3>3
  <2>6. LeavesInv(t)'
    BY <2>2 DEF LeavesInv, LeavesOf, Replacing
  <2>7. FollowsInv(t)'
    BY <2>2, <2>5 DEF FollowsInv, FollowsOf, Upgrading
  <2> QED
    BY <1>1, <2>2, <2>6, <2>7, QuietFollow
<1> QED
  BY <1>2, <1>3

\* A task that goes on with the same event.
LEMMA GoesOn ==
  ASSUME IInv, RInv, PInv, NEW t \in Tasks, Kept, prev' = prev,
         task'[t].ev = task[t].ev, task'[t].cur = task[t].cur, task'[t].graph = task[t].graph,
         task'[t].info = task[t].info, task'[t].kind = task[t].kind, task'[t].from = task[t].from,
         task[t].pc \in Upgrading \cup {"id", "unoutlier"},
         task'[t].pc \in Upgrading \cup {"id", "unoutlier", "roomstate"},
         task'[t].pc \in Upgrading => task[t].pc \in Upgrading
  PROVE  FollowsInv(t)'
<1> DEFINE k == task[t]
<1>1. FollowsOf(k) /\ \A e : Done(e) => Done(e)'
  BY DoneStays DEF PInv, FollowsInv
<1>2. /\ k.pc # "idle"
      /\ task'[t].pc \notin {"idle", "federation", "check", "outlier", "fetch", "prevs"}
  BY DEF Upgrading
<1>3. task'[t].pc \in Upgrading \cup {"id", "unoutlier"} /\ k.cur # k.ev =>
          /\ \A p \in prev[k.ev] : p \in k.graph \/ Done(p)' \/ p = k.cur
          /\ \A g \in k.info \ NotAfter(k.from) : \A p \in prev[g] : p \in k.graph \/ Done(p)' \/ p = k.cur
  BY <1>1 DEF FollowsOf
<1>4. task'[t].pc \in Upgrading /\ k.kind # "backfill" => \A p \in prev[k.cur] : Done(p)'
  BY <1>1 DEF FollowsOf
<1>5. k.ev \in Remote \cup built'
  BY <1>1, <1>2 DEF FollowsOf, Kept
<1> QED
  BY <1>2, <1>3, <1>4, <1>5 DEF FollowsInv, FollowsOf

\* An event that is not built is not made known by a step that writes no id.
LEMMA UnbuiltStays ==
  ASSUME IInv, RInv, PInv, ids' = ids,
         \A e \in outliers' : Known(e) \/ e \notin Local \ built
  PROVE  \A e \in Local \ built : ~Known(e)'
  BY DEF PInv, UnbuiltUnknown, Known, InTimeline

\* Requests that end early, or after the state of the room is set.
LEMMA EndsFollow ==
  ASSUME IInv, RInv, PInv, NEW t \in Tasks, SkipKnown(t) \/ Reject(t) \/ SetRoomState(t)
  PROVE  PInv'
<1>1. /\ Finish(t) /\ task[t].pc \in {"check", "outlier", "fetch", "prevs", "roomstate"}
      /\ UNCHANGED <<rows, ids, outliers, leaves, counter, softFailed>>
      /\ UNCHANGED <<prev, built, crashes, missed>>
  BY DEF SkipKnown, Reject, SetRoomState, trees, world
<1>2. \A e \in Local \ built : ~Known(e)'
  BY <1>1, UnbuiltStays DEF Known
<1> QED
  BY <1>1, <1>2, FinishFollow

\* The ways back to the loop without a write.
LEMMA ReturnsFollow ==
  ASSUME IInv, RInv, PInv, NEW t \in Tasks,
         \/ UpgradeSkips(t) \/ UpgradeFails(t) \/ ResolveFails(t) \/ SoftFail(t)
         \/ RemoveOutlier(t) /\ task[t].kind # "local"
  PROVE  PInv'
<1> DEFINE k == task[t]
<1>0. k.cur \in Events /\ StepInv(t) /\ IdsPointToRows
  BY Fields DEF IInv
<1>1. /\ UNCHANGED <<rows, ids, leaves, counter, prev, built, crashes>>
      /\ softFailed \subseteq softFailed' /\ outliers' \subseteq outliers
      /\ k.pc \in {"upgrade", "force", "softfail", "unoutlier"}
      /\ k.pc = "softfail" => softFailed' # {}
  BY DEF UpgradeSkips, UpgradeFails, ResolveFails, SoftFail, RemoveOutlier, trees
<1>2. \E failed \in BOOLEAN : Return(t, failed) /\ (failed \/ InTimeline(k.cur))
  <2>1. CASE UpgradeSkips(t)
    BY <2>1 DEF UpgradeSkips
  <2>2. CASE UpgradeFails(t) \/ ResolveFails(t) \/ SoftFail(t)
    BY <2>2 DEF UpgradeFails, ResolveFails, SoftFail
  <2>3. CASE RemoveOutlier(t) /\ k.kind # "local"
    BY <1>0, <2>3 DEF RemoveOutlier, StepInv, StepOf
  <2> QED
    BY <2>1, <2>2, <2>3
<1>3. PICK failed \in BOOLEAN : Return(t, failed) /\ (failed \/ InTimeline(k.cur))
  BY <1>2
<1>4. failed \/ HasRow(k.cur)
  BY <1>0, <1>3 DEF IdsPointToRows, HasRow
<1>5. \A e \in Local \ built : ~Known(e)'
  BY <1>1, UnbuiltStays DEF Known
<1>6. k.pc \in (Upgrading \ {"leaf", "row"}) \cup {"unoutlier"}
  BY <1>1 DEF Upgrading
<1> QED
  BY <1>1, <1>3, <1>4, <1>5, <1>6, ReturnFollow

\* A request begins with nothing found.
LEMMA ReceiveFollows ==
  ASSUME IInv, RInv, PInv, NEW t \in Tasks,
         \/ \E e \in Remote, kind \in {"transaction", "direct", "backfill"} : Receive(t, e, kind)
         \/ LockFederation(t) \/ ReadFirst(t)
  PROVE  PInv'
<1>0. task \in [Tasks -> TaskRecord] /\ task[t] \in TaskRecord /\ FollowsInv(t)
  BY DEF IInv, TypeOK, PInv
<1>1. /\ task[t].pc \in {"idle", "federation", "check"}
      /\ UNCHANGED <<rows, ids, outliers, leaves, counter, softFailed>>
      /\ UNCHANGED <<prev, built, crashes, missed>>
  BY DEF Receive, LockFederation, ReadFirst, trees, world
<1>2. /\ task'[t].pc \in {"federation", "check", "outlier"} /\ task'[t].info = {} /\ task'[t].ev \in Remote \cup built
      /\ \A u \in Tasks \ {t} : task'[u] = task[u]
  <2>1. ASSUME NEW e \in Remote, NEW kind \in {"transaction", "direct", "backfill"}, Receive(t, e, kind)
        PROVE  <1>2!:
    <3>1. task' = [task EXCEPT ![t] = [Idle EXCEPT !.pc = IF kind = "direct" THEN "check" ELSE "federation",
                                              !.kind = kind, !.ev = e, !.cur = e]]
      BY <2>1 DEF Receive
    <3> QED
      BY <1>0, <3>1 DEF Idle
  <2>2. CASE LockFederation(t)
    BY <1>0, <2>2 DEF LockFederation, TaskRecord, FollowsInv, FollowsOf
  <2>3. CASE ReadFirst(t)
    <3>1. PICK q \in rows : task' = [task EXCEPT ![t].pc = "outlier", ![t].first = Time[q.event]]
      BY <2>3 DEF ReadFirst
    <3>2. task[t].pc = "check"
      BY <2>3 DEF ReadFirst
    <3> QED
      BY <1>0, <3>1, <3>2 DEF TaskRecord, FollowsInv, FollowsOf
  <2> QED
    BY <2>1, <2>2, <2>3
<1>3. LeavesInv(t)' /\ FollowsInv(t)'
  BY <1>1, <1>2 DEF LeavesInv, LeavesOf, FollowsInv, FollowsOf, Replacing, Upgrading
<1>4. \A e \in Local \ built : ~Known(e)'
  BY <1>1, UnbuiltStays DEF Known
<1> QED
  BY <1>1, <1>2, <1>3, <1>4, QuietFollow

\* The prev events of the incoming event are all put on the stack.
LEMMA HandleOutlierFollows ==
  ASSUME IInv, RInv, PInv, NEW t \in Tasks, HandleOutlier(t)
  PROVE  PInv'
<1> DEFINE k == task[t]
<1>0. /\ k \in TaskRecord /\ task \in [Tasks -> TaskRecord] /\ FollowsInv(t) /\ StepInv(t)
      /\ Remote \cap Local = {}
  BY Fields, EventsAssumption DEF IInv, TypeOK, PInv
<1>1. /\ k.pc = "outlier" /\ outliers' = outliers \cup {k.ev}
      /\ UNCHANGED <<rows, ids, leaves, counter, softFailed>>
      /\ UNCHANGED <<prev, built, crashes, missed>>
  BY DEF HandleOutlier, world
<1>2. k.ev \in Remote \cup built /\ k.info = {} /\ k.cur = k.ev
  BY <1>0, <1>1 DEF FollowsInv, FollowsOf, StepInv, StepOf
<1>3. \A e \in Local \ built : ~Known(e)'
  BY <1>0, <1>1, <1>2, UnbuiltStays DEF Known
<1>4. CASE Finish(t)
  BY <1>1, <1>3, <1>4, FinishFollow
<1>5. CASE k.kind = "backfill" /\ task' = [task EXCEPT ![t].pc = "row"]
  <2>1. /\ task'[t].pc = "row" /\ task'[t].kind = "backfill" /\ task'[t].ev = k.ev /\ task'[t].cur = k.ev
        /\ \A u \in Tasks \ {t} : task'[u] = task[u]
    BY <1>0, <1>2, <1>5 DEF TaskRecord
  <2>2. LeavesInv(t)' /\ FollowsInv(t)'
    BY <1>1, <1>2, <2>1 DEF LeavesInv, LeavesOf, FollowsInv, FollowsOf, Replacing
  <2> QED
    BY <1>1, <1>3, <2>1, <2>2, QuietFollow
<1>6. CASE \E time : task' = [task EXCEPT ![t].pc = "fetch", ![t].stack = prev[k.ev], ![t].from = time]
  <2>1. /\ task'[t].pc = "fetch" /\ task'[t].stack = prev[k.ev] /\ task'[t].ev = k.ev
        /\ task'[t].info = {} /\ \A u \in Tasks \ {t} : task'[u] = task[u]
    BY <1>0, <1>2, <1>6 DEF TaskRecord
  <2>2. LeavesInv(t)' /\ FollowsInv(t)'
    BY <1>1, <1>2, <2>1 DEF LeavesInv, LeavesOf, FollowsInv, FollowsOf, Replacing, Upgrading
  <2> QED
    BY <1>1, <1>3, <2>1, <2>2, QuietFollow
<1> QED
  BY <1>4, <1>5, <1>6 DEF HandleOutlier

\* An event comes off the stack only to be remembered with its prev events on it.
LEMMA FetchPrevFollows ==
  ASSUME IInv, RInv, PInv, NEW t \in Tasks, NEW x \in Events, FetchPrev(t, x)
  PROVE  PInv'
<1> DEFINE k == task[t]
           full == Cardinality(k.info \ NotAfter(k.from)) > MaxFetch
           Stack == (k.stack \ {x}) \cup (IF full \/ x \in NotAfter(k.from) THEN {} ELSE prev[x] \ k.graph)
           Info == IF full THEN k.info ELSE k.info \cup {x}
<1>0. /\ k \in TaskRecord /\ task \in [Tasks -> TaskRecord] /\ FollowsOf(k)
      /\ Remote \cap Local = {}
  BY Fields, EventsAssumption DEF IInv, TypeOK, PInv, FollowsInv
<1>1. /\ k.pc = "fetch" /\ x \in k.stack
      /\ UNCHANGED <<rows, ids, leaves, counter, softFailed>>
      /\ UNCHANGED <<prev, built, crashes>> /\ missed \subseteq missed'
      /\ \A e \in outliers' : e \in outliers \cup Remote
  BY DEF FetchPrev, CanBeFetched
<1>2. /\ prev[k.ev] \subseteq k.stack \cup k.graph /\ k.ev \in Remote \cup built
      /\ \A g \in k.info \ NotAfter(k.from) : prev[g] \subseteq k.stack \cup k.graph
  BY <1>0, <1>1 DEF FollowsOf
<1>3. \A e \in Local \ built : ~Known(e)'
  BY <1>0, <1>1, UnbuiltStays DEF Known
<1>4. \E S, I : /\ task' = [task EXCEPT ![t] = [k EXCEPT !.stack = S, !.graph = k.graph \cup {x}, !.info = I]]
                /\ k.stack \ {x} \subseteq S
                /\ I = k.info \/ (I = k.info \cup {x} /\ (x \in NotAfter(k.from) \/ prev[x] \subseteq S \cup k.graph))
  <2>1. /\ k.stack \ {x} \subseteq Stack
        /\ Info = k.info \/ (Info = k.info \cup {x} /\ (x \in NotAfter(k.from) \/ prev[x] \subseteq Stack \cup k.graph))
    OBVIOUS
  <2>2. \/ task' = [task EXCEPT ![t].stack = Stack, ![t].graph = @ \cup {x}, ![t].info = Info]
        \/ task' = [task EXCEPT ![t].stack = @ \ {x}, ![t].graph = @ \cup {x}]
    BY DEF FetchPrev
  <2> HIDE DEF Stack, Info
  <2>3. CASE task' = [task EXCEPT ![t].stack = Stack, ![t].graph = @ \cup {x}, ![t].info = Info]
    <3>1. task' = [task EXCEPT ![t] = [k EXCEPT !.stack = Stack, !.graph = k.graph \cup {x}, !.info = Info]]
      BY <2>3
    <3> QED
      BY <2>1, <3>1
  <2>4. CASE task' = [task EXCEPT ![t].stack = @ \ {x}, ![t].graph = @ \cup {x}]
    <3>1. task' = [task EXCEPT ![t] = [k EXCEPT !.stack = k.stack \ {x}, !.graph = k.graph \cup {x}]]
      BY <2>4
    <3>2. [k EXCEPT !.stack = k.stack \ {x}, !.graph = k.graph \cup {x}]
            = [k EXCEPT !.stack = k.stack \ {x}, !.graph = k.graph \cup {x}, !.info = k.info]
      BY <1>0 DEF TaskRecord
    <3> QED
      BY <3>1, <3>2
  <2> QED
    BY <2>2, <2>3, <2>4
<1>5. PICK S, I : /\ task' = [task EXCEPT ![t] = [k EXCEPT !.stack = S, !.graph = k.graph \cup {x}, !.info = I]]
                  /\ k.stack \ {x} \subseteq S
                  /\ I = k.info \/ (I = k.info \cup {x} /\ (x \in NotAfter(k.from) \/ prev[x] \subseteq S \cup k.graph))
  BY <1>4
<1>6. /\ task'[t].pc = "fetch" /\ task'[t].stack = S /\ task'[t].graph = k.graph \cup {x}
      /\ task'[t].info = I /\ task'[t].ev = k.ev /\ task'[t].from = k.from /\ \A u \in Tasks \ {t} : task'[u] = task[u]
  BY <1>0, <1>1, <1>5 DEF TaskRecord
<1>7. /\ prev[k.ev] \subseteq S \cup (k.graph \cup {x})
      /\ \A g \in I \ NotAfter(k.from) : prev[g] \subseteq S \cup (k.graph \cup {x})
  BY <1>2, <1>5
<1>8. LeavesInv(t)' /\ FollowsInv(t)'
  BY <1>1, <1>2, <1>6, <1>7 DEF LeavesInv, LeavesOf, FollowsInv, FollowsOf, Replacing, Upgrading
<1> QED
  BY <1>1, <1>3, <1>6, <1>8, QuietFollow

\* With an empty stack every prev event is in the graph; when the graph is empty too,
\* all are done.
LEMMA FetchDoneFollows ==
  ASSUME IInv, RInv, PInv, NEW t \in Tasks, FetchDone(t) \/ PickIncoming(t)
  PROVE  PInv'
<1> DEFINE k == task[t]
<1>0. k \in TaskRecord /\ task \in [Tasks -> TaskRecord] /\ FollowsOf(k)
  BY Fields DEF IInv, TypeOK, PInv, FollowsInv
<1>1. /\ UNCHANGED <<rows, ids, outliers, leaves, counter, softFailed>>
      /\ UNCHANGED <<prev, built, crashes, missed>>
      /\ k.pc \in {"fetch", "prevs"}
  BY DEF FetchDone, PickIncoming, trees, world
<1>2. \A e \in Local \ built : ~Known(e)'
  BY <1>1, UnbuiltStays DEF Known
<1>3. \A e : Done(e)' <=> Done(e)
  BY <1>1 DEF Done, HasRow
<1>4. CASE FetchDone(t)
  <2>1. /\ task'[t].pc = "prevs" /\ task'[t].graph = k.graph /\ task'[t].info = k.info
        /\ task'[t].ev = k.ev /\ task'[t].from = k.from /\ k.pc = "fetch" /\ k.stack = {}
        /\ \A u \in Tasks \ {t} : task'[u] = task[u]
    BY <1>0, <1>4 DEF FetchDone, TaskRecord
  <2>2. LeavesInv(t)'
    BY <2>1 DEF LeavesInv, LeavesOf, Replacing
  <2>3. FollowsInv(t)'
    BY <1>0, <1>1, <2>1 DEF FollowsInv, FollowsOf, Upgrading
  <2> QED
    BY <1>1, <1>2, <2>1, <2>2, <2>3, QuietFollow
<1>5. CASE PickIncoming(t)
  <2>1. /\ task'[t].pc = "upgrade" /\ task'[t].ev = k.ev /\ task'[t].cur = k.ev
        /\ \A u \in Tasks \ {t} : task'[u] = task[u]
        /\ k.pc = "prevs" /\ k.graph = {}
    BY <1>0, <1>5 DEF PickIncoming, TaskRecord
  <2>2. LeavesInv(t)'
    BY <2>1 DEF LeavesInv, LeavesOf, Replacing
  <2>3. (\A p \in prev[k.ev] : Done(p)) /\ k.ev \in Remote \cup built
    BY <1>0, <2>1 DEF FollowsOf
  <2>4. \A p \in prev'[task'[t].cur] : Done(p)'
    BY <1>1, <1>3, <2>1, <2>3
  <2>5. FollowsInv(t)'
    BY <1>1, <2>1, <2>3, <2>4 DEF FollowsInv, FollowsOf
  <2> QED
    BY <1>1, <1>2, <2>1, <2>2, <2>5, QuietFollow
<1> QED
  BY <1>4, <1>5

\* A prev event is picked when those before it are done, or given up.
LEMMA PickPrevFollows ==
  ASSUME IInv, RInv, PInv, NEW t \in Tasks, NEW x \in Events, PickPrev(t, x)
  PROVE  PInv'
<1> DEFINE k == task[t]
           skip == x \in bad \/ k.errors >= MaxErrors \/ x \notin k.info \/ Time[x] < k.first
<1>0. /\ k \in TaskRecord /\ task \in [Tasks -> TaskRecord] /\ FollowsOf(k)
      /\ IdsPointToRows /\ x \in Events /\ prev[x] \subseteq Events
  BY Fields DEF IInv, TypeOK, PInv, FollowsInv
<1>1. /\ UNCHANGED <<rows, ids, outliers, leaves, counter, softFailed>>
      /\ UNCHANGED <<prev, built, crashes>> /\ missed \subseteq missed'
      /\ k.pc = "prevs" /\ x \in k.graph
      /\ x \in k.info \ NotAfter(k.from) => prev[x] \cap k.graph = {}
      /\ skip /\ ~InTimeline(x) => x \in missed'
      /\ ~skip /\ x \in NotAfter(k.from) => \A p \in prev[x] : InTimeline(p) \/ p \in missed'
      /\ task' = [task EXCEPT ![t].graph = @ \ {x}, ![t].info = @ \ {x},
                              ![t].pc    = IF skip THEN "prevs" ELSE "upgrade",
                              ![t].cur   = IF skip THEN @ ELSE x]
  BY <1>0 DEF PickPrev, Unasked, trees
<1>2. \A e \in Local \ built : ~Known(e)'
  BY <1>1, UnbuiltStays DEF Known
<1>3. Kept
  BY <1>1 DEF Kept
<1>4. \A e : Done(e) => Done(e)'
  BY <1>3, DoneStays
<1>5. /\ task'[t].graph = k.graph \ {x} /\ task'[t].info = k.info \ {x} /\ task'[t].ev = k.ev
      /\ task'[t].from = k.from
      /\ task'[t].pc = (IF skip THEN "prevs" ELSE "upgrade")
      /\ ~skip => task'[t].cur = x
      /\ \A u \in Tasks \ {t} : task'[u] = task[u]
  <2> HIDE DEF skip
  <2> QED
    BY <1>0, <1>1 DEF TaskRecord
<1>6. /\ \A p \in prev[k.ev] : p \in k.graph \/ Done(p)'
      /\ \A g \in k.info \ NotAfter(k.from) : \A p \in prev[g] : p \in k.graph \/ Done(p)'
      /\ k.ev \in Remote \cup built
  BY <1>0, <1>1, <1>4 DEF FollowsOf
<1>7. LeavesInv(t)'
  BY <1>5 DEF LeavesInv, LeavesOf, Replacing
<1>8. CASE skip
  <2>1. Done(x)'
    <3>1. CASE InTimeline(x)
      BY <1>0, <1>1, <3>1 DEF IdsPointToRows, Done, HasRow
    <3>2. CASE ~InTimeline(x)
      BY <1>1, <1>8, <3>2 DEF Done
    <3> QED
      BY <3>1, <3>2
  <2>2. /\ \A p \in prev[k.ev] : p \in k.graph \ {x} \/ Done(p)'
        /\ \A g \in k.info \ NotAfter(k.from) : \A p \in prev[g] : p \in k.graph \ {x} \/ Done(p)'
    <3>1. \A p : p = x => Done(p)'
      BY <2>1
    <3> QED
      BY <1>6, <3>1
  <2>3. FollowsInv(t)'
    <3> HIDE DEF skip
    <3> QED
      BY <1>1, <1>5, <1>6, <1>8, <2>2 DEF FollowsInv, FollowsOf, Upgrading
  <2> QED
    BY <1>1, <1>2, <1>5, <1>7, <2>3, QuietFollow
<1>9. CASE ~skip
  <2>1. \A p \in prev[x] : Done(p)'
    <3>1. CASE x \in NotAfter(k.from)
      <4>1. \A p \in Events : InTimeline(p) => Done(p)'
        BY <1>0, <1>1 DEF IdsPointToRows, Done, HasRow
      <4>2. \A p : p \in missed' => Done(p)'
        BY DEF Done
      <4> QED
        BY <1>0, <1>1, <1>9, <3>1, <4>1, <4>2
    <3>2. CASE x \notin NotAfter(k.from)
      BY <1>1, <1>6, <1>9, <3>2
    <3> QED
      BY <3>1, <3>2
  <2> HIDE DEF skip
  <2>2. FollowsInv(t)'
    <3>1. /\ task'[t].pc = "upgrade" /\ task'[t].cur = x /\ task'[t].ev = k.ev
          /\ task'[t].graph = k.graph \ {x} /\ task'[t].info \subseteq k.info
          /\ task'[t].from = k.from /\ prev' = prev /\ built' = built
      BY <1>1, <1>5, <1>9
    <3>2. /\ \A p \in prev[k.ev] : p \in k.graph \ {x} \/ Done(p)' \/ p = x
          /\ \A g \in task'[t].info \ NotAfter(k.from) : \A p \in prev[g] : p \in k.graph \ {x} \/ Done(p)' \/ p = x
      BY <1>6, <3>1
    <3> QED
      BY <1>6, <2>1, <3>1, <3>2 DEF FollowsInv, FollowsOf
  <2> QED
    BY <1>1, <1>2, <1>5, <1>7, <2>2, QuietFollow
<1> QED
  BY <1>8, <1>9

\* While nobody holds the room's lock, no leaf waits for its row.
LEMMA FreeLeavesDone ==
  ASSUME IInv, PInv, lock = NoTask
  PROVE  \A e \in leaves : Done(e)
<1>1. LocksExclude /\ LeavesDone
  BY DEF IInv, PInv
<1>2. \A u \in Tasks : task[u].pc \in {"leaf", "row"} => task[u].kind = "backfill"
  BY <1>1, ValuesAssumption DEF LocksExclude, Changing
<1> QED
  BY <1>1, <1>2 DEF LeavesDone

\* The state is found and the event checked: nothing is written yet.
LEMMA StateFollows ==
  ASSUME IInv, RInv, PInv, NEW t \in Tasks,
         StateFromPrevs(t) \/ StateFromRemote(t) \/ SoftFailCheck(t)
  PROVE  PInv'
<1> DEFINE k == task[t]
<1>0. /\ k \in TaskRecord /\ task \in [Tasks -> TaskRecord]
      /\ Remote \cap Local = {} /\ Root \notin Local
  BY Fields, EventsAssumption DEF IInv, TypeOK
<1>1. /\ UNCHANGED <<rows, ids, leaves, counter, softFailed>>
      /\ UNCHANGED <<prev, built, crashes, missed>>
      /\ k.pc \in {"upgrade", "softcheck"}
      /\ \A e \in outliers' : e \in outliers \/ e \in {Root} \cup Remote \/ Known(e)
  BY DEF StateFromPrevs, StateFromRemote, SoftFailCheck, trees, world
<1>2. /\ task'[t].ev = k.ev /\ task'[t].cur = k.cur /\ task'[t].graph = k.graph
      /\ task'[t].info = k.info /\ task'[t].kind = k.kind /\ task'[t].from = k.from /\ task'[t].pc \in {"softcheck", "lock"}
      /\ \A u \in Tasks \ {t} : task'[u] = task[u]
  <2>1. CASE StateFromPrevs(t) \/ StateFromRemote(t)
    <3>1. \E at : task' = [task EXCEPT ![t].pc = "softcheck", ![t].at = at]
      BY <2>1 DEF StateFromPrevs, StateFromRemote
    <3> QED
      BY <1>0, <3>1 DEF TaskRecord
  <2>2. CASE SoftFailCheck(t)
    BY <1>0, <2>2 DEF SoftFailCheck, TaskRecord
  <2> QED
    BY <2>1, <2>2
<1>3. \A e \in Local \ built : ~Known(e)'
  BY <1>0, <1>1, UnbuiltStays DEF Known
<1>4. Kept
  BY <1>1 DEF Kept
<1>5. LeavesInv(t)'
  BY <1>2 DEF LeavesInv, LeavesOf, Replacing
<1>6. k.pc \in Upgrading /\ task'[t].pc \in Upgrading
  BY <1>1, <1>2 DEF Upgrading
<1>7. FollowsInv(t)'
  BY <1>1, <1>2, <1>4, <1>6, GoesOn
<1> QED
  BY <1>1, <1>2, <1>3, <1>5, <1>7, QuietFollow

\* The extremities are computed under the lock, when every leaf is done.
LEMMA LockStateFollows ==
  ASSUME IInv, RInv, PInv, NEW t \in Tasks, LockState(t)
  PROVE  PInv'
<1> DEFINE k == task[t]
           rest == {l \in leaves \ prev[k.cur] : l \notin referenced}
<1>0. k \in TaskRecord /\ task \in [Tasks -> TaskRecord]
  BY Fields DEF IInv, TypeOK
<1>1. /\ UNCHANGED <<rows, ids, outliers, leaves, counter, softFailed>>
      /\ UNCHANGED <<prev, built, crashes, missed>>
      /\ k.pc = "lock" /\ lock = NoTask
      /\ task' = [task EXCEPT ![t].pc   = IF k.cur \in StateEvents THEN "force" ELSE "state",
                              ![t].exts = IF k.soft THEN rest ELSE rest \cup {k.cur}]
  BY DEF LockState, trees
<1>2. /\ task'[t].ev = k.ev /\ task'[t].cur = k.cur /\ task'[t].graph = k.graph
      /\ task'[t].info = k.info /\ task'[t].kind = k.kind /\ task'[t].from = k.from /\ task'[t].pc \in {"force", "state"}
      /\ task'[t].soft = k.soft
      /\ task'[t].exts = (IF k.soft THEN rest ELSE rest \cup {k.cur})
      /\ \A u \in Tasks \ {t} : task'[u] = task[u]
  <2> HIDE DEF rest
  <2> QED
    BY <1>0, <1>1 DEF TaskRecord
<1>3. \A e \in Local \ built : ~Known(e)'
  BY <1>1, UnbuiltStays DEF Known
<1>4. Kept
  BY <1>1 DEF Kept
<1>5. LeavesInv(t)'
  <2>1. \A e \in rest : Done(e)'
    BY <1>1, <1>4, FreeLeavesDone, DoneStays
  <2>2. k.soft \/ k.cur \in task'[t].exts
    BY <1>2
  <2>3. \A e \in task'[t].exts : Done(e)' \/ (e = k.cur /\ ~k.soft)
    BY <1>2, <2>1
  <2> QED
    BY <1>2, <2>2, <2>3 DEF LeavesInv, LeavesOf
<1>6. k.pc \in Upgrading /\ task'[t].pc \in Upgrading
  BY <1>1, <1>2 DEF Upgrading
<1>7. FollowsInv(t)'
  BY <1>1, <1>2, <1>4, <1>6, GoesOn
<1> QED
  BY <1>1, <1>2, <1>3, <1>5, <1>7, QuietFollow

\* Between the lock and the leaves.
LEMMA ReplacingFollows ==
  ASSUME IInv, RInv, PInv, NEW t \in Tasks,
         ForceState(t) \/ SetEventState(t) \/ MarkAsReferenced(t)
  PROVE  PInv'
<1> DEFINE k == task[t]
<1>0. k \in TaskRecord /\ task \in [Tasks -> TaskRecord] /\ LeavesOf(k)
  BY Fields DEF IInv, TypeOK, PInv, LeavesInv
<1>1. /\ UNCHANGED <<rows, ids, outliers, leaves, counter, softFailed>>
      /\ UNCHANGED <<prev, built, crashes, missed>>
      /\ k.pc \in {"force", "state", "reference"}
  BY DEF ForceState, SetEventState, MarkAsReferenced, world
<1>2. /\ task'[t].ev = k.ev /\ task'[t].cur = k.cur /\ task'[t].graph = k.graph
      /\ task'[t].info = k.info /\ task'[t].kind = k.kind /\ task'[t].from = k.from
      /\ task'[t].soft = k.soft /\ task'[t].exts = k.exts
      /\ task'[t].pc \in {"state", "reference", "unleaf", "leaf", "softfail", "row"}
      /\ \A u \in Tasks \ {t} : task'[u] = task[u]
  <2>1. \E pc \in {"state", "reference", "unleaf", "leaf", "softfail", "row"} :
          task' = [task EXCEPT ![t].pc = pc]
    BY DEF ForceState, SetEventState, MarkAsReferenced, NextLeaf
  <2> QED
    BY <1>0, <2>1 DEF TaskRecord
<1>3. \A e \in Local \ built : ~Known(e)'
  BY <1>1, UnbuiltStays DEF Known
<1>4. Kept
  BY <1>1 DEF Kept
<1>5. LeavesInv(t)'
  <2>1. \A e : Done(e) => Done(e)'
    BY <1>4, DoneStays
  <2>2. k.pc \in Replacing
    BY <1>1 DEF Replacing
  <2> QED
    BY <1>0, <1>2, <2>1, <2>2 DEF LeavesInv, LeavesOf
<1>6. k.pc \in Upgrading /\ task'[t].pc \in Upgrading
  BY <1>1, <1>2 DEF Upgrading
<1>7. FollowsInv(t)'
  BY <1>1, <1>2, <1>4, <1>6, GoesOn
<1> QED
  BY <1>1, <1>2, <1>3, <1>5, <1>7, QuietFollow

\* The old leaves are taken away one by one: after the last one a new one follows,
\* unless the event is soft failed.
LEMMA RemoveLeafFollows ==
  ASSUME IInv, RInv, PInv, NEW t \in Tasks, RemoveLeaf(t)
  PROVE  PInv'
<1> DEFINE k == task[t]
<1>0. k \in TaskRecord /\ task \in [Tasks -> TaskRecord] /\ LeavesOf(k)
  BY Fields DEF IInv, TypeOK, PInv, LeavesInv
<1>1. /\ UNCHANGED <<rows, ids, outliers, counter, softFailed>>
      /\ UNCHANGED <<prev, built, crashes, missed>>
      /\ k.pc = "unleaf" /\ leaves' \subseteq leaves
  BY DEF RemoveLeaf, world
<1>2. /\ task'[t].ev = k.ev /\ task'[t].cur = k.cur /\ task'[t].graph = k.graph
      /\ task'[t].info = k.info /\ task'[t].kind = k.kind /\ task'[t].from = k.from
      /\ task'[t].soft = k.soft /\ task'[t].exts = k.exts
      /\ task'[t].pc = IF leaves' = {} THEN NextLeaf(k, {}) ELSE "unleaf"
      /\ \A u \in Tasks \ {t} : task'[u] = task[u]
  <2>1. task' = [task EXCEPT ![t].pc = IF leaves' = {} THEN NextLeaf(k, {}) ELSE "unleaf"]
    BY DEF RemoveLeaf
  <2>2. NextLeaf(k, {}) \in {"leaf", "softfail", "row"}
    BY DEF NextLeaf
  <2> QED
    BY <1>0, <2>1, <2>2 DEF TaskRecord
<1>3. k.soft \/ k.cur \in k.exts
  BY <1>0, <1>1 DEF LeavesOf, Replacing
<1>4. task'[t].pc \in {"unleaf", "leaf", "softfail"} /\ (leaves' = {} => task'[t].pc # "unleaf")
  BY <1>2, <1>3 DEF NextLeaf
<1>5. Kept
  BY <1>1 DEF Kept
<1>6. \A e : Done(e)' <=> Done(e)
  BY <1>1 DEF Done, HasRow
<1>7. LeavesInv(t)'
  BY <1>0, <1>1, <1>2, <1>6 DEF LeavesInv, LeavesOf, Replacing
<1>8. FollowsInv(t)'
  <2>1. k.pc \in Upgrading /\ task'[t].pc \in Upgrading
    BY <1>1, <1>4 DEF Upgrading
  <2> QED
    BY <1>1, <1>2, <1>5, <2>1, GoesOn
<1>9. LeavesDone'
  <2>1. \A u \in Tasks : task[u].pc \in {"leaf", "row"} => task'[u] = task[u]
    BY <1>1, <1>2
  <2> QED
    BY <1>1, <1>6, <2>1 DEF PInv, LeavesDone
<1>10. RoomKeepsALeaf'
  BY <1>4 DEF RoomKeepsALeaf
<1>11. RowsFollow' /\ CountsBelow' /\ UnbuiltUnknown'
  BY <1>1 DEF PInv, RowsFollow, CountsBelow, UnbuiltUnknown, Known, InTimeline, HasRow
<1> QED
  BY <1>2, <1>5, <1>7, <1>8, <1>9, <1>10, <1>11, FollowStep

\* The new leaves are the task's own event and others that are done.
LEMMA InsertLeafFollows ==
  ASSUME IInv, RInv, PInv, NEW t \in Tasks, InsertLeaf(t)
  PROVE  PInv'
<1> DEFINE k == task[t]
<1>0. k \in TaskRecord /\ task \in [Tasks -> TaskRecord] /\ LeavesOf(k) /\ GuardInv(t)
  BY Fields DEF IInv, TypeOK, PInv, LeavesInv, RInv
<1>1. /\ UNCHANGED <<rows, ids, outliers, counter, softFailed>>
      /\ UNCHANGED <<prev, built, crashes, missed>>
      /\ k.pc = "leaf"
  BY DEF InsertLeaf, world
<1>2. PICK l \in k.exts \ leaves :
        /\ leaves' = leaves \cup {l}
        /\ task' = [task EXCEPT ![t].pc = NextLeaf(k, leaves \cup {l})]
  BY DEF InsertLeaf
<1>3. /\ NextLeaf(k, leaves \cup {l}) \in {"leaf", "softfail", "row"}
      /\ ~k.soft => NextLeaf(k, leaves \cup {l}) \in {"leaf", "row"}
  BY DEF NextLeaf
<1>4. /\ task'[t].ev = k.ev /\ task'[t].cur = k.cur /\ task'[t].graph = k.graph
      /\ task'[t].info = k.info /\ task'[t].kind = k.kind /\ task'[t].from = k.from
      /\ task'[t].soft = k.soft /\ task'[t].exts = k.exts
      /\ task'[t].pc \in {"leaf", "softfail", "row"}
      /\ ~k.soft => task'[t].pc \in {"leaf", "row"}
      /\ \A u \in Tasks \ {t} : task'[u] = task[u]
  BY <1>0, <1>2, <1>3 DEF TaskRecord
<1>5. Kept
  BY <1>1 DEF Kept
<1>6. \A e : Done(e)' <=> Done(e)
  BY <1>1 DEF Done, HasRow
<1>7. LeavesInv(t)'
  BY <1>0, <1>1, <1>4, <1>6 DEF LeavesInv, LeavesOf, Replacing
<1>8. FollowsInv(t)'
  <2>1. k.pc \in Upgrading /\ task'[t].pc \in Upgrading
    BY <1>1, <1>4 DEF Upgrading
  <2> QED
    BY <1>1, <1>4, <1>5, <2>1, GoesOn
<1>9. LeavesDone'
  <2>1. k.kind # "backfill"
    BY <1>0, <1>1 DEF GuardInv
  <2>2. ASSUME NEW e \in leaves
        PROVE  Done(e)' \/ \E u \in Tasks : /\ task'[u].pc \in {"leaf", "row"} /\ task'[u].kind # "backfill"
                                            /\ ~task'[u].soft /\ task'[u].cur = e
    <3>1. CASE Done(e)
      BY <1>6, <3>1
    <3>2. CASE ~Done(e)
      <4>1. PICK u \in Tasks : /\ task[u].pc \in {"leaf", "row"} /\ task[u].kind # "backfill"
                               /\ ~task[u].soft /\ task[u].cur = e
        BY <3>2 DEF PInv, LeavesDone
      <4>2. CASE u = t
        BY <1>4, <4>1, <4>2
      <4>3. CASE u # t
        BY <1>4, <4>1, <4>3
      <4> QED
        BY <4>2, <4>3
    <3> QED
      BY <3>1, <3>2
  <2>3. Done(l) \/ (l = k.cur /\ ~k.soft)
    BY <1>0, <1>1 DEF LeavesOf, Replacing
  <2>4. Done(l)' \/ (task'[t].pc \in {"leaf", "row"} /\ task'[t].kind # "backfill"
                     /\ ~task'[t].soft /\ task'[t].cur = l)
    BY <1>4, <1>6, <2>1, <2>3
  <2> QED
    BY <1>2, <2>2, <2>4 DEF LeavesDone
<1>10. RoomKeepsALeaf'
  BY <1>2 DEF RoomKeepsALeaf
<1>11. RowsFollow' /\ CountsBelow' /\ UnbuiltUnknown'
  BY <1>1 DEF PInv, RowsFollow, CountsBelow, UnbuiltUnknown, Known, InTimeline, HasRow
<1> QED
  BY <1>4, <1>5, <1>7, <1>8, <1>9, <1>10, <1>11, FollowStep

\* The row comes after those of all the events it follows, because counts go up.
LEMMA InsertRowFollows ==
  ASSUME IInv, RInv, PInv, NEW t \in Tasks, InsertRow(t)
  PROVE  PInv'
<1> DEFINE k == task[t]
           c == IF k.kind = "backfill" THEN -counter ELSE counter
<1>0. /\ k \in TaskRecord /\ task \in [Tasks -> TaskRecord] /\ FollowsOf(k)
      /\ counter \in Nat /\ counter > 0 /\ rows \subseteq [count : Int, event : Events]
      /\ k.cur \in Events
  BY Fields DEF IInv, TypeOK, PInv, FollowsInv, RInv, RowsInv
<1>1. /\ UNCHANGED <<ids, outliers, leaves, softFailed>>
      /\ UNCHANGED <<prev, built, crashes, missed>>
      /\ k.pc = "row" /\ counter' = counter + 1
      /\ rows' = rows \cup {[count |-> c, event |-> k.cur]}
      /\ task' = [task EXCEPT ![t].pc = "id", ![t].count = c]
  BY DEF InsertRow, world
<1>2. c \in Int /\ c =< counter /\ (c > 0 => k.kind # "backfill" /\ c = counter)
  BY <1>0
<1> HIDE DEF c
<1>3. /\ task'[t].ev = k.ev /\ task'[t].cur = k.cur /\ task'[t].graph = k.graph
      /\ task'[t].info = k.info /\ task'[t].kind = k.kind /\ task'[t].from = k.from /\ task'[t].pc = "id"
      /\ \A u \in Tasks \ {t} : task'[u] = task[u]
  BY <1>0, <1>1 DEF TaskRecord
<1>4. Kept
  BY <1>1 DEF Kept
<1>5. \A e : Done(e) => Done(e)'
  BY <1>4, DoneStays
<1>6. LeavesInv(t)' /\ FollowsInv(t)'
  <2>1. LeavesInv(t)'
    BY <1>3 DEF LeavesInv, LeavesOf, Replacing
  <2>2. k.pc \in Upgrading /\ task'[t].pc \notin Upgrading
    BY <1>1, <1>3 DEF Upgrading
  <2> QED
    BY <1>1, <1>3, <1>4, <2>1, <2>2, GoesOn
<1>7. LeavesDone'
  <2>1. ASSUME NEW e, e = k.cur
        PROVE  Done(e)'
    <3>1. /\ [count |-> c, event |-> k.cur] \in rows'
          /\ [count |-> c, event |-> k.cur].event = e
      BY <1>1, <2>1
    <3>2. \E r \in rows' : r.event = e
      BY <3>1
    <3> QED
      BY <3>2 DEF Done, HasRow
  <2>2. ASSUME NEW e \in leaves
        PROVE  Done(e)' \/ \E u \in Tasks : /\ task'[u].pc \in {"leaf", "row"} /\ task'[u].kind # "backfill"
                                            /\ ~task'[u].soft /\ task'[u].cur = e
    <3>1. CASE Done(e)
      BY <1>5, <3>1
    <3>2. CASE ~Done(e)
      <4>1. PICK u \in Tasks : /\ task[u].pc \in {"leaf", "row"} /\ task[u].kind # "backfill"
                               /\ ~task[u].soft /\ task[u].cur = e
        BY <3>2 DEF PInv, LeavesDone
      <4>2. CASE u = t
        BY <2>1, <4>1, <4>2
      <4>3. CASE u # t
        BY <1>3, <4>1, <4>3
      <4> QED
        BY <4>2, <4>3
    <3> QED
      BY <3>1, <3>2
  <2> QED
    BY <1>1, <2>2 DEF LeavesDone
<1>8. CountsBelow'
  BY <1>0, <1>1, <1>2 DEF PInv, CountsBelow
<1>9. RowsFollow'
  <2>1. ASSUME NEW s \in rows, s.count > 0, NEW p \in prev[s.event] \ missed
        PROVE  \E q \in rows' : q.event = p /\ q.count < s.count
    BY <1>1, <2>1 DEF PInv, RowsFollow
  <2>2. ASSUME c > 0, NEW p \in prev[k.cur] \ missed
        PROVE  \E q \in rows' : q.event = p /\ q.count < c
    <3>1. Done(p) /\ p \notin missed
      BY <1>0, <1>1, <1>2, <2>2 DEF FollowsOf, Upgrading
    <3>2. PICK q \in rows : q.event = p
      BY <3>1 DEF Done, HasRow
    <3>3. q.count < counter
      BY DEF PInv, CountsBelow
    <3> QED
      BY <1>1, <1>2, <2>2, <3>2, <3>3
  <2>3. ASSUME NEW s \in rows', s.count > 0, NEW p \in prev'[s.event] \ missed'
        PROVE  \E q \in rows' : q.event = p /\ q.count < s.count
    <3>1. CASE s \in rows
      BY <1>1, <2>1, <2>3, <3>1
    <3>2. CASE s = [count |-> c, event |-> k.cur]
      BY <1>1, <2>2, <2>3, <3>2
    <3> QED
      BY <1>1, <3>1, <3>2
  <2> QED
    BY <2>3 DEF RowsFollow
<1>10. RoomKeepsALeaf'
  <2>1. \A u \in Tasks : task[u].pc \in {"leaf", "softfail"} => task'[u] = task[u]
    BY <1>1, <1>3
  <2> QED
    BY <1>1, <2>1 DEF PInv, RoomKeepsALeaf
<1>11. UnbuiltUnknown'
  <2>1. k.cur \notin Local \ built
    BY <1>1, HandledIsBuilt DEF Upgrading
  <2> QED
    BY <1>1, <2>1 DEF PInv, UnbuiltUnknown, Known, InTimeline, HasRow
<1> QED
  BY <1>3, <1>4, <1>6, <1>7, <1>8, <1>9, <1>10, <1>11, FollowStep

\* The writes after the row.
LEMMA IdFollows ==
  ASSUME IInv, RInv, PInv, NEW t \in Tasks,
         InsertId(t) \/ (RemoveOutlier(t) /\ task[t].kind = "local")
  PROVE  PInv'
<1> DEFINE k == task[t]
<1>0. /\ k \in TaskRecord /\ task \in [Tasks -> TaskRecord] /\ StepInv(t)
      /\ ids \in [Events -> Int \cup {NoCount}]
  BY Fields DEF IInv, TypeOK
<1>1. /\ UNCHANGED <<rows, leaves, counter, softFailed>>
      /\ UNCHANGED <<prev, built, crashes, missed>>
      /\ k.pc \in {"id", "unoutlier"} /\ outliers' \subseteq outliers
  BY DEF InsertId, RemoveOutlier, world
<1>2. /\ task'[t].ev = k.ev /\ task'[t].cur = k.cur /\ task'[t].graph = k.graph
      /\ task'[t].info = k.info /\ task'[t].kind = k.kind /\ task'[t].from = k.from
      /\ task'[t].pc \in {"unoutlier", "roomstate"}
      /\ \A u \in Tasks \ {t} : task'[u] = task[u]
  <2>1. \E pc \in {"unoutlier", "roomstate"} : task' = [task EXCEPT ![t].pc = pc]
    BY DEF InsertId, RemoveOutlier
  <2> QED
    BY <1>0, <2>1 DEF TaskRecord
<1>3. \A e \in Local \ built : ~Known(e)'
  <2>1. CASE InsertId(t)
    <3>1. HasRow(k.cur) /\ ids' = [ids EXCEPT ![k.cur] = k.count]
      BY <1>0, <2>1 DEF InsertId, StepInv, StepOf, HasRow
    <3>2. k.cur \notin Local \ built
      BY <3>1 DEF PInv, UnbuiltUnknown
    <3>3. \A e \in Local \ built : ids'[e] = ids[e]
      BY <1>0, <3>1, <3>2 DEF Events
    <3> QED
      BY <1>1, <3>3 DEF PInv, UnbuiltUnknown, Known, InTimeline
  <2>2. CASE RemoveOutlier(t)
    <3>1. ids' = ids
      BY <2>2 DEF RemoveOutlier
    <3> QED
      BY <1>1, <3>1, UnbuiltStays DEF Known
  <2> QED
    BY <2>1, <2>2
<1>4. Kept
  BY <1>1 DEF Kept
<1>5. LeavesInv(t)'
  BY <1>2 DEF LeavesInv, LeavesOf, Replacing
<1>6. k.pc \in Upgrading \cup {"id", "unoutlier"} /\ task'[t].pc \notin Upgrading
  BY <1>1, <1>2 DEF Upgrading
<1>7. FollowsInv(t)'
  BY <1>1, <1>2, <1>4, <1>6, GoesOn
<1> QED
  BY <1>1, <1>2, <1>3, <1>5, <1>7, QuietFollow

\* A local event follows leaves, which are done while nobody holds the lock, and
\* nothing of it was there before.
LEMMA BuildFollows ==
  ASSUME IInv, RInv, PInv, NEW t \in Tasks, NEW e \in Local,
         BuildAndAppend(t, e) \/ BuildInvite(t, e)
  PROVE  PInv'
<1>0. /\ task \in [Tasks -> TaskRecord] /\ Idle \in TaskRecord
      /\ prev \in [Events -> SUBSET Events] /\ e \in Events
  BY IdleType DEF IInv, TypeOK, Events
<1>1. /\ task[t].pc = "idle" /\ lock = NoTask /\ e \in Local \ built
      /\ UNCHANGED <<rows, ids, outliers, leaves, counter, softFailed>>
      /\ UNCHANGED <<crashes, missed>> /\ built' = built \cup {e}
  BY DEF BuildAndAppend, BuildInvite, trees
<1>2. PICK P \in PrevChoices : prev' = [prev EXCEPT ![e] = P]
  BY DEF BuildAndAppend, BuildInvite
<1>3. prev'[e] = P /\ P \subseteq leaves /\ \A x \in Events \ {e} : prev'[x] = prev[x]
  BY <1>0, <1>2 DEF PrevChoices
<1>4. /\ task'[t].ev = e /\ task'[t].cur = e /\ task'[t].info = {}
      /\ \/ task'[t].pc = "check"
         \/ task'[t].pc = "reference" /\ task'[t].exts = {e} /\ ~task'[t].soft
      /\ \A u \in Tasks \ {t} : task'[u] = task[u]
  <2>1. CASE BuildAndAppend(t, e)
    <3>1. task' = [task EXCEPT ![t] = [Idle EXCEPT !.pc = "reference", !.kind = "local", !.ev = e,
                     !.cur = e, !.at = roomState \cup ({e} \cap StateEvents), !.exts = {e}]]
      BY <2>1 DEF BuildAndAppend
    <3> QED
      BY <1>0, <3>1 DEF Idle
  <2>2. CASE BuildInvite(t, e)
    <3>1. task' = [task EXCEPT ![t] = [Idle EXCEPT !.pc = "check", !.kind = "direct", !.ev = e, !.cur = e]]
      BY <2>2 DEF BuildInvite
    <3> QED
      BY <1>0, <3>1 DEF Idle
  <2> QED
    BY <2>1, <2>2
<1>5. Kept
  BY <1>1, <1>3 DEF Kept
<1>6. \A x : Done(x)' <=> Done(x)
  BY <1>1 DEF Done, HasRow
<1>7. LeavesInv(t)'
  BY <1>4 DEF LeavesInv, LeavesOf, Replacing
<1>8. FollowsInv(t)'
  <2>1. \A p \in prev'[e] : Done(p)'
    BY <1>1, <1>3, <1>6, FreeLeavesDone
  <2>2. task'[t].ev \in Remote \cup built'
    BY <1>1, <1>4
  <2> QED
    BY <1>4, <2>1, <2>2 DEF FollowsInv, FollowsOf, Upgrading
<1>9. LeavesDone' /\ RoomKeepsALeaf'
  <2>1. \A u \in Tasks : task[u].pc \in {"leaf", "row", "softfail"} => task'[u] = task[u]
    BY <1>1, <1>4
  <2>2. LeavesDone'
    BY <1>1, <1>6, <2>1 DEF PInv, LeavesDone
  <2>3. RoomKeepsALeaf'
    BY <1>1, <2>1 DEF PInv, RoomKeepsALeaf
  <2> QED
    BY <2>2, <2>3
<1>10. RowsFollow'
  <2>1. rows \subseteq [count : Int, event : Events] /\ \A s \in rows : s.event # e
    BY <1>1 DEF IInv, TypeOK, PInv, UnbuiltUnknown, HasRow
  <2>2. \A s \in rows : prev'[s.event] = prev[s.event]
    BY <1>3, <2>1
  <2> QED
    BY <1>1, <2>2 DEF PInv, RowsFollow
<1>11. CountsBelow' /\ UnbuiltUnknown'
  BY <1>1 DEF PInv, CountsBelow, UnbuiltUnknown, Known, InTimeline, HasRow
<1> QED
  BY <1>4, <1>5, <1>7, <1>8, <1>9, <1>10, <1>11, FollowStep

\* What was made a leaf and did not get its row is given up by a crash.
LEMMA CrashFollows ==
  ASSUME IInv, RInv, PInv, Crash
  PROVE  PInv'
<1>1. /\ UNCHANGED <<rows, ids, outliers, leaves, counter, softFailed>>
      /\ UNCHANGED <<prev, built>> /\ crashes' = crashes + 1 /\ crashes \in Nat
      /\ missed' = missed \cup {task[t].cur : t \in {u \in Tasks : task[u].pc \in {"leaf", "row"}}}
      /\ task' = [t \in Tasks |-> Idle]
  BY DEF Crash, trees, IInv, TypeOK
<1>2. \A t \in Tasks : LeavesInv(t)' /\ FollowsInv(t)'
  <2>1. \A t \in Tasks : task'[t].pc = "idle"
    BY <1>1 DEF Idle
  <2> QED
    BY <2>1 DEF LeavesInv, LeavesOf, FollowsInv, FollowsOf, Replacing, Upgrading
<1>3. LeavesDone'
  BY <1>1 DEF PInv, LeavesDone, Done, HasRow
<1>4. RowsFollow' /\ CountsBelow' /\ UnbuiltUnknown'
  BY <1>1 DEF PInv, RowsFollow, CountsBelow, UnbuiltUnknown, Known, InTimeline, HasRow
<1>5. RoomKeepsALeaf'
  BY <1>1 DEF RoomKeepsALeaf
<1> QED
  BY <1>2, <1>3, <1>4, <1>5 DEF PInv

\* Where no task moves.
LEMMA StillFollows ==
  ASSUME PInv, UNCHANGED trees, UNCHANGED task, UNCHANGED world
  PROVE  PInv'
<1>1. /\ UNCHANGED <<rows, ids, outliers, leaves, counter, softFailed>>
      /\ UNCHANGED <<prev, built, crashes, missed, task>>
  BY DEF trees, world
<1>2. \A t \in Tasks : LeavesInv(t)' /\ FollowsInv(t)'
  BY <1>1 DEF PInv, LeavesInv, LeavesOf, FollowsInv, FollowsOf, Done, HasRow
<1>3. LeavesDone' /\ RowsFollow' /\ CountsBelow' /\ UnbuiltUnknown' /\ RoomKeepsALeaf'
  BY <1>1 DEF PInv, LeavesDone, RowsFollow, CountsBelow, UnbuiltUnknown, RoomKeepsALeaf, Known,
              InTimeline, Done, HasRow
<1> QED
  BY <1>2, <1>3 DEF PInv

\* Initially the create event is the only one.
LEMMA InitPInv ==
  ASSUME Init
  PROVE  PInv
<1>1. \A t \in Tasks : task[t].pc = "idle"
  BY DEF Init, Idle
<1>2. \A t \in Tasks : LeavesInv(t) /\ FollowsInv(t)
  BY <1>1 DEF LeavesInv, LeavesOf, FollowsInv, FollowsOf, Replacing, Upgrading
<1>3. Root \in Events /\ Local \subseteq Events /\ Root \notin Local /\ Root \notin Remote
  BY EventsAssumption DEF Events
<1>4. LeavesDone /\ CountsBelow /\ RoomKeepsALeaf
  BY DEF Init, LeavesDone, CountsBelow, RoomKeepsALeaf, Done, HasRow
<1>5. RowsFollow
  BY <1>3 DEF Init, RowsFollow
<1>6. UnbuiltUnknown
  BY <1>3 DEF Init, UnbuiltUnknown, Known, InTimeline, HasRow
<1> QED
  BY <1>2, <1>4, <1>5, <1>6 DEF PInv

\* Every step keeps the third invariant.
LEMMA NextPInv ==
  ASSUME IInv, RInv, PInv, [Next]_vars
  PROVE  PInv'
<1>1. CASE UNCHANGED vars
  BY <1>1, StillFollows DEF vars
<1>2. CASE \E t \in Tasks, e \in Local : BuildAndAppend(t, e) \/ BuildInvite(t, e)
  BY <1>2, BuildFollows
<1>3. CASE \E t \in Tasks, e \in Remote, kind \in {"transaction", "direct", "backfill"} : Receive(t, e, kind)
  BY <1>3, ReceiveFollows
<1>4. ASSUME NEW t \in Tasks, Locks(t) PROVE PInv'
  BY <1>4, ReceiveFollows, LockStateFollows DEF Locks
<1>5. ASSUME NEW t \in Tasks, Handle(t) PROVE PInv'
  BY <1>5, EndsFollow, ReceiveFollows, HandleOutlierFollows, FetchPrevFollows, PickPrevFollows, FetchDoneFollows
     DEF Handle
<1>6. ASSUME NEW t \in Tasks, Upgrade(t) PROVE PInv'
  BY <1>6, ReturnsFollow, StateFollows, ReplacingFollows DEF Upgrade
<1>7. ASSUME NEW t \in Tasks, Append(t) PROVE PInv'
  BY <1>7, ReplacingFollows, RemoveLeafFollows, InsertLeafFollows, ReturnsFollow, InsertRowFollows,
     IdFollows, EndsFollow DEF Append
<1>8. CASE (\E e \in Events : BackoffElapses(e)) \/ Crash
  BY <1>8, CrashFollows, StillFollows DEF BackoffElapses
<1> QED
  BY <1>1, <1>2, <1>3, <1>4, <1>5, <1>6, <1>7, <1>8 DEF Next

\* All three invariants hold in every state.
LEMMA ThreeInvariants == Spec => [](IInv /\ RInv /\ PInv)
<1>1. Init => IInv /\ RInv /\ PInv
  BY InitIInv, InitRInv, InitPInv
<1>2. IInv /\ RInv /\ PInv /\ [Next]_vars => IInv' /\ RInv' /\ PInv'
  BY NextIInv, NextRInv, NextPInv
<1> QED
  BY <1>1, <1>2, PTL DEF Spec

\* The events an event follows come before it in the timeline: handle_incoming_pdu
\* goes through the prev events before the event, build_and_append_pdu builds on the
\* leaves, and counts go up.  The exceptions are in `missed': what a handler gave up,
\* and what it never asked for, the prev events of one with the time of the first.
THEOREM PrevEventsFirst == Spec => []PrevEventsComeFirst
<1>1. PInv => PrevEventsComeFirst
  <2>1. SUFFICES ASSUME PInv, NEW r \in rows, NEW s \in rows,
                        r.event \in prev[s.event] \ missed, s.count > 0
                 PROVE  \E q \in rows : q.event = r.event /\ q.count < s.count
    BY DEF PrevEventsComeFirst
  <2> QED
    BY <2>1 DEF PInv, RowsFollow
<1> QED
  BY <1>1, ThreeInvariants, PTL

\* Stronger: whatever the timeline has came after all that it follows, up to what a
\* handler or a crash gave up or nobody asked for, in the timeline or not.
THEOREM RowsComeAfterPrevs == Spec => []RowsFollow
<1>1. PInv => RowsFollow
  BY DEF PInv
<1> QED
  BY <1>1, ThreeInvariants, PTL

\* The next event has one to follow: set_forward_extremities writes the new leaves
\* after it removed the old ones, and there is always a new one.
THEOREM ALeafRemains == Spec => []RoomKeepsALeaf
<1>1. PInv => RoomKeepsALeaf
  BY DEF PInv
<1> QED
  BY <1>1, ThreeInvariants, PTL

=============================================================================
