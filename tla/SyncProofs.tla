----------------------------- MODULE SyncProofs -----------------------------
(***************************************************************************)
(* Proofs about Sync.tla.  The argument: a sync has had the insert lock of *)
(* a room after it read the counter, so an event appended there later has  *)
(* a larger number (AppendInv), and the others are in the tree and not     *)
(* hidden by the cached number (CacheInv) when the timeline is read        *)
(* (AnswerInv).  The trees without a lock have the same argument only for  *)
(* the rows that were inserted when the sync began (RaceInv).              *)
(***************************************************************************)
EXTENDS Sync, WellFoundedInduction, TLAPS

-----------------------------------------------------------------------------
(* The least and the greatest of a set of numbers. *)

\* A nonempty set of naturals has a least element, which is where a scan starts.
LEMMA LeastExists ==
  ASSUME NEW S \in SUBSET Nat, S # {}
  PROVE  \E k \in S : \A j \in S : k =< j
<1> DEFINE R == OpToRel(<, Nat)
<1>1. IsWellFoundedOn(R, Nat)
  BY NatLessThanWellFounded
<1> HIDE DEF R
<1>2. PICK x \in S : \A y \in S : ~ (<<y, x>> \in R)
  BY <1>1, WFMin
<1>3. \A y \in S : ~ (y < x)
  BY <1>2 DEF R, OpToRel
<1> QED
  BY <1>3

\* A nonempty bounded set of naturals has a greatest element.
LEMMA GreatestExists ==
  ASSUME NEW S \in SUBSET Nat, S # {}, NEW b \in Nat, \A j \in S : j =< b
  PROVE  \E m \in S : \A j \in S : j =< m
<1> DEFINE U == {u \in Nat : \A j \in S : j =< u}
<1>1. PICK m \in U : \A u \in U : m =< u
  <2>1. b \in U
    OBVIOUS
  <2> QED
    BY <2>1, LeastExists
<1>2. \E j \in S : j = m
  <2> SUFFICES ASSUME \A j \in S : j # m PROVE FALSE
    OBVIOUS
  <2>1. \A j \in S : j < m
    BY <1>1
  <2>2. m - 1 \in Nat
    <3>1. PICK j \in S : j \in Nat
      OBVIOUS
    <3>2. m \in Nat /\ j < m
      BY <2>1, <1>1
    <3> QED
      BY <3>1, <3>2
  <2>3. \A j \in S : j =< m - 1
    BY <2>1, <1>1
  <2>4. m - 1 \in U
    BY <2>2, <2>3
  <2> QED
    BY <2>4, <1>1
<1> QED
  BY <1>1, <1>2

-----------------------------------------------------------------------------
(* The records of writers and of a sync. *)

\* A writer that is busy and a sync in progress have all their locals.
LEMMA Locals ==
  ASSUME TypeOK
  PROVE  /\ \A w \in Writers : writer[w].pc # "idle" => writer[w] \in BusyWriter
         /\ Syncing => sync \in BusySync
  BY DEF TypeOK, WriterState, SyncState, Syncing, NoRequest

NumbersOK ==
  /\ counter \in Nat /\ token \in Nat
  /\ \A x \in rows \cup removed : x.count \in Nat
  /\ \A v \in Writers : writer[v].pc # "idle" => writer[v].count \in Nat
  /\ Syncing => sync.next \in Nat /\ sync.since \in Nat

\* The numbers of the counter, the rows and the requests are natural.
LEMMA Numbers ==
  ASSUME TypeOK
  PROVE  NumbersOK
  BY Locals DEF NumbersOK, TypeOK, Row, BusyWriter, BusySync

\* Initially nothing is stored and nobody is busy.
LEMMA InitIInv == Init => IInv
<1> SUFFICES ASSUME Init
             PROVE  IInv
  OBVIOUS
<1>1. TypeOK
  BY DEF Init, TypeOK, WriterState, SyncState
<1>2. NumberInv /\ LocalInv /\ LockInv
  BY DEF Init, NumberInv, LocalInv, LockInv, Appending, Syncing, NoRequest
<1>3. CacheInv /\ AppendInv /\ AnswerInv /\ RaceInv
  BY DEF Init, CacheInv, AppendInv, AnswerInv, RaceInv, Appending, Announcing, NoRequest
<1>4. NoPduSkipped /\ OnlyRacingRowsAreSkipped
  BY DEF Init, NoPduSkipped, OnlyRacingRowsAreSkipped
<1> QED
  BY <1>1, <1>2, <1>3, <1>4 DEF IInv

----------------------------------------------------------------------------
(* The writers.                                                            *)

\* A writer waits for the lock, or gets it: it has no number yet.
LEMMA LockSteps ==
  ASSUME IInv, NEW w \in Writers, (\E r \in Rooms : AppendPdu(w, r)) \/ LockRoom(w)
  PROVE  IInv'
<1> USE DEF IInv
<1>0. /\ UNCHANGED <<counter, rows, cache, sync, token, received, gaps, omitted, raced, removed, loadErrors, crashes>>
      /\ writer[w].pc \in {"idle", "locking"}
      /\ writer'[w].pc \in {"locking", "reading"} /\ writer'[w].tree = "pdu"
      /\ writer'[w].at \in Rooms /\ writer'[w].todo \subseteq {writer'[w].at}
      /\ writer'[w].count \in Nat /\ writer'[w].count =< counter
      /\ writer' \in [Writers -> WriterState]
      /\ \A v \in Writers \ {w} : writer'[v] = writer[v]
  <2>1. CASE \E r \in Rooms : AppendPdu(w, r)
    BY <2>1 DEF AppendPdu, TypeOK, WriterState, BusyWriter, Prefixes
  <2>2. CASE LockRoom(w)
    <3>1. writer' = [writer EXCEPT ![w].pc = "reading"] /\ writer[w].pc = "locking"
      BY <2>2 DEF LockRoom
    <3>2. writer'[w] = [writer[w] EXCEPT !.pc = "reading"]
      BY <3>1 DEF TypeOK
    <3>3. writer'[w] \in WriterState
      BY <3>1, <3>2, Locals DEF WriterState, BusyWriter
    <3> QED
      BY <2>2, <3>1, <3>2, <3>3, Locals DEF LockRoom, TypeOK, LocalInv, NumberInv, BusyWriter
  <2> QED
    BY <2>1, <2>2
<1>1. lock' \in [Rooms -> Writers \cup {NoOne}]
      /\ (\A r \in Rooms : lock'[r] = lock[r] \/ (lock[r] = NoOne /\ lock'[r] = w))
      /\ (writer'[w].pc = "reading" => lock'[writer'[w].at] = w)
  <2>1. CASE \E r \in Rooms : AppendPdu(w, r)
    BY <2>1 DEF AppendPdu, TypeOK
  <2>2. CASE LockRoom(w)
    <3>1. writer[w].at \in Rooms /\ writer'[w].at = writer[w].at
      BY <2>2, Locals DEF LockRoom, TypeOK, LocalInv, BusyWriter
    <3> QED
      BY <2>2, <3>1 DEF LockRoom, TypeOK
  <2> QED
    BY <2>1, <2>2
<1>2. TypeOK'
  BY <1>0, <1>1 DEF TypeOK
<1>3. NumberInv' /\ LocalInv'
  BY <1>0 DEF NumberInv, LocalInv, Syncing
<1>4. LockInv'
  BY <1>0, <1>1, NamesAssumption DEF LockInv, LocalInv, Appending, TypeOK
<1>5. CacheInv'
  BY <1>0 DEF CacheInv, Appending
<1>8. AppendInv' /\ AnswerInv'
  BY <1>0 DEF AppendInv, AnswerInv, Appending, Passed, ReadRoom, Syncing
<1>6. RaceInv'
  BY <1>0 DEF RaceInv, Announcing, ReadKeys, ReadToDevice, Passed, Syncing
<1>7. NoPduSkipped' /\ OnlyRacingRowsAreSkipped'
  BY <1>0 DEF NoPduSkipped, OnlyRacingRowsAreSkipped
<1> QED
  BY <1>2, <1>3, <1>4, <1>5, <1>6, <1>7, <1>8

\* A step of append_pdu under the lock that takes a number.
LEMMA CountSteps ==
  ASSUME IInv, NEW w \in Writers, ResetCounts(w) \/ CountPdu(w)
  PROVE  IInv'
<1> USE DEF IInv
<1>0. /\ UNCHANGED <<rows, cache, lock, sync, token, received, gaps, omitted, raced, removed, loadErrors, crashes>>
      /\ counter' = counter + 1 /\ counter \in Nat
      /\ writer[w].pc \in {"reading", "counting"} /\ writer[w].tree = "pdu"
      /\ writer[w].at \in Rooms /\ lock[writer[w].at] = w
      /\ writer[w].count \in Nat /\ writer[w].count =< counter
      /\ writer[w].todo \subseteq {writer[w].at} /\ token \in Nat
      /\ writer[w] \in BusyWriter
  BY Locals DEF ResetCounts, CountPdu, TypeOK, BusyWriter, LocalInv, LockInv, NumberInv
<1>1. /\ writer'[w] \in BusyWriter
      /\ writer'[w].tree = "pdu" /\ writer'[w].at = writer[w].at
      /\ writer'[w].todo = writer[w].todo
      /\ \/ writer'[w].pc = "counting" /\ writer'[w].count = writer[w].count
         \/ writer'[w].pc = "inserting" /\ writer'[w].count = counter + 1
      /\ writer' \in [Writers -> WriterState]
      /\ \A v \in Writers \ {w} : writer'[v] = writer[v]
  <2>1. CASE ResetCounts(w)
    <3>1. writer' = [writer EXCEPT ![w] = [writer[w] EXCEPT !.pc = "counting"]]
      BY <2>1 DEF ResetCounts, TypeOK
    <3> QED
      BY <1>0, <3>1 DEF TypeOK, WriterState, BusyWriter
  <2>2. CASE CountPdu(w)
    <3>1. writer' = [writer EXCEPT ![w] =
                       [writer[w] EXCEPT !.pc = "inserting", !.count = counter + 1]]
      BY <2>2 DEF CountPdu, TypeOK
    <3>2. writer'[w] = [writer[w] EXCEPT !.pc = "inserting", !.count = counter + 1]
      BY <3>1 DEF TypeOK
    <3>3. counter + 1 \in Nat
      BY <1>0
    <3>4. writer'[w] \in BusyWriter
      BY <1>0, <3>2, <3>3 DEF BusyWriter
    <3>5. /\ writer'[w].tree = writer[w].tree /\ writer'[w].at = writer[w].at
          /\ writer'[w].todo = writer[w].todo
          /\ writer'[w].pc = "inserting" /\ writer'[w].count = counter + 1
      BY <1>0, <3>2 DEF BusyWriter
    <3> QED
      BY <1>0, <3>1, <3>4, <3>5 DEF TypeOK, WriterState
  <2> QED
    BY <2>1, <2>2
<1>2. TypeOK'
  BY <1>0, <1>1 DEF TypeOK
<1>3. NumbersOK
  BY Numbers
<1>4. NumberInv'
  BY <1>0, <1>1, <1>3 DEF NumbersOK, NumberInv, Syncing
<1>5. LocalInv' /\ LockInv'
  BY <1>0, <1>1 DEF LocalInv, LockInv, Appending
<1>6. CacheInv'
  BY <1>0, <1>1, <1>3 DEF NumbersOK, CacheInv, Appending, NumberInv
<1>7. AppendInv'
  BY <1>0, <1>1, <1>3 DEF NumbersOK, AppendInv, Appending, NumberInv, Passed, Syncing
<1>8. AnswerInv' /\ NoPduSkipped' /\ OnlyRacingRowsAreSkipped'
  BY <1>0 DEF AnswerInv, ReadRoom, Passed, Syncing, NoPduSkipped, OnlyRacingRowsAreSkipped
<1>9. RaceInv'
  BY <1>0, <1>1 DEF RaceInv, Announcing, ReadKeys, ReadToDevice, Passed, Syncing
<1> QED
  BY <1>2, <1>4, <1>5, <1>6, <1>7, <1>8, <1>9

\* A writer without a lock takes its number.
LEMMA AnnounceSteps ==
  ASSUME IInv, NEW w \in Writers,
         (\E S \in SUBSET Prefixes : MarkDeviceKeyUpdate(w, S)) \/ AddToDeviceEvent(w)
  PROVE  IInv'
<1> USE DEF IInv
<1>0. /\ UNCHANGED <<rows, cache, lock, sync, token, received, gaps, omitted, raced, removed, loadErrors, crashes>>
      /\ counter' = counter + 1 /\ counter \in Nat /\ token \in Nat
      /\ writer[w].pc = "idle"
      /\ writer'[w] \in BusyWriter
      /\ writer'[w].pc = "inserting" /\ writer'[w].tree \in {"key", "todevice"}
      /\ writer'[w].tree = "todevice" => writer'[w].todo = {Own}
      /\ writer'[w].count = counter + 1
      /\ writer' \in [Writers -> WriterState]
      /\ \A v \in Writers \ {w} : writer'[v] = writer[v]
  <2>1. CASE \E S \in SUBSET Prefixes : MarkDeviceKeyUpdate(w, S)
    BY <2>1 DEF MarkDeviceKeyUpdate, TypeOK, WriterState, BusyWriter, Prefixes
  <2>2. CASE AddToDeviceEvent(w)
    BY <2>2 DEF AddToDeviceEvent, TypeOK, WriterState, BusyWriter, Prefixes
  <2> QED
    BY <2>1, <2>2
<1>2. TypeOK'
  BY <1>0 DEF TypeOK
<1>3. NumbersOK
  BY Numbers
<1>4. NumberInv'
  BY <1>0, <1>3 DEF NumbersOK, NumberInv, Syncing
<1>5. LocalInv' /\ LockInv'
  BY <1>0 DEF LocalInv, LockInv, Appending
<1>6. CacheInv'
  BY <1>0 DEF CacheInv, Appending
<1>7. AppendInv'
  BY <1>0 DEF AppendInv, Appending, Passed, Syncing
<1>8. AnswerInv' /\ NoPduSkipped' /\ OnlyRacingRowsAreSkipped'
  BY <1>0 DEF AnswerInv, ReadRoom, Passed, Syncing, NoPduSkipped, OnlyRacingRowsAreSkipped
<1>9. RaceInv'
  BY <1>0, <1>3 DEF NumbersOK, RaceInv, Announcing, ReadKeys, ReadToDevice, Passed, Syncing, NumberInv
<1> QED
  BY <1>2, <1>4, <1>5, <1>6, <1>7, <1>8, <1>9

\* The row of an event: nobody else appends to its room, and its number is after
\* the token and after what a sync that has passed the room will answer.
LEMMA InsertPdu ==
  ASSUME IInv, NEW w \in Writers, NEW p \in Prefixes, InsertRow(w, p), writer[w].tree = "pdu"
  PROVE  IInv'
<1> USE DEF IInv
<1>0. /\ UNCHANGED <<counter, cache, lock, sync, token, received, gaps, omitted, raced, removed, loadErrors, crashes>>
      /\ writer[w].pc = "inserting" /\ p = writer[w].at /\ p \in Rooms
      /\ writer[w] \in BusyWriter
      /\ writer[w].count \in Nat /\ 0 < writer[w].count /\ writer[w].count =< counter
      /\ lock[p] = w /\ writer[w].count > token
      /\ Passed(p) => writer[w].count > sync.next
  BY Locals DEF InsertRow, LocalInv, BusyWriter, NumberInv, LockInv, AppendInv, Appending
<1>1. /\ writer'[w] \in BusyWriter
      /\ writer'[w].pc = "waking" /\ writer'[w].tree = "pdu"
      /\ writer'[w].at = p /\ writer'[w].count = writer[w].count
      /\ writer'[w].todo \subseteq {p}
      /\ writer' \in [Writers -> WriterState]
      /\ \A v \in Writers \ {w} : writer'[v] = writer[v]
  <2>1. writer' = [writer EXCEPT ![w] =
                     [writer[w] EXCEPT !.pc = "waking", !.todo = writer[w].todo \ {p}]]
    BY DEF InsertRow, TypeOK
  <2>2. writer'[w] = [writer[w] EXCEPT !.pc = "waking", !.todo = writer[w].todo \ {p}]
    BY <2>1 DEF TypeOK
  <2>3. writer'[w] \in BusyWriter
    BY <1>0, <2>2, ZenonT(60) DEF BusyWriter
  <2> QED
    BY <1>0, <2>1, <2>2, <2>3 DEF TypeOK, WriterState, BusyWriter, LocalInv
<1>2. PICK x0 \in Row : /\ rows' = rows \cup {x0}
                        /\ x0.tree = "pdu" /\ x0.prefix = p /\ x0.count = writer[w].count
  <2>1. RowOf("pdu", p, writer[w].count) \in Row
    BY <1>0 DEF RowOf, Row
  <2> QED
    BY <2>1 DEF InsertRow, RowOf
<1>3. NumbersOK
  BY Numbers
<1>4. TypeOK'
  BY <1>0, <1>1, <1>2 DEF TypeOK
<1>5. NumberInv' /\ LocalInv'
  BY <1>0, <1>1, <1>2 DEF NumberInv, LocalInv, Syncing
<1>6. LockInv'
  BY <1>0, <1>1 DEF LockInv, Appending
<1>7. CacheInv'
  <2>1. \A v \in Writers : Appending(v) /\ writer[v].at = p => v = w
    BY <1>0 DEF LockInv
  <2>2. Appending(w) /\ Appending(w)' /\ \A v \in Writers \ {w} : Appending(v)' <=> Appending(v)
    BY <1>0, <1>1 DEF Appending
  <2>3. ASSUME NEW v \in Writers, Appending(v)', NEW x \in rows',
               x.tree = "pdu", x.prefix = writer'[v].at
        PROVE  x.count =< writer'[v].count
    <3>1. CASE x = x0
      BY <1>0, <1>1, <1>2, <2>1, <2>2, <2>3, <3>1
    <3>2. CASE x \in rows
      BY <1>0, <1>1, <2>2, <2>3, <3>2 DEF CacheInv
    <3> QED
      BY <1>2, <3>1, <3>2
  <2>4. ASSUME NEW x \in rows', x.tree = "pdu"
        PROVE  \/ x.count =< cache'[x.prefix]
               \/ cache'[x.prefix] = 0
               \/ \E v \in Writers : /\ Appending(v)' /\ writer'[v].pc # "inserting"
                                     /\ writer'[v].at = x.prefix /\ writer'[v].count = x.count
    <3>1. CASE x = x0
      BY <1>1, <1>2, <2>2, <3>1
    <3>2. CASE x \in rows
      BY <1>0, <1>1, <2>2, <2>4, <3>2 DEF CacheInv
    <3> QED
      BY <1>2, <3>1, <3>2
  <2> QED
    BY <2>3, <2>4 DEF CacheInv
<1>8. AppendInv'
  BY <1>0, <1>1 DEF AppendInv, Appending, Passed, Syncing
<1>9. AnswerInv' /\ NoPduSkipped'
  BY <1>0, <1>2, <1>3 DEF AnswerInv, NoPduSkipped, NumbersOK, ReadRoom, Passed, Syncing
<1>10. RaceInv' /\ OnlyRacingRowsAreSkipped'
  BY <1>0, <1>1, <1>2 DEF RaceInv, OnlyRacingRowsAreSkipped, Announcing, ReadKeys, ReadToDevice,
                          Passed, Syncing
<1> QED
  BY <1>4, <1>5, <1>6, <1>7, <1>8, <1>9, <1>10

\* A row of a tree without a lock: one that a token has passed is in `raced'.
LEMMA InsertOther ==
  ASSUME IInv, NEW w \in Writers, NEW p \in Prefixes, InsertRow(w, p), writer[w].tree # "pdu"
  PROVE  IInv'
<1> USE DEF IInv
<1>0. /\ UNCHANGED <<counter, cache, lock, sync, token, received, gaps, omitted, raced, removed, loadErrors, crashes>>
      /\ writer[w].pc = "inserting" /\ p \in writer[w].todo
      /\ writer[w] \in BusyWriter
      /\ writer[w].count \in Nat /\ 0 < writer[w].count /\ writer[w].count =< counter
      /\ writer[w].tree \in {"key", "todevice"}
      /\ writer[w].tree = "todevice" => writer[w].todo \subseteq {Own}
      /\ Announcing(w)
  BY Locals DEF InsertRow, LocalInv, BusyWriter, NumberInv, Announcing
<1>1. /\ writer'[w] \in BusyWriter
      /\ writer'[w].pc = "waking" /\ writer'[w].tree = writer[w].tree
      /\ writer'[w].count = writer[w].count
      /\ writer'[w].todo \subseteq writer[w].todo
      /\ writer' \in [Writers -> WriterState]
      /\ \A v \in Writers \ {w} : writer'[v] = writer[v]
  <2>1. writer' = [writer EXCEPT ![w] =
                     [writer[w] EXCEPT !.pc = "waking", !.todo = writer[w].todo \ {p}]]
    BY DEF InsertRow, TypeOK
  <2>2. writer'[w] = [writer[w] EXCEPT !.pc = "waking", !.todo = writer[w].todo \ {p}]
    BY <2>1 DEF TypeOK
  <2>3. writer'[w] \in BusyWriter
    BY <1>0, <2>2 DEF BusyWriter
  <2> QED
    BY <1>0, <2>1, <2>2, <2>3 DEF TypeOK, WriterState, BusyWriter
<1>2. PICK x0 \in Row : /\ rows' = rows \cup {x0}
                        /\ x0 = RowOf(writer[w].tree, p, writer[w].count)
                        /\ x0.tree = writer[w].tree /\ x0.prefix = p
                        /\ x0.count = writer[w].count
  <2>1. RowOf(writer[w].tree, p, writer[w].count) \in Row
    BY <1>0 DEF RowOf, Row
  <2> QED
    BY <2>1 DEF InsertRow, RowOf
<1>3. \/ writer[w].count =< token
      \/ Syncing /\ writer[w].count =< sync.next
      => x0 \in raced
  BY <1>0, <1>2 DEF RaceInv
<1>4. TypeOK'
  BY <1>0, <1>1, <1>2 DEF TypeOK
<1>5. NumberInv' /\ LocalInv'
  BY <1>0, <1>1, <1>2 DEF NumberInv, LocalInv, Syncing
<1>6. LockInv' /\ CacheInv'
  BY <1>0, <1>1, <1>2 DEF LockInv, CacheInv, Appending
<1>7. AppendInv' /\ AnswerInv' /\ NoPduSkipped'
  BY <1>0, <1>1, <1>2 DEF AppendInv, AnswerInv, NoPduSkipped, Appending, ReadRoom, Passed, Syncing
<1>8. RaceInv'
  <2>1. \A v \in Writers : /\ Announcing(v)' => Announcing(v)
                           /\ Announcing(v)' => /\ writer'[v].tree = writer[v].tree
                                                /\ writer'[v].count = writer[v].count
                                                /\ writer'[v].todo \subseteq writer[v].todo
    BY <1>0, <1>1 DEF Announcing
  <2>2. \A q : ReadKeys(q)' <=> ReadKeys(q)
    BY <1>0 DEF ReadKeys, Passed, Syncing
  <2>3. (ReadToDevice' <=> ReadToDevice) /\ (Syncing' <=> Syncing)
    BY <1>0 DEF ReadToDevice, Syncing
  <2>4. (\E q : ReadKeys(q)) \/ ReadToDevice => Syncing
    BY DEF ReadKeys, ReadToDevice, Passed, Syncing
  <2>5. ASSUME NEW v \in Writers, Announcing(v)', NEW q \in writer'[v].todo,
               \/ writer'[v].count =< token'
               \/ Syncing' /\ writer'[v].count =< sync'.next
        PROVE  RowOf(writer'[v].tree, q, writer'[v].count) \in raced'
    BY <1>0, <2>1, <2>3, <2>5 DEF RaceInv
  <2>6. ASSUME NEW x \in rows',
               \/ x.tree = "key" /\ ReadKeys(x.prefix)'
               \/ x.tree = "todevice" /\ ReadToDevice',
               sync'.since < x.count, x.count =< sync'.next
        PROVE  x \in sync'.got \cup sync'.lost \cup raced'
    <3>1. CASE x = x0
      BY <1>0, <1>2, <1>3, <2>2, <2>3, <2>4, <2>6, <3>1
    <3>2. CASE x \in rows
      BY <1>0, <2>2, <2>3, <2>6, <3>2 DEF RaceInv
    <3> QED
      BY <1>2, <3>1, <3>2
  <2> QED
    BY <2>5, <2>6 DEF RaceInv
<1>9. OnlyRacingRowsAreSkipped'
  BY <1>0, <1>2, <1>3 DEF OnlyRacingRowsAreSkipped
<1> QED
  BY <1>4, <1>5, <1>6, <1>7, <1>8, <1>9

\* Of a sync, a wake changes only the flag that no invariant is about.
LEMMA WakeStep ==
  ASSUME IInv, NEW w \in Writers, Wake(w)
  PROVE  IInv'
<1> USE DEF IInv
<1>0. /\ UNCHANGED <<counter, rows, cache, lock, token, received, gaps, omitted, raced, removed, loadErrors, crashes>>
      /\ writer[w].pc = "waking" /\ writer[w] \in BusyWriter
  BY Locals DEF Wake
<1>1. /\ sync' \in SyncState
      /\ sync'.pc = sync.pc
      /\ Syncing => /\ sync'.since = sync.since /\ sync'.next = sync.next
                    /\ sync'.todo = sync.todo /\ sync'.room = sync.room
                    /\ sync'.got = sync.got /\ sync'.gap = sync.gap /\ sync'.lost = sync.lost
  <2>1. CASE sync.pc = "hanging"
    <3>1. sync \in BusySync /\ sync' = [sync EXCEPT !.woken = TRUE]
      BY <2>1, Locals DEF Wake, Syncing
    <3> QED
      BY <3>1 DEF BusySync, SyncState
  <2>2. CASE sync.pc # "hanging"
    BY <2>2 DEF Wake, TypeOK
  <2> QED
    BY <2>1, <2>2
<1>2. /\ writer' \in [Writers -> WriterState]
      /\ \A v \in Writers \ {w} : writer'[v] = writer[v]
      /\ writer[w].tree = "pdu" => writer'[w].pc = "caching"
      /\ writer[w].tree # "pdu" => writer'[w].pc \in {"idle", "inserting"}
      /\ writer'[w].pc # "idle" => /\ writer'[w].tree = writer[w].tree
                                   /\ writer'[w].at = writer[w].at
                                   /\ writer'[w].todo = writer[w].todo
                                   /\ writer'[w].count = writer[w].count
  <2>1. CASE writer[w].tree = "pdu"
    <3>1. writer' = [writer EXCEPT ![w] = [writer[w] EXCEPT !.pc = "caching"]]
      BY <2>1 DEF Wake, TypeOK
    <3> QED
      BY <1>0, <2>1, <3>1 DEF TypeOK, WriterState, BusyWriter
  <2>2. CASE writer[w].tree # "pdu" /\ writer[w].todo # {}
    <3>1. writer' = [writer EXCEPT ![w] = [writer[w] EXCEPT !.pc = "inserting"]]
      BY <2>2 DEF Wake, TypeOK
    <3> QED
      BY <1>0, <2>2, <3>1 DEF TypeOK, WriterState, BusyWriter
  <2>3. CASE writer[w].tree # "pdu" /\ writer[w].todo = {}
    <3>1. writer' = [writer EXCEPT ![w] = NoRequest]
      BY <2>3 DEF Wake, TypeOK
    <3> QED
      BY <1>0, <2>3, <3>1 DEF TypeOK, WriterState, NoRequest
  <2> QED
    BY <2>1, <2>2, <2>3
<1>3. TypeOK'
  BY <1>0, <1>1, <1>2 DEF TypeOK
<1>4. NumberInv' /\ LocalInv'
  BY <1>0, <1>1, <1>2 DEF NumberInv, LocalInv, Syncing
<1>5. LockInv' /\ CacheInv'
  BY <1>0, <1>2 DEF LockInv, CacheInv, Appending
<1>6. AppendInv' /\ AnswerInv'
  BY <1>0, <1>1, <1>2 DEF AppendInv, AnswerInv, Appending, ReadRoom, Passed, Syncing
<1>7. RaceInv'
  BY <1>0, <1>1, <1>2 DEF RaceInv, Announcing, ReadKeys, ReadToDevice, Passed, Syncing
<1>8. NoPduSkipped' /\ OnlyRacingRowsAreSkipped'
  BY <1>0 DEF NoPduSkipped, OnlyRacingRowsAreSkipped
<1> QED
  BY <1>3, <1>4, <1>5, <1>6, <1>7, <1>8

\* The event that is being appended is the latest of its room: the cache may
\* have its number.
LEMMA CacheStep ==
  ASSUME IInv, NEW w \in Writers, CachePdu(w)
  PROVE  IInv'
<1> USE DEF IInv
<1>0. /\ UNCHANGED <<counter, rows, lock, sync, token, received, gaps, omitted, raced, removed, loadErrors, crashes>>
      /\ writer[w].pc = "caching" /\ writer[w] \in BusyWriter /\ Appending(w)
      /\ writer[w].tree = "pdu" /\ writer[w].at \in Rooms /\ writer[w].count \in Nat
      /\ cache' = [cache EXCEPT ![writer[w].at] = writer[w].count]
  BY Locals DEF CachePdu, LocalInv, Appending, BusyWriter
<1>1. /\ writer' \in [Writers -> WriterState]
      /\ \A v \in Writers \ {w} : writer'[v] = writer[v]
      /\ writer'[w].pc = "unlocking" /\ writer'[w].tree = "pdu"
      /\ writer'[w].at = writer[w].at /\ writer'[w].todo = writer[w].todo
      /\ writer'[w].count = writer[w].count
  <2>1. writer' = [writer EXCEPT ![w] = [writer[w] EXCEPT !.pc = "unlocking"]]
    BY DEF CachePdu, TypeOK
  <2> QED
    BY <1>0, <2>1 DEF TypeOK, WriterState, BusyWriter
<1>2. TypeOK'
  BY <1>0, <1>1 DEF TypeOK
<1>3. NumberInv' /\ LocalInv'
  BY <1>0, <1>1 DEF NumberInv, LocalInv, Syncing
<1>4. LockInv'
  BY <1>0, <1>1 DEF LockInv, Appending
<1>5. CacheInv'
  <2>1. \A v \in Writers : (Appending(v)' <=> Appending(v) /\ v # w)
    BY <1>0, <1>1 DEF Appending
  <2>2. ASSUME NEW x \in rows', x.tree = "pdu"
        PROVE  \/ x.count =< cache'[x.prefix]
               \/ cache'[x.prefix] = 0
               \/ \E v \in Writers : /\ Appending(v)' /\ writer'[v].pc # "inserting"
                                     /\ writer'[v].at = x.prefix /\ writer'[v].count = x.count
    <3>1. x \in rows /\ x.prefix \in Rooms
      BY <1>0, <2>2 DEF LocalInv
    <3>2. CASE x.prefix = writer[w].at
      BY <1>0, <2>2, <3>1, <3>2 DEF CacheInv, TypeOK
    <3>3. CASE x.prefix # writer[w].at
      BY <1>0, <1>1, <2>1, <2>2, <3>1, <3>3 DEF CacheInv, TypeOK
    <3> QED
      BY <3>2, <3>3
  <2> QED
    BY <1>0, <1>1, <2>1, <2>2 DEF CacheInv
<1>6. AppendInv' /\ AnswerInv'
  BY <1>0, <1>1 DEF AppendInv, AnswerInv, Appending, ReadRoom, Passed, Syncing
<1>7. RaceInv'
  BY <1>0, <1>1 DEF RaceInv, Announcing, ReadKeys, ReadToDevice, Passed, Syncing
<1>8. NoPduSkipped' /\ OnlyRacingRowsAreSkipped'
  BY <1>0 DEF NoPduSkipped, OnlyRacingRowsAreSkipped
<1> QED
  BY <1>2, <1>3, <1>4, <1>5, <1>6, <1>7, <1>8

\* A writer that ends gives back its own lock only, and the cache has the number
\* of every event it inserted.
LEMMA EndSteps ==
  ASSUME IInv, NEW w \in Writers, UnlockRoom(w) \/ Abort(w)
  PROVE  IInv'
<1> USE DEF IInv
<1>0. /\ UNCHANGED <<counter, rows, cache, sync, token, received, gaps, omitted, raced, removed, loadErrors, crashes>>
      /\ writer[w].pc \notin {"idle", "waking", "caching"}
      /\ writer' = [writer EXCEPT ![w] = NoRequest]
      /\ writer' \in [Writers -> WriterState]
      /\ writer'[w].pc = "idle"
      /\ \A v \in Writers \ {w} : writer'[v] = writer[v]
  BY DEF UnlockRoom, Abort, TypeOK, WriterState, NoRequest
<1>1. /\ lock' \in [Rooms -> Writers \cup {NoOne}]
      /\ \A r \in Rooms : lock[r] # w => lock'[r] = lock[r]
  <2>1. CASE UnlockRoom(w)
    <3>1. writer[w].at \in Rooms /\ lock[writer[w].at] = w
      BY <2>1 DEF UnlockRoom, LocalInv, LockInv
    <3> QED
      BY <2>1, <3>1 DEF UnlockRoom, TypeOK
  <2>2. CASE Abort(w)
    BY <2>2 DEF Abort, TypeOK
  <2> QED
    BY <2>1, <2>2
<1>2. TypeOK'
  BY <1>0, <1>1 DEF TypeOK
<1>3. NumberInv' /\ LocalInv'
  BY <1>0 DEF NumberInv, LocalInv, Syncing
<1>4. LockInv'
  BY <1>0, <1>1 DEF LockInv, Appending, LocalInv
<1>5. CacheInv'
  BY <1>0 DEF CacheInv, Appending
<1>6. AppendInv' /\ AnswerInv'
  BY <1>0 DEF AppendInv, AnswerInv, Appending, ReadRoom, Passed, Syncing
<1>7. RaceInv'
  BY <1>0 DEF RaceInv, Announcing, ReadKeys, ReadToDevice, Passed, Syncing
<1>8. NoPduSkipped' /\ OnlyRacingRowsAreSkipped'
  BY <1>0 DEF NoPduSkipped, OnlyRacingRowsAreSkipped
<1> QED
  BY <1>2, <1>3, <1>4, <1>5, <1>6, <1>7, <1>8

----------------------------------------------------------------------------
(* The sync.                                                               *)

\* The rows of a tree without a lock that have a number now, and are not yet
\* inserted, are in `raced' from here on.
LEMMA StartStep ==
  ASSUME IInv, SyncStart
  PROVE  IInv'
<1> USE DEF IInv
<1>0. /\ UNCHANGED <<counter, rows, cache, lock, writer, token, received, gaps, omitted, removed, loadErrors, crashes>>
      /\ sync' \in BusySync
      /\ sync'.pc = "own" /\ sync'.since = token /\ sync'.next = counter
      /\ sync'.todo = Rooms
      /\ raced' = raced \cup InFlight
  BY DEF SyncStart, TypeOK, BusySync, Prefixes
<1>1. NumbersOK
  BY Numbers
<1>2. InFlight \subseteq Row
  BY <1>1 DEF InFlight, Row, NumbersOK
<1>3. TypeOK'
  BY <1>0, <1>2 DEF TypeOK, SyncState
<1>4. NumberInv' /\ LocalInv' /\ LockInv' /\ CacheInv'
  BY <1>0, <1>1 DEF NumberInv, LocalInv, LockInv, CacheInv, Syncing, Appending, NumbersOK
<1>5. AppendInv' /\ AnswerInv'
  BY <1>0 DEF AppendInv, AnswerInv, Appending, ReadRoom, Passed, Syncing, LocalInv
<1>6. RaceInv'
  <2>1. ASSUME NEW w \in Writers, Announcing(w), NEW p \in writer[w].todo
        PROVE  RowOf(writer[w].tree, p, writer[w].count) \in InFlight
    <3>1. writer[w] \in BusyWriter
      BY <2>1, Locals DEF Announcing
    <3>2. writer[w].tree \in {"key", "todevice"} /\ p \in Prefixes
          /\ writer[w].count \in 1..counter
      BY <1>1, <2>1, <3>1 DEF Announcing, BusyWriter, LocalInv, NumberInv, NumbersOK
    <3> QED
      BY <2>1, <3>2 DEF InFlight, RowOf, Announcing
  <2>2. \A x \in rows : ~(x.tree = "key" /\ ReadKeys(x.prefix)') /\ ~ReadToDevice'
    BY <1>0 DEF ReadKeys, ReadToDevice, Passed, TypeOK, Row, Prefixes
  <2> QED
    BY <1>0, <2>1, <2>2 DEF RaceInv, Announcing
<1>7. NoPduSkipped' /\ OnlyRacingRowsAreSkipped'
  BY <1>0 DEF NoPduSkipped, OnlyRacingRowsAreSkipped
<1> QED
  BY <1>3, <1>4, <1>5, <1>6, <1>7

\* The key changes of the user are read.
LEMMA OwnKeysStep ==
  ASSUME IInv, SyncOwnKeys
  PROVE  IInv'
<1> USE DEF IInv
<1>0. /\ UNCHANGED <<counter, rows, cache, lock, writer, token, received, gaps, omitted, raced, removed, loadErrors, crashes>>
      /\ sync.pc = "own" /\ sync \in BusySync /\ sync.todo = Rooms
      /\ sync' = [sync EXCEPT !.pc = "rooms", !.got = @ \cup After("key", Own, sync.since)]
  BY Locals DEF SyncOwnKeys, Syncing, LocalInv
<1>1. After("key", Own, sync.since) \subseteq Row
  BY DEF After, TypeOK
<1>2. /\ sync' \in BusySync /\ sync'.pc = "rooms" /\ sync'.since = sync.since
      /\ sync'.next = sync.next /\ sync'.todo = Rooms /\ sync'.lost = sync.lost
      /\ sync'.got = sync.got \cup After("key", Own, sync.since)
  BY <1>0, <1>1 DEF BusySync
<1>3. TypeOK'
  BY <1>0, <1>2 DEF TypeOK, SyncState
<1>4. NumberInv' /\ LocalInv' /\ LockInv' /\ CacheInv'
  BY <1>0, <1>2 DEF NumberInv, LocalInv, LockInv, CacheInv, Syncing, Appending
<1>5. AppendInv' /\ AnswerInv'
  BY <1>0, <1>2 DEF AppendInv, AnswerInv, Appending, ReadRoom, Passed, LocalInv
<1>6. RaceInv'
  <2>1. \A x \in rows : x.tree = "key" /\ ReadKeys(x.prefix)' => x.prefix = Own
    BY <1>2 DEF ReadKeys, Passed, TypeOK, Row, Prefixes
  <2>2. ~ReadToDevice'
    BY <1>2 DEF ReadToDevice
  <2> QED
    BY <1>0, <1>2, <2>1, <2>2 DEF RaceInv, Announcing, Syncing, After
<1>7. NoPduSkipped' /\ OnlyRacingRowsAreSkipped'
  BY <1>0 DEF NoPduSkipped, OnlyRacingRowsAreSkipped
<1> QED
  BY <1>3, <1>4, <1>5, <1>6, <1>7

\* The lock of the room is free, so nobody is between number and insert there.
LEMMA LockRoomStep ==
  ASSUME IInv, NEW r \in Rooms, SyncLockRoom(r)
  PROVE  IInv'
<1> USE DEF IInv
<1>0. /\ UNCHANGED <<counter, rows, cache, lock, writer, token, received, gaps, omitted, raced, removed, loadErrors, crashes>>
      /\ sync.pc = "rooms" /\ sync \in BusySync /\ r \in sync.todo /\ lock[r] = NoOne
      /\ sync' = [sync EXCEPT !.pc = "timeline", !.room = r, !.todo = sync.todo \ {r}]
  BY Locals DEF SyncLockRoom, Syncing
<1>1. /\ sync' \in BusySync /\ sync'.pc = "timeline" /\ sync'.since = sync.since
      /\ sync'.next = sync.next /\ sync'.todo = sync.todo \ {r} /\ sync'.room = r
      /\ sync'.got = sync.got /\ sync'.gap = sync.gap /\ sync'.lost = sync.lost
  BY <1>0 DEF BusySync, Prefixes
<1>2. TypeOK'
  BY <1>0, <1>1 DEF TypeOK, SyncState
<1>3. NumberInv' /\ LocalInv' /\ LockInv' /\ CacheInv'
  BY <1>0, <1>1 DEF NumberInv, LocalInv, LockInv, CacheInv, Syncing, Appending
<1>4. AppendInv'
  <2>1. \A w \in Writers : Appending(w) => writer[w].at # r
    BY <1>0, NamesAssumption DEF LockInv
  <2> QED
    BY <1>0, <1>1, <2>1 DEF AppendInv, Appending, Passed, Syncing
<1>5. AnswerInv'
  BY <1>0, <1>1 DEF AnswerInv, ReadRoom, Passed, Syncing
<1>6. RaceInv'
  <2>1. \A q : ReadKeys(q)' => ReadKeys(q)
    BY <1>0, <1>1, NamesAssumption DEF ReadKeys, Passed, Syncing
  <2>2. ~ReadToDevice'
    BY <1>1 DEF ReadToDevice
  <2> QED
    BY <1>0, <1>1, <2>1, <2>2 DEF RaceInv, Announcing, Syncing
<1>7. NoPduSkipped' /\ OnlyRacingRowsAreSkipped'
  BY <1>0 DEF NoPduSkipped, OnlyRacingRowsAreSkipped
<1> QED
  BY <1>2, <1>3, <1>4, <1>5, <1>6, <1>7

\* last_timeline_count is behind by at most the event that is being appended.
LEMMA LastTimelineCountIsLatest ==
  ASSUME IInv, NEW r \in Rooms
  PROVE  /\ LastTimelineCount(r) \in Nat
         /\ \A x \in rows : x.tree = "pdu" /\ x.prefix = r =>
              \/ x.count =< LastTimelineCount(r)
              \/ \E w \in Writers : /\ Appending(w) /\ writer[w].pc # "inserting"
                                    /\ writer[w].at = r /\ writer[w].count = x.count
<1> USE DEF IInv
<1>1. NumbersOK
  BY Numbers
<1>2. \A x \in rows : x.tree = "pdu" /\ x.prefix = r => x \in After("pdu", r, 0)
  BY DEF After, NumberInv
<1>3. CASE cache[r] # 0 \/ After("pdu", r, 0) = {}
  <2>1. LastTimelineCount(r) = cache[r]
    BY <1>3 DEF LastTimelineCount
  <2> QED
    BY <1>2, <1>3, <2>1 DEF CacheInv, TypeOK
<1>4. CASE ~(cache[r] # 0 \/ After("pdu", r, 0) = {})
  <2> DEFINE C == {x.count : x \in After("pdu", r, 0)}
  <2>1. C \in SUBSET Nat /\ C # {} /\ counter \in Nat /\ \A j \in C : j =< counter
    BY <1>1, <1>4 DEF After, NumberInv, NumbersOK
  <2>2. \E m \in C : \A j \in C : j =< m
    BY <2>1, GreatestExists
  <2>3. \E m \in C : \A x \in After("pdu", r, 0) : x.count =< m
    BY <2>2
  <2>4. LastTimelineCount(r) = CHOOSE n \in C : \A x \in After("pdu", r, 0) : x.count =< n
    BY <1>4 DEF LastTimelineCount
  <2>5. /\ LastTimelineCount(r) \in C
        /\ \A x \in After("pdu", r, 0) : x.count =< LastTimelineCount(r)
    BY <2>3, <2>4
  <2> QED
    BY <1>2, <2>1, <2>5
<1> QED
  BY <1>3, <1>4

\* Events up to next_batch are in the tree, and the cached number hides none.
LEMMA TimelineStep ==
  ASSUME IInv, SyncTimeline
  PROVE  IInv'
<1> USE DEF IInv
<1> DEFINE r == sync.room
           last == LastTimelineCount(r)
           new == IF last > sync.since THEN After("pdu", r, sync.since) ELSE {}
<1>0. /\ UNCHANGED <<counter, rows, lock, writer, token, received, gaps, omitted, raced, removed, loadErrors, crashes>>
      /\ sync.pc = "timeline" /\ sync \in BusySync /\ r \in Rooms
      /\ cache' = [cache EXCEPT ![r] = last]
      /\ sync' = [sync EXCEPT !.pc = "keys", !.got = @ \cup Newest(new),
                              !.gap = @ \cup (new \ Newest(new))]
  BY Locals DEF SyncTimeline, Syncing, LocalInv
<1>1. new \subseteq Row /\ Newest(new) \subseteq Row
  BY DEF After, Newest, TypeOK
<1>2. /\ sync' \in BusySync /\ sync'.pc = "keys" /\ sync'.since = sync.since
      /\ sync'.next = sync.next /\ sync'.todo = sync.todo /\ sync'.room = r
      /\ sync'.got = sync.got \cup Newest(new)
      /\ sync'.gap = sync.gap \cup (new \ Newest(new)) /\ sync'.lost = sync.lost
  BY <1>0, <1>1 DEF BusySync
<1>3. /\ last \in Nat
      /\ \A x \in rows : x.tree = "pdu" /\ x.prefix = r =>
           \/ x.count =< last
           \/ \E w \in Writers : /\ Appending(w) /\ writer[w].pc # "inserting"
                                 /\ writer[w].at = r /\ writer[w].count = x.count
  BY <1>0, LastTimelineCountIsLatest
<1>4. NumbersOK
  BY Numbers
<1>5. \A x \in rows : x.tree = "pdu" /\ x.prefix = r /\ sync.since < x.count /\ x.count =< sync.next =>
        x \in sync'.got \cup sync'.gap
  <2> SUFFICES ASSUME NEW x \in rows, x.tree = "pdu", x.prefix = r,
                      sync.since < x.count, x.count =< sync.next
               PROVE  x \in sync'.got \cup sync'.gap
    OBVIOUS
  <2>1. Passed(r)
    <3>1. Syncing
      BY <1>0 DEF Syncing
    <3>2. r \notin sync.todo
      BY <1>0 DEF LocalInv
    <3> QED
      BY <3>1, <3>2 DEF Passed
  <2>2. x.count =< last
    BY <1>0, <1>3, <1>4, <2>1 DEF AppendInv, NumbersOK, Syncing
  <2>3. x \in new
    BY <1>0, <1>3, <1>4, <2>2 DEF After, NumbersOK, Syncing
  <2> QED
    BY <1>2, <2>3
<1> HIDE DEF last, new
<1>6. TypeOK'
  BY <1>0, <1>2, <1>3 DEF TypeOK, SyncState
<1>7. NumberInv' /\ LocalInv' /\ LockInv'
  BY <1>0, <1>2 DEF NumberInv, LocalInv, LockInv, Syncing, Appending
<1>8. CacheInv'
  <2>1. \A x \in rows : x.tree = "pdu" => x.prefix \in Rooms
    BY DEF LocalInv
  <2> QED
    BY <1>0, <1>3, <2>1 DEF CacheInv, Appending, TypeOK
<1>9. AppendInv' /\ AnswerInv'
  BY <1>0, <1>2, <1>5 DEF AppendInv, AnswerInv, Appending, ReadRoom, Passed, Syncing
<1>10. RaceInv'
  BY <1>0, <1>2 DEF RaceInv, Announcing, ReadKeys, ReadToDevice, Passed, Syncing
<1>11. NoPduSkipped' /\ OnlyRacingRowsAreSkipped'
  BY <1>0 DEF NoPduSkipped, OnlyRacingRowsAreSkipped
<1> QED
  BY <1>6, <1>7, <1>8, <1>9, <1>10, <1>11

\* The key changes of the room are read.
LEMMA RoomKeysStep ==
  ASSUME IInv, SyncRoomKeys
  PROVE  IInv'
<1> USE DEF IInv
<1>0. /\ UNCHANGED <<counter, rows, cache, lock, writer, token, received, gaps, omitted, raced, removed, loadErrors, crashes>>
      /\ sync.pc = "keys" /\ sync \in BusySync /\ sync.room \in Rooms
      /\ sync' = [sync EXCEPT !.pc = "rooms", !.got = @ \cup After("key", sync.room, sync.since)]
  BY Locals DEF SyncRoomKeys, Syncing, LocalInv
<1>1. After("key", sync.room, sync.since) \subseteq Row
  BY DEF After, TypeOK
<1>2. /\ sync' \in BusySync /\ sync'.pc = "rooms" /\ sync'.since = sync.since
      /\ sync'.next = sync.next /\ sync'.todo = sync.todo
      /\ sync'.gap = sync.gap /\ sync'.lost = sync.lost
      /\ sync'.got = sync.got \cup After("key", sync.room, sync.since)
  BY <1>0, <1>1 DEF BusySync
<1>3. TypeOK'
  BY <1>0, <1>2 DEF TypeOK, SyncState
<1>4. NumberInv' /\ LocalInv' /\ LockInv' /\ CacheInv'
  BY <1>0, <1>2 DEF NumberInv, LocalInv, LockInv, CacheInv, Syncing, Appending
<1>5. AppendInv' /\ AnswerInv'
  BY <1>0, <1>2 DEF AppendInv, AnswerInv, Appending, ReadRoom, Passed, Syncing
<1>6. RaceInv'
  <2>1. \A q : ReadKeys(q)' => ReadKeys(q) \/ q = sync.room
    BY <1>0, <1>2 DEF ReadKeys, Passed, Syncing
  <2>2. ~ReadToDevice'
    BY <1>2 DEF ReadToDevice
  <2> QED
    BY <1>0, <1>2, <2>1, <2>2 DEF RaceInv, Announcing, Syncing, After
<1>7. NoPduSkipped' /\ OnlyRacingRowsAreSkipped'
  BY <1>0 DEF NoPduSkipped, OnlyRacingRowsAreSkipped
<1> QED
  BY <1>3, <1>4, <1>5, <1>6, <1>7

\* The rows of a room that cannot be loaded are in `lost'.
LEMMA RoomFailsStep ==
  ASSUME IInv, SyncRoomFails
  PROVE  IInv'
<1> USE DEF IInv
<1> DEFINE r == sync.room
           pdus == {x \in sync.got : x.tree = "pdu" /\ x.prefix = r}
           keys == After("key", r, sync.since)
<1>0. /\ UNCHANGED <<counter, rows, cache, lock, writer, token, received, gaps, omitted, raced, removed, crashes>>
      /\ sync.pc \in {"timeline", "keys"} /\ sync \in BusySync /\ r \in Rooms
      /\ loadErrors' = loadErrors + 1
      /\ \/ sync' = [sync EXCEPT !.pc = "rooms", !.got = @ \ pdus,
                     !.lost = @ \cup Due("pdu", r) \cup Due("key", r)]
         \/ sync' = [sync EXCEPT !.pc = "rooms", !.got = (@ \ pdus) \cup keys,
                     !.lost = @ \cup Due("pdu", r)]
  BY Locals DEF SyncRoomFails, Syncing, LocalInv
<1>1. keys \subseteq Row /\ Due("pdu", r) \subseteq Row /\ Due("key", r) \subseteq Row
  BY DEF After, Due, TypeOK
<1>2. /\ sync' \in BusySync /\ sync'.pc = "rooms" /\ sync'.since = sync.since
      /\ sync'.next = sync.next /\ sync'.todo = sync.todo /\ sync'.gap = sync.gap
      /\ sync.got \ pdus \subseteq sync'.got
      /\ sync.lost \cup Due("pdu", r) \subseteq sync'.lost
      /\ keys \subseteq sync'.got \/ Due("key", r) \subseteq sync'.lost
  <2> HIDE DEF pdus, keys
  <2>1. CASE sync' = [sync EXCEPT !.pc = "rooms", !.got = @ \ pdus,
                        !.lost = @ \cup Due("pdu", r) \cup Due("key", r)]
    BY <1>0, <1>1, <2>1 DEF BusySync
  <2>2. CASE sync' = [sync EXCEPT !.pc = "rooms", !.got = (@ \ pdus) \cup keys,
                        !.lost = @ \cup Due("pdu", r)]
    BY <1>0, <1>1, <2>2 DEF BusySync
  <2> QED
    BY <1>0, <2>1, <2>2
<1>3. TypeOK'
  BY <1>0, <1>2 DEF TypeOK, SyncState
<1>4. NumberInv' /\ LocalInv' /\ LockInv' /\ CacheInv'
  BY <1>0, <1>2 DEF NumberInv, LocalInv, LockInv, CacheInv, Syncing, Appending
<1>5. AppendInv'
  BY <1>0, <1>2 DEF AppendInv, Appending, Passed, Syncing
<1>6. AnswerInv'
  <2> SUFFICES ASSUME NEW x \in rows, x.tree = "pdu", ReadRoom(x.prefix)',
                      sync.since < x.count, x.count =< sync.next
               PROVE  x \in sync'.got \cup sync'.gap \cup sync'.lost
    BY <1>0, <1>2 DEF AnswerInv
  <2>1. CASE x.prefix = r
    <3>1. x \in Due("pdu", r)
      BY <2>1 DEF Due, After
    <3> QED
      BY <1>2, <3>1
  <2>2. CASE x.prefix # r
    <3>1. ReadRoom(x.prefix)
      BY <1>0, <1>2, <2>2 DEF ReadRoom, Passed, Syncing
    <3>2. x \in sync.got \cup sync.gap \cup sync.lost
      BY <3>1 DEF AnswerInv
    <3> QED
      BY <1>2, <2>2, <3>2
  <2> QED
    BY <2>1, <2>2
<1>7. RaceInv'
  <2>1. \A q : ReadKeys(q)' => ReadKeys(q) \/ q = r
    BY <1>0, <1>2 DEF ReadKeys, Passed, Syncing
  <2>2. ~ReadToDevice'
    BY <1>2 DEF ReadToDevice
  <2>3. ASSUME NEW x \in rows, x.tree = "key", ReadKeys(x.prefix)',
               sync.since < x.count, x.count =< sync.next
        PROVE  x \in sync'.got \cup sync'.lost \cup raced
    <3>1. CASE x.prefix = r
      <4>1. x \in keys /\ x \in Due("key", r)
        BY <2>3, <3>1 DEF Due, After
      <4> QED
        BY <1>2, <4>1
    <3>2. CASE x.prefix # r
      <4>1. x \in sync.got \cup sync.lost \cup raced
        BY <2>1, <2>3, <3>2 DEF RaceInv
      <4> QED
        BY <1>2, <2>3, <4>1
    <3> QED
      BY <3>1, <3>2
  <2> QED
    BY <1>0, <1>2, <2>2, <2>3 DEF RaceInv, Announcing, Syncing
<1>8. NoPduSkipped' /\ OnlyRacingRowsAreSkipped'
  BY <1>0 DEF NoPduSkipped, OnlyRacingRowsAreSkipped
<1> QED
  BY <1>3, <1>4, <1>5, <1>6, <1>7, <1>8

\* What is removed is behind the token.
LEMMA RemoveStep ==
  ASSUME IInv, SyncRemove
  PROVE  IInv'
<1> USE DEF IInv
<1>0. /\ UNCHANGED <<counter, cache, lock, writer, token, received, gaps, omitted, raced, loadErrors, crashes>>
      /\ sync.pc = "rooms" /\ sync \in BusySync /\ sync.todo = {} /\ sync.since = token
      /\ rows' \subseteq rows
      /\ rows' \cup removed' = rows \cup removed
      /\ \A x \in removed' \ removed : x.count =< sync.since
      /\ sync' = [sync EXCEPT !.pc = "get"]
  BY Locals DEF SyncRemove, Syncing, NumberInv
<1>1. /\ sync' \in BusySync /\ sync'.pc = "get" /\ sync'.since = sync.since
      /\ sync'.next = sync.next /\ sync'.todo = sync.todo
      /\ sync'.got = sync.got /\ sync'.gap = sync.gap /\ sync'.lost = sync.lost
  BY <1>0 DEF BusySync
<1>2. TypeOK'
  BY <1>0, <1>1 DEF TypeOK, SyncState
<1>3. NumberInv' /\ LocalInv' /\ LockInv' /\ CacheInv'
  BY <1>0, <1>1 DEF NumberInv, LocalInv, LockInv, CacheInv, Syncing, Appending
<1>4. AppendInv' /\ AnswerInv'
  BY <1>0, <1>1 DEF AppendInv, AnswerInv, Appending, ReadRoom, Passed, Syncing
<1>5. RaceInv'
  BY <1>0, <1>1 DEF RaceInv, Announcing, ReadKeys, ReadToDevice, Passed, Syncing
<1>6. NoPduSkipped' /\ OnlyRacingRowsAreSkipped'
  BY <1>0 DEF NoPduSkipped, OnlyRacingRowsAreSkipped
<1> QED
  BY <1>2, <1>3, <1>4, <1>5, <1>6

\* The to-device events are read.
LEMMA GetStep ==
  ASSUME IInv, SyncGet
  PROVE  IInv'
<1> USE DEF IInv
<1>0. /\ UNCHANGED <<counter, rows, cache, lock, writer, token, received, gaps, omitted, raced, removed, loadErrors, crashes>>
      /\ sync.pc = "get" /\ sync \in BusySync /\ sync.todo = {}
      /\ sync' = [sync EXCEPT !.pc = "done", !.got = @ \cup After("todevice", Own, 0)]
  BY Locals DEF SyncGet, Syncing, LocalInv
<1>1. After("todevice", Own, 0) \subseteq Row
  BY DEF After, TypeOK
<1>2. /\ sync' \in BusySync /\ sync'.pc = "done" /\ sync'.since = sync.since
      /\ sync'.next = sync.next /\ sync'.todo = sync.todo
      /\ sync'.gap = sync.gap /\ sync'.lost = sync.lost
      /\ sync'.got = sync.got \cup After("todevice", Own, 0)
  BY <1>0, <1>1 DEF BusySync
<1>3. \A x \in rows : x.tree = "todevice" => x \in After("todevice", Own, 0)
  BY DEF After, LocalInv, NumberInv
<1>4. TypeOK'
  BY <1>0, <1>2 DEF TypeOK, SyncState
<1>5. NumberInv' /\ LocalInv' /\ LockInv' /\ CacheInv'
  BY <1>0, <1>2 DEF NumberInv, LocalInv, LockInv, CacheInv, Syncing, Appending
<1>6. AppendInv' /\ AnswerInv'
  BY <1>0, <1>2 DEF AppendInv, AnswerInv, Appending, ReadRoom, Passed, Syncing
<1>7. RaceInv'
  <2>1. \A q : ReadKeys(q)' => ReadKeys(q)
    BY <1>0, <1>2 DEF ReadKeys, Passed, Syncing
  <2> QED
    BY <1>0, <1>2, <1>3, <2>1 DEF RaceInv, Announcing, Syncing
<1>8. NoPduSkipped' /\ OnlyRacingRowsAreSkipped'
  BY <1>0 DEF NoPduSkipped, OnlyRacingRowsAreSkipped
<1> QED
  BY <1>4, <1>5, <1>6, <1>7, <1>8

\* The answer is complete while the sync hangs.
LEMMA HangSteps ==
  ASSUME IInv, SyncHang \/ SyncUnhang
  PROVE  IInv'
<1> USE DEF IInv
<1>0. /\ UNCHANGED <<counter, rows, cache, lock, writer, token, received, gaps, omitted, raced, removed, loadErrors, crashes>>
      /\ sync.pc \in {"done", "hanging"} /\ sync \in BusySync
      /\ \/ sync' = [sync EXCEPT !.pc = "hanging"]
         \/ sync' = [sync EXCEPT !.pc = "replying"]
  BY Locals DEF SyncHang, SyncUnhang, Syncing
<1>1. /\ sync' \in BusySync /\ sync'.pc \in {"hanging", "replying"} /\ sync'.since = sync.since
      /\ sync'.next = sync.next /\ sync'.todo = sync.todo
      /\ sync'.got = sync.got /\ sync'.gap = sync.gap /\ sync'.lost = sync.lost
  BY <1>0 DEF BusySync
<1>2. TypeOK'
  BY <1>0, <1>1 DEF TypeOK, SyncState
<1>3. NumberInv' /\ LocalInv' /\ LockInv' /\ CacheInv'
  BY <1>0, <1>1 DEF NumberInv, LocalInv, LockInv, CacheInv, Syncing, Appending
<1>4. AppendInv' /\ AnswerInv'
  BY <1>0, <1>1 DEF AppendInv, AnswerInv, Appending, ReadRoom, Passed, Syncing
<1>5. RaceInv'
  BY <1>0, <1>1 DEF RaceInv, Announcing, ReadKeys, ReadToDevice, Passed, Syncing
<1>6. NoPduSkipped' /\ OnlyRacingRowsAreSkipped'
  BY <1>0 DEF NoPduSkipped, OnlyRacingRowsAreSkipped
<1> QED
  BY <1>2, <1>3, <1>4, <1>5, <1>6

\* The token moves to next_batch: what lies between was in the answer.
LEMMA ReplyStep ==
  ASSUME IInv, SyncReply
  PROVE  IInv'
<1> USE DEF IInv
<1>0. /\ UNCHANGED <<counter, rows, cache, lock, writer, raced, removed, loadErrors, crashes>>
      /\ sync.pc \in {"done", "replying"} /\ sync \in BusySync /\ sync.todo = {}
      /\ token' = sync.next /\ received' = received \cup sync.got
      /\ gaps' = gaps \cup sync.gap /\ omitted' = omitted \cup sync.lost
      /\ sync' = NoRequest
      /\ sync.since = token /\ token =< sync.next /\ sync.next =< counter
  BY Locals DEF SyncReply, Syncing, LocalInv, NumberInv
<1>1. NumbersOK
  BY Numbers
<1>2. Syncing /\ ~Syncing' /\ \A q : Passed(q) /\ ReadRoom(q) /\ ReadKeys(q) /\ ReadToDevice
  BY <1>0 DEF Syncing, Passed, ReadRoom, ReadKeys, ReadToDevice, NoRequest
<1>3. TypeOK'
  BY <1>0 DEF TypeOK, SyncState, BusySync
<1>4. NumberInv'
  BY <1>0, <1>1, <1>2 DEF NumberInv, NumbersOK
<1>5. LocalInv' /\ LockInv' /\ CacheInv'
  BY <1>0 DEF LocalInv, LockInv, CacheInv, Appending, NoRequest
<1>6. AppendInv' /\ AnswerInv'
  BY <1>0, <1>2 DEF AppendInv, AnswerInv, Appending, ReadRoom, Passed
<1>7. RaceInv'
  <2>1. ~ReadToDevice' /\ \A q : ~ReadKeys(q)'
    BY <1>0 DEF ReadToDevice, ReadKeys, Passed, Syncing, NoRequest
  <2> QED
    BY <1>0, <1>2, <2>1 DEF RaceInv, Announcing
<1>8. NoPduSkipped'
  BY <1>0, <1>1, <1>2 DEF NoPduSkipped, AnswerInv, NumbersOK
<1>9. OnlyRacingRowsAreSkipped'
  <2> SUFFICES ASSUME NEW x \in rows \cup removed, x.tree # "pdu", x.count =< sync.next
               PROVE  x \in received' \cup raced \cup omitted'
    BY <1>0 DEF OnlyRacingRowsAreSkipped
  <2>1. CASE x.count =< token
    BY <1>0, <2>1 DEF OnlyRacingRowsAreSkipped
  <2>2. CASE x.count > token
    <3>1. x \in rows /\ x.tree \in {"key", "todevice"}
      BY <1>1, <2>2 DEF NumberInv, NumbersOK, TypeOK, Row
    <3> QED
      BY <1>0, <1>1, <1>2, <2>2, <3>1 DEF RaceInv, NumbersOK
  <2> QED
    BY <1>1, <2>1, <2>2 DEF NumbersOK
<1> QED
  BY <1>3, <1>4, <1>5, <1>6, <1>7, <1>8, <1>9

\* A sync that ends without an answer, and a restart, leave the token alone.
LEMMA StopSteps ==
  ASSUME IInv, SyncAbandon \/ Crash
  PROVE  IInv'
<1> USE DEF IInv
<1>0. /\ UNCHANGED <<counter, rows, token, received, gaps, omitted, raced, removed, loadErrors>>
      /\ sync' = NoRequest
      /\ ~Syncing'
  BY DEF SyncAbandon, Crash, Syncing, NoRequest
<1>1. /\ cache' \in [Rooms -> Nat] /\ lock' \in [Rooms -> Writers \cup {NoOne}]
      /\ writer' \in [Writers -> WriterState] /\ crashes' \in Nat
      /\ \/ UNCHANGED <<cache, lock, writer>>
         \/ /\ \A r \in Rooms : cache'[r] = 0
            /\ \A w \in Writers : writer'[w].pc = "idle"
  BY DEF SyncAbandon, Crash, TypeOK, WriterState, NoRequest
<1>2. TypeOK'
  BY <1>0, <1>1 DEF TypeOK, SyncState
<1>3. NumberInv' /\ LocalInv' /\ LockInv'
  BY <1>0, <1>1 DEF NumberInv, LocalInv, LockInv, Appending, NoRequest
<1>4. CacheInv'
  BY <1>0, <1>1 DEF CacheInv, LocalInv, Appending
<1>5. AppendInv' /\ AnswerInv'
  BY <1>0, <1>1 DEF AppendInv, AnswerInv, Appending, ReadRoom, Passed
<1>6. RaceInv'
  <2>1. ~ReadToDevice' /\ \A q : ~ReadKeys(q)'
    BY <1>0 DEF ReadToDevice, ReadKeys, Passed, Syncing, NoRequest
  <2> QED
    BY <1>0, <1>1, <2>1 DEF RaceInv, Announcing
<1>7. NoPduSkipped' /\ OnlyRacingRowsAreSkipped'
  BY <1>0 DEF NoPduSkipped, OnlyRacingRowsAreSkipped
<1> QED
  BY <1>2, <1>3, <1>4, <1>5, <1>6, <1>7

----------------------------------------------------------------------------
(* The theorems.                                                           *)

\* Every step of the writers, the sync and the server keeps the invariant.
LEMMA NextIInv == IInv /\ [Next]_vars => IInv'
<1> SUFFICES ASSUME IInv, [Next]_vars
             PROVE  IInv'
  OBVIOUS
<1>1. ASSUME NEW w \in Writers, Write(w)
      PROVE  IInv'
  <2>1. ASSUME NEW p \in Prefixes, InsertRow(w, p)
        PROVE  IInv'
    BY <2>1, InsertPdu, InsertOther
  <2> QED
    BY <1>1, <2>1, LockSteps, CountSteps, CacheStep, EndSteps, AnnounceSteps, WakeStep DEF Write
<1>2. CASE SyncStep
  BY <1>2, StartStep, OwnKeysStep, LockRoomStep, TimelineStep, RoomKeysStep, RoomFailsStep, RemoveStep,
     GetStep, HangSteps, ReplyStep, StopSteps DEF SyncStep
<1>3. CASE Crash
  BY <1>3, StopSteps
<1>4. CASE UNCHANGED vars
  BY <1>4 DEF vars, IInv, TypeOK, NumberInv, LocalInv, LockInv, CacheInv, AppendInv, AnswerInv,
              RaceInv, NoPduSkipped, OnlyRacingRowsAreSkipped, Appending, Announcing, Syncing,
              Passed, ReadRoom, ReadKeys, ReadToDevice
<1> QED
  BY <1>1, <1>2, <1>3, <1>4 DEF Next

\* The inductive invariant holds in every reachable state.
THEOREM Invariance == Spec => []IInv
  BY InitIInv, NextIInv, PTL DEF Spec

\* The database, the requests and the client keep their types.
THEOREM TypeCorrect == Spec => []TypeOK
<1>1. IInv => TypeOK
  BY DEF IInv
<1> QED
  BY <1>1, Invariance, PTL

\* No sync passes an event of a room: whatever the order of append_pdu and sync,
\* with answers lost and restarts, the client gets it or a gap to page it in from, but for a room that could not be loaded.
THEOREM EventsAreNotSkipped == Spec => []NoPduSkipped
<1>1. IInv => NoPduSkipped
  BY DEF IInv
<1> QED
  BY <1>1, Invariance, PTL

\* Device list updates and to-device events are lost to a race of their writer
\* with the start of a sync, or with a room that could not be loaded, only.
THEOREM OnlyRacesSkip == Spec => []OnlyRacingRowsAreSkipped
<1>1. IInv => OnlyRacingRowsAreSkipped
  BY DEF IInv
<1> QED
  BY <1>1, Invariance, PTL

\* load_timeline may trust lasttimelinecount_cache once it has had the lock.
THEOREM CacheIsRight == Spec => []CacheIsLatest
<1>1. IInv => CacheIsLatest
  BY NamesAssumption DEF IInv, CacheIsLatest, CacheInv, LockInv, After
<1> QED
  BY <1>1, Invariance, PTL

=============================================================================
