--------------------------- MODULE NewRoomsProofs ---------------------------
(***************************************************************************)
(* The upgrade of a room, for any number of requests, rooms, aliases and   *)
(* crashes.                                                                *)
(*                                                                         *)
(* That the replacement gets what the old room has depends on everything   *)
(* else that writes to a room, so the invariant is about all requests.     *)
(* RequestInv: whoever has an event to append holds the lock of its room   *)
(* or will ask for it first, and gives up a lock only when no event is     *)
(* left.  UpgradeInv: how far an upgrade has come, which locks it has by   *)
(* then, and which types it has copied; the others are not in the new room *)
(* yet.  WorldInv: a room that was never begun has no lock and no state.   *)
(* No other request can then touch either of the two rooms (Frame).        *)
(***************************************************************************)
EXTENDS NewRooms, FiniteSetTheorems, SequenceTheorems, TLAPS

-----------------------------------------------------------------------------
(* Lists of steps. *)

\* A list of steps is a sequence, over its own elements.
IsSeq(s) == s \in Seq({s[i] : i \in DOMAIN s})

\* A sequence over any set is one over its own elements.
LEMMA SeqIsSeq ==
  ASSUME NEW S, NEW s \in Seq(S)
  PROVE  IsSeq(s) /\ Len(s) \in Nat /\ DOMAIN s = 1..Len(s)
<1>1. Len(s) \in Nat /\ DOMAIN s = 1..Len(s)
  OBVIOUS
<1>2. s = [i \in 1..Len(s) |-> s[i]]
  OBVIOUS
<1>3. \A i \in 1..Len(s) : s[i] \in {s[j] : j \in DOMAIN s}
  BY <1>1
<1>4. [i \in 1..Len(s) |-> s[i]] \in Seq({s[j] : j \in DOMAIN s})
  BY <1>1, <1>3, IsASeq
<1> QED
  BY <1>1, <1>2, <1>4 DEF IsSeq

\* Its length and domain.
LEMMA SeqLen ==
  ASSUME NEW s, IsSeq(s)
  PROVE  Len(s) \in Nat /\ DOMAIN s = 1..Len(s) /\ (s = <<>> <=> Len(s) = 0)
  BY DEF IsSeq

\* What is left without the first step.
LEMMA SeqTail ==
  ASSUME NEW s, IsSeq(s), s # <<>>
  PROVE  /\ IsSeq(Tail(s)) /\ Len(s) >= 1 /\ Len(Tail(s)) = Len(s) - 1 /\ Head(s) = s[1]
         /\ \A i \in 1..Len(s) - 1 : Tail(s)[i] = s[i + 1]
<1> DEFINE S == {s[i] : i \in DOMAIN s}
<1>1. s \in Seq(S)
  BY DEF IsSeq
<1> HIDE DEF S
<1>2. Tail(s) \in Seq(S) /\ Len(Tail(s)) = Len(s) - 1 /\ Len(s) >= 1 /\ Head(s) = s[1]
  BY <1>1
<1>3. \A i \in 1..Len(Tail(s)) : Tail(s)[i] = s[i + 1]
  BY <1>1, HeadTailProperties
<1> QED
  BY <1>2, <1>3, SeqIsSeq

\* Two lists of steps, one after the other.
LEMMA SeqConcat ==
  ASSUME NEW s, NEW t, IsSeq(s), IsSeq(t)
  PROVE  /\ IsSeq(s \o t) /\ Len(s \o t) = Len(s) + Len(t)
         /\ \A i \in 1..Len(s) + Len(t) :
              (s \o t)[i] = IF i <= Len(s) THEN s[i] ELSE t[i - Len(s)]
<1> DEFINE S == {s[i] : i \in DOMAIN s} \cup {t[i] : i \in DOMAIN t}
<1>1. s \in Seq(S) /\ t \in Seq(S)
  BY SeqMonotonic DEF IsSeq
<1> HIDE DEF S
<1>2. /\ s \o t \in Seq(S) /\ Len(s \o t) = Len(s) + Len(t)
      /\ \A i \in 1..Len(s) + Len(t) :
           (s \o t)[i] = IF i <= Len(s) THEN s[i] ELSE t[i - Len(s)]
  BY <1>1, ConcatProperties
<1> QED
  BY <1>2, SeqIsSeq

\* The list of a request that has ended.
LEMMA EmptyIsSeq == IsSeq(<<>>) /\ Len(<<>>) = 0
<1>1. <<>> \in Seq({})
  OBVIOUS
<1> QED
  BY <1>1, SeqIsSeq

\* A list of one step.
LEMMA SingleIsSeq ==
  ASSUME NEW a
  PROVE  IsSeq(<<a>>) /\ Len(<<a>>) = 1 /\ <<a>>[1] = a /\ Head(<<a>>) = a
<1>1. <<a>> \in Seq({a}) /\ Len(<<a>>) = 1 /\ <<a>>[1] = a /\ Head(<<a>>) = a
  OBVIOUS
<1>2. IsSeq(<<a>>)
  BY <1>1, SeqIsSeq, Zenon
<1> QED
  BY <1>1, <1>2, Zenon

-----------------------------------------------------------------------------
(* The steps of an upgrade. *)

\* The steps that only the holder of a room's lock may take, and their room.
NeedsLock(step) == step[1] \in {"build", "transfer", "close", "unlock"}
RoomOf(step) == IF step[1] = "transfer" THEN step[3] ELSE step[2]

\* A step in a room is one in a room that was begun.
StepOK(step, begun) ==
  /\ step[1] \in {"lock", "invite"} \/ NeedsLock(step) => RoomOf(step) \in begun
  /\ step[1] = "lock" => step = <<"lock", step[2]>>
  /\ step[1] = "build" => step[3] \in Types
  /\ step[1] = "transfer" => step[4] \in Types

\* Whoever has such a step before it has the lock, or will ask for it first.
Covered(q, s, holder) ==
  \A i \in 1..Len(s) : NeedsLock(s[i]) =>
    \/ holder[RoomOf(s[i])] = q
    \/ \E j \in 1..i - 1 : s[j] = <<"lock", RoomOf(s[i])>>

\* A lock is given up after everything that needs one.
UnlocksLast(s) ==
  \A i, j \in 1..Len(s) : i < j /\ s[i][1] = "unlock" => ~NeedsLock(s[j])

RequestOK(q, s, holder, begun) ==
  /\ IsSeq(s)
  /\ \A i \in 1..Len(s) : StepOK(s[i], begun)
  /\ Covered(q, s, holder)
  /\ UnlocksLast(s)

\* How far an upgrade has come: k is the step it takes next.
Before(q, s, k, old, new, holder, content) ==
  /\ s = SubSeq(UpgradeSteps(old, new), k, 10)
  /\ k > 1 => holder[old] = q
  /\ k > 3 => holder[new] = q
  /\ k > 4 => \A i \in 1..3 : content[new][Transferable[i]] =
                IF k > 5 + i THEN content[old][Transferable[i]] ELSE None

\* All is copied, and some aliases are left to move.
Closing(q, s, old, new, holder, content) ==
  /\ s # <<>> /\ s[Len(s)] = <<"close", old>>
  /\ \A i \in 1..Len(s) - 1 : s[i][1] \in {"alias", "row"}
  /\ holder[old] = q /\ holder[new] = q
  /\ \A i \in 1..3 : content[new][Transferable[i]] = content[old][Transferable[i]]

UpgradeOK(q, u, s, holder, begun, content) ==
  u # <<>> =>
    \E old, new \in begun :
      /\ u = <<old, new>> /\ old # new
      /\ \/ \E k \in 1..9 : Before(q, s, k, old, new, holder, content)
         \/ Closing(q, s, old, new, holder, content)

\* The rooms: one that is not created has no state, and one that was never begun
\* no lock.
WorldInv ==
  /\ short \subseteq Rooms
  /\ state = [r \in Rooms |-> [ty \in Types |-> state[r][ty]]]
  /\ \A r \in Rooms : ~Exists(r) => \A ty \in Types : state[r][ty] = None
  /\ lock \in [Rooms -> Requests \cup {None}]
  /\ \A r \in Rooms : lock[r] # None => r \in short
  /\ IsFiniteSet(aliasRows)
  /\ todo = [q \in Requests |-> todo[q]]
  /\ upgrade = [q \in Requests |-> upgrade[q]]

RequestInv(q) == RequestOK(q, todo[q], lock, short)
UpgradeInv(q) == UpgradeOK(q, upgrade[q], todo[q], lock, short, state)

IInv == WorldInv /\ \A q \in Requests : RequestInv(q) /\ UpgradeInv(q)

-----------------------------------------------------------------------------
(* The rest of a request. *)

\* Nothing is left to do: nothing can go wrong.
LEMMA EmptyOK ==
  ASSUME NEW q, NEW holder, NEW begun
  PROVE  RequestOK(q, <<>>, holder, begun)
<1>1. IsSeq(<<>>) /\ 1..Len(<<>>) = {}
  BY EmptyIsSeq
<1> QED
  BY <1>1, Zenon DEF RequestOK, Covered, UnlocksLast

\* What is about p stays true while p keeps its locks, whoever begins a room.
LEMMA OtherOK ==
  ASSUME NEW p, NEW s, NEW l, NEW l2, NEW b, NEW b2, RequestOK(p, s, l, b), b \subseteq b2,
         \A r \in b : l[r] = p => l2[r] = p
  PROVE  RequestOK(p, s, l2, b2)
<1>1. \A i \in 1..Len(s) : StepOK(s[i], b2)
  BY DEF RequestOK, StepOK
<1>2. Covered(p, s, l2)
  BY DEF RequestOK, StepOK, Covered
<1> QED
  BY <1>1, <1>2 DEF RequestOK

\* The first step is done; if it was a lock, it is held now, and if it gave one up
\* no other lock was.
LEMMA RestOK ==
  ASSUME NEW q, NEW s, NEW l, NEW l2, NEW b, RequestOK(q, s, l, b), s # <<>>,
         Head(s)[1] # "unlock" => \A r \in b : l[r] = q => l2[r] = q,
         Head(s)[1] = "lock" => l2[Head(s)[2]] = q
  PROVE  RequestOK(q, Tail(s), l2, b)
<1> DEFINE t == Tail(s)
<1>1. /\ IsSeq(s) /\ IsSeq(t) /\ Len(s) >= 1 /\ Len(t) = Len(s) - 1 /\ Head(s) = s[1]
      /\ \A i \in 1..Len(s) - 1 : t[i] = s[i + 1]
  BY SeqTail DEF RequestOK
<1> HIDE DEF t
<1>2. Len(s) \in Nat /\ Len(t) \in Nat
  BY <1>1, SeqLen
<1>3. \A i \in 1..Len(t) : i + 1 \in 1..Len(s) /\ t[i] = s[i + 1]
  BY <1>1, <1>2
<1>4. \A i \in 1..Len(t) : StepOK(t[i], b)
  BY <1>3 DEF RequestOK
<1>5. UnlocksLast(t)
  <2> SUFFICES ASSUME NEW i \in 1..Len(t), NEW j \in 1..Len(t), i < j, t[i][1] = "unlock"
               PROVE  ~NeedsLock(t[j])
    BY DEF UnlocksLast
  <2>1. i + 1 < j + 1
    BY <1>2
  <2> QED
    BY <1>3, <2>1 DEF RequestOK, UnlocksLast
<1>6. Covered(q, t, l2)
  <2> SUFFICES ASSUME NEW i \in 1..Len(t), NeedsLock(t[i])
               PROVE  \/ l2[RoomOf(t[i])] = q
                      \/ \E j \in 1..i - 1 : t[j] = <<"lock", RoomOf(t[i])>>
    BY DEF Covered
  <2> DEFINE r == RoomOf(t[i])
  <2>1. i + 1 \in 1..Len(s) /\ t[i] = s[i + 1] /\ 1 \in 1..Len(s) /\ 1 < i + 1
    BY <1>1, <1>2, <1>3
  <2>2. s[1][1] # "unlock"
    BY <2>1 DEF RequestOK, UnlocksLast
  <2>3. r \in b
    BY <1>4 DEF StepOK
  <2>4. l[r] = q \/ \E j \in 1..(i + 1) - 1 : s[j] = <<"lock", r>>
    BY <2>1 DEF RequestOK, Covered
  <2>5. CASE l[r] = q
    BY <2>2, <2>3, <2>5, <1>1
  <2>6. ASSUME NEW j \in 1..(i + 1) - 1, s[j] = <<"lock", r>>
        PROVE  l2[r] = q \/ \E m \in 1..i - 1 : t[m] = <<"lock", r>>
    <3>1. CASE j = 1
      <4>1. Head(s) = <<"lock", r>>
        BY <1>1, <2>6, <3>1
      <4>2. Head(s)[1] = "lock" /\ Head(s)[2] = r
        BY <4>1
      <4> QED
        BY <4>2
    <3>2. CASE j # 1
      <4>1. j - 1 \in 1..i - 1 /\ j - 1 \in 1..Len(t) /\ (j - 1) + 1 = j
        BY <1>2, <3>2
      <4>2. t[j - 1] = <<"lock", r>>
        BY <1>3, <2>6, <4>1
      <4> QED
        BY <4>1, <4>2
    <3> QED
      BY <3>1, <3>2
  <2> QED
    BY <2>4, <2>5, <2>6
<1> QED
  BY <1>1, <1>4, <1>5, <1>6 DEF RequestOK, t

\* One list after another, when the first gives up no lock or the second needs none.
LEMMA ConcatOK ==
  ASSUME NEW q, NEW m, NEW s, NEW l, NEW b, RequestOK(q, m, l, b), RequestOK(q, s, l, b),
         \/ \A i \in 1..Len(m) : m[i][1] # "unlock"
         \/ \A i \in 1..Len(s) : ~NeedsLock(s[i])
  PROVE  RequestOK(q, m \o s, l, b)
<1> DEFINE t == m \o s
<1>1. /\ IsSeq(m) /\ IsSeq(s) /\ IsSeq(t) /\ Len(t) = Len(m) + Len(s)
      /\ \A i \in 1..Len(m) + Len(s) : t[i] = IF i <= Len(m) THEN m[i] ELSE s[i - Len(m)]
  BY SeqConcat DEF RequestOK
<1> HIDE DEF t
<1>2. Len(m) \in Nat /\ Len(s) \in Nat /\ Len(t) \in Nat
  BY <1>1, SeqLen
<1>3. \A i \in 1..Len(t) : \/ i \in 1..Len(m) /\ t[i] = m[i]
                           \/ i - Len(m) \in 1..Len(s) /\ t[i] = s[i - Len(m)] /\ i > Len(m)
  BY <1>1, <1>2
<1>4. \A i \in 1..Len(t) : StepOK(t[i], b)
  BY <1>3 DEF RequestOK
<1>5. UnlocksLast(t)
  <2> SUFFICES ASSUME NEW i \in 1..Len(t), NEW j \in 1..Len(t), i < j, t[i][1] = "unlock", NeedsLock(t[j])
               PROVE  FALSE
    BY DEF UnlocksLast
  <2>1. CASE i \in 1..Len(m) /\ t[i] = m[i] /\ j \in 1..Len(m) /\ t[j] = m[j]
    BY <2>1 DEF RequestOK, UnlocksLast
  <2>2. CASE /\ i \in 1..Len(m) /\ t[i] = m[i]
             /\ j - Len(m) \in 1..Len(s) /\ t[j] = s[j - Len(m)]
    BY <2>2
  <2>3. CASE i > Len(m) /\ i - Len(m) \in 1..Len(s) /\ t[i] = s[i - Len(m)]
    <3>1. j \notin 1..Len(m) /\ i - Len(m) < j - Len(m)
      BY <1>2, <2>3
    <3>2. j - Len(m) \in 1..Len(s) /\ t[j] = s[j - Len(m)]
      BY <1>3, <3>1
    <3> QED
      BY <2>3, <3>1, <3>2 DEF RequestOK, UnlocksLast
  <2> QED
    BY <1>3, <2>1, <2>2, <2>3
<1>6. Covered(q, t, l)
  <2> SUFFICES ASSUME NEW i \in 1..Len(t), NeedsLock(t[i]), l[RoomOf(t[i])] # q
               PROVE  \E j \in 1..i - 1 : t[j] = <<"lock", RoomOf(t[i])>>
    BY DEF Covered
  <2> DEFINE r == RoomOf(t[i])
             k == i - Len(m)
  <2>1. CASE i \in 1..Len(m) /\ t[i] = m[i]
    <3>1. PICK j \in 1..i - 1 : m[j] = <<"lock", r>>
      BY <2>1 DEF RequestOK, Covered
    <3>2. j \in 1..Len(m) + Len(s) /\ j <= Len(m)
      BY <1>1, <1>2, <2>1
    <3>3. t[j] = m[j]
      BY <1>1, <3>2
    <3> QED
      BY <3>1, <3>3
  <2>2. CASE k \in 1..Len(s) /\ t[i] = s[k]
    <3>1. PICK j \in 1..k - 1 : s[j] = <<"lock", r>>
      BY <2>2 DEF RequestOK, Covered
    <3>2. j + Len(m) \in 1..i - 1 /\ j + Len(m) \in 1..Len(m) + Len(s) /\ ~(j + Len(m) <= Len(m))
          /\ (j + Len(m)) - Len(m) = j
      BY <1>1, <1>2, <2>2
    <3>3. t[j + Len(m)] = s[j]
      BY <1>1, <3>2
    <3> QED
      BY <3>1, <3>2, <3>3
  <2> QED
    BY <1>3, <2>1, <2>2
<1> QED
  BY <1>1, <1>4, <1>5, <1>6 DEF RequestOK, t

\* Events in rooms whose lock is held, and steps that need no lock.
Writes(q, s, l, b) ==
  IsSeq(s) /\ \A i \in 1..Len(s) : s[i][1] = "build" /\ StepOK(s[i], b) /\ l[s[i][2]] = q
Free(s, b) ==
  IsSeq(s) /\ \A i \in 1..Len(s) : s[i][1] # "unlock" /\ ~NeedsLock(s[i]) /\ StepOK(s[i], b)

\* Events that are covered by locks may be taken as a request.
LEMMA WritesOK ==
  ASSUME NEW q, NEW s, NEW l, NEW b, Writes(q, s, l, b)
  PROVE  RequestOK(q, s, l, b) /\ \A i \in 1..Len(s) : s[i][1] # "unlock"
  BY DEF Writes, RequestOK, Covered, UnlocksLast, NeedsLock, RoomOf

\* So may steps that need no lock.
LEMMA FreeOK ==
  ASSUME NEW q, NEW s, NEW l, NEW b, Free(s, b)
  PROVE  /\ RequestOK(q, s, l, b)
         /\ \A i \in 1..Len(s) : ~NeedsLock(s[i]) /\ s[i][1] # "unlock"
  BY DEF Free, RequestOK, Covered, UnlocksLast, NeedsLock

\* Steps that are put before the rest and need no lock.
LEMMA PrefixOK ==
  ASSUME NEW q, NEW m, NEW s, NEW l, NEW b, RequestOK(q, s, l, b), IsSeq(m),
         \A i \in 1..Len(m) : m[i][1] \in {"alias", "row", "norow"}
  PROVE  RequestOK(q, m \o s, l, b)
<1>1. Free(m, b)
  BY DEF Free, NeedsLock, StepOK
<1> QED
  BY <1>1, FreeOK, ConcatOK

\* What others do to a room that q has locked is nothing.
LEMMA UpgradeOther ==
  ASSUME NEW q, NEW u, NEW s, NEW l, NEW l2, NEW b, NEW b2, NEW c, NEW c2,
         UpgradeOK(q, u, s, l, b, c), b \subseteq b2,
         \A r \in b : l[r] = q => l2[r] = q /\ c2[r] = c[r]
  PROVE  UpgradeOK(q, u, s, l2, b2, c2)
<1> SUFFICES ASSUME u # <<>> PROVE UpgradeOK(q, u, s, l2, b2, c2)
  BY DEF UpgradeOK
<1>1. PICK old \in b, new \in b :
        /\ u = <<old, new>> /\ old # new
        /\ \/ \E k \in 1..9 : Before(q, s, k, old, new, l, c)
           \/ Closing(q, s, old, new, l, c)
  BY DEF UpgradeOK
<1>2. ASSUME NEW k \in 1..9, Before(q, s, k, old, new, l, c)
      PROVE  Before(q, s, k, old, new, l2, c2)
  <2>1. k > 4 => k > 3 /\ k > 1
    OBVIOUS
  <2> QED
    BY <1>2, <2>1 DEF Before
<1>3. Closing(q, s, old, new, l, c) => Closing(q, s, old, new, l2, c2)
  BY DEF Closing
<1> QED
  BY <1>1, <1>2, <1>3 DEF UpgradeOK

\* A step of q keeps the invariant if it keeps what is about q and the rooms, and
\* touches no room that another one has locked.
LEMMA Frame ==
  ASSUME IInv, NEW q \in Requests, NEW s, NEW u,
         todo' = [todo EXCEPT ![q] = s], upgrade' = [upgrade EXCEPT ![q] = u], WorldInv',
         short \subseteq short',
         \A r \in Rooms : lock[r] \notin {q, None} => lock'[r] = lock[r] /\ state'[r] = state[r],
         RequestOK(q, s, lock', short'), UpgradeOK(q, u, s, lock', short', state')
  PROVE  IInv'
<1>1. /\ todo'[q] = s /\ upgrade'[q] = u
      /\ \A p \in Requests \ {q} : todo'[p] = todo[p] /\ upgrade'[p] = upgrade[p]
  BY DEF IInv, WorldInv
<1>2. RequestInv(q)' /\ UpgradeInv(q)'
  BY <1>1 DEF RequestInv, UpgradeInv
<1>3. ASSUME NEW p \in Requests \ {q}
      PROVE  RequestInv(p)' /\ UpgradeInv(p)'
  <2>1. \A r \in short : lock[r] = p => lock'[r] = p /\ state'[r] = state[r]
    BY NewRoomsAssumption DEF IInv, WorldInv
  <2>2. RequestOK(p, todo[p], lock, short) /\ UpgradeOK(p, upgrade[p], todo[p], lock, short, state)
    BY DEF IInv, RequestInv, UpgradeInv
  <2>3. RequestOK(p, todo[p], lock', short')
    BY <2>1, <2>2, OtherOK
  <2>4. UpgradeOK(p, upgrade[p], todo[p], lock', short', state')
    BY <2>1, <2>2, UpgradeOther
  <2> QED
    BY <1>1, <2>3, <2>4 DEF RequestInv, UpgradeInv
<1> QED
  BY <1>2, <1>3 DEF IInv

-----------------------------------------------------------------------------
(* The steps of an upgrade. *)

\* The ten steps of upgrade_room_route, in their order.
LEMMA UpgradeList ==
  ASSUME NEW old, NEW new
  PROVE  LET U == UpgradeSteps(old, new)
         IN  /\ IsSeq(U) /\ Len(U) = 10
             /\ U[1] = <<"lock", old>> /\ U[2] = <<"build", old, "tombstone", new>>
             /\ U[3] = <<"lock", new>>
             /\ U[4] = <<"build", new, "create", old>> /\ U[5] = <<"build", new, "member", "initial">>
             /\ \A i \in 1..3 : U[5 + i] = <<"transfer", old, new, Transferable[i]>>
             /\ U[9] = <<"aliases", old, new>> /\ U[10] = <<"close", old>>
<1> DEFINE a == << <<"lock", old>>, <<"build", old, "tombstone", new>>, <<"lock", new>> >>
           b == << <<"build", new, "create", old>>, <<"build", new, "member", "initial">> >>
           c == TransferSteps(old, new)
           d == << <<"aliases", old, new>>, <<"close", old>> >>
<1>1. /\ IsSeq(a) /\ Len(a) = 3 /\ a[1] = <<"lock", old>>
      /\ a[2] = <<"build", old, "tombstone", new>> /\ a[3] = <<"lock", new>>
  <2>1. a \in Seq({<<"lock", old>>, <<"build", old, "tombstone", new>>, <<"lock", new>>})
    OBVIOUS
  <2>2. IsSeq(a)
    BY <2>1, SeqIsSeq, Zenon
  <2> QED
    BY <2>2
<1>2. /\ IsSeq(b) /\ Len(b) = 2 /\ b[1] = <<"build", new, "create", old>>
      /\ b[2] = <<"build", new, "member", "initial">>
  <2>1. b \in Seq({<<"build", new, "create", old>>, <<"build", new, "member", "initial">>})
    OBVIOUS
  <2>2. IsSeq(b)
    BY <2>1, SeqIsSeq, Zenon
  <2> QED
    BY <2>2
<1>3. /\ IsSeq(d) /\ Len(d) = 2 /\ d[1] = <<"aliases", old, new>> /\ d[2] = <<"close", old>>
  <2>1. d \in Seq({<<"aliases", old, new>>, <<"close", old>>})
    OBVIOUS
  <2>2. IsSeq(d)
    BY <2>1, SeqIsSeq, Zenon
  <2> QED
    BY <2>2
<1>4. /\ IsSeq(c) /\ Len(c) = 3 /\ \A i \in 1..3 : c[i] = <<"transfer", old, new, Transferable[i]>>
  <2>1. Len(Transferable) = 3
    BY DEF Transferable
  <2>2. c = [i \in 1..3 |-> <<"transfer", old, new, Transferable[i]>>]
    BY <2>1 DEF TransferSteps
  <2>3. c \in Seq({<<"transfer", old, new, Transferable[i]>> : i \in 1..3})
    BY <2>2, IsASeq
  <2>4. IsSeq(c)
    BY <2>3, SeqIsSeq, Zenon
  <2>5. Len(c) = 3
    BY <2>2, <2>3, SeqIsSeq
  <2> QED
    BY <2>2, <2>4, <2>5
<1>5. UpgradeSteps(old, new) = (a \o (b \o c)) \o d
  BY DEF UpgradeSteps, ReplacementSteps
<1> HIDE DEF a, b, c, d
<1> DEFINE bc == b \o c
           abc == a \o bc
           U == abc \o d
<1>6. /\ IsSeq(bc) /\ Len(bc) = 5
      /\ \A i \in 1..5 : bc[i] = IF i <= 2 THEN b[i] ELSE c[i - 2]
  <2>1. IsSeq(b) /\ Len(b) = 2 /\ IsSeq(c) /\ Len(c) = 3
    BY <1>2, <1>4
  <2>2. /\ IsSeq(b \o c) /\ Len(b \o c) = Len(b) + Len(c)
        /\ \A i \in 1..Len(b) + Len(c) :
             (b \o c)[i] = IF i <= Len(b) THEN b[i] ELSE c[i - Len(b)]
    BY <2>1, SeqConcat, Zenon
  <2> QED
    BY <2>1, <2>2
<1> HIDE DEF bc
<1>7. /\ IsSeq(abc) /\ Len(abc) = 8
      /\ \A i \in 1..8 : abc[i] = IF i <= 3 THEN a[i] ELSE bc[i - 3]
  <2>1. IsSeq(a) /\ Len(a) = 3 /\ IsSeq(bc) /\ Len(bc) = 5
    BY <1>1, <1>6
  <2>2. /\ IsSeq(a \o bc) /\ Len(a \o bc) = Len(a) + Len(bc)
        /\ \A i \in 1..Len(a) + Len(bc) :
             (a \o bc)[i] = IF i <= Len(a) THEN a[i] ELSE bc[i - Len(a)]
    BY <2>1, SeqConcat, Zenon
  <2> QED
    BY <2>1, <2>2
<1> HIDE DEF abc
<1>8. /\ IsSeq(U) /\ Len(U) = 10
      /\ \A i \in 1..10 : U[i] = IF i <= 8 THEN abc[i] ELSE d[i - 8]
  <2>1. IsSeq(abc) /\ Len(abc) = 8 /\ IsSeq(d) /\ Len(d) = 2
    BY <1>3, <1>7
  <2>2. /\ IsSeq(abc \o d) /\ Len(abc \o d) = Len(abc) + Len(d)
        /\ \A i \in 1..Len(abc) + Len(d) :
             (abc \o d)[i] = IF i <= Len(abc) THEN abc[i] ELSE d[i - Len(abc)]
    BY <2>1, SeqConcat, Zenon
  <2> QED
    BY <2>1, <2>2
<1> HIDE DEF U
<1>9. U[1] = a[1] /\ U[2] = a[2] /\ U[3] = a[3] /\ U[4] = b[1] /\ U[5] = b[2]
      /\ U[9] = d[1] /\ U[10] = d[2]
  BY <1>6, <1>7, <1>8
<1>10. \A i \in 1..3 : U[5 + i] = c[i]
  BY <1>6, <1>7, <1>8
<1>11. UpgradeSteps(old, new) = U
  BY <1>5 DEF U, abc, bc
<1> QED
  BY <1>1, <1>2, <1>3, <1>4, <1>8, <1>9, <1>10, <1>11

\* The step that is next, and those after it.
LEMMA UpgradeRest ==
  ASSUME NEW old, NEW new, NEW k \in 1..9
  PROVE  LET U == UpgradeSteps(old, new)
             s == SubSeq(U, k, 10)
         IN  s # <<>> /\ Head(s) = U[k] /\ Tail(s) = SubSeq(U, k + 1, 10)
<1> DEFINE U == UpgradeSteps(old, new)
           S == {U[i] : i \in DOMAIN U}
           s == SubSeq(U, k, 10)
<1>1. U \in Seq(S) /\ Len(U) = 10
  BY UpgradeList DEF IsSeq
<1> HIDE DEF U, S
<1>2. k \in Int /\ 10 \in Int /\ k <= 10 /\ 10 - k + 1 # 0
  OBVIOUS
<1>3. \A i \in k..10 : U[i] \in S
  <2>1. \A i \in k..10 : i \in 1..Len(U)
    BY <1>1
  <2> QED
    BY <1>1, <2>1, ElementOfSeq
<1>4. s # <<>>
  <2>1. Len(s) = IF k <= 10 THEN 10 - k + 1 ELSE 0
    BY <1>2, <1>3, SubSeqProperties
  <2> HIDE DEF s
  <2>2. Len(s) # 0
    BY <1>2, <2>1
  <2> QED
    BY <2>2
<1>5. k \in 1..Len(U) /\ 10 \in k..Len(U)
  BY <1>1
<1>6. Head(s) = U[k] /\ Tail(s) = SubSeq(U, k + 1, 10)
  <2> HIDE DEF s
  <2>1. \A m \in 1..Len(U) : \A n \in m..Len(U) :
          Head(SubSeq(U, m, n)) = U[m] /\ Tail(SubSeq(U, m, n)) = SubSeq(U, m + 1, n)
    BY <1>1, HeadTailOfSubSeq
  <2> QED
    BY <1>5, <2>1, Zenon DEF s
<1> QED
  BY <1>4, <1>6, Zenon DEF U

\* The step an upgrade takes next, and what it leaves.
AtStep(q, s, k, old, new, l, c) ==
  /\ Before(q, s, k, old, new, l, c)
  /\ Head(s) = UpgradeSteps(old, new)[k]
  /\ Tail(s) = SubSeq(UpgradeSteps(old, new), k + 1, 10)

\* An upgrade is at one of its first nine steps, or has only aliases left to
\* move.
LEMMA UpgradeHead ==
  ASSUME NEW q, NEW u, NEW s, NEW l, NEW b, NEW c, UpgradeOK(q, u, s, l, b, c), u # <<>>
  PROVE  \E old, new \in b :
           /\ u = <<old, new>> /\ old # new
           /\ \/ \E k \in 1..9 : AtStep(q, s, k, old, new, l, c)
              \/ Closing(q, s, old, new, l, c)
<1>1. PICK old \in b, new \in b :
        /\ u = <<old, new>> /\ old # new
        /\ \/ \E k \in 1..9 : Before(q, s, k, old, new, l, c)
           \/ Closing(q, s, old, new, l, c)
  BY DEF UpgradeOK
<1>2. ASSUME NEW k \in 1..9, Before(q, s, k, old, new, l, c)
      PROVE  AtStep(q, s, k, old, new, l, c)
  <2>1. s = SubSeq(UpgradeSteps(old, new), k, 10)
    BY <1>2 DEF Before
  <2>2. Head(s) = UpgradeSteps(old, new)[k] /\ Tail(s) = SubSeq(UpgradeSteps(old, new), k + 1, 10)
    BY <2>1, UpgradeRest, Zenon
  <2> QED
    BY <1>2, <2>2, Zenon DEF AtStep
<1> QED
  BY <1>1, <1>2

\* The kind of the next step says how far the upgrade is.
LEMMA UpgradeKinds ==
  ASSUME NEW old, NEW new, NEW k \in 1..9
  PROVE  LET h == UpgradeSteps(old, new)[k]
         IN  /\ k \in {1, 3} => h[1] = "lock"
             /\ k \in {2, 4, 5} => h[1] = "build"
             /\ k \in 6..8 => h[1] = "transfer"
             /\ k = 9 => h[1] = "aliases"
<1> DEFINE U == UpgradeSteps(old, new)
<1>1. /\ U[1] = <<"lock", old>> /\ U[2] = <<"build", old, "tombstone", new>>
      /\ U[3] = <<"lock", new>>
      /\ U[4] = <<"build", new, "create", old>> /\ U[5] = <<"build", new, "member", "initial">>
      /\ \A i \in 1..3 : U[5 + i] = <<"transfer", old, new, Transferable[i]>>
      /\ U[9] = <<"aliases", old, new>>
  BY UpgradeList
<1> HIDE DEF U
<1>2. k \in 6..8 => U[k] = <<"transfer", old, new, Transferable[k - 5]>>
  BY <1>1
<1> QED
  BY <1>1, <1>2 DEF U

\* What closes: a move of an alias, or the last event.
LEMMA ClosingHead ==
  ASSUME NEW q, NEW s, NEW old, NEW new, NEW l, NEW c, IsSeq(s), Closing(q, s, old, new, l, c)
  PROVE  \/ Head(s)[1] \in {"alias", "row"} /\ Closing(q, Tail(s), old, new, l, c)
         \/ Head(s) = <<"close", old>> /\ Tail(s) = <<>>
<1> DEFINE t == Tail(s)
<1>1. /\ s # <<>> /\ IsSeq(t) /\ Len(s) >= 1 /\ Len(t) = Len(s) - 1 /\ Head(s) = s[1]
      /\ \A i \in 1..Len(s) - 1 : t[i] = s[i + 1]
  BY SeqTail DEF Closing
<1> HIDE DEF t
<1>2. Len(s) \in Nat /\ Len(t) \in Nat /\ (t = <<>> <=> Len(t) = 0)
  BY <1>1, SeqLen
<1>3. s[Len(s)] = <<"close", old>> /\ \A i \in 1..Len(s) - 1 : s[i][1] \in {"alias", "row"}
  BY DEF Closing
<1>4. CASE Len(s) = 1
  BY <1>1, <1>2, <1>3, <1>4 DEF t
<1>5. CASE Len(s) > 1
  <2>1. Head(s)[1] \in {"alias", "row"}
    <3>1. 1 \in 1..Len(s) - 1
      BY <1>2, <1>5
    <3> QED
      BY <1>1, <1>3, <3>1
  <2>2. t # <<>> /\ t[Len(t)] = s[Len(s)]
    <3>1. Len(t) \in 1..Len(s) - 1 /\ Len(t) + 1 = Len(s) /\ Len(t) # 0
      BY <1>1, <1>2, <1>5
    <3> QED
      BY <1>1, <1>2, <3>1
  <2>3. \A i \in 1..Len(t) - 1 : t[i][1] \in {"alias", "row"}
    <3>1. \A i \in 1..Len(t) - 1 : i \in 1..Len(s) - 1 /\ i + 1 \in 1..Len(s) - 1
      BY <1>1, <1>2
    <3> QED
      BY <1>1, <1>3, <3>1
  <2>4. Closing(q, t, old, new, l, c)
    BY <1>3, <2>2, <2>3 DEF Closing
  <2> QED
    BY <2>1, <2>4 DEF t
<1> QED
  BY <1>1, <1>2, <1>4, <1>5

\* Steps of other kinds are not taken by an upgrade.
LEMMA UpgradeNone ==
  ASSUME NEW q, NEW u, NEW s, NEW l, NEW b, NEW c, UpgradeOK(q, u, s, l, b, c), IsSeq(s),
         Head(s)[1] \notin {"lock", "build", "transfer", "aliases", "alias", "row", "close"}
  PROVE  u = <<>>
<1> SUFFICES ASSUME u # <<>> PROVE FALSE
  OBVIOUS
<1>1. PICK old \in b, new \in b :
           \/ \E k \in 1..9 : AtStep(q, s, k, old, new, l, c)
           \/ Closing(q, s, old, new, l, c)
  BY UpgradeHead
<1>2. ASSUME NEW k \in 1..9, AtStep(q, s, k, old, new, l, c)
      PROVE  FALSE
  <2>1. k \in {1, 3} \/ k \in {2, 4, 5} \/ k \in 6..8 \/ k = 9
    OBVIOUS
  <2>2. Head(s)[1] \in {"lock", "build", "transfer", "aliases"}
    BY <1>2, <2>1, UpgradeKinds DEF AtStep
  <2> QED
    BY <2>2
<1>3. ~Closing(q, s, old, new, l, c)
  <2> SUFFICES ASSUME Closing(q, s, old, new, l, c) PROVE FALSE
    OBVIOUS
  <2>1. Head(s)[1] \in {"alias", "row"} \/ Head(s) = <<"close", old>>
    BY ClosingHead, Zenon
  <2>2. Head(s)[1] \in {"alias", "row", "close"}
    BY <2>1
  <2> QED
    BY <2>2
<1> QED
  BY <1>1, <1>2, <1>3

\* A step of an upgrade that is of one of these kinds is not among its last ones.
LEMMA UpgradeAt ==
  ASSUME NEW q, NEW u, NEW s, NEW l, NEW b, NEW c, UpgradeOK(q, u, s, l, b, c), u # <<>>, IsSeq(s),
         Head(s)[1] \in {"lock", "build", "transfer", "aliases"}
  PROVE  \E old, new \in b, k \in 1..9 :
           u = <<old, new>> /\ old # new /\ AtStep(q, s, k, old, new, l, c)
<1>1. PICK old \in b, new \in b :
        /\ u = <<old, new>> /\ old # new
        /\ \/ \E k \in 1..9 : AtStep(q, s, k, old, new, l, c)
           \/ Closing(q, s, old, new, l, c)
  BY UpgradeHead
<1>2. ~Closing(q, s, old, new, l, c)
  <2> SUFFICES ASSUME Closing(q, s, old, new, l, c) PROVE FALSE
    OBVIOUS
  <2>1. Head(s)[1] \in {"alias", "row"} \/ Head(s) = <<"close", old>>
    BY ClosingHead, Zenon
  <2>2. Head(s)[1] \in {"alias", "row", "close"}
    BY <2>1
  <2> QED
    BY <2>2
<1> QED
  BY <1>1, <1>2

\* One of the two locks has been taken.
LEMMA UpgradeLock ==
  ASSUME NEW q, NEW u, NEW s, NEW l, NEW l2, NEW b, NEW c, UpgradeOK(q, u, s, l, b, c), IsSeq(s),
         Head(s)[1] = "lock", l2[Head(s)[2]] = q, \A r \in b : l[r] = q => l2[r] = q
  PROVE  UpgradeOK(q, u, Tail(s), l2, b, c)
<1> SUFFICES ASSUME u # <<>> PROVE UpgradeOK(q, u, Tail(s), l2, b, c)
  BY DEF UpgradeOK
<1>1. PICK old \in b, new \in b, k \in 1..9 :
        u = <<old, new>> /\ old # new /\ AtStep(q, s, k, old, new, l, c)
  BY UpgradeAt
<1>2. k \in {1, 3}
  BY <1>1, UpgradeKinds DEF AtStep
<1>3. /\ UpgradeSteps(old, new)[1] = <<"lock", old>> /\ UpgradeSteps(old, new)[3] = <<"lock", new>>
  BY UpgradeList
<1>4. Head(s) = UpgradeSteps(old, new)[k]
  BY <1>1, Zenon DEF AtStep
<1>6. Head(s) = IF k = 1 THEN <<"lock", old>> ELSE <<"lock", new>>
  BY <1>2, <1>3, <1>4
<1>7. (k = 1 => l2[old] = q) /\ (k = 3 => l2[new] = q /\ l2[old] = q)
  <2>1. k = 3 => l[old] = q
    BY <1>1 DEF AtStep, Before
  <2> QED
    BY <1>6, <2>1
<1>8. /\ k + 1 > 1 => l2[old] = q
      /\ k + 1 > 3 => l2[new] = q
      /\ ~(k + 1 > 4)
  BY <1>2, <1>7
<1>9. Before(q, Tail(s), k + 1, old, new, l2, c)
  BY <1>1, <1>8, Zenon DEF AtStep, Before
<1>5. k + 1 \in 1..9
  BY <1>2
<1> QED
  BY <1>1, <1>5, <1>9, Zenon DEF UpgradeOK

\* The three types.
LEMMA ThreeTypes ==
  /\ Len(Transferable) = 3
  /\ \A i \in 1..3 : Transferable[i] \in Types \ {"create", "member", "tombstone", "canonical_alias"}
  /\ \A i, j \in 1..3 : Transferable[i] = Transferable[j] => i = j
<1>1. Len(Transferable) = 3 /\ Transferable[1] = "name" /\ Transferable[2] = "join_rules"
      /\ Transferable[3] = "power_levels"
  BY DEF Transferable
<1>2. \A i \in 1..3 : i = 1 \/ i = 2 \/ i = 3
  OBVIOUS
<1> HIDE DEF Transferable
<1>3. \A i \in 1..3 : Transferable[i] \in Types \ {"create", "member", "tombstone", "canonical_alias"}
  BY <1>1, <1>2 DEF Types
<1>4. \A i, j \in 1..3 : Transferable[i] = Transferable[j] => i = j
  BY <1>1, <1>2
<1> QED
  BY <1>1, <1>3, <1>4

\* The state of the rooms.
IsState(c) == c = [r \in Rooms |-> [ty \in Types |-> c[r][ty]]]

\* One type of one room is set.
SetTo(c2, c, r, ty, x) == c2 = [c EXCEPT ![r][ty] = x]

\* build_and_append_pdu changes one type of one room.
LEMMA StateSet ==
  ASSUME NEW c, IsState(c), NEW r \in Rooms, NEW ty \in Types, NEW x, NEW c2,
         SetTo(c2, c, r, ty, x)
  PROVE  /\ IsState(c2)
         /\ \A p \in Rooms, t \in Types : c2[p][t] = IF p = r /\ t = ty THEN x ELSE c[p][t]
         /\ \A p \in Rooms \ {r} : c2[p] = c[p]
<1>1. \A p \in Rooms : DOMAIN c[p] = Types /\ c[p] = [t \in Types |-> c[p][t]]
  BY DEF IsState
<1>2. DOMAIN c = Rooms
  BY DEF IsState
<1>3. \A p \in Rooms, t \in Types : c2[p][t] = IF p = r /\ t = ty THEN x ELSE c[p][t]
  BY <1>1, <1>2 DEF SetTo
<1>4. \A p \in Rooms : c2[p] = IF p = r THEN [c[r] EXCEPT ![ty] = x] ELSE c[p]
  BY <1>2 DEF SetTo
<1>5. \A p \in Rooms : c2[p] = [t \in Types |-> c2[p][t]]
  <2> TAKE p \in Rooms
  <2>1. CASE p = r
    <3>1. c2[p] = [c[r] EXCEPT ![ty] = x] /\ DOMAIN c[r] = Types
      BY <1>1, <1>4, <2>1
    <3> QED
      BY <3>1
  <2>2. CASE p # r
    BY <1>1, <1>4, <2>2
  <2> QED
    BY <2>1, <2>2
<1>6. c2 = [p \in Rooms |-> c2[p]]
  BY <1>2 DEF SetTo
<1> QED
  BY <1>3, <1>4, <1>5, <1>6 DEF IsState

\* An upgrade goes on when its next step has done what it says.
LEMMA UpgradeNext ==
  ASSUME NEW q, NEW u, NEW s, NEW k \in 1..8, NEW old, NEW new, NEW l, NEW b, NEW c, NEW c2,
         old \in b, new \in b, u = <<old, new>>, old # new, AtStep(q, s, k, old, new, l, c),
         k \notin {1, 3},
         k > 3 => \A i \in 1..3 : c2[new][Transferable[i]] =
                    IF k + 1 > 5 + i THEN c2[old][Transferable[i]] ELSE None
  PROVE  UpgradeOK(q, u, Tail(s), l, b, c2)
<1>1. (k > 1 => l[old] = q) /\ (k > 3 => l[new] = q)
  BY DEF AtStep, Before
<1>2. /\ k + 1 > 1 => l[old] = q
      /\ k + 1 > 3 => l[new] = q
      /\ k + 1 > 4 => k > 3
      /\ k + 1 \in 1..9
  BY <1>1
<1>3. Before(q, Tail(s), k + 1, old, new, l, c2)
  BY <1>2, Zenon DEF AtStep, Before
<1> QED
  BY <1>2, <1>3, Zenon DEF UpgradeOK

\* The tombstone, or one of the first two events of the new room: nothing is
\* copied yet, and a room that did not exist has nothing of its own.
LEMMA UpgradeBuild ==
  ASSUME NEW q, NEW u, NEW s, NEW l, NEW b, NEW c, NEW c2, UpgradeOK(q, u, s, l, b, c), IsSeq(s),
         Head(s)[1] = "build", b \subseteq Rooms, IsState(c), Head(s)[2] \in Rooms,
         Head(s)[3] \in Types,
         (Head(s)[3] = "create") = (c[Head(s)[2]]["create"] = None),
         c[Head(s)[2]]["create"] = None => \A ty \in Types : c[Head(s)[2]][ty] = None,
         c2 = [c EXCEPT ![Head(s)[2]][Head(s)[3]] = Head(s)[4]]
  PROVE  UpgradeOK(q, u, Tail(s), l, b, c2)
<1> SUFFICES ASSUME u # <<>> PROVE UpgradeOK(q, u, Tail(s), l, b, c2)
  BY DEF UpgradeOK
<1>1. PICK old \in b, new \in b, k \in 1..9 :
        u = <<old, new>> /\ old # new /\ AtStep(q, s, k, old, new, l, c)
  BY UpgradeAt
<1>2. k \in {2, 4, 5}
  BY <1>1, UpgradeKinds DEF AtStep
<1>3. Head(s) = UpgradeSteps(old, new)[k]
  BY <1>1, Zenon DEF AtStep
<1>4. /\ UpgradeSteps(old, new)[4] = <<"build", new, "create", old>>
      /\ UpgradeSteps(old, new)[5] = <<"build", new, "member", "initial">>
  BY UpgradeList
<1>5. /\ k = 4 => Head(s)[2] = new /\ Head(s)[3] = "create"
      /\ k = 5 => Head(s)[2] = new /\ Head(s)[3] = "member"
  BY <1>3, <1>4
<1>6. \A p \in Rooms, t \in Types :
        c2[p][t] = IF p = Head(s)[2] /\ t = Head(s)[3] THEN Head(s)[4] ELSE c[p][t]
  BY DEF IsState
<1>7. ASSUME k > 3, NEW i \in 1..3
      PROVE  c2[new][Transferable[i]] = None /\ ~(k + 1 > 5 + i)
  <2>1. k \in {4, 5} /\ ~(k + 1 > 5 + i)
    BY <1>2, <1>7
  <2>2. Transferable[i] \in Types /\ Transferable[i] # Head(s)[3]
    BY <1>5, <2>1, ThreeTypes
  <2>3. c[new][Transferable[i]] = None
    <3>1. CASE k = 4
      BY <1>5, <2>2, <3>1
    <3>2. CASE k = 5
      BY <1>1, <3>2 DEF AtStep, Before
    <3> QED
      BY <2>1, <3>1, <3>2
  <2> QED
    BY <1>6, <2>1, <2>2, <2>3
<1>8. k \in 1..8 /\ k \notin {1, 3}
  BY <1>2
<1> QED
  BY <1>1, <1>7, <1>8, UpgradeNext

\* One type is copied, or there was nothing to copy.
LEMMA UpgradeTransfer ==
  ASSUME NEW q, NEW u, NEW s, NEW l, NEW b, NEW c, NEW c2, UpgradeOK(q, u, s, l, b, c), IsSeq(s),
         Head(s)[1] = "transfer", b \subseteq Rooms, IsState(c), Head(s)[3] \in Rooms,
         Head(s)[4] \in Types,
         \/ c2 = [c EXCEPT ![Head(s)[3]][Head(s)[4]] = c[Head(s)[2]][Head(s)[4]]]
         \/ c[Head(s)[2]][Head(s)[4]] = None /\ c2 = c
  PROVE  UpgradeOK(q, u, Tail(s), l, b, c2)
<1> SUFFICES ASSUME u # <<>> PROVE UpgradeOK(q, u, Tail(s), l, b, c2)
  BY DEF UpgradeOK
<1>1. PICK old \in b, new \in b, k \in 1..9 :
        u = <<old, new>> /\ old # new /\ AtStep(q, s, k, old, new, l, c)
  BY UpgradeAt
<1>2. k \in 6..8
  BY <1>1, UpgradeKinds DEF AtStep
<1>3. Head(s) = UpgradeSteps(old, new)[k]
  BY <1>1, Zenon DEF AtStep
<1> DEFINE j == k - 5
<1>4. j \in 1..3 /\ k = 5 + j
  BY <1>2
<1> HIDE DEF j
<1>5. Head(s) = <<"transfer", old, new, Transferable[j]>>
  <2>1. \A i \in 1..3 : UpgradeSteps(old, new)[5 + i] = <<"transfer", old, new, Transferable[i]>>
    BY UpgradeList
  <2> QED
    BY <1>3, <1>4, <2>1
<1>6. Head(s)[2] = old /\ Head(s)[3] = new /\ Head(s)[4] = Transferable[j]
  BY <1>5
<1>7. \A i \in 1..3 : c[new][Transferable[i]] = IF k > 5 + i THEN c[old][Transferable[i]] ELSE None
  <2>1. k > 4
    BY <1>2
  <2> QED
    BY <1>1, <2>1, Zenon DEF AtStep, Before
<1>8. \A p \in Rooms, t \in Types :
        c2[p][t] = IF p = new /\ t = Transferable[j] THEN c[old][t] ELSE c[p][t]
  <2>1. CASE c2 = [c EXCEPT ![new][Transferable[j]] = c[old][Transferable[j]]]
    <3>1. \A p \in Rooms, t \in Types :
            c2[p][t] = IF p = new /\ t = Transferable[j] THEN c[old][Transferable[j]] ELSE c[p][t]
      <4>1. new \in Rooms /\ Transferable[j] \in Types
        BY <1>4, ThreeTypes
      <4> DEFINE ty == Transferable[j]
                 x == c[old][ty]
      <4>2. /\ DOMAIN c = Rooms /\ \A p \in Rooms : DOMAIN c[p] = Types
            /\ new \in Rooms /\ ty \in Types /\ c2 = [c EXCEPT ![new][ty] = x]
        BY <2>1, <4>1 DEF IsState
      <4> HIDE DEF ty, x
      <4>3. \A p \in Rooms, t \in Types : c2[p][t] = IF p = new /\ t = ty THEN x ELSE c[p][t]
        BY <4>2, SMTT(60)
      <4> QED
        BY <4>3 DEF ty, x
    <3> QED
      BY <3>1
  <2>2. CASE c[old][Transferable[j]] = None /\ c2 = c
    <3>1. c[new][Transferable[j]] = None
      BY <1>4, <1>7
    <3> QED
      BY <2>2, <3>1
  <2> QED
    BY <1>6, <2>1, <2>2
<1>9. \A i \in 1..3 : c2[new][Transferable[i]] =
                        IF k + 1 > 5 + i THEN c2[old][Transferable[i]] ELSE None
  <2> TAKE i \in 1..3
  <2>1. Transferable[i] \in Types /\ (Transferable[i] = Transferable[j] <=> i = j)
    BY <1>4, ThreeTypes
  <2>2. c2[old][Transferable[i]] = c[old][Transferable[i]]
    BY <1>1, <1>8, <2>1
  <2>3. c2[new][Transferable[i]] = IF i = j THEN c[old][Transferable[i]] ELSE c[new][Transferable[i]]
    BY <1>8, <2>1
  <2>4. k + 1 > 5 + i <=> (k > 5 + i \/ i = j)
    BY <1>4
  <2> QED
    BY <1>7, <2>2, <2>3, <2>4
<1>10. k \in 1..8 /\ k \notin {1, 3}
  BY <1>2
<1> QED
  BY <1>1, <1>9, <1>10, UpgradeNext

\* The aliases of the old room are to be moved.
LEMMA UpgradeAliases ==
  ASSUME NEW q, NEW u, NEW s, NEW m, NEW l, NEW b, NEW c, UpgradeOK(q, u, s, l, b, c), IsSeq(s),
         Head(s)[1] = "aliases", IsSeq(m), \A i \in 1..Len(m) : m[i][1] = "alias"
  PROVE  UpgradeOK(q, u, m \o Tail(s), l, b, c)
<1> SUFFICES ASSUME u # <<>> PROVE UpgradeOK(q, u, m \o Tail(s), l, b, c)
  BY DEF UpgradeOK
<1>1. PICK old \in b, new \in b, k \in 1..9 :
        u = <<old, new>> /\ old # new /\ AtStep(q, s, k, old, new, l, c)
  BY UpgradeAt
<1>2. k = 9
  <2>1. k \in {1, 3} \/ k \in {2, 4, 5} \/ k \in 6..8 \/ k = 9
    OBVIOUS
  <2> QED
    BY <1>1, <2>1, UpgradeKinds DEF AtStep
<1>3. IsSeq(UpgradeSteps(old, new)) /\ Len(UpgradeSteps(old, new)) = 10
      /\ UpgradeSteps(old, new)[10] = <<"close", old>>
  BY UpgradeList
<1> DEFINE t == Tail(s)
           w == m \o t
<1>4. IsSeq(t) /\ Len(t) = 1 /\ t[1] = <<"close", old>>
  <2>1. t = SubSeq(UpgradeSteps(old, new), k + 1, 10) /\ k + 1 = 10
    <3>1. k + 1 = 10
      BY <1>2
    <3> QED
      BY <1>1, <3>1, Zenon DEF AtStep
  <2> HIDE DEF t
  <2> DEFINE U == UpgradeSteps(old, new)
             C == {<<"close", old>>}
  <2>6. U[10] \in C
    BY <1>3
  <2> HIDE DEF U, C
  <2>2. \A i \in 10..10 : U[i] \in C
    BY <2>6
  <2>3. /\ SubSeq(U, 10, 10) \in Seq(C)
        /\ Len(SubSeq(U, 10, 10)) = 1
        /\ SubSeq(U, 10, 10)[1] = U[10]
    <3>1. SubSeq(U, 10, 10) \in Seq(C)
      BY <2>2, SubSeqProperties
    <3> QED
      BY <3>1
  <2>4. t = SubSeq(U, 10, 10)
    BY <2>1, Zenon DEF U
  <2>5. IsSeq(t)
    BY <2>3, <2>4, SeqIsSeq, Zenon
  <2> QED
    BY <1>3, <2>3, <2>4, <2>5, Zenon DEF U
<1> HIDE DEF t
<1>5. /\ IsSeq(w) /\ Len(w) = Len(m) + 1
      /\ \A i \in 1..Len(m) + 1 : w[i] = IF i <= Len(m) THEN m[i] ELSE t[i - Len(m)]
  <2>1. /\ IsSeq(m \o t) /\ Len(m \o t) = Len(m) + Len(t)
        /\ \A i \in 1..Len(m) + Len(t) :
             (m \o t)[i] = IF i <= Len(m) THEN m[i] ELSE t[i - Len(m)]
    BY <1>4, SeqConcat, Zenon
  <2> QED
    BY <1>4, <2>1
<1> HIDE DEF w
<1>6. Len(m) \in Nat /\ (w = <<>> <=> Len(w) = 0)
  BY <1>5, SeqLen
<1>7. w # <<>> /\ w[Len(w)] = <<"close", old>>
  BY <1>4, <1>5, <1>6
<1>8. \A i \in 1..Len(w) - 1 : w[i][1] \in {"alias", "row"}
  BY <1>5, <1>6
<1>9. l[old] = q /\ l[new] = q /\ \A i \in 1..3 : c[new][Transferable[i]] = c[old][Transferable[i]]
  BY <1>1, <1>2 DEF AtStep, Before
<1>10. Closing(q, w, old, new, l, c)
  BY <1>7, <1>8, <1>9 DEF Closing
<1> QED
  BY <1>1, <1>10, Zenon DEF UpgradeOK, w, t

\* One alias is on its way, or has arrived.
LEMMA UpgradeAlias ==
  ASSUME NEW q, NEW u, NEW s, NEW l, NEW b, NEW c, UpgradeOK(q, u, s, l, b, c), IsSeq(s),
         Head(s)[1] \in {"alias", "row"}
  PROVE  /\ UpgradeOK(q, u, Tail(s), l, b, c)
         /\ \A x : x[1] = "row" => UpgradeOK(q, u, <<x>> \o Tail(s), l, b, c)
<1> SUFFICES ASSUME u # <<>>
             PROVE  /\ UpgradeOK(q, u, Tail(s), l, b, c)
                    /\ \A x : x[1] = "row" => UpgradeOK(q, u, <<x>> \o Tail(s), l, b, c)
  BY DEF UpgradeOK
<1>1. PICK old \in b, new \in b :
        /\ u = <<old, new>> /\ old # new
        /\ \/ \E k \in 1..9 : AtStep(q, s, k, old, new, l, c)
           \/ Closing(q, s, old, new, l, c)
  BY UpgradeHead
<1>2. ASSUME NEW k \in 1..9, AtStep(q, s, k, old, new, l, c) PROVE FALSE
  <2>1. k \in {1, 3} \/ k \in {2, 4, 5} \/ k \in 6..8 \/ k = 9
    OBVIOUS
  <2>2. Head(s)[1] \in {"lock", "build", "transfer", "aliases"}
    BY <1>2, <2>1, UpgradeKinds DEF AtStep
  <2> QED
    BY <2>2
<1>3. Closing(q, s, old, new, l, c)
  BY <1>1, <1>2
<1> DEFINE t == Tail(s)
<1>4. Closing(q, t, old, new, l, c)
  <2>1. Head(s) # <<"close", old>>
    OBVIOUS
  <2> QED
    BY <1>3, <2>1, ClosingHead, Zenon
<1>5. IsSeq(t)
  BY <1>3, SeqTail DEF Closing
<1> HIDE DEF t
<1>6. ASSUME NEW x, x[1] = "row"
      PROVE  Closing(q, <<x>> \o t, old, new, l, c)
  <2> DEFINE w == <<x>> \o t
  <2>1. IsSeq(<<x>>) /\ Len(<<x>>) = 1 /\ <<x>>[1] = x
    BY SingleIsSeq, Zenon
  <2>2. /\ IsSeq(w) /\ Len(w) = Len(<<x>>) + Len(t)
        /\ \A i \in 1..Len(<<x>>) + Len(t) : w[i] = IF i <= Len(<<x>>) THEN <<x>>[i] ELSE t[i - Len(<<x>>)]
    BY <1>5, <2>1, SeqConcat, Zenon
  <2>3. /\ Len(w) = 1 + Len(t)
        /\ \A i \in 1..1 + Len(t) : w[i] = IF i <= 1 THEN <<x>>[i] ELSE t[i - 1]
    BY <2>1, <2>2
  <2> HIDE DEF w
  <2>4. w[1] = x /\ \A i \in 2..1 + Len(t) : w[i] = t[i - 1]
    BY <1>5, <2>3, SeqLen
  <2>5. Len(t) \in Nat /\ t # <<>> /\ Len(t) # 0 /\ t[Len(t)] = <<"close", old>>
        /\ \A i \in 1..Len(t) - 1 : t[i][1] \in {"alias", "row"}
    BY <1>4, <1>5, SeqLen DEF Closing
  <2>6. w # <<>> /\ w[Len(w)] = <<"close", old>>
    BY <2>2, <2>3, <2>4, <2>5, SeqLen
  <2>7. \A i \in 1..Len(w) - 1 : w[i][1] \in {"alias", "row"}
    <3> TAKE i \in 1..Len(w) - 1
    <3>1. CASE i = 1
      BY <1>6, <2>4, <3>1
    <3>2. CASE i # 1
      <4>1. i \in 2..1 + Len(t) /\ i - 1 \in 1..Len(t) - 1
        BY <2>3, <2>5, <3>2
      <4> QED
        BY <2>4, <2>5, <4>1
    <3> QED
      BY <3>1, <3>2
  <2> QED
    BY <1>4, <2>6, <2>7 DEF Closing, w
<1>7. UpgradeOK(q, u, t, l, b, c)
  BY <1>1, <1>4, Zenon DEF UpgradeOK
<1>8. \A x : x[1] = "row" => UpgradeOK(q, u, <<x>> \o t, l, b, c)
  BY <1>1, <1>6, Zenon DEF UpgradeOK
<1> QED
  BY <1>7, <1>8, Zenon DEF t

\* The old room is closed last.
LEMMA UpgradeClose ==
  ASSUME NEW q, NEW u, NEW s, NEW l, NEW b, NEW c, UpgradeOK(q, u, s, l, b, c), IsSeq(s),
         Head(s)[1] = "close", u # <<>>
  PROVE  Tail(s) = <<>>
<1>1. PICK old \in b, new \in b :
        /\ u = <<old, new>> /\ old # new
        /\ \/ \E k \in 1..9 : AtStep(q, s, k, old, new, l, c)
           \/ Closing(q, s, old, new, l, c)
  BY UpgradeHead
<1>2. ASSUME NEW k \in 1..9, AtStep(q, s, k, old, new, l, c) PROVE FALSE
  <2>1. k \in {1, 3} \/ k \in {2, 4, 5} \/ k \in 6..8 \/ k = 9
    OBVIOUS
  <2>2. Head(s)[1] \in {"lock", "build", "transfer", "aliases"}
    BY <1>2, <2>1, UpgradeKinds DEF AtStep
  <2> QED
    BY <2>2
<1>3. Closing(q, s, old, new, l, c)
  BY <1>1, <1>2
<1>4. Head(s)[1] \notin {"alias", "row"}
  OBVIOUS
<1> QED
  BY <1>3, <1>4, ClosingHead, Zenon

-----------------------------------------------------------------------------
(* Requests that go on, and those that end. *)

NoStateYet(c) == \A r \in Rooms : c[r]["create"] = None => \A ty \in Types : c[r][ty] = None

\* The steps of the other requests do not change what is known of the rooms.
LEMMA WorldKept ==
  ASSUME IInv, NEW q \in Requests, NEW s, NEW u,
         todo' = [todo EXCEPT ![q] = s], upgrade' = [upgrade EXCEPT ![q] = u],
         short' \subseteq Rooms, IsState(state'), NoStateYet(state'), IsFiniteSet(aliasRows'),
         lock' \in [Rooms -> Requests \cup {None}],
         \A r \in Rooms : lock'[r] # None => r \in short'
  PROVE  WorldInv'
<1>1. todo' = [p \in Requests |-> todo'[p]] /\ upgrade' = [p \in Requests |-> upgrade'[p]]
  BY DEF IInv, WorldInv
<1>2. \A r \in Rooms : ~Exists(r)' => \A ty \in Types : state'[r][ty] = None
  BY DEF NoStateYet, Exists
<1> QED
  BY <1>1, <1>2 DEF WorldInv, IsState

\* The locks of a request that has returned, and only those, are free.
LEMMA DroppedOK ==
  ASSUME IInv, NEW q \in Requests
  PROVE  /\ Dropped(q) \in [Rooms -> Requests \cup {None}]
         /\ \A r \in Rooms : Dropped(q)[r] # None => r \in short
         /\ \A r \in Rooms : lock[r] \notin {q, None} => Dropped(q)[r] = lock[r]
  BY DEF IInv, WorldInv, Dropped

\* The parts of WorldInv.
LEMMA StateKnown ==
  ASSUME IInv
  PROVE  IsState(state) /\ NoStateYet(state) /\ IsFiniteSet(aliasRows) /\ short \subseteq Rooms
         /\ lock \in [Rooms -> Requests \cup {None}] /\ \A r \in Rooms : lock[r] # None => r \in short
  BY DEF IInv, WorldInv, IsState, NoStateYet, Exists

\* A handler that returns leaves nothing behind.
LEMMA ReturnKeeps ==
  ASSUME IInv, NEW q \in Requests, Return(q), short' = short, state' = state, aliasRows' = aliasRows
  PROVE  IInv'
<1>1. /\ todo' = [todo EXCEPT ![q] = <<>>] /\ upgrade' = [upgrade EXCEPT ![q] = <<>>]
      /\ lock' = Dropped(q)
  BY DEF Return, Continue
<1>2. WorldInv'
  BY <1>1, WorldKept, DroppedOK, StateKnown
<1>3. RequestOK(q, <<>>, lock', short')
  BY EmptyOK
<1>4. UpgradeOK(q, <<>>, <<>>, lock', short', state')
  BY DEF UpgradeOK
<1>5. /\ short \subseteq short'
      /\ \A r \in Rooms : lock[r] \notin {q, None} => lock'[r] = lock[r] /\ state'[r] = state[r]
  BY <1>1, DroppedOK
<1> QED
  BY <1>1, <1>2, <1>3, <1>4, <1>5, Frame

\* A step keeps the invariant if it changes only rooms that q has locked and
\* leaves q with a list that it may go on with.
LEMMA ProceedKeeps ==
  ASSUME IInv, NEW q \in Requests, NEW rest, Proceed(q, rest), short' = short,
         IsState(state'), NoStateYet(state'), IsFiniteSet(aliasRows'),
         \A r \in Rooms : lock[r] \notin {q, None} => state'[r] = state[r],
         rest # <<>> => /\ RequestOK(q, rest, lock, short)
                        /\ UpgradeOK(q, upgrade[q], rest, lock, short, state')
  PROVE  IInv'
<1> DEFINE u == IF rest = <<>> THEN <<>> ELSE upgrade[q]
<1>1. /\ todo' = [todo EXCEPT ![q] = rest] /\ upgrade' = [upgrade EXCEPT ![q] = u]
      /\ lock' = IF rest = <<>> THEN Dropped(q) ELSE lock
  BY DEF Proceed, Continue
<1>2. /\ lock' \in [Rooms -> Requests \cup {None}]
      /\ \A r \in Rooms : lock'[r] # None => r \in short
      /\ \A r \in Rooms : lock[r] \notin {q, None} => lock'[r] = lock[r]
  BY <1>1, DroppedOK, StateKnown
<1>3. WorldInv'
  BY <1>1, <1>2, WorldKept, StateKnown
<1>4. RequestOK(q, rest, lock', short') /\ UpgradeOK(q, u, rest, lock', short', state')
  <2>1. CASE rest = <<>>
    <3>1. u = <<>>
      BY <2>1
    <3>2. RequestOK(q, rest, lock', short')
      BY <2>1, EmptyOK
    <3> QED
      BY <3>1, <3>2 DEF UpgradeOK
  <2>2. CASE rest # <<>>
    <3>1. u = upgrade[q] /\ lock' = lock
      BY <1>1, <2>2
    <3> QED
      BY <2>2, <3>1
  <2> QED
    BY <2>1, <2>2
<1> HIDE DEF u
<1> QED
  BY <1>1, <1>2, <1>3, <1>4, Frame

\* The next step of a request.
LEMMA NextStep ==
  ASSUME IInv, NEW q \in Requests, todo[q] # <<>>
  PROVE  /\ IsSeq(todo[q]) /\ RequestOK(q, todo[q], lock, short)
         /\ StepOK(Head(todo[q]), short)
         /\ NeedsLock(Head(todo[q])) => lock[RoomOf(Head(todo[q]))] = q
         /\ UpgradeOK(q, upgrade[q], todo[q], lock, short, state)
         /\ Head(todo[q])[1] \notin {"lock", "unlock"} => RequestOK(q, Tail(todo[q]), lock, short)
<1> DEFINE s == todo[q]
<1>1. RequestOK(q, s, lock, short) /\ UpgradeOK(q, upgrade[q], s, lock, short, state)
  BY DEF IInv, RequestInv, UpgradeInv
<1>2. IsSeq(s) /\ s # <<>>
  BY <1>1 DEF RequestOK
<1> HIDE DEF s
<1>3. Len(s) >= 1 /\ Head(s) = s[1] /\ Len(s) \in Nat
  BY <1>2, SeqTail, SeqLen
<1>4. 1 \in 1..Len(s)
  BY <1>3
<1>5. StepOK(Head(s), short)
  BY <1>1, <1>3, <1>4 DEF RequestOK
<1>6. NeedsLock(Head(s)) => lock[RoomOf(Head(s))] = q
  <2>1. \A j : j \notin 1..(1 - 1)
    OBVIOUS
  <2> QED
    BY <1>1, <1>3, <1>4, <2>1 DEF RequestOK, Covered
<1>7. Head(s)[1] \notin {"lock", "unlock"} => RequestOK(q, Tail(s), lock, short)
  BY <1>1, <1>2, RestOK
<1> QED
  BY <1>1, <1>2, <1>5, <1>6, <1>7, Zenon DEF s

-----------------------------------------------------------------------------
(* One lemma for each step. *)

\* LockKey preserves the invariant: nobody else had the lock.
LEMMA LockKeyKeeps ==
  ASSUME IInv, NEW q \in Requests, LockKey(q)
  PROVE  IInv'
<1> DEFINE s == todo[q]
           t == Tail(s)
           r == Head(s)[2]
           u == IF t = <<>> THEN <<>> ELSE upgrade[q]
<1>1. /\ s # <<>> /\ Head(s)[1] = "lock" /\ lock[r] = None /\ lock' = [lock EXCEPT ![r] = q]
      /\ todo' = [todo EXCEPT ![q] = t] /\ upgrade' = [upgrade EXCEPT ![q] = u]
      /\ short' = short /\ state' = state /\ aliasRows' = aliasRows
  BY DEF LockKey, Is, Continue, directory
<1>2. /\ RequestOK(q, s, lock, short) /\ UpgradeOK(q, upgrade[q], s, lock, short, state)
      /\ IsSeq(s) /\ StepOK(Head(s), short)
  BY <1>1, NextStep
<1> HIDE DEF s
<1>3. r \in short /\ r \in Rooms
  BY <1>1, <1>2, StateKnown DEF StepOK, RoomOf
<1>4. /\ lock' \in [Rooms -> Requests \cup {None}]
      /\ \A x \in Rooms : lock'[x] = IF x = r THEN q ELSE lock[x]
      /\ \A x \in Rooms : lock'[x] # None => x \in short
  BY <1>1, <1>3, StateKnown
<1>5. /\ \A x \in Rooms : lock[x] \notin {q, None} => lock'[x] = lock[x] /\ state'[x] = state[x]
      /\ \A x \in short : lock[x] = q => lock'[x] = q
      /\ lock'[r] = q
  BY <1>1, <1>3, <1>4, StateKnown
<1>6. RequestOK(q, t, lock', short')
  BY <1>1, <1>2, <1>5, RestOK
<1>7. UpgradeOK(q, u, t, lock', short', state')
  <2>1. UpgradeOK(q, upgrade[q], t, lock', short, state)
    <3> DEFINE l2 == lock'
               up == upgrade[q]
    <3>1. /\ UpgradeOK(q, up, s, lock, short, state) /\ IsSeq(s) /\ Head(s)[1] = "lock"
          /\ l2[Head(s)[2]] = q /\ \A x \in short : lock[x] = q => l2[x] = q
      BY <1>1, <1>2, <1>5
    <3> HIDE DEF l2, up
    <3>2. UpgradeOK(q, up, Tail(s), l2, short, state)
      BY <3>1, UpgradeLock
    <3> QED
      BY <3>2 DEF l2, up
  <2>2. UpgradeOK(q, <<>>, t, lock', short', state')
    BY DEF UpgradeOK
  <2> QED
    BY <1>1, <2>1, <2>2
<1> HIDE DEF t, u, r
<1>8. WorldInv'
  BY <1>1, <1>4, WorldKept, StateKnown
<1> QED
  BY <1>1, <1>5, <1>6, <1>7, <1>8, Frame

\* DropToken preserves the invariant: nothing that is left needs the lock.
LEMMA DropTokenKeeps ==
  ASSUME IInv, NEW q \in Requests, DropToken(q)
  PROVE  IInv'
<1> DEFINE s == todo[q]
           t == Tail(s)
           r == Head(s)[2]
<1>1. /\ s # <<>> /\ Head(s)[1] = "unlock" /\ lock' = [lock EXCEPT ![r] = None]
      /\ todo' = [todo EXCEPT ![q] = t]
      /\ upgrade' = [upgrade EXCEPT ![q] = IF t = <<>> THEN <<>> ELSE upgrade[q]]
      /\ short' = short /\ state' = state /\ aliasRows' = aliasRows
  BY DEF DropToken, Is, Continue, directory
<1>2. /\ RequestOK(q, s, lock, short) /\ UpgradeOK(q, upgrade[q], s, lock, short, state)
      /\ IsSeq(s) /\ StepOK(Head(s), short) /\ (NeedsLock(Head(s)) => lock[RoomOf(Head(s))] = q)
  BY <1>1, NextStep
<1> HIDE DEF s
<1>3. r \in short /\ r \in Rooms /\ lock[r] = q
  BY <1>1, <1>2, StateKnown DEF StepOK, RoomOf, NeedsLock
<1>4. /\ lock' \in [Rooms -> Requests \cup {None}]
      /\ \A x \in Rooms : lock'[x] = IF x = r THEN None ELSE lock[x]
      /\ \A x \in Rooms : lock'[x] # None => x \in short
  BY <1>1, <1>3, StateKnown
<1>5. \A x \in Rooms : lock[x] \notin {q, None} => lock'[x] = lock[x] /\ state'[x] = state[x]
  BY <1>1, <1>3, <1>4
<1>6. RequestOK(q, t, lock', short')
  BY <1>1, <1>2, RestOK
<1>7. upgrade[q] = <<>>
  BY <1>1, <1>2, UpgradeNone
<1>8. UpgradeOK(q, <<>>, t, lock', short', state') /\ upgrade' = [upgrade EXCEPT ![q] = <<>>]
  BY <1>1, <1>7 DEF UpgradeOK
<1> HIDE DEF t, r
<1>9. WorldInv'
  BY <1>1, <1>4, <1>8, WorldKept, StateKnown
<1> QED
  BY <1>1, <1>5, <1>6, <1>8, <1>9, Frame

\* Steps that change no state and are none of an upgrade.
LEMMA PlainStepKeeps ==
  ASSUME IInv, NEW q \in Requests, todo[q] # <<>>,
         Head(todo[q])[1] \in {"invite", "norow", "noalias", "public"},
         Proceed(q, Tail(todo[q])), short' = short, state' = state, IsFiniteSet(aliasRows')
  PROVE  IInv'
<1>1. /\ RequestOK(q, Tail(todo[q]), lock, short) /\ IsSeq(todo[q])
      /\ UpgradeOK(q, upgrade[q], todo[q], lock, short, state)
  BY NextStep
<1>2. upgrade[q] = <<>>
  BY <1>1, UpgradeNone
<1>3. UpgradeOK(q, upgrade[q], Tail(todo[q]), lock, short, state')
  BY <1>2 DEF UpgradeOK
<1> DEFINE t == Tail(todo[q])
<1>4. RequestOK(q, t, lock, short) /\ UpgradeOK(q, upgrade[q], t, lock, short, state') /\ Proceed(q, t)
  BY <1>1, <1>3
<1> HIDE DEF t
<1> QED
  BY <1>4, ProceedKeeps, StateKnown

\* InviteHelper preserves the invariant.
LEMMA InviteHelperKeeps ==
  ASSUME IInv, NEW q \in Requests, InviteHelper(q)
  PROVE  IInv'
<1>1. /\ todo[q] # <<>> /\ Head(todo[q])[1] = "invite" /\ Proceed(q, Tail(todo[q]))
      /\ short' = short /\ state' = state /\ aliasRows' = aliasRows
  BY DEF InviteHelper, Is, directory
<1> QED
  BY <1>1, PlainStepKeeps, StateKnown

\* RemoveAliasRow preserves the invariant.
LEMMA RemoveAliasRowKeeps ==
  ASSUME IInv, NEW q \in Requests, RemoveAliasRow(q)
  PROVE  IInv'
<1>1. /\ todo[q] # <<>> /\ Head(todo[q])[1] = "norow" /\ Proceed(q, Tail(todo[q]))
      /\ short' = short /\ state' = state /\ aliasRows' \subseteq aliasRows
  BY DEF RemoveAliasRow, Is
<1>2. IsFiniteSet(aliasRows')
  BY <1>1, FS_Subset, StateKnown
<1> QED
  BY <1>1, <1>2, PlainStepKeeps

\* RemoveAlias preserves the invariant.
LEMMA RemoveAliasKeeps ==
  ASSUME IInv, NEW q \in Requests, RemoveAlias(q)
  PROVE  IInv'
<1>1. /\ todo[q] # <<>> /\ Head(todo[q])[1] = "noalias" /\ Proceed(q, Tail(todo[q]))
      /\ short' = short /\ state' = state /\ aliasRows' = aliasRows
  BY DEF RemoveAlias, Is
<1> QED
  BY <1>1, PlainStepKeeps, StateKnown

\* SetPublic preserves the invariant.
LEMMA SetPublicKeeps ==
  ASSUME IInv, NEW q \in Requests, SetPublic(q)
  PROVE  IInv'
<1>1. /\ todo[q] # <<>> /\ Head(todo[q])[1] = "public" /\ Proceed(q, Tail(todo[q]))
      /\ short' = short /\ state' = state /\ aliasRows' = aliasRows
  BY DEF SetPublic, Is
<1> QED
  BY <1>1, PlainStepKeeps, StateKnown

\* An event that is refused ends the request.
LEMMA RefusedKeeps ==
  ASSUME IInv, NEW q \in Requests, Refused(q)
  PROVE  IInv'
  BY ReturnKeeps DEF Refused, directory

\* One event in a room whose lock q has.
LEMMA AppendKeeps ==
  ASSUME IInv, NEW q \in Requests, NEW r \in Rooms, NEW ty \in Types, NEW content, NEW t,
         lock[r] = q, (ty = "create") = ~Exists(r),
         state' = [state EXCEPT ![r][ty] = content], Proceed(q, t),
         short' = short, aliasRows' = aliasRows,
         RequestOK(q, t, lock, short),
         t # <<>> => UpgradeOK(q, upgrade[q], t, lock, short, state')
  PROVE  IInv'
<1>1. /\ IsState(state) /\ NoStateYet(state) /\ IsFiniteSet(aliasRows)
  BY StateKnown
<1>2. /\ IsState(state')
      /\ \A p \in Rooms, x \in Types : state'[p][x] = IF p = r /\ x = ty THEN content ELSE state[p][x]
      /\ \A p \in Rooms \ {r} : state'[p] = state[p]
  <2> DEFINE c == state
             c2 == state'
  <2>1. IsState(c) /\ SetTo(c2, c, r, ty, content)
    BY <1>1 DEF SetTo
  <2> HIDE DEF c, c2
  <2>2. /\ IsState(c2)
        /\ \A p \in Rooms, x \in Types : c2[p][x] = IF p = r /\ x = ty THEN content ELSE c[p][x]
        /\ \A p \in Rooms \ {r} : c2[p] = c[p]
    BY <2>1, StateSet, SMTT(60)
  <2> QED
    BY <2>2 DEF c, c2
<1>3. "create" \in Types
  BY DEF Types
<1>4. NoStateYet(state')
  <2> SUFFICES ASSUME NEW p \in Rooms, state'[p]["create"] = None
               PROVE  \A x \in Types : state'[p][x] = None
    BY DEF NoStateYet
  <2>1. CASE p # r
    BY <1>1, <1>2, <1>3, <2>1 DEF NoStateYet
  <2>2. CASE p = r
    <3>1. CASE ty = "create"
      BY <1>1, <1>2, <1>3, <2>2, <3>1 DEF Exists, NoStateYet
    <3>2. CASE ty # "create"
      BY <1>2, <1>3, <2>2, <3>2 DEF Exists
    <3> QED
      BY <3>1, <3>2
  <2> QED
    BY <2>1, <2>2
<1>5. \A p \in Rooms : lock[p] \notin {q, None} => state'[p] = state[p]
  BY <1>2
<1> QED
  BY <1>1, <1>2, <1>4, <1>5, ProceedKeeps

\* BuildAndAppendPdu preserves the invariant: the room is locked by q.
LEMMA BuildKeeps ==
  ASSUME IInv, NEW q \in Requests, BuildAndAppendPdu(q)
  PROVE  IInv'
<1> DEFINE s == todo[q]
           h == Head(s)
           t == Tail(s)
<1>1. /\ s # <<>> /\ h[1] = "build"
      /\ AppendPdu(q, h[2], h[3], h[4]) \/ Refused(q)
  BY DEF BuildAndAppendPdu, Is
<1>2. CASE AppendPdu(q, h[2], h[3], h[4])
  <2>1. /\ (h[3] = "create") = ~Exists(h[2])
        /\ state' = [state EXCEPT ![h[2]][h[3]] = h[4]]
        /\ Proceed(q, t) /\ short' = short /\ aliasRows' = aliasRows
    BY <1>2 DEF AppendPdu, directory
  <2>2. /\ RequestOK(q, s, lock, short) /\ UpgradeOK(q, upgrade[q], s, lock, short, state)
        /\ IsSeq(s) /\ StepOK(h, short) /\ (NeedsLock(h) => lock[RoomOf(h)] = q)
        /\ RequestOK(q, t, lock, short)
    BY <1>1, NextStep
  <2> HIDE DEF s
  <2>3. h[2] \in Rooms /\ h[3] \in Types /\ lock[h[2]] = q
    BY <1>1, <2>2, StateKnown DEF StepOK, RoomOf, NeedsLock
  <2>4. UpgradeOK(q, upgrade[q], t, lock, short, state')
    <3>1. short \subseteq Rooms /\ IsState(state) /\ NoStateYet(state)
      BY StateKnown
    <3>2. /\ (h[3] = "create") = (state[h[2]]["create"] = None)
          /\ state[h[2]]["create"] = None => \A ty \in Types : state[h[2]][ty] = None
      BY <2>1, <2>3, <3>1 DEF Exists, NoStateYet
    <3> QED
      BY <1>1, <2>1, <2>2, <2>3, <3>1, <3>2, UpgradeBuild
  <2> HIDE DEF h, t
  <2> QED
    BY <2>1, <2>2, <2>3, <2>4, AppendKeeps
<1> QED
  BY <1>1, <1>2, RefusedKeeps

\* TransferStateEvent preserves the invariant: one more type agrees.
LEMMA TransferKeeps ==
  ASSUME IInv, NEW q \in Requests, TransferStateEvent(q)
  PROVE  IInv'
<1> DEFINE s == todo[q]
           h == Head(s)
           t == Tail(s)
           content == state[h[2]][h[4]]
<1>1. /\ s # <<>> /\ h[1] = "transfer"
      /\ \/ AppendPdu(q, h[3], h[4], content)
         \/ Refused(q)
         \/ /\ content = None /\ Proceed(q, t)
            /\ short' = short /\ state' = state /\ aliasRows' = aliasRows
  BY DEF TransferStateEvent, Is, directory
<1>2. /\ RequestOK(q, s, lock, short) /\ UpgradeOK(q, upgrade[q], s, lock, short, state)
      /\ IsSeq(s) /\ StepOK(h, short) /\ (NeedsLock(h) => lock[RoomOf(h)] = q)
      /\ RequestOK(q, t, lock, short)
  BY <1>1, NextStep
<1> HIDE DEF s
<1>3. h[3] \in Rooms /\ h[4] \in Types /\ lock[h[3]] = q /\ short \subseteq Rooms /\ IsState(state)
  BY <1>1, <1>2, StateKnown DEF StepOK, RoomOf, NeedsLock
<1>4. CASE AppendPdu(q, h[3], h[4], content)
  <2>1. /\ (h[4] = "create") = ~Exists(h[3])
        /\ state' = [state EXCEPT ![h[3]][h[4]] = state[h[2]][h[4]]]
        /\ Proceed(q, t) /\ short' = short /\ aliasRows' = aliasRows
    BY <1>4 DEF AppendPdu, directory, s
  <2>2. UpgradeOK(q, upgrade[q], t, lock, short, state')
    BY <1>1, <1>2, <1>3, <2>1, UpgradeTransfer
  <2> HIDE DEF h, t
  <2> QED
    BY <1>2, <1>3, <2>1, <2>2, AppendKeeps
<1>5. CASE /\ content = None /\ Proceed(q, t)
           /\ short' = short /\ state' = state /\ aliasRows' = aliasRows
  <2>1. UpgradeOK(q, upgrade[q], t, lock, short, state)
    BY <1>1, <1>2, <1>3, <1>5, UpgradeTransfer
  <2> HIDE DEF t
  <2> QED
    BY <1>2, <1>5, <2>1, ProceedKeeps, StateKnown
<1> QED
  BY <1>1, <1>4, <1>5, RefusedKeeps

\* ClosePowerLevels preserves the invariant: it is the end of the upgrade.
LEMMA CloseKeeps ==
  ASSUME IInv, NEW q \in Requests, ClosePowerLevels(q)
  PROVE  IInv'
<1> DEFINE s == todo[q]
           h == Head(s)
           t == Tail(s)
<1>1. /\ s # <<>> /\ h[1] = "close"
      /\ AppendPdu(q, h[2], "power_levels", "closed") \/ Refused(q)
  BY DEF ClosePowerLevels, Is
<1>2. /\ RequestOK(q, s, lock, short) /\ UpgradeOK(q, upgrade[q], s, lock, short, state)
      /\ IsSeq(s) /\ StepOK(h, short) /\ (NeedsLock(h) => lock[RoomOf(h)] = q)
      /\ RequestOK(q, t, lock, short)
  BY <1>1, NextStep
<1>3. CASE AppendPdu(q, h[2], "power_levels", "closed")
  <2>1. /\ ("power_levels" = "create") = ~Exists(h[2])
        /\ state' = [state EXCEPT ![h[2]]["power_levels"] = "closed"]
        /\ Proceed(q, t) /\ short' = short /\ aliasRows' = aliasRows
    BY <1>3 DEF AppendPdu, directory
  <2> HIDE DEF s
  <2>2. h[2] \in Rooms /\ lock[h[2]] = q /\ "power_levels" \in Types
    BY <1>1, <1>2, StateKnown DEF StepOK, RoomOf, NeedsLock, Types
  <2>3. t # <<>> => UpgradeOK(q, upgrade[q], t, lock, short, state')
    <3>1. t # <<>> => upgrade[q] = <<>>
      BY <1>1, <1>2, UpgradeClose
    <3> QED
      BY <3>1 DEF UpgradeOK
  <2> HIDE DEF h, t
  <2> QED
    BY <1>2, <2>1, <2>2, <2>3, AppendKeeps
<1> QED
  BY <1>1, <1>3, RefusedKeeps

\* There are finitely many aliases to move.
LEMMA RowsLength ==
  ASSUME IsFiniteSet(aliasRows), NEW r
  PROVE  Len(LocalAliasesForRoom(r)) \in Nat
<1> DEFINE rows == {row \in aliasRows : row[1] = r}
           n == Cardinality(rows)
           e(i) == CHOOSE row \in rows : Cardinality({x \in rows : x[2] < row[2]}) = i - 1
           f == [i \in 1..n |-> e(i)]
<1>1. n \in Nat
  <2>1. IsFiniteSet(rows)
    BY FS_Subset
  <2> QED
    BY <2>1, FS_CardinalityType
<1>2. LocalAliasesForRoom(r) = f
  BY DEF LocalAliasesForRoom
<1> HIDE DEF n, e
<1>3. f \in Seq({e(i) : i \in 1..n})
  BY <1>1, IsASeq
<1> HIDE DEF f
<1> QED
  BY <1>2, <1>3

\* MoveAliases preserves the invariant: all types have been copied.
LEMMA MoveAliasesKeeps ==
  ASSUME IInv, NEW q \in Requests, MoveAliases(q)
  PROVE  IInv'
<1> DEFINE s == todo[q]
           h == Head(s)
           rows == LocalAliasesForRoom(h[2])
           n == Len(rows)
           m == [i \in 1..n |-> <<"alias", rows[i][3], h[3]>>]
           t == m \o Tail(s)
<1>1. /\ s # <<>> /\ h[1] = "aliases" /\ Proceed(q, t)
      /\ short' = short /\ state' = state /\ aliasRows' = aliasRows
  BY DEF MoveAliases, Is, directory
<1>2. /\ UpgradeOK(q, upgrade[q], s, lock, short, state) /\ IsSeq(s)
      /\ RequestOK(q, Tail(s), lock, short)
  BY <1>1, NextStep
<1>3. n \in Nat
  BY RowsLength, StateKnown
<1> HIDE DEF n, s, rows
<1>4. IsSeq(m) /\ Len(m) = n /\ \A i \in 1..n : m[i][1] = "alias"
  <2>1. m \in Seq({<<"alias", rows[i][3], h[3]>> : i \in 1..n})
    BY <1>3, IsASeq
  <2>2. IsSeq(m) /\ DOMAIN m = 1..Len(m) /\ Len(m) \in Nat
    BY <2>1, SeqIsSeq
  <2>3. \A i \in 1..n : m[i][1] = "alias"
    OBVIOUS
  <2> QED
    BY <1>3, <2>2, <2>3
<1> HIDE DEF m
<1>5. RequestOK(q, t, lock, short)
  <2>1. \A i \in 1..Len(m) : m[i][1] \in {"alias", "row", "norow"}
    BY <1>4
  <2> QED
    BY <1>2, <1>4, <2>1, PrefixOK
<1>6. UpgradeOK(q, upgrade[q], t, lock, short, state)
  BY <1>1, <1>2, <1>4, UpgradeAliases
<1> HIDE DEF t, h
<1> QED
  BY <1>1, <1>5, <1>6, ProceedKeeps, StateKnown

\* FindAliasRows preserves the invariant.
LEMMA FindAliasRowsKeeps ==
  ASSUME IInv, NEW q \in Requests, FindAliasRows(q)
  PROVE  IInv'
<1> DEFINE s == todo[q]
           h == Head(s)
           rows == LocalAliasesForRoom(h[2])
           n == Len(rows)
           m == [i \in 1..n |-> <<"norow", rows[i]>>]
           t == m \o Tail(s)
<1>1. /\ s # <<>> /\ h[1] = "find" /\ Proceed(q, t)
      /\ short' = short /\ state' = state /\ aliasRows' = aliasRows
  BY DEF FindAliasRows, Is, directory
<1>2. /\ UpgradeOK(q, upgrade[q], s, lock, short, state) /\ IsSeq(s)
      /\ RequestOK(q, Tail(s), lock, short)
  BY <1>1, NextStep
<1>3. n \in Nat
  BY RowsLength, StateKnown
<1> HIDE DEF n, s, rows
<1>4. IsSeq(m) /\ Len(m) = n /\ \A i \in 1..n : m[i][1] = "norow"
  <2>1. m \in Seq({<<"norow", rows[i]>> : i \in 1..n})
    BY <1>3, IsASeq
  <2>2. IsSeq(m) /\ DOMAIN m = 1..Len(m) /\ Len(m) \in Nat
    BY <2>1, SeqIsSeq
  <2>3. \A i \in 1..n : m[i][1] = "norow"
    OBVIOUS
  <2> QED
    BY <1>3, <2>2, <2>3
<1> HIDE DEF m
<1>5. RequestOK(q, t, lock, short)
  <2>1. \A i \in 1..Len(m) : m[i][1] \in {"alias", "row", "norow"}
    BY <1>4
  <2> QED
    BY <1>2, <1>4, <2>1, PrefixOK
<1>6. UpgradeOK(q, upgrade[q], t, lock, short, state)
  <2>1. upgrade[q] = <<>>
    BY <1>1, <1>2, UpgradeNone
  <2> QED
    BY <2>1 DEF UpgradeOK
<1> HIDE DEF t, h
<1> QED
  BY <1>1, <1>5, <1>6, ProceedKeeps, StateKnown

\* SetAlias preserves the invariant.
LEMMA SetAliasKeeps ==
  ASSUME IInv, NEW q \in Requests, SetAlias(q)
  PROVE  IInv'
<1> DEFINE s == todo[q]
           h == Head(s)
           x == <<"row", h[2], h[3]>>
           t == <<x>> \o Tail(s)
<1>1. /\ s # <<>> /\ h[1] = "alias"
      /\ \/ Refused(q)
         \/ /\ Proceed(q, t)
            /\ short' = short /\ state' = state /\ aliasRows' = aliasRows
  BY DEF SetAlias, Is
<1>2. /\ UpgradeOK(q, upgrade[q], s, lock, short, state) /\ IsSeq(s)
      /\ RequestOK(q, Tail(s), lock, short)
  BY <1>1, NextStep
<1> HIDE DEF s
<1>3. CASE /\ Proceed(q, t)
           /\ short' = short /\ state' = state /\ aliasRows' = aliasRows
  <2>1. x[1] = "row"
    OBVIOUS
  <2> HIDE DEF x
  <2>2. RequestOK(q, t, lock, short)
    <3>1. IsSeq(<<x>>) /\ Len(<<x>>) = 1 /\ <<x>>[1] = x
      BY SingleIsSeq, Zenon
    <3>2. \A i \in 1..Len(<<x>>) : <<x>>[i][1] \in {"alias", "row", "norow"}
      BY <2>1, <3>1
    <3> QED
      BY <1>2, <3>1, <3>2, PrefixOK, Zenon
  <2>3. UpgradeOK(q, upgrade[q], t, lock, short, state)
    BY <1>1, <1>2, <2>1, UpgradeAlias
  <2> HIDE DEF t
  <2> QED
    BY <1>3, <2>2, <2>3, ProceedKeeps, StateKnown
<1> QED
  BY <1>1, <1>3, RefusedKeeps

\* SetAliasRow preserves the invariant.
LEMMA SetAliasRowKeeps ==
  ASSUME IInv, NEW q \in Requests, SetAliasRow(q)
  PROVE  IInv'
<1> DEFINE s == todo[q]
           h == Head(s)
           t == Tail(s)
           row == <<h[3], count + 1, h[2]>>
<1>1. /\ s # <<>> /\ h[1] = "row" /\ Proceed(q, t)
      /\ short' = short /\ state' = state /\ aliasRows' = aliasRows \cup {row}
  BY DEF SetAliasRow, Is
<1>2. /\ UpgradeOK(q, upgrade[q], s, lock, short, state) /\ IsSeq(s)
      /\ RequestOK(q, t, lock, short)
  BY <1>1, NextStep
<1> HIDE DEF s, row
<1>3. IsFiniteSet(aliasRows')
  BY <1>1, StateKnown, FS_AddElement
<1>4. UpgradeOK(q, upgrade[q], t, lock, short, state)
  BY <1>1, <1>2, UpgradeAlias
<1> HIDE DEF t
<1> QED
  BY <1>1, <1>2, <1>3, <1>4, ProceedKeeps, StateKnown

-----------------------------------------------------------------------------
(* The lists of steps that requests begin with. *)

\* Events after events.
LEMMA WritesConcat ==
  ASSUME NEW q, NEW l, NEW b, NEW s, NEW t, Writes(q, s, l, b), Writes(q, t, l, b)
  PROVE  Writes(q, s \o t, l, b)
<1> DEFINE w == s \o t
<1>1. /\ IsSeq(s) /\ IsSeq(t) /\ IsSeq(w) /\ Len(w) = Len(s) + Len(t)
      /\ \A i \in 1..Len(s) + Len(t) : w[i] = IF i <= Len(s) THEN s[i] ELSE t[i - Len(s)]
  BY SeqConcat DEF Writes
<1> HIDE DEF w
<1>2. Len(s) \in Nat /\ Len(t) \in Nat
  BY <1>1, SeqLen
<1>3. \A i \in 1..Len(w) : \/ i \in 1..Len(s) /\ w[i] = s[i]
                           \/ i - Len(s) \in 1..Len(t) /\ w[i] = t[i - Len(s)]
  BY <1>1, <1>2
<1>4. Writes(q, w, l, b)
  BY <1>1, <1>3 DEF Writes
<1> QED
  BY <1>4 DEF w

\* An event that a client may ask for.
LEMMA WritesOptional ==
  ASSUME NEW q, NEW l, NEW b, NEW given, NEW x,
         given => x[1] = "build" /\ StepOK(x, b) /\ l[x[2]] = q
  PROVE  Writes(q, Optional(given, x), l, b)
<1>1. CASE given
  <2>1. Optional(given, x) = <<x>>
    BY <1>1 DEF Optional
  <2>2. IsSeq(<<x>>) /\ Len(<<x>>) = 1 /\ <<x>>[1] = x
    BY SingleIsSeq, Zenon
  <2>3. \A i \in 1..Len(<<x>>) : <<x>>[i] = x
    BY <2>2
  <2> QED
    BY <1>1, <2>1, <2>2, <2>3, Zenon DEF Writes
<1>2. CASE ~given
  <2>1. Optional(given, x) = <<>> /\ IsSeq(<<>>) /\ 1..Len(<<>>) = {}
    BY <1>2, EmptyIsSeq DEF Optional
  <2> QED
    BY <2>1, Zenon DEF Writes
<1> QED
  BY <1>1, <1>2

\* A step without a lock that a client may ask for.
LEMMA FreeOptional ==
  ASSUME NEW b, NEW given, NEW x, given => x[1] # "unlock" /\ ~NeedsLock(x) /\ StepOK(x, b)
  PROVE  Free(Optional(given, x), b)
<1>1. CASE given
  <2>1. Optional(given, x) = <<x>>
    BY <1>1 DEF Optional
  <2>2. IsSeq(<<x>>) /\ Len(<<x>>) = 1 /\ <<x>>[1] = x
    BY SingleIsSeq, Zenon
  <2>3. \A i \in 1..Len(<<x>>) : <<x>>[i] = x
    BY <2>2
  <2> QED
    BY <1>1, <2>1, <2>2, <2>3, Zenon DEF Free
<1>2. CASE ~given
  <2>1. Optional(given, x) = <<>> /\ IsSeq(<<>>) /\ 1..Len(<<>>) = {}
    BY <1>2, EmptyIsSeq DEF Optional
  <2> QED
    BY <2>1, Zenon DEF Free
<1> QED
  BY <1>1, <1>2

\* A room that is created: its lock is held until its own events are there.
LEMMA CreateStepsOK ==
  ASSUME NEW q, NEW r, NEW a, NEW options, NEW l, NEW b, r \in b, l[r] = q
  PROVE  RequestOK(q, FirstEvents(r) \o PresetEvents(r, a, options) \o AfterCreation(r, a, options), l, b)
<1>1. Writes(q, FirstEvents(r), l, b)
  <2> DEFINE x == <<"build", r, "create", "initial">>
             y == <<"build", r, "member", "initial">>
             z == <<"build", r, "power_levels", "initial">>
             f == <<x, y, z>>
  <2>1. \A w \in {x, y, z} : w[1] = "build" /\ StepOK(w, b) /\ l[w[2]] = q
    BY DEF StepOK, RoomOf, NeedsLock, Types
  <2> HIDE DEF x, y, z
  <2>2. f \in Seq({x, y, z}) /\ Len(f) = 3 /\ \A i \in 1..3 : f[i] \in {x, y, z}
    OBVIOUS
  <2>3. IsSeq(f)
    BY <2>2, SeqIsSeq, Zenon
  <2> QED
    BY <2>1, <2>2, <2>3 DEF Writes, FirstEvents, x, y, z
<1>2. Writes(q, PresetEvents(r, a, options), l, b)
  <2> DEFINE x == <<"build", r, "canonical_alias", a>>
             y == <<"build", r, "join_rules", "initial">>
             z == <<"build", r, "name", "initial">>
  <2>1. \A w \in {x, y, z} : w[1] = "build" /\ StepOK(w, b) /\ l[w[2]] = q
    BY DEF StepOK, RoomOf, NeedsLock, Types
  <2>2. PresetEvents(r, a, options) = (Optional(a # None, x) \o Optional(TRUE, y)) \o Optional("name" \in options, z)
    BY DEF PresetEvents, Optional
  <2> HIDE DEF x, y, z
  <2>3. /\ Writes(q, Optional(a # None, x), l, b) /\ Writes(q, Optional(TRUE, y), l, b)
        /\ Writes(q, Optional("name" \in options, z), l, b)
    BY <2>1, WritesOptional
  <2>4. Writes(q, Optional(a # None, x) \o Optional(TRUE, y), l, b)
    BY <2>3, WritesConcat, Zenon
  <2> QED
    BY <2>2, <2>3, <2>4, WritesConcat, Zenon
<1>3. RequestOK(q, AfterCreation(r, a, options), l, b)
  <2> DEFINE x == <<"unlock", r>>
             y == <<"invite", r>>
             z == <<"alias", a, r>>
             w == <<"public", r>>
             Y == Optional("invite" \in options, y)
             Z == Optional(a # None, z)
             W == Optional("public" \in options, w)
  <2>1. AfterCreation(r, a, options) = ((<<x>> \o Y) \o Z) \o W
    BY DEF AfterCreation
  <2>2. \A e \in {y, z, w} : e[1] # "unlock" /\ ~NeedsLock(e) /\ StepOK(e, b)
    BY DEF StepOK, RoomOf, NeedsLock
  <2>3. x[1] = "unlock" /\ StepOK(x, b) /\ l[RoomOf(x)] = q
    BY DEF StepOK, RoomOf, NeedsLock
  <2> HIDE DEF x, y, z, w
  <2>4. RequestOK(q, <<x>>, l, b)
    <3>1. IsSeq(<<x>>) /\ Len(<<x>>) = 1 /\ <<x>>[1] = x
      BY SingleIsSeq, Zenon
    <3>2. /\ \A i \in 1..Len(<<x>>) : i = 1 /\ <<x>>[i] = x
          /\ \A i, j \in 1..Len(<<x>>) : ~(i < j)
      BY <3>1
    <3> QED
      BY <2>3, <3>1, <3>2, Zenon DEF RequestOK, Covered, UnlocksLast
  <2>5. /\ RequestOK(q, Y, l, b) /\ \A i \in 1..Len(Y) : ~NeedsLock(Y[i])
        /\ RequestOK(q, Z, l, b) /\ \A i \in 1..Len(Z) : ~NeedsLock(Z[i])
        /\ RequestOK(q, W, l, b) /\ \A i \in 1..Len(W) : ~NeedsLock(W[i])
    <3>1. Free(Y, b) /\ Free(Z, b) /\ Free(W, b)
      BY <2>2, FreeOptional
    <3> HIDE DEF Y, Z, W
    <3> QED
      BY <3>1, FreeOK
  <2> HIDE DEF Y, Z, W
  <2>6. RequestOK(q, <<x>> \o Y, l, b)
    BY <2>4, <2>5, ConcatOK, Zenon
  <2>7. RequestOK(q, (<<x>> \o Y) \o Z, l, b)
    BY <2>5, <2>6, ConcatOK, Zenon
  <2>8. RequestOK(q, ((<<x>> \o Y) \o Z) \o W, l, b)
    BY <2>5, <2>7, ConcatOK, Zenon
  <2> QED
    BY <2>1, <2>8, Zenon
<1>4. Writes(q, FirstEvents(r) \o PresetEvents(r, a, options), l, b)
  BY <1>1, <1>2, WritesConcat, Zenon
<1> QED
  BY <1>3, <1>4, WritesOK, ConcatOK, Zenon

\* A room that is upgraded: both locks are asked for before they are needed.
LEMMA UpgradeStepsOK ==
  ASSUME NEW q, NEW old, NEW new, NEW l, NEW b, old \in b, new \in b
  PROVE  RequestOK(q, UpgradeSteps(old, new), l, b)
<1> DEFINE U == UpgradeSteps(old, new)
<1>1. /\ IsSeq(U) /\ Len(U) = 10
      /\ U[1] = <<"lock", old>> /\ U[2] = <<"build", old, "tombstone", new>>
      /\ U[3] = <<"lock", new>>
      /\ U[4] = <<"build", new, "create", old>> /\ U[5] = <<"build", new, "member", "initial">>
      /\ \A i \in 1..3 : U[5 + i] = <<"transfer", old, new, Transferable[i]>>
      /\ U[9] = <<"aliases", old, new>> /\ U[10] = <<"close", old>>
  BY UpgradeList
<1> HIDE DEF U
<1>2. \A i \in 6..8 : U[i] = <<"transfer", old, new, Transferable[i - 5]>> /\ Transferable[i - 5] \in Types
  BY <1>1, ThreeTypes
<1>3. \A i \in 1..10 : i = 1 \/ i = 2 \/ i = 3 \/ i = 4 \/ i = 5 \/ i \in 6..8 \/ i = 9 \/ i = 10
  OBVIOUS
<1>4. \A i \in 1..10 : /\ StepOK(U[i], b) /\ U[i][1] # "unlock"
                       /\ NeedsLock(U[i]) => \/ RoomOf(U[i]) = old /\ i > 1
                                             \/ RoomOf(U[i]) = new /\ i > 3
  <2> TAKE i \in 1..10
  <2>1. CASE i \in {1, 3}
    BY <1>1, <2>1 DEF StepOK, NeedsLock, RoomOf
  <2>2. CASE i \in {2, 4, 5}
    BY <1>1, <2>2 DEF StepOK, NeedsLock, RoomOf, Types
  <2>3. CASE i \in 6..8
    BY <1>2, <2>3 DEF StepOK, NeedsLock, RoomOf
  <2>4. CASE i \in {9, 10}
    BY <1>1, <2>4 DEF StepOK, NeedsLock, RoomOf
  <2> QED
    BY <1>3, <2>1, <2>2, <2>3, <2>4
<1>5. Covered(q, U, l)
  <2> SUFFICES ASSUME NEW i \in 1..Len(U), NeedsLock(U[i])
               PROVE  \E j \in 1..i - 1 : U[j] = <<"lock", RoomOf(U[i])>>
    BY DEF Covered
  <2>1. i \in 1..10
    BY <1>1
  <2>2. CASE RoomOf(U[i]) = old /\ i > 1
    <3>1. 1 \in 1..i - 1
      BY <2>1, <2>2
    <3> QED
      BY <1>1, <2>2, <3>1
  <2>3. CASE RoomOf(U[i]) = new /\ i > 3
    <3>1. 3 \in 1..i - 1
      BY <2>1, <2>3
    <3> QED
      BY <1>1, <2>3, <3>1
  <2> QED
    BY <1>4, <2>1, <2>2, <2>3
<1>6. UnlocksLast(U)
  BY <1>1, <1>4 DEF UnlocksLast
<1>7. RequestOK(q, U, l, b)
  BY <1>1, <1>4, <1>5, <1>6 DEF RequestOK
<1> QED
  BY <1>7 DEF U

\* A state event that a client sends.
LEMMA SendStepsOK ==
  ASSUME NEW q, NEW r, NEW ty \in Types, NEW content, NEW l, NEW b, r \in b
  PROVE  RequestOK(q, << <<"lock", r>>, <<"build", r, ty, content>> >>, l, b)
<1> DEFINE x == <<"lock", r>>
           y == <<"build", r, ty, content>>
           s == <<x, y>>
<1>1. x[1] = "lock" /\ x[2] = r /\ ~NeedsLock(x) /\ StepOK(x, b)
  BY DEF StepOK, NeedsLock, RoomOf
<1>2. y[1] = "build" /\ RoomOf(y) = r /\ StepOK(y, b)
  BY DEF StepOK, NeedsLock, RoomOf
<1>3. x = <<"lock", RoomOf(y)>>
  BY <1>2
<1> HIDE DEF x, y
<1>4. s \in Seq({x, y}) /\ Len(s) = 2 /\ s[1] = x /\ s[2] = y
  OBVIOUS
<1>5. IsSeq(s)
  BY <1>4, SeqIsSeq, Zenon
<1> HIDE DEF s
<1>6. \A i \in 1..Len(s) : (i = 1 /\ s[i] = x) \/ (i = 2 /\ s[i] = y)
  BY <1>4
<1>7. Covered(q, s, l)
  <2> SUFFICES ASSUME NEW i \in 1..Len(s), NeedsLock(s[i])
               PROVE  \E j \in 1..i - 1 : s[j] = <<"lock", RoomOf(s[i])>>
    BY DEF Covered
  <2>1. i = 2 /\ s[i] = y
    BY <1>1, <1>6
  <2>2. 1 \in 1..i - 1
    BY <2>1
  <2> QED
    BY <1>3, <1>4, <2>1, <2>2
<1>8. UnlocksLast(s)
  <2>1. \A i \in 1..Len(s) : s[i][1] # "unlock"
    BY <1>1, <1>2, <1>6
  <2> QED
    BY <2>1 DEF UnlocksLast
<1>9. RequestOK(q, s, l, b)
  BY <1>1, <1>2, <1>5, <1>6, <1>7, <1>8 DEF RequestOK
<1> QED
  BY <1>9 DEF s, x, y

-----------------------------------------------------------------------------
(* One lemma for each request. *)

\* A request that does nothing upgrades nothing.
LEMMA IdleUpgrade ==
  ASSUME IInv, NEW q \in Requests, todo[q] = <<>>
  PROVE  upgrade[q] = <<>> /\ upgrade = [upgrade EXCEPT ![q] = <<>>]
<1>1. UpgradeOK(q, upgrade[q], todo[q], lock, short, state)
  BY DEF IInv, UpgradeInv
<1>2. ASSUME NEW old, NEW new, NEW k \in 1..9, Before(q, todo[q], k, old, new, lock, state)
      PROVE  FALSE
  <2>1. todo[q] = SubSeq(UpgradeSteps(old, new), k, 10)
    BY <1>2 DEF Before
  <2>2. SubSeq(UpgradeSteps(old, new), k, 10) # <<>>
    BY UpgradeRest, Zenon
  <2> QED
    BY <2>1, <2>2, Zenon
<1>3. upgrade[q] = <<>>
  BY <1>1, <1>2, Zenon DEF UpgradeOK, Closing
<1>4. upgrade = [p \in Requests |-> upgrade[p]]
  BY DEF IInv, WorldInv
<1> QED
  BY <1>3, <1>4

\* A request may begin with a list of steps that is covered.
LEMMA StartKeeps ==
  ASSUME IInv, NEW q \in Requests, NEW s, NEW u, Start(q, s), upgrade' = [upgrade EXCEPT ![q] = u],
         short \subseteq short', short' \subseteq Rooms, lock' \in [Rooms -> Requests \cup {None}],
         \A r \in Rooms : lock'[r] # None => r \in short',
         \A r \in Rooms : lock[r] \notin {q, None} => lock'[r] = lock[r],
         RequestOK(q, s, lock', short'), UpgradeOK(q, u, s, lock', short', state)
  PROVE  IInv'
<1>1. todo' = [todo EXCEPT ![q] = s] /\ state' = state /\ aliasRows' = aliasRows
  BY DEF Start, directory
<1>2. WorldInv'
  BY <1>1, WorldKept, StateKnown
<1>3. UpgradeOK(q, u, s, lock', short', state')
  BY <1>1
<1>4. \A r \in Rooms : lock[r] \notin {q, None} => lock'[r] = lock[r] /\ state'[r] = state[r]
  BY <1>1
<1> QED
  BY <1>1, <1>2, <1>3, <1>4, Frame

\* A request that takes no lock by starting and upgrades nothing.
LEMMA PlainRequestKeeps ==
  ASSUME IInv, NEW q \in Requests, NEW s, Start(q, s), upgrade' = upgrade, lock' = lock,
         short \subseteq short', short' \subseteq Rooms, RequestOK(q, s, lock, short')
  PROVE  IInv'
<1>1. upgrade' = [upgrade EXCEPT ![q] = <<>>]
  BY IdleUpgrade DEF Start
<1>2. UpgradeOK(q, <<>>, s, lock', short', state)
  BY DEF UpgradeOK
<1>3. /\ lock' \in [Rooms -> Requests \cup {None}]
      /\ \A r \in Rooms : lock'[r] # None => r \in short'
      /\ \A r \in Rooms : lock[r] \notin {q, None} => lock'[r] = lock[r]
  BY StateKnown
<1>4. RequestOK(q, s, lock', short')
  OBVIOUS
<1> QED
  BY <1>1, <1>2, <1>3, <1>4, StartKeeps

\* A new ID is that of no room, so nobody has its lock.
LEMMA NewRoomIdOK ==
  ASSUME IInv, short # Rooms
  PROVE  NewRoomId \in Rooms \ short
<1>1. \E r \in Rooms : r \notin short
  BY StateKnown
<1> QED
  BY <1>1 DEF NewRoomId

\* CreateRoomRoute preserves the invariant: the lock of a new ID is free.
LEMMA CreateRoomKeeps ==
  ASSUME IInv, NEW q \in Requests, NEW a, NEW options, CreateRoomRoute(q, NewRoomId, a, options)
  PROVE  IInv'
<1> DEFINE r == NewRoomId
           s == FirstEvents(r) \o PresetEvents(r, a, options) \o AfterCreation(r, a, options)
<1>1. /\ short # Rooms /\ short' = short \cup {r} /\ upgrade' = upgrade
      /\ \/ Start(q, s) /\ lock' = [lock EXCEPT ![r] = q]
         \/ Start(q, <<>>) /\ lock' = lock
  BY DEF CreateRoomRoute
<1>2. r \in Rooms \ short /\ short \subseteq Rooms
  BY <1>1, NewRoomIdOK, StateKnown
<1>3. lock[r] = None
  BY <1>2, StateKnown
<1> HIDE DEF r
<1>4. CASE Start(q, <<>>) /\ lock' = lock
  BY <1>1, <1>2, <1>4, EmptyOK, PlainRequestKeeps
<1>5. CASE Start(q, s) /\ lock' = [lock EXCEPT ![r] = q]
  <2>1. /\ lock' \in [Rooms -> Requests \cup {None}]
        /\ \A x \in Rooms : lock'[x] = IF x = r THEN q ELSE lock[x]
    BY <1>2, <1>5, StateKnown
  <2>2. /\ \A x \in Rooms : lock'[x] # None => x \in short'
        /\ \A x \in Rooms : lock[x] \notin {q, None} => lock'[x] = lock[x]
        /\ lock'[r] = q /\ r \in short' /\ short \subseteq short' /\ short' \subseteq Rooms
    BY <1>1, <1>2, <1>3, <2>1, StateKnown
  <2>3. RequestOK(q, s, lock', short')
    BY <2>2, CreateStepsOK, Zenon
  <2> HIDE DEF s
  <2>4. UpgradeOK(q, <<>>, s, lock', short', state)
    BY DEF UpgradeOK
  <2>5. upgrade' = [upgrade EXCEPT ![q] = <<>>]
    BY <1>1, <1>5, IdleUpgrade DEF Start
  <2> QED
    BY <1>5, <2>1, <2>2, <2>3, <2>4, <2>5, StartKeeps
<1> QED
  BY <1>1, <1>4, <1>5

\* UpgradeRoomRoute preserves the invariant: the two rooms differ.
LEMMA UpgradeRoomKeeps ==
  ASSUME IInv, NEW q \in Requests, NEW old \in Rooms, UpgradeRoomRoute(q, old, NewRoomId)
  PROVE  IInv'
<1> DEFINE new == NewRoomId
           U == UpgradeSteps(old, new)
<1>1. /\ short # Rooms /\ old \in short /\ short' = short \cup {new}
      /\ Start(q, U) /\ upgrade' = [upgrade EXCEPT ![q] = <<old, new>>] /\ lock' = lock
  BY DEF UpgradeRoomRoute
<1>2. new \in Rooms \ short /\ short \subseteq Rooms
  BY <1>1, NewRoomIdOK, StateKnown
<1> HIDE DEF new
<1>3. /\ lock' \in [Rooms -> Requests \cup {None}]
      /\ \A r \in Rooms : lock'[r] # None => r \in short'
      /\ \A r \in Rooms : lock[r] \notin {q, None} => lock'[r] = lock[r]
      /\ old \in short' /\ new \in short' /\ short \subseteq short' /\ short' \subseteq Rooms
      /\ old # new
  BY <1>1, <1>2, StateKnown
<1>4. RequestOK(q, U, lock', short')
  BY <1>3, UpgradeStepsOK, Zenon
<1>5. UpgradeOK(q, <<old, new>>, U, lock', short', state)
  <2>1. IsSeq(U) /\ Len(U) = 10
    BY UpgradeList
  <2> HIDE DEF U
  <2>2. U = SubSeq(U, 1, 10)
    <3>1. SubSeq(U, 1, Len(U)) = U
      BY <2>1, SubSeqFull DEF IsSeq
    <3> QED
      BY <2>1, <3>1, Zenon
  <2>3. 1 \in 1..9 /\ ~(1 > 1) /\ ~(1 > 3) /\ ~(1 > 4)
    OBVIOUS
  <2>4. Before(q, U, 1, old, new, lock', state)
    BY <2>2, <2>3, Zenon DEF Before, U
  <2> QED
    BY <1>3, <2>3, <2>4, Zenon DEF UpgradeOK
<1> HIDE DEF U
<1> QED
  BY <1>1, <1>3, <1>4, <1>5, StartKeeps

\* CreateAliasRoute preserves the invariant.
LEMMA CreateAliasKeeps ==
  ASSUME IInv, NEW q \in Requests, NEW a, NEW r, CreateAliasRoute(q, a, r)
  PROVE  IInv'
<1> DEFINE x == <<"alias", a, r>>
<1>1. Start(q, <<x>>) /\ short' = short /\ lock' = lock /\ upgrade' = upgrade
  BY DEF CreateAliasRoute
<1>2. x[1] # "unlock" /\ ~NeedsLock(x) /\ StepOK(x, short)
  BY DEF StepOK, NeedsLock
<1> HIDE DEF x
<1>3. Free(Optional(TRUE, x), short) /\ Optional(TRUE, x) = <<x>>
  BY <1>2, FreeOptional DEF Optional
<1>4. RequestOK(q, <<x>>, lock, short')
  BY <1>1, <1>3, FreeOK, Zenon
<1> QED
  BY <1>1, <1>4, PlainRequestKeeps, StateKnown

\* DeleteAliasRoute preserves the invariant.
LEMMA DeleteAliasKeeps ==
  ASSUME IInv, NEW q \in Requests, NEW a, DeleteAliasRoute(q, a)
  PROVE  IInv'
<1> DEFINE x == <<"find", ResolveLocalAlias(a)>>
           y == <<"noalias", a>>
           s == <<x, y>>
<1>1. Start(q, s) /\ short' = short /\ lock' = lock /\ upgrade' = upgrade
  BY DEF DeleteAliasRoute
<1>2. \A w \in {x, y} : w[1] # "unlock" /\ ~NeedsLock(w) /\ StepOK(w, short)
  BY DEF StepOK, NeedsLock
<1> HIDE DEF x, y
<1>3. s \in Seq({x, y}) /\ Len(s) = 2 /\ \A i \in 1..2 : s[i] \in {x, y}
  OBVIOUS
<1>4. IsSeq(s)
  BY <1>3, SeqIsSeq, Zenon
<1> HIDE DEF s
<1>5. Free(s, short)
  BY <1>2, <1>3, <1>4 DEF Free
<1>6. RequestOK(q, s, lock, short')
  BY <1>1, <1>5, FreeOK
<1> QED
  BY <1>1, <1>6, PlainRequestKeeps, StateKnown

\* SendStateEvent preserves the invariant.
LEMMA SendStateEventKeeps ==
  ASSUME IInv, NEW q \in Requests, NEW r, NEW ty \in Types, NEW content,
         SendStateEvent(q, r, ty, content)
  PROVE  IInv'
<1> DEFINE s == << <<"lock", r>>, <<"build", r, ty, content>> >>
<1>1. r \in short /\ Start(q, s) /\ short' = short /\ lock' = lock /\ upgrade' = upgrade
  BY DEF SendStateEvent
<1>2. RequestOK(q, s, lock, short)
  BY <1>1, SendStepsOK, Zenon
<1> HIDE DEF s
<1>3. RequestOK(q, s, lock, short')
  BY <1>1, <1>2
<1> QED
  BY <1>1, <1>3, PlainRequestKeeps, StateKnown

-----------------------------------------------------------------------------
(* The invariant, and what it gives. *)

\* The invariant holds at the start.
LEMMA InitOK == Init => IInv
<1> SUFFICES ASSUME Init PROVE IInv
  OBVIOUS
<1>1. "create" \in Types /\ "create" \notin {"tombstone", "canonical_alias", "name"}
  BY DEF Types
<1>2. \A r \in Rooms, ty \in Types : state[r][ty] =
        IF r \in short /\ ty \notin {"tombstone", "canonical_alias", "name"} THEN "initial" ELSE None
  BY DEF Init
<1>3. IsState(state)
  BY DEF Init, IsState
<1>4. \A r \in Rooms : ~Exists(r) => \A ty \in Types : state[r][ty] = None
  BY <1>1, <1>2 DEF Exists
<1>5. IsFiniteSet(aliasRows)
  <2>1. IsFiniteSet({<<AdminRoom, 1, AdminAlias>>})
    BY FS_Singleton
  <2>2. aliasRows = {<<AdminRoom, 1, AdminAlias>>} \cup {<<OldRoom, 2, OldAlias>>}
    BY DEF Init
  <2> QED
    BY <2>1, <2>2, FS_AddElement
<1>6. WorldInv
  BY <1>3, <1>4, <1>5, NewRoomsAssumption DEF Init, WorldInv, IsState
<1>7. ASSUME NEW q \in Requests
      PROVE  RequestInv(q) /\ UpgradeInv(q)
  <2>1. todo[q] = <<>> /\ upgrade[q] = <<>>
    BY DEF Init
  <2> QED
    BY <2>1, EmptyOK DEF RequestInv, UpgradeInv, UpgradeOK
<1> QED
  BY <1>6, <1>7 DEF IInv

\* Crash preserves the invariant: a crash forgets requests and locks alike.
LEMMA CrashKeeps ==
  ASSUME IInv, Crash
  PROVE  IInv'
<1>1. /\ todo' = [q \in Requests |-> <<>>] /\ upgrade' = [q \in Requests |-> <<>>]
      /\ lock' = [r \in Rooms |-> None]
      /\ short' = short /\ state' = state /\ aliasRows' = aliasRows
  BY DEF Crash, directory
<1>2. WorldInv'
  BY <1>1 DEF IInv, WorldInv, Exists
<1>3. ASSUME NEW q \in Requests
      PROVE  RequestInv(q)' /\ UpgradeInv(q)'
  <2>1. todo'[q] = <<>> /\ upgrade'[q] = <<>>
    BY <1>1
  <2> QED
    BY <2>1, EmptyOK DEF RequestInv, UpgradeInv, UpgradeOK
<1> QED
  BY <1>2, <1>3 DEF IInv

\* What the invariant speaks of is untouched.
LEMMA SameKeeps ==
  ASSUME IInv, short' = short, state' = state, lock' = lock, aliasRows' = aliasRows,
         todo' = todo, upgrade' = upgrade
  PROVE  IInv'
  BY DEF IInv, WorldInv, RequestInv, UpgradeInv, Exists

\* Every step of a request preserves the invariant.
LEMMA StepKeeps ==
  ASSUME IInv, NEW q \in Requests, Step(q)
  PROVE  IInv'
  BY LockKeyKeeps, DropTokenKeeps, InviteHelperKeeps, BuildKeeps, TransferKeeps, CloseKeeps,
     MoveAliasesKeeps, SetAliasKeeps, SetAliasRowKeeps, FindAliasRowsKeeps, RemoveAliasRowKeeps,
     RemoveAliasKeeps, SetPublicKeeps, Zenon DEF Step

\* Every new request preserves the invariant.
LEMMA RequestKeeps ==
  ASSUME IInv, NEW q \in Requests, Request(q)
  PROVE  IInv'
<1>1. {"name", "join_rules", "power_levels", "canonical_alias"} \subseteq Types
  BY DEF Types
<1>2. CASE \E a \in Aliases \cup {None}, options \in SUBSET {"name", "invite", "public"} :
             CreateRoomRoute(q, NewRoomId, a, options)
  BY <1>2, CreateRoomKeeps, Zenon
<1>3. CASE \E old \in Rooms : UpgradeRoomRoute(q, old, NewRoomId)
  BY <1>3, UpgradeRoomKeeps, Zenon
<1>4. CASE \E a \in Aliases, r \in Rooms : CreateAliasRoute(q, a, r)
  BY <1>4, CreateAliasKeeps, Zenon
<1>5. CASE \E a \in Aliases : DeleteAliasRoute(q, a)
  BY <1>5, DeleteAliasKeeps, Zenon
<1>6. CASE \E r \in Rooms, ty \in {"name", "join_rules", "power_levels"} : SendStateEvent(q, r, ty, "new")
  <2>1. PICK r \in Rooms, ty \in {"name", "join_rules", "power_levels"} : SendStateEvent(q, r, ty, "new")
    BY <1>6
  <2>2. ty \in Types
    BY <1>1
  <2> QED
    BY <2>1, <2>2, SendStateEventKeeps, Zenon
<1>7. CASE \E r \in Rooms, a \in Aliases : SendStateEvent(q, r, "canonical_alias", a)
  <2>1. "canonical_alias" \in Types
    BY <1>1
  <2> QED
    BY <1>7, <2>1, SendStateEventKeeps, Zenon
<1> QED
  BY <1>2, <1>3, <1>4, <1>5, <1>6, <1>7, Zenon DEF Request

\* The invariant is inductive.
LEMMA NextKeeps == IInv /\ [Next]_vars => IInv'
<1> SUFFICES ASSUME IInv, [Next]_vars PROVE IInv'
  OBVIOUS
<1>1. CASE \E q \in Requests : Step(q) \/ Request(q)
  BY <1>1, StepKeeps, RequestKeeps, Zenon
<1>2. CASE \E r \in Rooms, visible \in BOOLEAN : SetRoomVisibilityRoute(r, visible)
  BY <1>2, SameKeeps, Zenon DEF SetRoomVisibilityRoute
<1>3. CASE Crash
  BY <1>3, CrashKeeps
<1>4. CASE UNCHANGED vars
  BY <1>4, SameKeeps DEF vars, directory
<1> QED
  BY <1>1, <1>2, <1>3, <1>4, Zenon DEF Next

\* The rooms, the requests and the upgrades are as IInv says in every reachable
\* state, for any number of requests, rooms, aliases and crashes: each step of
\* create_room_route, upgrade_room_route and send_state_event that writes to a
\* room is taken under the lock of that room.
THEOREM NewRoomsInductive == Spec => []IInv
  BY InitOK, NextKeeps, PTL DEF Spec

\* The invariant implies the property.
LEMMA CopiesIfOK == IInv => UpgradeCopiesTheState
<1> SUFFICES ASSUME IInv, NEW q \in Requests, upgrade[q] # <<>>,
                    Head(todo[q])[1] \in {"aliases", "alias", "row", "close"},
                    NEW i \in 1..Len(Transferable)
             PROVE  state[upgrade[q][2]][Transferable[i]] = state[upgrade[q][1]][Transferable[i]]
  BY DEF UpgradeCopiesTheState
<1>1. UpgradeOK(q, upgrade[q], todo[q], lock, short, state)
  BY DEF IInv, UpgradeInv
<1>2. PICK old \in short, new \in short :
        /\ upgrade[q] = <<old, new>> /\ old # new
        /\ \/ \E k \in 1..9 : AtStep(q, todo[q], k, old, new, lock, state)
           \/ Closing(q, todo[q], old, new, lock, state)
  BY <1>1, UpgradeHead
<1>3. upgrade[q][1] = old /\ upgrade[q][2] = new /\ i \in 1..3
  BY <1>2, ThreeTypes
<1>4. ASSUME NEW k \in 1..9, AtStep(q, todo[q], k, old, new, lock, state)
      PROVE  state[new][Transferable[i]] = state[old][Transferable[i]]
  <2>1. k \in {1, 3} \/ k \in {2, 4, 5} \/ k \in 6..8 \/ k = 9
    OBVIOUS
  <2>2. Head(todo[q]) = UpgradeSteps(old, new)[k]
    BY <1>4, Zenon DEF AtStep
  <2>3. /\ k \in {1, 3} => Head(todo[q])[1] = "lock"
        /\ k \in {2, 4, 5} => Head(todo[q])[1] = "build"
        /\ k \in 6..8 => Head(todo[q])[1] = "transfer"
    BY <2>2, UpgradeKinds
  <2>4. k = 9
    BY <2>1, <2>3
  <2> QED
    BY <1>3, <1>4, <2>4 DEF AtStep, Before
<1>5. CASE Closing(q, todo[q], old, new, lock, state)
  BY <1>3, <1>5 DEF Closing
<1> QED
  BY <1>2, <1>3, <1>4, <1>5

\* When upgrade_room_route has transferred the state, and until it closes the
\* old room, the two rooms agree on every transferable type, whatever other
\* requests send meanwhile.
THEOREM UpgradeCopies == Spec => []UpgradeCopiesTheState
  BY NewRoomsInductive, CopiesIfOK, PTL

=============================================================================
