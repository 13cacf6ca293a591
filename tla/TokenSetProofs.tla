--------------------------- MODULE TokenSetProofs ---------------------------
(***************************************************************************)
(* Proofs about TokenSet.tla.  The heart is RefInv: every client of a key  *)
(* holds the value the map's weak reference points to, so the clients of a *)
(* key compete for one Mutex.  QueueInv is the mutual exclusion of that    *)
(* Mutex.  From both follow OneTokenPerKey and the refinement of KeyLock.  *)
(***************************************************************************)
EXTENDS TokenSet, TLAPS

\* Initially the map is empty and every client is idle.
LEMMA InitIInv == Init => IInv
  BY DEF Init, IInv, TypeOK, RefInv, QueueInv, Pcs, Registered, Queueing

\* A call starts without references.
LEMMA LockKeyStep ==
  ASSUME IInv, NEW c \in Clients, NEW k \in Keys, LockKey(c, k)
  PROVE  IInv'
<1> USE DEF IInv
<1>1. TypeOK'
  BY DEF TypeOK, LockKey, Pcs
<1>2. RefInv'
  BY DEF TypeOK, RefInv, LockKey, Registered
<1>3. QueueInv'
  BY DEF TypeOK, QueueInv, LockKey, Queueing
<1> QED
  BY <1>1, <1>2, <1>3

\* A live entry is shared; a new value is known to nobody else.
LEMMA FirstPassStep ==
  ASSUME IInv, NEW c \in Clients, FirstPass(c)
  PROVE  IInv'
<1> USE DEF IInv
<1>1. TypeOK'
  BY DEF TypeOK, FirstPass, Pcs, Free
<1>2. CASE Live(entries[key[c]]) /\ pc' = [pc EXCEPT ![c] = "entering"]
  <2>1. ref' = [ref EXCEPT ![c] = entries[key[c]]] /\ UNCHANGED <<entries, key, ahead>>
    BY <1>2 DEF FirstPass
  <2>2. RefInv'
    BY <1>2, <2>1 DEF TypeOK, RefInv, Registered, Live
  <2> QED
    BY <1>1, <1>2, <2>1, <2>2 DEF TypeOK, QueueInv, Queueing
<1>3. CASE ~Live(entries[key[c]]) /\ pc' = [pc EXCEPT ![c] = "creating"]
  <2>1. PICK v \in Free : ref' = [ref EXCEPT ![c] = v] /\ UNCHANGED <<entries, key, ahead>>
    BY <1>3 DEF FirstPass
  <2>2. v # NoValue
    BY NoValueAssumption DEF Free
  <2>3. RefInv'
    BY <1>3, <2>1, <2>2 DEF TypeOK, RefInv, Registered, Free
  <2> QED
    BY <1>1, <1>3, <2>1, <2>3 DEF TypeOK, QueueInv, Queueing
<1> QED
  BY <1>2, <1>3 DEF FirstPass

\* Under the write lock a client joins the live value, or its own replaces a
\* dead one that no registered client refers to.
LEMMA SecondPassStep ==
  ASSUME IInv, NEW c \in Clients, SecondPass(c)
  PROVE  IInv'
<1> USE DEF IInv
<1>0. pc' = [pc EXCEPT ![c] = "entering"] /\ pc[c] = "creating" /\ UNCHANGED <<key, ahead>>
  BY DEF SecondPass
<1>1. TypeOK'
  BY DEF TypeOK, SecondPass, Pcs
<1>2. CASE /\ Live(entries[key[c]])
           /\ ref' = [ref EXCEPT ![c] = entries[key[c]]]
           /\ UNCHANGED entries
  <2>1. RefInv'
    BY <1>0, <1>2 DEF TypeOK, RefInv, Registered, Live
  <2> QED
    BY <1>0, <1>1, <1>2, <2>1 DEF TypeOK, QueueInv, Queueing
<1>3. CASE /\ ~Live(entries[key[c]])
           /\ entries' = [entries EXCEPT ![key[c]] = ref[c]]
           /\ UNCHANGED ref
  <2>1. \A d \in Clients : pc[d] \in Registered => key[d] # key[c]
    BY <1>3 DEF RefInv, Live
  <2>2. RefInv'
    BY <1>0, <1>3, <2>1 DEF TypeOK, RefInv, Registered
  <2> QED
    BY <1>0, <1>1, <1>3, <2>2 DEF TypeOK, QueueInv, Queueing
<1> QED
  BY <1>2, <1>3 DEF SecondPass

\* The steps that touch neither the map nor a reference.
LEMMA QueueStep ==
  ASSUME IInv, NEW c \in Clients,
         Enter(c) \/ Grant(c) \/ DropToken(c) \/ Unlock(c) \/ CancelGuard(c)
  PROVE  IInv'
<1> USE DEF IInv
<1>1. TypeOK'
  <2>1. CASE Enter(c) \/ Grant(c) \/ Unlock(c)
    BY <2>1 DEF TypeOK, Enter, Grant, Unlock, Pcs, LeaveQueue
  <2>2. CASE DropToken(c) \/ CancelGuard(c)
    <3>1. key[c] \in Keys /\ cleanup \in Seq(Keys) /\ cleanup' = Append(cleanup, key[c])
      BY <2>2 DEF TypeOK, DropToken, CancelGuard
    <3>2. cleanup' \in Seq(Keys)
      BY <3>1
    <3> QED
      BY <2>2, <3>2 DEF TypeOK, DropToken, CancelGuard, Pcs
  <2> QED
    BY <2>1, <2>2
<1>2. RefInv'
  BY DEF TypeOK, RefInv, Enter, Grant, DropToken, Unlock, CancelGuard, Registered
<1>3. QueueInv'
  <2>1. CASE Enter(c)
    BY <2>1 DEF TypeOK, QueueInv, Enter, Queueing
  <2>2. CASE Grant(c) \/ DropToken(c) \/ CancelGuard(c)
    BY <2>2 DEF TypeOK, QueueInv, Grant, DropToken, CancelGuard, Queueing
  <2>3. CASE Unlock(c)
    BY <2>3 DEF TypeOK, QueueInv, Unlock, LeaveQueue, Queueing
  <2> QED
    BY <2>1, <2>2, <2>3
<1> QED
  BY <1>1, <1>2, <1>3

\* The steps that drop a reference.
LEMMA DropStep ==
  ASSUME IInv, NEW c \in Clients, DropRef(c) \/ CancelEarly(c) \/ CancelLocking(c)
  PROVE  IInv'
<1> USE DEF IInv
<1>1. TypeOK'
  BY DEF TypeOK, DropRef, CancelEarly, CancelLocking, Pcs, LeaveQueue
<1>2. RefInv'
  <2>1. /\ pc'[c] \in {"idle", "cancelled"}
        /\ ref' = [ref EXCEPT ![c] = NoValue]
        /\ \A d \in Clients \ {c} : pc'[d] = pc[d]
        /\ UNCHANGED <<entries, key>>
    BY DEF TypeOK, DropRef, CancelEarly, CancelLocking
  <2> QED
    BY <2>1 DEF TypeOK, RefInv, Registered
<1>3. QueueInv'
  BY DEF TypeOK, QueueInv, DropRef, CancelEarly, CancelLocking, LeaveQueue, Queueing
<1> QED
  BY <1>1, <1>2, <1>3

\* The cleanup task removes entries no client holds.
LEMMA CleanupStep ==
  ASSUME IInv, CleanupEntry
  PROVE  IInv'
<1> USE DEF IInv
<1> DEFINE k == Head(cleanup)
<1>1. k \in Keys /\ cleanup' \in Seq(Keys)
  BY DEF TypeOK, CleanupEntry
<1>2. /\ UNCHANGED <<pc, key, ref, ahead>>
      /\ entries' = [entries EXCEPT ![k] = IF Live(entries[k]) THEN entries[k] ELSE NoValue]
  BY DEF CleanupEntry
<1> HIDE DEF k
<1>3. TypeOK'
  BY <1>1, <1>2 DEF TypeOK
<1>4. \A c \in Clients : pc[c] \in Registered => entries'[key[c]] = entries[key[c]]
  BY <1>1, <1>2 DEF TypeOK, RefInv, Live
<1>5. \A l \in Keys : entries'[l] = entries[l] \/ entries'[l] = NoValue
  BY <1>1, <1>2 DEF TypeOK
<1>6. RefInv'
  BY <1>2, <1>4, <1>5 DEF TypeOK, RefInv
<1>7. QueueInv'
  BY <1>2 DEF QueueInv
<1> QED
  BY <1>3, <1>6, <1>7

\* Every step keeps the inductive invariant.
LEMMA NextIInv == IInv /\ [Next]_vars => IInv'
<1> SUFFICES ASSUME IInv, [Next]_vars
             PROVE  IInv'
  OBVIOUS
<1>1. CASE UNCHANGED vars
  BY <1>1 DEF vars, IInv, TypeOK, RefInv, QueueInv
<1>2. CASE CleanupEntry
  BY <1>2, CleanupStep
<1>3. CASE \E c \in Clients :
             \/ \E k \in Keys : LockKey(c, k)
             \/ Proceed(c) \/ CancelEarly(c) \/ CancelLocking(c)
  BY <1>3, LockKeyStep, FirstPassStep, SecondPassStep, QueueStep, DropStep DEF Proceed
<1> QED
  BY <1>1, <1>2, <1>3 DEF Next

\* IInv holds in every reachable state.
THEOREM Invariance == Spec => []IInv
  BY InitIInv, NextIInv, PTL DEF Spec

\* Two owners of a key would have the same Mutex, and one be ahead of the other.
LEMMA IInvOneToken == IInv => OneTokenPerKey
  BY DEF IInv, RefInv, QueueInv, OneTokenPerKey, Registered, Queueing

\* For any number of tasks and rooms: no two tokens of a key exist.
THEOREM MutualExclusion == Spec => []OneTokenPerKey
  BY Invariance, IInvOneToken, PTL

\* The map, the references and the queues keep their types.
THEOREM TypeCorrect == Spec => []TypeOK
<1>1. IInv => TypeOK
  BY DEF IInv
<1> QED
  BY <1>1, Invariance, PTL

\* The initial states are initial states of the abstract lock.
LEMMA InitLock == Init => Lock!Init
  BY DEF Init, Lock!Init, AbstractPhase

\* Every step of the map is a step of the abstract lock or leaves it unchanged.
LEMMA NextLock == IInv /\ [Next]_vars => [Lock!Next]_Lock!lockVars
<1> SUFFICES ASSUME IInv, [Next]_vars
             PROVE  Lock!Next \/ UNCHANGED Lock!lockVars
  BY DEF Lock!lockVars
<1> DEFINE phase == [d \in Clients |-> AbstractPhase(d)]
<1>0. TypeOK
  BY DEF IInv
<1>1. CASE CleanupEntry \/ UNCHANGED vars
  <2>1. UNCHANGED <<pc, key>>
    BY <1>1 DEF CleanupEntry, vars
  <2> QED
    BY <2>1 DEF Lock!lockVars, AbstractPhase
<1>2. ASSUME NEW c \in Clients, NEW k \in Keys, LockKey(c, k)
      PROVE  Lock!Next
  <2>1. pc[c] = "idle" /\ pc' = [pc EXCEPT ![c] = "reading"] /\ key' = [key EXCEPT ![c] = k]
    BY <1>2 DEF LockKey
  <2>2. phase' = [phase EXCEPT ![c] = "waiting"] /\ phase[c] = "idle"
    BY <1>0, <2>1 DEF TypeOK, AbstractPhase
  <2>3. Lock!Request(c, k)
    BY <2>1, <2>2 DEF Lock!Request
  <2> QED
    BY <2>3 DEF Lock!Next
<1>3. ASSUME NEW c \in Clients,
             FirstPass(c) \/ SecondPass(c) \/ Enter(c) \/ DropToken(c) \/ DropRef(c)
               \/ CancelGuard(c)
      PROVE  UNCHANGED Lock!lockVars
  <2>1. UNCHANGED phase
    BY <1>0, <1>3 DEF TypeOK, AbstractPhase, FirstPass, SecondPass, Enter, DropToken,
       DropRef, CancelGuard
  <2>2. UNCHANGED key
    BY <1>3 DEF FirstPass, SecondPass, Enter, DropToken, DropRef, CancelGuard
  <2> QED
    BY <2>1, <2>2 DEF Lock!lockVars
<1>4. ASSUME NEW c \in Clients, Grant(c)
      PROVE  Lock!Next
  <2>1. /\ pc[c] = "locking" /\ pc' = [pc EXCEPT ![c] = "holding"] /\ UNCHANGED key
        /\ IInv'
    BY <1>4, QueueStep DEF Grant
  <2>2. phase' = [phase EXCEPT ![c] = "owning"] /\ phase[c] = "waiting"
    BY <1>0, <2>1 DEF TypeOK, AbstractPhase
  <2>3. ASSUME NEW d \in Clients, phase[d] = "owning"
        PROVE  key[d] # key[c]
    <3>1. d # c /\ pc[d] \in {"holding", "dropping"}
      BY <1>0, <2>1, <2>2, <2>3 DEF TypeOK, AbstractPhase
    <3>2. pc'[d] \in {"holding", "dropping"} /\ pc'[c] = "holding"
      BY <1>0, <2>1, <3>1 DEF TypeOK
    <3>3. key'[d] # key'[c]
      BY <2>1, <3>1, <3>2, IInvOneToken DEF IInv, RefInv, QueueInv, Registered, Queueing
    <3> QED
      BY <2>1, <3>3
  <2>4. Lock!Grant(c)
    BY <2>1, <2>2, <2>3 DEF Lock!Grant
  <2> QED
    BY <2>4 DEF Lock!Next
<1>5. ASSUME NEW c \in Clients, Unlock(c) \/ CancelEarly(c) \/ CancelLocking(c)
      PROVE  Lock!Next
  <2>1. /\ pc[c] \in {"dropping", "reading", "creating", "locking"} /\ UNCHANGED key
        /\ \E p \in {"unlocked", "idle", "cancelled"} : pc' = [pc EXCEPT ![c] = p]
    BY <1>5 DEF Unlock, CancelEarly, CancelLocking
  <2>2. phase' = [phase EXCEPT ![c] = "idle"] /\ phase[c] # "idle"
    BY <1>0, <2>1 DEF TypeOK, AbstractPhase
  <2>3. Lock!Leave(c)
    BY <2>1, <2>2 DEF Lock!Leave
  <2> QED
    BY <2>3 DEF Lock!Next
<1> QED
  BY <1>1, <1>2, <1>3, <1>4, <1>5 DEF Next, Proceed

\* TokenSet implements one lock per key, for any number of tasks and keys.
THEOREM Refinement == Spec => ImplementsKeyLock
  BY InitLock, NextLock, Invariance, PTL DEF Spec, ImplementsKeyLock, Lock!Spec

=============================================================================
