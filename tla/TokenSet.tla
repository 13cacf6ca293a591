------------------------------ MODULE TokenSet ------------------------------
(***************************************************************************)
(* TokenSet, the per-room locks, over OnDemandHashMap, a map of weak       *)
(* references whose dead entries a background task removes                 *)
(* (utils/on_demand_hashmap.rs).                                           *)
(*                                                                         *)
(* A value is one Arc<Mutex>.  The strong references to it are held by the *)
(* clients (`ref'), the weak one is the map's.  The sections under the     *)
(* RwLock of the map contain no await: each is one action, while a drop of *)
(* a strong reference happens at any time, on another thread.              *)
(***************************************************************************)
EXTENDS Integers, FiniteSets, Sequences

CONSTANTS
  Clients,     \* the tasks that call lock_key(), one call at a time
  Keys,
  Values,      \* allocations of a Mutex
  NoValue,     \* no entry in the map, no reference held
  MaxBacklog   \* bound: cleanup messages pending, calls in progress included

ASSUME NoValueAssumption == NoValue \notin Values

ASSUME ClientsAssumption == IsFiniteSet(Clients) /\ MaxBacklog \in Nat

VARIABLES
  entries,   \* SharedData::entries: per key, the value its Weak points to
  pc,        \* where a client is
  key,       \* the key of its call
  ref,       \* the value it holds a strong reference to
  ahead,     \* its place in the fair queue of the Mutex: who comes first
  cleanup    \* the channel to the cleanup task

vars == <<entries, pc, key, ref, ahead, cleanup>>

\* reading, creating: waits for the read, the write lock of the map
\* entering, locking, holding: the three ends of lock_owned().await
\* dropping, unlocked: inside the drop of a KeyToken, field by field
\* cancelled: inside the drop of the future of lock_key()
Pcs == {"idle", "reading", "creating", "entering", "locking", "holding",
        "dropping", "unlocked", "cancelled"}

\* The clients that hold an Arc that came from the map.
Registered == {"entering", "locking", "holding", "dropping", "unlocked"}

\* The clients in the Mutex' queue; its owner is the one nobody is ahead of.
Queueing == {"locking", "holding", "dropping"}

Init ==
  /\ entries = [k \in Keys |-> NoValue]
  /\ pc = [c \in Clients |-> "idle"]
  /\ key \in [Clients -> Keys]
  /\ ref = [c \in Clients |-> NoValue]
  /\ ahead = [c \in Clients |-> {}]
  /\ cleanup = <<>>

\* weak.strong_count() != 0, and what upgrade() tests
Live(v) == v # NoValue /\ \E c \in Clients : ref[c] = v

\* Allocations to which neither a strong nor a weak reference exists.
Free == {v \in Values : (\A c \in Clients : ref[c] # v) /\ (\A k \in Keys : entries[k] # v)}

----------------------------------------------------------------------------
\* A client calls lock_key().
LockKey(c, k) ==
  /\ pc[c] = "idle"
  /\ Len(cleanup) + Cardinality({d \in Clients : pc[d] # "idle"}) < MaxBacklog
  /\ pc' = [pc EXCEPT ![c] = "reading"]
  /\ key' = [key EXCEPT ![c] = k]
  /\ UNCHANGED <<entries, ref, ahead, cleanup>>

\* get_or_insert_with under the read lock; without a live value a new one is
\* allocated after the lock is released.
FirstPass(c) ==
  /\ pc[c] = "reading"
  /\ \/ /\ Live(entries[key[c]])
        /\ ref' = [ref EXCEPT ![c] = entries[key[c]]]
        /\ pc' = [pc EXCEPT ![c] = "entering"]
     \/ /\ ~Live(entries[key[c]])
        /\ \E v \in Free : ref' = [ref EXCEPT ![c] = v]
        /\ pc' = [pc EXCEPT ![c] = "creating"]
  /\ UNCHANGED <<entries, key, ahead, cleanup>>

\* get_or_insert_with under the write lock: the value another client inserted
\* in the meantime, or the new one.
SecondPass(c) ==
  /\ pc[c] = "creating"
  /\ \/ /\ Live(entries[key[c]])
        /\ ref' = [ref EXCEPT ![c] = entries[key[c]]]
        /\ UNCHANGED entries
     \/ /\ ~Live(entries[key[c]])
        /\ entries' = [entries EXCEPT ![key[c]] = ref[c]]
        /\ UNCHANGED ref
  /\ pc' = [pc EXCEPT ![c] = "entering"]
  /\ UNCHANGED <<key, ahead, cleanup>>

\* lock_owned() puts the client at the end of the queue of its Mutex.
Enter(c) ==
  /\ pc[c] = "entering"
  /\ ahead' = [ahead EXCEPT ![c] = {d \in Clients : pc[d] \in Queueing /\ ref[d] = ref[c]}]
  /\ pc' = [pc EXCEPT ![c] = "locking"]
  /\ UNCHANGED <<entries, key, ref, cleanup>>

\* lock_owned() returns, and with it lock_key().
Grant(c) ==
  /\ pc[c] = "locking"
  /\ ahead[c] = {}
  /\ pc' = [pc EXCEPT ![c] = "holding"]
  /\ UNCHANGED <<entries, key, ref, ahead, cleanup>>

LeaveQueue(c) == ahead' = [d \in Clients |-> IF d = c THEN {} ELSE ahead[d] \ {c}]

\* The fields of a KeyToken are dropped in the order of their declaration: the
\* drop_guard sends the key to the cleanup task ...
DropToken(c) ==
  /\ pc[c] = "holding"
  /\ cleanup' = Append(cleanup, key[c])
  /\ pc' = [pc EXCEPT ![c] = "dropping"]
  /\ UNCHANGED <<entries, key, ref, ahead>>

\* ... then the OwnedMutexGuard unlocks the Mutex ...
Unlock(c) ==
  /\ pc[c] = "dropping"
  /\ LeaveQueue(c)
  /\ pc' = [pc EXCEPT ![c] = "unlocked"]
  /\ UNCHANGED <<entries, key, ref, cleanup>>

\* ... and drops its Arc.
DropRef(c) ==
  /\ pc[c] = "unlocked"
  /\ ref' = [ref EXCEPT ![c] = NoValue]
  /\ pc' = [pc EXCEPT ![c] = "idle"]
  /\ UNCHANGED <<entries, key, ahead, cleanup>>

\* The future of lock_key() is dropped while it waits for a lock of the map: no
\* drop_guard exists yet.
CancelEarly(c) ==
  /\ pc[c] \in {"reading", "creating"}
  /\ ref' = [ref EXCEPT ![c] = NoValue]
  /\ pc' = [pc EXCEPT ![c] = "idle"]
  /\ UNCHANGED <<entries, key, ahead, cleanup>>

\* Mutant: the place in the queue is kept.
CancelInQueue(c) ==
  /\ pc[c] = "locking"
  /\ ref' = [ref EXCEPT ![c] = NoValue]
  /\ pc' = [pc EXCEPT ![c] = "cancelled"]
  /\ UNCHANGED <<entries, key, ahead, cleanup>>

\* It is dropped while it waits for the Mutex: the Arc goes first ...
CancelLocking(c) ==
  /\ pc[c] = "locking"
  /\ LeaveQueue(c)
  /\ ref' = [ref EXCEPT ![c] = NoValue]
  /\ pc' = [pc EXCEPT ![c] = "cancelled"]
  /\ UNCHANGED <<entries, key, cleanup>>

\* ... and the drop_guard second.
CancelGuard(c) ==
  /\ pc[c] = "cancelled"
  /\ cleanup' = Append(cleanup, key[c])
  /\ pc' = [pc EXCEPT ![c] = "idle"]
  /\ UNCHANGED <<entries, key, ref, ahead>>

\* Mutant: the entry is removed without a look at its strong count.
CleanupAlways ==
  /\ cleanup # <<>>
  /\ entries' = [entries EXCEPT ![Head(cleanup)] = NoValue]
  /\ cleanup' = Tail(cleanup)
  /\ UNCHANGED <<pc, key, ref, ahead>>

\* The cleanup task: recv(), then try_cleanup_entry under the write lock.
CleanupEntry ==
  /\ cleanup # <<>>
  /\ LET k == Head(cleanup)
     IN  entries' = [entries EXCEPT ![k] = IF Live(@) THEN @ ELSE NoValue]
  /\ cleanup' = Tail(cleanup)
  /\ UNCHANGED <<pc, key, ref, ahead>>

----------------------------------------------------------------------------
\* What a client does on its own, and what it may do.
Proceed(c) ==
  \/ FirstPass(c) \/ SecondPass(c) \/ Enter(c) \/ Grant(c)
  \/ DropToken(c) \/ Unlock(c) \/ DropRef(c) \/ CancelGuard(c)

Next ==
  \/ \E c \in Clients :
       (\E k \in Keys : LockKey(c, k)) \/ Proceed(c) \/ CancelEarly(c) \/ CancelLocking(c)
  \/ CleanupEntry

Spec == Init /\ [][Next]_vars

(***************************************************************************)
(* Fairness.  A task that can run is run, so the sections under the RwLock *)
(* are reached, the first of the Mutex' queue gets it, and a token is      *)
(* dropped when its owner's request is over.  Nothing makes a client call  *)
(* or cancel.                                                              *)
(***************************************************************************)
FairSpec ==
  /\ Spec
  /\ \A c \in Clients : WF_vars(Proceed(c))
  /\ WF_vars(CleanupEntry)

----------------------------------------------------------------------------
(* Properties.                                                             *)

\* Type correctness of the map, the clients and the channel.
TypeOK ==
  /\ entries \in [Keys -> Values \cup {NoValue}]
  /\ pc \in [Clients -> Pcs]
  /\ key \in [Clients -> Keys]
  /\ ref \in [Clients -> Values \cup {NoValue}]
  /\ ahead \in [Clients -> SUBSET Clients]
  /\ cleanup \in Seq(Keys)

\* "Ownership of this token proves that no other KeyToken for this key in this
\* TokenSet currently exists": no interleaving of calls, cancellations, drops
\* and cleanups gives two clients of a key two different Mutexes.
OneTokenPerKey ==
  \A c, d \in Clients :
    /\ pc[c] \in {"holding", "dropping"}
    /\ pc[d] \in {"holding", "dropping"}
    /\ key[c] = key[d]
    => c = d

\* Nobody waits forever in lock_key() when tokens are dropped.
CallEventuallyReturns ==
  \A c \in Clients : pc[c] = "reading" ~> pc[c] \in {"holding", "cancelled", "idle"}

----------------------------------------------------------------------------
(* The inductive invariant (proved in TokenSetProofs).                     *)

\* All the clients of a key hold the value its entry points to; a value that
\* is not in the map yet is known to its creator only.
RefInv ==
  /\ \A c \in Clients :
       /\ pc[c] \in Registered => ref[c] # NoValue /\ entries[key[c]] = ref[c]
       /\ pc[c] \in {"idle", "reading", "cancelled"} => ref[c] = NoValue
       /\ pc[c] = "creating" =>
            /\ ref[c] # NoValue
            /\ \A k \in Keys : entries[k] # ref[c]
            /\ \A d \in Clients : ref[d] = ref[c] => d = c
  /\ \A k, l \in Keys : entries[k] = entries[l] /\ entries[k] # NoValue => k = l

\* The queue of a Mutex is linear, and who has the Mutex is at its head.
QueueInv ==
  /\ \A c, d \in Clients :
       pc[c] \in Queueing /\ pc[d] \in Queueing /\ ref[c] = ref[d] /\ c # d =>
         c \in ahead[d] \/ d \in ahead[c]
  /\ \A c \in Clients : pc[c] \in {"holding", "dropping"} => ahead[c] = {}

IInv == TypeOK /\ RefInv /\ QueueInv

----------------------------------------------------------------------------
(* The abstract specification.  A client counts as owning until the Mutex  *)
(* is unlocked.                                                            *)

AbstractPhase(c) ==
  CASE pc[c] \in {"idle", "unlocked", "cancelled"} -> "idle"
    [] pc[c] \in {"holding", "dropping"} -> "owning"
    [] OTHER -> "waiting"

Lock == INSTANCE KeyLock WITH phase <- [c \in Clients |-> AbstractPhase(c)]

\* The map of weak references implements one lock per key.
ImplementsKeyLock == Lock!Spec

=============================================================================
