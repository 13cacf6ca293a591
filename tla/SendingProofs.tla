--------------------------- MODULE SendingProofs ---------------------------
(***************************************************************************)
(* Theorems about Sending, for every value of its constants.               *)
(***************************************************************************)
EXTENDS Sending, FiniteSetTheorems, WellFoundedInduction, TLAPS

-----------------------------------------------------------------------------
(* The least and the greatest of a set of numbers. *)

\* A nonempty set of naturals has a least element, which is where a scan starts.
LEMMA LeastExists ==
  ASSUME NEW S \in SUBSET Nat, S # {}
  PROVE  \E k \in S : \A j \in S : k =< j
<1> DEFINE R == OpToRel(<, Nat)
<1>1. IsWellFoundedOn(R, Nat)
  BY NatLessThanWellFounded
<1> HIDE DEF R
<1>2. PICK x \in S : \A y \in S : ~ (<<y, x>> \in R)
  BY <1>1, WFMin
<1>3. \A y \in S : ~ (y < x)
  BY <1>2 DEF R, OpToRel
<1> QED
  BY <1>3

\* A nonempty bounded set of naturals has a greatest element.
LEMMA GreatestExists ==
  ASSUME NEW S \in SUBSET Nat, S # {}, NEW b \in Nat, \A j \in S : j =< b
  PROVE  \E m \in S : \A j \in S : j =< m
<1> DEFINE U == {u \in Nat : \A j \in S : j =< u}
<1>1. PICK m \in U : \A u \in U : m =< u
  <2>1. b \in U
    OBVIOUS
  <2> QED
    BY <2>1, LeastExists
<1>2. \E j \in S : j = m
  <2> SUFFICES ASSUME \A j \in S : j # m PROVE FALSE
    OBVIOUS
  <2>1. \A j \in S : j < m
    BY <1>1
  <2>2. m - 1 \in Nat
    <3>1. PICK j \in S : j \in Nat
      OBVIOUS
    <3>2. m \in Nat /\ j < m
      BY <2>1, <1>1
    <3> QED
      BY <3>1, <3>2
  <2>3. \A j \in S : j =< m - 1
    BY <2>1, <1>1
  <2>4. m - 1 \in U
    BY <2>2, <2>3
  <2> QED
    BY <2>4, <1>1
<1> QED
  BY <1>1, <1>2

----------------------------------------------------------------------------
(* Scans: the least element and the first n.                               *)

\* Least returns an element of its argument, below all the others.
LEMMA LeastIsLeast ==
  ASSUME NEW S \in SUBSET Nat, S # {}
  PROVE  Least(S) \in S /\ \A j \in S : Least(S) =< j
BY LeastExists DEF Least

\* A set of request keys is finite.
LEMMA KeysFinite ==
  ASSUME NEW S \in SUBSET Keys
  PROVE  IsFiniteSet(S) /\ Cardinality(S) \in Nat
<1>1. IsFiniteSet(Keys)
  BY KeysAssumption, FS_Interval DEF Keys
<1>2. IsFiniteSet(S)
  BY <1>1, FS_Subset
<1> QED
  BY <1>2, FS_CardinalityType

\* Take(S, n) has at most n elements ...
LEMMA TakeIsBounded ==
  ASSUME NEW S \in SUBSET Keys, NEW n \in Nat \ {0}
  PROVE  /\ Take(S, n) \subseteq S
         /\ Cardinality(Take(S, n)) =< n
<1>1. Take(S, n) \subseteq S
  BY DEF Take
<1>2. CASE Take(S, n) = {}
  BY <1>1, <1>2, FS_EmptySet
<1>3. CASE Take(S, n) # {}
  <2> DEFINE T == Take(S, n)
  <2>1. T \in SUBSET Nat /\ \A j \in T : j =< MaxKey
    <3>1. \A j \in Keys : j \in Nat /\ j =< MaxKey
      BY KeysAssumption DEF Keys
    <3>2. \A j \in T : j \in Keys
      BY <1>1
    <3> QED
      BY <3>1, <3>2
  <2>2. PICK m \in T : \A j \in T : j =< m
    BY <1>3, <2>1, GreatestExists, KeysAssumption
  <2> DEFINE B == {j \in S : j < m}
  <2>3. Cardinality(B) < n
    BY <2>2 DEF Take
  <2>4. T \ {m} \in SUBSET B
    BY <1>1, <2>1, <2>2
  <2>5. IsFiniteSet(B) /\ Cardinality(B) \in Nat
    <3>1. B \in SUBSET Keys
      OBVIOUS
    <3> QED
      BY <3>1, KeysFinite
  <2>6. Cardinality(T \ {m}) =< Cardinality(B)
    BY <2>4, <2>5, FS_Subset
  <2>7. IsFiniteSet(T) /\ Cardinality(T) \in Nat
    <3>1. T \in SUBSET Keys
      BY <1>1
    <3> QED
      BY <3>1, KeysFinite
  <2>8. Cardinality(T \ {m}) = Cardinality(T) - 1
    BY <2>2, <2>7, FS_RemoveElement
  <2> HIDE DEF T, B
  <2>9. Cardinality(T) =< n
    BY <2>3, <2>5, <2>6, <2>7, <2>8
  <2> QED
    BY <2>9, <1>1 DEF T
<1> QED
  BY <1>1, <1>2, <1>3

\* ... and is S when S is small enough.
LEMMA TakeOfSmallSet ==
  ASSUME NEW S \in SUBSET Keys, NEW n \in Nat, Cardinality(S) =< n
  PROVE  Take(S, n) = S
<1> SUFFICES ASSUME NEW k \in S
             PROVE  Cardinality({j \in S : j < k}) < n
  BY DEF Take
<1> DEFINE B == {j \in S : j < k}
<1>1. B \in SUBSET (S \ {k})
  BY DEF Keys
<1>2. IsFiniteSet(S) /\ Cardinality(S) \in Nat
  BY KeysFinite
<1>3. /\ IsFiniteSet(S \ {k})
      /\ Cardinality(S \ {k}) = Cardinality(S) - 1
  BY <1>2, FS_RemoveElement
<1>4. /\ IsFiniteSet(B)
      /\ Cardinality(B) =< Cardinality(S \ {k})
  BY <1>1, <1>3, FS_Subset
<1>5. Cardinality(B) \in Nat
  BY <1>4, FS_CardinalityType
<1> HIDE DEF B
<1>6. Cardinality(B) < n
  BY <1>2, <1>3, <1>4, <1>5
<1> QED
  BY <1>6 DEF B

----------------------------------------------------------------------------
(* The handler's locals while it works on a destination.                   *)

\* A busy handler's record has all the fields, with their types.
LEMMA BusyType ==
  ASSUME TypeOK, Busy
  PROVE  /\ handler \in [pc : {"deleting", "marking", "unqueueing", "edus"},
              dest : Destinations, batch : SUBSET Keys, todo : SUBSET Keys,
              origin : {"receiver", "response"}, rooms : SUBSET Rooms,
              picked : SUBSET Nat, last : Nat]
         /\ handler.todo # {} => Least(handler.todo) \in handler.todo
<1>1. handler \in HandlerState
  BY DEF TypeOK
<1>2. handler \in [pc : {"deleting", "marking", "unqueueing", "edus"},
              dest : Destinations, batch : SUBSET Keys, todo : SUBSET Keys,
              origin : {"receiver", "response"}, rooms : SUBSET Rooms,
              picked : SUBSET Nat, last : Nat]
  BY <1>1 DEF HandlerState, Busy
<1>3. handler.todo \in SUBSET Nat
  BY <1>2 DEF Keys
<1> QED
  BY <1>2, <1>3, LeastIsLeast

\* The initial state satisfies the inductive invariant.
LEMMA InitIInv == Init => IInv
<1> SUFFICES ASSUME Init PROVE IInv
  OBVIOUS
<1>1. TypeOK
  BY LimitsAssumption DEF Init, TypeOK, HandlerState, Status, NoStatus
<1>2. NothingLost /\ OneTransactionPerDestination /\ FuturesInv
  BY DEF Init, NothingLost, OneTransactionPerDestination, FuturesInv
<1>3. HandlerInv /\ StatusInv /\ FailedInv
  BY DEF Init, HandlerInv, StatusInv, FailedInv, Busy, NoStatus
<1>4. ActiveBounded
  BY LimitsAssumption, FS_EmptySet DEF Init, ActiveBounded
<1> QED
  BY <1>1, <1>2, <1>3, <1>4 DEF IInv

----------------------------------------------------------------------------
(* Every action preserves the invariant.                                   *)

\* A caller persists a request: it is queued, nothing else moves.
LEMMA QueueRequestsStep ==
  ASSUME IInv, NEW D \in SUBSET Destinations, NEW k \in Keys, QueueRequests(D, k)
  PROVE  IInv'
<1> USE DEF IInv
<1>1. TypeOK'
  BY DEF TypeOK, QueueRequests
<1>2. NothingLost'
  BY DEF TypeOK, NothingLost, QueueRequests
<1>3. OneTransactionPerDestination' /\ FuturesInv' /\ HandlerInv' /\ StatusInv' /\ FailedInv'
  BY DEF QueueRequests, FailedInv, OneTransactionPerDestination, FuturesInv, HandlerInv,
         StatusInv, Busy, InProgress
<1>4. ActiveBounded'
  BY DEF QueueRequests, ActiveBounded
<1> QED
  BY <1>1, <1>2, <1>3, <1>4

\* Sending on the channel, and new ephemeral events, touch no tree of requests.
LEMMA ChannelAndEduStep ==
  ASSUME IInv, (\E m \in unsent : SendOnChannel(m)) \/ (\E e \in EduEvent : NewEdu(e))
  PROVE  IInv'
<1> USE DEF IInv
<1>1. TypeOK'
  <2>1. CASE \E m \in unsent : SendOnChannel(m)
    BY <2>1 DEF TypeOK, SendOnChannel, trees, history
  <2>2. CASE \E e \in EduEvent : NewEdu(e)
    BY <2>2 DEF TypeOK, NewEdu, memory, history
  <2> QED
    BY <2>1, <2>2
<1>2. /\ UNCHANGED <<queued, active, status, futures, handler>>
      /\ UNCHANGED <<requested, delivered, tried>>
  BY DEF SendOnChannel, NewEdu, trees, memory, history
<1>3. NothingLost' /\ ActiveBounded'
  BY <1>2 DEF NothingLost, ActiveBounded
<1>4. OneTransactionPerDestination' /\ FuturesInv' /\ HandlerInv' /\ StatusInv' /\ FailedInv'
  BY <1>2 DEF FailedInv, OneTransactionPerDestination, FuturesInv, HandlerInv,
              StatusInv, Busy, InProgress
<1> QED
  BY <1>1, <1>3, <1>4

\* Startup drops nothing, and launches what was active.
LEMMA StartHandlerStep ==
  ASSUME IInv, StartHandler
  PROVE  IInv'
<1> USE DEF IInv
<1>1. \A d \in Destinations : Take(active[d], InitialLimit + 1) = active[d]
  <2> SUFFICES ASSUME NEW d \in Destinations
               PROVE  Take(active[d], InitialLimit + 1) = active[d]
    OBVIOUS
  <2>1. active[d] \in SUBSET Keys
    BY DEF TypeOK
  <2>2. Cardinality(active[d]) \in Nat
    BY <2>1, KeysFinite
  <2>3. Cardinality(active[d]) =< InitialLimit + 1
    BY <2>2, LimitsAssumption DEF ActiveBounded
  <2> QED
    BY <2>1, <2>3, TakeOfSmallSet, LimitsAssumption
<1>2. active' = active
  BY <1>1 DEF StartHandler, TypeOK
<1> DEFINE pending == {d \in Destinations : active[d] # {}}
<1>3. futures' = {Launch(d, active[d], {}) : d \in pending}
  BY <1>1 DEF StartHandler
<1>4. TypeOK'
  BY <1>2, <1>3 DEF StartHandler, TypeOK, Transaction, Phases, Launch, HandlerState, Idle,
     Status, NoStatus, Running, history
<1>5. NothingLost' /\ ActiveBounded'
  BY <1>2 DEF StartHandler, NothingLost, ActiveBounded, history
<1>6. OneTransactionPerDestination'
  <2>1. \A f \in futures' : f = Launch(f.dest, active[f.dest], {})
    BY <1>3 DEF Launch
  <2>2. handler' = [pc |-> "idle"]
    BY DEF StartHandler, Idle
  <2> QED
    BY <2>1, <2>2 DEF OneTransactionPerDestination, Busy
<1>7. FuturesInv'
  BY <1>2, <1>3 DEF StartHandler, FuturesInv, Launch, InProgress, Running, TypeOK
<1>8. HandlerInv' /\ StatusInv' /\ FailedInv'
  BY <1>2 DEF StartHandler, HandlerInv, StatusInv, FailedInv, Busy, Idle, Running,
              NoStatus, TypeOK
<1> QED
  BY <1>4, <1>5, <1>6, <1>7, <1>8

\* The head of the channel is a request.
LEMMA HeadIsRequest ==
  ASSUME TypeOK, channel # <<>>
  PROVE  /\ Head(channel).dest \in Destinations
         /\ Head(channel).key \in Keys
         /\ Tail(channel) \in Seq([dest : Destinations, key : Keys])
<1> DEFINE X == [dest : Destinations, key : Keys]
<1>1. channel \in Seq(X)
  BY DEF TypeOK
<1> HIDE DEF X
<1>2. Head(channel) \in X /\ Tail(channel) \in Seq(X)
  BY <1>1
<1> QED
  BY <1>2 DEF X

\* A request held off changes only the channel.
LEMMA HoldOffStep ==
  ASSUME IInv, HoldOff
  PROVE  IInv'
<1> USE DEF IInv
<1>1. TypeOK'
  BY DEF TypeOK, HoldOff, trees, history
<1>2. NothingLost' /\ ActiveBounded'
  BY DEF HoldOff, NothingLost, ActiveBounded, trees, history
<1>3. OneTransactionPerDestination' /\ FuturesInv' /\ HandlerInv' /\ StatusInv' /\ FailedInv'
  BY DEF HoldOff, FailedInv, OneTransactionPerDestination, FuturesInv, HandlerInv,
         StatusInv, Busy, InProgress, trees, history
<1> QED
  BY <1>1, <1>2, <1>3

\* A retry sends what is active for a destination nothing was running for.
LEMMA RetryOldStep ==
  ASSUME IInv, RetryOld
  PROVE  IInv'
<1> USE DEF IInv
<1> DEFINE d == Head(channel).dest
           f0 == Launch(d, active[d], {})
<1>1. d \in Destinations /\ channel' \in Seq([dest : Destinations, key : Keys])
  BY HeadIsRequest DEF RetryOld
<1>2. /\ status[d].state = "failed"
      /\ status' = [status EXCEPT ![d] = Retrying(status[d].tries)]
      /\ futures' = futures \cup {f0}
      /\ UNCHANGED <<queued, active, educount, edus, unsent, handler>>
      /\ UNCHANGED <<requested, delivered, tried, failures, crashes, dbErrors>>
      /\ handler.pc = "idle"
  BY DEF RetryOld, trees, history
<1>3. f0 \in Transaction
  BY <1>1 DEF TypeOK, Transaction, Launch, Phases
<1> HIDE DEF d, f0
<1>4. TypeOK'
  BY <1>1, <1>2, <1>3 DEF TypeOK, Status, Retrying
<1>5. NothingLost' /\ ActiveBounded'
  BY <1>2 DEF NothingLost, ActiveBounded
<1>6. f0.dest = d /\ f0.events = active[d] /\ f0.phase = "waiting"
  BY DEF f0, Launch
<1>7. \A f \in futures : f.dest # d
  BY <1>2 DEF FuturesInv, InProgress
<1>8. OneTransactionPerDestination'
  BY <1>2, <1>6, <1>7 DEF OneTransactionPerDestination, Busy
<1>9. active[d] # {}
  BY <1>1, <1>2 DEF FailedInv
<1>10. FuturesInv'
  BY <1>1, <1>2, <1>6, <1>7, <1>9 DEF FuturesInv, InProgress, Retrying, TypeOK, Transaction
<1>11. HandlerInv' /\ StatusInv' /\ FailedInv'
  BY <1>1, <1>2 DEF HandlerInv, StatusInv, FailedInv, Busy, Retrying, TypeOK
<1> QED
  BY <1>4, <1>5, <1>8, <1>10, <1>11

\* A new transaction starts to be marked, for a destination nothing is active for.
LEMMA SelectNewStep ==
  ASSUME IInv, SelectNew
  PROVE  IInv'
<1> USE DEF IInv
<1> DEFINE d == Head(channel).dest
           k == Head(channel).key
<1>1. d \in Destinations /\ k \in Keys /\ channel' \in Seq([dest : Destinations, key : Keys])
  BY HeadIsRequest DEF SelectNew
<1>2. /\ status[d].state = "none"
      /\ status' = [status EXCEPT ![d] = Running]
      /\ handler' = Working("marking", d, {k}, {k}, "receiver", {}, {}, 0)
      /\ UNCHANGED <<queued, active, educount, edus, unsent, futures>>
      /\ UNCHANGED <<requested, delivered, tried, failures, crashes, dbErrors>>
      /\ handler.pc = "idle"
  BY DEF SelectNew, trees, history
<1> HIDE DEF d, k
<1>3. TypeOK'
  BY <1>1, <1>2 DEF TypeOK, Status, Running, HandlerState, Working
<1>4. NothingLost' /\ ActiveBounded'
  BY <1>2 DEF NothingLost, ActiveBounded
<1>5. \A f \in futures : f.dest # d
  BY <1>2 DEF FuturesInv, InProgress
<1>6. OneTransactionPerDestination' /\ FuturesInv'
  BY <1>1, <1>2, <1>5 DEF OneTransactionPerDestination, FuturesInv, InProgress, Working,
     TypeOK, Transaction
<1>7. active[d] = {}
  BY <1>1, <1>2 DEF StatusInv
<1>8. Cardinality({k}) =< BatchLimit
  <2>1. Cardinality({k}) = 1
    BY FS_Singleton
  <2> QED
    BY <2>1, LimitsAssumption
<1>9. HandlerInv' /\ StatusInv' /\ FailedInv'
  BY <1>1, <1>2, <1>7, <1>8 DEF HandlerInv, StatusInv, FailedInv, Working, InProgress,
     Running, Busy, TypeOK
<1> QED
  BY <1>3, <1>4, <1>6, <1>9

\* A failure leaves the batch in the active tree.
LEMMA MarkFailedStep ==
  ASSUME IInv, NEW f \in futures, MarkFailed(f)
  PROVE  IInv'
<1> USE DEF IInv
<1>1. /\ f \in Transaction /\ f.dest \in Destinations
      /\ InProgress(f.dest) /\ active[f.dest] # {} /\ f.events = active[f.dest]
  BY DEF TypeOK, FuturesInv, Transaction
<1>2. PICK n \in Nat : status' = [status EXCEPT ![f.dest] = Failed(n)]
  <2>1. CASE status[f.dest].state = "running"
    <3>1. status' = [status EXCEPT ![f.dest] = Failed(1)]
      BY <2>1 DEF MarkFailed
    <3> QED
      BY <3>1
  <2>2. CASE status[f.dest].state = "retrying"
    <3>1. status' = [status EXCEPT ![f.dest] = Failed(status[f.dest].tries + 1)]
      BY <2>2 DEF MarkFailed
    <3>2. status[f.dest].tries + 1 \in Nat
      BY <1>1 DEF TypeOK, Status
    <3> QED
      BY <3>1, <3>2
  <2> QED
    BY <1>1, <2>1, <2>2 DEF InProgress
<1>3. /\ futures' = futures \ {f}
      /\ UNCHANGED <<queued, active, educount, edus, unsent, channel, handler>>
      /\ UNCHANGED <<requested, delivered, failures, crashes, dbErrors>>
      /\ tried' = [tried EXCEPT ![f.dest] = [events |-> f.events, edus |-> f.edus]]
      /\ handler.pc = "idle"
  BY DEF MarkFailed, trees, history
<1>4. TypeOK'
  <2>1. [events |-> f.events, edus |-> f.edus] \in [events : SUBSET Keys, edus : SUBSET Nat]
    BY <1>1 DEF Transaction
  <2> QED
    BY <1>1, <1>2, <1>3, <2>1 DEF TypeOK, Status, Failed
<1>5. NothingLost' /\ ActiveBounded'
  BY <1>3 DEF NothingLost, ActiveBounded
<1>6. \A g \in futures' : g \in futures /\ g.dest # f.dest
  BY <1>3 DEF OneTransactionPerDestination
<1>7. OneTransactionPerDestination' /\ FuturesInv'
  BY <1>2, <1>3, <1>6 DEF OneTransactionPerDestination, FuturesInv, InProgress, Busy,
     TypeOK, Transaction
<1>8. HandlerInv' /\ StatusInv'
  BY <1>1, <1>2, <1>3 DEF HandlerInv, StatusInv, Failed, Busy, TypeOK
<1>9. FailedInv'
  BY <1>1, <1>2, <1>3 DEF FailedInv, TypeOK
<1> QED
  BY <1>4, <1>5, <1>7, <1>8, <1>9

\* A success: everything active for the destination has been delivered.
LEMMA TakeSuccessStep ==
  ASSUME IInv, NEW f \in futures, TakeSuccess(f)
  PROVE  IInv'
<1> USE DEF IInv
<1>1. /\ f \in Transaction /\ f.dest \in Destinations
      /\ InProgress(f.dest) /\ active[f.dest] \subseteq delivered[f.dest]
  BY DEF TypeOK, FuturesInv, Transaction, TakeSuccess
<1>2. /\ futures' = futures \ {f}
      /\ handler' = Working("deleting", f.dest, {}, {}, "response", {}, {}, 0)
      /\ UNCHANGED <<queued, active, educount, edus, unsent, channel, status>>
      /\ UNCHANGED <<requested, delivered, tried, failures, crashes, dbErrors>>
      /\ handler.pc = "idle"
  BY DEF TakeSuccess, trees, history
<1>3. TypeOK'
  BY <1>1, <1>2 DEF TypeOK, HandlerState, Working
<1>4. NothingLost' /\ ActiveBounded' /\ FailedInv'
  BY <1>2 DEF NothingLost, ActiveBounded, FailedInv
<1>5. \A g \in futures' : g \in futures /\ g.dest # f.dest
  BY <1>2 DEF OneTransactionPerDestination
<1>6. OneTransactionPerDestination' /\ FuturesInv'
  BY <1>2, <1>5 DEF OneTransactionPerDestination, FuturesInv, InProgress, Working
<1>7. HandlerInv' /\ StatusInv'
  BY <1>1, <1>2 DEF HandlerInv, StatusInv, Working, InProgress, Busy
<1> QED
  BY <1>3, <1>4, <1>6, <1>7

\* Deleting an active request loses nothing: it has been delivered.
LEMMA DeleteActiveStep ==
  ASSUME IInv, DeleteActive
  PROVE  IInv'
<1> USE DEF IInv
<1> DEFINE d == handler.dest
           k == Least(active[d])
<1>1. Busy /\ d \in Destinations /\ InProgress(d)
  BY BusyType DEF DeleteActive, Busy, HandlerInv
<1>2. /\ active' = [active EXCEPT ![d] = @ \ {k}]
      /\ UNCHANGED <<queued, educount, edus, unsent, channel, status, futures, handler>>
      /\ UNCHANGED <<requested, delivered, tried, failures, crashes, dbErrors>>
      /\ handler.pc = "deleting"
      /\ active[d] \subseteq delivered[d]
  BY DEF DeleteActive, memory, history, HandlerInv
<1> HIDE DEF k
<1>3. TypeOK'
  BY <1>1, <1>2 DEF TypeOK
<1>4. NothingLost'
  BY <1>1, <1>2 DEF NothingLost, TypeOK
<1>5. ActiveBounded'
  <2>1. active[d] \in SUBSET Keys /\ IsFiniteSet(active[d]) /\ Cardinality(active[d]) \in Nat
    BY <1>1, KeysFinite DEF TypeOK
  <2>2. Cardinality(active[d] \ {k}) =< Cardinality(active[d])
    BY <2>1, FS_RemoveElement
  <2>3. Cardinality(active[d] \ {k}) \in Nat
    BY <2>1, FS_RemoveElement, FS_CardinalityType
  <2>4. Cardinality(active[d] \ {k}) =< BatchLimit
    BY <1>1, <2>1, <2>2, <2>3, LimitsAssumption DEF ActiveBounded
  <2> QED
    BY <1>1, <1>2, <2>4 DEF ActiveBounded, TypeOK
<1>6. \A f \in futures : f.dest # d
  BY <1>1 DEF OneTransactionPerDestination
<1>7. OneTransactionPerDestination' /\ FuturesInv'
  BY <1>1, <1>2, <1>6 DEF OneTransactionPerDestination, FuturesInv, InProgress, Busy,
     TypeOK, Transaction
<1>8. HandlerInv' /\ StatusInv' /\ FailedInv'
  BY <1>1, <1>2 DEF HandlerInv, StatusInv, FailedInv, InProgress, Busy, TypeOK
<1> QED
  BY <1>3, <1>4, <1>5, <1>7, <1>8

\* The next batch is what mark_as_active will move, at most BatchLimit requests.
LEMMA NextBatchStep ==
  ASSUME IInv, NextBatch
  PROVE  IInv'
<1> USE DEF IInv
<1> DEFINE d == handler.dest
           batch == Take(queued[d], BatchLimit)
<1>1. Busy /\ d \in Destinations /\ InProgress(d) /\ handler.pc = "deleting"
  BY BusyType DEF NextBatch, Busy, HandlerInv
<1>2. /\ active[d] = {}
      /\ UNCHANGED <<queued, active, educount, edus, unsent, channel, futures>>
      /\ UNCHANGED <<requested, delivered, tried, failures, crashes, dbErrors>>
  BY DEF NextBatch, trees, history
<1>3. batch \in SUBSET Keys /\ Cardinality(batch) =< BatchLimit
  BY <1>1, TakeIsBounded, LimitsAssumption DEF TypeOK
<1>4. NothingLost' /\ ActiveBounded'
  BY <1>2 DEF NothingLost, ActiveBounded
<1>5. \A f \in futures : f.dest # d
  BY <1>1 DEF OneTransactionPerDestination
<1>6. CASE /\ status' = [status EXCEPT ![d] = NoStatus]
           /\ handler' = Idle
  <2>1. TypeOK'
    BY <1>1, <1>2, <1>6 DEF TypeOK, HandlerState, Idle, Status, NoStatus
  <2>2. OneTransactionPerDestination' /\ FuturesInv'
    BY <1>1, <1>2, <1>5, <1>6 DEF OneTransactionPerDestination, FuturesInv, InProgress,
       Busy, Idle, TypeOK, Transaction
  <2>3. HandlerInv' /\ StatusInv' /\ FailedInv'
    BY <1>1, <1>2, <1>6 DEF HandlerInv, StatusInv, FailedInv, Busy, Idle, NoStatus, TypeOK
  <2> QED
    BY <1>4, <2>1, <2>2, <2>3
<1>7. CASE /\ batch # {}
           /\ handler' = Working("marking", d, batch, batch, "response", {}, {}, 0)
           /\ UNCHANGED status
  <2> HIDE DEF batch, d
  <2>1. TypeOK'
    BY <1>1, <1>2, <1>3, <1>7 DEF TypeOK, HandlerState, Working
  <2>2. OneTransactionPerDestination' /\ FuturesInv'
    BY <1>2, <1>5, <1>7 DEF OneTransactionPerDestination, FuturesInv, InProgress, Working
  <2>3. HandlerInv' /\ StatusInv' /\ FailedInv'
    BY <1>1, <1>2, <1>3, <1>7 DEF HandlerInv, StatusInv, FailedInv, Busy, Working, InProgress
  <2> QED
    BY <1>4, <2>1, <2>2, <2>3
<1> QED
  BY <1>6, <1>7 DEF NextBatch

\* A request enters the active tree while it is still queued.
LEMMA MarkInsertStep ==
  ASSUME IInv, MarkInsert
  PROVE  IInv'
<1> USE DEF IInv
<1> DEFINE d == handler.dest
           k == Least(handler.todo)
<1>1. /\ Busy /\ d \in Destinations /\ InProgress(d) /\ k \in handler.todo /\ k \in Keys
      /\ handler.pc = "marking"
      /\ handler.batch \in SUBSET Keys
  BY BusyType DEF MarkInsert, Busy, HandlerInv
<1>2. /\ active' = [active EXCEPT ![d] = @ \cup {k}]
      /\ handler' = [handler EXCEPT !.pc = "unqueueing"]
      /\ UNCHANGED <<queued, educount, edus, unsent, channel, status, futures>>
      /\ UNCHANGED <<requested, delivered, tried, failures, crashes, dbErrors>>
  BY DEF MarkInsert, history
<1>3. /\ active[d] = handler.batch \ handler.todo
      /\ handler.todo \subseteq handler.batch
      /\ handler.batch # {} /\ Cardinality(handler.batch) =< BatchLimit
  BY <1>1 DEF HandlerInv
<1>4. /\ handler'.pc = "unqueueing" /\ handler'.dest = d /\ handler'.todo = handler.todo
      /\ handler'.batch = handler.batch
  BY <1>1, <1>2, BusyType
<1>5. TypeOK'
  <2>1. handler' \in HandlerState
    BY <1>1, <1>2, BusyType DEF HandlerState
  <2> QED
    BY <1>1, <1>2, <2>1 DEF TypeOK
<1>6. Least(handler'.todo) = k
  BY <1>4
<1> HIDE DEF d, k
<1>7. NothingLost'
  BY <1>1, <1>2 DEF NothingLost, TypeOK
<1>8. ActiveBounded'
  <2>1. active'[d] \in SUBSET handler.batch
    BY <1>1, <1>2, <1>3 DEF TypeOK
  <2>2. IsFiniteSet(handler.batch) /\ Cardinality(handler.batch) \in Nat
    BY <1>1, KeysFinite
  <2>3. Cardinality(active'[d]) =< Cardinality(handler.batch) /\ IsFiniteSet(active'[d])
    BY <2>1, <2>2, FS_Subset
  <2>4. Cardinality(active'[d]) \in Nat
    BY <2>3, FS_CardinalityType
  <2>5. Cardinality(active'[d]) =< BatchLimit
    BY <1>3, <2>2, <2>3, <2>4, LimitsAssumption
  <2> QED
    BY <1>1, <1>2, <2>5 DEF ActiveBounded, TypeOK
<1>9. \A f \in futures : f.dest # d
  BY <1>1 DEF OneTransactionPerDestination, d
<1>10. OneTransactionPerDestination' /\ FuturesInv'
  BY <1>1, <1>2, <1>4, <1>9 DEF OneTransactionPerDestination, FuturesInv, InProgress,
     TypeOK, Transaction
<1>11. HandlerInv'
  BY <1>1, <1>2, <1>3, <1>4, <1>6 DEF HandlerInv, InProgress, Busy, TypeOK
<1>12. StatusInv' /\ FailedInv'
  BY <1>1, <1>2, <1>4 DEF StatusInv, FailedInv, InProgress, TypeOK
<1> QED
  BY <1>5, <1>7, <1>8, <1>10, <1>11, <1>12

\* A request leaves the queue only once it is active.
LEMMA MarkRemoveStep ==
  ASSUME IInv, MarkRemove
  PROVE  IInv'
<1> USE DEF IInv
<1> DEFINE d == handler.dest
           k == Least(handler.todo)
<1>1. /\ Busy /\ d \in Destinations /\ InProgress(d)
      /\ handler.pc = "unqueueing"
      /\ handler.todo # {} /\ handler.todo \subseteq handler.batch
      /\ handler.batch # {} /\ Cardinality(handler.batch) =< BatchLimit
      /\ active[d] = (handler.batch \ handler.todo) \cup {k}
  BY BusyType DEF MarkRemove, Busy, HandlerInv
<1>2. k \in handler.todo /\ k \in active[d]
  BY <1>1, BusyType
<1>3. /\ queued' = [queued EXCEPT ![d] = @ \ {k}]
      /\ handler' = [handler EXCEPT !.pc = "marking", !.todo = @ \ {k}]
      /\ UNCHANGED <<active, educount, edus, unsent, channel, status, futures>>
      /\ UNCHANGED <<requested, delivered, tried, failures, crashes, dbErrors>>
  BY DEF MarkRemove, history
<1>4. /\ handler'.pc = "marking" /\ handler'.dest = d
      /\ handler'.todo = handler.todo \ {k} /\ handler'.batch = handler.batch
  BY <1>1, <1>3, BusyType
<1>5. TypeOK'
  <2>1. handler' \in HandlerState
    BY <1>1, <1>3, BusyType DEF HandlerState
  <2> QED
    BY <1>1, <1>3, <2>1 DEF TypeOK
<1> HIDE DEF d, k
<1>6. NothingLost' /\ ActiveBounded'
  BY <1>1, <1>2, <1>3 DEF NothingLost, ActiveBounded, TypeOK
<1>7. OneTransactionPerDestination' /\ FuturesInv'
  BY <1>1, <1>3, <1>4 DEF OneTransactionPerDestination, FuturesInv, InProgress, d
<1>8. HandlerInv'
  BY <1>1, <1>2, <1>3, <1>4 DEF HandlerInv, InProgress, Busy
<1>9. StatusInv' /\ FailedInv'
  BY <1>1, <1>3, <1>4 DEF StatusInv, FailedInv
<1> QED
  BY <1>5, <1>6, <1>7, <1>8, <1>9

\* Launching the batch that is active, for the destination the handler works on.
LEMMA LaunchBatch ==
  ASSUME IInv, Busy, active[handler.dest] = handler.batch, handler.batch # {},
         NEW es \in SUBSET Nat,
         futures' = futures \cup {Launch(handler.dest, handler.batch, es)},
         handler' = Idle,
         UNCHANGED <<active, status, delivered>>
  PROVE  /\ OneTransactionPerDestination' /\ FuturesInv' /\ HandlerInv' /\ StatusInv'
         /\ futures' \subseteq Transaction /\ handler' \in HandlerState
<1> USE DEF IInv
<1> DEFINE d == handler.dest
           f0 == Launch(d, handler.batch, es)
<1>1. d \in Destinations /\ handler.batch \in SUBSET Keys /\ InProgress(d)
  BY BusyType DEF HandlerInv
<1>2. /\ f0 \in Transaction /\ f0.dest = d /\ f0.events = active[d] /\ f0.phase = "waiting"
      /\ f0.events # {}
  BY <1>1 DEF Launch, Transaction, Phases
<1>3. \A f \in futures : f.dest # d
  BY DEF OneTransactionPerDestination
<1> HIDE DEF d, f0
<1>4. futures' = futures \cup {f0}
  BY DEF f0, d
<1>5. OneTransactionPerDestination' /\ FuturesInv'
  BY <1>1, <1>2, <1>3, <1>4 DEF OneTransactionPerDestination, FuturesInv, InProgress,
     Busy, Idle
<1>6. HandlerInv' /\ StatusInv'
  BY DEF HandlerInv, StatusInv, Busy, Idle
<1>7. futures' \subseteq Transaction /\ handler' \in HandlerState
  BY <1>2, <1>4 DEF TypeOK, HandlerState, Idle
<1> QED
  BY <1>5, <1>6, <1>7

\* The batch is complete: it is launched, or EDUs are selected for it.
LEMMA MarkDoneStep ==
  ASSUME IInv, MarkDone
  PROVE  IInv'
<1> USE DEF IInv
<1> DEFINE d == handler.dest
<1>1. /\ Busy /\ d \in Destinations /\ InProgress(d)
      /\ handler.batch \in SUBSET Keys /\ handler.batch # {}
      /\ Cardinality(handler.batch) =< BatchLimit
      /\ handler.todo = {} /\ active[d] = handler.batch
      /\ handler.pc = "marking"
  BY BusyType DEF MarkDone, Busy, HandlerInv
<1>2. /\ UNCHANGED <<queued, active, educount, edus, unsent, channel, status>>
      /\ UNCHANGED <<requested, delivered, tried, failures, crashes, dbErrors>>
  BY DEF MarkDone, trees, history
<1>3. NothingLost' /\ ActiveBounded' /\ FailedInv'
  BY <1>2 DEF NothingLost, ActiveBounded, FailedInv
<1>4. CASE /\ d \in Servers
           /\ handler' = Working("edus", d, handler.batch, {}, "receiver",
                                 Rooms, {}, educount[d])
           /\ UNCHANGED futures
  <2>1. handler' \in HandlerState
    BY <1>1, <1>4 DEF HandlerState, Working, TypeOK
  <2>2. TypeOK'
    BY <1>2, <1>4, <2>1 DEF TypeOK
  <2>3. OneTransactionPerDestination' /\ FuturesInv'
    BY <1>1, <1>2, <1>4 DEF OneTransactionPerDestination, FuturesInv, InProgress, Working
  <2>4. HandlerInv' /\ StatusInv'
    BY <1>1, <1>2, <1>4 DEF HandlerInv, StatusInv, InProgress, Busy, Working
  <2> QED
    BY <1>3, <2>2, <2>3, <2>4
<1>5. CASE /\ futures' = futures \cup {Launch(d, handler.batch, {})}
           /\ handler' = Idle
  <2>1. /\ OneTransactionPerDestination' /\ FuturesInv' /\ HandlerInv' /\ StatusInv'
        /\ futures' \subseteq Transaction /\ handler' \in HandlerState
    BY <1>1, <1>2, <1>5, LaunchBatch
  <2>2. TypeOK'
    BY <1>2, <2>1 DEF TypeOK
  <2> QED
    BY <1>3, <2>1, <2>2
<1> QED
  BY <1>4, <1>5 DEF MarkDone

\* Selecting EDUs only changes the handler's locals.
LEMMA SelectRoomEdusStep ==
  ASSUME IInv, SelectRoomEdus
  PROVE  IInv'
<1> USE DEF IInv
<1> DEFINE s == handler.dest
           r == Least(handler.rooms)
           scanned == ScannedReceipts(s, r, Cardinality(Receipts(handler.picked)))
           picked == handler.picked \cup Receipts(scanned) \cup Fresh(s, r, {"device"})
           seen == scanned \cup {handler.last}
           last == CHOOSE m \in seen : \A i \in seen : i =< m
<1>1. Busy /\ handler.pc = "edus"
  BY DEF SelectRoomEdus, Busy
<1>2. /\ UNCHANGED <<queued, active, educount, edus, unsent, channel, status, futures>>
      /\ UNCHANGED <<requested, delivered, tried, failures, crashes, dbErrors>>
  BY DEF SelectRoomEdus, trees, history
<1>3. PICK rooms \in SUBSET handler.rooms :
        handler' = [handler EXCEPT !.rooms = rooms, !.picked = picked, !.last = last]
  BY <1>1, BusyType DEF SelectRoomEdus
<1>4. edus \in Seq(EduEvent) /\ Len(edus) \in Nat /\ DOMAIN edus = 1..Len(edus)
  BY DEF TypeOK
<1>5. scanned \in SUBSET (1..Len(edus))
  BY <1>4 DEF ScannedReceipts, Fresh
<1>6. picked \in SUBSET Nat
  BY <1>1, <1>4, <1>5, BusyType DEF Receipts, Fresh
<1>7. last \in Nat
  <2>1. handler.last \in Nat
    BY <1>1, BusyType
  <2>2. seen \in SUBSET Nat /\ seen # {}
    BY <1>4, <1>5, <2>1
  <2>3. \A j \in seen : j =< Len(edus) + handler.last
    BY <1>4, <1>5, <2>1
  <2>4. \E m \in seen : \A i \in seen : i =< m
    <3> DEFINE b == Len(edus) + handler.last
    <3>1. b \in Nat
      BY <1>4, <2>1
    <3>2. \A j \in seen : j =< b
      BY <2>3
    <3> HIDE DEF seen, b
    <3> QED
      BY <2>2, <3>1, <3>2, GreatestExists
  <2> QED
    BY <2>2, <2>4
<1> HIDE DEF picked, last
<1>8. handler' \in HandlerState
  BY <1>1, <1>3, <1>6, <1>7, BusyType DEF HandlerState
<1>9. TypeOK'
  BY <1>2, <1>8 DEF TypeOK
<1>10. /\ handler'.pc = "edus" /\ handler'.dest = handler.dest
       /\ handler'.todo = handler.todo /\ handler'.batch = handler.batch
  BY <1>1, <1>3, BusyType
<1>11. NothingLost' /\ ActiveBounded' /\ FailedInv'
  BY <1>2 DEF NothingLost, ActiveBounded, FailedInv
<1>12. OneTransactionPerDestination' /\ FuturesInv'
  BY <1>1, <1>2, <1>10 DEF OneTransactionPerDestination, FuturesInv, InProgress
<1>13. HandlerInv' /\ StatusInv'
  BY <1>1, <1>2, <1>10 DEF HandlerInv, StatusInv, InProgress, Busy
<1> QED
  BY <1>9, <1>11, <1>12, <1>13

\* The transaction is launched with its EDUs.
LEMMA LaunchWithEdusStep ==
  ASSUME IInv, LaunchWithEdus
  PROVE  IInv'
<1> USE DEF IInv
<1>1. /\ Busy /\ handler.pc = "edus" /\ handler.dest \in Servers
      /\ active[handler.dest] = handler.batch /\ handler.batch # {}
      /\ handler.picked \in SUBSET Nat /\ handler.last \in Nat
  BY BusyType DEF LaunchWithEdus, Busy, HandlerInv
<1>2. /\ UNCHANGED <<queued, active, edus, unsent, channel, status>>
      /\ UNCHANGED <<requested, delivered, tried, failures, crashes, dbErrors>>
      /\ educount' = [educount EXCEPT ![handler.dest] = handler.last]
  BY DEF LaunchWithEdus, history
<1>3. NothingLost' /\ ActiveBounded' /\ FailedInv'
  BY <1>2 DEF NothingLost, ActiveBounded, FailedInv
<1>4. /\ OneTransactionPerDestination' /\ FuturesInv' /\ HandlerInv' /\ StatusInv'
      /\ futures' \subseteq Transaction /\ handler' \in HandlerState
  BY <1>1, <1>2, LaunchBatch DEF LaunchWithEdus
<1>5. TypeOK'
  BY <1>1, <1>2, <1>4 DEF TypeOK
<1> QED
  BY <1>3, <1>4, <1>5

\* The transaction is launched without EDUs because they cannot be read.
LEMMA SelectEdusFailsStep ==
  ASSUME IInv, SelectEdusFails
  PROVE  IInv'
<1> USE DEF IInv
<1>1. /\ Busy /\ active[handler.dest] = handler.batch /\ handler.batch # {}
      /\ {} \in SUBSET Nat
  BY BusyType DEF SelectEdusFails, Busy, HandlerInv
<1>2. /\ UNCHANGED <<queued, active, educount, edus, unsent, channel, status>>
      /\ UNCHANGED <<requested, delivered, tried, failures, crashes>>
      /\ dbErrors' = dbErrors + 1
  BY DEF SelectEdusFails, trees
<1>3. NothingLost' /\ ActiveBounded' /\ FailedInv'
  BY <1>2 DEF NothingLost, ActiveBounded, FailedInv
<1>4. /\ OneTransactionPerDestination' /\ FuturesInv' /\ HandlerInv' /\ StatusInv'
      /\ futures' \subseteq Transaction /\ handler' \in HandlerState
  BY <1>1, <1>2, LaunchBatch DEF SelectEdusFails
<1>5. TypeOK'
  BY <1>2, <1>4 DEF TypeOK
<1> QED
  BY <1>3, <1>4, <1>5

\* A failed write stops the handler, or leaves the destination marked as running.
LEMMA DbErrorStep ==
  ASSUME IInv, DbError
  PROVE  IInv'
<1> USE DEF IInv
<1>1. /\ UNCHANGED <<queued, active, educount, edus, unsent, channel, status, futures>>
      /\ UNCHANGED <<requested, delivered, tried, failures, crashes>>
      /\ dbErrors' = dbErrors + 1
      /\ handler' = [pc |-> "idle"] \/ handler' = [pc |-> "dead"]
      /\ handler.pc # "starting"
  BY DEF DbError, trees, Idle
<1>2. TypeOK'
  BY <1>1 DEF TypeOK, HandlerState
<1>3. NothingLost' /\ ActiveBounded' /\ FailedInv'
  BY <1>1 DEF NothingLost, ActiveBounded, FailedInv
<1>4. OneTransactionPerDestination' /\ FuturesInv' /\ HandlerInv' /\ StatusInv'
  BY <1>1 DEF OneTransactionPerDestination, FuturesInv, HandlerInv, StatusInv, Busy,
              InProgress
<1> QED
  BY <1>2, <1>3, <1>4

\* A transaction in flight moves on: it keeps its destination and its events.
LEMMA PhaseStep ==
  ASSUME IInv, NEW f \in futures, NEW phase \in Phases, NEW got \in SUBSET f.events,
         futures' = SetPhase(f, phase),
         delivered' = [delivered EXCEPT ![f.dest] = @ \cup got],
         phase = "ok" => got = f.events \/ f.phase = "ok",
         failures' \in Nat,
         UNCHANGED <<queued, active, educount, edus, unsent, channel, status, handler,
                     requested, tried, crashes, dbErrors>>
  PROVE  IInv'
<1> USE DEF IInv
<1> DEFINE g == [f EXCEPT !.phase = phase]
<1>1. /\ f \in Transaction /\ f.dest \in Destinations /\ f.events \in SUBSET Keys
      /\ f.events = active[f.dest] /\ f.events # {} /\ InProgress(f.dest)
      /\ f.phase = "ok" => f.events \subseteq delivered[f.dest]
  BY DEF TypeOK, Transaction, FuturesInv
<1>2. /\ g \in Transaction /\ g.dest = f.dest /\ g.events = f.events
      /\ g.phase = phase
  BY <1>1 DEF Transaction
<1> HIDE DEF g
<1>3. futures' = (futures \ {f}) \cup {g}
  BY DEF SetPhase, g
<1>4. /\ delivered' \in [Destinations -> SUBSET Keys]
      /\ \A d \in Destinations : delivered[d] \subseteq delivered'[d]
      /\ got \subseteq delivered'[f.dest]
  BY <1>1 DEF TypeOK
<1>5. TypeOK'
  BY <1>2, <1>3, <1>4 DEF TypeOK
<1>6. NothingLost' /\ ActiveBounded' /\ FailedInv'
  BY <1>4 DEF NothingLost, ActiveBounded, FailedInv
<1>7. OneTransactionPerDestination'
  BY <1>2, <1>3 DEF OneTransactionPerDestination, Busy
<1>8. FuturesInv'
  <2>1. \A h \in futures : h.dest \in Destinations
    BY DEF TypeOK, Transaction
  <2> QED
    BY <1>1, <1>2, <1>3, <1>4, <2>1 DEF FuturesInv, InProgress
<1>9. HandlerInv'
  <2>1. Busy => handler.dest \in Destinations
    BY BusyType
  <2> QED
    BY <1>4, <2>1 DEF HandlerInv, InProgress, Busy
<1>10. StatusInv'
  BY <1>3 DEF StatusInv
<1> QED
  BY <1>5, <1>6, <1>7, <1>8, <1>9, <1>10

\* The steps of a remote.
LEMMA RemoteStep ==
  ASSUME IInv, Remote
  PROVE  IInv'
<1> USE DEF IInv
<1>1. PICK f \in futures : AcquirePermit(f) \/ Succeed(f) \/ Fail(f)
  BY DEF Remote
<1>2. /\ f.dest \in Destinations /\ f.events \in SUBSET Keys
      /\ delivered \in [Destinations -> SUBSET Keys]
      /\ failures \in Nat
  BY DEF TypeOK, Transaction
<1>3. CASE AcquirePermit(f)
  <2>1. delivered' = [delivered EXCEPT ![f.dest] = @ \cup {}]
    BY <1>2, <1>3 DEF AcquirePermit, history
  <2>2. /\ futures' = SetPhase(f, "sending") /\ failures' \in Nat
        /\ UNCHANGED <<queued, active, educount, edus, unsent, channel, status, handler,
                       requested, tried, crashes, dbErrors>>
    BY <1>2, <1>3 DEF AcquirePermit, trees, history
  <2>3. "sending" \in Phases /\ {} \in SUBSET f.events /\ "sending" # "ok"
    BY DEF Phases
  <2> QED
    BY <2>1, <2>2, <2>3, PhaseStep
<1>4. CASE Succeed(f)
  BY <1>2, <1>4, PhaseStep DEF Succeed, Phases, trees
<1>5. CASE Fail(f)
  <2>1. PICK got \in PartlyDelivered(f) :
          delivered' = [delivered EXCEPT ![f.dest] = @ \cup got]
    BY <1>5 DEF Fail
  <2>2. got \in SUBSET f.events
    BY DEF PartlyDelivered, Take
  <2>3. /\ futures' = SetPhase(f, "err") /\ failures' \in Nat
        /\ UNCHANGED <<queued, active, educount, edus, unsent, channel, status, handler,
                       requested, tried, crashes, dbErrors>>
    BY <1>2, <1>5 DEF Fail, trees
  <2>4. "err" \in Phases /\ "err" # "ok"
    BY DEF Phases
  <2> QED
    BY <2>1, <2>2, <2>3, <2>4, PhaseStep
<1> QED
  BY <1>1, <1>3, <1>4, <1>5

\* Time passes for a failed destination.
LEMMA BackoffElapsesStep ==
  ASSUME IInv, NEW d \in Destinations, BackoffElapses(d)
  PROVE  IInv'
<1> USE DEF IInv
<1>1. /\ UNCHANGED <<queued, active, educount, edus, unsent, channel, futures, handler>>
      /\ UNCHANGED <<requested, delivered, tried, failures, crashes, dbErrors>>
      /\ status' = [status EXCEPT ![d].due = TRUE]
  BY DEF BackoffElapses, trees, history
<1>2. /\ status' \in [Destinations -> Status]
      /\ \A e \in Destinations : status'[e].state = status[e].state
  BY <1>1 DEF TypeOK, Status
<1>3. TypeOK'
  BY <1>1, <1>2 DEF TypeOK
<1>4. NothingLost' /\ ActiveBounded' /\ FailedInv' /\ StatusInv'
  BY <1>1, <1>2 DEF NothingLost, ActiveBounded, FailedInv, StatusInv
<1>5. OneTransactionPerDestination'
  BY <1>1 DEF OneTransactionPerDestination, Busy
<1>6. FuturesInv'
  BY <1>1, <1>2 DEF FuturesInv, InProgress, TypeOK, Transaction
<1>7. HandlerInv'
  <2>1. Busy => handler.dest \in Destinations
    BY BusyType
  <2> QED
    BY <1>1, <1>2, <2>1 DEF HandlerInv, InProgress, Busy
<1> QED
  BY <1>3, <1>4, <1>5, <1>6, <1>7

\* A crash leaves the trees, and with them everything NothingLost needs.
LEMMA CrashStep ==
  ASSUME IInv, Crash
  PROVE  IInv'
<1> USE DEF IInv
<1>1. /\ UNCHANGED <<queued, active, educount, edus>>
      /\ UNCHANGED <<requested, delivered, tried, failures, dbErrors>>
      /\ futures' = {} /\ unsent' = {} /\ channel' = <<>>
      /\ handler' = [pc |-> "starting"]
      /\ crashes' = crashes + 1
      /\ status' = [d \in Destinations |-> NoStatus]
  BY DEF Crash, trees
<1>2. TypeOK'
  BY <1>1 DEF TypeOK, HandlerState, NoStatus, Status
<1>3. NothingLost' /\ ActiveBounded'
  BY <1>1 DEF NothingLost, ActiveBounded
<1>4. FailedInv' /\ StatusInv'
  BY <1>1 DEF FailedInv, StatusInv, NoStatus
<1>5. OneTransactionPerDestination' /\ FuturesInv' /\ HandlerInv'
  BY <1>1 DEF OneTransactionPerDestination, FuturesInv, HandlerInv, Busy
<1> QED
  BY <1>2, <1>3, <1>4, <1>5

----------------------------------------------------------------------------
(* The theorems.                                                           *)

\* Every step of the server keeps the inductive invariant.
LEMMA NextIInv == IInv /\ [Next]_vars => IInv'
<1> SUFFICES ASSUME IInv, [Next]_vars
             PROVE  IInv'
  OBVIOUS
<1>1. CASE Callers
  <2>1. CASE \E e \in EduEvent : NewEdu(e)
    BY <2>1, ChannelAndEduStep
  <2>2. CASE \E D \in SUBSET Destinations, k \in Keys : QueueRequests(D, k)
    BY <2>2, QueueRequestsStep
  <2> QED
    BY <1>1, <2>1, <2>2 DEF Callers, SendPdu, SendOne, Destinations
<1>2. CASE \E m \in unsent : SendOnChannel(m)
  BY <1>2, ChannelAndEduStep
<1>3. CASE HandlerStep
  BY <1>3, StartHandlerStep, HoldOffStep, RetryOldStep, SelectNewStep, MarkFailedStep,
     TakeSuccessStep, DeleteActiveStep, NextBatchStep, MarkInsertStep, MarkRemoveStep,
     MarkDoneStep, SelectRoomEdusStep, LaunchWithEdusStep DEF HandlerStep
<1>4. CASE SelectEdusFails \/ DbError
  BY <1>4, SelectEdusFailsStep, DbErrorStep
<1>5. CASE Remote
  BY <1>5, RemoteStep
<1>6. CASE \E d \in Destinations : BackoffElapses(d)
  BY <1>6, BackoffElapsesStep
<1>7. CASE Crash
  BY <1>7, CrashStep
<1>8. CASE UNCHANGED vars
  BY <1>8 DEF vars, trees, memory, history, IInv, TypeOK, NothingLost,
     OneTransactionPerDestination, FuturesInv, HandlerInv, StatusInv, FailedInv,
     ActiveBounded, Busy, InProgress
<1> QED
  BY <1>1, <1>2, <1>3, <1>4, <1>5, <1>6, <1>7, <1>8 DEF Next

\* IInv holds in every reachable state.
THEOREM Invariance == Spec => []IInv
  BY InitIInv, NextIInv, PTL DEF Spec

\* The trees, the map of transaction states and the handler's locals keep
\* their types.
THEOREM TypeCorrect == Spec => []TypeOK
<1>1. IInv => TypeOK
  BY DEF IInv
<1> QED
  BY <1>1, Invariance, PTL

\* Whatever number of destinations, requests, failures, crashes and failed
\* writes: a request queue_requests persisted is stored until it is delivered.
THEOREM NothingIsLost == Spec => []NothingLost
<1>1. IInv => NothingLost
  BY DEF IInv
<1> QED
  BY <1>1, Invariance, PTL

\* At most one transaction per destination, counting the one handle_receiver or
\* handle_response is preparing.
THEOREM OneTransaction == Spec => []OneTransactionPerDestination
<1>1. IInv => OneTransactionPerDestination
  BY DEF IInv
<1> QED
  BY <1>1, Invariance, PTL

\* An error always belongs to a destination that is running or retrying, so the
\* error log in handle_response is unreachable.
THEOREM FailureIsExpected == Spec => []FailureIsOfARunningTransaction
<1>1. IInv => FailureIsOfARunningTransaction
  BY DEF IInv, FuturesInv, InProgress, FailureIsOfARunningTransaction
<1> QED
  BY <1>1, Invariance, PTL

\* A transaction in flight is exactly what the active tree holds.
THEOREM InFlightDurable == Spec => []InFlightIsDurable
<1>1. IInv => InFlightIsDurable
  BY DEF IInv, FuturesInv, InFlightIsDurable
<1> QED
  BY <1>1, Invariance, PTL

\* The limit of a batch is no more than what the handler accepts at startup.
LEMMA StartBound ==
  ASSUME IInv, NEW d \in Destinations
  PROVE  Cardinality(active[d]) =< InitialLimit + 1 /\ IsFiniteSet(active[d])
<1>1. IsFiniteSet(active[d])
  BY KeysFinite, FS_Subset DEF IInv, TypeOK
<1>2. Cardinality(active[d]) \in Nat
  BY <1>1, FS_CardinalityType
<1>3. Cardinality(active[d]) =< BatchLimit
  BY DEF IInv, ActiveBounded
<1> QED
  BY <1>1, <1>2, <1>3, LimitsAssumption

\* The startup never drops an active request.
THEOREM StartDropsNothing == Spec => []NothingDroppedAtStart
<1>1. IInv => NothingDroppedAtStart
  BY StartBound DEF NothingDroppedAtStart
<1> QED
  BY <1>1, Invariance, PTL

\* What RetryRepeatsPersistedRequests says of one step.
RetryStep ==
  \A d \in Destinations :
    status[d].state = "failed" /\ status'[d].state # "none" =>
      \A f \in futures' \ futures :
        f.dest = d => f.events = tried[d].events /\ f.edus = {}

\* The transaction launched for a failed destination repeats the failed one, as
\* no other transaction of it runs and the handler works on another one.
LEMMA RetryLemma ==
  ASSUME IInv, [Next]_vars
  PROVE  RetryStep
<1> SUFFICES ASSUME NEW d \in Destinations, status[d].state = "failed"
             PROVE  \A f \in futures' \ futures :
                      f.dest = d => f.events = active[d] /\ f.edus = {}
  BY DEF RetryStep, IInv, FailedInv
<1>1. Busy => handler.dest # d
  BY DEF IInv, HandlerInv, InProgress
<1>2. \A f \in futures : f.dest # d /\ f \in Transaction
  BY DEF IInv, FuturesInv, InProgress, TypeOK
<1>3. active \in [Destinations -> SUBSET Keys]
  BY DEF IInv, TypeOK
<1>4. CASE UNCHANGED <<active, futures>>
  BY <1>4
<1>5. CASE StartHandler
  <2>1. Cardinality(active[d]) =< InitialLimit + 1 /\ IsFiniteSet(active[d])
    BY <1>3, StartBound
  <2>2. Take(active[d], InitialLimit + 1) = active[d]
    BY <1>3, <2>1, TakeOfSmallSet, LimitsAssumption
  <2> QED
    BY <1>5, <2>2 DEF StartHandler, Launch
<1>6. CASE RetryOld
  BY <1>6 DEF RetryOld, Launch, trees
<1>7. CASE \E f \in futures : MarkFailed(f) \/ TakeSuccess(f)
  BY <1>7 DEF MarkFailed, TakeSuccess, trees
<1>8. CASE DeleteActive \/ MarkInsert
  BY <1>1, <1>3, <1>8 DEF DeleteActive, MarkInsert, Busy, memory
<1>9. CASE MarkDone \/ LaunchWithEdus \/ SelectEdusFails
  BY <1>1, <1>9 DEF MarkDone, LaunchWithEdus, SelectEdusFails, Busy, Launch, trees
<1>10. CASE Remote
  BY <1>2, <1>10 DEF Remote, AcquirePermit, Succeed, Fail, SetPhase, trees, Transaction
<1>11. CASE Crash
  BY <1>11 DEF Crash, trees
<1>12. CASE Callers \/ \E m \in unsent : SendOnChannel(m)
  BY <1>4, <1>12 DEF Callers, SendPdu, SendOne,
     QueueRequests, NewEdu, SendOnChannel, trees, memory
<1>13. CASE HoldOff \/ SelectNew \/ NextBatch \/ MarkRemove \/ SelectRoomEdus \/ DbError
  BY <1>4, <1>13 DEF HoldOff, SelectNew, NextBatch, MarkRemove, SelectRoomEdus, DbError,
     trees
<1>14. CASE \E e \in Destinations : BackoffElapses(e)
  BY <1>4, <1>14 DEF BackoffElapses, trees
<1>15. CASE UNCHANGED vars
  BY <1>4, <1>15 DEF vars, trees, memory
<1> QED
  BY <1>5, <1>6, <1>7, <1>8, <1>9, <1>10, <1>11, <1>12, <1>13, <1>14, <1>15
     DEF Next, HandlerStep

\* A retry carries the persisted requests of the transaction that failed, whatever
\* happened since, and none of its ephemeral events.
THEOREM RetryRepeats == Spec => RetryRepeatsPersistedRequests
<1>1. IInv /\ [Next]_vars => [RetryStep]_vars
  BY RetryLemma
<1> QED
  BY <1>1, Invariance, PTL DEF Spec, RetryRepeatsPersistedRequests, RetryStep

----------------------------------------------------------------------------
(* Receipts.  What select_edus has picked so far lies above the stored     *)
(* count, and below the count set_latest_educount will store: its second   *)
(* half is why `last' must follow the scan from room to room.              *)

EduInv ==
  handler.pc = "edus" =>
    /\ handler.picked \subseteq DOMAIN edus
    /\ \A i \in Receipts(handler.picked) :
         educount[handler.dest] < i /\ i =< handler.last

\* A scanned room adds receipts above the stored count, and `last' moves past
\* them and never back.
LEMMA ScanEduInv ==
  ASSUME IInv, EduInv, SelectRoomEdus
  PROVE  EduInv'
<1> DEFINE s == handler.dest
           r == Least(handler.rooms)
           scanned == ScannedReceipts(s, r, Cardinality(Receipts(handler.picked)))
           picked == handler.picked \cup Receipts(scanned) \cup Fresh(s, r, {"device"})
           seen == scanned \cup {handler.last}
           last == CHOOSE m \in seen : \A i \in seen : i =< m
<1>1. Busy /\ handler.pc = "edus" /\ TypeOK
  BY DEF SelectRoomEdus, Busy, IInv
<1>2. UNCHANGED <<educount, edus>>
  BY DEF SelectRoomEdus, trees
<1>3. PICK rooms \in SUBSET handler.rooms :
        handler' = [handler EXCEPT !.rooms = rooms, !.picked = picked, !.last = last]
  BY <1>1, BusyType DEF SelectRoomEdus
<1>4. edus \in Seq(EduEvent) /\ Len(edus) \in Nat /\ DOMAIN edus = 1..Len(edus)
  BY <1>1 DEF TypeOK
<1>5. /\ scanned \in SUBSET DOMAIN edus
      /\ \A i \in scanned : i > educount[s]
      /\ Fresh(s, r, {"device"}) \in SUBSET DOMAIN edus
      /\ \A i \in Fresh(s, r, {"device"}) : edus[i].kind = "device"
  BY DEF ScannedReceipts, Fresh
<1>6. handler.last \in Nat
  BY <1>1, BusyType
<1>7. last \in Nat /\ \A i \in seen : i =< last
  <2>1. seen \in SUBSET Nat /\ seen # {}
    BY <1>4, <1>5, <1>6
  <2>2. \E m \in seen : \A i \in seen : i =< m
    <3> DEFINE b == Len(edus) + handler.last
    <3>1. b \in Nat
      BY <1>4, <1>6
    <3>2. \A j \in seen : j =< b
      BY <1>4, <1>5, <1>6
    <3> HIDE DEF seen, b
    <3> QED
      BY <2>1, <3>1, <3>2, GreatestExists
  <2> HIDE DEF seen
  <2> QED
    BY <2>1, <2>2
<1>8. handler'.picked = picked /\ handler'.last = last /\ handler'.dest = s
  BY <1>1, <1>3, BusyType
<1>9. handler.picked \subseteq DOMAIN edus /\ Receipts(scanned) \subseteq scanned
  BY <1>1 DEF EduInv, Receipts
<1>10. picked \subseteq DOMAIN edus
  BY <1>5, <1>9
<1>11. \A i \in Receipts(picked) : i \in scanned \/ i \in Receipts(handler.picked)
  BY <1>5, <1>9 DEF Receipts
<1>12. \A i \in Receipts(picked) : educount[s] < i /\ i =< last
  <2> SUFFICES ASSUME NEW i \in Receipts(picked)
               PROVE  educount[s] < i /\ i =< last
    OBVIOUS
  <2> HIDE DEF last
  <2>1. CASE i \in scanned
    <3>1. i \in seen /\ i > educount[s] /\ i \in Nat
      BY <1>4, <1>5, <2>1
    <3>2. educount[s] \in Nat
      BY <1>1 DEF IInv, HandlerInv, TypeOK
    <3> HIDE DEF seen
    <3>3. i =< last
      BY <1>7, <3>1
    <3> QED
      BY <3>1, <3>2, <3>3
  <2>2. CASE i \in Receipts(handler.picked)
    <3>1. educount[s] < i /\ i =< handler.last
      BY <1>1, <2>2 DEF EduInv
    <3>2. i \in Nat
      BY <1>4, <1>9, <2>2 DEF Receipts
    <3>3. handler.last \in seen
      OBVIOUS
    <3> HIDE DEF seen
    <3>4. handler.last =< last
      BY <1>7, <3>3
    <3> QED
      BY <1>6, <1>7, <3>1, <3>2, <3>4
  <2> QED
    BY <1>11, <2>1, <2>2
<1> HIDE DEF picked, last
<1> QED
  BY <1>2, <1>8, <1>10, <1>12 DEF EduInv, Receipts

\* Every step keeps EduInv: only select_edus picks, and a new ephemeral event
\* is stored after the ones that are there.
LEMMA NextEduInv == IInv /\ EduInv /\ [Next]_vars => EduInv'
<1> SUFFICES ASSUME IInv, EduInv, [Next]_vars
             PROVE  EduInv'
  OBVIOUS
<1>1. CASE UNCHANGED <<educount, edus, handler>>
  BY <1>1 DEF EduInv, Receipts
<1>2. CASE \E e \in EduEvent : NewEdu(e)
  <2>1. PICK e \in EduEvent : NewEdu(e)
    BY <1>2
  <2>2. edus \in Seq(EduEvent)
    BY DEF IInv, TypeOK
  <2>3. /\ DOMAIN edus \subseteq DOMAIN edus'
        /\ \A i \in DOMAIN edus : edus'[i] = edus[i]
    BY <2>1, <2>2 DEF NewEdu
  <2>4. UNCHANGED <<handler, educount>>
    BY <2>1 DEF NewEdu, memory
  <2> QED
    BY <2>3, <2>4 DEF EduInv, Receipts
<1>3. CASE \/ \E D \in SUBSET Destinations, k \in Keys : QueueRequests(D, k)
           \/ \E m \in unsent : SendOnChannel(m)
           \/ HoldOff \/ RetryOld \/ Remote
           \/ \E d \in Destinations : BackoffElapses(d)
  BY <1>1, <1>3 DEF QueueRequests, SendOnChannel, HoldOff, RetryOld, Remote,
     AcquirePermit, Succeed, Fail, BackoffElapses, trees
<1>4. CASE StartHandler \/ SelectNew \/ NextBatch \/ LaunchWithEdus \/ SelectEdusFails
           \/ DbError \/ Crash
  <2>1. handler'.pc # "edus"
    BY <1>4 DEF StartHandler, SelectNew, NextBatch, LaunchWithEdus, SelectEdusFails,
       DbError, Crash, Idle, Working
  <2> QED
    BY <2>1 DEF EduInv
<1>5. CASE \E f \in futures : MarkFailed(f) \/ TakeSuccess(f)
  <2>1. PICK f \in futures : MarkFailed(f) \/ TakeSuccess(f)
    BY <1>5
  <2>2. CASE MarkFailed(f)
    BY <1>1, <2>2 DEF MarkFailed, trees
  <2>3. CASE TakeSuccess(f)
    <3>1. handler'.pc = "deleting"
      BY <2>3 DEF TakeSuccess, Working
    <3> QED
      BY <3>1 DEF EduInv
  <2> QED
    BY <2>1, <2>2, <2>3
<1>6. CASE DeleteActive
  BY <1>1, <1>6 DEF DeleteActive, memory
<1>7. CASE MarkInsert \/ MarkRemove
  <2>1. Busy /\ TypeOK
    BY <1>7 DEF MarkInsert, MarkRemove, Busy, IInv
  <2>2. handler'.pc # "edus"
    BY <1>7, <2>1, BusyType DEF MarkInsert, MarkRemove
  <2> QED
    BY <2>2 DEF EduInv
<1>8. CASE MarkDone
  <2>1. handler'.pc = "edus" => handler'.picked = {}
    BY <1>8 DEF MarkDone, Working, Idle
  <2> QED
    BY <2>1 DEF EduInv, Receipts
<1>9. CASE SelectRoomEdus
  BY <1>9, ScanEduInv
<1>10. CASE UNCHANGED vars
  BY <1>1, <1>10 DEF vars, trees, memory
<1> QED
  BY <1>2, <1>3, <1>4, <1>5, <1>6, <1>7, <1>8, <1>9, <1>10
     DEF Next, Callers, HandlerStep, SendPdu, SendOne, Destinations

\* What ReceiptSentAtMostOnce says of one step.
ReceiptStep ==
  \A f \in futures' \ futures :
    f.dest \in Servers =>
      \A i \in Receipts(f.edus) :
        f.phase = "waiting" => educount[f.dest] < i /\ i =< educount'[f.dest]

\* Every launch but the one after select_edus is without ephemeral events, and
\* that one stores the count in the same step.
LEMMA ReceiptLemma ==
  ASSUME IInv, EduInv, [Next]_vars
  PROVE  ReceiptStep
<1> SUFFICES ASSUME NEW f \in futures' \ futures, f.dest \in Servers,
                    NEW i \in Receipts(f.edus), f.phase = "waiting"
             PROVE  educount[f.dest] < i /\ i =< educount'[f.dest]
  BY DEF ReceiptStep
<1>1. f.edus # {}
  BY DEF Receipts
<1>2. \A g \in futures : g \in Transaction
  BY DEF IInv, TypeOK
<1>3. CASE futures' \subseteq futures
  BY <1>3
<1>4. CASE LaunchWithEdus
  <2>1. Busy /\ handler.pc = "edus" /\ TypeOK
    BY <1>4 DEF LaunchWithEdus, Busy, IInv
  <2>2. handler.dest \in Servers
    BY <2>1 DEF IInv, HandlerInv
  <2>3. f = Launch(handler.dest, handler.batch, handler.picked)
    BY <1>4 DEF LaunchWithEdus
  <2>4. f.dest = handler.dest /\ f.edus = handler.picked
    BY <2>3 DEF Launch
  <2>5. educount'[f.dest] = handler.last
    BY <1>4, <2>1, <2>2, <2>4 DEF LaunchWithEdus, TypeOK
  <2> QED
    BY <2>1, <2>4, <2>5 DEF EduInv
<1>5. CASE StartHandler \/ RetryOld \/ MarkDone \/ SelectEdusFails
  <2>1. f.edus = {}
    BY <1>5 DEF StartHandler, RetryOld, MarkDone, SelectEdusFails, Launch
  <2> QED
    BY <1>1, <2>1
<1>6. CASE Remote
  <2>1. f.phase # "waiting"
    BY <1>2, <1>6 DEF Remote, AcquirePermit, Succeed, Fail, SetPhase, Transaction
  <2> QED
    BY <2>1
<1>7. CASE \/ Callers
           \/ \E m \in unsent : SendOnChannel(m)
           \/ HoldOff \/ SelectNew
           \/ \E g \in futures : MarkFailed(g) \/ TakeSuccess(g)
           \/ DeleteActive \/ NextBatch \/ MarkInsert \/ MarkRemove \/ SelectRoomEdus
           \/ DbError \/ Crash
           \/ \E d \in Destinations : BackoffElapses(d)
  BY <1>3, <1>7 DEF Callers, SendPdu, SendOne, QueueRequests, NewEdu, SendOnChannel,
     HoldOff, SelectNew, MarkFailed, TakeSuccess, DeleteActive, NextBatch, MarkInsert,
     MarkRemove, SelectRoomEdus, DbError, Crash, BackoffElapses, memory
<1>8. CASE UNCHANGED vars
  BY <1>3, <1>8 DEF vars, memory
<1> QED
  BY <1>4, <1>5, <1>6, <1>7, <1>8 DEF Next, HandlerStep

\* Whatever fails or crashes, a receipt is launched to a server at most once:
\* it is above the stored count before the step and not after it.
THEOREM ReceiptsOnce == Spec => ReceiptSentAtMostOnce
<1>1. Init => EduInv
  BY DEF Init, EduInv
<1>2. IInv /\ EduInv /\ [Next]_vars => EduInv'
  BY NextEduInv
<1>3. IInv /\ EduInv /\ [Next]_vars => [ReceiptStep]_vars
  BY ReceiptLemma
<1>4. Spec => []EduInv
  BY <1>1, <1>2, Invariance, PTL DEF Spec
<1> QED
  BY <1>3, <1>4, Invariance, PTL DEF Spec, ReceiptSentAtMostOnce, ReceiptStep

=============================================================================
