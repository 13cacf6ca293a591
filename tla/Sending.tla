------------------------------ MODULE Sending ------------------------------
(***************************************************************************)
(* The outgoing queue of the homeserver: service/sending.rs with its       *)
(* storage in database/key_value/sending.rs.                               *)
(*                                                                         *)
(* Callers persist a request in the tree servernameevent_data (`queued')   *)
(* and then announce it on an unbounded channel.  One handler task owns    *)
(* the map of transaction states, moves requests to the tree               *)
(* servercurrentevent_data (`active') and runs at most one transaction per *)
(* destination.  A crash loses everything but the three trees.             *)
(*                                                                         *)
(* A request key is the destination's prefix followed by the PDU id or, for*)
(* an EDU, by a fresh counter; here it is a number in Keys, and the order  *)
(* of numbers is the byte order in which the trees are scanned.            *)
(***************************************************************************)
EXTENDS Integers, FiniteSets, Sequences

CONSTANTS
  Servers,        \* Destination::Normal, remote homeservers
  Appservices,    \* Destination::Appservice
  Pushers,        \* Destination::Push, a user's push gateway
  MaxKey,         \* bound: the largest request key
  Rooms,          \* rooms shared with the servers, in the order they are scanned
  BatchLimit,     \* take(30) in handle_response
  InitialLimit,   \* at startup events are dropped when entry.len() > InitialLimit
  EduLimit,       \* receipts after which select_edus stops, 20
  MaxRequests,    \* permits of the maximum_requests semaphore
  MaxFailures,    \* bound: failed transactions of one behaviour
  MaxCrashes,     \* bound: crashes of one behaviour
  MaxDbErrors,    \* bound: failed database writes of one behaviour
  MaxEdus         \* bound: ephemeral events of one behaviour

Destinations == Servers \cup Appservices \cup Pushers

Keys == 1..MaxKey   \* what follows the destination's prefix in a request key

ASSUME KeysAssumption == MaxKey \in Nat

ASSUME RoomsAssumption == Rooms \subseteq Nat /\ IsFiniteSet(Rooms)

ASSUME KindsAssumption ==
  /\ Servers \cap Appservices = {}
  /\ Servers \cap Pushers = {}
  /\ Appservices \cap Pushers = {}

ASSUME LimitsAssumption ==
  /\ BatchLimit \in Nat \ {0}
  /\ InitialLimit \in Nat
  /\ BatchLimit =< InitialLimit + 1
  /\ EduLimit \in Nat \ {0}
  /\ MaxRequests \in Nat \ {0}
  /\ MaxFailures \in Nat
  /\ MaxCrashes \in Nat
  /\ MaxDbErrors \in Nat
  /\ MaxEdus \in Nat

VARIABLES
  \* the trees, which survive a crash
  queued,      \* servernameevent_data: per destination, requests not yet in a transaction
  active,      \* servercurrentevent_data: per destination, requests of the current one
  educount,    \* servername_educount: per server, the last ephemeral event selected
  edus,        \* the ephemeral events of the rooms, in the order of their counts
  \* memory
  unsent,      \* requests persisted by a caller that has not called sender.send() yet
  channel,     \* the mpsc channel between the callers and the handler
  status,      \* current_transaction_status
  futures,     \* the FuturesUnordered: transactions in flight, and finished ones
  handler,     \* where the handler task is, and its local variables
  \* history and bounds
  requested,   \* per destination, the requests persisted so far
  delivered,   \* per destination, the requests the remote has received
  tried,       \* per destination, what the transaction that failed last carried
  failures, crashes, dbErrors

trees   == <<queued, active, educount, edus>>
memory  == <<unsent, channel, status, futures, handler>>
history == <<requested, delivered, tried, failures, crashes, dbErrors>>
vars    == <<trees, memory, history>>

(***************************************************************************)
(* TransactionStatus.  "none" is a destination without an entry in the     *)
(* map.  `due' tells whether the back-off of the last failure is over.     *)
(***************************************************************************)
Status == [state : {"none", "running", "failed", "retrying"},
           tries : Nat, due : BOOLEAN]

NoStatus   == [state |-> "none",    tries |-> 0, due |-> FALSE]
Running    == [state |-> "running", tries |-> 0, due |-> FALSE]
Retrying(n) == [state |-> "retrying", tries |-> n, due |-> FALSE]
Failed(n)  == [state |-> "failed",  tries |-> n, due |-> FALSE]

\* "waiting" for a permit, "sending", or finished and not yet taken by the handler
Phases == {"waiting", "sending", "ok", "err"}

Transaction == [dest : Destinations, events : SUBSET Keys,
                edus : SUBSET Nat, phase : Phases]

Launch(d, events, es) ==
  [dest |-> d, events |-> events, edus |-> es, phase |-> "waiting"]

EduEvent == [room : Rooms, kind : {"local", "remote", "device"}]

Pcs == {"starting", "idle", "deleting", "marking", "unqueueing", "edus", "dead"}

(***************************************************************************)
(* The handler between two polls is "idle".  Otherwise `dest' is the       *)
(* destination it works on, `batch' the requests of the next transaction,  *)
(* `todo' those mark_as_active has not moved yet, `origin' the select!     *)
(* branch, and `rooms', `picked', `last' the locals of select_edus.        *)
(***************************************************************************)
Idle == [pc |-> "idle"]

Working(pc, d, batch, todo, origin, rooms, picked, last) ==
  [pc |-> pc, dest |-> d, batch |-> batch, todo |-> todo, origin |-> origin,
   rooms |-> rooms, picked |-> picked, last |-> last]

HandlerState ==
  [pc : {"starting", "idle", "dead"}] \cup
  [pc : {"deleting", "marking", "unqueueing", "edus"}, dest : Destinations,
   batch : SUBSET Keys, todo : SUBSET Keys, origin : {"receiver", "response"},
   rooms : SUBSET Rooms, picked : SUBSET Nat, last : Nat]

\* Mutant: the limit is forgotten.
TakeAll(S, n) == S

\* The first n elements of S in scan order.
Take(S, n) == {k \in S : Cardinality({j \in S : j < k}) < n}

Least(S) == CHOOSE k \in S : \A j \in S : k =< j

Init ==
  /\ queued = [d \in Destinations |-> {}]
  /\ active = [d \in Destinations |-> {}]
  /\ educount = [s \in Servers |-> 0]
  /\ edus = <<>>
  /\ unsent = {}
  /\ channel = <<>>
  /\ status = [d \in Destinations |-> NoStatus]
  /\ futures = {}
  /\ handler = [pc |-> "starting"]
  /\ requested = [d \in Destinations |-> {}]
  /\ delivered = [d \in Destinations |-> {}]
  /\ tried = [d \in Destinations |-> [events |-> {}, edus |-> {}]]
  /\ failures = 0
  /\ crashes = 0
  /\ dbErrors = 0

----------------------------------------------------------------------------
(* The callers: send_pdu, send_reliable_edu, send_push_pdu,                *)
(* send_pdu_appservice.  Each writes one batch and then sends on the       *)
(* channel, one message per destination; the handler may run in between.   *)

\* queue_requests: one insert_batch, which sqlite commits as a whole; rocksdb
\* stores one row after the other, and a crash in between leaves a smaller D.
\* A PDU is sent to a destination once, and the key of an EDU is a fresh count,
\* so the key is new.
QueueRequests(D, k) ==
  /\ \A d \in D : k \notin requested[d]
  /\ queued' = [d \in Destinations |->
                  IF d \in D THEN queued[d] \cup {k} ELSE queued[d]]
  /\ requested' = [d \in Destinations |->
                  IF d \in D THEN requested[d] \cup {k} ELSE requested[d]]
  /\ unsent' = unsent \cup {[dest |-> d, key |-> k] : d \in D}
  /\ UNCHANGED <<active, educount, edus, channel, status, futures, handler,
                 delivered, tried, failures, crashes, dbErrors>>

SendPdu(servers, k) == servers # {} /\ QueueRequests(servers, k)

\* send_reliable_edu, send_push_pdu and send_pdu_appservice
SendOne(d, k) == QueueRequests({d}, k)

\* sender.send(RequestData { .. })
SendOnChannel(m) ==
  /\ m \in unsent
  /\ unsent' = unsent \ {m}
  /\ channel' = Append(channel, m)
  /\ UNCHANGED <<trees, status, futures, handler, history>>

\* A read receipt of a local or a remote user, or a local user's device list
\* change, is stored in a shared room under the next count.
NewEdu(e) ==
  /\ Len(edus) < MaxEdus
  /\ edus' = Append(edus, e)
  /\ UNCHANGED <<queued, active, educount, memory, history>>

----------------------------------------------------------------------------
(* The handler task.                                                       *)

\* The part of handler() before its loop: the requests that were active when
\* the server stopped are sent again, and all but the first InitialLimit + 1
\* of a destination are dropped.
StartHandler ==
  LET kept(d) == Take(active[d], InitialLimit + 1)
      pending == {d \in Destinations : active[d] # {}}
  IN  /\ handler.pc = "starting"
      /\ active' = [d \in Destinations |-> kept(d)]
      /\ status' = [d \in Destinations |->
                      IF d \in pending THEN Running ELSE NoStatus]
      /\ futures' = {Launch(d, kept(d), {}) : d \in pending}
      /\ handler' = Idle
      /\ UNCHANGED <<queued, educount, edus, unsent, channel, history>>

\* handle_receiver with SelectedEvents::None: a transaction is running, or the
\* last one failed too recently.  The request stays queued.
HoldOff ==
  /\ handler.pc = "idle"
  /\ channel # <<>>
  /\ LET st == status[Head(channel).dest]
     IN  \/ st.state \in {"running", "retrying"}
         \/ st.state = "failed" /\ ~st.due
  /\ channel' = Tail(channel)
  /\ UNCHANGED <<trees, unsent, status, futures, handler, history>>

\* Mutant: the retry takes along what was queued since.
RetryTakesQueued ==
  /\ handler.pc = "idle"
  /\ channel # <<>>
  /\ LET d == Head(channel).dest
     IN  /\ status[d].state = "failed"
         /\ status[d].due
         /\ status' = [status EXCEPT ![d] = Retrying(status[d].tries)]
         /\ futures' = futures \cup {Launch(d, active[d] \cup queued[d], {})}
  /\ channel' = Tail(channel)
  /\ UNCHANGED <<trees, unsent, handler, history>>

\* handle_receiver with SelectedEvents::Retries: the back-off is over and the
\* previous transaction is sent again, from the active requests alone.
RetryOld ==
  /\ handler.pc = "idle"
  /\ channel # <<>>
  /\ LET d == Head(channel).dest
     IN  /\ status[d].state = "failed"
         /\ status[d].due
         /\ status' = [status EXCEPT ![d] = Retrying(status[d].tries)]
         /\ futures' = futures \cup {Launch(d, active[d], {})}
  /\ channel' = Tail(channel)
  /\ UNCHANGED <<trees, unsent, handler, history>>

\* Mutant: a running transaction does not hold off a new one.
SelectWhileRunning ==
  /\ handler.pc = "idle"
  /\ channel # <<>>
  /\ LET m == Head(channel)
     IN  /\ status[m.dest].state \in {"none", "running"}
         /\ status' = [status EXCEPT ![m.dest] = Running]
         /\ handler' = Working("marking", m.dest, {m.key}, {m.key},
                               "receiver", {}, {}, 0)
  /\ channel' = Tail(channel)
  /\ UNCHANGED <<trees, unsent, futures, history>>

\* handle_receiver with SelectedEvents::New, up to mark_as_active.
SelectNew ==
  /\ handler.pc = "idle"
  /\ channel # <<>>
  /\ LET m == Head(channel)
     IN  /\ status[m.dest].state = "none"
         /\ status' = [status EXCEPT ![m.dest] = Running]
         /\ handler' = Working("marking", m.dest, {m.key}, {m.key},
                               "receiver", {}, {}, 0)
  /\ channel' = Tail(channel)
  /\ UNCHANGED <<trees, unsent, futures, history>>

\* handle_response with an error.
MarkFailed(f) ==
  /\ handler.pc = "idle"
  /\ f \in futures
  /\ f.phase = "err"
  /\ futures' = futures \ {f}
  /\ status' = [status EXCEPT ![f.dest] =
                  CASE @.state = "running"  -> Failed(1)
                    [] @.state = "retrying" -> Failed(@.tries + 1)
                    [] OTHER -> @]
  /\ tried' = [tried EXCEPT ![f.dest] = [events |-> f.events, edus |-> f.edus]]
  /\ UNCHANGED <<trees, unsent, channel, handler,
                 requested, delivered, failures, crashes, dbErrors>>

\* Mutant: an error is taken for a success.
TakeAnyResult(f) ==
  /\ handler.pc = "idle"
  /\ f \in futures
  /\ f.phase \in {"ok", "err"}
  /\ futures' = futures \ {f}
  /\ handler' = Working("deleting", f.dest, {}, {}, "response", {}, {}, 0)
  /\ UNCHANGED <<trees, unsent, channel, status, history>>

\* handle_response with a success: starts delete_all_active_requests_for.
TakeSuccess(f) ==
  /\ handler.pc = "idle"
  /\ f \in futures
  /\ f.phase = "ok"
  /\ futures' = futures \ {f}
  /\ handler' = Working("deleting", f.dest, {}, {}, "response", {}, {}, 0)
  /\ UNCHANGED <<trees, unsent, channel, status, history>>

\* One round of the loop of delete_all_active_requests_for.
DeleteActive ==
  /\ handler.pc = "deleting"
  /\ active[handler.dest] # {}
  /\ active' = [active EXCEPT ![handler.dest] = @ \ {Least(@)}]
  /\ UNCHANGED <<queued, educount, edus, memory, history>>

\* Mutant: the queue is not scanned.
ForgetDestination ==
  /\ handler.pc = "deleting"
  /\ active[handler.dest] = {}
  /\ status' = [status EXCEPT ![handler.dest] = NoStatus]
  /\ handler' = Idle
  /\ UNCHANGED <<trees, unsent, channel, futures, history>>

\* The queue is scanned for the next batch; without one the destination is
\* forgotten.  The state of the destination's entry is left as it was.
NextBatch ==
  /\ handler.pc = "deleting"
  /\ active[handler.dest] = {}
  /\ LET d == handler.dest
         batch == Take(queued[d], BatchLimit)
     IN  \/ /\ batch = {}
            /\ status' = [status EXCEPT ![d] = NoStatus]
            /\ handler' = Idle
         \/ /\ batch # {}
            /\ handler' = Working("marking", d, batch, batch, "response", {}, {}, 0)
            /\ UNCHANGED status
  /\ UNCHANGED <<trees, unsent, channel, futures, history>>

\* mark_as_active, one request at a time: insert into the active tree ...
MarkInsert ==
  /\ handler.pc = "marking"
  /\ handler.todo # {}
  /\ active' = [active EXCEPT ![handler.dest] = @ \cup {Least(handler.todo)}]
  /\ handler' = [handler EXCEPT !.pc = "unqueueing"]
  /\ UNCHANGED <<queued, educount, edus, unsent, channel, status, futures, history>>

\* ... then remove from the queue.
MarkRemove ==
  /\ handler.pc = "unqueueing"
  /\ queued' = [queued EXCEPT ![handler.dest] = @ \ {Least(handler.todo)}]
  /\ handler' = [handler EXCEPT !.pc = "marking",
                                !.todo = @ \ {Least(handler.todo)}]
  /\ UNCHANGED <<active, educount, edus, unsent, channel, status, futures, history>>

\* The batch is durable: it is launched, unless EDUs are selected for it first.
MarkDone ==
  /\ handler.pc = "marking"
  /\ handler.todo = {}
  /\ LET d == handler.dest
     IN  IF handler.origin = "receiver" /\ d \in Servers
         THEN /\ handler' = Working("edus", d, handler.batch, {}, "receiver",
                                    Rooms, {}, educount[d])
              /\ UNCHANGED futures
         ELSE /\ futures' = futures \cup {Launch(d, handler.batch, {})}
              /\ handler' = Idle
  /\ UNCHANGED <<trees, unsent, channel, status, history>>

(***************************************************************************)
(* select_edus scans one room after the other.  In a room it takes every   *)
(* device list change since the stored count, then the receipts in the     *)
(* order of their counts, those of remote users only moving `last', until  *)
(* EduLimit local receipts are collected.                                  *)
(***************************************************************************)
Fresh(s, r, kinds) == {i \in DOMAIN edus : /\ i > educount[s]
                                           /\ edus[i].room = r
                                           /\ edus[i].kind \in kinds}

Receipts(S) == {i \in S : edus[i].kind = "local"}

ScannedReceipts(s, r, collected) ==
  {i \in Fresh(s, r, {"local", "remote"}) :
     Cardinality({j \in Fresh(s, r, {"local"}) : j < i}) + collected < EduLimit}

SelectRoomEdus ==
  /\ handler.pc = "edus"
  /\ handler.rooms # {}
  /\ LET s == handler.dest
         r == Least(handler.rooms)
         scanned == ScannedReceipts(s, r, Cardinality(Receipts(handler.picked)))
         picked == handler.picked \cup Receipts(scanned) \cup Fresh(s, r, {"device"})
         full == Cardinality(Receipts(picked)) >= EduLimit
     IN  handler' = [handler EXCEPT
                       !.rooms = IF full THEN {} ELSE @ \ {r},
                       !.picked = picked,
                       !.last = CHOOSE m \in scanned \cup {@} :
                                  \A i \in scanned \cup {@} : i =< m]
  /\ UNCHANGED <<trees, unsent, channel, status, futures, history>>

\* Mutant: the count is not stored.
LaunchWithoutCount ==
  /\ handler.pc = "edus"
  /\ handler.rooms = {}
  /\ futures' = futures \cup {Launch(handler.dest, handler.batch, handler.picked)}
  /\ handler' = Idle
  /\ UNCHANGED <<trees, unsent, channel, status, history>>

\* set_latest_educount, then the transaction is launched with the EDUs.
LaunchWithEdus ==
  /\ handler.pc = "edus"
  /\ handler.rooms = {}
  /\ educount' = [educount EXCEPT ![handler.dest] = handler.last]
  /\ futures' = futures \cup {Launch(handler.dest, handler.batch, handler.picked)}
  /\ handler' = Idle
  /\ UNCHANGED <<queued, active, edus, unsent, channel, status, history>>

\* select_edus fails on a row it cannot read: its error is ignored, the batch is
\* launched without EDUs and the count stays.
SelectEdusFails ==
  /\ dbErrors < MaxDbErrors
  /\ handler.pc = "edus"
  /\ handler.rooms # {}
  /\ futures' = futures \cup {Launch(handler.dest, handler.batch, {})}
  /\ handler' = Idle
  /\ dbErrors' = dbErrors + 1
  /\ UNCHANGED <<trees, unsent, channel, status,
                 requested, delivered, tried, failures, crashes>>

\* A failed write.  handle_receiver logs it and goes on, leaving the entry it
\* just inserted; in handle_response it ends handler() and unwrap() panics.
DbError ==
  /\ dbErrors < MaxDbErrors
  /\ \/ handler.pc \in {"deleting", "unqueueing"}
     \/ handler.pc = "marking" /\ handler.todo # {}
     \/ handler.pc = "edus" /\ handler.rooms = {}
  /\ handler' = IF handler.origin = "receiver" THEN Idle ELSE [pc |-> "dead"]
  /\ dbErrors' = dbErrors + 1
  /\ UNCHANGED <<trees, unsent, channel, status, futures,
                 requested, delivered, tried, failures, crashes>>

----------------------------------------------------------------------------
(* handle_events: the transactions in flight.                              *)

SetPhase(f, phase) == (futures \ {f}) \cup {[f EXCEPT !.phase = phase]}

\* maximum_requests.acquire()
AcquirePermit(f) ==
  /\ f \in futures
  /\ f.phase = "waiting"
  /\ Cardinality({g \in futures : g.phase = "sending"}) < MaxRequests
  /\ futures' = SetPhase(f, "sending")
  /\ UNCHANGED <<trees, unsent, channel, status, handler, history>>

\* The remote answered.
Succeed(f) ==
  /\ f \in futures
  /\ f.phase = "sending"
  /\ futures' = SetPhase(f, "ok")
  /\ delivered' = [delivered EXCEPT ![f.dest] = @ \cup f.events]
  /\ UNCHANGED <<trees, unsent, channel, status, handler,
                 requested, tried, failures, crashes, dbErrors>>

\* What reached the remote although the transaction failed: one request holds
\* all of a federation or appservice transaction and its answer may be lost;
\* push notices are sent one by one.
PartlyDelivered(f) ==
  IF f.dest \in Pushers
  THEN {Take(f.events, n) : n \in 0..Cardinality(f.events)}
  ELSE {{}, f.events}

\* An error or the timeout of the HTTP client.
Fail(f) ==
  /\ failures < MaxFailures
  /\ f \in futures
  /\ f.phase = "sending"
  /\ futures' = SetPhase(f, "err")
  /\ \E got \in PartlyDelivered(f) :
       delivered' = [delivered EXCEPT ![f.dest] = @ \cup got]
  /\ failures' = failures + 1
  /\ UNCHANGED <<trees, unsent, channel, status, handler,
                 requested, tried, crashes, dbErrors>>

\* time.elapsed() has reached the back-off of the last failure.
BackoffElapses(d) ==
  /\ status[d].state = "failed"
  /\ ~status[d].due
  /\ status' = [status EXCEPT ![d].due = TRUE]
  /\ UNCHANGED <<trees, unsent, channel, futures, handler, history>>

\* The process stops at any point and starts again: only the trees are left.
Crash ==
  /\ crashes < MaxCrashes
  /\ crashes' = crashes + 1
  /\ unsent' = {}
  /\ channel' = <<>>
  /\ status' = [d \in Destinations |-> NoStatus]
  /\ futures' = {}
  /\ handler' = [pc |-> "starting"]
  /\ UNCHANGED <<trees, requested, delivered, tried, failures, dbErrors>>

----------------------------------------------------------------------------
Callers ==
  \/ \E S \in SUBSET Servers, k \in Keys : SendPdu(S, k)
  \/ \E d \in Destinations, k \in Keys : SendOne(d, k)
  \/ \E e \in EduEvent : NewEdu(e)

HandlerStep ==
  \/ StartHandler
  \/ HoldOff \/ RetryOld \/ SelectNew
  \/ \E f \in futures : MarkFailed(f) \/ TakeSuccess(f)
  \/ DeleteActive \/ NextBatch
  \/ MarkInsert \/ MarkRemove \/ MarkDone
  \/ SelectRoomEdus \/ LaunchWithEdus

Remote == \E f \in futures : AcquirePermit(f) \/ Succeed(f) \/ Fail(f)

Next ==
  \/ Callers
  \/ \E m \in unsent : SendOnChannel(m)
  \/ HandlerStep
  \/ SelectEdusFails \/ DbError
  \/ Remote
  \/ \E d \in Destinations : BackoffElapses(d)
  \/ Crash

Spec == Init /\ [][Next]_vars

(***************************************************************************)
(* Fairness.  A caller that persisted a request goes on to send it; the    *)
(* handler task is always polled, its select! taking either ready branch   *)
(* again and again; a request to a remote ends, by the client's timeout at *)
(* the latest; time passes.  Nothing makes a caller send, or a write fail. *)
(***************************************************************************)
FairSpec ==
  /\ Spec
  /\ WF_vars(\E m \in unsent : SendOnChannel(m))
  /\ WF_vars(HandlerStep)
  /\ SF_vars(HoldOff \/ RetryOld \/ SelectNew)
  /\ \A d \in Destinations :
       /\ SF_vars(\E f \in futures : f.dest = d /\ (MarkFailed(f) \/ TakeSuccess(f)))
       /\ SF_vars(\E f \in futures : f.dest = d /\ AcquirePermit(f))
       /\ WF_vars(\E f \in futures : f.dest = d /\ (Succeed(f) \/ Fail(f)))
       /\ WF_vars(BackoffElapses(d))

----------------------------------------------------------------------------
(* Properties.                                                             *)

\* The handler works on a destination.
Busy == handler.pc \in {"deleting", "marking", "unqueueing", "edus"}

\* Type correctness of the trees, the handler's memory and the history.
TypeOK ==
  /\ queued \in [Destinations -> SUBSET Keys]
  /\ active \in [Destinations -> SUBSET Keys]
  /\ educount \in [Servers -> Nat]
  /\ edus \in Seq(EduEvent)
  /\ unsent \subseteq [dest : Destinations, key : Keys]
  /\ channel \in Seq([dest : Destinations, key : Keys])
  /\ status \in [Destinations -> Status]
  /\ futures \subseteq Transaction
  /\ handler \in HandlerState
  /\ requested \in [Destinations -> SUBSET Keys]
  /\ delivered \in [Destinations -> SUBSET Keys]
  /\ tried \in [Destinations -> [events : SUBSET Keys, edus : SUBSET Nat]]
  /\ failures \in Nat /\ crashes \in Nat /\ dbErrors \in Nat

\* At-least-once delivery: whatever crashes, fails or is retried, a request
\* that queue_requests persisted is in a tree until the remote has received it.
NothingLost ==
  \A d \in Destinations :
    requested[d] \subseteq delivered[d] \cup queued[d] \cup active[d]

\* The transaction map lets one transaction per destination run at a time,
\* and a finished one counts until handle_response has seen it.
OneTransactionPerDestination ==
  /\ \A f, g \in futures : f.dest = g.dest => f = g
  /\ \A f \in futures : Busy => f.dest # handler.dest

\* "Request that was not even running failed?!" is never logged: a transaction
\* in flight has a running or retrying entry, so its error is counted.
FailureIsOfARunningTransaction ==
  \A f \in futures : status[f.dest].state \in {"running", "retrying"}

\* "Dropping some current events" never happens at startup: the requests that
\* are active for a destination fit in the first transaction after a restart.
NothingDroppedAtStart ==
  \A d \in Destinations : Cardinality(active[d]) =< InitialLimit + 1

\* A transaction carries exactly the requests stored as active, so that a crash
\* in the middle of it sends the same ones again, and a success may delete all.
InFlightIsDurable ==
  \A f \in futures : f.events = active[f.dest] /\ f.events # {}

\* The persisted requests of a failed transaction stay its content: whatever is
\* queued, answered or sent elsewhere during the back-off, the retry carries the
\* requests that failed, no more and no less.  It is not the same transaction: the
\* EDUs that select_edus had added to the first one are in no tree, the retry has
\* none of them, and so it has another hash for its transaction ID.
RetryRepeatsPersistedRequests ==
  [][\A d \in Destinations :
       status[d].state = "failed" /\ status'[d].state # "none" =>
         \A f \in futures' \ futures :
           f.dest = d => f.events = tried[d].events /\ f.edus = {}]_vars

\* "We retry the previous transaction" (the comment in select_events): the retry
\* carries the ephemeral events, too, that the transaction carried when it failed.
RetryIsThePreviousTransaction ==
  [][\A d \in Destinations :
       status[d].state = "failed" /\ status'[d].state # "none" =>
         \A f \in futures' \ futures :
           f.dest = d => f.events = tried[d].events /\ f.edus = tried[d].edus]_vars

\* servername_educount moves past a local receipt in the step that launches
\* it, so no receipt is ever sent twice to a server, crash or not.
ReceiptSentAtMostOnce ==
  [][\A f \in futures' \ futures :
       f.dest \in Servers =>
         \A i \in Receipts(f.edus) :
           f.phase = "waiting" => educount[f.dest] < i /\ i =< educount'[f.dest]]_vars

\* Without crashes and failed writes, a persisted request reaches its remote
\* unless the destination is left in the failed state (nothing but the next
\* request to it starts the retry).
RequestEventuallyHandled ==
  \A d \in Destinations, k \in Keys :
    k \in requested[d] ~> k \in delivered[d] \/ status[d].state = "failed"

\* "Retry requests we could not finish yet" (the comment in handler() before
\* the loop): a request that was persisted before a restart is sent after it.
UnfinishedRequestsAreRetried ==
  \A d \in Destinations, k \in Keys :
    handler.pc = "starting" /\ k \in queued[d] \cup active[d] ~>
      k \in delivered[d] \/ status[d].state = "failed"

----------------------------------------------------------------------------
(* The inductive invariant behind NothingLost (proved in SendingProofs).   *)

InProgress(d) == status[d].state \in {"running", "retrying"}

\* A transaction in flight repeats the active tree, and is over only when the
\* remote has everything.
FuturesInv ==
  \A f \in futures :
    /\ f.events = active[f.dest]
    /\ f.events # {}
    /\ InProgress(f.dest)
    /\ f.phase = "ok" => f.events \subseteq delivered[f.dest]

\* Whatever the handler is doing to a destination, that entry is in progress;
\* what it deletes is delivered, and what it has marked so far is active.
HandlerInv ==
  /\ Busy => InProgress(handler.dest)
  /\ handler.pc = "deleting" => active[handler.dest] \subseteq delivered[handler.dest]
  /\ handler.pc \in {"marking", "unqueueing", "edus"} =>
       /\ handler.batch # {}
       /\ Cardinality(handler.batch) =< BatchLimit
       /\ handler.todo \subseteq handler.batch
  /\ handler.pc = "marking" => active[handler.dest] = handler.batch \ handler.todo
  /\ handler.pc = "unqueueing" =>
       /\ handler.todo # {}
       /\ active[handler.dest] = (handler.batch \ handler.todo) \cup {Least(handler.todo)}
  /\ handler.pc = "edus" => /\ active[handler.dest] = handler.batch
                            /\ handler.todo = {}
                            /\ handler.dest \in Servers

\* Before the handler has read the active tree there is no transaction; after
\* that a destination without an entry has no active request.
StatusInv ==
  /\ handler.pc = "starting" => futures = {}
  /\ handler.pc # "starting" =>
       \A d \in Destinations : status[d].state = "none" => active[d] = {}

\* A failed transaction left its requests in the active tree.
FailedInv ==
  \A d \in Destinations :
    status[d].state = "failed" => active[d] # {} /\ active[d] = tried[d].events

ActiveBounded == \A d \in Destinations : Cardinality(active[d]) =< BatchLimit

IInv ==
  /\ TypeOK
  /\ NothingLost
  /\ OneTransactionPerDestination
  /\ FuturesInv
  /\ HandlerInv
  /\ StatusInv
  /\ FailedInv
  /\ ActiveBounded

=============================================================================
