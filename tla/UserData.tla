------------------------------- MODULE UserData -------------------------------
(***************************************************************************)
(* What the server keeps for a user's clients: account data and tags       *)
(* (kv account_data.rs, config.rs, tag.rs), key backups (kv key_backups.rs,*)
(* backup.rs) and transaction IDs (kv transaction_ids.rs, message.rs).     *)
(*                                                                         *)
(* One user with several devices.  Requests run at the same time and       *)
(* interleave row by row, without locks, except that sending an event      *)
(* holds roomid_mutex_state of its room.  The process may die anywhere.    *)
(***************************************************************************)
EXTENDS Naturals, Sequences, FiniteSets, SequencesExt

CONSTANTS
  Requests,    \* requests that run at the same time
  Types,       \* types of account data; "m.tag" is that of the tags of a room
  Tags,
  Slots,       \* <<room, session>> of a key in a backup
  Longer,      \* pairs of slots of a room: the second session ID, any text of a
               \* client, begins with the first
  Txns,        \* transaction IDs; a client uses one for one event and its retries
  FirstCount,  \* the counter at the start
  MaxOps,      \* bound: requests of one behaviour
  MaxCrashes   \* bound: crashes of one behaviour

None == 0

ASSUME UserDataAssumption ==
  /\ "m.tag" \in Types /\ None \notin Requests /\ IsFiniteSet(Slots)
  /\ Longer \subseteq {p \in Slots \X Slots : p[1][1] = p[2][1] /\ p[1] # p[2]}
  /\ FirstCount \in Nat /\ MaxOps \in Nat /\ MaxCrashes \in Nat

VARIABLES
  counter,
  data,        \* roomuserdataid_accountdata: <<count, type, content>>
  index,       \* roomusertype_roomuserdataid
  algorithm,   \* backupid_algorithm: the versions of backups
  etag,        \* backupid_etag
  keys,        \* backupkeyid_backup: <<version, slot>>
  txns,        \* userdevicetxnid_response: <<transaction, event>>
  events,      \* events in the timeline: <<event, transaction>>
  lock,        \* who holds the mutex of the room
  todo,        \* what is left to do of a request
  ops, crashes,
  deleting,    \* history: keys that a running request may delete
  named,       \* history: keys that it was asked to delete
  kept,        \* history: keys that were stored and not deleted since
  answers,     \* history: <<transaction, event>> given to the client
  torn         \* history: transactions that ended between their event and their row,
               \* by a crash or by an error

accountData == <<data, index>>
backups == <<algorithm, etag, keys, deleting, named, kept>>
messages == <<txns, events, lock, answers, torn>>
vars == <<counter, accountData, backups, messages, todo, ops, crashes>>

-----------------------------------------------------------------------------
(* Reading *)

\* account_data.get: through the index.
Get(type) ==
  {row[3] : row \in {x \in data : x[1] = index[type] /\ x[2] = type}}
TagsOf == UNION Get("m.tag")

\* A version is a number as text; keys are in the order of their bytes.  This
\* has the digits of numbers below 100.
Digits(n) == IF n < 10 THEN <<n>> ELSE <<n \div 10, n % 10>>
TextLess(a, b) ==
  \/ IsStrictPrefix(a, b)
  \/ \E i \in 1..Len(a) : /\ i <= Len(b) /\ a[i] < b[i]
                          /\ \A j \in 1..i - 1 : a[j] = b[j]

\* The last key: get_latest_backup_version, get_latest_backup.
GetLatestBackupVersion ==
  IF algorithm = {} THEN None
  ELSE CHOOSE v \in algorithm :
         \A w \in algorithm \ {v} : TextLess(Digits(w), Digits(v))

\* The keys that a prefix stands for: those of a version, of a room, of a
\* session.  Versions and rooms end with a separator in the prefix, session IDs
\* do not.
OfVersion(v) == {v} \X Slots
OfRoom(v, room) == {k \in OfVersion(v) : k[2][1] = room}
OfSession(v, slot) == {k \in OfVersion(v) : k[2] = slot \/ <<slot, k[2]>> \in Longer}

\* get_all, get_room and get_session (by the whole key), and what the three routes say of a key.
GetAll(v) == keys \cap OfVersion(v)
GetRoom(v, room) == keys \cap OfRoom(v, room)
GetSession(v, slot) == keys \cap {<<v, slot>>}
GetBackupKeysRoutes(k) ==
  k \in GetAll(k[1]) /\ k \in GetRoom(k[1], k[2][1]) /\ GetSession(k[1], k[2]) = {k}

\* existing_txnid
ExistingTxnId(x) == {row \in txns : row[1] = x}

-----------------------------------------------------------------------------
(* Requests *)

Start(t, first) ==
  /\ todo[t] = <<>> /\ ops < MaxOps
  /\ ops' = ops + 1
  /\ todo' = [todo EXCEPT ![t] = first]
  /\ UNCHANGED <<counter, accountData, messages, crashes>>

\* set_global_account_data_route, set_room_account_data_route
SetAccountDataRoute(t, type, content) ==
  /\ Start(t, << <<"data", type, content>> >>)
  /\ UNCHANGED backups

\* update_tag_route, delete_tag_route: the tags are read, changed and stored.
TagRoute(t, tag, add) ==
  /\ Start(t, << <<"data", "m.tag", IF add THEN TagsOf \cup {tag} ELSE TagsOf \ {tag}>> >>)
  /\ UNCHANGED backups

\* create_backup_version_route, update_backup_version_route
CreateBackupRoute(t) == Start(t, << <<"create">> >>) /\ UNCHANGED backups
UpdateBackupRoute(t, v) ==
  Start(t, << <<"algorithm", v>>, <<"etag", v>> >>) /\ v \in algorithm /\ UNCHANGED backups

\* add_backup_keys_route and the two for one room and one session.
AddBackupKeysRoute(t, v, slots) ==
  /\ v = GetLatestBackupVersion
  /\ Start(t, LET seq == SetToSeq(slots) IN [i \in 1..Len(seq) |-> <<"add", v, seq[i]>>])
  /\ UNCHANGED backups

\* delete_all_keys, delete_room_keys, delete_room_key: `ks' are the keys with the
\* prefix, `names' those that the request is about.
Deletes(t, ks, names, before) ==
  /\ Start(t, before \o << <<"find", ks>> >>)
  /\ deleting' = [deleting EXCEPT ![t] = ks]
  /\ named' = [named EXCEPT ![t] = names]
  /\ kept' = kept \ ks
  /\ UNCHANGED <<algorithm, etag, keys>>

DeleteBackupRoute(t, v) ==
  Deletes(t, OfVersion(v), OfVersion(v), << <<"noalgorithm", v>>, <<"noetag", v>> >>)
DeleteAllKeysRoute(t, v) == Deletes(t, OfVersion(v), OfVersion(v), <<>>)
DeleteRoomKeysRoute(t, v, room) == Deletes(t, OfRoom(v, room), OfRoom(v, room), <<>>)
DeleteRoomKeyRoute(t, v, slot) == Deletes(t, OfSession(v, slot), {<<v, slot>>}, <<>>)

\* send_message_event_route, first half: the mutex of the room is taken.
SendMessageEventRoute(t, x) ==
  /\ Start(t, << <<"lock", x>> >>)
  /\ UNCHANGED backups

-----------------------------------------------------------------------------
(* Steps *)

Is(t, kind) == todo[t] # <<>> /\ Head(todo[t])[1] = kind
Arg(t, i) == Head(todo[t])[i]
Then(t, steps) == todo' = [todo EXCEPT ![t] = steps \o Tail(@)]
Done(t) == Then(t, <<>>)

\* account_data.update: the new row, under a new number.
InsertData(t) ==
  /\ Is(t, "data")
  /\ counter' = counter + 1
  /\ data' = data \cup {<<counter + 1, Arg(t, 2), Arg(t, 3)>>}
  /\ Then(t, << <<"previous", Arg(t, 2), counter + 1>> >>)
  /\ UNCHANGED <<index, backups, messages, ops, crashes>>

\* Mutant: the old row goes before the index is changed.
PreviousDataFirst(t) ==
  /\ Is(t, "previous")
  /\ Then(t, << <<"remove", index[Arg(t, 2)]>>, <<"index", Arg(t, 2), Arg(t, 3)>> >>)
  /\ UNCHANGED <<counter, accountData, backups, messages, ops, crashes>>

PreviousData(t) ==
  /\ Is(t, "previous")
  /\ Then(t, << <<"index", Arg(t, 2), Arg(t, 3)>>, <<"remove", index[Arg(t, 2)]>> >>)
  /\ UNCHANGED <<counter, accountData, backups, messages, ops, crashes>>

InsertIndex(t) ==
  /\ Is(t, "index")
  /\ index' = [index EXCEPT ![Arg(t, 2)] = Arg(t, 3)]
  /\ Done(t)
  /\ UNCHANGED <<counter, data, backups, messages, ops, crashes>>

RemoveData(t) ==
  /\ Is(t, "remove")
  /\ data' = {row \in data : row[1] # Arg(t, 2)}
  /\ Done(t)
  /\ UNCHANGED <<counter, index, backups, messages, ops, crashes>>

\* create_backup: the version is a new number.
CreateBackup(t) ==
  /\ Is(t, "create")
  /\ counter' = counter + 1
  /\ algorithm' = algorithm \cup {counter + 1}
  /\ Then(t, << <<"etag", counter + 1>> >>)
  /\ UNCHANGED <<accountData, etag, keys, deleting, named, kept, messages, ops, crashes>>

\* update_backup found the version before, and stores it again.
UpdateBackup(t) ==
  /\ Is(t, "algorithm")
  /\ algorithm' = algorithm \cup {Arg(t, 2)}
  /\ Done(t)
  /\ UNCHANGED <<counter, accountData, etag, keys, deleting, named, kept, messages, ops, crashes>>

SetEtag(t) ==
  /\ Is(t, "etag")
  /\ counter' = counter + 1
  /\ etag' = {x \in etag : x[1] # Arg(t, 2)} \cup {<<Arg(t, 2), counter + 1>>}
  /\ Done(t)
  /\ UNCHANGED <<accountData, algorithm, keys, deleting, named, kept, messages, ops, crashes>>

\* add_key: an error for a version that is gone ends the request.
AddKey(t) ==
  /\ Is(t, "add")
  /\ IF Arg(t, 2) \in algorithm
     THEN Then(t, << <<"etag", Arg(t, 2)>>, <<"key", Arg(t, 2), Arg(t, 3)>> >>)
     ELSE todo' = [todo EXCEPT ![t] = <<>>]
  /\ UNCHANGED <<counter, accountData, backups, messages, ops, crashes>>

InsertKey(t) ==
  LET key == <<Arg(t, 2), Arg(t, 3)>>
  IN  /\ Is(t, "key")
      /\ keys' = keys \cup {key}
      /\ kept' = IF \E u \in Requests : key \in deleting[u] THEN kept ELSE kept \cup {key}
      /\ Done(t)
      /\ UNCHANGED <<counter, accountData, algorithm, etag, deleting, named, messages, ops, crashes>>

RemoveBackup(t) ==
  /\ \/ Is(t, "noalgorithm") /\ algorithm' = algorithm \ {Arg(t, 2)} /\ UNCHANGED etag
     \/ Is(t, "noetag") /\ etag' = {x \in etag : x[1] # Arg(t, 2)} /\ UNCHANGED algorithm
  /\ Done(t)
  /\ UNCHANGED <<counter, accountData, keys, deleting, named, kept, messages, ops, crashes>>

\* Mutant: the scan goes by the version alone.
FindKeysOfVersion(t) ==
  /\ Is(t, "find")
  /\ Then(t, << <<"scan", {k \in keys : \E d \in Arg(t, 2) : d[1] = k[1]}>> >>)
  /\ UNCHANGED <<counter, accountData, backups, messages, ops, crashes>>

\* scan_prefix: what is there at that moment.
FindKeys(t) ==
  /\ Is(t, "find")
  /\ Then(t, << <<"scan", keys \cap Arg(t, 2)>> >>)
  /\ UNCHANGED <<counter, accountData, backups, messages, ops, crashes>>

\* The keys that it found are removed one by one.
RemoveKey(t) ==
  /\ Is(t, "scan")
  /\ IF Arg(t, 2) = {}
     THEN /\ Done(t) /\ UNCHANGED keys
          /\ deleting' = [deleting EXCEPT ![t] = {}]
          /\ named' = [named EXCEPT ![t] = {}]
     ELSE /\ \E k \in Arg(t, 2) : /\ keys' = keys \ {k}
                                  /\ Then(t, << <<"scan", Arg(t, 2) \ {k}>> >>)
          /\ UNCHANGED <<deleting, named>>
  /\ UNCHANGED <<counter, accountData, algorithm, etag, kept, messages, ops, crashes>>

\* Mutant: the transaction is looked up without the mutex.
LockUnneeded(t) ==
  /\ Is(t, "lock")
  /\ lock' = t
  /\ Then(t, IF ExistingTxnId(Arg(t, 2)) = {} THEN << <<"event", Arg(t, 2)>> >>
             ELSE << <<"unlock", Arg(t, 2)>> >>)
  /\ UNCHANGED <<counter, accountData, backups, txns, events, answers, torn, ops, crashes>>

\* With the mutex: is this a transaction that was done before?
Lock(t) ==
  /\ Is(t, "lock") /\ lock = None
  /\ lock' = t
  /\ Then(t, IF ExistingTxnId(Arg(t, 2)) = {} THEN << <<"event", Arg(t, 2)>> >>
             ELSE << <<"unlock", Arg(t, 2)>> >>)
  /\ UNCHANGED <<counter, accountData, backups, txns, events, answers, torn, ops, crashes>>

\* build_and_append_pdu
AppendEvent(t) ==
  /\ Is(t, "event")
  /\ counter' = counter + 1
  /\ events' = events \cup {<<counter + 1, Arg(t, 2)>>}
  /\ Then(t, << <<"txnid", Arg(t, 2), counter + 1>> >>)
  /\ UNCHANGED <<accountData, backups, txns, lock, answers, torn, ops, crashes>>

\* It fails before the event: encryption is off, the content is no JSON, or auth
\* rules refuse.
RefuseEvent(t) ==
  /\ Is(t, "event")
  /\ Then(t, << <<"unlock", Arg(t, 2)>> >>)
  /\ UNCHANGED <<counter, accountData, backups, messages, ops, crashes>>

\* It fails after the event: append_pdu has stored the row, then cannot read the
\* content, as that of a message whose body is no text.  The route returns the
\* error, and the transaction has no row.
FailAfterEvent(t) ==
  /\ Is(t, "event")
  /\ counter' = counter + 1
  /\ events' = events \cup {<<counter + 1, Arg(t, 2)>>}
  /\ torn' = torn \cup {Arg(t, 2)}
  /\ Then(t, << <<"unlock", Arg(t, 2)>> >>)
  /\ UNCHANGED <<accountData, backups, txns, lock, answers, ops, crashes>>

AddTxnId(t) ==
  /\ Is(t, "txnid")
  /\ txns' = {row \in txns : row[1] # Arg(t, 2)} \cup {<<Arg(t, 2), Arg(t, 3)>>}
  /\ Then(t, << <<"unlock", Arg(t, 2)>> >>)
  /\ UNCHANGED <<counter, accountData, backups, events, lock, answers, torn, ops, crashes>>

Unlock(t) ==
  /\ Is(t, "unlock")
  /\ lock' = None
  /\ answers' = answers \cup ExistingTxnId(Arg(t, 2))
  /\ Done(t)
  /\ UNCHANGED <<counter, accountData, backups, txns, events, torn, ops, crashes>>

Crash ==
  /\ crashes < MaxCrashes /\ \E t \in Requests : todo[t] # <<>>
  /\ crashes' = crashes + 1
  /\ torn' = torn \cup {Arg(t, 2) : t \in {u \in Requests : Is(u, "txnid")}}
  /\ todo' = [t \in Requests |-> <<>>]
  /\ deleting' = [t \in Requests |-> {}] /\ named' = [t \in Requests |-> {}]
  /\ lock' = None
  /\ UNCHANGED <<counter, accountData, algorithm, etag, keys, kept, txns, events, answers, ops>>

-----------------------------------------------------------------------------

Init ==
  /\ counter = FirstCount
  /\ data = {} /\ index = [type \in Types |-> None]
  /\ algorithm = {} /\ etag = {} /\ keys = {} /\ kept = {}
  /\ deleting = [t \in Requests |-> {}] /\ named = [t \in Requests |-> {}]
  /\ txns = {} /\ events = {} /\ lock = None /\ answers = {} /\ torn = {}
  /\ todo = [t \in Requests |-> <<>>]
  /\ ops = 0 /\ crashes = 0

Request(t) ==
  \/ \E type \in Types \ {"m.tag"} : SetAccountDataRoute(t, type, {})
  \/ \E tag \in Tags, add \in BOOLEAN : TagRoute(t, tag, add)
  \/ CreateBackupRoute(t)
  \/ \E v \in algorithm :
       \/ UpdateBackupRoute(t, v) \/ DeleteBackupRoute(t, v) \/ DeleteAllKeysRoute(t, v)
       \/ \E slots \in SUBSET Slots \ {{}} : AddBackupKeysRoute(t, v, slots)
       \/ \E slot \in Slots : DeleteRoomKeysRoute(t, v, slot[1]) \/ DeleteRoomKeyRoute(t, v, slot)
  \/ \E x \in Txns : SendMessageEventRoute(t, x)

Step(t) ==
  \/ InsertData(t) \/ PreviousData(t) \/ InsertIndex(t) \/ RemoveData(t)
  \/ CreateBackup(t) \/ UpdateBackup(t) \/ SetEtag(t) \/ AddKey(t) \/ InsertKey(t)
  \/ RemoveBackup(t) \/ FindKeys(t) \/ RemoveKey(t)
  \/ Lock(t) \/ AppendEvent(t) \/ RefuseEvent(t) \/ FailAfterEvent(t)
  \/ AddTxnId(t) \/ Unlock(t)

Next == (\E t \in Requests : Request(t) \/ Step(t)) \/ Crash

Spec == Init /\ [][Next]_vars

-----------------------------------------------------------------------------
(* Properties *)

\* Whatever updates run at the same time or are cut off, the index of account
\* data leads to a row of its type.
AccountDataIsFound ==
  \A type \in Types : index[type] # None => Get(type) # {}

\* A key that was stored in a backup is in the answers of the three routes that
\* read it, until a request deletes it or a key of its room whose session ID is
\* a prefix of its own, whatever else is added or deleted at the same time or
\* cut off.
BackedUpKeysKept == \A k \in kept : GetBackupKeysRoutes(k)

\* A request deletes the keys that it names ("Delete a key from the backup"):
\* false of session IDs that begin with the one that is deleted.
OnlyNamedKeysDeleted ==
  [][\A t \in Requests : RemoveKey(t) => keys \ keys' \subseteq named[t]]_vars

\* A client that repeats a transaction, also while the first try is running,
\* gets one event in the room and the same answer, unless a try ended between
\* storing the event and storing the transaction, by a crash or an error.
OneEventPerTransaction ==
  /\ answers \subseteq {<<e[2], e[1]>> : e \in events}
  /\ \A x \in Txns \ torn : /\ Cardinality({e \in events : e[2] = x}) <= 1
                            /\ Cardinality({a \in answers : a[1] = x}) <= 1

\* Without a crash, a transaction that was tried before makes no other event ("Is
\* a NOOP if the txn id was already used before"): false after an error that
\* comes when the event is stored.
RetryIsNoop ==
  crashes = 0 => \A x \in Txns : Cardinality({e \in events : e[2] = x}) <= 1

\* The version of the backup that keys may be added to is the newest.
LatestBackupIsNewest ==
  \A v \in algorithm : v <= GetLatestBackupVersion

=============================================================================
