------------------------------ MODULE Accounts ------------------------------
(***************************************************************************)
(* Accounts, devices, access tokens and encryption keys of the users of    *)
(* this server: service/users.rs, service/uiaa.rs, their key-value trees   *)
(* and the routes of session.rs, account.rs, device.rs and keys.rs, with   *)
(* the admin commands that change accounts.                                *)
(*                                                                         *)
(* No lock guards these trees.  A request reads, and what it reads decides *)
(* its `todo', the calls of the services that follow.  A call is a list of *)
(* reads and writes, which are taken one by one: other requests come       *)
(* between, an assertion that fails or a missing row ends the request      *)
(* where it is, and so does a crash.                                       *)
(*                                                                         *)
(* Passwords, keys and signatures are abstracted: a password is there, is  *)
(* empty or is missing, whether it matches is a choice, and a key is the   *)
(* set of the users who signed it.                                         *)
(***************************************************************************)
EXTENDS Naturals, Sequences, FiniteSets

CONSTANTS
  Users,        \* users of this server
  Remote,       \* users of other servers
  Devices,
  FirstDevice,  \* the device that a registered user starts with
  Registered,   \* users who have an account at the start
  Bridged,      \* users in the namespace of the application service
  InRoom,       \* members of the encrypted room
  Room,         \* the encrypted room
  OneTimeKeys,  \* one-time key IDs of a device, numbers
  Tasks,
  None,         \* no row, no device, no session
  MaxOps,       \* bound: requests of one behaviour
  MaxCrashes    \* bound: crashes of one behaviour

UserDevices == Users \X Devices

ASSUME AccountsAssumption ==
  /\ Users \cap Remote = {} /\ IsFiniteSet(Users \cup Remote)
  /\ Registered \subseteq Users /\ Bridged \subseteq Users
  /\ InRoom \subseteq Users \cup Remote
  /\ Room \notin Users \cup Remote
  /\ FirstDevice \in Devices
  /\ None \notin Devices \cup UserDevices \cup Nat \cup {"device"}
  /\ OneTimeKeys \subseteq Nat /\ IsFiniteSet(OneTimeKeys)
  /\ MaxOps \in Nat /\ MaxCrashes \in Nat

\* Every request makes at most one token.
Tokens == 1..(MaxOps + Cardinality(Registered))
KeyIds == UserDevices \cup ((Users \cup Remote) \X {"master", "self", "user"})

Trees == {"password", "profile", "pushrules", "metadata", "token", "device",
          "todevice", "version", "onetimekeys", "lastonetimekeyupdate", "keys",
          "pointer", "sessions"}

VARIABLES
  db,        \* the trees: the value of every key, or None
  changes,   \* keychangeid_userid: <<room or user, count, user>>
  counter,   \* globals: the last number of next_count
  tokens,    \* tokens made so far
  admins,    \* local members of the admin room besides the server's user
  inRooms,   \* users who are in some room
  requests,  \* userdevicesessionid_uiaarequest, in memory
  failed,    \* bad_query_ratelimiter: whether the remote server failed
  task,
  ops, crashes,
  fresh,     \* ghost: the number when a call that was not refused last changed
             \* a user's public keys
  given,     \* ghost: how often a one-time key was handed out
  mixed,     \* ghost: devices with requests that overlapped
  torn       \* ghost: users with a request that was cut off

vars == <<db, changes, counter, tokens, admins, inRooms, requests, failed,
          task, ops, crashes, fresh, given, mixed, torn>>

\* `todo' are the calls that are left, `at' the next row of the first one;
\* `old', `n', `key' and `sigs' are the locals of a call.
Idle == [run |-> FALSE, users |-> {}, todo |-> <<>>, at |-> 1, devices |-> {},
         old |-> None, n |-> 0, key |-> None, sigs |-> {}]

Running(t) == task[t].run
AtRest == \A t \in Tasks : ~Running(t)

-----------------------------------------------------------------------------
(* Reads *)

Exists(u) == db["password"][u] # None
IsDeactivated(u) == db["password"][u] = "empty"
AllDeviceIds(u) == {d \in Devices : db["metadata"][<<u, d>>] # None}
FindFromToken(tok) == db["device"][tok]
GetDeviceKeys(ud) == db["keys"][ud]
CountOneTimeKeys(ud) == Cardinality(db["onetimekeys"][ud])

\* The devices whose requests pass the check of the access token.
Authenticated == {FindFromToken(tok) : tok \in Tokens} \ {None}

\* The users whose keys changed, for a room or a user, after `from'.
KeysChanged(target, from, to) ==
  {c[3] : c \in {x \in changes : x[1] = target /\ from < x[2] /\ x[2] <= to}}

\* A user sees their own signatures and the owner's; the owner sees all.
CleanSignatures(sigs, sender, owner) ==
  IF sender = owner THEN sigs ELSE sigs \cap {sender, owner}

-----------------------------------------------------------------------------
(* What a call does, row by row *)

Set(tree, key, value) == <<"set", tree, key, value>>

\* Mutant: the device keeps pointing to the token that is removed.
SetTokenNoInsert(ud, tok) ==
  << <<"assert", ud>>, <<"old", ud>>, <<"cut">>, Set("device", tok, ud)>>

SetToken(ud, tok) ==
  << <<"assert", ud>>, <<"old", ud>>, <<"cut">>,
     Set("token", ud, tok), Set("device", tok, ud)>>

CreateDevice(ud, tok) ==
  << <<"exists", ud[1]>>, <<"bump", ud[1]>>, Set("metadata", ud, "device")>>
  \o SetToken(ud, tok)

\* Mutant: the token still authenticates.
RemoveDeviceNoCut(ud) ==
  << <<"old", ud>>, <<"unlink", ud>>, Set("todevice", ud, None),
     <<"bump", ud[1]>>, Set("metadata", ud, None)>>

\* The one-time keys stay.
RemoveDevice(ud) ==
  << <<"old", ud>>, <<"unlink", ud>>, <<"cut">>, Set("todevice", ud, None),
     <<"bump", ud[1]>>, Set("metadata", ud, None)>>

UpdateDeviceMetadata(ud) ==
  << <<"assert", ud>>, <<"bump", ud[1]>>, Set("metadata", ud, "device")>>

\* A number, then a row for the encrypted room and one for the user.
MarkDeviceKeyUpdate(u) ==
  IF u \in InRoom THEN << <<"count">>, <<"mark", Room, u>>, <<"mark", u, u>> >>
  ELSE << <<"count">>, <<"mark", u, u>> >>

AddOneTimeKey(ud, k) ==
  << <<"assert", ud>>, <<"addkey", ud, k>>, <<"count">>, <<"lastkey", ud[1]>> >>

TakeOneTimeKey(ud) ==
  << <<"count">>, <<"lastkey", ud[1]>>, <<"scankey", ud>>, <<"takekey", ud>> >>

\* Mutant: others are told before the keys are there.
AddDeviceKeysMarkedFirst(ud) ==
  MarkDeviceKeyUpdate(ud[1]) \o << <<"key", ud, {ud[1]}>> >>

AddDeviceKeys(ud) ==
  << <<"key", ud, {ud[1]}>> >> \o MarkDeviceKeyUpdate(ud[1])

\* The master key and, when the request has them, the other two: each key,
\* then the pointer to it.
CrossSigningKey(u, which) ==
  << <<"key", <<u, which>>, {u}>>, Set("pointer", <<u, which>>, "key")>>
AddCrossSigningKeys(u, others) ==
  CrossSigningKey(u, "master")
  \o (IF "self" \in others THEN CrossSigningKey(u, "self") ELSE <<>>)
  \o (IF "user" \in others THEN CrossSigningKey(u, "user") ELSE <<>>)
  \o MarkDeviceKeyUpdate(u)

\* A self-signing or user-signing key that does not parse, or that holds no key
\* or several, is refused when its turn comes: the keys before it stay stored,
\* and the call returns before it announces anything.
RefuseCrossSigningKeys(u, selfStored) ==
  IF selfStored
  THEN <<Set("keys", <<u, "master">>, {u}), Set("pointer", <<u, "master">>, "key"),
         Set("keys", <<u, "self">>, {u}), Set("pointer", <<u, "self">>, "key")>>
  ELSE <<Set("keys", <<u, "master">>, {u}), Set("pointer", <<u, "master">>, "key")>>

SignKey(id, signer) ==
  << <<"readkey", id>>, <<"sign", id, signer>> >> \o MarkDeviceKeyUpdate(id[1])

\* The signatures that we have and that the asking user may see are added to the
\* answer of the other server, which is stored.
StoreRemoteKey(id, asking) ==
  << <<"visible", id, asking>>, <<"answer", id>>, Set("pointer", id, "key")>>

\* The rows of a call; every other call is one step.
RowsOf(c) ==
  CASE c[1] = "set_token" -> SetToken(c[2], c[3])
    [] c[1] = "create_device" -> CreateDevice(c[2], c[3])
    [] c[1] = "remove_device" -> RemoveDevice(c[2])
    [] c[1] = "update_device" -> UpdateDeviceMetadata(c[2])
    [] c[1] = "add_one_time_key" -> AddOneTimeKey(c[2], c[3])
    [] c[1] = "take_one_time_key" -> TakeOneTimeKey(c[2])
    [] c[1] = "add_device_keys" -> AddDeviceKeys(c[2])
    [] c[1] = "add_cross_signing_keys" -> AddCrossSigningKeys(c[2], c[3])
    [] c[1] = "refuse_cross_signing_keys" -> RefuseCrossSigningKeys(c[2], c[3])
    [] c[1] = "sign_key" -> SignKey(c[2], c[3])
    [] c[1] = "store_remote_key" -> StoreRemoteKey(c[2], c[3])
    [] OTHER -> <<c>>

SetPassword(u, hash) == <<Set("password", u, hash)>>

\* Every device but one is removed; the list is read when its turn comes.
RemoveAllDevices(u, except) == << <<"each", u, except>> >>

DeactivateAccount(u) == RemoveAllDevices(u, None) \o SetPassword(u, "empty")

\* The account rows of a new user.
CreateUser(u, hash) ==
  <<Set("password", u, hash), Set("profile", u, "name"), Set("pushrules", u, "default")>>

\* A loop over a set that was read before, and the calls of its body.
For(kind, who, over) == <<"for", kind, who, over>>
Body(kind, who, x) ==
  CASE kind = "remove" -> << <<"remove_device", <<who, x>> >> >>
    [] kind = "deactivate" -> DeactivateAccount(x)
    [] kind = "leave" -> << <<"leave", x>> >>
    [] kind = "upload" -> << <<"add_one_time_key", who, x>> >>
    [] kind = "query" -> << <<"device", <<who, x>> >> >>

-----------------------------------------------------------------------------
(* The life of a request *)

\* `us' are the users and `touched' the devices that it is about.
Begin(t, us, todo, touched) ==
  /\ ~Running(t) /\ ops < MaxOps
  /\ ops' = ops + 1
  /\ task' = [task EXCEPT ![t] = [Idle EXCEPT !.run = TRUE, !.users = us,
                                     !.todo = todo, !.devices = touched]]
  /\ mixed' = mixed \cup UNION {touched \cap task[s].devices : s \in Tasks \ {t}}
  /\ UNCHANGED <<db, changes, counter, admins, inRooms, requests, failed,
                 crashes, fresh, given, torn>>

\* A request that makes no token.
BeginPlain(t, us, todo, touched) ==
  Begin(t, us, todo, touched) /\ UNCHANGED tokens

AllOf(u) == {u} \X Devices

\* try_auth succeeds: the session, if the request names one, was there, and
\* its row is removed.  The password is checked before the first write.
TryAuth(ud) == <<Set("sessions", ud, None)>>

\* A request without credentials starts a session: the body is kept in
\* memory, then the session is stored.  A registration has no device.
UiaaCreate(t) ==
  \E ud \in Authenticated \cup {None} :
    BeginPlain(t, {}, << <<"request", ud>>, Set("sessions", ud, "session")>>, {})

\* Credentials that complete no flow: the session is stored once more.
TryAuthIncomplete(t) ==
  \E ud \in Authenticated :
    /\ db["sessions"][ud] # None
    /\ BeginPlain(t, {}, <<Set("sessions", ud, "session")>>, {})

-----------------------------------------------------------------------------
(* Sessions and accounts *)

\* POST /login with a password, a JWT or as an application service.
LoginRoute(t) ==
  \E u \in Users, d \in Devices, kind \in {"password", "token", "appservice"} :
    LET ud == <<u, d>>
        tok == tokens + 1
    IN  /\ kind = "password" => Exists(u) /\ ~IsDeactivated(u) /\ u \notin Bridged
        /\ kind = "token" => u \notin Bridged
        /\ kind = "appservice" => u \in Bridged
        /\ tok \in Tokens /\ tokens' = tok
        /\ Begin(t, {u}, << <<IF d \in AllDeviceIds(u) THEN "set_token" ELSE "create_device",
                              ud, tok>> >>, {ud})

LogoutRoute(t) ==
  \E ud \in Authenticated : BeginPlain(t, {ud[1]}, << <<"remove_device", ud>> >>, {ud})

\* Only with the token of an application service.
LogoutAllRoute(t) ==
  \E u \in Bridged :
    Exists(u) /\ BeginPlain(t, {u}, RemoveAllDevices(u, None), AllOf(u))

\* POST /register.  The name is free when the request arrives; a guest has no
\* password.  The first user is made an admin.
RegisterRoute(t) ==
  \E u \in Users, d \in Devices, guest \in BOOLEAN, inhibit \in BOOLEAN :
    LET tok == tokens + 1
    IN  /\ ~Exists(u)
        /\ tok \in Tokens /\ tokens' = tok
        /\ Begin(t, {u},
             (IF u \in Bridged THEN <<>> ELSE TryAuth(None))
             \o CreateUser(u, IF guest THEN "empty" ELSE "hash")
             \o (IF ~guest /\ inhibit THEN <<>>
                 ELSE << <<"create_device", <<u, d>>, tok>> >>)
             \o (IF guest \/ inhibit THEN <<>> ELSE << <<"first", u>> >>),
             {<<u, d>>})

ChangePasswordRoute(t) ==
  \E ud \in Authenticated, logout \in BOOLEAN :
    BeginPlain(t, {ud[1]},
      TryAuth(ud) \o SetPassword(ud[1], "hash")
      \o (IF logout THEN RemoveAllDevices(ud[1], ud[2]) ELSE <<>>),
      IF logout THEN AllOf(ud[1]) ELSE {})

\* The rooms are left first.
DeactivateRoute(t) ==
  \E ud \in Authenticated :
    BeginPlain(t, {ud[1]},
      TryAuth(ud) \o << <<"leave", ud[1]>> >> \o DeactivateAccount(ud[1]),
      AllOf(ud[1]))

\* The admin commands; here the rooms are left last.
AdminDeactivateUser(t) ==
  \E u \in Users, leave \in BOOLEAN :
    /\ Exists(u)
    /\ BeginPlain(t, {u}, DeactivateAccount(u)
                        \o (IF leave THEN << <<"leave", u>> >> ELSE <<>>), AllOf(u))

\* All names must exist; admins are skipped unless forced.
AdminDeactivateAll(t) ==
  \E named \in SUBSET Users, force \in BOOLEAN :
    LET us == {u \in named : force \/ u \notin admins}
    IN  /\ \A u \in named : Exists(u)
        /\ BeginPlain(t, named, <<For("deactivate", None, us), For("leave", None, us)>>,
                      named \X Devices)

AdminResetPassword(t) ==
  \E u \in Users : Exists(u) /\ BeginPlain(t, {u}, SetPassword(u, "hash"), {})

AdminCreateUser(t) ==
  \E u \in Users : ~Exists(u) /\ BeginPlain(t, {u}, CreateUser(u, "hash"), {})

-----------------------------------------------------------------------------
(* Devices and keys *)

UpdateDeviceRoute(t) ==
  \E ud \in Authenticated, d \in Devices :
    /\ d \in AllDeviceIds(ud[1])
    /\ BeginPlain(t, {ud[1]}, << <<"update_device", <<ud[1], d>> >> >>, {<<ud[1], d>>})

DeleteDeviceRoute(t) ==
  \E ud \in Authenticated, d \in Devices :
    BeginPlain(t, {ud[1]}, TryAuth(ud) \o << <<"remove_device", <<ud[1], d>> >> >>,
               {<<ud[1], d>>})

DeleteDevicesRoute(t) ==
  \E ud \in Authenticated :
    BeginPlain(t, {ud[1]}, TryAuth(ud) \o <<For("remove", ud[1], Devices)>>, AllOf(ud[1]))

\* PUT /sendToDevice: whether the device exists is not asked.
SendToDevice(t) ==
  \E ud \in UserDevices :
    BeginPlain(t, {ud[1]}, <<Set("todevice", ud, "events")>>, {ud})

\* Device keys are added when there are none.
UploadKeysRoute(t) ==
  \E ud \in Authenticated, ks \in SUBSET OneTimeKeys, deviceKeys \in BOOLEAN :
    BeginPlain(t, {ud[1]},
      <<For("upload", ud, ks)>>
      \o (IF deviceKeys THEN << <<"nokeys", ud>>, <<"add_device_keys", ud>> >> ELSE <<>>),
      {ud})

\* Claims come from users of this server and from other servers.
ClaimKeys(t) ==
  \E ud \in UserDevices : BeginPlain(t, {ud[1]}, << <<"take_one_time_key", ud>> >>, {ud})

\* The keys are good, or one after the master key is refused.
CrossSigningCall(u, others) ==
  { <<"add_cross_signing_keys", u, others>> }
  \cup (IF others = {} THEN {} ELSE { <<"refuse_cross_signing_keys", u, FALSE>> })
  \cup (IF others = {"self", "user"} THEN { <<"refuse_cross_signing_keys", u, TRUE>> } ELSE {})

UploadSigningKeysRoute(t) ==
  \E ud \in Authenticated, others \in SUBSET {"self", "user"} :
    \E call \in CrossSigningCall(ud[1], others) :
      BeginPlain(t, {ud[1]}, TryAuth(ud) \o <<call>>, {})

\* The EDU of another server about a user of its own.
SigningKeyUpdate(t) ==
  \E b \in Remote, others \in SUBSET {"self"} :
    \E call \in CrossSigningCall(b, others) : BeginPlain(t, {b}, <<call>>, {})

UploadSignaturesRoute(t) ==
  \E ud \in Authenticated, id \in KeyIds :
    BeginPlain(t, {id[1]}, << <<"sign_key", id, ud[1]>> >>, {})

\* POST /keys/query for a user of this server.
QueryLocalKeys(t) ==
  \E u \in Users : BeginPlain(t, {u}, << <<"query", u>> >>, {})

\* For a user of another server that answers.
QueryRemoteKeys(t) ==
  \E ud \in Authenticated, b \in Remote :
    BeginPlain(t, {ud[1]}, << <<"store_remote_key", <<b, "master">>, ud[1]>> >>, {})

\* It does not answer in time, and is not asked for a while.
QueryFails(t) ==
  /\ ~Running(t) /\ Authenticated # {} /\ Remote # {} /\ ~failed
  /\ failed' = TRUE
  /\ UNCHANGED <<db, changes, counter, tokens, admins, inRooms, requests, task,
                 ops, crashes, fresh, given, mixed, torn>>

-----------------------------------------------------------------------------
(* One step of a request *)

Todo(t) == task[t].todo
Now(t) == RowsOf(Head(Todo(t)))[task[t].at]
Is(t, kind) == Now(t)[1] = kind

Put(tree, key, value) == db' = [db EXCEPT ![tree][key] = value]

\* The task after a row: at the next one, or at the next call.
Moved(t) == IF task[t].at < Len(RowsOf(Head(Todo(t))))
            THEN [task[t] EXCEPT !.at = @ + 1]
            ELSE [task[t] EXCEPT !.at = 1, !.todo = Tail(@)]
Advance(t) == task' = [task EXCEPT ![t] = Moved(t)]
Stop(t) == task' = [task EXCEPT ![t] = [task[t] EXCEPT !.at = 1, !.todo = <<>>]]

\* A call of one step is replaced by others.
Replace(t, calls) == task' = [task EXCEPT ![t] = [task[t] EXCEPT !.todo = calls \o Tail(@)]]

\* A row is written or removed.
Write(t) ==
  /\ Is(t, "set")
  /\ Put(Now(t)[2], Now(t)[3], Now(t)[4])
  /\ Advance(t)
  /\ UNCHANGED <<changes, counter, admins, inRooms, fresh, given>>

\* set_uiaa_request: never removed, and gone after a restart.
StoreRequest(t) ==
  /\ Is(t, "request")
  /\ requests' = requests \cup {Now(t)[2]}
  /\ Advance(t)
  /\ UNCHANGED <<db, changes, counter, admins, inRooms, fresh, given>>

\* increment of the device list version, atomic in the store.
Bump(t) ==
  /\ Is(t, "bump")
  /\ Put("version", Now(t)[2], db["version"][Now(t)[2]] + 1)
  /\ Advance(t)
  /\ UNCHANGED <<changes, counter, admins, inRooms, fresh, given>>

\* assert!: the user exists, the device has metadata.  The panic ends the
\* request.  Device keys that are there end the upload.
Check(t) ==
  /\ Now(t)[1] \in {"exists", "assert", "nokeys"}
  /\ IF CASE Is(t, "exists") -> Exists(Now(t)[2])
          [] Is(t, "assert") -> db["metadata"][Now(t)[2]] # None
          [] Is(t, "nokeys") -> GetDeviceKeys(Now(t)[2]) = None
     THEN Advance(t) ELSE Stop(t)
  /\ UNCHANGED <<db, changes, counter, admins, inRooms, fresh, given>>

\* The token of the device is looked up; what was found is removed later.
OldToken(t) ==
  /\ Is(t, "old")
  /\ task' = [task EXCEPT ![t] = [Moved(t) EXCEPT !.old = db["token"][Now(t)[2]]]]
  /\ UNCHANGED <<db, changes, counter, admins, inRooms, fresh, given>>

Cut(t) ==
  /\ Is(t, "cut")
  /\ IF task[t].old = None THEN UNCHANGED db ELSE Put("device", task[t].old, None)
  /\ task' = [task EXCEPT ![t] = [Moved(t) EXCEPT !.old = None]]
  /\ UNCHANGED <<changes, counter, admins, inRooms, fresh, given>>

Unlink(t) ==
  /\ Is(t, "unlink")
  /\ IF task[t].old = None THEN UNCHANGED db ELSE Put("token", Now(t)[2], None)
  /\ Advance(t)
  /\ UNCHANGED <<changes, counter, admins, inRooms, fresh, given>>

\* The loop over all_device_ids reads a snapshot.
EachDevice(t) ==
  LET u == Now(t)[2]
  IN  /\ Is(t, "each")
      /\ Replace(t, <<For("remove", u, AllDeviceIds(u) \ {Now(t)[3]})>>)
      /\ UNCHANGED <<db, changes, counter, admins, inRooms, fresh, given>>

\* One round of a loop.
Loop(t) ==
  LET kind == Now(t)[2]
      who == Now(t)[3]
      over == Now(t)[4]
  IN  /\ Is(t, "for")
      /\ \/ over = {} /\ Advance(t)
         \/ \E x \in over : Replace(t, Body(kind, who, x) \o <<For(kind, who, over \ {x})>>)
      /\ UNCHANGED <<db, changes, counter, admins, inRooms, fresh, given>>

\* leave_all_rooms, see Membership.
LeaveAllRooms(t) ==
  /\ Is(t, "leave")
  /\ inRooms' = inRooms \ {Now(t)[2]}
  /\ Advance(t)
  /\ UNCHANGED <<db, changes, counter, admins, fresh, given>>

\* The members of the admin room are counted, then the user is invited.
FirstAdmin(t) ==
  /\ Is(t, "first")
  /\ Replace(t, IF admins = {} THEN << <<"grant", Now(t)[2]>> >> ELSE <<>>)
  /\ UNCHANGED <<db, changes, counter, admins, inRooms, fresh, given>>

MakeUserAdmin(t) ==
  /\ Is(t, "grant")
  /\ admins' = admins \cup {Now(t)[2]}
  /\ inRooms' = inRooms \cup {Now(t)[2]}
  /\ Advance(t)
  /\ UNCHANGED <<db, changes, counter, fresh, given>>

NextCount(t) ==
  /\ Is(t, "count")
  /\ counter' = counter + 1
  /\ task' = [task EXCEPT ![t] = [Moved(t) EXCEPT !.n = counter + 1]]
  /\ UNCHANGED <<db, changes, admins, inRooms, fresh, given>>

LastKeyUpdate(t) ==
  /\ Is(t, "lastkey")
  /\ Put("lastonetimekeyupdate", Now(t)[2], task[t].n)
  /\ Advance(t)
  /\ UNCHANGED <<changes, counter, admins, inRooms, fresh, given>>

InsertChange(t) ==
  /\ Is(t, "mark")
  /\ changes' = changes \cup {<<Now(t)[2], task[t].n, Now(t)[3]>>}
  /\ Advance(t)
  /\ UNCHANGED <<db, counter, admins, inRooms, fresh, given>>

InsertOneTimeKey(t) ==
  LET ud == Now(t)[2]
      k == Now(t)[3]
  IN  /\ Is(t, "addkey")
      /\ Put("onetimekeys", ud, db["onetimekeys"][ud] \cup {k})
      /\ given' = [given EXCEPT ![ud][k] = 0]
      /\ Advance(t)
      /\ UNCHANGED <<changes, counter, admins, inRooms, fresh>>

\* The first key of the device.
ScanOneTimeKeys(t) ==
  LET ks == db["onetimekeys"][Now(t)[2]]
  IN  /\ Is(t, "scankey")
      /\ task' = [task EXCEPT ![t] = [Moved(t) EXCEPT
            !.key = IF ks = {} THEN None ELSE CHOOSE k \in ks : \A j \in ks : k <= j]]
      /\ UNCHANGED <<db, changes, counter, admins, inRooms, fresh, given>>

\* Mutant: the key that is handed out stays.
RemoveOneTimeKeyNot(t) ==
  LET ud == Now(t)[2]
      k == task[t].key
  IN  /\ Is(t, "takekey")
      /\ given' = IF k = None THEN given ELSE [given EXCEPT ![ud][k] = @ + 1]
      /\ task' = [task EXCEPT ![t] = [Moved(t) EXCEPT !.key = None]]
      /\ UNCHANGED <<db, changes, counter, admins, inRooms, fresh>>

\* Then it is removed and handed out.
RemoveOneTimeKey(t) ==
  LET ud == Now(t)[2]
      k == task[t].key
  IN  /\ Is(t, "takekey")
      /\ IF k = None THEN UNCHANGED <<db, given>>
         ELSE /\ Put("onetimekeys", ud, db["onetimekeys"][ud] \ {k})
              /\ given' = [given EXCEPT ![ud][k] = @ + 1]
      /\ task' = [task EXCEPT ![t] = [Moved(t) EXCEPT !.key = None]]
      /\ UNCHANGED <<changes, counter, admins, inRooms, fresh>>

\* A key of ours is stored with its signatures.
InsertKey(t) ==
  /\ Is(t, "key")
  /\ Put("keys", Now(t)[2], Now(t)[3])
  /\ fresh' = [fresh EXCEPT ![Now(t)[2][1]] = counter]
  /\ Advance(t)
  /\ UNCHANGED <<changes, counter, admins, inRooms, given>>

\* sign_key reads the whole key; one that does not exist is an error.
ReadKey(t) ==
  /\ Is(t, "readkey")
  /\ IF db["keys"][Now(t)[2]] = None THEN Stop(t)
     ELSE task' = [task EXCEPT ![t] = [Moved(t) EXCEPT !.sigs = db["keys"][Now(t)[2]]]]
  /\ UNCHANGED <<db, changes, counter, admins, inRooms, fresh, given>>

\* And writes it back with one more signature.
WriteSignature(t) ==
  /\ Is(t, "sign")
  /\ Put("keys", Now(t)[2], task[t].sigs \cup {Now(t)[3]})
  /\ fresh' = [fresh EXCEPT ![Now(t)[2][1]] = counter]
  /\ task' = [task EXCEPT ![t] = [Moved(t) EXCEPT !.sigs = {}]]
  /\ UNCHANGED <<changes, counter, admins, inRooms, given>>

\* get_key for the user who asks.
VisibleSignatures(t) ==
  LET id == Now(t)[2]
  IN  /\ Is(t, "visible")
      /\ task' = [task EXCEPT ![t] = [Moved(t) EXCEPT
            !.sigs = IF db["keys"][id] = None THEN {}
                     ELSE CleanSignatures(db["keys"][id], Now(t)[3], id[1])]]
      /\ UNCHANGED <<db, changes, counter, admins, inRooms, fresh, given>>

\* The answer is stored and nobody is notified.
StoreAnswer(t) ==
  /\ Is(t, "answer")
  /\ Put("keys", Now(t)[2], task[t].sigs \cup {Now(t)[2][1]})
  /\ task' = [task EXCEPT ![t] = [Moved(t) EXCEPT !.sigs = {}]]
  /\ UNCHANGED <<changes, counter, admins, inRooms, fresh, given>>

\* The devices of a user, then for each its keys and its metadata: a device
\* that has gone in between fails the whole query.
QueryDevices(t) ==
  /\ Is(t, "query")
  /\ Replace(t, <<For("query", Now(t)[2], AllDeviceIds(Now(t)[2]))>>)
  /\ UNCHANGED <<db, changes, counter, admins, inRooms, fresh, given>>

QueryDevice(t) ==
  /\ Is(t, "device")
  /\ IF GetDeviceKeys(Now(t)[2]) # None /\ db["metadata"][Now(t)[2]] = None
     THEN Stop(t) ELSE Advance(t)
  /\ UNCHANGED <<db, changes, counter, admins, inRooms, fresh, given>>

Row(t) ==
  \/ Write(t) \/ Bump(t) \/ Check(t) \/ OldToken(t) \/ Cut(t) \/ Unlink(t)
  \/ EachDevice(t) \/ Loop(t) \/ LeaveAllRooms(t) \/ FirstAdmin(t) \/ MakeUserAdmin(t)
  \/ NextCount(t) \/ LastKeyUpdate(t) \/ InsertChange(t)
  \/ InsertOneTimeKey(t) \/ ScanOneTimeKeys(t) \/ RemoveOneTimeKey(t)
  \/ InsertKey(t) \/ ReadKey(t) \/ WriteSignature(t)
  \/ VisibleSignatures(t) \/ StoreAnswer(t) \/ QueryDevices(t)
  \/ QueryDevice(t)

Step(t) ==
  /\ Running(t) /\ Todo(t) # <<>>
  /\ \/ StoreRequest(t)
     \/ Row(t) /\ UNCHANGED requests
  /\ UNCHANGED <<tokens, failed, ops, crashes, mixed, torn>>

Finish(t) ==
  /\ Running(t) /\ Todo(t) = <<>>
  /\ task' = [task EXCEPT ![t] = Idle]
  /\ UNCHANGED <<db, changes, counter, tokens, admins, inRooms, requests,
                 failed, ops, crashes, fresh, given, mixed, torn>>

\* The trees survive; what was in memory does not.
Crash ==
  /\ crashes < MaxCrashes
  /\ crashes' = crashes + 1
  /\ torn' = torn \cup UNION {task[t].users : t \in Tasks}
  /\ task' = [t \in Tasks |-> Idle]
  /\ requests' = {} /\ failed' = FALSE
  /\ UNCHANGED <<db, changes, counter, tokens, admins, inRooms, ops, fresh,
                 given, mixed>>

-----------------------------------------------------------------------------

\* The registered users have logged in once and have uploaded keys.
Home == Registered \X {FirstDevice}

\* `first' are their tokens, in the order in which they logged in.
InitDb(first) ==
  db = [tree \in Trees |->
    CASE tree = "password" -> [u \in Users |-> IF u \in Registered THEN "hash" ELSE None]
      [] tree \in {"profile", "pushrules"} ->
           [u \in Users |-> IF u \in Registered THEN "set" ELSE None]
      [] tree \in {"version", "lastonetimekeyupdate"} -> [u \in Users |-> 0]
      [] tree = "metadata" -> [ud \in UserDevices |-> IF ud \in Home THEN "device" ELSE None]
      [] tree = "token" -> [ud \in UserDevices |-> IF ud \in Home THEN first[ud] ELSE None]
      [] tree = "device" -> [n \in Tokens |-> IF \E ud \in Home : first[ud] = n
                                              THEN CHOOSE ud \in Home : first[ud] = n
                                              ELSE None]
      [] tree = "todevice" -> [ud \in UserDevices |-> None]
      [] tree = "onetimekeys" -> [ud \in UserDevices |-> IF ud \in Home THEN OneTimeKeys ELSE {}]
      [] tree = "keys" -> [id \in KeyIds |-> IF id \in Home THEN {id[1]} ELSE None]
      [] tree = "pointer" -> [id \in KeyIds |-> None]
      [] tree = "sessions" -> [ud \in UserDevices \cup {None} |-> None]]

Init ==
  /\ \E first \in [Home -> 1..Cardinality(Registered)] :
       /\ \A a, b \in Home : first[a] = first[b] => a = b
       /\ InitDb(first)
  /\ changes = {} /\ counter = 0
  /\ tokens = Cardinality(Registered)
  /\ admins = {} /\ inRooms = Registered
  /\ requests = {} /\ failed = FALSE
  /\ task = [t \in Tasks |-> Idle]
  /\ ops = 0 /\ crashes = 0
  /\ fresh = [u \in Users \cup Remote |-> None]
  /\ given = [ud \in UserDevices |-> [k \in OneTimeKeys |-> 0]]
  /\ mixed = {} /\ torn = {}

Next ==
  \/ \E t \in Tasks :
       \/ LoginRoute(t) \/ LogoutRoute(t) \/ LogoutAllRoute(t)
       \/ RegisterRoute(t) \/ ChangePasswordRoute(t) \/ DeactivateRoute(t)
       \/ AdminDeactivateUser(t) \/ AdminDeactivateAll(t)
       \/ AdminResetPassword(t) \/ AdminCreateUser(t)
       \/ UpdateDeviceRoute(t) \/ DeleteDeviceRoute(t) \/ DeleteDevicesRoute(t)
       \/ SendToDevice(t) \/ UploadKeysRoute(t) \/ ClaimKeys(t)
       \/ UploadSigningKeysRoute(t) \/ SigningKeyUpdate(t) \/ UploadSignaturesRoute(t)
       \/ QueryLocalKeys(t) \/ QueryRemoteKeys(t) \/ QueryFails(t)
       \/ UiaaCreate(t) \/ TryAuthIncomplete(t)
       \/ Step(t) \/ Finish(t)
  \/ Crash

Spec == Init /\ [][Next]_vars

-----------------------------------------------------------------------------
(* Properties *)

\* Every variable has its type.
TypeOK ==
  /\ \A u \in Users : db["password"][u] \in {None, "hash", "empty"}
  /\ \A ud \in UserDevices : /\ db["token"][ud] \in Tokens \cup {None}
                             /\ db["onetimekeys"][ud] \subseteq OneTimeKeys
  /\ \A n \in Tokens : db["device"][n] \in UserDevices \cup {None}
  /\ \A id \in KeyIds : db["keys"][id] = None \/ db["keys"][id] \subseteq Users \cup Remote
  /\ \A c \in changes : c[1] \in Users \cup Remote \cup {Room} /\ c[2] \in 1..counter
  /\ tokens \in 0..Cardinality(Tokens) /\ counter \in Nat
  /\ admins \subseteq Users /\ inRooms \subseteq Users
  /\ mixed \subseteq UserDevices /\ torn \subseteq Users \cup Remote

\* Whatever logins, logouts and removals race on a device, the token that the
\* device points to in the end is one that authenticates as this device, so
\* that the next login or logout takes it away.
TokenOfADeviceWorks ==
  AtRest => \A ud \in UserDevices :
    ud[1] \notin torn /\ db["token"][ud] # None
      => FindFromToken(db["token"][ud]) = ud

\* Without overlapping requests on one device, and whatever happens to the
\* other devices of the user, a device exists if and only if it has a token,
\* and every token that works is the one that its device points to.
TokensAndDevicesAgree ==
  AtRest => \A ud \in UserDevices \ mixed :
    ud[1] \notin torn =>
      /\ db["metadata"][ud] # None <=> db["token"][ud] # None
      /\ \A tok \in Tokens : FindFromToken(tok) = ud => db["token"][ud] = tok

\* When keys or signatures of a user changed, the user and the members of the
\* encrypted room find the change after the number they had before it, also
\* when other calls for the user were refused in between.  What a refused call
\* has stored is the exception (UploadedKeysAnnounced).
KeyChangesAnnounced ==
  AtRest => \A u \in (Users \cup Remote) \ torn :
    fresh[u] # None =>
      /\ u \in KeysChanged(u, fresh[u], counter)
      /\ u \in InRoom => u \in KeysChanged(Room, fresh[u], counter)

\* A one-time key is handed out once between two uploads of it, except to
\* claims that overlap.
OneTimeKeysGivenOnce ==
  \A ud \in UserDevices \ mixed, k \in OneTimeKeys : given[ud][k] <= 1

\* The answer of another server takes no signature away from a key that we
\* have of its user.
SignaturesKept ==
  [][\A t \in Tasks, b \in Remote :
       LET id == <<b, "master">>
       IN  Running(t) /\ Todo(t) # <<>> /\ StoreAnswer(t) /\ db["keys"][id] # None
             => db["keys"][id] \subseteq db'["keys"][id]]_vars

\* A master key that was uploaded is announced ("notify so that other users see
\* the new keys"): false of an upload that is refused after it.
UploadedKeysAnnounced ==
  AtRest => \A u \in Users \ torn :
    db["keys"][<<u, "master">>] # None => u \in KeysChanged(u, 0, counter)

=============================================================================
