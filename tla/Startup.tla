------------------------------- MODULE Startup -------------------------------
(***************************************************************************)
(* Loading the database: KeyValueDatabase::load_or_create in database.rs,  *)
(* with the migrations of older layouts, the first run, which makes the    *)
(* admin room (service/admin.rs), and the registration of the first user.  *)
(*                                                                         *)
(* The process may be killed at any step and is started again.  What is    *)
(* left to do is decided from the database alone: each migration runs when *)
(* the stored version is lower than its own, reads what it converts, does  *)
(* it row by row and then stores its version.                              *)
(*                                                                         *)
(* An item stands for one row of every tree that is converted: room i, its *)
(* only event i, its media i and so on.                                    *)
(***************************************************************************)
EXTENDS Naturals, Sequences, FiniteSets, SequencesExt

CONSTANTS
  Items,       \* rows of an old database, numbers
  Locals,      \* users of this server
  Active,      \* the one of them who has not deactivated the account
  Far,         \* users of other servers who share a room with our users
  Bot,         \* the server's user
  MaxCrashes   \* bound: crashes of one behaviour

ASSUME StartupAssumption ==
  /\ Items \subseteq Nat \ {0} /\ IsFiniteSet(Items)
  /\ Active \in Locals /\ Bot \notin Locals \cup Far /\ Locals \cap Far = {}
  /\ IsFiniteSet(Locals \cup Far) /\ MaxCrashes \in Nat

Latest == 13
Accounts == Locals \cup Far \cup {Bot}
Old == 0   \* the key of a row in the old layout

\* Trees that get a row for every item.
Trees == {"serverroomids", "roomusertype_roomuserdataid", "roomid_joinedcount",
          "shortstatehash_statediff", "shortstatekey_statekey"}

AdminEvents == {"create", "member", "power", "join_rules", "history", "guest",
                "name", "topic", "canonical_alias"}

VARIABLES
  phase,     \* "down", "starting" or "serving"
  todo,
  items,     \* the items of this database: none of a new one
  version,   \* the stored database version
  password,  \* userid_password
  rules,     \* the push rules of a user
  rows,      \* the trees with a row for every item
  mediadb,   \* items whose media is in the database
  file,      \* the media file of an item
  counter, short, pdus, pdu, tokenids,
  redone,    \* history: rooms that got another short ID when their event IDs had one
  requests,  \* the tree of stored requests that is no longer used
  keypair,
  admin,     \* state events of the admin room
  alias,     \* whether the alias of the admin room resolves
  members,   \* users in the admin room, and those with power there
  handler,   \* whether the task that reads admin commands is running
  crashes

vars == <<phase, todo, items, version, password, rules, rows, mediadb, file,
          counter, short, redone, pdus, pdu, tokenids, requests, keypair, admin, alias,
          members, handler, crashes>>
layout == <<rows, mediadb, file, short, redone, pdus, pdu, tokenids, requests>>
adminRoom == <<admin, alias, members>>

Exists(u) == password[u] # "none"
Count == Cardinality({u \in Accounts : Exists(u)})
\* A user is local when the password is longer than zero.
ListLocalUsers == {u \in Accounts : password[u] \in {"hash", "hash of nothing"}}
DatabaseVersion == version
GetAdminRoom == alias

\* One step for every element of a set, in some order.
ForEach(S, Op(_)) ==
  LET seq == SetToSeq(S) IN [i \in 1..Len(seq) |-> Op(seq[i])]
ForEachSeq(S, Op(_)) == FlattenSeq(ForEach(S, Op))

PutRow(tree) == ForEach(items, LAMBDA i : <<"row", tree, i>>)

-----------------------------------------------------------------------------
(* The migrations: what each finds to do when it starts *)

Migration1 == PutRow("serverroomids")

\* Hashes of the empty password become empty.
Migration2 ==
  ForEach({u \in Accounts : password[u] = "hash of nothing"},
          LAMBDA u : <<"password", u, "">>)

\* Mutant: the row is emptied before the file is written.
Migration3EmptiesFirst ==
  ForEachSeq(mediadb, LAMBDA i : << <<"create", i>>, <<"empty", i>>, <<"write", i>> >>)

\* Media moves to files.
Migration3 ==
  ForEachSeq(mediadb, LAMBDA i : << <<"create", i>>, <<"write", i>>, <<"empty", i>> >>)

\* Users of other servers who share a room with an active user get an account.
Migration4 ==
  IF \E u \in Locals : password[u] = "hash"
  THEN ForEach(Far, LAMBDA u : <<"password", u, "">>) ELSE <<>>

Migration5 == PutRow("roomusertype_roomuserdataid")
Migration6 == PutRow("roomid_joinedcount")

\* The states are stored as differences, in order: each needs the one before.
Migration7 ==
  [i \in 1..Cardinality(items) |->
     <<"row", "shortstatehash_statediff", SetToSortSeq(items, <)[i]>>]

\* Every room gets a new short ID, then two batches change all keys.  A batch of
\* RocksDB is a loop of single rows.
Migration8 ==
  ForEach(items, LAMBDA i : <<"short", i>>) \o ForEach(items, LAMBDA i : <<"pdu", i>>)
  \o ForEach(items, LAMBDA i : <<"event", i>>)

\* The words are inserted under the new keys, then the old ones removed.
Migration9 ==
  ForEach({i \in items : <<Old, i>> \in tokenids}, LAMBDA i : <<"token", i>>)
  \o << <<"oldtokens">> >>

\* The other direction of state keys, and all users' keys announced anew.
Migration10 ==
  PutRow("shortstatekey_statekey")
  \o ForEach({u \in Accounts : Exists(u)}, LAMBDA u : <<"announce", u>>)

Migration11 == << <<"clear">> >>

\* Rules are renamed, then brought up to date.  A user without push rules
\* makes the process panic.
Migration12 == ForEach(ListLocalUsers, LAMBDA u : <<"rules", u, "renamed">>)
Migration13 == ForEach(ListLocalUsers, LAMBDA u : <<"rules", u, "default">>)

Migration(k) ==
  CASE k = 1 -> Migration1 [] k = 2 -> Migration2 [] k = 3 -> Migration3
    [] k = 4 -> Migration4 [] k = 5 -> Migration5 [] k = 6 -> Migration6
    [] k = 7 -> Migration7 [] k = 8 -> Migration8 [] k = 9 -> Migration9
    [] k = 10 -> Migration10 [] k = 11 -> Migration11
    [] k = 12 -> Migration12 [] k = 13 -> Migration13

\* Mutant: the version is stored before the rows are converted.
MigrateBumpsFirst(k) ==
  IF DatabaseVersion < k THEN << <<"version", k>> >> \o Migration(k) ELSE <<>>

\* Mutant: the version is not stored.
MigrateNoBump(k) == IF DatabaseVersion < k THEN Migration(k) ELSE <<>>

Migrate(k) ==
  IF DatabaseVersion < k THEN Migration(k) \o << <<"version", k>> >> ELSE <<>>

-----------------------------------------------------------------------------
(* The first run *)

\* Mutant: the alias comes before the room is complete.
CreateAdminRoomAliasFirst ==
  << <<"password", Bot, "">>, <<"admin", "create">>, <<"admin", "member">>,
     <<"alias">>, <<"admin", "power">>, <<"admin", "join_rules">>,
     <<"admin", "history">>, <<"admin", "guest">>, <<"admin", "name">>,
     <<"admin", "topic">>, <<"admin", "canonical_alias">> >>

\* The server's user, the events of the room one by one, the alias.
CreateAdminRoom ==
  << <<"password", Bot, "">>, <<"admin", "create">>, <<"admin", "member">>,
     <<"admin", "power">>, <<"admin", "join_rules">>, <<"admin", "history">>,
     <<"admin", "guest">>, <<"admin", "name">>, <<"admin", "topic">>,
     <<"admin", "canonical_alias">>, <<"alias">> >>

\* The password of the server's user is set or emptied at every start.
SetEmergencyAccess(set) ==
  << <<"password", Bot, IF set THEN "emergency" ELSE "">>,
     <<"newrules", Bot, IF set THEN "default" ELSE "empty">> >>

MakeUserAdmin(u) ==
  << <<"invite", u>>, <<"join", u>>, <<"powerof", u>> >>

-----------------------------------------------------------------------------
(* Starting *)

\* The key pair is made when there is none.
LoadKeypair == keypair' = TRUE

\* The services are built; a database with users must have the server's user.
\* A new database is given the latest version at once.
Start ==
  \E emergency \in BOOLEAN :
    /\ phase = "down"
    /\ LoadKeypair
    /\ IF Count > 0 /\ ~Exists(Bot)
       THEN UNCHANGED <<phase, todo>>
       ELSE /\ phase' = "starting"
            /\ todo' = (IF Count > 0
                        THEN [k \in 1..Latest |-> <<"migrate", k>>] \o << <<"latest">> >>
                        ELSE << <<"version", Latest>> >> \o CreateAdminRoom)
                       \o << <<"handler">> >> \o SetEmergencyAccess(emergency)
                       \o << <<"serve">> >>
    /\ UNCHANGED <<items, version, password, rules, layout, counter, adminRoom,
                   handler, crashes>>

Now == Head(todo)
Is(kind) == todo # <<>> /\ Now[1] = kind
Advance == todo' = Tail(todo)
Down == phase' = "down" /\ todo' = <<>> /\ handler' = FALSE

Migrating ==
  /\ Is("migrate")
  /\ todo' = Migrate(Now[2]) \o Tail(todo)
  /\ UNCHANGED <<phase, items, version, password, rules, layout, counter,
                 keypair, adminRoom, handler, crashes>>

BumpDatabaseVersion ==
  /\ Is("version") /\ version' = Now[2] /\ Advance
  /\ UNCHANGED <<phase, items, password, rules, layout, counter, keypair,
                 adminRoom, handler, crashes>>

\* assert_eq: the database is at the latest version, or the process panics.
AssertLatest ==
  /\ Is("latest")
  /\ IF version = Latest THEN Advance /\ UNCHANGED <<phase, handler>> ELSE Down
  /\ UNCHANGED <<items, version, password, rules, layout, counter, keypair,
                 adminRoom, crashes>>

\* create, set_password: a row of userid_password.
SetPassword ==
  LET value == IF Now[3] = "" THEN "empty" ELSE "hash"
  IN  /\ Is("password")
      /\ password' = [password EXCEPT ![Now[2]] = value] /\ Advance
      /\ UNCHANGED <<phase, items, version, rules, layout, counter, keypair,
                     adminRoom, handler, crashes>>

\* The push rules of a user are read, changed and stored, or stored anew.
SetRules ==
  /\ Is("rules") \/ Is("newrules")
  /\ IF Is("rules") /\ rules[Now[2]] = "none"
     THEN Down /\ UNCHANGED rules
     ELSE /\ rules' = [rules EXCEPT ![Now[2]] = Now[3]]
          /\ Advance /\ UNCHANGED <<phase, handler>>
  /\ UNCHANGED <<items, version, password, layout, counter, keypair,
                 adminRoom, crashes>>

InsertRow ==
  /\ Is("row")
  /\ rows' = [rows EXCEPT ![Now[2]] = @ \cup {Now[3]}] /\ Advance
  /\ UNCHANGED <<mediadb, file, short, redone, pdus, pdu, tokenids, requests, counter>>

\* File::create empties the file.
CreateFile ==
  /\ Is("create") /\ file' = [file EXCEPT ![Now[2]] = "empty"] /\ Advance
  /\ UNCHANGED <<rows, mediadb, short, redone, pdus, pdu, tokenids, requests, counter>>

WriteFile ==
  /\ Is("write")
  /\ file' = [file EXCEPT ![Now[2]] = "content"] /\ Advance
  /\ UNCHANGED <<rows, mediadb, short, redone, pdus, pdu, tokenids, requests, counter>>

EmptyMedia ==
  /\ Is("empty") /\ mediadb' = mediadb \ {Now[2]} /\ Advance
  /\ UNCHANGED <<rows, file, short, redone, pdus, pdu, tokenids, requests, counter>>

\* A number from next_count, also for a room that has one already.
ShortRoomId ==
  /\ Is("short")
  /\ counter' = counter + 1
  /\ short' = [short EXCEPT ![Now[2]] = counter + 1] /\ Advance
  /\ redone' = redone \cup ({Now[2]} \cap {i \in items : pdu[i] # Old})
  /\ UNCHANGED <<rows, mediadb, file, pdus, pdu, tokenids, requests>>

\* A PDU is inserted under its new key too; the row under the old key stays.
PduBatch ==
  /\ Is("pdu")
  /\ pdus' = pdus \cup {<<short[i], i>> : i \in {j \in {Now[2]} : <<Old, j>> \in pdus}}
  /\ Advance
  /\ UNCHANGED <<rows, mediadb, file, short, redone, pdu, tokenids, requests, counter>>

\* An event ID leads to the new key, unless it was converted before.
EventBatch ==
  /\ Is("event")
  /\ pdu' = [pdu EXCEPT ![Now[2]] = IF @ = Old THEN short[Now[2]] ELSE @]
  /\ Advance
  /\ UNCHANGED <<rows, mediadb, file, short, redone, pdus, tokenids, requests, counter>>

TokenBatch ==
  /\ Is("token")
  /\ tokenids' = tokenids \cup {<<short[Now[2]], Now[2]>>} /\ Advance
  /\ UNCHANGED <<rows, mediadb, file, short, redone, pdus, pdu, requests, counter>>

OldTokens ==
  /\ Is("oldtokens")
  /\ todo' = ForEach({i \in items : <<Old, i>> \in tokenids},
                     LAMBDA i : <<"deltoken", i>>) \o Tail(todo)
  /\ UNCHANGED <<layout, counter>>

RemoveToken ==
  /\ Is("deltoken") /\ tokenids' = tokenids \ {<<Old, Now[2]>>} /\ Advance
  /\ UNCHANGED <<rows, mediadb, file, short, redone, pdus, pdu, requests, counter>>

\* mark_device_key_update takes a number, see Accounts.
Announce ==
  /\ Is("announce") /\ counter' = counter + 1 /\ Advance
  /\ UNCHANGED layout

ClearRequests ==
  /\ Is("clear") /\ requests' = {} /\ Advance
  /\ UNCHANGED <<rows, mediadb, file, short, redone, pdus, pdu, tokenids, counter>>

Converting ==
  /\ \/ InsertRow \/ CreateFile \/ WriteFile \/ EmptyMedia \/ ShortRoomId
     \/ PduBatch \/ EventBatch \/ TokenBatch \/ OldTokens \/ RemoveToken
     \/ Announce \/ ClearRequests
  /\ UNCHANGED <<phase, items, version, password, rules, keypair, adminRoom,
                 handler, crashes>>

\* build_and_append_pdu in the admin room, and set_alias.
AdminEvent ==
  /\ Is("admin")
  /\ admin' = admin \cup {Now[2]}
  /\ members' = IF Now[2] = "member" THEN [members EXCEPT !.joined = @ \cup {Bot}]
                ELSE IF Now[2] = "power" THEN [members EXCEPT !.power = {Bot}]
                ELSE members
  /\ Advance
  /\ UNCHANGED alias

SetAlias == Is("alias") /\ alias' = TRUE /\ Advance /\ UNCHANGED <<admin, members>>

\* The user of the registration is the only other member so far.
IsFirst ==
  /\ Is("first")
  /\ todo' = IF GetAdminRoom /\ Cardinality(members.joined) = 1
             THEN MakeUserAdmin(Now[2]) ELSE <<>>
  /\ UNCHANGED adminRoom

Invite == /\ Is("invite") /\ Advance /\ UNCHANGED <<admin, alias>>
          /\ members' = [members EXCEPT !.invited = @ \cup {Now[2]}]
Join == /\ Is("join") /\ Advance /\ UNCHANGED <<admin, alias>>
        /\ members' = [members EXCEPT !.invited = @ \ {Now[2]},
                                      !.joined = @ \cup {Now[2]}]
PowerOf == /\ Is("powerof") /\ Advance /\ UNCHANGED <<admin, alias>>
           /\ members' = [members EXCEPT !.power = {Bot, Now[2]}]

AdminRoom ==
  /\ AdminEvent \/ SetAlias \/ IsFirst \/ Invite \/ Join \/ PowerOf
  /\ UNCHANGED <<phase, items, version, password, rules, layout, counter,
                 keypair, handler, crashes>>

\* The task that handles admin commands ends at once without the room.
StartHandler ==
  /\ Is("handler") /\ handler' = GetAdminRoom /\ Advance
  /\ UNCHANGED <<phase, items, version, password, rules, layout, counter,
                 keypair, adminRoom, crashes>>

Serve ==
  /\ Is("serve") /\ phase' = "serving" /\ Advance
  /\ UNCHANGED <<items, version, password, rules, layout, counter, keypair,
                 adminRoom, handler, crashes>>

Step == \/ Migrating \/ BumpDatabaseVersion \/ AssertLatest \/ SetPassword
        \/ SetRules \/ Converting \/ AdminRoom \/ StartHandler \/ Serve

\* register_route, see Accounts: the account, its push rules, the first admin.
Register(u) ==
  /\ phase = "serving" /\ todo = <<>> /\ ~Exists(u)
  /\ todo' = << <<"password", u, "chosen">>, <<"newrules", u, "default">>, <<"first", u>> >>
  /\ UNCHANGED <<phase, items, version, password, rules, layout, counter,
                 keypair, adminRoom, handler, crashes>>

Crash ==
  /\ crashes < MaxCrashes /\ phase # "down"
  /\ crashes' = crashes + 1
  /\ Down
  /\ UNCHANGED <<items, version, password, rules, layout, counter, keypair,
                 adminRoom>>

-----------------------------------------------------------------------------

\* A database that version v of the layout left behind.  The registration of a
\* user without push rules was cut off after the account was stored.
OldDatabase(v, unruled) ==
  /\ items = Items /\ version = v
  /\ password = [u \in Accounts |->
       IF u = Active THEN "hash"
       ELSE IF u \in Locals THEN (IF v < 2 THEN "hash of nothing" ELSE "empty")
       ELSE IF u = Bot THEN "empty" ELSE (IF v < 4 THEN "none" ELSE "empty")]
  /\ rules = [u \in Accounts |->
       IF u \in Far \cup unruled THEN "none" ELSE IF u = Bot THEN "empty" ELSE IF v < 12 THEN "old"
       ELSE IF v = 12 THEN "renamed" ELSE "default"]
  /\ rows = [tree \in Trees |->
       IF v >= CASE tree = "serverroomids" -> 1
                 [] tree = "roomusertype_roomuserdataid" -> 5
                 [] tree = "roomid_joinedcount" -> 6
                 [] tree = "shortstatehash_statediff" -> 7
                 [] tree = "shortstatekey_statekey" -> 10
       THEN Items ELSE {}]
  /\ mediadb = IF v < 3 THEN Items ELSE {}
  /\ file = [i \in Items |-> IF v < 3 THEN "none" ELSE "content"]
  /\ short = [i \in Items |-> IF v < 8 THEN 0 ELSE i]
  /\ pdus = {<<Old, i>> : i \in Items}
            \cup (IF v < 8 THEN {} ELSE {<<i, i>> : i \in Items})
  /\ pdu = [i \in Items |-> IF v < 8 THEN Old ELSE i]
  /\ tokenids = {<<IF v < 9 THEN Old ELSE i, i>> : i \in Items}
  /\ requests = IF v < 11 THEN Items ELSE {}
  /\ keypair = TRUE /\ admin = AdminEvents /\ alias = TRUE
  /\ members = [invited |-> {}, joined |-> {Bot, Active}, power |-> {Bot, Active}]

NewDatabase ==
  /\ items = {} /\ version = 0
  /\ password = [u \in Accounts |-> "none"]
  /\ rules = [u \in Accounts |-> "none"]
  /\ rows = [tree \in Trees |-> {}]
  /\ mediadb = {} /\ file = [i \in Items |-> "none"]
  /\ short = [i \in Items |-> 0] /\ pdus = {} /\ pdu = [i \in Items |-> Old]
  /\ tokenids = {} /\ requests = {}
  /\ keypair = FALSE /\ admin = {} /\ alias = FALSE
  /\ members = [invited |-> {}, joined |-> {}, power |-> {}]

Init ==
  /\ NewDatabase \/ \E v \in 0..Latest, unruled \in SUBSET {Active} : OldDatabase(v, unruled)
  /\ phase = "down" /\ todo = <<>> /\ redone = {}
  /\ counter = Cardinality(Items) /\ handler = FALSE /\ crashes = 0

Next == Start \/ Step \/ Crash \/ \E u \in Locals : Register(u)

\* The process runs, and whoever supervises it starts it again.
Fairness == WF_vars(Start) /\ WF_vars(Step)

Spec == Init /\ [][Next]_vars /\ Fairness

-----------------------------------------------------------------------------
(* Properties *)

\* What holds of the rows in the layout of version k.
Layout(k) ==
  CASE k = 1 -> rows["serverroomids"] = items
    [] k = 2 -> \A u \in Accounts : password[u] # "hash of nothing"
    [] k = 3 -> mediadb = {}
    [] k = 4 -> (\E u \in Locals : password[u] = "hash" /\ items # {})
                   => \A u \in Far : Exists(u)
    [] k = 5 -> rows["roomusertype_roomuserdataid"] = items
    [] k = 6 -> rows["roomid_joinedcount"] = items
    [] k = 7 -> rows["shortstatehash_statediff"] = items
    [] k = 8 -> \A i \in items : /\ short[i] # Old /\ <<short[i], i>> \in pdus
                                 /\ pdu[i] # Old /\ (pdu[i] = short[i] \/ i \in redone)
    [] k = 9 -> tokenids = {<<short[i], i>> : i \in items}
    [] k = 10 -> rows["shortstatekey_statekey"] = items
    [] k = 11 -> requests = {}
    [] k = 12 -> \A u \in ListLocalUsers : rules[u] # "old"
    [] k = 13 -> \A u \in ListLocalUsers \ {Bot} : rules[u] \in {"none", "default"}

\* Wherever earlier starts were cut off, the rows have the layout of the stored
\* version: what a later start skips was done completely.  Except for event IDs of
\* rooms that got another short ID after a crash between the event IDs and the
\* version: they stay with the first one.
LayoutMatchesVersion == \A k \in 1..version : Layout(k)

\* At every moment of a migration, the content of a media file is in the
\* database or in its file, and an event ID leads to a PDU.
MigrationsLoseNothing ==
  \A i \in items : /\ i \in mediadb \/ file[i] = "content"
                   /\ <<pdu[i], i>> \in pdus
                   /\ \E key \in 0..counter : <<key, i>> \in tokenids

\* The alias of the admin room leads to a room that is complete, with the
\* server's user in it and in power.
AdminRoomIsWhole ==
  alias => /\ admin = AdminEvents
           /\ Bot \in members.joined /\ Bot \in members.power
           /\ members.power \subseteq members.joined

\* A migration to come panics at every start: an account has no push rules.
Doomed == version < 13 /\ \E u \in ListLocalUsers : rules[u] = "none"

\* However often the start is interrupted, the server serves in the end, unless
\* the database has an account without push rules, see ServesInTheEnd.
EventuallyServing == phase # "serving" /\ ~Doomed ~> phase = "serving"

\* However often the start is interrupted, the server serves in the end: the
\* push rules that a migration reads are there (database.rs:987, :1092).
ServesInTheEnd == phase # "serving" ~> phase = "serving"

\* The event IDs of a room lead to its rows in the timeline, under the one short
\* ID of the room.
OneShortRoomId == version >= 8 => \A i \in items : pdu[i] = short[i]

\* A server that serves has an admin room, and the task that reads it runs.
AdminRoomAfterFirstRun == phase = "serving" => alias /\ handler

=============================================================================
