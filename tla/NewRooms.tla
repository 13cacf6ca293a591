------------------------------ MODULE NewRooms ------------------------------
(***************************************************************************)
(* Rooms that come into being, and the names they are found by: the routes *)
(* that create and upgrade a room (client_server/room.rs), that make and   *)
(* delete aliases (client_server/alias.rs), that publish a room            *)
(* (client_server/directory.rs), and that send a state event               *)
(* (client_server/state.rs).                                               *)
(*                                                                         *)
(* A request is a handler: a list of steps, each one event, one row or one *)
(* lock, between which other requests run.  An error ends the request      *)
(* where it stands and drops its locks; so does the end of the handler.    *)
(*                                                                         *)
(* Of a room's state the model keeps a few types.  join_rules stands for   *)
(* the events of the preset, name for those a client may add, and both,    *)
(* with the power levels, for the state that an upgrade copies.            *)
(***************************************************************************)
EXTENDS Naturals, FiniteSets, Sequences

CONSTANTS
  Requests,     \* requests that may run at one time
  Rooms,        \* room IDs
  AdminRoom,    \* the admin room
  OldRoom,      \* a room that users have made before
  Aliases,      \* local aliases
  AdminAlias,   \* the alias of the admin room
  OldAlias,     \* an alias of the other room
  None,         \* no room, no alias, no event
  MaxOps,       \* bound: requests in a behaviour
  MaxCrashes    \* bound: crashes in a behaviour

ASSUME NewRoomsAssumption ==
  /\ AdminRoom \in Rooms /\ OldRoom \in Rooms /\ AdminRoom # OldRoom
  /\ {AdminAlias, OldAlias} \subseteq Aliases /\ AdminAlias # OldAlias
  /\ None \notin Rooms \cup Aliases \cup Requests
  /\ MaxOps \in Nat /\ MaxCrashes \in Nat

VARIABLES
  short,       \* rooms with a short ID: those that were ever begun
  state,       \* the content of each room's state events
  lock,        \* roomid_mutex_state: who holds the lock of each room
  aliasRoom,   \* alias_roomid
  aliasRows,   \* aliasid_alias: rows <<room, count, alias>>
  public,      \* publicroomids
  count,       \* the global counter
  todo,        \* the steps each request has still to take
  upgrade,     \* <<old, new>> while a request upgrades a room
  ops, crashes

directory == <<aliasRoom, aliasRows, public, count>>
vars == <<short, state, lock, directory, todo, upgrade, ops, crashes>>

Types == {"create", "member", "power_levels", "canonical_alias", "join_rules",
          "name", "tombstone"}
Transferable == <<"name", "join_rules", "power_levels">>

\* create_admin_room has made the admin room and its alias; a user has made the
\* other room, without a name, and then its alias.
Init ==
  /\ short = {AdminRoom, OldRoom}
  /\ state = [r \in Rooms |-> [ty \in Types |->
       IF r \in short /\ ty \notin {"tombstone", "canonical_alias", "name"}
       THEN "initial" ELSE None]]
  /\ lock = [r \in Rooms |-> None]
  /\ aliasRoom = [a \in Aliases |-> CASE a = AdminAlias -> AdminRoom [] a = OldAlias -> OldRoom
                                       [] OTHER -> None]
  /\ aliasRows = {<<AdminRoom, 1, AdminAlias>>, <<OldRoom, 2, OldAlias>>}
  /\ public = {} /\ count = 2
  /\ todo = [q \in Requests |-> <<>>]
  /\ upgrade = [q \in Requests |-> <<>>]
  /\ ops = 0 /\ crashes = 0

-----------------------------------------------------------------------------
(* Reads *)

\* resolve_local_alias, local_aliases_for_room (the rows, in their order)
ResolveLocalAlias(a) == aliasRoom[a]
InUse == {a \in Aliases : ResolveLocalAlias(a) # None}
LocalAliasesForRoom(r) ==
  LET rows == {row \in aliasRows : row[1] = r}
  IN  [i \in 1..Cardinality(rows) |->
         CHOOSE row \in rows : Cardinality({x \in rows : x[2] < row[2]}) = i - 1]

\* exists: the room has an event, and the first one is its create event.
Exists(r) == state[r]["create"] # None

\* set_alias and remove_alias: nobody but the admin bot, and it makes no
\* requests, may touch the alias of the admin room.
MayModify(a) == a # AdminAlias

-----------------------------------------------------------------------------
(* Steps of a request *)

Is(q, kind) == todo[q] # <<>> /\ Head(todo[q])[1] = kind

\* Tokens are dropped when their handler returns.
Continue(q, rest) ==
  /\ todo' = [todo EXCEPT ![q] = rest]
  /\ upgrade' = [upgrade EXCEPT ![q] = IF rest = <<>> THEN <<>> ELSE @]
Dropped(q) == [r \in Rooms |-> IF lock[r] = q THEN None ELSE lock[r]]
Return(q) == Continue(q, <<>>) /\ lock' = Dropped(q)

Proceed(q, rest) ==
  /\ Continue(q, rest)
  /\ lock' = IF rest = <<>> THEN Dropped(q) ELSE lock

\* lock_key(room_id).await
LockKey(q) ==
  /\ Is(q, "lock")
  /\ lock[Head(todo[q])[2]] = None
  /\ lock' = [lock EXCEPT ![Head(todo[q])[2]] = q]
  /\ Continue(q, Tail(todo[q]))
  /\ UNCHANGED <<short, state, directory, ops, crashes>>

\* drop(room_token), before the invites of a new room
DropToken(q) ==
  /\ Is(q, "unlock")
  /\ lock' = [lock EXCEPT ![Head(todo[q])[2]] = None]
  /\ Continue(q, Tail(todo[q]))
  /\ UNCHANGED <<short, state, directory, ops, crashes>>

\* invite_helper takes the lock again and appends an event of another member;
\* its errors are only logged.
InviteHelper(q) ==
  /\ Is(q, "invite")
  /\ lock[Head(todo[q])[2]] = None
  /\ Proceed(q, Tail(todo[q]))
  /\ UNCHANGED <<short, state, directory, ops, crashes>>

\* build_and_append_pdu: the create event comes first, and any event may be
\* refused by the rules of the room, which are not modelled.
AppendPdu(q, r, ty, content) ==
  /\ (ty = "create") = ~Exists(r)
  /\ state' = [state EXCEPT ![r][ty] = content]
  /\ Proceed(q, Tail(todo[q]))
  /\ UNCHANGED <<short, directory, ops, crashes>>
Refused(q) == Return(q) /\ UNCHANGED <<short, state, directory, ops, crashes>>

BuildAndAppendPdu(q) ==
  /\ Is(q, "build")
  /\ \/ LET s == Head(todo[q]) IN AppendPdu(q, s[2], s[3], s[4])
     \/ Refused(q)

\* One transferable event of the old room; missing ones are skipped.
TransferStateEvent(q) ==
  /\ Is(q, "transfer")
  /\ LET s == Head(todo[q])
         content == state[s[2]][s[4]]
     IN \/ content # None /\ AppendPdu(q, s[3], s[4], content)
        \/ content # None /\ Refused(q)
        \/ /\ content = None
           /\ Proceed(q, Tail(todo[q]))
           /\ UNCHANGED <<short, state, directory, ops, crashes>>

\* The last event of an upgrade.  It fails in a room without power levels.
ClosePowerLevels(q) ==
  /\ Is(q, "close")
  /\ LET r == Head(todo[q])[2]
     IN \/ state[r]["power_levels"] # None /\ AppendPdu(q, r, "power_levels", "closed")
        \/ Refused(q)

\* "Moves any local aliases to the new room"
MoveAliases(q) ==
  /\ Is(q, "aliases")
  /\ LET s == Head(todo[q])
         rows == LocalAliasesForRoom(s[2])
         moves == [i \in 1..Len(rows) |-> <<"alias", rows[i][3], s[3]>>]
     IN Proceed(q, moves \o Tail(todo[q]))
  /\ UNCHANGED <<short, state, directory, ops, crashes>>

\* set_alias, first row
SetAlias(q) ==
  /\ Is(q, "alias")
  /\ LET s == Head(todo[q])
     IN \/ /\ MayModify(s[2])
           /\ aliasRoom' = [aliasRoom EXCEPT ![s[2]] = s[3]]
           /\ Proceed(q, << <<"row", s[2], s[3]>> >> \o Tail(todo[q]))
           /\ UNCHANGED <<short, state, aliasRows, public, count, ops, crashes>>
        \/ ~MayModify(s[2]) /\ Refused(q)

\* set_alias, second row
SetAliasRow(q) ==
  /\ Is(q, "row")
  /\ LET s == Head(todo[q]) IN aliasRows' = aliasRows \cup {<<s[3], count + 1, s[2]>>}
  /\ count' = count + 1
  /\ Proceed(q, Tail(todo[q]))
  /\ UNCHANGED <<short, state, aliasRoom, public, ops, crashes>>

\* remove_alias: every row of the room the alias points to, ...
FindAliasRows(q) ==
  /\ Is(q, "find")
  /\ LET rows == LocalAliasesForRoom(Head(todo[q])[2])
     IN Proceed(q, [i \in 1..Len(rows) |-> <<"norow", rows[i]>>] \o Tail(todo[q]))
  /\ UNCHANGED <<short, state, directory, ops, crashes>>
RemoveAliasRow(q) ==
  /\ Is(q, "norow")
  /\ aliasRows' = aliasRows \ {Head(todo[q])[2]}
  /\ Proceed(q, Tail(todo[q]))
  /\ UNCHANGED <<short, state, aliasRoom, public, count, ops, crashes>>
\* ... and the alias itself
RemoveAlias(q) ==
  /\ Is(q, "noalias")
  /\ aliasRoom' = [aliasRoom EXCEPT ![Head(todo[q])[2]] = None]
  /\ Proceed(q, Tail(todo[q]))
  /\ UNCHANGED <<short, state, aliasRows, public, count, ops, crashes>>

\* set_public
SetPublic(q) ==
  /\ Is(q, "public")
  /\ public' = public \cup {Head(todo[q])[2]}
  /\ Proceed(q, Tail(todo[q]))
  /\ UNCHANGED <<short, state, aliasRoom, aliasRows, count, ops, crashes>>

Step(q) ==
  \/ LockKey(q) \/ DropToken(q) \/ InviteHelper(q) \/ BuildAndAppendPdu(q)
  \/ TransferStateEvent(q) \/ ClosePowerLevels(q) \/ MoveAliases(q) \/ SetAlias(q) \/ SetAliasRow(q)
  \/ FindAliasRows(q) \/ RemoveAliasRow(q) \/ RemoveAlias(q) \/ SetPublic(q)

-----------------------------------------------------------------------------
(* Requests *)

Start(q, steps) ==
  /\ todo[q] = <<>> /\ ops < MaxOps
  /\ ops' = ops + 1
  /\ todo' = [todo EXCEPT ![q] = steps]
  /\ UNCHANGED <<state, directory, crashes>>

Optional(given, step) == IF given THEN <<step>> ELSE <<>>

\* The events of create_room_route that every room has first, and those set by
\* the alias, the preset and the client.
FirstEvents(r) ==
  << <<"build", r, "create", "initial">>, <<"build", r, "member", "initial">>,
     <<"build", r, "power_levels", "initial">> >>
PresetEvents(r, a, options) ==
  Optional(a # None, <<"build", r, "canonical_alias", a>>)
  \o << <<"build", r, "join_rules", "initial">> >>
  \o Optional("name" \in options, <<"build", r, "name", "initial">>)

\* What follows it.
AfterCreation(r, a, options) ==
  << <<"unlock", r>> >>
  \o Optional("invite" \in options, <<"invite", r>>)
  \o Optional(a # None, <<"alias", a, r>>)
  \o Optional("public" \in options, <<"public", r>>)

\* RoomId::new: any ID that was never used; they are all alike.
NewRoomId == CHOOSE r \in Rooms : r \notin short

\* create_room_route: nobody waits for the lock of a new ID.  The short ID stays
\* when the alias is in use or reserved, the version is not supported, or the
\* user may not create rooms.
CreateRoomRoute(q, r, a, options) ==
  /\ short # Rooms
  /\ short' = short \cup {r}
  /\ \/ /\ a \notin InUse
        /\ Start(q, FirstEvents(r) \o PresetEvents(r, a, options) \o AfterCreation(r, a, options))
        /\ lock' = [lock EXCEPT ![r] = q]
     \/ Start(q, <<>>) /\ UNCHANGED lock
  /\ UNCHANGED upgrade

\* upgrade_room_route: both locks are held to the end, although a comment says
\* "Change lock to replacement room".
TransferSteps(old, new) ==
  [i \in 1..Len(Transferable) |-> <<"transfer", old, new, Transferable[i]>>]
ReplacementSteps(old, new) ==
  << <<"build", new, "create", old>>, <<"build", new, "member", "initial">> >>
  \o TransferSteps(old, new)

\* Mutant: the old room's lock is given up for the new one.
ChangeLock(old, new) ==
  << <<"lock", old>>, <<"build", old, "tombstone", new>>, <<"unlock", old>>, <<"lock", new>> >>
  \o ReplacementSteps(old, new)
  \o << <<"aliases", old, new>>, <<"lock", old>>, <<"close", old>> >>

\* Mutant: the lock of the old room is asked for again before its last event.
LockAgain(old, new) ==
  << <<"lock", old>>, <<"build", old, "tombstone", new>>, <<"lock", new>> >>
  \o ReplacementSteps(old, new)
  \o << <<"aliases", old, new>>, <<"lock", old>>, <<"close", old>> >>

UpgradeSteps(old, new) ==
  << <<"lock", old>>, <<"build", old, "tombstone", new>>, <<"lock", new>> >>
  \o ReplacementSteps(old, new)
  \o << <<"aliases", old, new>>, <<"close", old>> >>
UpgradeRoomRoute(q, old, new) ==
  /\ short # Rooms /\ old \in short
  /\ short' = short \cup {new}
  /\ Start(q, UpgradeSteps(old, new))
  /\ upgrade' = [upgrade EXCEPT ![q] = <<old, new>>]
  /\ UNCHANGED lock

\* create_alias_route: whether the room exists is not asked.
CreateAliasRoute(q, a, r) ==
  /\ r \in short /\ a \notin InUse
  /\ Start(q, << <<"alias", a, r>> >>)
  /\ UNCHANGED <<short, lock, upgrade>>

\* delete_alias_route
DeleteAliasRoute(q, a) ==
  /\ MayModify(a) /\ a \in InUse
  /\ Start(q, << <<"find", ResolveLocalAlias(a)>>, <<"noalias", a>> >>)
  /\ UNCHANGED <<short, lock, upgrade>>

\* send_state_event_for_key_helper: a canonical alias has to lead to the room
\* when the request arrives.
SendStateEvent(q, r, ty, content) ==
  /\ r \in short
  /\ ty = "canonical_alias" => ResolveLocalAlias(content) = r
  /\ Start(q, << <<"lock", r>>, <<"build", r, ty, content>> >>)
  /\ UNCHANGED <<short, lock, upgrade>>

\* set_room_visibility_route: one row, without a lock.
SetRoomVisibilityRoute(r, visible) ==
  /\ Exists(r) /\ ops < MaxOps
  /\ ops' = ops + 1
  /\ public' = IF visible THEN public \cup {r} ELSE public \ {r}
  /\ UNCHANGED <<short, state, lock, aliasRoom, aliasRows, count, todo, upgrade, crashes>>

\* Everything in memory is lost.
Crash ==
  /\ crashes < MaxCrashes
  /\ crashes' = crashes + 1
  /\ todo' = [q \in Requests |-> <<>>]
  /\ upgrade' = [q \in Requests |-> <<>>]
  /\ lock' = [r \in Rooms |-> None]
  /\ UNCHANGED <<short, state, directory, ops>>

Request(q) ==
  \/ \E a \in Aliases \cup {None}, options \in SUBSET {"name", "invite", "public"} :
       CreateRoomRoute(q, NewRoomId, a, options)
  \/ \E old \in Rooms : UpgradeRoomRoute(q, old, NewRoomId)
  \/ \E a \in Aliases, r \in Rooms : CreateAliasRoute(q, a, r)
  \/ \E a \in Aliases : DeleteAliasRoute(q, a)
  \/ \E r \in Rooms, ty \in {"name", "join_rules", "power_levels"} :
       SendStateEvent(q, r, ty, "new")
  \/ \E r \in Rooms, a \in Aliases : SendStateEvent(q, r, "canonical_alias", a)

Next ==
  \/ \E q \in Requests : Step(q) \/ Request(q)
  \/ \E r \in Rooms, visible \in BOOLEAN : SetRoomVisibilityRoute(r, visible)
  \/ Crash

\* Handlers are driven by the runtime, and the locks are handed on in the
\* order in which they were asked for.
Fairness == \A q \in Requests : WF_vars(Step(q)) /\ SF_vars(LockKey(q) \/ InviteHelper(q))

Spec == Init /\ [][Next]_vars /\ Fairness

-----------------------------------------------------------------------------
(* Properties *)

\* When upgrade_room_route has copied the state, and until it closes the old
\* room, the two rooms agree on all that it transfers: nothing that is sent to
\* the old room or to the new one meanwhile gets lost or in between.
UpgradeCopiesTheState ==
  \A q \in Requests :
    upgrade[q] # <<>> /\ Head(todo[q])[1] \in {"aliases", "alias", "row", "close"} =>
      \A i \in 1..Len(Transferable) :
        state[upgrade[q][2]][Transferable[i]] = state[upgrade[q][1]][Transferable[i]]

\* Every request comes to an end, whichever locks it has to wait for: create,
\* upgrade and invite never wait for each other in a circle.
RequestsEnd == \A q \in Requests : todo[q] # <<>> ~> todo[q] = <<>>

\* local_aliases_for_room "Returns all local aliases that point to the given
\* room" (service/rooms/alias.rs), and no others.
ListedAliasesPointToTheRoom ==
  \A row \in aliasRows : (\A q \in Requests : todo[q] = <<>>) => aliasRoom[row[3]] = row[1]
=============================================================================
