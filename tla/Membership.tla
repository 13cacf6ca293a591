----------------------------- MODULE Membership -----------------------------
(***************************************************************************)
(* Who is in a room, kept twice: as member events in the room's state and  *)
(* as rows of the state cache (service/rooms/state_cache.rs), which the    *)
(* client routes of api/client_server/membership.rs and the federation     *)
(* routes of api/server_server.rs change.  One room.                       *)
(*                                                                         *)
(* A task is one request.  What it reads decides what it will write: its   *)
(* `todo', a sequence of steps that are taken one by one, so that other    *)
(* tasks come between any two rows and a crash may cut it off anywhere.  A *)
(* call of the state cache is a step that is replaced by its rows.         *)
(* Most tasks hold roomid_mutex_state (`lock') from their reads to their   *)
(* last step; an invite from a room we are not in, and the leaving of such *)
(* a room, hold no lock.                                                   *)
(*                                                                         *)
(* Contents of events are abstracted to the membership.  Authorization is  *)
(* external (ruma::state_res), as are the servers that answer make_join,   *)
(* send_join, make_leave, send_leave and invite requests.                  *)
(***************************************************************************)
EXTENDS Naturals, Sequences, FiniteSets

CONSTANTS
  LocalUsers,    \* users of this server
  RemoteUsers,   \* users of other servers
  Us,            \* this server
  Home,          \* the servers of the remote users
  Bot,           \* the server's own user, a member of the admin room
  Mods,          \* users who may kick and ban
  Ignores,       \* <<u, v>>: u ignores v
  Bridged,       \* users in the namespace of the application service
  Tagged,        \* users with m.tag or m.direct data for the predecessor room
  Allowed,       \* users who are in a room that the restricted rule allows
  Rooms,         \* the rooms to begin with: kind, join rule, and, as a bound,
                 \* the users of this server who take part
  Disputed,      \* users on whom the forks of the room's state may disagree
  Tasks,
  NoTask,
  MaxOps,        \* bound: requests of one behaviour
  MaxCrashes     \* bound: crashes of one behaviour

Users == LocalUsers \cup RemoteUsers
JoinRules == {"public", "invite", "restricted"}

ASSUME UsersAssumption ==
  /\ LocalUsers \cap RemoteUsers = {}
  /\ IsFiniteSet(Users)
  /\ Home \in [RemoteUsers -> {Home[u] : u \in RemoteUsers}]
  /\ \A u \in RemoteUsers : Home[u] # Us
  /\ Mods \subseteq Users /\ Bridged \subseteq Users /\ Disputed \subseteq Users
  /\ Tagged \subseteq LocalUsers /\ Allowed \subseteq LocalUsers
  /\ Ignores \subseteq LocalUsers \X Users
  /\ Rooms \subseteq [kind : {"unknown", "shared", "admin"}, rule : JoinRules,
                      cast : SUBSET LocalUsers]
  /\ \A r \in Rooms : r.kind = "admin" => r.rule = "invite" /\ Bot \in r.cast
                                         /\ r.cast # {Bot}
  /\ Bot \in LocalUsers
  /\ NoTask \notin Tasks \cup Users /\ MaxOps \in Nat /\ MaxCrashes \in Nat

\* The rows of the state cache.  A membership has a tree by user and a tree by
\* room; `known' is the remote users for whom an account row exists.
Trees == {"userroomid_joined", "roomuserid_joined", "userroomid_invitestate",
          "roomuserid_invitecount", "userroomid_leftstate",
          "roomuserid_leftcount", "roomuseroncejoinedids", "known", "copied"}

Memberships == {"none", "invite", "join", "leave", "ban"}

VARIABLES
  room,     \* whether this is the admin room, its join rule, who takes part
  state,    \* the room's state: the membership of every user
  db,       \* the rows, a set of users in every tree
  counts,   \* roomid_joinedcount and roomid_invitedcount
  servers,  \* roomserverids (by room) and serverroomids (by server)
  cache,    \* our_real_users_cache, Cold after a start
  bridge,   \* appservice_in_room_cache
  lock,     \* the holder of roomid_mutex_state
  task,     \* the requests in progress
  tally,    \* how far the update_joined_count of a request has come: its part,
            \* the servers whose rows are left, the one with half of them
  told,     \* the servers the last event was sent to, and its target
  ops,      \* requests so far
  crashes,
  torn,     \* users whose last update a crash cut off
  loose,    \* users whose last update held no lock, or whose rows are not those
            \* of the state that it set
  overlap,  \* whether an update without the lock met another one
  halves    \* servers that a crash left with one of their two rows

vars == <<room, state, db, counts, servers, cache, bridge, lock, task, tally,
          told, ops, crashes, torn, loose, overlap, halves>>
rows == <<state, db, counts, servers, cache, bridge, tally, told>>
ghosts == <<torn, loose, overlap, halves>>

ServerOf(u) == IF u \in LocalUsers THEN Us ELSE Home[u]
Servers == {ServerOf(u) : u \in Users}
Cold == {NoTask}

Idle == [op |-> "idle", sender |-> NoTask, target |-> NoTask, m |-> "none",
         locked |-> FALSE, run |-> FALSE, todo |-> <<>>, seen |-> {},
         invited |-> 0]

Fresh == [part |-> "joined", left |-> {}, half |-> {}]

-----------------------------------------------------------------------------
(* Reading the cache *)

RoomMembers == db["roomuserid_joined"]
RoomMembersInvited == db["roomuserid_invitecount"]
RoomServers == servers.byRoom
ServerInRoom(s) == s \in servers.byServer
RoomsJoined(u) == u \in db["userroomid_joined"]
RoomsInvited(u) == u \in db["userroomid_invitestate"]
RoomsLeft(u) == u \in db["userroomid_leftstate"]
IsJoined(u) == u \in db["userroomid_joined"]
GetLeftCount(u) == u \in db["roomuserid_leftcount"]
GetInviteCount(u) == u \in db["roomuserid_invitecount"]
OnceJoined(u) == u \in db["roomuseroncejoinedids"]

\* Whether the state of the room is known here.
Exists == \E u \in Users : state[u] # "none"

-----------------------------------------------------------------------------
(* Writing it: the steps of one update_membership *)

Put(tree, u) == <<"put", tree, u>>
Del(tree, u) == <<"del", tree, u>>

MarkAsOnceJoined(u) == <<Put("roomuseroncejoinedids", u)>>

\* Tags and direct chats of the room that this one replaces.
CopyUpgradedAccountData(u) ==
  IF u \in Tagged THEN <<Put("copied", u)>> ELSE <<>>

MarkAsJoined(u) ==
  <<Put("userroomid_joined", u), Put("roomuserid_joined", u),
    Del("userroomid_invitestate", u), Del("roomuserid_invitecount", u),
    Del("userroomid_leftstate", u), Del("roomuserid_leftcount", u)>>

\* Mutant: the other trees are cleared before the invite is written.
MarkAsInvitedLast(u) ==
  <<Del("userroomid_joined", u), Del("roomuserid_joined", u),
    Del("userroomid_leftstate", u), Del("roomuserid_leftcount", u),
    Put("userroomid_invitestate", u), Put("roomuserid_invitecount", u)>>

MarkAsInvited(u) ==
  <<Put("userroomid_invitestate", u), Put("roomuserid_invitecount", u),
    Del("userroomid_joined", u), Del("roomuserid_joined", u),
    Del("userroomid_leftstate", u), Del("roomuserid_leftcount", u)>>

\* Mutant: the row by room of the joined tree stays.
MarkAsLeftForgetsARow(u) ==
  <<Put("userroomid_leftstate", u), Put("roomuserid_leftcount", u),
    Del("userroomid_joined", u),
    Del("userroomid_invitestate", u), Del("roomuserid_invitecount", u)>>

MarkAsLeft(u) ==
  <<Put("userroomid_leftstate", u), Put("roomuserid_leftcount", u),
    Del("userroomid_joined", u), Del("roomuserid_joined", u),
    Del("userroomid_invitestate", u), Del("roomuserid_invitecount", u)>>

\* update_joined_count: the members are read, then the results are written.
UpdateJoinedCount == << <<"scan">>, <<"store">> >>

\* Mutant: the members are not counted after the rows are written.
UpdateMembershipNoCount(sender, u, m, count) ==
  (IF u \in RemoteUsers THEN <<Put("known", u)>> ELSE <<>>) \o
  (IF m = "join" THEN MarkAsJoined(u)
   ELSE IF m = "invite" THEN MarkAsInvited(u) ELSE MarkAsLeft(u))

\* An invite from somebody the user ignores is dropped, the count with it.
UpdateMembership(sender, u, m, count) ==
  (IF u \in RemoteUsers THEN <<Put("known", u)>> ELSE <<>>) \o
  (CASE m = "join" ->
          (IF OnceJoined(u) THEN <<>>
           ELSE MarkAsOnceJoined(u) \o CopyUpgradedAccountData(u))
          \o MarkAsJoined(u)
     [] m = "invite" -> IF <<u, sender>> \in Ignores THEN <<>>
                        ELSE MarkAsInvited(u)
     [] m \in {"leave", "ban"} -> MarkAsLeft(u)
     [] OTHER -> <<>>) \o
  (IF count /\ ~(m = "invite" /\ <<u, sender>> \in Ignores)
   THEN UpdateJoinedCount ELSE <<>>)

\* The call as a step.
Update(sender, u, m, count) == <<"update", sender, u, m, count>>

\* Filled on a miss by counting again.
GetOurRealUsers == IF cache = Cold THEN UpdateJoinedCount ELSE <<>>

\* append_pdu, as far as it concerns members: whom to push to, the rows, and
\* whether the application service is interested.
AppendPdu(sender, u, m) ==
  << <<"realusers">>, Update(sender, u, m, TRUE), <<"bridge">> >>

\* The new members of a state, each with its row, the counts, the state.  The
\* member events that the new state does not have any more change no row, nor
\* do those of `skip', invites from somebody the user ignores.
ForceState(new, sender, skip) ==
  << <<"force", {u \in Users : new[u] # state[u]} \ skip, new, sender>>,
     <<"scan">>, <<"store">>, <<"state", new>> >>

\* The members of the state that a new one does not have.
Dropped(new) == {u \in Users : new[u] = "none" /\ state[u] # "none"}

-----------------------------------------------------------------------------
(* Authorization *)

\* External: state_res::auth_check for a member event.  `via' says that a
\* member who may invite vouches for a restricted join.
AuthCheck(st, sender, u, m, via) ==
  CASE m = "join" ->
         /\ sender = u
         /\ st[u] # "ban"
         /\ \/ room.rule = "public"
            \/ st[u] \in {"invite", "join"}
            \/ room.rule = "restricted" /\ via
    [] m = "invite" -> st[sender] = "join" /\ st[u] \notin {"join", "ban"}
    [] m = "leave" -> IF sender = u THEN st[u] \in {"join", "invite"}
                      ELSE st[sender] = "join" /\ sender \in Mods /\ u \notin Mods
    [] m = "ban" -> st[sender] = "join" /\ sender \in Mods /\ u \notin Mods

\* Mutant: one other local member is enough.
AdminRoomForbidsLess(u, m) ==
  /\ room.admin
  /\ m \in {"leave", "ban"}
  /\ \/ u = Bot
     \/ Cardinality((RoomMembers \cap LocalUsers) \ {u}) < 1

\* build_and_append_pdu keeps the server's user and two local members in the
\* admin room.
AdminRoomForbids(u, m) ==
  /\ room.admin
  /\ m \in {"leave", "ban"}
  /\ \/ u = Bot
     \/ Cardinality((RoomMembers \cap LocalUsers) \ {u}) < 2

\* A restricted join: some local member of the room vouches for a user who is
\* in one of the allowed rooms.
AuthorizedUser(u) ==
  u \in Allowed /\ \E v \in RoomMembers \cap LocalUsers : state[v] = "join"

\* build_and_append_pdu for a member event, or nothing when it is refused.
\* The state is set after the event is stored, then the servers are told.
BuildAndAppend(sender, u, m) ==
  AppendPdu(sender, u, m)
  \o << <<"state", [state EXCEPT ![u] = m]>>, <<"send", u>> >>

CanBuild(sender, u, m) ==
  /\ Exists
  /\ AuthCheck(state, sender, u, m, AuthorizedUser(u))
  /\ ~AdminRoomForbids(u, m)

\* External: state_res::resolve of the current state and the one after an event
\* about u, which wins, loses or is dropped with the one before.  On a disputed
\* user any membership may win.  In the admin room whose moderators are all
\* ours, no fork of others takes a membership away from a user of ours.
Resolutions(u, choices) ==
  LET firm == IF room.admin /\ Mods \subseteq LocalUsers THEN LocalUsers ELSE {}
      open == Disputed \ firm
  IN  {[v \in Users |-> IF v \in open THEN f[v]
                        ELSE IF v = u THEN x ELSE state[v]] :
         f \in [open -> Memberships],
         x \in IF u \notin firm THEN choices \cup {"none"}
              ELSE IF state[u] = "join" THEN {"join"} ELSE choices}

\* The new invites of a resolved state that ignored users may have sent.
MayBeIgnored(new) ==
  {u \in Users : /\ new[u] = "invite" /\ state[u] # "invite"
                 /\ \E v \in Users : <<u, v>> \in Ignores}

\* The end of handle_incoming_pdu: the resolved state is forced, then the event
\* is appended.  A route of ours passes the event on, /send does not.
HandleIncomingPdu(r, new, skip) ==
  ForceState(new, NoTask, skip)
  \o AppendPdu(r.sender, r.target, r.m)
  \o (IF r.op = "passed" THEN << <<"send", NoTask>> >> ELSE <<>>)

-----------------------------------------------------------------------------
(* The life of a request *)

Free(t) == task[t].op = "idle" /\ ops < MaxOps

Running(t) == task[t].run

\* A request arrives.  It waits for the lock, or for another server.
Arrive(t, op, sender, u, m) ==
  /\ Free(t)
  /\ ops' = ops + 1
  /\ task' = [task EXCEPT ![t] =
                [Idle EXCEPT !.op = op, !.sender = sender, !.target = u, !.m = m]]
  /\ UNCHANGED <<room, rows, lock, crashes, ghosts>>

\* A request that only reads, or fails before it changes anything.
Fail(t) ==
  /\ task' = [task EXCEPT ![t] = Idle]
  /\ lock' = IF lock = t THEN NoTask ELSE lock
  /\ UNCHANGED <<room, rows, ops, crashes, ghosts>>

\* The invite of an ignored sender changes no row, nor does a soft failed event
\* by itself.
Effective(r) ==
  /\ ~(r.m = "invite" /\ <<r.target, r.sender>> \in Ignores)
  /\ r.op # "softfailed"

\* Updates of the same user that hold no lock.
LooseBeside(t) ==
  \E s \in Tasks \ {t} : /\ Running(s) /\ ~task[s].locked
                         /\ task[s].target = task[t].target

\* The reads of a request are done and its steps are known.  `lost' are users
\* whose rows will not be those of the new state.
GoLosing(t, todo, locked, lost) ==
  /\ task' = [task EXCEPT ![t].todo = todo, ![t].run = TRUE,
                          ![t].locked = locked]
  /\ lock' = IF locked THEN t ELSE lock
  /\ overlap' = (overlap \/ \E s \in Tasks \ {t} : Running(s))
  /\ loose' = (IF locked /\ ~LooseBeside(t) /\ Effective(task[t])
               THEN loose \ {task[t].target}
               ELSE IF task[t].op = "softfailed" THEN loose
               ELSE loose \cup {task[t].target})
              \cup lost
  /\ UNCHANGED <<room, rows, ops, crashes, torn, halves>>

Go(t, todo, locked) == GoLosing(t, todo, locked, {})

LockFree == lock = NoTask

-----------------------------------------------------------------------------
(* Client routes *)

\* POST /join.  The user's account is local.
JoinRoom(t) == \E u \in room.cast : Arrive(t, "join", u, u, "join")

\* We are in the room: join here, or, when that is refused and the rule is
\* restricted, let another server sign the join and handle it as an incoming
\* event once the lock is dropped.
JoinLocally(t) ==
  LET u == task[t].target
  IN  /\ task[t].op = "join" /\ ~Running(t) /\ LockFree
      /\ ServerInRoom(Us)
      /\ \/ CanBuild(u, u, "join") /\ Go(t, BuildAndAppend(u, u, "join"), TRUE)
         \/ ~CanBuild(u, u, "join") /\ Fail(t)

JoinSignedElsewhere(t) ==
  LET u == task[t].target
  IN  /\ task[t].op = "join" /\ ~Running(t) /\ LockFree
      /\ ServerInRoom(Us)
      /\ ~CanBuild(u, u, "join") /\ room.rule = "restricted"
      /\ task' = [task EXCEPT ![t].op = "send"]
      /\ UNCHANGED <<room, rows, lock, ops, crashes, ghosts>>

\* The events of an answer that are signed and not backed off from; the others
\* are left out.
ValidEvents == SUBSET RemoteUsers

\* The state that send_join answers: the remote users, and of our own what was
\* known before.
SendJoinState(u, before, valid) ==
  [v \in Users |-> IF v \in valid THEN "join"
                   ELSE IF v \in RemoteUsers THEN "none"
                   ELSE IF v # u \/ state[u] = "ban" THEN state[v]
                   ELSE before]

\* The state before the join is forced, the members are counted once more, and
\* the join is appended.
SaveSendJoin(new, u) ==
  ForceState(new, u, {}) \o UpdateJoinedCount \o AppendPdu(u, u, "join")
  \o << <<"state", [new EXCEPT ![u] = "join"]>> >>

\* We are not in the room: make_join and send_join under the lock.
JoinOverFederation(t) ==
  LET u == task[t].target
  IN  /\ task[t].op = "join" /\ ~Running(t) /\ LockFree
      /\ ~ServerInRoom(Us)
      /\ \/ Fail(t)
         \/ \E before \in {"none", "invite", "leave"}, valid \in ValidEvents :
              LET new == SendJoinState(u, before, valid)
              IN  /\ AuthCheck(new, u, u, "join", TRUE)
                  /\ GoLosing(t, SaveSendJoin(new, u), TRUE, Dropped(new) \ {u})

\* POST /leave, and leave_all_rooms for a room in the trees by user.
LeaveRoom(t) == \E u \in room.cast : Arrive(t, "leave", u, u, "leave")

LeaveAllRooms(t) ==
  \E u \in room.cast : /\ RoomsJoined(u) \/ RoomsInvited(u)
                       /\ Arrive(t, "leave", u, u, "leave")

\* Whether we are in the room is asked before the lock is waited for.
LeaveChooses(t) ==
  /\ task[t].op = "leave"
  /\ task' = [task EXCEPT ![t].op = IF ServerInRoom(Us) THEN "leavehere"
                                    ELSE "leavethere"]
  /\ UNCHANGED <<room, rows, lock, ops, crashes, ghosts>>

\* Without a member event only the cache is corrected.
LeaveLocally(t) ==
  LET u == task[t].target
  IN  /\ task[t].op = "leavehere" /\ ~Running(t) /\ LockFree
      /\ \/ state[u] = "none" /\ Go(t, <<Update(u, u, "leave", TRUE)>>, TRUE)
         \/ /\ state[u] # "none" /\ CanBuild(u, u, "leave")
            /\ Go(t, BuildAndAppend(u, u, "leave"), TRUE)
         \/ /\ state[u] # "none" /\ ~CanBuild(u, u, "leave")
            /\ Fail(t)

\* make_leave and send_leave, for a user with an invite.  That they fail is
\* ignored.
RemoteLeaveRoom(t) ==
  /\ task[t].op = "leavethere"
  /\ task' = [task EXCEPT ![t].op = "leaveanyway"]
  /\ UNCHANGED <<room, rows, lock, ops, crashes, ghosts>>

\* Then the row, without the lock.
LeaveRemotely(t) ==
  LET u == task[t].target
  IN  /\ task[t].op = "leaveanyway" /\ ~Running(t)
      /\ Go(t, <<Update(u, u, "leave", TRUE)>>, FALSE)

\* POST /forget.
ForgetRoom(t) ==
  \E u \in room.cast :
    /\ Free(t)
    /\ ops' = ops + 1
    /\ task' = [task EXCEPT ![t] =
         [Idle EXCEPT !.op = "forget", !.target = u, !.run = TRUE,
            !.todo = <<Del("userroomid_leftstate", u),
                       Del("roomuserid_leftcount", u)>>]]
    /\ loose' = loose \cup {u}
    /\ UNCHANGED <<room, rows, lock, crashes, torn, overlap, halves>>

\* POST /kick, /unban and /ban.  The member event is looked up before the lock.
KickOrUnban(t) ==
  \E sender \in room.cast, u \in room.cast \cup RemoteUsers :
    sender # u /\ state[u] # "none" /\ Arrive(t, "build", sender, u, "leave")

Ban(t) ==
  \E sender \in room.cast, u \in room.cast \cup RemoteUsers :
    sender # u /\ Arrive(t, "build", sender, u, "ban")

\* POST /invite for a local user.
InviteLocal(t) ==
  \E sender \in room.cast, u \in room.cast :
    IsJoined(sender) /\ Arrive(t, "build", sender, u, "invite")

\* The event of a kick, a ban or an invite is built under the lock.
Build(t) ==
  LET r == task[t]
  IN  /\ r.op = "build" /\ ~Running(t) /\ LockFree
      /\ \/ /\ CanBuild(r.sender, r.target, r.m)
            /\ Go(t, BuildAndAppend(r.sender, r.target, r.m), TRUE)
         \/ /\ ~CanBuild(r.sender, r.target, r.m)
            /\ Fail(t)

\* POST /invite for a remote user: the event is made under the lock, its
\* server signs it without, and it is handled as an incoming event.
InviteRemote(t) ==
  \E sender \in room.cast, u \in RemoteUsers :
    /\ lock = NoTask
    /\ Exists /\ AuthCheck(state, sender, u, "invite", FALSE)
    /\ Arrive(t, "incoming", sender, u, "invite")

-----------------------------------------------------------------------------
(* Federation routes *)

\* PUT /send_join, after make_join; restricted rooms are turned down.
CreateJoinEvent(t) ==
  \E u \in RemoteUsers :
    /\ Exists /\ room.rule # "restricted"
    /\ Arrive(t, "incoming", u, u, "join")

\* PUT /send: a member event of a remote user.
ReceiveMemberEvent(t) ==
  \E sender \in RemoteUsers, u \in room.cast \cup RemoteUsers,
     m \in Memberships \ {"none"} :
    /\ Exists
    /\ m = "join" => sender = u
    /\ Arrive(t, "send", sender, u, m)

\* The event is refused in the state it was sent for, or it is checked against
\* the current state, before the lock.  One that fails is never appended.
SoftFailCheck(t) ==
  LET r == task[t]
      ok == AuthCheck(state, r.sender, r.target, r.m, TRUE)
      checked == IF ~ok THEN [r EXCEPT !.op = "softfailed", !.m = "none", !.sender = NoTask]
                 ELSE [r EXCEPT !.op = IF r.op = "incoming" THEN "passed" ELSE "passedon"]
  IN  /\ r.op \in {"incoming", "send"}
      /\ \/ Fail(t)
         \/ /\ task' = [task EXCEPT ![t] = checked]
            /\ UNCHANGED <<room, rows, lock, ops, crashes, ghosts>>

\* Under the lock the forks are resolved and the outcome is forced.  The row of
\* an appended event is written whatever the outcome is.
Incoming(t) ==
  LET r == task[t]
  IN  /\ r.op \in {"passed", "passedon"} /\ ~Running(t) /\ LockFree
      /\ \/ Fail(t)
         \/ \E new \in Resolutions(r.target, {state[r.target], r.m}) :
            \E skip \in SUBSET MayBeIgnored(new) :
              GoLosing(t, HandleIncomingPdu(r, new, skip), TRUE,
                       ((Dropped(new) \cup skip) \ {r.target})
                       \cup (IF new[r.target] # r.m THEN {r.target} ELSE {}))

\* A soft failed event is not appended, but the outcome is forced all the same.
IncomingSoftFailed(t) ==
  LET r == task[t]
  IN  /\ r.op = "softfailed" /\ ~Running(t) /\ LockFree
      /\ \/ Fail(t)
         \/ \E new \in Resolutions(r.target, {state[r.target]}) :
            \E skip \in SUBSET MayBeIgnored(new) :
              GoLosing(t, ForceState(new, NoTask, skip), TRUE, Dropped(new) \cup skip)

\* PUT /invite.  A room we are in tells us through /send.
CreateInvite(t) ==
  \E sender \in RemoteUsers, u \in room.cast :
    /\ ~ServerInRoom(Us)
    /\ Arrive(t, "invited", sender, u, "invite")

RecordInvite(t) ==
  LET r == task[t]
  IN  /\ r.op = "invited" /\ ~Running(t)
      /\ Go(t, <<Update(r.sender, r.target, "invite", TRUE)>>, FALSE)

-----------------------------------------------------------------------------
(* One step of a running request *)

Now(t) == Head(task[t].todo)

\* A call begins: what it reads decides its rows.
Call(t) ==
  LET c == Now(t)
  IN  /\ c[1] \in {"update", "realusers"}
      /\ task' = [task EXCEPT ![t].todo =
           (IF c[1] = "update" THEN UpdateMembership(c[2], c[3], c[4], c[5])
            ELSE GetOurRealUsers) \o Tail(@)]
      /\ UNCHANGED rows

\* One round of the loop over the new member events, in the order of a hash set.
ForceEach(t) ==
  LET over == Now(t)[2]
      new == Now(t)[3]
      sender == Now(t)[4]
  IN  /\ Now(t)[1] = "force"
      /\ \/ over = {} /\ task' = [task EXCEPT ![t].todo = Tail(@)]
         \/ \E u \in over :
              task' = [task EXCEPT ![t].todo =
                << Update(sender, u, new[u], FALSE),
                   <<"force", over \ {u}, new, sender>> >> \o Tail(@)]
      /\ UNCHANGED rows

\* insert and remove of the key-value trees.
Write(t) ==
  LET w == Now(t)
  IN  /\ w[1] \in {"put", "del"}
      /\ db' = [db EXCEPT ![w[2]] = IF w[1] = "put" THEN @ \cup {w[3]}
                                    ELSE @ \ {w[3]}]
      /\ task' = [task EXCEPT ![t].todo = Tail(@)]
      /\ UNCHANGED <<state, counts, servers, cache, bridge, told, tally>>

Scan(t) ==
  /\ Now(t)[1] = "scan"
  /\ task' = [task EXCEPT ![t].todo = Tail(@), ![t].seen = RoomMembers,
                          ![t].invited = Cardinality(RoomMembersInvited)]
  /\ UNCHANGED rows

\* Then the results are written one by one: the two counts, our own members,
Store(t) ==
  LET seen == task[t].seen
      part == tally[t].part
  IN  /\ Now(t)[1] = "store"
      /\ \/ /\ part = "joined"
            /\ counts' = [counts EXCEPT !.joined = Cardinality(seen)]
            /\ tally' = [tally EXCEPT ![t].part = "invited"]
            /\ UNCHANGED cache
         \/ /\ part = "invited"
            /\ counts' = [counts EXCEPT !.invited = task[t].invited]
            /\ tally' = [tally EXCEPT ![t].part = "cache"]
            /\ UNCHANGED cache
         \/ /\ part = "cache"
            /\ cache' = seen \cap LocalUsers
            /\ tally' = [tally EXCEPT ![t].part = "list"]
            /\ UNCHANGED counts
      /\ UNCHANGED <<state, db, servers, bridge, task, told>>

\* the servers, of which the listed ones without a member go and the unlisted
\* ones come: the row by room,
Here(t) == {ServerOf(u) : u \in task[t].seen}

\* Mutant: the servers that have no member any more stay.
ListServersOnlyNew(t) ==
  /\ Now(t)[1] = "store" /\ tally[t].part = "list"
  /\ tally' = [tally EXCEPT ![t] =
       [part |-> "servers", half |-> {}, left |-> Here(t) \ RoomServers]]
  /\ UNCHANGED <<state, db, counts, servers, cache, bridge, task, told>>

ListServers(t) ==
  /\ Now(t)[1] = "store" /\ tally[t].part = "list"
  /\ tally' = [tally EXCEPT ![t] =
       [part |-> "servers", half |-> {},
        left |-> (RoomServers \ Here(t)) \cup (Here(t) \ RoomServers)]]
  /\ UNCHANGED <<state, db, counts, servers, cache, bridge, task, told>>

RowByRoom(t) ==
  LET here == Here(t)
      left == tally[t].left
  IN  /\ Now(t)[1] = "store" /\ tally[t].part = "servers" /\ tally[t].half = {}
      /\ \E s \in left :
           /\ s \in here => left \subseteq here
           /\ servers' = [servers EXCEPT !.byRoom = IF s \in here THEN @ \cup {s}
                                                    ELSE @ \ {s}]
           /\ tally' = [tally EXCEPT ![t].half = {s}]
      /\ UNCHANGED <<state, db, counts, cache, bridge, task, told>>

\* then the row by server;
RowByServer(t) ==
  LET here == Here(t)
      half == tally[t].half
  IN  /\ Now(t)[1] = "store" /\ half # {}
      /\ servers' = [servers EXCEPT !.byServer = (@ \ half) \cup (half \cap here)]
      /\ tally' = [tally EXCEPT ![t].left = @ \ half, ![t].half = {}]
      /\ halves' = halves \ half
      /\ UNCHANGED <<state, db, counts, cache, bridge, task, told>>

\* and the answer about the application service is forgotten.
Stored(t) ==
  /\ Now(t)[1] = "store" /\ tally[t].part = "servers" /\ tally[t].left = {}
  /\ bridge' = Cold
  /\ tally' = [tally EXCEPT ![t] = Fresh]
  /\ task' = [task EXCEPT ![t].todo = Tail(@), ![t].seen = {},
                          ![t].invited = 0]
  /\ UNCHANGED <<state, db, counts, servers, cache, told>>

AppserviceInRoom(t) ==
  /\ Now(t)[1] = "bridge"
  /\ bridge' = IF bridge = Cold THEN {RoomMembers \cap Bridged # {}} ELSE bridge
  /\ task' = [task EXCEPT ![t].todo = Tail(@)]
  /\ UNCHANGED <<state, db, counts, servers, cache, told, tally>>

SetRoomState(t) ==
  /\ Now(t)[1] = "state"
  /\ state' = Now(t)[2]
  /\ task' = [task EXCEPT ![t].todo = Tail(@)]
  /\ UNCHANGED <<db, counts, servers, cache, bridge, told, tally>>

\* Mutant: only the servers that are still in the room are told.
SendPduOnlyMembers(t) ==
  /\ Now(t)[1] = "send"
  /\ told' = [to |-> RoomServers \ {Us}, about |-> Now(t)[2]]
  /\ task' = [task EXCEPT ![t].todo = Tail(@)]
  /\ UNCHANGED <<state, db, counts, servers, cache, bridge, tally>>

\* The server of a user who was kicked or banned is told too.
SendPdu(t) ==
  LET u == Now(t)[2]
  IN  /\ Now(t)[1] = "send"
      /\ told' = [to |-> (RoomServers \cup (IF u = NoTask THEN {}
                                            ELSE {ServerOf(u)})) \ {Us},
                  about |-> u]
      /\ task' = [task EXCEPT ![t].todo = Tail(@)]
      /\ UNCHANGED <<state, db, counts, servers, cache, bridge, tally>>

Step(t) ==
  /\ Running(t) /\ task[t].todo # <<>>
  /\ \/ /\ \/ Call(t) \/ ForceEach(t) \/ Write(t) \/ Scan(t)
           \/ Store(t) \/ ListServers(t) \/ RowByRoom(t) \/ Stored(t)
           \/ AppserviceInRoom(t) \/ SetRoomState(t) \/ SendPdu(t)
        /\ UNCHANGED halves
     \/ RowByServer(t)
  /\ UNCHANGED <<room, lock, ops, crashes, torn, loose, overlap>>

\* The request is answered and its token dropped.
Finish(t) ==
  /\ Running(t) /\ task[t].todo = <<>>
  /\ task' = [task EXCEPT ![t] = Idle]
  /\ lock' = IF lock = t THEN NoTask ELSE lock
  /\ torn' = IF task[t].op # "forget" /\ Effective(task[t])
             THEN torn \ {task[t].target} ELSE torn
  /\ UNCHANGED <<room, rows, ops, crashes, loose, overlap, halves>>

\* The users whose rows a request writes.
Touched(t) ==
  IF task[t].op = "join" THEN Users
  ELSE {task[t].target} \cup
       (IF task[t].op \in {"passed", "passedon", "softfailed"} THEN Disputed ELSE {})

\* The process ends.  The rows stay; the caches and the requests are gone.
Crash ==
  /\ crashes < MaxCrashes
  /\ crashes' = crashes + 1
  /\ torn' = torn \cup UNION {Touched(t) : t \in {s \in Tasks : Running(s)}}
  /\ halves' = IF overlap THEN Servers
               ELSE halves \cup UNION {tally[t].half : t \in Tasks}
  /\ task' = [t \in Tasks |-> Idle] /\ tally' = [t \in Tasks |-> Fresh]
  /\ lock' = NoTask
  /\ cache' = Cold /\ bridge' = Cold
  /\ overlap' = FALSE
  /\ UNCHANGED <<room, state, db, counts, servers, told, ops, loose>>

-----------------------------------------------------------------------------

\* A room is unknown here, has our users and a remote one, or is the admin room.
Members(r) ==
  IF r.kind = "unknown" THEN {} ELSE IF r.kind = "admin" THEN r.cast
  ELSE (r.cast \cap Mods) \cup RemoteUsers

Init ==
  \E r \in Rooms :
    LET in == Members(r)
    IN  /\ room = [admin |-> r.kind = "admin", rule |-> r.rule, cast |-> r.cast]
        /\ state = [u \in Users |-> IF u \in in THEN "join" ELSE "none"]
        /\ db = [tree \in Trees |->
                   IF tree \in {"userroomid_joined", "roomuserid_joined",
                                "roomuseroncejoinedids"} THEN in
                   ELSE IF tree = "known" THEN in \cap RemoteUsers ELSE {}]
        /\ counts = [joined |-> Cardinality(in), invited |-> 0]
        /\ servers = [byRoom   |-> {ServerOf(u) : u \in in},
                      byServer |-> {ServerOf(u) : u \in in}]
        /\ cache = Cold /\ bridge = Cold
        /\ lock = NoTask
        /\ task = [t \in Tasks |-> Idle] /\ tally = [t \in Tasks |-> Fresh]
        /\ told = [to |-> {}, about |-> NoTask]
        /\ ops = 0 /\ crashes = 0
        /\ torn = {} /\ loose = {} /\ overlap = FALSE /\ halves = {}

Next ==
  \/ \E t \in Tasks :
       \/ JoinRoom(t) \/ LeaveRoom(t) \/ LeaveAllRooms(t) \/ ForgetRoom(t)
       \/ KickOrUnban(t) \/ Ban(t) \/ InviteLocal(t) \/ InviteRemote(t)
       \/ CreateJoinEvent(t) \/ ReceiveMemberEvent(t) \/ CreateInvite(t)
       \/ JoinLocally(t) \/ JoinSignedElsewhere(t) \/ JoinOverFederation(t)
       \/ LeaveChooses(t) \/ LeaveLocally(t) \/ RemoteLeaveRoom(t)
       \/ LeaveRemotely(t)
       \/ Build(t) \/ SoftFailCheck(t) \/ Incoming(t) \/ IncomingSoftFailed(t)
       \/ RecordInvite(t)
       \/ Step(t) \/ Finish(t)
  \/ Crash

Spec == Init /\ [][Next]_vars

-----------------------------------------------------------------------------
(* Properties *)

\* Every variable has its type.
TypeOK ==
  /\ room \in [admin : BOOLEAN, rule : JoinRules, cast : SUBSET LocalUsers]
  /\ state \in [Users -> Memberships]
  /\ db \in [Trees -> SUBSET Users]
  /\ counts \in [joined : Nat, invited : Nat]
  /\ servers \in [byRoom : SUBSET Servers, byServer : SUBSET Servers]
  /\ cache = Cold \/ cache \subseteq LocalUsers
  /\ bridge = Cold \/ bridge \subseteq BOOLEAN
  /\ lock \in Tasks \cup {NoTask}
  /\ told.to \subseteq Servers /\ told.about \in Users \cup {NoTask}
  /\ ops \in 0..MaxOps /\ crashes \in 0..MaxCrashes
  /\ torn \subseteq Users /\ loose \subseteq Users
  /\ overlap \in BOOLEAN /\ halves \subseteq Servers
  /\ tally \in [Tasks -> [part : {"joined", "invited", "cache", "list", "servers"},
                          left : SUBSET Servers, half : SUBSET Servers]]
  /\ \A t \in Tasks : /\ task[t].sender \in Users \cup {NoTask}
                      /\ task[t].target \in Users \cup {NoTask}
                      /\ task[t].seen \subseteq Users

AtRest == \A t \in Tasks : ~Running(t)

\* Whatever order the rows of concurrent updates are written in, with the lock
\* or without, a user ends up in at most one of the joined, invited and left
\* trees.  An update that a crash cut off is mended by the user's next one.
OneTreeAtRest ==
  AtRest => \A u \in Users \ torn :
    /\ ~(RoomsJoined(u) /\ RoomsInvited(u))
    /\ ~(RoomsJoined(u) /\ RoomsLeft(u))
    /\ ~(RoomsInvited(u) /\ RoomsLeft(u))
    /\ ~(u \in RoomMembers /\ GetInviteCount(u))
    /\ ~(u \in RoomMembers /\ GetLeftCount(u))
    /\ ~(GetInviteCount(u) /\ GetLeftCount(u))

\* Updates under the lock leave the rows of a user as the room's state has
\* them, in the tree by user and in the tree by room, except for a member whom
\* the answer to a join or a resolution left out, whose row nobody removes, an
\* event that is appended and lost against another one in the resolution, and an
\* invite of the new state that is ignored.
RowsAgreeWithState ==
  AtRest => \A u \in Users \ (torn \cup loose) :
    /\ RoomsJoined(u) <=> state[u] = "join"
    /\ u \in RoomMembers <=> state[u] = "join"
    /\ RoomsInvited(u) => state[u] = "invite"
    /\ RoomsInvited(u) <=> GetInviteCount(u)
    /\ RoomsLeft(u) <=> GetLeftCount(u)

\* The counts and the servers are those of the joined tree.
CountsAgree ==
  /\ counts.joined = Cardinality(RoomMembers)
  /\ servers.byRoom = {ServerOf(u) : u \in RoomMembers}
  /\ \A s \in Servers \ halves : s \in servers.byServer <=> s \in servers.byRoom
  /\ bridge # Cold => bridge = {RoomMembers \cap Bridged # {}}

\* Once the cache of a room is filled after a start, a crash in the middle of
\* an update has left no trace in the counts, the list of servers and the
\* application service cache, as long as no two updates overlap; only a server
\* whose two rows the crash parted keeps one of them until both change again.
CountsAgreeAtRest == AtRest /\ cache # Cold /\ ~overlap => CountsAgree

\* The servers that room_servers lists are the ones with a joined member, also
\* when updates without the lock overlap with others.
RoomServersParticipate ==
  AtRest /\ crashes = 0 => RoomServers = {ServerOf(u) : u \in RoomMembers}

\* However many requests race, the server's user stays in the admin room as long
\* as nobody on another server has power there, and the room's state keeps
\* another local user with it: unless a crash came between the rows of a join
\* and the state, after which the user who is counted as a member may be invited
\* once more.  (The row of another local user may go: an invite of a remote
\* member is checked before the lock and recorded under it.)
AdminRoomKeepsMembers ==
  room.admin /\ Mods \subseteq LocalUsers =>
    /\ Bot \in RoomMembers
    /\ crashes = 0 => Cardinality({u \in LocalUsers : state[u] = "join"}) >= 2

\* An event of ours reaches every server with a joined user and the server of
\* the user it is about, who may have left through it.
EveryServerIsTold ==
  [][told' # told =>
       /\ told'.about \in RemoteUsers => ServerOf(told'.about) \in told'.to
       /\ torn = {} /\ loose = {} /\ ~overlap =>
            {Home[u] : u \in {v \in RemoteUsers : state[v] = "join"}} \subseteq told'.to
    ]_vars

=============================================================================
