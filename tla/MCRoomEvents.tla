---------------------------- MODULE MCRoomEvents ----------------------------
EXTENDS RoomEvents, TLC

CONSTANTS r0, r1, r2, l1, l2

\* Each remote event follows the one before, the first one follows Root.
Chain == r0 :> {Root} @@ r1 :> {r0} @@ r2 :> {r1}

\* r1 follows Root and r0, which is older than the first event here.
OldChain == r0 :> {} @@ r1 :> {Root, r0} @@ r2 :> {r1}

\* A chain of two remote events.
ShortChain == r1 :> {Root} @@ r2 :> {r1}

\* The local state event l1 bans the sender of r2.
BanOfR2 == {<<l1, r2>>}

\* All events are later than the first one; the last two were sent at one time.
Times == [e \in Events |-> IF e = Root THEN 0 ELSE IF e = r0 THEN 1 ELSE 2]

\* r0 is older than the first event.
OldTimes == [e \in Events |-> IF e = r0 THEN 0 ELSE 1]

\* r1 is as old as the first event, r0, which r1 follows, is later.
EqualTimes == [e \in Events |-> IF e \in {Root, r1} THEN 0 ELSE 1]

Symmetry == Permutations(Tasks)
=============================================================================
