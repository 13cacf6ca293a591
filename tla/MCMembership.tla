---------------------------- MODULE MCMembership ----------------------------
EXTENDS Membership, TLC

CONSTANTS bot, alice, bob, mallory, far

HomeOfMallory == mallory :> far
BobIgnoresMallory == {<<bob, mallory>>}

\* The server's own user takes part in the admin room only.
RestrictedRoom == [kind |-> "shared", rule |-> "restricted", cast |-> {alice, bob}]
UnknownRoom == [kind |-> "unknown", rule |-> "public", cast |-> {alice}]
AdminRoom == [kind |-> "admin", rule |-> "invite", cast |-> {bot, alice, bob}]
AllRooms == {RestrictedRoom, UnknownRoom, AdminRoom}
OnlyUnknown == {UnknownRoom}
Symmetry == Permutations(Tasks)
=============================================================================
