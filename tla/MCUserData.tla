----------------------------- MODULE MCUserData -----------------------------
EXTENDS UserData, TLC
MCSlots == {<<"room1", "ab">>, <<"room1", "abc">>, <<"room2", "ab">>}
MCLonger == {<< <<"room1", "ab">>, <<"room1", "abc">> >>}
RequestSymmetry == Permutations(Requests)
=============================================================================
