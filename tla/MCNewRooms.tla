----------------------------- MODULE MCNewRooms -----------------------------
EXTENDS NewRooms

=============================================================================
