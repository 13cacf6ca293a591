----------------------------- MODULE MCTokenSet -----------------------------
(* Small instances of TokenSet for TLC. *)
EXTENDS TokenSet
=============================================================================
