----------------------------- MODULE MCSending -----------------------------
(* Small instances of Sending for TLC. *)
EXTENDS Sending
=============================================================================
