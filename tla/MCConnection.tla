---------------------------- MODULE MCConnection ----------------------------
(* The connection state machine, for TLC. *)
EXTENDS Connection
=============================================================================
