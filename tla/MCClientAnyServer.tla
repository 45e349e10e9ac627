------------------------- MODULE MCClientAnyServer -------------------------
(* The client against any server, for TLC. *)
EXTENDS KermitClientEnv
=============================================================================
