-------------------------- MODULE MCServerAnyPeer --------------------------
(* The server against any peer, for TLC. *)
EXTENDS KermitServerEnv
=============================================================================
