----------------------------- MODULE MCTransfer -----------------------------
(* A whole transaction, for TLC. *)
EXTENDS KermitTransfer
=============================================================================
