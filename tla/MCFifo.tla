------------------------------- MODULE MCFifo -------------------------------
(* fifo.c used by one thread, for TLC. *)
EXTENDS Fifo
=============================================================================
