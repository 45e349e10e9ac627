---------------------------- MODULE MCRxFifoRace ----------------------------
(* The receive FIFO and its two threads, for TLC. *)
EXTENDS RxFifoRace
=============================================================================
