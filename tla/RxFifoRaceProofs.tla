-------------------------- MODULE RxFifoRaceProofs --------------------------
(***************************************************************************)
(* The two threads of the receive FIFO take no lock, and yet neither       *)
(* leaves the buffer, for every size and every interleaving.               *)
(***************************************************************************)
EXTENDS RxFifoRace, TLAPS

(* Why: each thread acts on a check of write_pos that the other thread may *)
(* outdate, but never in the direction that hurts.  A fifo_put() past its  *)
(* check has room, because the other thread only lowers write_pos or sets  *)
(* it to less than Size; a fifo_get() past its check sees a byte, because  *)
(* the other thread sets write_pos to at least 1.                          *)
RoomToPut ==
    /\ put \in {"index", "store", "load", "inc"} => write_pos < Size
    /\ put \in {"store", "inc"} => at < Size

ByteToGet ==
    /\ get \in {"head", "len", "move", "set"} => write_pos > 0
    /\ get = "dec" => wp > 0

Turns ==
    /\ put # "idle" => left > 0
    /\ left <= sent
    /\ get = "move" => i <= len
    /\ get = "set" => i < len

RaceInv == TypeOK /\ RoomToPut /\ ByteToGet /\ Turns

LEMMA RaceInit == Init => RaceInv
BY RaceAssumption DEF Init, RaceInv, TypeOK, RoomToPut, ByteToGet, Turns, Bytes

(* A step of the main thread *)
LEMMA RaceMain == RaceInv /\ Main => RaceInv'
<1> SUFFICES ASSUME RaceInv, Main PROVE RaceInv'
  OBVIOUS
<1> USE RaceAssumption DEF RaceInv, TypeOK, RoomToPut, ByteToGet, Turns, Bytes, getVars
<1>1. CASE Arrive
  BY <1>1 DEF Arrive
<1>2. CASE PutCheck
  BY <1>2 DEF PutCheck, NextPut
<1>3. CASE PutIndex
  BY <1>3 DEF PutIndex
<1>4. CASE PutStore
  BY <1>4 DEF PutStore
<1>5. CASE PutLoad
  BY <1>5 DEF PutLoad
<1>6. CASE PutInc
  BY <1>6 DEF PutInc, NextPut
<1> QED
  BY <1>1, <1>2, <1>3, <1>4, <1>5, <1>6 DEF Main

(* A step of the file transfer thread *)
LEMMA RaceFileTransfer == RaceInv /\ FileTransfer => RaceInv'
<1> SUFFICES ASSUME RaceInv, FileTransfer PROVE RaceInv'
  OBVIOUS
<1> USE RaceAssumption DEF RaceInv, TypeOK, RoomToPut, ByteToGet, Turns, Bytes, putVars
<1>1. CASE GetCheck
  BY <1>1 DEF GetCheck
<1>2. CASE GetHead
  BY <1>2 DEF GetHead
<1>3. CASE ShiftLen
  BY <1>3 DEF ShiftLen
<1>4. CASE ShiftLoad
  BY <1>4 DEF ShiftLoad
<1>5. CASE ShiftStore
  BY <1>5 DEF ShiftStore
<1>6. CASE ShiftEnd
  BY <1>6 DEF ShiftEnd
<1>7. CASE GetDec
  BY <1>7 DEF GetDec
<1> QED
  BY <1>1, <1>2, <1>3, <1>4, <1>5, <1>6, <1>7 DEF FileTransfer

(* However the loads and stores of fifo_write() and fifo_get() interleave, *)
(* no thread stores outside p_buff and write_pos stays within it, for      *)
(* every size of the FIFO and every length of a write.                     *)
THEOREM RaceInBounds == Spec => []InBounds
<1>1. RaceInv /\ UNCHANGED vars => RaceInv'
  BY DEF RaceInv, TypeOK, RoomToPut, ByteToGet, Turns, vars, putVars, getVars
<1>2. RaceInv /\ [Next]_vars => RaceInv'
  BY <1>1, RaceMain, RaceFileTransfer DEF Next
<1>3. RaceInv => InBounds
  BY RaceAssumption DEF RaceInv, InBounds, TypeOK, RoomToPut, Turns
<1> QED
  BY RaceInit, <1>2, <1>3, PTL DEF Spec
=============================================================================
