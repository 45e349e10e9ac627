----------------------------- MODULE RxFifoRace -----------------------------
(***************************************************************************)
(* The receive FIFO with its two threads and no lock between them: the     *)
(* main thread writes what the SLATE sent                                  *)
(* (server_mldp_data_char_write_cb -> fifo_write) while the file transfer  *)
(* thread takes bytes out (kreadpkt -> ble_mldp_get_byte -> fifo_get).     *)
(* One step is one load or store of a shared location.  Bytes are numbered *)
(* in the order in which the SLATE sends them.                             *)
(***************************************************************************)
EXTENDS Integers, SequencesExt

CONSTANTS Size,      \* MLDP_RX_BUFF_SIZE
          MaxBytes,  \* bound: bytes that the SLATE sends
          MaxChunk   \* bytes of one write of the characteristic

ASSUME RaceAssumption == Size \in Nat \ {0} /\ MaxBytes \in Nat /\ MaxChunk \in Nat \ {0}

VARIABLES
    p_buff, write_pos,  \* the FIFO; read_pos is always 0
    put,                \* main thread: its next step in fifo_write()
    sent,               \* number of the last byte that arrived
    left,               \* bytes that fifo_write() has still to put
    at,                 \* write_pos as the main thread loaded it
    accepted,           \* bytes that fifo_put() has taken
    get,                \* file transfer thread: its next step in fifo_get()
    i, len, tmp,        \* readpos, len and tmp of fifo_shift()
    byte,               \* the byte for the caller
    wp,                 \* write_pos as the file transfer thread loaded it
    got                 \* bytes that fifo_get() has returned

putVars == <<put, sent, left, at, accepted>>
getVars == <<get, i, len, tmp, byte, wp, got>>
vars    == <<p_buff, write_pos, putVars, getVars>>

Bytes == 0 .. MaxBytes       \* 0: whatever the memory held

TypeOK ==
    /\ p_buff \in [0 .. Size - 1 -> Bytes]
    /\ write_pos \in 0 .. Size
    /\ put \in {"idle", "check", "index", "store", "load", "inc"}
    /\ sent \in 0 .. MaxBytes /\ left \in 0 .. MaxChunk
    /\ at \in 0 .. Size
    /\ accepted \in Seq(Bytes)
    /\ get \in {"idle", "head", "len", "move", "set", "load", "dec"}
    /\ i \in 0 .. Size /\ len \in 0 .. Size
    /\ tmp \in Bytes /\ byte \in Bytes
    /\ wp \in 0 .. Size
    /\ got \in Seq(Bytes)

Init ==
    /\ p_buff = [n \in 0 .. Size - 1 |-> 0] /\ write_pos = 0
    /\ put = "idle" /\ sent = 0 /\ left = 0 /\ at = 0 /\ accepted = <<>>
    /\ get = "idle" /\ i = 0 /\ len = 0 /\ tmp = 0 /\ byte = 0 /\ wp = 0
    /\ got = <<>>
-----------------------------------------------------------------------------
(* Main thread. *)

(* fifo_write(): what does not fit now is dropped, silently for the SLATE. *)
Arrive ==
    /\ put = "idle"
    /\ \E n \in 1 .. MaxChunk :
          /\ sent + n <= MaxBytes
          /\ left' = IF n < Size - write_pos THEN n ELSE Size - write_pos
          /\ sent' = sent + left'
          /\ put' = IF left' = 0 THEN "idle" ELSE "check"
    /\ UNCHANGED <<p_buff, write_pos, at, accepted, getVars>>

NextPut == put' = IF left' = 0 THEN "idle" ELSE "check"

(* fifo_put(): is there room? *)
PutCheck ==
    /\ put = "check"
    /\ IF write_pos <= Size - 1
       THEN put' = "index" /\ UNCHANGED left
       ELSE left' = left - 1 /\ NextPut
    /\ UNCHANGED <<p_buff, write_pos, sent, at, accepted, getVars>>

PutIndex ==
    /\ put = "index"
    /\ at' = write_pos
    /\ put' = "store"
    /\ UNCHANGED <<p_buff, write_pos, sent, left, accepted, getVars>>

PutStore ==
    /\ put = "store"
    /\ p_buff' = [p_buff EXCEPT ![at] = sent - left + 1]
    /\ accepted' = Append(accepted, sent - left + 1)
    /\ put' = "load"
    /\ UNCHANGED <<write_pos, sent, left, at, getVars>>

PutLoad ==
    /\ put = "load"
    /\ at' = write_pos
    /\ put' = "inc"
    /\ UNCHANGED <<p_buff, write_pos, sent, left, accepted, getVars>>

PutInc ==
    /\ put = "inc"
    /\ write_pos' = at + 1
    /\ left' = left - 1
    /\ NextPut
    /\ UNCHANGED <<p_buff, sent, at, accepted, getVars>>
-----------------------------------------------------------------------------
(* File transfer thread: fifo_get() and fifo_shift(). *)

GetCheck ==
    /\ get = "idle" /\ write_pos # 0
    /\ get' = "head"
    /\ UNCHANGED <<p_buff, write_pos, putVars, i, len, tmp, byte, wp, got>>

GetHead ==
    /\ get = "head"
    /\ byte' = p_buff[0]
    /\ get' = "len"
    /\ UNCHANGED <<p_buff, write_pos, putVars, i, len, tmp, wp, got>>

ShiftLen ==
    /\ get = "len"
    /\ len' = write_pos /\ i' = 0
    /\ get' = "move"
    /\ UNCHANGED <<p_buff, write_pos, putVars, tmp, byte, wp, got>>

(* Mutation of ShiftLoad: one turn too many. *)
ShiftLoadTooFar ==
    /\ get = "move" /\ i <= len
    /\ tmp' \in IF i + 1 < Size THEN {p_buff[i + 1]} ELSE Bytes
    /\ get' = "set"
    /\ UNCHANGED <<p_buff, write_pos, putVars, i, len, byte, wp, got>>

(* The cell after the buffer holds any byte. *)
ShiftLoad ==
    /\ get = "move" /\ i < len
    /\ tmp' \in IF i + 1 < Size THEN {p_buff[i + 1]} ELSE Bytes
    /\ get' = "set"
    /\ UNCHANGED <<p_buff, write_pos, putVars, i, len, byte, wp, got>>

ShiftStore ==
    /\ get = "set"
    /\ p_buff' = [p_buff EXCEPT ![i] = tmp]
    /\ i' = i + 1
    /\ get' = "move"
    /\ UNCHANGED <<write_pos, putVars, len, tmp, byte, wp, got>>

ShiftEnd ==
    /\ get = "move" /\ i >= len
    /\ wp' = write_pos
    /\ get' = "dec"
    /\ UNCHANGED <<p_buff, write_pos, putVars, i, len, tmp, byte, got>>

GetDec ==
    /\ get = "dec"
    /\ write_pos' = wp - 1
    /\ got' = Append(got, byte)
    /\ get' = "idle"
    /\ UNCHANGED <<p_buff, putVars, i, len, tmp, byte, wp>>

Main == Arrive \/ PutCheck \/ PutIndex \/ PutStore \/ PutLoad \/ PutInc

FileTransfer ==
    GetCheck \/ GetHead \/ ShiftLen \/ ShiftLoad \/ ShiftStore \/ ShiftEnd \/ GetDec

Next == Main \/ FileTransfer
Spec == Init /\ [][Next]_vars
-----------------------------------------------------------------------------
(* However the two threads interleave, neither stores outside the buffer,  *)
(* and write_pos stays within it.                                          *)
InBounds ==
    /\ TypeOK
    /\ put = "store" => at < Size
    /\ get = "set" => i < Size

(* "mutex -- used to properly manage data access by each thread": kreadpkt *)
(* gets the bytes that were accepted, in their order.                      *)
BytesInOrder == IsPrefix(got, accepted)
=============================================================================
