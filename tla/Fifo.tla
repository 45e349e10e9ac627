-------------------------------- MODULE Fifo --------------------------------
(***************************************************************************)
(* fifo.c, called by one thread at a time, as the transmit FIFO is.  It is *)
(* no ring: read_pos stays 0, and every byte taken out shifts the rest     *)
(* down.  fifo_shift() moves one cell more than is left, so that on a full *)
(* FIFO it reads the byte after the buffer; what lies there is any byte.   *)
(***************************************************************************)
EXTENDS Integers, Sequences

CONSTANTS Size,     \* the size given to fifo_init() (4096)
          Byte,
          MaxWrite  \* bound: bytes of one fifo_write() or fifo_read()

ASSUME FifoAssumption == Size \in Nat \ {0} /\ MaxWrite \in Nat

VARIABLES p_buff, write_pos,
          got,  \* the bytes that the last call stored for its caller
          rc    \* what the last call returned

vars == <<p_buff, write_pos, got, rc>>

Smaller(a, b) == IF a < b THEN a ELSE b

Chunks == UNION {[1 .. n -> Byte] : n \in 0 .. MaxWrite}

TypeOK ==
    /\ p_buff \in [0 .. Size - 1 -> Byte]
    /\ write_pos \in 0 .. Size
    /\ got \in Seq(Byte)
    /\ rc \in {"FIFO_SUCCESS", "FIFO_EMPTY", "FIFO_FULL"}

(* fifo_init() *)
Init ==
    /\ p_buff \in [0 .. Size - 1 -> Byte]
    /\ write_pos = 0
    /\ got = <<>>
    /\ rc = "FIFO_SUCCESS"

(* Mutation of Write: the room is not looked at. *)
WriteBlindly(s) ==
    /\ p_buff' = [i \in 0 .. Size - 1 |->
                    IF i \in write_pos .. write_pos + Len(s) - 1
                    THEN s[i - write_pos + 1] ELSE p_buff[i]]
    /\ write_pos' = write_pos + Len(s)
    /\ rc' = IF write_pos = Size THEN "FIFO_FULL" ELSE "FIFO_SUCCESS"
    /\ got' = <<>>

(* fifo_write(): a loop of fifo_put() over what fits. *)
Write(s) ==
    LET n == Smaller(Len(s), Size - write_pos) IN
    /\ p_buff' = [i \in 0 .. Size - 1 |->
                    IF i \in write_pos .. write_pos + n - 1
                    THEN s[i - write_pos + 1] ELSE p_buff[i]]
    /\ write_pos' = write_pos + n
    /\ rc' = IF write_pos = Size THEN "FIFO_FULL" ELSE "FIFO_SUCCESS"
    /\ got' = <<>>

(* Mutation of Shift: it stops one cell early. *)
ShiftShort(n, after) ==
    /\ p_buff' = [i \in 0 .. Size - 1 |->
                    IF i + n < write_pos - 1 THEN p_buff[i + n] ELSE p_buff[i]]
    /\ write_pos' = write_pos - n

(* n times fifo_shift(): the cell behind the last byte comes along, which  *)
(* on a full FIFO is the byte after the buffer.                            *)
Shift(n, after) ==
    /\ p_buff' = [i \in 0 .. Size - 1 |->
                    IF n = 0 \/ i >= write_pos THEN p_buff[i]
                    ELSE LET j == Smaller(i + n, write_pos) IN
                         IF j = Size THEN after ELSE p_buff[j]]
    /\ write_pos' = write_pos - n

(* fifo_get() *)
Get ==
    \/ /\ write_pos # 0
       /\ got' = <<p_buff[0]>>
       /\ \E after \in Byte : Shift(1, after)
       /\ rc' = "FIFO_SUCCESS"
    \/ /\ write_pos = 0
       /\ got' = <<>>
       /\ rc' = "FIFO_EMPTY"
       /\ UNCHANGED <<p_buff, write_pos>>

(* fifo_read(): a loop of fifo_get(). *)
Read(n) ==
    LET m == Smaller(n, write_pos) IN
    /\ got' = [i \in 1 .. m |-> p_buff[i - 1]]
    /\ \E after \in Byte : Shift(m, after)
    /\ rc' = "FIFO_SUCCESS"

(* fifo_flush() *)
Flush ==
    /\ write_pos' = 0
    /\ got' = <<>>
    /\ rc' = "FIFO_SUCCESS"
    /\ UNCHANGED p_buff

Next ==
    \/ \E s \in Chunks : Write(s)
    \/ Get
    \/ \E n \in 0 .. MaxWrite : Read(n)
    \/ Flush

Spec == Init /\ [][Next]_vars
-----------------------------------------------------------------------------
(* The bytes that wait to be read. *)
Contents == [i \in 1 .. write_pos |-> p_buff[i - 1]]

Queue == INSTANCE BoundedQueue WITH queue <- Contents

(* fifo.c is a bounded queue: nothing is lost, repeated or reordered, a    *)
(* write that does not fit is cut at its end, and the byte that            *)
(* fifo_shift() reads from behind the buffer never reaches a caller.       *)
IsQueue == Queue!Spec
=============================================================================
