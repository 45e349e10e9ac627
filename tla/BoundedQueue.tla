---------------------------- MODULE BoundedQueue ----------------------------
(***************************************************************************)
(* What fifo.c promises to its callers: a queue of at most Size bytes that *)
(* accepts as much of a write as there is room for, and hands bytes out in *)
(* the order in which it accepted them.                                    *)
(***************************************************************************)
EXTENDS Integers, Sequences

CONSTANTS Size,     \* room of the queue
          Byte,     \* what is put into it
          MaxWrite  \* bound: bytes of one write, and of one read

VARIABLES queue, got, rc

Smaller(a, b) == IF a < b THEN a ELSE b

Chunks == UNION {[1 .. n -> Byte] : n \in 0 .. MaxWrite}

Init == queue = <<>> /\ got = <<>> /\ rc = "FIFO_SUCCESS"

Write(s) ==
    /\ queue' = queue \o SubSeq(s, 1, Smaller(Len(s), Size - Len(queue)))
    /\ rc' = IF Len(queue) = Size THEN "FIFO_FULL" ELSE "FIFO_SUCCESS"
    /\ got' = <<>>

Get ==
    \/ /\ queue # <<>>
       /\ got' = <<Head(queue)>> /\ queue' = Tail(queue)
       /\ rc' = "FIFO_SUCCESS"
    \/ /\ queue = <<>>
       /\ got' = <<>> /\ UNCHANGED queue
       /\ rc' = "FIFO_EMPTY"

Read(n) ==
    LET m == Smaller(n, Len(queue)) IN
    /\ got' = SubSeq(queue, 1, m)
    /\ queue' = SubSeq(queue, m + 1, Len(queue))
    /\ rc' = "FIFO_SUCCESS"

Flush == queue' = <<>> /\ got' = <<>> /\ rc' = "FIFO_SUCCESS"

Next ==
    \/ \E s \in Chunks : Write(s)
    \/ Get
    \/ \E n \in 0 .. MaxWrite : Read(n)
    \/ Flush

Spec == Init /\ [][Next]_<<queue, got, rc>>
=============================================================================
