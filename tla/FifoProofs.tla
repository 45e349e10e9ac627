----------------------------- MODULE FifoProofs -----------------------------
(***************************************************************************)
(* fifo.c implements the bounded queue, for every size, every set of bytes *)
(* and every length of a read or a write.                                  *)
(***************************************************************************)
EXTENDS Fifo, TLAPS

(* fifo_shift(), n times, keeps the buffer a buffer of bytes. *)
LEMMA ShiftType ==
  ASSUME TypeOK, NEW n \in 0 .. write_pos, NEW after \in Byte, Shift(n, after)
  PROVE  p_buff' \in [0 .. Size - 1 -> Byte] /\ write_pos' \in 0 .. Size
BY FifoAssumption DEF TypeOK, Shift, Smaller

(* The type invariant is inductive as it stands: write_pos never leaves    *)
(* 0 .. Size, so fifo_put() stores inside the buffer.                      *)
THEOREM FifoTypeOK == Spec => []TypeOK
<1>1. Init => TypeOK
  BY FifoAssumption DEF Init, TypeOK
<1>2. TypeOK /\ [Next]_vars => TypeOK'
  <2> SUFFICES ASSUME TypeOK, [Next]_vars PROVE TypeOK'
    OBVIOUS
  <2> USE FifoAssumption DEF TypeOK
  <2>1. ASSUME NEW s \in Chunks, Write(s) PROVE TypeOK'
    <3>1. PICK n \in 0 .. MaxWrite : s \in [1 .. n -> Byte]
      BY <2>1 DEF Chunks
    <3>2. Len(s) = n
      BY <3>1
    <3>3. \A i \in 1 .. n : s[i] \in Byte
      BY <3>1
    <3> QED
      BY <2>1, <3>1, <3>2, <3>3 DEF Write, Smaller
  <2>2. CASE Get
    <3>1. CASE write_pos # 0 /\ got' = <<p_buff[0]>>
      <4>1. PICK after \in Byte : Shift(1, after)
        BY <2>2, <3>1 DEF Get
      <4>2. p_buff' \in [0 .. Size - 1 -> Byte] /\ write_pos' \in 0 .. Size
        BY <3>1, <4>1, ShiftType
      <4>3. got' \in Seq(Byte)
        BY <3>1
      <4> QED
        BY <2>2, <3>1, <4>2, <4>3 DEF Get
    <3>2. CASE write_pos = 0
      BY <2>2, <3>2 DEF Get
    <3> QED
      BY <2>2, <3>1, <3>2 DEF Get
  <2>3. ASSUME NEW n \in 0 .. MaxWrite, Read(n) PROVE TypeOK'
    <3> DEFINE m == Smaller(n, write_pos)
    <3>1. m \in 0 .. Size /\ m <= write_pos
      BY <2>3 DEF Smaller
    <3>2. got' = [i \in 1 .. m |-> p_buff[i - 1]]
      BY <2>3 DEF Read
    <3>3. \A i \in 1 .. m : p_buff[i - 1] \in Byte
      BY <3>1
    <3>4. got' \in Seq(Byte)
      <4> HIDE DEF m
      <4>1. got' \in [1 .. m -> Byte]
        BY <3>2, <3>3
      <4> QED
        BY <3>1, <4>1
    <3>5. p_buff' \in [0 .. Size - 1 -> Byte] /\ write_pos' \in 0 .. Size
      <4>1. PICK after \in Byte : Shift(m, after)
        BY <2>3 DEF Read
      <4> HIDE DEF m
      <4> QED
        BY <3>1, <4>1, ShiftType
    <3> QED
      BY <2>3, <3>4, <3>5 DEF Read
  <2>4. CASE Flush
    BY <2>4 DEF Flush
  <2>5. CASE UNCHANGED vars
    BY <2>5 DEF vars
  <2> QED
    BY <2>1, <2>2, <2>3, <2>4, <2>5 DEF Next
<1> QED
  BY <1>1, <1>2, PTL DEF Spec
-----------------------------------------------------------------------------
(* The refinement mapping yields a sequence of write_pos bytes. *)
LEMMA ContentsSeq ==
  ASSUME TypeOK
  PROVE  /\ Contents \in Seq(Byte)
         /\ Len(Contents) = write_pos
         /\ \A i \in 1 .. write_pos : Contents[i] = p_buff[i - 1]
<1>1. \A i \in 1 .. write_pos : p_buff[i - 1] \in Byte
  BY FifoAssumption DEF TypeOK
<1>2. Contents \in [1 .. write_pos -> Byte]
  BY <1>1 DEF Contents
<1> QED
  BY <1>2 DEF TypeOK, Contents

(* Shifting takes bytes away at the front and keeps the others in order. *)
LEMMA ShiftContents ==
  ASSUME TypeOK, NEW n \in 0 .. write_pos, NEW after \in Byte, Shift(n, after)
  PROVE  Contents' = SubSeq(Contents, n + 1, Len(Contents))
<1> USE FifoAssumption
<1>1. Len(Contents) = write_pos /\ \A i \in 1 .. write_pos : Contents[i] = p_buff[i - 1]
  BY ContentsSeq
<1>2. write_pos' = write_pos - n /\ write_pos \in 0 .. Size /\ n \in 0 .. Size
  BY DEF Shift, TypeOK
<1>3. \A i \in 1 .. write_pos - n : p_buff'[i - 1] = p_buff[i + n - 1]
  BY <1>2 DEF Shift, Smaller, TypeOK
<1>4. Contents' = [i \in 1 .. write_pos - n |-> Contents[i + n]]
  BY <1>1, <1>2, <1>3 DEF Contents
<1>5. SubSeq(Contents, n + 1, Len(Contents)) = [i \in 1 .. write_pos - n |-> Contents[i + n]]
  <2> DEFINE c == Contents
  <2>1. c \in Seq(Byte) /\ Len(c) = write_pos
    BY ContentsSeq
  <2> HIDE DEF c
  <2>2. SubSeq(c, n + 1, Len(c)) = [i \in 1 .. write_pos - n |-> c[i + n]]
    BY <2>1, <1>2
  <2> QED
    BY <2>2 DEF c
<1> QED
  BY <1>4, <1>5

(* What fifo_write() accepts comes behind what was there. *)
LEMMA WriteContents ==
  ASSUME TypeOK, NEW s \in Chunks, Write(s)
  PROVE  Contents' = Contents \o SubSeq(s, 1, Smaller(Len(s), Size - write_pos))
<1> USE FifoAssumption
<1> DEFINE n == Smaller(Len(s), Size - write_pos)
           t == SubSeq(s, 1, n)
<1>1. PICK l \in 0 .. MaxWrite : s \in [1 .. l -> Byte]
  BY DEF Chunks
<1>2. s \in Seq(Byte) /\ Len(s) = l
  BY <1>1
<1>3. n \in 0 .. l /\ write_pos + n \in 0 .. Size /\ write_pos \in 0 .. Size
  BY <1>2 DEF TypeOK, Smaller
<1>4. p_buff' = [i \in 0 .. Size - 1 |->
                   IF i \in write_pos .. write_pos + n - 1
                   THEN s[i - write_pos + 1] ELSE p_buff[i]]
      /\ write_pos' = write_pos + n
  BY DEF Write
<1> HIDE DEF n
<1>5. t \in Seq(Byte) /\ Len(t) = n /\ \A i \in 1 .. n : t[i] = s[i]
  BY <1>2, <1>3
<1> HIDE DEF t
<1>6. Contents \in Seq(Byte) /\ Len(Contents) = write_pos
      /\ \A i \in 1 .. write_pos : Contents[i] = p_buff[i - 1]
  BY ContentsSeq
<1>7. Contents' = [i \in 1 .. write_pos + n |->
                     IF i <= write_pos THEN Contents[i] ELSE t[i - write_pos]]
  <2>1. \A i \in 1 .. write_pos + n :
          p_buff'[i - 1] = IF i <= write_pos THEN p_buff[i - 1] ELSE s[i - write_pos]
    BY <1>3, <1>4
  <2>2. \A i \in 1 .. write_pos + n :
          p_buff'[i - 1] = IF i <= write_pos THEN Contents[i] ELSE t[i - write_pos]
    BY <2>1, <1>3, <1>5, <1>6
  <2>3. Contents' = [i \in 1 .. write_pos + n |-> p_buff'[i - 1]]
    BY <1>4 DEF Contents
  <2> QED
    BY <2>2, <2>3
<1>8. Contents \o t = [i \in 1 .. write_pos + n |->
                         IF i <= write_pos THEN Contents[i] ELSE t[i - write_pos]]
  <2> DEFINE c == Contents
  <2>1. c \in Seq(Byte) /\ Len(c) = write_pos
    BY <1>6
  <2> HIDE DEF c
  <2>2. c \o t = [i \in 1 .. write_pos + n |->
                    IF i <= write_pos THEN c[i] ELSE t[i - write_pos]]
    <3> DEFINE d == c \o t
    <3>1. d \in Seq(Byte) /\ Len(d) = write_pos + n
      BY <2>1, <1>3, <1>5
    <3>2. \A i \in 1 .. write_pos + n :
             d[i] = IF i <= write_pos THEN c[i] ELSE t[i - write_pos]
      BY <2>1, <1>3, <1>5
    <3> HIDE DEF d
    <3>3. d = [i \in 1 .. write_pos + n |-> d[i]]
      BY <3>1
    <3> QED
      BY <3>2, <3>3 DEF d
  <2> QED
    BY <2>2 DEF c
<1> QED
  BY <1>7, <1>8 DEF t, n
-----------------------------------------------------------------------------
(* fifo.c implements the bounded queue: its initial state is an empty      *)
(* queue, and each call is the call of the same name on the queue.         *)
THEOREM FifoIsQueue == Spec => IsQueue
<1> USE FifoAssumption
<1>1. Init => Queue!Init
  <2> SUFFICES ASSUME Init PROVE Queue!Init
    OBVIOUS
  <2>1. Contents = <<>>
    BY DEF Init, Contents
  <2> QED
    BY <2>1 DEF Init, Queue!Init
<1>2. TypeOK /\ [Next]_vars => [Queue!Next]_<<Contents, got, rc>>
  <2> SUFFICES ASSUME TypeOK, [Next]_vars
               PROVE  Queue!Next \/ UNCHANGED <<Contents, got, rc>>
    OBVIOUS
  <2>0. /\ Contents \in Seq(Byte) /\ Len(Contents) = write_pos
        /\ \A i \in 1 .. write_pos : Contents[i] = p_buff[i - 1]
        /\ write_pos \in 0 .. Size
    BY ContentsSeq DEF TypeOK
  <2>1. ASSUME NEW s \in Chunks, Write(s) PROVE Queue!Next
    <3>1. Contents' = Contents \o SubSeq(s, 1, Smaller(Len(s), Size - Len(Contents)))
      BY <2>0, <2>1, WriteContents
    <3>2. rc' = (IF Len(Contents) = Size THEN "FIFO_FULL" ELSE "FIFO_SUCCESS")
          /\ got' = <<>>
      BY <2>0, <2>1 DEF Write
    <3>3. s \in Queue!Chunks
      BY DEF Chunks, Queue!Chunks
    <3>4. Queue!Write(s)
      BY <3>1, <3>2 DEF Queue!Write, Queue!Smaller, Smaller
    <3> QED
      BY <3>3, <3>4 DEF Queue!Next
  <2>2. CASE Get
    <3>1. CASE write_pos # 0 /\ got' = <<p_buff[0]>> /\ rc' = "FIFO_SUCCESS"
      <4>1. PICK after \in Byte : Shift(1, after)
        BY <2>2, <3>1 DEF Get
      <4>2. Contents' = SubSeq(Contents, 2, Len(Contents))
        BY <2>0, <3>1, <4>1, ShiftContents
      <4>3. Contents # <<>> /\ Head(Contents) = p_buff[0]
            /\ Tail(Contents) = SubSeq(Contents, 2, Len(Contents))
        <5> DEFINE c == Contents
        <5>1. c \in Seq(Byte) /\ Len(c) > 0 /\ c[1] = p_buff[0]
          BY <2>0, <3>1
        <5> HIDE DEF c
        <5>2. c # <<>> /\ Head(c) = p_buff[0] /\ Tail(c) = SubSeq(c, 2, Len(c))
          BY <5>1
        <5> QED
          BY <5>2 DEF c
      <4>4. Queue!Get
        BY <3>1, <4>2, <4>3 DEF Queue!Get
      <4> QED
        BY <4>4 DEF Queue!Next
    <3>2. CASE write_pos = 0 /\ got' = <<>> /\ rc' = "FIFO_EMPTY"
               /\ UNCHANGED <<p_buff, write_pos>>
      <4>1. Contents = <<>> /\ Contents' = Contents
        BY <3>2 DEF Contents
      <4> QED
        BY <3>2, <4>1 DEF Queue!Get, Queue!Next
    <3> QED
      BY <2>2, <3>1, <3>2 DEF Get
  <2>3. ASSUME NEW n \in 0 .. MaxWrite, Read(n) PROVE Queue!Next
    <3> DEFINE m == Smaller(n, write_pos)
    <3>1. m \in 0 .. write_pos /\ m = Queue!Smaller(n, Len(Contents))
      BY <2>0 DEF Smaller, Queue!Smaller
    <3>2. got' = [i \in 1 .. m |-> p_buff[i - 1]] /\ rc' = "FIFO_SUCCESS"
      BY <2>3 DEF Read
    <3>3. PICK after \in Byte : Shift(m, after)
      BY <2>3 DEF Read
    <3> HIDE DEF m
    <3>4. Contents' = SubSeq(Contents, m + 1, Len(Contents))
      BY <3>1, <3>3, ShiftContents
    <3>5. got' = SubSeq(Contents, 1, m)
      <4>1. got' = [i \in 1 .. m |-> Contents[i]]
        BY <2>0, <3>1, <3>2
      <4> DEFINE c == Contents
      <4>2. c \in Seq(Byte) /\ m \in 0 .. Len(c)
        BY <2>0, <3>1
      <4> HIDE DEF c
      <4>3. SubSeq(c, 1, m) = [i \in 1 .. m |-> c[i]]
        BY <4>2
      <4> QED
        BY <4>1, <4>3 DEF c
    <3>6. Queue!Read(n)
      BY <3>1, <3>2, <3>4, <3>5 DEF Queue!Read
    <3> QED
      BY <3>6 DEF Queue!Next
  <2>4. CASE Flush
    <3>1. Contents' = <<>>
      BY <2>4 DEF Flush, Contents
    <3> QED
      BY <2>4, <3>1 DEF Flush, Queue!Flush, Queue!Next
  <2>5. CASE UNCHANGED vars
    BY <2>5 DEF vars, Contents
  <2> QED
    BY <2>1, <2>2, <2>3, <2>4, <2>5 DEF Next
<1> QED
  BY <1>1, <1>2, FifoTypeOK, PTL DEF Spec, IsQueue, Queue!Spec
=============================================================================
