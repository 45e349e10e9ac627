----------------------------- MODULE KermitLink -----------------------------
(***************************************************************************)
(* Packets exchanged by the two Kermits and the byte pipe between them.    *)
(*                                                                         *)
(* c2s carries packets from the SLATE (the Kermit client) to the Raspberry *)
(* Pi (the Kermit server), s2c the other way.  The pipe is the pair of     *)
(* MLDP characteristics: in each direction it keeps the order, but a       *)
(* packet may be cut or spoilt on its way: txd gives up a chunk after      *)
(* three refusals, the receive FIFO drops what does not fit, and kreadpkt  *)
(* throws away a packet when its timeout strikes in the middle of it.      *)
(* A packet in a queue may still be in flight, so a reader may time out    *)
(* although the queue is not empty.                                        *)
(***************************************************************************)
EXTENDS Integers, Sequences

CONSTANTS SeqMod,   \* sequence numbers are taken modulo SeqMod (64 in kermit.c)
          NChunks,  \* number of data packets that the served file fills
          Retry     \* k->retry (P_RETRY)

ASSUME LinkAssumption ==
    /\ SeqMod \in Nat /\ SeqMod > 2
    /\ NChunks \in Nat
    /\ Retry \in Nat

VARIABLES c2s, s2c

SeqNo == 0 .. SeqMod - 1

(* What the code tells apart in a data field.  A D packet of a GET carries *)
(* the number of its chunk of the file, 1 .. NChunks.                      *)
NoText      == 0     \* empty, or text nobody looks at
CancelText  == -1    \* an ACK whose data begins with X or Z
ParamsAttr  == -2    \* S or its ACK, attribute packets offered
ParamsPlain == -3    \* S or its ACK, no attribute packets
Listing     == -4    \* the directory listing
OtherText   == -5    \* a generic command other than D

Data == -5 .. NChunks

(* BAD is a packet whose block check does not match, SHORT one of which    *)
(* fewer than four characters arrived.                                     *)
PacketTypes == {"S", "F", "A", "D", "Z", "B", "X", "Y", "N", "E", "R", "G",
                "BAD", "SHORT"}

Packet == [typ : PacketTypes, seq : SeqNo, dat : Data]

Pkt(typ, seq, dat) == [typ |-> typ, seq |-> seq, dat |-> dat]

(* Mutation of NextSeq: no wraparound. *)
NextSeqNoWrap(n) == n + 1

(* nxtpkt(): the next sequence number. *)
NextSeq(n) == (n + 1) % SeqMod

LinkTypeOK ==
    /\ c2s \in Seq(Packet)
    /\ s2c \in Seq(Packet)

LinkInit ==
    /\ c2s = <<>>
    /\ s2c = <<>>

-----------------------------------------------------------------------------
(* What the pipe does to the packet that is next to be read. *)

Spoilt(q, typ) == [q EXCEPT ![1] = Pkt(typ, q[1].seq, NoText)]

LoseC2S == c2s # <<>> /\ c2s' = Tail(c2s) /\ UNCHANGED s2c

LoseS2C == s2c # <<>> /\ s2c' = Tail(s2c) /\ UNCHANGED c2s

SpoilC2S ==
    /\ c2s # <<>>
    /\ c2s[1].typ \notin {"BAD", "SHORT"}
    /\ \E t \in {"BAD", "SHORT"} : c2s' = Spoilt(c2s, t)
    /\ UNCHANGED s2c

SpoilS2C ==
    /\ s2c # <<>>
    /\ s2c[1].typ \notin {"BAD", "SHORT"}
    /\ \E t \in {"BAD", "SHORT"} : s2c' = Spoilt(s2c, t)
    /\ UNCHANGED c2s

LinkNext == LoseC2S \/ LoseS2C \/ SpoilC2S \/ SpoilS2C
=============================================================================
