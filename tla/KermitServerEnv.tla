-------------------------- MODULE KermitServerEnv --------------------------
(***************************************************************************)
(* The server against any peer at all: whatever packet, in whatever order, *)
(* with whatever number.  The SLATE never sends most of them, but kermit() *)
(* has a branch for each, and what it keeps true there does not depend on  *)
(* the good manners of the other side.  The peer is half-duplex: it takes  *)
(* what the server sent and then sends one packet.                         *)
(***************************************************************************)
EXTENDS KermitServer

anyPeerVars == <<serverVars, c2s, s2c>>

(* The data fields that make a difference for a packet type. *)
Texts(typ) ==
    CASE typ = "Y" -> {NoText, CancelText, ParamsAttr, ParamsPlain}
      [] typ = "S" -> {ParamsAttr, ParamsPlain}
      [] typ = "G" -> {NoText, OtherText}
      [] OTHER     -> {NoText}

PeerSend ==
    /\ ret = "RUN" /\ c2s = <<>>
    /\ \E typ \in PacketTypes, seq \in SeqNo : \E dat \in Texts(typ) :
          c2s' = <<Pkt(typ, seq, dat)>>
    /\ s2c' = <<>>
    /\ UNCHANGED serverVars

AnyPeerInit == ServerInit /\ LinkInit
AnyPeerNext == ServerNext \/ PeerSend
AnyPeerSpec == AnyPeerInit /\ [][AnyPeerNext]_anyPeerVars
-----------------------------------------------------------------------------
(* The types of the server and of the packets on their way. *)
AnyPeerTypeOK == LinkTypeOK /\ ServerTypeOK

Sent(typ) == \E i \in DOMAIN s2c : s2c[i].typ = typ

(* epkt() is the last thing that a run does: the loop of kermit_main never *)
(* goes on with a transaction whose peer was told that it failed.          *)
ErrorIsFinal == ret = "RUN" => ~Sent("E")

(* A server that is not receiving has a packet out, and what it repeats is *)
(* that packet: ok2rxd() never lets the loop spin on a stale rx_len.       *)
OutstandingPacket == ret = "RUN" /\ what # "W_RECV" => slot.used

(* A run that reports success has closed its input file, whatever the peer *)
(* interrupted, restarted or cancelled.                                    *)
FileClosed == ret = "K_SUCCESS" => ~ifile

(* A number is never waited for twice: s_pw maps at most one number to the *)
(* only slot while a transfer is under way.                                *)
OneNumberAwaited == ret = "RUN" /\ what # "W_RECV" => \E n \in SeqNo : s_pw = {n}
=============================================================================
