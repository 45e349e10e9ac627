---------------------------- MODULE KermitProofs ----------------------------
(***************************************************************************)
(* What one turn of the server's loop and one of the client's keep true,   *)
(* whatever packet they got; what the server keeps true against any peer,  *)
(* and the client against any server, for every number of sequence         *)
(* numbers, file length and retry limit.  The lemmas are used for the      *)
(* whole transaction (KermitTransferProofs) as well.                       *)
(***************************************************************************)
EXTENDS KermitServerEnv, KermitClientEnv, TLAPS

(* The parts of the type invariant that sending a packet can disturb. *)
SendOK ==
    /\ s_seq \in SeqNo
    /\ slot \in Slot
    /\ s_pw \in SUBSET SeqNo
    /\ s2c \in Seq(Packet)

(* The parts that a call of kermit() can disturb. *)
KermitOK ==
    /\ SendOK
    /\ what \in {"W_RECV", "W_SEND", "W_DIR"}
    /\ state \in SendStates \cup ReceiveStates
    /\ cap_at \in BOOLEAN
    /\ filelist \in {0, 1}
    /\ ifile \in BOOLEAN
    /\ pos \in 0 .. NChunks
    /\ rtype \in {"A_WAIT", "A_GET", "A_DIR", "A_SEND"}
    /\ ret \in Results

(* The window while the loop runs: empty and unmapped when receiving, else *)
(* taken, with one number mapped to it.                                    *)
Window ==
    /\ what = "W_RECV" => /\ state \in ReceiveStates
                          /\ ~slot.used
                          /\ s_pw = {}
    /\ what # "W_RECV" => /\ state \in SendStates
                          /\ slot.used
                          /\ slot.typ \in PacketTypes \ {"E"}
                          /\ slot.seq \in SeqNo
                          /\ \E n \in SeqNo : s_pw = {n}

(* The input file is open only while a file is sent, and not after Z. *)
Files == what # "W_SEND" \/ state \in {"S_EOF", "S_EOT"} => ~ifile

(* No E packet is on its way. *)
NoErrorSent == \A i \in DOMAIN s2c : s2c[i].typ # "E"

(* The inductive invariant of the loop of kermit_main. *)
ServerInv ==
    /\ ret = "RUN" => Window /\ Files /\ NoErrorSent
    /\ ret = "K_SUCCESS" => ~ifile

-----------------------------------------------------------------------------
(* The operators that build and send packets. *)

LEMMA NextSeqType == ASSUME NEW n \in SeqNo PROVE NextSeq(n) \in SeqNo
BY LinkAssumption DEF SeqNo, NextSeq

LEMMA TextsAreData ==
    /\ NoText \in Data /\ CancelText \in Data /\ ParamsAttr \in Data
    /\ ParamsPlain \in Data /\ Listing \in Data /\ OtherText \in Data
BY LinkAssumption DEF Data, NoText, CancelText, ParamsAttr, ParamsPlain, Listing, OtherText

LEMMA ZeroSeq == 0 \in SeqNo
BY LinkAssumption DEF SeqNo

LEMMA NewSlot ==
    ASSUME NEW typ \in PacketTypes, NEW seq \in SeqNo, NEW dat \in Data
    PROVE  [used |-> TRUE, typ |-> typ, seq |-> seq, dat |-> dat, rtr |-> 0] \in Slot
<1>1. 0 \in 0 .. Retry + 1
  BY LinkAssumption
<1> QED
  BY <1>1 DEF Slot

(* One more retry, or the end of them. *)
LEMMA RetrySlot ==
    ASSUME NEW s \in Slot, NEW n \in 0 .. Retry + 1
    PROVE  /\ [s EXCEPT !.rtr = n] \in Slot
           /\ [s EXCEPT !.rtr = n].used = s.used
           /\ [s EXCEPT !.rtr = n].typ = s.typ
           /\ [s EXCEPT !.rtr = n].seq = s.seq
BY DEF Slot

LEMMA PktType ==
    ASSUME NEW typ \in PacketTypes, NEW seq \in SeqNo, NEW dat \in Data
    PROVE  Pkt(typ, seq, dat) \in Packet
BY DEF Pkt, Packet

LEMMA SendType ==
    ASSUME s2c \in Seq(Packet), NEW p \in Packet, Send(p)
    PROVE  /\ s2c' \in Seq(Packet)
           /\ NoErrorSent /\ p.typ # "E" => NoErrorSent'
BY DEF Send, NoErrorSent

LEMMA ReplyType ==
    ASSUME SendOK, NEW typ \in PacketTypes, NEW seq \in SeqNo, NEW dat \in Data,
           Reply(typ, seq, dat)
    PROVE  /\ SendOK'
           /\ UNCHANGED <<slot, s_pw>>
           /\ NoErrorSent /\ typ # "E" => NoErrorSent'
<1>1. Pkt(typ, seq, dat) \in Packet /\ Pkt(typ, seq, dat).typ = typ
  BY PktType DEF Pkt
<1> QED
  BY <1>1, SendType DEF Reply, SendOK

LEMMA SendPacketType ==
    ASSUME SendOK, NEW typ \in PacketTypes, NEW seq \in SeqNo, NEW dat \in Data,
           SendPacket(typ, seq, dat)
    PROVE  /\ SendOK'
           /\ slot'.used /\ slot'.typ = typ /\ slot'.seq = seq
           /\ s_seq' = seq
           /\ s_pw' = (s_pw \ {slot.seq}) \cup {seq}
           /\ NoErrorSent /\ typ # "E" => NoErrorSent'
<1>1. Pkt(typ, seq, dat) \in Packet /\ Pkt(typ, seq, dat).typ = typ
  BY PktType DEF Pkt
<1>2. slot' \in Slot
  BY NewSlot DEF SendPacket
<1> QED
  BY <1>1, <1>2, SendType DEF SendPacket, SendOK

LEMMA SendInitType ==
    ASSUME SendOK, cap_at \in BOOLEAN, SendInit
    PROVE  /\ SendOK'
           /\ slot.used => UNCHANGED <<slot, s_pw, s_seq, s2c>>
           /\ ~slot.used => /\ slot'.used /\ slot'.typ = "S" /\ slot'.seq = 0
                            /\ s_pw' = s_pw \cup {s_seq}
                            /\ s_seq' = 0
           /\ NoErrorSent => NoErrorSent'
<1>1. "S" \in PacketTypes
  BY DEF PacketTypes
<1>2. Params(cap_at) \in Data
  BY TextsAreData DEF Params
<1>3. Pkt("S", 0, Params(cap_at)) \in Packet /\ Pkt("S", 0, Params(cap_at)).typ = "S"
  BY <1>1, <1>2, PktType, ZeroSeq DEF Pkt
<1>4. CASE slot.used
  BY <1>4 DEF SendInit, SendOK, sendVars, NoErrorSent
<1>5. CASE ~slot.used
  <2>1. slot' = [used |-> TRUE, typ |-> "S", seq |-> 0, dat |-> Params(cap_at), rtr |-> 0]
    BY <1>5 DEF SendInit
  <2>2. slot' \in Slot
    BY <2>1, <1>1, <1>2, ZeroSeq, NewSlot
  <2> QED
    BY <1>3, <1>5, <2>1, <2>2, SendType, ZeroSeq DEF SendInit, SendOK
<1> QED
  BY <1>4, <1>5

LEMMA ResendType ==
    ASSUME SendOK, ret = "RUN", slot.used => slot.typ \in PacketTypes /\ slot.seq \in SeqNo,
           NEW b \in BOOLEAN, Resend(b)
    PROVE  /\ SendOK'
           /\ UNCHANGED <<s_seq, s_pw>>
           /\ slot'.used = slot.used /\ slot'.typ = slot.typ /\ slot'.seq = slot.seq
           /\ ret' \in {"RUN", "K_FAILURE"}
           /\ NoErrorSent /\ (slot.used => slot.typ # "E") => NoErrorSent'
<1>1. slot \in Slot /\ slot.rtr \in 0 .. Retry + 1
  BY DEF SendOK, Slot
<1>2. CASE ~slot.used \/ slot.seq \notin s_pw
  BY <1>2 DEF Resend, SendOK, NoErrorSent
<1>3. CASE slot.used /\ slot.seq \in s_pw /\ slot.rtr >= Retry
  <2>1. slot' = [slot EXCEPT !.rtr = Retry + 1] /\ UNCHANGED <<s_seq, s_pw, s2c>>
    BY <1>3 DEF Resend
  <2>2. ret' \in {"RUN", "K_FAILURE"}
    BY <1>3 DEF Resend
  <2>3. Retry + 1 \in 0 .. Retry + 1
    BY LinkAssumption
  <2>4. slot' \in Slot /\ slot'.used = slot.used /\ slot'.typ = slot.typ /\ slot'.seq = slot.seq
    BY <1>1, <2>1, <2>3, RetrySlot
  <2> QED
    BY <2>1, <2>2, <2>4 DEF SendOK, NoErrorSent
<1>4. CASE slot.used /\ slot.seq \in s_pw /\ ~(slot.rtr >= Retry)
  <2>1. /\ slot' = [slot EXCEPT !.rtr = slot.rtr + 1]
        /\ Send(Pkt(slot.typ, slot.seq, slot.dat))
        /\ UNCHANGED <<s_seq, s_pw, ret>>
    BY <1>4 DEF Resend
  <2>2. slot.rtr + 1 \in 0 .. Retry + 1
    BY <1>1, <1>4, LinkAssumption
  <2>3. slot' \in Slot /\ slot'.used = slot.used /\ slot'.typ = slot.typ /\ slot'.seq = slot.seq
    BY <1>1, <2>1, <2>2, RetrySlot
  <2>4. slot.dat \in Data
    BY <1>1 DEF Slot
  <2>5. /\ Pkt(slot.typ, slot.seq, slot.dat) \in Packet
        /\ Pkt(slot.typ, slot.seq, slot.dat).typ = slot.typ
    BY <1>4, <2>4, PktType DEF Pkt
  <2> QED
    BY <1>4, <2>1, <2>3, <2>5, SendType DEF SendOK
<1> QED
  BY <1>2, <1>3, <1>4
-----------------------------------------------------------------------------
(* One call of kermit(K_RUN, ...) with a good packet, one step per action. *)

LEMMA GoodPacketStep ==
    ASSUME KermitOK, ServerInv, ret = "RUN", NEW m \in Packet, GoodPacket(m)
    PROVE  KermitOK' /\ ServerInv'
<1> USE DEF KermitOK, ServerInv, SendStates, ReceiveStates, Results
<1>1. Window /\ Files /\ NoErrorSent
  OBVIOUS
<1>2. m.typ \in PacketTypes /\ m.seq \in SeqNo /\ m.dat \in Data
  BY DEF Packet
<1>3. SpokenAttr(m) \in BOOLEAN
  BY DEF SpokenAttr
<1>4. \A b \in BOOLEAN : Params(b) \in Data
  BY TextsAreData DEF Params
<1>5. NextSeq(s_seq) \in SeqNo
  BY NextSeqType DEF SendOK
<1>6. {"S", "F", "A", "D", "Z", "B", "X", "Y", "N", "E"} \subseteq PacketTypes
  BY DEF PacketTypes
<1>7. FreeSlot \in Slot
  BY LinkAssumption, TextsAreData DEF FreeSlot, Slot
<1>8. s_seq \in SeqNo
  BY DEF SendOK
<1>10. CASE Ignore(m)
  BY <1>1, <1>10 DEF Ignore, KeepLoop, fileVars, sendVars, SendOK, Window, Files, NoErrorSent
<1>11. CASE EotNak(m)
  BY <1>1, <1>11 DEF EotNak, IsEotNak, Leave, fileVars, sendVars, SendOK, Files
<1>12. CASE ErrorPacket(m)
  BY <1>1, <1>12 DEF ErrorPacket, Leave, fileVars, sendVars, SendOK
<1>13. CASE StartDir(m)
  BY <1>1, <1>6, <1>13, SendInitType, ZeroSeq DEF StartDir, Goto, Window, Files, SendOK
<1>14. CASE UnknownGeneric(m)
  BY <1>1, <1>6, <1>14, ReplyType, ZeroSeq, TextsAreData DEF UnknownGeneric, SendError, Leave, fileVars
<1>15. CASE StartGet(m)
  BY <1>1, <1>6, <1>15, SendInitType, ZeroSeq DEF StartGet, Goto, Window, Files, SendOK
<1>16. CASE GetNotAccessible(m)
  BY <1>1, <1>6, <1>16, ReplyType, ZeroSeq, TextsAreData DEF GetNotAccessible, SendError, Leave, fileVars
<1>20. ASSUME NEW w, Acked(m, w)
       PROVE  what = w /\ (w # "W_RECV" => s_pw \ {slot.seq} = {})
  BY <1>1, <1>20 DEF Acked, Window
<1>21. CASE AckMisfiled(m)
  BY <1>1, <1>5, <1>21, LinkAssumption DEF AckMisfiled, Leave, SendOK
<1>22. CASE SendFile(m)
  BY <1>1, <1>3, <1>5, <1>6, <1>20, <1>22, SendPacketType, TextsAreData, LinkAssumption
  DEF SendFile, Goto, Window, Files
<1>23. CASE OpenFails(m)
  BY <1>3, <1>5, <1>7, <1>23 DEF OpenFails, SendOK
<1>24. CASE SendAttr(m)
  BY <1>1, <1>5, <1>6, <1>20, <1>24, SendPacketType, TextsAreData
  DEF SendAttr, Goto, KeepLoop, fileVars, Window, Files
<1>25. CASE SendData(m)
  <2>1. pos + 1 \in Data /\ pos + 1 \in 0 .. NChunks
    BY <1>25, LinkAssumption DEF SendData, Data
  <2> QED
    BY <1>1, <1>5, <1>6, <1>20, <1>25, <2>1, SendPacketType
    DEF SendData, InData, Goto, KeepLoop, Window, Files
<1>26. CASE SendEof(m)
  <2>1. ~ifile' /\ ifile' \in BOOLEAN
    BY <1>26 DEF SendEof
  <2> QED
    BY <1>1, <1>5, <1>6, <1>20, <1>26, <2>1, SendPacketType, TextsAreData
    DEF SendEof, InData, Goto, KeepLoop, Window, Files
<1>27. CASE CancelFile(m)
  <2>1. ~ifile' /\ ifile' \in BOOLEAN
    BY <1>27 DEF CancelFile
  <2> QED
    BY <1>1, <1>5, <1>6, <1>20, <1>27, <2>1, SendPacketType, TextsAreData
    DEF CancelFile, Goto, KeepLoop, Window, Files
<1>28. CASE SendBreak(m)
  BY <1>1, <1>5, <1>6, <1>20, <1>28, SendPacketType, TextsAreData
  DEF SendBreak, Goto, KeepLoop, fileVars, Window, Files
<1>29. CASE GetDone(m)
  BY <1>1, <1>7, <1>29 DEF GetDone, Leave, fileVars, SendOK, Files
<1>30. CASE NotAcked(m)
  <2>1. slot.used /\ slot.typ \in PacketTypes \ {"E"} /\ slot.seq \in SeqNo /\ Resend(TRUE)
    BY <1>1, <1>30 DEF NotAcked, Window
  <2> QED
    BY <1>1, <1>30, <2>1, ResendType DEF NotAcked, fileVars, Window, Files
<1>31. CASE SendText(m)
  BY <1>1, <1>6, <1>8, <1>20, <1>31, SendPacketType, TextsAreData
  DEF SendText, Goto, KeepLoop, fileVars, Window, Files
<1>32. CASE SendListing(m)
  BY <1>1, <1>6, <1>8, <1>20, <1>32, SendPacketType, TextsAreData
  DEF SendListing, Goto, KeepLoop, fileVars, Window, Files
<1>33. CASE ListingFails(m)
  BY <1>1, <1>6, <1>7, <1>33, PktType, SendType, ZeroSeq, TextsAreData
  DEF ListingFails, Leave, fileVars, SendOK
<1>34. CASE SendListingEnd(m)
  BY <1>1, <1>5, <1>6, <1>20, <1>34, SendPacketType, TextsAreData
  DEF SendListingEnd, Goto, KeepLoop, fileVars, Window, Files
<1>35. CASE DirDone(m)
  BY <1>1, <1>7, <1>20, <1>35 DEF DirDone, Goto, fileVars, SendOK, Files
<1>36. CASE DirNotAcked(m)
  <2>1. CASE state = "S_INIT"
    BY <1>1, <1>5, <1>36, <2>1, LinkAssumption DEF DirNotAcked, Leave, SendOK
  <2>2. CASE state = "S_TEXT"
    BY <1>1, <1>6, <1>36, <2>2, ReplyType, ZeroSeq, TextsAreData
    DEF DirNotAcked, SendError, Leave, fileVars
  <2>3. CASE state \in {"S_DATA", "S_EOF"}
    BY <1>1, <1>36, <2>3
    DEF DirNotAcked, fileVars, sendVars, SendOK, Window, Files, NoErrorSent
  <2>4. CASE state = "S_EOT"
    BY <1>1, <1>36, <2>4 DEF DirNotAcked, Leave, fileVars, sendVars, SendOK, Files
  <2> QED
    BY <1>36, <2>1, <2>2, <2>3, <2>4 DEF DirNotAcked
<1>40. CASE FirstSInit(m)
  BY <1>1, <1>3, <1>4, <1>6, <1>40, ReplyType, ZeroSeq
  DEF FirstSInit, Receiving, Goto, fileVars, Window, Files
<1>41. CASE NotSInit(m)
  BY <1>1, <1>6, <1>41, ReplyType, ZeroSeq, TextsAreData
  DEF NotSInit, KeepLoop, fileVars, Window, Files
<1>42. CASE ReceiveHeader(m)
  <2>1. \E d \in Data, q \in SeqNo : Reply("Y", q, d) /\ cap_at' \in BOOLEAN
    BY <1>2, <1>3, <1>4, <1>42, ZeroSeq, TextsAreData DEF ReceiveHeader
  <2> QED
    BY <1>1, <1>6, <1>42, <2>1, ReplyType
    DEF ReceiveHeader, Receiving, Goto, KeepLoop, fileVars, Window, Files
<1>43. CASE ReceiveBreak(m)
  BY <1>1, <1>2, <1>6, <1>43, ReplyType, TextsAreData
  DEF ReceiveBreak, Receiving, Leave, fileVars, Files
<1>44. CASE RefuseFile(m)
  <2>1. SendOK'
    BY <1>6, <1>44, ReplyType, ZeroSeq, TextsAreData
    DEF RefuseFile, SendError, sendVars, SendOK
  <2> QED
    BY <1>1, <1>44, <2>1 DEF RefuseFile, Leave, fileVars
<1> QED
  BY <1>10, <1>11, <1>12, <1>13, <1>14, <1>15, <1>16, <1>21, <1>22, <1>23,
     <1>24, <1>25, <1>26, <1>27, <1>28, <1>29, <1>30, <1>31, <1>32, <1>33,
     <1>34, <1>35, <1>36, <1>40, <1>41, <1>42, <1>43, <1>44 DEF GoodPacket

-----------------------------------------------------------------------------
(* The other branches of kermit(K_RUN, ...), and the loop around it. *)

LEMMA NoPacketStep ==
    ASSUME KermitOK, ServerInv, ret = "RUN", NoPacket \/ BadPacket
    PROVE  KermitOK' /\ ServerInv'
<1> USE DEF KermitOK, ServerInv, SendStates, ReceiveStates, Results
<1>1. Window /\ Files /\ NoErrorSent
  OBVIOUS
<1>2. UNCHANGED <<what, state, cap_at, fileVars, rtype>>
  BY DEF NoPacket, BadPacket
<1>3. CASE what = "W_RECV"
  <2>1. /\ ret' = ret
        /\ \/ UNCHANGED <<sendVars, s2c>>
           \/ Reply("Y", 0, Params(cap_at))
    BY <1>3 DEF NoPacket, BadPacket
  <2>2. "Y" \in PacketTypes /\ Params(cap_at) \in Data
    BY TextsAreData DEF PacketTypes, Params
  <2>3. CASE UNCHANGED <<sendVars, s2c>>
    BY <1>1, <1>2, <2>1, <2>3 DEF fileVars, sendVars, SendOK, Window, Files, NoErrorSent
  <2>4. CASE Reply("Y", 0, Params(cap_at))
    BY <1>1, <1>2, <2>1, <2>2, <2>4, ReplyType, ZeroSeq DEF fileVars, Window, Files
  <2> QED
    BY <2>1, <2>3, <2>4
<1>4. CASE what # "W_RECV"
  <2>1. \E b \in BOOLEAN : Resend(b)
    BY <1>4 DEF NoPacket, BadPacket
  <2>2. slot.used /\ slot.typ \in PacketTypes \ {"E"} /\ slot.seq \in SeqNo
    BY <1>1, <1>4 DEF Window
  <2> QED
    BY <1>1, <1>2, <1>4, <2>1, <2>2, ResendType DEF fileVars, Window, Files
<1> QED
  BY <1>3, <1>4

LEMMA TypeIsKermitOK == ServerTypeOK /\ LinkTypeOK <=>
    /\ KermitOK
    /\ c2s \in Seq(Packet)
    /\ retrycounter \in 0 .. Retry + 1
    /\ start \in BOOLEAN
BY DEF ServerTypeOK, LinkTypeOK, KermitOK, SendOK

(* One step of the server keeps its type invariant and ServerInv. *)
LEMMA ServerStep ==
    ASSUME ServerTypeOK, LinkTypeOK, ServerInv, ServerNext
    PROVE  ServerTypeOK' /\ LinkTypeOK' /\ ServerInv'
<1>0. KermitOK /\ c2s \in Seq(Packet) /\ retrycounter \in 0 .. Retry + 1 /\ start \in BOOLEAN
  BY TypeIsKermitOK
<1> SUFFICES /\ KermitOK' /\ ServerInv'
             /\ c2s' \in Seq(Packet)
             /\ retrycounter' \in 0 .. Retry + 1
             /\ start' \in BOOLEAN
  BY DEF ServerTypeOK, LinkTypeOK, KermitOK, SendOK
<1>1. CASE ServerReceive
  <2>1. Head(c2s) \in Packet /\ c2s' \in Seq(Packet)
    BY <1>0, <1>1 DEF ServerReceive
  <2>2. KermitOK' /\ ServerInv'
    BY <1>0, <1>1, <2>1, GoodPacketStep, NoPacketStep DEF ServerReceive
  <2> QED
    BY <1>0, <1>1, <2>1, <2>2 DEF ServerReceive
<1>2. CASE ServerTimeout
  <2>1. KermitOK' /\ ServerInv'
    BY <1>0, <1>2, NoPacketStep DEF ServerTimeout
  <2>2. retrycounter' \in 0 .. Retry + 1
    BY <1>0, <1>2, LinkAssumption DEF ServerTimeout
  <2> QED
    BY <1>0, <1>2, <2>1, <2>2 DEF ServerTimeout
<1>3. CASE ServerGiveUp
  <2>1. "E" \in PacketTypes
    BY DEF PacketTypes
  <2>2. SendOK'
    BY <1>0, <1>3, <2>1, ReplyType, ZeroSeq, TextsAreData
    DEF ServerGiveUp, SendError, KermitOK, SendOK, sendVars
  <2> QED
    BY <1>0, <1>3, <2>2 DEF ServerGiveUp, KermitOK, ServerInv, Results
<1>4. CASE ServerEnd
  BY <1>0, <1>4 DEF ServerEnd, KermitOK, SendOK, sendVars, fileVars, ServerInv, Results
<1> QED
  BY <1>1, <1>2, <1>3, <1>4 DEF ServerNext

(* What the others do leaves ServerInv alone, as long as they send no E in *)
(* the server's place.                                                     *)
LEMMA OtherStep ==
    ASSUME ServerTypeOK, ServerInv, UNCHANGED serverVars,
           NoErrorSent => NoErrorSent'
    PROVE  ServerTypeOK' /\ ServerInv'
BY DEF ServerTypeOK, ServerInv, serverVars, sendVars, fileVars, Window, Files

LEMMA ServerStart ==
    ASSUME ServerInit, LinkTypeOK, s2c = <<>>
    PROVE  ServerTypeOK /\ ServerInv
<1>1. FreeSlot \in Slot /\ ~FreeSlot.used
  BY LinkAssumption, TextsAreData DEF FreeSlot, Slot
<1>2. 0 \in 0 .. NChunks /\ Retry + 1 \in 0 .. Retry + 1
  BY LinkAssumption
<1>3. cap_at \in BOOLEAN /\ ifile \in BOOLEAN /\ ~ifile /\ start \in BOOLEAN
  BY DEF ServerInit
<1> QED
  BY <1>1, <1>2, <1>3, ZeroSeq
  DEF ServerInit, ServerTypeOK, ServerInv, Window, Files, NoErrorSent, SendStates,
      ReceiveStates, Results
-----------------------------------------------------------------------------
(* The server against any peer (KermitServerEnv) *)

AnyPeerInv == AnyPeerTypeOK /\ ServerInv

LEMMA AnyPeerInvInit == AnyPeerInit => AnyPeerInv
<1> SUFFICES ASSUME AnyPeerInit PROVE AnyPeerInv
  OBVIOUS
<1>1. LinkTypeOK /\ s2c = <<>>
  BY DEF AnyPeerInit, LinkInit, LinkTypeOK
<1> QED
  BY <1>1, ServerStart DEF AnyPeerInit, AnyPeerInv, AnyPeerTypeOK

LEMMA AnyPeerInvNext == AnyPeerInv /\ [AnyPeerNext]_anyPeerVars => AnyPeerInv'
<1> SUFFICES ASSUME AnyPeerInv, [AnyPeerNext]_anyPeerVars PROVE AnyPeerInv'
  OBVIOUS
<1>1. CASE ServerNext
  BY <1>1, ServerStep DEF AnyPeerInv, AnyPeerTypeOK
<1>2. CASE PeerSend
  <2>1. PICK typ \in PacketTypes, seq \in SeqNo : \E dat \in Texts(typ) : c2s' = <<Pkt(typ, seq, dat)>>
    BY <1>2 DEF PeerSend
  <2>2. PICK dat \in Texts(typ) : c2s' = <<Pkt(typ, seq, dat)>>
    BY <2>1
  <2>3. dat \in Data
    BY TextsAreData DEF Texts
  <2>4. LinkTypeOK' /\ NoErrorSent'
    BY <1>2, <2>2, <2>3, PktType DEF PeerSend, LinkTypeOK, NoErrorSent
  <2> QED
    BY <1>2, <2>4, OtherStep DEF PeerSend, AnyPeerInv, AnyPeerTypeOK
<1>3. CASE UNCHANGED anyPeerVars
  <2>1. NoErrorSent => NoErrorSent'
    BY <1>3 DEF anyPeerVars, NoErrorSent
  <2>2. LinkTypeOK'
    BY <1>3 DEF anyPeerVars, AnyPeerInv, AnyPeerTypeOK, LinkTypeOK
  <2> QED
    BY <1>3, <2>1, <2>2, OtherStep DEF anyPeerVars, AnyPeerInv, AnyPeerTypeOK
<1> QED
  BY <1>1, <1>2, <1>3 DEF AnyPeerNext

LEMMA AnyPeerInvHolds == AnyPeerSpec => []AnyPeerInv
BY AnyPeerInvInit, AnyPeerInvNext, PTL DEF AnyPeerSpec

(* The variables of the server and the packets on their way have their     *)
(* types: numbers stay below SeqMod and no retry count passes its limit.   *)
THEOREM ServerAnyPeerTypes == AnyPeerSpec => []AnyPeerTypeOK
<1>1. AnyPeerInv => AnyPeerTypeOK
  BY DEF AnyPeerInv
<1> QED
  BY <1>1, AnyPeerInvHolds, PTL

(* kermit_main does not go on once it has sent an E packet. *)
THEOREM ServerErrorIsFinal == AnyPeerSpec => []ErrorIsFinal
<1>1. AnyPeerInv => ErrorIsFinal
  BY DEF AnyPeerInv, ServerInv, NoErrorSent, ErrorIsFinal, Sent
<1> QED
  BY <1>1, AnyPeerInvHolds, PTL

(* A server that is not receiving has a packet out, whatever the peer did. *)
THEOREM ServerOutstandingPacket == AnyPeerSpec => []OutstandingPacket
<1>1. AnyPeerInv => OutstandingPacket
  BY DEF AnyPeerInv, ServerInv, Window, OutstandingPacket
<1> QED
  BY <1>1, AnyPeerInvHolds, PTL

(* Success is reported only with the input file closed. *)
THEOREM ServerFileClosed == AnyPeerSpec => []FileClosed
<1>1. AnyPeerInv => FileClosed
  BY DEF AnyPeerInv, ServerInv, FileClosed
<1> QED
  BY <1>1, AnyPeerInvHolds, PTL

(* Exactly one number is awaited while a transfer is under way. *)
THEOREM ServerOneNumberAwaited == AnyPeerSpec => []OneNumberAwaited
<1>1. AnyPeerInv => OneNumberAwaited
  BY DEF AnyPeerInv, ServerInv, Window, OneNumberAwaited
<1> QED
  BY <1>1, AnyPeerInvHolds, PTL
-----------------------------------------------------------------------------
(* The client *)

ClientTypes == {"Y", "N", "E", "R", "G", "BAD", "SHORT"}

(* The client only ever sends these. *)
ClientPackets == \A i \in DOMAIN c2s : c2s[i].typ \in ClientTypes

(* The client's operators that send packets. *)

LEMMA CSendType ==
    ASSUME c2s \in Seq(Packet), ClientPackets,
           NEW typ \in ClientTypes, NEW seq \in SeqNo, NEW dat \in Data,
           CSend(Pkt(typ, seq, dat))
    PROVE  c2s' \in Seq(Packet) /\ ClientPackets'
<1>1. typ \in PacketTypes
  BY DEF ClientTypes, PacketTypes
<1>2. Pkt(typ, seq, dat) \in Packet /\ Pkt(typ, seq, dat).typ = typ
  BY <1>1, PktType DEF Pkt
<1> QED
  BY <1>2 DEF CSend, ClientPackets

LEMMA CAckType ==
    ASSUME c2s \in Seq(Packet), ClientPackets, NEW m \in Packet, CAck(m)
    PROVE  c2s' \in Seq(Packet) /\ ClientPackets'
BY CSendType, TextsAreData DEF CAck, Packet, ClientTypes

LEMMA CAckInitType ==
    ASSUME c2s \in Seq(Packet), ClientPackets, CAckInit
    PROVE  c2s' \in Seq(Packet) /\ ClientPackets'
<1>1. (IF c_attr THEN ParamsAttr ELSE ParamsPlain) \in Data
  BY TextsAreData
<1> QED
  BY <1>1, CSendType, ZeroSeq DEF CAckInit, ClientTypes

LEMMA CErrorType ==
    ASSUME c2s \in Seq(Packet), ClientPackets, CError
    PROVE  c2s' \in Seq(Packet) /\ ClientPackets'
BY CSendType, TextsAreData, ZeroSeq DEF CError, ClientTypes

LEMMA CResendType ==
    ASSUME c2s \in Seq(Packet), ClientPackets, c_rtr \in -1 .. Retry + 1,
           c_ret = "RUN", NEW b \in BOOLEAN, CResend(b)
    PROVE  /\ c2s' \in Seq(Packet) /\ ClientPackets'
           /\ c_rtr' \in -1 .. Retry + 1
           /\ c_ret' \in {"RUN", "K_FAILURE"}
<1>1. CASE UNCHANGED c2s
  <2>1. c_rtr' \in -1 .. Retry + 1
    BY <1>1, LinkAssumption DEF CResend
  <2> QED
    BY <1>1, <2>1 DEF CResend, ClientPackets
<1>2. CASE /\ c_rtr \in 0 .. Retry - 1 /\ c_rtr' = c_rtr + 1
           /\ CSend(Request(c_mode)) /\ UNCHANGED c_ret
  <2>1. c_rtr' \in -1 .. Retry + 1
    BY <1>2, LinkAssumption
  <2>2. \E t \in ClientTypes : Request(c_mode) = Pkt(t, 0, NoText)
    BY DEF Request, ClientTypes
  <2> QED
    BY <1>2, <2>1, <2>2, CSendType, ZeroSeq, TextsAreData
<1> QED
  BY <1>1, <1>2 DEF CResend
-----------------------------------------------------------------------------
(* The parts of the type invariant that a call of kermit() can disturb. *)
ClientKermitOK ==
    /\ c_what \in {"W_GET", "W_DIR", "W_RECV"}
    /\ c_state \in {"R_WAIT", "R_FILE", "R_ATTR", "R_DATA"}
    /\ c_rtr \in -1 .. Retry + 1
    /\ c_rslot \in [used : BOOLEAN, seq : SeqNo, dat : Data]
    /\ c_file \in {"none", "open", "closed"}
    /\ c_got \in Seq(Data)
    /\ c_dir \in BOOLEAN
    /\ c_cancel \in BOOLEAN
    /\ c_ret \in {"RUN", "K_SUCCESS", "K_FAILURE", "K_TIMEOUT"}
    /\ c2s \in Seq(Packet)
    /\ ClientPackets

LEMMA StoreType ==
    ASSUME ClientKermitOK, NEW m \in Packet,
           StoreNext(m) \/ StoreAgain(m) \/ StoreOld(m) \/ StoreUnexpected(m)
    PROVE  /\ c_rslot' \in [used : BOOLEAN, seq : SeqNo, dat : Data]
           /\ c_got' \in Seq(Data)
           /\ c_cancel' \in BOOLEAN
           /\ c_ret' \in {"RUN", "K_SUCCESS", "K_FAILURE", "K_TIMEOUT"}
           /\ c2s' \in Seq(Packet) /\ ClientPackets'
<1> USE DEF ClientKermitOK
<1>1. m.seq \in SeqNo /\ m.dat \in Data
  BY DEF Packet
<1>2. Written \in Seq(Data)
  BY DEF Written
<1>3. CASE StoreNext(m)
  <2>1. PICK text \in {NoText, CancelText} :
            /\ CSend(Pkt("Y", m.seq, text))
            /\ c_cancel' = (c_cancel \/ text = CancelText)
    BY <1>3 DEF StoreNext
  <2>2. c2s' \in Seq(Packet) /\ ClientPackets'
    BY <1>1, <2>1, CSendType, TextsAreData DEF ClientTypes
  <2>3. c_cancel' \in BOOLEAN
    BY <2>1, Zenon
  <2>4. c_rslot' = [used |-> TRUE, seq |-> m.seq, dat |-> m.dat]
    BY <1>3 DEF StoreNext
  <2> QED
    BY <1>1, <1>2, <1>3, <2>2, <2>3, <2>4 DEF StoreNext
<1>4. CASE StoreAgain(m)
  BY <1>4, CAckType DEF StoreAgain
<1>5. CASE StoreOld(m)
  <2>1. Pkt("Y", m.seq, NoText) \in Packet /\ Pkt("E", 0, NoText) \in Packet
    BY <1>1, PktType, ZeroSeq, TextsAreData DEF PacketTypes
  <2>2. Pkt("Y", m.seq, NoText).typ = "Y" /\ Pkt("E", 0, NoText).typ = "E"
    BY DEF Pkt
  <2>3. c2s' \in Seq(Packet) /\ ClientPackets'
    BY <1>5, <2>1, <2>2 DEF StoreOld, ClientPackets, ClientTypes
  <2> QED
    BY <1>5, <2>3 DEF StoreOld
<1>6. CASE StoreUnexpected(m)
  BY <1>6 DEF StoreUnexpected, ClientPackets
<1> QED
  BY <1>3, <1>4, <1>5, <1>6

LEMMA CGoodPacketStep ==
    ASSUME ClientKermitOK, c_ret = "RUN", NEW m \in Packet, CGoodPacket(m)
    PROVE  ClientKermitOK'
<1> USE DEF ClientKermitOK
<1>1. m.seq \in SeqNo /\ m.dat \in Data
  BY DEF Packet
<1>2. NoPkt \in [used : BOOLEAN, seq : SeqNo, dat : Data]
  BY ZeroSeq, TextsAreData DEF NoPkt
<1>3. Written \in Seq(Data)
  BY DEF Written
<1>4. CASE CIgnore(m)
  BY <1>4 DEF CIgnore, recvVars, ClientPackets
<1>5. CASE CRequestAcked(m)
  <2>1. c_rtr' \in -1 .. Retry + 1
    BY <1>5, LinkAssumption DEF CRequestAcked
  <2> QED
    BY <1>5, <2>1 DEF CRequestAcked, recvVars, ClientPackets
<1>6. CASE CErrorPacket(m)
  BY <1>6 DEF CErrorPacket, CLeave, recvVars, ClientPackets
<1>7. CASE CInit(m)
  BY <1>7, CAckInitType DEF CInit, recvVars
<1>8. CASE CNotInit(m)
  <2>1. UNCHANGED <<c_what, c_state, recvVars>>
    BY <1>8 DEF CNotInit
  <2>2. CASE CResend(TRUE)
    BY <2>1, <2>2, CResendType DEF recvVars
  <2>3. CASE CSend(Pkt("N", 0, NoText)) /\ UNCHANGED <<c_rtr, c_ret>>
    BY <2>1, <2>3, CSendType, ZeroSeq, TextsAreData DEF recvVars, ClientTypes
  <2> QED
    BY <1>8, <2>2, <2>3 DEF CNotInit
<1>9. CASE CHeader(m)
  BY <1>9, CAckType DEF CHeader, CGoto, recvVars
<1>10. CASE CInitAgain(m)
  BY <1>10, CAckInitType DEF CInitAgain, recvVars
<1>11. CASE CData(m)
  <2>1. c_dir' \in BOOLEAN
    BY <1>11, Zenon DEF CData
  <2> QED
    BY <1>11, <2>1, StoreType DEF CData
<1>12. CASE CEof(m)
  BY <1>2, <1>3, <1>12, CAckType DEF CEof, FlushToFile, CGoto
<1>13. CASE CBreak(m)
  BY <1>13, CAckType DEF CBreak, CLeave, recvVars
<1>14. CASE CUnexpected(m)
  BY <1>14, CErrorType DEF CUnexpected, CLeave, recvVars, ClientPackets
<1> QED
  BY <1>4, <1>5, <1>6, <1>7, <1>8, <1>9, <1>10, <1>11, <1>12, <1>13, <1>14 DEF CGoodPacket

LEMMA CNoPacketStep ==
    ASSUME ClientKermitOK, c_ret = "RUN", CNoPacket \/ CBadPacket
    PROVE  ClientKermitOK'
<1> USE DEF ClientKermitOK
<1>1. UNCHANGED <<c_what, c_state, recvVars>>
  BY DEF CNoPacket, CBadPacket
<1>2. CASE c_what = "W_RECV"
  BY <1>1, <1>2, CAckInitType DEF CNoPacket, CBadPacket, recvVars, ClientPackets
<1>3. CASE c_what # "W_RECV"
  <2>1. \E b \in BOOLEAN : CResend(b)
    BY <1>3 DEF CNoPacket, CBadPacket
  <2> QED
    BY <1>1, <2>1, CResendType DEF recvVars
<1> QED
  BY <1>2, <1>3

(* One step of the client keeps the types, sends nothing of its own that   *)
(* the server would receive a file from, and takes packets off s2c only.   *)
LEMMA ClientStep ==
    ASSUME LinkTypeOK, ClientTypeOK, ClientPackets, ClientNext
    PROVE  /\ LinkTypeOK' /\ ClientTypeOK' /\ ClientPackets'
           /\ NoErrorSent => NoErrorSent'
<1>0. /\ ClientKermitOK /\ s2c \in Seq(Packet)
      /\ c_mode \in Modes /\ c_attr \in BOOLEAN /\ c_retrycounter \in 0 .. Retry + 1
  BY DEF LinkTypeOK, ClientTypeOK, ClientKermitOK
<1> SUFFICES /\ ClientKermitOK' /\ s2c' \in Seq(Packet)
             /\ UNCHANGED <<c_mode, c_attr>> /\ c_retrycounter' \in 0 .. Retry + 1
             /\ NoErrorSent => NoErrorSent'
  BY <1>0 DEF LinkTypeOK, ClientTypeOK, ClientKermitOK
<1>1. ASSUME s2c # <<>>, s2c' = Tail(s2c)
      PROVE  /\ Head(s2c) \in Packet /\ s2c' \in Seq(Packet)
             /\ NoErrorSent => NoErrorSent'
  BY <1>0, <1>1 DEF NoErrorSent
<1>2. UNCHANGED s2c => (NoErrorSent => NoErrorSent')
  BY DEF NoErrorSent
<1>3. CASE ClientReceive
  <2>1. ClientKermitOK'
    BY <1>0, <1>1, <1>3, CGoodPacketStep, CNoPacketStep DEF ClientReceive
  <2> QED
    BY <1>0, <1>1, <1>3, <2>1 DEF ClientReceive
<1>4. CASE ClientTimeout
  <2>1. ClientKermitOK'
    BY <1>0, <1>4, CNoPacketStep DEF ClientTimeout
  <2>2. c_retrycounter' \in 0 .. Retry + 1
    BY <1>0, <1>4, LinkAssumption DEF ClientTimeout
  <2> QED
    BY <1>0, <1>2, <1>4, <2>1, <2>2 DEF ClientTimeout
<1>5. CASE ClientGiveUp
  <2>1. c2s' \in Seq(Packet) /\ ClientPackets'
    BY <1>0, <1>5, CErrorType DEF ClientGiveUp, ClientKermitOK
  <2> QED
    BY <1>0, <1>2, <1>5, <2>1 DEF ClientGiveUp, CLeave, ClientKermitOK
<1>6. CASE ClientIdle
  <2>1. c2s' \in Seq(Packet) /\ ClientPackets'
    BY <1>0, <1>6, CSendType, ZeroSeq, TextsAreData DEF ClientIdle, ClientKermitOK, ClientTypes
  <2> QED
    BY <1>0, <1>1, <1>6, <2>1 DEF ClientIdle, ClientKermitOK, clientVars, recvVars
<1> QED
  BY <1>3, <1>4, <1>5, <1>6 DEF ClientNext

LEMMA ClientStart ==
    ASSUME ClientInit
    PROVE  ClientTypeOK /\ LinkTypeOK /\ ClientPackets /\ s2c = <<>>
<1>1. PICK t \in ClientTypes : Request(c_mode) = Pkt(t, 0, NoText)
  BY DEF Request, ClientTypes
<1>2. Pkt(t, 0, NoText) \in Packet /\ Pkt(t, 0, NoText).typ = t
  BY <1>1, PktType, ZeroSeq, TextsAreData DEF ClientTypes, PacketTypes, Pkt
<1>3. LinkTypeOK /\ ClientPackets /\ s2c = <<>>
  BY <1>1, <1>2 DEF ClientInit, LinkTypeOK, ClientPackets
<1>4. NoPkt \in [used : BOOLEAN, seq : SeqNo, dat : Data]
  BY ZeroSeq, TextsAreData DEF NoPkt
<1>5. 0 \in -1 .. Retry + 1 /\ Retry + 1 \in 0 .. Retry + 1
  BY LinkAssumption
<1>6. c_dir \in BOOLEAN /\ c_cancel \in BOOLEAN
  BY DEF ClientInit
<1> QED
  BY <1>3, <1>4, <1>5, <1>6 DEF ClientInit, ClientTypeOK
-----------------------------------------------------------------------------
(* The client against any server *)

IsGet == c_mode = "A_GET"

(* A chunk is known by the number of its packet, on its way and in the     *)
(* receive window.                                                         *)
DataNumbered ==
    /\ \A i \in DOMAIN s2c : s2c[i].typ = "D" => s2c[i].dat = s2c[i].seq + 1
    /\ c_rslot.used => c_rslot.dat = c_rslot.seq + 1

(* While a file is received, and only then, the window of a GET holds a    *)
(* packet, and a run that succeeded is past that.                          *)
WindowInData ==
    IsGet => /\ c_what # "W_DIR"
             /\ c_ret \in {"RUN", "K_SUCCESS"} =>
                   /\ c_rslot.used <=> c_file = "open"
                   /\ c_rslot.used <=> c_state = "R_DATA"
             /\ c_ret = "K_SUCCESS" => c_state = "R_FILE"

(* That packet is the one that follows what is in the file. *)
WindowFollows ==
    IsGet /\ c_rslot.used /\ c_state = "R_DATA" /\ c_got # <<>> =>
        c_rslot.dat = (c_got[Len(c_got)] % SeqMod) + 1

ListingNotWritten == ~IsGet => c_got = <<>>

WrittenInv ==
    /\ DataNumbered
    /\ WindowInData
    /\ WindowFollows
    /\ ListingNotWritten
    /\ WrittenInOrder

AnyServerInv == AnyServerTypeOK /\ ClientPackets /\ WrittenInv
-----------------------------------------------------------------------------
LEMMA AnyServerInvInit == AnyServerInit => AnyServerInv
<1> SUFFICES ASSUME AnyServerInit PROVE AnyServerInv
  OBVIOUS
<1>1. ClientTypeOK /\ LinkTypeOK /\ ClientPackets
  BY ClientStart DEF AnyServerInit
<1>2. ~c_rslot.used /\ c_got = <<>>
  BY DEF AnyServerInit, ClientInit, NoPkt
<1>3. WindowInData
  BY <1>2 DEF AnyServerInit, ClientInit, WindowInData, IsGet
<1> QED
  BY <1>1, <1>2, <1>3 DEF AnyServerInit, ClientInit, AnyServerInv, AnyServerTypeOK, WrittenInv, DataNumbered,
     WindowFollows, ListingNotWritten, WrittenInOrder

(* What a step of kermit() can disturb of WrittenInv *)
WindowInv ==
    /\ c_rslot.used => c_rslot.dat = c_rslot.seq + 1
    /\ WindowInData /\ WindowFollows /\ ListingNotWritten /\ WrittenInOrder

(* A step that neither writes nor fills the window *)
LEMMA KeepFile ==
    ASSUME WindowInv, c_ret = "RUN", UNCHANGED <<c_mode, recvVars>>,
           c_what' \in {c_what, "W_RECV"},
           IsGet => (c_state' = "R_DATA" <=> c_state = "R_DATA"),
           c_ret' = "K_SUCCESS" => c_state' = "R_FILE"
    PROVE  WindowInv'
BY DEF WindowInv, recvVars, WindowInData, WindowFollows, ListingNotWritten,
       WrittenInOrder, IsGet

(* The window goes to the end of the file, and the order stays. *)
LEMMA WindowIsWritten ==
    ASSUME WindowInv, c_got \in Seq(Data), IsGet, c_rslot.used, c_state = "R_DATA",
           c_got' = Append(c_got, c_rslot.dat)
    PROVE  WrittenInOrder' /\ c_got' # <<>> /\ c_got'[Len(c_got')] = c_rslot.dat
<1>1. /\ Len(c_got') = Len(c_got) + 1
      /\ \A i \in 1 .. Len(c_got) : c_got'[i] = c_got[i]
      /\ c_got'[Len(c_got) + 1] = c_rslot.dat
      /\ Len(c_got) \in Nat
  OBVIOUS
<1>2. ASSUME NEW i \in 1 .. Len(c_got') - 1
      PROVE  c_got'[i + 1] = (c_got'[i] % SeqMod) + 1
  <2>1. CASE i < Len(c_got)
    <3>1. i \in 1 .. Len(c_got) - 1 /\ i \in 1 .. Len(c_got) /\ i + 1 \in 1 .. Len(c_got)
      BY <1>1, <1>2, <2>1
    <3>2. c_got[i + 1] = (c_got[i] % SeqMod) + 1
      BY <3>1 DEF WindowInv, WrittenInOrder
    <3> QED
      BY <1>1, <3>1, <3>2
  <2>2. CASE i = Len(c_got)
    <3>1. c_got # <<>> /\ i \in 1 .. Len(c_got)
      BY <1>1, <1>2, <2>2
    <3>2. c_rslot.dat = (c_got[i] % SeqMod) + 1
      BY <2>2, <3>1 DEF WindowInv, WindowFollows
    <3> QED
      BY <1>1, <2>2, <3>1, <3>2
  <2> QED
    BY <1>1, <1>2, <2>1, <2>2
<1> QED
  BY <1>1, <1>2 DEF WrittenInOrder

LEMMA GoodPacketFile ==
    ASSUME WindowInv, ClientKermitOK, c_ret = "RUN", UNCHANGED c_mode,
           NEW m \in Packet, m.typ = "D" => m.dat = m.seq + 1, CGoodPacket(m)
    PROVE  WindowInv'
<1> USE DEF ClientKermitOK
<1>1. /\ IsGet => c_what # "W_DIR" /\ (c_rslot.used <=> c_file = "open")
                                   /\ (c_rslot.used <=> c_state = "R_DATA")
      /\ ~IsGet => c_got = <<>>
      /\ IsGet' = IsGet
  BY DEF WindowInv, WindowInData, ListingNotWritten, IsGet
<1>2. CASE CIgnore(m) \/ CRequestAcked(m)
  BY <1>2, KeepFile DEF CIgnore, CRequestAcked
<1>3. CASE CErrorPacket(m) \/ CBreak(m) \/ CUnexpected(m)
  BY <1>3, KeepFile DEF CErrorPacket, CBreak, CUnexpected, CLeave
<1>4. CASE CInit(m) \/ CInitAgain(m)
  <2>1. /\ UNCHANGED recvVars /\ c_what' \in {c_what, "W_RECV"}
        /\ IsGet => (c_state' = "R_DATA" <=> c_state = "R_DATA")
        /\ c_ret' = "RUN"
    BY <1>1, <1>4 DEF CInit, CInitAgain
  <2> QED
    BY <2>1, KeepFile
<1>5. CASE CNotInit(m)
  BY <1>5, KeepFile DEF CNotInit, CResend
<1>6. CASE CHeader(m)
  <2>1. /\ UNCHANGED <<recvVars, c_what>>
        /\ c_state' = "R_DATA" <=> c_state = "R_DATA"
        /\ c_ret' = "RUN"
    BY <1>6 DEF CHeader, CGoto
  <2> QED
    BY <2>1, KeepFile
<1>7. CASE CData(m)
  <2>0. /\ m.typ = "D" /\ m.dat = m.seq + 1 /\ c_state' = "R_DATA" /\ c_what' = c_what
        /\ c_state \in {"R_ATTR", "R_DATA"}
        /\ c_file' = IF IsGet THEN "open" ELSE c_file
    BY <1>7 DEF CData, IsGet
  <2>1. CASE StoreNext(m)
    <3>1. c_rslot' = [used |-> TRUE, seq |-> m.seq, dat |-> m.dat] /\ c_got' = Written
      BY <2>1 DEF StoreNext
    <3>2. c_rslot'.used /\ c_rslot'.dat = c_rslot'.seq + 1 /\ c_rslot'.dat = m.dat
      BY <2>0, <3>1
    <3>3. WindowInData'
      BY <1>1, <2>0, <2>1, <3>2 DEF WindowInData, IsGet, StoreNext
    <3>4. CASE c_state = "R_ATTR" \/ ~IsGet
      <4>1. c_got' = <<>>
        BY <1>1, <3>1, <3>4 DEF Written, IsGet
      <4> QED
        BY <3>2, <3>3, <4>1 DEF WindowInv, WindowFollows, ListingNotWritten, WrittenInOrder
    <3>5. CASE c_state = "R_DATA" /\ IsGet
      <4>1. c_rslot.used /\ c_got' = Append(c_got, c_rslot.dat)
        BY <1>1, <3>1, <3>5 DEF Written, IsGet
      <4>2. WrittenInOrder' /\ c_got'[Len(c_got')] = c_rslot.dat
        BY <3>5, <4>1, WindowIsWritten
      <4>3. m.seq = NextSeq(c_rslot.seq) /\ c_rslot.dat = c_rslot.seq + 1
        BY <2>1, <4>1 DEF StoreNext, IsNext, WindowInv
      <4>4. m.dat = (c_rslot.dat % SeqMod) + 1
        BY <2>0, <4>3 DEF NextSeq
      <4> QED
        BY <1>1, <3>2, <3>3, <3>5, <4>2, <4>4 DEF WindowInv, WindowFollows, ListingNotWritten
    <3> QED
      BY <2>0, <3>4, <3>5
  <2>2. CASE ~IsNext(m)
    <3>1. c_rslot.used
      BY <2>2 DEF IsNext
    <3>2. UNCHANGED <<c_rslot, c_got>> /\ c_ret' \in {c_ret, "K_FAILURE"}
      BY <1>7, <2>2 DEF CData, StoreNext, StoreAgain, StoreOld, StoreUnexpected
    <3>3. IsGet => c_state = "R_DATA" /\ c_file = "open"
      BY <1>1, <3>1
    <3> QED
      BY <1>1, <2>0, <3>1, <3>2, <3>3
      DEF WindowInv, WindowInData, WindowFollows, ListingNotWritten, WrittenInOrder, IsGet
  <2> QED
    BY <1>7, <2>1, <2>2 DEF CData, StoreAgain, StoreOld, StoreUnexpected, IsOld
<1>8. CASE CEof(m)
  <2>0. /\ c_state' = "R_FILE" /\ c_state \in {"R_ATTR", "R_DATA"} /\ UNCHANGED c_what
        /\ c_file' = IF IsGet THEN "closed" ELSE c_file
        /\ c_got' = Written
        /\ c_rslot' = IF IsGet THEN NoPkt ELSE c_rslot
        /\ c_ret' = "RUN"
    BY <1>8 DEF CEof, FlushToFile, CGoto, IsGet
  <2>1. c_rslot'.used => c_rslot'.dat = c_rslot'.seq + 1
    BY <2>0 DEF NoPkt, WindowInv
  <2>2. WindowInData'
    BY <1>1, <2>0 DEF WindowInData, IsGet, NoPkt
  <2>3. WindowFollows'
    BY <2>0 DEF WindowFollows
  <2>4. CASE c_state = "R_ATTR" \/ ~IsGet
    <3>1. c_got' = <<>>
      BY <1>1, <2>0, <2>4 DEF Written, IsGet
    <3> QED
      BY <2>1, <2>2, <2>3, <3>1 DEF WindowInv, ListingNotWritten, WrittenInOrder
  <2>5. CASE c_state = "R_DATA" /\ IsGet
    <3>1. c_rslot.used /\ c_got' = Append(c_got, c_rslot.dat)
      BY <1>1, <2>0, <2>5 DEF Written, IsGet
    <3> QED
      BY <1>1, <2>1, <2>2, <2>3, <2>5, <3>1, WindowIsWritten DEF WindowInv, ListingNotWritten
  <2> QED
    BY <2>0, <2>4, <2>5
<1> QED
  BY <1>2, <1>3, <1>4, <1>5, <1>6, <1>7, <1>8 DEF CGoodPacket

LEMMA ClientFileStep ==
    ASSUME AnyServerTypeOK, ClientPackets, WrittenInv, ClientNext
    PROVE  WrittenInv'
<1>0. /\ WindowInv /\ ClientKermitOK /\ s2c \in Seq(Packet)
      /\ \A i \in DOMAIN s2c : s2c[i].typ = "D" => s2c[i].dat = s2c[i].seq + 1
  BY DEF WrittenInv, DataNumbered, WindowInv, AnyServerTypeOK, LinkTypeOK, ClientTypeOK, ClientKermitOK
<1>1. s2c' \in {s2c, Tail(s2c)} /\ (s2c' # s2c => s2c # <<>>) /\ UNCHANGED c_mode
  BY DEF ClientNext, ClientReceive, ClientTimeout, ClientGiveUp, ClientIdle, clientVars
<1>2. \A i \in DOMAIN s2c' : s2c'[i].typ = "D" => s2c'[i].dat = s2c'[i].seq + 1
  BY <1>0, <1>1
<1> SUFFICES WindowInv'
  BY <1>2 DEF WrittenInv, DataNumbered, WindowInv
<1>3. ASSUME CNoPacket \/ CBadPacket, c_ret = "RUN" PROVE WindowInv'
  BY <1>0, <1>1, <1>3, KeepFile DEF CNoPacket, CBadPacket, CResend
<1>4. CASE ClientReceive
  <2>1. /\ c_ret = "RUN" /\ Head(s2c) \in Packet
        /\ Head(s2c).typ = "D" => Head(s2c).dat = Head(s2c).seq + 1
    BY <1>0, <1>4 DEF ClientReceive
  <2> QED
    BY <1>0, <1>1, <1>3, <1>4, <2>1, GoodPacketFile DEF ClientReceive
<1>5. CASE ClientTimeout
  BY <1>3, <1>5 DEF ClientTimeout
<1>6. CASE ClientGiveUp
  BY <1>0, <1>6 DEF ClientGiveUp, CLeave, WindowInv, WindowInData, WindowFollows,
     ListingNotWritten, WrittenInOrder, IsGet
<1>7. CASE ClientIdle
  BY <1>0, <1>7 DEF ClientIdle, clientVars, recvVars, WindowInv, WindowInData,
     WindowFollows, ListingNotWritten, WrittenInOrder, IsGet
<1> QED
  BY <1>4, <1>5, <1>6, <1>7 DEF ClientNext
-----------------------------------------------------------------------------
LEMMA AnyServerInvNext == AnyServerInv /\ [AnyServerNext]_anyServerVars => AnyServerInv'
<1> SUFFICES ASSUME AnyServerInv, [AnyServerNext]_anyServerVars PROVE AnyServerInv'
  OBVIOUS
<1> USE DEF AnyServerInv
<1>1. CASE ClientNext
  BY <1>1, ClientStep, ClientFileStep DEF AnyServerTypeOK
<1>2. CASE AnyServerSend
  <2>1. PICK typ \in ServerTypes, seq \in SeqNo :
            /\ typ = "D" => seq < NChunks
            /\ s2c' = <<Pkt(typ, seq, IF typ = "D" THEN seq + 1 ELSE NoText)>>
    BY <1>2 DEF AnyServerSend
  <2> DEFINE p == Pkt(typ, seq, IF typ = "D" THEN seq + 1 ELSE NoText)
  <2>2. typ = "D" => seq + 1 \in Data
    BY <2>1, LinkAssumption DEF SeqNo, Data
  <2>3. p \in Packet
    BY <2>2, TextsAreData, PktType DEF ServerTypes
  <2>4. p.typ = "D" => p.dat = p.seq + 1
    BY DEF Pkt
  <2>5. UNCHANGED clientVars /\ c2s' = <<>>
    BY <1>2 DEF AnyServerSend
  <2> HIDE DEF p
  <2>6. s2c' = <<p>>
    BY <2>1 DEF p
  <2>7. LinkTypeOK' /\ ClientPackets'
    BY <2>3, <2>5, <2>6 DEF LinkTypeOK, ClientPackets
  <2>8. ClientTypeOK'
    BY <2>5 DEF clientVars, recvVars, AnyServerTypeOK, ClientTypeOK
  <2>9. WrittenInv'
    BY <2>4, <2>5, <2>6 DEF clientVars, recvVars, WrittenInv, DataNumbered, WindowInData,
       WindowFollows, ListingNotWritten, WrittenInOrder, IsGet
  <2> QED
    BY <2>7, <2>8, <2>9 DEF AnyServerTypeOK
<1>3. CASE UNCHANGED anyServerVars
  <2>1. AnyServerTypeOK' /\ ClientPackets'
    BY <1>3 DEF anyServerVars, clientVars, recvVars, AnyServerTypeOK, LinkTypeOK, ClientTypeOK, ClientPackets
  <2>2. WrittenInv'
    BY <1>3 DEF anyServerVars, clientVars, recvVars, WrittenInv, DataNumbered, WindowInData,
       WindowFollows, ListingNotWritten, WrittenInOrder, IsGet
  <2> QED
    BY <2>1, <2>2
<1> QED
  BY <1>1, <1>2, <1>3 DEF AnyServerNext

LEMMA AnyServerInvHolds == AnyServerSpec => []AnyServerInv
BY AnyServerInvInit, AnyServerInvNext, PTL DEF AnyServerSpec

(* handle_good_rpkt() and flush_to_file() write the chunks of a file in    *)
(* the order of their numbers, with none missing or twice, whatever the    *)
(* server repeats, skips or sends out of order, however often the numbers  *)
(* wrap around.                                                            *)
THEOREM ClientWrittenInOrder == AnyServerSpec => []WrittenInOrder
<1>1. AnyServerInv => WrittenInOrder
  BY DEF AnyServerInv, WrittenInv
<1> QED
  BY <1>1, AnyServerInvHolds, PTL

(* A GET that reports success has flushed its receive window into the file *)
(* and closed it, whatever the server sent.                                *)
THEOREM ClientNothingLeftBehind == AnyServerSpec => []NothingLeftBehind
<1>1. AnyServerInv => NothingLeftBehind
  BY DEF AnyServerInv, WrittenInv, NothingLeftBehind, WindowInData, IsGet
<1> QED
  BY <1>1, AnyServerInvHolds, PTL

(* While a GET runs, the receive window holds a packet exactly as long as  *)
(* the file is open, so that a repeated packet is acknowledged again.      *)
THEOREM ClientWindowHoldsLatest == AnyServerSpec => []WindowHoldsLatest
<1>1. AnyServerInv => WindowHoldsLatest
  BY DEF AnyServerInv, WrittenInv, WindowHoldsLatest, WindowInData, IsGet
<1> QED
  BY <1>1, AnyServerInvHolds, PTL
=============================================================================
