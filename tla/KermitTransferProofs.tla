------------------------ MODULE KermitTransferProofs ------------------------
(***************************************************************************)
(* The whole transaction: types, that the server's window is full while a  *)
(* transfer is under way, and, from the stop-and-wait argument of FileInv, *)
(* what the two runs of kermit_main may report of a GET.                   *)
(***************************************************************************)
EXTENDS KermitTransfer, KermitProofs

(* No client sends a file, so that a server that is receiving is still     *)
(* waiting for a request.                                                  *)
Waiting == ret = "RUN" /\ what = "W_RECV" => state = "R_WAIT" /\ s_seq = 0

Inv == TypeOK /\ ServerInv /\ ClientPackets /\ Waiting /\ WindowFull
-----------------------------------------------------------------------------
(* The pipe *)

LEMMA SpoiltType ==
    ASSUME NEW q \in Seq(Packet), q # <<>>, NEW t \in {"BAD", "SHORT"}
    PROVE  /\ Spoilt(q, t) \in Seq(Packet)
           /\ DOMAIN Spoilt(q, t) = DOMAIN q
           /\ \A i \in DOMAIN q : Spoilt(q, t)[i].typ \in {q[i].typ, t}
<1>1. 1 \in DOMAIN q /\ q[1] \in Packet
  OBVIOUS
<1>2. q[1].seq \in SeqNo
  BY <1>1 DEF Packet
<1>3. Pkt(t, q[1].seq, NoText) \in Packet /\ Pkt(t, q[1].seq, NoText).typ = t
  BY <1>2, PktType, TextsAreData DEF PacketTypes, Pkt
<1> QED
  BY <1>1, <1>3 DEF Spoilt

LEMMA LinkStep ==
    ASSUME LinkTypeOK, ClientPackets, LinkNext
    PROVE  LinkTypeOK' /\ ClientPackets' /\ (NoErrorSent => NoErrorSent')
<1> USE DEF LinkTypeOK, ClientPackets, NoErrorSent
<1>1. CASE LoseC2S
  BY <1>1 DEF LoseC2S
<1>2. CASE LoseS2C
  BY <1>2 DEF LoseS2C
<1>3. CASE SpoilC2S
  BY <1>3, SpoiltType DEF SpoilC2S, ClientTypes
<1>4. CASE SpoilS2C
  BY <1>4, SpoiltType DEF SpoilS2C
<1> QED
  BY <1>1, <1>2, <1>3, <1>4 DEF LinkNext
-----------------------------------------------------------------------------
(* The server with the packets that a client sends: one step per action    *)
(* that goes on with the loop, the others leave nothing to show.           *)

LEMMA GoodWindowStep ==
    ASSUME KermitOK, ServerInv, Waiting, WindowFull, ret = "RUN",
           NEW m \in Packet, m.typ \in ClientTypes, GoodPacket(m)
    PROVE  Waiting' /\ WindowFull'
<1> USE DEF KermitOK, Waiting, WindowFull
<1>1. /\ Window
      /\ what = "W_RECV" => state = "R_WAIT" /\ s_seq = 0
      /\ what # "W_RECV" => slot.used /\ slot.seq = s_seq /\ s_pw = {s_seq}
  BY DEF ServerInv
<1>2. NextSeq(s_seq) \in SeqNo /\ s_seq \in SeqNo
  BY NextSeqType DEF SendOK
<1>3. {"S", "F", "A", "D", "Z", "B", "X", "Y", "N", "E"} \subseteq PacketTypes
  BY DEF PacketTypes
<1>4. CASE ret' # "RUN"
  BY <1>4
<1> SUFFICES ASSUME ret' = "RUN" PROVE Waiting' /\ WindowFull'
  BY <1>4
<1>10. CASE Ignore(m)
  BY <1>1, <1>10 DEF Ignore, sendVars
<1>11. CASE EotNak(m) \/ ErrorPacket(m) \/ UnknownGeneric(m) \/ GetNotAccessible(m)
  BY <1>11 DEF EotNak, ErrorPacket, UnknownGeneric, GetNotAccessible, Leave
<1>12. CASE StartDir(m) \/ StartGet(m)
  BY <1>1, <1>12, SendInitType DEF StartDir, StartGet, Window
<1>13. ASSUME NEW w \in {"W_SEND", "W_DIR"}, Acked(m, w), what' = what,
              NEW typ \in PacketTypes, NEW seq \in SeqNo, NEW dat \in Data,
              SendPacket(typ, seq, dat)
       PROVE  Waiting' /\ WindowFull'
  <2>1. what = w /\ slot.seq = s_seq /\ s_pw = {s_seq}
    BY <1>1, <1>13 DEF Acked
  <2> QED
    BY <1>13, <2>1, SendPacketType
<1>14. CASE AckMisfiled(m) \/ OpenFails(m) \/ GetDone(m)
  BY <1>14 DEF AckMisfiled, OpenFails, GetDone, Leave
<1>15. CASE SendFile(m)
  BY <1>2, <1>3, <1>13, <1>15, TextsAreData DEF SendFile
<1>16. CASE SendAttr(m)
  BY <1>2, <1>3, <1>13, <1>16, TextsAreData DEF SendAttr
<1>17. CASE SendData(m)
  <2>1. pos + 1 \in Data
    BY <1>17, LinkAssumption DEF SendData, Data
  <2> QED
    BY <1>2, <1>3, <1>13, <1>17, <2>1 DEF SendData, InData
<1>18. CASE SendEof(m)
  BY <1>2, <1>3, <1>13, <1>18, TextsAreData DEF SendEof, InData
<1>19. CASE CancelFile(m)
  BY <1>2, <1>3, <1>13, <1>19, TextsAreData DEF CancelFile
<1>20. CASE SendBreak(m)
  BY <1>2, <1>3, <1>13, <1>20, TextsAreData DEF SendBreak
<1>21. CASE NotAcked(m)
  <2>1. /\ Resend(TRUE) /\ what = "W_SEND" /\ what' = what
        /\ slot.typ \in PacketTypes /\ slot.seq \in SeqNo
    BY <1>1, <1>21 DEF NotAcked, Window
  <2> QED
    BY <1>1, <2>1, ResendType
<1>22. CASE SendText(m)
  BY <1>2, <1>3, <1>13, <1>22, TextsAreData DEF SendText
<1>23. CASE SendListing(m)
  BY <1>2, <1>3, <1>13, <1>23, TextsAreData DEF SendListing
<1>24. CASE ListingFails(m) \/ DirDone(m)
  BY <1>24 DEF ListingFails, DirDone, Leave
<1>25. CASE SendListingEnd(m)
  BY <1>2, <1>3, <1>13, <1>25, TextsAreData DEF SendListingEnd
<1>26. CASE DirNotAcked(m)
  BY <1>1, <1>26 DEF DirNotAcked, Leave, sendVars
<1>27. CASE \/ FirstSInit(m) \/ NotSInit(m) \/ ReceiveHeader(m)
            \/ ReceiveBreak(m) \/ RefuseFile(m)
  <2>1. Receiving(m)
    BY <1>27 DEF FirstSInit, NotSInit, ReceiveHeader, ReceiveBreak, RefuseFile
  <2>2. m.typ \in {"BAD", "SHORT"}
    BY <2>1 DEF Receiving, ClientTypes
  <2>3. NotSInit(m)
    BY <1>1, <1>27, <2>1, <2>2
    DEF Receiving, FirstSInit, ReceiveHeader, ReceiveBreak, RefuseFile
  <2> QED
    BY <1>1, <2>1, <2>3 DEF NotSInit, Receiving, Reply
<1> QED
  BY <1>10, <1>11, <1>12, <1>14, <1>15, <1>16, <1>17, <1>18, <1>19, <1>20, <1>21,
     <1>22, <1>23, <1>24, <1>25, <1>26, <1>27 DEF GoodPacket

LEMMA ServerWindowStep ==
    ASSUME TypeOK, ServerInv, ClientPackets, Waiting, WindowFull, ServerNext
    PROVE  Waiting' /\ WindowFull' /\ ClientPackets'
<1>0. KermitOK /\ c2s \in Seq(Packet)
  BY TypeIsKermitOK DEF TypeOK
<1>1. UNCHANGED c2s => ClientPackets'
  BY DEF ClientPackets
<1>2. ASSUME NoPacket \/ BadPacket, ret = "RUN"
      PROVE  Waiting' /\ WindowFull'
  <2> USE DEF Waiting, WindowFull
  <2>1. what' = what /\ state' = state /\ Window
    BY <1>2 DEF NoPacket, BadPacket, ServerInv
  <2>2. CASE what = "W_RECV"
    BY <1>2, <2>1, <2>2 DEF NoPacket, BadPacket, sendVars
  <2>3. CASE what # "W_RECV"
    <3>1. \E b \in BOOLEAN : Resend(b)
      BY <1>2, <2>3 DEF NoPacket, BadPacket
    <3> QED
      BY <1>0, <1>2, <2>1, <2>3, <3>1, ResendType DEF KermitOK, Window
  <2> QED
    BY <2>2, <2>3
<1>3. CASE ServerReceive
  <2>1. /\ Head(c2s) \in Packet /\ Head(c2s).typ \in ClientTypes
        /\ ClientPackets'
    BY <1>0, <1>3 DEF ServerReceive, ClientPackets
  <2> QED
    BY <1>0, <1>2, <1>3, <2>1, GoodWindowStep DEF ServerReceive
<1>4. CASE ServerTimeout
  BY <1>1, <1>2, <1>4 DEF ServerTimeout
<1>5. CASE ServerGiveUp
  BY <1>1, <1>5 DEF ServerGiveUp, Waiting, WindowFull
<1>6. CASE ServerEnd
  BY <1>1, <1>6 DEF ServerEnd, Waiting, WindowFull
<1> QED
  BY <1>3, <1>4, <1>5, <1>6 DEF ServerNext
-----------------------------------------------------------------------------
LEMMA InvInit == Init => Inv
<1> SUFFICES ASSUME Init PROVE Inv
  OBVIOUS
<1>1. ClientTypeOK /\ LinkTypeOK /\ ClientPackets /\ s2c = <<>>
  BY ClientStart DEF Init
<1>2. ServerTypeOK /\ ServerInv
  BY <1>1, ServerStart DEF Init
<1> QED
  BY <1>1, <1>2 DEF Init, ServerInit, Inv, TypeOK, Waiting, WindowFull

LEMMA InvNext == Inv /\ [Next]_vars => Inv'
<1> SUFFICES ASSUME Inv, [Next]_vars PROVE Inv'
  OBVIOUS
<1> USE DEF Inv, TypeOK
<1>1. CASE Server
  <2>1. ClientTypeOK'
    BY <1>1 DEF Server, clientVars, recvVars, ClientTypeOK
  <2> QED
    BY <1>1, <2>1, ServerStep, ServerWindowStep DEF Server
<1>2. UNCHANGED serverVars => Waiting' /\ WindowFull'
  BY DEF serverVars, sendVars, Waiting, WindowFull
<1>3. CASE Client
  BY <1>2, <1>3, ClientStep, OtherStep DEF Client
<1>4. CASE Link
  <2>1. ClientTypeOK'
    BY <1>4 DEF Link, clientVars, recvVars, ClientTypeOK
  <2> QED
    BY <1>2, <1>4, <2>1, LinkStep, OtherStep DEF Link
<1>5. CASE UNCHANGED vars
  <2>1. ClientTypeOK' /\ LinkTypeOK' /\ ClientPackets' /\ (NoErrorSent => NoErrorSent')
    BY <1>5 DEF vars, clientVars, recvVars, ClientTypeOK, LinkTypeOK, ClientPackets, NoErrorSent
  <2> QED
    BY <1>2, <1>5, <2>1, OtherStep DEF vars
<1> QED
  BY <1>1, <1>3, <1>4, <1>5 DEF Next

LEMMA InvHolds == Spec => []Inv
BY InvInit, InvNext, PTL DEF Spec

(* Both Kermits and the pipe keep their types. *)
THEOREM TransferTypes == Spec => []TypeOK
<1>1. Inv => TypeOK
  BY DEF Inv
<1> QED
  BY <1>1, InvHolds, PTL

(* While a transfer is under way the server's one slot holds the packet    *)
(* numbered s_seq, and s_pw maps that number and no other to it.           *)
THEOREM TransferWindowFull == Spec => []WindowFull
<1>1. Inv => WindowFull
  BY DEF Inv
<1> QED
  BY <1>1, InvHolds, PTL
-----------------------------------------------------------------------------
(***************************************************************************)
(* The file that a GET delivers.                                           *)
(*                                                                         *)
(* The packets of a GET form a chain S, F, A, D 1, ..., D pos, Z, B with   *)
(* consecutive numbers.  The server sends one of them over and over until  *)
(* its number is acknowledged, the pipe keeps the order: what is on its    *)
(* way to the client is the packet of the server's slot, behind copies of  *)
(* the one before it at most.  The invariant says so of the packets, of    *)
(* the ACKs and of what the client has taken in.  Numbers repeat after     *)
(* SeqMod packets, and three consecutive ones are different.               *)
(***************************************************************************)

Sending == ret = "RUN" /\ what = "W_SEND"

(* A packet of the chain *)
Sound(m) == m.typ \notin {"BAD", "SHORT", "E"}

(* The packet in the server's slot *)
Current == Pkt(slot.typ, slot.seq, slot.dat)

(* b comes after a in the chain. *)
Follows(a, b) ==
    /\ b.seq = NextSeq(a.seq)
    /\ \/ a.typ = "S" /\ b.typ = "F"
       \/ a.typ = "F" /\ b.typ = "A"
       \/ a.typ \in {"F", "A"} /\ b.typ = "D" /\ b.dat = 1
       \/ a.typ = "D" /\ b.typ = "D" /\ b.dat = a.dat + 1
       \/ a.typ \in {"F", "A"} /\ b.typ = "Z" /\ pos = 0
       \/ a.typ = "D" /\ b.typ = "Z" /\ a.dat = pos
       \/ a.typ = "Z" /\ b.typ = "B"

FileDone == c_state = "R_FILE" /\ c_file = "closed"

(* The server has read the file to its end, or was asked to stop. *)
Whole == pos = NChunks \/ c_cancel

(* m is the packet that the client took last, or the one after it. *)
Fits(m) ==
    \/ c_state = "R_WAIT" /\ m.typ = "S" /\ m.seq = 0
    \/ /\ c_state = "R_FILE" /\ c_file = "none"
       /\ \/ m.typ = "S" /\ m.seq = 0
          \/ m.typ = "F" /\ m.seq = 1
    \/ /\ c_state = "R_ATTR"
       /\ \/ m.typ \in {"F", "A"}
          \/ m.typ = "D" /\ m.dat = 1
          \/ m.typ = "Z" /\ pos = 0 /\ Whole
    \/ /\ c_state = "R_DATA"
       /\ \/ m.typ = "D" /\ m.dat = c_rslot.dat /\ m.seq = c_rslot.seq
          \/ m.typ = "D" /\ m.dat = c_rslot.dat + 1 /\ m.seq = NextSeq(c_rslot.seq)
          \/ m.typ = "Z" /\ c_rslot.dat = pos /\ Whole
    \/ FileDone /\ m.typ \in {"Z", "B"}

(* The client has taken m in. *)
Has(m) ==
    \/ m.typ = "S" /\ c_state = "R_FILE" /\ c_file = "none"
    \/ m.typ \in {"F", "A"} /\ c_state = "R_ATTR"
    \/ m.typ = "D" /\ c_state = "R_DATA" /\ c_rslot.dat = m.dat /\ c_rslot.seq = m.seq
    \/ m.typ = "Z" /\ FileDone
    \/ m.typ = "B" /\ c_ret = "K_SUCCESS"
-----------------------------------------------------------------------------
(* The client has written the file from its beginning, up to the chunk in  *)
(* its window.                                                             *)
ClientFile ==
    /\ FileIsPrefix
    /\ c_what # "W_DIR"
    /\ c_what = "W_GET" <=> c_state = "R_WAIT"
    /\ c_state # "R_DATA" => ~c_rslot.used
    /\ c_state \in {"R_WAIT", "R_ATTR"} => c_got = <<>> /\ c_file = "none"
    /\ c_state = "R_FILE" => c_file = "closed" \/ (c_file = "none" /\ c_got = <<>>)
    /\ c_state = "R_DATA" => c_rslot.used /\ c_rslot.dat = Len(c_got) + 1
    /\ FileDone => Len(c_got) = pos /\ Whole
    /\ c_ret = "K_SUCCESS" => FileDone

(* The server's state and position tell what is in its slot. *)
ServerChain ==
    /\ ret = "RUN" => what # "W_DIR"
    /\ ret = "RUN" /\ what = "W_RECV" => s2c = <<>> /\ c_state = "R_WAIT" /\ pos = 0
    /\ Sending =>
          \/ state = "S_INIT" /\ slot.typ = "S" /\ slot.seq = 0 /\ pos = 0
          \/ state = "S_FILE" /\ slot.typ = "F" /\ slot.seq = 1 /\ pos = 0
          \/ state = "S_ATTR" /\ slot.typ = "A" /\ pos = 0
          \/ state = "S_DATA" /\ slot.typ = "D" /\ slot.dat = pos
          \/ state = "S_EOF" /\ slot.typ = "Z"
          \/ state = "S_EOT" /\ slot.typ = "B"

(* What is on its way to the client, and the packet in the slot behind it *)
StreamFits ==
    /\ \A i \in DOMAIN s2c : Sound(s2c[i]) => Fits(s2c[i])
    /\ Sending => Fits(Current)

StreamOrdered ==
    /\ \A i, j \in DOMAIN s2c :
          i < j /\ Sound(s2c[i]) /\ Sound(s2c[j]) =>
              s2c[i] = s2c[j] \/ Follows(s2c[i], s2c[j])
    /\ Sending => \A i \in DOMAIN s2c :
          Sound(s2c[i]) => s2c[i] = Current \/ Follows(s2c[i], Current)

ErrorsExplained ==
    \A i \in DOMAIN s2c : s2c[i].typ = "E" => ret \in {"K_FAILURE", "K_TIMEOUT"}

(* Requests are behind no ACK and reach no server that is past S, a cancel *)
(* was asked for, and NAKs come from a client that is done.                *)
Requests ==
    /\ \A i \in DOMAIN c2s :
          /\ c2s[i].typ # "G"
          /\ c2s[i].typ = "N" => c_ret = "K_SUCCESS"
          /\ c2s[i].typ = "Y" => c_state # "R_WAIT"
          /\ c2s[i].typ = "Y" /\ c2s[i].dat = CancelText => c_cancel
          /\ c2s[i].typ = "R" /\ Sending => state = "S_INIT"
    /\ \A i, j \in DOMAIN c2s : i < j /\ c2s[j].typ = "R" => c2s[i].typ # "Y"

(* The client has taken the packet in the slot, and all of those before it *)
(* are gone.                                                               *)
Received ==
    /\ Has(Current)
    /\ \A i \in DOMAIN s2c : Sound(s2c[i]) => s2c[i] = Current

(* A client that waits for B sends ACK 0 at every timeout. *)
Stray(a) == FileDone /\ a.seq = 0

(* The ACKs on their way are for the packet before that in the slot and    *)
(* then for that in the slot, which the client then has.                   *)
Acks ==
    Sending =>
        /\ \A i \in DOMAIN c2s : c2s[i].typ = "Y" =>
              /\ \/ c2s[i].seq = slot.seq
                 \/ slot.seq = NextSeq(c2s[i].seq)
                 \/ Stray(c2s[i])
              /\ c2s[i].seq = slot.seq /\ ~(slot.typ = "B" /\ slot.seq = 0) => Received
        /\ slot.typ # "B" => \A i, j \in DOMAIN c2s :
              i < j /\ c2s[i].typ = "Y" /\ c2s[j].typ = "Y" /\ c2s[i].seq = slot.seq =>
                  c2s[j].seq = slot.seq \/ Stray(c2s[j])

Outcome ==
    /\ ret = "K_SUCCESS" => FileDone
    /\ EotIsAcked /\ NoConfusion /\ NoStaleAck

GetInv ==
    /\ ClientFile /\ ServerChain
    /\ StreamFits /\ StreamOrdered /\ ErrorsExplained
    /\ Requests /\ Acks
    /\ Outcome

(* A DIR writes no file and is never served as a GET. *)
DirInv ==
    /\ c_got = <<>>
    /\ rtype # "A_GET"
    /\ \A i \in DOMAIN c2s : c2s[i].typ # "R"

FileInv == (IsGet => GetInv) /\ (~IsGet => DirInv)
-----------------------------------------------------------------------------
LEMMA NextSeqValue ==
    ASSUME NEW n \in SeqNo
    PROVE  NextSeq(n) = IF n = SeqMod - 1 THEN 0 ELSE n + 1
<1> USE LinkAssumption DEF SeqNo
<1>1. CASE n = SeqMod - 1
  <2>1. n + 1 = SeqMod
    BY <1>1
  <2>2. SeqMod % SeqMod = 0
    OBVIOUS
  <2> QED
    BY <1>1, <2>1, <2>2 DEF NextSeq
<1>2. CASE n # SeqMod - 1
  <2>1. n + 1 \in 0 .. SeqMod - 1
    BY <1>2
  <2>2. (n + 1) % SeqMod = n + 1
    BY <2>1
  <2> QED
    BY <1>2, <2>2 DEF NextSeq
<1> QED
  BY <1>1, <1>2

(* Three consecutive numbers are different: what SeqMod > 2 is for. *)
LEMMA NextSeqDiffers ==
    /\ \A n \in SeqNo : /\ NextSeq(n) \in SeqNo
                        /\ NextSeq(n) # n
                        /\ NextSeq(NextSeq(n)) # n
    /\ NextSeq(0) = 1 /\ 0 \in SeqNo
<1>1. ASSUME NEW n \in SeqNo
      PROVE  NextSeq(n) \in SeqNo /\ NextSeq(n) # n /\ NextSeq(NextSeq(n)) # n
  <2>1. NextSeq(n) \in SeqNo
    BY NextSeqType
  <2>2. /\ NextSeq(n) = IF n = SeqMod - 1 THEN 0 ELSE n + 1
        /\ NextSeq(NextSeq(n)) = IF NextSeq(n) = SeqMod - 1 THEN 0 ELSE NextSeq(n) + 1
    BY <2>1, NextSeqValue
  <2> QED
    BY <2>1, <2>2, LinkAssumption DEF SeqNo
<1>2. NextSeq(0) = 1
  BY ZeroSeq, NextSeqValue, LinkAssumption
<1> QED
  BY <1>1, <1>2, ZeroSeq

LEMMA PktFields ==
    ASSUME NEW typ, NEW seq, NEW dat
    PROVE  /\ Pkt(typ, seq, dat).typ = typ
           /\ Pkt(typ, seq, dat).seq = seq
           /\ Pkt(typ, seq, dat).dat = dat
BY DEF Pkt

(* r is what is left of the queue q when the packet at its head was taken, *)
(* lost or spoilt.                                                         *)
Thinner(q, r) ==
    /\ r \in Seq(Packet)
    /\ \E d \in {0, 1} : \A i \in DOMAIN r :
          /\ i + d \in DOMAIN q
          /\ r[i] = q[i + d] \/ r[i].typ \in {"BAD", "SHORT"}

LEMMA ThinnerQueues ==
    ASSUME NEW q \in Seq(Packet)
    PROVE  /\ Thinner(q, q)
           /\ q # <<>> => Thinner(q, Tail(q))
           /\ q # <<>> => \A t \in {"BAD", "SHORT"} : Thinner(q, Spoilt(q, t))
<1>1. Thinner(q, q)
  BY DEF Thinner
<1>2. q # <<>> => Thinner(q, Tail(q))
  <2> SUFFICES ASSUME q # <<>> PROVE Thinner(q, Tail(q))
    OBVIOUS
  <2>1. Tail(q) \in Seq(Packet) /\ Len(Tail(q)) = Len(q) - 1 /\ Len(q) \in Nat
    OBVIOUS
  <2>2. \A i \in DOMAIN Tail(q) : i + 1 \in DOMAIN q /\ Tail(q)[i] = q[i + 1]
    BY <2>1
  <2> QED
    BY <2>1, <2>2 DEF Thinner
<1>3. ASSUME q # <<>>, NEW t \in {"BAD", "SHORT"} PROVE Thinner(q, Spoilt(q, t))
  <2>1. 1 \in DOMAIN q /\ q[1] \in Packet
    BY <1>3
  <2>2. /\ Spoilt(q, t) \in Seq(Packet) /\ DOMAIN Spoilt(q, t) = DOMAIN q
    BY <1>3, SpoiltType
  <2>3. \A i \in DOMAIN q : Spoilt(q, t)[i] = IF i = 1 THEN Pkt(t, q[1].seq, NoText) ELSE q[i]
    BY <2>1 DEF Spoilt
  <2>4. Pkt(t, q[1].seq, NoText).typ = t
    BY DEF Pkt
  <2>5. \A i \in DOMAIN q : i + 0 = i
    OBVIOUS
  <2> QED
    BY <2>2, <2>3, <2>4, <2>5 DEF Thinner
<1> QED
  BY <1>1, <1>2, <1>3

(* What the client has and takes depends on the client and on pos. *)
LEMMA ClientViewKept ==
    ASSUME UNCHANGED <<clientVars, pos>>
    PROVE  /\ \A m : Fits(m)' <=> Fits(m)
           /\ \A m : Has(m)' <=> Has(m)
           /\ \A a, b : Follows(a, b)' <=> Follows(a, b)
           /\ \A a : Stray(a)' <=> Stray(a)
           /\ ClientFile => ClientFile'
BY DEF clientVars, recvVars, Fits, Has, Follows, Stray, FileDone, Whole, ClientFile,
       FileIsPrefix

(* What is said of the packets to the server stays true of fewer of them. *)
LEMMA RequestsKept ==
    ASSUME Requests, Thinner(c2s, c2s'), UNCHANGED <<c_ret, c_state, c_cancel>>,
           Sending' /\ state' # "S_INIT" => Sending /\ state # "S_INIT"
    PROVE  Requests'
<1>1. PICK d \in {0, 1} : \A i \in DOMAIN c2s' :
          /\ i + d \in DOMAIN c2s
          /\ c2s'[i] = c2s[i + d] \/ c2s'[i].typ \in {"BAD", "SHORT"}
  BY DEF Thinner
<1>2. ASSUME NEW i \in DOMAIN c2s', c2s'[i].typ \notin {"BAD", "SHORT"}
      PROVE  /\ c2s'[i].typ # "G"
             /\ c2s'[i].typ = "N" => c_ret' = "K_SUCCESS"
             /\ c2s'[i].typ = "Y" => c_state' # "R_WAIT"
             /\ c2s'[i].typ = "Y" /\ c2s'[i].dat = CancelText => c_cancel'
             /\ c2s'[i].typ = "R" /\ Sending' => state' = "S_INIT"
  BY <1>1, <1>2 DEF Requests
<1>3. ASSUME NEW i \in DOMAIN c2s', NEW j \in DOMAIN c2s', i < j, c2s'[j].typ = "R"
      PROVE  c2s'[i].typ # "Y"
  <2>1. i \in Int /\ j \in Int
    BY DEF Thinner
  <2>2. i + d < j + d /\ c2s'[j] = c2s[j + d]
    BY <1>1, <1>3, <2>1
  <2> QED
    BY <1>1, <1>3, <2>2 DEF Requests
<1> QED
  BY <1>2, <1>3 DEF Requests
-----------------------------------------------------------------------------
(* What a turn of the server's loop does to a GET: it ends, *)
LEMMA ServerLeaves ==
    ASSUME GetInv, ret' \in Results \ {"RUN"}, UNCHANGED <<clientVars, pos>>,
           s2c \in Seq(Packet), Thinner(c2s, c2s'),
           \/ UNCHANGED s2c
           \/ s2c' = Append(s2c, Pkt("E", 0, NoText)) /\ ret' \in {"K_FAILURE", "K_TIMEOUT"},
           ret = "RUN",
           ret' = "K_SUCCESS" => FileDone /\ (s_seq' # 0 => c_ret = "K_SUCCESS")
    PROVE  GetInv'
<1> USE DEF GetInv
<1>0. /\ \A m : Fits(m)' <=> Fits(m)
      /\ \A a, b : Follows(a, b)' <=> Follows(a, b)
      /\ ClientFile'
  BY ClientViewKept
<1>1. ~Sending'
  BY DEF Sending
<1>2. \A i \in DOMAIN s2c' : s2c'[i].typ = "E" \/ (i \in DOMAIN s2c /\ s2c'[i] = s2c[i])
  BY PktFields
<1>3. ServerChain'
  BY <1>1 DEF ServerChain
<1>4. StreamFits'
  BY <1>0, <1>1, <1>2 DEF StreamFits, Sound
<1>5. StreamOrdered'
  BY <1>0, <1>1, <1>2 DEF StreamOrdered, Sound
<1>6. ErrorsExplained'
  <2>1. ASSUME UNCHANGED s2c, NEW i \in DOMAIN s2c PROVE s2c[i].typ # "E"
    BY <2>1 DEF ErrorsExplained
  <2> QED
    BY <2>1 DEF ErrorsExplained
<1>7. Requests'
  BY <1>1, RequestsKept DEF clientVars, recvVars
<1>8. Acks'
  BY <1>1 DEF Acks
<1>9. Outcome'
  BY DEF Outcome, FileDone, EotIsAcked, NoConfusion, NoStaleAck, Held, clientVars, recvVars
<1> QED
  BY <1>0, <1>3, <1>4, <1>5, <1>6, <1>7, <1>8, <1>9

(* it sends the packet in the slot again or does nothing, *)
LEMMA ServerRepeats ==
    ASSUME GetInv, ret = "RUN", ret' = "RUN", UNCHANGED <<clientVars, pos, what, state>>,
           s2c \in Seq(Packet), Thinner(c2s, c2s'),
           \/ UNCHANGED <<slot, s2c>>
           \/ /\ what = "W_SEND" /\ s2c' \in {s2c, Append(s2c, Current)}
              /\ slot'.typ = slot.typ /\ slot'.seq = slot.seq /\ slot'.dat = slot.dat,
           what # "W_RECV" => slot.typ # "E"
    PROVE  GetInv'
<1> USE DEF GetInv
<1>0. /\ \A m : Fits(m)' <=> Fits(m)
      /\ \A m : Has(m)' <=> Has(m)
      /\ \A a, b : Follows(a, b)' <=> Follows(a, b)
      /\ \A a : Stray(a)' <=> Stray(a)
      /\ ClientFile'
  BY ClientViewKept
<1>1. /\ Sending' = Sending
      /\ slot'.typ = slot.typ /\ slot'.seq = slot.seq /\ slot'.dat = slot.dat
      /\ Current' = Current
  BY DEF Sending, Current
<1>2. /\ \A i \in DOMAIN s2c' : s2c'[i] = Current \/ (i \in DOMAIN s2c /\ s2c'[i] = s2c[i])
      /\ \A i \in DOMAIN s2c' : i \notin DOMAIN s2c =>
            Sending /\ s2c'[i] = Current /\ \A j \in DOMAIN s2c' : j <= i
      /\ Current.typ = slot.typ /\ Current.seq = slot.seq
  BY PktFields DEF Current, Sending
<1>3. ServerChain'
  BY <1>1 DEF ServerChain, Sending, clientVars
<1>4. StreamFits'
  BY <1>0, <1>1, <1>2 DEF StreamFits
<1>5. StreamOrdered'
  <2>1. ASSUME NEW i \in DOMAIN s2c', NEW j \in DOMAIN s2c', i < j,
               Sound(s2c'[i]), Sound(s2c'[j])
        PROVE  s2c'[i] = s2c'[j] \/ Follows(s2c'[i], s2c'[j])
    <3>1. i \in DOMAIN s2c /\ s2c'[i] = s2c[i]
      BY <1>2, <2>1
    <3>2. CASE j \in DOMAIN s2c /\ s2c'[j] = s2c[j]
      BY <2>1, <3>1, <3>2 DEF StreamOrdered
    <3>3. CASE j \notin DOMAIN s2c
      BY <1>2, <2>1, <3>1, <3>3 DEF StreamOrdered
    <3> QED
      BY <3>2, <3>3
  <2>2. ASSUME Sending, NEW i \in DOMAIN s2c', Sound(s2c'[i])
        PROVE  s2c'[i] = Current \/ Follows(s2c'[i], Current)
    BY <1>2, <2>2 DEF StreamOrdered
  <2> QED
    BY <1>0, <1>1, <2>1, <2>2 DEF StreamOrdered
<1>6. ErrorsExplained'
  BY <1>2 DEF ErrorsExplained, Sending
<1>7. Requests'
  BY <1>1, RequestsKept DEF clientVars, recvVars
<1>8. Acks'
  <2>1. Received => Received'
    BY <1>0, <1>1, <1>2 DEF Received
  <2>2. PICK d \in {0, 1} :
           \A i \in DOMAIN c2s' : /\ i + d \in DOMAIN c2s
                                  /\ c2s'[i] = c2s[i + d] \/ c2s'[i].typ \in {"BAD", "SHORT"}
    BY DEF Thinner
  <2>3. \A i \in DOMAIN c2s' : c2s'[i].typ = "Y" => i + d \in DOMAIN c2s /\ c2s'[i] = c2s[i + d]
    BY <2>2
  <2>4. \A i, j \in DOMAIN c2s' : i < j => i + d < j + d
    BY DEF Thinner
  <2>5. ASSUME Sending, NEW i \in DOMAIN c2s', c2s'[i].typ = "Y"
        PROVE  /\ \/ c2s'[i].seq = slot.seq
                  \/ slot.seq = NextSeq(c2s'[i].seq)
                  \/ Stray(c2s'[i])
               /\ c2s'[i].seq = slot.seq /\ ~(slot.typ = "B" /\ slot.seq = 0) => Received'
    BY <2>1, <2>3, <2>5 DEF Acks
  <2>6. ASSUME Sending, slot.typ # "B", NEW i \in DOMAIN c2s', NEW j \in DOMAIN c2s', i < j,
               c2s'[i].typ = "Y", c2s'[j].typ = "Y", c2s'[i].seq = slot.seq
        PROVE  c2s'[j].seq = slot.seq \/ Stray(c2s'[j])
    BY <2>3, <2>4, <2>6 DEF Acks
  <2> QED
    BY <1>0, <1>1, <2>5, <2>6 DEF Acks
<1>9. Outcome'
  BY DEF Outcome, FileDone, EotIsAcked, NoConfusion, NoStaleAck, Held, clientVars, recvVars
<1> QED
  BY <1>0, <1>3, <1>4, <1>5, <1>6, <1>7, <1>8, <1>9

(* it answers the request with S, *)
LEMMA ServerStarts ==
    ASSUME GetInv, ret = "RUN", what = "W_RECV", UNCHANGED <<clientVars, pos, ret>>,
           Thinner(c2s, c2s'), what' = "W_SEND", state' = "S_INIT",
           slot'.typ = "S", slot'.seq = 0, s2c' = Append(s2c, Current')
    PROVE  GetInv'
<1> USE DEF GetInv
<1>0. ClientFile'
  BY ClientViewKept
<1>1. s2c = <<>> /\ c_state = "R_WAIT" /\ c_state' = "R_WAIT" /\ pos' = 0
  BY DEF ServerChain, clientVars
<1>2. s2c' = <<Current'>>
  BY <1>1
<1>3. Current'.typ = "S" /\ Current'.seq = 0
  BY PktFields DEF Current
<1>4. ServerChain'
  BY <1>1 DEF ServerChain
<1>5. Fits(Current)'
  BY <1>1, <1>3 DEF Fits
<1>6. StreamFits'
  BY <1>2, <1>5 DEF StreamFits
<1>7. StreamOrdered' /\ ErrorsExplained'
  BY <1>2, <1>3 DEF StreamOrdered, ErrorsExplained
<1>8. Requests'
  BY RequestsKept DEF clientVars, recvVars
<1>9. Acks'
  BY <1>1, <1>8 DEF Acks, Requests
<1>10. Outcome'
  BY DEF Outcome, EotIsAcked, NoConfusion, NoStaleAck, Held, clientVars, recvVars
<1> QED
  BY <1>0, <1>4, <1>6, <1>7, <1>8, <1>9, <1>10

(* or, when the packet in the slot is acknowledged, it sends the next one. *)
LEMMA ServerAdvances ==
    ASSUME GetInv, Sending, Sending', UNCHANGED clientVars,
           c2s \in Seq(Packet), c2s # <<>>, c2s' = Tail(c2s), s2c \in Seq(Packet),
           Head(c2s).typ = "Y", Head(c2s).seq = slot.seq,
           slot.seq \in SeqNo, slot.typ # "B",
           pos' = pos \/ slot.typ # "Z", pos' <= Held + 1,
           slot'.seq = NextSeq(slot.seq), Sound(Current)',
           s2c' = Append(s2c, Current'),
           NEW a, a = Current, Follows(a, Current)', Fits(Current)', ServerChain'
    PROVE  GetInv'
<1> USE DEF GetInv
<1>1. 1 \in DOMAIN c2s /\ c2s[1] = Head(c2s)
  OBVIOUS
<1>2. Received
  BY <1>1 DEF Acks
<1>3. /\ \A i \in DOMAIN c2s' : i + 1 \in DOMAIN c2s /\ c2s'[i] = c2s[i + 1] /\ 1 < i + 1
      /\ Thinner(c2s, c2s')
  BY ThinnerQueues
<1>4. /\ \A i \in DOMAIN s2c' : (i \in DOMAIN s2c /\ s2c'[i] = s2c[i]) \/ s2c'[i] = Current'
      /\ \A i, j \in DOMAIN s2c' : i < j => i \in DOMAIN s2c /\ s2c'[i] = s2c[i]
  OBVIOUS
<1>5. \A i \in DOMAIN s2c : Sound(s2c[i]) => s2c[i] = a
  BY <1>2 DEF Received
<1>6. a.typ = slot.typ /\ a.seq = slot.seq /\ a.dat = slot.dat
  BY PktFields DEF Current
<1>7. /\ Fits(a) /\ Has(a)
      /\ FileDone => slot.typ = "Z"
  <2>1. Fits(a) /\ Has(a)
    BY <1>2 DEF StreamFits, Received
  <2> QED
    BY <1>6, <2>1 DEF Has, FileDone
<1>8. ClientFile'
  BY <1>7 DEF ClientFile, FileIsPrefix, FileDone, Whole, clientVars, recvVars
<1>9. Fits(a)'
  <2>1. CASE UNCHANGED pos
    BY <1>7, <2>1, ClientViewKept
  <2>2. CASE slot.typ # "Z"
    BY <1>6, <1>7, <2>2 DEF Fits, FileDone, clientVars, recvVars
  <2> QED
    BY <2>1, <2>2
<1>10. StreamFits'
  BY <1>4, <1>5, <1>9 DEF StreamFits
<1>11. StreamOrdered'
  BY <1>4, <1>5 DEF StreamOrdered
<1>12. ErrorsExplained'
  BY <1>4 DEF ErrorsExplained, Sound, Sending
<1>13. \A i \in DOMAIN c2s' : c2s'[i].typ # "R"
  BY <1>1, <1>3 DEF Requests
<1>14. Requests'
  <2>1. \A i \in DOMAIN c2s' : i + 1 \in DOMAIN c2s /\ c2s'[i] = c2s[i + 1]
    BY <1>3
  <2> QED
    BY <1>13, <2>1 DEF Requests, clientVars, recvVars
<1>15. ASSUME NEW i \in DOMAIN c2s', c2s'[i].typ = "Y"
       PROVE  /\ slot'.seq = NextSeq(c2s'[i].seq) \/ Stray(c2s[i])'
              /\ c2s'[i].seq = slot'.seq => slot'.typ = "B" /\ slot'.seq = 0
  <2>1. c2s'[i].seq = slot.seq \/ Stray(c2s'[i])
    BY <1>1, <1>3, <1>15 DEF Acks
  <2>2. CASE c2s'[i].seq = slot.seq
    BY <2>2, NextSeqDiffers
  <2>3. CASE Stray(c2s'[i])
    <3>1. Stray(c2s[i])' /\ FileDone /\ c2s'[i].seq = 0
      BY <2>3 DEF Stray, FileDone, clientVars, recvVars
    <3>2. slot.typ = "Z"
      BY <1>7, <3>1
    <3>3. Current'.typ = "B"
      BY <1>6, <3>2 DEF Follows
    <3>4. slot'.typ = "B"
      BY <3>3, PktFields DEF Current
    <3> QED
      BY <3>1, <3>4
  <2> QED
    BY <2>1, <2>2, <2>3
<1>16. Acks'
  BY <1>15 DEF Acks
<1>17. Outcome'
  BY DEF Outcome, Sending, EotIsAcked, NoConfusion, NoStaleAck, Held, clientVars, recvVars
<1> QED
  BY <1>8, <1>10, <1>11, <1>12, <1>14, <1>16, <1>17
-----------------------------------------------------------------------------
LEMMA ResendKeepsGet ==
    ASSUME Inv, GetInv, Sending, NEW b \in BOOLEAN, Resend(b), Thinner(c2s, c2s'),
           UNCHANGED <<clientVars, what, state, pos>>
    PROVE  GetInv'
<1>1. /\ ret = "RUN" /\ what = "W_SEND" /\ slot \in Slot /\ s2c \in Seq(Packet)
      /\ slot.typ # "E"
  BY DEF Inv, TypeOK, ServerTypeOK, LinkTypeOK, ServerInv, Window, Sending
<1>2. /\ s2c' \in {s2c, Append(s2c, Current)}
      /\ slot'.typ = slot.typ /\ slot'.seq = slot.seq /\ slot'.dat = slot.dat
      /\ ret' = "RUN" \/ (ret' = "K_FAILURE" /\ s2c' = s2c)
  BY <1>1 DEF Resend, Send, Current, Slot
<1>3. CASE ret' = "RUN"
  BY <1>1, <1>2, <1>3, ServerRepeats
<1>4. CASE ret' = "K_FAILURE" /\ s2c' = s2c
  BY <1>1, <1>4, ServerLeaves DEF Results
<1> QED
  BY <1>2, <1>3, <1>4

(* The packet that an ACK of the one in the slot makes the server send     *)
(* follows that one and fits what the client has.                          *)
LEMMA AckedStep ==
    ASSUME Inv, GetInv, IsGet, c2s # <<>>, c2s' = Tail(c2s), UNCHANGED clientVars,
           ret = "RUN", NEW m, m = Head(c2s), Acked(m, "W_SEND"), slot.typ # "B",
           SendFile(m) \/ SendAttr(m) \/ SendData(m) \/ SendEof(m) \/ CancelFile(m) \/ SendBreak(m)
    PROVE  GetInv'
<1>0. /\ slot \in Slot /\ pos \in 0 .. NChunks /\ NChunks \in Nat
      /\ c2s \in Seq(Packet) /\ s2c \in Seq(Packet)
      /\ slot.used /\ slot.seq = s_seq /\ s_pw = {s_seq} /\ s_seq \in SeqNo
  BY LinkAssumption DEF Inv, TypeOK, ServerTypeOK, LinkTypeOK, WindowFull, Acked
<1>1. m.typ = "Y" /\ m.seq = slot.seq /\ Sending
  BY <1>0 DEF Acked, Sending
<1>2. c2s[1] = m /\ 1 \in DOMAIN c2s
  BY <1>0
<1>3. /\ Received /\ Fits(Current)
      /\ m.dat = CancelText => c_cancel
  BY <1>1, <1>2 DEF GetInv, Acks, StreamFits, Requests
<1>4. PICK a : a = Current /\ a.typ = slot.typ /\ a.seq = slot.seq /\ a.dat = slot.dat
  BY PktFields DEF Current
<1>5. Has(a) /\ Fits(a)
  BY <1>3, <1>4 DEF Received
<1>6. /\ pos <= Held + 1
      /\ c_state = "R_DATA" => Held = c_rslot.dat
      /\ Held \in Nat
  <2>1. c_got \in Seq(Data)
    BY DEF Inv, TypeOK, ClientTypeOK
  <2>2. pos <= Held + 1
    BY DEF GetInv, Outcome, NoStaleAck, IsGet
  <2>3. c_state = "R_DATA" => c_rslot.used /\ c_rslot.dat = Len(c_got) + 1
    BY DEF GetInv, ClientFile
  <2> QED
    BY <2>1, <2>2, <2>3 DEF Held
<1>7. ASSUME NEW typ \in {"F", "A", "D", "Z", "B"}, NEW dat,
             SendPacket(typ, NextSeq(s_seq), dat)
      PROVE  /\ slot'.typ = typ /\ slot'.seq = NextSeq(slot.seq) /\ slot'.dat = dat
             /\ Current'.typ = typ /\ Current'.seq = NextSeq(slot.seq) /\ Current'.dat = dat
             /\ s2c' = Append(s2c, Current')
             /\ Sound(Current)'
  <2>1. /\ slot' = [used |-> TRUE, typ |-> typ, seq |-> NextSeq(s_seq), dat |-> dat, rtr |-> 0]
        /\ s2c' = Append(s2c, Pkt(typ, NextSeq(s_seq), dat))
    BY <1>7 DEF SendPacket, Send
  <2>2. slot'.typ = typ /\ slot'.seq = NextSeq(slot.seq) /\ slot'.dat = dat
    BY <1>0, <2>1
  <2>3. Current' = Pkt(typ, NextSeq(s_seq), dat)
    BY <1>0, <2>2 DEF Current
  <2> QED
    BY <1>0, <2>1, <2>2, <2>3, PktFields DEF Sound
<1>8. ASSUME NEW typ \in {"F", "A", "D", "Z", "B"}, NEW dat,
             SendPacket(typ, NextSeq(s_seq), dat), Sending', ServerChain',
             pos' = pos \/ slot.typ # "Z", pos' <= Held + 1,
             Follows(a, Current)', Fits(Current)'
      PROVE  GetInv'
  <2>1. /\ slot'.seq = NextSeq(slot.seq) /\ s2c' = Append(s2c, Current') /\ Sound(Current)'
    BY <1>7, <1>8
  <2>2. slot.seq \in SeqNo /\ Head(c2s).typ = "Y" /\ Head(c2s).seq = slot.seq
    BY <1>0, <1>1
  <2> QED
    BY <1>0, <1>1, <1>4, <1>8, <2>1, <2>2, ServerAdvances
<1>9. ServerChain
  BY DEF GetInv
<1>10. CASE SendFile(m)
  <2>1. /\ slot.typ = "S" /\ slot.seq = 0 /\ pos = 0 /\ pos' = 0 /\ Sending' /\ state' = "S_FILE"
        /\ SendPacket("F", NextSeq(s_seq), NoText)
    BY <1>1, <1>9, <1>10 DEF SendFile, Goto, ServerChain, Sending
  <2>2. /\ slot'.typ = "F" /\ slot'.seq = 1
        /\ Current'.typ = "F" /\ Current'.seq = 1 /\ Current'.seq = NextSeq(slot.seq)
    BY <1>7, <2>1, NextSeqDiffers
  <2>3. c_state' = "R_FILE" /\ c_file' = "none"
    BY <1>4, <1>5, <2>1 DEF Has, clientVars, recvVars
  <2>4. Follows(a, Current)' /\ Fits(Current)'
    BY <1>4, <2>1, <2>2, <2>3 DEF Follows, Fits
  <2>5. ServerChain'
    BY <2>1, <2>2 DEF ServerChain, Sending
  <2> QED
    BY <1>6, <1>8, <2>1, <2>4, <2>5
<1>11. CASE SendAttr(m)
  <2>1. /\ slot.typ = "F" /\ pos = 0 /\ pos' = 0 /\ Sending' /\ state' = "S_ATTR"
        /\ SendPacket("A", NextSeq(s_seq), NoText)
    BY <1>1, <1>9, <1>11 DEF SendAttr, Goto, KeepLoop, fileVars, ServerChain, Sending
  <2>2. slot'.typ = "A" /\ Current'.typ = "A" /\ Current'.seq = NextSeq(slot.seq)
    BY <1>7, <2>1
  <2>3. c_state' = "R_ATTR"
    BY <1>4, <1>5, <2>1 DEF Has, clientVars, recvVars
  <2>4. Follows(a, Current)' /\ Fits(Current)'
    BY <1>4, <2>1, <2>2, <2>3 DEF Follows, Fits
  <2>5. ServerChain'
    BY <2>1, <2>2 DEF ServerChain, Sending
  <2> QED
    BY <1>6, <1>8, <2>1, <2>4, <2>5
<1>12. CASE SendData(m)
  <2>1. /\ slot.typ \in {"F", "A", "D"} /\ pos' = pos + 1 /\ Sending' /\ state' = "S_DATA"
        /\ slot.typ \in {"F", "A"} => pos = 0
        /\ slot.typ = "D" => slot.dat = pos
        /\ SendPacket("D", NextSeq(s_seq), pos + 1)
    BY <1>1, <1>9, <1>12 DEF SendData, InData, Goto, KeepLoop, ServerChain, Sending
  <2>2. /\ slot'.typ = "D" /\ slot'.dat = pos'
        /\ Current'.typ = "D" /\ Current'.dat = pos' /\ Current'.seq = NextSeq(slot.seq)
    BY <1>7, <2>1
  <2>3. /\ slot.typ \in {"F", "A"} => c_state = "R_ATTR"
        /\ slot.typ = "D" => c_state = "R_DATA" /\ c_rslot.dat = pos /\ c_rslot.seq = slot.seq
    BY <1>4, <1>5, <2>1 DEF Has
  <2>4. Follows(a, Current)' /\ Fits(Current)'
    BY <1>4, <2>1, <2>2, <2>3 DEF Follows, Fits, clientVars, recvVars
  <2>5. ServerChain'
    BY <2>1, <2>2 DEF ServerChain, Sending
  <2>6. pos' <= Held + 1
    BY <1>0, <1>6, <2>1, <2>3
  <2> QED
    BY <1>8, <2>1, <2>4, <2>5, <2>6
<1>13. CASE SendEof(m) \/ CancelFile(m)
  <2>1. /\ slot.typ \in {"F", "A", "D"} /\ pos' = pos /\ Sending' /\ state' = "S_EOF"
        /\ slot.typ \in {"F", "A"} => pos = 0
        /\ slot.typ = "D" => slot.dat = pos
        /\ SendPacket("Z", NextSeq(s_seq), NoText)
        /\ Whole
    BY <1>1, <1>3, <1>9, <1>13
    DEF SendEof, CancelFile, Cancelled, InData, Goto, KeepLoop, ServerChain, Sending, Whole
  <2>2. slot'.typ = "Z" /\ Current'.typ = "Z" /\ Current'.seq = NextSeq(slot.seq)
    BY <1>7, <2>1
  <2>3. /\ slot.typ \in {"F", "A"} => c_state = "R_ATTR"
        /\ slot.typ = "D" => c_state = "R_DATA" /\ c_rslot.dat = pos
    BY <1>4, <1>5, <2>1 DEF Has
  <2>4. Whole'
    BY <2>1 DEF Whole, clientVars, recvVars
  <2>5. Follows(a, Current)' /\ Fits(Current)'
    BY <1>4, <2>1, <2>2, <2>3, <2>4 DEF Follows, Fits, clientVars, recvVars
  <2>6. ServerChain'
    BY <2>1, <2>2 DEF ServerChain, Sending
  <2> QED
    BY <1>6, <1>8, <2>1, <2>5, <2>6
<1>14. CASE SendBreak(m)
  <2>1. /\ slot.typ = "Z" /\ pos' = pos /\ Sending' /\ state' = "S_EOT"
        /\ SendPacket("B", NextSeq(s_seq), NoText)
    BY <1>1, <1>9, <1>14 DEF SendBreak, Goto, KeepLoop, fileVars, ServerChain, Sending
  <2>2. slot'.typ = "B" /\ Current'.typ = "B" /\ Current'.seq = NextSeq(slot.seq)
    BY <1>7, <2>1
  <2>3. FileDone'
    BY <1>4, <1>5, <2>1 DEF Has, FileDone, clientVars, recvVars
  <2>4. Follows(a, Current)' /\ Fits(Current)'
    BY <1>4, <2>1, <2>2, <2>3 DEF Follows, Fits
  <2>5. ServerChain'
    BY <2>1, <2>2 DEF ServerChain, Sending
  <2> QED
    BY <1>6, <1>8, <2>1, <2>4, <2>5
<1> QED
  BY <1>10, <1>11, <1>12, <1>13, <1>14

(* kermit(K_RUN, ...) of the server, with the packets that the client of a *)
(* GET sends                                                               *)
LEMMA GetGoodPacket ==
    ASSUME Inv, GetInv, IsGet, ret = "RUN", c2s # <<>>, c2s' = Tail(c2s),
           UNCHANGED clientVars, NEW m, m = Head(c2s),
           m.typ \notin {"SHORT", "BAD"}, GoodPacket(m)
    PROVE  GetInv'
<1>0. /\ c2s \in Seq(Packet) /\ s2c \in Seq(Packet) /\ slot \in Slot /\ cap_at \in BOOLEAN
      /\ Window
      /\ what = "W_RECV" => state = "R_WAIT"
      /\ what # "W_RECV" => slot.seq = s_seq /\ s_pw = {s_seq} /\ s_seq \in SeqNo
  BY DEF Inv, TypeOK, ServerTypeOK, LinkTypeOK, ServerInv, Waiting, WindowFull
<1>1. /\ 1 \in DOMAIN c2s /\ c2s[1] = m
      /\ Thinner(c2s, c2s')
  BY <1>0, ThinnerQueues
<1>2. /\ m.typ \in {"Y", "N", "E", "R"}
      /\ m.typ = "N" => c_ret = "K_SUCCESS"
      /\ m.typ = "R" /\ Sending => state = "S_INIT"
  BY <1>1 DEF Inv, ClientPackets, ClientTypes, GetInv, Requests
<1>3. /\ what \in {"W_RECV", "W_SEND"}
      /\ what = "W_SEND" <=> Sending
  BY DEF Inv, TypeOK, ServerTypeOK, GetInv, ServerChain, Sending
<1>4. what = "W_SEND" => slot.typ # "E" /\ state \in SendStates /\ slot.used
  BY <1>0 DEF Window
<1>5. c_ret = "K_SUCCESS" => FileDone
  BY DEF GetInv, ClientFile
<1>10. CASE Ignore(m)
  <2>1. UNCHANGED <<clientVars, pos, what, state, slot, s2c>> /\ ret' = "RUN"
    BY <1>10 DEF Ignore, KeepLoop, sendVars, fileVars
  <2> QED
    BY <1>0, <1>1, <1>3, <1>4, <2>1, ServerRepeats
<1>11. CASE EotNak(m)
  <2>1. UNCHANGED <<pos, s2c>> /\ ret' = "K_SUCCESS" /\ m.typ = "N"
    BY <1>11 DEF EotNak, IsEotNak, Leave, fileVars
  <2> QED
    BY <1>0, <1>1, <1>2, <1>5, <2>1, ServerLeaves DEF Results
<1>12. CASE ErrorPacket(m)
  <2>1. UNCHANGED <<pos, s2c>> /\ ret' = "K_FAILURE"
    BY <1>12 DEF ErrorPacket, Leave, fileVars
  <2> QED
    BY <1>0, <1>1, <2>1, ServerLeaves DEF Results
<1>13. CASE StartGet(m)
  <2>0. /\ SendInit /\ what' = "W_SEND" /\ state' = "S_INIT" /\ UNCHANGED <<pos, ret>>
        /\ m.typ = "R"
    BY <1>13 DEF StartGet, Goto
  <2>1. CASE what = "W_RECV"
    <3>1. /\ slot' = [used |-> TRUE, typ |-> "S", seq |-> 0, dat |-> Params(cap_at), rtr |-> 0]
          /\ s2c' = Append(s2c, Pkt("S", 0, Params(cap_at)))
      BY <1>0, <2>0, <2>1 DEF SendInit, Window, Send
    <3>2. slot'.typ = "S" /\ slot'.seq = 0 /\ s2c' = Append(s2c, Current')
      BY <3>1 DEF Current
    <3> QED
      BY <1>1, <2>0, <2>1, <3>2, ServerStarts
  <2>2. CASE what = "W_SEND"
    <3>1. UNCHANGED <<slot, s2c, what, state, pos>> /\ ret' = "RUN"
      BY <1>2, <1>3, <1>4, <2>0, <2>2 DEF SendInit, sendVars
    <3> QED
      BY <1>0, <1>1, <1>4, <2>2, <3>1, ServerRepeats
  <2> QED
    BY <1>3, <2>1, <2>2
<1>14. CASE GetNotAccessible(m)
  <2>1. /\ UNCHANGED pos /\ ret' = "K_FAILURE"
        /\ s2c' = Append(s2c, Pkt("E", 0, NoText))
    BY <1>14 DEF GetNotAccessible, Leave, fileVars, SendError, Reply, Send
  <2> QED
    BY <1>0, <1>1, <2>1, ServerLeaves DEF Results
<1>15. CASE \/ SendFile(m) \/ SendAttr(m) \/ SendData(m) \/ SendEof(m)
            \/ CancelFile(m) \/ SendBreak(m)
  <2>1. Acked(m, "W_SEND") /\ state # "S_EOT"
    BY <1>15 DEF SendFile, SendAttr, SendData, SendEof, InData, CancelFile, Cancelled, SendBreak
  <2>2. slot.typ # "B"
    BY <1>3, <2>1 DEF GetInv, ServerChain, Acked
  <2> QED
    BY <1>15, <2>1, <2>2, AckedStep
<1>16. CASE OpenFails(m)
  <2>1. UNCHANGED <<pos, s2c>> /\ ret' = "K_FAILURE"
    BY <1>16 DEF OpenFails
  <2> QED
    BY <1>0, <1>1, <2>1, ServerLeaves DEF Results
<1>17. CASE GetDone(m)
  <2>1. /\ UNCHANGED <<pos, s2c, s_seq>> /\ ret' = "K_SUCCESS"
        /\ Acked(m, "W_SEND") /\ state = "S_EOT"
    BY <1>17 DEF GetDone, Leave, fileVars
  <2>2. m.typ = "Y" /\ m.seq = slot.seq /\ Sending /\ slot.typ = "B"
    BY <1>0, <1>3, <2>1 DEF Acked, GetInv, ServerChain
  <2>3. Current.typ = "B"
    BY <2>2, PktFields DEF Current
  <2>4. FileDone
    BY <2>2, <2>3 DEF GetInv, StreamFits, Fits
  <2>5. s_seq # 0 => c_ret = "K_SUCCESS"
    <3> SUFFICES ASSUME s_seq # 0 PROVE c_ret = "K_SUCCESS"
      OBVIOUS
    <3>1. Has(Current)
      BY <1>0, <1>1, <1>3, <2>2 DEF GetInv, Acks, Received
    <3> QED
      BY <2>3, <3>1 DEF Has
  <2> QED
    BY <1>0, <1>1, <2>1, <2>4, <2>5, ServerLeaves DEF Results
<1>18. CASE NotAcked(m)
  <2>1. Resend(TRUE) /\ what = "W_SEND" /\ UNCHANGED <<what, state, pos>>
    BY <1>18 DEF NotAcked, fileVars
  <2> QED
    BY <1>1, <1>3, <2>1, ResendKeepsGet
<1>19. ~AckMisfiled(m)
  BY <1>0 DEF AckMisfiled
<1>20. /\ ~StartDir(m) /\ ~UnknownGeneric(m) /\ ~SendText(m) /\ ~SendListing(m)
       /\ ~ListingFails(m) /\ ~SendListingEnd(m) /\ ~DirDone(m) /\ ~DirNotAcked(m)
       /\ ~FirstSInit(m) /\ ~NotSInit(m) /\ ~ReceiveHeader(m)
       /\ ~ReceiveBreak(m) /\ ~RefuseFile(m)
  BY <1>2, <1>3
  DEF StartDir, UnknownGeneric, SendText, SendListing, ListingFails, SendListingEnd,
      DirDone, DirNotAcked, FirstSInit, NotSInit, ReceiveHeader, ReceiveBreak, RefuseFile,
      Receiving, Acked
<1> QED
  BY <1>10, <1>11, <1>12, <1>13, <1>14, <1>15, <1>16, <1>17, <1>18, <1>19, <1>20
  DEF GoodPacket

(* Any step of the server *)
LEMMA ServerKeepsGet ==
    ASSUME Inv, GetInv, IsGet, ServerNext, UNCHANGED clientVars
    PROVE  GetInv'
<1>0. /\ c2s \in Seq(Packet) /\ s2c \in Seq(Packet) /\ ret = "RUN"
      /\ what = "W_RECV" => state = "R_WAIT"
      /\ what # "W_RECV" => slot.typ # "E"
  BY DEF Inv, TypeOK, LinkTypeOK, ServerInv, Window, Waiting,
         ServerNext, ServerReceive, ServerTimeout, ServerGiveUp, ServerEnd
<1>1. /\ what \in {"W_RECV", "W_SEND"}
      /\ what = "W_SEND" <=> Sending
  BY <1>0 DEF Inv, TypeOK, ServerTypeOK, GetInv, ServerChain, Sending
<1>2. ASSUME NoPacket \/ BadPacket, Thinner(c2s, c2s') PROVE GetInv'
  <2>1. UNCHANGED <<what, state, pos>>
    BY <1>2 DEF NoPacket, BadPacket, fileVars
  <2>2. CASE what = "W_RECV"
    <3>1. UNCHANGED <<slot, s2c, ret>>
      BY <1>0, <1>2, <2>2 DEF NoPacket, BadPacket, sendVars
    <3> QED
      BY <1>0, <1>2, <2>1, <2>2, <3>1, ServerRepeats
  <2>3. CASE what = "W_SEND"
    <3>1. \E b \in BOOLEAN : Resend(b)
      BY <1>2, <2>3 DEF NoPacket, BadPacket
    <3> QED
      BY <1>1, <1>2, <2>1, <2>3, <3>1, ResendKeepsGet
  <2> QED
    BY <1>1, <2>2, <2>3
<1>3. CASE ServerReceive
  <2>1. c2s # <<>> /\ c2s' = Tail(c2s) /\ Thinner(c2s, c2s')
    BY <1>0, <1>3, ThinnerQueues DEF ServerReceive
  <2> QED
    BY <1>0, <1>2, <1>3, <2>1, GetGoodPacket DEF ServerReceive
<1>4. CASE ServerTimeout
  BY <1>0, <1>2, <1>4, ThinnerQueues DEF ServerTimeout
<1>5. CASE ServerGiveUp
  <2>1. /\ ret' = "K_TIMEOUT" /\ UNCHANGED <<pos, c2s>>
        /\ UNCHANGED s2c \/ s2c' = Append(s2c, Pkt("E", 0, NoText))
    BY <1>5 DEF ServerGiveUp, SendError, Reply, Send
  <2> QED
    BY <1>0, <2>1, ServerLeaves, ThinnerQueues DEF Results
<1>6. CASE ServerEnd
  <2>1. ret' = "K_END" /\ UNCHANGED <<pos, c2s, s2c>>
    BY <1>6 DEF ServerEnd, fileVars
  <2> QED
    BY <1>0, <2>1, ServerLeaves, ThinnerQueues DEF Results
<1> QED
  BY <1>3, <1>4, <1>5, <1>6 DEF ServerNext
-----------------------------------------------------------------------------
(* What is said of the packets to the client stays true of fewer of them. *)
LEMMA StreamKept ==
    ASSUME StreamFits, StreamOrdered, ErrorsExplained, ServerChain,
           Thinner(s2c, s2c'), UNCHANGED serverVars,
           \A m : Fits(m) => Fits(m)', c_state = "R_WAIT" => c_state' = "R_WAIT"
    PROVE  /\ StreamFits' /\ StreamOrdered' /\ ErrorsExplained' /\ ServerChain'
           /\ Received /\ Has(Current)' => Received'
<1>1. PICK d \in {0, 1} : \A i \in DOMAIN s2c' :
          /\ i + d \in DOMAIN s2c
          /\ s2c'[i] = s2c[i + d] \/ s2c'[i].typ \in {"BAD", "SHORT"}
  BY DEF Thinner
<1>2. \A i \in DOMAIN s2c' : Sound(s2c'[i]) =>
          s2c'[i] = s2c[i + d] /\ i + d \in DOMAIN s2c /\ Sound(s2c[i + d])
  BY <1>1 DEF Sound
<1>3. /\ Current' = Current /\ Sending' = Sending
      /\ \A a, b : Follows(a, b)' <=> Follows(a, b)
  BY DEF Current, Sending, Follows, serverVars, sendVars, fileVars
<1>4. StreamFits'
  BY <1>2, <1>3 DEF StreamFits
<1>5. StreamOrdered'
  <2>1. ASSUME NEW i \in DOMAIN s2c', NEW j \in DOMAIN s2c', i < j,
               Sound(s2c'[i]), Sound(s2c'[j])
        PROVE  s2c'[i] = s2c'[j] \/ Follows(s2c'[i], s2c'[j])
    <3>1. i \in Int /\ j \in Int
      BY DEF Thinner
    <3>2. i + d < j + d
      BY <1>1, <2>1, <3>1
    <3> QED
      BY <1>2, <2>1, <3>2 DEF StreamOrdered
  <2> QED
    BY <1>2, <1>3, <2>1 DEF StreamOrdered
<1>6. ErrorsExplained'
  BY <1>1 DEF ErrorsExplained, serverVars
<1>7. ServerChain'
  <2>1. s2c = <<>> => s2c' = <<>>
    <3> SUFFICES ASSUME s2c = <<>>, s2c' # <<>> PROVE FALSE
      OBVIOUS
    <3>1. 1 \in DOMAIN s2c'
      BY DEF Thinner
    <3> QED
      BY <1>1, <3>1
  <2> QED
    BY <1>3, <2>1 DEF ServerChain, serverVars, sendVars, fileVars
<1>8. Received /\ Has(Current)' => Received'
  BY <1>2, <1>3 DEF Received
<1> QED
  BY <1>4, <1>5, <1>6, <1>7, <1>8

(* What the pipe does *)
LEMMA LinkKeepsGet ==
    ASSUME GetInv, UNCHANGED <<serverVars, clientVars>>,
           Thinner(c2s, c2s'), Thinner(s2c, s2c')
    PROVE  GetInv'
<1> USE DEF GetInv
<1>0. /\ \A m : Fits(m)' <=> Fits(m)
      /\ \A m : Has(m)' <=> Has(m)
      /\ \A a : Stray(a)' <=> Stray(a)
      /\ ClientFile'
  BY ClientViewKept DEF serverVars, fileVars
<1>1. /\ StreamFits' /\ StreamOrdered' /\ ErrorsExplained' /\ ServerChain'
      /\ Received => Received'
  <2>1. Current' = Current
    BY DEF Current, serverVars, sendVars
  <2> QED
    BY <1>0, <2>1, StreamKept DEF clientVars, Received
<1>2. Sending' = Sending /\ slot' = slot /\ state' = state
  BY DEF Sending, serverVars, sendVars
<1>3. Requests'
  BY <1>2, RequestsKept DEF clientVars, recvVars
<1>4. Acks'
  BY <1>0, <1>1, <1>2 DEF Acks, Thinner
<1>5. Outcome'
  BY DEF Outcome, FileDone, EotIsAcked, NoConfusion, NoStaleAck, Held, clientVars, recvVars,
         serverVars, sendVars, fileVars
<1> QED
  BY <1>0, <1>1, <1>3, <1>4, <1>5

(* A step of the client that takes in no packet of the chain: it may       *)
(* repeat its request or its parameters, refuse B when it is done, or end. *)
LEMMA ClientKeeps ==
    ASSUME Inv, GetInv, Thinner(s2c, s2c'),
           UNCHANGED <<serverVars, c_mode, c_what, c_state, c_rslot, c_got, c_cancel>>,
           c_file' = c_file \/ c_state = "R_DATA",
           c_ret' = c_ret \/ (c_ret = "RUN" /\ c_ret' \in {"K_FAILURE", "K_TIMEOUT"}),
           NoConfusion',
           \/ UNCHANGED c2s
           \/ \E p \in Packet :
                 /\ c2s' = Append(c2s, p)
                 /\ \/ p.typ = "E"
                    \/ p.typ = "R" /\ c_state = "R_WAIT"
                    \/ p.typ = "N" /\ c_ret = "K_SUCCESS"
                    \/ p.typ = "Y" /\ p.seq = 0 /\ p.dat # CancelText /\ c_state = "R_FILE"
    PROVE  GetInv'
<1> USE DEF GetInv
<1>0. /\ c2s \in Seq(Packet) /\ FileDone' = FileDone /\ pos' = pos
      /\ Sending' = Sending /\ slot' = slot /\ state' = state /\ Current' = Current
  BY DEF Inv, TypeOK, LinkTypeOK, FileDone, Sending, Current, serverVars, sendVars, fileVars
<1>1. /\ \A m : Fits(m) => Fits(m)'
      /\ \A m : Has(m) => Has(m)'
      /\ \A a : Stray(a)' <=> Stray(a)
  BY <1>0 DEF Fits, Has, Stray, Whole, FileDone
<1>2. ClientFile'
  BY <1>0 DEF ClientFile, FileIsPrefix, Whole
<1>3. /\ StreamFits' /\ StreamOrdered' /\ ErrorsExplained' /\ ServerChain'
      /\ Received => Received'
  BY <1>0, <1>1, StreamKept DEF Received
<1>4. Outcome'
  BY <1>0 DEF Outcome, EotIsAcked, NoStaleAck, Held, serverVars, sendVars, fileVars
<1>5. CASE UNCHANGED c2s
  <2>1. Requests'
    BY <1>0, <1>5 DEF Requests
  <2>2. Acks'
    BY <1>0, <1>1, <1>3, <1>5 DEF Acks
  <2> QED
    BY <1>2, <1>3, <1>4, <2>1, <2>2
<1>6. ASSUME NEW p \in Packet, c2s' = Append(c2s, p),
             \/ p.typ = "E"
             \/ p.typ = "R" /\ c_state = "R_WAIT"
             \/ p.typ = "N" /\ c_ret = "K_SUCCESS"
             \/ p.typ = "Y" /\ p.seq = 0 /\ p.dat # CancelText /\ c_state = "R_FILE"
      PROVE  GetInv'
  <2>1. /\ \A i \in DOMAIN c2s' : (i \in DOMAIN c2s /\ c2s'[i] = c2s[i]) \/ c2s'[i] = p
        /\ \A i, j \in DOMAIN c2s' : i < j => i \in DOMAIN c2s /\ c2s'[i] = c2s[i]
    BY <1>0, <1>6
  <2>2. c_state = "R_WAIT" /\ Sending => state = "S_INIT"
    <3>1. c_state = "R_WAIT" /\ Sending => Current.typ = "S"
      BY DEF StreamFits, Fits, FileDone
    <3>2. Current.typ = slot.typ
      BY PktFields DEF Current
    <3> QED
      BY <3>1, <3>2 DEF ServerChain
  <2>3. Requests'
    <3>1. ASSUME NEW i \in DOMAIN c2s'
          PROVE  /\ c2s'[i].typ # "G"
                 /\ c2s'[i].typ = "N" => c_ret' = "K_SUCCESS"
                 /\ c2s'[i].typ = "Y" => c_state' # "R_WAIT"
                 /\ c2s'[i].typ = "Y" /\ c2s'[i].dat = CancelText => c_cancel'
                 /\ c2s'[i].typ = "R" /\ Sending' => state' = "S_INIT"
      <4>1. CASE i \in DOMAIN c2s /\ c2s'[i] = c2s[i]
        BY <1>0, <4>1 DEF Requests
      <4>2. CASE c2s'[i] = p
        BY <1>0, <1>6, <2>2, <4>2
      <4> QED
        BY <2>1, <4>1, <4>2
    <3>2. ASSUME NEW i \in DOMAIN c2s', NEW j \in DOMAIN c2s', i < j, c2s'[j].typ = "R"
          PROVE  c2s'[i].typ # "Y"
      <4>1. i \in DOMAIN c2s /\ c2s'[i] = c2s[i]
        BY <2>1, <3>2
      <4>2. CASE j \in DOMAIN c2s /\ c2s'[j] = c2s[j]
        BY <3>2, <4>1, <4>2 DEF Requests
      <4>3. CASE c2s'[j] = p
        BY <1>6, <3>2, <4>1, <4>3 DEF Requests
      <4> QED
        BY <2>1, <4>2, <4>3
    <3> QED
      BY <3>1, <3>2 DEF Requests
  <2>4. ASSUME Sending, p.typ = "Y"
        PROVE  /\ p.seq = slot.seq \/ slot.seq = NextSeq(p.seq) \/ Stray(p)
               /\ p.seq = slot.seq /\ ~(slot.typ = "B" /\ slot.seq = 0) => Received
               /\ \A i \in DOMAIN c2s : c2s[i].typ = "Y" /\ c2s[i].seq = slot.seq /\ slot.typ # "B"
                     => p.seq = slot.seq \/ Stray(p)
    <3>0. p.seq = 0 /\ c_state = "R_FILE" /\ Fits(Current)
      BY <1>6, <2>4 DEF StreamFits
    <3>1. Current.typ = slot.typ /\ Current.seq = slot.seq
      BY PktFields DEF Current
    <3>2. CASE c_file = "none"
      <4>0. ~FileDone
        BY <3>2 DEF FileDone
      <4>1. slot.typ = "S" \/ (slot.typ = "F" /\ slot.seq = 1)
        BY <3>0, <3>1, <4>0 DEF Fits
      <4>2. CASE slot.typ = "S"
        <5>1. slot.seq = 0
          BY <2>4, <4>2 DEF ServerChain
        <5>2. \A i \in DOMAIN s2c : Sound(s2c[i]) => s2c[i] = Current
          BY <2>4, <3>1, <4>2 DEF StreamOrdered, Follows
        <5>3. Received
          BY <3>0, <3>1, <3>2, <4>2, <5>2 DEF Received, Has
        <5> QED
          BY <3>0, <5>1, <5>3
      <4>3. CASE slot.typ = "F" /\ slot.seq = 1
        <5>1. slot.seq = NextSeq(p.seq) /\ p.seq # slot.seq
          BY <3>0, <4>3, NextSeqDiffers
        <5>2. ~Has(Current)
          BY <3>0, <3>1, <4>3 DEF Has
        <5>3. \A i \in DOMAIN c2s : c2s[i].typ = "Y" => c2s[i].seq # slot.seq
          BY <2>4, <4>3, <5>2 DEF Acks, Received
        <5> QED
          BY <5>1, <5>3
      <4> QED
        BY <4>1, <4>2, <4>3
    <3>3. CASE FileDone
      <4>1. Stray(p)
        BY <3>0, <3>3 DEF Stray
      <4>2. slot.typ \in {"Z", "B"}
        BY <3>0, <3>1, <3>3 DEF Fits, FileDone
      <4>3. ASSUME p.seq = slot.seq, ~(slot.typ = "B" /\ slot.seq = 0) PROVE Received
        <5>1. slot.typ = "Z"
          BY <3>0, <4>2, <4>3
        <5>2. \A i \in DOMAIN s2c : Sound(s2c[i]) => s2c[i].typ \in {"Z", "B"}
          BY <3>3 DEF StreamFits, Fits, FileDone
        <5>3. \A i \in DOMAIN s2c : Sound(s2c[i]) => s2c[i] = Current
          BY <2>4, <3>1, <5>1, <5>2 DEF StreamOrdered, Follows
        <5> QED
          BY <3>1, <3>3, <5>1, <5>3 DEF Received, Has
      <4> QED
        BY <4>1, <4>3
    <3> QED
      BY <3>0, <3>2, <3>3 DEF ClientFile, FileDone
  <2>5. Acks'
    <3> SUFFICES ASSUME Sending PROVE Acks'
      BY <1>0 DEF Acks
    <3>1. ASSUME NEW i \in DOMAIN c2s', c2s'[i].typ = "Y"
          PROVE  /\ \/ c2s'[i].seq = slot.seq
                    \/ slot.seq = NextSeq(c2s'[i].seq)
                    \/ Stray(c2s'[i])
                 /\ c2s'[i].seq = slot.seq /\ ~(slot.typ = "B" /\ slot.seq = 0) => Received
      BY <2>1, <2>4, <3>1 DEF Acks
    <3>2. ASSUME slot.typ # "B", NEW i \in DOMAIN c2s', NEW j \in DOMAIN c2s',
                 i < j, c2s'[i].typ = "Y", c2s'[j].typ = "Y", c2s'[i].seq = slot.seq
          PROVE  c2s'[j].seq = slot.seq \/ Stray(c2s'[j])
      <4>1. i \in DOMAIN c2s /\ c2s'[i] = c2s[i]
        BY <2>1, <3>2
      <4>2. CASE j \in DOMAIN c2s /\ c2s'[j] = c2s[j]
        BY <3>2, <4>1, <4>2 DEF Acks
      <4>3. CASE c2s'[j] = p
        BY <2>4, <3>2, <4>1, <4>3
      <4> QED
        BY <2>1, <4>2, <4>3
    <3> QED
      BY <1>0, <1>1, <1>3, <3>1, <3>2 DEF Acks
  <2> QED
    BY <1>2, <1>3, <1>4, <2>3, <2>5
<1> QED
  BY <1>5, <1>6

LEMMA OneAhead ==
    \A p, h, k \in Nat : p <= h + 1 /\ h <= k => p <= k + 1
OBVIOUS

(* The client takes a packet of the chain, for the first time or again,    *)
(* and acknowledges it.                                                    *)
LEMMA ClientTakes ==
    ASSUME Inv, GetInv, IsGet, UNCHANGED <<serverVars, c_mode>>, s2c # <<>>, s2c' = Tail(s2c),
           NEW m, m = Head(s2c), Sound(m),
           NEW text \in Data, c2s' = Append(c2s, Pkt("Y", m.seq, text)),
           text = CancelText => c_cancel',
           c_ret = "RUN", c_ret' \in {"RUN", "K_SUCCESS"}, c_state' # "R_WAIT",
           c_cancel => c_cancel', FileDone => FileDone',
           ClientFile', Held' \in Nat, Held <= Held', Has(m)',
           \A b \in Packet : Fits(b) /\ (b = m \/ Follows(m, b)) => Fits(b)'
    PROVE  GetInv'
<1> USE DEF GetInv
<1>0. /\ c2s \in Seq(Packet) /\ s2c \in Seq(Packet) /\ m \in Packet
      /\ 1 \in DOMAIN s2c /\ s2c[1] = m
      /\ Len(s2c') = Len(s2c) - 1 /\ Len(s2c) \in Nat
  BY DEF Inv, TypeOK, LinkTypeOK
<1>1. /\ \A i \in DOMAIN s2c' : i + 1 \in DOMAIN s2c /\ s2c'[i] = s2c[i + 1]
      /\ \A i, j \in DOMAIN s2c' : i < j => i + 1 < j + 1
      /\ \A i \in DOMAIN s2c' : 1 < i + 1
  BY <1>0
<1>2. \A i \in DOMAIN s2c' : Sound(s2c'[i]) =>
          /\ s2c'[i] \in Packet /\ Fits(s2c'[i])
          /\ s2c'[i] = m \/ Follows(m, s2c'[i])
  BY <1>0, <1>1 DEF StreamFits, StreamOrdered
<1>3. /\ Current' = Current /\ Sending' = Sending /\ slot' = slot /\ state' = state
      /\ \A a, b : Follows(a, b)' <=> Follows(a, b)
      /\ Current.typ = slot.typ /\ Current.seq = slot.seq
  BY PktFields DEF Current, Sending, Follows, serverVars, sendVars, fileVars
<1>4. Sending => Fits(Current) /\ (m = Current \/ Follows(m, Current)) /\ Current \in Packet
  <2>1. Sending => slot.typ \in PacketTypes /\ slot.seq \in SeqNo /\ slot.dat \in Data
    BY DEF Inv, TypeOK, ServerTypeOK, Slot, ServerInv, Window, Sending
  <2> QED
    BY <1>0, <2>1, PktType DEF StreamFits, StreamOrdered, Current
<1>5. StreamFits'
  BY <1>2, <1>3, <1>4 DEF StreamFits
<1>6. StreamOrdered'
  <2>1. ASSUME NEW i \in DOMAIN s2c', NEW j \in DOMAIN s2c', i < j,
               Sound(s2c'[i]), Sound(s2c'[j])
        PROVE  s2c'[i] = s2c'[j] \/ Follows(s2c'[i], s2c'[j])
    BY <1>1, <2>1 DEF StreamOrdered
  <2>2. Sending => \A i \in DOMAIN s2c' :
            Sound(s2c'[i]) => s2c'[i] = Current \/ Follows(s2c'[i], Current)
    BY <1>1 DEF StreamOrdered
  <2> QED
    BY <1>3, <2>1, <2>2 DEF StreamOrdered
<1>7. ErrorsExplained'
  BY <1>1 DEF ErrorsExplained, serverVars
<1>8. ServerChain'
  BY <1>0, <1>3 DEF ServerChain, serverVars, fileVars
<1>9. m.seq \in SeqNo
  BY <1>0 DEF Packet
<1> DEFINE y == Pkt("Y", m.seq, text)
<1>10. /\ y.typ = "Y" /\ y.seq = m.seq /\ y.dat = text
       /\ \A i \in DOMAIN c2s' : (i \in DOMAIN c2s /\ c2s'[i] = c2s[i]) \/ c2s'[i] = y
       /\ \A i, j \in DOMAIN c2s' : i < j => i \in DOMAIN c2s /\ c2s'[i] = c2s[i]
  BY <1>0, PktFields
<1> HIDE DEF y
<1>11. Requests'
  <2>1. ASSUME NEW i \in DOMAIN c2s'
        PROVE  /\ c2s'[i].typ # "G"
               /\ c2s'[i].typ = "N" => c_ret' = "K_SUCCESS"
               /\ c2s'[i].typ = "Y" => c_state' # "R_WAIT"
               /\ c2s'[i].typ = "Y" /\ c2s'[i].dat = CancelText => c_cancel'
               /\ c2s'[i].typ = "R" /\ Sending' => state' = "S_INIT"
    <3>1. CASE i \in DOMAIN c2s /\ c2s'[i] = c2s[i]
      BY <1>3, <3>1 DEF Requests
    <3>2. CASE c2s'[i] = y
      BY <1>10, <3>2
    <3> QED
      BY <1>10, <3>1, <3>2
  <2>2. ASSUME NEW i \in DOMAIN c2s', NEW j \in DOMAIN c2s', i < j, c2s'[j].typ = "R"
        PROVE  c2s'[i].typ # "Y"
    BY <1>10, <2>2 DEF Requests
  <2> QED
    BY <2>1, <2>2 DEF Requests
<1>12. ASSUME Sending, m = Current PROVE Received'
  <2>1. ASSUME NEW i \in DOMAIN s2c', Sound(s2c'[i]) PROVE s2c'[i] = Current
    <3>1. s2c'[i] = Current \/ Follows(s2c'[i], Current)
      BY <1>1, <1>12, <2>1 DEF StreamOrdered
    <3>2. s2c'[i] = Current \/ Follows(Current, s2c'[i])
      BY <1>2, <1>12, <2>1
    <3>3. Current.seq \in SeqNo
      BY <1>9, <1>12
    <3>4. ASSUME Follows(s2c'[i], Current), Follows(Current, s2c'[i]) PROVE FALSE
      <4>1. Current.seq = NextSeq(NextSeq(Current.seq))
        BY <3>4 DEF Follows
      <4> QED
        BY <3>3, <4>1, NextSeqDiffers
    <3> QED
      BY <3>1, <3>2, <3>4
  <2>2. Has(Current)'
    BY <1>3, <1>12
  <2> QED
    BY <1>3, <2>1, <2>2 DEF Received
<1>13. ASSUME Sending, Received PROVE m = Current
  BY <1>0, <1>13 DEF Received
<1>14. ASSUME Sending PROVE /\ m.seq = slot.seq => m = Current
                            /\ m.seq = slot.seq \/ slot.seq = NextSeq(m.seq)
  BY <1>3, <1>4, <1>9, <1>14, NextSeqDiffers DEF Follows
<1>15. \A a : Stray(a) => Stray(a)'
  BY DEF Stray
<1>16. Acks'
  <2> SUFFICES ASSUME Sending PROVE Acks'
    BY <1>3 DEF Acks
  <2>1. ASSUME NEW i \in DOMAIN c2s', c2s'[i].typ = "Y"
        PROVE  /\ \/ c2s'[i].seq = slot.seq
                  \/ slot.seq = NextSeq(c2s'[i].seq)
                  \/ Stray(c2s'[i])
               /\ c2s'[i].seq = slot.seq /\ ~(slot.typ = "B" /\ slot.seq = 0) => Received'
    <3>1. CASE i \in DOMAIN c2s /\ c2s'[i] = c2s[i]
      BY <1>12, <1>13, <2>1, <3>1 DEF Acks
    <3>2. CASE c2s'[i] = y
      BY <1>10, <1>12, <1>14, <3>2
    <3> QED
      BY <1>10, <3>1, <3>2
  <2>2. ASSUME slot.typ # "B", NEW i \in DOMAIN c2s', NEW j \in DOMAIN c2s',
               i < j, c2s'[i].typ = "Y", c2s'[j].typ = "Y", c2s'[i].seq = slot.seq
        PROVE  c2s'[j].seq = slot.seq \/ Stray(c2s'[j])
    <3>1. i \in DOMAIN c2s /\ c2s'[i] = c2s[i]
      BY <1>10, <2>2
    <3>2. CASE j \in DOMAIN c2s /\ c2s'[j] = c2s[j]
      BY <2>2, <3>1, <3>2 DEF Acks
    <3>3. CASE c2s'[j] = y
      <4>1. m = Current
        BY <1>13, <2>2, <3>1 DEF Acks
      <4> QED
        BY <1>3, <1>10, <3>3, <4>1
    <3> QED
      BY <1>10, <3>2, <3>3
  <2> QED
    BY <1>3, <1>15, <2>1, <2>2 DEF Acks
<1>17. Outcome'
  <2>1. NoStaleAck'
    <3>1. pos' = pos /\ pos \in Nat /\ pos <= Held + 1 /\ Held \in Nat
      <4>1. pos \in Nat
        BY LinkAssumption DEF Inv, TypeOK, ServerTypeOK
      <4>2. Len(c_got) \in Nat
        BY DEF Inv, TypeOK, ClientTypeOK
      <4>3. Held \in Nat
        BY <4>2 DEF Held
      <4>4. pos' = pos /\ pos <= Held + 1
        BY DEF Outcome, NoStaleAck, IsGet, serverVars, fileVars
      <4> QED
        BY <4>1, <4>3, <4>4
    <3>2. Held <= Held' /\ Held' \in Nat
      OBVIOUS
    <3>3. pos' <= Held' + 1
      BY <3>1, <3>2, OneAhead, Zenon
    <3> QED
      BY <3>3 DEF NoStaleAck
  <2> QED
    BY <2>1 DEF Outcome, EotIsAcked, NoConfusion, serverVars, sendVars
<1> QED
  BY <1>5, <1>6, <1>7, <1>8, <1>11, <1>16, <1>17

(* A good packet in the client: it belongs to the chain or is an E. *)
LEMMA ClientGoodPacket ==
    ASSUME Inv, GetInv, IsGet, UNCHANGED <<serverVars, c_mode>>, s2c # <<>>, s2c' = Tail(s2c),
           NEW m, m = Head(s2c), m.typ \notin {"BAD", "SHORT"},
           c_ret = "RUN", CGoodPacket(m)
    PROVE  GetInv'
<1> USE DEF GetInv
<1>0. /\ s2c \in Seq(Packet) /\ m \in Packet /\ 1 \in DOMAIN s2c /\ s2c[1] = m
      /\ Thinner(s2c, s2c')
  BY ThinnerQueues DEF Inv, TypeOK, LinkTypeOK
<1>1. /\ m.seq \in SeqNo /\ m.dat \in Data
      /\ c_rslot.seq \in SeqNo /\ c_rslot.dat \in Data /\ c_rslot.used \in BOOLEAN
      /\ c_got \in Seq(Data) /\ Len(c_got) \in Nat
      /\ c_cancel \in BOOLEAN
      /\ c_state \in {"R_WAIT", "R_FILE", "R_ATTR", "R_DATA"}
  BY <1>0 DEF Inv, TypeOK, ClientTypeOK, Packet
<1>2. pos' = pos /\ pos \in Nat
  BY LinkAssumption DEF Inv, TypeOK, ServerTypeOK, serverVars, fileVars
<1>3. c_what # "W_DIR" /\ (c_what = "W_GET" <=> c_state = "R_WAIT")
  BY DEF ClientFile
<1>4. CASE m.typ = "E"
  <2>1. CErrorPacket(m)
    BY <1>3, <1>4
    DEF CGoodPacket, CIgnore, CRequestAcked, CInit, CNotInit, CHeader, CInitAgain,
        CData, CEof, CBreak, CUnexpected
  <2>2. ret \in {"K_FAILURE", "K_TIMEOUT"}
    BY <1>0, <1>4 DEF ErrorsExplained
  <2>3. NoConfusion'
    BY <2>2 DEF NoConfusion, serverVars
  <2> QED
    BY <1>0, <2>1, <2>3, ClientKeeps DEF CErrorPacket, CLeave, recvVars
<1> SUFFICES ASSUME m.typ # "E" PROVE GetInv'
  BY <1>4
<1>5. Sound(m) /\ Fits(m)
  BY <1>0 DEF Sound, StreamFits
<1>6. m.typ \in {"S", "F", "A", "D", "Z", "B"}
  BY <1>5 DEF Fits
<1>7. /\ ParamsAttr # CancelText /\ ParamsPlain # CancelText /\ NoText # CancelText
      /\ \A t \in {ParamsAttr, ParamsPlain, NoText, CancelText} : t \in Data
  BY TextsAreData DEF ParamsAttr, ParamsPlain, CancelText, NoText
<1>8. Held \in Nat /\ Held = Len(c_got) + (IF c_rslot.used THEN 1 ELSE 0)
  BY <1>1 DEF Held
<1> HIDE DEF GetInv
<1>9. ClientFile
  BY DEF GetInv
<1>10. /\ Expected["R_FILE"] = {"F", "B", "Z", "S"}
       /\ Expected["R_ATTR"] = {"A", "D", "Z", "F"}
       /\ Expected["R_DATA"] = {"X", "D", "Z"}
  BY DEF Expected
<1>11. ASSUME \/ m.typ = "S" /\ c_state \in {"R_WAIT", "R_FILE"}
              \/ m.typ = "F" /\ c_state \in {"R_FILE", "R_ATTR"}
              \/ m.typ = "A" /\ c_state = "R_ATTR"
              \/ m.typ = "D" /\ c_state \in {"R_ATTR", "R_DATA"}
              \/ m.typ = "Z" /\ c_state # "R_WAIT"
              \/ m.typ = "B" /\ c_state = "R_FILE"
       PROVE  \/ CInit(m) \/ CHeader(m) \/ CInitAgain(m)
              \/ CData(m) \/ CEof(m) \/ CBreak(m)
  <2>1. ~CUnexpected(m)
    <3>1. CASE c_state = "R_WAIT"
      BY <3>1 DEF CUnexpected
    <3>2. CASE c_state = "R_FILE"
      BY <1>10, <1>11, <3>2 DEF CUnexpected
    <3>3. CASE c_state = "R_ATTR"
      BY <1>10, <1>11, <3>3 DEF CUnexpected
    <3>4. CASE c_state = "R_DATA"
      BY <1>10, <1>11, <3>4 DEF CUnexpected
    <3> QED
      BY <1>1, <3>1, <3>2, <3>3, <3>4
  <2>2. ~CIgnore(m) /\ ~CRequestAcked(m) /\ ~CErrorPacket(m) /\ ~CNotInit(m)
    BY <1>11 DEF CIgnore, CRequestAcked, CErrorPacket, CNotInit
  <2> QED
    BY <2>1, <2>2 DEF CGoodPacket
<1>12. CASE m.typ = "S"
  <2>1. m.seq = 0 /\ c_state \in {"R_WAIT", "R_FILE"} /\ (c_state = "R_FILE" => c_file = "none")
    BY <1>5, <1>12 DEF Fits, FileDone
  <2>2. CInit(m) \/ CInitAgain(m)
    BY <1>11, <1>12, <2>1 DEF CInit, CHeader, CInitAgain, CData, CEof, CBreak, FileDone
  <2>3. /\ CAckInit /\ UNCHANGED <<recvVars, c_ret>>
        /\ c_state' = "R_FILE" /\ c_what' = "W_RECV"
    BY <1>3, <2>1, <2>2 DEF CInit, CInitAgain
  <2>4. ~FileDone /\ c_file = "none" /\ c_got = <<>> /\ ~c_rslot.used
    BY <1>9, <2>1 DEF ClientFile, FileDone
  <2>5. ClientFile' /\ Held' = Held
    BY <1>2, <1>9, <2>3, <2>4 DEF ClientFile, FileIsPrefix, FileDone, recvVars, Held
  <2>6. Has(m)'
    BY <1>12, <2>3, <2>4 DEF Has, recvVars
  <2>7. ASSUME NEW b \in Packet, Fits(b), b = m \/ Follows(m, b) PROVE Fits(b)'
    BY <1>12, <2>1, <2>3, <2>4, <2>7 DEF Fits, Follows, FileDone, recvVars
  <2>8. PICK text \in Data : text # CancelText /\ c2s' = Append(c2s, Pkt("Y", m.seq, text))
    BY <1>7, <2>1, <2>3 DEF CAckInit, CSend
  <2> QED
    BY <1>5, <1>8, <2>3, <2>4, <2>5, <2>6, <2>7, <2>8, ClientTakes DEF recvVars
<1>13. CASE m.typ \in {"F", "A"} \/ (m.typ = "Z" /\ c_state = "R_FILE")
  <2>1. /\ m.typ = "F" => c_state = "R_ATTR" \/ (c_state = "R_FILE" /\ c_file = "none")
        /\ m.typ = "A" => c_state = "R_ATTR"
        /\ m.typ = "Z" => FileDone
    BY <1>5, <1>13 DEF Fits, FileDone
  <2>2. CHeader(m)
    BY <1>11, <1>13, <2>1 DEF CInit, CHeader, CInitAgain, CData, CEof, CBreak, FileDone
  <2>3. /\ CAck(m) /\ UNCHANGED <<recvVars, c_ret, c_what>>
        /\ c_state' = IF m.typ = "Z" THEN "R_FILE" ELSE "R_ATTR"
    BY <1>13, <2>1, <2>2 DEF CHeader, CGoto, FileDone
  <2>4. FileDone <=> m.typ = "Z"
    BY <1>13, <2>1 DEF FileDone
  <2>5. ClientFile' /\ Held' = Held
    BY <1>2, <1>9, <1>13, <2>1, <2>3, <2>4
    DEF ClientFile, FileIsPrefix, FileDone, recvVars, Held, Whole
  <2>6. Has(m)'
    BY <1>13, <2>1, <2>3 DEF Has, recvVars, FileDone
  <2>7. ASSUME NEW b \in Packet, Fits(b), b = m \/ Follows(m, b) PROVE Fits(b)'
    BY <1>2, <1>13, <2>1, <2>3, <2>7 DEF Fits, Follows, FileDone, recvVars, Whole
  <2>8. c2s' = Append(c2s, Pkt("Y", m.seq, NoText))
    BY <2>3 DEF CAck, CSend
  <2>9. (FileDone => FileDone') /\ c_state' # "R_WAIT"
    BY <2>3, <2>4 DEF FileDone, recvVars
  <2> QED
    BY <1>5, <1>7, <1>8, <2>3, <2>5, <2>6, <2>7, <2>8, <2>9, ClientTakes DEF recvVars
<1>14. CASE m.typ = "D"
  <2>1. /\ c_state \in {"R_ATTR", "R_DATA"}
        /\ c_state = "R_ATTR" => m.dat = 1
        /\ c_state = "R_DATA" =>
              \/ m.dat = c_rslot.dat /\ m.seq = c_rslot.seq
              \/ m.dat = c_rslot.dat + 1 /\ m.seq = NextSeq(c_rslot.seq)
    BY <1>5, <1>14 DEF Fits, FileDone
  <2>2. CData(m)
    BY <1>11, <1>14, <2>1 DEF CInit, CHeader, CInitAgain, CData, CEof, CBreak, FileDone
  <2>3. /\ c_state' = "R_DATA" /\ c_file' = "open" /\ UNCHANGED c_what
        /\ StoreNext(m) \/ StoreAgain(m) \/ StoreOld(m) \/ StoreUnexpected(m)
    BY <2>2 DEF CData, IsGet
  <2>4. ~FileDone /\ c_state' # "R_WAIT"
    BY <2>1, <2>3 DEF FileDone
  <2>5. CASE c_state = "R_DATA" /\ m.seq = c_rslot.seq
    <3>1. c_rslot.used /\ m.dat = c_rslot.dat
      BY <1>1, <1>9, <2>1, <2>5, NextSeqDiffers DEF ClientFile
    <3>2. ~IsNext(m)
      BY <1>1, <2>5, <3>1, NextSeqDiffers DEF IsNext
    <3>3. StoreAgain(m)
      BY <2>3, <2>5, <3>2 DEF StoreNext, StoreOld, StoreUnexpected, IsOld
    <3>4. UNCHANGED <<c_rslot, c_got, c_cancel, c_ret>>
      BY <3>3 DEF StoreAgain
    <3>5. ClientFile' /\ Held' = Held
      BY <1>2, <1>9, <2>3, <2>5, <3>4 DEF ClientFile, FileIsPrefix, FileDone, Held
    <3>6. Has(m)'
      BY <1>14, <2>3, <2>5, <3>1, <3>4 DEF Has
    <3>7. ASSUME NEW b \in Packet, Fits(b), b = m \/ Follows(m, b) PROVE Fits(b)'
      BY <1>2, <2>3, <2>5, <3>4, <3>7 DEF Fits, FileDone, Whole
    <3>8. c2s' = Append(c2s, Pkt("Y", m.seq, NoText))
      BY <3>3 DEF StoreAgain, CAck, CSend
    <3> QED
      BY <1>5, <1>7, <1>8, <2>4, <3>4, <3>5, <3>6, <3>7, <3>8, ClientTakes
  <2>6. CASE ~(c_state = "R_DATA" /\ m.seq = c_rslot.seq)
    <3>1. IsNext(m) /\ (c_state = "R_DATA" => m.dat = c_rslot.dat + 1)
      BY <1>9, <2>1, <2>6 DEF IsNext, ClientFile
    <3>2. StoreNext(m)
      BY <2>3, <3>1 DEF StoreAgain, StoreOld, StoreUnexpected, IsOld
    <3>3. /\ c_rslot' = [used |-> TRUE, seq |-> m.seq, dat |-> m.dat]
          /\ c_got' = Written /\ UNCHANGED c_ret
      BY <3>2 DEF StoreNext
    <3>4. c_rslot'.used /\ c_rslot'.seq = m.seq /\ c_rslot'.dat = m.dat
      BY <3>3
    <3>5. PICK text \in {NoText, CancelText} :
              /\ CSend(Pkt("Y", m.seq, text))
              /\ c_cancel' = (c_cancel \/ text = CancelText)
      BY <3>2 DEF StoreNext
    <3>6. /\ FileIsPrefix' /\ m.dat = Len(c_got') + 1 /\ Held' = Held + 1
      <4>1. CASE c_state = "R_ATTR"
        <5>1. c_got' = <<>> /\ c_got = <<>> /\ ~c_rslot.used
          BY <1>9, <3>3, <4>1 DEF Written, ClientFile
        <5> QED
          BY <2>1, <3>4, <4>1, <5>1 DEF FileIsPrefix, Held
      <4>2. CASE c_state = "R_DATA"
        <5>1. /\ c_rslot.used /\ c_rslot.dat = Len(c_got) + 1
              /\ c_got' = Append(c_got, c_rslot.dat)
          BY <1>9, <3>3, <4>2 DEF Written, ClientFile, IsGet
        <5>2. Len(c_got') = Len(c_got) + 1
          BY <1>1, <5>1
        <5>3. FileIsPrefix'
          BY <1>1, <1>9, <5>1 DEF FileIsPrefix, ClientFile
        <5> QED
          BY <1>1, <3>1, <3>4, <4>2, <5>1, <5>2, <5>3 DEF Held
      <4> QED
        BY <2>1, <4>1, <4>2
    <3>7. ClientFile'
      BY <1>3, <2>1, <2>3, <3>3, <3>4, <3>6, <1>9 DEF ClientFile, FileDone
    <3>8. Has(m)'
      BY <1>14, <2>3, <3>4 DEF Has
    <3>9. ASSUME NEW b \in Packet, Fits(b), b = m \/ Follows(m, b) PROVE Fits(b)'
      <4>1. b = m
        <5>1. b.dat \in Int /\ m.dat \in Int /\ c_rslot.dat \in Int
          BY <1>1, LinkAssumption DEF Packet, Data
        <5> QED
          BY <1>2, <1>14, <2>1, <3>1, <3>9, <5>1 DEF Fits, Follows, FileDone
      <4> QED
        BY <1>14, <2>3, <3>4, <4>1 DEF Fits
    <3>10. /\ text \in Data /\ c2s' = Append(c2s, Pkt("Y", m.seq, text))
           /\ text = CancelText => c_cancel'
           /\ c_cancel => c_cancel'
      BY <1>7, <3>5, Zenon DEF CSend
    <3>11. Held' \in Nat /\ Held <= Held'
      BY <1>8, <3>6
    <3> QED
      BY <1>5, <2>4, <3>3, <3>7, <3>8, <3>9, <3>10, <3>11, ClientTakes
  <2> QED
    BY <2>5, <2>6
<1>15. CASE m.typ = "Z" /\ c_state # "R_FILE"
  <2>1. /\ c_state \in {"R_ATTR", "R_DATA"} /\ Whole
        /\ c_state = "R_ATTR" => pos = 0
        /\ c_state = "R_DATA" => c_rslot.dat = pos
    BY <1>5, <1>15 DEF Fits, FileDone
  <2>2. CEof(m)
    BY <1>11, <1>15, <2>1 DEF CInit, CHeader, CInitAgain, CData, CEof, CBreak, FileDone
  <2>3. /\ c_file' = "closed" /\ c_state' = "R_FILE" /\ c_rslot' = NoPkt /\ c_got' = Written
        /\ UNCHANGED <<c_what, c_ret, c_cancel>>
    BY <2>2 DEF CEof, FlushToFile, CGoto, IsGet
  <2>4. FileIsPrefix' /\ Len(c_got') = pos /\ Len(c_got') = Held
    <3>1. CASE c_state = "R_ATTR"
      <4>1. c_got' = <<>> /\ c_got = <<>> /\ ~c_rslot.used
        BY <1>9, <2>3, <3>1 DEF Written, ClientFile
      <4> QED
        BY <2>1, <3>1, <4>1 DEF FileIsPrefix, Held
    <3>2. CASE c_state = "R_DATA"
      <4>1. /\ c_rslot.used /\ c_rslot.dat = Len(c_got) + 1
            /\ c_got' = Append(c_got, c_rslot.dat)
        BY <1>9, <2>3, <3>2 DEF Written, ClientFile, IsGet
      <4>2. Len(c_got') = Len(c_got) + 1
        BY <1>1, <4>1
      <4>3. FileIsPrefix'
        BY <1>1, <1>9, <4>1 DEF FileIsPrefix, ClientFile
      <4> QED
        BY <1>1, <2>1, <3>2, <4>1, <4>2, <4>3 DEF Held
    <3> QED
      BY <2>1, <3>1, <3>2
  <2>5. FileDone' /\ ~NoPkt.used /\ ~FileDone
    BY <1>15, <2>3 DEF FileDone, NoPkt
  <2>6. Whole'
    BY <1>2, <2>1, <2>3 DEF Whole
  <2>7. ClientFile'
    BY <1>2, <1>3, <1>9, <2>1, <2>3, <2>4, <2>5, <2>6 DEF ClientFile
  <2>8. Held' = Held
    BY <1>8, <2>3, <2>4, <2>5 DEF Held
  <2>9. Has(m)'
    BY <1>15, <2>5 DEF Has
  <2>10. ASSUME NEW b \in Packet, Fits(b), b = m \/ Follows(m, b) PROVE Fits(b)'
    BY <1>15, <2>5, <2>10 DEF Fits, Follows
  <2>11. c2s' = Append(c2s, Pkt("Y", m.seq, NoText))
    BY <2>2 DEF CEof, CAck, CSend
  <2> QED
    BY <1>5, <1>7, <1>8, <2>3, <2>5, <2>7, <2>8, <2>9, <2>10, <2>11, ClientTakes
<1>16. CASE m.typ = "B"
  <2>1. FileDone
    BY <1>5, <1>16 DEF Fits
  <2>2. CBreak(m)
    BY <1>11, <1>16, <2>1 DEF CInit, CHeader, CInitAgain, CData, CEof, CBreak, FileDone
  <2>3. c_ret' = "K_SUCCESS" /\ UNCHANGED <<recvVars, c_what, c_state>> /\ c_state' # "R_WAIT"
    BY <2>1, <2>2 DEF CBreak, CLeave, FileDone
  <2>4. FileDone' /\ ClientFile' /\ Held' = Held
    BY <1>2, <1>9, <2>1, <2>3 DEF ClientFile, FileIsPrefix, FileDone, recvVars, Held, Whole
  <2>5. Has(m)'
    BY <1>16, <2>3 DEF Has
  <2>6. ASSUME NEW b \in Packet, Fits(b), b = m \/ Follows(m, b) PROVE Fits(b)'
    BY <1>16, <2>4, <2>6 DEF Fits, Follows
  <2>7. c2s' = Append(c2s, Pkt("Y", m.seq, NoText))
    BY <2>2 DEF CBreak, CAck, CSend
  <2> QED
    BY <1>5, <1>7, <1>8, <2>3, <2>4, <2>5, <2>6, <2>7, ClientTakes DEF recvVars
<1> QED
  BY <1>6, <1>12, <1>13, <1>14, <1>15, <1>16

LEMMA ClientKeepsGet ==
    ASSUME Inv, GetInv, IsGet, ClientNext, UNCHANGED serverVars
    PROVE  GetInv'
<1>0. /\ s2c \in Seq(Packet) /\ Thinner(s2c, s2c)
      /\ s2c # <<>> => Thinner(s2c, Tail(s2c))
      /\ c_state \in {"R_WAIT", "R_FILE", "R_ATTR", "R_DATA"}
  BY ThinnerQueues DEF Inv, TypeOK, LinkTypeOK, ClientTypeOK
<1>1. c_what # "W_DIR" /\ (c_what = "W_GET" <=> c_state = "R_WAIT")
      /\ c_what \in {"W_GET", "W_DIR", "W_RECV"}
  BY DEF GetInv, ClientFile, Inv, TypeOK, ClientTypeOK
<1>2. /\ Pkt("R", 0, NoText) \in Packet /\ Pkt("R", 0, NoText).typ = "R"
      /\ Pkt("E", 0, NoText) \in Packet /\ Pkt("E", 0, NoText).typ = "E"
      /\ Pkt("N", 0, NoText) \in Packet /\ Pkt("N", 0, NoText).typ = "N"
      /\ \A t \in {ParamsAttr, ParamsPlain} :
            LET y == Pkt("Y", 0, t)
            IN  y \in Packet /\ y.typ = "Y" /\ y.seq = 0 /\ y.dat # CancelText
  BY PktType, PktFields, ZeroSeq, TextsAreData
  DEF PacketTypes, ParamsAttr, ParamsPlain, CancelText
<1>3. NoConfusion
  BY DEF GetInv, Outcome
<1>4. ASSUME c_ret = "RUN", CNoPacket \/ CBadPacket, c_mode' = c_mode,
             Thinner(s2c, s2c')
      PROVE  GetInv'
  <2>1. UNCHANGED <<c_what, c_state, recvVars>>
    BY <1>4 DEF CNoPacket, CBadPacket
  <2>2. CASE c_what = "W_RECV"
    <3>1. /\ UNCHANGED c_ret
          /\ UNCHANGED c2s \/ (CAckInit /\ c_state = "R_FILE")
      BY <1>4, <2>2 DEF CNoPacket, CBadPacket
    <3>2. NoConfusion'
      BY <1>4, <3>1 DEF NoConfusion
    <3>3. \/ UNCHANGED c2s
          \/ \E p \in Packet : /\ c2s' = Append(c2s, p)
                               /\ p.typ = "Y" /\ p.seq = 0 /\ p.dat # CancelText
                               /\ c_state = "R_FILE"
      BY <1>2, <3>1 DEF CAckInit, CSend
    <3> QED
      BY <1>4, <2>1, <3>1, <3>2, <3>3, ClientKeeps DEF recvVars
  <2>3. CASE c_what = "W_GET"
    <3>1. PICK b \in BOOLEAN : CResend(b)
      BY <1>4, <2>3 DEF CNoPacket, CBadPacket
    <3>2. /\ c_ret' = c_ret \/ (c_ret' = "K_FAILURE" /\ c_rtr' = Retry + 1)
          /\ UNCHANGED c2s \/ c2s' = Append(c2s, Pkt("R", 0, NoText))
      <4>1. Request(c_mode) = Pkt("R", 0, NoText)
        BY DEF Request, IsGet
      <4>2. CASE c_rtr = -1 /\ UNCHANGED <<c_rtr, c_ret, c2s>>
        BY <4>2
      <4>3. CASE /\ c_rtr' = Retry + 1
                 /\ c_ret' = IF b THEN "K_FAILURE" ELSE c_ret
                 /\ UNCHANGED c2s
        BY <4>3
      <4>4. CASE CSend(Request(c_mode)) /\ UNCHANGED c_ret
        BY <4>1, <4>4 DEF CSend
      <4> QED
        BY <3>1, <4>2, <4>3, <4>4 DEF CResend
    <3>3. NoConfusion'
      BY <1>4, <3>2, LinkAssumption DEF NoConfusion
    <3> QED
      BY <1>1, <1>2, <1>4, <2>1, <2>3, <3>2, <3>3, ClientKeeps DEF recvVars
  <2> QED
    BY <1>1, <2>2, <2>3
<1>5. CASE ClientReceive
  <2>1. s2c # <<>> /\ s2c' = Tail(s2c) /\ c_ret = "RUN" /\ c_mode' = c_mode
    BY <1>5 DEF ClientReceive
  <2>2. CASE CNoPacket \/ CBadPacket
    BY <1>0, <1>4, <2>1, <2>2
  <2>3. CASE Head(s2c).typ \notin {"SHORT", "BAD"} /\ CGoodPacket(Head(s2c))
    BY <2>1, <2>3, ClientGoodPacket
  <2> QED
    BY <1>5, <2>2, <2>3 DEF ClientReceive
<1>6. CASE ClientTimeout
  BY <1>0, <1>4, <1>6 DEF ClientTimeout
<1>7. CASE ClientGiveUp
  <2>1. c_file' = c_file \/ c_state = "R_DATA"
    BY <1>0, <1>7 DEF ClientGiveUp, GetInv, ClientFile
  <2>2. NoConfusion'
    BY <1>7 DEF ClientGiveUp, CLeave, NoConfusion
  <2>3. Thinner(s2c, s2c')
    BY <1>0, <1>7 DEF ClientGiveUp
  <2>4. c2s' = Append(c2s, Pkt("E", 0, NoText))
    BY <1>7 DEF ClientGiveUp, CError, CSend
  <2>5. /\ UNCHANGED <<c_mode, c_what, c_state, c_rslot, c_got, c_cancel>>
        /\ c_ret = "RUN" /\ c_ret' = "K_TIMEOUT"
    BY <1>7 DEF ClientGiveUp, CLeave
  <2> QED
    BY <1>2, <2>1, <2>2, <2>3, <2>4, <2>5, ClientKeeps
<1>8. CASE ClientIdle
  <2>1. /\ c_ret = "K_SUCCESS" /\ c2s' = Append(c2s, Pkt("N", 0, NoText))
        /\ Thinner(s2c, s2c')
    BY <1>0, <1>8 DEF ClientIdle, CSend
  <2>2. UNCHANGED <<c_mode, c_what, c_state, c_rslot, c_got, c_cancel, c_file, c_ret>>
    BY <1>8 DEF ClientIdle, clientVars, recvVars
  <2>3. NoConfusion'
    BY <2>1, <2>2 DEF NoConfusion
  <2> QED
    BY <1>2, <2>1, <2>2, <2>3, ClientKeeps
<1> QED
  BY <1>5, <1>6, <1>7, <1>8 DEF ClientNext
-----------------------------------------------------------------------------
(* A DIR *)

LEMMA DirServer ==
    ASSUME Inv, DirInv, ServerNext, UNCHANGED clientVars
    PROVE  DirInv'
<1> USE DEF DirInv
<1>0. c2s \in Seq(Packet) /\ c_got' = <<>>
  BY DEF Inv, TypeOK, LinkTypeOK, clientVars, recvVars
<1>1. CASE ServerReceive
  <2>1. /\ Head(c2s).typ # "R"
        /\ \A i \in DOMAIN c2s' : c2s'[i].typ # "R"
    BY <1>0, <1>1 DEF ServerReceive
  <2>2. ASSUME NEW m, m.typ # "R", GoodPacket(m) PROVE rtype' # "A_GET"
    BY <2>2
    DEF GoodPacket, KeepLoop, Ignore, EotNak, ErrorPacket, StartDir, UnknownGeneric, StartGet,
        GetNotAccessible, AckMisfiled, SendFile, OpenFails, SendAttr, SendData, SendEof,
        CancelFile, SendBreak, GetDone, NotAcked, SendText, SendListing, ListingFails,
        SendListingEnd, DirDone, DirNotAcked, FirstSInit, NotSInit, ReceiveHeader,
        ReceiveBreak, RefuseFile
  <2>3. NoPacket \/ BadPacket => rtype' # "A_GET"
    BY DEF NoPacket, BadPacket
  <2> QED
    BY <1>0, <1>1, <2>1, <2>2, <2>3 DEF ServerReceive
<1>2. CASE ServerTimeout \/ ServerGiveUp \/ ServerEnd
  BY <1>0, <1>2 DEF ServerTimeout, ServerGiveUp, ServerEnd, NoPacket
<1> QED
  BY <1>1, <1>2 DEF ServerNext

LEMMA DirClient ==
    ASSUME Inv, DirInv, ~IsGet, ClientNext, UNCHANGED serverVars
    PROVE  DirInv'
<1> USE DEF DirInv
<1>0. c2s \in Seq(Packet) /\ rtype' # "A_GET" /\ Written = <<>> /\ c_mode # "A_GET"
  BY DEF Inv, TypeOK, LinkTypeOK, serverVars, Written, IsGet
<1>1. ASSUME UNCHANGED c2s \/ \E p : c2s' = Append(c2s, p) /\ p.typ # "R"
      PROVE  \A i \in DOMAIN c2s' : c2s'[i].typ # "R"
  BY <1>0, <1>1
<1>2. \A t, n, d : CSend(Pkt(t, n, d)) /\ t # "R" =>
          \A i \in DOMAIN c2s' : c2s'[i].typ # "R"
  BY <1>1, PktFields DEF CSend
<1>3. CAckInit \/ CError => \A i \in DOMAIN c2s' : c2s'[i].typ # "R"
  BY <1>2 DEF CAckInit, CError
<1>4. \A b : CResend(b) => \A i \in DOMAIN c2s' : c2s'[i].typ # "R"
  BY <1>0, <1>2 DEF CResend, Request
<1>5. CNoPacket \/ CBadPacket => DirInv'
  BY <1>0, <1>3, <1>4 DEF CNoPacket, CBadPacket, recvVars
<1>6. ASSUME NEW m, CGoodPacket(m) PROVE DirInv'
  <2>1. c_got' = <<>>
    BY <1>0, <1>6
    DEF CGoodPacket, CIgnore, CRequestAcked, CErrorPacket, CInit, CNotInit, CHeader, CInitAgain,
        CData, StoreNext, StoreAgain, StoreOld, StoreUnexpected, CEof, FlushToFile, CBreak,
        CUnexpected, recvVars
  <2>2. ASSUME NEW p, NEW q, c2s' = c2s \o <<p, q>>, p.typ # "R", q.typ # "R"
        PROVE  \A i \in DOMAIN c2s' : c2s'[i].typ # "R"
    BY <1>0, <2>2
  <2>3. CASE CData(m)
    <3>1. CASE StoreNext(m)
      BY <1>0, <1>2, <2>1, <3>1 DEF StoreNext
    <3>2. CASE StoreAgain(m)
      BY <1>0, <1>2, <2>1, <3>2 DEF StoreAgain, CAck
    <3>3. CASE StoreOld(m)
      BY <1>0, <2>1, <2>2, <3>3, PktFields DEF StoreOld
    <3>4. CASE StoreUnexpected(m)
      BY <1>0, <2>1, <3>4 DEF StoreUnexpected
    <3> QED
      BY <2>3, <3>1, <3>2, <3>3, <3>4 DEF CData
  <2>4. CASE ~CData(m)
    <3>1. \A i \in DOMAIN c2s' : c2s'[i].typ # "R"
      BY <1>2, <1>3, <1>4, <1>6, <2>4
      DEF CGoodPacket, CIgnore, CRequestAcked, CErrorPacket, CInit, CNotInit, CHeader,
          CInitAgain, CEof, CBreak, CUnexpected, CAck
    <3> QED
      BY <1>0, <2>1, <3>1
  <2> QED
    BY <2>3, <2>4
<1>7. CASE ClientReceive \/ ClientTimeout
  BY <1>5, <1>6, <1>7 DEF ClientReceive, ClientTimeout
<1>8. CASE ClientGiveUp
  BY <1>0, <1>3, <1>8 DEF ClientGiveUp
<1>9. CASE ClientIdle
  BY <1>0, <1>2, <1>9 DEF ClientIdle, clientVars, recvVars
<1> QED
  BY <1>7, <1>8, <1>9 DEF ClientNext

LEMMA DirLink ==
    ASSUME DirInv, UNCHANGED <<serverVars, clientVars>>, Thinner(c2s, c2s')
    PROVE  DirInv'
BY DEF DirInv, Thinner, serverVars, clientVars, recvVars
-----------------------------------------------------------------------------
LEMMA FileInvInit == Init => FileInv
<1> SUFFICES ASSUME Init PROVE FileInv
  OBVIOUS
<1>0. /\ c2s = <<Request(c_mode)>> /\ s2c = <<>> /\ ~NoPkt.used
      /\ \A i \in DOMAIN c2s : i = 1 /\ c2s[i] = Request(c_mode)
      /\ Request(c_mode).typ = IF IsGet THEN "R" ELSE "G"
  BY PktFields DEF Init, ClientInit, Request, IsGet, NoPkt
<1> USE DEF Init, ServerInit, ClientInit
<1>1. ~Sending /\ DOMAIN s2c = {} /\ ~FileDone
  BY <1>0 DEF Sending, FileDone
<1>2. IsGet => GetInv
  <2> SUFFICES ASSUME IsGet PROVE GetInv
    OBVIOUS
  <2>1. ClientFile /\ ServerChain
    BY <1>0, <1>1 DEF ClientFile, ServerChain, FileIsPrefix, IsGet
  <2>2. StreamFits /\ StreamOrdered /\ ErrorsExplained
    BY <1>1 DEF StreamFits, StreamOrdered, ErrorsExplained
  <2>3. Requests /\ Acks
    BY <1>0, <1>1 DEF Requests, Acks
  <2>4. Held = 0
    BY <1>0 DEF Held
  <2>5. Outcome
    BY <2>4 DEF Outcome, EotIsAcked, NoConfusion, NoStaleAck
  <2> QED
    BY <2>1, <2>2, <2>3, <2>5 DEF GetInv
<1>3. ~IsGet => DirInv
  BY <1>0 DEF DirInv
<1> QED
  BY <1>2, <1>3 DEF FileInv

LEMMA FileInvNext == Inv /\ FileInv /\ [Next]_vars => FileInv'
<1> SUFFICES ASSUME Inv, FileInv, [Next]_vars PROVE FileInv'
  OBVIOUS
<1>0. c2s \in Seq(Packet) /\ s2c \in Seq(Packet)
  BY DEF Inv, TypeOK, LinkTypeOK
<1>1. CASE Server
  <2>1. IsGet' = IsGet
    BY <1>1 DEF Server, clientVars, IsGet
  <2> QED
    BY <1>1, <2>1, ServerKeepsGet, DirServer DEF Server, FileInv
<1>2. CASE Client
  <2>1. IsGet' = IsGet
    BY <1>2 DEF Client, ClientNext, ClientReceive, ClientTimeout, ClientGiveUp, ClientIdle,
                clientVars, IsGet
  <2> QED
    BY <1>2, <2>1, ClientKeepsGet, DirClient DEF Client, FileInv
<1>3. ASSUME UNCHANGED <<serverVars, clientVars>>, Thinner(c2s, c2s'), Thinner(s2c, s2c')
      PROVE  FileInv'
  <2>1. IsGet' = IsGet
    BY <1>3 DEF clientVars, IsGet
  <2> QED
    BY <1>3, <2>1, LinkKeepsGet, DirLink DEF FileInv
<1>4. CASE Link
  <2>1. Thinner(c2s, c2s') /\ Thinner(s2c, s2c')
    BY <1>0, <1>4, ThinnerQueues DEF Link, LinkNext, LoseC2S, LoseS2C, SpoilC2S, SpoilS2C
  <2> QED
    BY <1>3, <1>4, <2>1 DEF Link
<1>5. CASE UNCHANGED vars
  <2>1. Thinner(c2s, c2s') /\ Thinner(s2c, s2c')
    BY <1>0, <1>5, ThinnerQueues DEF vars
  <2> QED
    BY <1>3, <1>5, <2>1 DEF vars
<1> QED
  BY <1>1, <1>2, <1>4, <1>5 DEF Next

LEMMA FileInvHolds == Spec => [](Inv /\ FileInv)
<1>1. Inv /\ FileInv /\ [Next]_vars => FileInv'
  BY FileInvNext
<1> QED
  BY <1>1, InvInit, InvNext, FileInvInit, PTL DEF Spec

(* What the client writes is the file from its beginning: no chunk is      *)
(* skipped, repeated or out of order, whatever is lost, spoilt or late and *)
(* whatever the numbers wrap around to.                                    *)
THEOREM TransferFileIsPrefix == Spec => []FileIsPrefix
<1>1. FileInv => FileIsPrefix
  BY DEF FileInv, GetInv, ClientFile, DirInv, FileIsPrefix
<1> QED
  BY <1>1, FileInvHolds, PTL

(* When either kermit_main reports success for a GET, the client has       *)
(* written and closed the whole file, unless it asked to cancel.           *)
THEOREM TransferSuccessIsWhole == Spec => []SuccessIsWhole
<1>1. FileInv => SuccessIsWhole
  <2> SUFFICES ASSUME FileInv, ~c_cancel,
                      \/ ret = "K_SUCCESS" /\ rtype = "A_GET"
                      \/ c_ret = "K_SUCCESS" /\ c_mode = "A_GET"
               PROVE  c_file = "closed" /\ Len(c_got) = NChunks
    BY DEF SuccessIsWhole
  <2>1. IsGet /\ GetInv
    BY DEF FileInv, DirInv, IsGet
  <2>2. FileDone
    BY <2>1 DEF GetInv, Outcome, ClientFile
  <2> QED
    BY <2>1, <2>2 DEF GetInv, ClientFile, FileDone, Whole
<1> QED
  BY <1>1, FileInvHolds, PTL

(* The server never takes a stale ACK for that of the packet on its way:   *)
(* it is at most one chunk ahead of the client.                            *)
THEOREM TransferNoStaleAck == Spec => []NoStaleAck
<1>1. FileInv => NoStaleAck
  BY DEF FileInv, GetInv, Outcome, NoStaleAck, IsGet
<1> QED
  BY <1>1, FileInvHolds, PTL

(* A client that fails in a GET was never answered, or its server failed   *)
(* before it: retransmissions and late packets do not confuse it.          *)
THEOREM TransferNoConfusion == Spec => []NoConfusion
<1>1. FileInv => NoConfusion
  BY DEF FileInv, GetInv, Outcome, NoConfusion, IsGet
<1> QED
  BY <1>1, FileInvHolds, PTL

(* A server that reports success for a GET has been told so by a client    *)
(* that was done, unless B has number 0.                                   *)
THEOREM TransferEotIsAcked == Spec => []EotIsAcked
<1>1. FileInv => EotIsAcked
  BY DEF FileInv, GetInv, DirInv, Outcome, EotIsAcked
<1> QED
  BY <1>1, FileInvHolds, PTL
=============================================================================
