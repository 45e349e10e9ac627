---------------------------- MODULE KermitServer ----------------------------
(***************************************************************************)
(* One run of kermit_main(A_WAIT, ...) on the Raspberry Pi: the loop of    *)
(* libe-kermit.c around kermit(K_RUN, ...) of kermit.c, as a server.       *)
(*                                                                         *)
(* The window is one packet wide (wslots_max = 1, P_WSLOTS = 1), so the    *)
(* table opktinfo is the one record slot, and the map s_pw from sequence   *)
(* numbers to slots is the set of the numbers that it maps to slot 0.      *)
(* One step is one turn of the loop: a packet or a timeout, then           *)
(* kermit(), then the test of its result.  txd reports success whatever    *)
(* becomes of the bytes, so a packet that does not get out is a lost one.  *)
(***************************************************************************)
EXTENDS KermitLink

VARIABLES
    what,          \* k->what
    state,         \* k->state
    s_seq,         \* k->s_seq
    slot,          \* k->opktinfo[0] and its buffer
    s_pw,          \* k->s_pw
    cap_at,        \* k->capas & CAP_AT
    filelist,      \* number of names left in k->filelist
    ifile,         \* the input file of unixio_rpi.c is open
    pos,           \* number of chunks read from it
    rtype,         \* r.type
    retrycounter,  \* of kermit_main
    start,         \* of kermit_main
    ret            \* what kermit_main returned, or RUN

sendVars   == <<s_seq, slot, s_pw>>
fileVars   == <<filelist, ifile, pos>>
serverVars == <<what, state, sendVars, cap_at, fileVars, rtype,
                retrycounter, start, ret>>

Slot == [used : BOOLEAN, typ : PacketTypes \cup {""}, seq : SeqNo \cup {-1},
         dat : Data, rtr : 0 .. Retry + 1]

(* free_sslot(). *)
FreeSlot == [used |-> FALSE, typ |-> "", seq |-> -1, dat |-> NoText, rtr |-> 0]

SendStates    == {"S_INIT", "S_FILE", "S_ATTR", "S_DATA", "S_EOF", "S_EOT",
                  "S_TEXT"}
ReceiveStates == {"R_WAIT", "R_FILE", "R_ATTR"}
Results       == {"RUN", "K_SUCCESS", "K_FAILURE", "K_TIMEOUT", "K_END"}

ServerTypeOK ==
    /\ what \in {"W_RECV", "W_SEND", "W_DIR"}
    /\ state \in SendStates \cup ReceiveStates
    /\ s_seq \in SeqNo
    /\ slot \in Slot
    /\ s_pw \in SUBSET SeqNo
    /\ cap_at \in BOOLEAN
    /\ filelist \in {0, 1}
    /\ ifile \in BOOLEAN
    /\ pos \in 0 .. NChunks
    /\ rtype \in {"A_WAIT", "A_GET", "A_DIR", "A_SEND"}
    /\ retrycounter \in 0 .. Retry + 1
    /\ start \in BOOLEAN
    /\ ret \in Results

(* kermit(K_REINIT, ...) and the head of kermit_main. *)
ServerInit ==
    /\ what = "W_RECV"
    /\ state = "R_WAIT"
    /\ s_seq = 0
    /\ slot = FreeSlot
    /\ s_pw = {}
    /\ cap_at = TRUE
    /\ filelist = 0
    /\ ifile = FALSE
    /\ pos = 0
    /\ rtype = "A_WAIT"
    /\ retrycounter = Retry + 1
    /\ start = TRUE
    /\ ret = "RUN"
-----------------------------------------------------------------------------
(* The sending half: what is handed to txd. *)

Send(p) == s2c' = Append(s2c, p)

(* spkt() of an ACK, a NAK or an error packet: no slot, but s_seq moves. *)
Reply(typ, seq, dat) ==
    /\ Send(Pkt(typ, seq, dat))
    /\ s_seq' = seq
    /\ UNCHANGED <<slot, s_pw>>

(* epkt() *)
SendError == Reply("E", 0, NoText)

(* Mutation of SendPacket: the number of the freed slot stays in s_pw. *)
SendPacketKeepsNumber(typ, seq, dat) ==
    /\ slot' = [used |-> TRUE, typ |-> typ, seq |-> seq, dat |-> dat, rtr |-> 0]
    /\ s_pw' = s_pw \cup {seq}
    /\ s_seq' = seq
    /\ Send(Pkt(typ, seq, dat))

(* spkt() of any other packet once free_sslot_easca() has emptied the slot *)
(* and taken its number out of s_pw.                                       *)
SendPacket(typ, seq, dat) ==
    /\ slot' = [used |-> TRUE, typ |-> typ, seq |-> seq, dat |-> dat, rtr |-> 0]
    /\ s_pw' = (s_pw \ {slot.seq}) \cup {seq}
    /\ s_seq' = seq
    /\ Send(Pkt(typ, seq, dat))

(* spar(): a capability that the other side lacks is given up for good, *)
SpokenAttr(m) == IF m.dat = ParamsPlain THEN FALSE ELSE cap_at

(* and the parameters that rpar() then sends. *)
Params(attr) == IF attr THEN ParamsAttr ELSE ParamsPlain

(* rpar(k, 'S'): nothing is sent, and success reported, when the slot is   *)
(* taken.  The packet has number 0 but s_pw is set at the old s_seq.       *)
SendInit ==
    IF slot.used
    THEN UNCHANGED <<sendVars, s2c>>
    ELSE /\ slot' = [used |-> TRUE, typ |-> "S", seq |-> 0,
                     dat |-> Params(cap_at), rtr |-> 0]
         /\ s_pw' = s_pw \cup {s_seq}
         /\ s_seq' = 0
         /\ Send(Pkt("S", 0, Params(cap_at)))

(* Mutation of Resend: no limit. *)
ResendUnlimited(reportLimit) ==
    /\ UNCHANGED <<s_seq, s_pw, ret>>
    /\ IF ~slot.used \/ slot.seq \notin s_pw
       THEN UNCHANGED <<slot, s2c>>
       ELSE slot' = [slot EXCEPT !.rtr = @ + 1] /\ Send(Pkt(slot.typ, slot.seq, slot.dat))

(* resend(): the only slot is found through the map, else nothing is sent. *)
(* ReportLimit says whether the caller passes an exhausted retry on.       *)
Resend(reportLimit) ==
    /\ UNCHANGED <<s_seq, s_pw>>
    /\ IF ~slot.used \/ slot.seq \notin s_pw
       THEN UNCHANGED <<slot, s2c, ret>>
       ELSE IF slot.rtr >= Retry
            THEN /\ slot' = [slot EXCEPT !.rtr = Retry + 1]
                 /\ ret' = IF reportLimit THEN "K_FAILURE" ELSE ret
                 /\ UNCHANGED s2c
            ELSE /\ slot' = [slot EXCEPT !.rtr = @ + 1]
                 /\ Send(Pkt(slot.typ, slot.seq, slot.dat))
                 /\ UNCHANGED ret

Goto(s) == state' = s

KeepLoop == UNCHANGED <<rtype, ret>>

(* kermit() returned X_ERROR or X_DONE. *)
Leave(r) == ret' = r /\ UNCHANGED <<what, state, cap_at>>
-----------------------------------------------------------------------------
(* Packets that do not depend on a transfer being under way. *)

(* A receiver ignores ACKs and NAKs; a G packet counts only in R_WAIT. *)
Ignore(m) ==
    /\ \/ what = "W_RECV" /\ m.typ \in {"N", "Y"}
       \/ m.typ = "G" /\ state # "R_WAIT"
       \/ what # "W_RECV" /\ m.typ = "Y" /\ m.seq \notin s_pw
    /\ UNCHANGED <<what, state, sendVars, cap_at, fileVars, s2c>>
    /\ KeepLoop

(* While the ACK to B is awaited, NAK 0 says that the other side is done.  *)
IsEotNak(m) == state = "S_EOT" /\ m.typ = "N" /\ m.seq = 0

EotNak(m) ==
    /\ IsEotNak(m)
    /\ Leave("K_SUCCESS")
    /\ UNCHANGED <<sendVars, fileVars, rtype, s2c>>

ErrorPacket(m) ==
    /\ m.typ = "E"
    /\ Leave("K_FAILURE")
    /\ UNCHANGED <<sendVars, fileVars, rtype, s2c>>

(* G with sub-command D: list a directory. *)
StartDir(m) ==
    /\ m.typ = "G" /\ state = "R_WAIT" /\ m.dat # OtherText
    /\ SendInit
    /\ Goto("S_INIT")
    /\ what' = "W_DIR"
    /\ rtype' = "A_DIR"
    /\ filelist' = 1
    /\ UNCHANGED <<cap_at, ifile, pos, ret>>

(* Mutation of UnknownGeneric: the run goes on after epkt(). *)
UnknownGenericGoesOn(m) ==
    /\ m.typ = "G" /\ state = "R_WAIT" /\ m.dat = OtherText
    /\ SendError
    /\ UNCHANGED <<what, state, cap_at, fileVars>> /\ KeepLoop

UnknownGeneric(m) ==
    /\ m.typ = "G" /\ state = "R_WAIT" /\ m.dat = OtherText
    /\ SendError
    /\ Leave("K_FAILURE")
    /\ UNCHANGED <<fileVars, rtype>>

(* R, in whatever state: serve a file, when stat() finds it. *)
StartGet(m) ==
    /\ m.typ = "R"
    /\ SendInit
    /\ Goto("S_INIT")
    /\ what' = "W_SEND"
    /\ rtype' = "A_GET"
    /\ filelist' = 1
    /\ UNCHANGED <<cap_at, ifile, pos, ret>>

GetNotAccessible(m) ==
    /\ m.typ = "R"
    /\ SendError
    /\ Leave("K_FAILURE")
    /\ rtype' = "A_GET"
    /\ UNCHANGED fileVars
-----------------------------------------------------------------------------
(* Serving a file: an ACK whose number s_pw knows frees the slot. *)

(* Mutation of Acked: the number of the ACK is not looked at. *)
AckedAny(m, w) == m.typ = "Y" /\ what = w /\ slot.seq \in s_pw

Acked(m, w) ==
    /\ m.typ = "Y" /\ what = w
    /\ m.seq \in s_pw
    /\ slot.seq \in s_pw

(* S filed under the number of an earlier ACK (see SendInit) is not freed: *)
(* the file is opened and spkt() then finds no room.                       *)
AckMisfiled(m) ==
    /\ m.typ = "Y" /\ what = "W_SEND" /\ state = "S_INIT"
    /\ m.seq \in s_pw /\ slot.seq \notin s_pw
    /\ s_seq' = NextSeq(s_seq)
    /\ filelist' = 0 /\ ifile' \in BOOLEAN /\ pos' = 0
    /\ Leave("K_FAILURE")
    /\ UNCHANGED <<slot, s_pw, rtype, s2c>>

(* case S_INIT: spar(), then openf() and the F packet. *)
SendFile(m) ==
    /\ Acked(m, "W_SEND") /\ state = "S_INIT"
    /\ cap_at' = SpokenAttr(m)
    /\ ifile' = TRUE /\ pos' = 0 /\ filelist' = 0
    /\ SendPacket("F", NextSeq(s_seq), NoText)
    /\ Goto("S_FILE")
    /\ UNCHANGED <<what, rtype, ret>>

(* The file vanished since stat(): X_ERROR, and no E packet. *)
OpenFails(m) ==
    /\ Acked(m, "W_SEND") /\ state = "S_INIT"
    /\ slot' = FreeSlot /\ s_pw' = s_pw \ {slot.seq}
    /\ s_seq' = NextSeq(s_seq)
    /\ ifile' = FALSE /\ filelist' = 0
    /\ cap_at' = SpokenAttr(m)
    /\ ret' = "K_FAILURE"
    /\ UNCHANGED <<what, state, pos, rtype, s2c>>

(* case S_FILE with attributes: sattr(). *)
SendAttr(m) ==
    /\ Acked(m, "W_SEND") /\ state = "S_FILE" /\ cap_at
    /\ SendPacket("A", NextSeq(s_seq), NoText)
    /\ Goto("S_ATTR")
    /\ UNCHANGED <<what, cap_at, fileVars>> /\ KeepLoop

Cancelled(m) == state = "S_DATA" /\ m.dat = CancelText

(* cases S_FILE without attributes, S_ATTR and S_DATA: sdata(), *)
InData(m) ==
    /\ Acked(m, "W_SEND")
    /\ \/ state \in {"S_ATTR", "S_DATA"}
       \/ state = "S_FILE" /\ ~cap_at
    /\ ~Cancelled(m)

SendData(m) ==
    /\ InData(m) /\ pos < NChunks
    /\ SendPacket("D", NextSeq(s_seq), pos + 1)
    /\ pos' = pos + 1
    /\ Goto("S_DATA")
    /\ UNCHANGED <<what, cap_at, filelist, ifile>> /\ KeepLoop

(* Mutation of SendEof: no slot to repeat Z from. *)
SendEofWithoutSlot(m) ==
    /\ InData(m) /\ pos = NChunks
    /\ slot' = FreeSlot /\ s_pw' = {NextSeq(s_seq)} /\ s_seq' = NextSeq(s_seq)
    /\ Send(Pkt("Z", NextSeq(s_seq), NoText))
    /\ ifile' = FALSE
    /\ Goto("S_EOF")
    /\ UNCHANGED <<what, cap_at, filelist, pos>> /\ KeepLoop

(* or, at the end of the file, closef() and the Z packet. *)
SendEof(m) ==
    /\ InData(m) /\ pos = NChunks
    /\ SendPacket("Z", NextSeq(s_seq), NoText)
    /\ ifile' = FALSE
    /\ Goto("S_EOF")
    /\ UNCHANGED <<what, cap_at, filelist, pos>> /\ KeepLoop

(* Mutation of CancelFile: no closef(). *)
CancelFileStaysOpen(m) ==
    /\ Acked(m, "W_SEND") /\ Cancelled(m)
    /\ SendPacket("Z", NextSeq(s_seq), NoText)
    /\ Goto("S_EOF")
    /\ UNCHANGED <<what, cap_at, fileVars>> /\ KeepLoop

(* The receiver asks with X or Z in its ACK to stop. *)
CancelFile(m) ==
    /\ Acked(m, "W_SEND") /\ Cancelled(m)
    /\ SendPacket("Z", NextSeq(s_seq), NoText)
    /\ ifile' = FALSE
    /\ Goto("S_EOF")
    /\ UNCHANGED <<what, cap_at, filelist, pos>> /\ KeepLoop

(* case S_EOF: no more names, the B packet. *)
SendBreak(m) ==
    /\ Acked(m, "W_SEND") /\ state = "S_EOF"
    /\ SendPacket("B", NextSeq(s_seq), NoText)
    /\ Goto("S_EOT")
    /\ UNCHANGED <<what, cap_at, fileVars>> /\ KeepLoop

(* case S_EOT: X_DONE. *)
GetDone(m) ==
    /\ Acked(m, "W_SEND") /\ state = "S_EOT"
    /\ slot' = FreeSlot /\ s_pw' = s_pw \ {slot.seq}
    /\ Leave("K_SUCCESS")
    /\ UNCHANGED <<s_seq, fileVars, rtype, s2c>>

(* Anything but an ACK while a file is sent: send the packet again.  The   *)
(* slot is never empty here (WindowFull), so that the branch that would    *)
(* send ahead of an ACK is not entered.                                    *)
NotAcked(m) ==
    /\ what = "W_SEND"
    /\ m.typ \notin {"Y", "G", "R", "E"} /\ ~IsEotNak(m)
    /\ Resend(TRUE)
    /\ UNCHANGED <<what, state, cap_at, fileVars, rtype>>
-----------------------------------------------------------------------------
(* Listing a directory.  S, X and D all go out with number 0. *)

SendText(m) ==
    /\ Acked(m, "W_DIR") /\ state = "S_INIT"
    /\ SendPacket("X", s_seq, NoText)
    /\ Goto("S_TEXT")
    /\ UNCHANGED <<what, cap_at, fileVars>> /\ KeepLoop

(* getdirdata() *)
SendListing(m) ==
    /\ Acked(m, "W_DIR") /\ state = "S_TEXT"
    /\ SendPacket("D", s_seq, Listing)
    /\ Goto("S_DATA")
    /\ UNCHANGED <<what, cap_at, fileVars>> /\ KeepLoop

ListingFails(m) ==
    /\ Acked(m, "W_DIR") /\ state = "S_TEXT"
    /\ slot' = FreeSlot          \* taken again, but never filled
    /\ s_seq' = 0
    /\ Send(Pkt("E", 0, NoText))
    /\ Leave("K_FAILURE")
    /\ UNCHANGED <<s_pw, fileVars, rtype>>

SendListingEnd(m) ==
    /\ Acked(m, "W_DIR")
    /\ \/ /\ state = "S_DATA"
          /\ SendPacket("Z", NextSeq(s_seq), NoText)
          /\ Goto("S_EOF")
       \/ /\ state = "S_EOF"
          /\ SendPacket("B", NextSeq(s_seq), NoText)
          /\ Goto("S_EOT")
    /\ UNCHANGED <<what, cap_at, fileVars>> /\ KeepLoop

DirDone(m) ==
    /\ Acked(m, "W_DIR") /\ state = "S_EOT"
    /\ slot' = FreeSlot /\ s_pw' = s_pw \ {slot.seq}
    /\ Goto("R_WAIT")
    /\ ret' = "K_SUCCESS"
    /\ UNCHANGED <<what, s_seq, cap_at, fileVars, rtype, s2c>>

(* Anything but an ACK falls through to the cases of the file transfer:    *)
(* in S_INIT the directory is opened as a file and F finds no free slot,   *)
(* S_TEXT has no case, in S_DATA and S_EOF the full window is noticed,     *)
(* in S_EOT the listing counts as done.                                    *)
DirNotAcked(m) ==
    /\ what = "W_DIR"
    /\ m.typ \notin {"Y", "G", "R", "E"} /\ ~IsEotNak(m)
    /\ \/ /\ state = "S_INIT"
          /\ s_seq' = NextSeq(s_seq)
          /\ s_pw' = s_pw \ {NextSeq(s_seq)}
          /\ filelist' = 0 /\ ifile' \in BOOLEAN /\ pos' = 0
          /\ Leave("K_FAILURE")
          /\ UNCHANGED <<slot, s2c>>
       \/ /\ state = "S_TEXT"
          /\ SendError
          /\ Leave("K_FAILURE")
          /\ UNCHANGED fileVars
       \/ /\ state \in {"S_DATA", "S_EOF"}
          /\ UNCHANGED <<what, state, cap_at, ret, sendVars, fileVars, s2c>>
       \/ /\ state = "S_EOT"
          /\ Leave("K_SUCCESS")
          /\ UNCHANGED <<sendVars, fileVars, s2c>>
    /\ UNCHANGED rtype
-----------------------------------------------------------------------------
(* Receiving a file: the Raspberry Pi goes as far as opening it. *)

Receiving(m) == what = "W_RECV" /\ m.typ \notin {"Y", "N", "G", "R", "E"}

(* case R_WAIT *)
FirstSInit(m) ==
    /\ Receiving(m) /\ state = "R_WAIT" /\ m.typ = "S"
    /\ cap_at' = SpokenAttr(m)
    /\ Reply("Y", 0, Params(SpokenAttr(m)))
    /\ Goto("R_FILE")
    /\ rtype' = "A_SEND"
    /\ UNCHANGED <<what, fileVars, ret>>

NotSInit(m) ==
    /\ Receiving(m) /\ state = "R_WAIT" /\ m.typ # "S"
    /\ Reply("N", 0, NoText)
    /\ UNCHANGED <<what, state, cap_at, fileVars>> /\ KeepLoop

(* cases R_FILE and R_ATTR: what is acknowledged, *)
ReceiveHeader(m) ==
    /\ Receiving(m)
    /\ \/ state = "R_FILE" /\ m.typ = "F" /\ Goto("R_ATTR")
       \/ state = "R_FILE" /\ m.typ \in {"Z", "S"} /\ UNCHANGED state
       \/ state = "R_ATTR" /\ m.typ \in {"A", "F"} /\ UNCHANGED state
    /\ IF m.typ = "S"
       THEN Reply("Y", 0, Params(SpokenAttr(m))) /\ cap_at' = SpokenAttr(m)
       ELSE Reply("Y", m.seq, NoText) /\ UNCHANGED cap_at
    /\ UNCHANGED <<what, fileVars>> /\ KeepLoop

(* the end of a transaction that brought no file, *)
ReceiveBreak(m) ==
    /\ Receiving(m) /\ state = "R_FILE" /\ m.typ = "B"
    /\ Reply("Y", m.seq, NoText)
    /\ Leave("K_SUCCESS")
    /\ UNCHANGED <<fileVars, rtype>>

(* and what ends in X_ERROR: openf(..., 2, ...) is not implemented. *)
RefuseFile(m) ==
    /\ Receiving(m)
    /\ \/ state = "R_ATTR" /\ m.typ \notin {"A", "F"} /\ SendError
       \/ /\ state = "R_FILE" /\ m.typ \notin {"F", "B", "Z", "S"}
          /\ UNCHANGED <<sendVars, s2c>>
    /\ Leave("K_FAILURE")
    /\ UNCHANGED <<fileVars, rtype>>
-----------------------------------------------------------------------------
(* kermit(K_RUN, ...) for a packet with a good block check. *)
GoodPacket(m) ==
    \/ Ignore(m) \/ EotNak(m) \/ ErrorPacket(m)
    \/ StartDir(m) \/ UnknownGeneric(m) \/ StartGet(m) \/ GetNotAccessible(m)
    \/ AckMisfiled(m) \/ SendFile(m) \/ OpenFails(m) \/ SendAttr(m)
    \/ SendData(m) \/ SendEof(m) \/ CancelFile(m) \/ SendBreak(m)
    \/ GetDone(m) \/ NotAcked(m)
    \/ SendText(m) \/ SendListing(m) \/ ListingFails(m)
    \/ SendListingEnd(m) \/ DirDone(m) \/ DirNotAcked(m)
    \/ FirstSInit(m) \/ NotSInit(m) \/ ReceiveHeader(m)
    \/ ReceiveBreak(m) \/ RefuseFile(m)

(* No packet, or fewer than four characters of one: a sender repeats its   *)
(* packet, a receiver that waits for F repeats its parameters.             *)
NoPacket ==
    /\ IF what = "W_RECV"
       THEN /\ IF state = "R_FILE"
               THEN Reply("Y", 0, Params(cap_at))
               ELSE UNCHANGED <<sendVars, s2c>>
            /\ UNCHANGED ret
       ELSE Resend(TRUE)
    /\ UNCHANGED <<what, state, cap_at, fileVars, rtype>>

(* A wrong block check; the result of resend() is dropped. *)
BadPacket ==
    /\ IF what = "W_RECV"
       THEN UNCHANGED <<sendVars, s2c, ret>>
       ELSE Resend(FALSE)
    /\ UNCHANGED <<what, state, cap_at, fileVars, rtype>>

(* One turn of the loop of kermit_main with a packet, *)
ServerReceive ==
    /\ ret = "RUN" /\ c2s # <<>>
    /\ c2s' = Tail(c2s)
    /\ start' = FALSE
    /\ UNCHANGED retrycounter
    /\ LET m == Head(c2s) IN
       \/ m.typ = "SHORT" /\ NoPacket
       \/ m.typ = "BAD" /\ BadPacket
       \/ m.typ \notin {"SHORT", "BAD"} /\ GoodPacket(m)

(* Mutation of ServerTimeout: timeouts are not counted. *)
ServerTimeoutUncounted ==
    /\ ret = "RUN"
    /\ start' = FALSE
    /\ NoPacket
    /\ UNCHANGED <<c2s, retrycounter>>

(* after a timeout of rxd, of which the whole run may have Retry + 1, *)
ServerTimeout ==
    /\ ret = "RUN" /\ retrycounter > 0
    /\ retrycounter' = retrycounter - 1
    /\ start' = FALSE
    /\ NoPacket
    /\ UNCHANGED c2s

(* one timeout later, with kermit(K_ERROR, ...), *)
ServerGiveUp ==
    /\ ret = "RUN" /\ retrycounter = 0
    /\ ret' = "K_TIMEOUT"
    /\ IF start
       THEN UNCHANGED <<sendVars, s2c, ifile>>
       ELSE /\ SendError
            /\ ifile' = IF state = "S_DATA" THEN FALSE ELSE ifile
    /\ UNCHANGED <<what, state, cap_at, filelist, pos, rtype, retrycounter,
                   start, c2s>>

(* and when rxd reads CMD CR LF: the SLATE has left MLDP mode. *)
ServerEnd ==
    /\ ret = "RUN"
    /\ ret' = "K_END"
    /\ UNCHANGED <<what, state, sendVars, cap_at, fileVars, rtype,
                   retrycounter, start, c2s, s2c>>

ServerNext == ServerReceive \/ ServerTimeout \/ ServerGiveUp \/ ServerEnd
=============================================================================
