---------------------------- MODULE KermitClient ----------------------------
(***************************************************************************)
(* The other Kermit: one run of kermit_main(A_GET, ...) or                 *)
(* kermit_main(A_DIR, ...), as the SLATE makes it.  Its protocol is the    *)
(* receiving half of kermit.c (states R_WAIT to R_DATA).  Its file system  *)
(* is not that of unixio_rpi.c, which cannot create files: an output file  *)
(* can always be opened and written.                                       *)
(*                                                                         *)
(* The only packet of the client that takes a send slot is its request, R  *)
(* or G, which stays there with number 0: of the slot the model keeps the  *)
(* retry count.  The receive window is one packet wide.                    *)
(***************************************************************************)
EXTENDS KermitLink

CONSTANTS Modes,        \* the requests it may make, of "A_GET" and "A_DIR"
          PeerCancels   \* whether its user may cancel a transfer

ASSUME ClientAssumption ==
    /\ Modes \subseteq {"A_GET", "A_DIR"}
    /\ PeerCancels \in BOOLEAN

VARIABLES
    c_mode,          \* the action of kermit_main
    c_attr,          \* it knows attribute packets
    c_what,          \* k->what
    c_state,         \* k->state
    c_rtr,           \* opktinfo[0].rtr, of the request; -1 when freed
    c_rslot,         \* ipktinfo[0]: the packet in the receive window
    c_file,          \* the output file: "none", "open" or "closed"
    c_got,           \* the chunks written to it
    c_dir,           \* r->dir holds the listing
    c_cancel,        \* an ACK asked to cancel the transfer
    c_retrycounter,  \* of kermit_main
    c_ret            \* what kermit_main returned, or RUN

recvVars   == <<c_rslot, c_file, c_got, c_dir, c_cancel>>
clientVars == <<c_mode, c_attr, c_what, c_state, c_rtr, recvVars,
                c_retrycounter, c_ret>>

NoPkt == [used |-> FALSE, seq |-> 0, dat |-> NoText]

ClientTypeOK ==
    /\ c_mode \in Modes
    /\ c_attr \in BOOLEAN
    /\ c_what \in {"W_GET", "W_DIR", "W_RECV"}
    /\ c_state \in {"R_WAIT", "R_FILE", "R_ATTR", "R_DATA"}
    /\ c_rtr \in -1 .. Retry + 1
    /\ c_rslot \in [used : BOOLEAN, seq : SeqNo, dat : Data]
    /\ c_file \in {"none", "open", "closed"}
    /\ c_got \in Seq(Data)
    /\ c_dir \in BOOLEAN
    /\ c_cancel \in BOOLEAN
    /\ c_retrycounter \in 0 .. Retry + 1
    /\ c_ret \in {"RUN", "K_SUCCESS", "K_FAILURE", "K_TIMEOUT"}

Request(mode) == Pkt(IF mode = "A_GET" THEN "R" ELSE "G", 0, NoText)

(* kermit(K_REINIT, ...), then K_GET or K_DIR: the request is sent. *)
ClientInit ==
    /\ c_mode \in Modes
    /\ c_attr \in BOOLEAN
    /\ c_what = IF c_mode = "A_GET" THEN "W_GET" ELSE "W_DIR"
    /\ c_state = "R_WAIT"
    /\ c_rtr = 0
    /\ c_rslot = NoPkt
    /\ c_file = "none" /\ c_got = <<>> /\ c_dir = FALSE
    /\ c_cancel = FALSE
    /\ c_retrycounter = Retry + 1
    /\ c_ret = "RUN"
    /\ c2s = <<Request(c_mode)>>
    /\ s2c = <<>>
-----------------------------------------------------------------------------
CSend(p) == c2s' = Append(c2s, p)

CAck(m) == CSend(Pkt("Y", m.seq, NoText))

CAckInit == CSend(Pkt("Y", 0, IF c_attr THEN ParamsAttr ELSE ParamsPlain))

CError == CSend(Pkt("E", 0, NoText))

(* resend() of the request *)
CResend(reportLimit) ==
    \/ c_rtr = -1 /\ UNCHANGED <<c_rtr, c_ret, c2s>>
    \/ /\ c_rtr >= Retry
       /\ c_rtr' = Retry + 1
       /\ c_ret' = IF reportLimit THEN "K_FAILURE" ELSE c_ret
       /\ UNCHANGED c2s
    \/ /\ c_rtr \in 0 .. Retry - 1
       /\ c_rtr' = c_rtr + 1
       /\ CSend(Request(c_mode))
       /\ UNCHANGED c_ret

CLeave(r) == c_ret' = r /\ UNCHANGED <<c_what, c_state, c_rtr>>

CGoto(s) == c_state' = s /\ UNCHANGED <<c_what, c_rtr, c_ret>>
-----------------------------------------------------------------------------
(* Mutation of IsNext: any number will do. *)
IsNextAny(m) == TRUE

(* handle_good_rpkt() with a window of one packet: the new packet pushes   *)
(* the one before it into the file, the same packet again is acknowledged  *)
(* again.  The search for older packets runs past the end of the numbers   *)
(* when the latest is the highest one, and then finds any number.          *)
IsNext(m) == ~c_rslot.used \/ m.seq = NextSeq(c_rslot.seq)

IsOld(m) == ~IsNext(m) /\ (m.seq = c_rslot.seq \/ c_rslot.seq = SeqMod - 1)

(* The file so far: openf() starts a new one, a listing is not written. *)
Written ==
    CASE c_state = "R_ATTR" -> <<>>
      [] c_rslot.used /\ c_mode = "A_GET" -> Append(c_got, c_rslot.dat)
      [] OTHER -> c_got

StoreNext(m) ==
    /\ IsNext(m)
    /\ c_rslot' = [used |-> TRUE, seq |-> m.seq, dat |-> m.dat]
    /\ c_got' = Written
    /\ \E text \in {NoText, CancelText} :
          /\ text = CancelText => PeerCancels /\ c_mode = "A_GET"
          /\ CSend(Pkt("Y", m.seq, text))
          /\ c_cancel' = (c_cancel \/ text = CancelText)
    /\ UNCHANGED c_ret

StoreAgain(m) ==
    /\ IsOld(m) /\ m.seq = c_rslot.seq
    /\ CAck(m)
    /\ UNCHANGED <<c_rslot, c_got, c_cancel, c_ret>>

StoreOld(m) ==
    /\ IsOld(m) /\ m.seq # c_rslot.seq
    /\ c2s' = c2s \o <<Pkt("Y", m.seq, NoText), Pkt("E", 0, NoText)>>
    /\ c_ret' = "K_FAILURE"
    /\ UNCHANGED <<c_rslot, c_got, c_cancel>>

StoreUnexpected(m) ==
    /\ ~IsNext(m) /\ ~IsOld(m)
    /\ UNCHANGED <<c_rslot, c_got, c_cancel, c_ret, c2s>>

(* case R_DATA and, after openf(), case R_ATTR *)
CData(m) ==
    /\ m.typ = "D" /\ c_state \in {"R_ATTR", "R_DATA"}
    /\ StoreNext(m) \/ StoreAgain(m) \/ StoreOld(m) \/ StoreUnexpected(m)
    /\ c_state' = "R_DATA"
    /\ c_file' = IF c_mode = "A_GET" THEN "open" ELSE c_file
    /\ c_dir' = (c_mode = "A_DIR" \/ c_dir)
    /\ UNCHANGED <<c_what, c_rtr>>

(* flush_to_file() *)
FlushToFile ==
    /\ c_got' = Written
    /\ c_rslot' = IF c_mode = "A_GET" THEN NoPkt ELSE c_rslot

(* Mutations of CEof: the window is not flushed, *)
CEofUnflushed(m) ==
    /\ m.typ = "Z" /\ c_state \in {"R_ATTR", "R_DATA"}
    /\ c_file' = IF c_mode = "A_GET" THEN "closed" ELSE c_file
    /\ CAck(m)
    /\ CGoto("R_FILE")
    /\ UNCHANGED <<c_got, c_rslot, c_dir, c_cancel>>

(* or the file is not closed. *)
CEofStaysOpen(m) ==
    /\ m.typ = "Z" /\ c_state \in {"R_ATTR", "R_DATA"}
    /\ FlushToFile
    /\ CAck(m)
    /\ CGoto("R_FILE")
    /\ UNCHANGED <<c_file, c_dir, c_cancel>>

(* Z: the window goes into the file, closef(), ACK *)
CEof(m) ==
    /\ m.typ = "Z" /\ c_state \in {"R_ATTR", "R_DATA"}
    /\ FlushToFile
    /\ c_file' = IF c_mode = "A_GET" THEN "closed" ELSE c_file
    /\ CAck(m)
    /\ CGoto("R_FILE")
    /\ UNCHANGED <<c_dir, c_cancel>>
-----------------------------------------------------------------------------
CIgnore(m) ==
    /\ c_what = "W_RECV" /\ m.typ \in {"N", "Y"}
    /\ UNCHANGED <<c_what, c_state, c_rtr, recvVars, c_ret, c2s>>

(* An ACK 0 while a listing is awaited frees the slot of the request. *)
CRequestAcked(m) ==
    /\ c_what = "W_DIR" /\ m.typ = "Y"
    /\ c_rtr' = IF m.seq = 0 THEN -1 ELSE c_rtr
    /\ UNCHANGED <<c_what, c_state, recvVars, c_ret, c2s>>

CErrorPacket(m) ==
    /\ m.typ = "E"
    /\ CLeave("K_FAILURE")
    /\ UNCHANGED <<recvVars, c2s>>

(* case R_WAIT *)
CInit(m) ==
    /\ c_state = "R_WAIT" /\ m.typ = "S"
    /\ CAckInit
    /\ IF c_what = "W_DIR"
       THEN c_state' = "R_DATA" /\ UNCHANGED c_what
       ELSE c_state' = "R_FILE" /\ c_what' = "W_RECV"
    /\ UNCHANGED <<c_rtr, recvVars, c_ret>>

CNotInit(m) ==
    /\ c_state = "R_WAIT" /\ m.typ \notin {"S", "E"}
    /\ \/ c_what = "W_GET" /\ CResend(TRUE)
       \/ /\ c_what = "W_DIR" /\ m.typ # "Y"
          /\ CSend(Pkt("N", 0, NoText))
          /\ UNCHANGED <<c_rtr, c_ret>>
    /\ UNCHANGED <<c_what, c_state, recvVars>>

(* cases R_FILE, R_ATTR and R_DATA: packets that are only acknowledged *)
CHeader(m) ==
    /\ \/ c_state = "R_FILE" /\ m.typ = "F" /\ CGoto("R_ATTR")
       \/ c_state = "R_FILE" /\ m.typ = "Z" /\ CGoto("R_FILE")
       \/ c_state = "R_ATTR" /\ m.typ \in {"A", "F"} /\ CGoto("R_ATTR")
       \/ c_state = "R_DATA" /\ m.typ = "X" /\ CGoto("R_DATA")
    /\ CAck(m)
    /\ UNCHANGED recvVars

CInitAgain(m) ==
    /\ c_state = "R_FILE" /\ m.typ = "S"
    /\ CAckInit
    /\ c_what' = "W_RECV"
    /\ UNCHANGED <<c_state, c_rtr, recvVars, c_ret>>

(* Mutation of CBreak: B is taken in the middle of a file too. *)
CBreakAnywhere(m) ==
    /\ c_state \in {"R_FILE", "R_DATA"} /\ m.typ = "B"
    /\ CAck(m)
    /\ CLeave("K_SUCCESS")
    /\ UNCHANGED recvVars

CBreak(m) ==
    /\ c_state = "R_FILE" /\ m.typ = "B"
    /\ CAck(m)
    /\ CLeave("K_SUCCESS")
    /\ UNCHANGED recvVars

(* Mutation of Expected: no case for a repeated Z. *)
ExpectedOneEof == [R_FILE |-> {"F", "B", "S"}, R_ATTR |-> {"A", "D", "Z", "F"},
                   R_DATA |-> {"X", "D", "Z"}]

(* Any other packet ends the run, in R_FILE without an E packet. *)
Expected == [R_FILE |-> {"F", "B", "Z", "S"}, R_ATTR |-> {"A", "D", "Z", "F"},
             R_DATA |-> {"X", "D", "Z"}]

CUnexpected(m) ==
    /\ c_state # "R_WAIT"
    /\ m.typ \notin Expected[c_state] \cup {"E", "Y"}
    /\ ~(m.typ = "N" /\ c_what = "W_RECV")
    /\ IF c_state = "R_FILE" THEN UNCHANGED c2s ELSE CError
    /\ CLeave("K_FAILURE")
    /\ UNCHANGED recvVars

CGoodPacket(m) ==
    \/ CIgnore(m) \/ CRequestAcked(m) \/ CErrorPacket(m)
    \/ CInit(m) \/ CNotInit(m) \/ CHeader(m) \/ CInitAgain(m)
    \/ CData(m) \/ CEof(m) \/ CBreak(m) \/ CUnexpected(m)

(* A short packet or none: the request is repeated until the transfer has  *)
(* begun, and a client that waits for F or B repeats its parameters.       *)
CNoPacket ==
    /\ IF c_what = "W_RECV"
       THEN /\ IF c_state = "R_FILE" THEN CAckInit ELSE UNCHANGED c2s
            /\ UNCHANGED <<c_rtr, c_ret>>
       ELSE CResend(TRUE)
    /\ UNCHANGED <<c_what, c_state, recvVars>>

CBadPacket ==
    /\ IF c_what = "W_RECV"
       THEN UNCHANGED <<c_rtr, c_ret, c2s>>
       ELSE CResend(FALSE)
    /\ UNCHANGED <<c_what, c_state, recvVars>>

ClientReceive ==
    /\ c_ret = "RUN" /\ s2c # <<>>
    /\ s2c' = Tail(s2c)
    /\ UNCHANGED <<c_mode, c_attr, c_retrycounter>>
    /\ LET m == Head(s2c) IN
       \/ m.typ = "SHORT" /\ CNoPacket
       \/ m.typ = "BAD" /\ CBadPacket
       \/ m.typ \notin {"SHORT", "BAD"} /\ CGoodPacket(m)

ClientTimeout ==
    /\ c_ret = "RUN" /\ c_retrycounter > 0
    /\ c_retrycounter' = c_retrycounter - 1
    /\ CNoPacket
    /\ UNCHANGED <<c_mode, c_attr, s2c>>

ClientGiveUp ==
    /\ c_ret = "RUN" /\ c_retrycounter = 0
    /\ CLeave("K_TIMEOUT")
    /\ CError
    /\ c_file' = IF c_file = "open" THEN "closed" ELSE c_file
    /\ UNCHANGED <<c_mode, c_attr, c_rslot, c_got, c_dir, c_cancel,
                   c_retrycounter, s2c>>

(* Done, the SLATE may wait for packets again; B is no S and is refused.   *)
ClientIdle ==
    /\ c_ret = "K_SUCCESS" /\ s2c # <<>> /\ Head(s2c).typ = "B"
    /\ s2c' = Tail(s2c)
    /\ CSend(Pkt("N", 0, NoText))
    /\ UNCHANGED clientVars

ClientNext == ClientReceive \/ ClientTimeout \/ ClientGiveUp \/ ClientIdle
=============================================================================
