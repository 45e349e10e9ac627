--------------------------- MODULE KermitTransfer ---------------------------
(***************************************************************************)
(* A transaction: the server of the Raspberry Pi and the client on the     *)
(* SLATE, each in its loop, over a pipe that keeps the order but may lose  *)
(* or spoil packets, with timeouts that may strike at any moment.          *)
(***************************************************************************)
EXTENDS KermitServer, KermitClient

vars == <<serverVars, clientVars, c2s, s2c>>

Init == ServerInit /\ ClientInit

Server == ServerNext /\ UNCHANGED clientVars
Client == ClientNext /\ UNCHANGED serverVars
Link   == LinkNext /\ UNCHANGED <<serverVars, clientVars>>

Next == Server \/ Client \/ Link

Spec == Init /\ [][Next]_vars

(* Both loops keep turning: rxd returns after its timeout, kermit() after  *)
(* a bounded amount of work.  Nothing is assumed of the pipe, nor that the *)
(* SLATE ever leaves MLDP mode (ServerEnd).                                *)
ServerTurn == ServerReceive \/ ServerTimeout \/ ServerGiveUp

FairSpec ==
    /\ Spec
    /\ WF_vars(ServerTurn /\ UNCHANGED clientVars)
    /\ WF_vars(Client)
-----------------------------------------------------------------------------
TypeOK == LinkTypeOK /\ ServerTypeOK /\ ClientTypeOK

Held == Len(c_got) + (IF c_rslot.used THEN 1 ELSE 0)

(* What the client writes is the file from its beginning: no chunk is      *)
(* skipped, repeated or out of order, whatever the pipe does.              *)
FileIsPrefix == \A i \in DOMAIN c_got : c_got[i] = i

(* kermit_main reports success for a GET, to the server or to the client,  *)
(* only when the client has written and closed the whole file (or has      *)
(* asked to cancel it).                                                    *)
SuccessIsWhole ==
    /\ ~c_cancel
    /\ \/ ret = "K_SUCCESS" /\ rtype = "A_GET"
       \/ c_ret = "K_SUCCESS" /\ c_mode = "A_GET"
    => c_file = "closed" /\ Len(c_got) = NChunks

(* The server reads chunk n + 1 only when the client holds chunk n - 1 at  *)
(* least, that is, it takes no stale ACK for that of the packet on its way.*)
NoStaleAck == c_mode = "A_GET" => pos <= Held + 1

(* While a transfer is under way the one slot holds the packet s_seq and   *)
(* s_pw finds it there, so that ok2rxd() never skips a read and an ACK     *)
(* always frees the slot that the next packet needs.                       *)
WindowFull ==
    ret = "RUN" /\ what # "W_RECV" =>
        slot.used /\ slot.seq = s_seq /\ s_pw = {s_seq}

(* Retransmissions and late packets never confuse a GET: the client fails  *)
(* only when its request was never answered or the server failed before.   *)
NoConfusion ==
    c_mode = "A_GET" /\ c_ret = "K_FAILURE" =>
        c_rtr > Retry \/ ret \in {"K_FAILURE", "K_TIMEOUT"}

(* A server that reports success for a GET has been told so by a client    *)
(* that was done, except when B has number 0: a client that waits for B    *)
(* answers every timeout with an ACK 0.                                    *)
EotIsAcked ==
    ret = "K_SUCCESS" /\ rtype = "A_GET" /\ s_seq # 0 => c_ret = "K_SUCCESS"

(* A client that reports success for a DIR hands out the listing ("We did  *)
(* a dir action, save the dir content").                                   *)
ListingDelivered == c_ret = "K_SUCCESS" /\ c_mode = "A_DIR" => c_dir

(* Both runs of kermit_main come to an end, whatever is lost or spoilt. *)
Termination == <>(ret # "RUN" /\ c_ret # "RUN")
=============================================================================
