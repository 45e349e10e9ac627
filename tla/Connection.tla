----------------------------- MODULE Connection -----------------------------
(***************************************************************************)
(* main.c: the state machine that scans for the SLATE, connects to it,     *)
(* goes through the identification handshake and starts the file transfer  *)
(* thread; the callbacks that the mainloop runs; the life of that thread   *)
(* (file_transfer_task.c); and SIGINT.                                     *)
(*                                                                         *)
(* Steps of the main thread between two blocking points, callbacks         *)
(* included, are atomic; the file transfer thread, the SLATE, the link and *)
(* the signal come in between.                                             *)
(***************************************************************************)
EXTENDS Integers

CONSTANTS RxRoom,   \* bound: MLDP writes that the receive FIFO holds
          MaxSig    \* bound: how often ctrl-c is pressed

ASSUME ConnectionAssumption == RxRoom \in Nat \ {0} /\ MaxSig \in Nat

VARIABLES
    step,     \* ble_con_step
    pc,       \* where the main thread is
    alive,    \* the process runs, or how it ended
    quit,     \* epoll_terminate
    sock,     \* the socket given to bt_att_new(): none, open, or descriptor 1
    linkUp,   \* the SLATE is connected
    pend,     \* what GATT operation is under way
    thread,   \* the file transfer thread
    handler,  \* who handles SIGINT
    stop,     \* end_of_state_machine
    rx,       \* MLDP writes in the receive FIFO
    sigs      \* how often ctrl-c was pressed

vars == <<step, pc, alive, quit, sock, linkUp, pend, thread, handler, stop,
          rx, sigs>>

TypeOK ==
    /\ step \in {"SCANNING", "SLATE_FOUND", "CONNECTED", "SOCKET_OPEN",
                 "ALL_SERVICE_DISCOVERY_COMPLETE", "WAIT_MLDP_DATA",
                 "FILE_TRANSFER"}
    /\ pc \in {"top", "scan", "read", "mainloop", "join"}
    /\ alive \in {"run", "ended", "exit", "bad_join", "bad_signal"}
    /\ quit \in BOOLEAN
    /\ sock \in {"none", "open", "stdout"}
    /\ linkUp \in BOOLEAN
    /\ pend \in {"none", "discover", "ident", "auth", "misc"}
    /\ thread \in {"none", "starting", "running", "done"}
    /\ handler \in {"default", "main", "ft"}
    /\ stop \in BOOLEAN
    /\ rx \in 0 .. RxRoom
    /\ sigs \in 0 .. MaxSig

(* After parse_given_address() *)
Init ==
    /\ step = "SCANNING" /\ pc = "top" /\ alive = "run"
    /\ quit = FALSE /\ sock = "none" /\ linkUp = FALSE
    /\ pend = "none" /\ thread = "none" /\ handler = "default"
    /\ stop = FALSE /\ rx = 0 /\ sigs = 0

Live == alive = "run"

End(how) ==
    /\ alive' = how
    /\ UNCHANGED <<pc, quit, sock, linkUp, pend, thread, stop, rx, sigs>>
-----------------------------------------------------------------------------
(* The loop of main(): each turn sets the handler and looks at the step. *)

Turn(s) == Live /\ pc = "top" /\ ~stop /\ step = s /\ handler' = "main"

(* cmd_lescan(), which leaves the process when the adapter refuses *)
StartScan ==
    /\ Turn("SCANNING")
    /\ \/ /\ pc' = "scan"
          /\ UNCHANGED <<step, alive, quit, sock, linkUp, pend, thread, stop,
                         rx, sigs>>
       \/ End("exit") /\ UNCHANGED step

(* scan_result(): read() blocks until an event comes, *)
ScanRead ==
    /\ Live /\ pc = "scan"
    /\ pc' = "read"
    /\ UNCHANGED <<step, alive, quit, sock, linkUp, pend, thread, handler, stop,
                   rx, sigs>>

(* the advertisement of the SLATE, which is not connected; that of another *)
(* device; or an event that is no advertisement and ends this scan.        *)
ScanEvent ==
    /\ Live /\ pc = "read"
    /\ \/ ~linkUp /\ step' = "SLATE_FOUND" /\ pc' = "top"
       \/ UNCHANGED step /\ pc' = "scan"
       \/ UNCHANGED step /\ pc' = "top"
    /\ UNCHANGED <<alive, quit, sock, linkUp, pend, thread, handler, stop, rx,
                   sigs>>

LeConnection ==
    /\ Turn("SLATE_FOUND")
    /\ \/ /\ step' = "CONNECTED" /\ linkUp' = TRUE
          /\ UNCHANGED <<pc, alive, quit, sock, pend, thread, stop, rx, sigs>>
       \/ End("exit") /\ UNCHANGED step

(* l2cap_le_att_connect(): a connect() that fails yields -1 and ends the   *)
(* loop, any other failure yields EXIT_FAILURE, which is taken for a       *)
(* descriptor.                                                             *)
OpenSocket ==
    /\ Turn("CONNECTED")
    /\ \/ /\ step' = "SOCKET_OPEN"
          /\ sock' \in {"open", "stdout"}
          /\ UNCHANGED <<pc, alive, quit, linkUp, pend, thread, stop, rx, sigs>>
       \/ End("ended") /\ step' \in {"SCANNING", "CONNECTED"}

(* gatt_central_create(), mldp_fifos_init(), mainloop_run() *)
CreateCentral ==
    /\ Turn("SOCKET_OPEN")
    /\ \/ /\ pc' = "mainloop" /\ quit' = FALSE
          /\ pend' = "discover" /\ thread' = "none" /\ rx' = 0
          /\ UNCHANGED <<step, alive, sock, linkUp, stop, sigs>>
       \/ End("ended") /\ step' \in {"SCANNING", "SOCKET_OPEN"}

EndOfStateMachine ==
    /\ Live /\ pc = "top" /\ stop
    /\ End("ended")
    /\ UNCHANGED <<step, handler>>

LeaveMainloop ==
    /\ Live /\ pc = "mainloop" /\ quit
    /\ pc' = "top"
    /\ UNCHANGED <<step, alive, quit, sock, linkUp, pend, thread, handler, stop,
                   rx, sigs>>
-----------------------------------------------------------------------------
(* Callbacks of the mainloop. *)

InMainloop == Live /\ pc = "mainloop" /\ ~quit

(* ready_cb(): a discovery that fails leaves everything as it is. *)
Ready ==
    /\ InMainloop /\ pend = "discover" /\ sock = "open" /\ linkUp
    /\ \/ step' = "ALL_SERVICE_DISCOVERY_COMPLETE" /\ pend' = "ident"
       \/ pend' = "none" /\ UNCHANGED step
    /\ UNCHANGED <<pc, alive, quit, sock, linkUp, thread, handler, stop, rx, sigs>>

Writes == {"ident", "auth", "misc"}

(* The three write callbacks, each of which starts the next write; a       *)
(* refusal calls retry_scan().                                             *)
Written ==
    /\ InMainloop /\ pend \in Writes /\ linkUp
    /\ \/ /\ pend' = [ident |-> "auth", auth |-> "misc", misc |-> "none"][pend]
          /\ step' = IF pend = "misc" THEN "WAIT_MLDP_DATA" ELSE step
          /\ UNCHANGED quit
       \/ /\ pend' = "none"
          /\ step' = "SCANNING" /\ quit' = TRUE
    /\ UNCHANGED <<pc, alive, sock, linkUp, thread, handler, stop, rx, sigs>>

Stored(n) == IF n < RxRoom THEN n + 1 ELSE n

(* server_mldp_data_char_write_cb(): the first write that comes once the   *)
(* handshake is done empties the FIFOs and starts the thread.              *)
MldpData ==
    /\ InMainloop /\ linkUp /\ sock = "open"
    /\ \/ /\ step = "WAIT_MLDP_DATA"
          /\ step' = "FILE_TRANSFER"
          /\ \/ thread' = "starting" /\ rx' = Stored(0) /\ UNCHANGED alive
             \/ alive' = "exit" /\ UNCHANGED <<thread, rx>>
       \/ /\ step # "WAIT_MLDP_DATA"
          /\ rx' = Stored(rx)
          /\ UNCHANGED <<step, thread, alive>>
    /\ UNCHANGED <<pc, quit, sock, linkUp, pend, handler, stop, sigs>>

(* Mutation of Disconnected: the scan restarts without the join. *)
DisconnectedNoJoin ==
    /\ InMainloop /\ (~linkUp \/ sock = "stdout")
    /\ step' = "SCANNING" /\ quit' = TRUE
    /\ pend' = "none" /\ sock' = "none"
    /\ UNCHANGED <<pc, alive, linkUp, thread, handler, stop, rx, sigs>>

(* The link is gone: bt_att fails the operation under way, then calls      *)
(* att_disconnect_cb(), which first joins the thread.                      *)
Disconnected ==
    /\ InMainloop /\ (~linkUp \/ sock = "stdout")
    /\ IF pend \in Writes
       THEN step' = "SCANNING" /\ quit' = TRUE
       ELSE UNCHANGED <<step, quit>>
    /\ pend' = "none" /\ sock' = "none"
    /\ pc' = "join"
    /\ UNCHANGED <<alive, linkUp, thread, handler, stop, rx, sigs>>

(* Mutations of Joined: no wait for the end of the thread, *)
JoinedAtOnce ==
    /\ Live /\ pc = "join"
    /\ step' = "SCANNING" /\ quit' = TRUE /\ pc' = "mainloop"
    /\ UNCHANGED <<alive, sock, linkUp, pend, thread, handler, stop, rx, sigs>>

(* and no mainloop_quit(). *)
JoinedStays ==
    /\ Live /\ pc = "join" /\ thread \in {"none", "done"}
    /\ step' = "SCANNING" /\ pc' = "mainloop"
    /\ UNCHANGED <<alive, quit, sock, linkUp, pend, thread, handler, stop, rx, sigs>>

(* pthread_join() of a thread that was never created is undefined: it may  *)
(* fail or take the process down.                                          *)
Joined ==
    /\ Live /\ pc = "join" /\ thread \in {"none", "done"}
    /\ \/ /\ step' = "SCANNING" /\ quit' = TRUE /\ pc' = "mainloop"
          /\ UNCHANGED <<alive, sock, linkUp, pend, thread, handler, stop, rx,
                         sigs>>
       \/ thread = "none" /\ End("bad_join") /\ UNCHANGED <<step, handler>>
-----------------------------------------------------------------------------
(* The file transfer thread: ft_task(). *)

(* Every turn of its loop takes SIGINT over, for the whole process. *)
ServeTransaction ==
    /\ Live /\ thread \in {"starting", "running"}
    /\ thread' = "running"
    /\ handler' = "ft"
    /\ UNCHANGED <<step, pc, alive, quit, sock, linkUp, pend, stop, rx, sigs>>

GetByte ==
    /\ Live /\ thread = "running" /\ rx > 0
    /\ rx' = rx - 1
    /\ UNCHANGED <<step, pc, alive, quit, sock, linkUp, pend, thread, handler,
                   stop, sigs>>

(* A GET has been served, or a transaction failed. *)
FinishTransfer ==
    /\ Live /\ thread = "running"
    /\ thread' = "done"
    /\ UNCHANGED <<step, pc, alive, quit, sock, linkUp, pend, handler, stop, rx,
                   sigs>>
-----------------------------------------------------------------------------
(* The SLATE goes away, or the radio link breaks. *)
LinkLost ==
    /\ Live /\ linkUp
    /\ linkUp' = FALSE
    /\ UNCHANGED <<step, pc, alive, quit, sock, pend, thread, handler, stop, rx,
                   sigs>>

(* SIGINT.  sig_handler() stops a scan when it interrupts its read(); at   *)
(* any other step it calls le_deconnection(), which reads through a null   *)
(* pointer.  file_transfer_sig_handler() leaves the process.               *)
Sigint ==
    /\ Live /\ sigs < MaxSig
    /\ sigs' = sigs + 1
    /\ \/ /\ handler = "main" /\ step = "SCANNING"
          /\ stop' = TRUE
          /\ pc' = IF pc = "read" THEN "top" ELSE pc
          /\ UNCHANGED alive
       \/ /\ handler = "main" /\ step # "SCANNING"
          /\ alive' = "bad_signal"
          /\ UNCHANGED <<stop, pc>>
       \/ /\ handler # "main"
          /\ alive' = "exit"
          /\ UNCHANGED <<stop, pc>>
    /\ UNCHANGED <<step, quit, sock, linkUp, pend, thread, handler, rx>>
-----------------------------------------------------------------------------
MainTurn ==
    \/ StartScan \/ ScanRead \/ LeConnection \/ OpenSocket \/ CreateCentral
    \/ EndOfStateMachine \/ LeaveMainloop \/ Joined

Callback == Ready \/ Written \/ MldpData \/ Disconnected

Thread == ServeTransaction \/ GetByte \/ FinishTransfer

Next == MainTurn \/ ScanEvent \/ Callback \/ Thread \/ LinkLost \/ Sigint

Spec == Init /\ [][Next]_vars

(* The main thread goes on where it does not block, and notices a broken   *)
(* link.  A thread whose SLATE is gone gives up: kreadpkt times out, and   *)
(* kermit_main allows k->retry + 1 timeouts only.  Nothing is assumed of   *)
(* the SLATE, the other devices around, or who presses ctrl-c.             *)
FairSpec ==
    /\ Spec
    /\ WF_vars(MainTurn)
    /\ WF_vars(Disconnected)
    /\ WF_vars(ServeTransaction /\ thread = "starting")
    /\ WF_vars(FinishTransfer /\ pc = "join")
-----------------------------------------------------------------------------
(* While the thread lives, ble_con_step stays BLE_FILE_TRANSFER, the one   *)
(* step at which ble_mldp_send_bytes() does not refuse to send.            *)
SendNeverRefused == Live /\ thread \in {"starting", "running"} => step = "FILE_TRANSFER"

(* A scan begins with nothing left of the connection that was given up: no *)
(* callback is to come, the thread has ended, and the handler it installed *)
(* for the whole process is gone, so that ctrl-c ends the scan.            *)
CleanRescan ==
    /\ TypeOK
    /\ Live /\ pc \in {"scan", "read"} =>
          /\ pend = "none" /\ thread \in {"none", "done"}
          /\ handler = "main"

(* "Restart scan": a lost connection, or a refused write, leads back to    *)
(* scanning, unless the process ends before.                               *)
Rescan ==
    (Live /\ (pc = "join" \/ (pc = "mainloop" /\ quit))) ~> (pc = "scan" \/ ~Live)
=============================================================================
