-------------------------- MODULE ConnectionProofs --------------------------
(***************************************************************************)
(* main.c: whatever the SLATE, the link, ctrl-c and the file transfer      *)
(* thread do, and in whatever order, the thread may send while it lives    *)
(* and a new scan starts from nothing.                                     *)
(***************************************************************************)
EXTENDS Connection, TLAPS

Busy == thread \in {"starting", "running"}

(* The thread lives only between the first MLDP write and the join, and    *)
(* then no GATT operation is under way whose callback could move           *)
(* ble_con_step.                                                           *)
ThreadInTransfer ==
    Busy => /\ step = "FILE_TRANSFER"
            /\ pend = "none"
            /\ pc = "join" \/ (pc = "mainloop" /\ ~quit)

(* A GATT operation is under way only in the mainloop, before the thread   *)
(* is started, and at the step that started it.                            *)
OperationInMainloop ==
    /\ pend # "none" => pc = "mainloop" /\ ~quit
    /\ pend = "discover" => step = "SOCKET_OPEN"
    /\ pend \in Writes => step = "ALL_SERVICE_DISCOVERY_COMPLETE"

(* main() scans under its own signal handler, which each of its turns      *)
(* installs.                                                               *)
ScanUnderMain == pc \in {"scan", "read"} => handler = "main" /\ step = "SCANNING"

ConnectionInv ==
    /\ TypeOK
    /\ Live => ThreadInTransfer /\ OperationInMainloop /\ ScanUnderMain

Flags == quit \in BOOLEAN /\ linkUp \in BOOLEAN /\ stop \in BOOLEAN

LEMMA ConnectionInit == Init => ConnectionInv
<1> SUFFICES ASSUME Init PROVE ConnectionInv
  OBVIOUS
<1>1. Flags
  BY Zenon DEF Init, Flags
<1> QED
  BY ConnectionAssumption, <1>1
  DEF Init, ConnectionInv, TypeOK, ThreadInTransfer, OperationInMainloop,
      ScanUnderMain, Busy, Writes, Flags

LEMMA ConnectionNext == ConnectionInv /\ [Next]_vars => ConnectionInv'
<1> SUFFICES ASSUME ConnectionInv, [Next]_vars PROVE ConnectionInv'
  OBVIOUS
<1> USE ConnectionAssumption
    DEF ConnectionInv, TypeOK, ThreadInTransfer, OperationInMainloop,
        ScanUnderMain, Busy, Writes, Live, End
<1>1. CASE StartScan
  BY <1>1 DEF StartScan, Turn
<1>2. CASE ScanRead
  BY <1>2 DEF ScanRead
<1>3. CASE LeConnection
  BY <1>3 DEF LeConnection, Turn
<1>4. CASE OpenSocket
  BY <1>4 DEF OpenSocket, Turn
<1>5. CASE CreateCentral
  <2>1. Flags'
    BY <1>5, Zenon DEF CreateCentral, Flags
  <2> QED
    BY <1>5, <2>1 DEF CreateCentral, Turn, Flags
<1>6. CASE EndOfStateMachine
  BY <1>6 DEF EndOfStateMachine
<1>7. CASE LeaveMainloop
  BY <1>7 DEF LeaveMainloop
<1>8. CASE Joined
  <2>1. CASE /\ step' = "SCANNING" /\ quit' = TRUE /\ pc' = "mainloop" /\ ~Busy
             /\ UNCHANGED <<alive, sock, linkUp, pend, thread, handler, stop, rx, sigs>>
    BY <1>8, <2>1 DEF Joined
  <2>2. CASE End("bad_join") /\ UNCHANGED <<step, handler>>
    BY <1>8, <2>2 DEF Joined
  <2> QED
    BY <1>8, <2>1, <2>2 DEF Joined
<1>9. CASE ScanEvent
  BY <1>9 DEF ScanEvent
<1>10. CASE Ready
  BY <1>10 DEF Ready, InMainloop
<1>11. CASE Written
  <2>1. Flags'
    BY <1>11, Zenon DEF Written, Flags
  <2> QED
    BY <1>11, <2>1 DEF Written, InMainloop, Flags
<1>12. CASE MldpData
  BY <1>12 DEF MldpData, InMainloop, Stored
<1>13. CASE Disconnected
  BY <1>13 DEF Disconnected, InMainloop
<1>14. CASE ServeTransaction
  BY <1>14 DEF ServeTransaction
<1>15. CASE GetByte
  BY <1>15 DEF GetByte
<1>16. CASE FinishTransfer
  BY <1>16 DEF FinishTransfer
<1>17. CASE LinkLost
  <2>1. Flags'
    BY <1>17, Zenon DEF LinkLost, Flags
  <2> QED
    BY <1>17, <2>1 DEF LinkLost, Flags
<1>18. CASE Sigint
  <2>1. Flags'
    BY <1>18, Zenon DEF Sigint, Flags
  <2> QED
    BY <1>18, <2>1 DEF Sigint, Flags
<1>19. CASE UNCHANGED vars
  BY <1>19 DEF vars
<1> QED
  BY <1>1, <1>2, <1>3, <1>4, <1>5, <1>6, <1>7, <1>8, <1>9, <1>10, <1>11,
     <1>12, <1>13, <1>14, <1>15, <1>16, <1>17, <1>18, <1>19
  DEF Next, MainTurn, Callback, Thread

(* While the file transfer thread lives, ble_con_step stays                *)
(* BLE_FILE_TRANSFER, so ble_mldp_send_bytes() never refuses to send,      *)
(* whatever the size of the receive FIFO and the number of signals.        *)
THEOREM ConnectionSendNeverRefused == Spec => []SendNeverRefused
<1>1. ConnectionInv => SendNeverRefused
  BY DEF ConnectionInv, SendNeverRefused, ThreadInTransfer, Busy
<1> QED
  BY ConnectionInit, ConnectionNext, <1>1, PTL DEF Spec

(* main() starts a scan only when no callback of the last connection is to *)
(* come, its thread has ended and the handler it installed is replaced.    *)
THEOREM ConnectionCleanRescan == Spec => []CleanRescan
<1>1. ConnectionInv => CleanRescan
  BY DEF ConnectionInv, CleanRescan, TypeOK, ThreadInTransfer,
         OperationInMainloop, ScanUnderMain, Busy
<1> QED
  BY ConnectionInit, ConnectionNext, <1>1, PTL DEF Spec
=============================================================================
