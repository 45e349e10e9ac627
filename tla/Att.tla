-------------------------------- MODULE Att --------------------------------
(***************************************************************************)
(* bluez_deps/src/shared/att.c: the ATT bearer under both GATT roles.      *)
(* Operations wait in three queues and on the channel; one request and one *)
(* indication may be outstanding; answers, the 30 s timer, cancellation,   *)
(* a security retry and the disconnection all end operations.              *)
(*                                                                         *)
(* The program attaches one channel and keeps the default MTU (main.c      *)
(* passes mtu = 0), so an operation that was accepted always fits.  The    *)
(* callbacks of the mainloop are atomic.  The queues of queue.c are        *)
(* sequences of operation numbers.                                         *)
(***************************************************************************)
EXTENDS Integers, Sequences, FiniteSets, SequencesExt

CONSTANTS
    Opcodes,     \* the opcodes of requests that matter
    MaxOps,      \* bound: operations that are ever created
    MaxRogue,    \* bound: PDUs from the peer that answer nothing
    MaxIn,       \* bound: requests of the peer that are taken
    MaxSec       \* the highest security level that the kernel grants

ASSUME AttAssumption ==
    /\ MaxOps \in Nat \ {0} /\ MaxRogue \in Nat /\ MaxIn \in Nat
    /\ MaxSec \in 1 .. 4

VARIABLES
    op,          \* every att_send_op: its type and what became of it
    reqQ, indQ, writeQ, chanQ,   \* req_queue, ind_queue, write_queue, queue
    pendReq, pendInd,            \* pending_req and pending_ind, or 0
    writer,      \* writer_active
    in_req,      \* a request of the peer is pending
    io,          \* the bearer: open, shut down or lost, detached
    late,        \* events of the channel that the mainloop already collected
    sec,         \* the security level of the channel
    peer,        \* requests and indications that the peer was sent
    rogue,       \* PDUs that answer nothing
    owed,        \* requests of the peer that the upper layer has to answer
    ins          \* requests of the peer that were taken

ops == <<op, reqQ, indQ, writeQ, chanQ, pendReq, pendInd, writer>>
vars == <<op, reqQ, indQ, writeQ, chanQ, pendReq, pendInd, writer, in_req,
          io, late, sec, peer, rogue, owed, ins>>

(* BT_ATT_SECURITY_LOW and above *)
LOW == 1
MEDIUM == 2
FIPS == 4

(* struct att_send_op: whether its memory and its handlers are still       *)
(* there, what the callback was told (own: the answer to this operation,   *)
(* other: the answer to another one), how often destroy ran                *)
Op == [type: {"REQ", "IND", "CMD", "RSP"}, opcode: Opcodes \cup {"any"},
       state: {"live", "cancelled", "freed", "freed twice"},
       ans: {"none", "own", "other", "error", "withdrawn", "twice"},
       gone: {0, 1, 2}]

TypeOK ==
    /\ op \in Seq(Op) /\ Len(op) <= MaxOps
    /\ \A q \in {reqQ, indQ, writeQ, chanQ} : q \in Seq(DOMAIN op)
    /\ pendReq \in 0 .. Len(op) /\ pendInd \in 0 .. Len(op)
    /\ writer \in BOOLEAN /\ in_req \in BOOLEAN
    /\ io \in {"open", "shut", "closed"}
    /\ late \subseteq {"in", "out"}
    /\ sec \in LOW .. MaxSec
    /\ peer \in Seq(DOMAIN op)
    /\ rogue \in 0 .. MaxRogue /\ ins \in 0 .. MaxIn /\ owed \in 0 .. MaxIn

(* bt_att_new() and bt_att_attach_chan() *)
Init ==
    /\ op = <<>> /\ reqQ = <<>> /\ indQ = <<>> /\ writeQ = <<>>
    /\ chanQ = <<>> /\ pendReq = 0 /\ pendInd = 0
    /\ writer = FALSE /\ in_req = FALSE /\ io = "open" /\ late = {}
    /\ sec = LOW /\ peer = <<>> /\ rogue = 0 /\ owed = 0 /\ ins = 0
-----------------------------------------------------------------------------
(* wakeup_chan_writer(): the write handler is set when anything may go *)
Sendable ==
    \/ chanQ # <<>> \/ writeQ # <<>>
    \/ pendReq = 0 /\ reqQ # <<>>
    \/ pendInd = 0 /\ indQ # <<>>

Wakeup == writer' = (writer \/ Sendable')

(* op->destroy(), if it is still set *)
Gone(o) == IF o.state = "live" THEN o.gone + 1 ELSE o.gone

(* destroy_att_send_op() *)
Destroy(o) ==
    [o EXCEPT !.gone = Gone(o),
              !.state = IF @ = "freed" THEN "freed twice" ELSE "freed"]

(* cancel_att_send_op(): the handlers go, the operation stays *)
CancelOp(o) ==
    [o EXCEPT !.gone = Gone(o),
              !.state = IF @ = "live" THEN "cancelled" ELSE @]

(* op->callback(), if it is still set: what the owner of the operation     *)
(* hears                                                                   *)
Tell(o, what) ==
    IF o.state # "live" \/ o.type \notin {"REQ", "IND"} THEN o
    ELSE [o EXCEPT !.ans = IF @ = "none" THEN what ELSE "twice"]

(* disc_att_send_op() *)
Discard(o) == Destroy(Tell(o, "error"))

(* create_att_send_op() *)
NewOp(type, opcode) ==
    [type |-> type, opcode |-> opcode, state |-> "live", ans |-> "none",
     gone |-> 0]

(* bt_att_send() of a request, an indication or a command; refused, with   *)
(* nothing changed, once the channel is gone                               *)
Send(type, opcode) ==
    /\ io # "closed" /\ Len(op) < MaxOps
    /\ LET id == Len(op) + 1
       IN  /\ op' = Append(op, NewOp(type, opcode))
           /\ reqQ' = IF type = "REQ" THEN Append(reqQ, id) ELSE reqQ
           /\ indQ' = IF type = "IND" THEN Append(indQ, id) ELSE indQ
           /\ writeQ' = IF type = "CMD" THEN Append(writeQ, id) ELSE writeQ
    /\ UNCHANGED <<chanQ, pendReq, pendInd, in_req, io, late, sec, peer,
                   rogue, owed, ins>>
    /\ Wakeup

(* bt_att_chan_send_rsp(), the upper layer's answer to the peer *)
Respond ==
    /\ io # "closed" /\ owed > 0 /\ Len(op) < MaxOps
    /\ op' = Append(op, NewOp("RSP", "any"))
    /\ chanQ' = Append(chanQ, Len(op) + 1)
    /\ owed' = owed - 1
    /\ UNCHANGED <<reqQ, indQ, writeQ, pendReq, pendInd, in_req, io, late,
                   sec, peer, rogue, ins>>
    /\ Wakeup
-----------------------------------------------------------------------------
(* The events of the channel: the mainloop reports them while the bearer   *)
(* is open, and those it had collected before a shutdown; reading comes    *)
(* before writing.                                                         *)
CanRead == io = "open" \/ "in" \in late
CanWrite == io = "open" \/ late = {"out"}

(* pick_next_send_op(): the queue to take from *)
NextQueue ==
    IF chanQ # <<>> THEN "chan"
    ELSE IF writeQ # <<>> THEN "write"
    ELSE IF pendReq = 0 /\ reqQ # <<>> THEN "req"
    ELSE IF pendInd = 0 /\ indQ # <<>> THEN "ind" ELSE "none"

QueueOf(q) == IF q = "chan" THEN chanQ
              ELSE IF q = "write" THEN writeQ
              ELSE IF q = "req" THEN reqQ ELSE indQ

Pop(q) ==
    /\ chanQ' = IF q = "chan" THEN Tail(chanQ) ELSE chanQ
    /\ writeQ' = IF q = "write" THEN Tail(writeQ) ELSE writeQ
    /\ reqQ' = IF q = "req" THEN Tail(reqQ) ELSE reqQ
    /\ indQ' = IF q = "ind" THEN Tail(indQ) ELSE indQ

(* can_write_data(): nothing to write, and the handler goes away *)
WriterDone ==
    /\ writer /\ CanWrite /\ NextQueue = "none"
    /\ writer' = FALSE
    /\ late' = late \ {"out"}
    /\ UNCHANGED <<op, reqQ, indQ, writeQ, chanQ, pendReq, pendInd, in_req,
                   io, sec, peer, rogue, owed, ins>>

(* can_write_data(): the write took nothing *)
WriteNothing ==
    /\ writer /\ CanWrite /\ NextQueue # "none"
    /\ LET id == Head(QueueOf(NextQueue))
       IN  op' = [op EXCEPT ![id] = Discard(@)]
    /\ Pop(NextQueue)
    /\ late' = late \ {"out"}
    /\ UNCHANGED <<pendReq, pendInd, writer, in_req, io, sec, peer, rogue,
                   owed, ins>>

(* can_write_data(): the write was made or, with a negative result that    *)
(* the code takes for a success, failed; a request or an indication is now *)
(* outstanding and has its timer                                           *)
Write(sent) ==
    /\ writer /\ CanWrite /\ NextQueue # "none"
    /\ sent => io = "open"
    /\ LET id == Head(QueueOf(NextQueue))
           type == op[id].type
       IN  /\ pendReq' = IF type = "REQ" THEN id ELSE pendReq
           /\ pendInd' = IF type = "IND" THEN id ELSE pendInd
           /\ in_req' = (in_req /\ type # "RSP")
           /\ op' = IF type \in {"REQ", "IND"} THEN op
                    ELSE [op EXCEPT ![id] = Destroy(@)]
           /\ peer' = IF sent /\ type \in {"REQ", "IND"}
                      THEN Append(peer, id) ELSE peer
    /\ Pop(NextQueue)
    /\ late' = late \ {"out"}
    /\ UNCHANGED <<writer, io, sec, rogue, owed, ins>>
-----------------------------------------------------------------------------
(* io_shutdown() in a callback of the channel, or of its timer *)
Shutdown(left) ==
    /\ io' = IF io = "open" THEN "shut" ELSE io
    /\ late' \in SUBSET left

Read == late' = late \ {"in"} /\ io' = io
LeftByRead == IF io = "open" THEN {"out"} ELSE late \ {"in"}

(* Mutation of Finish: the operation stays the pending one. *)
FinishStays(what) ==
    /\ op' = [op EXCEPT ![pendReq] = Destroy(Tell(@, what))]
    /\ UNCHANGED <<reqQ, indQ, writeQ, chanQ, pendReq, pendInd>>
    /\ Wakeup

(* handle_rsp(), label done: the pending request is over *)
Finish(what) ==
    /\ op' = [op EXCEPT ![pendReq] = Destroy(Tell(@, what))]
    /\ pendReq' = 0
    /\ UNCHANGED <<reqQ, indQ, writeQ, chanQ, pendInd>>
    /\ Wakeup

(* change_security(): the level that the error code asks for *)
Raised(kind) ==
    CASE kind = "encryption" /\ sec < MEDIUM -> MEDIUM
      [] kind = "authentication" /\ sec < FIPS -> sec + 1
      [] OTHER -> sec

(* Mutation of Retry: the request goes to the end of the queue. *)
RetryLast(kind) ==
    /\ Raised(kind) # sec /\ Raised(kind) <= MaxSec
    /\ sec' = Raised(kind)
    /\ reqQ' = Append(reqQ, pendReq)
    /\ pendReq' = 0
    /\ UNCHANGED <<op, indQ, writeQ, chanQ, pendInd>>
    /\ Wakeup

(* handle_error_rsp(): the security is raised and the request goes again *)
Retry(kind) ==
    /\ Raised(kind) # sec /\ Raised(kind) <= MaxSec
    /\ sec' = Raised(kind)
    /\ reqQ' = <<pendReq>> \o reqQ
    /\ pendReq' = 0
    /\ UNCHANGED <<op, indQ, writeQ, chanQ, pendInd>>
    /\ Wakeup

Kinds == {"rsp", "encryption", "authentication"}

(* handle_rsp(): an answer that is the peer's to request "to", or to none; *)
(* it names an opcode, and an error may ask for more security, which the   *)
(* kernel may refuse                                                       *)
HandleRsp(to, opcode, kind) ==
    IF pendReq = 0
    THEN Shutdown(LeftByRead) /\ UNCHANGED <<ops, sec>>
    ELSE /\ Read
         /\ \/ Retry(kind)
            \/ /\ Finish(IF opcode # op[pendReq].opcode THEN "error"
                         ELSE IF to = pendReq THEN "own" ELSE "other")
               /\ UNCHANGED sec

(* handle_conf(): a confirmation that nobody waits for, or that is not     *)
(* empty, disconnects                                                      *)
HandleConf(to, empty) ==
    IF pendInd = 0 \/ ~empty
    THEN Shutdown(LeftByRead) /\ UNCHANGED <<ops, sec>>
    ELSE /\ Read
         /\ op' = [op EXCEPT ![pendInd] =
                       Destroy(Tell(@, IF to = pendInd THEN "own" ELSE "other"))]
         /\ pendInd' = 0
         /\ UNCHANGED <<reqQ, indQ, writeQ, chanQ, pendReq, sec>>
         /\ Wakeup

(* can_read_data() on what the peer answers: it takes its requests in      *)
(* order; an answer may still be on its way when the timer runs out        *)
PeerAnswers ==
    /\ CanRead
    /\ \E i \in DOMAIN peer :
        /\ \A j \in 1 .. i - 1 : op[peer[j]].type # op[peer[i]].type
        /\ peer' = RemoveAt(peer, i)
        /\ IF op[peer[i]].type = "REQ"
           THEN \E kind \in Kinds :
                    HandleRsp(peer[i], op[peer[i]].opcode, kind)
           ELSE \E empty \in BOOLEAN : HandleConf(peer[i], empty)
    /\ UNCHANGED <<in_req, rogue, owed, ins>>

(* can_read_data() on an answer that the peer had no reason to send *)
RogueAnswer ==
    /\ CanRead /\ rogue < MaxRogue
    /\ rogue' = rogue + 1
    /\ \/ \E opcode \in Opcodes \cup {"any"}, kind \in Kinds :
             HandleRsp(0, opcode, kind)
       \/ \E empty \in BOOLEAN : HandleConf(0, empty)
    /\ UNCHANGED <<in_req, peer, owed, ins>>

(* can_read_data() on a request: the protocol is sequential, so a second   *)
(* one disconnects; otherwise handle_notify() gives it to the upper layer  *)
PeerRequest ==
    /\ CanRead
    /\ \/ /\ in_req
          /\ Shutdown(LeftByRead)
          /\ UNCHANGED <<in_req, owed, ins>>
       \/ /\ ~in_req /\ ins < MaxIn
          /\ in_req' = TRUE /\ owed' = owed + 1 /\ ins' = ins + 1
          /\ Read
    /\ UNCHANGED <<ops, sec, peer, rogue>>

(* respond_not_supported(), after handle_notify() found nobody: the answer *)
(* goes through the write queue; opcodes that are unknown are answered too *)
NotSupported(request) ==
    /\ CanRead /\ rogue < MaxRogue /\ Len(op) < MaxOps
    /\ request => ~in_req
    /\ rogue' = rogue + 1
    /\ in_req' = (in_req \/ request)
    /\ op' = Append(op, NewOp("RSP", "any"))
    /\ writeQ' = Append(writeQ, Len(op) + 1)
    /\ Read
    /\ UNCHANGED <<reqQ, indQ, chanQ, pendReq, pendInd, sec, peer, owed, ins>>
    /\ Wakeup

(* notify_cb() of gatt-client.c on an indication: the confirmation goes    *)
(* through the channel's own queue                                         *)
PeerIndication ==
    /\ CanRead /\ rogue < MaxRogue /\ Len(op) < MaxOps
    /\ rogue' = rogue + 1
    /\ op' = Append(op, NewOp("CMD", "any"))
    /\ chanQ' = Append(chanQ, Len(op) + 1)
    /\ Read
    /\ UNCHANGED <<reqQ, indQ, writeQ, pendReq, pendInd, in_req, sec, peer,
                   owed, ins>>
    /\ Wakeup
-----------------------------------------------------------------------------
(* timeout_cb(): the operation failed, and the bearer is given up *)
Timeout(id) ==
    /\ io # "closed" /\ id # 0 /\ id \in {pendReq, pendInd}
    /\ op' = [op EXCEPT ![id] = Discard(@)]
    /\ pendReq' = IF id = pendReq THEN 0 ELSE pendReq
    /\ pendInd' = IF id = pendInd THEN 0 ELSE pendInd
    /\ Shutdown(IF io = "open" THEN {"in", "out"} ELSE late)
    /\ UNCHANGED <<reqQ, indQ, writeQ, chanQ, writer, in_req, sec, peer,
                   rogue, owed, ins>>

(* The link breaks: external *)
LinkLost ==
    /\ io = "open"
    /\ io' = "shut"
    /\ UNCHANGED <<ops, in_req, late, sec, peer, rogue, owed, ins>>

Waiting == ToSet(reqQ) \cup ToSet(indQ) \cup ToSet(writeQ)
Pending == {pendReq, pendInd} \ {0}

(* Everything that was waiting or outstanding is gone *)
Cleared ==
    /\ reqQ' = <<>> /\ indQ' = <<>> /\ writeQ' = <<>> /\ chanQ' = <<>>
    /\ pendReq' = 0 /\ pendInd' = 0 /\ writer' = FALSE
    /\ io' = "closed" /\ late' = {} /\ peer' = <<>>
    /\ UNCHANGED <<in_req, sec, rogue, owed, ins>>

(* disconnect_cb() and bt_att_chan_free() *)
Disconnect ==
    /\ io = "shut"
    /\ op' = [id \in DOMAIN op |->
                 IF id \in Waiting \cup Pending THEN Discard(op[id])
                 ELSE IF id \in ToSet(chanQ) THEN Destroy(op[id])
                 ELSE op[id]]
    /\ Cleared

(* The owner withdraws an operation that it still waits for *)
Withdrawn(o) ==
    IF o.state = "live" /\ o.type \in {"REQ", "IND"}
    THEN [o EXCEPT !.ans = "withdrawn"] ELSE o

(* bt_att_unref() of the last reference: bt_att_cancel_all(), bt_att_free() *)
Unref ==
    /\ io # "closed"
    /\ op' = [id \in DOMAIN op |->
                 IF id \in Waiting \cup Pending \cup ToSet(chanQ)
                 THEN Destroy(Withdrawn(op[id])) ELSE op[id]]
    /\ Cleared

(* Mutation of Cancel: an operation on the wire is freed at once. *)
CancelPending(id) ==
    /\ io # "closed" /\ id \in Waiting \cup Pending
    /\ op' = [op EXCEPT ![id] = Destroy(Withdrawn(@))]
    /\ pendReq' = IF id = pendReq THEN 0 ELSE pendReq
    /\ pendInd' = IF id = pendInd THEN 0 ELSE pendInd
    /\ reqQ' = RemoveFirst(reqQ, id) /\ indQ' = RemoveFirst(indQ, id)
    /\ writeQ' = RemoveFirst(writeQ, id)
    /\ UNCHANGED <<chanQ, in_req, io, late, sec, peer, rogue, owed, ins>>
    /\ Wakeup

(* bt_att_cancel() and bt_att_chan_cancel(): what is outstanding stays so  *)
(* without its handlers, what waits is removed; what bt_att_chan_send()    *)
(* queued has no number to be cancelled by                                 *)
Cancel(id) ==
    /\ io # "closed" /\ id \in Waiting \cup Pending
    /\ UNCHANGED <<chanQ, pendReq, pendInd, in_req, io, late, sec, peer,
                   rogue, owed, ins>>
    /\ IF id \in Pending
       THEN /\ op' = [op EXCEPT ![id] = CancelOp(Withdrawn(@))]
            /\ UNCHANGED <<reqQ, indQ, writeQ, writer>>
       ELSE /\ op' = [op EXCEPT ![id] = Destroy(Withdrawn(@))]
            /\ reqQ' = RemoveFirst(reqQ, id) /\ indQ' = RemoveFirst(indQ, id)
            /\ writeQ' = RemoveFirst(writeQ, id)
            /\ Wakeup
-----------------------------------------------------------------------------
Local ==
    \/ \E opcode \in Opcodes : Send("REQ", opcode)
    \/ \E type \in {"IND", "CMD"} : Send(type, "any")
    \/ Respond
    \/ \E id \in DOMAIN op : Cancel(id)
    \/ Unref

Writing == WriterDone \/ WriteNothing \/ \E sent \in BOOLEAN : Write(sent)

Reading ==
    \/ PeerAnswers \/ RogueAnswer \/ PeerRequest
    \/ \E request \in BOOLEAN : NotSupported(request)
    \/ PeerIndication

(* Mutation of Timer: only requests have one. *)
TimerOfRequests == \E id \in {pendReq} \ {0} : Timeout(id)

(* The timer that can_write_data() sets *)
Timer == \E id \in Pending : Timeout(id)

Next == Local \/ Writing \/ Reading \/ Timer \/ LinkLost \/ Disconnect

Spec == Init /\ [][Next]_vars

(* The mainloop runs the handlers of a socket that can be written, the     *)
(* timers that are due and the handler of a bearer that is gone.           *)
FairSpec == Spec /\ WF_vars(Writing) /\ WF_vars(Timer) /\ WF_vars(Disconnect)
-----------------------------------------------------------------------------
(* The places that hold operation id *)
Holders(id) ==
    Cardinality({i \in DOMAIN reqQ : reqQ[i] = id})
    + Cardinality({i \in DOMAIN indQ : indQ[i] = id})
    + Cardinality({i \in DOMAIN writeQ : writeQ[i] = id})
    + Cardinality({i \in DOMAIN chanQ : chanQ[i] = id})
    + (IF pendReq = id THEN 1 ELSE 0) + (IF pendInd = id THEN 1 ELSE 0)

(* Ownership: an operation is in one queue, or outstanding, until it is    *)
(* freed, and nowhere after (the queues, pending_req and pending_ind hold  *)
(* the only pointers).  Whoever makes a request or an indication hears of  *)
(* it exactly once, by an answer, an error, the timer or the               *)
(* disconnection, unless he withdraws it; destroy runs once                *)
(* (bt_att_send()).                                                        *)
EndsOnce ==
    /\ TypeOK
    /\ \A id \in DOMAIN op :
          /\ op[id].state # "freed twice"
          /\ op[id].ans # "twice" /\ op[id].gone <= 1
          /\ Holders(id) = IF op[id].state = "freed" THEN 0 ELSE 1
          /\ op[id].state = "live" => op[id].ans = "none" /\ op[id].gone = 0
          /\ op[id].state # "live" =>
                /\ op[id].gone = 1
                /\ op[id].type \in {"REQ", "IND"} => op[id].ans # "none"

(* An answer that comes after the timer of its request, or after the       *)
(* request was cancelled, is never taken for the answer to the next one,   *)
(* as long as the peer only answers what it was asked.                     *)
AnswerIsOwn == rogue = 0 => \A id \in DOMAIN op : op[id].ans # "other"

(* Every operation ends, whatever the peer does (timeout_cb(),             *)
(* disconnect_cb()): of the operations of a behaviour, finitely many as    *)
(* MaxOps bounds them, none is left for ever.                              *)
EveryOpEnds == <>[](\A id \in DOMAIN op : op[id].state = "freed")
-----------------------------------------------------------------------------
(* The requests that the bearer holds, the oldest first, and those of them *)
(* that their owners still wait for: one that was withdrawn is kept only   *)
(* while it is on the wire or goes again, and then it is the oldest        *)
Requests == {id \in DOMAIN op : op[id].type = "REQ"}
Asked == IF pendReq = 0 THEN reqQ ELSE <<pendReq>> \o reqQ
Awaited == IF Asked # <<>> /\ op[Head(Asked)].state # "live"
           THEN Tail(Asked) ELSE Asked

Abstract == INSTANCE AttRequests WITH
    Id <- 1 .. MaxOps,
    reqs <- Awaited,
    heard <- [id \in Requests |-> op[id].ans]

(* The bearer is a queue of requests that are answered in their order,     *)
(* whatever retries, timers and other traffic there are.                   *)
RequestsInOrder == Abstract!Spec
=============================================================================
