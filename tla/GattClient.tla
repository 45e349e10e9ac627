----------------------------- MODULE GattClient -----------------------------
(***************************************************************************)
(* bluez_deps/src/shared/gatt-client.c without the discovery: the requests *)
(* of the upper layer that take more than one PDU (long reads, long and    *)
(* reliable writes), their cancellation, and the registrations for         *)
(* notifications that share one Client Characteristic Configuration (CCC)  *)
(* descriptor.                                                             *)
(*                                                                         *)
(* All of them go through the request queue of att.c (module Att): the     *)
(* first request of wire is with the peer, the rest wait behind it in the  *)
(* order of their calls.  The callbacks of the mainloop are atomic; the    *)
(* upper layer calls between them.  The value of a long write is NChunks   *)
(* prepared writes, chunk i of request j being <<j, i>>; a chunk that the  *)
(* peer garbled is <<j, -i>>.                                              *)
(***************************************************************************)
EXTENDS Integers, Sequences, FiniteSets, SequencesExt

CONSTANTS
    NChunks,       \* prepared writes of a long write
    Blob,          \* octets of a read response: the MTU - 1
    ValueLens,     \* lengths that the value at the peer may have
    MaxValueLen,   \* BT_ATT_MAX_VALUE_LEN
    MaxCalls       \* bound: calls of the upper layer, see Used

ASSUME ClientAssumption ==
    /\ NChunks \in Nat \ {0} /\ Blob \in Nat \ {0}
    /\ ValueLens \subseteq Nat /\ MaxValueLen \in Nat \ {0}
    /\ MaxCalls \in Nat

VARIABLES
    c,        \* the client: see New
    peer      \* the peer: its CCC and its prepared writes

vars == <<c, peer>>

(* the client after bt_gatt_client_new() and its discovery; the ghosts:    *)
(* leak - an enabling of the CCC failed, stuck - one was cancelled; in     *)
(* both cases the count of the characteristic is off; overlap - the CCC    *)
(* was to be disabled while a write of it was under way; mixed - what      *)
(* LongWhole excuses.  can - the characteristic has the property NOTIFY or *)
(* INDICATE                                                                *)
New ==
    [open |-> TRUE, wire |-> <<>>,
     hasCcc |-> TRUE, can |-> TRUE,
     reg |-> <<>>, count |-> 0,             \* notify_list, notify_count
     writing |-> FALSE, regQ |-> <<>>,      \* ccc_write_id, reg_notify_queue
     op |-> <<>>, inLong |-> FALSE, longQ |-> <<>>, session |-> 0,
     crashed |-> FALSE, leak |-> FALSE, stuck |-> FALSE,
     overlap |-> FALSE, mixed |-> FALSE]

Init ==
    /\ c = New
    /\ peer = [ccc |-> FALSE, prep |-> <<>>]

(* bt_att_send() of a request on behalf of who *)
Send(t, pdu, who, arg, cb) ==
    [t EXCEPT !.wire = Append(@, [pdu |-> pdu, who |-> who, arg |-> arg,
                                  cb |-> cb, live |-> TRUE])]

(* the request that was sent for a registration, or for another request,   *)
(* and that has its callback; there is one at most                         *)
SentFor(t, who, ccc) ==
    {i \in DOMAIN t.wire : /\ t.wire[i].live /\ t.wire[i].who = who
                           /\ (t.wire[i].pdu = "ccc") = ccc}

(* bt_att_cancel(): a request that waits is taken out, the one that is     *)
(* with the peer only loses its callback                                   *)
CancelSent(t, at) ==
    CASE at = {} -> t
      [] 1 \in at -> [t EXCEPT !.wire[1].live = FALSE]
      [] OTHER -> [t EXCEPT !.wire = RemoveAt(@, CHOOSE i \in at : TRUE)]

(* an answer with the opcode of an Error Response: "err" with an error     *)
(* code, "none" without one                                                *)
Failed(res) == res \in {"err", "none"}

(* what somebody heard who hears something now, once or more often *)
Heard(told, what, once) == IF told = "none" /\ once THEN what ELSE "twice"

(* x is in a queue no more than once *)
Once(q, x) == \A i, k \in DOMAIN q : q[i] = x /\ q[k] = x => i = k
-----------------------------------------------------------------------------
(*                    Registrations for notifications                      *)

(* complete_notify_request(), and the callback with an error *)
Tell(t, r, what) ==
    [t EXCEPT !.reg[r].att = FALSE,
              !.reg[r].told = Heard(@, what, TRUE)]

(* Mutation of WriteCcc: only an enabling is noted as under way. *)
WriteCccUnmarked(t, r, enable) ==
    LET u == [t EXCEPT !.writing = t.open /\ enable, !.reg[r].att = t.open]
    IN  CASE enable /\ ~t.can -> t
          [] (enable => t.can) /\ t.open ->
               Send(u, "ccc", r, enable, IF enable THEN "enable" ELSE "disable")
          [] OTHER -> u

(* notify_data_write_ccc(): ccc_write_id and att_id are the id of the      *)
(* request, or 0 when the bearer does not take it; they stay as they are   *)
(* when the characteristic has nothing to enable                           *)
WriteCcc(t, r, enable) ==
    LET u == [t EXCEPT !.writing = t.open, !.reg[r].att = t.open]
    IN  CASE enable /\ ~t.can -> t
          [] (enable => t.can) /\ t.open ->
               Send(u, "ccc", r, enable, IF enable THEN "enable" ELSE "disable")
          [] OTHER -> u

(* notify_data_write_ccc() returns true for an enabling *)
CanEnable(t) == t.can /\ t.open

(* The next registration of the queue writes the CCC; when that cannot be  *)
(* sent, the queue is emptied and nobody is told.                          *)
NextRegistration(t) ==
    CASE t.regQ = <<>> -> t
      [] t.regQ # <<>> /\ CanEnable(t) ->
           WriteCcc([t EXCEPT !.regQ = Tail(@)], Head(t.regQ), TRUE)
      [] OTHER -> [t EXCEPT !.regQ = <<>>]

(* the success branch of enable_ccc_callback() *)
TellAll(t, r) ==
    LET all == <<r>> \o t.regQ
        heard(q) == [t.reg[q] EXCEPT !.att = FALSE,
                                     !.told = Heard(@, "ok", Once(all, q))]
    IN  [t EXCEPT !.regQ = <<>>,
                  !.reg = [q \in DOMAIN t.reg |->
                             IF q \in ToSet(all) THEN heard(q) ELSE t.reg[q]]]

(* process_error(): an Error Response that is none, and a broken link,     *)
(* give 0, which the callback takes for success                            *)
ProcessError(res) == IF res = "err" THEN "error" ELSE "ok"

(* the registration that failed leaves the list; the count is not taken    *)
(* back                                                                    *)
Refuse(t, r, res) ==
    [Tell(t, r, ProcessError(res)) EXCEPT !.reg[r].listed = FALSE,
                                          !.leak = TRUE]

(* Mutation of EnableCccCallback: after an error the queue is not served. *)
EnableCccCallbackAlone(t, r, res) ==
    LET u == [t EXCEPT !.writing = FALSE]
    IN  CASE ~t.writing -> [t EXCEPT !.crashed = TRUE]
          [] t.writing /\ ~Failed(res) -> TellAll(u, r)
          [] OTHER -> Refuse(u, r, res)

(* enable_ccc_callback() *)
EnableCccCallback(t, r, res) ==
    LET u == [t EXCEPT !.writing = FALSE]
    IN  CASE ~t.writing -> [t EXCEPT !.crashed = TRUE]
          [] t.writing /\ ~Failed(res) -> TellAll(u, r)
          [] OTHER -> NextRegistration(Refuse(u, r, res))

(* disable_ccc_callback() *)
DisableCccCallback(t) ==
    IF ~t.writing THEN [t EXCEPT !.crashed = TRUE]
    ELSE NextRegistration([t EXCEPT !.writing = FALSE])

(* notify_chrc_create() and find_ccc(): the characteristic has a CCC, and  *)
(* something to enable                                                     *)
NotifyChrcCreate(t, ccc, can) == [t EXCEPT !.hasCcc = ccc, !.can = can]

(* struct notify_data, in the notify_list and counted; the ghost guess: it *)
(* was told success by a count that is off                                 *)
NewNotifyData(t) ==
    [t EXCEPT !.reg = Append(@, [listed |-> TRUE, att |-> FALSE,
                                 told |-> "none", guess |-> FALSE]),
              !.count = @ + 1]

(* the count says that notifications are enabled *)
TellCounted(t, r) ==
    [Tell(t, r, "ok") EXCEPT !.reg[r].guess = t.leak \/ t.stuck]

(* nothing could be sent: 0 is returned, notify_count stays as it is *)
Drop(t, r) ==
    [t EXCEPT !.reg[r].listed = FALSE, !.reg[r].told = "refused",
              !.leak = TRUE]

(* Mutation of RegisterNotify: a write that is under way is overlooked. *)
RegisterNotifyHasty(t, ccc, can) ==
    LET r == Len(t.reg) + 1
        u == NewNotifyData(NotifyChrcCreate(t, ccc, can))
    IN  CASE u.count > 1 \/ ~u.hasCcc -> TellCounted(u, r)
          [] ~(u.count > 1 \/ ~u.hasCcc) /\ CanEnable(u) -> WriteCcc(u, r, TRUE)
          [] OTHER -> Drop(u, r)

(* register_notify(); the first time, notify_chrc_create() looks for the   *)
(* CCC in the database                                                     *)
RegisterNotify(t, ccc, can) ==
    LET r == Len(t.reg) + 1
        u == NewNotifyData(NotifyChrcCreate(t, ccc, can))
    IN  CASE t.writing -> [u EXCEPT !.regQ = Append(@, r)]
          [] ~t.writing /\ (u.count > 1 \/ ~u.hasCcc) -> TellCounted(u, r)
          [] ~t.writing /\ ~(u.count > 1 \/ ~u.hasCcc) /\ CanEnable(u) ->
               WriteCcc(u, r, TRUE)
          [] OTHER -> Drop(u, r)

(* bt_gatt_client_unregister_notify() and complete_unregister_notify():    *)
(* the write of the CCC that is cancelled leaves ccc_write_id set          *)
UnregisterNotify(t, r) ==
    LET u == [t EXCEPT !.reg[r].listed = FALSE,
                       !.regQ = RemoveFirst(@, r)]
        v == [u EXCEPT !.count = @ - 1]
    IN  CASE u.reg[r].att ->
               [CancelSent(u, SentFor(u, r, TRUE)) EXCEPT
                   !.reg[r].att = FALSE, !.stuck = TRUE]
          [] ~u.reg[r].att /\ (v.count # 0 \/ ~v.hasCcc) -> v
          [] OTHER ->
               WriteCcc([v EXCEPT !.overlap = @ \/ t.writing], r, FALSE)
-----------------------------------------------------------------------------
(*                       Long and reliable writes                          *)

(* request_create() *)
NewOp(t, kind, reliable) ==
    [t EXCEPT !.op = Append(@, [kind |-> kind, reliable |-> reliable,
        sent |-> FALSE, idx |-> 1, success |-> TRUE, removed |-> FALSE,
        told |-> "none", wrote |-> <<>>, len |-> 0])]

(* the callback of the upper layer *)
Result(t, j, what) ==
    [t EXCEPT !.op[j].told = Heard(@, what, TRUE)]

(* a prepared write of the chunk idx *)
SendPrep(t, j, cb) ==
    Send([t EXCEPT !.op[j].sent = TRUE], "prep", j, t.op[j].idx, cb)

(* start_next_long_write(): with a bearer that is closed every operation   *)
(* of the queue fails in turn                                              *)
StartNextLongWrite(t) ==
    LET failed(j) ==
          [t.op[j] EXCEPT !.told = Heard(@, "fail", Once(t.longQ, j))]
    IN  CASE t.longQ = <<>> -> [t EXCEPT !.inLong = FALSE]
          [] t.longQ # <<>> /\ t.open ->
               SendPrep([t EXCEPT !.longQ = Tail(@)], Head(t.longQ), "prepare")
          [] OTHER ->
               [t EXCEPT !.longQ = <<>>, !.inLong = FALSE,
                         !.op = [j \in DOMAIN t.op |->
                                   IF j \in ToSet(t.longQ) THEN failed(j)
                                   ELSE t.op[j]]]

(* complete_write_long_op() *)
CompleteWriteLongOp(t, j, success) ==
    LET u == [t EXCEPT !.op[j].success = success]
    IN  IF t.open
        THEN Send(u, "exec", j, IF success THEN 1 ELSE 0, "execute")
        ELSE StartNextLongWrite(Result(u, j, "fail"))

(* handle_next_prep_write() *)
HandleNextPrepWrite(t, j) ==
    IF t.open THEN SendPrep(t, j, "prepare")
    ELSE CompleteWriteLongOp(t, j, FALSE)

(* prepare_write_cb(): the echo is only compared by a reliable write *)
PrepareWriteCb(t, j, res) ==
    CASE Failed(res) \/ (res = "bad" /\ t.op[j].reliable) ->
           CompleteWriteLongOp(t, j, FALSE)
      [] ~Failed(res) /\ ~(res = "bad" /\ t.op[j].reliable)
           /\ t.op[j].idx = NChunks ->
           CompleteWriteLongOp(t, j, TRUE)
      [] OTHER -> HandleNextPrepWrite([t EXCEPT !.op[j].idx = @ + 1], j)

(* execute_write_cb() *)
ExecuteWriteCb(t, j, ok) ==
    StartNextLongWrite(
        Result(t, j, IF ok /\ t.op[j].success THEN "ok" ELSE "fail"))

(* Mutation of WriteLong: a long write does not wait for another one. *)
WriteLongAtOnce(t, reliable) ==
    LET j == Len(t.op) + 1
        u == NewOp(t, "long", reliable)
    IN  IF t.session # 0 THEN [u EXCEPT !.longQ = Append(@, j)]
        ELSE SendPrep([u EXCEPT !.inLong = TRUE], j, "prepare")

(* bt_gatt_client_write_long_value() *)
WriteLong(t, reliable) ==
    LET j == Len(t.op) + 1
        u == NewOp(t, "long", reliable)
    IN  IF t.inLong \/ t.session # 0 THEN [u EXCEPT !.longQ = Append(@, j)]
        ELSE SendPrep([u EXCEPT !.inLong = TRUE], j, "prepare")

(* bt_gatt_client_prepare_write(): the first one begins the session.  The  *)
(* upper layer waits for its callback before the next call of the session: *)
(* req->data has room for one.                                             *)
Idle(t, j) ==
    \A i \in DOMAIN t.wire : ~(t.wire[i].who = j /\ t.wire[i].pdu # "ccc")

PrepareWrite(t) ==
    IF t.session = 0
    THEN LET j == Len(t.op) + 1
         IN  SendPrep([NewOp(t, "session", TRUE) EXCEPT !.session = j], j,
                      "prep")
    ELSE LET u == [t EXCEPT !.op[t.session].idx = @ + 1]
         IN  SendPrep(u, t.session, "prep")

(* exec_write_cb(): a long write that waited starts, and in_long_write     *)
(* stays clear                                                             *)
ExecWriteCb(t, j, ok) ==
    StartNextLongWrite([Result(t, j, IF ok THEN "ok" ELSE "fail") EXCEPT
        !.session = 0, !.mixed = @ \/ t.longQ # <<>>])

(* cancel_long_write_cb() *)
CancelLongWriteCb(t) ==
    IF t.longQ = <<>> THEN [t EXCEPT !.inLong = FALSE] ELSE t

(* cancel_prep_write_cb(): the long writes that wait are not started *)
CancelPrepWriteCb(t) == [t EXCEPT !.session = 0]

(* bt_gatt_client_cancel() and cancel_request(): a long write that was     *)
(* begun goes on behind the Execute Write that cancels                     *)
CancelRequest(t, j) ==
    LET u == [t EXCEPT !.op[j].removed = TRUE]
    IN  CASE t.op[j].kind = "long" /\ ~t.op[j].sent ->
               [u EXCEPT !.longQ = RemoveFirst(@, j),
                         !.op[j].told = "withdrawn"]
          [] t.op[j].kind = "long" /\ t.op[j].sent ->
               Send([u EXCEPT !.mixed = TRUE], "exec", j, 0, "cancel long")
          [] t.op[j].kind = "session" ->
               Send([u EXCEPT !.op[j].told = "withdrawn"], "exec", j, 0,
                    "cancel prep")
          [] OTHER ->
               [CancelSent(u, SentFor(u, j, FALSE)) EXCEPT
                   !.op[j].told = "withdrawn"]
-----------------------------------------------------------------------------
(*                              Reads                                      *)

(* bt_gatt_client_read_long_value(), from the start of the value, and      *)
(* bt_gatt_client_read_value(), write_value(), read_multiple(): idx counts *)
(* the octets read of a value that has len of them                         *)
Request(t, kind, len) ==
    LET j == Len(t.op) + 1
        u == [NewOp(t, kind, FALSE) EXCEPT !.op[j].idx = 0, !.op[j].len = len]
    IN  Send(u, "read", j, 0, kind)

(* a full response may be followed by more *)
More(len) == len >= Blob

(* append_chunk() and read_long_cb() *)
ReadLongCb(t, j, ok, len) ==
    LET old == t.op[j].idx
        got == IF old + len > MaxValueLen THEN MaxValueLen ELSE old + len
        u == [t EXCEPT !.op[j].idx = got]
    IN  CASE ~ok -> Result(t, j, "fail")
          [] ok /\ got < MaxValueLen /\ More(len) ->
               IF t.open THEN Send(u, "read", j, got, "readlong")
               ELSE Result(u, j, "fail")
          [] OTHER -> Result(u, j, "ok")
-----------------------------------------------------------------------------
(* the callback of the request w, with what the peer answered *)
Callback(t, w, res, len) ==
    LET ok == ~Failed(res)
    IN  CASE ~w.live -> t
          [] w.live /\ w.cb = "enable" -> EnableCccCallback(t, w.who, res)
          [] w.live /\ w.cb = "disable" -> DisableCccCallback(t)
          [] w.live /\ w.cb = "prepare" -> PrepareWriteCb(t, w.who, res)
          [] w.live /\ w.cb = "prep" -> t
          [] w.live /\ w.cb = "execute" -> ExecuteWriteCb(t, w.who, ok)
          [] w.live /\ w.cb = "exec" -> ExecWriteCb(t, w.who, ok)
          [] w.live /\ w.cb = "cancel long" -> CancelLongWriteCb(t)
          [] w.live /\ w.cb = "cancel prep" -> CancelPrepWriteCb(t)
          [] w.live /\ w.cb = "readlong" -> ReadLongCb(t, w.who, ok, len)
          [] w.live /\ w.cb = "simple" ->
               Result(t, w.who, IF ok THEN "ok" ELSE "fail")

Running == c.open /\ ~c.crashed

(* the CCC of the peer behind a write of it: an answer that is none does   *)
(* not tell whether it was written                                         *)
CccAfter(w, res) ==
    CASE w.pdu # "ccc" \/ res = "err" -> {peer.ccc}
      [] w.pdu = "ccc" /\ res = "ok" -> {w.arg}
      [] OTHER -> {peer.ccc, w.arg}

(* what the peer does with the first request, and the callback; it may     *)
(* refuse all but the cancellation of prepared writes, and may garble the  *)
(* value of one.  An answer to a write of the CCC may also be none, by its *)
(* opcode or its length; for the other callbacks that is an error like any *)
(* other.                                                                  *)
Answer(res) ==
    LET w == Head(c.wire)
        left == c.op[w.who].len - w.arg
        len == IF w.pdu # "read" THEN 0
               ELSE IF left < Blob THEN left ELSE Blob
        t == [c EXCEPT !.wire = Tail(@)]
        u == IF w.pdu = "exec" /\ w.arg = 1 /\ res = "ok"
             THEN [t EXCEPT !.op[w.who].wrote = peer.prep] ELSE t
        chunk == <<w.who, IF res = "bad" THEN -w.arg ELSE w.arg>>
    IN  /\ Running /\ c.wire # <<>>
        /\ res = "bad" => w.cb = "prepare"
        /\ res = "err" => ~(w.pdu = "exec" /\ w.arg = 0)
        /\ res = "none" => w.pdu = "ccc"
        /\ c' = Callback(u, w, res, len)
        /\ \E on \in CccAfter(w, res) :
              peer' = [peer EXCEPT
                 !.ccc = on,
                 !.prep = IF w.pdu = "exec" THEN <<>>
                          ELSE IF w.pdu = "prep" /\ res # "err"
                          THEN Append(@, chunk) ELSE @]

(* the bearer is lost, or its timer ran out: disconnect_cb() of att.c      *)
(* detaches the channel, so that nothing more can be sent                  *)
Disconnect ==
    /\ Running
    /\ c' = [c EXCEPT !.open = FALSE]
    /\ UNCHANGED peer

(* and ends every request with an error, those that wait in their order    *)
(* and then the one with the peer.  Each of them is a step here, and       *)
(* nothing else happens before the last one.                               *)
DiscAttSendOp ==
    LET i == IF Len(c.wire) = 1 THEN 1 ELSE 2
    IN  /\ ~c.open /\ ~c.crashed /\ c.wire # <<>>
        /\ c' = Callback([c EXCEPT !.wire = RemoveAt(@, i)], c.wire[i], "none", 0)
        /\ UNCHANGED peer

Call(t) == Running /\ c' = t /\ UNCHANGED peer

(* the bound counts registrations, requests, each read twice, and          *)
(* cancellations                                                           *)
Used ==
    LET reads == {j \in DOMAIN c.op : c.op[j].kind \in {"readlong", "simple"}}
        cancels == {j \in DOMAIN c.op : c.op[j].removed}
    IN  Len(c.reg) + Len(c.op) + Cardinality(reads) + Cardinality(cancels)
CallsLeft == Used < MaxCalls

Register ==
    /\ CallsLeft
    /\ \E ccc, can \in BOOLEAN :
          /\ c.reg # <<>> => ccc = c.hasCcc /\ can = c.can
          /\ ~ccc => can                 \* without a CCC nobody looks at it
          /\ Call(RegisterNotify(c, ccc, can))
Unregister(r) == c.reg[r].listed /\ Call(UnregisterNotify(c, r))
LongWrite(reliable) == CallsLeft /\ Call(WriteLong(c, reliable))
Read(kind, len) == Used + 1 < MaxCalls /\ Call(Request(c, kind, len))

Prepare ==
    /\ ~c.inLong
    /\ IF c.session = 0 THEN CallsLeft
       ELSE /\ ~c.op[c.session].removed /\ Idle(c, c.session)
            /\ c.op[c.session].idx < NChunks
    /\ Call(PrepareWrite(c))

(* bt_gatt_client_write_execute() *)
Execute ==
    /\ ~c.inLong /\ c.session # 0
    /\ ~c.op[c.session].removed /\ Idle(c, c.session)
    /\ Call(Send(c, "exec", c.session, 1, "exec"))

Cancel(j) ==
    /\ CallsLeft /\ ~c.op[j].removed /\ c.op[j].told = "none"
    /\ c.op[j].kind = "session" => Idle(c, j)
    /\ Call(CancelRequest(c, j))

Next ==
    \/ Register
    \/ \E r \in DOMAIN c.reg : Unregister(r)
    \/ \E reliable \in BOOLEAN : LongWrite(reliable)
    \/ \E len \in ValueLens : Read("readlong", len)
    \/ Read("simple", 0)
    \/ Prepare
    \/ Execute
    \/ \E j \in DOMAIN c.op : Cancel(j)
    \/ \E res \in {"ok", "err", "bad", "none"} : Answer(res)
    \/ Disconnect
    \/ DiscAttSendOp

Spec == Init /\ [][Next]_vars

(* a request is answered, or the 30 s timer of att.c closes the bearer,    *)
(* and disconnect_cb() runs to its end                                     *)
Served ==
    /\ c.wire # <<>>
    /\ \/ Disconnect \/ DiscAttSendOp
       \/ \E res \in {"ok", "err", "bad", "none"} : Answer(res)

FairSpec == Spec /\ WF_vars(Served)
-----------------------------------------------------------------------------
(* Types, and nobody is told two results. *)
TypeOK ==
    /\ \A f \in {"open", "hasCcc", "can", "writing", "inLong", "crashed", "leak",
                 "stuck", "overlap", "mixed"} : c[f] \in BOOLEAN
    /\ c.reg \in Seq([listed : BOOLEAN, att : BOOLEAN,
                      told : {"none", "ok", "error", "refused"},
                      guess : BOOLEAN])
    /\ c.count \in 0 .. MaxCalls
    /\ c.regQ \in Seq(DOMAIN c.reg) /\ c.longQ \in Seq(DOMAIN c.op)
    /\ c.session \in 0 .. Len(c.op) /\ Len(c.op) <= MaxCalls
    /\ \A j \in DOMAIN c.op :
          c.op[j].told \in {"none", "ok", "fail", "withdrawn"}
    /\ peer.ccc \in BOOLEAN

(* Who is registered and was told that notifications are enabled gets      *)
(* them: the CCC of the peer is set, whatever registers, unregisters, is   *)
(* refused or is cancelled meanwhile.  Left out: who was told so by a      *)
(* notify_count that a failed or cancelled enabling left too high          *)
(* (gatt-client.c:1720), and all after two disablings were under way at    *)
(* once.                                                                   *)
ToldMeansEnabled ==
    c.open /\ c.hasCcc /\ ~c.overlap =>
        \A r \in DOMAIN c.reg :
            c.reg[r].listed /\ c.reg[r].told = "ok" /\ ~c.reg[r].guess
                => peer.ccc

(* The CCC is written by one request at a time, so that                    *)
(* assert(ccc_write_id) of the callbacks holds.  Left out: after a write   *)
(* of it was cancelled, and when the last registration is withdrawn while  *)
(* it waits for the CCC to be disabled (a second disabling is sent).       *)
OneCccWrite ==
    /\ TypeOK
    /\ ~c.stuck /\ ~c.overlap =>
          /\ ~c.crashed
          /\ Cardinality({i \in DOMAIN c.wire : c.wire[i].pdu = "ccc"}) <= 1

(* A long read that succeeded has the whole value, up to the limit.  A     *)
(* long write that was reported as a success was executed by the peer      *)
(* with all its chunks, in order, and nothing else; a reliable one with    *)
(* the very octets.  Left out: when a write that had begun was cancelled,  *)
(* and when a long write waited behind a reliable session.                 *)
LongWhole ==
    \A j \in DOMAIN c.op :
        LET d == c.op[j]
            place(x) == <<x[1], IF x[2] < 0 THEN -x[2] ELSE x[2]>>
            got == [i \in DOMAIN d.wrote |->
                      IF d.reliable THEN d.wrote[i] ELSE place(d.wrote[i])]
        IN  d.told = "ok" =>
              /\ d.kind = "readlong" =>
                    d.idx = IF d.len < MaxValueLen THEN d.len ELSE MaxValueLen
              /\ d.kind = "long" /\ ~c.mixed =>
                    got = [i \in 1 .. NChunks |-> <<j, i>>]

(* Every registration is told its result while it is registered and the    *)
(* bearer stands; left out: behind an enabling that was cancelled.         *)
RegistrationWaits(r) ==
    /\ c.reg[r].listed /\ c.reg[r].told = "none"
    /\ Running /\ ~c.stuck

(* Every request ends with a result or is withdrawn; left out: the long    *)
(* write that waits behind a reliable session, which the upper layer has   *)
(* to execute: to cancel it, or to lose the bearer, starts nothing.        *)
RequestWaits(j) ==
    /\ c.op[j].kind # "session"
    /\ c.op[j].told = "none" /\ ~c.crashed
    /\ c.inLong \/ j \notin ToSet(c.longQ)

(* Again and again nobody waits; as the calls are bounded, each one ends. *)
CallsEnd ==
    []<>(/\ \A r \in DOMAIN c.reg : ~RegistrationWaits(r)
         /\ \A j \in DOMAIN c.op : ~RequestWaits(j))
=============================================================================
