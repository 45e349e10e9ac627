----------------------------- MODULE GattServer -----------------------------
(***************************************************************************)
(* bluez_deps/src/shared/gatt-server.c and the pending reads and writes of *)
(* gatt-db.c: how requests of the peer are answered from the database.  An *)
(* attribute without a function is read and written at once; a function    *)
(* of the application reports at once or later, perhaps never, and then a  *)
(* 5 s timer ends the operation.                                           *)
(*                                                                         *)
(* The peer has one request outstanding (att.c closes the bearer on a      *)
(* second one); commands come at any time.  No authorize function is set   *)
(* by the program, min_enc_size is 0, and no service is removed from the   *)
(* server's database; once the link is lost the program leaves its         *)
(* mainloop and none of this runs (Att, Connection).  A byte of a value is *)
(* the number of the request that wrote it: 0 for the initial value, Junk  *)
(* for memory nobody initialised.                                          *)
(***************************************************************************)
EXTENDS Integers, Sequences, FiniteSets, SequencesExt

CONSTANTS
    Attr,        \* the database: handle -> attribute
    Requests,    \* the requests and commands that the peer may send
    ServerMtu,   \* the mtu of bt_gatt_server_new()
    DEFAULT_LE_MTU,
    MaxPrepQueueLen,
    Security,    \* bt_att_get_security(), 0 when it fails
    MaxReqs      \* bound: requests and commands that are received

Kinds == {"none", "now", "later"}

(* a request: its parsed PDU, its number once it is received; a peer may   *)
(* ask for anything                                                        *)
AnyRequest ==
    [op : {"mtu"}, n : {0}, mtu : Nat] \cup
    [op : {"grp", "type", "info"}, n : {0}, from : Nat, to : Nat,
     type : STRING] \cup
    [op : {"find"}, n : {0}, from : Nat, to : Nat, type : STRING,
     value : Seq(Int)] \cup
    [op : {"read", "blob"}, n : {0}, h : Nat, off : Nat] \cup
    [op : {"mult", "vl"}, n : {0}, hs : Seq(Nat) \ {<<>>}] \cup
    [op : {"write", "cmd"}, n : {0}, h : Nat, len : Nat] \cup
    [op : {"prep"}, n : {0}, h : Nat, off : Nat, len : Nat] \cup
    [op : {"exec"}, n : {0}, flags : Nat] \cup   \* or of another length
    [op : {"short"}, n : {0}]                    \* another of a wrong length

AnyAttribute ==
    [svc : Nat, end : Nat, type : STRING, uuid : {2, 16}, len : Nat,
     fr : Kinds \ {"now"}, fw : Kinds, reliable : BOOLEAN,
     perm : SUBSET ({"r", "w"} \X {"plain", "encrypt", "authen"})]

(* the declaration of a service *)
Declares(h) == Attr[h].type \in {"prim", "sec"}

(* gatt_db_insert_service() gives a declaration its value, without a       *)
(* function, and lets it be read                                           *)
ASSUME ServerAssumption ==
    /\ \A h \in DOMAIN Attr :
         /\ h \in Nat \ {0} /\ Attr[h] \in AnyAttribute
         /\ Declares(h) => /\ Attr[h].len # 0 /\ Attr[h].fr = "none"
                           /\ Attr[h].perm = {<<"r", "plain">>}
    /\ \E h \in DOMAIN Attr : \A g \in DOMAIN Attr : g <= h
    /\ Requests \subseteq AnyRequest
    /\ ServerMtu \in Nat /\ DEFAULT_LE_MTU \in 23 .. ServerMtu
    /\ MaxPrepQueueLen \in Nat \ {0}
    /\ Security \in 0 .. 4 /\ MaxReqs \in Nat

VARIABLES
    s,           \* the server, its database and its answers
    req,         \* the request that was received last, with its number
    n            \* requests and commands received so far

vars == <<s, req, n>>

Handles == DOMAIN Attr
Junk == -1
NoReq == [op |-> "none"]

AtMost(a, b) == IF a < b THEN a ELSE b
AtLeast(a, b) == IF a < b THEN b ELSE a

(* bt_gatt_server_new() on the database that the application filled *)
NewServer ==
    [rop |-> 0, wop |-> 0,                \* pending_read_op, pending_write_op
     prep |-> <<>>,                       \* prep_queue
     mtu |-> ServerMtu,
     chan |-> DEFAULT_LE_MTU, att |-> DEFAULT_LE_MTU,   \* chan->mtu, att->mtu
     val |-> [h \in Handles |-> [i \in 1 .. Attr[h].len |-> 0]],
     pend |-> {},                         \* pending_reads, pending_writes
     id |-> [h \in Handles |-> [r |-> 0, w |-> 0]],   \* read_id, write_id
     calls |-> {},                        \* functions that did not report yet
     ans |-> <<>>,                        \* the answers to req
     prepared |-> <<>>, executed |-> <<>>]    \* ghosts: see PreparedWhole

Init == s = NewServer /\ req = NoReq /\ n = 0
-----------------------------------------------------------------------------
(* bt_att_chan_send_rsp() and bt_att_chan_send_error_rsp(): what the peer  *)
(* is told: the handles of a list, the value and the octets behind the     *)
(* opcode                                                                  *)
Error(t, op, ecode) ==
    [t EXCEPT !.ans = Append(@, [op |-> op, err |-> ecode, list |-> <<>>,
                                 value |-> <<>>, size |-> 4])]
Respond(t, op, list, value, size) ==
    [t EXCEPT !.ans = Append(@, [op |-> op, err |-> "none", list |-> list,
                                 value |-> value, size |-> size])]

(* check_permissions(): the masks of the callers leave out the SECURE bits *)
CheckPermissions(h, way) ==
    LET perm == Attr[h].perm
        level == IF <<way, "authen">> \in perm THEN 3
                 ELSE IF <<way, "encrypt">> \in perm THEN 2 ELSE 0
    IN  CASE perm # {} /\ <<way, "plain">> \notin perm -> "NOT_PERMITTED"
          [] perm = {} -> "none"
          [] Security = 0 -> "UNLIKELY"
          [] Security < level -> IF level = 3 THEN "AUTHENTICATION"
                                 ELSE "INSUFFICIENT_ENCRYPTION"
          [] OTHER -> "none"
-----------------------------------------------------------------------------
(* the attributes of a range in the order of their handles *)
Top == CHOOSE h \in Handles : \A g \in Handles : g <= h
InRange(S, from, to) ==
    LET upto[h \in 0 .. Top] ==
          CASE h = 0 -> <<>>
            [] h > 0 /\ h \in S \cap from .. to -> Append(upto[h - 1], h)
            [] OTHER -> upto[h - 1]
    IN  upto[Top]

(* gatt_db_foreach_in_range() and gatt_db_foreach_service_in_range() *)
ReadByGroupType(from, to, type) ==
    InRange({h \in Handles : Attr[h].type = type}, from, to)
ReadByType(from, to, type) == ReadByGroupType(from, to, type)
FindInformation(from, to) == InRange(Handles, from, to)
FindByTypeValue(t, from, to, type, value) ==
    InRange({h \in Handles : Attr[h].type = type /\ t.val[h] = value},
            from, to)

(* Mutation of Units: an attribute of another length is skipped. *)
UnitsSkipping(hs, len, unit, room) ==
    LET fit == SelectSeq(hs, LAMBDA h : len[h] = len[hs[1]])
    IN  SubSeq(fit, 1, AtMost(Len(fit), (room - 1) \div unit))

(* the loops of encode_read_by_grp_type_rsp() and encode_find_info_rsp():  *)
(* units as long as the first one, up to the first attribute of another    *)
(* length or the MTU                                                       *)
Units(hs, len, unit, room) ==
    LET other == SelectInSeq(hs, LAMBDA h : len[h] # len[hs[1]])
        same == IF other = 0 THEN Len(hs) ELSE other - 1
    IN  SubSeq(hs, 1, AtMost(same, (room - 1) \div unit))

BadRange(r) == r.from = 0 \/ r.to = 0 \/ r.from > r.to

(* read_by_grp_type_cb() *)
ReadByGrpTypeCb(t, r) ==
    LET hs == ReadByGroupType(r.from, r.to, r.type)
        len == [h \in Handles |-> Len(t.val[h])]
        vlen == AtMost(AtMost(t.att - 6, 251), len[hs[1]])
        list == Units(hs, len, vlen + 4, t.att - 1)
    IN  CASE BadRange(r) -> Error(t, "grp", "INVALID_HANDLE")
          [] r.type \notin {"prim", "sec"} ->
                Error(t, "grp", "UNSUPPORTED_GROUP_TYPE")
          [] hs = <<>> -> Error(t, "grp", "NOT_FOUND")
          [] OTHER -> Respond(t, "grp", list, <<>>,
                              1 + Len(list) * (vlen + 4))

(* find_info_cb() *)
FindInfoCb(t, r) ==
    LET hs == FindInformation(r.from, r.to)
        uuid == [h \in Handles |-> Attr[h].uuid]
        list == Units(hs, uuid, uuid[hs[1]] + 2, t.att - 1)
    IN  CASE BadRange(r) -> Error(t, "info", "INVALID_HANDLE")
          [] hs = <<>> -> Error(t, "info", "NOT_FOUND")
          [] OTHER -> Respond(t, "info", list, <<>>,
                              1 + Len(list) * (uuid[hs[1]] + 2))

(* find_by_type_val_cb(): handle 0 is not refused here *)
FindByTypeValCb(t, r) ==
    LET hs == FindByTypeValue(t, r.from, r.to, r.type, r.value)
        list == SubSeq(hs, 1, AtMost(Len(hs), (t.att - 1) \div 4))
    IN  CASE r.from > r.to -> Error(t, "find", "INVALID_HANDLE")
          [] hs = <<>> -> Error(t, "find", "NOT_FOUND")
          [] OTHER -> Respond(t, "find", list, <<>>, 4 * Len(list))

(* exchange_mtu_cb(): the response holds the MTU before the change;        *)
(* bt_att_set_mtu() does not take att->mtu back                            *)
ExchangeMtuCb(t, r) ==
    LET final == AtLeast(AtMost(r.mtu, t.mtu), DEFAULT_LE_MTU)
    IN  [Respond(t, "mtu", <<>>, <<t.mtu>>, 2) EXCEPT
            !.mtu = final, !.chan = final, !.att = AtLeast(@, final)]
-----------------------------------------------------------------------------
(* a read of h is handed to the function of the application *)
CallRead(t, h, off, k) ==
    LET i == t.id[h].r + 1
        p == [h |-> h, way |-> "r", id |-> i]
    IN  [t EXCEPT !.id[h].r = i,
                  !.pend = @ \cup {[call |-> p, k |-> k]},
                  !.calls = @ \cup {[call |-> p, n |-> k.n, off |-> off]}]

(* async_read_op_destroy(), after a response or an error *)
DropReadOp(t) == [t EXCEPT !.rop = 0]

(* read_complete_cb() *)
ReadComplete(t, h, k, err, v) ==
    LET part == SubSeq(v, 1, AtMost(t.att - 1, Len(v)))
    IN  DropReadOp(IF err # "none" THEN Error(t, k.op, err)
                   ELSE Respond(t, k.op, <<h>>, part, Len(part)))

(* gatt_db_attribute_read() with this callback *)
DbRead(t, h, off, k) ==
    CASE Attr[h].fr # "none" -> CallRead(t, h, off, k)
      [] Attr[h].fr = "none" /\ off > Len(t.val[h]) ->
           ReadComplete(t, h, k, "INVALID_OFFSET", <<>>)
      [] OTHER -> ReadComplete(t, h, k, "none",
                               SubSeq(t.val[h], off + 1, Len(t.val[h])))

(* Mutation of Surpasses: the opcode is not counted. *)
SurpassesByOne(len, mtu) == len > mtu

(* the PDU of len octets would surpass the MTU *)
Surpasses(len, mtu) == len > mtu - 1

(* read_by_type_read_complete_cb(): the value v of h joins the PDU, or the *)
(* PDU is complete without it                                              *)
ReadByTypeComplete(t, h, k, v) ==
    LET first == k.len = 0
        vlen == IF first THEN AtMost(AtMost(t.att - 4, 253), Len(v))
                ELSE k.vlen
        len == IF first THEN 1 ELSE k.len
        stop == \/ Len(v) # vlen /\ ~first
                \/ Surpasses(len + vlen + 2, t.att)
    IN  IF stop
        THEN [k EXCEPT !.vlen = vlen, !.len = len, !.done = TRUE]
        ELSE [k EXCEPT !.vlen = vlen, !.len = len + vlen + 2,
                       !.list = Append(@, h),
                       !.value = @ \o SubSeq(v, 1, vlen),
                       !.done = len + vlen + 2 = t.att - 1]

(* the attribute h may be read and has no function: its value is there     *)
(* before gatt_db_attribute_read() returns                                 *)
AtOnce(h) == CheckPermissions(h, "r") = "none" /\ Attr[h].fr = "none"

(* process_read_by_type() and its callback call each other until a value   *)
(* has to be waited for or the PDU is complete; k.todo is db_data, k.list  *)
(* what the PDU holds                                                      *)
ReadOn(t, k) ==
    LET turn[i \in 0 .. Len(k.todo)] ==
          IF i = 0 THEN k
          ELSE LET j == turn[i - 1]
                   h == Head(j.todo)
               IN  IF ~j.done /\ j.todo # <<>> /\ AtOnce(h)
                   THEN ReadByTypeComplete(t, h,
                            [j EXCEPT !.todo = Tail(@)], t.val[h])
                   ELSE j
    IN  turn[Len(k.todo)]

(* process_read_by_type() *)
ProcessReadByType(t, k) ==
    LET j == ReadOn(t, k)
        h == Head(j.todo)
        ecode == CheckPermissions(h, "r")
    IN  CASE j.done \/ j.todo = <<>> ->
               DropReadOp(Respond(t, "type", j.list, j.value, j.len))
          [] ~j.done /\ j.todo # <<>> /\ ecode # "none" ->
               DropReadOp(Error(t, "type", ecode))
          [] OTHER -> CallRead(t, h, 0, [j EXCEPT !.todo = Tail(@)])

(* read_multiple_complete_cb(): the value joins the PDU, and the next      *)
(* handle is k.hs[k.cur]                                                   *)
JoinMultiple(k, v) ==
    LET head == IF k.op = "vl" THEN 2 ELSE 0
        room == k.mtu - k.len - head - 1
        part == IF room < 0 THEN v ELSE SubSeq(v, 1, AtMost(Len(v), room))
    IN  [k EXCEPT !.cur = @ + 1, !.len = @ + head + Len(part),
                  !.value = @ \o part, !.list = Append(@, k.hs[k.cur])]

(* no room is left, or all handles are read *)
MultipleRead(k) ==
    k.cur > Len(k.hs) \/ k.mtu - k.len - (IF k.op = "vl" THEN 3 ELSE 1) = 0

(* the values that are there at once *)
ReadMultipleOn(t, k) ==
    LET turn[i \in 0 .. Len(k.hs)] ==
          IF i = 0 THEN k
          ELSE LET j == turn[i - 1]
                   h == j.hs[j.cur]
               IN  IF ~MultipleRead(j) /\ h \in Handles /\ AtOnce(h)
                   THEN JoinMultiple(j, t.val[h])
                   ELSE j
    IN  turn[Len(k.hs)]

(* the rest of the callback.  A value that was read is dropped when it may *)
(* not be read; an unknown handle names READ_MULT_REQ whatever was asked   *)
ReadMultiple(t, k) ==
    LET j == ReadMultipleOn(t, k)
        h == j.hs[j.cur]
    IN  CASE MultipleRead(j) -> Respond(t, j.op, j.list, j.value, j.len)
          [] ~MultipleRead(j) /\ h \notin Handles ->
               Error(t, "mult", "INVALID_HANDLE")
          [] ~MultipleRead(j) /\ h \in Handles /\ Attr[h].fr = "none" ->
               Error(t, j.op, CheckPermissions(h, "r"))
          [] OTHER -> CallRead(t, h, 0, j)

(* the callback for a value that was waited for *)
ReadMultipleComplete(t, h, k, v) ==
    LET ecode == CheckPermissions(h, "r")
    IN  IF ecode # "none" THEN Error(t, k.op, ecode)
        ELSE ReadMultiple(t, JoinMultiple(k, v))

(* the callback of a read that was handed to a function *)
ReadDone(t, h, k, err, v) ==
    CASE k.op \in {"read", "blob"} -> ReadComplete(t, h, k, err, v)
      [] k.op = "type" ->
           IF err # "none" THEN DropReadOp(Error(t, "type", err))
           ELSE ProcessReadByType(t, ReadByTypeComplete(t, h, k, v))
      [] OTHER ->
           IF err # "none" THEN Error(t, k.op, err)
           ELSE ReadMultipleComplete(t, h, k, v)

(* read_by_type_cb() *)
ReadByTypeCb(t, r, m) ==
    LET hs == ReadByType(r.from, r.to, r.type)
    IN  CASE BadRange(r) -> Error(t, "type", "INVALID_HANDLE")
          [] hs = <<>> -> Error(t, "type", "NOT_FOUND")
          [] t.rop # 0 -> Error(t, "type", "UNLIKELY")
          [] OTHER -> ProcessReadByType([t EXCEPT !.rop = m],
                        [op |-> "type", n |-> m, todo |-> hs, list |-> <<>>,
                         value |-> <<>>, len |-> 0, vlen |-> 0,
                         done |-> FALSE])

(* handle_read_req(), from read_cb() and read_blob_cb() *)
HandleReadReq(t, r, m) ==
    LET ecode == CheckPermissions(r.h, "r")
    IN  CASE r.h \notin Handles -> Error(t, r.op, "INVALID_HANDLE")
          [] ecode # "none" -> Error(t, r.op, ecode)
          [] t.rop # 0 -> Error(t, r.op, "UNLIKELY")
          [] OTHER -> DbRead([t EXCEPT !.rop = m], r.h, r.off,
                             [op |-> r.op, n |-> m])

(* read_multiple_cb(): the first value is read before its permission is    *)
(* looked at                                                               *)
ReadMultipleCb(t, r, m) ==
    IF r.hs[1] \notin Handles THEN Error(t, r.op, "INVALID_HANDLE")
    ELSE ReadMultiple(t, [op |-> r.op, n |-> m, hs |-> r.hs, cur |-> 1,
                          mtu |-> t.att, len |-> 0, value |-> <<>>,
                          list |-> <<>>])
-----------------------------------------------------------------------------
(* the value of an attribute that the database keeps: a shorter write      *)
(* leaves the rest, a gap is only cleared in an empty value                *)
Stored(v, off, bytes) ==
    LET gap == IF v = <<>> THEN 0 ELSE Junk
        len == AtLeast(Len(v), off + Len(bytes))
    IN  IF bytes = <<>> THEN v
        ELSE [i \in 1 .. len |->
                IF i \in off + 1 .. off + Len(bytes) THEN bytes[i - off]
                ELSE IF i <= Len(v) THEN v[i] ELSE gap]

(* Mutation of Continues: every write to the same handle is joined. *)
ContinuesAnywhere(q, h, off) == q # <<>> /\ Last(q).h = h

(* store_prep_data(): a prepared write that continues the last one *)
Continues(q, h, off) ==
    /\ q # <<>>
    /\ Last(q).h = h
    /\ off = Last(q).off + Len(Last(q).bytes)

(* is_reliable_write_supported() of the handle before the value *)
ReliableSupported(h) == h - 1 \in Handles /\ Attr[h - 1].reliable

(* what a write hands over, octet by octet *)
Octets(h, off, bytes) ==
    [i \in 1 .. Len(bytes) |-> <<h, off + i - 1, bytes[i]>>]

StorePrepData(t, k) ==
    [t EXCEPT
       !.prep = IF Continues(t.prep, k.h, k.off)
                THEN [t.prep EXCEPT ![Len(t.prep)].bytes = @ \o k.bytes]
                ELSE Append(@, [h |-> k.h, off |-> k.off, bytes |-> k.bytes,
                                reliable |-> ReliableSupported(k.h)]),
       !.prepared = @ \o Octets(k.h, k.off, k.bytes)]

(* the callbacks of gatt_db_attribute_write(): write_complete_cb() and     *)
(* prep_write_complete_cb()                                                *)
WriteComplete(t, k, err) ==
    CASE k.op = "cmd" -> [t EXCEPT !.wop = 0]
      [] k.op = "write" ->
           [IF err # "none" THEN Error(t, "write", err)
            ELSE Respond(t, "write", <<>>, <<>>, 0) EXCEPT !.wop = 0]
      [] k.op = "prep" ->
           IF err # "none" THEN Error(t, "prep", err)
           ELSE Respond(StorePrepData(t, k), "prep", <<>>, k.bytes,
                        4 + Len(k.bytes))

(* a write of h is handed to a function that reports later *)
CallWrite(t, h, off, k) ==
    LET i == t.id[h].w + 1
        p == [h |-> h, way |-> "w", id |-> i]
    IN  [t EXCEPT !.id[h].w = i,
                  !.pend = @ \cup {[call |-> p, k |-> k]},
                  !.calls = @ \cup {[call |-> p, n |-> k.n, off |-> off]}]

(* a write that is done at once: by the database, or by the function of    *)
(* the program, which is server_mldp_data_char_write_cb()                  *)
Written(t, h, off, bytes) ==
    IF Attr[h].fw = "now" THEN [t EXCEPT !.id[h].w = @ + 1]
    ELSE [t EXCEPT !.val[h] = Stored(@, off, bytes)]
WriteError(h, off) ==
    IF Attr[h].fw = "now" /\ off # 0 THEN "INVALID_OFFSET" ELSE "none"

(* gatt_db_attribute_write() *)
DbWrite(t, h, off, bytes, k) ==
    IF Attr[h].fw = "later" THEN CallWrite(t, h, off, k)
    ELSE WriteComplete(Written(t, h, off, bytes), k, WriteError(h, off))

(* write_cb(): a command that cannot be taken is dropped *)
WriteCb(t, r, m) ==
    LET ecode == CheckPermissions(r.h, "w")
        refuse(e) == IF r.op = "cmd" THEN t ELSE Error(t, "write", e)
    IN  CASE r.h \notin Handles -> refuse("INVALID_HANDLE")
          [] ecode # "none" -> refuse(ecode)
          [] t.wop # 0 -> refuse("UNLIKELY")
          [] OTHER -> DbWrite([t EXCEPT !.wop = m], r.h, 0,
                              [i \in 1 .. r.len |-> m],
                              [op |-> r.op, n |-> m])

(* the limit of the queue in prep_write_cb() *)
QueueFull(t) == Len(t.prep) >= MaxPrepQueueLen

(* prep_write_cb(): the attribute is written without data at this time *)
PrepWriteCb(t, r, m) ==
    LET ecode == CheckPermissions(r.h, "w")
    IN  CASE QueueFull(t) -> Error(t, "prep", "PREPARE_QUEUE_FULL")
          [] r.h \notin Handles -> Error(t, "prep", "INVALID_HANDLE")
          [] ecode # "none" -> Error(t, "prep", ecode)
          [] OTHER -> DbWrite(t, r.h, r.off, <<>>,
                        [op |-> "prep", n |-> m, h |-> r.h, off |-> r.off,
                         bytes |-> [i \in 1 .. r.len |-> m]])

(* queue_remove_all() of the prep_queue *)
DropPrepared(t) == [t EXCEPT !.prep = <<>>]

(* queue_pop_head() of the prep_queue *)
PopPrepared(t) ==
    LET e == Head(t.prep)
    IN  [t EXCEPT !.prep = Tail(@),
                  !.executed = @ \o Octets(e.h, e.off, e.bytes)]

(* exec_next_prep_write() and exec_write_complete_cb() call each other     *)
(* while a prepared write succeeds at once                                 *)
ExecOn(t) ==
    LET turn[i \in 0 .. Len(t.prep)] ==
          IF i = 0 THEN t
          ELSE LET u == turn[i - 1]
                   e == Head(u.prep)
               IN  IF u.prep # <<>> /\ Attr[e.h].fw # "later"
                      /\ WriteError(e.h, e.off) = "none"
                   THEN Written(PopPrepared(u), e.h, e.off, e.bytes)
                   ELSE u
    IN  turn[Len(t.prep)]

(* exec_next_prep_write() *)
ExecNext(t, err, m) ==
    LET u == ExecOn(t)
        e == Head(u.prep)
    IN  CASE err # "none" -> Error(DropPrepared(t), "exec", err)
          [] err = "none" /\ u.prep = <<>> ->
               Respond(u, "exec", <<>>, <<>>, 0)
          [] err = "none" /\ u.prep # <<>> /\ Attr[e.h].fw = "later" ->
               CallWrite(PopPrepared(u), e.h, e.off, [op |-> "exec", n |-> m])
          [] OTHER ->
               Error(DropPrepared(Written(PopPrepared(u), e.h, e.off, e.bytes)),
                     "exec", WriteError(e.h, e.off))

(* exec_write_cb(): flags other than 0 and 1 stand also for a PDU that is  *)
(* not one octet long, which is refused in the same way                    *)
ExecWriteCb(t, r, m) ==
    CASE r.flags \notin {0, 1} -> Error(DropPrepared(t), "exec", "INVALID_PDU")
      [] r.flags = 0 -> Respond(DropPrepared(t), "exec", <<>>, <<>>, 0)
      [] r.flags = 1 /\ Len(t.prep) > 1
           /\ \E i \in DOMAIN t.prep : ~t.prep[i].reliable ->
           Error(DropPrepared(t), "exec", "REQUEST_NOT_SUPPORTED")
      [] OTHER -> ExecNext(t, "none", m)
-----------------------------------------------------------------------------
(* gatt_server_register_att_handlers(): the handler of each opcode; a PDU  *)
(* of a wrong length is refused by all of them, an Execute Write like one  *)
(* of unknown flags                                                        *)
Handler(t, r, m) ==
    CASE r.op = "mtu" -> ExchangeMtuCb(t, r)
      [] r.op = "grp" -> ReadByGrpTypeCb(t, r)
      [] r.op = "type" -> ReadByTypeCb(t, r, m)
      [] r.op = "info" -> FindInfoCb(t, r)
      [] r.op = "find" -> FindByTypeValCb(t, r)
      [] r.op \in {"write", "cmd"} -> WriteCb(t, r, m)
      [] r.op \in {"read", "blob"} -> HandleReadReq(t, r, m)
      [] r.op \in {"mult", "vl"} -> ReadMultipleCb(t, r, m)
      [] r.op = "prep" -> PrepWriteCb(t, r, m)
      [] r.op = "exec" -> ExecWriteCb(t, r, m)
      [] r.op = "short" -> Error(t, "short", "INVALID_PDU")

Outstanding == req # NoReq /\ s.ans = <<>>

(* a session of prepared writes is over: the ghosts start again *)
SessionOver == req.op = "exec" /\ s.ans # <<>>

Forget(t) ==
    IF SessionOver THEN [t EXCEPT !.prepared = <<>>, !.executed = <<>>]
    ELSE t

(* can_read_data() of att.c reads no more than chan->mtu *)
Readable(r) ==
    /\ r.op \in {"write", "cmd"} => 3 + r.len <= s.chan
    /\ r.op = "prep" => 5 + r.len <= s.chan

(* a request, or a command, which is not answered *)
Receive(r) ==
    /\ n < MaxReqs /\ n' = n + 1
    /\ Readable(r)
    /\ IF r.op = "cmd"
       THEN /\ s' = Handler(s, r, n + 1)
            /\ UNCHANGED req
       ELSE /\ ~Outstanding
            /\ req' = [r EXCEPT !.n = n + 1]
            /\ s' = Handler([Forget(s) EXCEPT !.ans = <<>>], r, n + 1)

(* what the function of the application reports *)
Done(t, p, err, v) ==
    LET u == [t EXCEPT !.pend = @ \ {p}]
    IN  IF p.call.way = "r" THEN ReadDone(u, p.call.h, p.k, err, v)
        ELSE IF p.k.op = "exec" THEN ExecNext(u, err, p.k.n)
        ELSE WriteComplete(u, p.k, err)

(* Mutation of Waiting: the id is not compared. *)
WaitingAny(t, call) ==
    {p \in t.pend : p.call.h = call.h /\ p.call.way = call.way}

(* find_pending(): the operation with the id of the result *)
Waiting(t, call) == {p \in t.pend : p.call = call}

(* gatt_db_attribute_read_result() and gatt_db_attribute_write_result(); a *)
(* result that nobody waits for any longer is ignored                      *)
Report(c, err) ==
    LET t == [s EXCEPT !.calls = @ \ {c}]
        v == [i \in 1 .. AtLeast(0, Attr[c.call.h].len - c.off) |-> c.n]
        w == Waiting(s, c.call)
    IN  /\ s' = IF w = {} THEN t
                ELSE Done(t, CHOOSE p \in w : TRUE, err, v)
        /\ UNCHANGED <<req, n>>

(* Mutation of Timeout: the operation stays in its queue. *)
TimeoutKept(p) ==
    /\ s' = [Done(s, p, "UNLIKELY", <<>>) EXCEPT !.pend = @ \cup {p}]
    /\ UNCHANGED <<req, n>>

(* Mutation of Timeout: only reads have a timer. *)
TimeoutOfReads(p) ==
    /\ p.call.way = "r"
    /\ s' = Done(s, p, "UNLIKELY", <<>>)
    /\ UNCHANGED <<req, n>>

(* read_timeout() and write_timeout(); the errno becomes UNLIKELY *)
Timeout(p) ==
    /\ s' = Done(s, p, "UNLIKELY", <<>>)
    /\ UNCHANGED <<req, n>>

Next ==
    \/ \E r \in Requests : Receive(r)
    \/ \E c \in s.calls, err \in {"none", "APP"} : Report(c, err)
    \/ \E p \in s.pend : Timeout(p)

Spec == Init /\ [][Next]_vars

(* the timers of the mainloop are served; nobody has to report *)
FairSpec == Spec /\ WF_vars(\E p \in s.pend : Timeout(p))
-----------------------------------------------------------------------------
(* Types and bounds; the queue of prepared writes stays within its limit. *)
TypeOK ==
    /\ s.rop \in 0 .. n /\ s.wop \in 0 .. n
    /\ Len(s.prep) <= MaxPrepQueueLen
    /\ s.mtu \in DEFAULT_LE_MTU .. ServerMtu
    /\ s.chan \in DEFAULT_LE_MTU .. s.att /\ s.att <= ServerMtu
    /\ n \in 0 .. MaxReqs
    /\ \A p \in s.pend : p.call.h \in Handles /\ p.k.n \in 1 .. n

(* A request is answered at most once, whatever reports, timers and late   *)
(* results do: what still waits in the database will answer the request    *)
(* that is outstanding, or nobody (write_complete_cb() of a command).      *)
(* pending_read_op and pending_write_op are set exactly while something    *)
(* waits: a slot that leaks refuses every later request.                   *)
AnsweredOnce ==
    /\ TypeOK
    /\ Len(s.ans) <= 1
    /\ \A p \in s.pend : p.k.op # "cmd" => Outstanding /\ p.k.n = req.n
    /\ Cardinality({p \in s.pend : p.k.op # "cmd"}) <= 1
    /\ s.rop # 0 <=> \E p \in s.pend : p.k.op \in {"read", "blob", "type"}
    /\ s.wop # 0 <=> \E p \in s.pend : p.k.op \in {"write", "cmd"}

(* A value that a function of the application delivered answers the        *)
(* request it was asked for: a result that comes after the timeout does    *)
(* not answer a later read of the attribute.                               *)
ValueIsFresh ==
    \A i \in DOMAIN s.ans :
        LET a == s.ans[i]
        IN  a.op \in {"read", "blob"} /\ a.err = "none"
              /\ Attr[a.list[1]].fr # "none" =>
            ToSet(a.value) \subseteq {req.n}

(* the octets of the prepared writes in a queue *)
Held(q) ==
    LET upto[i \in 0 .. Len(q)] ==
          IF i = 0 THEN <<>>
          ELSE upto[i - 1] \o Octets(q[i].h, q[i].off, q[i].bytes)
    IN  upto[Len(q)]

(* Prepared writes are handed over whole and in their order: what was      *)
(* acknowledged is what was executed, then what the queue holds, until the *)
(* session ends; then the queue is empty, and an Execute Write that was    *)
(* confirmed left nothing out.                                             *)
PreparedWhole ==
    IF SessionOver
    THEN /\ s.prep = <<>>
         /\ req.flags = 1 /\ s.ans[1].err = "none" => s.executed = s.prepared
    ELSE s.prepared = s.executed \o Held(s.prep)

(* The list of an answer is a prefix of what the range holds, never empty: *)
(* a client that goes on behind the last handle it got misses nothing, and *)
(* it is told NOT_FOUND only when nothing is left.  The values of          *)
(* attributes that are no declarations may change after the answer.        *)
NothingSkipped ==
    LET all == IF req.op = "grp"
                 THEN ReadByGroupType(req.from, req.to, req.type)
               ELSE IF req.op = "type"
                 THEN ReadByType(req.from, req.to, req.type)
               ELSE IF req.op = "info" THEN FindInformation(req.from, req.to)
               ELSE FindByTypeValue(s, req.from, req.to, req.type, req.value)
    IN  \/ req.op \in {"grp", "type", "info"}
        \/ req.op = "find" /\ req.type \in {"prim", "sec"}
        =>
          \A i \in DOMAIN s.ans :
            /\ s.ans[i].err = "none" =>
                  s.ans[i].list # <<>> /\ IsPrefix(s.ans[i].list, all)
            /\ s.ans[i].err = "NOT_FOUND" => all = <<>>

(* A response fits the MTU; left out: Read Multiple Variable Length, where *)
(* the room that is left is computed in size_t and wraps, and what follows *)
(* a second exchange that lowers the MTU, because the server goes by the   *)
(* higher one.                                                             *)
FitsMtu ==
    s.chan = s.att =>
        \A i \in DOMAIN s.ans :
            s.ans[i].op # "vl" => s.ans[i].size <= s.chan - 1

(* Every request is answered, also when the application never reports: the *)
(* timers see to it.                                                       *)
EveryRequestAnswered == Outstanding ~> ~Outstanding
=============================================================================
