---------------------------- MODULE GattDiscovery ----------------------------
(***************************************************************************)
(* bluez_deps/src/shared/gatt-client.c: how the GATT client mirrors the    *)
(* database of the peer when it is created and after every Service Changed *)
(* indication, with the procedures of gatt-helpers.c that ask for it one   *)
(* PDU after the other.                                                    *)
(*                                                                         *)
(* The client is one record, c, and a callback is an operator from clients *)
(* to clients: a callback runs to its end in the mainloop and calls the    *)
(* next one.  The program keeps the default MTU and starts from an empty   *)
(* database (main.c), so the MTU exchange and the cached start are left    *)
(* out; so is the read of the server features, whose result only decides a *)
(* later write.                                                            *)
(***************************************************************************)
EXTENDS GattDb, FiniteSets

CONSTANTS
    Remotes,       \* the databases that the peer may have
    First,         \* the one that it starts with
    MaxChanges     \* bound: how often the peer changes its database

ASSUME DiscoveryAssumption == First \in Remotes /\ MaxChanges \in Nat

VARIABLES
    c,         \* struct bt_gatt_client with its discovery_op and request
    remote,    \* the database of the peer
    inds,      \* Service Changed indications on their way
    changes,   \* how often the peer changed
    view       \* what the client can know of the changes: all of them, some
               \* crossed a discovery, or one was not indicated

vars == <<c, remote, inds, changes, view>>

NoOp ==
    [kind |-> "none", start |-> 0, end |-> 0, last |-> 0, svc_first |-> 0,
     svc_last |-> 0, ranges |-> <<>>, pending |-> <<>>, chrcs |-> <<>>,
     ext |-> <<>>, cur |-> 0, success |-> FALSE, hash |-> FALSE,
     db_id |-> FALSE]

(* struct bt_gatt_request, of gatt-helpers.c: what is asked, the range     *)
(* that is left and the results so far                                     *)
Request(kind, s, e) == [kind |-> kind, start |-> s, end |-> e, found |-> <<>>]

NoReq == Request("none", 0, 0)

(* discovery_op_create() *)
OpCreate(kind, db, s, e) ==
    [NoOp EXCEPT
        !.kind = kind, !.start = s, !.end = e,
        !.last = IF db = <<>> THEN 0 ELSE UINT16_MAX,
        !.svc_first = UINT16_MAX,
        !.pending = [i \in DOMAIN ServicesIn(db, s, e) |->
                        ServicesIn(db, s, e)[i].id],
        !.ranges = <<Span(s, e)>>, !.db_id = TRUE]

(* gatt_client_new() on an empty database *)
NewClient ==
    [db |-> <<>>, next |-> 1, up |-> TRUE, op |-> NoOp, done |-> NoOp,
     req |-> NoReq, ready |-> FALSE, told |-> <<>>, in_init |-> FALSE,
     in_svc_chngd |-> FALSE, svc_chngd_queue |-> <<>>, ind_id |-> FALSE,
     fail |-> FALSE, bad |-> FALSE, lost |-> {}]

(* bt_gatt_client_new() with gatt_client_init(), which has no MTU to       *)
(* exchange                                                                *)
Init ==
    /\ c = [NewClient EXCEPT
               !.in_init = TRUE,
               !.op = OpCreate("init", <<>>, 1, UINT16_MAX),
               !.req = Request("prim", 1, UINT16_MAX)]
    /\ remote = First
    /\ inds = <<>> /\ changes = 0 /\ view = "all"
-----------------------------------------------------------------------------
(* Mutation of Drop: the discovery is not told. *)
DropUnseen(k, db) == [k EXCEPT !.db = db]

(* Services leave the database: discovery_service_changed() takes those    *)
(* that were active from pending_svcs while it is registered               *)
Drop(k, db) ==
    LET gone(id) == k.db[At(k.db, id)].active
        left(id) == id \in Ids(k.db) \ Ids(db) /\ gone(id)
    IN  [k EXCEPT !.db = db,
                  !.op.pending = IF k.op.db_id
                                 THEN SelectSeq(@, LAMBDA id : ~left(id))
                                 ELSE @]

(* gatt_db_service_set_active(svc, true), 0 for NULL, with                 *)
(* discovery_service_changed(); a service that is gone is touched          *)
Activate(k, id) ==
    IF id = 0 THEN k
    ELSE IF id \notin Ids(k.db) THEN [k EXCEPT !.bad = TRUE]
    ELSE IF k.db[At(k.db, id)].active THEN k
    ELSE [k EXCEPT !.db = SetActive(@, id), !.op.pending = Remove(@, id)]

(* a procedure of gatt-helpers.c is started; fail when it cannot be sent *)
Ask(k, kind, s, e) ==
    IF k.up THEN [k EXCEPT !.req = Request(kind, s, e), !.fail = FALSE]
    ELSE [k EXCEPT !.req = NoReq, !.fail = TRUE]

(* notify_client_ready(): the callbacks are told once and forgotten *)
NotifyReady(k, ok) ==
    IF k.ready THEN k
    ELSE [k EXCEPT !.ready = ok,
                   !.told = IF @ = <<>> THEN <<ok>> ELSE @]

(* register_service_changed(); fail when the write of the CCC descriptor   *)
(* cannot be sent                                                          *)
RegisterServiceChanged(k) ==
    IF k.ind_id \/ FindByType(k.db, "sc") = 0 THEN [k EXCEPT !.fail = FALSE]
    ELSE [Ask(k, "ccc", 1, 1) EXCEPT !.ind_id = k.up]

(* process_service_changed() *)
ProcessServiceChanged(k, s, e) ==
    IF ~k.up THEN [k EXCEPT !.op = NoOp, !.req = NoReq]
    ELSE [Ask(k, "prim", s, e) EXCEPT
             !.op = OpCreate("svc", k.db, s, e), !.in_svc_chngd = TRUE]

(* Mutation of InitComplete: a failure is only logged. *)
InitCompleteQuiet(k, ok) ==
    LET k1 == [k EXCEPT !.in_init = FALSE, !.op = NoOp]
    IN  IF ok THEN With(RegisterServiceChanged(k1),
                        LAMBDA k2 : NotifyReady(k2, ~k2.fail))
        ELSE k1

(* init_complete() *)
InitComplete(k, ok) ==
    LET k1 == [k EXCEPT !.in_init = FALSE, !.op = NoOp]
    IN  IF ok THEN With(RegisterServiceChanged(k1),
                        LAMBDA k2 : NotifyReady(k2, ~k2.fail))
        ELSE NotifyReady(k1, FALSE)

(* Mutation of ServiceChangedComplete: what waits is left in the queue. *)
ServiceChangedCompleteOnce(k, ok, err) ==
    LET o == k.op
        k1 == [k EXCEPT !.in_svc_chngd = FALSE, !.op = NoOp,
                        !.db = IF ~ok /\ err # "NOT_FOUND"
                               THEN ClearRange(@, o.start, o.end) ELSE @]
    IN  RegisterServiceChanged(k1)

(* service_changed_complete() *)
ServiceChangedComplete(k, ok, err) ==
    LET o == k.op
        k1 == [k EXCEPT !.in_svc_chngd = FALSE, !.op = NoOp,
                        !.db = IF ~ok /\ err # "NOT_FOUND"
                               THEN ClearRange(@, o.start, o.end) ELSE @]
        next == Head(k.svc_chngd_queue)
    IN  IF k.svc_chngd_queue # <<>>
        THEN ProcessServiceChanged(
                [k1 EXCEPT !.svc_chngd_queue = Tail(@)],
                next.start, next.end)
        ELSE RegisterServiceChanged(k1)

(* the handles of which the operation leaves no service in the database *)
LostBy(o, ok) ==
    LET rest == IF o.last = UINT16_MAX THEN {} ELSE o.last + 1 .. UINT16_MAX
    IN  IF ok THEN rest ELSE rest \cup (o.start .. o.end)

(* discovery_op_complete() behind read_db_hash(): the services that are    *)
(* still pending go, the rest of the range is reset                        *)
CompleteOp(k, ok, err) ==
    LET o == k.op
        rest == SelectSeq(k.db, LAMBDA v : v.id \notin ToSet(o.pending))
        k1 == [k EXCEPT
                 !.op.db_id = FALSE, !.req = NoReq, !.fail = FALSE,
                 !.bad = @ \/ ~(ToSet(o.pending) \subseteq Ids(k.db)),
                 !.db = IF o.last # UINT16_MAX
                        THEN ClearRange(rest, o.last + 1, UINT16_MAX)
                        ELSE rest,
                 !.lost = (@ \ (o.start .. o.end)) \cup LostBy(o, ok),
                 !.done = [o EXCEPT !.success = ok]]
    IN  With(k1, LAMBDA j : IF o.kind = "init" THEN InitComplete(j, ok)
                            ELSE ServiceChangedComplete(j, ok, err))

(* discovery_op_complete() and read_db_hash() *)
Complete(client, ok, err) ==
    With(client, LAMBDA k :
      IF ok /\ ~k.op.hash /\ FindByType(k.db, "hash") # 0 /\ k.up
      THEN [Ask(k, "hash", 1, UINT16_MAX) EXCEPT !.op.hash = TRUE,
                                                 !.op.success = TRUE]
      ELSE CompleteOp(k, ok, err))

(* a procedure that is started, or the end of the discovery *)
AskOr(k, kind, s, e, err) ==
    With(Ask(k, kind, s, e), LAMBDA k1 :
        IF k1.fail THEN Complete(k1, FALSE, err) ELSE k1)
-----------------------------------------------------------------------------
(* remove_discov_range(), with the 16 bits of a handle *)
RemoveDiscovRange(ranges, s, e) ==
    LET i == SelectInSeq(ranges, LAMBDA r : s >= r.start /\ s <= r.end)
        r == ranges[i]
        after == (e + 1) % (UINT16_MAX + 1)
    IN  CASE i = 0 -> ranges
          [] i # 0 /\ r.start = s /\ r.end = e -> RemoveAt(ranges, i)
          [] i # 0 /\ r.start = s /\ r.end # e ->
                [ranges EXCEPT ![i].start = after]
          [] i # 0 /\ r.start # s /\ r.end = e ->
                [ranges EXCEPT ![i].end = s - 1]
          [] OTHER ->
                InsertAt([ranges EXCEPT ![i].end = s - 1], i + 1,
                         Span(after, r.end))

(* discovery_found_service() *)
FoundService(k, id, s, e) ==
    LET max(a, b) == IF a > b THEN a ELSE b
        min(a, b) == IF a < b THEN a ELSE b
        k1 == [k EXCEPT !.op.last = max(@, e)]
    IN  IF k.db[At(k.db, id)].active
        THEN [k1 EXCEPT !.op.pending = Remove(@, id),
                        !.op.ranges = RemoveDiscovRange(@, s, e)]
        ELSE [(IF s = e THEN Activate(k1, id)
               ELSE [k1 EXCEPT !.op.pending = Append(@, id)])
              EXCEPT !.op.svc_first = min(@, s), !.op.svc_last = max(@, e)]

(* one service of a result of discover_primary_cb() and                    *)
(* discover_secondary_cb(); what is in its way is cleared once             *)
StoreService(k, v, primary) ==
    LET insert(j) == InsertService(j.db, j.next, v.h, v.end, v.uuid, primary)
        found(j, try) ==
            With([j EXCEPT !.db = try.db, !.next = @ + 1], LAMBDA x :
                FoundService(x, try.svc, v.h, v.end))
        again(k1) ==
            With(insert(k1), LAMBDA try :
                IF try.svc = 0 THEN [k1 EXCEPT !.fail = TRUE]
                ELSE found([k1 EXCEPT !.op.last = v.end], try))
    IN  IF k.fail THEN k
        ELSE With(insert(k), LAMBDA try :
                IF try.svc # 0 THEN found(k, try)
                ELSE With(Drop(k, ClearRange(k.db, v.h, v.end)), again))

StoreServices(k, found, primary) ==
    FoldLeft(LAMBDA j, v : With(j, LAMBDA x : StoreService(x, v, primary)),
             k, found)

(* discover_primary_cb() *)
PrimaryCb(k, ok, err, found) ==
    With(StoreServices(k, found, TRUE), LAMBDA k1 :
        IF (~ok /\ err # "NOT_FOUND") \/ k1.fail
        THEN Complete(k1, FALSE, err)
        ELSE IF k1.op.pending = <<>> THEN Complete(k1, TRUE, err)
        ELSE AskOr(k1, "sec", k1.op.start, k1.op.end, err))

(* discover_secondary_cb(): the ranges without a new service are left out  *)
Trimmed(o) ==
    LET low == IF o.svc_first > 1
               THEN RemoveDiscovRange(o.ranges, 1, o.svc_first - 1)
               ELSE o.ranges
    IN  IF o.svc_last < UINT16_MAX
        THEN RemoveDiscovRange(low, o.svc_last + 1, UINT16_MAX)
        ELSE low

SecondaryCb(k, ok, err, found) ==
    With(StoreServices(k, found, FALSE), LAMBDA k1 :
        IF (~ok /\ err \notin {"NOT_FOUND", "UNSUPPORTED_GROUP"}) \/ k1.fail
        THEN Complete(k1, FALSE, err)
        ELSE IF k1.op.pending = <<>> \/ k1.op.ranges = <<>>
        THEN Complete(k1, TRUE, err)
        ELSE With(Trimmed(k1.op), LAMBDA rs :
          IF rs = <<>> THEN [k1 EXCEPT !.bad = TRUE, !.req = NoReq]
          ELSE AskOr([k1 EXCEPT !.op.ranges = rs], "incl",
                     rs[1].start, rs[1].end, err)))

(* discover_incl_cb(): the included services are stored, then the range is *)
(* asked for its characteristics                                           *)
InsertIncluded(k, v) ==
    LET ins == InsertOne(k.db, v.h, "incl")
    IN  IF k.fail THEN k
        ELSE IF Attribute(k.db, v.start) = {} \/ ~ins.ok
        THEN [k EXCEPT !.fail = TRUE]
        ELSE [k EXCEPT !.db = ins.db]

InclCb(k, ok, err, found) ==
    LET rs == k.op.ranges
    IN  With(FoldLeft(InsertIncluded, k, found), LAMBDA k1 :
          IF (~ok /\ err # "NOT_FOUND") \/ k1.fail \/ rs = <<>>
          THEN Complete(k1, FALSE, err)
          ELSE AskOr([k1 EXCEPT !.op.ranges = Tail(@)], "chrc",
                     rs[1].start, rs[1].end, err))
-----------------------------------------------------------------------------
(* discover_descs(), where the descriptors of a stored characteristic are  *)
(* asked for, unless there are none or the only one must be the CCC        *)
AskDescs(k, svc, ch) ==
    LET end == IF ch.end > svc.end THEN svc.end ELSE ch.end
    IN  IF ch.value >= end THEN k
        ELSE With(InsertOne(k.db, ch.value + 1, "ccc"), LAMBDA ccc :
                IF ch.notify /\ ch.value + 1 = end /\ ccc.ok
                THEN [k EXCEPT !.db = ccc.db]
                ELSE Ask(k, "desc", ch.value + 1, end))

(* Mutation of Switch: a service is not finished when the characteristics  *)
(* of the next one begin.                                                  *)
SwitchUnfinished(k, svc) ==
    [k EXCEPT !.op.cur = svc, !.op.chrcs = Tail(@)]

(* discover_descs(), where a characteristic of another service finishes    *)
(* the current one                                                         *)
Switch(k, svc) ==
    [(IF k.op.cur # svc
      THEN Activate([k EXCEPT !.op.pending = Remove(@, k.op.cur)], k.op.cur)
      ELSE k)
     EXCEPT !.op.cur = svc, !.op.chrcs = Tail(@)]

(* discover_descs(), one turn of its loop, until a procedure is started *)
DiscoverDesc(k, ch) ==
    IF k.fail \/ k.req.kind # "none" THEN k
    ELSE With(GetService(k.db, ch.value), LAMBDA i :
           With(Switch(k, IF i = 0 THEN 0 ELSE k.db[i].id), LAMBDA k1 :
             With(InsertCharacteristic(k1.db, ch.value, ch.type), LAMBDA ins :
               IF ~ins.ok THEN [k1 EXCEPT !.fail = TRUE]
               ELSE With([k1 EXCEPT !.db = ins.db], LAMBDA k2 :
                      AskDescs(k2, k2.db[i], ch)))))

(* discover_descs() and what follows it in its callers *)
DiscoverDescs(k, err) ==
    With(FoldLeft(LAMBDA j, ch : With(j, LAMBDA x : DiscoverDesc(x, ch)),
                  [k EXCEPT !.req = NoReq], k.op.chrcs),
         LAMBDA k1 :
           CASE k1.fail -> Complete(k1, FALSE, err)
             [] ~k1.fail /\ k1.req.kind # "none" -> k1
             [] OTHER -> Complete(Activate(k1, k1.op.cur), TRUE, err))

(* bt_gatt_iter_next_characteristic(): a characteristic ends before the    *)
(* next one of the result, the last one with the range                     *)
Chrcs(found, end) ==
    [i \in DOMAIN found |->
        [value |-> found[i].value, type |-> found[i].type,
         notify |-> found[i].notify,
         end |-> IF i < Len(found) THEN found[i + 1].h - 1 ELSE end]]

(* discover_chrcs_cb(): the next range, or the descriptors *)
ChrcsCb(k, ok, err, found) ==
    LET rs == k.op.ranges
    IN  With([k EXCEPT !.op.chrcs = @ \o Chrcs(found, k.req.end)],
             LAMBDA k1 :
               IF ~ok /\ err # "NOT_FOUND" THEN Complete(k1, FALSE, err)
               ELSE IF rs # <<>>
               THEN AskOr(k1, "incl", rs[1].start, rs[1].end, err)
               ELSE DiscoverDescs(k1, err))

(* read_ext_prop_desc(): the next extended properties descriptor, or the   *)
(* rest of the characteristics                                             *)
ReadExtProp(k, err) ==
    IF k.op.ext # <<>> /\ k.up
    THEN Ask(k, "ext", Head(k.op.ext), Head(k.op.ext))
    ELSE DiscoverDescs(k, err)

(* discover_descs_cb() *)
InsertDesc(k, d) ==
    LET ins == InsertOne(k.db, d.h, d.type)
    IN  IF k.fail THEN k
        ELSE IF ins.ok
        THEN [k EXCEPT !.db = ins.db,
                       !.op.ext = IF d.type = "ext" THEN Append(@, d.h)
                                  ELSE @]
        ELSE [k EXCEPT !.fail = Attribute(k.db, d.h) #
                                {[h |-> d.h, t |-> d.type]}]

DescsCb(k, ok, err, found) ==
    With(FoldLeft(LAMBDA j, d : With(j, LAMBDA x : InsertDesc(x, d)),
                  k, found),
         LAMBDA k1 :
           IF (~ok /\ err # "NOT_FOUND") \/ k1.fail
           THEN Complete(k1, FALSE, err)
           ELSE IF ok THEN ReadExtProp(k1, err) ELSE DiscoverDescs(k1, err))

(* ext_prop_read_cb() *)
ExtPropCb(k, ok, err) ==
    IF ok THEN ReadExtProp([k EXCEPT !.op.ext = Tail(@)], err)
    ELSE Complete(k, FALSE, err)

(* db_hash_read_cb(): a known hash keeps what is pending, a new one is     *)
(* stored                                                                  *)
HashCb(k, ok, found) ==
    LET i == FindByType(k.db, "hash")
    IN  IF ~ok THEN Complete(k, TRUE, "none")
        ELSE IF k.db[i].hash = found[1].value
        THEN Complete([k EXCEPT !.op.pending = <<>>], TRUE, "none")
        ELSE Complete([k EXCEPT !.db[i].hash = found[1].value], TRUE, "none")

(* enable_ccc_callback() and service_changed_register_cb(); an error of a  *)
(* broken link is 0 and counts as success                                  *)
CccCb(k, ok, err) ==
    LET k1 == [k EXCEPT !.req = NoReq]
    IN  IF ok \/ err = "none" THEN NotifyReady(k1, TRUE)
        ELSE NotifyReady([k1 EXCEPT !.ind_id = FALSE], FALSE)

(* discovery_op_unref(): the last reference goes with the request, behind  *)
(* the callback; service_changed_failure() clears the range                *)
Unref(k) ==
    [(IF k.done.kind = "svc" /\ ~k.done.success
      THEN Drop(k, ClearRange(k.db, k.done.start, k.done.end)) ELSE k)
     EXCEPT !.done = NoOp, !.fail = FALSE]

(* discovery_op_complete() of gatt-helpers.c: the end of a procedure; not  *)
(* found is no error behind a result                                       *)
Callback(k, noerror, err) ==
    LET r == k.req
        found == r.found
        ok == noerror \/ (err = "NOT_FOUND" /\ found # <<>>)
        res == IF ok THEN found ELSE <<>>
        done == CASE r.kind = "prim" -> PrimaryCb(k, ok, err, res)
                  [] r.kind = "sec" -> SecondaryCb(k, ok, err, res)
                  [] r.kind = "incl" -> InclCb(k, ok, err, res)
                  [] r.kind = "chrc" -> ChrcsCb(k, ok, err, res)
                  [] r.kind = "desc" -> DescsCb(k, ok, err, res)
                  [] r.kind = "ext" -> ExtPropCb(k, ok, err)
                  [] r.kind = "hash" -> HashCb(k, ok, res)
                  [] r.kind = "ccc" -> CccCb(k, ok, err)
                  [] OTHER -> k
    IN  With(done, Unref)

(* service_changed_cb() *)
ServiceChangedCb(k, s, e) ==
    IF s > e THEN k
    ELSE IF k.in_svc_chngd
    THEN [k EXCEPT !.svc_chngd_queue = Append(@, Span(s, e))]
    ELSE ProcessServiceChanged(k, s, e)
-----------------------------------------------------------------------------
(* what the peer has in a range, in the order of the handles *)
InOrder(S) ==
    [i \in 1 .. Cardinality(S) |->
        CHOOSE a \in S : Cardinality({b \in S : b.h < a.h}) = i - 1]

Groups(primary, s, e) ==
    {[h |-> v.start, end |-> v.end, uuid |-> v.uuid] :
        v \in {w \in remote : w.primary = primary /\ w.start \in s .. e}}

Attrs(s, e) == {a \in UNION {v.attrs : v \in remote} : a.h \in s .. e}

TypeAt(h) == (CHOOSE a \in Attrs(h, h) : TRUE).t

Matching(kind, s, e) ==
    InOrder(
      CASE kind = "prim" -> Groups(TRUE, s, e)
        [] kind = "sec" -> Groups(FALSE, s, e)
        [] kind = "incl" ->
              {[h |-> a.h, start |-> a.arg] :
                  a \in {b \in Attrs(s, e) : b.t = "incl"}}
        [] kind = "chrc" ->
              {[h |-> a.h, value |-> a.h + 1, type |-> TypeAt(a.h + 1),
                notify |-> a.arg = 1] :
                  a \in {b \in Attrs(s, e) : b.t = "chrc"}}
        [] kind = "desc" ->
              {[h |-> a.h, type |-> a.t] : a \in Attrs(s, e)}
        [] kind = "hash" ->
              {[h |-> a.h, value |-> remote] :
                  a \in {b \in Attrs(s, e) : b.t = "hash"}}
        [] OTHER -> {})

Asked == c.req.kind \notin {"none"} /\ c.up /\ ~c.bad

Quiet == UNCHANGED <<remote, inds, changes, view>>

(* read_cb() of gatt-client.c: the value of a descriptor *)
ReadCb ==
    /\ Asked /\ c.req.kind = "ext"
    /\ c' = Callback(c, TRUE, "none")
    /\ Quiet

(* enable_ccc_callback(): the CCC descriptor of Service Changed is written *)
WriteRsp ==
    /\ Asked /\ c.req.kind = "ccc"
    /\ c' = Callback(c, TRUE, "none")
    /\ Quiet

(* result_append(), and the next request of the procedure behind the last  *)
(* handle of the PDU, or its end                                           *)
ResultAppend(pdu, last, more) ==
    LET k == [c EXCEPT !.req.found = @ \o pdu]
    IN  IF more THEN [k EXCEPT !.req.start = last + 1]
        ELSE Callback(k, TRUE, "none")

(* the PDUs of the peer: some of the first things that the range holds *)
Pdus ==
    LET all == Matching(c.req.kind, c.req.start, c.req.end)
    IN  {SubSeq(all, 1, m) : m \in DOMAIN all}

Answering(kinds) ==
    Asked /\ c.req.kind \in kinds /\ c.req.start \in 1 .. c.req.end

(* read_by_grp_type_cb() of gatt-helpers.c: the end of the last service    *)
(* leads on; an end of 0xffff is cut down to the range                     *)
ReadByGrpTypeCb ==
    /\ Answering({"prim", "sec"})
    /\ \E pdu \in Pdus :
          LET last == Last(pdu).end
              end == c.req.end
              cut == IF last = UINT16_MAX THEN end ELSE last
          IN  c' = ResultAppend([pdu EXCEPT ![Len(pdu)].end = cut], last,
                                last < end)
    /\ Quiet

(* the callbacks that a handle leads on *)
Listed(kind) ==
    /\ Answering({kind})
    /\ \E pdu \in Pdus :
          c' = ResultAppend(pdu, Last(pdu).h, Last(pdu).h # c.req.end)
    /\ Quiet

(* discover_included_cb() of gatt-helpers.c, the UUIDs being short *)
DiscoverIncludedCb == Listed("incl")

(* discover_chrcs_cb() of gatt-helpers.c *)
DiscoverChrcsCb == Listed("chrc")

(* read_by_type_cb() of gatt-helpers.c *)
ReadByTypeCb == Listed("hash")

(* discover_descs_cb() of gatt-helpers.c *)
DiscoverDescsCb == Listed("desc")

(* there is nothing in the range *)
NotFound ==
    /\ Asked /\ c.req.kind \notin {"ext", "ccc"}
    /\ c.req.start \in 1 .. c.req.end
    /\ Matching(c.req.kind, c.req.start, c.req.end) = <<>>
    /\ c' = Callback(c, FALSE, "NOT_FOUND")
    /\ Quiet

(* another error, among them that of a range that is none, or a PDU that   *)
(* leads backwards and ends the procedure                                  *)
Refused ==
    /\ Asked
    /\ \E err \in {"OTHER"} \cup
                   (IF c.req.kind = "sec" THEN {"UNSUPPORTED_GROUP"} ELSE {}):
          c' = Callback(c, FALSE, err)
    /\ Quiet

Indication ==
    /\ inds # <<>> /\ c.up /\ ~c.bad
    /\ c' = ServiceChangedCb(c, Head(inds).start, Head(inds).end)
    /\ inds' = Tail(inds)
    /\ UNCHANGED <<remote, changes, view>>

(* the peer changes its database and indicates the handles that changed,   *)
(* or all, to a client that enabled the indication                         *)
Subscribed == c.ind_id /\ c.req.kind # "ccc"

Change ==
    /\ changes < MaxChanges /\ c.up /\ ~c.bad
    /\ \E r \in Remotes \ {remote} :
          LET differ == (r \ remote) \cup (remote \ r)
              s == CHOOSE h \in {v.start : v \in differ} :
                      \A v \in differ : h <= v.start
              e == CHOOSE h \in {v.end : v \in differ} :
                      \A v \in differ : h >= v.end
          IN  /\ remote' = r
              /\ inds' \in IF Subscribed
                           THEN {Append(inds, Span(s, e)),
                                 Append(inds, Span(1, UINT16_MAX))}
                           ELSE {inds}
    /\ changes' = changes + 1
    /\ UNCHANGED c
    /\ view' = CASE ~Subscribed \/ view = "part" -> "part"
                 [] Subscribed /\ view # "part"
                    /\ (inds # <<>> \/ c.op.kind # "none") -> "crossed"
                 [] OTHER -> view

(* disconnect_cb() of att.c and att_disconnect_cb() *)
LinkLost ==
    /\ c.up /\ ~c.bad
    /\ \E k \in {Callback([c EXCEPT !.up = FALSE], FALSE, "none")} :
          LET k1 == [k EXCEPT !.in_init = FALSE, !.ready = FALSE]
          IN  c' = IF k.in_init THEN NotifyReady(k1, FALSE) ELSE k1
    /\ inds' = <<>>
    /\ UNCHANGED <<remote, changes, view>>

Answered ==
    \/ ReadByGrpTypeCb \/ DiscoverIncludedCb \/ DiscoverChrcsCb
    \/ DiscoverDescsCb \/ ReadByTypeCb \/ ReadCb \/ WriteRsp
    \/ NotFound \/ Refused

Next == Answered \/ Indication \/ Change \/ LinkLost

Spec == Init /\ [][Next]_vars

(* the peer answers what it is asked, or the 30 s timer of att.c ends the  *)
(* link; the mainloop hands out what arrives                               *)
FairSpec ==
    /\ Spec
    /\ WF_vars(Answered)
    /\ WF_vars(Indication)
-----------------------------------------------------------------------------
TypeOK ==
    /\ c.told \in {<<>>, <<TRUE>>, <<FALSE>>}
    /\ c.ready \in BOOLEAN /\ c.in_init \in BOOLEAN
    /\ c.op.kind \in {"none", "init", "svc"}
    /\ c.req.kind \in {"none", "prim", "sec", "incl", "chrc", "desc", "ext",
                       "hash", "ccc"}
    /\ \A r \in ToSet(c.svc_chngd_queue) : r.start <= r.end
    /\ remote \in Remotes /\ changes \in 0 .. MaxChanges

(* a service of the peer as the client stores it: one slot per attribute *)
Stored(v, d) ==
    /\ d.active /\ d.start = v.start /\ d.end = v.end
    /\ d.uuid = v.uuid /\ d.primary = v.primary
    /\ {<<a.h, a.t>> : a \in ToSet(Tail(d.attrs))}
         = {<<a.h, a.t>> : a \in v.attrs}

(* A discovery keeps a service by its characteristics, or when it has no   *)
(* attribute at all.                                                       *)
Kept(v) == v.start = v.end \/ \E a \in v.attrs : a.t = "chrc"

Idle == c.op.kind = "none" /\ inds = <<>> /\ c.up /\ ~c.bad

(* Once the client is ready and no discovery runs, its database is the one *)
(* of the peer: every service that is active is there with exactly these   *)
(* attributes, and every service of the peer is active, but for those that *)
(* a failed discovery or the reset behind it took from the database.       *)
Mirror ==
    Idle /\ c.told = <<TRUE>> /\ view = "all" =>
      /\ \A d \in ToSet(c.db) : \E v \in remote : Stored(v, d)
      /\ \A v \in remote :
            \/ (v.start .. v.end) \cap c.lost # {}
            \/ ~Kept(v)
            \/ \E d \in ToSet(c.db) : Stored(v, d)

(* A discovery holds pointers to the services that wait for their          *)
(* characteristics and to the one that it fills.  Unless the peer changes  *)
(* its database under it they stay in the database until the discovery is  *)
(* through with them, and nothing that is gone is touched.                 *)
PendingExist ==
    /\ TypeOK
    /\ view = "all" =>
          /\ ToSet(c.op.pending) \subseteq Ids(c.db)
          /\ c.op.cur \in Ids(c.db) \cup {0}
          /\ ~c.bad

(* A ready callback is told once, and it is told.                          *)
EndsReady == <>(c.told # <<>>)

(* Every Service Changed that was received is handled while the link is    *)
(* up: no discovery runs for ever and none that waits is forgotten.        *)
ChangesHandled ==
    (c.in_svc_chngd \/ c.svc_chngd_queue # <<>>) ~>
    (\/ ~c.in_svc_chngd /\ c.svc_chngd_queue = <<>>
     \/ ~c.up \/ c.bad)
=============================================================================
