------------------------------- MODULE GattDb -------------------------------
(***************************************************************************)
(* bluez_deps/src/shared/gatt-db.c: the attribute database as the GATT     *)
(* client fills it.  A database is the sequence db->services; a service    *)
(* holds the attributes that were stored so far in its slots, the first    *)
(* slot being its declaration.  Handles are 1 .. UINT16_MAX.               *)
(***************************************************************************)
EXTENDS Integers, Sequences, SequencesExt

CONSTANT UINT16_MAX    \* the highest handle

ASSUME HandleAssumption == UINT16_MAX \in Nat \ {0}

(* F of the value v, which is evaluated once *)
With(v, F(_)) == CHOOSE r \in {F(x) : x \in {v}} : TRUE

(* a handle_range *)
Span(s, e) == [start |-> s, end |-> e]

(* gatt_db_service_create(): a service with its declaration only *)
Service(id, s, e, uuid, primary) ==
    [id |-> id, start |-> s, end |-> e, uuid |-> uuid, primary |-> primary,
     active |-> FALSE, hash |-> {}, attrs |-> <<[h |-> s, t |-> "svc"]>>]

Ids(db) == {db[i].id : i \in DOMAIN db}

(* the place of a service in the queue, by its identity *)
At(db, id) == CHOOSE i \in DOMAIN db : db[i].id = id

(* match_range() *)
Overlaps(v, s, e) == v.start <= e /\ v.end >= s

(* gatt_db_clear_range() *)
ClearRange(db, s, e) == SelectSeq(db, LAMBDA v : s > e \/ ~Overlaps(v, s, e))

(* find_insert_loc(): a service is hit when it holds the first or the last *)
(* handle; the walk stops there or at the first service that lies behind   *)
Hit(v, s, e) == s \in v.start .. v.end \/ e \in v.start .. v.end

InsertLoc(db, s, e) ==
    SelectInSeq(db, LAMBDA v : Hit(v, s, e) \/ e < v.start)

(* gatt_db_insert_service(): the database and the service, 0 when another  *)
(* service is in the way                                                   *)
InsertService(db, id, s, e, uuid, primary) ==
    With(InsertLoc(db, s, e), LAMBDA i :
      LET at == IF i = 0 THEN Len(db) + 1 ELSE i
          same == /\ db[i].start = s /\ db[i].end = e
                  /\ db[i].uuid = uuid /\ db[i].primary = primary
      IN  IF i # 0 /\ Hit(db[i], s, e)
          THEN [db |-> db, svc |-> IF same THEN db[i].id ELSE 0]
          ELSE [db |-> InsertAt(db, at, Service(id, s, e, uuid, primary)),
                svc |-> id])

(* gatt_db_get_service(): the first service of the queue that spans the    *)
(* handle                                                                  *)
GetService(db, h) == SelectInSeq(db, LAMBDA v : h \in v.start .. v.end)

(* gatt_db_get_attribute() *)
Attribute(db, h) ==
    LET i == GetService(db, h)
    IN  IF i = 0 THEN {}
        ELSE {a \in {db[i].attrs[k] : k \in DOMAIN db[i].attrs} : a.h = h}

(* get_attribute_index() *)
Slots(v) == v.end - v.start + 1
Room(v, offset) == Len(v.attrs) < Slots(v) - offset

(* gatt_db_insert_descriptor() and gatt_db_insert_included() *)
InsertOne(db, h, t) ==
    With(GetService(db, h), LAMBDA i :
        IF i # 0 /\ Room(db[i], 0) /\ h > db[i].start
        THEN [ok |-> TRUE,
              db |-> [db EXCEPT ![i].attrs = Append(@, [h |-> h, t |-> t])]]
        ELSE [ok |-> FALSE, db |-> db])

(* gatt_db_insert_characteristic(): the declaration and the value *)
InsertCharacteristic(db, h, t) ==
    With(GetService(db, h), LAMBDA i :
        IF i # 0 /\ Room(db[i], 1) /\ h > db[i].start /\ h # UINT16_MAX
        THEN [ok |-> TRUE,
              db |-> [db EXCEPT ![i].attrs =
                         @ \o <<[h |-> h - 1, t |-> "chrc"],
                                [h |-> h, t |-> t]>>]]
        ELSE [ok |-> FALSE, db |-> db])

(* gatt_db_service_set_active() *)
SetActive(db, id) == [db EXCEPT ![At(db, id)].active = TRUE]

(* gatt_db_foreach_service_in_range(): the active services that start in   *)
(* the range                                                               *)
ServicesIn(db, s, e) ==
    SelectSeq(db, LAMBDA v : v.active /\ v.start \in s .. e)

(* gatt_db_find_by_type() and get_first_attribute(): the service of the    *)
(* first such attribute of an active service, 0 if there is none           *)
FindByType(db, t) ==
    SelectInSeq(db, LAMBDA v :
        v.active /\ \E k \in DOMAIN v.attrs : v.attrs[k].t = t)
=============================================================================
