-------------------------- MODULE MCGattDiscovery --------------------------
(***************************************************************************)
(* A peer with the GATT service (Service Changed, Database Hash) and       *)
(* services that are replaced, that grow and shrink, that include a        *)
(* secondary service, that have descriptors or no attribute at all.        *)
(***************************************************************************)
EXTENDS GattDiscovery

Attr(h, t, arg) == [h |-> h, t |-> t, arg |-> arg]

Svc(s, e, uuid, primary, attrs) ==
    [start |-> s, end |-> e, uuid |-> uuid, primary |-> primary,
     attrs |-> attrs]

Gatt == Svc(1, 6, "gatt", TRUE,
            {Attr(2, "chrc", 1), Attr(3, "sc", 0), Attr(4, "ccc", 0),
             Attr(5, "chrc", 0), Attr(6, "hash", 0)})

Plain(s, uuid) ==
    Svc(s, s + 2, uuid, TRUE, {Attr(s + 1, "chrc", 0), Attr(s + 2, "val", 0)})

(* two descriptors, one of them to be read *)
Wide(s, uuid) ==
    Svc(s, s + 4, uuid, TRUE,
        {Attr(s + 1, "chrc", 0), Attr(s + 2, "val", 0),
         Attr(s + 3, "ext", 0), Attr(s + 4, "desc", 0)})

(* includes the secondary service behind it *)
Including(s, uuid) ==
    Svc(s, s + 3, uuid, TRUE,
        {Attr(s + 1, "incl", s + 4), Attr(s + 2, "chrc", 0),
         Attr(s + 3, "val", 0)})

Secondary(s, uuid) == [Plain(s, uuid) EXCEPT !.primary = FALSE]

Empty(s, uuid) == Svc(s, s, uuid, TRUE, {})

R1 == {Gatt, Plain(7, "a"), Plain(10, "b"), Empty(14, "e")}
R2 == {Gatt, Plain(7, "x"), Plain(10, "b"), Plain(13, "y")}
R3 == {Gatt, Wide(8, "a")}
R4 == {Gatt, Including(7, "a"), Secondary(11, "s")}

R5 == {Gatt, Plain(7, "x"), Plain(10, "b"), Empty(14, "e")}

MCRemotes == {R1, R2, R3, R4, R5}
MCFirst == R1
=============================================================================
