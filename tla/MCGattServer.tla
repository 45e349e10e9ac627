---------------------------- MODULE MCGattServer ----------------------------
(***************************************************************************)
(* The MLDP service of main.c (handles 1 .. 6) and services that need more *)
(* of the server: functions that report later, values of several lengths,  *)
(* a characteristic with reliable writes, attributes that are protected.   *)
(***************************************************************************)
EXTENDS GattServer

R == {<<"r", "plain">>}
W == {<<"w", "plain">>}

A(svc, end, type, uuid, len, fr, fw, perm) ==
    [svc |-> svc, end |-> end, type |-> type, uuid |-> uuid, len |-> len,
     fr |-> fr, fw |-> fw, perm |-> perm, reliable |-> FALSE]
Rel(a) == [a EXCEPT !.reliable = TRUE]

MCAttr ==
    1 :> A(1, 8, "prim", 2, 16, "none", "none", R)
    @@ 2 :> A(1, 8, "chrc", 2, 19, "none", "none", R)
    @@ 3 :> A(1, 8, "data", 16, 0, "none", "now", R \cup W)
    @@ 4 :> A(1, 8, "ccc", 2, 0, "none", "none", R \cup W)
    @@ 5 :> A(1, 8, "chrc", 2, 19, "none", "none", R)
    @@ 6 :> A(1, 8, "ctrl", 16, 0, "none", "none", R \cup W)
    @@ 9 :> A(9, 14, "prim", 2, 2, "none", "none", R)
    @@ 10 :> Rel(A(9, 14, "chrc", 2, 5, "none", "none", R))
    @@ 11 :> A(9, 14, "slow", 2, 9, "later", "later", R \cup W)
    @@ 12 :> Rel(A(9, 14, "chrc", 2, 5, "none", "none", R))
    @@ 13 :> A(9, 14, "slow", 2, 9, "later", "none", {})
    @@ 14 :> A(9, 14, "slow", 2, 4, "none", "none",
               R \cup {<<"r", "authen">>})
    @@ 15 :> A(15, 15, "prim", 2, 2, "none", "none", R)
    @@ 16 :> A(16, 16, "prim", 2, 2, "none", "none", R)
    @@ 17 :> A(17, 17, "prim", 2, 2, "none", "none", R)

Ranged(op, type, ranges) ==
    {[op |-> op, n |-> 0, from |-> x[1], to |-> x[2], type |-> type] :
        x \in ranges}

Valued(from, to) ==
    [op |-> "find", n |-> 0, from |-> from, to |-> to, type |-> "prim",
     value |-> <<0, 0>>]

MCRequests ==
    UNION {Ranged("grp", "prim", {<<1, 17>>, <<9, 17>>, <<17, 9>>}),
           Ranged("grp", "chrc", {<<1, 17>>}),
           Ranged("type", "chrc", {<<1, 17>>}),
           Ranged("type", "slow", {<<11, 13>>, <<12, 17>>}),
           Ranged("info", "any", {<<4, 13>>})}
    \cup {Valued(0, 17), Valued(2, 1)}
    \cup {[op |-> "mtu", n |-> 0, mtu |-> u] : u \in {23, 64}}
    \cup {[op |-> "read", n |-> 0, h |-> h, off |-> 0] : h \in {7, 11}}
    \cup {[op |-> "blob", n |-> 0, h |-> 4, off |-> 2]}
    \cup {[op |-> "mult", n |-> 0, hs |-> q] :
             q \in {<<11, 13>>, <<14, 1>>}}
    \cup {[op |-> "vl", n |-> 0, hs |-> q] : q \in {<<11, 7>>}}
    \cup {[op |-> "write", n |-> 0, h |-> h, len |-> 2] : h \in {1, 11}}
    \cup {[op |-> "cmd", n |-> 0, h |-> h, len |-> 2] : h \in {3, 11}}
    \cup {[op |-> "prep", n |-> 0, h |-> h, off |-> o, len |-> 2] :
             h \in {3, 11}, o \in {0, 2}}
    \cup {[op |-> "exec", n |-> 0, flags |-> f] : f \in 0 .. 2}
    \cup {[op |-> "short", n |-> 0]}
=============================================================================
