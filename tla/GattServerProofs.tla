-------------------------- MODULE GattServerProofs --------------------------
(***************************************************************************)
(* The GATT server answers every request at most once and within the MTU,  *)
(* for every database, every MTU and every sequence of requests, reports   *)
(* and timers.                                                             *)
(***************************************************************************)
EXTENDS GattServer, FiniteSetTheorems, SequenceTheorems, TLAPS

(* Induction on the natural numbers, for a set: the subsets 0 .. k of a    *)
(* finite set are well-founded.                                            *)
LEMMA Least ==
    ASSUME NEW S \in SUBSET Nat, S # {}
    PROVE  \E m \in S : \A k \in S : m <= k
<1>1. PICK b \in S : TRUE
  OBVIOUS
<1> DEFINE T == {0 .. k : k \in {i \in S : i <= b}}
<1>2. IsWellFoundedOn(StrictSubsetOrdering(0 .. b), SUBSET (0 .. b))
  <2>1. IsFiniteSet(0 .. b)
    BY FS_Interval
  <2> QED
    BY <2>1, FS_StrictSubsetOrderingWellFounded, FS_FiniteSubsetsOfFinite
<1>3. T \subseteq SUBSET (0 .. b) /\ T # {}
  <2>1. 0 .. b \in T
    OBVIOUS
  <2> QED
    BY <2>1
<1> HIDE DEF T
<1>4. PICK x \in T : \A y \in T : ~ (<<y, x>> \in StrictSubsetOrdering(0 .. b))
  BY <1>2, <1>3, WFMin
<1>5. PICK m \in S : m <= b /\ x = 0 .. m
  BY DEF T
<1>6. ASSUME NEW k \in S, k < m PROVE FALSE
  <2>1. k <= b /\ 0 .. k \in T
    BY <1>5, <1>6 DEF T
  <2>2. 0 .. k \subseteq 0 .. m /\ 0 .. k # 0 .. m
    <3>1. m \in 0 .. m /\ m \notin 0 .. k
      BY <1>6
    <3> QED
      BY <1>6, <3>1
  <2>3. <<0 .. k, 0 .. m>> \in StrictSubsetOrdering(0 .. b)
    BY <2>1, <2>2, <1>3, <1>5 DEF StrictSubsetOrdering
  <2> QED
    BY <2>3, <1>4, <1>5, <2>1
<1> QED
  BY <1>6

LEMMA Induct ==
    ASSUME NEW S, 0 \in S, \A i \in Nat : i \in S => i + 1 \in S
    PROVE  Nat \subseteq S
<1> SUFFICES ASSUME ~ (Nat \subseteq S) PROVE FALSE
  OBVIOUS
<1> DEFINE T == Nat \ S
<1>1. PICK m \in T : \A k \in T : m <= k
  BY Least
<1>2. m # 0 /\ m - 1 \in Nat
  OBVIOUS
<1>3. m - 1 \in S
  BY <1>1, <1>2
<1> QED
  BY <1>2, <1>3

LEMMA InductUpTo ==
    ASSUME NEW N \in Nat, NEW S, 0 \in S,
           \A i \in 0 .. N : i > 0 /\ i - 1 \in S => i \in S
    PROVE  0 .. N \subseteq S
<1> DEFINE R == S \cup {i \in Nat : i > N}
<1>1. 0 \in R /\ \A i \in Nat : i \in R => i + 1 \in R
  <2> SUFFICES ASSUME NEW i \in Nat, i \in R, i + 1 <= N PROVE i + 1 \in S
    OBVIOUS
  <2>1. i + 1 \in 0 .. N /\ (i + 1) - 1 = i /\ i \in S
    OBVIOUS
  <2> QED
    BY <2>1
<1> HIDE DEF R
<1>2. Nat \subseteq R
  BY <1>1, Induct
<1> QED
  BY <1>2 DEF R
-----------------------------------------------------------------------------
(* The state *)

Octet == Nat \X Nat \X Int
Entry == [h : Handles, off : Nat, bytes : Seq(Int), reliable : BOOLEAN]
Opcodes == {"mtu", "grp", "type", "info", "find", "read", "blob", "mult", "vl",
            "write", "prep", "exec", "short"}
Errors == {"INVALID_HANDLE", "UNSUPPORTED_GROUP_TYPE", "UNLIKELY",
           "NOT_PERMITTED", "AUTHENTICATION", "INSUFFICIENT_ENCRYPTION",
           "INVALID_OFFSET", "PREPARE_QUEUE_FULL", "INVALID_PDU",
           "REQUEST_NOT_SUPPORTED", "APP"}
AnyAnswer == [op : Opcodes, err : Errors \cup {"none", "NOT_FOUND"},
              list : Seq(Nat), value : Seq(Int), size : Nat]
CallId == [h : Handles, way : {"r", "w"}, id : Nat]
AnyCall == [call : CallId, n : Nat, off : Nat]

(* what is kept for the callback of a read or a write *)
ReadKept == [op : {"read", "blob"}, n : Nat]
TypeKept == [op : {"type"}, n : Nat, todo : Seq(Handles), list : Seq(Handles),
             value : Seq(Int), len : Nat, vlen : Nat, done : BOOLEAN]
MultKept == [op : {"mult", "vl"}, n : Nat, hs : Seq(Nat), cur : Nat, mtu : Nat,
             len : Nat, value : Seq(Int), list : Seq(Nat)]
WriteKept == [op : {"write", "cmd"}, n : Nat]
PrepKept == [op : {"prep"}, n : Nat, h : Handles, off : Nat, bytes : Seq(Int)]
ExecKept == [op : {"exec"}, n : Nat]
Kept == ReadKept \cup TypeKept \cup MultKept
            \cup WriteKept \cup PrepKept \cup ExecKept
AnyPending == [call : CallId, k : Kept]

Server ==
    [rop : Nat, wop : Nat, prep : Seq(Entry),
     mtu : Nat, chan : Nat, att : Nat, val : [Handles -> Seq(Int)],
     pend : SUBSET AnyPending, id : [Handles -> [r : Nat, w : Nat]],
     calls : SUBSET AnyCall, ans : Seq(AnyAnswer),
     prepared : Seq(Octet), executed : Seq(Octet)]

ReadOps == {"read", "blob", "type", "mult", "vl"}
SlotOps == {"read", "blob", "type"}
-----------------------------------------------------------------------------
(* What holds of the server whatever it is doing *)

(* the number of the last call of h *)
LastId(t, call) == IF call.way = "r" THEN t.id[call.h].r ELSE t.id[call.h].w

(* a result belongs to the request whose operation has its id *)
Numbered(t, m) ==
    /\ \A p \in t.pend : /\ p.k.n \in 1 .. m /\ p.call.id <= LastId(t, p.call)
                         /\ p.call.way = "r" <=> p.k.op \in ReadOps
    /\ \A x \in t.calls : x.call.id <= LastId(t, x.call)
    /\ \A p \in t.pend, x \in t.calls : p.call = x.call => p.k.n = x.n

Mtus(t) ==
    /\ t.mtu \in DEFAULT_LE_MTU .. ServerMtu
    /\ t.chan \in DEFAULT_LE_MTU .. t.att /\ t.att <= ServerMtu

(* a declaration keeps the value it was given *)
Declared(t) ==
    /\ \A h \in Handles : Declares(h) => t.val[h] = [i \in 1 .. Attr[h].len |-> 0]
    /\ \A i \in DOMAIN t.prep : ~Declares(t.prep[i].h)

(* one command, or one write, at a time *)
OneWrite(t) ==
    \A p, q \in t.pend :
        p.k.op \in {"write", "cmd"} /\ q.k.op \in {"write", "cmd"} => p = q

Base(t, m) ==
    /\ t \in Server /\ t.rop <= m /\ t.wop <= m
    /\ Len(t.prep) <= MaxPrepQueueLen
    /\ Numbered(t, m) /\ Mtus(t) /\ Declared(t) /\ OneWrite(t)
-----------------------------------------------------------------------------
(* The request and its answer *)

RequestOK(q, m) ==
    q = NoReq \/ \E r \in AnyRequest, i \in 1 .. m :
                     r.op # "cmd" /\ q = [r EXCEPT !.n = i]

(* what the range of a request holds *)
All(t, q) ==
    IF q.op = "grp" THEN ReadByGroupType(q.from, q.to, q.type)
    ELSE IF q.op = "type" THEN ReadByType(q.from, q.to, q.type)
    ELSE IF q.op = "info" THEN FindInformation(q.from, q.to)
    ELSE FindByTypeValue(t, q.from, q.to, q.type, q.value)

Ranges(q) == \/ q.op \in {"grp", "type", "info"}
             \/ q.op = "find" /\ q.type \in {"prim", "sec"}

GoodAnswer(a, t, q) ==
    /\ a.op # "vl" => a.size <= t.att - 1
    /\ a.op \in {"read", "blob"} /\ a.err = "none"
          /\ Attr[a.list[1]].fr # "none" => ToSet(a.value) \subseteq {q.n}
    /\ Ranges(q) =>
          /\ a.err = "none" => a.list # <<>> /\ IsPrefix(a.list, All(t, q))
          /\ a.err = "NOT_FOUND" => All(t, q) = <<>>

(* what is kept will end in a good answer *)
TypeGoing(t, q, k, h) ==
    /\ q.op = "type" /\ All(t, q) = k.list \o <<h>> \o k.todo
    /\ k.len <= t.att - 1 /\ ~k.done /\ (k.len # 0 => k.list # <<>>)

MultGoing(t, k) ==
    /\ k.cur \in DOMAIN k.hs
    /\ k.op = "mult" => k.mtu = t.att /\ k.len < k.mtu - 1

Going(t, q, p) ==
    /\ p.k.op = q.op /\ p.k.n = q.n
    /\ p.k.op = "type" => TypeGoing(t, q, p.k, p.call.h)
    /\ p.k.op \in {"mult", "vl"} => MultGoing(t, p.k)
    /\ p.k.op = "prep" => /\ ~Declares(p.k.h) /\ Len(p.k.bytes) + 5 <= t.att
                          /\ Len(t.prep) < MaxPrepQueueLen

(* prepared writes are executed or still in the queue *)
Unbroken(t) == t.prepared = t.executed \o Held(t.prep)

Session(t, q) ==
    IF q.op = "exec" /\ t.ans # <<>>
    THEN /\ t.prep = <<>>
         /\ q.flags = 1 /\ t.ans[1].err = "none" => t.executed = t.prepared
    ELSE Unbroken(t)

Slots(t) ==
    /\ t.rop # 0 <=> \E p \in t.pend : p.k.op \in SlotOps
    /\ t.wop # 0 <=> \E p \in t.pend : p.k.op \in {"write", "cmd"}

Answering(t, q) ==
    /\ Len(t.ans) <= 1
    /\ \A i \in DOMAIN t.ans : GoodAnswer(t.ans[i], t, q)
    /\ \A p \in t.pend : p.k.op # "cmd" =>
          q # NoReq /\ t.ans = <<>> /\ Going(t, q, p)
    /\ \A p, pp \in t.pend : p.k.op # "cmd" /\ pp.k.op # "cmd" => p = pp

InvOf(t, q, m) ==
    /\ Base(t, m) /\ RequestOK(q, m)
    /\ Slots(t) /\ Answering(t, q) /\ Session(t, q)

Inv == n \in 0 .. MaxReqs /\ InvOf(s, req, n)
-----------------------------------------------------------------------------
(* the function that Held defines *)
HeldUpTo(q) ==
    CHOOSE f : f = [i \in 0 .. Len(q) |->
        IF i = 0 THEN <<>>
        ELSE f[i - 1] \o Octets(q[i].h, q[i].off, q[i].bytes)]

LEMMA HeldIs == ASSUME NEW q PROVE Held(q) = HeldUpTo(q)[Len(q)]
BY DEF Held, HeldUpTo

LEMMA HeldTurns ==
    ASSUME NEW S, NEW q \in Seq(S)
    PROVE  LET f == HeldUpTo(q)
           IN  f = [i \in 0 .. Len(q) |->
                 IF i = 0 THEN <<>>
                 ELSE f[i - 1] \o Octets(q[i].h, q[i].off, q[i].bytes)]
<1> DEFINE Is(f, N) == f = [i \in 0 .. N |->
                 IF i = 0 THEN <<>>
                 ELSE f[i - 1] \o Octets(q[i].h, q[i].off, q[i].bytes)]
           R == {N \in Nat : \E f : Is(f, N)}
<1>1. \E f : Is(f, 0)
  <2>1. Is([i \in {0} |-> <<>>], 0)
    OBVIOUS
  <2> QED
    BY <2>1
<1>2. ASSUME NEW N \in Nat, NEW f, Is(f, N) PROVE \E g : Is(g, N + 1)
  <2> DEFINE g == [i \in 0 .. N + 1 |-> IF i <= N THEN f[i]
                     ELSE f[N] \o Octets(q[N + 1].h, q[N + 1].off, q[N + 1].bytes)]
  <2>2. Is(g, N + 1)
    BY <1>2
  <2> HIDE DEF g, Is
  <2> QED
    BY <2>2
<1> HIDE DEF Is
<1>3. Nat \subseteq R
  <2>1. 0 \in R
    BY <1>1
  <2>2. ASSUME NEW N \in Nat, N \in R PROVE N + 1 \in R
    BY <1>2, <2>2
  <2> HIDE DEF R
  <2> QED
    BY <2>1, <2>2, Induct
<1>4. \E f : Is(f, Len(q))
  BY <1>3
<1>5. PICK f : f = [i \in 0 .. Len(q) |->
                 IF i = 0 THEN <<>>
                 ELSE f[i - 1] \o Octets(q[i].h, q[i].off, q[i].bytes)]
  BY <1>4 DEF Is
<1> QED
  BY <1>5, Zenon DEF HeldUpTo
-----------------------------------------------------------------------------
(* The parts of the state that an operation leaves alone *)
SameDb(u, t) ==
    u.mtu = t.mtu /\ u.chan = t.chan /\ u.att = t.att /\ u.val = t.val
SameQueue(u, t) ==
    u.prep = t.prep /\ u.prepared = t.prepared /\ u.executed = t.executed
SameCalls(u, t) == u.pend = t.pend /\ u.id = t.id /\ u.calls = t.calls

LEMMA ErrorIs ==
    ASSUME NEW t \in Server, t.ans = <<>>, NEW op \in Opcodes,
           NEW e \in Errors \cup {"none", "NOT_FOUND"}, NEW u, u = Error(t, op, e)
    PROVE  /\ u \in Server /\ u.rop = t.rop /\ u.wop = t.wop
           /\ u.ans = <<[op |-> op, err |-> e, list |-> <<>>,
                         value |-> <<>>, size |-> 4]>>
           /\ SameDb(u, t) /\ SameQueue(u, t) /\ SameCalls(u, t)
<1> DEFINE a == [op |-> op, err |-> e, list |-> <<>>, value |-> <<>>, size |-> 4]
<1>1. a \in AnyAnswer
  BY DEF AnyAnswer
<1>2. Append(t.ans, a) = <<a>> /\ <<a>> \in Seq(AnyAnswer)
  BY <1>1
<1>3. u = [t EXCEPT !.ans = <<a>>]
  BY <1>2 DEF Error
<1> HIDE DEF a
<1>4. /\ u \in Server /\ u.rop = t.rop /\ u.wop = t.wop /\ u.ans = <<a>>
      /\ SameDb(u, t) /\ SameQueue(u, t) /\ SameCalls(u, t)
  BY <1>2, <1>3 DEF Server, SameDb, SameQueue, SameCalls
<1> QED
  BY <1>4 DEF a

LEMMA RespondIs ==
    ASSUME NEW t \in Server, t.ans = <<>>, NEW op \in Opcodes,
           NEW list \in Seq(Nat), NEW value \in Seq(Int), NEW size \in Nat,
           NEW u, u = Respond(t, op, list, value, size)
    PROVE  /\ u \in Server /\ u.rop = t.rop /\ u.wop = t.wop
           /\ u.ans = <<[op |-> op, err |-> "none", list |-> list,
                         value |-> value, size |-> size]>>
           /\ SameDb(u, t) /\ SameQueue(u, t) /\ SameCalls(u, t)
<1> DEFINE a == [op |-> op, err |-> "none", list |-> list, value |-> value,
                 size |-> size]
<1>1. a \in AnyAnswer
  BY DEF AnyAnswer
<1>2. Append(t.ans, a) = <<a>> /\ <<a>> \in Seq(AnyAnswer)
  BY <1>1
<1>3. u = [t EXCEPT !.ans = <<a>>]
  BY <1>2 DEF Respond
<1> HIDE DEF a
<1>4. /\ u \in Server /\ u.rop = t.rop /\ u.wop = t.wop /\ u.ans = <<a>>
      /\ SameDb(u, t) /\ SameQueue(u, t) /\ SameCalls(u, t)
  BY <1>2, <1>3 DEF Server, SameDb, SameQueue, SameCalls
<1> QED
  BY <1>4 DEF a

LEMMA DropReadOpIs ==
    ASSUME NEW t \in Server, NEW u, u = DropReadOp(t)
    PROVE  /\ u \in Server /\ u.rop = 0 /\ u.ans = t.ans /\ u.wop = t.wop
           /\ SameDb(u, t) /\ SameQueue(u, t) /\ SameCalls(u, t)
BY DEF DropReadOp, Server, SameDb, SameQueue, SameCalls

LEMMA DropPreparedIs ==
    ASSUME NEW t \in Server, NEW u, u = DropPrepared(t)
    PROVE  /\ u \in Server /\ u.ans = t.ans /\ u.rop = t.rop /\ u.wop = t.wop
           /\ u.prep = <<>> /\ u.prepared = t.prepared
           /\ u.executed = t.executed /\ SameDb(u, t) /\ SameCalls(u, t)
<1>1. <<>> \in Seq(Entry)
  OBVIOUS
<1> QED
  BY <1>1 DEF DropPrepared, Server, SameDb, SameCalls

(* a call of a function of the application waits for its report *)
ReadCalled(u, t, p, h, off, k) ==
    /\ p.h = h /\ p.way = "r" /\ p.id = t.id[h].r + 1
    /\ u \in Server /\ u.rop = t.rop /\ u.wop = t.wop
    /\ u.ans = t.ans /\ SameDb(u, t) /\ SameQueue(u, t)
    /\ u.pend = t.pend \cup {[call |-> p, k |-> k]}
    /\ u.calls = t.calls \cup {[call |-> p, n |-> k.n, off |-> off]}
    /\ u.id = [t.id EXCEPT ![h].r = @ + 1]

LEMMA CallReadIs ==
    ASSUME NEW t \in Server, NEW h \in Handles, NEW off \in Nat,
           NEW k \in Kept, k.n \in Nat, NEW u, u = CallRead(t, h, off, k)
    PROVE  \E p \in CallId : ReadCalled(u, t, p, h, off, k)
<1> DEFINE p == [h |-> h, way |-> "r", id |-> t.id[h].r + 1]
<1>1. t.id \in [Handles -> [r : Nat, w : Nat]] /\ t.pend \in SUBSET AnyPending
      /\ t.calls \in SUBSET AnyCall
  BY DEF Server
<1>2. p \in CallId
  BY <1>1 DEF CallId
<1> DEFINE pend == t.pend \cup {[call |-> p, k |-> k]}
           calls == t.calls \cup {[call |-> p, n |-> k.n, off |-> off]}
           id == [t.id EXCEPT ![h].r = @ + 1]
<1>3. u = [t EXCEPT !.id = id, !.pend = pend, !.calls = calls]
  BY <1>1 DEF CallRead, Server
<1>4. pend \in SUBSET AnyPending
  BY <1>1, <1>2 DEF AnyPending
<1>5. calls \in SUBSET AnyCall
  BY <1>1, <1>2 DEF AnyCall
<1>6. id \in [Handles -> [r : Nat, w : Nat]]
  BY <1>1
<1>7. p.h = h /\ p.way = "r" /\ p.id = t.id[h].r + 1
  OBVIOUS
<1> HIDE DEF p, id, pend, calls
<1>8. /\ u \in Server /\ u.rop = t.rop /\ u.wop = t.wop
      /\ u.ans = t.ans /\ SameDb(u, t) /\ SameQueue(u, t)
      /\ u.pend = pend /\ u.calls = calls /\ u.id = id
  BY <1>3, <1>4, <1>5, <1>6 DEF Server, SameDb, SameQueue
<1> QED
  BY <1>2, <1>7, <1>8 DEF id, pend, calls, ReadCalled

WriteCalled(u, t, p, h, off, k) ==
    /\ p.h = h /\ p.way = "w" /\ p.id = t.id[h].w + 1
    /\ u \in Server /\ u.rop = t.rop /\ u.wop = t.wop
    /\ u.ans = t.ans /\ SameDb(u, t) /\ SameQueue(u, t)
    /\ u.pend = t.pend \cup {[call |-> p, k |-> k]}
    /\ u.calls = t.calls \cup {[call |-> p, n |-> k.n, off |-> off]}
    /\ u.id = [t.id EXCEPT ![h].w = @ + 1]

LEMMA CallWriteIs ==
    ASSUME NEW t \in Server, NEW h \in Handles, NEW off \in Nat,
           NEW k \in Kept, k.n \in Nat, NEW u, u = CallWrite(t, h, off, k)
    PROVE  \E p \in CallId : WriteCalled(u, t, p, h, off, k)
<1> DEFINE p == [h |-> h, way |-> "w", id |-> t.id[h].w + 1]
<1>1. t.id \in [Handles -> [r : Nat, w : Nat]] /\ t.pend \in SUBSET AnyPending
      /\ t.calls \in SUBSET AnyCall
  BY DEF Server
<1>2. p \in CallId
  BY <1>1 DEF CallId
<1> DEFINE pend == t.pend \cup {[call |-> p, k |-> k]}
           calls == t.calls \cup {[call |-> p, n |-> k.n, off |-> off]}
           id == [t.id EXCEPT ![h].w = @ + 1]
<1>3. u = [t EXCEPT !.id = id, !.pend = pend, !.calls = calls]
  BY <1>1 DEF CallWrite, Server
<1>4. pend \in SUBSET AnyPending
  BY <1>1, <1>2 DEF AnyPending
<1>5. calls \in SUBSET AnyCall
  BY <1>1, <1>2 DEF AnyCall
<1>6. id \in [Handles -> [r : Nat, w : Nat]]
  BY <1>1
<1>7. p.h = h /\ p.way = "w" /\ p.id = t.id[h].w + 1
  OBVIOUS
<1> HIDE DEF p, id, pend, calls
<1>8. /\ u \in Server /\ u.rop = t.rop /\ u.wop = t.wop
      /\ u.ans = t.ans /\ SameDb(u, t) /\ SameQueue(u, t)
      /\ u.pend = pend /\ u.calls = calls /\ u.id = id
  BY <1>3, <1>4, <1>5, <1>6 DEF Server, SameDb, SameQueue
<1> QED
  BY <1>2, <1>7, <1>8 DEF id, pend, calls, WriteCalled

(* the id of a new operation is that of no other *)
LEMMA NewNumber ==
    ASSUME NEW t \in Server, NEW u \in Server, NEW m \in Nat, Numbered(t, m),
           NEW p \in CallId, NEW k \in Kept, NEW off \in Nat, k.n \in 1 .. m,
           p.way = "r" <=> k.op \in ReadOps,
           u.pend = t.pend \cup {[call |-> p, k |-> k]},
           u.calls = t.calls \cup {[call |-> p, n |-> k.n, off |-> off]},
           LastId(t, p) < p.id, p.id = LastId(u, p),
           \A c \in CallId : LastId(t, c) <= LastId(u, c)
    PROVE  Numbered(u, m)
<1> DEFINE new == [call |-> p, k |-> k]
           call == [call |-> p, n |-> k.n, off |-> off]
<1>1. \A c \in CallId : LastId(t, c) \in Nat /\ LastId(u, c) \in Nat
  BY DEF LastId, CallId, Server
<1>2. (\A x \in t.pend : x.call \in CallId) /\ \A x \in t.calls : x.call \in CallId
  BY DEF Server, AnyPending, AnyCall
<1>3. \A c \in CallId : c.id \in Nat
  BY DEF CallId
<1>4. \A x \in t.pend : /\ x.k.n \in 1 .. m /\ x.call.id <= LastId(t, x.call)
                        /\ x.call.way = "r" <=> x.k.op \in ReadOps
  BY DEF Numbered
<1>5. \A x \in t.calls : x.call.id <= LastId(t, x.call)
  BY DEF Numbered
<1>6. \A x \in u.pend : /\ x.k.n \in 1 .. m /\ x.call.id <= LastId(u, x.call)
                        /\ x.call.way = "r" <=> x.k.op \in ReadOps
  <2> SUFFICES ASSUME NEW x \in u.pend
               PROVE  /\ x.k.n \in 1 .. m /\ x.call.id <= LastId(u, x.call)
                      /\ x.call.way = "r" <=> x.k.op \in ReadOps
    OBVIOUS
  <2>1. CASE x \in t.pend
    BY <2>1, <1>1, <1>2, <1>3, <1>4
  <2>2. CASE x = new
    BY <2>2, <1>1, <1>3
  <2> QED
    BY <2>1, <2>2
<1>7. \A x \in u.calls : x.call.id <= LastId(u, x.call)
  <2> SUFFICES ASSUME NEW x \in u.calls PROVE x.call.id <= LastId(u, x.call)
    OBVIOUS
  <2>1. CASE x \in t.calls
    BY <2>1, <1>1, <1>2, <1>3, <1>5
  <2>2. CASE x = call
    BY <2>2, <1>1, <1>3
  <2> QED
    BY <2>1, <2>2
<1>8. ASSUME NEW x \in u.pend, NEW y \in u.calls, x.call = y.call
      PROVE  x.k.n = y.n
  <2>1. CASE x \in t.pend /\ y \in t.calls
    BY <2>1, <1>8 DEF Numbered
  <2>2. CASE x = new /\ y = call
    BY <2>2
  <2>3. CASE x = new /\ y \in t.calls
    BY <2>3, <1>1, <1>2, <1>3, <1>5, <1>8
  <2>4. CASE x \in t.pend /\ y = call
    BY <2>4, <1>1, <1>2, <1>3, <1>4, <1>8
  <2> QED
    BY <2>1, <2>2, <2>3, <2>4
<1> QED
  BY <1>6, <1>7, <1>8 DEF Numbered

(* u is t with a call of the function of h that k waits for *)
Called(u, t, h, k) ==
    /\ u.rop = t.rop /\ u.wop = t.wop /\ u.ans = t.ans
    /\ SameDb(u, t) /\ SameQueue(u, t)
    /\ \E p : u.pend = t.pend \cup {[call |-> p, k |-> k]} /\ p.h = h

LEMMA CallReadBase ==
    ASSUME NEW m \in Nat, NEW t, Base(t, m), NEW h \in Handles, NEW off \in Nat,
           NEW k \in Kept, k.n \in 1 .. m, k.op \in ReadOps,
           NEW u, u = CallRead(t, h, off, k)
    PROVE  Base(u, m) /\ Called(u, t, h, k)
<1>0. t \in Server /\ k.n \in Nat
  BY DEF Base
<1>9. PICK p \in CallId : ReadCalled(u, t, p, h, off, k)
  BY <1>0, CallReadIs
<1>1. /\ p.h = h /\ p.way = "r" /\ p.id = t.id[h].r + 1
      /\ u \in Server /\ u.rop = t.rop /\ u.wop = t.wop
      /\ u.ans = t.ans /\ SameDb(u, t) /\ SameQueue(u, t)
      /\ u.pend = t.pend \cup {[call |-> p, k |-> k]}
      /\ u.calls = t.calls \cup {[call |-> p, n |-> k.n, off |-> off]}
      /\ u.id = [t.id EXCEPT ![h].r = @ + 1]
  BY <1>9 DEF ReadCalled
<1>2. t.id \in [Handles -> [r : Nat, w : Nat]]
  BY <1>0 DEF Server
<1>3. LastId(t, p) < p.id /\ p.id = LastId(u, p)
  BY <1>1, <1>2 DEF LastId
<1>4. \A c \in CallId : LastId(t, c) <= LastId(u, c)
  BY <1>1, <1>2 DEF LastId, CallId
<1>5. Numbered(u, m)
  BY <1>0, <1>1, <1>3, <1>4, NewNumber DEF Base
<1>6. Mtus(u) /\ Declared(u)
  BY <1>1 DEF Base, Mtus, Declared, SameDb, SameQueue
<1>7. OneWrite(u)
  <2>1. k.op \notin {"write", "cmd"}
    BY DEF ReadOps
  <2> QED
    BY <1>1, <2>1 DEF Base, OneWrite
<1> QED
  BY <1>0, <1>1, <1>5, <1>6, <1>7 DEF Base, Called, SameQueue

(* nobody waits for a Write *)
NoWrite(t) == \A p \in t.pend : p.k.op \notin {"write", "cmd"}

LEMMA CallWriteBase ==
    ASSUME NEW m \in Nat, NEW t, Base(t, m), NEW h \in Handles, NEW off \in Nat,
           NEW k \in Kept, k.n \in 1 .. m, k.op \notin ReadOps,
           NEW u, u = CallWrite(t, h, off, k),
           k.op \in {"write", "cmd"} => NoWrite(t)
    PROVE  Base(u, m) /\ Called(u, t, h, k)
<1>0. t \in Server /\ k.n \in Nat
  BY DEF Base
<1>9. PICK p \in CallId : WriteCalled(u, t, p, h, off, k)
  BY <1>0, CallWriteIs
<1>1. /\ p.h = h /\ p.way = "w" /\ p.id = t.id[h].w + 1
      /\ u \in Server /\ u.rop = t.rop /\ u.wop = t.wop
      /\ u.ans = t.ans /\ SameDb(u, t) /\ SameQueue(u, t)
      /\ u.pend = t.pend \cup {[call |-> p, k |-> k]}
      /\ u.calls = t.calls \cup {[call |-> p, n |-> k.n, off |-> off]}
      /\ u.id = [t.id EXCEPT ![h].w = @ + 1]
  BY <1>9 DEF WriteCalled
<1>2. t.id \in [Handles -> [r : Nat, w : Nat]]
  BY <1>0 DEF Server
<1>3. LastId(t, p) < p.id /\ p.id = LastId(u, p)
  BY <1>1, <1>2 DEF LastId
<1>4. \A c \in CallId : LastId(t, c) <= LastId(u, c)
  BY <1>1, <1>2 DEF LastId, CallId
<1>5. Numbered(u, m)
  BY <1>0, <1>1, <1>3, <1>4, NewNumber DEF Base
<1>6. Mtus(u) /\ Declared(u)
  BY <1>1 DEF Base, Mtus, Declared, SameDb, SameQueue
<1>7. OneWrite(u)
  BY <1>1 DEF Base, OneWrite, NoWrite
<1> QED
  BY <1>0, <1>1, <1>5, <1>6, <1>7 DEF Base, Called, SameQueue
-----------------------------------------------------------------------------
(* A request keeps its fields when it gets its number *)

LEMMA RequestFields ==
    ASSUME NEW m \in Nat, NEW q, RequestOK(q, m), q # NoReq
    PROVE  /\ q.n \in 1 .. m /\ q.op \in Opcodes
           /\ q.op \in {"grp", "type", "info", "find"} =>
                 q.from \in Nat /\ q.to \in Nat
           /\ q.op \in {"read", "blob"} => q.h \in Nat /\ q.off \in Nat
           /\ q.op \in {"mult", "vl"} => q.hs \in Seq(Nat) /\ q.hs # <<>>
           /\ q.op = "write" => q.h \in Nat /\ q.len \in Nat
           /\ q.op = "prep" => q.h \in Nat /\ q.off \in Nat /\ q.len \in Nat
           /\ q.op = "exec" => q.flags \in Nat
           /\ q.op = "mtu" => q.mtu \in Nat
<1>1. PICK r \in AnyRequest, i \in 1 .. m : r.op # "cmd" /\ q = [r EXCEPT !.n = i]
  BY DEF RequestOK
<1>2. CASE r \in [op : {"mtu"}, n : {0}, mtu : Nat]
  BY <1>1, <1>2 DEF Opcodes
<1>3. CASE r \in [op : {"grp", "type", "info"}, n : {0}, from : Nat, to : Nat,
                  type : STRING]
  BY <1>1, <1>3 DEF Opcodes
<1>4. CASE r \in [op : {"find"}, n : {0}, from : Nat, to : Nat, type : STRING,
                  value : Seq(Int)]
  BY <1>1, <1>4 DEF Opcodes
<1>5. CASE r \in [op : {"read", "blob"}, n : {0}, h : Nat, off : Nat]
  BY <1>1, <1>5 DEF Opcodes
<1>6. CASE r \in [op : {"mult", "vl"}, n : {0}, hs : Seq(Nat) \ {<<>>}]
  BY <1>1, <1>6 DEF Opcodes
<1>7. CASE r \in [op : {"write", "cmd"}, n : {0}, h : Nat, len : Nat]
  BY <1>1, <1>7 DEF Opcodes
<1>8. CASE r \in [op : {"prep"}, n : {0}, h : Nat, off : Nat, len : Nat]
  BY <1>1, <1>8 DEF Opcodes
<1>9. CASE r \in [op : {"exec"}, n : {0}, flags : Nat]
  BY <1>1, <1>9 DEF Opcodes
<1>10. CASE r \in [op : {"short"}, n : {0}]
  BY <1>1, <1>10 DEF Opcodes
<1> QED
  BY <1>1, <1>2, <1>3, <1>4, <1>5, <1>6, <1>7, <1>8, <1>9, <1>10 DEF AnyRequest

LEMMA Constants ==
    /\ Handles \subseteq Nat \ {0}
    /\ DEFAULT_LE_MTU \in Nat /\ DEFAULT_LE_MTU >= 23
    /\ DEFAULT_LE_MTU <= ServerMtu
    /\ ServerMtu \in Nat /\ MaxPrepQueueLen \in Nat \ {0} /\ Security \in 0 .. 4
BY ServerAssumption DEF Handles

LEMMA Attributes ==
    ASSUME NEW h \in Handles
    PROVE  /\ Attr[h].uuid \in {2, 16} /\ Attr[h].fr \in {"none", "later"}
           /\ Attr[h].fw \in {"none", "now", "later"} /\ Attr[h].len \in Nat
           /\ Attr[h].reliable \in BOOLEAN
           /\ Declares(h) => /\ Attr[h].fr = "none"
                             /\ Attr[h].perm = {<<"r", "plain">>}
BY ServerAssumption DEF Handles, AnyAttribute, Kinds

LEMMA Permitted ==
    ASSUME NEW h, NEW way \in {"r", "w"}
    PROVE  /\ CheckPermissions(h, way) \in Errors \cup {"none"}
           /\ h \in Handles /\ CheckPermissions(h, "w") = "none" => ~Declares(h)
<1>1. CheckPermissions(h, way) \in Errors \cup {"none"}
  BY DEF CheckPermissions, Errors
<1>2. ASSUME h \in Handles, CheckPermissions(h, "w") = "none" PROVE ~Declares(h)
  <2> SUFFICES ASSUME Declares(h) PROVE FALSE
    OBVIOUS
  <2>1. Attr[h].perm = {<<"r", "plain">>}
    BY <1>2, Attributes
  <2>2. <<"w", "plain">> # <<"r", "plain">>
    OBVIOUS
  <2>3. Attr[h].perm # {}
    BY <2>1
  <2>4. <<"w", "plain">> \notin Attr[h].perm
    BY <2>1, <2>2, Zenon
  <2>5. CheckPermissions(h, "w") # "none"
    BY <2>3, <2>4 DEF CheckPermissions
  <2> QED
    BY <1>2, <2>5
<1> QED
  BY <1>1, <1>2

-----------------------------------------------------------------------------
(* Steps that keep what always holds of the server *)

LEMMA BaseLater ==
    ASSUME NEW m \in Nat, NEW t, Base(t, m)
    PROVE  Base(t, m + 1)
<1>1. t.rop \in Nat /\ t.wop \in Nat
  BY DEF Base, Server
<1>2. \A p \in t.pend : p.k.n \in 1 .. m + 1
  BY DEF Base, Numbered
<1>3. Numbered(t, m + 1)
  BY <1>2 DEF Base, Numbered
<1> QED
  BY <1>1, <1>3 DEF Base

LEMMA BaseSame ==
    ASSUME NEW m \in Nat, NEW t, Base(t, m),
           NEW u \in Server, u.rop <= m, u.wop <= m, SameDb(u, t), SameCalls(u, t),
           Len(u.prep) <= MaxPrepQueueLen,
           \A i \in DOMAIN u.prep : ~Declares(u.prep[i].h)
    PROVE  Base(u, m)
<1>1. Numbered(u, m)
  BY DEF Base, Numbered, SameCalls, LastId
<1>2. Mtus(u) /\ Declared(u) /\ OneWrite(u)
  BY DEF Base, Mtus, Declared, OneWrite, SameDb, SameCalls
<1> QED
  BY <1>1, <1>2 DEF Base

LEMMA BaseLess ==
    ASSUME NEW m \in Nat, NEW t, Base(t, m), NEW u,
           \/ \E p : u = [t EXCEPT !.pend = @ \ {p}]
           \/ \E c : u = [t EXCEPT !.calls = @ \ {c}]
    PROVE  /\ Base(u, m) /\ u.rop = t.rop /\ u.wop = t.wop /\ u.ans = t.ans
           /\ SameDb(u, t) /\ SameQueue(u, t)
<1>0. t \in Server
  BY DEF Base
<1>1. /\ u \in Server /\ u.rop = t.rop /\ u.wop = t.wop /\ u.ans = t.ans
      /\ SameDb(u, t) /\ SameQueue(u, t) /\ u.id = t.id
      /\ u.pend \subseteq t.pend /\ u.calls \subseteq t.calls
  <2>1. CASE \E p : u = [t EXCEPT !.pend = @ \ {p}]
    BY <1>0, <2>1 DEF Server, SameDb, SameQueue
  <2>2. CASE \E c : u = [t EXCEPT !.calls = @ \ {c}]
    BY <1>0, <2>2 DEF Server, SameDb, SameQueue
  <2> QED
    BY <2>1, <2>2
<1>2. Numbered(u, m)
  BY <1>1 DEF Base, Numbered, LastId
<1>3. Mtus(u) /\ Declared(u) /\ OneWrite(u)
  BY <1>1 DEF Base, Mtus, Declared, OneWrite, SameDb, SameQueue
<1> QED
  BY <1>1, <1>2, <1>3 DEF Base, SameQueue
-----------------------------------------------------------------------------
(* A request ends with one answer *)

(* the request q is being handled *)
Work(t, q, m) ==
    /\ Base(t, m) /\ RequestOK(q, m) /\ q # NoReq
    /\ t.ans = <<>> /\ Unbroken(t)
    /\ \A p \in t.pend : p.k.op = "cmd"

(* u is t with the answer a *)
Answers(u, t, a) ==
    /\ u \in Server /\ u.ans = <<a>> /\ u.rop = 0
    /\ u.wop \in {0, t.wop} /\ (u.wop # 0 <=> t.pend # {})
    /\ SameDb(u, t) /\ SameQueue(u, t) /\ SameCalls(u, t)

(* the values of declarations do not change *)
LEMMA AllSame ==
    ASSUME NEW t, NEW u, NEW q, Declared(t), Declared(u), Ranges(q)
    PROVE  All(u, q) = All(t, q)
<1>1. CASE q.op \in {"grp", "type", "info"}
  BY <1>1 DEF All
<1>2. CASE q.op = "find" /\ q.type \in {"prim", "sec"}
  <2>1. \A h \in Handles : Attr[h].type = q.type => u.val[h] = t.val[h]
    BY <1>2 DEF Declared, Declares
  <2>2. {h \in Handles : Attr[h].type = q.type /\ u.val[h] = q.value}
          = {h \in Handles : Attr[h].type = q.type /\ t.val[h] = q.value}
    BY <2>1
  <2>3. FindByTypeValue(u, q.from, q.to, q.type, q.value)
          = FindByTypeValue(t, q.from, q.to, q.type, q.value)
    BY <2>2 DEF FindByTypeValue
  <2> QED
    BY <1>2, <2>3 DEF All
<1> QED
  BY <1>1, <1>2 DEF Ranges

LEMMA GoodSame ==
    ASSUME NEW t, NEW u, NEW q, Declared(t), Declared(u), u.att = t.att,
           NEW a, GoodAnswer(a, t, q)
    PROVE  GoodAnswer(a, u, q)
BY AllSame DEF GoodAnswer

LEMMA AnswerEnds ==
    ASSUME NEW m \in Nat, NEW t, NEW q, Work(t, q, m), q.op # "exec",
           NEW u, NEW a, Answers(u, t, a), GoodAnswer(a, t, q)
    PROVE  InvOf(u, q, m)
<1>0. t \in Server /\ t.wop \in Nat /\ t.wop <= m /\ u.wop <= m /\ u.rop <= m
  <2>1. Base(t, m)
    BY DEF Work
  <2>2. t \in Server /\ t.wop <= m
    BY <2>1 DEF Base
  <2>3. t.wop \in Nat
    BY <2>2 DEF Server
  <2>4. u.rop = 0 /\ u.wop \in {0, t.wop}
    BY DEF Answers
  <2> QED
    BY <2>2, <2>3, <2>4
<1>1. Base(u, m)
  <2>1. Len(u.prep) <= MaxPrepQueueLen
        /\ \A i \in DOMAIN u.prep : ~Declares(u.prep[i].h)
    BY DEF Work, Base, Answers, SameQueue, Declared
  <2> QED
    BY <1>0, <2>1, BaseSame DEF Work, Answers
<1>2. GoodAnswer(a, u, q)
  BY <1>1, GoodSame DEF Work, Base, Answers, SameDb
<1>3. Slots(u)
  BY DEF Slots, Work, Answers, SameCalls, SlotOps
<1>4. Answering(u, q)
  <2>1. Len(u.ans) = 1 /\ DOMAIN u.ans = {1} /\ u.ans[1] = a
    BY DEF Answers
  <2>2. \A p \in u.pend : p.k.op = "cmd"
    BY DEF Work, Answers, SameCalls
  <2> QED
    BY <1>2, <2>1, <2>2 DEF Answering
<1>5. Session(u, q)
  BY DEF Session, Work, Answers, Unbroken, SameQueue
<1> QED
  BY <1>1, <1>3, <1>4, <1>5 DEF InvOf, Work

LEMMA GoodError ==
    ASSUME NEW m \in Nat, NEW t, NEW q, Base(t, m), NEW op, NEW e \in Errors,
           NEW a, a = [op |-> op, err |-> e, list |-> <<>>,
                       value |-> <<>>, size |-> 4]
    PROVE  GoodAnswer(a, t, q)
<1>1. a.size = 4 /\ a.err = e
  OBVIOUS
<1>2. e # "none" /\ e # "NOT_FOUND"
  BY DEF Errors
<1>3. t.att \in Nat /\ 4 <= t.att - 1
  BY Constants DEF Base, Mtus, Server
<1> QED
  BY <1>1, <1>2, <1>3 DEF GoodAnswer

(* an error other than NOT_FOUND *)
LEMMA ErrorEnds ==
    ASSUME NEW m \in Nat, NEW t, NEW q, Work(t, q, m), q.op # "exec",
           t.wop # 0 <=> t.pend # {},
           NEW op \in Opcodes, NEW e \in Errors,
           NEW u, \/ u = Error(t, op, e) /\ t.rop = 0
                  \/ u = DropReadOp(Error(t, op, e))
    PROVE  InvOf(u, q, m)
<1> DEFINE v == Error(t, op, e)
           a == [op |-> op, err |-> e, list |-> <<>>, value |-> <<>>, size |-> 4]
<1>0. t \in Server /\ t.ans = <<>>
  BY DEF Work, Base
<1>1. /\ v \in Server /\ v.rop = t.rop /\ v.wop = t.wop /\ v.ans = <<a>>
      /\ SameDb(v, t) /\ SameQueue(v, t) /\ SameCalls(v, t)
  BY <1>0, ErrorIs
<1>2. (u = v /\ t.rop = 0) \/ u = DropReadOp(v)
  OBVIOUS
<1>3. GoodAnswer(a, t, q)
  BY GoodError DEF Work
<1> HIDE DEF v, a
<1>4. Answers(u, t, a)
  <2>1. CASE u = v /\ t.rop = 0
    BY <1>1, <2>1 DEF Answers
  <2>2. CASE u = DropReadOp(v)
    BY <1>1, <2>2, DropReadOpIs DEF Answers, SameDb, SameQueue, SameCalls
  <2> QED
    BY <1>2, <2>1, <2>2
<1> QED
  BY <1>3, <1>4, AnswerEnds

LEMMA RespondEnds ==
    ASSUME NEW m \in Nat, NEW t, NEW q, Work(t, q, m), q.op # "exec",
           t.wop # 0 <=> t.pend # {},
           NEW op \in Opcodes, NEW list \in Seq(Nat), NEW value \in Seq(Int),
           NEW size \in Nat,
           GoodAnswer([op |-> op, err |-> "none", list |-> list,
                       value |-> value, size |-> size], t, q),
           NEW u, \/ u = Respond(t, op, list, value, size) /\ t.rop = 0
                  \/ u = DropReadOp(Respond(t, op, list, value, size))
    PROVE  InvOf(u, q, m)
<1> DEFINE v == Respond(t, op, list, value, size)
           a == [op |-> op, err |-> "none", list |-> list, value |-> value,
                 size |-> size]
<1>0. t \in Server /\ t.ans = <<>>
  BY DEF Work, Base
<1>1. /\ v \in Server /\ v.rop = t.rop /\ v.wop = t.wop /\ v.ans = <<a>>
      /\ SameDb(v, t) /\ SameQueue(v, t) /\ SameCalls(v, t)
  BY <1>0, RespondIs
<1>2. (u = v /\ t.rop = 0) \/ u = DropReadOp(v)
  OBVIOUS
<1>3. GoodAnswer(a, t, q)
  OBVIOUS
<1> HIDE DEF v, a
<1>4. Answers(u, t, a)
  <2>1. CASE u = v /\ t.rop = 0
    BY <1>1, <2>1 DEF Answers
  <2>2. CASE u = DropReadOp(v)
    BY <1>1, <2>2, DropReadOpIs DEF Answers, SameDb, SameQueue, SameCalls
  <2> QED
    BY <1>2, <2>1, <2>2
<1> QED
  BY <1>3, <1>4, AnswerEnds

(* or waits for the application *)

LEMMA WaitsForRead ==
    ASSUME NEW m \in Nat, NEW t, NEW q, Work(t, q, m),
           NEW h \in Handles, NEW off \in Nat, NEW k \in Kept,
           k.op = q.op, k.n = q.n, k.op \in ReadOps,
           t.rop # 0 <=> k.op \in SlotOps, t.wop # 0 <=> t.pend # {},
           k.op = "type" => TypeGoing(t, q, k, h),
           k.op \in {"mult", "vl"} => MultGoing(t, k),
           NEW u, u = CallRead(t, h, off, k)
    PROVE  InvOf(u, q, m)
<1>0. q.n \in 1 .. m
  BY RequestFields DEF Work
<1>1. Base(u, m) /\ Called(u, t, h, k)
  BY <1>0, CallReadBase DEF Work
<1>2. PICK p : u.pend = t.pend \cup {[call |-> p, k |-> k]} /\ p.h = h
  BY <1>1 DEF Called
<1>3. k.op \notin {"write", "cmd", "prep", "exec"} /\ "cmd" \notin SlotOps
  BY DEF ReadOps, SlotOps
<1>4. \A x \in t.pend : x.k.op = "cmd"
  BY DEF Work
<1>5. Slots(u)
  <2> DEFINE new == [call |-> p, k |-> k]
  <2>0. new \in u.pend /\ new.k = k /\ t.pend \subseteq u.pend
        /\ \A x \in u.pend : x = new \/ x \in t.pend
    BY <1>2
  <2> HIDE DEF new
  <2>1. (\E x \in u.pend : x.k.op \in SlotOps) <=> k.op \in SlotOps
    BY <2>0, <1>3, <1>4
  <2>2. (\E x \in u.pend : x.k.op \in {"write", "cmd"})
          <=> t.pend # {} \/ k.op = "write"
    BY <2>0, <1>3, <1>4
  <2> QED
    BY <1>1, <1>3, <2>1, <2>2 DEF Slots, Called
<1>6. Answering(u, q)
  <2> DEFINE new == [call |-> p, k |-> k]
  <2>1. u.ans = <<>> /\ t.ans = <<>> /\ q # NoReq
    BY <1>1 DEF Work, Called
  <2>2. Going(u, q, new)
    <3>1. k.op = "type" => TypeGoing(u, q, k, h)
      <4> SUFFICES ASSUME k.op = "type" PROVE TypeGoing(u, q, k, h)
        OBVIOUS
      <4>1. All(u, q) = All(t, q) /\ u.att = t.att
        BY <1>1 DEF All, Called, SameDb, TypeGoing
      <4> QED
        BY <4>1 DEF TypeGoing
    <3>2. k.op \in {"mult", "vl"} => MultGoing(u, k)
      BY <1>1 DEF MultGoing, Called, SameDb
    <3> QED
      BY <1>2, <1>3, <3>1, <3>2 DEF Going
  <2>3. \A x \in u.pend : x.k.op # "cmd" => x = new
    BY <1>2, <1>4
  <2> HIDE DEF new
  <2> QED
    BY <2>1, <2>2, <2>3 DEF Answering
<1>7. Session(u, q)
  BY <1>1 DEF Session, Called, Work, Unbroken, SameQueue
<1> QED
  BY <1>1, <1>5, <1>6, <1>7 DEF InvOf, Work

LEMMA WaitsForWrite ==
    ASSUME NEW m \in Nat, NEW t, NEW q, Work(t, q, m),
           NEW h \in Handles, NEW off \in Nat, NEW k \in Kept,
           k.op = q.op, k.n = q.n, k.op \in {"write", "prep", "exec"},
           t.rop = 0,
           k.op = "write" => t.wop # 0 /\ t.pend = {},
           k.op # "write" => (t.wop # 0 <=> t.pend # {}),
           k.op = "prep" => /\ ~Declares(k.h) /\ Len(k.bytes) + 5 <= t.att
                            /\ Len(t.prep) < MaxPrepQueueLen,
           NEW u, u = CallWrite(t, h, off, k)
    PROVE  InvOf(u, q, m)
<1>0. q.n \in 1 .. m
  BY RequestFields DEF Work
<1>3. k.op \notin ReadOps /\ k.op \notin SlotOps /\ "cmd" \notin SlotOps
      /\ k.op # "cmd"
  BY DEF ReadOps, SlotOps
<1>1. Base(u, m) /\ Called(u, t, h, k)
  <2>1. Base(t, m) /\ k.n \in 1 .. m
    BY <1>0 DEF Work
  <2>2. k.op \in {"write", "cmd"} => NoWrite(t)
    BY <1>3 DEF NoWrite
  <2> QED
    BY <1>3, <2>1, <2>2, CallWriteBase
<1>2. PICK p : u.pend = t.pend \cup {[call |-> p, k |-> k]} /\ p.h = h
  BY <1>1 DEF Called
<1>4. \A x \in t.pend : x.k.op = "cmd"
  BY DEF Work
<1>5. Slots(u)
  <2> DEFINE new == [call |-> p, k |-> k]
  <2>0. new \in u.pend /\ new.k = k /\ t.pend \subseteq u.pend
        /\ \A x \in u.pend : x = new \/ x \in t.pend
    BY <1>2
  <2> HIDE DEF new
  <2>1. (\E x \in u.pend : x.k.op \in SlotOps) <=> k.op \in SlotOps
    BY <2>0, <1>3, <1>4
  <2>2. (\E x \in u.pend : x.k.op \in {"write", "cmd"})
          <=> t.pend # {} \/ k.op = "write"
    BY <2>0, <1>3, <1>4
  <2> QED
    BY <1>1, <1>3, <2>1, <2>2 DEF Slots, Called
<1>6. Answering(u, q)
  <2> DEFINE new == [call |-> p, k |-> k]
  <2>1. u.ans = <<>> /\ t.ans = <<>> /\ q # NoReq
    BY <1>1 DEF Work, Called
  <2>2. Going(u, q, new)
    BY <1>1, <1>2 DEF Going, Called, SameDb, SameQueue
  <2>3. \A x \in u.pend : x.k.op # "cmd" => x = new
    BY <1>2, <1>4
  <2> HIDE DEF new
  <2> QED
    BY <2>1, <2>2, <2>3 DEF Answering
<1>7. Session(u, q)
  BY <1>1 DEF Session, Called, Work, Unbroken, SameQueue
<1> QED
  BY <1>1, <1>5, <1>6, <1>7 DEF InvOf, Work
-----------------------------------------------------------------------------
(* The octets that a queue holds *)

LEMMA OctetsType ==
    ASSUME NEW h \in Nat, NEW off \in Nat, NEW b \in Seq(Int)
    PROVE  /\ Octets(h, off, b) \in Seq(Octet)
           /\ Len(Octets(h, off, b)) = Len(b)
           /\ \A i \in 1 .. Len(b) : Octets(h, off, b)[i] = <<h, off + i - 1, b[i]>>
<1>1. \A i \in 1 .. Len(b) : <<h, off + i - 1, b[i]>> \in Octet
  BY DEF Octet
<1>2. Octets(h, off, b) \in [1 .. Len(b) -> Octet]
  BY <1>1 DEF Octets
<1>3. Len(b) \in Nat
  OBVIOUS
<1>4. Octets(h, off, b) \in Seq(Octet)
  BY <1>2, <1>3, SeqDef
<1>5. Len(Octets(h, off, b)) = Len(b)
  BY <1>2, <1>3, <1>4, LenProperties
<1> QED
  BY <1>4, <1>5 DEF Octets

LEMMA OctetsJoined ==
    ASSUME NEW h \in Nat, NEW off \in Nat, NEW a \in Seq(Int), NEW b \in Seq(Int)
    PROVE  Octets(h, off, a \o b)
             = Octets(h, off, a) \o Octets(h, off + Len(a), b)
<1> DEFINE c == a \o b
           x == Octets(h, off, c)
           y == Octets(h, off, a)
           z == Octets(h, off + Len(a), b)
<1>1. /\ c \in Seq(Int) /\ Len(c) = Len(a) + Len(b)
      /\ \A i \in 1 .. Len(a) + Len(b) : c[i] = IF i <= Len(a) THEN a[i] ELSE b[i - Len(a)]
  BY ConcatProperties
<1>2. off + Len(a) \in Nat /\ Len(a) \in Nat /\ Len(b) \in Nat
  OBVIOUS
<1> HIDE DEF c
<1>3. /\ x \in Seq(Octet) /\ Len(x) = Len(c)
      /\ \A i \in 1 .. Len(c) : x[i] = <<h, off + i - 1, c[i]>>
  BY <1>1, OctetsType
<1>4. /\ y \in Seq(Octet) /\ Len(y) = Len(a)
      /\ \A i \in 1 .. Len(a) : y[i] = <<h, off + i - 1, a[i]>>
  BY OctetsType
<1>5. /\ z \in Seq(Octet) /\ Len(z) = Len(b)
      /\ \A i \in 1 .. Len(b) : z[i] = <<h, (off + Len(a)) + i - 1, b[i]>>
  BY <1>2, OctetsType
<1> DEFINE w == y \o z
<1> HIDE DEF x, y, z
<1>y. y \in Seq(Octet) /\ z \in Seq(Octet)
  BY <1>4, <1>5
<1>6. /\ w \in Seq(Octet) /\ Len(w) = Len(y) + Len(z)
      /\ \A i \in 1 .. Len(y) + Len(z) : w[i] = IF i <= Len(y) THEN y[i] ELSE z[i - Len(y)]
  BY <1>y, ConcatProperties
<1> HIDE DEF w
<1>7. Len(x) = Len(w)
  BY <1>1, <1>3, <1>4, <1>5, <1>6
<1>8. ASSUME NEW i \in 1 .. Len(x) PROVE x[i] = w[i]
  <2>0. i \in 1 .. Len(a) + Len(b) /\ i \in 1 .. Len(c) /\ i \in 1 .. Len(y) + Len(z)
        /\ Len(y) = Len(a)
    BY <1>1, <1>3, <1>4, <1>5
  <2>1. CASE i <= Len(a)
    <3>1. i \in 1 .. Len(a) /\ w[i] = y[i] /\ c[i] = a[i]
      BY <2>0, <2>1, <1>1, <1>2, <1>6
    <3> QED
      BY <2>0, <3>1, <1>3, <1>4
  <2>2. CASE i > Len(a)
    <3>1. i - Len(a) \in 1 .. Len(b)
      BY <2>0, <2>2, <1>2
    <3>5. w[i] = z[i - Len(a)]
      BY <2>0, <2>2, <1>2, <1>6
    <3>2. w[i] = <<h, (off + Len(a)) + (i - Len(a)) - 1, b[i - Len(a)]>>
      BY <3>1, <3>5, <1>5
    <3>3. x[i] = <<h, off + i - 1, b[i - Len(a)]>>
      BY <2>0, <2>2, <1>1, <1>2, <1>3
    <3>4. (off + Len(a)) + (i - Len(a)) - 1 = off + i - 1
      BY <1>2, <1>3
    <3> QED
      BY <3>2, <3>3, <3>4
  <2> QED
    BY <2>1, <2>2, <1>2, <1>3
<1>9. x = w
  BY <1>3, <1>6, <1>7, <1>8, SeqEqual
<1> QED
  BY <1>9 DEF w, x, y, z, c

OctetsOf(e) == Octets(e.h, e.off, e.bytes)

LEMMA OctetsOfType == ASSUME NEW e \in Entry PROVE OctetsOf(e) \in Seq(Octet)
<1>1. e.h \in Nat /\ e.off \in Nat /\ e.bytes \in Seq(Int)
  BY Constants DEF Entry
<1> QED
  BY <1>1, OctetsType DEF OctetsOf

LEMMA HeldStep ==
    ASSUME NEW q \in Seq(Entry)
    PROVE  /\ HeldUpTo(q)[0] = <<>>
           /\ \A i \in 1 .. Len(q) :
                 HeldUpTo(q)[i] = HeldUpTo(q)[i - 1] \o OctetsOf(q[i])
<1> DEFINE f == HeldUpTo(q)
<1>1. f = [i \in 0 .. Len(q) |->
             IF i = 0 THEN <<>>
             ELSE f[i - 1] \o Octets(q[i].h, q[i].off, q[i].bytes)]
  BY HeldTurns
<1>2. Len(q) \in Nat
  OBVIOUS
<1> HIDE DEF f
<1>3. f[0] = <<>>
  BY <1>1, <1>2
<1>4. \A i \in 1 .. Len(q) :
         f[i] = f[i - 1] \o Octets(q[i].h, q[i].off, q[i].bytes)
  BY <1>1, <1>2
<1> QED
  BY <1>3, <1>4 DEF f, OctetsOf

LEMMA HeldType ==
    ASSUME NEW q \in Seq(Entry)
    PROVE  /\ \A i \in 0 .. Len(q) : HeldUpTo(q)[i] \in Seq(Octet)
           /\ Held(q) \in Seq(Octet)
<1> DEFINE f == HeldUpTo(q)
           S == {i \in 0 .. Len(q) : f[i] \in Seq(Octet)}
<1>1. Len(q) \in Nat
  OBVIOUS
<1>2. f[0] = <<>> /\ \A i \in 1 .. Len(q) : f[i] = f[i - 1] \o OctetsOf(q[i])
  BY HeldStep
<1> HIDE DEF f
<1>3. 0 \in S
  <2>1. f[0] = <<>> /\ <<>> \in Seq(Octet)
    BY <1>2, EmptySeq
  <2>2. f[0] \in Seq(Octet)
    BY <2>1, Zenon
  <2> QED
    BY <1>1, <2>2
<1>4. ASSUME NEW i \in 0 .. Len(q), i > 0, i - 1 \in S PROVE i \in S
  <2>1. q[i] \in Entry
    BY <1>4
  <2>2. OctetsOf(q[i]) \in Seq(Octet) /\ f[i - 1] \in Seq(Octet)
    BY <2>1, <1>4, OctetsOfType
  <2> i \in 1 .. Len(q)
    BY <1>4
  <2>3. f[i] = f[i - 1] \o OctetsOf(q[i])
    BY <1>2, Zenon
  <2>4. f[i - 1] \o OctetsOf(q[i]) \in Seq(Octet)
    BY <2>2, ConcatProperties, Zenon
  <2>5. f[i] \in Seq(Octet)
    BY <2>3, <2>4, Zenon
  <2> QED
    BY <2>5
<1> HIDE DEF S
<1>5. 0 .. Len(q) \subseteq S
  BY <1>1, <1>3, <1>4, InductUpTo
<1>6. f[Len(q)] \in Seq(Octet)
  BY <1>1, <1>5 DEF S
<1> QED
  BY <1>5, <1>6, HeldIs DEF S, f

LEMMA HeldAgree ==
    ASSUME NEW q \in Seq(Entry), NEW r \in Seq(Entry), NEW N \in Nat,
           N <= Len(q), N <= Len(r), \A i \in 1 .. N : q[i] = r[i]
    PROVE  HeldUpTo(q)[N] = HeldUpTo(r)[N]
<1> DEFINE f == HeldUpTo(q)
           g == HeldUpTo(r)
           S == {i \in 0 .. N : f[i] = g[i]}
<1>1. f[0] = <<>> /\ \A i \in 1 .. Len(q) : f[i] = f[i - 1] \o OctetsOf(q[i])
  BY HeldStep
<1>2. g[0] = <<>> /\ \A i \in 1 .. Len(r) : g[i] = g[i - 1] \o OctetsOf(r[i])
  BY HeldStep
<1> HIDE DEF f, g
<1>3. 0 \in S
  BY <1>1, <1>2
<1>4. ASSUME NEW i \in 0 .. N, i > 0, i - 1 \in S PROVE i \in S
  <2>1. i \in 1 .. Len(q) /\ i \in 1 .. Len(r) /\ q[i] = r[i]
        /\ f[i - 1] = g[i - 1]
    BY <1>4
  <2>2. f[i] = g[i]
    BY <2>1, <1>1, <1>2
  <2> QED
    BY <2>2
<1> HIDE DEF S
<1>5. 0 .. N \subseteq S
  BY <1>3, <1>4, InductUpTo
<1> QED
  BY <1>5 DEF S, f, g

LEMMA HeldEmpty == Held(<<>>) = <<>>
<1>1. <<>> \in Seq(Entry) /\ Len(<<>>) = 0
  OBVIOUS
<1> QED
  BY <1>1, HeldStep, HeldIs

LEMMA HeldAppend ==
    ASSUME NEW q \in Seq(Entry), NEW e \in Entry
    PROVE  Held(Append(q, e)) = Held(q) \o OctetsOf(e)
<1> DEFINE r == Append(q, e)
           N == Len(q)
<1>1. r \in Seq(Entry) /\ Len(r) = N + 1 /\ N \in Nat
      /\ r[N + 1] = e /\ \A i \in 1 .. N : r[i] = q[i]
  BY AppendProperties
<1> HIDE DEF r, N
<1>2. N <= Len(q) /\ Len(q) = N
  BY <1>1 DEF N
<1>3. HeldUpTo(q)[N] = HeldUpTo(r)[N]
  BY <1>1, <1>2, HeldAgree
<1>4. N + 1 \in 1 .. Len(r) /\ (N + 1) - 1 = N
  BY <1>1
<1>5. HeldUpTo(r)[N + 1] = HeldUpTo(r)[N] \o OctetsOf(e)
  BY <1>1, <1>4, HeldStep
<1> QED
  BY <1>1, <1>2, <1>3, <1>5, HeldIs DEF r

(* the last entry of a queue is continued *)
Lengthened(q, b) == [q EXCEPT ![Len(q)].bytes = @ \o b]

LEMMA HeldExtended ==
    ASSUME NEW q \in Seq(Entry), q # <<>>, NEW b \in Seq(Int), NEW r,
           r = Lengthened(q, b)
    PROVE  /\ r \in Seq(Entry) /\ Len(r) = Len(q)
           /\ \A i \in 1 .. Len(q) : r[i].h = q[i].h
           /\ Held(r) = Held(q) \o Octets(q[Len(q)].h,
                           q[Len(q)].off + Len(q[Len(q)].bytes), b)
<1> DEFINE N == Len(q)
           d == q[N]
           e == [d EXCEPT !.bytes = @ \o b]
<1>1. N \in Nat \ {0} /\ d \in Entry
  OBVIOUS
<1>2. d.h \in Nat /\ d.off \in Nat /\ d.bytes \in Seq(Int)
  BY <1>1, Constants DEF Entry
<1> HIDE DEF d
<1>3. d.bytes \o b \in Seq(Int)
  BY <1>2, ConcatProperties
<1>4. e \in Entry /\ e.h = d.h /\ e.off = d.off /\ e.bytes = d.bytes \o b
  BY <1>1, <1>3 DEF Entry
<1>5. r = [q EXCEPT ![N] = e]
  BY DEF d, Lengthened
<1> HIDE DEF e, N
<1>6. r \in Seq(Entry) /\ Len(r) = N /\ r[N] = e
      /\ \A i \in 1 .. N : i # N => r[i] = q[i]
  <2>1. N \in 1 .. Len(q) /\ Len(q) = N
    BY <1>1 DEF N
  <2>2. /\ [q EXCEPT ![N] = e] \in Seq(Entry)
        /\ Len([q EXCEPT ![N] = e]) = Len(q)
        /\ \A j \in 1 .. Len(q) : [q EXCEPT ![N] = e][j] = IF j = N THEN e ELSE q[j]
    BY <1>4, <2>1, ExceptSeq
  <2> QED
    BY <1>5, <2>1, <2>2
<1>7. N - 1 \in Nat /\ N - 1 <= Len(q) /\ N - 1 <= Len(r)
      /\ \A i \in 1 .. N - 1 : q[i] = r[i]
  BY <1>1, <1>6 DEF N
<1>8. HeldUpTo(q)[N - 1] = HeldUpTo(r)[N - 1]
  BY <1>6, <1>7, HeldAgree
<1> DEFINE f == HeldUpTo(q)[N - 1]
<1>9. f \in Seq(Octet)
  <2>1. N - 1 \in 0 .. Len(q)
    BY <1>7
  <2> QED
    BY <2>1, HeldType
<1>10. Held(q) = f \o OctetsOf(d)
  <2>1. HeldUpTo(q)[N] = HeldUpTo(q)[N - 1] \o OctetsOf(q[N])
    <3>1. N \in 1 .. Len(q)
      BY <1>1 DEF N
    <3> QED
      BY <3>1, HeldStep, Zenon
  <2> QED
    BY <2>1, HeldIs DEF d, N
<1>11. Held(r) = f \o OctetsOf(e)
  <2>1. HeldUpTo(r)[N] = HeldUpTo(r)[N - 1] \o OctetsOf(r[N])
    <3>1. N \in 1 .. Len(r)
      BY <1>1, <1>6
    <3> QED
      BY <1>6, <3>1, HeldStep, Zenon
  <2> QED
    BY <2>1, <1>6, <1>8, HeldIs
<1> HIDE DEF f
<1> DEFINE x == OctetsOf(d)
           y == Octets(d.h, d.off + Len(d.bytes), b)
<1>12. OctetsOf(e) = x \o y
  <2>1. Octets(d.h, d.off, d.bytes \o b) = x \o y
    BY <1>2, OctetsJoined DEF OctetsOf
  <2> QED
    BY <2>1, <1>4 DEF OctetsOf
<1>13. x \in Seq(Octet) /\ y \in Seq(Octet)
  <2>1. d.off + Len(d.bytes) \in Nat
    BY <1>2
  <2> QED
    BY <2>1, <1>1, <1>2, OctetsOfType, OctetsType
<1> HIDE DEF x, y
<1>14. Held(r) = Held(q) \o y
  <2>1. Held(q) = f \o x
    BY <1>10 DEF x
  <2>2. Held(r) = f \o (x \o y)
    BY <1>11, <1>12
  <2>3. (f \o x) \o y = f \o (x \o y)
    BY <1>9, <1>13, ConcatAssociative
  <2> QED
    BY <2>1, <2>2, <2>3
<1>15. \A i \in 1 .. N : r[i].h = q[i].h
  BY <1>1, <1>4, <1>6 DEF d, N
<1> QED
  BY <1>6, <1>14, <1>15 DEF y, d, N

LEMMA HeldHead ==
    ASSUME NEW q \in Seq(Entry), q # <<>>
    PROVE  Held(q) = OctetsOf(Head(q)) \o Held(Tail(q))
<1> DEFINE T == Tail(q)
           N == Len(q)
           f == HeldUpTo(q)
           g == HeldUpTo(T)
           x == OctetsOf(Head(q))
           S == {i \in 0 .. N - 1 : f[i + 1] = x \o g[i]}
<1>1. /\ N \in Nat \ {0} /\ T \in Seq(Entry) /\ Len(T) = N - 1
      /\ Head(q) \in Entry /\ q[1] = Head(q)
      /\ \A i \in 1 .. N - 1 : T[i] = q[i + 1]
  BY HeadTailProperties
<1>2. f[0] = <<>> /\ \A i \in 1 .. N : f[i] = f[i - 1] \o OctetsOf(q[i])
  BY HeldStep
<1>3. g[0] = <<>> /\ \A i \in 1 .. N - 1 : g[i] = g[i - 1] \o OctetsOf(T[i])
  BY <1>1, HeldStep
<1>4. x \in Seq(Octet) /\ \A i \in 0 .. N - 1 : g[i] \in Seq(Octet)
  BY <1>1, HeldType, OctetsOfType
<1>5. \A i \in 1 .. N - 1 : OctetsOf(T[i]) \in Seq(Octet)
  <2> SUFFICES ASSUME NEW i \in 1 .. N - 1 PROVE OctetsOf(T[i]) \in Seq(Octet)
    OBVIOUS
  <2>1. T[i] \in Entry
    BY <1>1
  <2> QED
    BY <2>1, OctetsOfType
<1>6. Held(q) = f[N] /\ Held(T) = g[N - 1]
  BY <1>1, HeldIs
<1> HIDE DEF f, g, x, N, T
<1>7. 0 \in S
  <2>1. 1 \in 1 .. N /\ 1 - 1 = 0
    BY <1>1
  <2>2. f[1] = f[0] \o OctetsOf(q[1])
    BY <1>2, <2>1, Zenon
  <2>3. f[1] = <<>> \o x
    BY <1>1, <1>2, <2>2 DEF x
  <2>4. <<>> \o x = x /\ x \o <<>> = x
    BY <1>4, ConcatEmptySeq
  <2>5. f[0 + 1] = x \o g[0]
    BY <2>3, <2>4, <1>3
  <2> QED
    BY <2>5, <1>1
<1>8. ASSUME NEW i \in 0 .. N - 1, i > 0, i - 1 \in S PROVE i \in S
  <2>1. i \in 1 .. N - 1 /\ i + 1 \in 1 .. N /\ (i + 1) - 1 = i
        /\ (i - 1) + 1 = i /\ i - 1 \in 0 .. N - 1
    BY <1>1, <1>8
  <2>2. f[i + 1] = f[i] \o OctetsOf(q[i + 1])
    BY <1>2, <2>1
  <2>3. f[i] = x \o g[i - 1]
    BY <1>8, <2>1
  <2> DEFINE y == g[i - 1]
             z == OctetsOf(T[i])
  <2>4. z = OctetsOf(q[i + 1]) /\ y \in Seq(Octet) /\ z \in Seq(Octet)
    BY <1>1, <1>4, <1>5, <2>1
  <2>5. g[i] = y \o z
    BY <1>3, <2>1, Zenon
  <2> HIDE DEF y, z
  <2>6. (x \o y) \o z = x \o (y \o z)
    BY <1>4, <2>4, ConcatAssociative
  <2>7. f[i + 1] = x \o g[i]
    BY <2>2, <2>3, <2>4, <2>5, <2>6 DEF y
  <2> QED
    BY <2>7
<1> HIDE DEF S
<1>9. 0 .. N - 1 \subseteq S
  <2> DEFINE M == N - 1
  <2>1. M \in Nat
    BY <1>1
  <2>2. 0 \in S /\ \A i \in 0 .. M : i > 0 /\ i - 1 \in S => i \in S
    BY <1>7, <1>8
  <2> HIDE DEF M
  <2>3. 0 .. M \subseteq S
    BY <2>1, <2>2, InductUpTo
  <2> QED
    BY <2>3 DEF M
<1>10. N - 1 \in 0 .. N - 1 /\ (N - 1) + 1 = N
  BY <1>1
<1>11. f[(N - 1) + 1] = x \o g[N - 1]
  BY <1>9, <1>10 DEF S
<1> QED
  BY <1>6, <1>10, <1>11 DEF x, T
-----------------------------------------------------------------------------
(* The queue of prepared writes *)

LEMMA Joined ==
    ASSUME NEW a \in Seq(Octet), NEW b \in Seq(Octet), NEW c \in Seq(Octet)
    PROVE  /\ (a \o b) \o c = a \o (b \o c)
           /\ a \o b \in Seq(Octet)
<1> DEFINE S == Octet
<1> HIDE DEF S
<1>1. a \in Seq(S) /\ b \in Seq(S) /\ c \in Seq(S)
  BY DEF S
<1>2. (a \o b) \o c = a \o (b \o c) /\ a \o b \in Seq(S)
  BY <1>1, ConcatAssociative, ConcatProperties
<1> QED
  BY <1>2 DEF S

LEMMA StoreIs ==
    ASSUME NEW m \in Nat, NEW t, Base(t, m), Unbroken(t),
           NEW k \in PrepKept, ~Declares(k.h), Len(t.prep) < MaxPrepQueueLen,
           NEW u, u = StorePrepData(t, k)
    PROVE  /\ Base(u, m) /\ Unbroken(u) /\ u.ans = t.ans /\ u.rop = t.rop
           /\ u.wop = t.wop /\ SameDb(u, t) /\ SameCalls(u, t)
<1> DEFINE q == t.prep
           x == Octets(k.h, k.off, k.bytes)
           e == [h |-> k.h, off |-> k.off, bytes |-> k.bytes,
                 reliable |-> ReliableSupported(k.h)]
           r == IF Continues(q, k.h, k.off)
                THEN Lengthened(q, k.bytes)
                ELSE Append(q, e)
<1>1. /\ t \in Server /\ q \in Seq(Entry) /\ t.prepared \in Seq(Octet)
      /\ t.executed \in Seq(Octet)
  BY DEF Base, Server
<1>2. k.h \in Handles /\ k.h \in Nat /\ k.off \in Nat /\ k.bytes \in Seq(Int)
  BY Constants DEF PrepKept
<1>3. x \in Seq(Octet)
  BY <1>2, OctetsType
<1>4. e \in Entry /\ OctetsOf(e) = x /\ e.h = k.h
  <2>1. ReliableSupported(k.h) \in BOOLEAN
    BY <1>2, Attributes DEF ReliableSupported
  <2> QED
    BY <1>2, <2>1 DEF Entry, OctetsOf
<1>5. u = [t EXCEPT !.prep = r, !.prepared = @ \o x]
  BY <1>1 DEF StorePrepData, Server, Lengthened
<1>6. \A i \in 1 .. Len(q) : ~Declares(q[i].h)
  BY <1>1 DEF Base, Declared
<1> HIDE DEF x, e
<1>7. /\ r \in Seq(Entry) /\ Len(r) <= Len(q) + 1 /\ Held(r) = Held(q) \o x
      /\ \A i \in 1 .. Len(r) : ~Declares(r[i].h)
  <2>1. CASE Continues(q, k.h, k.off)
    <3>1. q # <<>> /\ q[Len(q)].h = k.h /\ k.off = q[Len(q)].off + Len(q[Len(q)].bytes)
      BY <2>1 DEF Continues, Last
    <3>2. r = Lengthened(q, k.bytes)
      BY <2>1
    <3> HIDE DEF r
    <3>3. /\ r \in Seq(Entry) /\ Len(r) = Len(q)
          /\ \A i \in 1 .. Len(q) : r[i].h = q[i].h
          /\ Held(r) = Held(q) \o Octets(q[Len(q)].h,
                          q[Len(q)].off + Len(q[Len(q)].bytes), k.bytes)
      BY <1>1, <1>2, <3>1, <3>2, HeldExtended
    <3>4. Held(r) = Held(q) \o x
      BY <3>1, <3>3 DEF x
    <3>5. r \in Seq(Entry) /\ Len(r) = Len(q)
          /\ \A i \in 1 .. Len(q) : r[i].h = q[i].h
      BY <3>3, Zenon
    <3>6. Len(r) <= Len(q) + 1 /\ \A i \in 1 .. Len(r) : ~Declares(r[i].h)
      BY <1>1, <1>6, <3>5
    <3> QED
      BY <3>4, <3>5, <3>6, Zenon
  <2>2. CASE ~Continues(q, k.h, k.off)
    <3>1. r = Append(q, e)
      BY <2>2
    <3>2. /\ Append(q, e) \in Seq(Entry) /\ Len(Append(q, e)) = Len(q) + 1
          /\ \A i \in 1 .. Len(q) : Append(q, e)[i] = q[i]
          /\ Append(q, e)[Len(q) + 1] = e
      BY <1>1, <1>4, AppendProperties
    <3>3. Held(Append(q, e)) = Held(q) \o x
      BY <1>1, <1>4, HeldAppend
    <3> HIDE DEF r
    <3>4. \A i \in 1 .. Len(r) : ~Declares(r[i].h)
      BY <1>1, <1>4, <1>6, <3>1, <3>2
    <3>5. r \in Seq(Entry) /\ Len(r) <= Len(q) + 1
      BY <1>1, <3>1, <3>2
    <3>6. Held(r) = Held(q) \o x
      BY <3>1, <3>3, Zenon
    <3> QED
      BY <3>4, <3>5, <3>6, Zenon
  <2> QED
    BY <2>1, <2>2
<1> HIDE DEF r
<1>8. t.prepared \o x \in Seq(Octet)
  BY <1>1, <1>3, ConcatProperties
<1>9. /\ u \in Server /\ u.prep = r /\ u.prepared = t.prepared \o x
      /\ u.executed = t.executed /\ u.ans = t.ans /\ u.rop = t.rop
      /\ u.wop = t.wop /\ SameDb(u, t) /\ SameCalls(u, t)
  BY <1>1, <1>5, <1>7, <1>8 DEF Server, SameDb, SameCalls
<1>10. Len(u.prep) <= MaxPrepQueueLen
       /\ \A i \in DOMAIN u.prep : ~Declares(u.prep[i].h)
  <2>1. /\ r \in Seq(Entry) /\ Len(r) <= Len(q) + 1
        /\ \A i \in 1 .. Len(r) : ~Declares(r[i].h)
    BY <1>7, Zenon
  <2>2. u.prep = r
    BY <1>9, Zenon
  <2> QED
    BY <1>1, <2>1, <2>2, Constants
<1>11. Base(u, m)
  <2>1. u.rop <= m /\ u.wop <= m
    BY <1>9 DEF Base
  <2> QED
    BY <2>1, <1>9, <1>10, BaseSame
<1>12. Unbroken(u)
  <2>1. t.prepared = t.executed \o Held(q)
    BY DEF Unbroken
  <2>2. Held(q) \in Seq(Octet)
    BY <1>1, HeldType
  <2>3. (t.executed \o Held(q)) \o x = t.executed \o (Held(q) \o x)
    <3> DEFINE a == t.executed
               y == Held(q)
    <3>1. a \in Seq(Octet) /\ y \in Seq(Octet)
      BY <1>1, <2>2
    <3> HIDE DEF a, y
    <3>2. (a \o y) \o x = a \o (y \o x)
      BY <1>3, <3>1, Joined
    <3> QED
      BY <3>2 DEF a, y
  <2> QED
    BY <1>7, <1>9, <2>1, <2>3 DEF Unbroken
<1> QED
  BY <1>9, <1>11, <1>12

LEMMA PopIs ==
    ASSUME NEW m \in Nat, NEW t, Base(t, m), Unbroken(t), t.prep # <<>>,
           NEW u, u = PopPrepared(t)
    PROVE  /\ Base(u, m) /\ Unbroken(u) /\ u.ans = t.ans /\ u.rop = t.rop
           /\ u.wop = t.wop /\ SameDb(u, t) /\ SameCalls(u, t)
           /\ u.prep = Tail(t.prep)
           /\ Head(t.prep) \in Entry /\ ~Declares(Head(t.prep).h)
<1> DEFINE q == t.prep
           x == OctetsOf(Head(q))
<1>1. /\ t \in Server /\ q \in Seq(Entry) /\ t.prepared \in Seq(Octet)
      /\ t.executed \in Seq(Octet)
  BY DEF Base, Server
<1>2. /\ Tail(q) \in Seq(Entry) /\ Len(Tail(q)) = Len(q) - 1 /\ Head(q) \in Entry
      /\ Head(q) = q[1] /\ Len(q) \in Nat \ {0}
      /\ \A i \in 1 .. Len(q) - 1 : Tail(q)[i] = q[i + 1]
  BY <1>1, HeadTailProperties
<1>3. x \in Seq(Octet) /\ Held(Tail(q)) \in Seq(Octet)
  BY <1>2, OctetsOfType, HeldType
<1>4. \A i \in 1 .. Len(q) : ~Declares(q[i].h)
  BY <1>1 DEF Base, Declared
<1>5. u = [t EXCEPT !.prep = Tail(q), !.executed = @ \o x]
  BY DEF PopPrepared, OctetsOf
<1> HIDE DEF x
<1>6. t.executed \o x \in Seq(Octet)
  BY <1>1, <1>3, ConcatProperties
<1>7. /\ u \in Server /\ u.prep = Tail(q) /\ u.prepared = t.prepared
      /\ u.executed = t.executed \o x /\ u.ans = t.ans /\ u.rop = t.rop
      /\ u.wop = t.wop /\ SameDb(u, t) /\ SameCalls(u, t)
  BY <1>1, <1>2, <1>5, <1>6 DEF Server, SameDb, SameCalls
<1>8. Len(u.prep) <= MaxPrepQueueLen
      /\ \A i \in DOMAIN u.prep : ~Declares(u.prep[i].h)
  <2>1. Len(q) <= MaxPrepQueueLen
    BY DEF Base
  <2>2. DOMAIN Tail(q) = 1 .. Len(q) - 1
    BY <1>2, LenProperties
  <2>3. ASSUME NEW i \in 1 .. Len(q) - 1 PROVE ~Declares(Tail(q)[i].h)
    <3>1. Tail(q)[i] = q[i + 1] /\ i + 1 \in 1 .. Len(q)
      BY <1>2
    <3> QED
      BY <1>4, <3>1
  <2>4. u.prep = Tail(q)
    BY <1>7, Zenon
  <2> QED
    BY <1>2, <2>1, <2>2, <2>3, <2>4, Constants
<1>9. Base(u, m)
  <2>1. u.rop <= m /\ u.wop <= m
    BY <1>7 DEF Base
  <2> QED
    BY <2>1, <1>7, <1>8, BaseSame
<1>10. Unbroken(u)
  <2>1. t.prepared = t.executed \o Held(q)
    BY DEF Unbroken
  <2>2. Held(q) = x \o Held(Tail(q))
    BY <1>1, HeldHead DEF x
  <2> DEFINE y == Held(Tail(q))
  <2>3. t.executed \o (x \o y) = (t.executed \o x) \o y
    BY <1>1, <1>3, Joined, Zenon
  <2> QED
    BY <1>7, <2>1, <2>2, <2>3 DEF Unbroken
<1>11. ~Declares(Head(q).h)
  BY <1>2, <1>4
<1> QED
  BY <1>2, <1>7, <1>9, <1>10, <1>11

LEMMA StoredType ==
    ASSUME NEW v \in Seq(Int), NEW off \in Nat, NEW b \in Seq(Int)
    PROVE  Stored(v, off, b) \in Seq(Int)
<1>1. CASE b = <<>>
  BY <1>1 DEF Stored
<1>2. CASE b # <<>>
  <2> DEFINE N == AtLeast(Len(v), off + Len(b))
             gap == IF v = <<>> THEN 0 ELSE Junk
             f == [i \in 1 .. N |->
                     IF i \in off + 1 .. off + Len(b) THEN b[i - off]
                     ELSE IF i <= Len(v) THEN v[i] ELSE gap]
  <2>1. N \in Nat /\ gap \in Int
    BY DEF AtLeast, Junk
  <2> HIDE DEF N, gap
  <2>2. \A i \in 1 .. N : f[i] \in Int
    BY <2>1
  <2>3. f \in [1 .. N -> Int]
    BY <2>2
  <2> HIDE DEF f
  <2>4. f \in Seq(Int)
    BY <2>1, <2>3, SeqDef
  <2> QED
    BY <1>2, <2>4 DEF Stored, f, N, gap
<1> QED
  BY <1>1, <1>2

LEMMA Counted ==
    ASSUME NEW r \in [r : Nat, w : Nat]
    PROVE  /\ [r EXCEPT !.w = @ + 1] \in [r : Nat, w : Nat]
           /\ [r EXCEPT !.r = @ + 1] \in [r : Nat, w : Nat]
OBVIOUS

LEMMA WrittenIs ==
    ASSUME NEW m \in Nat, NEW t, Base(t, m), NEW h \in Handles, ~Declares(h),
           NEW off \in Nat, NEW b \in Seq(Int), NEW u, u = Written(t, h, off, b)
    PROVE  /\ Base(u, m) /\ u.ans = t.ans /\ u.rop = t.rop /\ u.wop = t.wop
           /\ u.mtu = t.mtu /\ u.chan = t.chan /\ u.att = t.att
           /\ u.pend = t.pend /\ u.calls = t.calls /\ SameQueue(u, t)
<1>0. t \in Server /\ t.val \in [Handles -> Seq(Int)]
  BY DEF Base, Server
<1>1. t.id \in [Handles -> [r : Nat, w : Nat]]
  BY DEF Base, Server
<1>2. CASE Attr[h].fw = "now"
  <2> DEFINE id == [t.id EXCEPT ![h].w = @ + 1]
  <2>1. u = [t EXCEPT !.id = id]
    BY <1>2 DEF Written
  <2>2. id \in [Handles -> [r : Nat, w : Nat]]
    <3>1. [t.id[h] EXCEPT !.w = @ + 1] \in [r : Nat, w : Nat]
      BY <1>1, Counted
    <3> QED
      BY <1>1, <3>1
  <2>3. \A c \in CallId : LastId(t, c) <= (IF c.way = "r" THEN id[c.h].r ELSE id[c.h].w)
                          /\ LastId(t, c) \in Nat
    BY <1>1 DEF LastId, CallId
  <2> HIDE DEF id
  <2>4. /\ u \in Server /\ u.ans = t.ans /\ u.rop = t.rop /\ u.wop = t.wop
        /\ SameDb(u, t) /\ u.pend = t.pend /\ u.calls = t.calls
        /\ SameQueue(u, t) /\ u.id = id
    BY <1>0, <2>1, <2>2 DEF Server, SameDb, SameQueue
  <2>5. (\A x \in t.pend : x.call \in CallId) /\ \A x \in t.calls : x.call \in CallId
    BY <1>0 DEF Server, AnyPending, AnyCall
  <2>6. \A c \in CallId : LastId(t, c) <= LastId(u, c) /\ c.id \in Nat
                          /\ LastId(t, c) \in Nat /\ LastId(u, c) \in Nat
    BY <1>1, <2>2, <2>3, <2>4 DEF LastId, CallId
  <2>7. Numbered(u, m)
    BY <2>4, <2>5, <2>6 DEF Base, Numbered
  <2>8. Mtus(u) /\ Declared(u) /\ OneWrite(u)
    BY <2>4 DEF Base, Mtus, Declared, OneWrite, SameDb, SameQueue
  <2> QED
    BY <2>4, <2>7, <2>8 DEF Base, SameDb, SameQueue
<1>3. CASE Attr[h].fw # "now"
  <2> DEFINE val == [t.val EXCEPT ![h] = Stored(@, off, b)]
  <2>1. u = [t EXCEPT !.val = val]
    BY <1>3 DEF Written
  <2>2. Stored(t.val[h], off, b) \in Seq(Int)
    BY <1>0, StoredType
  <2>3. val \in [Handles -> Seq(Int)]
    BY <1>0, <2>2
  <2>4. \A g \in Handles : g # h => val[g] = t.val[g]
    BY <1>0
  <2> HIDE DEF val
  <2>5. /\ u \in Server /\ u.ans = t.ans /\ u.rop = t.rop /\ u.wop = t.wop
        /\ u.mtu = t.mtu /\ u.chan = t.chan /\ u.att = t.att
        /\ SameCalls(u, t) /\ SameQueue(u, t) /\ u.val = val
    BY <1>0, <2>1, <2>3 DEF Server, SameCalls, SameQueue
  <2>6. Numbered(u, m)
    BY <2>5 DEF Base, Numbered, SameCalls, LastId
  <2>7. Mtus(u) /\ OneWrite(u)
    BY <2>5 DEF Base, Mtus, OneWrite, SameCalls
  <2>8. Declared(u)
    BY <2>4, <2>5 DEF Base, Declared, SameQueue
  <2> QED
    BY <2>5, <2>6, <2>7, <2>8 DEF Base, SameCalls, SameQueue
<1> QED
  BY <1>2, <1>3
-----------------------------------------------------------------------------
(* The handles of a range *)

InRangeUpTo(S, from, to) ==
    CHOOSE f : f = [h \in 0 .. Top |->
        CASE h = 0 -> <<>>
          [] h > 0 /\ h \in S \cap from .. to -> Append(f[h - 1], h)
          [] OTHER -> f[h - 1]]

LEMMA InRangeIs ==
    ASSUME NEW S, NEW from, NEW to
    PROVE  InRange(S, from, to) = InRangeUpTo(S, from, to)[Top]
BY DEF InRange, InRangeUpTo

LEMMA TopType == Top \in Nat /\ Top \in Handles
BY ServerAssumption DEF Top, Handles

(* a function on 0 .. N that is given by its value at 0 and by a step *)
Steps(f, N, F, x0, g) ==
    /\ f \in [0 .. N -> F] /\ f[0] = x0
    /\ \A i \in 1 .. N : f[i] = g[<<i, f[i - 1]>>]

LEMMA Recursion ==
    ASSUME NEW N \in Nat, NEW F, NEW x0, x0 \in F,
           NEW g, g \in [(1 .. N) \X F -> F]
    PROVE  \E f : Steps(f, N, F, x0, g)
<1> DEFINE Is(f, M) == /\ f \in [0 .. M -> F] /\ f[0] = x0
                       /\ \A i \in 1 .. M : f[i] = g[<<i, f[i - 1]>>]
           R == {M \in Nat : M <= N => \E f : Is(f, M)}
<1>1. \E f : Is(f, 0)
  <2>1. Is([i \in 0 .. 0 |-> x0], 0)
    OBVIOUS
  <2> QED
    BY <2>1
<1>2. ASSUME NEW M \in Nat, M + 1 <= N, NEW f, Is(f, M)
      PROVE  \E h : Is(h, M + 1)
  <2> DEFINE h == [i \in 0 .. M + 1 |-> IF i <= M THEN f[i] ELSE g[<<M + 1, f[M]>>]]
  <2>1. f[M] \in F /\ <<M + 1, f[M]>> \in (1 .. N) \X F
    BY <1>2
  <2>2. g[<<M + 1, f[M]>>] \in F
    BY <2>1
  <2>3. h \in [0 .. M + 1 -> F]
    BY <1>2, <2>2
  <2>4. h[0] = x0 /\ h[M + 1] = g[<<M + 1, f[M]>>] /\ \A i \in 0 .. M : h[i] = f[i]
    BY <1>2
  <2> HIDE DEF h
  <2>5. ASSUME NEW i \in 1 .. M + 1 PROVE h[i] = g[<<i, h[i - 1]>>]
    <3>1. CASE i <= M
      <4>1. i \in 0 .. M /\ i - 1 \in 0 .. M /\ i \in 1 .. M
        BY <3>1
      <4> QED
        BY <1>2, <2>4, <4>1
    <3>2. CASE i = M + 1
      <4>1. i - 1 = M /\ M \in 0 .. M
        BY <3>2
      <4> QED
        BY <2>4, <3>2, <4>1
    <3> QED
      BY <3>1, <3>2
  <2>6. Is(h, M + 1)
    BY <2>3, <2>4, <2>5
  <2> HIDE DEF Is
  <2> QED
    BY <2>6
<1> HIDE DEF Is
<1>3. 0 \in R
  BY <1>1
<1>4. ASSUME NEW M \in Nat, M \in R PROVE M + 1 \in R
  BY <1>2, <1>4
<1> HIDE DEF R
<1>5. Nat \subseteq R
  BY <1>3, <1>4, Induct
<1>6. \E f : Is(f, N)
  BY <1>5 DEF R
<1> QED
  BY <1>6 DEF Is, Steps

LEMMA InRangeType ==
    ASSUME NEW S, S \subseteq Handles, NEW from \in Nat, NEW to \in Nat
    PROVE  InRange(S, from, to) \in Seq(Handles)
<1> DEFINE F == Seq(Handles)
           A == S \cap from .. to
           g == [p \in (1 .. Top) \X F |->
                   IF p[1] \in A THEN Append(p[2], p[1]) ELSE p[2]]
<1>1. Top \in Nat
  BY TopType
<1>2. <<>> \in F /\ F # {} /\ A \subseteq Handles
  BY EmptySeq
<1> HIDE DEF A
<1>3. ASSUME NEW i, NEW x \in F, i \in A PROVE Append(x, i) \in F
  BY <1>2, <1>3, AppendProperties
<1> HIDE DEF F
<1>4. \A i \in 1 .. Top, x \in F :
         g[<<i, x>>] = (IF i \in A THEN Append(x, i) ELSE x) /\ g[<<i, x>>] \in F
  BY <1>3
<1>5. g \in [(1 .. Top) \X F -> F]
  <2>1. \A p \in (1 .. Top) \X F : g[p] \in F
    BY <1>4
  <2> QED
    BY <2>1
<1> HIDE DEF g
<1>y. PICK f : Steps(f, Top, F, <<>>, g)
  BY <1>1, <1>2, <1>5, Recursion
<1>6. /\ f \in [0 .. Top -> F] /\ f[0] = <<>>
      /\ \A i \in 1 .. Top : f[i] = g[<<i, f[i - 1]>>]
  BY <1>y DEF Steps
<1>7. f = [h \in 0 .. Top |->
        CASE h = 0 -> <<>>
          [] h > 0 /\ h \in A -> Append(f[h - 1], h)
          [] OTHER -> f[h - 1]]
  <2>1. ASSUME NEW h \in 0 .. Top
        PROVE  f[h] = CASE h = 0 -> <<>>
                        [] h > 0 /\ h \in A -> Append(f[h - 1], h)
                        [] OTHER -> f[h - 1]
    <3>1. CASE h = 0
      BY <3>1, <1>6
    <3>2. CASE h # 0
      <4>1. h \in 1 .. Top /\ h - 1 \in 0 .. Top /\ f[h - 1] \in F
        BY <1>1, <1>6, <3>2
      <4>2. f[h] = IF h \in A THEN Append(f[h - 1], h) ELSE f[h - 1]
        BY <1>4, <1>6, <4>1
      <4> QED
        BY <3>2, <4>2
    <3> QED
      BY <3>1, <3>2
  <2> QED
    BY <1>6, <2>1
<1> DEFINE u == InRangeUpTo(S, from, to)
<1>8. u = [h \in 0 .. Top |->
        CASE h = 0 -> <<>>
          [] h > 0 /\ h \in A -> Append(u[h - 1], h)
          [] OTHER -> u[h - 1]]
  BY <1>7, Zenon DEF InRangeUpTo, A
<1> HIDE DEF u
<1>9. u[0] = <<>>
  BY <1>1, <1>8
<1>10. ASSUME NEW i \in 1 .. Top
       PROVE  u[i] = IF i \in A THEN Append(u[i - 1], i) ELSE u[i - 1]
  <2>1. i \in 0 .. Top /\ i # 0 /\ i > 0
    BY <1>1
  <2>2. u[i] = CASE i = 0 -> <<>>
                 [] i > 0 /\ i \in A -> Append(u[i - 1], i)
                 [] OTHER -> u[i - 1]
    BY <1>8, <2>1
  <2> QED
    BY <2>1, <2>2
<1> DEFINE R == {i \in 0 .. Top : u[i] \in F}
<1>11. 0 \in R
  BY <1>1, <1>2, <1>9
<1>12. ASSUME NEW i \in 0 .. Top, i > 0, i - 1 \in R PROVE i \in R
  <2>1. i \in 1 .. Top /\ u[i - 1] \in F
    BY <1>12
  <2>2. u[i] \in F
    BY <2>1, <1>3, <1>10
  <2> QED
    BY <2>2
<1> HIDE DEF R
<1>13. 0 .. Top \subseteq R
  BY <1>1, <1>11, <1>12, InductUpTo
<1>14. u[Top] \in F
  BY <1>1, <1>13 DEF R
<1> QED
  BY <1>14, InRangeIs DEF u, F
-----------------------------------------------------------------------------
(* Requests that are answered at once *)

LEMMA FirstOnes ==
    ASSUME NEW S, NEW q \in Seq(S), NEW k \in 1 .. Len(q)
    PROVE  /\ SubSeq(q, 1, k) \in Seq(S) /\ SubSeq(q, 1, k) # <<>>
           /\ IsPrefix(SubSeq(q, 1, k), q) /\ Len(SubSeq(q, 1, k)) = k
<1> DEFINE p == SubSeq(q, 1, k)
<1>1. Len(q) \in Nat /\ \A i \in 1 .. k : q[i] \in S
  OBVIOUS
<1>2. p \in Seq(S) /\ Len(p) = k /\ \A i \in 1 .. k : p[i] = q[i]
  BY <1>1, SubSeqProperties
<1> HIDE DEF p
<1>3. p # <<>>
  BY <1>2
<1>4. SubSeq(p, 1, Len(p)) = p
  BY <1>2, SubSeqFull
<1>5. IsPrefix(p, q)
  BY <1>1, <1>2, <1>4 DEF IsPrefix, p
<1> QED
  BY <1>2, <1>3, <1>5 DEF p

LEMMA UnitsIs ==
    ASSUME NEW hs \in Seq(Handles), hs # <<>>, NEW len, NEW unit \in Nat \ {0},
           NEW room \in Nat, unit <= room - 1,
           NEW list, list = Units(hs, len, unit, room)
    PROVE  /\ list \in Seq(Handles) /\ list # <<>> /\ IsPrefix(list, hs)
           /\ Len(list) * unit <= room - 1
<1> DEFINE I == {i \in 1 .. Len(hs) : len[hs[i]] # len[hs[1]]}
           other == SelectInSeq(hs, LAMBDA h : len[h] # len[hs[1]])
           same == IF other = 0 THEN Len(hs) ELSE other - 1
           fit == (room - 1) \div unit
           k == AtMost(same, fit)
<1>1. Len(hs) \in Nat \ {0}
  OBVIOUS
<1>2. other = IF I # {} THEN Min(I) ELSE 0
  BY DEF SelectInSeq
<1>3. same \in 1 .. Len(hs)
  <2>1. CASE I = {}
    BY <1>1, <1>2, <2>1
  <2>2. CASE I # {}
    <3>1. PICK i \in I : \A j \in I : i <= j
      <4>1. I \in SUBSET Nat /\ I # {}
        BY <2>2
      <4> HIDE DEF I
      <4> QED
        BY <4>1, Least
    <3>2. Min(I) \in I /\ \A j \in I : Min(I) <= j
      BY <3>1, Zenon DEF Min
    <3>3. Min(I) \in 2 .. Len(hs)
      BY <3>2
    <3> QED
      BY <1>2, <2>2, <3>3
  <2> QED
    BY <2>1, <2>2
<1>4. fit \in Nat \ {0} /\ fit * unit <= room - 1
  OBVIOUS
<1> HIDE DEF other, fit, I, same
<1>5. k \in 1 .. Len(hs) /\ k \in Nat /\ k <= fit
  BY <1>1, <1>3, <1>4 DEF AtMost
<1>6. k * unit <= room - 1
  BY <1>4, <1>5
<1>7. list = SubSeq(hs, 1, k)
  BY DEF Units, fit, same, other
<1> HIDE DEF k
<1> QED
  BY <1>5, <1>6, <1>7, FirstOnes

(* nothing else waits but commands *)
Idle(t) == t.rop = 0 /\ (t.wop # 0 <=> t.pend # {})

LEMMA NotFoundEnds ==
    ASSUME NEW m \in Nat, NEW t, NEW q, Work(t, q, m), Idle(t), q.op # "exec",
           Ranges(q) => All(t, q) = <<>>, NEW op \in Opcodes,
           NEW u, u = Error(t, op, "NOT_FOUND")
    PROVE  InvOf(u, q, m)
<1> DEFINE a == [op |-> op, err |-> "NOT_FOUND", list |-> <<>>, value |-> <<>>,
                 size |-> 4]
<1>0. t \in Server /\ t.ans = <<>>
  BY DEF Work, Base
<1>1. /\ u \in Server /\ u.rop = t.rop /\ u.wop = t.wop /\ u.ans = <<a>>
      /\ SameDb(u, t) /\ SameQueue(u, t) /\ SameCalls(u, t)
  BY <1>0, ErrorIs
<1>2. a.size = 4 /\ a.err = "NOT_FOUND"
  OBVIOUS
<1> HIDE DEF a
<1>3. t.att \in Nat /\ 4 <= t.att - 1
  BY Constants DEF Work, Base, Mtus, Server
<1>4. GoodAnswer(a, t, q)
  BY <1>2, <1>3 DEF GoodAnswer
<1>5. Answers(u, t, a)
  BY <1>1 DEF Answers, Idle, SameCalls
<1> QED
  BY <1>4, <1>5, AnswerEnds

(* the answer with the list of what was found *)
LEMMA FoundEnds ==
    ASSUME NEW m \in Nat, NEW t, NEW q, Work(t, q, m), Idle(t),
           q.op \in {"grp", "info", "find"}, NEW size \in Nat,
           NEW list \in Seq(Handles), size <= t.att - 1,
           Ranges(q) => list # <<>> /\ IsPrefix(list, All(t, q)),
           NEW u, u = Respond(t, q.op, list, <<>>, size)
    PROVE  InvOf(u, q, m)
<1> DEFINE a == [op |-> q.op, err |-> "none", list |-> list,
                 value |-> <<>>, size |-> size]
<1>1. a.op = q.op /\ a.err = "none" /\ a.list = list /\ a.size = size
  OBVIOUS
<1> HIDE DEF a
<1>2. GoodAnswer(a, t, q)
  BY <1>1 DEF GoodAnswer
<1>3. list \in Seq(Nat) /\ <<>> \in Seq(Int) /\ q.op \in Opcodes
  <2>1. \A S : S \subseteq Nat /\ list \in Seq(S) => list \in Seq(Nat)
    BY SeqMonotonic
  <2>2. list \in Seq(Nat)
    BY <2>1, Constants
  <2>3. q.op \in Opcodes
    BY DEF Opcodes
  <2>4. <<>> \in Seq(Int)
    OBVIOUS
  <2> QED
    BY <2>2, <2>3, <2>4
<1>4. GoodAnswer([op |-> q.op, err |-> "none", list |-> list,
                  value |-> <<>>, size |-> size], t, q)
  BY <1>2 DEF a
<1>5. t.rop = 0 /\ (t.wop # 0 <=> t.pend # {})
  BY DEF Idle
<1> QED
  BY <1>3, <1>4, <1>5, RespondEnds

LEMMA GrpEnds ==
    ASSUME NEW m \in Nat, NEW t, NEW q, Work(t, q, m), Idle(t), q.op = "grp",
           NEW u, u = ReadByGrpTypeCb(t, q)
    PROVE  InvOf(u, q, m)
<1> DEFINE hs == ReadByGroupType(q.from, q.to, q.type)
           len == [h \in Handles |-> Len(t.val[h])]
           vlen == AtMost(AtMost(t.att - 6, 251), len[hs[1]])
           list == Units(hs, len, vlen + 4, t.att - 1)
           size == 1 + Len(list) * (vlen + 4)
<1>1. \/ u = Error(t, "grp", "INVALID_HANDLE")
      \/ u = Error(t, "grp", "UNSUPPORTED_GROUP_TYPE")
      \/ hs = <<>> /\ u = Error(t, "grp", "NOT_FOUND")
      \/ hs # <<>> /\ u = Respond(t, "grp", list, <<>>, size)
  BY DEF ReadByGrpTypeCb
<1>2. q.from \in Nat /\ q.to \in Nat
  BY RequestFields DEF Work
<1>3. hs \in Seq(Handles)
  BY <1>2, InRangeType DEF ReadByGroupType
<1>4. Ranges(q) /\ All(t, q) = hs
  BY DEF Ranges, All
<1>5. t.val \in [Handles -> Seq(Int)] /\ t.att \in Nat /\ t.att >= 23
  BY Constants DEF Work, Base, Server, Mtus
<1>6. t.rop = 0 /\ (t.wop # 0 <=> t.pend # {}) /\ "grp" \in Opcodes
      /\ "INVALID_HANDLE" \in Errors /\ "UNSUPPORTED_GROUP_TYPE" \in Errors
  BY DEF Idle, Opcodes, Errors
<1> HIDE DEF hs
<1>7. ASSUME hs # <<>>, u = Respond(t, "grp", list, <<>>, size) PROVE InvOf(u, q, m)
  <2>1. hs[1] \in Handles
    BY <1>3, <1>7
  <2>2. vlen \in Nat /\ vlen <= t.att - 6
    BY <1>5, <2>1 DEF AtMost
  <2> HIDE DEF vlen
  <2>3. vlen + 4 \in Nat \ {0} /\ t.att - 1 \in Nat /\ vlen + 4 <= (t.att - 1) - 1
    BY <1>5, <2>2
  <2> HIDE DEF len
  <2>4. /\ list \in Seq(Handles) /\ list # <<>> /\ IsPrefix(list, hs)
        /\ Len(list) * (vlen + 4) <= (t.att - 1) - 1
    BY <1>3, <1>7, <2>3, UnitsIs
  <2> HIDE DEF list
  <2>5. size \in Nat /\ size <= t.att - 1
    BY <1>5, <2>3, <2>4
  <2> HIDE DEF size
  <2> QED
    BY <1>4, <1>7, <2>4, <2>5, FoundEnds
<1> HIDE DEF list, size
<1>8. CASE u = Error(t, "grp", "INVALID_HANDLE")
  BY <1>6, <1>8, ErrorEnds
<1>9. CASE u = Error(t, "grp", "UNSUPPORTED_GROUP_TYPE")
  BY <1>6, <1>9, ErrorEnds
<1>10. CASE hs = <<>> /\ u = Error(t, "grp", "NOT_FOUND")
  BY <1>4, <1>6, <1>10, NotFoundEnds
<1> QED
  BY <1>1, <1>7, <1>8, <1>9, <1>10

LEMMA InfoEnds ==
    ASSUME NEW m \in Nat, NEW t, NEW q, Work(t, q, m), Idle(t), q.op = "info",
           NEW u, u = FindInfoCb(t, q)
    PROVE  InvOf(u, q, m)
<1> DEFINE hs == FindInformation(q.from, q.to)
           uuid == [h \in Handles |-> Attr[h].uuid]
           unit == uuid[hs[1]] + 2
           list == Units(hs, uuid, unit, t.att - 1)
           size == 1 + Len(list) * unit
<1>1. \/ u = Error(t, "info", "INVALID_HANDLE")
      \/ hs = <<>> /\ u = Error(t, "info", "NOT_FOUND")
      \/ hs # <<>> /\ u = Respond(t, "info", list, <<>>, size)
  BY DEF FindInfoCb
<1>2. q.from \in Nat /\ q.to \in Nat
  BY RequestFields DEF Work
<1>3. hs \in Seq(Handles)
  BY <1>2, InRangeType DEF FindInformation
<1>4. Ranges(q) /\ All(t, q) = hs
  BY DEF Ranges, All
<1>5. t.att \in Nat /\ t.att >= 23
  BY Constants DEF Work, Base, Server, Mtus
<1>6. t.rop = 0 /\ (t.wop # 0 <=> t.pend # {}) /\ "info" \in Opcodes
      /\ "INVALID_HANDLE" \in Errors
  BY DEF Idle, Opcodes, Errors
<1> HIDE DEF hs
<1>7. ASSUME hs # <<>>, u = Respond(t, "info", list, <<>>, size) PROVE InvOf(u, q, m)
  <2>1. hs[1] \in Handles
    BY <1>3, <1>7
  <2>2. uuid[hs[1]] \in {2, 16}
    BY <2>1, Attributes
  <2>3. unit \in Nat \ {0} /\ t.att - 1 \in Nat /\ unit <= (t.att - 1) - 1
    BY <1>5, <2>2
  <2> HIDE DEF uuid, unit
  <2>4. /\ list \in Seq(Handles) /\ list # <<>> /\ IsPrefix(list, hs)
        /\ Len(list) * unit <= (t.att - 1) - 1
    BY <1>3, <1>7, <2>3, UnitsIs
  <2> HIDE DEF list
  <2>5. size \in Nat /\ size <= t.att - 1
    BY <1>5, <2>3, <2>4
  <2> HIDE DEF size
  <2> QED
    BY <1>4, <1>7, <2>4, <2>5, FoundEnds
<1> HIDE DEF list, size
<1>8. CASE u = Error(t, "info", "INVALID_HANDLE")
  BY <1>6, <1>8, ErrorEnds
<1>9. CASE hs = <<>> /\ u = Error(t, "info", "NOT_FOUND")
  BY <1>4, <1>6, <1>9, NotFoundEnds
<1> QED
  BY <1>1, <1>7, <1>8, <1>9

LEMMA FourEach ==
    ASSUME NEW L \in Nat \ {0}, NEW r \in Nat, r >= 23
    PROVE  /\ AtMost(L, (r - 1) \div 4) \in 1 .. L
           /\ 4 * AtMost(L, (r - 1) \div 4) <= r - 1
<1> DEFINE d == (r - 1) \div 4
<1>1. d \in Nat /\ 1 <= d /\ 4 * d <= r - 1
  OBVIOUS
<1> HIDE DEF d
<1>2. AtMost(L, d) \in 1 .. L /\ 4 * AtMost(L, d) <= r - 1
  BY <1>1 DEF AtMost
<1> QED
  BY <1>2 DEF d

LEMMA FindEnds ==
    ASSUME NEW m \in Nat, NEW t, NEW q, Work(t, q, m), Idle(t), q.op = "find",
           NEW u, u = FindByTypeValCb(t, q)
    PROVE  InvOf(u, q, m)
<1> DEFINE hs == FindByTypeValue(t, q.from, q.to, q.type, q.value)
           k == AtMost(Len(hs), (t.att - 1) \div 4)
           list == SubSeq(hs, 1, k)
           size == 4 * Len(list)
<1>1. \/ u = Error(t, "find", "INVALID_HANDLE")
      \/ hs = <<>> /\ u = Error(t, "find", "NOT_FOUND")
      \/ hs # <<>> /\ u = Respond(t, "find", list, <<>>, size)
  <2>1. u = CASE q.from > q.to -> Error(t, "find", "INVALID_HANDLE")
              [] hs = <<>> -> Error(t, "find", "NOT_FOUND")
              [] OTHER -> Respond(t, "find", list, <<>>, size)
    BY DEF FindByTypeValCb
  <2> HIDE DEF hs, list, size
  <2> QED
    BY <2>1
<1>2. q.from \in Nat /\ q.to \in Nat
  BY RequestFields DEF Work
<1>3. hs \in Seq(Handles)
  BY <1>2, InRangeType DEF FindByTypeValue
<1>4. All(t, q) = hs
  BY DEF All
<1>5. t.att \in Nat /\ t.att >= 23
  BY Constants DEF Work, Base, Server, Mtus
<1>6. t.rop = 0 /\ (t.wop # 0 <=> t.pend # {}) /\ "find" \in Opcodes
      /\ "INVALID_HANDLE" \in Errors
  BY DEF Idle, Opcodes, Errors
<1> HIDE DEF hs
<1>7. ASSUME hs # <<>>, u = Respond(t, "find", list, <<>>, size) PROVE InvOf(u, q, m)
  <2>1. Len(hs) \in Nat \ {0}
    BY <1>3, <1>7
  <2>2. k \in 1 .. Len(hs) /\ 4 * k <= t.att - 1
    BY <1>5, <2>1, FourEach
  <2> HIDE DEF k
  <2>3. list \in Seq(Handles) /\ list # <<>> /\ IsPrefix(list, hs) /\ Len(list) = k
    BY <1>3, <2>2, FirstOnes
  <2> HIDE DEF list
  <2>4. size \in Nat /\ size <= t.att - 1
    BY <1>5, <2>1, <2>2, <2>3
  <2> HIDE DEF size
  <2> QED
    BY <1>4, <1>7, <2>3, <2>4, FoundEnds
<1> HIDE DEF list, size
<1>8. CASE u = Error(t, "find", "INVALID_HANDLE")
  BY <1>6, <1>8, ErrorEnds
<1>9. CASE hs = <<>> /\ u = Error(t, "find", "NOT_FOUND")
  BY <1>4, <1>6, <1>9, NotFoundEnds
<1> QED
  BY <1>1, <1>7, <1>8, <1>9

MtuTo(v, x, y) == [v EXCEPT !.mtu = x, !.chan = x, !.att = y]

WithMtu(u, v, x, y) ==
    /\ u \in Server /\ u.mtu = x /\ u.chan = x /\ u.att = y
    /\ u.rop = v.rop /\ u.wop = v.wop /\ u.ans = v.ans /\ u.val = v.val
    /\ SameQueue(u, v) /\ SameCalls(u, v)

LEMMA MtuSet ==
    ASSUME NEW v \in Server, NEW x \in Nat, NEW y \in Nat
    PROVE  WithMtu(MtuTo(v, x, y), v, x, y)
<1> DEFINE u == MtuTo(v, x, y)
<1>1. u \in Server
  BY DEF MtuTo, Server
<1>2. /\ u.mtu = x /\ u.chan = x /\ u.att = y
      /\ u.rop = v.rop /\ u.wop = v.wop /\ u.ans = v.ans /\ u.val = v.val
  BY DEF MtuTo, Server
<1>3. SameQueue(u, v) /\ SameCalls(u, v)
  BY DEF MtuTo, Server, SameQueue, SameCalls
<1> QED
  BY <1>1, <1>2, <1>3 DEF WithMtu

LEMMA MtuEnds ==
    ASSUME NEW m \in Nat, NEW t, NEW q, Work(t, q, m), Idle(t), q.op = "mtu",
           NEW u, u = ExchangeMtuCb(t, q), q.mtu \in Nat
    PROVE  InvOf(u, q, m)
<1> DEFINE a == [op |-> "mtu", err |-> "none", list |-> <<>>,
                 value |-> <<t.mtu>>, size |-> 2]
           v == Respond(t, "mtu", <<>>, <<t.mtu>>, 2)
           final == AtLeast(AtMost(q.mtu, t.mtu), DEFAULT_LE_MTU)
           att == AtLeast(t.att, final)
<1>1. /\ t \in Server /\ t.ans = <<>> /\ t.mtu \in DEFAULT_LE_MTU .. ServerMtu
      /\ t.att \in Nat /\ t.att <= ServerMtu /\ t.att >= 23
      /\ t.rop \in Nat /\ t.wop \in Nat
  <2>1. Base(t, m) /\ t.ans = <<>>
    BY DEF Work
  <2>2. t \in Server /\ Mtus(t)
    BY <2>1 DEF Base
  <2>3. /\ t.rop \in Nat /\ t.wop \in Nat /\ t.att \in Nat
        /\ t.mtu \in Nat /\ t.chan \in Nat
    BY <2>2 DEF Server
  <2>4. /\ t.mtu \in DEFAULT_LE_MTU .. ServerMtu
        /\ t.att <= ServerMtu /\ t.att >= 23
    BY <2>2, <2>3, Constants DEF Mtus
  <2> QED
    BY <2>1, <2>2, <2>3, <2>4
<1>2. final \in DEFAULT_LE_MTU .. ServerMtu /\ att \in final .. ServerMtu
      /\ att >= t.att
  BY <1>1, Constants DEF AtLeast, AtMost
<1> HIDE DEF final
<1>3. /\ v \in Server /\ v.rop = t.rop /\ v.wop = t.wop /\ v.ans = <<a>>
      /\ SameDb(v, t) /\ SameQueue(v, t) /\ SameCalls(v, t)
  <2> DEFINE none == <<>>
             value == <<t.mtu>>
             op == "mtu"
             size == 2
  <2>1. op \in Opcodes /\ none \in Seq(Nat) /\ size \in Nat
    BY DEF Opcodes
  <2>2. value \in Seq(Int)
    BY <1>1, Constants
  <2>3. v = Respond(t, op, none, value, size)
    OBVIOUS
  <2>4. a = [op |-> op, err |-> "none", list |-> none, value |-> value, size |-> size]
    OBVIOUS
  <2> HIDE DEF none, value, op, size, v, a
  <2>5. /\ v \in Server /\ v.rop = t.rop /\ v.wop = t.wop
        /\ v.ans = <<[op |-> op, err |-> "none", list |-> none,
                      value |-> value, size |-> size]>>
        /\ SameDb(v, t) /\ SameQueue(v, t) /\ SameCalls(v, t)
    BY <1>1, <2>1, <2>2, <2>3, RespondIs
  <2> QED
    BY <2>4, <2>5
<1>4. u = [v EXCEPT !.mtu = final, !.chan = final, !.att = AtLeast(@, final)]
  BY DEF ExchangeMtuCb, final
<1>5. a.op = "mtu" /\ a.size = 2 /\ a.err = "none"
  OBVIOUS
<1> HIDE DEF v, a
<1>6. v.att = t.att
  BY <1>3 DEF SameDb
<1>7. u = MtuTo(v, final, att)
  BY <1>3, <1>4, <1>6 DEF Server, MtuTo
<1> HIDE DEF att
<1>8. /\ u \in Server /\ u.rop = t.rop /\ u.wop = t.wop /\ u.ans = <<a>>
      /\ u.mtu = final /\ u.chan = final /\ u.att = att /\ u.val = t.val
      /\ SameQueue(u, t) /\ SameCalls(u, t)
  <2>1. final \in Nat /\ att \in Nat
    BY <1>2, Constants
  <2>2. v \in Server
    BY <1>3
  <2>3. WithMtu(u, v, final, att)
    BY <1>7, <2>1, <2>2, MtuSet
  <2> QED
    BY <1>3, <2>3 DEF WithMtu, SameDb, SameQueue, SameCalls
<1>9. Base(u, m)
  <2>1. Numbered(u, m)
    BY <1>8 DEF Work, Base, Numbered, SameCalls, LastId
  <2>2. Mtus(u)
    BY <1>2, <1>8, Constants DEF Mtus
  <2>3. Declared(u)
    BY <1>8 DEF Work, Base, Declared, SameQueue
  <2>4. OneWrite(u)
    BY <1>8 DEF Work, Base, OneWrite, SameCalls
  <2> QED
    BY <1>8, <2>1, <2>2, <2>3, <2>4 DEF Work, Base, SameQueue
<1>10. GoodAnswer(a, u, q)
  BY <1>1, <1>2, <1>5, <1>8, Constants DEF GoodAnswer, Ranges
<1>11. Slots(u)
  BY <1>8 DEF Slots, Work, Idle, SameCalls, SlotOps
<1>12. Answering(u, q)
  <2>1. Len(u.ans) = 1 /\ DOMAIN u.ans = {1} /\ u.ans[1] = a
    BY <1>8
  <2>2. \A p \in u.pend : p.k.op = "cmd"
    BY <1>8 DEF Work, SameCalls
  <2> QED
    BY <1>10, <2>1, <2>2 DEF Answering
<1>13. Session(u, q)
  BY <1>8 DEF Session, Work, Unbroken, SameQueue
<1> QED
  BY <1>9, <1>11, <1>12, <1>13 DEF InvOf, Work
-----------------------------------------------------------------------------
(* Reads *)

LEMMA WorkRop ==
    ASSUME NEW m \in Nat, NEW t, NEW q, Work(t, q, m), NEW x \in 0 .. m,
           NEW u, u = [t EXCEPT !.rop = x]
    PROVE  /\ Work(u, q, m) /\ u.ans = t.ans /\ u \in Server
           /\ SameDb(u, t) /\ SameQueue(u, t) /\ SameCalls(u, t)
           /\ u.rop = x /\ u.wop = t.wop
<1>0. t \in Server /\ x \in Nat
  BY DEF Work, Base
<1>1. /\ u \in Server /\ u.ans = t.ans
      /\ SameDb(u, t) /\ SameQueue(u, t) /\ SameCalls(u, t)
      /\ u.rop = x /\ u.wop = t.wop
  BY <1>0 DEF Server, SameDb, SameQueue, SameCalls
<1>2. u.rop <= m /\ u.wop <= m
  BY <1>1 DEF Work, Base
<1>3. Len(u.prep) <= MaxPrepQueueLen
      /\ \A i \in DOMAIN u.prep : ~Declares(u.prep[i].h)
  BY <1>1 DEF Work, Base, SameQueue, Declared
<1>4. Base(u, m)
  BY <1>1, <1>2, <1>3, BaseSame DEF Work
<1> QED
  BY <1>1, <1>4 DEF Work, Unbroken, SameQueue, SameCalls

LEMMA WorkWop ==
    ASSUME NEW m \in Nat, NEW t, NEW q, Work(t, q, m), NEW x \in 0 .. m,
           NEW u, u = [t EXCEPT !.wop = x]
    PROVE  /\ Work(u, q, m) /\ u.ans = t.ans /\ u \in Server
           /\ SameDb(u, t) /\ SameQueue(u, t) /\ SameCalls(u, t)
           /\ u.wop = x /\ u.rop = t.rop
<1>0. t \in Server /\ x \in Nat
  BY DEF Work, Base
<1>1. /\ u \in Server /\ u.ans = t.ans
      /\ SameDb(u, t) /\ SameQueue(u, t) /\ SameCalls(u, t)
      /\ u.wop = x /\ u.rop = t.rop
  BY <1>0 DEF Server, SameDb, SameQueue, SameCalls
<1>2. u.rop <= m /\ u.wop <= m
  BY <1>1 DEF Work, Base
<1>3. Len(u.prep) <= MaxPrepQueueLen
      /\ \A i \in DOMAIN u.prep : ~Declares(u.prep[i].h)
  BY <1>1 DEF Work, Base, SameQueue, Declared
<1>4. Base(u, m)
  BY <1>1, <1>2, <1>3, BaseSame DEF Work
<1> QED
  BY <1>1, <1>4 DEF Work, Unbroken, SameQueue, SameCalls

LEMMA ReadCompleteEnds ==
    ASSUME NEW m \in Nat, NEW t, NEW q, Work(t, q, m), t.wop # 0 <=> t.pend # {},
           q.op \in {"read", "blob"}, NEW h \in Handles, NEW k, k.op = q.op,
           NEW err \in Errors \cup {"none"}, NEW v \in Seq(Int),
           Attr[h].fr # "none" => ToSet(v) \subseteq {q.n},
           NEW u, u = ReadComplete(t, h, k, err, v)
    PROVE  InvOf(u, q, m)
<1>1. q.op \in Opcodes /\ q.op # "exec"
  BY DEF Opcodes
<1>2. CASE err # "none"
  <2>1. u = DropReadOp(Error(t, q.op, err))
    BY <1>2 DEF ReadComplete
  <2> QED
    BY <1>1, <1>2, <2>1, ErrorEnds
<1>3. CASE err = "none"
  <2> DEFINE N == AtMost(t.att - 1, Len(v))
             part == SubSeq(v, 1, N)
             list == <<h>>
             size == Len(part)
             a == [op |-> q.op, err |-> "none", list |-> list, value |-> part,
                   size |-> size]
  <2>1. u = DropReadOp(Respond(t, q.op, list, part, size))
    BY <1>3 DEF ReadComplete
  <2>2. t.att \in Nat /\ t.att >= 23
    BY Constants DEF Work, Base, Mtus, Server
  <2>3. N \in Nat /\ N <= t.att - 1 /\ N <= Len(v)
    BY <2>2 DEF AtMost
  <2> HIDE DEF N
  <2>4. /\ part \in Seq(Int) /\ Len(part) = N
        /\ \A i \in 1 .. N : part[i] = v[i]
    <3>1. \A i \in 1 .. N : v[i] \in Int
      BY <2>3
    <3> QED
      BY <2>3, <3>1, SubSeqProperties
  <2> HIDE DEF part
  <2>5. list \in Seq(Nat) /\ list[1] = h
    BY Constants
  <2>6. ToSet(part) \subseteq ToSet(v)
    <3> SUFFICES ASSUME NEW x \in ToSet(part) PROVE x \in ToSet(v)
      OBVIOUS
    <3>1. PICK i \in 1 .. N : x = part[i]
      BY <2>4 DEF ToSet
    <3>2. x = v[i] /\ i \in DOMAIN v
      BY <2>3, <2>4, <3>1
    <3> QED
      BY <3>2 DEF ToSet
  <2>7. /\ a.op = q.op /\ a.err = "none" /\ a.list = list /\ a.value = part
        /\ a.size = size
    OBVIOUS
  <2>8. size \in Nat /\ size <= t.att - 1
    BY <2>3, <2>4
  <2> HIDE DEF list, a, size
  <2>9. GoodAnswer(a, t, q)
    BY <2>5, <2>6, <2>7, <2>8 DEF GoodAnswer, Ranges
  <2> QED
    BY <1>1, <2>1, <2>4, <2>5, <2>8, <2>9, RespondEnds DEF a
<1> QED
  BY <1>2, <1>3

LEMMA ReadEnds ==
    ASSUME NEW m \in Nat, NEW t, NEW q, Work(t, q, m), Idle(t),
           q.op \in {"read", "blob"}, q.n = m,
           NEW u, u = HandleReadReq(t, q, m)
    PROVE  InvOf(u, q, m)
<1> DEFINE w == [t EXCEPT !.rop = m]
           k == [op |-> q.op, n |-> m]
           e == CheckPermissions(q.h, "r")
<1>1. \/ u = Error(t, q.op, "INVALID_HANDLE")
      \/ e # "none" /\ u = Error(t, q.op, e)
      \/ u = Error(t, q.op, "UNLIKELY")
      \/ q.h \in Handles /\ u = DbRead(w, q.h, q.off, k)
  <2>1. u = CASE q.h \notin Handles -> Error(t, q.op, "INVALID_HANDLE")
              [] e # "none" -> Error(t, q.op, e)
              [] t.rop # 0 -> Error(t, q.op, "UNLIKELY")
              [] OTHER -> DbRead(w, q.h, q.off, k)
    BY DEF HandleReadReq
  <2> HIDE DEF w, k, e
  <2> QED
    BY <2>1
<1>2. q.off \in Nat /\ q.op \in Opcodes /\ m \in 1 .. m /\ m \in Nat \ {0}
  BY RequestFields DEF Work
<1>3. /\ t.rop = 0 /\ (t.wop # 0 <=> t.pend # {}) /\ q.op # "exec"
      /\ "INVALID_HANDLE" \in Errors /\ "UNLIKELY" \in Errors
      /\ "INVALID_OFFSET" \in Errors
  BY DEF Idle, Errors
<1>4. CASE u = Error(t, q.op, "INVALID_HANDLE") \/ u = Error(t, q.op, "UNLIKELY")
  BY <1>2, <1>3, <1>4, ErrorEnds
<1>5. CASE e # "none" /\ u = Error(t, q.op, e)
  <2>1. e \in Errors
    BY <1>5, Permitted
  <2> QED
    BY <1>2, <1>3, <1>5, <2>1, ErrorEnds
<1>6. ASSUME q.h \in Handles, u = DbRead(w, q.h, q.off, k) PROVE InvOf(u, q, m)
  <2>1. /\ Work(w, q, m) /\ w \in Server /\ w.rop = m /\ w.wop = t.wop
        /\ SameCalls(w, t)
    BY <1>2, WorkRop
  <2> DEFINE len == Len(w.val[q.h])
             v == SubSeq(w.val[q.h], q.off + 1, len)
  <2>2. \/ Attr[q.h].fr # "none" /\ u = CallRead(w, q.h, q.off, k)
        \/ Attr[q.h].fr = "none" /\ u = ReadComplete(w, q.h, k, "INVALID_OFFSET", <<>>)
        \/ Attr[q.h].fr = "none" /\ q.off <= len /\ u = ReadComplete(w, q.h, k, "none", v)
    <3>1. len \in Nat
      BY <1>6, <2>1 DEF Server
    <3> HIDE DEF w, k, v
    <3>2. u = CASE Attr[q.h].fr # "none" -> CallRead(w, q.h, q.off, k)
                [] Attr[q.h].fr = "none" /\ q.off > len ->
                     ReadComplete(w, q.h, k, "INVALID_OFFSET", <<>>)
                [] OTHER -> ReadComplete(w, q.h, k, "none", v)
      BY <1>6 DEF DbRead, v
    <3> HIDE DEF len
    <3> QED
      BY <1>2, <3>1, <3>2
  <2>3. k \in Kept /\ k.op = q.op /\ k.n = q.n
    BY DEF Kept, ReadKept
  <2>4. w.val[q.h] \in Seq(Int) /\ (w.wop # 0 <=> w.pend # {}) /\ w.rop # 0
    BY <1>2, <1>3, <1>6, <2>1 DEF Server, SameCalls
  <2> HIDE DEF w, k
  <2>5. CASE Attr[q.h].fr # "none" /\ u = CallRead(w, q.h, q.off, k)
    BY <1>2, <1>6, <2>1, <2>3, <2>4, <2>5, WaitsForRead DEF ReadOps, SlotOps
  <2>6. CASE Attr[q.h].fr = "none" /\ u = ReadComplete(w, q.h, k, "INVALID_OFFSET", <<>>)
    <3> DEFINE none == <<>>
    <3>1. none \in Seq(Int) /\ u = ReadComplete(w, q.h, k, "INVALID_OFFSET", none)
      BY <2>6
    <3> HIDE DEF none
    <3> QED
      BY <1>3, <1>6, <2>1, <2>3, <2>4, <2>6, <3>1, ReadCompleteEnds
  <2>7. CASE Attr[q.h].fr = "none" /\ q.off <= len /\ u = ReadComplete(w, q.h, k, "none", v)
    <3>1. v \in Seq(Int)
      BY <1>2, <2>4, <2>7
    <3> HIDE DEF v
    <3> QED
      BY <1>6, <2>1, <2>3, <2>4, <2>7, <3>1, ReadCompleteEnds
  <2> QED
    BY <2>2, <2>5, <2>6, <2>7
<1> QED
  BY <1>1, <1>4, <1>5, <1>6
-----------------------------------------------------------------------------
(* Read By Type *)

LEMMA Prefix ==
    ASSUME NEW S, NEW a \in Seq(S), NEW b \in Seq(S)
    PROVE  a # <<>> => IsPrefix(a, a \o b)
<1> SUFFICES ASSUME a # <<>> PROVE IsPrefix(a, a \o b)
  OBVIOUS
<1> DEFINE x == a \o b
<1>1. /\ x \in Seq(S) /\ Len(x) = Len(a) + Len(b)
      /\ \A i \in 1 .. Len(a) + Len(b) :
            x[i] = IF i <= Len(a) THEN a[i] ELSE b[i - Len(a)]
  BY ConcatProperties
<1> HIDE DEF x
<1>2. Len(a) \in Nat /\ Len(b) \in Nat
  OBVIOUS
<1>3. \A i \in 1 .. Len(a) : x[i] = a[i] /\ a[i] \in S
  BY <1>1, <1>2
<1> DEFINE y == SubSeq(x, 1, Len(a))
<1>4. y \in Seq(S) /\ Len(y) = Len(a) /\ \A i \in 1 .. Len(a) : y[i] = a[i]
  <2>1. \A i \in 1 .. Len(a) : x[i] \in S
    BY <1>3
  <2> QED
    BY <1>2, <1>3, <2>1, SubSeqProperties
<1> HIDE DEF y
<1>5. y = a
  BY <1>4, SeqEqual
<1>6. SubSeq(a, 1, Len(a)) = a
  BY SubSeqFull
<1>7. IsPrefix(a, x)
  BY <1>1, <1>2, <1>5, <1>6 DEF IsPrefix, y
<1> QED
  BY <1>7 DEF x

(* the next one of b joins a *)
LEMMA OneMore ==
    ASSUME NEW S, NEW a \in Seq(S), NEW b \in Seq(S), NEW h \in S
    PROVE  /\ a \o <<h>> \o b = Append(a, h) \o b
           /\ Append(a, h) \in Seq(S) /\ Append(a, h) # <<>>
           /\ a \o <<h>> \o b \in Seq(S) /\ a \o <<h>> \o b # <<>>
           /\ a # <<>> => IsPrefix(a, a \o <<h>> \o b)
           /\ IsPrefix(Append(a, h), a \o <<h>> \o b)
<1> DEFINE y == Append(a, h)
<1>1. y \in Seq(S) /\ y = a \o <<h>> /\ Len(y) = Len(a) + 1
  BY AppendProperties, AppendIsConcat
<1>2. y # <<>>
  BY <1>1
<1> DEFINE x == y \o b
<1>3. x = a \o <<h>> \o b
  BY <1>1
<1> DEFINE c == <<h>> \o b
<1>4. <<h>> \in Seq(S)
  OBVIOUS
<1> DEFINE o == <<h>>
<1> HIDE DEF o
<1>5. c \in Seq(S)
  BY <1>4, ConcatProperties DEF o
<1>6. a \o o \o b = a \o (o \o b)
  BY <1>4, ConcatAssociative DEF o
<1> HIDE DEF y, c
<1>7. x \in Seq(S) /\ Len(x) = Len(y) + Len(b)
  BY <1>1, ConcatProperties
<1>8. x # <<>>
  BY <1>1, <1>7
<1>9. x = a \o c
  BY <1>3, <1>6 DEF c, o
<1>10. a # <<>> => IsPrefix(a, x)
  BY <1>5, <1>9, Prefix
<1>11. IsPrefix(y, x)
  BY <1>1, <1>2, Prefix
<1> HIDE DEF x
<1> QED
  BY <1>1, <1>2, <1>3, <1>7, <1>8, <1>10, <1>11, Zenon DEF y, x

LEMMA HeadJoins ==
    ASSUME NEW S, NEW a \in Seq(S), NEW b \in Seq(S), b # <<>>
    PROVE  /\ a \o b = a \o <<Head(b)>> \o Tail(b)
           /\ Head(b) \in S /\ Tail(b) \in Seq(S)
<1> DEFINE h == Head(b)
           c == Tail(b)
           o == <<h>>
<1>1. h \in S /\ c \in Seq(S)
  BY HeadTailProperties
<1>2. o \in Seq(S)
  BY <1>1
<1>3. b = o \o c
  OBVIOUS
<1> HIDE DEF h, c, o
<1>4. a \o o \o c = a \o (o \o c)
  BY <1>1, <1>2, ConcatAssociative
<1>5. a \o b = a \o o \o c
  BY <1>3, <1>4, Zenon
<1> QED
  BY <1>1, <1>5 DEF h, c, o




(* what the PDU holds so far, and what is left *)
TypeSoFar(t, q, k) ==
    /\ k \in TypeKept /\ k.n = q.n /\ q.op = "type"
    /\ k.len <= t.att - 1 /\ (k.len # 0 => k.list # <<>>)
    /\ All(t, q) \in Seq(Handles) /\ All(t, q) # <<>>
    /\ k.done => k.list # <<>> /\ IsPrefix(k.list, All(t, q))
    /\ ~k.done => All(t, q) = k.list \o k.todo

LEMMA TypeJoins ==
    ASSUME NEW m \in Nat, NEW t, Base(t, m), NEW q, NEW h \in Handles,
           NEW k \in TypeKept, k.n = q.n, TypeGoing(t, q, k, h),
           NEW v \in Seq(Int), NEW u, u = ReadByTypeComplete(t, h, k, v)
    PROVE  TypeSoFar(t, q, u)
<1> DEFINE first == k.len = 0
           vlen == IF first THEN AtMost(AtMost(t.att - 4, 253), Len(v))
                   ELSE k.vlen
           len == IF first THEN 1 ELSE k.len
           stop == \/ Len(v) # vlen /\ ~first
                   \/ Surpasses(len + vlen + 2, t.att)
           list == Append(k.list, h)
           value == k.value \o SubSeq(v, 1, vlen)
<1>1. k.list \in Seq(Handles) /\ k.todo \in Seq(Handles) /\ k.len \in Nat
      /\ k.vlen \in Nat /\ k.value \in Seq(Int) /\ Len(v) \in Nat
  BY DEF TypeKept
<1>2. t.att \in Nat /\ t.att >= 23
  BY Constants DEF Base, Mtus, Server
<1>3. /\ q.op = "type" /\ All(t, q) = k.list \o <<h>> \o k.todo
      /\ k.len <= t.att - 1 /\ k.done = FALSE /\ (k.len # 0 => k.list # <<>>)
  BY DEF TypeGoing, TypeKept
<1>4. /\ All(t, q) = list \o k.todo
      /\ list \in Seq(Handles) /\ list # <<>>
      /\ All(t, q) \in Seq(Handles) /\ All(t, q) # <<>>
      /\ k.list # <<>> => IsPrefix(k.list, All(t, q))
      /\ IsPrefix(list, All(t, q))
  <2>1. /\ k.list \o <<h>> \o k.todo = list \o k.todo
        /\ list \in Seq(Handles) /\ list # <<>>
        /\ k.list \o <<h>> \o k.todo \in Seq(Handles)
        /\ k.list \o <<h>> \o k.todo # <<>>
        /\ k.list # <<>> => IsPrefix(k.list, k.list \o <<h>> \o k.todo)
        /\ IsPrefix(list, k.list \o <<h>> \o k.todo)
    BY <1>1, OneMore
  <2> HIDE DEF list
  <2> QED
    BY <2>1, <1>3
<1> HIDE DEF list
<1>5. /\ vlen \in Nat /\ len \in 1 .. t.att - 1
      /\ first => len + vlen + 2 <= t.att - 1
  <2>1. k.len \in 0 .. t.att - 1
    <3>1. k.len <= t.att - 1
      BY <1>3
    <3> QED
      BY <1>1, <1>2, <3>1
  <2>2. CASE first
    <3>1. vlen = AtMost(AtMost(t.att - 4, 253), Len(v)) /\ len = 1
      BY <2>2
    <3> DEFINE a == AtMost(t.att - 4, 253)
    <3>2. a \in Nat /\ a <= t.att - 4
      BY <1>2 DEF AtMost
    <3> HIDE DEF vlen, len, a
    <3>3. vlen \in Nat /\ vlen <= a
      BY <1>1, <3>1, <3>2 DEF AtMost, a
    <3> QED
      BY <1>2, <3>1, <3>2, <3>3
  <2>3. CASE ~first
    BY <1>1, <1>2, <2>1, <2>3
  <2> QED
    BY <2>2, <2>3
<1>6. ASSUME ~stop PROVE value \in Seq(Int)
  <2>1. vlen <= Len(v)
    BY <1>1, <1>2, <1>6 DEF AtMost
  <2>2. \A i \in 1 .. vlen : v[i] \in Int
    BY <1>1, <1>5, <2>1
  <2> HIDE DEF vlen
  <2>3. SubSeq(v, 1, vlen) \in Seq(Int)
    BY <1>5, <2>2, SubSeqProperties
  <2> QED
    BY <1>1, <2>3, ConcatProperties
<1>7. ~stop => len + vlen + 2 <= t.att - 1
  BY <1>2, <1>5 DEF Surpasses
<1>8. stop => k.list # <<>> /\ len = k.len
  BY <1>1, <1>2, <1>3, <1>5 DEF Surpasses
<1>9. u = IF stop THEN [k EXCEPT !.vlen = vlen, !.len = len, !.done = TRUE]
          ELSE [k EXCEPT !.vlen = vlen, !.len = len + vlen + 2, !.list = list,
                         !.value = value, !.done = len + vlen + 2 = t.att - 1]
  <2>1. [k EXCEPT !.vlen = vlen, !.len = len + vlen + 2, !.list = Append(@, h),
                  !.value = @ \o SubSeq(v, 1, vlen),
                  !.done = len + vlen + 2 = t.att - 1]
         = [k EXCEPT !.vlen = vlen, !.len = len + vlen + 2, !.list = list,
                     !.value = value, !.done = len + vlen + 2 = t.att - 1]
    BY DEF TypeKept, list
  <2>2. u = IF stop THEN [k EXCEPT !.vlen = vlen, !.len = len, !.done = TRUE]
            ELSE [k EXCEPT !.vlen = vlen, !.len = len + vlen + 2,
                           !.list = Append(@, h),
                           !.value = @ \o SubSeq(v, 1, vlen),
                           !.done = len + vlen + 2 = t.att - 1]
    BY DEF ReadByTypeComplete
  <2> QED
    BY <2>1, <2>2
<1> HIDE DEF stop, vlen, len, value
<1>10. CASE stop
  <2>1. /\ u \in TypeKept /\ u.n = k.n /\ u.list = k.list /\ u.len = k.len
        /\ u.done = TRUE
    BY <1>5, <1>8, <1>9, <1>10 DEF TypeKept
  <2> QED
    BY <1>3, <1>4, <1>8, <1>10, <2>1 DEF TypeSoFar
<1>11. CASE ~stop
  <2>1. value \in Seq(Int) /\ len + vlen + 2 <= t.att - 1 /\ len + vlen + 2 \in Nat
    BY <1>5, <1>6, <1>7, <1>11
  <2>2. /\ u \in TypeKept /\ u.n = k.n /\ u.list = list /\ u.len = len + vlen + 2
        /\ u.todo = k.todo
    BY <1>4, <1>5, <1>9, <1>11, <2>1 DEF TypeKept
  <2> QED
    BY <1>3, <1>4, <2>1, <2>2 DEF TypeSoFar
<1> QED
  BY <1>10, <1>11

(* a turn of the two functions that call each other *)
ReadTurn(t, j) ==
    LET h == Head(j.todo)
    IN  IF ~j.done /\ j.todo # <<>> /\ AtOnce(h)
        THEN ReadByTypeComplete(t, h, [j EXCEPT !.todo = Tail(@)], t.val[h])
        ELSE j

(* the handle of the next value is taken from db_data *)
Taken(j) == [j EXCEPT !.todo = Tail(@)]

LEMMA TypeNext ==
    ASSUME NEW t, NEW q, NEW j, TypeSoFar(t, q, j), ~j.done, j.todo # <<>>,
           NEW k, k = Taken(j)
    PROVE  /\ Head(j.todo) \in Handles /\ k \in TypeKept /\ k.n = q.n
           /\ k.op = "type" /\ TypeGoing(t, q, k, Head(j.todo))
<1>1. /\ j \in TypeKept /\ j.n = q.n /\ q.op = "type" /\ j.len <= t.att - 1
      /\ j.len # 0 => j.list # <<>>
  BY DEF TypeSoFar
<1>2. j.list \in Seq(Handles) /\ j.todo \in Seq(Handles)
  BY <1>1 DEF TypeKept
<1> DEFINE h == Head(j.todo)
           rest == Tail(j.todo)
<1>3. j.list \o j.todo = j.list \o <<h>> \o rest /\ h \in Handles
      /\ rest \in Seq(Handles)
  BY <1>2, HeadJoins
<1>4. k = [j EXCEPT !.todo = rest]
  BY <1>1 DEF TypeKept, Taken
<1>r. rest \in Seq(Handles)
  BY <1>3
<1>5. All(t, q) = j.list \o j.todo
  BY DEF TypeSoFar
<1> HIDE DEF rest, h
<1>6. /\ k \in TypeKept /\ k.n = q.n /\ k.op = "type" /\ k.list = j.list
      /\ k.len = j.len /\ k.done = j.done /\ k.todo = rest
  BY <1>1, <1>4, <1>r DEF TypeKept
<1>7. All(t, q) = k.list \o <<h>> \o k.todo
  BY <1>3, <1>5, <1>6
<1>8. TypeGoing(t, q, k, h)
  BY <1>1, <1>6, <1>7, Zenon DEF TypeGoing
<1> QED
  BY <1>3, <1>6, <1>8 DEF h

LEMMA TypeTurn ==
    ASSUME NEW m \in Nat, NEW t, Base(t, m), NEW q, NEW j, TypeSoFar(t, q, j)
    PROVE  TypeSoFar(t, q, ReadTurn(t, j))
<1> DEFINE h == Head(j.todo)
           k == [j EXCEPT !.todo = Tail(@)]
<1>1. CASE ~j.done /\ j.todo # <<>> /\ AtOnce(h)
  <2>1. /\ h \in Handles /\ k \in TypeKept /\ k.n = q.n
        /\ TypeGoing(t, q, k, h)
    <3>1. k = Taken(j) /\ ~j.done /\ j.todo # <<>>
      BY <1>1 DEF Taken
    <3> HIDE DEF k
    <3> QED
      BY <3>1, TypeNext
  <2>2. t.val[h] \in Seq(Int)
    BY <2>1 DEF Base, Server
  <2> HIDE DEF k, h
  <2>3. ReadTurn(t, j) = ReadByTypeComplete(t, h, k, t.val[h])
    BY <1>1 DEF ReadTurn, k, h
  <2> QED
    BY <2>1, <2>2, <2>3, TypeJoins
<1>2. CASE ~(~j.done /\ j.todo # <<>> /\ AtOnce(h))
  BY <1>2 DEF ReadTurn
<1> QED
  BY <1>1, <1>2

LEMMA ReadOnIs ==
    ASSUME NEW m \in Nat, NEW t, Base(t, m), NEW q, NEW k, TypeSoFar(t, q, k)
    PROVE  TypeSoFar(t, q, ReadOn(t, k))
<1> DEFINE Is(f, N) == f = [i \in 0 .. N |->
                              IF i = 0 THEN k ELSE ReadTurn(t, f[i - 1])]
           R == {N \in Nat : \E f : Is(f, N)}
           L == Len(k.todo)
<1>0. L \in Nat
  BY DEF TypeSoFar, TypeKept
<1>1. \E f : Is(f, 0)
  <2>1. Is([i \in {0} |-> k], 0)
    OBVIOUS
  <2> QED
    BY <2>1
<1>2. ASSUME NEW N \in Nat, NEW f, Is(f, N) PROVE \E g : Is(g, N + 1)
  <2> DEFINE g == [i \in 0 .. N + 1 |-> IF i <= N THEN f[i]
                                         ELSE ReadTurn(t, f[N])]
  <2>2. Is(g, N + 1)
    BY <1>2
  <2> HIDE DEF g, Is
  <2> QED
    BY <2>2
<1> HIDE DEF Is
<1>3. Nat \subseteq R
  <2>1. 0 \in R
    BY <1>1
  <2>2. ASSUME NEW N \in Nat, N \in R PROVE N + 1 \in R
    BY <1>2, <2>2
  <2> HIDE DEF R
  <2> QED
    BY <2>1, <2>2, Induct
<1>4. \E f : Is(f, L)
  BY <1>0, <1>3
<1> DEFINE u == CHOOSE f : f = [i \in 0 .. L |->
                              IF i = 0 THEN k ELSE ReadTurn(t, f[i - 1])]
<1>5. u = [i \in 0 .. L |-> IF i = 0 THEN k ELSE ReadTurn(t, u[i - 1])]
  BY <1>4, Zenon DEF Is
<1>6. ReadOn(t, k) = u[L]
  BY ZenonT(60) DEF ReadOn, ReadTurn
<1> HIDE DEF u, L
<1> DEFINE S == {i \in 0 .. L : TypeSoFar(t, q, u[i])}
<1>7. 0 \in S
  <2>1. u[0] = k
    BY <1>0, <1>5
  <2> QED
    BY <1>0, <2>1
<1>8. ASSUME NEW i \in 0 .. L, i > 0, i - 1 \in S PROVE i \in S
  <2>1. u[i] = ReadTurn(t, u[i - 1])
    BY <1>5, <1>8
  <2>2. TypeSoFar(t, q, u[i - 1])
    BY <1>8
  <2>3. TypeSoFar(t, q, u[i])
    BY <2>1, <2>2, TypeTurn
  <2> QED
    BY <2>3
<1> HIDE DEF S
<1>9. 0 .. L \subseteq S
  BY <1>0, <1>7, <1>8, InductUpTo
<1>10. L \in S
  BY <1>0, <1>9
<1> QED
  BY <1>6, <1>10 DEF S

LEMMA ProcessTypeEnds ==
    ASSUME NEW m \in Nat, NEW t, NEW q, Work(t, q, m), t.wop # 0 <=> t.pend # {},
           t.rop # 0, NEW k, TypeSoFar(t, q, k),
           NEW u, u = ProcessReadByType(t, k)
    PROVE  InvOf(u, q, m)
<1> DEFINE j == ReadOn(t, k)
           h == Head(j.todo)
           e == CheckPermissions(h, "r")
           rest == Taken(j)
<1>1. TypeSoFar(t, q, j)
  BY ReadOnIs DEF Work
<1>2. \/ (j.done \/ j.todo = <<>>)
         /\ u = DropReadOp(Respond(t, "type", j.list, j.value, j.len))
      \/ e # "none" /\ u = DropReadOp(Error(t, "type", e))
      \/ ~j.done /\ j.todo # <<>> /\ u = CallRead(t, h, 0, rest)
  <2>1. u = CASE j.done \/ j.todo = <<>> ->
                   DropReadOp(Respond(t, "type", j.list, j.value, j.len))
              [] ~j.done /\ j.todo # <<>> /\ e # "none" ->
                   DropReadOp(Error(t, "type", e))
              [] OTHER -> CallRead(t, h, 0, rest)
    BY DEF ProcessReadByType, Taken
  <2> HIDE DEF j, h, e, rest
  <2> QED
    BY <2>1
<1> HIDE DEF j
<1>3. /\ j \in TypeKept /\ j.n = q.n /\ q.op = "type" /\ j.len <= t.att - 1
      /\ j.list \in Seq(Handles) /\ j.value \in Seq(Int) /\ j.len \in Nat
      /\ j.todo \in Seq(Handles)
  BY <1>1 DEF TypeSoFar, TypeKept
<1>4. "type" \in Opcodes /\ q.op # "exec"
  BY <1>3 DEF Opcodes
<1>5. CASE /\ j.done \/ j.todo = <<>>
           /\ u = DropReadOp(Respond(t, "type", j.list, j.value, j.len))
  <2> DEFINE a == [op |-> "type", err |-> "none", list |-> j.list,
                   value |-> j.value, size |-> j.len]
  <2>1. j.list # <<>> /\ IsPrefix(j.list, All(t, q))
    <3>1. CASE j.done
      BY <1>1, <3>1 DEF TypeSoFar
    <3>2. CASE ~j.done
      <4>1. All(t, q) = j.list \o j.todo /\ All(t, q) # <<>>
        BY <1>1, <3>2 DEF TypeSoFar
      <4>2. j.todo = <<>>
        BY <1>5, <3>2
      <4>3. j.list \o j.todo = j.list
        BY <1>3, <4>2, ConcatEmptySeq
      <4>4. j.list # <<>>
        BY <4>1, <4>3
      <4>5. IsPrefix(j.list, j.list \o j.todo)
        BY <1>3, <4>4, Prefix
      <4> QED
        BY <4>1, <4>4, <4>5
    <3> QED
      BY <3>1, <3>2
  <2>2. j.list \in Seq(Nat)
    <3>1. Handles \subseteq Nat
      BY Constants
    <3> QED
      BY <1>3, <3>1, SeqMonotonic
  <2>3. a.op = "type" /\ a.err = "none" /\ a.list = j.list /\ a.size = j.len
    OBVIOUS
  <2> HIDE DEF a
  <2>4. GoodAnswer(a, t, q)
    BY <1>3, <2>1, <2>3 DEF GoodAnswer
  <2> QED
    BY <1>3, <1>4, <1>5, <2>2, <2>4, RespondEnds DEF a
<1>6. CASE e # "none" /\ u = DropReadOp(Error(t, "type", e))
  <2>1. e \in Errors
    BY <1>6, Permitted
  <2> HIDE DEF e
  <2> QED
    BY <1>4, <1>6, <2>1, ErrorEnds
<1>7. CASE ~j.done /\ j.todo # <<>> /\ u = CallRead(t, h, 0, rest)
  <2> HIDE DEF h, rest
  <2>1. /\ h \in Handles /\ rest \in TypeKept /\ rest.n = q.n
        /\ rest.op = "type" /\ TypeGoing(t, q, rest, h)
    <3>1. rest = Taken(j)
      BY DEF rest
    <3> QED
      BY <1>1, <1>7, <3>1, TypeNext DEF h
  <2>2. rest \in Kept /\ rest.op \in ReadOps /\ rest.op \in SlotOps
        /\ rest.op \notin {"mult", "vl"} /\ 0 \in Nat
    BY <2>1 DEF Kept, ReadOps, SlotOps
  <2> QED
    BY <1>3, <1>7, <2>1, <2>2, WaitsForRead
<1> QED
  BY <1>2, <1>5, <1>6, <1>7

LEMMA TypeEnds ==
    ASSUME NEW m \in Nat, NEW t, NEW q, Work(t, q, m), Idle(t),
           q.op = "type", q.n = m, NEW u, u = ReadByTypeCb(t, q, m)
    PROVE  InvOf(u, q, m)
<1> DEFINE w == [t EXCEPT !.rop = m]
           hs == ReadByType(q.from, q.to, q.type)
           k == [op |-> "type", n |-> m, todo |-> hs, list |-> <<>>,
                 value |-> <<>>, len |-> 0, vlen |-> 0, done |-> FALSE]
<1>1. \/ u = Error(t, "type", "INVALID_HANDLE")
      \/ hs = <<>> /\ u = Error(t, "type", "NOT_FOUND")
      \/ u = Error(t, "type", "UNLIKELY")
      \/ hs # <<>> /\ u = ProcessReadByType(w, k)
  <2>1. u = CASE BadRange(q) -> Error(t, "type", "INVALID_HANDLE")
              [] hs = <<>> -> Error(t, "type", "NOT_FOUND")
              [] t.rop # 0 -> Error(t, "type", "UNLIKELY")
              [] OTHER -> ProcessReadByType(w, k)
    BY DEF ReadByTypeCb
  <2> HIDE DEF w, hs, k
  <2> QED
    BY <2>1
<1>2. q.from \in Nat /\ q.to \in Nat /\ m \in 0 .. m /\ m # 0
  BY RequestFields DEF Work
<1>3. /\ t.rop = 0 /\ (t.wop # 0 <=> t.pend # {}) /\ q.op # "exec"
      /\ "INVALID_HANDLE" \in Errors /\ "UNLIKELY" \in Errors
      /\ "type" \in Opcodes
  BY DEF Idle, Errors, Opcodes
<1>4. hs \in Seq(Handles)
  <2>1. {h \in Handles : Attr[h].type = q.type} \subseteq Handles
    OBVIOUS
  <2> QED
    BY <1>2, <2>1, InRangeType DEF ReadByType, ReadByGroupType
<1>5. All(t, q) = hs /\ All(w, q) = hs
  BY DEF All
<1> HIDE DEF hs
<1>6. CASE \/ u = Error(t, "type", "INVALID_HANDLE")
           \/ u = Error(t, "type", "UNLIKELY")
  BY <1>3, <1>6, ErrorEnds
<1>7. CASE hs = <<>> /\ u = Error(t, "type", "NOT_FOUND")
  BY <1>3, <1>5, <1>7, NotFoundEnds
<1>8. CASE hs # <<>> /\ u = ProcessReadByType(w, k)
  <2>1. /\ Work(w, q, m) /\ w \in Server /\ w.rop = m /\ w.wop = t.wop
        /\ SameCalls(w, t)
    BY <1>2, WorkRop
  <2> HIDE DEF w
  <2>2. w.att \in Nat /\ w.att >= 23
    <3>1. w.chan \in DEFAULT_LE_MTU .. w.att
      BY <2>1 DEF Work, Base, Mtus
    <3>2. w.att \in Nat
      BY <2>1 DEF Server
    <3> QED
      BY <3>1, <3>2, Constants
  <2>3. /\ k \in TypeKept /\ k.n = m /\ k.len = 0 /\ k.done = FALSE
        /\ k.list = <<>> /\ k.todo = hs
    BY <1>4 DEF TypeKept
  <2> HIDE DEF k
  <2>4. All(w, q) = k.list \o k.todo
    <3>1. <<>> \o hs = hs
      BY <1>4, ConcatEmptySeq
    <3> QED
      BY <1>5, <2>3, <3>1
  <2>5. TypeSoFar(w, q, k)
    <3>1. k.len <= w.att - 1 /\ ~(k.len # 0) /\ ~k.done
      BY <2>2, <2>3
    <3>2. k.n = q.n /\ All(w, q) \in Seq(Handles) /\ All(w, q) # <<>>
      BY <1>4, <1>5, <1>8, <2>3
    <3> QED
      BY <2>3, <2>4, <3>1, <3>2, Zenon DEF TypeSoFar
  <2>6. w.wop # 0 <=> w.pend # {}
    BY <1>3, <2>1 DEF SameCalls
  <2> QED
    BY <1>2, <1>8, <2>1, <2>5, <2>6, ProcessTypeEnds
<1> QED
  BY <1>1, <1>6, <1>7, <1>8
-----------------------------------------------------------------------------
(* Read Multiple *)

(* what the PDU holds so far *)
MultSoFar(t, q, k) ==
    /\ k \in MultKept /\ k.op = q.op /\ k.n = q.n /\ k.cur >= 1
    /\ k.op = "mult" => k.mtu = t.att /\ k.len <= k.mtu - 1

LEMMA JoinIs ==
    ASSUME NEW t, NEW q, NEW k, MultSoFar(t, q, k), k.cur <= Len(k.hs),
           NEW v \in Seq(Int), NEW u, u = JoinMultiple(k, v)
    PROVE  MultSoFar(t, q, u)
<1> DEFINE head == IF k.op = "vl" THEN 2 ELSE 0
           room == k.mtu - k.len - head - 1
           part == IF room < 0 THEN v ELSE SubSeq(v, 1, AtMost(Len(v), room))
           len == k.len + head + Len(part)
           value == k.value \o part
           list == Append(k.list, k.hs[k.cur])
<1>1. /\ k.op \in {"mult", "vl"} /\ k.n \in Nat /\ k.hs \in Seq(Nat)
      /\ k.cur \in Nat /\ k.mtu \in Nat /\ k.len \in Nat
      /\ k.value \in Seq(Int) /\ k.list \in Seq(Nat) /\ Len(v) \in Nat
  BY DEF MultSoFar, MultKept
<1>2. k.cur \in 1 .. Len(k.hs)
  BY <1>1 DEF MultSoFar
<1>3. k.hs[k.cur] \in Nat
  BY <1>1, <1>2
<1>4. list \in Seq(Nat)
  BY <1>1, <1>3, AppendProperties
<1>5. head \in Nat /\ room \in Int /\ (k.op = "mult" => head = 0)
  BY <1>1
<1>6. part \in Seq(Int) /\ (room >= 0 => Len(part) <= room)
  <2>1. CASE room < 0
    BY <1>5, <2>1
  <2>2. CASE room >= 0
    <3> DEFINE N == AtMost(Len(v), room)
    <3> HIDE DEF room
    <3>0. ~(room < 0)
      BY <1>5, <2>2
    <3>2. part = SubSeq(v, 1, N)
      BY <3>0, Zenon
    <3> HIDE DEF part
    <3>1. N \in Nat /\ N <= room /\ N <= Len(v)
      BY <1>1, <1>5, <2>2 DEF AtMost
    <3> HIDE DEF N
    <3>3. \A i \in 1 .. N : v[i] \in Int
      BY <1>1, <3>1
    <3>4. SubSeq(v, 1, N) \in Seq(Int) /\ Len(SubSeq(v, 1, N)) = N
      BY <3>1, <3>3, SubSeqProperties
    <3> QED
      BY <3>1, <3>2, <3>4
  <2> QED
    BY <1>5, <2>1, <2>2
<1>7. k.op = "mult" => k.mtu = t.att /\ room = k.mtu - k.len - 1 /\ room >= 0
  BY <1>1, <1>5 DEF MultSoFar
<1> HIDE DEF part
<1>8. value \in Seq(Int) /\ Len(part) \in Nat
  BY <1>1, <1>6, ConcatProperties
<1> HIDE DEF room
<1>9. len \in Nat /\ (k.op = "mult" => len <= k.mtu - 1)
  BY <1>1, <1>5, <1>6, <1>7, <1>8
<1>10. u = [k EXCEPT !.cur = k.cur + 1, !.len = len, !.value = value,
                     !.list = list]
  <2>1. u = [k EXCEPT !.cur = @ + 1, !.len = @ + head + Len(part),
                      !.value = @ \o part, !.list = Append(@, k.hs[k.cur])]
    BY DEF JoinMultiple, part, room
  <2> QED
    BY <1>1, <2>1 DEF MultSoFar, MultKept
<1> HIDE DEF len, value, list, head
<1>11. k.cur + 1 \in Nat /\ k.cur + 1 >= 1
  BY <1>1
<1>12. /\ u \in MultKept /\ u.op = k.op /\ u.n = k.n /\ u.cur = k.cur + 1
       /\ u.mtu = k.mtu /\ u.len = len
  BY <1>4, <1>8, <1>9, <1>10, <1>11 DEF MultSoFar, MultKept
<1> QED
  BY <1>7, <1>9, <1>11, <1>12 DEF MultSoFar

(* a turn of the two functions that call each other *)
MultTurn(t, j) ==
    LET h == j.hs[j.cur]
    IN  IF ~MultipleRead(j) /\ h \in Handles /\ AtOnce(h)
        THEN JoinMultiple(j, t.val[h])
        ELSE j

LEMMA MultNext ==
    ASSUME NEW t, NEW q, NEW j, MultSoFar(t, q, j), ~MultipleRead(j)
    PROVE  j.cur <= Len(j.hs) /\ MultGoing(t, j)
<1>1. /\ j.op \in {"mult", "vl"} /\ j.hs \in Seq(Nat)
      /\ j.cur \in Nat /\ j.mtu \in Nat /\ j.len \in Nat /\ j.cur >= 1
      /\ j.op = "mult" => j.mtu = t.att /\ j.len <= j.mtu - 1
  BY DEF MultSoFar, MultKept
<1>2. j.cur <= Len(j.hs)
  BY <1>1 DEF MultipleRead
<1>3. j.op = "mult" => j.len # j.mtu - 1
  BY <1>1 DEF MultipleRead
<1> QED
  BY <1>1, <1>2, <1>3 DEF MultGoing

LEMMA MultStep ==
    ASSUME NEW m \in Nat, NEW t, Base(t, m), NEW q, NEW j, MultSoFar(t, q, j)
    PROVE  MultSoFar(t, q, MultTurn(t, j))
<1> DEFINE h == j.hs[j.cur]
<1>1. CASE ~MultipleRead(j) /\ h \in Handles /\ AtOnce(h)
  <2>1. t.val[h] \in Seq(Int)
    BY <1>1 DEF Base, Server
  <2>2. MultTurn(t, j) = JoinMultiple(j, t.val[h])
    BY <1>1 DEF MultTurn
  <2>3. j.cur <= Len(j.hs)
    BY <1>1, MultNext
  <2> HIDE DEF h
  <2> QED
    BY <2>1, <2>2, <2>3, JoinIs
<1>2. CASE ~(~MultipleRead(j) /\ h \in Handles /\ AtOnce(h))
  BY <1>2 DEF MultTurn
<1> QED
  BY <1>1, <1>2

LEMMA ReadMultipleOnIs ==
    ASSUME NEW m \in Nat, NEW t, Base(t, m), NEW q, NEW k, MultSoFar(t, q, k)
    PROVE  MultSoFar(t, q, ReadMultipleOn(t, k))
<1> DEFINE Is(f, N) == f = [i \in 0 .. N |->
                              IF i = 0 THEN k ELSE MultTurn(t, f[i - 1])]
           R == {N \in Nat : \E f : Is(f, N)}
           L == Len(k.hs)
<1>0. L \in Nat
  BY DEF MultSoFar, MultKept
<1>1. \E f : Is(f, 0)
  <2>1. Is([i \in {0} |-> k], 0)
    OBVIOUS
  <2> QED
    BY <2>1
<1>2. ASSUME NEW N \in Nat, NEW f, Is(f, N) PROVE \E g : Is(g, N + 1)
  <2> DEFINE g == [i \in 0 .. N + 1 |-> IF i <= N THEN f[i]
                                         ELSE MultTurn(t, f[N])]
  <2>2. Is(g, N + 1)
    BY <1>2
  <2> HIDE DEF g, Is
  <2> QED
    BY <2>2
<1> HIDE DEF Is
<1>3. Nat \subseteq R
  <2>1. 0 \in R
    BY <1>1
  <2>2. ASSUME NEW N \in Nat, N \in R PROVE N + 1 \in R
    BY <1>2, <2>2
  <2> HIDE DEF R
  <2> QED
    BY <2>1, <2>2, Induct
<1>4. \E f : Is(f, L)
  BY <1>0, <1>3
<1> DEFINE u == CHOOSE f : f = [i \in 0 .. L |->
                              IF i = 0 THEN k ELSE MultTurn(t, f[i - 1])]
<1>5. u = [i \in 0 .. L |-> IF i = 0 THEN k ELSE MultTurn(t, u[i - 1])]
  BY <1>4, Zenon DEF Is
<1>6. ReadMultipleOn(t, k) = u[L]
  BY ZenonT(60) DEF ReadMultipleOn, MultTurn
<1> HIDE DEF u, L
<1> DEFINE S == {i \in 0 .. L : MultSoFar(t, q, u[i])}
<1>7. 0 \in S
  <2>1. u[0] = k
    BY <1>0, <1>5
  <2> QED
    BY <1>0, <2>1
<1>8. ASSUME NEW i \in 0 .. L, i > 0, i - 1 \in S PROVE i \in S
  <2>1. u[i] = MultTurn(t, u[i - 1])
    BY <1>5, <1>8
  <2>2. MultSoFar(t, q, u[i - 1])
    BY <1>8
  <2>3. MultSoFar(t, q, u[i])
    BY <2>1, <2>2, MultStep
  <2> QED
    BY <2>3
<1> HIDE DEF S
<1>9. 0 .. L \subseteq S
  BY <1>0, <1>7, <1>8, InductUpTo
<1>10. L \in S
  BY <1>0, <1>9
<1> QED
  BY <1>6, <1>10 DEF S

(* an error, or none at all where the permission is looked at twice *)
LEMMA MultErrorEnds ==
    ASSUME NEW m \in Nat, NEW t, NEW q, Work(t, q, m), Idle(t),
           q.op \in {"mult", "vl"}, NEW op \in {"mult", "vl"},
           NEW e \in Errors \cup {"none"}, NEW u, u = Error(t, op, e)
    PROVE  InvOf(u, q, m)
<1> DEFINE a == [op |-> op, err |-> e, list |-> <<>>, value |-> <<>>, size |-> 4]
<1>0. t \in Server /\ t.ans = <<>> /\ op \in Opcodes
      /\ e \in Errors \cup {"none", "NOT_FOUND"} /\ q.op # "exec"
  BY DEF Work, Base, Opcodes
<1>1. /\ u \in Server /\ u.rop = t.rop /\ u.wop = t.wop /\ u.ans = <<a>>
      /\ SameDb(u, t) /\ SameQueue(u, t) /\ SameCalls(u, t)
  BY <1>0, ErrorIs
<1>2. a.size = 4 /\ a.op \notin {"read", "blob"}
  OBVIOUS
<1> HIDE DEF a
<1>3. t.att \in Nat /\ 4 <= t.att - 1
  BY Constants DEF Work, Base, Mtus, Server
<1>4. GoodAnswer(a, t, q)
  BY <1>2, <1>3 DEF GoodAnswer, Ranges
<1>5. Answers(u, t, a)
  BY <1>1 DEF Answers, Idle, SameCalls
<1> QED
  BY <1>0, <1>4, <1>5, AnswerEnds

LEMMA ReadMultipleEnds ==
    ASSUME NEW m \in Nat, NEW t, NEW q, Work(t, q, m), Idle(t),
           q.op \in {"mult", "vl"}, NEW k, MultSoFar(t, q, k),
           NEW u, u = ReadMultiple(t, k)
    PROVE  InvOf(u, q, m)
<1> DEFINE j == ReadMultipleOn(t, k)
           h == j.hs[j.cur]
           e == CheckPermissions(h, "r")
<1>1. MultSoFar(t, q, j)
  BY ReadMultipleOnIs DEF Work
<1>2. \/ MultipleRead(j) /\ u = Respond(t, j.op, j.list, j.value, j.len)
      \/ u = Error(t, "mult", "INVALID_HANDLE")
      \/ u = Error(t, j.op, e)
      \/ ~MultipleRead(j) /\ h \in Handles /\ u = CallRead(t, h, 0, j)
  <2>1. u = CASE MultipleRead(j) -> Respond(t, j.op, j.list, j.value, j.len)
              [] ~MultipleRead(j) /\ h \notin Handles ->
                   Error(t, "mult", "INVALID_HANDLE")
              [] ~MultipleRead(j) /\ h \in Handles /\ Attr[h].fr = "none" ->
                   Error(t, j.op, e)
              [] OTHER -> CallRead(t, h, 0, j)
    BY DEF ReadMultiple
  <2> HIDE DEF j, h, e
  <2> QED
    BY <2>1
<1> HIDE DEF j
<1>3. /\ j \in MultKept /\ j.n = q.n /\ j.op = q.op
      /\ j.op = "mult" => j.mtu = t.att /\ j.len <= j.mtu - 1
      /\ j.list \in Seq(Nat) /\ j.value \in Seq(Int) /\ j.len \in Nat
  BY <1>1 DEF MultSoFar, MultKept
<1>4. j.op \in Opcodes /\ q.op # "exec" /\ t.rop = 0 /\ (t.wop # 0 <=> t.pend # {})
      /\ "INVALID_HANDLE" \in Errors
  BY <1>3 DEF Opcodes, Idle, Errors
<1>5. CASE MultipleRead(j) /\ u = Respond(t, j.op, j.list, j.value, j.len)
  <2> DEFINE a == [op |-> j.op, err |-> "none", list |-> j.list,
                   value |-> j.value, size |-> j.len]
  <2>1. a.op = j.op /\ a.size = j.len
    OBVIOUS
  <2> HIDE DEF a
  <2>2. GoodAnswer(a, t, q)
    BY <1>3, <2>1 DEF GoodAnswer, Ranges
  <2> QED
    BY <1>3, <1>4, <1>5, <2>2, RespondEnds DEF a
<1>6. CASE u = Error(t, "mult", "INVALID_HANDLE")
  BY <1>4, <1>6, MultErrorEnds
<1>7. CASE u = Error(t, j.op, e)
  <2>1. e \in Errors \cup {"none"}
    BY Permitted
  <2> HIDE DEF e
  <2> QED
    BY <1>3, <1>7, <2>1, MultErrorEnds
<1>8. CASE ~MultipleRead(j) /\ h \in Handles /\ u = CallRead(t, h, 0, j)
  <2>1. MultGoing(t, j)
    BY <1>1, <1>8, MultNext
  <2>2. j \in Kept /\ j.op \in ReadOps /\ j.op \notin SlotOps
        /\ j.op # "type" /\ 0 \in Nat
    BY <1>3 DEF Kept, ReadOps, SlotOps
  <2> HIDE DEF h
  <2> QED
    BY <1>3, <1>4, <1>8, <2>1, <2>2, WaitsForRead
<1> QED
  BY <1>2, <1>5, <1>6, <1>7, <1>8

LEMMA MultEnds ==
    ASSUME NEW m \in Nat, NEW t, NEW q, Work(t, q, m), Idle(t),
           q.op \in {"mult", "vl"}, q.n = m, NEW u, u = ReadMultipleCb(t, q, m)
    PROVE  InvOf(u, q, m)
<1> DEFINE k == [op |-> q.op, n |-> m, hs |-> q.hs, cur |-> 1,
                 mtu |-> t.att, len |-> 0, value |-> <<>>, list |-> <<>>]
<1>1. \/ u = Error(t, q.op, "INVALID_HANDLE")
      \/ u = ReadMultiple(t, k)
  BY DEF ReadMultipleCb
<1>2. q.hs \in Seq(Nat)
  BY RequestFields DEF Work
<1>3. t.att \in Nat /\ t.att >= 23
  BY Constants DEF Work, Base, Mtus, Server
<1>4. CASE u = Error(t, q.op, "INVALID_HANDLE")
  <2>1. "INVALID_HANDLE" \in Errors \cup {"none"}
    BY DEF Errors
  <2> QED
    BY <1>4, <2>1, MultErrorEnds
<1>5. CASE u = ReadMultiple(t, k)
  <2>1. /\ k \in MultKept /\ k.op = q.op /\ k.n = m /\ k.cur = 1
        /\ k.mtu = t.att /\ k.len = 0
    BY <1>2, <1>3 DEF MultKept
  <2> HIDE DEF k
  <2>2. MultSoFar(t, q, k)
    BY <1>3, <2>1 DEF MultSoFar
  <2> QED
    BY <1>5, <2>2, ReadMultipleEnds
<1> QED
  BY <1>1, <1>4, <1>5

LEMMA MultCompleteEnds ==
    ASSUME NEW m \in Nat, NEW t, NEW q, Work(t, q, m), Idle(t),
           q.op \in {"mult", "vl"}, NEW k \in MultKept, k.op = q.op, k.n = q.n,
           MultGoing(t, k), NEW h, NEW v \in Seq(Int),
           NEW u, u = ReadMultipleComplete(t, h, k, v)
    PROVE  InvOf(u, q, m)
<1> DEFINE e == CheckPermissions(h, "r")
           j == JoinMultiple(k, v)
<1>1. \/ u = Error(t, k.op, e)
      \/ u = ReadMultiple(t, j)
  BY DEF ReadMultipleComplete
<1>2. CASE u = Error(t, k.op, e)
  <2>1. e \in Errors \cup {"none"}
    BY Permitted
  <2> HIDE DEF e
  <2> QED
    BY <1>2, <2>1, MultErrorEnds
<1>3. CASE u = ReadMultiple(t, j)
  <2>1. k.hs \in Seq(Nat) /\ k.cur \in Nat /\ k.mtu \in Nat /\ k.len \in Nat
    BY DEF MultKept
  <2>2. k.cur \in 1 .. Len(k.hs)
    BY <2>1 DEF MultGoing
  <2>3. MultSoFar(t, q, k)
    BY <2>1, <2>2 DEF MultGoing, MultSoFar
  <2>4. MultSoFar(t, q, j)
    BY <2>2, <2>3, JoinIs
  <2> HIDE DEF j
  <2> QED
    BY <1>3, <2>4, ReadMultipleEnds
<1> QED
  BY <1>1, <1>2, <1>3
-----------------------------------------------------------------------------
(* Writes *)

LEMMA WorkWritten ==
    ASSUME NEW m \in Nat, NEW t, NEW q, Work(t, q, m),
           NEW h \in Handles, ~Declares(h), NEW off \in Nat, NEW b \in Seq(Int),
           NEW u, u = Written(t, h, off, b)
    PROVE  /\ Work(u, q, m) /\ u.rop = t.rop /\ u.wop = t.wop
           /\ u.att = t.att /\ u.pend = t.pend /\ SameQueue(u, t)
<1>1. /\ Base(u, m) /\ u.ans = t.ans /\ u.rop = t.rop /\ u.wop = t.wop
      /\ u.att = t.att /\ u.pend = t.pend /\ SameQueue(u, t)
  BY WrittenIs DEF Work
<1> QED
  BY <1>1 DEF Work, Unbroken, SameQueue

LEMMA WriteErrors ==
    ASSUME NEW h, NEW off
    PROVE  WriteError(h, off) \in Errors \cup {"none"}
BY DEF WriteError, Errors

(* the function of the value is done *)
LEMMA WriteCompleteEnds ==
    ASSUME NEW m \in Nat, NEW t, NEW q, Work(t, q, m), t.rop = 0, t.pend = {},
           q.op = "write", NEW k, k.op = "write",
           NEW err \in Errors \cup {"none"}, NEW u, u = WriteComplete(t, k, err)
    PROVE  InvOf(u, q, m)
<1> DEFINE v == IF err # "none" THEN Error(t, "write", err)
                ELSE Respond(t, "write", <<>>, <<>>, 0)
           ok == [op |-> "write", err |-> "none", list |-> <<>>,
                  value |-> <<>>, size |-> 0]
           bad == [op |-> "write", err |-> err, list |-> <<>>,
                   value |-> <<>>, size |-> 4]
<1>1. u = [v EXCEPT !.wop = 0]
  BY DEF WriteComplete
<1>2. t \in Server /\ t.ans = <<>> /\ "write" \in Opcodes
      /\ err \in Errors \cup {"none", "NOT_FOUND"}
  BY DEF Work, Base, Opcodes
<1>3. \E a \in {ok, bad} :
         /\ v \in Server /\ v.rop = t.rop /\ v.wop = t.wop /\ v.ans = <<a>>
         /\ SameDb(v, t) /\ SameQueue(v, t) /\ SameCalls(v, t)
  <2>1. CASE err # "none"
    <3>1. v = Error(t, "write", err)
      BY <2>1
    <3> HIDE DEF v
    <3>2. /\ v \in Server /\ v.rop = t.rop /\ v.wop = t.wop /\ v.ans = <<bad>>
          /\ SameDb(v, t) /\ SameQueue(v, t) /\ SameCalls(v, t)
      BY <1>2, <3>1, ErrorIs
    <3> HIDE DEF ok, bad
    <3> QED
      BY <3>2
  <2>2. CASE err = "none"
    <3> DEFINE none == <<>>
               zero == 0
               op == "write"
    <3>1. none \in Seq(Nat) /\ none \in Seq(Int) /\ zero \in Nat
          /\ v = Respond(t, op, none, none, zero) /\ op \in Opcodes
      BY <1>2, <2>2
    <3> HIDE DEF v, none, zero, op
    <3>2. /\ v \in Server /\ v.rop = t.rop /\ v.wop = t.wop
          /\ v.ans = <<[op |-> op, err |-> "none", list |-> none,
                        value |-> none, size |-> zero]>>
          /\ SameDb(v, t) /\ SameQueue(v, t) /\ SameCalls(v, t)
      BY <1>2, <3>1, RespondIs
    <3>3. v.ans = <<ok>>
      BY <3>2 DEF none, zero, op
    <3> HIDE DEF ok, bad
    <3> QED
      BY <3>2, <3>3
  <2> QED
    BY <2>1, <2>2
<1> HIDE DEF v
<1>4. PICK a \in {ok, bad} :
         /\ v \in Server /\ v.rop = t.rop /\ v.wop = t.wop /\ v.ans = <<a>>
         /\ SameDb(v, t) /\ SameQueue(v, t) /\ SameCalls(v, t)
  BY <1>3
<1>5. a.op = "write" /\ a.size \in {0, 4}
  OBVIOUS
<1> HIDE DEF ok, bad
<1>6. t.att \in Nat /\ t.att >= 23
  BY Constants DEF Work, Base, Mtus, Server
<1>7. GoodAnswer(a, t, q)
  BY <1>5, <1>6 DEF GoodAnswer, Ranges
<1>8. /\ u \in Server /\ u.rop = t.rop /\ u.wop = 0 /\ u.ans = <<a>>
      /\ SameDb(u, t) /\ SameQueue(u, t) /\ SameCalls(u, t)
  BY <1>1, <1>4 DEF Server, SameDb, SameQueue, SameCalls
<1>9. Answers(u, t, a)
  BY <1>8 DEF Answers
<1> QED
  BY <1>7, <1>9, AnswerEnds

LEMMA WriteEnds ==
    ASSUME NEW m \in Nat, NEW t, NEW q, Work(t, q, m), Idle(t),
           q.op = "write", q.n = m, NEW u, u = WriteCb(t, q, m)
    PROVE  InvOf(u, q, m)
<1> DEFINE w == [t EXCEPT !.wop = m]
           k == [op |-> q.op, n |-> m]
           e == CheckPermissions(q.h, "w")
           b == [i \in 1 .. q.len |-> m]
<1>1. \/ u = Error(t, "write", "INVALID_HANDLE")
      \/ e # "none" /\ u = Error(t, "write", e)
      \/ u = Error(t, "write", "UNLIKELY")
      \/ /\ q.h \in Handles /\ e = "none" /\ t.wop = 0
         /\ u = DbWrite(w, q.h, 0, b, k)
  <2>1. u = CASE q.h \notin Handles -> Error(t, "write", "INVALID_HANDLE")
              [] e # "none" -> Error(t, "write", e)
              [] t.wop # 0 -> Error(t, "write", "UNLIKELY")
              [] OTHER -> DbWrite(w, q.h, 0, b, k)
    BY DEF WriteCb
  <2> HIDE DEF w, k, e, b
  <2> QED
    BY <2>1
<1>2. q.h \in Nat /\ q.len \in Nat /\ m \in 0 .. m /\ m # 0
  BY RequestFields DEF Work
<1>3. /\ t.rop = 0 /\ (t.wop # 0 <=> t.pend # {}) /\ q.op # "exec"
      /\ "INVALID_HANDLE" \in Errors /\ "UNLIKELY" \in Errors
      /\ "write" \in Opcodes
  BY DEF Idle, Errors, Opcodes
<1>4. CASE \/ u = Error(t, "write", "INVALID_HANDLE")
           \/ u = Error(t, "write", "UNLIKELY")
  BY <1>3, <1>4, ErrorEnds
<1>5. CASE e # "none" /\ u = Error(t, "write", e)
  <2>1. e \in Errors
    BY <1>5, Permitted
  <2> HIDE DEF e
  <2> QED
    BY <1>3, <1>5, <2>1, ErrorEnds
<1>6. CASE /\ q.h \in Handles /\ e = "none" /\ t.wop = 0
           /\ u = DbWrite(w, q.h, 0, b, k)
  <2>1. ~Declares(q.h)
    BY <1>6, Permitted
  <2>2. b \in Seq(Int)
    BY <1>2
  <2>3. k \in Kept /\ k.op = q.op /\ k.n = q.n
    BY DEF Kept, WriteKept
  <2>4. /\ Work(w, q, m) /\ w.rop = 0 /\ w.wop = m /\ w.pend = {}
    BY <1>2, <1>3, <1>6, WorkWop DEF SameCalls
  <2> HIDE DEF w, b, k, e
  <2>5. CASE Attr[q.h].fw = "later"
    <3>1. u = CallWrite(w, q.h, 0, k) /\ 0 \in Nat
      BY <1>6, <2>5 DEF DbWrite
    <3> QED
      BY <1>2, <1>6, <2>3, <2>4, <3>1, WaitsForWrite
  <2>6. CASE Attr[q.h].fw # "later"
    <3> DEFINE v == Written(w, q.h, 0, b)
               err == WriteError(q.h, 0)
    <3>1. u = WriteComplete(v, k, err)
      BY <1>6, <2>6 DEF DbWrite
    <3>2. err \in Errors \cup {"none"} /\ 0 \in Nat
      BY WriteErrors
    <3> HIDE DEF v, err
    <3>3. Work(v, q, m) /\ v.rop = 0 /\ v.pend = {}
      BY <1>6, <2>1, <2>2, <2>4, <3>2, WorkWritten DEF v
    <3> QED
      BY <2>3, <3>1, <3>2, <3>3, WriteCompleteEnds
  <2> QED
    BY <2>5, <2>6
<1> QED
  BY <1>1, <1>4, <1>5, <1>6

LEMMA PrepCompleteEnds ==
    ASSUME NEW m \in Nat, NEW t, NEW q, Work(t, q, m), Idle(t), q.op = "prep",
           NEW k \in PrepKept, ~Declares(k.h), Len(k.bytes) + 5 <= t.att,
           Len(t.prep) < MaxPrepQueueLen,
           NEW err \in Errors \cup {"none"}, NEW u, u = WriteComplete(t, k, err)
    PROVE  InvOf(u, q, m)
<1>1. /\ k.op = "prep" /\ "prep" \in Opcodes /\ q.op # "exec" /\ t.rop = 0
      /\ (t.wop # 0 <=> t.pend # {}) /\ k.bytes \in Seq(Int)
      /\ Len(k.bytes) \in Nat /\ t.att \in Nat
  BY DEF PrepKept, Opcodes, Idle, Work, Base, Server
<1>2. u = IF err # "none" THEN Error(t, "prep", err)
          ELSE Respond(StorePrepData(t, k), "prep", <<>>, k.bytes,
                       4 + Len(k.bytes))
  BY <1>1 DEF WriteComplete
<1>3. CASE err # "none"
  BY <1>1, <1>2, <1>3, ErrorEnds
<1>4. CASE err = "none"
  <2> DEFINE v == StorePrepData(t, k)
             none == <<>>
             size == 4 + Len(k.bytes)
             op == "prep"
             a == [op |-> op, err |-> "none", list |-> none,
                   value |-> k.bytes, size |-> size]
  <2>1. u = Respond(v, op, none, k.bytes, size)
    BY <1>2, <1>4
  <2>2. none \in Seq(Nat) /\ size \in Nat /\ size <= t.att - 1 /\ op \in Opcodes
    BY <1>1
  <2>3. a.op = "prep" /\ a.size = size
    OBVIOUS
  <2> HIDE DEF v, none, size, op, a
  <2>4. /\ Base(v, m) /\ Unbroken(v) /\ v.ans = t.ans /\ v.rop = t.rop
        /\ v.wop = t.wop /\ SameDb(v, t) /\ SameCalls(v, t)
    BY StoreIs DEF Work, v
  <2>5. /\ Work(v, q, m) /\ v.rop = 0 /\ (v.wop # 0 <=> v.pend # {})
        /\ v.att = t.att
    BY <1>1, <2>4 DEF Work, SameDb, SameCalls
  <2>6. GoodAnswer(a, v, q)
    BY <2>2, <2>3, <2>5 DEF GoodAnswer, Ranges
  <2> QED
    BY <1>1, <2>1, <2>2, <2>5, <2>6, RespondEnds DEF a
<1> QED
  BY <1>3, <1>4

LEMMA PrepEnds ==
    ASSUME NEW m \in Nat, NEW t, NEW q, Work(t, q, m), Idle(t),
           q.op = "prep", q.n = m, 5 + q.len <= t.att,
           NEW u, u = PrepWriteCb(t, q, m)
    PROVE  InvOf(u, q, m)
<1> DEFINE b == [i \in 1 .. q.len |-> m]
           k == [op |-> "prep", n |-> m, h |-> q.h, off |-> q.off, bytes |-> b]
           e == CheckPermissions(q.h, "w")
           none == <<>>
<1>1. \/ u = Error(t, "prep", "PREPARE_QUEUE_FULL")
      \/ u = Error(t, "prep", "INVALID_HANDLE")
      \/ e # "none" /\ u = Error(t, "prep", e)
      \/ /\ q.h \in Handles /\ e = "none" /\ ~QueueFull(t)
         /\ u = DbWrite(t, q.h, q.off, none, k)
  <2>1. u = CASE QueueFull(t) -> Error(t, "prep", "PREPARE_QUEUE_FULL")
              [] q.h \notin Handles -> Error(t, "prep", "INVALID_HANDLE")
              [] e # "none" -> Error(t, "prep", e)
              [] OTHER -> DbWrite(t, q.h, q.off, none, k)
    BY DEF PrepWriteCb
  <2> HIDE DEF k, e, b, none
  <2> QED
    BY <2>1
<1>2. q.h \in Nat /\ q.len \in Nat /\ q.off \in Nat
  BY RequestFields DEF Work
<1>3. /\ t.rop = 0 /\ (t.wop # 0 <=> t.pend # {}) /\ q.op # "exec"
      /\ "INVALID_HANDLE" \in Errors /\ "PREPARE_QUEUE_FULL" \in Errors
      /\ "prep" \in Opcodes
  BY DEF Idle, Errors, Opcodes
<1>4. CASE \/ u = Error(t, "prep", "INVALID_HANDLE")
           \/ u = Error(t, "prep", "PREPARE_QUEUE_FULL")
  BY <1>3, <1>4, ErrorEnds
<1>5. CASE e # "none" /\ u = Error(t, "prep", e)
  <2>1. e \in Errors
    BY <1>5, Permitted
  <2> HIDE DEF e
  <2> QED
    BY <1>3, <1>5, <2>1, ErrorEnds
<1>6. CASE /\ q.h \in Handles /\ e = "none" /\ ~QueueFull(t)
           /\ u = DbWrite(t, q.h, q.off, none, k)
  <2>1. ~Declares(q.h)
    BY <1>6, Permitted
  <2>2. b \in Seq(Int) /\ Len(b) = q.len /\ none \in Seq(Int)
    BY <1>2
  <2> HIDE DEF b, none
  <2>3. /\ k \in PrepKept /\ k.op = q.op /\ k.n = q.n /\ k.h = q.h
        /\ k.bytes = b
    BY <1>2, <1>6, <2>2 DEF PrepKept
  <2>4. Len(t.prep) < MaxPrepQueueLen
    <3>1. Len(t.prep) \in Nat
      BY DEF Work, Base, Server
    <3> QED
      BY <1>6, <3>1, Constants DEF QueueFull
  <2> HIDE DEF k, e
  <2>5. ~Declares(k.h) /\ Len(k.bytes) + 5 <= t.att /\ k \in Kept
    <3>1. Len(k.bytes) = q.len /\ t.att \in Nat
      BY <2>2, <2>3 DEF Work, Base, Server
    <3> QED
      BY <1>2, <2>1, <2>3, <3>1 DEF Kept
  <2>6. CASE Attr[q.h].fw = "later"
    <3>1. u = CallWrite(t, q.h, q.off, k)
      BY <1>6, <2>6 DEF DbWrite
    <3> QED
      BY <1>2, <1>3, <1>6, <2>3, <2>4, <2>5, <3>1, WaitsForWrite
  <2>7. CASE Attr[q.h].fw # "later"
    <3> DEFINE v == Written(t, q.h, q.off, none)
               err == WriteError(q.h, q.off)
    <3>1. u = WriteComplete(v, k, err)
      BY <1>6, <2>7 DEF DbWrite
    <3>2. err \in Errors \cup {"none"} /\ v = Written(t, q.h, q.off, none)
      BY WriteErrors
    <3> HIDE DEF v, err
    <3>3. /\ Work(v, q, m) /\ v.rop = t.rop /\ v.wop = t.wop /\ v.att = t.att
          /\ v.pend = t.pend /\ SameQueue(v, t)
      <4>1. q.h \in Handles /\ q.off \in Nat /\ none \in Seq(Int)
        BY <1>2, <1>6, <2>2
      <4> QED
        BY <2>1, <3>2, <4>1, WorkWritten
    <3>4. Idle(v) /\ Len(v.prep) < MaxPrepQueueLen /\ Len(k.bytes) + 5 <= v.att
      BY <2>4, <2>5, <3>3 DEF Idle, SameQueue
    <3> QED
      BY <2>3, <2>5, <3>1, <3>2, <3>3, <3>4, PrepCompleteEnds
  <2> QED
    BY <2>6, <2>7
<1> QED
  BY <1>1, <1>4, <1>5, <1>6
-----------------------------------------------------------------------------
(* What goes on beside a request *)

LEMMA Beside ==
    ASSUME NEW m \in Nat, NEW mm \in Nat, m <= mm, NEW t, NEW q, InvOf(t, q, m),
           NEW u, Base(u, mm), u.ans = t.ans, u.att = t.att, SameQueue(u, t),
           Slots(u), \A p \in u.pend : p.k.op = "cmd" \/ p \in t.pend
    PROVE  InvOf(u, q, mm)
<1>1. RequestOK(q, mm)
  BY DEF InvOf, RequestOK
<1>2. Declared(t) /\ Declared(u)
  BY DEF InvOf, Base
<1>3. \A i \in DOMAIN u.ans : GoodAnswer(u.ans[i], u, q)
  <2>1. \A i \in DOMAIN t.ans : GoodAnswer(t.ans[i], t, q)
    BY DEF InvOf, Answering
  <2> QED
    BY <1>2, <2>1, GoodSame
<1>4. ASSUME NEW p \in u.pend, p.k.op # "cmd"
      PROVE  q # NoReq /\ u.ans = <<>> /\ Going(u, q, p)
  <2>1. p \in t.pend /\ q # NoReq /\ t.ans = <<>> /\ Going(t, q, p)
    BY <1>4 DEF InvOf, Answering
  <2>2. p.k.op = "type" => TypeGoing(u, q, p.k, p.call.h)
    <3> SUFFICES ASSUME p.k.op = "type" PROVE TypeGoing(u, q, p.k, p.call.h)
      OBVIOUS
    <3>1. TypeGoing(t, q, p.k, p.call.h)
      BY <2>1 DEF Going
    <3>2. All(u, q) = All(t, q)
      BY <1>2, <3>1, AllSame DEF TypeGoing, Ranges
    <3> QED
      BY <3>1, <3>2 DEF TypeGoing
  <2>3. p.k.op \in {"mult", "vl"} => MultGoing(u, p.k)
    BY <2>1 DEF Going, MultGoing
  <2> QED
    BY <2>1, <2>2, <2>3 DEF Going, SameQueue
<1>5. \A p, pp \in u.pend : p.k.op # "cmd" /\ pp.k.op # "cmd" => p = pp
  BY DEF InvOf, Answering
<1>6. Answering(u, q)
  BY <1>3, <1>4, <1>5 DEF InvOf, Answering
<1>7. Session(u, q)
  BY DEF InvOf, Session, Unbroken, SameQueue
<1> QED
  BY <1>1, <1>6, <1>7 DEF InvOf

LEMMA CommandKeeps ==
    ASSUME NEW m \in Nat, NEW t, NEW q, InvOf(t, q, m), NEW r,
           r.op = "cmd", r.h \in Nat, r.len \in Nat,
           NEW u, u = WriteCb(t, r, m + 1)
    PROVE  InvOf(u, q, m + 1)
<1> DEFINE mm == m + 1
           w == [t EXCEPT !.wop = mm]
           k == [op |-> r.op, n |-> mm]
           e == CheckPermissions(r.h, "w")
           b == [i \in 1 .. r.len |-> mm]
<1>1. \/ u = t
      \/ /\ r.h \in Handles /\ e = "none" /\ t.wop = 0
         /\ u = DbWrite(w, r.h, 0, b, k)
  <2>1. u = CASE r.h \notin Handles -> t
              [] e # "none" -> t
              [] t.wop # 0 -> t
              [] OTHER -> DbWrite(w, r.h, 0, b, k)
    BY DEF WriteCb
  <2> HIDE DEF w, k, e, b
  <2> QED
    BY <2>1
<1>2. mm \in Nat /\ m <= mm /\ Base(t, mm) /\ Slots(t) /\ mm # 0
  BY BaseLater DEF InvOf
<1>b. b \in Seq(Int)
  <2> HIDE DEF mm
  <2> QED
    BY <1>2
<1>k. k \in Kept /\ k.op = "cmd" /\ k.n = mm
  BY <1>2 DEF Kept, WriteKept
<1> HIDE DEF k, mm, b
<1>3. CASE u = t
  <2>1. SameQueue(u, t) /\ \A p \in u.pend : p \in t.pend
    BY <1>3 DEF SameQueue
  <2> QED
    BY <1>2, <1>3, <2>1, Beside DEF mm
<1>4. CASE /\ r.h \in Handles /\ e = "none" /\ t.wop = 0
           /\ u = DbWrite(w, r.h, 0, b, k)
  <2>1. ~Declares(r.h)
    BY <1>4, Permitted
  <2>2. /\ w \in Server /\ w.wop = mm /\ w.rop = t.rop /\ w.ans = t.ans
        /\ SameDb(w, t) /\ SameQueue(w, t) /\ SameCalls(w, t)
    <3>1. t \in Server
      BY <1>2 DEF Base
    <3> QED
      BY <1>2, <3>1 DEF Server, SameDb, SameQueue, SameCalls
  <2> HIDE DEF w, e
  <2>3. w.rop <= mm /\ w.wop <= mm /\ Len(w.prep) <= MaxPrepQueueLen
        /\ \A i \in DOMAIN w.prep : ~Declares(w.prep[i].h)
    BY <1>2, <2>2 DEF Base, SameQueue, Declared
  <2>4. Base(w, mm)
    BY <1>2, <2>2, <2>3, BaseSame
  <2>5. NoWrite(t) /\ NoWrite(w)
    BY <1>2, <1>4, <2>2 DEF Slots, NoWrite, SameCalls
  <2>6. CASE Attr[r.h].fw = "later"
    <3>1. u = CallWrite(w, r.h, 0, k) /\ 0 \in Nat
      BY <1>4, <2>6 DEF DbWrite
    <3>2. k.op \notin ReadOps /\ k.n \in 1 .. mm
      BY <1>2, <1>k DEF ReadOps
    <3>3. Base(u, mm) /\ Called(u, w, r.h, k)
      BY <1>2, <1>4, <1>k, <2>4, <2>5, <3>1, <3>2, CallWriteBase
    <3>4. PICK p : u.pend = t.pend \cup {[call |-> p, k |-> k]}
      BY <2>2, <3>3 DEF Called, SameCalls
    <3> DEFINE x == [call |-> p, k |-> k]
    <3>5. x.k = k /\ x \in u.pend /\ \A y \in u.pend : y \in t.pend \/ y = x
      BY <3>4
    <3> HIDE DEF x
    <3>6. \A y \in t.pend : y \in u.pend
      BY <3>4
    <3>7. u.rop = t.rop /\ u.wop = mm /\ u.ans = t.ans /\ u.att = t.att
          /\ SameQueue(u, t)
      BY <2>2, <3>3 DEF Called, SameDb, SameQueue
    <3>8. Slots(u)
      BY <1>2, <1>k, <3>5, <3>6, <3>7 DEF Slots, SlotOps
    <3> QED
      BY <1>2, <1>k, <3>3, <3>5, <3>7, <3>8, Beside DEF mm
  <2>7. CASE Attr[r.h].fw # "later"
    <3> DEFINE v == Written(w, r.h, 0, b)
    <3>1. u = [v EXCEPT !.wop = 0] /\ 0 \in Nat
      BY <1>4, <1>k, <2>7 DEF DbWrite, WriteComplete
    <3>2. v = Written(w, r.h, 0, b)
      OBVIOUS
    <3> HIDE DEF v
    <3>3. /\ Base(v, mm) /\ v.ans = w.ans /\ v.rop = w.rop /\ v.att = w.att
          /\ v.pend = w.pend /\ SameQueue(v, w)
      <4>1. mm \in Nat /\ r.h \in Handles /\ 0 \in Nat
        BY <1>2, <1>4
      <4> QED
        BY <1>b, <2>1, <2>4, <3>2, <4>1, WrittenIs
    <3>4. v \in Server
      BY <3>3 DEF Base
    <3>5. /\ u \in Server /\ u.rop = v.rop /\ u.wop = 0 /\ u.ans = v.ans
          /\ SameDb(u, v) /\ SameQueue(u, v) /\ SameCalls(u, v)
      BY <3>1, <3>4 DEF Server, SameDb, SameQueue, SameCalls
    <3>6. u.rop <= mm /\ u.wop <= mm /\ Len(u.prep) <= MaxPrepQueueLen
          /\ \A i \in DOMAIN u.prep : ~Declares(u.prep[i].h)
      BY <1>2, <3>3, <3>5 DEF Base, SameQueue, Declared
    <3>7. Base(u, mm)
      BY <1>2, <3>3, <3>5, <3>6, BaseSame
    <3>8. u.pend = t.pend /\ u.rop = t.rop /\ u.ans = t.ans /\ u.att = t.att
          /\ SameQueue(u, t)
      BY <2>2, <3>3, <3>5 DEF SameCalls, SameDb, SameQueue
    <3>9. Slots(u)
      BY <1>2, <2>5, <3>5, <3>8 DEF Slots, NoWrite
    <3> QED
      BY <1>2, <3>7, <3>8, <3>9, Beside DEF mm
  <2> QED
    BY <2>6, <2>7
<1> QED
  BY <1>1, <1>3, <1>4

(* t without the pending operation p, and perhaps without its call *)
Ended(w, t, p) ==
    /\ w.rop = t.rop /\ w.wop = t.wop /\ w.ans = t.ans
    /\ SameDb(w, t) /\ SameQueue(w, t) /\ w.pend = t.pend \ {p}

LEMMA CommandDone ==
    ASSUME NEW m \in Nat, NEW t, NEW q, InvOf(t, q, m),
           NEW p \in t.pend, p.k.op = "cmd", NEW w, Base(w, m), Ended(w, t, p),
           NEW u, u = [w EXCEPT !.wop = 0]
    PROVE  InvOf(u, q, m)
<1>1. w \in Server
  BY DEF Base
<1>2. /\ u \in Server /\ u.rop = w.rop /\ u.wop = 0 /\ u.ans = w.ans
      /\ SameDb(u, w) /\ SameQueue(u, w) /\ SameCalls(u, w)
  BY <1>1 DEF Server, SameDb, SameQueue, SameCalls
<1>3. u.rop <= m /\ u.wop <= m /\ Len(u.prep) <= MaxPrepQueueLen
      /\ \A i \in DOMAIN u.prep : ~Declares(u.prep[i].h)
  BY <1>2 DEF Base, SameQueue, Declared
<1>4. Base(u, m)
  BY <1>2, <1>3, BaseSame
<1>5. u.pend = t.pend \ {p} /\ u.rop = t.rop /\ u.ans = t.ans /\ u.att = t.att
      /\ SameQueue(u, t)
  BY <1>2 DEF Ended, SameCalls, SameDb, SameQueue
<1>6. \A x \in u.pend : x.k.op \notin {"write", "cmd"}
  BY <1>5 DEF InvOf, Base, OneWrite
<1>7. Slots(u)
  BY <1>2, <1>5, <1>6 DEF InvOf, Slots, SlotOps
<1>8. m <= m /\ \A x \in u.pend : x.k.op = "cmd" \/ x \in t.pend
  BY <1>5
<1> QED
  BY <1>4, <1>5, <1>7, <1>8, Beside
-----------------------------------------------------------------------------
(* Execute Write *)

(* the answer ends the session of prepared writes *)
LEMMA ExecAnswerEnds ==
    ASSUME NEW m \in Nat, NEW t, NEW q, Base(t, m), RequestOK(q, m), q # NoReq,
           q.op = "exec", t.prep = <<>>, t.rop = 0, t.wop # 0 <=> t.pend # {},
           \A p \in t.pend : p.k.op = "cmd",
           NEW u, u \in Server, u.rop = t.rop, u.wop = t.wop,
           SameDb(u, t), SameQueue(u, t), SameCalls(u, t),
           NEW a, u.ans = <<a>>, a.size \in {0, 4}, a.op = "exec",
           q.flags = 1 /\ a.err = "none" => t.executed = t.prepared
    PROVE  InvOf(u, q, m)
<1>1. Base(u, m)
  <2>1. u.rop <= m /\ u.wop <= m /\ Len(u.prep) <= MaxPrepQueueLen
        /\ \A i \in DOMAIN u.prep : ~Declares(u.prep[i].h)
    BY DEF Base, SameQueue, Declared
  <2> QED
    BY <2>1, BaseSame
<1>2. u.att \in Nat /\ u.att >= 23
  <2>1. u.chan \in DEFAULT_LE_MTU .. u.att
    BY <1>1 DEF Base, Mtus
  <2>2. u.att \in Nat
    BY DEF Server
  <2> QED
    BY <2>1, <2>2, Constants
<1>3. GoodAnswer(a, u, q)
  BY <1>2 DEF GoodAnswer, Ranges
<1>4. Slots(u)
  BY DEF Slots, SameCalls, SlotOps
<1>5. Len(u.ans) = 1 /\ DOMAIN u.ans = {1} /\ u.ans[1] = a /\ u.ans # <<>>
  OBVIOUS
<1>6. Answering(u, q)
  <2>1. \A p \in u.pend : p.k.op = "cmd"
    BY DEF SameCalls
  <2> QED
    BY <1>3, <1>5, <2>1 DEF Answering
<1>7. Session(u, q)
  BY <1>5 DEF Session, SameQueue
<1> QED
  BY <1>1, <1>4, <1>6, <1>7 DEF InvOf

LEMMA ExecErrorEnds ==
    ASSUME NEW m \in Nat, NEW t, NEW q, Work(t, q, m), Idle(t), q.op = "exec",
           NEW e \in Errors, NEW u, u = Error(DropPrepared(t), "exec", e)
    PROVE  InvOf(u, q, m)
<1> DEFINE v == DropPrepared(t)
           op == "exec"
           a == [op |-> op, err |-> e, list |-> <<>>, value |-> <<>>, size |-> 4]
<1>1. t \in Server /\ op \in Opcodes /\ e \in Errors \cup {"none", "NOT_FOUND"}
      /\ e # "none" /\ t.ans = <<>> /\ t.rop \in Nat /\ t.wop \in Nat
      /\ t.rop <= m /\ t.wop <= m
  BY DEF Work, Base, Opcodes, Server, Errors
<1>2. u = Error(v, op, e) /\ v = DropPrepared(t)
  OBVIOUS
<1> HIDE DEF v
<1>3. /\ v \in Server /\ v.ans = t.ans /\ v.rop = t.rop /\ v.wop = t.wop
      /\ v.prep = <<>> /\ SameDb(v, t) /\ SameCalls(v, t)
  BY <1>1, <1>2, DropPreparedIs
<1> HIDE DEF op
<1>4. /\ u \in Server /\ u.rop = v.rop /\ u.wop = v.wop /\ u.ans = <<a>>
      /\ SameDb(u, v) /\ SameQueue(u, v) /\ SameCalls(u, v)
  BY <1>1, <1>2, <1>3, ErrorIs
<1>5. a.op = "exec" /\ a.size = 4 /\ a.err # "none"
  BY <1>1 DEF op
<1> HIDE DEF a
<1>6. Base(v, m)
  <2>1. Len(v.prep) <= MaxPrepQueueLen
        /\ \A i \in DOMAIN v.prep : ~Declares(v.prep[i].h)
    BY <1>3, Constants
  <2> QED
    BY <1>1, <1>3, <2>1, BaseSame DEF Work
<1>7. /\ RequestOK(q, m) /\ q # NoReq /\ v.rop = 0 /\ (v.wop # 0 <=> v.pend # {})
      /\ \A p \in v.pend : p.k.op = "cmd"
  BY <1>3 DEF Work, Idle, SameCalls
<1> QED
  BY <1>3, <1>4, <1>5, <1>6, <1>7, ExecAnswerEnds

(* the response, when the queue is empty or the writes were cancelled *)
LEMMA ExecRespondEnds ==
    ASSUME NEW m \in Nat, NEW t, NEW q, Work(t, q, m), Idle(t), q.op = "exec",
           NEW v, \/ v = DropPrepared(t) /\ q.flags # 1
                  \/ v = t /\ t.prep = <<>>,
           NEW u, u = Respond(v, "exec", <<>>, <<>>, 0)
    PROVE  InvOf(u, q, m)
<1> DEFINE op == "exec"
           none == <<>>
           zero == 0
           a == [op |-> op, err |-> "none", list |-> none, value |-> none,
                 size |-> zero]
<1>1. t \in Server /\ op \in Opcodes /\ none \in Seq(Nat) /\ none \in Seq(Int)
      /\ zero \in Nat /\ t.ans = <<>> /\ t.rop \in Nat /\ t.wop \in Nat
      /\ t.rop <= m /\ t.wop <= m
  BY DEF Work, Base, Opcodes, Server
<1>2. u = Respond(v, op, none, none, zero)
  OBVIOUS
<1>5. a.op = "exec" /\ a.size = 0
  OBVIOUS
<1> HIDE DEF op, none, zero
<1>3. /\ v \in Server /\ v.ans = t.ans /\ v.rop = t.rop /\ v.wop = t.wop
      /\ v.prep = <<>> /\ SameDb(v, t) /\ SameCalls(v, t)
      /\ v.prepared = t.prepared /\ v.executed = t.executed
  <2>1. CASE v = DropPrepared(t)
    BY <1>1, <2>1, DropPreparedIs
  <2>2. CASE v = t /\ t.prep = <<>>
    BY <1>1, <2>2 DEF SameDb, SameCalls
  <2> QED
    BY <2>1, <2>2
<1>4. /\ u \in Server /\ u.rop = v.rop /\ u.wop = v.wop /\ u.ans = <<a>>
      /\ SameDb(u, v) /\ SameQueue(u, v) /\ SameCalls(u, v)
  BY <1>1, <1>2, <1>3, RespondIs
<1> HIDE DEF a
<1>6. Base(v, m)
  <2>1. Len(v.prep) <= MaxPrepQueueLen
        /\ \A i \in DOMAIN v.prep : ~Declares(v.prep[i].h)
    BY <1>3, Constants
  <2> QED
    BY <1>1, <1>3, <2>1, BaseSame DEF Work
<1>7. /\ RequestOK(q, m) /\ q # NoReq /\ v.rop = 0 /\ (v.wop # 0 <=> v.pend # {})
      /\ \A p \in v.pend : p.k.op = "cmd"
  BY <1>3 DEF Work, Idle, SameCalls
<1>8. q.flags = 1 => v.executed = v.prepared
  <2> SUFFICES ASSUME q.flags = 1 PROVE v.executed = v.prepared
    OBVIOUS
  <2>1. v = t /\ t.prep = <<>>
    OBVIOUS
  <2>2. t.prepared = t.executed \o Held(t.prep)
    BY DEF Work, Unbroken
  <2>3. t.prepared = t.executed \o <<>>
    BY <2>1, <2>2, HeldEmpty
  <2>4. t.executed \in Seq(Octet)
    BY <1>1 DEF Server
  <2>5. t.executed \o <<>> = t.executed
    <3> HIDE DEF Octet
    <3> QED
      BY <2>4, ConcatEmptySeq
  <2> QED
    BY <2>1, <2>3, <2>5, Zenon
<1> QED
  BY <1>3, <1>4, <1>5, <1>6, <1>7, <1>8, ExecAnswerEnds

(* the first write of the queue is taken from it *)
LEMMA WorkPopped ==
    ASSUME NEW m \in Nat, NEW t, NEW q, Work(t, q, m), Idle(t), t.prep # <<>>,
           NEW u, u = PopPrepared(t), NEW e, e = Head(t.prep)
    PROVE  /\ Work(u, q, m) /\ Idle(u) /\ u.prep = Tail(t.prep)
           /\ e.h \in Handles /\ e.off \in Nat /\ e.bytes \in Seq(Int)
           /\ ~Declares(e.h)
<1>1. /\ Base(u, m) /\ Unbroken(u) /\ u.ans = t.ans /\ u.rop = t.rop
      /\ u.wop = t.wop /\ SameDb(u, t) /\ SameCalls(u, t)
      /\ u.prep = Tail(t.prep)
      /\ Head(t.prep) \in Entry /\ ~Declares(Head(t.prep).h)
  BY PopIs DEF Work
<1>2. Work(u, q, m) /\ Idle(u)
  BY <1>1 DEF Work, Idle, SameCalls
<1> QED
  BY <1>1, <1>2 DEF Entry

(* what the loop does with the first write of the queue *)
GoesOn(t) ==
    LET e == Head(t.prep)
    IN  t.prep # <<>> /\ Attr[e.h].fw # "later" /\ WriteError(e.h, e.off) = "none"
ExecTurn(t) ==
    LET e == Head(t.prep)
    IN  IF GoesOn(t) THEN Written(PopPrepared(t), e.h, e.off, e.bytes) ELSE t

LEMMA ExecStep ==
    ASSUME NEW m \in Nat, NEW t, NEW q, Work(t, q, m), Idle(t),
           NEW u, u = ExecTurn(t)
    PROVE  /\ Work(u, q, m) /\ Idle(u)
           /\ GoesOn(t) => Len(u.prep) = Len(t.prep) - 1
           /\ ~GoesOn(t) => u = t
<1>1. CASE GoesOn(t)
  <2> DEFINE e == Head(t.prep)
             v == PopPrepared(t)
  <2>1. u = Written(v, e.h, e.off, e.bytes)
    BY <1>1 DEF ExecTurn
  <2>2. t.prep # <<>> /\ v = PopPrepared(t) /\ e = Head(t.prep)
    BY <1>1 DEF GoesOn
  <2> HIDE DEF v, e
  <2>3. /\ Work(v, q, m) /\ Idle(v) /\ v.prep = Tail(t.prep)
        /\ e.h \in Handles /\ e.off \in Nat /\ e.bytes \in Seq(Int)
        /\ ~Declares(e.h)
    BY <2>2, WorkPopped
  <2>4. /\ Work(u, q, m) /\ u.rop = v.rop /\ u.wop = v.wop
        /\ u.pend = v.pend /\ SameQueue(u, v)
    BY <2>1, <2>3, WorkWritten
  <2>5. Idle(u)
    BY <2>3, <2>4 DEF Idle
  <2>6. Len(Tail(t.prep)) = Len(t.prep) - 1
    <3>1. t.prep \in Seq(Entry)
      BY DEF Work, Base, Server
    <3> QED
      BY <2>2, <3>1, HeadTailProperties
  <2> QED
    BY <1>1, <2>3, <2>4, <2>5, <2>6 DEF SameQueue
<1>2. CASE ~GoesOn(t)
  BY <1>2 DEF ExecTurn
<1> QED
  BY <1>1, <1>2

LEMMA WorkPrep ==
    ASSUME NEW m \in Nat, NEW t, NEW q, Work(t, q, m)
    PROVE  t.prep \in Seq(Entry) /\ Len(t.prep) \in Nat
BY DEF Work, Base, Server

LEMMA ExecOnIs ==
    ASSUME NEW m \in Nat, NEW t, NEW q, Work(t, q, m), Idle(t),
           NEW v, v = ExecOn(t)
    PROVE  Work(v, q, m) /\ Idle(v) /\ ~GoesOn(v)
<1> DEFINE Is(f, N) == f = [i \in 0 .. N |->
                              IF i = 0 THEN t ELSE ExecTurn(f[i - 1])]
           R == {N \in Nat : \E f : Is(f, N)}
           L == Len(t.prep)
<1>0. L \in Nat
  BY DEF Work, Base, Server
<1>1. \E f : Is(f, 0)
  <2>1. Is([i \in {0} |-> t], 0)
    OBVIOUS
  <2> QED
    BY <2>1
<1>2. ASSUME NEW N \in Nat, NEW f, Is(f, N) PROVE \E g : Is(g, N + 1)
  <2> DEFINE g == [i \in 0 .. N + 1 |-> IF i <= N THEN f[i] ELSE ExecTurn(f[N])]
  <2>2. Is(g, N + 1)
    BY <1>2
  <2> HIDE DEF g, Is
  <2> QED
    BY <2>2
<1> HIDE DEF Is
<1>3. Nat \subseteq R
  <2>1. 0 \in R
    BY <1>1
  <2>2. ASSUME NEW N \in Nat, N \in R PROVE N + 1 \in R
    BY <1>2, <2>2
  <2> HIDE DEF R
  <2> QED
    BY <2>1, <2>2, Induct
<1>4. \E f : Is(f, L)
  BY <1>0, <1>3
<1> DEFINE u == CHOOSE f : f = [i \in 0 .. L |->
                              IF i = 0 THEN t ELSE ExecTurn(f[i - 1])]
<1>5. u = [i \in 0 .. L |-> IF i = 0 THEN t ELSE ExecTurn(u[i - 1])]
  BY <1>4, Zenon DEF Is
<1>6. v = u[L]
  BY ZenonT(60) DEF ExecOn, ExecTurn, GoesOn
<1> HIDE DEF u
<1>7. u[0] = t
  BY <1>0, <1>5
<1>8. \A i \in 1 .. L : u[i] = ExecTurn(u[i - 1])
  BY <1>0, <1>5
<1> DEFINE Left(i) == GoesOn(u[i]) => Len(u[i].prep) <= L - i
           S == {i \in 0 .. L : Work(u[i], q, m) /\ Idle(u[i]) /\ Left(i)}
<1>9. 0 \in S
  BY <1>0, <1>7
<1>10. ASSUME NEW i \in 0 .. L, i > 0, i - 1 \in S PROVE i \in S
  <2>1. i \in 1 .. L
    BY <1>10
  <2>2. u[i] = ExecTurn(u[i - 1])
    BY <2>1, <1>8
  <2>3. Work(u[i - 1], q, m) /\ Idle(u[i - 1]) /\ Left(i - 1)
    BY <1>10
  <2>4. /\ Work(u[i], q, m) /\ Idle(u[i])
        /\ GoesOn(u[i - 1]) => Len(u[i].prep) = Len(u[i - 1].prep) - 1
        /\ ~GoesOn(u[i - 1]) => u[i] = u[i - 1]
    BY <2>2, <2>3, ExecStep
  <2>5. Len(u[i].prep) \in Nat /\ Len(u[i - 1].prep) \in Nat
    BY <2>3, <2>4, WorkPrep
  <2>6. Left(i)
    <3>1. CASE GoesOn(u[i - 1])
      <4> DEFINE a == Len(u[i].prep)
                 b == Len(u[i - 1].prep)
      <4>1. b <= L - (i - 1) /\ a = b - 1 /\ a \in Nat /\ b \in Nat
        BY <2>3, <2>4, <2>5, <3>1
      <4> HIDE DEF a, b, L
      <4>2. a <= L - i
        BY <1>0, <2>1, <4>1
      <4> QED
        BY <4>2 DEF a
    <3>2. CASE ~GoesOn(u[i - 1])
      BY <2>4, <3>2
    <3> QED
      BY <3>1, <3>2
  <2> QED
    BY <2>4, <2>6
<1> HIDE DEF S, Left
<1>11. 0 .. L \subseteq S
  BY <1>0, <1>9, <1>10, InductUpTo
<1>12. L \in S
  BY <1>0, <1>11
<1>13. Work(v, q, m) /\ Idle(v) /\ (GoesOn(v) => Len(v.prep) <= 0)
  <2>1. L - L = 0
    BY <1>0
  <2> QED
    BY <1>6, <1>12, <2>1 DEF S, Left
<1>14. ~GoesOn(v)
  <2>1. v.prep \in Seq(Entry)
    BY <1>13 DEF Work, Base, Server
  <2>2. v.prep # <<>> => Len(v.prep) \in Nat \ {0}
    BY <2>1, EmptySeq
  <2>3. GoesOn(v) => v.prep # <<>>
    BY DEF GoesOn
  <2> QED
    BY <1>13, <2>2, <2>3
<1> QED
  BY <1>13, <1>14

LEMMA ExecNextEnds ==
    ASSUME NEW m \in Nat, NEW t, NEW q, Work(t, q, m), Idle(t), q.op = "exec",
           NEW err \in Errors \cup {"none"}, NEW u, u = ExecNext(t, err, q.n)
    PROVE  InvOf(u, q, m)
<1> DEFINE v == ExecOn(t)
           e == Head(v.prep)
           k == [op |-> "exec", n |-> q.n]
           w == PopPrepared(v)
           x == Written(w, e.h, e.off, e.bytes)
           bad == WriteError(e.h, e.off)
<1>1. \/ err # "none" /\ u = Error(DropPrepared(t), "exec", err)
      \/ v.prep = <<>> /\ u = Respond(v, "exec", <<>>, <<>>, 0)
      \/ v.prep # <<>> /\ u = CallWrite(w, e.h, e.off, k)
      \/ /\ v.prep # <<>> /\ Attr[e.h].fw # "later"
         /\ u = Error(DropPrepared(x), "exec", bad)
  <2>1. u = CASE err # "none" -> Error(DropPrepared(t), "exec", err)
              [] err = "none" /\ v.prep = <<>> ->
                   Respond(v, "exec", <<>>, <<>>, 0)
              [] err = "none" /\ v.prep # <<>> /\ Attr[e.h].fw = "later" ->
                   CallWrite(w, e.h, e.off, k)
              [] OTHER -> Error(DropPrepared(x), "exec", bad)
    BY DEF ExecNext
  <2> HIDE DEF v, e, k, w, x, bad
  <2> QED
    BY <2>1
<1>2. Work(v, q, m) /\ Idle(v) /\ ~GoesOn(v)
  BY ExecOnIs
<1> HIDE DEF v
<1>3. CASE err # "none" /\ u = Error(DropPrepared(t), "exec", err)
  BY <1>3, ExecErrorEnds
<1>4. CASE v.prep = <<>> /\ u = Respond(v, "exec", <<>>, <<>>, 0)
  BY <1>2, <1>4, ExecRespondEnds
<1>5. ASSUME v.prep # <<>>
      PROVE  /\ Work(w, q, m) /\ Idle(w)
             /\ e.h \in Handles /\ e.off \in Nat /\ e.bytes \in Seq(Int)
             /\ ~Declares(e.h)
  <2>1. w = PopPrepared(v) /\ e = Head(v.prep)
    OBVIOUS
  <2> HIDE DEF w, e
  <2> QED
    BY <1>2, <1>5, <2>1, WorkPopped
<1>6. CASE v.prep # <<>> /\ u = CallWrite(w, e.h, e.off, k)
  <2>1. /\ Work(w, q, m) /\ w.rop = 0 /\ (w.wop # 0 <=> w.pend # {})
        /\ e.h \in Handles /\ e.off \in Nat
    BY <1>5, <1>6 DEF Idle
  <2>2. q.n \in Nat
    BY RequestFields DEF Work
  <2>3. k \in Kept /\ k.op = "exec" /\ k.n = q.n
    BY <2>2 DEF Kept, ExecKept
  <2> HIDE DEF k, w, e
  <2> QED
    BY <1>6, <2>1, <2>3, WaitsForWrite
<1>7. CASE /\ v.prep # <<>> /\ Attr[e.h].fw # "later"
           /\ u = Error(DropPrepared(x), "exec", bad)
  <2>1. bad \in Errors
    <3>1. bad # "none"
      BY <1>2, <1>7 DEF GoesOn
    <3>2. bad \in Errors \cup {"none"}
      BY WriteErrors
    <3> QED
      BY <3>1, <3>2
  <2>2. /\ Work(w, q, m) /\ Idle(w)
        /\ e.h \in Handles /\ e.off \in Nat /\ e.bytes \in Seq(Int)
        /\ ~Declares(e.h) /\ x = Written(w, e.h, e.off, e.bytes)
    BY <1>5, <1>7
  <2> HIDE DEF bad, x, w, e
  <2>3. /\ Work(x, q, m) /\ x.rop = w.rop /\ x.wop = w.wop /\ x.pend = w.pend
    BY <2>2, WorkWritten
  <2>4. Idle(x)
    BY <2>2, <2>3 DEF Idle
  <2> QED
    BY <1>7, <2>1, <2>3, <2>4, ExecErrorEnds
<1> QED
  BY <1>1, <1>3, <1>4, <1>6, <1>7

LEMMA ExecEnds ==
    ASSUME NEW m \in Nat, NEW t, NEW q, Work(t, q, m), Idle(t), q.op = "exec",
           q.n = m, NEW u, u = ExecWriteCb(t, q, m)
    PROVE  InvOf(u, q, m)
<1> DEFINE loose == \E i \in DOMAIN t.prep : ~t.prep[i].reliable
<1>1. \/ u = Error(DropPrepared(t), "exec", "INVALID_PDU")
      \/ q.flags # 1 /\ u = Respond(DropPrepared(t), "exec", <<>>, <<>>, 0)
      \/ u = Error(DropPrepared(t), "exec", "REQUEST_NOT_SUPPORTED")
      \/ u = ExecNext(t, "none", m)
  <2>1. u = CASE q.flags \notin {0, 1} ->
                   Error(DropPrepared(t), "exec", "INVALID_PDU")
              [] q.flags = 0 -> Respond(DropPrepared(t), "exec", <<>>, <<>>, 0)
              [] q.flags = 1 /\ Len(t.prep) > 1 /\ loose ->
                   Error(DropPrepared(t), "exec", "REQUEST_NOT_SUPPORTED")
              [] OTHER -> ExecNext(t, "none", m)
    BY DEF ExecWriteCb
  <2> HIDE DEF loose
  <2> QED
    BY <2>1
<1>2. "INVALID_PDU" \in Errors /\ "REQUEST_NOT_SUPPORTED" \in Errors
      /\ "none" \in Errors \cup {"none"}
  BY DEF Errors
<1>3. CASE \/ u = Error(DropPrepared(t), "exec", "INVALID_PDU")
           \/ u = Error(DropPrepared(t), "exec", "REQUEST_NOT_SUPPORTED")
  BY <1>2, <1>3, ExecErrorEnds
<1>4. CASE q.flags # 1 /\ u = Respond(DropPrepared(t), "exec", <<>>, <<>>, 0)
  <2> DEFINE v == DropPrepared(t)
  <2>1. v = DropPrepared(t) /\ u = Respond(v, "exec", <<>>, <<>>, 0)
    BY <1>4
  <2> HIDE DEF v
  <2> QED
    BY <1>4, <2>1, ExecRespondEnds
<1>5. CASE u = ExecNext(t, "none", m)
  <2> DEFINE err == "none"
  <2>1. err \in Errors \cup {"none"} /\ u = ExecNext(t, err, q.n)
    BY <1>5
  <2> HIDE DEF err
  <2> QED
    BY <2>1, ExecNextEnds
<1> QED
  BY <1>1, <1>3, <1>4, <1>5
-----------------------------------------------------------------------------
(* Requests *)

LEMMA Handled ==
    ASSUME NEW m \in Nat, NEW t, NEW q, Work(t, q, m), Idle(t), q.n = m,
           q.op = "prep" => 5 + q.len <= t.att, NEW u, u = Handler(t, q, m)
    PROVE  InvOf(u, q, m)
<1>1. q.op \in Opcodes /\ (q.op = "mtu" => q.mtu \in Nat)
  BY RequestFields DEF Work
<1>2. CASE q.op = "mtu"
  BY <1>1, <1>2, MtuEnds DEF Handler
<1>3. CASE q.op = "grp"
  BY <1>3, GrpEnds DEF Handler
<1>4. CASE q.op = "type"
  BY <1>4, TypeEnds DEF Handler
<1>5. CASE q.op = "info"
  BY <1>5, InfoEnds DEF Handler
<1>6. CASE q.op = "find"
  BY <1>6, FindEnds DEF Handler
<1>7. CASE q.op = "write"
  BY <1>7, WriteEnds DEF Handler
<1>8. CASE q.op \in {"read", "blob"}
  BY <1>8, ReadEnds DEF Handler
<1>9. CASE q.op \in {"mult", "vl"}
  BY <1>9, MultEnds DEF Handler
<1>10. CASE q.op = "prep"
  BY <1>10, PrepEnds DEF Handler
<1>11. CASE q.op = "exec"
  BY <1>11, ExecEnds DEF Handler
<1>12. CASE q.op = "short"
  <2>1. u = Error(t, q.op, "INVALID_PDU")
    BY <1>12 DEF Handler
  <2>2. "INVALID_PDU" \in Errors /\ t.rop = 0 /\ (t.wop # 0 <=> t.pend # {})
        /\ q.op # "exec"
    BY <1>12 DEF Errors, Idle
  <2> QED
    BY <1>1, <2>1, <2>2, ErrorEnds
<1> QED
  BY <1>1, <1>2, <1>3, <1>4, <1>5, <1>6, <1>7, <1>8, <1>9, <1>10, <1>11, <1>12
     DEF Opcodes

(* the handler does not look at the number of a request *)
LEMMA SameHandler ==
    ASSUME NEW r \in AnyRequest, r.op # "cmd", NEW i, NEW q, q = [r EXCEPT !.n = i],
           NEW t, NEW m
    PROVE  /\ q.n = i /\ q.op = r.op /\ Handler(t, q, m) = Handler(t, r, m)
           /\ q.op = "prep" => q.len = r.len
<1>1. CASE r \in [op : {"mtu"}, n : {0}, mtu : Nat]
  <2>1. q.n = i /\ r.op = "mtu" /\ q.op = r.op /\ q.mtu = r.mtu
    BY <1>1
  <2> QED
    BY <2>1 DEF Handler, ExchangeMtuCb
<1>2. CASE r \in [op : {"grp", "type", "info"}, n : {0}, from : Nat, to : Nat,
                  type : STRING]
  <2>1. q.n = i /\ r.op \in {"grp", "type", "info"} /\ q.op = r.op
        /\ q.from = r.from /\ q.to = r.to /\ q.type = r.type
    BY <1>2
  <2>2. BadRange(q) = BadRange(r)
    BY <2>1 DEF BadRange
  <2>3. /\ ReadByGrpTypeCb(t, q) = ReadByGrpTypeCb(t, r)
        /\ ReadByTypeCb(t, q, m) = ReadByTypeCb(t, r, m)
        /\ FindInfoCb(t, q) = FindInfoCb(t, r)
    BY <2>1, <2>2, Zenon DEF ReadByGrpTypeCb, ReadByTypeCb, FindInfoCb
  <2> QED
    BY <2>1, <2>3 DEF Handler
<1>3. CASE r \in [op : {"find"}, n : {0}, from : Nat, to : Nat, type : STRING,
                  value : Seq(Int)]
  <2>1. q.n = i /\ r.op = "find" /\ q.op = r.op
        /\ q.from = r.from /\ q.to = r.to /\ q.type = r.type /\ q.value = r.value
    BY <1>3
  <2>2. FindByTypeValCb(t, q) = FindByTypeValCb(t, r)
    BY <2>1, Zenon DEF FindByTypeValCb
  <2> QED
    BY <2>1, <2>2 DEF Handler
<1>4. CASE r \in [op : {"read", "blob"}, n : {0}, h : Nat, off : Nat]
  <2>1. q.n = i /\ r.op \in {"read", "blob"} /\ q.op = r.op
        /\ q.h = r.h /\ q.off = r.off
    BY <1>4
  <2>2. HandleReadReq(t, q, m) = HandleReadReq(t, r, m)
    BY <2>1, Zenon DEF HandleReadReq
  <2> QED
    BY <2>1, <2>2 DEF Handler
<1>5. CASE r \in [op : {"mult", "vl"}, n : {0}, hs : Seq(Nat) \ {<<>>}]
  <2>1. q.n = i /\ r.op \in {"mult", "vl"} /\ q.op = r.op /\ q.hs = r.hs
    BY <1>5
  <2>2. ReadMultipleCb(t, q, m) = ReadMultipleCb(t, r, m)
    BY <2>1 DEF ReadMultipleCb
  <2> QED
    BY <2>1, <2>2 DEF Handler
<1>6. CASE r \in [op : {"write", "cmd"}, n : {0}, h : Nat, len : Nat]
  <2>1. q.n = i /\ r.op = "write" /\ q.op = r.op /\ q.h = r.h /\ q.len = r.len
    BY <1>6
  <2>2. WriteCb(t, q, m) = WriteCb(t, r, m)
    BY <2>1 DEF WriteCb
  <2> QED
    BY <2>1, <2>2 DEF Handler
<1>7. CASE r \in [op : {"prep"}, n : {0}, h : Nat, off : Nat, len : Nat]
  <2>1. q.n = i /\ r.op = "prep" /\ q.op = r.op /\ q.h = r.h /\ q.off = r.off
        /\ q.len = r.len
    BY <1>7
  <2>2. PrepWriteCb(t, q, m) = PrepWriteCb(t, r, m)
    BY <2>1, Zenon DEF PrepWriteCb
  <2> QED
    BY <2>1, <2>2 DEF Handler
<1>8. CASE r \in [op : {"exec"}, n : {0}, flags : Nat]
  <2>1. q.n = i /\ r.op = "exec" /\ q.op = r.op /\ q.flags = r.flags
    BY <1>8
  <2>2. ExecWriteCb(t, q, m) = ExecWriteCb(t, r, m)
    BY <2>1, Zenon DEF ExecWriteCb
  <2> QED
    BY <2>1, <2>2 DEF Handler
<1>9. CASE r \in [op : {"short"}, n : {0}]
  <2>1. q.n = i /\ r.op = "short" /\ q.op = r.op
    BY <1>9
  <2> QED
    BY <2>1 DEF Handler
<1> QED
  BY <1>1, <1>2, <1>3, <1>4, <1>5, <1>6, <1>7, <1>8, <1>9 DEF AnyRequest
-----------------------------------------------------------------------------
(* Reports and timers *)

(* the callback of the operation p, with the state w without it *)
Callback(w, p, err, v) ==
    IF p.call.way = "r" THEN ReadDone(w, p.call.h, p.k, err, v)
    ELSE IF p.k.op = "exec" THEN ExecNext(w, err, p.k.n)
    ELSE WriteComplete(w, p.k, err)

(* the request is handled again *)
LEMMA WorkAgain ==
    ASSUME NEW m \in Nat, NEW t, NEW q, InvOf(t, q, m),
           NEW p \in t.pend, p.k.op # "cmd", NEW w, Base(w, m), Ended(w, t, p)
    PROVE  /\ Work(w, q, m) /\ Going(t, q, p)
           /\ w.rop # 0 <=> p.k.op \in SlotOps
           /\ p.k.op = "write" => w.pend = {}
           /\ p.k.op # "write" => (w.wop # 0 <=> w.pend # {})
<1>1. /\ q # NoReq /\ t.ans = <<>> /\ Going(t, q, p)
      /\ \A x \in t.pend : x.k.op # "cmd" => x = p
  BY DEF InvOf, Answering
<1>2. w.ans = <<>> /\ (\A x \in w.pend : x.k.op = "cmd" /\ x \in t.pend)
  BY <1>1 DEF Ended
<1>3. Unbroken(w)
  BY <1>1 DEF InvOf, Session, Unbroken, Ended, SameQueue
<1>4. Work(w, q, m)
  BY <1>1, <1>2, <1>3 DEF Work, InvOf
<1>5. w.rop # 0 <=> p.k.op \in SlotOps
  BY <1>1 DEF InvOf, Slots, Ended, SlotOps
<1>6. p.k.op = "write" => w.pend = {}
  <2> SUFFICES ASSUME p.k.op = "write", NEW x \in w.pend PROVE FALSE
    OBVIOUS
  <2>1. x.k.op = "cmd" /\ x \in t.pend
    BY <1>2
  <2>2. x = p
    BY <2>1 DEF InvOf, Base, OneWrite
  <2> QED
    BY <2>1, <2>2
<1>7. p.k.op # "write" => (w.wop # 0 <=> w.pend # {})
  <2> SUFFICES ASSUME p.k.op # "write" PROVE w.wop # 0 <=> w.pend # {}
    OBVIOUS
  <2>1. w.wop # 0 <=> \E x \in t.pend : x.k.op \in {"write", "cmd"}
    BY DEF InvOf, Slots, Ended
  <2>2. \A x \in t.pend : x.k.op \in {"write", "cmd"} <=> x \in w.pend
    BY <1>1, <1>2 DEF Ended
  <2>3. \A x \in w.pend : x \in t.pend
    BY <1>2
  <2> QED
    BY <2>1, <2>2, <2>3
<1> QED
  BY <1>1, <1>4, <1>5, <1>6, <1>7

LEMMA CallbackKeeps ==
    ASSUME NEW m \in Nat, NEW t, NEW q, InvOf(t, q, m), NEW p \in t.pend,
           NEW w, Base(w, m), Ended(w, t, p), NEW err \in Errors \cup {"none"},
           NEW v \in Seq(Int), ToSet(v) \subseteq {p.k.n},
           NEW u, u = Callback(w, p, err, v)
    PROVE  InvOf(u, q, m)
<1>1. /\ p \in AnyPending /\ (p.call.way = "r" <=> p.k.op \in ReadOps)
      /\ p.call.h \in Handles
  BY DEF InvOf, Base, Numbered, Server, AnyPending, CallId
<1>2. p.k \in Kept
  BY <1>1 DEF AnyPending
<1>3. CASE p.k.op = "cmd"
  <2>1. u = [w EXCEPT !.wop = 0]
    BY <1>1, <1>3 DEF Callback, WriteComplete, ReadOps
  <2> QED
    BY <1>3, <2>1, CommandDone
<1>4. ASSUME p.k.op # "cmd" PROVE InvOf(u, q, m)
  <2>1. /\ Work(w, q, m) /\ Going(t, q, p)
        /\ w.rop # 0 <=> p.k.op \in SlotOps
        /\ p.k.op = "write" => w.pend = {}
        /\ p.k.op # "write" => (w.wop # 0 <=> w.pend # {})
    BY <1>4, WorkAgain
  <2>2. p.k.op = q.op /\ p.k.n = q.n /\ w.att = t.att /\ w.prep = t.prep
    BY <2>1 DEF Going, Ended, SameDb, SameQueue
  <2>3. CASE q.op \in {"read", "blob"}
    <3>1. u = ReadComplete(w, p.call.h, p.k, err, v)
      BY <1>1, <2>2, <2>3 DEF Callback, ReadDone, ReadOps
    <3>2. w.wop # 0 <=> w.pend # {}
      BY <2>1, <2>2, <2>3
    <3>3. ToSet(v) \subseteq {q.n}
      BY <2>2
    <3> QED
      BY <1>1, <2>1, <2>2, <2>3, <3>1, <3>2, <3>3, ReadCompleteEnds
  <2>4. CASE q.op = "type"
    <3>1. /\ w.wop # 0 <=> w.pend # {}
          /\ w.rop # 0 /\ q.op # "exec" /\ q.op \in Opcodes
      BY <2>1, <2>2, <2>4 DEF SlotOps, Opcodes
    <3>2. u = IF err # "none" THEN DropReadOp(Error(w, q.op, err))
              ELSE ProcessReadByType(w, ReadByTypeComplete(w, p.call.h, p.k, v))
      BY <1>1, <2>2, <2>4 DEF Callback, ReadDone, ReadOps
    <3>3. CASE err # "none"
      BY <2>1, <3>1, <3>2, <3>3, ErrorEnds
    <3>4. CASE err = "none"
      <4> DEFINE k == ReadByTypeComplete(w, p.call.h, p.k, v)
      <4>1. p.k \in TypeKept
        BY <1>2, <2>2, <2>4
           DEF Kept, ReadKept, MultKept, WriteKept, PrepKept, ExecKept
      <4>2. TypeGoing(w, q, p.k, p.call.h)
        <5>1. TypeGoing(t, q, p.k, p.call.h)
          BY <2>1, <2>2, <2>4 DEF Going
        <5>2. All(w, q) = All(t, q)
          BY <2>4 DEF All
        <5> QED
          BY <2>2, <5>1, <5>2 DEF TypeGoing
      <4>3. TypeSoFar(w, q, k)
        BY <1>1, <2>2, <4>1, <4>2, TypeJoins
      <4>4. u = ProcessReadByType(w, k)
        BY <3>2, <3>4
      <4> HIDE DEF k
      <4> QED
        BY <2>1, <3>1, <4>3, <4>4, ProcessTypeEnds
    <3> QED
      BY <3>3, <3>4
  <2>5. CASE q.op \in {"mult", "vl"}
    <3>1. Idle(w)
      BY <2>1, <2>2, <2>5 DEF Idle, SlotOps
    <3>2. u = IF err # "none" THEN Error(w, q.op, err)
              ELSE ReadMultipleComplete(w, p.call.h, p.k, v)
      BY <1>1, <2>2, <2>5 DEF Callback, ReadDone, ReadOps
    <3>3. CASE err # "none"
      BY <2>1, <2>5, <3>1, <3>2, <3>3, MultErrorEnds
    <3>4. CASE err = "none"
      <4>1. p.k \in MultKept
        BY <1>2, <2>2, <2>5
           DEF Kept, ReadKept, TypeKept, WriteKept, PrepKept, ExecKept
      <4>2. MultGoing(w, p.k)
        BY <2>1, <2>2, <2>5 DEF Going, MultGoing
      <4>3. u = ReadMultipleComplete(w, p.call.h, p.k, v)
        BY <3>2, <3>4
      <4> QED
        BY <2>1, <2>2, <2>5, <3>1, <4>1, <4>2, <4>3, MultCompleteEnds
    <3> QED
      BY <3>3, <3>4
  <2>6. CASE q.op = "write"
    <3>1. u = WriteComplete(w, p.k, err)
      BY <1>1, <2>2, <2>6 DEF Callback, ReadOps
    <3>2. w.rop = 0 /\ w.pend = {}
      BY <2>1, <2>2, <2>6 DEF SlotOps
    <3> QED
      BY <2>1, <2>2, <2>6, <3>1, <3>2, WriteCompleteEnds
  <2>7. CASE q.op = "prep"
    <3>1. u = WriteComplete(w, p.k, err)
      BY <1>1, <2>2, <2>7 DEF Callback, ReadOps
    <3>2. Idle(w)
      BY <2>1, <2>2, <2>7 DEF Idle, SlotOps
    <3>3. p.k \in PrepKept
      BY <1>2, <2>2, <2>7
         DEF Kept, ReadKept, TypeKept, MultKept, WriteKept, ExecKept
    <3>4. ~Declares(p.k.h) /\ Len(p.k.bytes) + 5 <= w.att
          /\ Len(w.prep) < MaxPrepQueueLen
      BY <2>1, <2>2, <2>7 DEF Going
    <3> QED
      BY <2>1, <2>7, <3>1, <3>2, <3>3, <3>4, PrepCompleteEnds
  <2>8. CASE q.op = "exec"
    <3>1. u = ExecNext(w, err, q.n)
      BY <1>1, <2>2, <2>8 DEF Callback, ReadOps
    <3>2. Idle(w)
      BY <2>1, <2>2, <2>8 DEF Idle, SlotOps
    <3> QED
      BY <2>1, <2>8, <3>1, <3>2, ExecNextEnds
  <2>9. q.op \in {"read", "blob", "type", "mult", "vl", "write", "prep", "exec"}
    BY <1>2, <1>4, <2>2 DEF Kept, ReadKept, TypeKept, MultKept, WriteKept,
                            PrepKept, ExecKept
  <2> QED
    BY <2>3, <2>4, <2>5, <2>6, <2>7, <2>8, <2>9
<1> QED
  BY <1>3, <1>4
-----------------------------------------------------------------------------
(* The initial state *)

LEMMA NewServerOK == NewServer \in Server /\ Base(NewServer, 0)
<1> DEFINE val == [h \in Handles |-> [i \in 1 .. Attr[h].len |-> 0]]
           id == [h \in Handles |-> [r |-> 0, w |-> 0]]
<1>1. val \in [Handles -> Seq(Int)]
  <2> SUFFICES ASSUME NEW h \in Handles
               PROVE  [i \in 1 .. Attr[h].len |-> 0] \in Seq(Int)
    OBVIOUS
  <2>1. Attr[h].len \in Nat
    BY Attributes
  <2> QED
    BY <2>1
<1>2. id \in [Handles -> [r : Nat, w : Nat]]
  OBVIOUS
<1>3. \A h \in Handles : val[h] = [i \in 1 .. Attr[h].len |-> 0]
  OBVIOUS
<1>4. NewServer =
        [rop |-> 0, wop |-> 0, prep |-> <<>>, mtu |-> ServerMtu,
         chan |-> DEFAULT_LE_MTU, att |-> DEFAULT_LE_MTU, val |-> val,
         pend |-> {}, id |-> id, calls |-> {}, ans |-> <<>>,
         prepared |-> <<>>, executed |-> <<>>]
  BY DEF NewServer
<1> HIDE DEF val, id
<1>5. NewServer \in Server
  BY <1>1, <1>2, <1>4, Constants DEF Server
<1>6. /\ NewServer.rop = 0 /\ NewServer.wop = 0 /\ NewServer.prep = <<>>
      /\ NewServer.mtu = ServerMtu /\ NewServer.chan = DEFAULT_LE_MTU
      /\ NewServer.att = DEFAULT_LE_MTU /\ NewServer.val = val
      /\ NewServer.pend = {} /\ NewServer.calls = {}
  BY <1>4
<1>7. Numbered(NewServer, 0)
  BY <1>6 DEF Numbered
<1>8. Mtus(NewServer)
  BY <1>6, Constants DEF Mtus
<1>9. Declared(NewServer)
  BY <1>3, <1>6 DEF Declared
<1>10. OneWrite(NewServer)
  BY <1>6 DEF OneWrite
<1>11. Len(NewServer.prep) = 0 /\ 0 <= MaxPrepQueueLen
  BY <1>6, Constants
<1> QED
  BY <1>5, <1>6, <1>7, <1>8, <1>9, <1>10, <1>11 DEF Base

LEMMA InvInit == Init => Inv
<1> SUFFICES ASSUME Init PROVE Inv
  OBVIOUS
<1> USE DEF Init
<1>1. /\ NewServer.rop = 0 /\ NewServer.wop = 0 /\ NewServer.prep = <<>>
      /\ NewServer.pend = {} /\ NewServer.ans = <<>>
      /\ NewServer.prepared = <<>> /\ NewServer.executed = <<>>
  BY DEF NewServer
<1>2. Base(s, n)
  BY NewServerOK
<1>3. RequestOK(req, n)
  BY DEF RequestOK
<1>4. Slots(s)
  BY <1>1 DEF Slots
<1>5. Answering(s, req)
  BY <1>1 DEF Answering
<1>6. Session(s, req)
  <2>1. Held(s.prep) = <<>>
    BY <1>1, HeldEmpty
  <2>2. <<>> = <<>> \o <<>>
    OBVIOUS
  <2>3. s.prepared = s.executed \o Held(s.prep)
    BY <1>1, <2>1, <2>2
  <2> QED
    BY <1>1, <2>3 DEF Session, Unbroken
<1>7. n \in 0 .. MaxReqs
  BY ServerAssumption
<1> QED
  BY <1>2, <1>3, <1>4, <1>5, <1>6, <1>7 DEF Inv, InvOf
-----------------------------------------------------------------------------
(* Every step *)

LEMMA DoneIs ==
    ASSUME NEW t, NEW p, NEW err, NEW v, NEW w, w = [t EXCEPT !.pend = @ \ {p}]
    PROVE  Done(t, p, err, v) = Callback(w, p, err, v)
BY DEF Done, Callback

LEMMA EndedNow ==
    ASSUME NEW m \in Nat, NEW t, Base(t, m), NEW p,
           NEW w, w = [t EXCEPT !.pend = @ \ {p}]
    PROVE  Base(w, m) /\ Ended(w, t, p)
<1>1. t \in Server
  BY DEF Base
<1>2. w.pend = t.pend \ {p}
  BY <1>1 DEF Server
<1>3. \E x : w = [t EXCEPT !.pend = @ \ {x}]
  OBVIOUS
<1>4. /\ Base(w, m) /\ w.rop = t.rop /\ w.wop = t.wop /\ w.ans = t.ans
      /\ SameDb(w, t) /\ SameQueue(w, t)
  BY <1>3, BaseLess
<1> QED
  BY <1>2, <1>4 DEF Ended

LEMMA TimeoutKeeps ==
    ASSUME Inv, NEW p \in s.pend, Timeout(p)
    PROVE  Inv'
<1>1. n \in Nat /\ n \in 0 .. MaxReqs /\ InvOf(s, req, n)
  BY ServerAssumption DEF Inv
<1>2. PICK w : w = [s EXCEPT !.pend = @ \ {p}]
  OBVIOUS
<1>3. Base(s, n)
  BY <1>1 DEF InvOf
<1>4. Base(w, n) /\ Ended(w, s, p)
  BY <1>1, <1>2, <1>3, EndedNow
<1>5. s' = Callback(w, p, "UNLIKELY", <<>>) /\ req' = req /\ n' = n
  BY <1>2, DoneIs DEF Timeout
<1>6. "UNLIKELY" \in Errors \cup {"none"}
  BY DEF Errors
<1> DEFINE err == "UNLIKELY"
           v == <<>>
<1>7. v \in Seq(Int) /\ ToSet(v) \subseteq {p.k.n}
  BY DEF ToSet
<1>8. err \in Errors \cup {"none"} /\ s' = Callback(w, p, err, v)
  BY <1>5, <1>6
<1> HIDE DEF err, v
<1>9. InvOf(s', req, n)
  BY <1>1, <1>4, <1>7, <1>8, CallbackKeeps
<1> QED
  BY <1>1, <1>5, <1>9 DEF Inv

LEMMA ReportKeeps ==
    ASSUME Inv, NEW c \in s.calls, NEW err \in {"none", "APP"}, Report(c, err)
    PROVE  Inv'
<1>1. n \in Nat /\ n \in 0 .. MaxReqs /\ InvOf(s, req, n)
  BY ServerAssumption DEF Inv
<1>2. PICK t : t = [s EXCEPT !.calls = @ \ {c}]
  OBVIOUS
<1>3. Base(s, n) /\ s \in Server
  BY <1>1 DEF InvOf, Base
<1>4. /\ Base(t, n) /\ t.rop = s.rop /\ t.wop = s.wop /\ t.ans = s.ans
      /\ SameDb(t, s) /\ SameQueue(t, s)
  BY <1>1, <1>2, <1>3, BaseLess
<1>5. t.pend = s.pend
  BY <1>2, <1>3 DEF Server
<1>6. InvOf(t, req, n)
  <2>1. Slots(t)
    BY <1>1, <1>4, <1>5 DEF InvOf, Slots
  <2>2. n <= n
    BY <1>1
  <2>3. t.att = s.att
    BY <1>4 DEF SameDb
  <2> QED
    BY <1>1, <1>4, <1>5, <2>1, <2>2, <2>3, Beside
<1> DEFINE v == [i \in 1 .. AtLeast(0, Attr[c.call.h].len - c.off) |-> c.n]
           W == Waiting(s, c.call)
<1>7. /\ s' = IF W = {} THEN t ELSE Done(t, CHOOSE p \in W : TRUE, err, v)
      /\ req' = req /\ n' = n
  BY <1>2 DEF Report
<1>8. v \in Seq(Int) /\ ToSet(v) \subseteq {c.n}
  <2>1. c \in AnyCall /\ c.n \in Nat
    BY <1>3 DEF Server, AnyCall
  <2>2. Attr[c.call.h].len \in Nat /\ c.off \in Nat
    <3>1. c.call.h \in Handles /\ c.off \in Nat
      BY <2>1 DEF AnyCall, CallId
    <3> QED
      BY <3>1, Attributes
  <2>3. AtLeast(0, Attr[c.call.h].len - c.off) \in Nat
    BY <2>2 DEF AtLeast
  <2> QED
    BY <2>1, <2>3 DEF ToSet
<1> HIDE DEF v
<1>9. CASE W = {}
  <2>1. s' = t
    BY <1>7, <1>9
  <2> QED
    BY <1>1, <1>6, <1>7, <2>1 DEF Inv
<1>10. CASE W # {}
  <2>1. PICK p \in W : s' = Done(t, p, err, v)
    BY <1>7, <1>10
  <2>2. p \in s.pend /\ p.call = c.call
    BY <2>1 DEF Waiting
  <2>3. p.k.n = c.n
    BY <1>3, <2>2 DEF Base, Numbered
  <2>4. PICK w : w = [t EXCEPT !.pend = @ \ {p}]
    OBVIOUS
  <2>5. Base(w, n) /\ Ended(w, t, p)
    BY <1>1, <1>4, <2>4, EndedNow
  <2>6. s' = Callback(w, p, err, v)
    BY <2>1, <2>4, DoneIs
  <2>7. ToSet(v) \subseteq {p.k.n} /\ v \in Seq(Int)
    BY <1>8, <2>3
  <2>8. err \in Errors \cup {"none"} /\ p \in t.pend
    BY <1>5, <2>2 DEF Errors
  <2>9. InvOf(s', req, n)
    BY <1>1, <1>6, <2>5, <2>6, <2>7, <2>8, CallbackKeeps
  <2> QED
    BY <1>1, <1>7, <2>9 DEF Inv
<1> QED
  BY <1>9, <1>10
LEMMA CommandFields ==
    ASSUME NEW r \in AnyRequest, r.op = "cmd"
    PROVE  r.h \in Nat /\ r.len \in Nat
<1>1. r \in [op : {"write", "cmd"}, n : {0}, h : Nat, len : Nat]
  BY DEF AnyRequest
<1> QED
  BY <1>1

LEMMA RequestIs ==
    ASSUME NEW r \in AnyRequest, r.op # "cmd", NEW m, m \in Nat, m # 0,
           NEW q, q = [r EXCEPT !.n = m]
    PROVE  /\ RequestOK(q, m) /\ q # NoReq /\ q.n = m
           /\ q.op = "prep" => q.len = r.len /\ r.len \in Nat
<1>1. \E x \in AnyRequest, i \in 1 .. m : x.op # "cmd" /\ q = [x EXCEPT !.n = i]
  <2>1. m \in 1 .. m
    OBVIOUS
  <2> QED
    BY <2>1
<1>2. q.n = m /\ q.op = r.op /\ (q.op = "prep" => q.len = r.len)
  BY SameHandler
<1>3. r.op # "none"
  BY DEF AnyRequest
<1>4. r.op = "prep" => r.len \in Nat
  BY DEF AnyRequest
<1>5. q # NoReq
  BY <1>2, <1>3 DEF NoReq
<1> QED
  BY <1>1, <1>2, <1>4, <1>5 DEF RequestOK

(* the state that a request finds *)
Fresh(t, q) ==
    [IF q.op = "exec" /\ t.ans # <<>>
     THEN [t EXCEPT !.prepared = <<>>, !.executed = <<>>]
     ELSE t EXCEPT !.ans = <<>>]

(* nobody waits then but a command *)
LEMMA Cleared ==
    ASSUME NEW m \in Nat, NEW t, NEW q, InvOf(t, q, m), ~(q # NoReq /\ t.ans = <<>>),
           NEW u, u = Fresh(t, q)
    PROVE  /\ Base(u, m) /\ u.ans = <<>> /\ Unbroken(u) /\ Idle(u)
           /\ u.att = t.att
           /\ \A p \in u.pend : p.k.op = "cmd"
<1>1. t \in Server /\ Base(t, m)
  BY DEF InvOf, Base
<1>2. /\ u \in Server /\ u.rop = t.rop /\ u.wop = t.wop /\ u.ans = <<>>
      /\ u.prep = t.prep /\ SameDb(u, t) /\ SameCalls(u, t)
      /\ q.op = "exec" /\ t.ans # <<>> => u.prepared = <<>> /\ u.executed = <<>>
      /\ ~(q.op = "exec" /\ t.ans # <<>>) =>
             u.prepared = t.prepared /\ u.executed = t.executed
  <2>1. <<>> \in Seq(AnyAnswer) /\ <<>> \in Seq(Octet)
    OBVIOUS
  <2>2. CASE q.op = "exec" /\ t.ans # <<>>
    <3>1. u = [t EXCEPT !.prepared = <<>>, !.executed = <<>>, !.ans = <<>>]
      BY <1>1, <2>2 DEF Server, Fresh
    <3> QED
      BY <1>1, <2>1, <2>2, <3>1 DEF Server, SameDb, SameCalls
  <2>3. CASE ~(q.op = "exec" /\ t.ans # <<>>)
    <3>1. u = [t EXCEPT !.ans = <<>>]
      BY <2>3 DEF Fresh
    <3> QED
      BY <1>1, <2>1, <2>3, <3>1 DEF Server, SameDb, SameCalls
  <2> QED
    BY <2>2, <2>3
<1>3. Base(u, m)
  <2>1. u.rop <= m /\ u.wop <= m /\ Len(u.prep) <= MaxPrepQueueLen
    BY <1>1, <1>2 DEF Base
  <2>2. \A i \in DOMAIN u.prep : ~Declares(u.prep[i].h)
    BY <1>1, <1>2 DEF Base, Declared
  <2> QED
    BY <1>1, <1>2, <2>1, <2>2, BaseSame
<1>4. \A p \in t.pend : p.k.op = "cmd"
  BY DEF InvOf, Answering
<1>5. \A p \in u.pend : p.k.op = "cmd"
  BY <1>2, <1>4 DEF SameCalls
<1>6. Idle(u)
  <2>1. t.rop = 0
    BY <1>4 DEF InvOf, Slots, SlotOps
  <2>2. t.wop # 0 <=> t.pend # {}
    BY <1>4 DEF InvOf, Slots
  <2> QED
    BY <1>2, <2>1, <2>2 DEF Idle, SameCalls
<1>7. Unbroken(u)
  <2>1. CASE q.op = "exec" /\ t.ans # <<>>
    <3>1. t.prep = <<>>
      BY <2>1 DEF InvOf, Session
    <3>2. u.prep = <<>> /\ u.prepared = <<>> /\ u.executed = <<>>
      BY <1>2, <2>1, <3>1
    <3>3. Held(u.prep) = <<>> /\ <<>> = <<>> \o <<>>
      BY <3>2, HeldEmpty
    <3> QED
      BY <3>2, <3>3 DEF Unbroken
  <2>2. CASE ~(q.op = "exec" /\ t.ans # <<>>)
    <3>1. Unbroken(t)
      BY <2>2 DEF InvOf, Session
    <3>2. u.prep = t.prep /\ u.prepared = t.prepared /\ u.executed = t.executed
      BY <1>2, <2>2
    <3> QED
      BY <3>1, <3>2 DEF Unbroken
  <2> QED
    BY <2>1, <2>2
<1>8. u.att = t.att
  BY <1>2 DEF SameDb
<1> QED
  BY <1>2, <1>3, <1>5, <1>6, <1>7, <1>8

LEMMA ReceiveKeeps ==
    ASSUME Inv, NEW r \in Requests, Receive(r)
    PROVE  Inv'
<1>1. n \in Nat /\ n \in 0 .. MaxReqs /\ InvOf(s, req, n)
  BY ServerAssumption DEF Inv
<1>2. n' = n + 1 /\ n + 1 \in 0 .. MaxReqs /\ n + 1 \in Nat \ {0}
  BY <1>1, ServerAssumption DEF Receive
<1>3. r \in AnyRequest
  BY ServerAssumption
<1>4. CASE r.op = "cmd"
  <2>1. s' = Handler(s, r, n + 1) /\ req' = req
    BY <1>4 DEF Receive
  <2>2. s' = WriteCb(s, r, n + 1)
    BY <1>4, <2>1 DEF Handler
  <2>3. r.h \in Nat /\ r.len \in Nat
    BY <1>3, <1>4, CommandFields
  <2>4. InvOf(s', req, n + 1)
    BY <1>1, <1>4, <2>2, <2>3, CommandKeeps
  <2> QED
    BY <1>2, <2>1, <2>4 DEF Inv
<1>5. CASE r.op # "cmd"
  <2> DEFINE m == n + 1
  <2>1. PICK u : u = Fresh(s, req)
    OBVIOUS
  <2>2. PICK q : q = [r EXCEPT !.n = m]
    OBVIOUS
  <2>3. s' = Handler(u, r, m) /\ req' = q /\ ~(req # NoReq /\ s.ans = <<>>)
    BY <1>5, <2>1, <2>2 DEF Receive, Forget, SessionOver, Outstanding, Fresh
  <2>4. r.op = "prep" => 5 + r.len <= s.chan
    BY DEF Receive, Readable
  <2>5. m \in Nat \ {0} /\ n' = m /\ m \in 0 .. MaxReqs
    BY <1>2
  <2>6. /\ Base(u, n) /\ u.ans = <<>> /\ Unbroken(u) /\ Idle(u) /\ u.att = s.att
        /\ \A p \in u.pend : p.k.op = "cmd"
    BY <1>1, <2>1, <2>3, Cleared
  <2>7. Base(u, m)
    <3>1. n \in Nat /\ Base(u, n)
      BY <1>1, <2>6
    <3> QED
      BY <3>1, BaseLater
  <2> HIDE DEF m
  <2>8. /\ RequestOK(q, m) /\ q # NoReq /\ q.n = m
        /\ q.op = "prep" => q.len = r.len /\ r.len \in Nat
    <3>1. m \in Nat /\ m # 0
      BY <2>5
    <3>2. RequestOK(q, m)
      BY <1>3, <1>5, <2>2, <3>1, RequestIs
    <3>3. q # NoReq
      BY <1>3, <1>5, <2>2, <3>1, RequestIs
    <3>4. q.n = m
      BY <1>3, <1>5, <2>2, <3>1, RequestIs
    <3>5. q.op = "prep" => q.len = r.len
      BY <1>3, <1>5, <2>2, <3>1, RequestIs
    <3>6. q.op = "prep" => r.len \in Nat
      BY <1>3, <1>5, <2>2, <3>1, RequestIs
    <3> QED
      BY <3>2, <3>3, <3>4, <3>5, <3>6
  <2>9. Handler(u, q, m) = Handler(u, r, m) /\ q.op = r.op
    BY <1>3, <1>5, <2>2, SameHandler
  <2>10. Work(u, q, m)
    BY <2>6, <2>7, <2>8 DEF Work
  <2>11. q.op = "prep" => 5 + q.len <= u.att
    <3>1. s.chan \in Nat /\ s.att \in Nat /\ s.chan <= s.att
      BY <1>1, Constants DEF InvOf, Base, Mtus, Server
    <3> QED
      BY <2>4, <2>6, <2>8, <2>9, <3>1
  <2>12. InvOf(s', q, m)
    BY <2>3, <2>5, <2>6, <2>8, <2>9, <2>10, <2>11, Handled
  <2> QED
    BY <2>3, <2>5, <2>12 DEF Inv
<1> QED
  BY <1>4, <1>5

LEMMA InvNext == Inv /\ [Next]_vars => Inv'
<1> SUFFICES ASSUME Inv, [Next]_vars PROVE Inv'
  OBVIOUS
<1>1. ASSUME NEW r \in Requests, Receive(r) PROVE Inv'
  BY <1>1, ReceiveKeeps
<1>2. ASSUME NEW c \in s.calls, NEW err \in {"none", "APP"}, Report(c, err)
      PROVE  Inv'
  BY <1>2, ReportKeeps
<1>3. ASSUME NEW p \in s.pend, Timeout(p) PROVE Inv'
  BY <1>3, TimeoutKeeps
<1>4. CASE UNCHANGED vars
  BY <1>4 DEF vars, Inv
<1> QED
  BY <1>1, <1>2, <1>3, <1>4 DEF Next

(* The inductive invariant holds in every state of the server: what its       *)
(* callbacks, timers and requests keep between them (gatt-server.c).          *)
THEOREM InvHolds == Spec => []Inv
BY InvInit, InvNext, PTL DEF Spec

(* A request is answered at most once, what still waits will answer the    *)
(* outstanding request, and the slots of reads and writes are taken        *)
(* exactly while something waits: read_complete_cb(), write_complete_cb()  *)
(* and the timers of gatt-db.c in every order.                             *)
THEOREM AnsweredOnceHolds == Spec => []AnsweredOnce
<1>1. Inv => AnsweredOnce
  <2> SUFFICES ASSUME Inv PROVE AnsweredOnce
    OBVIOUS
  <2>1. n \in Nat /\ n \in 0 .. MaxReqs /\ Base(s, n) /\ Slots(s)
        /\ Answering(s, req)
    BY ServerAssumption DEF Inv, InvOf
  <2>2. TypeOK
    <3>1. s \in Server /\ s.rop \in Nat /\ s.wop \in Nat
      BY <2>1 DEF Base, Server
    <3>2. s.rop \in 0 .. n /\ s.wop \in 0 .. n /\ Len(s.prep) <= MaxPrepQueueLen
      BY <2>1, <3>1 DEF Base
    <3>3. s.mtu \in DEFAULT_LE_MTU .. ServerMtu
          /\ s.chan \in DEFAULT_LE_MTU .. s.att /\ s.att <= ServerMtu
      BY <2>1 DEF Base, Mtus
    <3>4. \A p \in s.pend : p.call.h \in Handles /\ p.k.n \in 1 .. n
      BY <2>1, <3>1 DEF Base, Numbered, Server, AnyPending, CallId
    <3> QED
      BY <2>1, <3>2, <3>3, <3>4 DEF TypeOK
  <2>3. \A p \in s.pend : p.k.op # "cmd" => Outstanding /\ p.k.n = req.n
    BY <2>1 DEF Answering, Outstanding, Going
  <2>4. Cardinality({p \in s.pend : p.k.op # "cmd"}) <= 1
    <3> DEFINE W == {p \in s.pend : p.k.op # "cmd"}
    <3>1. \A p, q \in W : p = q
      <4>1. \A p, q \in s.pend : p.k.op # "cmd" /\ q.k.op # "cmd" => p = q
        BY <2>1 DEF Answering
      <4> QED
        BY <4>1
    <3> SUFFICES Cardinality(W) <= 1
      OBVIOUS
    <3> HIDE DEF W
    <3>2. W = {} \/ \E p : W = {p}
      BY <3>1
    <3>3. Cardinality({}) = 0
      BY FS_EmptySet
    <3>4. \A p : Cardinality({p}) = 1
      BY FS_Singleton
    <3>5. Cardinality(W) = 0 \/ Cardinality(W) = 1
      BY <3>2, <3>3, <3>4, Zenon
    <3> QED
      BY <3>5
  <2>5. Len(s.ans) <= 1
    BY <2>1 DEF Answering
  <2>6. /\ s.rop # 0 <=> \E p \in s.pend : p.k.op \in {"read", "blob", "type"}
        /\ s.wop # 0 <=> \E p \in s.pend : p.k.op \in {"write", "cmd"}
    BY <2>1 DEF Slots, SlotOps
  <2> QED
    BY <2>2, <2>3, <2>4, <2>5, <2>6 DEF AnsweredOnce
<1> QED
  BY <1>1, InvHolds, PTL

(* A value that a function of the application delivered answers the        *)
(* request it was asked for: find_pending() compares the id, so that a     *)
(* result after read_timeout() answers no later read.                      *)
THEOREM ValueIsFreshHolds == Spec => []ValueIsFresh
<1>1. Inv => ValueIsFresh
  BY DEF Inv, InvOf, Answering, GoodAnswer, ValueIsFresh
<1> QED
  BY <1>1, InvHolds, PTL

(* Prepared writes are handed over whole and in their order: what          *)
(* store_prep_data() joined and exec_next_prep_write() takes from the      *)
(* queue is what prep_write_cb() acknowledged.                             *)
THEOREM PreparedWholeHolds == Spec => []PreparedWhole
<1>1. Inv => PreparedWhole
  BY DEF Inv, InvOf, Session, Unbroken, PreparedWhole, SessionOver
<1> QED
  BY <1>1, InvHolds, PTL

(* The list of an answer is a prefix, never empty, of what the range holds *)
(* and NOT_FOUND is the answer only to an empty range: the encoders of     *)
(* read_by_grp_type_cb(), read_by_type_cb(), find_info_cb() and            *)
(* find_by_type_val_cb() stop at the MTU and at another length.            *)
THEOREM NothingSkippedHolds == Spec => []NothingSkipped
<1>1. Inv => NothingSkipped
  <2> SUFFICES ASSUME Inv, Ranges(req), NEW i \in DOMAIN s.ans
               PROVE  /\ s.ans[i].err = "none" =>
                            s.ans[i].list # <<>>
                              /\ IsPrefix(s.ans[i].list, All(s, req))
                      /\ s.ans[i].err = "NOT_FOUND" => All(s, req) = <<>>
    BY DEF NothingSkipped, Ranges, All
  <2> QED
    BY DEF Inv, InvOf, Answering, GoodAnswer
<1> QED
  BY <1>1, InvHolds, PTL

(* A response fits the MTU of the channel, for every database: the octets  *)
(* that the encoders and read_multiple_complete_cb() count, after          *)
(* exchange_mtu_cb() too.                                                  *)
THEOREM FitsMtuHolds == Spec => []FitsMtu
<1>1. Inv => FitsMtu
  BY DEF Inv, InvOf, Answering, GoodAnswer, FitsMtu
<1> QED
  BY <1>1, InvHolds, PTL
=============================================================================
