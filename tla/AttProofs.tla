----------------------------- MODULE AttProofs -----------------------------
(***************************************************************************)
(* The ATT bearer: every operation is held in one place until it is freed, *)
(* and told its own result once.                                           *)
(***************************************************************************)
EXTENDS Att, FiniteSetTheorems, TLAPS

Distinct(q) == \A i, j \in DOMAIN q : q[i] = q[j] => i = j
-----------------------------------------------------------------------------
(* The queues of queue.c *)

(* queue_push_tail() *)
LEMMA PushTail ==
    ASSUME NEW S, NEW q \in Seq(S), NEW x \in S
    PROVE  /\ Append(q, x) \in Seq(S)
           /\ ToSet(Append(q, x)) = ToSet(q) \cup {x}
           /\ Distinct(q) /\ x \notin ToSet(q) => Distinct(Append(q, x))
<1>1. /\ Append(q, x) \in Seq(S) /\ Len(q) \in Nat
      /\ DOMAIN q = 1 .. Len(q)
      /\ DOMAIN Append(q, x) = 1 .. Len(q) + 1
      /\ \A i \in DOMAIN q : Append(q, x)[i] = q[i]
      /\ Append(q, x)[Len(q) + 1] = x
  OBVIOUS
<1>2. ToSet(Append(q, x)) = ToSet(q) \cup {x}
  BY <1>1 DEF ToSet
<1>3. ASSUME Distinct(q), x \notin ToSet(q) PROVE Distinct(Append(q, x))
  BY <1>1, <1>3 DEF Distinct, ToSet
<1> QED
  BY <1>1, <1>2, <1>3

(* queue_push_head() *)
LEMMA PushHead ==
    ASSUME NEW S, NEW q \in Seq(S), NEW x \in S
    PROVE  /\ <<x>> \o q \in Seq(S)
           /\ ToSet(<<x>> \o q) = ToSet(q) \cup {x}
           /\ Distinct(q) /\ x \notin ToSet(q) => Distinct(<<x>> \o q)
<1> DEFINE r == <<x>> \o q
<1>1. /\ r \in Seq(S) /\ Len(q) \in Nat
      /\ DOMAIN q = 1 .. Len(q)
      /\ DOMAIN r = 1 .. Len(q) + 1
      /\ r[1] = x
      /\ \A i \in DOMAIN r : i # 1 => i - 1 \in DOMAIN q /\ r[i] = q[i - 1]
      /\ \A i \in DOMAIN q : i + 1 \in DOMAIN r /\ r[i + 1] = q[i]
  OBVIOUS
<1> HIDE DEF r
<1>2. ToSet(r) = ToSet(q) \cup {x}
  <2>1. \A y \in ToSet(r) : y \in ToSet(q) \cup {x}
    BY <1>1 DEF ToSet
  <2>2. \A y \in ToSet(q) : y \in ToSet(r)
    BY <1>1 DEF ToSet
  <2>3. x \in ToSet(r)
    BY <1>1 DEF ToSet
  <2> QED
    BY <2>1, <2>2, <2>3
<1>3. ASSUME Distinct(q), x \notin ToSet(q) PROVE Distinct(r)
  <2> SUFFICES ASSUME NEW i \in DOMAIN r, NEW j \in DOMAIN r, r[i] = r[j] PROVE i = j
    BY DEF Distinct
  <2>1. CASE i # 1 /\ j # 1
    <3>1. i - 1 = j - 1
      BY <1>1, <1>3, <2>1 DEF Distinct
    <3> QED
      BY <1>1, <3>1
  <2>2. CASE i = 1 \/ j = 1
    BY <1>1, <1>3, <2>2 DEF ToSet
  <2> QED
    BY <2>1, <2>2
<1> QED
  BY <1>1, <1>2, <1>3 DEF r

(* queue_pop_head() *)
LEMMA PopHead ==
    ASSUME NEW S, NEW q \in Seq(S), q # <<>>
    PROVE  /\ Head(q) \in ToSet(q) /\ Head(q) \in S
           /\ Tail(q) \in Seq(S)
           /\ Distinct(q) => /\ Distinct(Tail(q))
                             /\ ToSet(Tail(q)) = ToSet(q) \ {Head(q)}
<1> DEFINE r == Tail(q)
<1>1. /\ r \in Seq(S) /\ Len(q) \in Nat /\ Len(q) > 0
      /\ DOMAIN q = 1 .. Len(q) /\ DOMAIN r = 1 .. Len(q) - 1
      /\ Head(q) = q[1] /\ 1 \in DOMAIN q /\ q[1] \in S
      /\ \A i \in DOMAIN r : i + 1 \in DOMAIN q /\ r[i] = q[i + 1]
      /\ \A i \in DOMAIN q : i # 1 => i - 1 \in DOMAIN r /\ r[i - 1] = q[i]
  OBVIOUS
<1> HIDE DEF r
<1>2. Head(q) \in ToSet(q)
  BY <1>1 DEF ToSet
<1>3. ASSUME Distinct(q) PROVE Distinct(r) /\ ToSet(r) = ToSet(q) \ {Head(q)}
  <2>1. Distinct(r)
    <3> SUFFICES ASSUME NEW i \in DOMAIN r, NEW j \in DOMAIN r, r[i] = r[j] PROVE i = j
      BY DEF Distinct
    <3>1. i + 1 = j + 1
      BY <1>1, <1>3 DEF Distinct
    <3> QED
      BY <1>1, <3>1
  <2>2. \A y \in ToSet(r) : y \in ToSet(q) /\ y # Head(q)
    BY <1>1, <1>3 DEF ToSet, Distinct
  <2>3. \A y \in ToSet(q) : y # Head(q) => y \in ToSet(r)
    BY <1>1 DEF ToSet
  <2> QED
    BY <2>1, <2>2, <2>3
<1> QED
  BY <1>1, <1>2, <1>3 DEF r

(* The entries that are left when the one at i is taken out *)
LEMMA TakeOutEntries ==
    ASSUME NEW S, NEW q \in Seq(S), NEW i \in DOMAIN q
    PROVE  LET r == RemoveAt(q, i)
           IN  /\ r \in Seq(S) /\ Len(r) = Len(q) - 1 /\ DOMAIN r = 1 .. Len(q) - 1
               /\ \A k \in DOMAIN r : r[k] = IF k < i THEN q[k] ELSE q[k + 1]
<1> DEFINE r == RemoveAt(q, i)
           a == SubSeq(q, 1, i - 1)
           b == SubSeq(q, i + 1, Len(q))
<1>0. Len(q) \in Nat /\ DOMAIN q = 1 .. Len(q) /\ i \in 1 .. Len(q)
  OBVIOUS
<1>1. a \in Seq(S) /\ Len(a) = i - 1 /\ \A k \in 1 .. i - 1 : a[k] = q[k]
  BY <1>0
<1>2. b \in Seq(S) /\ Len(b) = Len(q) - i /\ \A k \in 1 .. Len(q) - i : b[k] = q[i + k]
  BY <1>0
<1>3. r = a \o b
  BY DEF RemoveAt
<1> HIDE DEF r, a, b
<1>4. r \in Seq(S) /\ Len(r) = Len(q) - 1
  <2>1. a \in Seq(S) /\ b \in Seq(S)
    BY <1>1, <1>2
  <2>2. r \in Seq(S) /\ Len(r) = Len(a) + Len(b)
    BY <1>3, <2>1
  <2> QED
    BY <1>0, <1>1, <1>2, <2>2
<1>5. ASSUME NEW k \in 1 .. Len(q) - 1, k < i PROVE r[k] = q[k]
  BY <1>0, <1>1, <1>2, <1>3, <1>5
<1>6. ASSUME NEW k \in 1 .. Len(q) - 1, ~(k < i) PROVE r[k] = q[k + 1]
  <2>1. r[k] = b[k - (i - 1)]
    BY <1>0, <1>1, <1>2, <1>3, <1>6
  <2>2. k - (i - 1) \in 1 .. Len(q) - i /\ i + (k - (i - 1)) = k + 1
    BY <1>0, <1>6
  <2> QED
    BY <1>2, <2>1, <2>2
<1> QED
  BY <1>0, <1>4, <1>5, <1>6 DEF r

LEMMA TakeOut ==
    ASSUME NEW S, NEW q \in Seq(S), NEW i \in DOMAIN q
    PROVE  /\ RemoveAt(q, i) \in Seq(S)
           /\ ToSet(RemoveAt(q, i)) \subseteq ToSet(q)
           /\ Distinct(q) => /\ Distinct(RemoveAt(q, i))
                             /\ ToSet(RemoveAt(q, i)) = ToSet(q) \ {q[i]}
<1> DEFINE r == RemoveAt(q, i)
<1>0. Len(q) \in Nat /\ DOMAIN q = 1 .. Len(q) /\ i \in 1 .. Len(q)
  OBVIOUS
<1>4. /\ r \in Seq(S) /\ DOMAIN r = 1 .. Len(q) - 1
      /\ \A k \in DOMAIN r : r[k] = IF k < i THEN q[k] ELSE q[k + 1]
  BY TakeOutEntries
<1> HIDE DEF r
<1>5. ASSUME NEW y \in ToSet(r)
      PROVE  y \in ToSet(q) /\ (Distinct(q) => y # q[i])
  <2>1. PICK k \in DOMAIN r : y = r[k]
    BY <1>5 DEF ToSet
  <2>2. PICK j \in DOMAIN q : y = q[j] /\ j # i
    BY <1>0, <1>4, <2>1
  <2> QED
    BY <2>2 DEF ToSet, Distinct
<1>6. ASSUME NEW y \in ToSet(q), y # q[i] PROVE y \in ToSet(r)
  <2>1. PICK j \in DOMAIN q : y = q[j] /\ j # i
    BY <1>6 DEF ToSet
  <2>2. \E k \in DOMAIN r : y = r[k]
    <3>1. CASE j < i
      BY <1>0, <1>4, <2>1, <3>1
    <3>2. CASE j > i
      <4>1. j - 1 \in DOMAIN r /\ ~(j - 1 < i) /\ (j - 1) + 1 = j
        BY <1>0, <1>4, <3>2
      <4> QED
        BY <1>4, <2>1, <4>1
    <3> QED
      BY <1>0, <2>1, <3>1, <3>2
  <2> QED
    BY <2>2 DEF ToSet
<1>7. ASSUME Distinct(q) PROVE Distinct(r)
  <2> SUFFICES ASSUME NEW k \in DOMAIN r, NEW l \in DOMAIN r, r[k] = r[l] PROVE k = l
    BY DEF Distinct
  <2>1. PICK m \in DOMAIN q : r[k] = q[m] /\ m = IF k < i THEN k ELSE k + 1
    BY <1>0, <1>4
  <2>2. PICK n \in DOMAIN q : r[l] = q[n] /\ n = IF l < i THEN l ELSE l + 1
    BY <1>0, <1>4
  <2>3. m = n
    BY <1>7, <2>1, <2>2 DEF Distinct
  <2> QED
    BY <1>0, <1>4, <2>1, <2>2, <2>3
<1> QED
  BY <1>4, <1>5, <1>6, <1>7 DEF r

(* queue_remove_if() takes out the only entry that matches, if any. *)
LEMMA RemoveMatch ==
    ASSUME NEW S, NEW q \in Seq(S), NEW x, Distinct(q)
    PROVE  /\ \A i \in DOMAIN q : q[i] = x => RemoveFirst(q, x) = RemoveAt(q, i)
           /\ x \notin ToSet(q) => RemoveFirst(q, x) = q
<1>0. DOMAIN q = 1 .. Len(q) /\ Len(q) \in Nat
  OBVIOUS
<1>1. ASSUME NEW i \in DOMAIN q, q[i] = x PROVE RemoveFirst(q, x) = RemoveAt(q, i)
  <2>1. {j \in 1 .. Len(q) : q[j] = x} = {i}
    BY <1>0, <1>1 DEF Distinct
  <2>2. Min({i}) = i
    BY <1>0 DEF Min
  <2>3. SelectInSeq(q, LAMBDA v : v = x) = i
    BY <2>1, <2>2 DEF SelectInSeq
  <2> QED
    BY <1>0, <1>1, <2>3 DEF RemoveFirst
<1>2. ASSUME x \notin ToSet(q) PROVE RemoveFirst(q, x) = q
  BY <1>0, <1>2 DEF RemoveFirst, ToSet
<1> QED
  BY <1>1, <1>2

LEMMA RemoveIf ==
    ASSUME NEW S, NEW q \in Seq(S), NEW x, Distinct(q)
    PROVE  /\ RemoveFirst(q, x) \in Seq(S)
           /\ Distinct(RemoveFirst(q, x))
           /\ ToSet(RemoveFirst(q, x)) = ToSet(q) \ {x}
<1>1. CASE x \in ToSet(q)
  <2>1. PICK i \in DOMAIN q : q[i] = x
    BY <1>1 DEF ToSet
  <2>2. RemoveFirst(q, x) = RemoveAt(q, i)
    BY <2>1, RemoveMatch
  <2> QED
    BY <2>1, <2>2, TakeOut
<1>2. CASE x \notin ToSet(q)
  <2>1. RemoveFirst(q, x) = q
    BY <1>2, RemoveMatch
  <2> QED
    BY <1>2, <2>1
<1> QED
  BY <1>1, <1>2

LEMMA SameEntries ==
    ASSUME NEW S, NEW q \in Seq(S), NEW r \in Seq(S), Len(q) = Len(r),
           \A i \in DOMAIN q : q[i] = r[i]
    PROVE  q = r
OBVIOUS

(* Behind another entry it takes out the same one. *)
LEMMA RemoveBehind ==
    ASSUME NEW S, NEW q \in Seq(S), NEW x \in S, NEW y, x # y, x \notin ToSet(q), Distinct(q)
    PROVE  RemoveFirst(<<x>> \o q, y) = <<x>> \o RemoveFirst(q, y)
<1> DEFINE r == <<x>> \o q
<1>1. /\ r \in Seq(S) /\ Len(q) \in Nat /\ Len(r) = Len(q) + 1
      /\ DOMAIN q = 1 .. Len(q) /\ DOMAIN r = 1 .. Len(q) + 1
      /\ r[1] = x /\ \A i \in DOMAIN q : i + 1 \in DOMAIN r /\ r[i + 1] = q[i]
      /\ \A i \in DOMAIN r : i # 1 => i - 1 \in DOMAIN q /\ r[i] = q[i - 1]
  OBVIOUS
<1>2. Distinct(r) /\ ToSet(r) = ToSet(q) \cup {x}
  BY PushHead
<1> HIDE DEF r
<1>3. CASE y \notin ToSet(q)
  <2>1. RemoveFirst(q, y) = q
    BY <1>3, RemoveMatch
  <2>2. RemoveFirst(r, y) = r
    BY <1>1, <1>2, <1>3, RemoveMatch
  <2> QED
    BY <2>1, <2>2 DEF r
<1>4. CASE y \in ToSet(q)
  <2>1. PICK i \in DOMAIN q : q[i] = y
    BY <1>4 DEF ToSet
  <2> DEFINE a == RemoveAt(q, i)
             b == RemoveAt(r, i + 1)
             c == <<x>> \o a
  <2>2. RemoveFirst(q, y) = a /\ RemoveFirst(r, y) = b
    BY <1>1, <1>2, <2>1, RemoveMatch
  <2>3. /\ a \in Seq(S) /\ Len(a) = Len(q) - 1 /\ DOMAIN a = 1 .. Len(q) - 1
        /\ \A k \in DOMAIN a : a[k] = IF k < i THEN q[k] ELSE q[k + 1]
    BY TakeOutEntries
  <2>4. /\ b \in Seq(S) /\ Len(b) = Len(r) - 1 /\ DOMAIN b = 1 .. Len(r) - 1
        /\ \A k \in DOMAIN b : b[k] = IF k < i + 1 THEN r[k] ELSE r[k + 1]
    BY <1>1, TakeOutEntries
  <2> HIDE DEF a, b
  <2>5. /\ c \in Seq(S) /\ Len(c) = Len(a) + 1
        /\ c[1] = x /\ \A k \in 2 .. Len(a) + 1 : c[k] = a[k - 1]
    BY <2>3
  <2> HIDE DEF c
  <2>6. Len(b) = Len(c)
    BY <1>1, <2>3, <2>4, <2>5
  <2>7. ASSUME NEW k \in DOMAIN b PROVE b[k] = c[k]
    <3>0. i \in 1 .. Len(q) /\ k \in 1 .. Len(q)
      BY <1>1, <2>4
    <3>1. CASE k = 1
      <4>1. k < i + 1
        BY <3>0, <3>1
      <4> QED
        BY <1>1, <2>4, <2>5, <3>1, <4>1
    <3>2. CASE k # 1
      <4>1. /\ k - 1 \in 1 .. Len(q) - 1 /\ k \in 2 .. Len(q)
            /\ k \in 1 .. Len(q) + 1 /\ k + 1 \in 1 .. Len(q) + 1
            /\ (k + 1) - 1 = k /\ (k - 1) + 1 = k /\ (k - 1 < i <=> k < i + 1)
            /\ (Len(q) - 1) + 1 = Len(q)
        BY <1>1, <3>0, <3>2
      <4>2. c[k] = IF k - 1 < i THEN q[k - 1] ELSE q[k]
        BY <2>3, <2>5, <4>1
      <4>3. r[k] = q[k - 1] /\ r[k + 1] = q[k]
        BY <1>1, <3>2, <4>1
      <4> QED
        BY <1>1, <2>4, <4>1, <4>2, <4>3
    <3> QED
      BY <3>1, <3>2
  <2>8. b = c
    BY <2>4, <2>5, <2>6, <2>7, SameEntries
  <2> QED
    BY <2>2, <2>8 DEF r, c
<1> QED
  BY <1>3, <1>4
-----------------------------------------------------------------------------
(***************************************************************************)
(* Ownership.  The type of an operation tells the queue it waits in, so    *)
(* that only the places of the same type have to be told apart.            *)
(***************************************************************************)

(* The bounds and flags, which say nothing of operations *)
BearerOK ==
    /\ Len(op) <= MaxOps
    /\ writer \in BOOLEAN /\ in_req \in BOOLEAN
    /\ io \in {"open", "shut", "closed"}
    /\ late \subseteq {"in", "out"}
    /\ sec \in LOW .. MaxSec
    /\ rogue \in 0 .. MaxRogue /\ ins \in 0 .. MaxIn /\ owed \in 0 .. MaxIn

(* owed counts requests that were taken and not yet answered. *)
OwedTaken == owed <= ins

QueuesOK ==
    /\ reqQ \in Seq(DOMAIN op) /\ Distinct(reqQ)
    /\ indQ \in Seq(DOMAIN op) /\ Distinct(indQ)
    /\ writeQ \in Seq(DOMAIN op) /\ Distinct(writeQ)
    /\ chanQ \in Seq(DOMAIN op) /\ Distinct(chanQ)
    /\ pendReq \in DOMAIN op \cup {0} /\ pendInd \in DOMAIN op \cup {0}
    /\ peer \in Seq(DOMAIN op)

PlacesOK ==
    /\ \A id \in ToSet(reqQ) : op[id].type = "REQ" /\ id # pendReq
    /\ \A id \in ToSet(indQ) : op[id].type = "IND" /\ id # pendInd
    /\ \A id \in ToSet(writeQ) : op[id].type \in {"CMD", "RSP"} /\ id \notin ToSet(chanQ)
    /\ \A id \in ToSet(chanQ) : op[id].type \in {"CMD", "RSP"}
    /\ pendReq # 0 => op[pendReq].type = "REQ"
    /\ pendInd # 0 => op[pendInd].type = "IND"

Owned == Waiting \cup ToSet(chanQ) \cup Pending

HeldUntilFreed == \A id \in DOMAIN op : op[id].state # "freed" <=> id \in Owned

(* What an operation looks like while it is there and when it is over *)
OpOK(o) ==
    /\ o \in Op
    /\ o.state # "freed twice" /\ o.ans # "twice"
    /\ o.state = "live" => o.ans = "none" /\ o.gone = 0
    /\ o.state # "live" =>
          o.gone = 1 /\ (o.type \in {"REQ", "IND"} => o.ans # "none")

OpsOK == op \in Seq(Op) /\ \A id \in DOMAIN op : OpOK(op[id])

Ownership == QueuesOK /\ PlacesOK /\ HeldUntilFreed /\ OpsOK

OwnInv == BearerOK /\ OwedTaken /\ Ownership

(***************************************************************************)
(* Answers.  While the bearer is open the peer has no request but the      *)
(* pending one.  Once it is shut, an answer may still be read, but nothing *)
(* is written before that, and nothing read after.                         *)
(***************************************************************************)
Due(id, pending) == id = pending \/ (pending = 0 /\ io # "open")

PeerOwes ==
    /\ Distinct(peer)
    /\ \A id \in ToSet(peer) : op[id].type \in {"REQ", "IND"}
    /\ CanRead => \A id \in ToSet(peer) :
          /\ op[id].type = "REQ" => Due(id, pendReq)
          /\ op[id].type = "IND" => Due(id, pendInd)

AnswerInv == rogue = 0 => PeerOwes /\ \A id \in DOMAIN op : op[id].ans # "other"

Inv == OwnInv /\ AnswerInv
-----------------------------------------------------------------------------
(* What becomes of one operation *)

(* p is what is left of o when it is over; another answer than its own was *)
(* told only if that was what.                                             *)
Over(o, p, what) ==
    /\ OpOK(p) /\ p.state = "freed" /\ p.type = o.type
    /\ p.ans = "other" => o.ans = "other" \/ what = "other"

LEMMA GoneOnce ==
    ASSUME NEW o, o.state = "live" => o.gone = 0, o.state # "live" => o.gone = 1
    PROVE  Gone(o) = 1
BY DEF Gone

(* An operation that was told what it has to be told can be freed. *)
LEMMA Destroying ==
    ASSUME NEW p \in Op, p.state \in {"live", "cancelled"}, p.ans # "twice",
           p.state = "live" => p.gone = 0, p.state # "live" => p.gone = 1,
           p.type \in {"REQ", "IND"} => p.ans # "none"
    PROVE  /\ OpOK(Destroy(p)) /\ Destroy(p).state = "freed"
           /\ Destroy(p).type = p.type /\ Destroy(p).ans = p.ans
<1>1. Gone(p) = 1
  BY GoneOnce
<1>2. Destroy(p) = [p EXCEPT !.gone = 1, !.state = "freed"]
  BY <1>1 DEF Destroy
<1> QED
  BY <1>2 DEF OpOK, Op

LEMMA Ending ==
    ASSUME NEW o, OpOK(o), o.state # "freed"
    PROVE  /\ \A what \in {"own", "other", "error"} : Over(o, Destroy(Tell(o, what)), what)
           /\ Over(o, Discard(o), "error")
           /\ Over(o, Destroy(Withdrawn(o)), "error")
           /\ o.type \notin {"REQ", "IND"} => Over(o, Destroy(o), "error")
<1>1. /\ o \in Op /\ o.state \in {"live", "cancelled"} /\ o.ans # "twice"
      /\ o.state = "live" => o.gone = 0
      /\ o.state # "live" => o.gone = 1 /\ (o.type \in {"REQ", "IND"} => o.ans # "none")
  BY DEF OpOK, Op
<1>2. ASSUME o.state # "live" \/ o.type \notin {"REQ", "IND"}, NEW what
      PROVE  Over(o, Destroy(o), what)
  <2>1. /\ OpOK(Destroy(o)) /\ Destroy(o).state = "freed"
        /\ Destroy(o).type = o.type /\ Destroy(o).ans = o.ans
    BY ONLY <1>1, <1>2, Destroying
  <2> QED
    BY <2>1 DEF Over
<1>3. ASSUME o.state = "live", NEW what \in {"own", "other", "error", "withdrawn"},
             NEW whose, what = "other" => whose = "other",
             NEW t, t = [o EXCEPT !.ans = what]
      PROVE  Over(o, Destroy(t), whose)
  <2>1. t \in Op /\ t.state = "live" /\ t.gone = 0 /\ t.ans = what /\ t.type = o.type
    BY <1>1, <1>3 DEF Op
  <2>2. /\ OpOK(Destroy(t)) /\ Destroy(t).state = "freed"
        /\ Destroy(t).type = t.type /\ Destroy(t).ans = t.ans
    <3>1. t.state \in {"live", "cancelled"} /\ t.ans # "twice" /\ t.ans # "none"
      BY <1>3, <2>1
    <3> QED
      BY ONLY <2>1, <3>1, Destroying
  <2> QED
    BY <1>3, <2>1, <2>2 DEF Over
<1>4. ASSUME NEW what \in {"own", "other", "error"} PROVE Over(o, Destroy(Tell(o, what)), what)
  <2>1. CASE o.state # "live" \/ o.type \notin {"REQ", "IND"}
    BY <1>2, <2>1 DEF Tell
  <2>2. CASE o.state = "live" /\ o.type \in {"REQ", "IND"}
    <3>1. Tell(o, what) = [o EXCEPT !.ans = what]
      BY <2>2 DEF Tell, OpOK
    <3> QED
      BY <1>3, <2>2, <3>1
  <2> QED
    BY <2>1, <2>2
<1>5. Over(o, Destroy(Withdrawn(o)), "error")
  <2>1. CASE o.state # "live" \/ o.type \notin {"REQ", "IND"}
    BY <1>2, <2>1 DEF Withdrawn
  <2>2. CASE o.state = "live" /\ o.type \in {"REQ", "IND"}
    <3>1. Withdrawn(o) = [o EXCEPT !.ans = "withdrawn"]
      BY <2>2 DEF Withdrawn
    <3> QED
      BY <1>3, <2>2, <3>1
  <2> QED
    BY <2>1, <2>2
<1> QED
  BY <1>2, <1>4, <1>5 DEF Discard

LEMMA Cancelling ==
    ASSUME NEW o, OpOK(o), o.state # "freed", o.type \in {"REQ", "IND"}
    PROVE  LET p == CancelOp(Withdrawn(o))
           IN  /\ OpOK(p) /\ p.state # "freed" /\ p.type = o.type
               /\ p.ans = "other" => o.ans = "other"
<1> USE DEF OpOK, Op
<1>1. CASE o.state = "live"
  <2> DEFINE w == Withdrawn(o)
  <2>1. w = [o EXCEPT !.ans = "withdrawn"]
    BY <1>1 DEF Withdrawn
  <2>2. w \in Op /\ w.state = "live" /\ w.gone = 0 /\ w.ans = "withdrawn" /\ w.type = o.type
    BY <1>1, <2>1
  <2> HIDE DEF w
  <2>3. Gone(w) = 1
    BY <2>2, GoneOnce
  <2>4. CancelOp(w) = [w EXCEPT !.gone = 1, !.state = "cancelled"]
    BY <2>2, <2>3 DEF CancelOp
  <2> QED
    BY <2>2, <2>4 DEF w
<1>2. CASE o.state # "live"
  <2>1. CancelOp(Withdrawn(o)) = [o EXCEPT !.gone = o.gone, !.state = o.state]
    BY <1>2 DEF CancelOp, Withdrawn, Gone
  <2>2. CancelOp(Withdrawn(o)) = o
    BY <2>1
  <2> QED
    BY <1>2, <2>2
<1> QED
  BY <1>1, <1>2

LEMMA Starting ==
    ASSUME NEW type \in {"REQ", "IND", "CMD", "RSP"}, NEW opcode \in Opcodes \cup {"any"}
    PROVE  LET p == NewOp(type, opcode)
           IN  OpOK(p) /\ p.state = "live" /\ p.type = type /\ p.ans = "none"
BY DEF NewOp, OpOK, Op
-----------------------------------------------------------------------------
(* What a step does to the ownership of the operations *)

LEMMA OnePlace ==
    ASSUME Ownership, NEW id \in DOMAIN op
    PROVE  /\ id # 0
           /\ op[id].type = "REQ" =>
                 /\ id \notin ToSet(indQ) \cup ToSet(writeQ) \cup ToSet(chanQ)
                 /\ id # pendInd
                 /\ id = pendReq => id \notin ToSet(reqQ)
           /\ op[id].type = "IND" =>
                 /\ id \notin ToSet(reqQ) \cup ToSet(writeQ) \cup ToSet(chanQ)
                 /\ id # pendReq
                 /\ id = pendInd => id \notin ToSet(indQ)
           /\ op[id].type \in {"CMD", "RSP"} =>
                 /\ id \notin ToSet(reqQ) \cup ToSet(indQ)
                 /\ id # pendReq /\ id # pendInd
                 /\ id \in ToSet(writeQ) => id \notin ToSet(chanQ)
<1>1. op \in Seq(Op)
  BY DEF Ownership, OpsOK
<1>2. id # 0
  BY <1>1
<1> QED
  BY <1>2 DEF Ownership, PlacesOK

LEMMA QueuesInOps ==
    ASSUME QueuesOK
    PROVE  /\ ToSet(reqQ) \subseteq DOMAIN op /\ ToSet(indQ) \subseteq DOMAIN op
           /\ ToSet(writeQ) \subseteq DOMAIN op /\ ToSet(chanQ) \subseteq DOMAIN op
           /\ ToSet(peer) \subseteq DOMAIN op
           /\ Pending \subseteq DOMAIN op
BY DEF QueuesOK, ToSet, Pending

(* Operation id leaves its place and is freed. *)
LEMMA OneEnds ==
    ASSUME Ownership, NEW id \in DOMAIN op, NEW p, NEW what, Over(op[id], p, what),
           op' = [op EXCEPT ![id] = p],
           reqQ' \in Seq(DOMAIN op), Distinct(reqQ'), ToSet(reqQ') = ToSet(reqQ) \ {id},
           indQ' \in Seq(DOMAIN op), Distinct(indQ'), ToSet(indQ') = ToSet(indQ) \ {id},
           writeQ' \in Seq(DOMAIN op), Distinct(writeQ'),
           ToSet(writeQ') = ToSet(writeQ) \ {id},
           chanQ' \in Seq(DOMAIN op), Distinct(chanQ'), ToSet(chanQ') = ToSet(chanQ) \ {id},
           pendReq' = IF pendReq = id THEN 0 ELSE pendReq,
           pendInd' = IF pendInd = id THEN 0 ELSE pendInd,
           peer' \in Seq(DOMAIN op)
    PROVE  /\ Ownership' /\ Len(op') = Len(op)
           /\ \A i \in DOMAIN op : i \in DOMAIN op' /\ op'[i].type = op[i].type
           /\ \A i \in DOMAIN op' : op'[i].ans = "other" =>
                 i \in DOMAIN op /\ (op[i].ans = "other" \/ what = "other")
<1> USE DEF Ownership
<1>0. op \in Seq(Op) /\ p \in Op
  BY DEF OpsOK, Over, OpOK
<1>1. /\ op' \in Seq(Op) /\ DOMAIN op' = DOMAIN op /\ Len(op') = Len(op)
      /\ \A i \in DOMAIN op : op'[i] = IF i = id THEN p ELSE op[i]
  BY <1>0
<1>2. \A i \in DOMAIN op : op'[i].type = op[i].type
  BY <1>1 DEF Over
<1>3. QueuesOK'
  BY <1>1 DEF QueuesOK
<1>4. PlacesOK'
  <2>1. /\ \A i \in ToSet(reqQ') : op'[i].type = op[i].type
        /\ \A i \in ToSet(indQ') : op'[i].type = op[i].type
        /\ \A i \in ToSet(writeQ') : op'[i].type = op[i].type
        /\ \A i \in ToSet(chanQ') : op'[i].type = op[i].type
    BY <1>2, QueuesInOps
  <2>2. /\ pendReq' # 0 => pendReq' = pendReq /\ op'[pendReq].type = op[pendReq].type
        /\ pendInd' # 0 => pendInd' = pendInd /\ op'[pendInd].type = op[pendInd].type
    BY <1>2 DEF QueuesOK
  <2>3. /\ \A i \in ToSet(reqQ) : i # 0
        /\ \A i \in ToSet(indQ) : i # 0
    BY <1>0, QueuesInOps
  <2> QED
    BY <2>1, <2>2, <2>3 DEF PlacesOK
<1>5. id # 0
  BY <1>0
<1>6. Owned' = Owned \ {id}
  BY <1>5 DEF Owned, Waiting, Pending
<1>7. HeldUntilFreed'
  BY <1>1, <1>6 DEF HeldUntilFreed, Over
<1>8. OpsOK'
  BY <1>1 DEF OpsOK, Over
<1> QED
  BY <1>1, <1>2, <1>3, <1>4, <1>7, <1>8 DEF Over

(* Nothing is freed and nothing moves. *)
LEMMA SamePlaces ==
    ASSUME Ownership, UNCHANGED <<reqQ, indQ, writeQ, chanQ, pendReq, pendInd>>,
           op' \in Seq(Op), DOMAIN op' = DOMAIN op, peer' \in Seq(DOMAIN op),
           \A i \in DOMAIN op : /\ OpOK(op'[i]) /\ op'[i].type = op[i].type
                                /\ op'[i].state = "freed" <=> op[i].state = "freed"
    PROVE  Ownership'
<1> USE DEF Ownership
<1>1. QueuesOK'
  BY DEF QueuesOK
<1>2. PlacesOK'
  BY QueuesInOps DEF PlacesOK, QueuesOK
<1>3. HeldUntilFreed'
  BY DEF HeldUntilFreed, Owned, Waiting, Pending
<1>4. OpsOK'
  BY DEF OpsOK
<1> QED
  BY <1>1, <1>2, <1>3, <1>4

(* A new operation joins the queue of its type. *)
LEMMA OneStarts ==
    ASSUME Ownership, UNCHANGED <<pendReq, pendInd, peer>>,
           NEW type \in {"REQ", "IND", "CMD", "RSP"}, NEW opcode \in Opcodes \cup {"any"},
           op' = Append(op, NewOp(type, opcode)),
           reqQ' = IF type = "REQ" THEN Append(reqQ, Len(op) + 1) ELSE reqQ,
           indQ' = IF type = "IND" THEN Append(indQ, Len(op) + 1) ELSE indQ,
           \/ type \in {"CMD", "RSP"} /\ UNCHANGED chanQ /\ writeQ' = Append(writeQ, Len(op) + 1)
           \/ type \in {"CMD", "RSP"} /\ UNCHANGED writeQ /\ chanQ' = Append(chanQ, Len(op) + 1)
           \/ type \in {"REQ", "IND"} /\ UNCHANGED <<writeQ, chanQ>>
    PROVE  /\ Ownership' /\ Len(op') = Len(op) + 1
           /\ \A i \in DOMAIN op : i \in DOMAIN op' /\ op'[i] = op[i]
           /\ \A i \in DOMAIN op' : op'[i].ans = "other" => i \in DOMAIN op /\ op[i].ans = "other"
<1> USE DEF Ownership
<1> DEFINE id == Len(op) + 1
           o == NewOp(type, opcode)
<1>1. OpOK(o) /\ o \in Op /\ o.state = "live" /\ o.type = type /\ o.ans = "none"
  <2>1. OpOK(o) /\ o.state = "live" /\ o.type = type /\ o.ans = "none"
    BY Starting
  <2>2. o \in Op
    BY <2>1 DEF OpOK
  <2> QED
    BY <2>1, <2>2
<1>2. op \in Seq(Op)
  BY DEF OpsOK
<1> HIDE DEF o
<1>3. /\ op' \in Seq(Op) /\ Len(op') = Len(op) + 1
      /\ DOMAIN op' = DOMAIN op \cup {id} /\ id \notin DOMAIN op /\ id # 0
      /\ op'[id] = o /\ \A i \in DOMAIN op : op'[i] = op[i]
  BY <1>1, <1>2 DEF o
<1> HIDE DEF id
<1>4. /\ reqQ \in Seq(DOMAIN op') /\ indQ \in Seq(DOMAIN op')
      /\ writeQ \in Seq(DOMAIN op') /\ chanQ \in Seq(DOMAIN op')
      /\ peer' \in Seq(DOMAIN op')
  <2>1. \A q \in Seq(DOMAIN op) : q \in Seq(DOMAIN op')
    BY <1>3
  <2> QED
    BY <2>1 DEF QueuesOK
<1>5. /\ id \notin ToSet(reqQ) /\ id \notin ToSet(indQ) /\ id \notin ToSet(writeQ)
      /\ id \notin ToSet(chanQ) /\ id # pendReq /\ id # pendInd
  BY <1>3, QueuesInOps DEF QueuesOK
<1>6. /\ reqQ' \in Seq(DOMAIN op') /\ Distinct(reqQ')
      /\ ToSet(reqQ') = ToSet(reqQ) \cup (IF type = "REQ" THEN {id} ELSE {})
  BY <1>3, <1>4, <1>5, PushTail DEF QueuesOK, id
<1>7. /\ indQ' \in Seq(DOMAIN op') /\ Distinct(indQ')
      /\ ToSet(indQ') = ToSet(indQ) \cup (IF type = "IND" THEN {id} ELSE {})
  BY <1>3, <1>4, <1>5, PushTail DEF QueuesOK, id
<1>8. /\ writeQ' \in Seq(DOMAIN op') /\ Distinct(writeQ')
      /\ chanQ' \in Seq(DOMAIN op') /\ Distinct(chanQ')
      /\ \/ type \in {"CMD", "RSP"} /\ ToSet(writeQ') = ToSet(writeQ) \cup {id} /\ chanQ' = chanQ
         \/ type \in {"CMD", "RSP"} /\ ToSet(chanQ') = ToSet(chanQ) \cup {id} /\ writeQ' = writeQ
         \/ type \in {"REQ", "IND"} /\ UNCHANGED <<writeQ, chanQ>>
  <2>1. Distinct(writeQ) /\ Distinct(chanQ)
    BY DEF QueuesOK
  <2>2. ASSUME NEW q \in Seq(DOMAIN op'), Distinct(q), id \notin ToSet(q)
        PROVE  /\ Append(q, id) \in Seq(DOMAIN op') /\ Distinct(Append(q, id))
               /\ ToSet(Append(q, id)) = ToSet(q) \cup {id}
    BY <1>3, <2>2, PushTail
  <2>3. CASE type \in {"CMD", "RSP"} /\ UNCHANGED chanQ /\ writeQ' = Append(writeQ, id)
    BY <1>4, <1>5, <2>1, <2>2, <2>3
  <2>4. CASE type \in {"CMD", "RSP"} /\ UNCHANGED writeQ /\ chanQ' = Append(chanQ, id)
    BY <1>4, <1>5, <2>1, <2>2, <2>4
  <2>5. CASE type \in {"REQ", "IND"} /\ UNCHANGED <<writeQ, chanQ>>
    BY <1>4, <2>1, <2>5
  <2> QED
    BY <2>3, <2>4, <2>5 DEF id
<1>9. QueuesOK'
  BY <1>3, <1>4, <1>6, <1>7, <1>8 DEF QueuesOK
<1>10. PlacesOK'
  <2>1. /\ \A i \in ToSet(reqQ) : op'[i].type = op[i].type
        /\ \A i \in ToSet(indQ) : op'[i].type = op[i].type
        /\ \A i \in ToSet(writeQ) : op'[i].type = op[i].type
        /\ \A i \in ToSet(chanQ) : op'[i].type = op[i].type
        /\ pendReq # 0 => op'[pendReq].type = op[pendReq].type
        /\ pendInd # 0 => op'[pendInd].type = op[pendInd].type
    BY <1>3, QueuesInOps DEF QueuesOK
  <2>6. /\ \A i \in ToSet(reqQ) : op[i].type = "REQ" /\ i # pendReq
        /\ \A i \in ToSet(indQ) : op[i].type = "IND" /\ i # pendInd
        /\ \A i \in ToSet(writeQ) : op[i].type \in {"CMD", "RSP"} /\ i \notin ToSet(chanQ)
        /\ \A i \in ToSet(chanQ) : op[i].type \in {"CMD", "RSP"}
    BY DEF PlacesOK
  <2>2. ASSUME NEW i \in ToSet(reqQ') PROVE op'[i].type = "REQ" /\ i # pendReq'
    <3>1. CASE i \in ToSet(reqQ)
      BY <2>1, <2>6, <3>1
    <3>2. CASE i \notin ToSet(reqQ)
      <4>1. i = id /\ type = "REQ"
        BY <1>6, <3>2
      <4> QED
        BY <1>1, <1>3, <1>5, <4>1
    <3> QED
      BY <3>1, <3>2
  <2>3. ASSUME NEW i \in ToSet(indQ') PROVE op'[i].type = "IND" /\ i # pendInd'
    <3>1. CASE i \in ToSet(indQ)
      BY <2>1, <2>6, <3>1
    <3>2. CASE i \notin ToSet(indQ)
      <4>1. i = id /\ type = "IND"
        BY <1>7, <3>2
      <4> QED
        BY <1>1, <1>3, <1>5, <4>1
    <3> QED
      BY <3>1, <3>2
  <2>4. ASSUME NEW i \in ToSet(writeQ')
        PROVE  op'[i].type \in {"CMD", "RSP"} /\ i \notin ToSet(chanQ')
    <3>1. CASE i \in ToSet(writeQ)
      <4>1. op'[i].type \in {"CMD", "RSP"} /\ i \notin ToSet(chanQ) /\ i # id
        BY <1>5, <2>1, <2>6, <3>1
      <4>2. ToSet(chanQ') \subseteq ToSet(chanQ) \cup {id}
        BY <1>8
      <4> QED
        BY <4>1, <4>2
    <3>2. CASE i \notin ToSet(writeQ)
      <4>1. i = id /\ type \in {"CMD", "RSP"} /\ chanQ' = chanQ
        BY <1>8, <3>2
      <4> QED
        BY <1>1, <1>3, <1>5, <4>1
    <3> QED
      BY <3>1, <3>2
  <2>5. ASSUME NEW i \in ToSet(chanQ') PROVE op'[i].type \in {"CMD", "RSP"}
    <3>1. CASE i \in ToSet(chanQ)
      BY <2>1, <2>6, <3>1
    <3>2. CASE i \notin ToSet(chanQ)
      <4>1. i = id /\ type \in {"CMD", "RSP"}
        BY <1>8, <3>2
      <4> QED
        BY <1>1, <1>3, <1>5, <4>1
    <3> QED
      BY <3>1, <3>2
  <2> QED
    BY <2>1, <2>2, <2>3, <2>4, <2>5 DEF PlacesOK
<1>11. Owned' = Owned \cup {id}
  BY <1>6, <1>7, <1>8 DEF Owned, Waiting, Pending
<1>12. HeldUntilFreed'
  BY <1>1, <1>3, <1>11 DEF HeldUntilFreed
<1>13. OpsOK'
  BY <1>1, <1>3 DEF OpsOK
<1> QED
  BY <1>1, <1>3, <1>9, <1>10, <1>12, <1>13

(* Everything that is held is freed. *)
LEMMA AllEnd ==
    ASSUME Ownership, Cleared, op' = [i \in DOMAIN op |-> op'[i]],
           \A i \in DOMAIN op : i \in Owned => Over(op[i], op'[i], "error"),
           \A i \in DOMAIN op : i \notin Owned => op'[i] = op[i]
    PROVE  /\ Ownership' /\ Len(op') = Len(op)
           /\ \A i \in DOMAIN op' : op'[i].ans = "other" => i \in DOMAIN op /\ op[i].ans = "other"
<1> USE DEF Ownership
<1>0. op \in Seq(Op) /\ \A i \in DOMAIN op : OpOK(op[i])
  BY DEF OpsOK
<1>1. /\ \A i \in DOMAIN op : OpOK(op'[i]) /\ op'[i] \in Op
      /\ DOMAIN op' = DOMAIN op
  <2>1. \A i \in DOMAIN op : OpOK(op'[i])
    BY <1>0 DEF Over
  <2> QED
    BY <2>1 DEF OpOK
<1>2. op' \in Seq(Op) /\ Len(op') = Len(op)
  <2>1. DOMAIN op = 1 .. Len(op) /\ Len(op) \in Nat
    BY <1>0
  <2>2. op' \in [1 .. Len(op) -> Op]
    BY <1>1, <2>1
  <2> QED
    BY <2>1, <2>2
<1>3. Owned' = {} /\ ToSet(<<>>) = {}
  BY DEF Cleared, Owned, Waiting, Pending, ToSet
<1>4. QueuesOK'
  <2>1. <<>> \in Seq(DOMAIN op) /\ Distinct(<<>>)
    BY DEF Distinct
  <2> QED
    BY <1>1, <2>1 DEF QueuesOK, Cleared
<1>5. PlacesOK'
  BY <1>3 DEF PlacesOK, Cleared
<1>6. HeldUntilFreed'
  BY <1>1, <1>3 DEF HeldUntilFreed, Over
<1>7. OpsOK'
  BY <1>1, <1>2 DEF OpsOK
<1> QED
  BY <1>1, <1>2, <1>4, <1>5, <1>6, <1>7 DEF Over

(* pick_next_send_op() takes an operation out of its queue. *)
LEMMA Popped ==
    ASSUME Ownership, NextQueue # "none", Pop(NextQueue),
           NEW id, id = Head(QueueOf(NextQueue))
    PROVE  /\ id \in DOMAIN op /\ op[id].state # "freed"
           /\ reqQ' \in Seq(DOMAIN op) /\ Distinct(reqQ') /\ ToSet(reqQ') = ToSet(reqQ) \ {id}
           /\ indQ' \in Seq(DOMAIN op) /\ Distinct(indQ') /\ ToSet(indQ') = ToSet(indQ) \ {id}
           /\ writeQ' \in Seq(DOMAIN op) /\ Distinct(writeQ')
           /\ ToSet(writeQ') = ToSet(writeQ) \ {id}
           /\ chanQ' \in Seq(DOMAIN op) /\ Distinct(chanQ')
           /\ ToSet(chanQ') = ToSet(chanQ) \ {id}
           /\ id # pendReq /\ id # pendInd
           /\ op[id].type = "REQ" => pendReq = 0 /\ id \in ToSet(reqQ)
           /\ op[id].type = "IND" => pendInd = 0 /\ id \in ToSet(indQ)
<1> USE DEF Ownership
<1>1. /\ reqQ \in Seq(DOMAIN op) /\ Distinct(reqQ) /\ indQ \in Seq(DOMAIN op) /\ Distinct(indQ)
      /\ writeQ \in Seq(DOMAIN op) /\ Distinct(writeQ)
      /\ chanQ \in Seq(DOMAIN op) /\ Distinct(chanQ)
  BY DEF QueuesOK
<1>2. ASSUME NEW i \in DOMAIN op, i \in Owned PROVE op[i].state # "freed"
  BY <1>2 DEF HeldUntilFreed
<1>3. CASE NextQueue = "chan"
  <2>1. /\ chanQ # <<>> /\ id = Head(chanQ) /\ chanQ' = Tail(chanQ)
        /\ UNCHANGED <<reqQ, indQ, writeQ>>
    BY <1>3 DEF NextQueue, QueueOf, Pop
  <2>2. /\ id \in DOMAIN op /\ id \in ToSet(chanQ) /\ chanQ' \in Seq(DOMAIN op)
        /\ Distinct(chanQ') /\ ToSet(chanQ') = ToSet(chanQ) \ {id}
    BY <1>1, <2>1, PopHead
  <2>3. op[id].type \in {"CMD", "RSP"} /\ id \in Owned
    BY <2>2 DEF PlacesOK, Owned
  <2> QED
    BY <1>1, <1>2, <2>1, <2>2, <2>3, OnePlace
<1>4. CASE NextQueue = "write"
  <2>1. /\ writeQ # <<>> /\ id = Head(writeQ) /\ writeQ' = Tail(writeQ)
        /\ UNCHANGED <<reqQ, indQ, chanQ>>
    BY <1>4 DEF NextQueue, QueueOf, Pop
  <2>2. /\ id \in DOMAIN op /\ id \in ToSet(writeQ) /\ writeQ' \in Seq(DOMAIN op)
        /\ Distinct(writeQ') /\ ToSet(writeQ') = ToSet(writeQ) \ {id}
    BY <1>1, <2>1, PopHead
  <2>3. op[id].type \in {"CMD", "RSP"} /\ id \in Owned
    BY <2>2 DEF PlacesOK, Owned, Waiting
  <2> QED
    BY <1>1, <1>2, <2>1, <2>2, <2>3, OnePlace
<1>5. CASE NextQueue = "req"
  <2>1. /\ pendReq = 0 /\ reqQ # <<>> /\ id = Head(reqQ) /\ reqQ' = Tail(reqQ)
        /\ UNCHANGED <<indQ, writeQ, chanQ>>
    BY <1>5 DEF NextQueue, QueueOf, Pop
  <2>2. /\ id \in DOMAIN op /\ id \in ToSet(reqQ) /\ reqQ' \in Seq(DOMAIN op)
        /\ Distinct(reqQ') /\ ToSet(reqQ') = ToSet(reqQ) \ {id}
    BY <1>1, <2>1, PopHead
  <2>3. op[id].type = "REQ" /\ id # pendReq /\ id \in Owned
    BY <2>2 DEF PlacesOK, Owned, Waiting
  <2> QED
    BY <1>1, <1>2, <2>1, <2>2, <2>3, OnePlace
<1>6. CASE NextQueue = "ind"
  <2>1. /\ pendInd = 0 /\ indQ # <<>> /\ id = Head(indQ) /\ indQ' = Tail(indQ)
        /\ UNCHANGED <<reqQ, writeQ, chanQ>>
    BY <1>6 DEF NextQueue, QueueOf, Pop
  <2>2. /\ id \in DOMAIN op /\ id \in ToSet(indQ) /\ indQ' \in Seq(DOMAIN op)
        /\ Distinct(indQ') /\ ToSet(indQ') = ToSet(indQ) \ {id}
    BY <1>1, <2>1, PopHead
  <2>3. op[id].type = "IND" /\ id # pendInd /\ id \in Owned
    BY <2>2 DEF PlacesOK, Owned, Waiting
  <2> QED
    BY <1>1, <1>2, <2>1, <2>2, <2>3, OnePlace
<1> QED
  BY <1>3, <1>4, <1>5, <1>6 DEF NextQueue

LEMMA WakeupType == ASSUME Wakeup PROVE writer' \in BOOLEAN
BY Zenon DEF Wakeup
-----------------------------------------------------------------------------
(* What a step does to the answers that are due *)

Settles(pending, pendingNew, open, left) ==
    \/ pendingNew = pending
    \/ pendingNew = 0 /\ (~open \/ (pending # 0 /\ pending \notin left))

LEMMA AnswerKept ==
    ASSUME AnswerInv, QueuesOK, rogue' = rogue,
           \A i \in DOMAIN op : i \in DOMAIN op' /\ op'[i].type = op[i].type,
           \A i \in DOMAIN op' : op'[i].ans = "other" => i \in DOMAIN op /\ op[i].ans = "other",
           Distinct(peer) => Distinct(peer'), ToSet(peer') \subseteq ToSet(peer),
           CanRead' => CanRead, io # "open" => io' # "open",
           Settles(pendReq, pendReq', io' = "open", ToSet(peer')),
           Settles(pendInd, pendInd', io' = "open", ToSet(peer'))
    PROVE  AnswerInv'
<1> SUFFICES ASSUME rogue = 0 PROVE PeerOwes' /\ \A id \in DOMAIN op' : op'[id].ans # "other"
  BY DEF AnswerInv
<1>1. PeerOwes /\ \A id \in DOMAIN op : op[id].ans # "other"
  BY DEF AnswerInv
<1>2. \A i \in ToSet(peer) : op'[i].type = op[i].type
  BY QueuesInOps
<1>3. ASSUME CanRead', NEW id \in ToSet(peer')
      PROVE  /\ op'[id].type = "REQ" => Due(id, pendReq)'
             /\ op'[id].type = "IND" => Due(id, pendInd)'
  BY <1>1, <1>2, <1>3 DEF PeerOwes, Due, Settles
<1>4. PeerOwes'
  BY <1>1, <1>2, <1>3 DEF PeerOwes
<1> QED
  BY <1>1, <1>4
-----------------------------------------------------------------------------
(* The operations of the upper layers *)

LEMMA TypesUnchanged ==
    ASSUME UNCHANGED op
    PROVE  /\ \A i \in DOMAIN op : i \in DOMAIN op' /\ op'[i].type = op[i].type
           /\ \A i \in DOMAIN op' : op'[i].ans = "other" => i \in DOMAIN op /\ op[i].ans = "other"
OBVIOUS

LEMMA StartStep ==
    ASSUME Inv, Len(op) < MaxOps,
           NEW type \in {"REQ", "IND", "CMD", "RSP"}, NEW opcode \in Opcodes \cup {"any"},
           op' = Append(op, NewOp(type, opcode)),
           reqQ' = IF type = "REQ" THEN Append(reqQ, Len(op) + 1) ELSE reqQ,
           indQ' = IF type = "IND" THEN Append(indQ, Len(op) + 1) ELSE indQ,
           \/ type \in {"CMD", "RSP"} /\ UNCHANGED chanQ /\ writeQ' = Append(writeQ, Len(op) + 1)
           \/ type \in {"CMD", "RSP"} /\ UNCHANGED writeQ /\ chanQ' = Append(chanQ, Len(op) + 1)
           \/ type \in {"REQ", "IND"} /\ UNCHANGED <<writeQ, chanQ>>,
           UNCHANGED <<pendReq, pendInd, peer, io, sec>>, Wakeup,
           late' \subseteq late, in_req' \in BOOLEAN,
           rogue' \in 0 .. MaxRogue, rogue' = rogue \/ rogue' # 0,
           ins' \in 0 .. MaxIn, owed' \in 0 .. MaxIn, owed' <= ins'
    PROVE  Inv'
<1> USE DEF Inv, OwnInv
<1>1. /\ Ownership' /\ Len(op') = Len(op) + 1
      /\ \A i \in DOMAIN op : i \in DOMAIN op' /\ op'[i] = op[i]
      /\ \A i \in DOMAIN op' : op'[i].ans = "other" => i \in DOMAIN op /\ op[i].ans = "other"
  BY OneStarts
<1>2. Len(op) \in Nat
  BY DEF Ownership, OpsOK
<1>3. Len(op') <= MaxOps
  BY <1>1, <1>2, AttAssumption
<1>4. BearerOK'
  BY <1>3, WakeupType DEF BearerOK
<1>5. AnswerInv'
  <2>1. CASE rogue' # 0
    BY <2>1 DEF AnswerInv
  <2>2. CASE rogue' = rogue
    BY <1>1, <2>2, AnswerKept DEF Ownership, CanRead, Settles
  <2> QED
    BY <2>1, <2>2
<1> QED
  BY <1>1, <1>4, <1>5 DEF OwedTaken

LEMMA SendStep ==
    ASSUME Inv, NEW type \in {"REQ", "IND", "CMD"}, NEW opcode \in Opcodes \cup {"any"},
           Send(type, opcode)
    PROVE  Inv'
BY StartStep DEF Send, Inv, OwnInv, BearerOK, OwedTaken

LEMMA RespondStep == ASSUME Inv, Respond PROVE Inv'
<1>1. owed' \in 0 .. MaxIn /\ owed' <= ins
  BY AttAssumption DEF Respond, Inv, OwnInv, BearerOK, OwedTaken
<1> QED
  BY <1>1, StartStep DEF Respond, Inv, OwnInv, BearerOK, OwedTaken

(* The waiting operation id is removed, the pending one only loses its     *)
(* handlers.                                                               *)
LEMMA CancelStep == ASSUME Inv, NEW id \in DOMAIN op, Cancel(id) PROVE Inv'
<1> USE DEF Inv, OwnInv
<1>0. /\ id \in Waiting \cup Pending /\ OpOK(op[id]) /\ op[id].state # "freed"
      /\ op \in Seq(Op) /\ id # 0
  BY DEF Cancel, Ownership, OpsOK, HeldUntilFreed, Owned
<1>1. /\ UNCHANGED <<chanQ, pendReq, pendInd, in_req, io, late, sec, peer, rogue, owed, ins>>
      /\ CanRead' = CanRead
  BY DEF Cancel, CanRead
<1>2. CASE id \in Pending
  <2>1. /\ op' = [op EXCEPT ![id] = CancelOp(Withdrawn(op[id]))]
        /\ UNCHANGED <<reqQ, indQ, writeQ, writer>>
    BY <1>2 DEF Cancel
  <2>2. op[id].type \in {"REQ", "IND"}
    BY <1>2 DEF Ownership, PlacesOK, Pending
  <2> DEFINE p == CancelOp(Withdrawn(op[id]))
  <2>3. /\ OpOK(p) /\ p.state # "freed" /\ p.type = op[id].type
        /\ p.ans = "other" => op[id].ans = "other"
    BY <1>0, <2>2, Cancelling
  <2> HIDE DEF p
  <2>4. p \in Op
    BY <2>3 DEF OpOK
  <2>5. /\ op' \in Seq(Op) /\ DOMAIN op' = DOMAIN op /\ Len(op') = Len(op)
        /\ \A i \in DOMAIN op : op'[i] = IF i = id THEN p ELSE op[i]
    BY <1>0, <2>1, <2>4 DEF p
  <2>6. Ownership'
    <3>1. \A i \in DOMAIN op : OpOK(op[i])
      BY DEF Ownership, OpsOK
    <3>2. \A i \in DOMAIN op : /\ OpOK(op'[i]) /\ op'[i].type = op[i].type
                               /\ op'[i].state = "freed" <=> op[i].state = "freed"
      BY <1>0, <2>3, <2>5, <3>1
    <3>3. peer' \in Seq(DOMAIN op)
      BY <1>1 DEF Ownership, QueuesOK
    <3> QED
      BY <1>1, <2>1, <2>5, <3>2, <3>3, SamePlaces
  <2>7. AnswerInv'
    BY <1>1, <2>3, <2>5, AnswerKept DEF Ownership, Settles
  <2> QED
    BY <1>1, <2>1, <2>5, <2>6, <2>7 DEF BearerOK, OwedTaken
<1>3. CASE id \notin Pending
  <2>1. /\ op' = [op EXCEPT ![id] = Destroy(Withdrawn(op[id]))]
        /\ reqQ' = RemoveFirst(reqQ, id) /\ indQ' = RemoveFirst(indQ, id)
        /\ writeQ' = RemoveFirst(writeQ, id) /\ Wakeup
        /\ id # pendReq /\ id # pendInd
    BY <1>0, <1>3 DEF Cancel, Pending
  <2>2. Over(op[id], Destroy(Withdrawn(op[id])), "error")
    BY <1>0, Ending
  <2>3. /\ reqQ' \in Seq(DOMAIN op) /\ Distinct(reqQ') /\ ToSet(reqQ') = ToSet(reqQ) \ {id}
        /\ indQ' \in Seq(DOMAIN op) /\ Distinct(indQ') /\ ToSet(indQ') = ToSet(indQ) \ {id}
        /\ writeQ' \in Seq(DOMAIN op) /\ Distinct(writeQ')
        /\ ToSet(writeQ') = ToSet(writeQ) \ {id}
    BY <2>1, RemoveIf DEF Ownership, QueuesOK
  <2>4. id \notin ToSet(chanQ)
    BY <1>0, <1>3 DEF Ownership, PlacesOK, Waiting
  <2>5. /\ chanQ' \in Seq(DOMAIN op) /\ Distinct(chanQ') /\ ToSet(chanQ') = ToSet(chanQ) \ {id}
        /\ peer' \in Seq(DOMAIN op)
    BY <1>1, <2>4 DEF Ownership, QueuesOK
  <2>6. /\ Ownership' /\ Len(op') = Len(op)
        /\ \A i \in DOMAIN op : i \in DOMAIN op' /\ op'[i].type = op[i].type
        /\ \A i \in DOMAIN op' : op'[i].ans = "other" => i \in DOMAIN op /\ op[i].ans = "other"
    <3>1. /\ pendReq' = IF pendReq = id THEN 0 ELSE pendReq
          /\ pendInd' = IF pendInd = id THEN 0 ELSE pendInd
      BY <1>1, <2>1
    <3>2. PICK p : p = Destroy(Withdrawn(op[id]))
      OBVIOUS
    <3>3. Over(op[id], p, "error") /\ op' = [op EXCEPT ![id] = p]
      BY <2>1, <2>2, <3>2
    <3>4. Ownership
      OBVIOUS
    <3>5. /\ Ownership' /\ Len(op') = Len(op)
          /\ \A i \in DOMAIN op : i \in DOMAIN op' /\ op'[i].type = op[i].type
          /\ \A i \in DOMAIN op' : op'[i].ans = "other" =>
                i \in DOMAIN op /\ (op[i].ans = "other" \/ "error" = "other")
      BY ONLY <2>3, <2>5, <3>1, <3>3, <3>4, OneEnds
    <3> QED
      BY <3>5
  <2>7. AnswerInv'
    BY <1>1, <2>6, AnswerKept DEF Ownership, Settles
  <2> QED
    BY <1>1, <2>1, <2>6, <2>7, WakeupType DEF BearerOK, OwedTaken
<1> QED
  BY <1>2, <1>3

(* bt_att_unref(), and disconnect_cb() *)
LEMMA ClearStep ==
    ASSUME Inv, Cleared, op' = [i \in DOMAIN op |-> op'[i]],
           \A i \in DOMAIN op : i \in Owned => Over(op[i], op'[i], "error"),
           \A i \in DOMAIN op : i \notin Owned => op'[i] = op[i]
    PROVE  Inv'
<1> USE DEF Inv, OwnInv
<1>1. /\ Ownership' /\ Len(op') = Len(op)
      /\ \A i \in DOMAIN op' : op'[i].ans = "other" => i \in DOMAIN op /\ op[i].ans = "other"
  BY AllEnd
<1>2. BearerOK' /\ OwedTaken'
  BY <1>1 DEF BearerOK, OwedTaken, Cleared
<1>3. AnswerInv'
  <2>1. PeerOwes'
    BY DEF PeerOwes, Cleared, Distinct, ToSet
  <2> QED
    BY <1>1, <2>1 DEF AnswerInv, Cleared
<1> QED
  BY <1>1, <1>2, <1>3

LEMMA UnrefStep == ASSUME Inv, Unref PROVE Inv'
<1> DEFINE f(i) == IF i \in Waiting \cup Pending \cup ToSet(chanQ)
                   THEN Destroy(Withdrawn(op[i])) ELSE op[i]
<1>1. Cleared /\ op' = [i \in DOMAIN op |-> f(i)]
  BY DEF Unref
<1>2. ASSUME NEW i \in DOMAIN op, i \in Owned PROVE Over(op[i], f(i), "error")
  <2>1. OpOK(op[i]) /\ op[i].state # "freed"
    BY <1>2 DEF Inv, OwnInv, Ownership, OpsOK, HeldUntilFreed
  <2> QED
    BY <1>2, <2>1, Ending DEF Owned
<1>3. ASSUME NEW i \in DOMAIN op, i \notin Owned PROVE f(i) = op[i]
  BY <1>3 DEF Owned
<1>4. \A i \in DOMAIN op : op'[i] = f(i)
  BY <1>1
<1> HIDE DEF f
<1>5. op' = [i \in DOMAIN op |-> op'[i]]
  BY <1>1
<1> QED
  BY <1>1, <1>2, <1>3, <1>4, <1>5, ClearStep

LEMMA DisconnectStep == ASSUME Inv, Disconnect PROVE Inv'
<1> DEFINE f(i) == IF i \in Waiting \cup Pending THEN Discard(op[i])
                   ELSE IF i \in ToSet(chanQ) THEN Destroy(op[i])
                   ELSE op[i]
<1>1. Cleared /\ op' = [i \in DOMAIN op |-> f(i)]
  BY DEF Disconnect
<1>2. ASSUME NEW i \in DOMAIN op, i \in Owned PROVE Over(op[i], f(i), "error")
  <2>1. OpOK(op[i]) /\ op[i].state # "freed"
    BY <1>2 DEF Inv, OwnInv, Ownership, OpsOK, HeldUntilFreed
  <2>2. i \in ToSet(chanQ) => op[i].type \notin {"REQ", "IND"}
    BY DEF Inv, OwnInv, Ownership, PlacesOK
  <2> QED
    BY <1>2, <2>1, <2>2, Ending DEF Owned
<1>3. ASSUME NEW i \in DOMAIN op, i \notin Owned PROVE f(i) = op[i]
  BY <1>3 DEF Owned
<1>4. \A i \in DOMAIN op : op'[i] = f(i)
  BY <1>1
<1> HIDE DEF f
<1>5. op' = [i \in DOMAIN op |-> op'[i]]
  BY <1>1
<1> QED
  BY <1>1, <1>2, <1>3, <1>4, <1>5, ClearStep
-----------------------------------------------------------------------------
(* can_write_data() *)

LEMMA WriterDoneStep == ASSUME Inv, WriterDone PROVE Inv'
<1> USE DEF Inv, OwnInv
<1>1. /\ UNCHANGED <<op, reqQ, indQ, writeQ, chanQ, pendReq, pendInd, in_req,
                     io, sec, peer, rogue, owed, ins>>
      /\ writer' = FALSE /\ late' = late \ {"out"}
  BY DEF WriterDone
<1>2. Ownership'
  BY <1>1 DEF Ownership, QueuesOK, PlacesOK, HeldUntilFreed, Owned, Waiting, Pending, OpsOK
<1>3. AnswerInv'
  BY <1>1, TypesUnchanged, AnswerKept DEF Ownership, CanRead, Settles
<1> QED
  BY <1>1, <1>2, <1>3 DEF BearerOK, OwedTaken

(* The operation that was picked is over: it was never outstanding. *)
LEMMA PickedEnds ==
    ASSUME Inv, NextQueue # "none", Pop(NextQueue),
           NEW id, id = Head(QueueOf(NextQueue)), NEW p, Over(op[id], p, "error"),
           op' = [op EXCEPT ![id] = p],
           UNCHANGED <<pendReq, pendInd, writer, io, sec, peer, rogue, owed, ins>>,
           late' = late \ {"out"}, in_req' \in BOOLEAN
    PROVE  Inv'
<1> USE DEF Inv, OwnInv
<1>1. /\ id \in DOMAIN op /\ op[id].state # "freed"
      /\ reqQ' \in Seq(DOMAIN op) /\ Distinct(reqQ') /\ ToSet(reqQ') = ToSet(reqQ) \ {id}
      /\ indQ' \in Seq(DOMAIN op) /\ Distinct(indQ') /\ ToSet(indQ') = ToSet(indQ) \ {id}
      /\ writeQ' \in Seq(DOMAIN op) /\ Distinct(writeQ')
      /\ ToSet(writeQ') = ToSet(writeQ) \ {id}
      /\ chanQ' \in Seq(DOMAIN op) /\ Distinct(chanQ')
      /\ ToSet(chanQ') = ToSet(chanQ) \ {id}
      /\ id # pendReq /\ id # pendInd
  BY Popped
<1>2. /\ Ownership' /\ Len(op') = Len(op)
      /\ \A i \in DOMAIN op : i \in DOMAIN op' /\ op'[i].type = op[i].type
      /\ \A i \in DOMAIN op' : op'[i].ans = "other" => i \in DOMAIN op /\ op[i].ans = "other"
  <2>1. /\ pendReq' = IF pendReq = id THEN 0 ELSE pendReq
        /\ pendInd' = IF pendInd = id THEN 0 ELSE pendInd
    BY <1>1
  <2>2. Ownership /\ peer' \in Seq(DOMAIN op)
    BY DEF Ownership, QueuesOK
  <2> PICK what : what = "error"
    OBVIOUS
  <2>3. Over(op[id], p, what) /\ op' = [op EXCEPT ![id] = p] /\ id \in DOMAIN op
    BY <1>1
  <2>4. /\ reqQ' \in Seq(DOMAIN op) /\ Distinct(reqQ') /\ ToSet(reqQ') = ToSet(reqQ) \ {id}
        /\ indQ' \in Seq(DOMAIN op) /\ Distinct(indQ') /\ ToSet(indQ') = ToSet(indQ) \ {id}
        /\ writeQ' \in Seq(DOMAIN op) /\ Distinct(writeQ')
        /\ ToSet(writeQ') = ToSet(writeQ) \ {id}
        /\ chanQ' \in Seq(DOMAIN op) /\ Distinct(chanQ')
        /\ ToSet(chanQ') = ToSet(chanQ) \ {id}
    BY <1>1
  <2>5. /\ Ownership' /\ Len(op') = Len(op)
        /\ \A i \in DOMAIN op : i \in DOMAIN op' /\ op'[i].type = op[i].type
        /\ \A i \in DOMAIN op' : op'[i].ans = "other" =>
              i \in DOMAIN op /\ (op[i].ans = "other" \/ what = "other")
    BY ONLY <2>1, <2>2, <2>3, <2>4, OneEnds, ZenonT(60)
  <2> QED
    BY <2>5
<1>3. AnswerInv'
  BY <1>2, AnswerKept DEF Ownership, CanRead, Settles
<1> QED
  BY <1>2, <1>3 DEF BearerOK, OwedTaken

LEMMA WriteNothingStep == ASSUME Inv, WriteNothing PROVE Inv'
<1>1. PICK id : id = Head(QueueOf(NextQueue))
  OBVIOUS
<1>2. /\ NextQueue # "none" /\ Pop(NextQueue)
      /\ op' = [op EXCEPT ![id] = Discard(op[id])]
      /\ UNCHANGED <<pendReq, pendInd, writer, in_req, io, sec, peer, rogue, owed, ins>>
      /\ late' = late \ {"out"}
  BY <1>1 DEF WriteNothing
<1>3. Ownership /\ BearerOK
  BY DEF Inv, OwnInv
<1>4. id \in DOMAIN op /\ op[id].state # "freed"
  BY <1>1, <1>2, <1>3, Popped
<1>5. OpOK(op[id])
  BY <1>3, <1>4 DEF Ownership, OpsOK
<1>6. PICK p : p = Discard(op[id])
  OBVIOUS
<1>7. Over(op[id], p, "error") /\ op' = [op EXCEPT ![id] = p]
  BY <1>2, <1>4, <1>5, <1>6, Ending
<1>8. in_req' \in BOOLEAN
  BY <1>2, <1>3 DEF BearerOK
<1> QED
  BY <1>1, <1>2, <1>7, <1>8, PickedEnds

(* The operation that was picked becomes the outstanding one of its type.  *)
LEMMA PickedMoves ==
    ASSUME Ownership, NextQueue # "none", Pop(NextQueue),
           NEW id, id = Head(QueueOf(NextQueue)), op[id].type \in {"REQ", "IND"},
           pendReq' = IF op[id].type = "REQ" THEN id ELSE pendReq,
           pendInd' = IF op[id].type = "IND" THEN id ELSE pendInd,
           UNCHANGED op, peer' = peer \/ peer' = Append(peer, id)
    PROVE  Ownership'
<1> USE DEF Ownership
<1>1. /\ id \in DOMAIN op /\ op[id].state # "freed"
      /\ reqQ' \in Seq(DOMAIN op) /\ Distinct(reqQ') /\ ToSet(reqQ') = ToSet(reqQ) \ {id}
      /\ indQ' \in Seq(DOMAIN op) /\ Distinct(indQ') /\ ToSet(indQ') = ToSet(indQ) \ {id}
      /\ writeQ' \in Seq(DOMAIN op) /\ Distinct(writeQ')
      /\ ToSet(writeQ') = ToSet(writeQ) \ {id}
      /\ chanQ' \in Seq(DOMAIN op) /\ Distinct(chanQ')
      /\ ToSet(chanQ') = ToSet(chanQ) \ {id}
      /\ id # pendReq /\ id # pendInd
      /\ op[id].type = "REQ" => pendReq = 0 /\ id \in ToSet(reqQ)
      /\ op[id].type = "IND" => pendInd = 0 /\ id \in ToSet(indQ)
  BY Popped
<1>2. id # 0
  BY <1>1, OnePlace
<1>3. QueuesOK'
  <2>1. peer \in Seq(DOMAIN op)
    BY DEF QueuesOK
  <2>2. Append(peer, id) \in Seq(DOMAIN op)
    BY <1>1, <2>1
  <2> QED
    BY <1>1, <2>1, <2>2 DEF QueuesOK
<1>4. PlacesOK'
  BY <1>1, <1>2 DEF PlacesOK
<1>5. Owned' = Owned
  <2>1. id \notin ToSet(writeQ) /\ id \notin ToSet(chanQ)
    BY <1>1, OnePlace
  <2>2. CASE op[id].type = "REQ"
    BY <1>1, <1>2, <2>1, <2>2, OnePlace DEF Owned, Waiting, Pending
  <2>3. CASE op[id].type = "IND"
    BY <1>1, <1>2, <2>1, <2>3, OnePlace DEF Owned, Waiting, Pending
  <2> QED
    BY <2>2, <2>3
<1>6. HeldUntilFreed'
  BY <1>5 DEF HeldUntilFreed
<1> QED
  BY <1>3, <1>4, <1>6 DEF OpsOK

(* While the bearer is open, nothing of the peer's is due when a request   *)
(* goes out; afterwards nothing more is read.                              *)
LEMMA MovedAnswer ==
    ASSUME Inv, NEW id \in DOMAIN op, op[id].type \in {"REQ", "IND"},
           op[id].type = "REQ" => pendReq = 0 /\ pendReq' = id /\ pendInd' = pendInd,
           op[id].type = "IND" => pendInd = 0 /\ pendInd' = id /\ pendReq' = pendReq,
           UNCHANGED <<op, io, rogue>>, CanWrite, late' = late \ {"out"},
           peer' = peer \/ (io = "open" /\ peer' = Append(peer, id))
    PROVE  AnswerInv'
<1> SUFFICES ASSUME rogue = 0 PROVE PeerOwes'
  BY DEF AnswerInv, Inv
<1>1. PeerOwes
  BY DEF AnswerInv, Inv
<1>2. id # 0 /\ ToSet(peer) \subseteq DOMAIN op /\ \A i \in ToSet(peer) : i # 0
  BY OnePlace, QueuesInOps DEF Inv, OwnInv, Ownership
<1>3. peer \in Seq(DOMAIN op)
  BY DEF Inv, OwnInv, Ownership, QueuesOK
<1>4. CASE io # "open"
  <2>1. peer' = peer /\ ~ CanRead'
    BY <1>4 DEF CanRead, CanWrite
  <2> QED
    BY <1>1, <2>1 DEF PeerOwes
<1>5. CASE io = "open"
  <2>1. /\ Distinct(peer) /\ \A i \in ToSet(peer) : op[i].type \in {"REQ", "IND"}
        /\ \A i \in ToSet(peer) : op[i].type = "REQ" => i = pendReq
        /\ \A i \in ToSet(peer) : op[i].type = "IND" => i = pendInd
    BY <1>1, <1>5 DEF PeerOwes, CanRead, Due
  <2>2. \A i \in ToSet(peer) : op[i].type # op[id].type
    BY <1>2, <2>1
  <2>3. Distinct(peer') /\ ToSet(peer') \subseteq ToSet(peer) \cup {id}
    <3>1. id \notin ToSet(peer)
      BY <2>2
    <3>2. Distinct(Append(peer, id)) /\ ToSet(Append(peer, id)) = ToSet(peer) \cup {id}
      BY <1>3, <2>1, <3>1, PushTail
    <3> QED
      BY <2>1, <3>2
  <2>4. ASSUME NEW i \in ToSet(peer')
        PROVE  /\ op[i].type \in {"REQ", "IND"}
               /\ op[i].type = "REQ" => i = pendReq'
               /\ op[i].type = "IND" => i = pendInd'
    <3>1. CASE i = id
      BY <3>1
    <3>2. CASE i \in ToSet(peer)
      BY <2>1, <2>2, <3>2
    <3> QED
      BY <2>3, <3>1, <3>2
  <2> QED
    BY <2>3, <2>4 DEF PeerOwes, Due
<1> QED
  BY <1>4, <1>5

LEMMA WriteStep == ASSUME Inv, NEW sent \in BOOLEAN, Write(sent) PROVE Inv'
<1> PICK id : id = Head(QueueOf(NextQueue))
  OBVIOUS
<1>1. /\ writer /\ CanWrite /\ NextQueue # "none" /\ Pop(NextQueue)
      /\ sent => io = "open"
      /\ pendReq' = IF op[id].type = "REQ" THEN id ELSE pendReq
      /\ pendInd' = IF op[id].type = "IND" THEN id ELSE pendInd
      /\ in_req' = (in_req /\ op[id].type # "RSP")
      /\ op' = IF op[id].type \in {"REQ", "IND"} THEN op
               ELSE [op EXCEPT ![id] = Destroy(op[id])]
      /\ peer' = IF sent /\ op[id].type \in {"REQ", "IND"} THEN Append(peer, id) ELSE peer
      /\ UNCHANGED <<writer, io, sec, rogue, owed, ins>> /\ late' = late \ {"out"}
  BY DEF Write
<1>2. Ownership /\ BearerOK
  BY DEF Inv, OwnInv
<1>3. /\ id \in DOMAIN op /\ op[id].state # "freed"
      /\ op[id].type = "REQ" => pendReq = 0
      /\ op[id].type = "IND" => pendInd = 0
  BY <1>1, <1>2, Popped
<1>4. in_req' \in BOOLEAN
  BY <1>1, Zenon
<1>5. CASE op[id].type \notin {"REQ", "IND"}
  <2>1. OpOK(op[id])
    BY <1>2, <1>3 DEF Ownership, OpsOK
  <2>2. PICK p : p = Destroy(op[id])
    OBVIOUS
  <2>3. Over(op[id], p, "error")
    BY <1>3, <1>5, <2>1, <2>2, Ending
  <2>4. op' = [op EXCEPT ![id] = p] /\ UNCHANGED <<pendReq, pendInd, peer>>
    BY <1>1, <1>5, <2>2
  <2> QED
    BY <1>1, <1>4, <2>3, <2>4, PickedEnds
<1>6. CASE op[id].type \in {"REQ", "IND"}
  <2>1. UNCHANGED op /\ (peer' = peer \/ (io = "open" /\ peer' = Append(peer, id)))
    BY <1>1, <1>6
  <2>2. Ownership'
    BY <1>1, <1>2, <1>6, <2>1, PickedMoves
  <2>3. AnswerInv'
    BY <1>1, <1>3, <1>6, <2>1, MovedAnswer
  <2>4. BearerOK' /\ OwedTaken'
    BY <1>1, <1>4, <2>1 DEF Inv, OwnInv, BearerOK, OwedTaken
  <2> QED
    BY <2>2, <2>3, <2>4 DEF Inv, OwnInv
<1> QED
  BY <1>5, <1>6
-----------------------------------------------------------------------------
(* can_read_data(), timeout_cb() and the loss of the link *)

(* The peer is left with no more than it had to answer, and no more can be *)
(* read than before.                                                       *)
Narrower ==
    /\ peer' \in Seq(DOMAIN op) /\ ToSet(peer') \subseteq ToSet(peer)
    /\ Distinct(peer) => Distinct(peer')
    /\ io' \in {"open", "shut", "closed"} /\ late' \subseteq {"in", "out"}
    /\ io # "open" => io' # "open"
    /\ CanRead' => CanRead
    /\ rogue' \in 0 .. MaxRogue /\ (rogue' = rogue \/ rogue' # 0)

LEMMA NoOpTouched ==
    ASSUME Inv, UNCHANGED <<ops, sec>>, Narrower, in_req' \in BOOLEAN,
           ins' \in 0 .. MaxIn, owed' \in 0 .. MaxIn, owed' <= ins'
    PROVE  Inv'
<1> USE DEF Inv, OwnInv
<1>1. UNCHANGED <<op, reqQ, indQ, writeQ, chanQ, pendReq, pendInd, writer, sec>>
  BY DEF ops
<1>2. Ownership'
  BY <1>1 DEF Ownership, QueuesOK, PlacesOK, HeldUntilFreed, Owned, Waiting, Pending, OpsOK,
              Narrower
<1>3. AnswerInv'
  <2>1. CASE rogue' # 0
    BY <2>1 DEF AnswerInv
  <2>2. CASE rogue' = rogue
    BY <1>1, <2>2, TypesUnchanged, AnswerKept DEF Ownership, Narrower, Settles
  <2> QED
    BY <2>1, <2>2 DEF Narrower
<1>4. BearerOK' /\ OwedTaken'
  BY <1>1 DEF BearerOK, OwedTaken, Narrower
<1> QED
  BY <1>2, <1>3, <1>4

(* The outstanding operation id is over. *)
LEMMA OutstandingEnds ==
    ASSUME Inv, NEW id \in Pending, NEW p, NEW what, Over(op[id], p, what),
           op' = [op EXCEPT ![id] = p],
           pendReq' = IF pendReq = id THEN 0 ELSE pendReq,
           pendInd' = IF pendInd = id THEN 0 ELSE pendInd,
           UNCHANGED <<reqQ, indQ, writeQ, chanQ, sec, in_req, owed, ins>>,
           writer' \in BOOLEAN, Narrower,
           rogue' = 0 => what # "other" /\ (io' # "open" \/ id \notin ToSet(peer'))
    PROVE  Inv'
<1> USE DEF Inv, OwnInv
<1>1. id \in DOMAIN op /\ id # 0 /\ (id = pendReq \/ id = pendInd)
  BY QueuesInOps DEF Ownership, Pending
<1>2. op[id].type \in {"REQ", "IND"}
  BY <1>1 DEF Ownership, PlacesOK
<1>3. /\ id \notin ToSet(reqQ) /\ id \notin ToSet(indQ)
      /\ id \notin ToSet(writeQ) /\ id \notin ToSet(chanQ)
  BY <1>1, <1>2, OnePlace
<1>4. /\ Ownership' /\ Len(op') = Len(op)
      /\ \A i \in DOMAIN op : i \in DOMAIN op' /\ op'[i].type = op[i].type
      /\ \A i \in DOMAIN op' : op'[i].ans = "other" =>
            i \in DOMAIN op /\ (op[i].ans = "other" \/ what = "other")
  <2>1. /\ reqQ' \in Seq(DOMAIN op) /\ Distinct(reqQ') /\ ToSet(reqQ') = ToSet(reqQ) \ {id}
        /\ indQ' \in Seq(DOMAIN op) /\ Distinct(indQ') /\ ToSet(indQ') = ToSet(indQ) \ {id}
        /\ writeQ' \in Seq(DOMAIN op) /\ Distinct(writeQ')
        /\ ToSet(writeQ') = ToSet(writeQ) \ {id}
        /\ chanQ' \in Seq(DOMAIN op) /\ Distinct(chanQ')
        /\ ToSet(chanQ') = ToSet(chanQ) \ {id}
    BY <1>3 DEF Ownership, QueuesOK
  <2>2. Ownership /\ peer' \in Seq(DOMAIN op)
    BY DEF Narrower
  <2>3. /\ Over(op[id], p, what) /\ op' = [op EXCEPT ![id] = p]
        /\ pendReq' = IF pendReq = id THEN 0 ELSE pendReq
        /\ pendInd' = IF pendInd = id THEN 0 ELSE pendInd
    OBVIOUS
  <2> QED
    BY ONLY <1>1, <2>1, <2>2, <2>3, OneEnds
<1>5. AnswerInv'
  <2>1. CASE rogue' # 0
    BY <2>1 DEF AnswerInv
  <2>2. CASE rogue' = 0
    <3>1. rogue' = rogue
      BY <2>2 DEF Narrower
    <3>2. /\ Settles(pendReq, pendReq', io' = "open", ToSet(peer'))
          /\ Settles(pendInd, pendInd', io' = "open", ToSet(peer'))
      BY <1>1, <2>2 DEF Settles
    <3>3. what # "other"
      BY <2>2
    <3>4. \A i \in DOMAIN op' : op'[i].ans = "other" => i \in DOMAIN op /\ op[i].ans = "other"
      BY <1>4, <3>3
    <3> QED
      BY <1>4, <3>1, <3>2, <3>4, AnswerKept DEF Ownership, Narrower
  <2> QED
    BY <2>1, <2>2
<1>6. BearerOK' /\ OwedTaken'
  BY <1>4 DEF BearerOK, OwedTaken, Narrower
<1> QED
  BY <1>4, <1>5, <1>6

LEMMA TimeoutStep == ASSUME Inv, NEW id \in Pending, Timeout(id) PROVE Inv'
<1>1. /\ op' = [op EXCEPT ![id] = Discard(op[id])]
      /\ pendReq' = IF pendReq = id THEN 0 ELSE pendReq
      /\ pendInd' = IF pendInd = id THEN 0 ELSE pendInd
      /\ io' = IF io = "open" THEN "shut" ELSE io
      /\ late' \in SUBSET (IF io = "open" THEN {"in", "out"} ELSE late)
      /\ UNCHANGED <<reqQ, indQ, writeQ, chanQ, writer, in_req, sec, peer, rogue, owed, ins>>
  BY DEF Timeout, Shutdown
<1>2. Ownership /\ BearerOK
  BY DEF Inv, OwnInv
<1>3. id \in DOMAIN op /\ OpOK(op[id]) /\ op[id].state # "freed"
  BY <1>2, QueuesInOps DEF Ownership, OpsOK, HeldUntilFreed, Owned
<1>4. PICK p : p = Discard(op[id])
  OBVIOUS
<1>5. Over(op[id], p, "error") /\ op' = [op EXCEPT ![id] = p]
  BY <1>1, <1>3, <1>4, Ending
<1>6. Narrower
  BY <1>1, <1>2 DEF Narrower, CanRead, BearerOK, Ownership, QueuesOK
<1>7. writer' \in BOOLEAN /\ io' # "open"
  BY <1>1, <1>2 DEF BearerOK
<1>8. rogue' = 0 => "error" # "other" /\ (io' # "open" \/ id \notin ToSet(peer'))
  BY <1>7
<1>9. Inv
  OBVIOUS
<1>10. id \in Pending
  OBVIOUS
<1> QED
  BY ONLY <1>1, <1>5, <1>6, <1>7, <1>8, <1>9, <1>10, OutstandingEnds

LEMMA LinkLostStep == ASSUME Inv, LinkLost PROVE Inv'
<1>1. Narrower
  BY DEF LinkLost, Narrower, CanRead, Inv, OwnInv, BearerOK, Ownership, QueuesOK
<1> QED
  BY <1>1, NoOpTouched DEF LinkLost, Inv, OwnInv, BearerOK, OwedTaken

(* What the peer sent was read, or the bearer is given up for it. *)
LEMMA ReadNarrows ==
    ASSUME Inv, CanRead, Read \/ Shutdown(LeftByRead),
           peer' \in Seq(DOMAIN op), ToSet(peer') \subseteq ToSet(peer),
           Distinct(peer) => Distinct(peer'),
           rogue' \in 0 .. MaxRogue, rogue' = rogue \/ rogue' # 0
    PROVE  Narrower
<1>1. io \in {"open", "shut", "closed"} /\ late \subseteq {"in", "out"}
  BY DEF Inv, OwnInv, BearerOK
<1>2. CASE Read
  BY <1>1, <1>2 DEF Read, Narrower, CanRead
<1>3. CASE Shutdown(LeftByRead)
  BY <1>1, <1>3 DEF Shutdown, LeftByRead, Narrower, CanRead
<1> QED
  BY <1>2, <1>3

(* handle_error_rsp(): the request that was outstanding is the first of    *)
(* its queue again.                                                        *)
LEMMA RetryStep ==
    ASSUME Inv, pendReq # 0, NEW kind, Retry(kind), Narrower,
           UNCHANGED <<in_req, owed, ins>>,
           rogue' = 0 => pendReq \notin ToSet(peer')
    PROVE  Inv'
<1> USE DEF Inv, OwnInv
<1>1. /\ reqQ' = <<pendReq>> \o reqQ /\ pendReq' = 0
      /\ UNCHANGED <<op, indQ, writeQ, chanQ, pendInd>> /\ Wakeup
  BY DEF Retry
<1>2. sec' \in LOW .. MaxSec
  <2>1. sec \in 1 .. MaxSec /\ MaxSec \in 1 .. 4
    BY AttAssumption DEF BearerOK, LOW
  <2>2. sec' = Raised(kind) /\ Raised(kind) # sec /\ Raised(kind) <= MaxSec
    BY DEF Retry
  <2>3. Raised(kind) = 2 \/ Raised(kind) = sec + 1 \/ Raised(kind) = sec
    BY DEF Raised, MEDIUM
  <2> QED
    BY <2>1, <2>2, <2>3 DEF LOW
<1>3. Ownership'
  <2>1. /\ pendReq \in DOMAIN op /\ reqQ \in Seq(DOMAIN op) /\ Distinct(reqQ)
        /\ op[pendReq].type = "REQ"
    BY DEF Ownership, QueuesOK, PlacesOK
  <2>2. pendReq \notin ToSet(reqQ)
    BY <2>1, OnePlace
  <2>3. /\ reqQ' \in Seq(DOMAIN op) /\ Distinct(reqQ')
        /\ ToSet(reqQ') = ToSet(reqQ) \cup {pendReq}
    BY <1>1, <2>1, <2>2, PushHead
  <2>4. QueuesOK'
    BY <1>1, <2>3 DEF Ownership, QueuesOK, Narrower
  <2>5. PlacesOK'
    <3>1. \A i \in ToSet(reqQ) : op[i].type = "REQ" /\ i # 0
      BY QueuesInOps, OnePlace DEF Ownership, PlacesOK
    <3> QED
      BY <1>1, <2>1, <2>3, <3>1 DEF Ownership, PlacesOK
  <2>6. Owned' = Owned
    BY <1>1, <2>3 DEF Owned, Waiting, Pending
  <2> QED
    BY <1>1, <2>4, <2>5, <2>6 DEF Ownership, HeldUntilFreed, OpsOK
<1>4. AnswerInv'
  <2>1. CASE rogue' # 0
    BY <2>1 DEF AnswerInv
  <2>2. CASE rogue' = 0
    BY <1>1, <2>2, TypesUnchanged, AnswerKept DEF Ownership, Narrower, Settles
  <2> QED
    BY <2>1, <2>2
<1>5. BearerOK' /\ OwedTaken'
  BY <1>1, <1>2, WakeupType DEF BearerOK, OwedTaken, Narrower
<1> QED
  BY <1>3, <1>4, <1>5

LEMMA HandleRspStep ==
    ASSUME Inv, CanRead, NEW to, NEW opcode, NEW kind, HandleRsp(to, opcode, kind),
           peer' \in Seq(DOMAIN op), ToSet(peer') \subseteq ToSet(peer),
           Distinct(peer) => Distinct(peer'),
           rogue' \in 0 .. MaxRogue, rogue' = rogue \/ rogue' # 0,
           UNCHANGED <<in_req, owed, ins>>,
           rogue' = 0 /\ pendReq # 0 => to = pendReq /\ pendReq \notin ToSet(peer')
    PROVE  Inv'
<1>1. CASE pendReq = 0
  <2>1. Shutdown(LeftByRead) /\ UNCHANGED <<ops, sec>>
    BY <1>1 DEF HandleRsp
  <2>2. Narrower
    BY <2>1, ReadNarrows
  <2> QED
    BY <2>1, <2>2, NoOpTouched DEF Inv, OwnInv, BearerOK, OwedTaken
<1>2. CASE pendReq # 0
  <2> PICK what : what = IF opcode # op[pendReq].opcode THEN "error"
                         ELSE IF to = pendReq THEN "own" ELSE "other"
    OBVIOUS
  <2>1. Read /\ (Retry(kind) \/ (Finish(what) /\ UNCHANGED sec))
    BY <1>2 DEF HandleRsp
  <2>2. Narrower
    BY <2>1, ReadNarrows
  <2>3. CASE Retry(kind)
    BY <1>2, <2>2, <2>3, RetryStep
  <2>4. CASE Finish(what) /\ UNCHANGED sec
    <3>1. Ownership /\ Inv
      BY DEF Inv, OwnInv
    <3>2. PICK id : id = pendReq
      OBVIOUS
    <3>3. id \in Pending /\ id # pendInd
      <4>1. pendReq \in DOMAIN op /\ op[pendReq].type = "REQ"
        BY <1>2, <3>1 DEF Ownership, QueuesOK, PlacesOK
      <4> QED
        BY <1>2, <3>1, <3>2, <4>1, OnePlace DEF Pending
    <3>4. OpOK(op[id]) /\ op[id].state # "freed"
      BY <3>1, <3>3, QueuesInOps DEF Ownership, OpsOK, HeldUntilFreed, Owned
    <3>5. PICK p : p = Destroy(Tell(op[id], what))
      OBVIOUS
    <3>6. Over(op[id], p, what)
      BY <3>4, <3>5, Ending
    <3>7. /\ op' = [op EXCEPT ![id] = p]
          /\ pendReq' = IF pendReq = id THEN 0 ELSE pendReq
          /\ pendInd' = IF pendInd = id THEN 0 ELSE pendInd
          /\ UNCHANGED <<reqQ, indQ, writeQ, chanQ, sec, in_req, owed, ins>> /\ Wakeup
      BY <2>4, <3>2, <3>3, <3>5 DEF Finish
    <3>8. rogue' = 0 => what # "other" /\ (io' # "open" \/ id \notin ToSet(peer'))
      BY <1>2, <3>2
    <3>9. writer' \in BOOLEAN
      BY <3>7, WakeupType
    <3> QED
      BY ONLY <2>2, <3>1, <3>3, <3>6, <3>7, <3>8, <3>9, OutstandingEnds
  <2> QED
    BY <2>1, <2>3, <2>4
<1> QED
  BY <1>1, <1>2

LEMMA HandleConfStep ==
    ASSUME Inv, CanRead, NEW to, NEW empty \in BOOLEAN, HandleConf(to, empty),
           peer' \in Seq(DOMAIN op), ToSet(peer') \subseteq ToSet(peer),
           Distinct(peer) => Distinct(peer'),
           rogue' \in 0 .. MaxRogue, rogue' = rogue \/ rogue' # 0,
           UNCHANGED <<in_req, owed, ins>>,
           rogue' = 0 /\ pendInd # 0 => to = pendInd /\ pendInd \notin ToSet(peer')
    PROVE  Inv'
<1>1. CASE pendInd = 0 \/ ~empty
  <2>1. Shutdown(LeftByRead) /\ UNCHANGED <<ops, sec>>
    BY <1>1 DEF HandleConf
  <2>2. Narrower
    BY <2>1, ReadNarrows
  <2> QED
    BY <2>1, <2>2, NoOpTouched DEF Inv, OwnInv, BearerOK, OwedTaken
<1>2. CASE pendInd # 0 /\ empty
  <2> PICK what : what = IF to = pendInd THEN "own" ELSE "other"
    OBVIOUS
  <2>1. Read
    BY <1>2 DEF HandleConf
  <2>2. Narrower
    BY <2>1, ReadNarrows
  <2>3. Ownership /\ Inv
    BY DEF Inv, OwnInv
  <2>4. PICK id : id = pendInd
    OBVIOUS
  <2>5. id \in Pending /\ id # pendReq
    <3>1. pendInd \in DOMAIN op /\ op[pendInd].type = "IND"
      BY <1>2, <2>3 DEF Ownership, QueuesOK, PlacesOK
    <3> QED
      BY <1>2, <2>3, <2>4, <3>1, OnePlace DEF Pending
  <2>6. OpOK(op[id]) /\ op[id].state # "freed"
    BY <2>3, <2>5, QueuesInOps DEF Ownership, OpsOK, HeldUntilFreed, Owned
  <2>7. PICK p : p = Destroy(Tell(op[id], what))
    OBVIOUS
  <2>8. Over(op[id], p, what)
    BY <2>6, <2>7, Ending
  <2>9. /\ op' = [op EXCEPT ![id] = p]
        /\ pendReq' = IF pendReq = id THEN 0 ELSE pendReq
        /\ pendInd' = IF pendInd = id THEN 0 ELSE pendInd
        /\ UNCHANGED <<reqQ, indQ, writeQ, chanQ, sec, in_req, owed, ins>> /\ Wakeup
    BY <1>2, <2>4, <2>5, <2>7 DEF HandleConf
  <2>10. rogue' = 0 => what # "other" /\ (io' # "open" \/ id \notin ToSet(peer'))
    BY <1>2, <2>4
  <2>11. writer' \in BOOLEAN
    BY <2>9, WakeupType
  <2> QED
    BY ONLY <2>2, <2>3, <2>5, <2>8, <2>9, <2>10, <2>11, OutstandingEnds
<1> QED
  BY <1>1, <1>2

LEMMA PeerAnswersStep == ASSUME Inv, PeerAnswers PROVE Inv'
<1>1. CanRead /\ UNCHANGED <<in_req, rogue, owed, ins>>
  BY DEF PeerAnswers
<1>2. PICK i \in DOMAIN peer :
        /\ peer' = RemoveAt(peer, i)
        /\ IF op[peer[i]].type = "REQ"
           THEN \E kind \in Kinds : HandleRsp(peer[i], op[peer[i]].opcode, kind)
           ELSE \E empty \in BOOLEAN : HandleConf(peer[i], empty)
  BY DEF PeerAnswers
<1> PICK to : to = peer[i]
  OBVIOUS
<1>3. Ownership /\ BearerOK /\ AnswerInv
  BY DEF Inv, OwnInv
<1>4. peer \in Seq(DOMAIN op) /\ to \in ToSet(peer) /\ to # 0
  <2>1. peer \in Seq(DOMAIN op) /\ to \in ToSet(peer)
    BY <1>3 DEF Ownership, QueuesOK, ToSet
  <2> QED
    BY <1>3, <2>1, QueuesInOps, OnePlace DEF Ownership
<1>5. /\ peer' \in Seq(DOMAIN op) /\ ToSet(peer') \subseteq ToSet(peer)
      /\ Distinct(peer) => Distinct(peer') /\ ToSet(peer') = ToSet(peer) \ {to}
  BY <1>2, <1>4, TakeOut
<1>6. ASSUME rogue' = 0
      PROVE  /\ to \notin ToSet(peer')
             /\ op[to].type \in {"REQ", "IND"}
             /\ op[to].type = "REQ" => Due(to, pendReq)
             /\ op[to].type = "IND" => Due(to, pendInd)
  <2>1. PeerOwes
    BY <1>1, <1>3, <1>6 DEF AnswerInv
  <2> QED
    BY <1>1, <1>4, <1>5, <2>1 DEF PeerOwes
<1>7. rogue' \in 0 .. MaxRogue /\ rogue' = rogue
  BY <1>1, <1>3 DEF BearerOK
<1>8. CASE op[to].type = "REQ"
  <2>1. PICK kind \in Kinds : HandleRsp(to, op[to].opcode, kind)
    BY <1>2, <1>8
  <2>2. rogue' = 0 /\ pendReq # 0 => to = pendReq /\ pendReq \notin ToSet(peer')
    BY <1>6, <1>8 DEF Due
  <2> QED
    BY <1>1, <1>5, <1>7, <2>1, <2>2, HandleRspStep
<1>9. CASE op[to].type # "REQ"
  <2>1. PICK empty \in BOOLEAN : HandleConf(to, empty)
    BY <1>2, <1>9
  <2>2. rogue' = 0 /\ pendInd # 0 => to = pendInd /\ pendInd \notin ToSet(peer')
    BY <1>6, <1>9 DEF Due
  <2> QED
    BY <1>1, <1>5, <1>7, <2>1, <2>2, HandleConfStep
<1> QED
  BY <1>8, <1>9

LEMMA OneMore ==
    ASSUME NEW m \in Nat, NEW n \in 0 .. m, n < m
    PROVE  n + 1 \in 0 .. m /\ n + 1 # 0
OBVIOUS

LEMMA RogueAnswerStep == ASSUME Inv, RogueAnswer PROVE Inv'
<1>1. /\ CanRead /\ rogue < MaxRogue /\ rogue' = rogue + 1
      /\ UNCHANGED <<in_req, peer, owed, ins>>
  BY DEF RogueAnswer
<1>2. rogue' \in 0 .. MaxRogue /\ rogue' # 0
  BY <1>1, AttAssumption, OneMore DEF Inv, OwnInv, BearerOK
<1>3. peer' \in Seq(DOMAIN op) /\ peer' = peer
  BY <1>1 DEF Inv, OwnInv, Ownership, QueuesOK
<1>4. ASSUME NEW opcode, NEW kind, HandleRsp(0, opcode, kind) PROVE Inv'
  BY <1>1, <1>2, <1>3, <1>4, HandleRspStep
<1>5. ASSUME NEW empty \in BOOLEAN, HandleConf(0, empty) PROVE Inv'
  BY <1>1, <1>2, <1>3, <1>5, HandleConfStep
<1> QED
  BY <1>4, <1>5 DEF RogueAnswer

LEMMA PeerRequestStep == ASSUME Inv, PeerRequest PROVE Inv'
<1>1. CanRead /\ UNCHANGED <<ops, sec, peer, rogue>>
  BY DEF PeerRequest
<1>2. BearerOK /\ OwedTaken /\ peer \in Seq(DOMAIN op)
  BY DEF Inv, OwnInv, Ownership, QueuesOK
<1>3. ASSUME Read \/ Shutdown(LeftByRead) PROVE Narrower
  BY <1>1, <1>2, <1>3, ReadNarrows DEF BearerOK
<1>4. CASE Shutdown(LeftByRead) /\ UNCHANGED <<in_req, owed, ins>>
  BY <1>1, <1>2, <1>3, <1>4, NoOpTouched DEF BearerOK, OwedTaken
<1>5. CASE ins < MaxIn /\ in_req' = TRUE /\ owed' = owed + 1 /\ ins' = ins + 1 /\ Read
  <2>1. ins' \in 0 .. MaxIn /\ owed' \in 0 .. MaxIn /\ owed' <= ins'
    BY <1>2, <1>5, AttAssumption DEF BearerOK, OwedTaken
  <2> QED
    BY <1>1, <1>3, <1>5, <2>1, NoOpTouched
<1> QED
  BY <1>4, <1>5 DEF PeerRequest

(* respond_not_supported() and the confirmation of an indication *)
LEMMA NotSupportedStep ==
    ASSUME Inv, NEW request \in BOOLEAN, NotSupported(request) PROVE Inv'
<1>1. rogue' \in 0 .. MaxRogue /\ rogue' # 0
  BY AttAssumption, OneMore DEF NotSupported, Inv, OwnInv, BearerOK
<1>2. in_req' \in BOOLEAN
  BY Zenon DEF NotSupported
<1> QED
  BY <1>1, <1>2, StartStep DEF NotSupported, Read, Inv, OwnInv, BearerOK, OwedTaken

LEMMA PeerIndicationStep == ASSUME Inv, PeerIndication PROVE Inv'
<1>1. rogue' \in 0 .. MaxRogue /\ rogue' # 0
  BY AttAssumption, OneMore DEF PeerIndication, Inv, OwnInv, BearerOK
<1> QED
  BY <1>1, StartStep DEF PeerIndication, Read, Inv, OwnInv, BearerOK, OwedTaken
-----------------------------------------------------------------------------
(* The invariant *)

LEMMA InvInit == ASSUME Init PROVE Inv
<1> USE DEF Init
<1>1. DOMAIN op = {} /\ Len(op) = 0 /\ op \in Seq(Op) /\ ToSet(<<>>) = {}
  BY DEF ToSet
<1>2. Distinct(<<>>) /\ <<>> \in Seq(DOMAIN op)
  BY DEF Distinct
<1>3. Ownership
  BY <1>1, <1>2 DEF Ownership, QueuesOK, PlacesOK, HeldUntilFreed, OpsOK
<1>4. BearerOK /\ OwedTaken
  <2>1. /\ Len(op) <= MaxOps /\ sec \in LOW .. MaxSec /\ owed <= ins
        /\ 0 \in 0 .. MaxRogue /\ 0 \in 0 .. MaxIn
    BY <1>1, AttAssumption DEF LOW
  <2> QED
    BY <2>1 DEF BearerOK, OwedTaken
<1>5. AnswerInv
  BY <1>1, <1>2 DEF AnswerInv, PeerOwes
<1> QED
  BY <1>3, <1>4, <1>5 DEF Inv, OwnInv

LEMMA InvNext == Inv /\ [Next]_vars => Inv'
<1> SUFFICES ASSUME Inv, [Next]_vars PROVE Inv'
  OBVIOUS
<1>1. CASE Local
  <2>1. ASSUME NEW opcode \in Opcodes, Send("REQ", opcode) PROVE Inv'
    BY <2>1, SendStep
  <2>2. ASSUME NEW type \in {"IND", "CMD"}, Send(type, "any") PROVE Inv'
    BY <2>2, SendStep
  <2> QED
    BY <1>1, <2>1, <2>2, RespondStep, CancelStep, UnrefStep DEF Local
<1>2. CASE Writing
  BY <1>2, WriterDoneStep, WriteNothingStep, WriteStep DEF Writing
<1>3. CASE Reading
  BY <1>3, PeerAnswersStep, RogueAnswerStep, PeerRequestStep, NotSupportedStep,
     PeerIndicationStep DEF Reading
<1>4. CASE Timer
  BY <1>4, TimeoutStep DEF Timer
<1>5. CASE LinkLost
  BY <1>5, LinkLostStep
<1>6. CASE Disconnect
  BY <1>6, DisconnectStep
<1>7. CASE UNCHANGED vars
  <2>1. UNCHANGED <<ops, sec, peer, io, late, rogue, in_req, owed, ins>>
    BY <1>7 DEF vars, ops
  <2>2. Narrower
    BY <2>1 DEF Narrower, CanRead, Inv, OwnInv, BearerOK, Ownership, QueuesOK
  <2> QED
    BY <2>1, <2>2, NoOpTouched DEF Inv, OwnInv, BearerOK, OwedTaken
<1> QED
  BY <1>1, <1>2, <1>3, <1>4, <1>5, <1>6, <1>7 DEF Next

LEMMA InvHolds == Spec => []Inv
<1>1. Init => Inv
  BY InvInit
<1> QED
  BY <1>1, InvNext, PTL DEF Spec

(* An entry of a queue without duplicates is there once. *)
LEMMA EntryOnce ==
    ASSUME NEW S, NEW q \in Seq(S), Distinct(q), NEW x
    PROVE  Cardinality({i \in DOMAIN q : q[i] = x}) = IF x \in ToSet(q) THEN 1 ELSE 0
<1>1. CASE x \in ToSet(q)
  <2>1. PICK j \in DOMAIN q : q[j] = x
    BY <1>1 DEF ToSet
  <2>2. {i \in DOMAIN q : q[i] = x} = {j}
    BY <2>1 DEF Distinct
  <2> QED
    BY <1>1, <2>2, FS_Singleton
<1>2. CASE x \notin ToSet(q)
  <2>1. {i \in DOMAIN q : q[i] = x} = {}
    BY <1>2 DEF ToSet
  <2> QED
    BY <1>2, <2>1, FS_EmptySet
<1> QED
  BY <1>1, <1>2

LEMMA HeldOnce ==
    ASSUME Ownership, NEW id \in DOMAIN op
    PROVE  Holders(id) = IF op[id].state = "freed" THEN 0 ELSE 1
<1>1. /\ Cardinality({i \in DOMAIN reqQ : reqQ[i] = id}) = IF id \in ToSet(reqQ) THEN 1 ELSE 0
      /\ Cardinality({i \in DOMAIN indQ : indQ[i] = id}) = IF id \in ToSet(indQ) THEN 1 ELSE 0
      /\ Cardinality({i \in DOMAIN writeQ : writeQ[i] = id})
            = IF id \in ToSet(writeQ) THEN 1 ELSE 0
      /\ Cardinality({i \in DOMAIN chanQ : chanQ[i] = id})
            = IF id \in ToSet(chanQ) THEN 1 ELSE 0
  BY EntryOnce DEF Ownership, QueuesOK
<1>2. id # 0 /\ op[id].type \in {"REQ", "IND", "CMD", "RSP"}
  BY OnePlace DEF Ownership, OpsOK, OpOK, Op
<1>3. op[id].state # "freed" <=>
         \/ id \in ToSet(reqQ) \/ id \in ToSet(indQ) \/ id \in ToSet(writeQ)
         \/ id \in ToSet(chanQ) \/ id = pendReq \/ id = pendInd
  BY <1>2 DEF Ownership, HeldUntilFreed, Owned, Waiting, Pending
<1>4. CASE op[id].type = "REQ"
  BY <1>1, <1>3, <1>4, OnePlace DEF Holders
<1>5. CASE op[id].type = "IND"
  BY <1>1, <1>3, <1>5, OnePlace DEF Holders
<1>6. CASE op[id].type \in {"CMD", "RSP"}
  BY <1>1, <1>3, <1>6, OnePlace DEF Holders
<1> QED
  BY <1>2, <1>4, <1>5, <1>6

LEMMA InvType == ASSUME Inv PROVE TypeOK
<1> USE DEF Inv, OwnInv
<1>1. op \in Seq(Op) /\ DOMAIN op = 1 .. Len(op) /\ Len(op) \in Nat
  BY DEF Ownership, OpsOK
<1>2. pendReq \in 0 .. Len(op) /\ pendInd \in 0 .. Len(op)
  BY <1>1 DEF Ownership, QueuesOK
<1>3. \A q \in {reqQ, indQ, writeQ, chanQ} : q \in Seq(DOMAIN op)
  BY DEF Ownership, QueuesOK
<1>4. peer \in Seq(DOMAIN op)
  BY DEF Ownership, QueuesOK
<1> QED
  BY <1>1, <1>2, <1>3, <1>4 DEF BearerOK, TypeOK

(* For every number of operations and every behaviour of the peer: an      *)
(* att_send_op is in exactly one queue or outstanding until it is freed    *)
(* and nowhere after, is freed once, and its owner is told once            *)
(* (destroy_att_send_op(), disc_att_send_op(), handle_rsp(), timeout_cb(), *)
(* bt_att_cancel(), disconnect_cb()).                                      *)
THEOREM AttEndsOnce == Spec => []EndsOnce
<1>1. ASSUME Inv PROVE EndsOnce
  <2>1. Ownership
    BY <1>1 DEF Inv, OwnInv
  <2>2. ASSUME NEW id \in DOMAIN op
        PROVE  /\ op[id].state # "freed twice"
               /\ op[id].ans # "twice" /\ op[id].gone <= 1
               /\ op[id].state = "live" => op[id].ans = "none" /\ op[id].gone = 0
               /\ op[id].state # "live" =>
                     /\ op[id].gone = 1
                     /\ op[id].type \in {"REQ", "IND"} => op[id].ans # "none"
    <3>1. OpOK(op[id])
      BY <2>1 DEF Ownership, OpsOK
    <3>2. op[id].gone = 0 \/ op[id].gone = 1
      BY <3>1 DEF OpOK
    <3>3. op[id].gone <= 1
      BY <3>2
    <3> QED
      BY <3>1, <3>3 DEF OpOK
  <2> QED
    BY <1>1, <2>1, <2>2, HeldOnce, InvType DEF EndsOnce
<1> QED
  BY <1>1, InvHolds, PTL

(* For every number of operations, while the peer answers only what it was *)
(* asked: whoever is told an answer is told the one to his own request or  *)
(* indication, although timeout_cb(), bt_att_cancel() and a security retry *)
(* leave answers on their way (handle_rsp(), handle_conf()).               *)
THEOREM AttAnswerIsOwn == Spec => []AnswerIsOwn
<1>1. ASSUME Inv PROVE AnswerIsOwn
  BY <1>1 DEF Inv, AnswerInv, AnswerIsOwn
<1> QED
  BY <1>1, InvHolds, PTL
-----------------------------------------------------------------------------
(***************************************************************************)
(* The bearer implements AttRequests.  The requests it holds are in the    *)
(* order in which they were made, and only the oldest of them can have     *)
(* been withdrawn.                                                         *)
(***************************************************************************)
OnlyOldest == \A i \in DOMAIN Asked : i # 1 => op[Asked[i]].state = "live"

Heard == [id \in Requests |-> op[id].ans]

(* What a step has to show *)
InOrder == OnlyOldest' /\ (Abstract!Next \/ UNCHANGED <<Awaited, Heard>>)

LEMMA AskedQueue ==
    ASSUME Ownership
    PROVE  /\ Asked \in Seq(DOMAIN op) /\ Distinct(Asked)
           /\ ToSet(Asked) = IF pendReq = 0 THEN ToSet(reqQ) ELSE ToSet(reqQ) \cup {pendReq}
           /\ \A id \in ToSet(Asked) : id \in Requests
<1>1. reqQ \in Seq(DOMAIN op) /\ Distinct(reqQ) /\ ToSet(reqQ) \subseteq DOMAIN op
  BY QueuesInOps DEF Ownership, QueuesOK
<1>2. \A id \in ToSet(reqQ) : op[id].type = "REQ" /\ id # pendReq
  BY DEF Ownership, PlacesOK
<1>3. pendReq # 0 => pendReq \in DOMAIN op /\ op[pendReq].type = "REQ"
  BY DEF Ownership, QueuesOK, PlacesOK
<1>4. CASE pendReq = 0
  BY <1>1, <1>2, <1>4 DEF Asked, Requests
<1>5. CASE pendReq # 0
  <2>1. Asked = <<pendReq>> \o reqQ
    BY <1>5 DEF Asked
  <2>2. pendReq \notin ToSet(reqQ) /\ pendReq \in DOMAIN op
    BY <1>2, <1>3, <1>5
  <2>3. Asked \in Seq(DOMAIN op) /\ Distinct(Asked) /\ ToSet(Asked) = ToSet(reqQ) \cup {pendReq}
    BY <1>1, <2>1, <2>2, PushHead
  <2> QED
    BY <1>1, <1>2, <1>3, <1>5, <2>3 DEF Requests
<1> QED
  BY <1>4, <1>5

(* The oldest and the others *)
LEMMA OldestFirst ==
    ASSUME NEW S, NEW q \in Seq(S), q # <<>>, Distinct(q)
    PROVE  /\ Head(q) \in S /\ Head(q) = q[1] /\ 1 \in DOMAIN q
           /\ Tail(q) \in Seq(S) /\ Distinct(Tail(q)) /\ Head(q) \notin ToSet(Tail(q))
           /\ q = <<Head(q)>> \o Tail(q)
           /\ \A i \in DOMAIN Tail(q) : i + 1 \in DOMAIN q /\ i + 1 # 1 /\ Tail(q)[i] = q[i + 1]
           /\ RemoveFirst(q, Head(q)) = Tail(q)
<1>1. /\ Head(q) \in S /\ Head(q) = q[1] /\ 1 \in DOMAIN q /\ Tail(q) \in Seq(S)
      /\ Len(q) \in Nat /\ Len(Tail(q)) = Len(q) - 1
      /\ \A i \in DOMAIN Tail(q) : i + 1 \in DOMAIN q /\ i + 1 # 1 /\ Tail(q)[i] = q[i + 1]
  OBVIOUS
<1>2. Distinct(Tail(q)) /\ Head(q) \notin ToSet(Tail(q))
  BY PopHead
<1>3. q = <<Head(q)>> \o Tail(q)
  OBVIOUS
<1>4. RemoveFirst(q, Head(q)) = Tail(q)
  <2>1. RemoveFirst(q, Head(q)) = RemoveAt(q, 1)
    BY <1>1, RemoveMatch
  <2>2. PICK r : r = RemoveAt(q, 1)
    OBVIOUS
  <2>3. /\ r \in Seq(S) /\ Len(r) = Len(q) - 1 /\ DOMAIN r = 1 .. Len(q) - 1
        /\ \A k \in DOMAIN r : r[k] = IF k < 1 THEN q[k] ELSE q[k + 1]
    BY <1>1, <2>2, TakeOutEntries
  <2>4. \A k \in DOMAIN r : r[k] = Tail(q)[k]
    BY <1>1, <2>3
  <2>5. r = Tail(q)
    BY <1>1, <2>3, <2>4, SameEntries
  <2> QED
    BY <2>1, <2>2, <2>5
<1> QED
  BY <1>1, <1>2, <1>3, <1>4

(* Which requests are awaited, and that none of them was withdrawn *)
LEMMA AwaitedQueue ==
    ASSUME Ownership, OnlyOldest
    PROVE  /\ Awaited \in Seq(DOMAIN op) /\ Distinct(Awaited)
           /\ ToSet(Awaited) = {id \in ToSet(Asked) : op[id].state = "live"}
           /\ (Asked # <<>> /\ op[Head(Asked)].state # "live") => Awaited = Tail(Asked)
           /\ ~(Asked # <<>> /\ op[Head(Asked)].state # "live") => Awaited = Asked
<1>1. Asked \in Seq(DOMAIN op) /\ Distinct(Asked)
  BY AskedQueue
<1>2. CASE Asked # <<>> /\ op[Head(Asked)].state # "live"
  <2>1. Awaited = Tail(Asked)
    BY <1>2 DEF Awaited
  <2>2. /\ Tail(Asked) \in Seq(DOMAIN op) /\ Distinct(Tail(Asked))
        /\ ToSet(Tail(Asked)) = ToSet(Asked) \ {Head(Asked)}
    BY <1>1, <1>2, PopHead
  <2>3. ASSUME NEW id \in ToSet(Tail(Asked)) PROVE op[id].state = "live"
    <3>1. PICK i \in DOMAIN Tail(Asked) : id = Tail(Asked)[i]
      BY DEF ToSet
    <3>2. i + 1 \in DOMAIN Asked /\ i + 1 # 1 /\ id = Asked[i + 1]
      BY <1>1, <1>2, <3>1, OldestFirst
    <3> QED
      BY <3>2 DEF OnlyOldest
  <2> QED
    BY <1>2, <2>1, <2>2, <2>3
<1>3. CASE ~(Asked # <<>> /\ op[Head(Asked)].state # "live")
  <2>1. Awaited = Asked
    BY <1>3 DEF Awaited
  <2>2. ASSUME NEW id \in ToSet(Asked) PROVE op[id].state = "live"
    <3>1. PICK i \in DOMAIN Asked : id = Asked[i]
      BY DEF ToSet
    <3>2. Asked # <<>> /\ Head(Asked) = Asked[1]
      BY <1>1, <3>1
    <3> QED
      BY <1>3, <3>1, <3>2 DEF OnlyOldest
  <2> QED
    BY <1>1, <1>3, <2>1, <2>2
<1> QED
  BY <1>2, <1>3
-----------------------------------------------------------------------------
(* What a step does to the requests, as AttRequests has them *)

LEMMA HeardOf ==
    ASSUME Requests' = Requests, NEW ids, NEW what,
           \A i \in Requests : op'[i].ans = IF i \in ids THEN what ELSE op[i].ans
    PROVE  Abstract!Hear(ids, what)
BY DEF Abstract!Hear

LEMMA Withdrawal ==
    ASSUME NEW S, Awaited \in Seq(S), Distinct(Awaited), NEW id \in ToSet(Awaited),
           Awaited' = RemoveFirst(Awaited, id), Abstract!Hear({id}, "withdrawn")
    PROVE  Abstract!Next
<1>1. PICK i \in DOMAIN Awaited : Awaited[i] = id
  BY DEF ToSet
<1>2. Awaited' = RemoveAt(Awaited, i)
  BY <1>1, RemoveMatch
<1>3. RemoveAt(Awaited, i) = Abstract!RemoveAt(Awaited, i)
  BY DEF RemoveAt, Abstract!RemoveAt
<1> QED
  BY <1>1, <1>2, <1>3 DEF Abstract!Withdraw, Abstract!Next

(* No request is touched, *)
LEMMA NoneTouched ==
    ASSUME Ownership, OnlyOldest, Asked' = Asked,
           \A i \in DOMAIN op : /\ i \in DOMAIN op' /\ op'[i].type = op[i].type
                                /\ op[i].type = "REQ" => op'[i] = op[i],
           \A i \in DOMAIN op' : i \in DOMAIN op \/ op'[i].type # "REQ"
    PROVE  InOrder
<1>1. Requests' = Requests /\ \A i \in Requests : op'[i] = op[i]
  BY DEF Requests
<1>2. Asked \in Seq(DOMAIN op) /\ \A id \in ToSet(Asked) : id \in Requests
  BY AskedQueue
<1>3. \A i \in DOMAIN Asked : op'[Asked[i]] = op[Asked[i]]
  BY <1>1, <1>2 DEF ToSet
<1>4. OnlyOldest'
  BY <1>3 DEF OnlyOldest
<1>5. Asked # <<>> => 1 \in DOMAIN Asked /\ Head(Asked) = Asked[1]
  BY <1>2
<1>6. UNCHANGED Awaited
  BY <1>3, <1>5 DEF Awaited
<1>7. UNCHANGED Heard
  BY <1>1 DEF Heard
<1> QED
  BY <1>4, <1>6, <1>7 DEF InOrder

(* a new request is the last one, *)
LEMMA OneAsked ==
    ASSUME Ownership, OnlyOldest, NEW id, id \in 1 .. MaxOps, id \notin DOMAIN op,
           DOMAIN op' = DOMAIN op \cup {id}, \A i \in DOMAIN op : op'[i] = op[i],
           op'[id].type = "REQ", op'[id].state = "live", op'[id].ans = "none",
           Asked' = Append(Asked, id)
    PROVE  InOrder
<1>1. Asked \in Seq(DOMAIN op) /\ Awaited \in Seq(DOMAIN op)
  BY AskedQueue, AwaitedQueue
<1>2. /\ Len(Asked) \in Nat /\ DOMAIN Asked = 1 .. Len(Asked)
      /\ DOMAIN Asked' = 1 .. Len(Asked) + 1 /\ Asked'[Len(Asked) + 1] = id
      /\ \A i \in DOMAIN Asked : Asked'[i] = Asked[i] /\ op'[Asked[i]] = op[Asked[i]]
      /\ Asked' # <<>> /\ Head(Asked') = Asked'[1]
  BY <1>1
<1>3. OnlyOldest'
  BY <1>2 DEF OnlyOldest
<1>4. Awaited' = Append(Awaited, id)
  <2>1. CASE Asked = <<>>
    BY <1>2, <2>1 DEF Awaited
  <2>2. CASE Asked # <<>>
    <3>1. Head(Asked') = Head(Asked) /\ op'[Head(Asked)] = op[Head(Asked)]
      BY <1>1, <1>2, <2>2
    <3>2. Tail(Append(Asked, id)) = Append(Tail(Asked), id)
      BY <1>1, <2>2
    <3> QED
      BY <1>2, <2>2, <3>1, <3>2 DEF Awaited
  <2> QED
    BY <2>1, <2>2
<1>5. id \notin Requests /\ Requests' = Requests \cup {id}
  BY DEF Requests
<1>6. Heard' = [i \in DOMAIN Heard \cup {id} |-> IF i = id THEN "none" ELSE Heard[i]]
  <2>1. \A i \in Requests : op'[i] = op[i]
    BY DEF Requests
  <2> QED
    BY <1>5, <2>1 DEF Heard
<1>7. Abstract!Issue
  BY <1>4, <1>5, <1>6 DEF Abstract!Issue, Heard
<1> QED
  BY <1>3, <1>7 DEF InOrder, Abstract!Next

LEMMA OneChanged ==
    ASSUME Ownership, NEW id \in DOMAIN op, NEW p, p.type = op[id].type,
           op' = [op EXCEPT ![id] = p]
    PROVE  /\ DOMAIN op' = DOMAIN op /\ Requests' = Requests
           /\ op'[id] = p /\ \A i \in DOMAIN op : i # id => op'[i] = op[i]
           /\ \A i \in DOMAIN op : op'[i].type = op[i].type
<1>1. op \in Seq(Op)
  BY DEF Ownership, OpsOK
<1>2. /\ DOMAIN op' = DOMAIN op
      /\ op'[id] = p /\ \A i \in DOMAIN op : i # id => op'[i] = op[i]
  BY <1>1
<1>3. \A i \in DOMAIN op : op'[i].type = op[i].type
  BY <1>2
<1> QED
  BY <1>2, <1>3 DEF Requests

(* the oldest request leaves, or one that had left already, *)
LEMMA OldestEnds ==
    ASSUME Ownership, OnlyOldest, Asked # <<>>, Asked' = Tail(Asked),
           NEW id, id = Head(Asked), NEW p, p.type = op[id].type, op' = [op EXCEPT ![id] = p],
           NEW what \in {"own", "other", "error"},
           op[id].state = "live" => p.ans = what,
           op[id].state # "live" => p.ans = op[id].ans
    PROVE  InOrder
<1>1. Asked \in Seq(DOMAIN op) /\ Distinct(Asked)
  BY AskedQueue
<1>2. /\ id \in DOMAIN op /\ Tail(Asked) \in Seq(DOMAIN op) /\ id \notin ToSet(Tail(Asked))
      /\ \A i \in DOMAIN Tail(Asked) : /\ i + 1 \in DOMAIN Asked /\ i + 1 # 1
                                       /\ Tail(Asked)[i] = Asked[i + 1]
  BY <1>1, OldestFirst
<1>3. /\ DOMAIN op' = DOMAIN op /\ Requests' = Requests
      /\ op'[id] = p /\ \A i \in DOMAIN op : i # id => op'[i] = op[i]
  BY <1>2, OneChanged
<1>4. ASSUME NEW i \in DOMAIN Tail(Asked) PROVE op'[Tail(Asked)[i]].state = "live"
  <2>1. op[Tail(Asked)[i]].state = "live"
    BY <1>2 DEF OnlyOldest
  <2>2. Tail(Asked)[i] # id /\ Tail(Asked)[i] \in DOMAIN op
    BY <1>2 DEF ToSet
  <2> QED
    BY <1>3, <2>1, <2>2
<1>5. OnlyOldest'
  BY <1>4 DEF OnlyOldest
<1>6. Awaited' = Tail(Asked)
  <2>1. Tail(Asked) # <<>> => 1 \in DOMAIN Tail(Asked) /\ Head(Tail(Asked)) = Tail(Asked)[1]
    BY <1>2
  <2> QED
    BY <1>4, <2>1 DEF Awaited
<1>7. CASE op[id].state = "live"
  <2>1. Awaited = Asked
    BY <1>7 DEF Awaited
  <2>2. Abstract!Hear({Head(Awaited)}, what)
    <3>1. \A i \in Requests : op'[i].ans = IF i \in {Head(Awaited)} THEN what ELSE op[i].ans
      BY <1>3, <1>7, <2>1 DEF Requests
    <3> QED
      BY <1>3, <3>1, HeardOf
  <2>3. Abstract!Answer
    BY <1>6, <2>1, <2>2 DEF Abstract!Answer, Abstract!Answers
  <2> QED
    BY <1>5, <2>3 DEF InOrder, Abstract!Next
<1>8. CASE op[id].state # "live"
  <2>1. Awaited = Tail(Asked)
    BY <1>8 DEF Awaited
  <2>2. \A i \in Requests : op'[i].ans = op[i].ans
    BY <1>3, <1>8 DEF Requests
  <2>3. UNCHANGED Heard
    BY <1>3, <2>2 DEF Heard
  <2> QED
    BY <1>5, <1>6, <2>1, <2>3 DEF InOrder
<1> QED
  BY <1>7, <1>8

(* the oldest request is withdrawn and stays, *)
LEMMA OldestWithdrawn ==
    ASSUME Ownership, OnlyOldest, Asked # <<>>, Asked' = Asked,
           NEW id, id = Head(Asked), NEW p, p.type = op[id].type, op' = [op EXCEPT ![id] = p],
           p.state # "live",
           op[id].state = "live" => p.ans = "withdrawn",
           op[id].state # "live" => p.ans = op[id].ans
    PROVE  InOrder
<1>1. Asked \in Seq(DOMAIN op) /\ Distinct(Asked)
  BY AskedQueue
<1>2. /\ id \in DOMAIN op /\ id = Asked[1] /\ 1 \in DOMAIN Asked
      /\ RemoveFirst(Asked, id) = Tail(Asked) /\ id \in ToSet(Asked)
  BY <1>1, OldestFirst, PopHead
<1>3. /\ DOMAIN op' = DOMAIN op /\ Requests' = Requests
      /\ op'[id] = p /\ \A i \in DOMAIN op : i # id => op'[i] = op[i]
  BY <1>2, OneChanged
<1>4. OnlyOldest'
  <2>1. ASSUME NEW i \in DOMAIN Asked, i # 1 PROVE Asked[i] # id /\ Asked[i] \in DOMAIN op
    BY <1>1, <1>2, <2>1 DEF Distinct
  <2> QED
    BY <1>3, <2>1 DEF OnlyOldest
<1>5. Awaited' = Tail(Asked)
  BY <1>3 DEF Awaited
<1>6. CASE op[id].state = "live"
  <2>1. Awaited = Asked
    BY <1>6 DEF Awaited
  <2>2. Abstract!Hear({id}, "withdrawn")
    <3>1. \A i \in Requests : op'[i].ans = IF i \in {id} THEN "withdrawn" ELSE op[i].ans
      BY <1>3, <1>6 DEF Requests
    <3> QED
      BY <1>3, <3>1, HeardOf
  <2>3. Abstract!Next
    BY <1>1, <1>2, <1>5, <2>1, <2>2, Withdrawal
  <2> QED
    BY <1>4, <2>3 DEF InOrder
<1>7. CASE op[id].state # "live"
  <2>1. Awaited = Tail(Asked)
    BY <1>7 DEF Awaited
  <2>2. \A i \in Requests : op'[i].ans = op[i].ans
    BY <1>3, <1>7 DEF Requests
  <2>3. UNCHANGED Heard
    BY <1>3, <2>2 DEF Heard
  <2> QED
    BY <1>4, <1>5, <2>1, <2>3 DEF InOrder
<1> QED
  BY <1>6, <1>7

(* one that waits is withdrawn and removed, *)
LEMMA OneRemoved ==
    ASSUME Ownership, OnlyOldest, NEW id \in ToSet(Asked), Asked' = RemoveFirst(Asked, id),
           NEW p, p.type = op[id].type, op' = [op EXCEPT ![id] = p],
           op[id].state = "live" => p.ans = "withdrawn",
           op[id].state # "live" => p.ans = op[id].ans
    PROVE  InOrder
<1>1. /\ Asked \in Seq(DOMAIN op) /\ Distinct(Asked) /\ id \in Requests
      /\ Awaited \in Seq(DOMAIN op) /\ Distinct(Awaited)
      /\ ToSet(Awaited) = {i \in ToSet(Asked) : op[i].state = "live"}
  BY AskedQueue, AwaitedQueue
<1>2. id \in DOMAIN op /\ Asked # <<>>
  BY <1>1 DEF ToSet, Requests
<1>3. /\ DOMAIN op' = DOMAIN op /\ Requests' = Requests
      /\ op'[id] = p /\ \A i \in DOMAIN op : i # id => op'[i] = op[i]
  BY <1>2, OneChanged
<1> PICK h : h = Head(Asked)
  OBVIOUS
<1> PICK t : t = Tail(Asked)
  OBVIOUS
<1>4. /\ h \in DOMAIN op /\ h = Asked[1] /\ t \in Seq(DOMAIN op) /\ Distinct(t)
      /\ h \notin ToSet(t) /\ Asked = <<h>> \o t /\ RemoveFirst(Asked, h) = t
      /\ ToSet(t) = ToSet(Asked) \ {h}
      /\ \A i \in DOMAIN t : i + 1 \in DOMAIN Asked /\ i + 1 # 1 /\ t[i] = Asked[i + 1]
  BY <1>1, <1>2, OldestFirst, PopHead
<1>5. \A i \in ToSet(t) : op[i].state = "live"
  <2>1. ASSUME NEW i \in DOMAIN t PROVE op[t[i]].state = "live"
    BY <1>4 DEF OnlyOldest
  <2> QED
    BY <2>1 DEF ToSet
<1>6. CASE id = h
  <2>1. CASE op[id].state # "live"
    BY <1>2, <1>4, <1>6, <2>1, OldestEnds
  <2>2. CASE op[id].state = "live"
    <3>1. Asked' = t /\ Awaited = Asked
      BY <1>4, <1>6, <2>2 DEF Awaited
    <3>2. \A i \in DOMAIN t : op'[t[i]].state = "live"
      <4>1. \A i \in DOMAIN t : t[i] \in ToSet(t) /\ t[i] \in DOMAIN op
        BY <1>4 DEF ToSet
      <4> QED
        BY <1>3, <1>4, <1>5, <1>6, <4>1
    <3>3. OnlyOldest'
      BY <3>1, <3>2 DEF OnlyOldest
    <3>4. Awaited' = t
      <4>1. t # <<>> => 1 \in DOMAIN t /\ Head(t) = t[1]
        BY <1>4
      <4> QED
        BY <3>1, <3>2, <4>1 DEF Awaited
    <3>5. Abstract!Hear({id}, "withdrawn")
      <4>1. \A i \in Requests : op'[i].ans = IF i \in {id} THEN "withdrawn" ELSE op[i].ans
        BY <1>3, <2>2 DEF Requests
      <4> QED
        BY <1>3, <4>1, HeardOf
    <3>6. Abstract!Next
      BY <1>1, <1>4, <1>6, <3>1, <3>4, <3>5, Withdrawal
    <3> QED
      BY <3>3, <3>6 DEF InOrder
  <2> QED
    BY <2>1, <2>2
<1>7. CASE id # h
  <2> PICK r : r = RemoveFirst(t, id)
    OBVIOUS
  <2>0. t \in Seq(DOMAIN op) /\ Distinct(t) /\ h \in DOMAIN op /\ h \notin ToSet(t) /\ h # id
    BY <1>4, <1>7
  <2>1. r \in Seq(DOMAIN op) /\ ToSet(r) = ToSet(t) \ {id}
    BY <2>0, RemoveIf
  <2>2. Asked' = <<h>> \o r
    <3>1. RemoveFirst(<<h>> \o t, id) = <<h>> \o RemoveFirst(t, id)
      BY ONLY <2>0, RemoveBehind
    <3> QED
      BY <1>4, <3>1
  <2>3. op[id].state = "live" /\ id \in ToSet(t)
    BY <1>4, <1>5, <1>7
  <2>4. /\ Asked' # <<>> /\ Head(Asked') = h /\ Tail(Asked') = r /\ op'[h] = op[h]
        /\ \A i \in DOMAIN Asked' : i # 1 => i - 1 \in DOMAIN r /\ Asked'[i] = r[i - 1]
    <3>1. ASSUME NEW q, q = <<h>> \o r
          PROVE  /\ q # <<>> /\ Head(q) = h /\ Tail(q) = r
                 /\ \A i \in DOMAIN q : i # 1 => i - 1 \in DOMAIN r /\ q[i] = r[i - 1]
      BY ONLY <2>0, <2>1, <3>1
    <3>2. op'[h] = op[h]
      BY <1>3, <2>0
    <3> QED
      BY <2>2, <3>1, <3>2
  <2>5. \A i \in DOMAIN r : op'[r[i]].state = "live"
    <3>1. ASSUME NEW i \in DOMAIN r PROVE r[i] \in ToSet(t) /\ r[i] # id /\ r[i] \in DOMAIN op
      <4>1. r[i] \in ToSet(r)
        BY DEF ToSet
      <4> QED
        BY <2>1, <4>1
    <3> QED
      BY <1>3, <1>5, <3>1
  <2>6. OnlyOldest'
    BY <2>4, <2>5 DEF OnlyOldest
  <2>7. Awaited' = RemoveFirst(Awaited, id)
    <3>1. CASE op[h].state = "live"
      BY <1>2, <2>4, <3>1 DEF Awaited
    <3>2. CASE op[h].state # "live"
      BY <1>2, <2>4, <3>2 DEF Awaited
    <3> QED
      BY <3>1, <3>2
  <2>8. Abstract!Hear({id}, "withdrawn")
    <3>1. \A i \in Requests : op'[i].ans = IF i \in {id} THEN "withdrawn" ELSE op[i].ans
      BY <1>3, <2>3 DEF Requests
    <3> QED
      BY <1>3, <3>1, HeardOf
  <2>9. Abstract!Next
    BY <1>1, <2>3, <2>7, <2>8, Withdrawal
  <2> QED
    BY <2>6, <2>9 DEF InOrder
<1> QED
  BY <1>6, <1>7

(* all that are left end together. *)
LEMMA AllLeave ==
    ASSUME Ownership, OnlyOldest, reqQ' = <<>>, pendReq' = 0, DOMAIN op' = DOMAIN op,
           NEW what \in {"error", "withdrawn"},
           \A i \in DOMAIN op : op'[i].type = op[i].type,
           \A i \in Requests : op'[i].ans = IF i \in ToSet(Asked) /\ op[i].state = "live"
                                            THEN what ELSE op[i].ans
    PROVE  InOrder
<1>1. Asked' = <<>> /\ Awaited' = <<>> /\ OnlyOldest'
  BY DEF Asked, Awaited, OnlyOldest
<1>2. Requests' = Requests
  BY DEF Requests
<1>3. ToSet(Awaited) = {i \in ToSet(Asked) : op[i].state = "live"}
  BY AwaitedQueue
<1>4. \A i \in Requests : op'[i].ans = IF i \in ToSet(Awaited) THEN what ELSE op[i].ans
  BY <1>3
<1>5. Abstract!Hear(ToSet(Awaited), what)
  BY <1>2, <1>4, HeardOf
<1>6. ToSet(Awaited) = Abstract!ToSet(Awaited)
  BY DEF ToSet, Abstract!ToSet
<1>7. Abstract!Lost
  BY <1>1, <1>5, <1>6 DEF Abstract!Lost
<1> QED
  BY <1>1, <1>7 DEF InOrder, Abstract!Next
-----------------------------------------------------------------------------
(* Each action, as a step of AttRequests *)

(* What the owner of a request is told when it ends *)
LEMMA ToldOnce ==
    ASSUME NEW o, OpOK(o), o.type = "REQ"
    PROVE  /\ \A what \in {"own", "other", "error"} :
                 /\ Destroy(Tell(o, what)).type = o.type
                 /\ o.state = "live" => Destroy(Tell(o, what)).ans = what
                 /\ o.state # "live" => Destroy(Tell(o, what)).ans = o.ans
           /\ Destroy(Withdrawn(o)).type = o.type
           /\ o.state = "live" => Destroy(Withdrawn(o)).ans = "withdrawn"
           /\ o.state # "live" => Destroy(Withdrawn(o)).ans = o.ans
           /\ CancelOp(Withdrawn(o)).type = o.type /\ CancelOp(Withdrawn(o)).state # "live"
           /\ o.state = "live" => CancelOp(Withdrawn(o)).ans = "withdrawn"
           /\ o.state # "live" => CancelOp(Withdrawn(o)).ans = o.ans
<1>1. o \in Op
  BY DEF OpOK
<1>2. ASSUME NEW p \in Op
      PROVE  /\ Destroy(p).type = p.type /\ Destroy(p).ans = p.ans
             /\ CancelOp(p).type = p.type /\ CancelOp(p).ans = p.ans
             /\ CancelOp(p).state # "live"
  BY DEF Destroy, CancelOp, Op
<1>3. ASSUME NEW what \in {"own", "other", "error"}
      PROVE  /\ Tell(o, what) \in Op /\ Tell(o, what).type = o.type
             /\ o.state = "live" => Tell(o, what).ans = what
             /\ o.state # "live" => Tell(o, what).ans = o.ans
  BY <1>1 DEF Tell, Op, OpOK
<1>4. /\ Withdrawn(o) \in Op /\ Withdrawn(o).type = o.type
      /\ o.state = "live" => Withdrawn(o).ans = "withdrawn"
      /\ o.state # "live" => Withdrawn(o).ans = o.ans
  BY <1>1 DEF Withdrawn, Op
<1> QED
  BY <1>2, <1>3, <1>4

(* An operation of another type ends or is changed. *)
LEMMA OtherChanged ==
    ASSUME Ownership, OnlyOldest, NEW id \in DOMAIN op, op[id].type # "REQ",
           NEW p, p.type = op[id].type, op' = [op EXCEPT ![id] = p], Asked' = Asked
    PROVE  InOrder
<1>1. /\ DOMAIN op' = DOMAIN op /\ \A i \in DOMAIN op : i # id => op'[i] = op[i]
      /\ \A i \in DOMAIN op : op'[i].type = op[i].type
  BY OneChanged
<1>2. /\ \A i \in DOMAIN op : /\ i \in DOMAIN op' /\ op'[i].type = op[i].type
                              /\ op[i].type = "REQ" => op'[i] = op[i]
      /\ \A i \in DOMAIN op' : i \in DOMAIN op \/ op'[i].type # "REQ"
  BY <1>1
<1> QED
  BY <1>2, NoneTouched

LEMMA NoOpChanged == ASSUME Ownership, OnlyOldest, UNCHANGED op, Asked' = Asked PROVE InOrder
BY NoneTouched

(* bt_att_send(), bt_att_chan_send_rsp(): a request is the last one *)
LEMMA StartInOrder ==
    ASSUME Ownership, OnlyOldest, Len(op) < MaxOps,
           NEW type \in {"REQ", "IND", "CMD", "RSP"}, NEW opcode \in Opcodes \cup {"any"},
           op' = Append(op, NewOp(type, opcode)), pendReq' = pendReq,
           reqQ' = IF type = "REQ" THEN Append(reqQ, Len(op) + 1) ELSE reqQ
    PROVE  InOrder
<1> DEFINE id == Len(op) + 1
           o == NewOp(type, opcode)
<1>1. op \in Seq(Op) /\ Len(op) \in Nat
  BY DEF Ownership, OpsOK
<1>2. o.type = type /\ o.state = "live" /\ o.ans = "none"
  BY Starting
<1> HIDE DEF o
<1>3. /\ DOMAIN op' = DOMAIN op \cup {id} /\ id \notin DOMAIN op
      /\ op'[id] = o /\ \A i \in DOMAIN op : op'[i] = op[i]
  BY <1>1 DEF o
<1>4. id \in 1 .. MaxOps
  BY <1>1, AttAssumption
<1> HIDE DEF id
<1>5. CASE type = "REQ"
  <2>1. reqQ \in Seq(DOMAIN op) /\ (pendReq # 0 => pendReq \in DOMAIN op)
    BY DEF Ownership, QueuesOK
  <2>2. <<pendReq>> \o Append(reqQ, id) = Append(<<pendReq>> \o reqQ, id)
    BY <2>1
  <2>3. Asked' = Append(Asked, id)
    BY <1>5, <2>1, <2>2 DEF Asked, id
  <2> QED
    BY <1>2, <1>3, <1>4, <1>5, <2>3, OneAsked
<1>6. CASE type # "REQ"
  <2>1. Asked' = Asked
    BY <1>6 DEF Asked
  <2> QED
    BY <1>2, <1>3, <1>6, <2>1, NoneTouched
<1> QED
  BY <1>5, <1>6

(* bt_att_cancel() *)
LEMMA CancelInOrder ==
    ASSUME Ownership, OnlyOldest, NEW id \in DOMAIN op, Cancel(id) PROVE InOrder
<1>1. OpOK(op[id]) /\ id \in Waiting \cup Pending /\ pendReq' = pendReq
  BY DEF Ownership, OpsOK, Cancel
<1>2. reqQ \in Seq(DOMAIN op) /\ Distinct(reqQ)
  BY DEF Ownership, QueuesOK
<1>3. CASE id \in Pending
  <2> PICK p : p = CancelOp(Withdrawn(op[id]))
    OBVIOUS
  <2>1. op' = [op EXCEPT ![id] = p] /\ Asked' = Asked
    BY <1>1, <1>3 DEF Cancel, Asked
  <2>2. CASE op[id].type = "REQ"
    <3>1. id = pendReq /\ pendReq # 0
      BY <1>3, <2>2, OnePlace DEF Pending
    <3>2. Asked # <<>> /\ id = Head(Asked)
      BY <1>2, <3>1 DEF Asked
    <3>3. /\ p.type = op[id].type /\ p.state # "live"
          /\ op[id].state = "live" => p.ans = "withdrawn"
          /\ op[id].state # "live" => p.ans = op[id].ans
      BY <1>1, <2>2, ToldOnce
    <3> QED
      BY <2>1, <3>2, <3>3, OldestWithdrawn
  <2>3. CASE op[id].type # "REQ"
    <3>1. op[id].type \in {"REQ", "IND"} /\ op[id].state # "freed"
      BY <1>3 DEF Ownership, PlacesOK, Pending, HeldUntilFreed, Owned
    <3>2. p.type = op[id].type
      BY <1>1, <3>1, Cancelling
    <3> QED
      BY <2>1, <2>3, <3>2, OtherChanged
  <2> QED
    BY <2>2, <2>3
<1>4. CASE id \notin Pending
  <2> PICK p : p = Destroy(Withdrawn(op[id]))
    OBVIOUS
  <2>1. op' = [op EXCEPT ![id] = p] /\ reqQ' = RemoveFirst(reqQ, id)
    BY <1>4 DEF Cancel
  <2>2. id \in Waiting /\ id # 0 /\ id # pendReq
    BY <1>1, <1>4, OnePlace DEF Pending
  <2>3. Asked' = RemoveFirst(Asked, id)
    <3>1. CASE pendReq = 0
      BY <1>1, <2>1, <3>1 DEF Asked
    <3>2. CASE pendReq # 0
      <4>1. pendReq \in DOMAIN op /\ pendReq \notin ToSet(reqQ)
        BY <3>2 DEF Ownership, QueuesOK, PlacesOK
      <4>2. RemoveFirst(<<pendReq>> \o reqQ, id) = <<pendReq>> \o RemoveFirst(reqQ, id)
        BY ONLY <1>2, <2>2, <4>1, RemoveBehind
      <4> QED
        BY <1>1, <2>1, <3>2, <4>2 DEF Asked
    <3> QED
      BY <3>1, <3>2
  <2>4. CASE op[id].type = "REQ"
    <3>1. id \in ToSet(reqQ)
      BY <2>2, <2>4, OnePlace DEF Waiting
    <3>2. id \in ToSet(Asked)
      BY <3>1, AskedQueue
    <3>3. /\ p.type = op[id].type
          /\ op[id].state = "live" => p.ans = "withdrawn"
          /\ op[id].state # "live" => p.ans = op[id].ans
      BY <1>1, <2>4, ToldOnce
    <3> QED
      BY <2>1, <2>3, <3>2, <3>3, OneRemoved
  <2>5. CASE op[id].type # "REQ"
    <3>1. op[id].state # "freed"
      BY <2>2 DEF Ownership, HeldUntilFreed, Owned
    <3>2. p.type = op[id].type
      BY <1>1, <3>1, Ending DEF Over
    <3>3. id \notin ToSet(Asked) /\ Asked \in Seq(DOMAIN op) /\ Distinct(Asked)
      BY <2>5, AskedQueue DEF Requests
    <3>4. Asked' = Asked
      BY <2>3, <3>3, RemoveMatch
    <3> QED
      BY <2>1, <2>5, <3>2, <3>4, OtherChanged
  <2> QED
    BY <2>4, <2>5
<1> QED
  BY <1>3, <1>4

(* bt_att_unref() and disconnect_cb() *)
LEMMA ClearInOrder ==
    ASSUME Ownership, OnlyOldest, Cleared, NEW what \in {"error", "withdrawn"},
           DOMAIN op' = DOMAIN op,
           \A i \in DOMAIN op : i \in Owned =>
              /\ op'[i].type = op[i].type
              /\ op[i].type = "REQ" /\ op[i].state = "live" => op'[i].ans = what
              /\ op[i].type = "REQ" /\ op[i].state # "live" => op'[i].ans = op[i].ans,
           \A i \in DOMAIN op : i \notin Owned => op'[i] = op[i]
    PROVE  InOrder
<1>1. reqQ' = <<>> /\ pendReq' = 0
  BY DEF Cleared
<1>2. \A i \in DOMAIN op : op'[i].type = op[i].type
  OBVIOUS
<1>3. ASSUME NEW i \in Requests
      PROVE  op'[i].ans = IF i \in ToSet(Asked) /\ op[i].state = "live" THEN what ELSE op[i].ans
  <2>1. i \in DOMAIN op /\ op[i].type = "REQ" /\ i # 0
    BY OnePlace DEF Requests
  <2>2. i \in Owned <=> i \in ToSet(Asked)
    BY <2>1, OnePlace, AskedQueue DEF Owned, Waiting, Pending
  <2> QED
    BY <2>1, <2>2
<1> QED
  BY <1>1, <1>2, <1>3, AllLeave

LEMMA UnrefInOrder == ASSUME Ownership, OnlyOldest, Unref PROVE InOrder
<1>1. /\ Cleared /\ DOMAIN op' = DOMAIN op
      /\ \A i \in DOMAIN op : op'[i] = IF i \in Owned THEN Destroy(Withdrawn(op[i])) ELSE op[i]
  BY DEF Unref, Owned
<1>2. ASSUME NEW i \in DOMAIN op, i \in Owned
      PROVE  /\ op'[i].type = op[i].type
             /\ op[i].type = "REQ" /\ op[i].state = "live" => op'[i].ans = "withdrawn"
             /\ op[i].type = "REQ" /\ op[i].state # "live" => op'[i].ans = op[i].ans
  <2>1. OpOK(op[i]) /\ op[i].state # "freed" /\ op'[i] = Destroy(Withdrawn(op[i]))
    BY <1>1, <1>2 DEF Ownership, OpsOK, HeldUntilFreed
  <2>2. op'[i].type = op[i].type
    BY <2>1, Ending DEF Over
  <2> QED
    BY <2>1, <2>2, ToldOnce
<1> QED
  BY <1>1, <1>2, ClearInOrder

LEMMA DisconnectInOrder == ASSUME Ownership, OnlyOldest, Disconnect PROVE InOrder
<1>1. /\ Cleared /\ DOMAIN op' = DOMAIN op
      /\ \A i \in DOMAIN op : op'[i] = IF i \in Waiting \cup Pending THEN Discard(op[i])
                                       ELSE IF i \in ToSet(chanQ) THEN Destroy(op[i])
                                       ELSE op[i]
  BY DEF Disconnect
<1>2. ASSUME NEW i \in DOMAIN op, i \in Owned
      PROVE  /\ op'[i].type = op[i].type
             /\ op[i].type = "REQ" /\ op[i].state = "live" => op'[i].ans = "error"
             /\ op[i].type = "REQ" /\ op[i].state # "live" => op'[i].ans = op[i].ans
  <2>1. OpOK(op[i]) /\ op[i].state # "freed"
    BY <1>2 DEF Ownership, OpsOK, HeldUntilFreed
  <2>2. CASE i \in Waiting \cup Pending
    <3>1. op'[i] = Destroy(Tell(op[i], "error"))
      BY <1>1, <2>2 DEF Discard
    <3>2. op'[i].type = op[i].type
      BY <2>1, <3>1, Ending DEF Over
    <3> QED
      BY <2>1, <3>1, <3>2, ToldOnce
  <2>3. CASE i \notin Waiting \cup Pending
    <3>1. i \in ToSet(chanQ) /\ op[i].type \in {"CMD", "RSP"} /\ op'[i] = Destroy(op[i])
      BY <1>1, <1>2, <2>3 DEF Owned, Ownership, PlacesOK
    <3> QED
      BY <2>1, <3>1, Ending DEF Over
  <2> QED
    BY <2>2, <2>3
<1>3. ASSUME NEW i \in DOMAIN op, i \notin Owned PROVE op'[i] = op[i]
  BY <1>1, <1>3 DEF Owned
<1> QED
  BY <1>1, <1>2, <1>3, ClearInOrder

(* pick_next_send_op() picks the oldest request, if none is outstanding. *)
LEMMA PickedOldest ==
    ASSUME Ownership, NextQueue # "none", Pop(NextQueue),
           NEW id, id = Head(QueueOf(NextQueue))
    PROVE  /\ id \in DOMAIN op /\ OpOK(op[id]) /\ op[id].state # "freed"
           /\ op[id].type = "REQ" => /\ pendReq = 0 /\ reqQ # <<>>
                                     /\ id = Head(reqQ) /\ reqQ' = Tail(reqQ)
           /\ op[id].type # "REQ" => reqQ' = reqQ
<1>1. /\ reqQ \in Seq(DOMAIN op) /\ indQ \in Seq(DOMAIN op)
      /\ writeQ \in Seq(DOMAIN op) /\ chanQ \in Seq(DOMAIN op)
  BY DEF Ownership, QueuesOK
<1>2. id \in DOMAIN op /\ op[id].state # "freed"
  BY Popped
<1>3. OpOK(op[id])
  BY <1>2 DEF Ownership, OpsOK
<1>4. CASE NextQueue = "req"
  <2>1. pendReq = 0 /\ reqQ # <<>> /\ id = Head(reqQ) /\ reqQ' = Tail(reqQ)
    BY <1>4 DEF NextQueue, QueueOf, Pop
  <2>2. op[id].type = "REQ"
    BY <1>1, <2>1, PopHead DEF Ownership, PlacesOK
  <2> QED
    BY <1>2, <1>3, <2>1, <2>2
<1>5. CASE NextQueue # "req"
  <2>1. /\ reqQ' = reqQ
        /\ \/ chanQ # <<>> /\ id = Head(chanQ)
           \/ writeQ # <<>> /\ id = Head(writeQ)
           \/ indQ # <<>> /\ id = Head(indQ)
    BY <1>5 DEF NextQueue, QueueOf, Pop
  <2>2. id \in ToSet(chanQ) \/ id \in ToSet(writeQ) \/ id \in ToSet(indQ)
    BY <1>1, <2>1, PopHead
  <2>3. op[id].type # "REQ"
    BY <2>2 DEF Ownership, PlacesOK
  <2> QED
    BY <1>2, <1>3, <2>1, <2>3
<1> QED
  BY <1>4, <1>5

(* can_write_data() *)
LEMMA WriteNothingInOrder == ASSUME Ownership, OnlyOldest, WriteNothing PROVE InOrder
<1> PICK id : id = Head(QueueOf(NextQueue))
  OBVIOUS
<1> PICK p : p = Discard(op[id])
  OBVIOUS
<1>1. NextQueue # "none" /\ Pop(NextQueue) /\ op' = [op EXCEPT ![id] = p] /\ pendReq' = pendReq
  BY DEF WriteNothing
<1>2. /\ id \in DOMAIN op /\ OpOK(op[id]) /\ op[id].state # "freed"
      /\ op[id].type = "REQ" => /\ pendReq = 0 /\ reqQ # <<>>
                                /\ id = Head(reqQ) /\ reqQ' = Tail(reqQ)
      /\ op[id].type # "REQ" => reqQ' = reqQ
  BY <1>1, PickedOldest
<1>3. p.type = op[id].type
  BY <1>2, Ending DEF Over
<1>4. CASE op[id].type = "REQ"
  <2>1. Asked # <<>> /\ id = Head(Asked) /\ Asked' = Tail(Asked)
    BY <1>1, <1>2, <1>4 DEF Asked
  <2>2. /\ op[id].state = "live" => p.ans = "error"
        /\ op[id].state # "live" => p.ans = op[id].ans
    BY <1>2, <1>4, ToldOnce DEF Discard
  <2> QED
    BY <1>1, <1>3, <2>1, <2>2, OldestEnds
<1>5. CASE op[id].type # "REQ"
  <2>1. Asked' = Asked
    BY <1>1, <1>2, <1>5 DEF Asked
  <2> QED
    BY <1>1, <1>2, <1>3, <1>5, <2>1, OtherChanged
<1> QED
  BY <1>4, <1>5

LEMMA WriteInOrder ==
    ASSUME Ownership, OnlyOldest, NEW sent, Write(sent) PROVE InOrder
<1> PICK id : id = Head(QueueOf(NextQueue))
  OBVIOUS
<1>1. /\ NextQueue # "none" /\ Pop(NextQueue)
      /\ pendReq' = IF op[id].type = "REQ" THEN id ELSE pendReq
      /\ op' = IF op[id].type \in {"REQ", "IND"} THEN op
               ELSE [op EXCEPT ![id] = Destroy(op[id])]
  BY DEF Write
<1>2. /\ id \in DOMAIN op /\ OpOK(op[id]) /\ op[id].state # "freed"
      /\ op[id].type = "REQ" => /\ pendReq = 0 /\ reqQ # <<>>
                                /\ id = Head(reqQ) /\ reqQ' = Tail(reqQ)
      /\ op[id].type # "REQ" => reqQ' = reqQ
  BY <1>1, PickedOldest
<1>3. Asked' = Asked
  <2>1. CASE op[id].type = "REQ"
    <3>1. reqQ \in Seq(DOMAIN op) /\ Distinct(reqQ) /\ id # 0
      BY <1>2, OnePlace DEF Ownership, QueuesOK
    <3>2. reqQ = <<Head(reqQ)>> \o Tail(reqQ)
      BY <1>2, <2>1, <3>1, OldestFirst
    <3> QED
      BY <1>1, <1>2, <2>1, <3>1, <3>2 DEF Asked
  <2>2. CASE op[id].type # "REQ"
    BY <1>1, <1>2, <2>2 DEF Asked
  <2> QED
    BY <2>1, <2>2
<1>4. CASE op[id].type \in {"REQ", "IND"}
  BY <1>1, <1>3, <1>4, NoOpChanged
<1>5. CASE op[id].type \notin {"REQ", "IND"}
  <2> PICK p : p = Destroy(op[id])
    OBVIOUS
  <2>1. p.type = op[id].type
    BY <1>2, <1>5, Ending DEF Over
  <2> QED
    BY <1>1, <1>2, <1>3, <1>5, <2>1, OtherChanged
<1> QED
  BY <1>4, <1>5

(* The outstanding operation ends. *)
LEMMA OutstandingInOrder ==
    ASSUME Ownership, OnlyOldest, NEW id \in Pending, NEW what \in {"own", "other", "error"},
           op' = [op EXCEPT ![id] = Destroy(Tell(op[id], what))], reqQ' = reqQ,
           pendReq' = IF pendReq = id THEN 0 ELSE pendReq
    PROVE  InOrder
<1>1. id \in DOMAIN op /\ OpOK(op[id]) /\ op[id].state # "freed"
  BY QueuesInOps DEF Ownership, OpsOK, HeldUntilFreed, Owned
<1> PICK p : p = Destroy(Tell(op[id], what))
  OBVIOUS
<1>2. op' = [op EXCEPT ![id] = p] /\ p.type = op[id].type
  BY <1>1, Ending DEF Over
<1>3. CASE op[id].type = "REQ"
  <2>1. id = pendReq /\ pendReq # 0
    BY <1>1, <1>3, OnePlace DEF Pending
  <2>2. reqQ \in Seq(DOMAIN op)
    BY DEF Ownership, QueuesOK
  <2>3. Asked # <<>> /\ id = Head(Asked) /\ Asked' = Tail(Asked)
    BY <2>1, <2>2 DEF Asked
  <2>4. /\ op[id].state = "live" => p.ans = what
        /\ op[id].state # "live" => p.ans = op[id].ans
    BY <1>1, <1>3, ToldOnce
  <2>5. what \in {"own", "other", "error"} /\ Ownership /\ OnlyOldest
    OBVIOUS
  <2> QED
    BY ONLY <1>2, <2>3, <2>4, <2>5, OldestEnds
<1>4. CASE op[id].type # "REQ"
  <2>1. id # pendReq
    BY <1>1, <1>4 DEF Ownership, PlacesOK, Pending
  <2>2. Asked' = Asked
    BY <2>1 DEF Asked
  <2> QED
    BY <1>1, <1>2, <1>4, <2>2, OtherChanged
<1> QED
  BY <1>3, <1>4

(* timeout_cb() *)
LEMMA TimeoutInOrder ==
    ASSUME Ownership, OnlyOldest, NEW id \in Pending, Timeout(id) PROVE InOrder
<1>1. /\ op' = [op EXCEPT ![id] = Destroy(Tell(op[id], "error"))] /\ reqQ' = reqQ
      /\ pendReq' = IF pendReq = id THEN 0 ELSE pendReq
  BY DEF Timeout, Discard
<1> QED
  BY <1>1, OutstandingInOrder

(* handle_rsp() *)
LEMMA HandleRspInOrder ==
    ASSUME Ownership, OnlyOldest, NEW to, NEW opcode, NEW kind, HandleRsp(to, opcode, kind)
    PROVE  InOrder
<1>1. CASE pendReq = 0
  <2>1. UNCHANGED <<op, reqQ, pendReq>>
    BY <1>1 DEF HandleRsp, ops
  <2>2. Asked' = Asked
    BY <2>1 DEF Asked
  <2> QED
    BY <2>1, <2>2, NoOpChanged
<1>2. CASE pendReq # 0
  <2> PICK what \in {"own", "other", "error"} :
         what = IF opcode # op[pendReq].opcode THEN "error"
                ELSE IF to = pendReq THEN "own" ELSE "other"
    OBVIOUS
  <2>1. Retry(kind) \/ Finish(what)
    BY <1>2 DEF HandleRsp
  <2>2. CASE Retry(kind)
    <3>1. UNCHANGED op /\ Asked' = Asked
      BY <1>2, <2>2 DEF Retry, Asked
    <3> QED
      BY <3>1, NoOpChanged
  <2>3. CASE Finish(what)
    <3>1. pendReq \in Pending
      BY <1>2 DEF Pending
    <3>2. /\ op' = [op EXCEPT ![pendReq] = Destroy(Tell(op[pendReq], what))]
          /\ reqQ' = reqQ /\ pendReq' = 0
      BY <2>3 DEF Finish
    <3> QED
      BY <3>1, <3>2, OutstandingInOrder
  <2> QED
    BY <2>1, <2>2, <2>3
<1> QED
  BY <1>1, <1>2

(* handle_conf() *)
LEMMA HandleConfInOrder ==
    ASSUME Ownership, OnlyOldest, NEW to, NEW empty \in BOOLEAN, HandleConf(to, empty) PROVE InOrder
<1>1. CASE pendInd = 0 \/ ~empty
  <2>1. UNCHANGED <<op, reqQ, pendReq>>
    BY <1>1 DEF HandleConf, ops
  <2>2. Asked' = Asked
    BY <2>1 DEF Asked
  <2> QED
    BY <2>1, <2>2, NoOpChanged
<1>2. CASE pendInd # 0 /\ empty
  <2> PICK what \in {"own", "other", "error"} : what = IF to = pendInd THEN "own" ELSE "other"
    OBVIOUS
  <2>1. pendInd \in Pending /\ pendInd # pendReq
    <3>1. pendInd \in DOMAIN op /\ op[pendInd].type = "IND"
      BY <1>2 DEF Ownership, QueuesOK, PlacesOK
    <3> QED
      BY <1>2, <3>1, OnePlace DEF Pending
  <2>2. /\ op' = [op EXCEPT ![pendInd] = Destroy(Tell(op[pendInd], what))]
        /\ reqQ' = reqQ /\ pendReq' = IF pendReq = pendInd THEN 0 ELSE pendReq
    BY <1>2, <2>1 DEF HandleConf
  <2> QED
    BY <2>1, <2>2, OutstandingInOrder
<1> QED
  BY <1>1, <1>2

LEMMA OrderInit == ASSUME Init PROVE OnlyOldest /\ Abstract!Init
<1>1. Asked = <<>> /\ Requests = {}
  BY DEF Init, Asked, Requests
<1>2. Awaited = <<>>
  BY <1>1 DEF Awaited
<1>3. Heard = [id \in {} |-> "none"]
  BY <1>1 DEF Heard
<1> QED
  BY <1>1, <1>2, <1>3 DEF OnlyOldest, Abstract!Init, Heard

LEMMA OrderNext == ASSUME Inv, OnlyOldest, [Next]_vars PROVE InOrder
<1>0. Ownership
  BY DEF Inv, OwnInv
<1>1. ASSUME UNCHANGED <<op, reqQ, pendReq>> PROVE InOrder
  <2>1. UNCHANGED op /\ Asked' = Asked
    BY <1>1 DEF Asked
  <2> QED
    BY <1>0, <2>1, NoOpChanged
<1>2. CASE Local
  <2>1. ASSUME NEW opcode \in Opcodes, Send("REQ", opcode) PROVE InOrder
    BY <1>0, <2>1, StartInOrder DEF Send
  <2>2. ASSUME NEW type \in {"IND", "CMD"}, Send(type, "any") PROVE InOrder
    BY <1>0, <2>2, StartInOrder DEF Send
  <2>3. ASSUME Respond PROVE InOrder
    BY <1>0, <2>3, StartInOrder DEF Respond
  <2> QED
    BY <1>0, <1>2, <2>1, <2>2, <2>3, CancelInOrder, UnrefInOrder DEF Local
<1>3. CASE Writing
  <2>1. ASSUME WriterDone PROVE InOrder
    BY <1>1, <2>1 DEF WriterDone
  <2> QED
    BY <1>0, <1>3, <2>1, WriteNothingInOrder, WriteInOrder DEF Writing
<1>4. CASE Reading
  <2>1. ASSUME PeerAnswers PROVE InOrder
    BY <1>0, <2>1, HandleRspInOrder, HandleConfInOrder DEF PeerAnswers
  <2>2. ASSUME RogueAnswer PROVE InOrder
    BY <1>0, <2>2, HandleRspInOrder, HandleConfInOrder DEF RogueAnswer
  <2>3. ASSUME PeerRequest PROVE InOrder
    BY <1>1, <2>3 DEF PeerRequest, ops
  <2>4. ASSUME NEW request, NotSupported(request) PROVE InOrder
    BY <1>0, <2>4, StartInOrder DEF NotSupported
  <2>5. ASSUME PeerIndication PROVE InOrder
    BY <1>0, <2>5, StartInOrder DEF PeerIndication
  <2> QED
    BY <1>4, <2>1, <2>2, <2>3, <2>4, <2>5 DEF Reading
<1>5. CASE Timer
  BY <1>0, <1>5, TimeoutInOrder DEF Timer
<1>6. CASE LinkLost
  BY <1>1, <1>6 DEF LinkLost, ops
<1>7. CASE Disconnect
  BY <1>0, <1>7, DisconnectInOrder
<1>8. CASE UNCHANGED vars
  BY <1>1, <1>8 DEF vars
<1> QED
  BY <1>2, <1>3, <1>4, <1>5, <1>6, <1>7, <1>8 DEF Next

(* The bearer implements AttRequests: whatever retries, timers,            *)
(* cancellations and other traffic there are, whoever makes requests       *)
(* hears of them in the order of bt_att_send(), and of each one once.      *)
(* Every step of att.c is one of the abstract queue's or leaves what is    *)
(* awaited and what was heard alone.                                       *)
THEOREM AttRequestsInOrder == Spec => RequestsInOrder
<1>1. Init => OnlyOldest /\ Abstract!Init
  BY OrderInit
<1>2. Inv /\ OnlyOldest /\ [Next]_vars => InOrder
  BY OrderNext
<1>3. InOrder => OnlyOldest' /\ [Abstract!Next]_(Abstract!vars)
  BY DEF InOrder, Abstract!vars, Heard
<1> QED
  BY <1>1, <1>2, <1>3, InvHolds, PTL DEF Spec, RequestsInOrder, Abstract!Spec
=============================================================================
