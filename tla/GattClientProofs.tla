-------------------------- MODULE GattClientProofs --------------------------
(***************************************************************************)
(* The GATT client: registrations and requests are told once, the CCC is   *)
(* written by one request at a time, and a long write that succeeds is     *)
(* whole.                                                                  *)
(***************************************************************************)
EXTENDS GattClient, FiniteSetTheorems, TLAPS

Distinct(q) == \A i, j \in DOMAIN q : q[i] = q[j] => i = j
-----------------------------------------------------------------------------
(* The state *)

Message == [pdu : {"ccc", "prep", "exec", "read"}, who : Nat,
            arg : BOOLEAN \cup Int,
            cb : {"enable", "disable", "prepare", "prep", "execute", "exec",
                  "cancel long", "cancel prep", "readlong", "simple"},
            live : BOOLEAN]

Registration ==
    [listed : BOOLEAN, att : BOOLEAN, told : {"none", "ok", "error", "refused"},
     guess : BOOLEAN]

Operation ==
    [kind : {"long", "session", "readlong", "simple"}, reliable : BOOLEAN,
     sent : BOOLEAN, idx : Nat, success : BOOLEAN, removed : BOOLEAN,
     told : {"none", "ok", "fail", "withdrawn"}, wrote : Seq(Nat \X Int),
     len : Nat]

Client ==
    [open : BOOLEAN, wire : Seq(Message),
     hasCcc : BOOLEAN, can : BOOLEAN, reg : Seq(Registration), count : Nat,
     writing : BOOLEAN, regQ : Seq(Nat),
     op : Seq(Operation), inLong : BOOLEAN, longQ : Seq(Nat), session : Nat,
     crashed : BOOLEAN, leak : BOOLEAN, stuck : BOOLEAN,
     overlap : BOOLEAN, mixed : BOOLEAN]

(* the writes of the CCC in the queue of att.c, and the other requests *)
Ccc(w) == {i \in DOMAIN w : w[i].pdu = "ccc"}
Rest(w) == {i \in DOMAIN w : w[i].pdu # "ccc"}
-----------------------------------------------------------------------------
(* Registrations *)

Listed(t) == {r \in DOMAIN t.reg : t.reg[r].listed}

(* a write of the CCC is for a registration: one that enables, and has its *)
(* callback, for one that is listed and waits for it                       *)
CccEntry(t, w) ==
    /\ w.who \in DOMAIN t.reg
    /\ w.arg \in BOOLEAN /\ w.cb = IF w.arg THEN "enable" ELSE "disable"
    /\ w.arg /\ w.live => /\ t.reg[w.who].listed /\ t.reg[w.who].att
                          /\ t.reg[w.who].told = "none"
                          /\ w.who \notin ToSet(t.regQ)
    /\ ~w.arg => ~t.reg[w.who].listed
    /\ ~w.live => t.stuck

RegQueued(t) ==
    /\ Distinct(t.regQ)
    /\ \A r \in ToSet(t.regQ) :
          /\ r \in DOMAIN t.reg /\ t.reg[r].listed /\ t.reg[r].told = "none"
          /\ ~t.reg[r].att

RegWaits(t) ==
    /\ RegQueued(t)
    /\ \A i \in Ccc(t.wire) : CccEntry(t, t.wire[i])
    /\ \A i, k \in Ccc(t.wire) :
          /\ t.wire[i].arg /\ t.wire[i].live
          /\ t.wire[k].arg /\ t.wire[k].live
          /\ t.wire[i].who = t.wire[k].who
          => i = k

(* notify_count *)
Counted(t) ==
    /\ t.count >= Cardinality(Listed(t))
    /\ t.count <= Len(t.reg) /\ Len(t.reg) <= MaxCalls
    /\ t.reg = <<>> => t.hasCcc

(* ccc_write_id *)
OneWrite(t) ==
    ~t.stuck /\ ~t.overlap =>
        /\ ~t.crashed
        /\ t.writing <=> Ccc(t.wire) # {}
        /\ \A i, k \in Ccc(t.wire) : i = k

Plain(t) == t.open /\ t.hasCcc /\ ~t.leak /\ ~t.stuck /\ ~t.overlap

(* the CCC is set, or is to be set, for all that are listed *)
Enabled(t, on) ==
    Plain(t) =>
        /\ t.reg # <<>> => t.can
        /\ t.count = Cardinality(Listed(t))
        /\ ~t.writing /\ t.count # 0 => on
        /\ t.writing => \A r \in Listed(t) :
              /\ t.reg[r].told # "ok"
              /\ \/ r \in ToSet(t.regQ)
                 \/ \E i \in Ccc(t.wire) : t.wire[i].arg /\ t.wire[i].who = r

(* a count that is off is too high: the CCC is never disabled again, so    *)
(* that it stays set for all who know                                      *)
Off(t) == t.open /\ t.hasCcc /\ ~t.overlap /\ (t.leak \/ t.stuck)

Knows(t, r) == t.reg[r].told = "ok" /\ ~t.reg[r].guess

Lasting(t, on) ==
    Off(t) =>
        /\ t.count > Cardinality(Listed(t))
        /\ \A i \in Ccc(t.wire) : t.wire[i].arg
        /\ \A r \in Listed(t) : Knows(t, r) => on

RegInv(t, on) ==
    RegWaits(t) /\ Counted(t) /\ OneWrite(t) /\ Enabled(t, on) /\ Lasting(t, on)
-----------------------------------------------------------------------------
(* Requests *)

Kind(cb) ==
    CASE cb \in {"prepare", "execute", "cancel long"} -> "long"
      [] cb \in {"prep", "exec", "cancel prep"} -> "session"
      [] OTHER -> cb
Pdu(cb) ==
    CASE cb \in {"prepare", "prep"} -> "prep"
      [] cb \in {"execute", "exec", "cancel long", "cancel prep"} -> "exec"
      [] OTHER -> "read"

(* the requests whose answer is the result of an operation, or its next    *)
(* step; and those that end a session                                      *)
Steps(w) == w.live /\ w.cb \in {"prepare", "execute", "readlong", "simple"}
Ends(w) == w.cb \in {"exec", "cancel prep"}

OpEntry(t, w) ==
    /\ w.who \in DOMAIN t.op
    /\ w.cb \notin {"enable", "disable"}
    /\ t.op[w.who].kind = Kind(w.cb) /\ w.pdu = Pdu(w.cb)
    /\ w.pdu # "read" => w.live
    /\ w.arg \in Int
    /\ Steps(w) => /\ t.op[w.who].told = "none" /\ w.who \notin ToSet(t.longQ)
                   /\ w.pdu # "read" => t.op[w.who].sent
    /\ Ends(w) => w.who = t.session /\ t.op[w.who].removed = (w.cb = "cancel prep")
    /\ w.cb = "readlong" /\ w.live =>
          /\ w.arg = t.op[w.who].idx
          /\ w.arg <= t.op[w.who].len /\ w.arg < MaxValueLen

OpQueued(t) ==
    /\ Distinct(t.longQ)
    /\ \A j \in ToSet(t.longQ) :
          /\ j \in DOMAIN t.op /\ t.op[j].told = "none"
          /\ t.op[j].kind = "long" /\ t.op[j].idx = 1 /\ t.op[j].success

OpWaits(t) ==
    /\ OpQueued(t)
    /\ \A i \in Rest(t.wire) : OpEntry(t, t.wire[i])
    /\ \A i, k \in Rest(t.wire) :
          \/ Steps(t.wire[i]) /\ Steps(t.wire[k]) /\ t.wire[i].who = t.wire[k].who
          \/ Ends(t.wire[i]) /\ Ends(t.wire[k])
          => i = k
    /\ t.session # 0 => /\ t.session \in DOMAIN t.op
                        /\ t.op[t.session].kind = "session"
                        /\ t.op[t.session].removed \/ t.op[t.session].told = "none"
    /\ \A j \in DOMAIN t.op :
          t.op[j].kind = "session" /\ t.op[j].told = "none" /\ ~t.op[j].removed
             => j = t.session
    /\ Len(t.op) <= MaxCalls

(* chunks 1 to n of the long write j are in s *)
Placed(d, j, s, n) ==
    /\ Len(s) = n
    /\ \A i \in 1 .. n : s[i] = <<j, i>> \/ (~d.reliable /\ s[i] = <<j, -i>>)

(* what was told to be whole is *)
WholeOp(d, j, mixed) ==
    /\ d.kind = "readlong" =>
          d.idx = IF d.len < MaxValueLen THEN d.len ELSE MaxValueLen
    /\ d.kind = "long" /\ ~mixed => Placed(d, j, d.wrote, NChunks)
Whole(t) ==
    \A j \in DOMAIN t.op : t.op[j].told = "ok" => WholeOp(t.op[j], j, t.mixed)

Writes(w) == {i \in DOMAIN w : w[i].pdu \in {"prep", "exec"}}

LongEntry(t, w, prep) ==
    LET d == t.op[w.who]
    IN  /\ w.cb \in {"prepare", "execute"}
        /\ w.cb = "prepare" => /\ w.arg = d.idx /\ d.idx \in 1 .. NChunks
                               /\ Placed(d, w.who, prep, d.idx - 1)
        /\ w.cb = "execute" => /\ w.arg \in {0, 1}
                               /\ w.arg = 1 <=> d.success
                               /\ d.success => Placed(d, w.who, prep, NChunks)

(* one long write or one session at a time *)
InTurn(t, prep) ==
    t.open /\ ~t.mixed =>
        /\ \A i, k \in Writes(t.wire) : i = k
        /\ t.session # 0 => /\ ~t.inLong
                            /\ \A i \in Writes(t.wire) : t.wire[i].who = t.session
        /\ t.session = 0 /\ t.inLong =>
              /\ Writes(t.wire) # {}
              /\ \A i \in Writes(t.wire) : LongEntry(t, t.wire[i], prep)
        /\ t.session = 0 /\ ~t.inLong => Writes(t.wire) = {} /\ prep = <<>>

OpInv(t, prep) == OpWaits(t) /\ Whole(t) /\ InTurn(t, prep)

Inv ==
    /\ c \in Client
    /\ peer \in [ccc : BOOLEAN, prep : Seq(Nat \X Int)]
    /\ RegInv(c, peer.ccc)
    /\ OpInv(c, peer.prep)
-----------------------------------------------------------------------------
(* Queues *)

LEMMA PushTail ==
    ASSUME NEW S, NEW q \in Seq(S), NEW x \in S
    PROVE  /\ Append(q, x) \in Seq(S)
           /\ Len(q) \in Nat /\ DOMAIN q = 1 .. Len(q)
           /\ Len(Append(q, x)) = Len(q) + 1
           /\ DOMAIN Append(q, x) = 1 .. Len(q) + 1
           /\ DOMAIN Append(q, x) = DOMAIN q \cup {Len(q) + 1}
           /\ Len(q) + 1 \notin DOMAIN q
           /\ \A i \in DOMAIN q : Append(q, x)[i] = q[i]
           /\ Append(q, x)[Len(q) + 1] = x
           /\ ToSet(Append(q, x)) = ToSet(q) \cup {x}
           /\ Distinct(q) /\ x \notin ToSet(q) => Distinct(Append(q, x))
<1>1. /\ Append(q, x) \in Seq(S) /\ Len(q) \in Nat
      /\ DOMAIN q = 1 .. Len(q)
      /\ DOMAIN Append(q, x) = 1 .. Len(q) + 1
      /\ Len(Append(q, x)) = Len(q) + 1
      /\ \A i \in DOMAIN q : Append(q, x)[i] = q[i]
      /\ Append(q, x)[Len(q) + 1] = x
  OBVIOUS
<1>2. ToSet(Append(q, x)) = ToSet(q) \cup {x}
  BY <1>1 DEF ToSet
<1>3. ASSUME Distinct(q), x \notin ToSet(q) PROVE Distinct(Append(q, x))
  BY <1>1, <1>3 DEF Distinct, ToSet
<1>4. 1 .. Len(q) + 1 = 1 .. Len(q) \cup {Len(q) + 1} /\ Len(q) + 1 \notin 1 .. Len(q)
  BY <1>1
<1> QED
  BY <1>1, <1>2, <1>3, <1>4

LEMMA PushHead ==
    ASSUME NEW S, NEW q \in Seq(S), NEW x \in S
    PROVE  /\ <<x>> \o q \in Seq(S)
           /\ ToSet(<<x>> \o q) = ToSet(q) \cup {x}
           /\ Distinct(q) /\ x \notin ToSet(q) => Distinct(<<x>> \o q)
<1> DEFINE r == <<x>> \o q
<1>1. /\ r \in Seq(S) /\ Len(q) \in Nat
      /\ DOMAIN q = 1 .. Len(q)
      /\ DOMAIN r = 1 .. Len(q) + 1
      /\ r[1] = x
      /\ \A i \in DOMAIN r : i # 1 => i - 1 \in DOMAIN q /\ r[i] = q[i - 1]
      /\ \A i \in DOMAIN q : i + 1 \in DOMAIN r /\ r[i + 1] = q[i]
  OBVIOUS
<1> HIDE DEF r
<1>2. ToSet(r) = ToSet(q) \cup {x}
  <2>1. \A y \in ToSet(r) : y \in ToSet(q) \cup {x}
    BY <1>1 DEF ToSet
  <2>2. \A y \in ToSet(q) : y \in ToSet(r)
    BY <1>1 DEF ToSet
  <2>3. x \in ToSet(r)
    BY <1>1 DEF ToSet
  <2> QED
    BY <2>1, <2>2, <2>3
<1>3. ASSUME Distinct(q), x \notin ToSet(q) PROVE Distinct(r)
  <2> SUFFICES ASSUME NEW i \in DOMAIN r, NEW j \in DOMAIN r, r[i] = r[j] PROVE i = j
    BY DEF Distinct
  <2>1. CASE i # 1 /\ j # 1
    <3>1. i - 1 = j - 1
      BY <1>1, <1>3, <2>1 DEF Distinct
    <3> QED
      BY <1>1, <3>1
  <2>2. CASE i = 1 \/ j = 1
    BY <1>1, <1>3, <2>2 DEF ToSet
  <2> QED
    BY <2>1, <2>2
<1> QED
  BY <1>1, <1>2, <1>3 DEF r

LEMMA PopHead ==
    ASSUME NEW S, NEW q \in Seq(S), q # <<>>
    PROVE  /\ Head(q) \in ToSet(q) /\ Head(q) \in S
           /\ Tail(q) \in Seq(S)
           /\ Distinct(q) => /\ Distinct(Tail(q))
                             /\ ToSet(Tail(q)) = ToSet(q) \ {Head(q)}
<1> DEFINE r == Tail(q)
<1>1. /\ r \in Seq(S) /\ Len(q) \in Nat /\ Len(q) > 0
      /\ DOMAIN q = 1 .. Len(q) /\ DOMAIN r = 1 .. Len(q) - 1
      /\ Head(q) = q[1] /\ 1 \in DOMAIN q /\ q[1] \in S
      /\ \A i \in DOMAIN r : i + 1 \in DOMAIN q /\ r[i] = q[i + 1]
      /\ \A i \in DOMAIN q : i # 1 => i - 1 \in DOMAIN r /\ r[i - 1] = q[i]
  OBVIOUS
<1> HIDE DEF r
<1>2. Head(q) \in ToSet(q)
  BY <1>1 DEF ToSet
<1>3. ASSUME Distinct(q) PROVE Distinct(r) /\ ToSet(r) = ToSet(q) \ {Head(q)}
  <2>1. Distinct(r)
    <3> SUFFICES ASSUME NEW i \in DOMAIN r, NEW j \in DOMAIN r, r[i] = r[j] PROVE i = j
      BY DEF Distinct
    <3>1. PICK k \in DOMAIN q, l \in DOMAIN q :
             k = i + 1 /\ l = j + 1 /\ q[k] = r[i] /\ q[l] = r[j]
      <4>1. /\ i + 1 \in DOMAIN q /\ r[i] = q[i + 1]
            /\ j + 1 \in DOMAIN q /\ r[j] = q[j + 1]
        BY <1>1
      <4> QED
        BY <4>1
    <3>2. k = l
      BY <1>3, <3>1 DEF Distinct
    <3>3. i \in Int /\ j \in Int
      BY <1>1
    <3> QED
      BY <3>1, <3>2, <3>3
  <2>2. \A y \in ToSet(r) : y \in ToSet(q) /\ y # Head(q)
    <3> SUFFICES ASSUME NEW i \in DOMAIN r PROVE r[i] \in ToSet(q) /\ r[i] # Head(q)
      BY DEF ToSet
    <3>1. /\ i + 1 \in DOMAIN q /\ r[i] = q[i + 1] /\ i + 1 # 1
          /\ 1 \in DOMAIN q /\ Head(q) = q[1]
      BY <1>1
    <3>2. r[i] # Head(q)
      BY <1>3, <3>1 DEF Distinct
    <3> QED
      BY <3>1, <3>2 DEF ToSet
  <2>3. \A y \in ToSet(q) : y # Head(q) => y \in ToSet(r)
    BY <1>1 DEF ToSet
  <2> QED
    BY <2>1, <2>2, <2>3
<1> QED
  BY <1>1, <1>2, <1>3 DEF r

(* The entries that are left when the one at i is taken out *)
LEMMA TakeOutEntries ==
    ASSUME NEW S, NEW q \in Seq(S), NEW i \in DOMAIN q
    PROVE  LET r == RemoveAt(q, i)
           IN  /\ r \in Seq(S) /\ Len(r) = Len(q) - 1 /\ DOMAIN r = 1 .. Len(q) - 1
               /\ \A k \in DOMAIN r : r[k] = IF k < i THEN q[k] ELSE q[k + 1]
<1> DEFINE r == RemoveAt(q, i)
           a == SubSeq(q, 1, i - 1)
           b == SubSeq(q, i + 1, Len(q))
<1>0. Len(q) \in Nat /\ DOMAIN q = 1 .. Len(q) /\ i \in 1 .. Len(q)
  OBVIOUS
<1>1. a \in Seq(S) /\ Len(a) = i - 1 /\ \A k \in 1 .. i - 1 : a[k] = q[k]
  BY <1>0
<1>2. b \in Seq(S) /\ Len(b) = Len(q) - i /\ \A k \in 1 .. Len(q) - i : b[k] = q[i + k]
  BY <1>0
<1>3. r = a \o b
  BY DEF RemoveAt
<1> HIDE DEF r, a, b
<1>4. r \in Seq(S) /\ Len(r) = Len(q) - 1
  <2>1. a \in Seq(S) /\ b \in Seq(S)
    BY <1>1, <1>2
  <2>2. r \in Seq(S) /\ Len(r) = Len(a) + Len(b)
    BY <1>3, <2>1
  <2> QED
    BY <1>0, <1>1, <1>2, <2>2
<1>5. ASSUME NEW k \in 1 .. Len(q) - 1, k < i PROVE r[k] = q[k]
  BY <1>0, <1>1, <1>2, <1>3, <1>5
<1>6. ASSUME NEW k \in 1 .. Len(q) - 1, ~(k < i) PROVE r[k] = q[k + 1]
  <2>1. r[k] = b[k - (i - 1)]
    BY <1>0, <1>1, <1>2, <1>3, <1>6
  <2>2. k - (i - 1) \in 1 .. Len(q) - i /\ i + (k - (i - 1)) = k + 1
    BY <1>0, <1>6
  <2> QED
    BY <1>2, <2>1, <2>2
<1> QED
  BY <1>0, <1>4, <1>5, <1>6 DEF r

LEMMA TakeOut ==
    ASSUME NEW S, NEW q \in Seq(S), NEW i \in DOMAIN q
    PROVE  /\ RemoveAt(q, i) \in Seq(S)
           /\ ToSet(RemoveAt(q, i)) \subseteq ToSet(q)
           /\ Distinct(q) => /\ Distinct(RemoveAt(q, i))
                             /\ ToSet(RemoveAt(q, i)) = ToSet(q) \ {q[i]}
<1> DEFINE r == RemoveAt(q, i)
<1>0. Len(q) \in Nat /\ DOMAIN q = 1 .. Len(q) /\ i \in 1 .. Len(q)
  OBVIOUS
<1>4. /\ r \in Seq(S) /\ DOMAIN r = 1 .. Len(q) - 1
      /\ \A k \in DOMAIN r : r[k] = IF k < i THEN q[k] ELSE q[k + 1]
  BY TakeOutEntries
<1> HIDE DEF r
<1>5. ASSUME NEW y \in ToSet(r)
      PROVE  y \in ToSet(q) /\ (Distinct(q) => y # q[i])
  <2>1. PICK k \in DOMAIN r : y = r[k]
    BY <1>5 DEF ToSet
  <2>2. PICK j \in DOMAIN q : y = q[j] /\ j # i
    BY <1>0, <1>4, <2>1
  <2> QED
    BY <2>2 DEF ToSet, Distinct
<1>6. ASSUME NEW y \in ToSet(q), y # q[i] PROVE y \in ToSet(r)
  <2>1. PICK j \in DOMAIN q : y = q[j] /\ j # i
    BY <1>6 DEF ToSet
  <2>2. \E k \in DOMAIN r : y = r[k]
    <3>1. CASE j < i
      BY <1>0, <1>4, <2>1, <3>1
    <3>2. CASE j > i
      <4>1. j - 1 \in DOMAIN r /\ ~(j - 1 < i) /\ (j - 1) + 1 = j
        BY <1>0, <1>4, <3>2
      <4> QED
        BY <1>4, <2>1, <4>1
    <3> QED
      BY <1>0, <2>1, <3>1, <3>2
  <2> QED
    BY <2>2 DEF ToSet
<1>7. ASSUME Distinct(q) PROVE Distinct(r)
  <2> SUFFICES ASSUME NEW k \in DOMAIN r, NEW l \in DOMAIN r, r[k] = r[l] PROVE k = l
    BY DEF Distinct
  <2>1. PICK m \in DOMAIN q : r[k] = q[m] /\ m = IF k < i THEN k ELSE k + 1
    BY <1>0, <1>4
  <2>2. PICK n \in DOMAIN q : r[l] = q[n] /\ n = IF l < i THEN l ELSE l + 1
    BY <1>0, <1>4
  <2>3. m = n
    BY <1>7, <2>1, <2>2 DEF Distinct
  <2> QED
    BY <1>0, <1>4, <2>1, <2>2, <2>3
<1> QED
  BY <1>4, <1>5, <1>6, <1>7 DEF r

(* queue_remove_if() takes out the only entry that matches, if any. *)
LEMMA RemoveMatch ==
    ASSUME NEW S, NEW q \in Seq(S), NEW x, Distinct(q)
    PROVE  /\ \A i \in DOMAIN q : q[i] = x => RemoveFirst(q, x) = RemoveAt(q, i)
           /\ x \notin ToSet(q) => RemoveFirst(q, x) = q
<1>0. DOMAIN q = 1 .. Len(q) /\ Len(q) \in Nat
  OBVIOUS
<1>1. ASSUME NEW i \in DOMAIN q, q[i] = x PROVE RemoveFirst(q, x) = RemoveAt(q, i)
  <2>1. {j \in 1 .. Len(q) : q[j] = x} = {i}
    BY <1>0, <1>1 DEF Distinct
  <2>2. Min({i}) = i
    BY <1>0 DEF Min
  <2>3. SelectInSeq(q, LAMBDA v : v = x) = i
    BY <2>1, <2>2 DEF SelectInSeq
  <2> QED
    BY <1>0, <1>1, <2>3 DEF RemoveFirst
<1>2. ASSUME x \notin ToSet(q) PROVE RemoveFirst(q, x) = q
  BY <1>0, <1>2 DEF RemoveFirst, ToSet
<1> QED
  BY <1>1, <1>2

LEMMA RemoveIf ==
    ASSUME NEW S, NEW q \in Seq(S), NEW x, Distinct(q)
    PROVE  /\ RemoveFirst(q, x) \in Seq(S)
           /\ Distinct(RemoveFirst(q, x))
           /\ ToSet(RemoveFirst(q, x)) = ToSet(q) \ {x}
<1>1. CASE x \in ToSet(q)
  <2>1. PICK i \in DOMAIN q : q[i] = x
    BY <1>1 DEF ToSet
  <2>2. RemoveFirst(q, x) = RemoveAt(q, i)
    BY <2>1, RemoveMatch
  <2> QED
    BY <2>1, <2>2, TakeOut
<1>2. CASE x \notin ToSet(q)
  <2>1. RemoveFirst(q, x) = q
    BY <1>2, RemoveMatch
  <2> QED
    BY <1>2, <2>1
<1> QED
  BY <1>1, <1>2

(* A queue of which one entry is taken out: the entries of the new one are *)
(* in the old one, each at a place of its own.                             *)
Origin(i, k) == IF k < i THEN k ELSE k + 1
Without(a, i, b) ==
    /\ b \in Seq(Message) /\ i \in DOMAIN a
    /\ \A k \in DOMAIN b : Origin(i, k) \in DOMAIN a /\ b[k] = a[Origin(i, k)]
    /\ \A k, l \in DOMAIN b : Origin(i, k) = Origin(i, l) => k = l
    /\ \A k \in DOMAIN b : Origin(i, k) # i
    /\ \A m \in DOMAIN a : m # i => \E k \in DOMAIN b : Origin(i, k) = m

LEMMA WithoutAt ==
    ASSUME NEW a \in Seq(Message), NEW i \in DOMAIN a, NEW b \in Seq(Message),
           Len(b) = Len(a) - 1,
           \A k \in DOMAIN b : b[k] = a[Origin(i, k)]
    PROVE  Without(a, i, b)
<1>1. /\ Len(a) \in Nat /\ DOMAIN a = 1 .. Len(a) /\ i \in 1 .. Len(a)
      /\ DOMAIN b = 1 .. Len(a) - 1 /\ Len(b) \in Nat
  OBVIOUS
<1>2. \A k \in DOMAIN b : Origin(i, k) \in DOMAIN a /\ Origin(i, k) # i
  BY <1>1 DEF Origin
<1>3. \A k, l \in DOMAIN b : Origin(i, k) = Origin(i, l) => k = l
  BY <1>1 DEF Origin
<1>4. ASSUME NEW m \in DOMAIN a, m # i PROVE \E k \in DOMAIN b : Origin(i, k) = m
  <2>1. CASE m < i
    BY <1>1, <2>1 DEF Origin
  <2>2. CASE m > i
    <3>1. m - 1 \in DOMAIN b /\ Origin(i, m - 1) = m
      BY <1>1, <2>2 DEF Origin
    <3> QED
      BY <3>1
  <2> QED
    BY <1>1, <1>4, <2>1, <2>2
<1> QED
  BY <1>2, <1>3, <1>4 DEF Without

LEMMA PopWire ==
    ASSUME NEW a \in Seq(Message), a # <<>>
    PROVE  /\ Tail(a) \in Seq(Message) /\ Without(a, 1, Tail(a))
           /\ \A i \in DOMAIN a : Without(a, i, RemoveAt(a, i))
           /\ Head(a) = a[1] /\ 1 \in DOMAIN a
<1>1. /\ Tail(a) \in Seq(Message) /\ Len(Tail(a)) = Len(a) - 1 /\ Len(a) \in Nat
      /\ DOMAIN Tail(a) = 1 .. Len(a) - 1 /\ 1 \in DOMAIN a /\ Head(a) = a[1]
      /\ \A k \in DOMAIN Tail(a) : Tail(a)[k] = a[k + 1]
  OBVIOUS
<1>2. \A k \in DOMAIN Tail(a) : Origin(1, k) = k + 1
  BY <1>1 DEF Origin
<1>3. Without(a, 1, Tail(a))
  BY <1>1, <1>2, WithoutAt
<1>4. ASSUME NEW i \in DOMAIN a PROVE Without(a, i, RemoveAt(a, i))
  <2>1. PICK b : b = RemoveAt(a, i)
    OBVIOUS
  <2>2. /\ b \in Seq(Message) /\ Len(b) = Len(a) - 1 /\ DOMAIN b = 1 .. Len(a) - 1
        /\ \A k \in DOMAIN b : b[k] = IF k < i THEN a[k] ELSE a[k + 1]
    BY <2>1, TakeOutEntries
  <2>3. \A k \in DOMAIN b : b[k] = a[Origin(i, k)]
    BY <2>2 DEF Origin
  <2> QED
    BY <2>1, <2>2, <2>3, WithoutAt
<1> QED
  BY <1>1, <1>3, <1>4
-----------------------------------------------------------------------------
(* What only one half of the client does leaves the other half alone. *)

(* the entries Y of the queue b are the entries X of a *)
Same(a, b, X, Y) ==
    \E f \in [Y -> X] :
        /\ \A i \in Y : b[i] = a[f[i]]
        /\ \A i, k \in Y : f[i] = f[k] => i = k
        /\ \A m \in X : \E i \in Y : f[i] = m

LEMMA SameInPlace ==
    ASSUME NEW a, NEW b, NEW X, \A i \in X : b[i] = a[i]
    PROVE  Same(a, b, X, X)
<1> DEFINE f == [i \in X |-> i]
<1>1. f \in [X -> X] /\ \A i \in X : f[i] = i
  OBVIOUS
<1> QED
  BY <1>1 DEF Same

LEMMA SameSent ==
    ASSUME NEW a \in Seq(Message), NEW x \in Message
    PROVE  LET b == Append(a, x)
           IN  /\ x.pdu = "ccc" => Same(a, b, Rest(a), Rest(b))
               /\ x.pdu # "ccc" => Same(a, b, Ccc(a), Ccc(b))
<1> DEFINE b == Append(a, x)
<1>1. /\ DOMAIN b = DOMAIN a \cup {Len(a) + 1}
      /\ \A i \in DOMAIN a : b[i] = a[i]
      /\ b[Len(a) + 1] = x /\ Len(a) + 1 \notin DOMAIN a
  BY PushTail
<1> HIDE DEF b
<1>2. ASSUME x.pdu = "ccc" PROVE Same(a, b, Rest(a), Rest(b))
  <2>1. Rest(b) = Rest(a)
    BY <1>1, <1>2 DEF Rest
  <2>2. \A i \in Rest(a) : b[i] = a[i]
    BY <1>1 DEF Rest
  <2> QED
    BY <2>1, <2>2, SameInPlace
<1>3. ASSUME x.pdu # "ccc" PROVE Same(a, b, Ccc(a), Ccc(b))
  <2>1. Ccc(b) = Ccc(a)
    BY <1>1, <1>3 DEF Ccc
  <2>2. \A i \in Ccc(a) : b[i] = a[i]
    BY <1>1 DEF Ccc
  <2> QED
    BY <2>1, <2>2, SameInPlace
<1> QED
  BY <1>2, <1>3 DEF b

LEMMA SameWithout ==
    ASSUME NEW a, NEW b, NEW i, Without(a, i, b)
    PROVE  /\ a[i].pdu = "ccc" => Same(a, b, Rest(a), Rest(b))
           /\ a[i].pdu # "ccc" => Same(a, b, Ccc(a), Ccc(b))
<1>1. ASSUME a[i].pdu = "ccc" PROVE Same(a, b, Rest(a), Rest(b))
  <2> DEFINE f == [k \in Rest(b) |-> Origin(i, k)]
  <2>1. f \in [Rest(b) -> Rest(a)] /\ \A k \in Rest(b) : f[k] = Origin(i, k)
    BY DEF Rest, Without
  <2>2. \A k \in Rest(b) : b[k] = a[f[k]]
    BY <2>1 DEF Rest, Without
  <2>3. \A k, l \in Rest(b) : f[k] = f[l] => k = l
    BY <2>1 DEF Rest, Without
  <2>4. \A m \in Rest(a) : \E k \in Rest(b) : f[k] = m
    <3> SUFFICES ASSUME NEW m \in Rest(a) PROVE \E k \in Rest(b) : f[k] = m
      OBVIOUS
    <3>1. m \in DOMAIN a /\ m # i /\ a[m].pdu # "ccc"
      BY <1>1 DEF Rest
    <3>2. PICK k \in DOMAIN b : Origin(i, k) = m
      BY <3>1 DEF Without
    <3>3. k \in Rest(b)
      BY <3>1, <3>2 DEF Without, Rest
    <3> QED
      BY <2>1, <3>2, <3>3
  <2> QED
    BY <2>1, <2>2, <2>3, <2>4 DEF Same
<1>2. ASSUME a[i].pdu # "ccc" PROVE Same(a, b, Ccc(a), Ccc(b))
  <2> DEFINE f == [k \in Ccc(b) |-> Origin(i, k)]
  <2>1. f \in [Ccc(b) -> Ccc(a)] /\ \A k \in Ccc(b) : f[k] = Origin(i, k)
    BY DEF Ccc, Without
  <2>2. \A k \in Ccc(b) : b[k] = a[f[k]]
    BY <2>1 DEF Ccc, Without
  <2>3. \A k, l \in Ccc(b) : f[k] = f[l] => k = l
    BY <2>1 DEF Ccc, Without
  <2>4. \A m \in Ccc(a) : \E k \in Ccc(b) : f[k] = m
    <3> SUFFICES ASSUME NEW m \in Ccc(a) PROVE \E k \in Ccc(b) : f[k] = m
      OBVIOUS
    <3>1. m \in DOMAIN a /\ m # i /\ a[m].pdu = "ccc"
      BY <1>2 DEF Ccc
    <3>2. PICK k \in DOMAIN b : Origin(i, k) = m
      BY <3>1 DEF Without
    <3>3. k \in Ccc(b)
      BY <3>1, <3>2 DEF Without, Ccc
    <3> QED
      BY <2>1, <3>2, <3>3
  <2> QED
    BY <2>1, <2>2, <2>3, <2>4 DEF Same
<1> QED
  BY <1>1, <1>2

SameReg(t, u) ==
    /\ u.open = t.open /\ u.hasCcc = t.hasCcc /\ u.can = t.can
    /\ u.reg = t.reg /\ u.count = t.count
    /\ u.writing = t.writing /\ u.regQ = t.regQ /\ u.crashed = t.crashed
    /\ u.leak = t.leak /\ u.stuck = t.stuck /\ u.overlap = t.overlap

LEMMA RegFrame ==
    ASSUME NEW t, NEW u, NEW on, RegInv(t, on), SameReg(t, u),
           Same(t.wire, u.wire, Ccc(t.wire), Ccc(u.wire))
    PROVE  RegInv(u, on)
<1> DEFINE X == Ccc(t.wire)
           Y == Ccc(u.wire)
<1>1. PICK f \in [Y -> X] :
        /\ \A i \in Y : u.wire[i] = t.wire[f[i]]
        /\ \A i, k \in Y : f[i] = f[k] => i = k
        /\ \A m \in X : \E i \in Y : f[i] = m
  BY DEF Same
<1>2. \A i \in Y : f[i] \in X
  OBVIOUS
<1> HIDE DEF X, Y
<1>3. RegWaits(u)
  <2>1. RegQueued(u)
    BY DEF RegInv, RegWaits, RegQueued, SameReg
  <2>2. \A i \in Y : CccEntry(u, u.wire[i])
    <3>1. \A i \in X : CccEntry(t, t.wire[i])
      BY DEF RegInv, RegWaits, X
    <3>2. \A i \in Y : CccEntry(t, u.wire[i])
      BY <1>1, <1>2, <3>1
    <3> QED
      BY <3>2 DEF CccEntry, SameReg
  <2>3. ASSUME NEW i \in Y, NEW k \in Y,
               u.wire[i].arg, u.wire[i].live, u.wire[k].arg, u.wire[k].live,
               u.wire[i].who = u.wire[k].who
        PROVE  i = k
    <3>1. f[i] = f[k]
      BY <1>1, <1>2, <2>3 DEF RegInv, RegWaits, X
    <3> QED
      BY <1>1, <3>1
  <2> QED
    BY <2>1, <2>2, <2>3 DEF RegWaits, Y
<1>4. Counted(u) /\ Listed(u) = Listed(t)
  BY DEF RegInv, Counted, Listed, SameReg
<1>5. OneWrite(u)
  <2>1. Y # {} <=> X # {}
    BY <1>1, <1>2
  <2>2. (\A i, k \in X : i = k) => \A i, k \in Y : i = k
    BY <1>1, <1>2
  <2> QED
    BY <2>1, <2>2 DEF RegInv, OneWrite, SameReg, X, Y
<1>6. Enabled(u, on)
  <2>1. ASSUME NEW r, \E i \in X : t.wire[i].arg /\ t.wire[i].who = r
        PROVE  \E i \in Y : u.wire[i].arg /\ u.wire[i].who = r
    BY <1>1, <2>1
  <2>2. Plain(u) => Plain(t)
    BY DEF Plain, SameReg
  <2> QED
    BY <1>4, <2>1, <2>2 DEF RegInv, Enabled, SameReg, X, Y
<1>7. Lasting(u, on)
  <2>1. Off(u) => Off(t)
    BY DEF Off, SameReg
  <2>2. (\A i \in X : t.wire[i].arg) => \A i \in Y : u.wire[i].arg
    BY <1>1, <1>2
  <2> QED
    BY <1>4, <2>1, <2>2 DEF RegInv, Lasting, Knows, SameReg, X, Y
<1> QED
  BY <1>3, <1>4, <1>5, <1>6, <1>7 DEF RegInv

SameOp(t, u) ==
    /\ u.open = t.open /\ u.op = t.op /\ u.inLong = t.inLong /\ u.longQ = t.longQ
    /\ u.session = t.session /\ u.mixed = t.mixed

LEMMA OpFrame ==
    ASSUME NEW t, NEW u, NEW prep, OpInv(t, prep), SameOp(t, u),
           Same(t.wire, u.wire, Rest(t.wire), Rest(u.wire))
    PROVE  OpInv(u, prep)
<1> DEFINE X == Rest(t.wire)
           Y == Rest(u.wire)
           P == Writes(t.wire)
           Q == Writes(u.wire)
<1>1. PICK f \in [Y -> X] :
        /\ \A i \in Y : u.wire[i] = t.wire[f[i]]
        /\ \A i, k \in Y : f[i] = f[k] => i = k
        /\ \A m \in X : \E i \in Y : f[i] = m
  BY DEF Same
<1>2. \A i \in Y : f[i] \in X
  OBVIOUS
<1>3. /\ \A i \in Q : i \in Y /\ f[i] \in P
      /\ \A m \in P : \E i \in Q : f[i] = m
  <2>1. ASSUME NEW i \in Q PROVE i \in Y /\ f[i] \in P
    <3>1. i \in Y
      BY DEF Writes, Rest
    <3> QED
      BY <1>1, <1>2, <3>1 DEF Writes, Rest
  <2>2. ASSUME NEW m \in P PROVE \E i \in Q : f[i] = m
    <3>1. m \in X
      BY DEF Writes, Rest
    <3>2. PICK i \in Y : f[i] = m
      BY <1>1, <3>1
    <3> QED
      BY <1>1, <3>2 DEF Writes, Rest
  <2> QED
    BY <2>1, <2>2
<1> HIDE DEF X, Y, P, Q
<1>4. OpWaits(u)
  <2>1. OpQueued(u)
    BY DEF OpInv, OpWaits, OpQueued, SameOp
  <2>2. \A i \in Y : OpEntry(u, u.wire[i])
    <3>1. \A i \in X : OpEntry(t, t.wire[i])
      BY DEF OpInv, OpWaits, X
    <3>2. \A i \in Y : OpEntry(t, u.wire[i])
      BY <1>1, <1>2, <3>1
    <3>3. \A x : OpEntry(t, x) => OpEntry(u, x)
      BY DEF OpEntry, SameOp
    <3> QED
      BY <3>2, <3>3
  <2>3. ASSUME NEW i \in Y, NEW k \in Y,
               \/ Steps(u.wire[i]) /\ Steps(u.wire[k]) /\ u.wire[i].who = u.wire[k].who
               \/ Ends(u.wire[i]) /\ Ends(u.wire[k])
        PROVE  i = k
    <3>1. f[i] = f[k]
      BY <1>1, <1>2, <2>3 DEF OpInv, OpWaits, X
    <3> QED
      BY <1>1, <3>1
  <2> QED
    BY <2>1, <2>2, <2>3 DEF OpInv, OpWaits, SameOp, Y
<1>5. Whole(u)
  BY DEF OpInv, Whole, SameOp
<1>6. InTurn(u, prep)
  <2> SUFFICES ASSUME t.open, ~t.mixed PROVE InTurn(u, prep)
    BY DEF InTurn, SameOp
  <2>1. \A i, k \in Q : i = k
    BY <1>1, <1>3 DEF OpInv, InTurn, P
  <2>2. t.session # 0 => \A i \in Q : u.wire[i].who = t.session
    BY <1>1, <1>3 DEF OpInv, InTurn, P
  <2>3. t.session = 0 /\ t.inLong => Q # {}
    BY <1>3 DEF OpInv, InTurn, P
  <2>4. t.session = 0 /\ t.inLong => \A i \in Q : LongEntry(u, u.wire[i], prep)
    <3> SUFFICES ASSUME t.session = 0 /\ t.inLong, NEW i \in Q PROVE LongEntry(u, u.wire[i], prep)
      OBVIOUS
    <3>1. LongEntry(t, t.wire[f[i]], prep) /\ u.wire[i] = t.wire[f[i]]
      BY <1>1, <1>3 DEF OpInv, InTurn, P
    <3> QED
      BY <3>1 DEF LongEntry, SameOp
  <2>5. t.session = 0 /\ ~t.inLong => Q = {} /\ prep = <<>>
    BY <1>3 DEF OpInv, InTurn, P
  <2> QED
    BY <2>1, <2>2, <2>3, <2>4, <2>5 DEF OpInv, InTurn, SameOp, Q
<1> QED
  BY <1>4, <1>5, <1>6 DEF OpInv
-----------------------------------------------------------------------------
(* Registrations *)

CccMsg(r, e) ==
    [pdu |-> "ccc", who |-> r, arg |-> e, cb |-> IF e THEN "enable" ELSE "disable",
     live |-> TRUE]

LEMMA SetEntry ==
    ASSUME NEW S, NEW q \in Seq(S), NEW i \in DOMAIN q, NEW x \in S
    PROVE  LET u == [q EXCEPT ![i] = x]
           IN  /\ u \in Seq(S) /\ Len(u) = Len(q) /\ DOMAIN u = DOMAIN q
               /\ u[i] = x /\ \A k \in DOMAIN q : k # i => u[k] = q[k]
               /\ q # <<>> /\ u # <<>>
<1> DEFINE u == [q EXCEPT ![i] = x]
<1>1. Len(q) \in Nat /\ DOMAIN q = 1 .. Len(q) /\ q \in [1 .. Len(q) -> S]
  OBVIOUS
<1>2. /\ u \in [1 .. Len(q) -> S] /\ DOMAIN u = DOMAIN q
      /\ u[i] = x /\ \A k \in DOMAIN q : k # i => u[k] = q[k]
  BY <1>1
<1>3. u \in Seq(S) /\ Len(u) = Len(q)
  BY <1>1, <1>2
<1>4. q # <<>> /\ u # <<>>
  BY <1>1, <1>2
<1> QED
  BY <1>2, <1>3, <1>4

LEMMA AttSet ==
    ASSUME NEW x \in Registration, NEW v \in BOOLEAN
    PROVE  LET y == [x EXCEPT !.att = v]
           IN  /\ y \in Registration /\ y.att = v
               /\ y.listed = x.listed /\ y.told = x.told /\ y.guess = x.guess
BY DEF Registration

(* a registration of which only att_id may change *)
SameButAtt(t, u, r) ==
    /\ DOMAIN u.reg = DOMAIN t.reg /\ Len(u.reg) = Len(t.reg)
    /\ \A q \in DOMAIN t.reg : /\ u.reg[q].listed = t.reg[q].listed
                               /\ u.reg[q].told = t.reg[q].told
                               /\ u.reg[q].guess = t.reg[q].guess
                               /\ q # r => u.reg[q].att = t.reg[q].att
    /\ u.reg # <<>> /\ t.reg # <<>>

LEMMA WriteCccIs ==
    ASSUME NEW t \in Client, NEW r \in DOMAIN t.reg, NEW e \in BOOLEAN, t.open,
           e => t.can
    PROVE  LET u == WriteCcc(t, r, e)
           IN  /\ u \in Client /\ CccMsg(r, e) \in Message
               /\ u.wire = Append(t.wire, CccMsg(r, e))
               /\ u.writing
               /\ SameButAtt(t, u, r) /\ u.reg[r].att
               /\ SameOp(t, u)
               /\ u.hasCcc = t.hasCcc /\ u.can = t.can
               /\ u.count = t.count /\ u.regQ = t.regQ
               /\ u.crashed = t.crashed /\ u.leak = t.leak /\ u.stuck = t.stuck
               /\ u.overlap = t.overlap
<1>1. t.reg \in Seq(Registration) /\ t.wire \in Seq(Message) /\ t.reg[r] \in Registration
  BY DEF Client
<1>2. r \in Nat /\ DOMAIN t.reg = 1 .. Len(t.reg) /\ Len(t.reg) \in Nat
  BY <1>1
<1> DEFINE d == [t.reg[r] EXCEPT !.att = TRUE]
           m == CccMsg(r, e)
           g == [t.reg EXCEPT ![r] = d]
<1>3. m \in Message
  BY <1>1, <1>2 DEF Message, CccMsg
<1>4. /\ d \in Registration /\ d.att /\ d.listed = t.reg[r].listed
      /\ d.told = t.reg[r].told /\ d.guess = t.reg[r].guess
  BY <1>1, AttSet
<1> HIDE DEF d
<1>5. /\ g \in Seq(Registration) /\ Len(g) = Len(t.reg) /\ DOMAIN g = DOMAIN t.reg
      /\ g[r] = d /\ \A k \in DOMAIN t.reg : k # r => g[k] = t.reg[k]
      /\ t.reg # <<>> /\ g # <<>>
  BY <1>1, <1>4, SetEntry
<1>6. Append(t.wire, m) \in Seq(Message)
  BY <1>1, <1>3
<1>7. WriteCcc(t, r, e) = [t EXCEPT !.writing = TRUE, !.reg = g, !.wire = Append(t.wire, m)]
  <2>1. t.open = TRUE
    BY DEF Client
  <2> QED
    BY <2>1 DEF WriteCcc, Send, CccMsg, Client, d
<1> HIDE DEF m, g
<1>8. PICK w : w = Append(t.wire, m)
  OBVIOUS
<1>9. PICK u : u = WriteCcc(t, r, e)
  OBVIOUS
<1>10. u = [t EXCEPT !.writing = TRUE, !.reg = g, !.wire = w]
  BY <1>7, <1>8, <1>9
<1>11. u \in Client /\ u.wire = w /\ u.reg = g /\ u.writing
  BY <1>5, <1>6, <1>8, <1>10 DEF Client
<1>12. /\ SameOp(t, u)
       /\ u.hasCcc = t.hasCcc /\ u.can = t.can /\ u.count = t.count /\ u.regQ = t.regQ
       /\ u.crashed = t.crashed /\ u.leak = t.leak /\ u.stuck = t.stuck
       /\ u.overlap = t.overlap
  BY <1>10 DEF Client, SameOp
<1>13. SameButAtt(t, u, r) /\ u.reg[r].att
  BY <1>4, <1>5, <1>11 DEF SameButAtt
<1> QED
  BY <1>3, <1>8, <1>9, <1>11, <1>12, <1>13 DEF m

(* a registration becomes the one that writes the CCC *)
LEMMA WriteCccKeeps ==
    ASSUME NEW t \in Client, NEW r \in DOMAIN t.reg, NEW e \in BOOLEAN, t.open,
           RegWaits(t), Counted(t), e => t.can,
           e => /\ t.reg[r].listed /\ t.reg[r].told = "none" /\ r \notin ToSet(t.regQ)
                /\ \A i \in Ccc(t.wire) :
                      t.wire[i].arg /\ t.wire[i].live => t.wire[i].who # r,
           ~e => ~t.reg[r].listed
    PROVE  LET u == WriteCcc(t, r, e)
           IN  /\ RegWaits(u) /\ Counted(u)
               /\ (~t.stuck /\ ~t.overlap => ~t.crashed /\ Ccc(t.wire) = {}) => OneWrite(u)
               /\ (Plain(t) => /\ t.can /\ t.count = Cardinality(Listed(t))
                               /\ \A q \in Listed(t) :
                                     /\ t.reg[q].told # "ok"
                                     /\ q \in ToSet(t.regQ) \/ (e /\ q = r))
                     => \A on : Enabled(u, on)
               /\ \A on : Lasting(t, on) /\ (Off(t) => e) => Lasting(u, on)
<1>0. PICK u : u = WriteCcc(t, r, e)
  OBVIOUS
<1> DEFINE m == CccMsg(r, e)
           n == Len(t.wire) + 1
<1>a. SameOp(t, u)
  BY <1>0, WriteCccIs
<1>1. /\ u.wire = Append(t.wire, m) /\ m \in Message /\ u.writing
      /\ SameButAtt(t, u, r) /\ u.reg[r].att
      /\ u.hasCcc = t.hasCcc /\ u.can = t.can /\ u.count = t.count /\ u.regQ = t.regQ
      /\ u.crashed = t.crashed /\ u.leak = t.leak /\ u.stuck = t.stuck
      /\ u.overlap = t.overlap
  BY <1>0, WriteCccIs
<1>b. u.open = t.open
  BY <1>a DEF SameOp
<1>2. t.wire \in Seq(Message) /\ t.reg \in Seq(Registration)
  BY DEF Client
<1>3. /\ DOMAIN u.wire = DOMAIN t.wire \cup {n} /\ n \notin DOMAIN t.wire
      /\ \A i \in DOMAIN t.wire : u.wire[i] = t.wire[i]
      /\ u.wire[n] = m
  BY <1>1, <1>2, PushTail
<1>4. /\ m.pdu = "ccc" /\ m.who = r /\ m.arg = e /\ m.live
      /\ m.cb = IF e THEN "enable" ELSE "disable"
  BY DEF CccMsg
<1>5. /\ DOMAIN u.reg = DOMAIN t.reg /\ Len(u.reg) = Len(t.reg)
      /\ \A q \in DOMAIN t.reg : /\ u.reg[q].listed = t.reg[q].listed
                                 /\ u.reg[q].told = t.reg[q].told
                                 /\ u.reg[q].guess = t.reg[q].guess
                                 /\ q # r => u.reg[q].att = t.reg[q].att
                                 /\ t.reg[q].att => u.reg[q].att
      /\ u.reg[r].att /\ u.reg # <<>> /\ t.reg # <<>>
  BY <1>1 DEF SameButAtt
<1> HIDE DEF m, n
<1>6. Ccc(u.wire) = Ccc(t.wire) \cup {n} /\ \A i \in Ccc(t.wire) : u.wire[i] = t.wire[i] /\ i # n
  BY <1>3, <1>4 DEF Ccc
<1>7. Listed(u) = Listed(t)
  BY <1>5 DEF Listed
<1>8. RegWaits(u)
  <2>1. RegQueued(u)
    <3>1. r \notin ToSet(t.regQ)
      BY DEF RegWaits, RegQueued
    <3> QED
      BY <1>1, <1>5, <3>1 DEF RegWaits, RegQueued
  <2>2. ASSUME NEW i \in Ccc(u.wire) PROVE CccEntry(u, u.wire[i])
    <3>1. CASE i = n
      BY <1>1, <1>3, <1>4, <1>5, <3>1 DEF CccEntry
    <3>2. CASE i \in Ccc(t.wire)
      <4>1. CccEntry(t, u.wire[i])
        BY <1>6, <3>2 DEF RegWaits
      <4> QED
        BY <1>1, <1>5, <4>1 DEF CccEntry
    <3> QED
      BY <1>6, <3>1, <3>2
  <2>3. ASSUME NEW i \in Ccc(u.wire), NEW k \in Ccc(u.wire),
               u.wire[i].arg, u.wire[i].live, u.wire[k].arg, u.wire[k].live,
               u.wire[i].who = u.wire[k].who
        PROVE  i = k
    BY <1>3, <1>4, <1>6, <2>3 DEF RegWaits
  <2> QED
    BY <2>1, <2>2, <2>3 DEF RegWaits
<1>9. Counted(u)
  BY <1>1, <1>5, <1>7 DEF Counted
<1>10. ASSUME ~t.stuck /\ ~t.overlap => ~t.crashed /\ Ccc(t.wire) = {} PROVE OneWrite(u)
  BY <1>1, <1>6, <1>10 DEF OneWrite
<1>11. ASSUME Plain(t) => /\ t.can /\ t.count = Cardinality(Listed(t))
                          /\ \A q \in Listed(t) :
                                /\ t.reg[q].told # "ok"
                                /\ q \in ToSet(t.regQ) \/ (e /\ q = r),
              NEW on
       PROVE  Enabled(u, on)
  <2> SUFFICES ASSUME Plain(u) PROVE Enabled(u, on)
    BY DEF Enabled
  <2>1. Plain(t)
    BY <1>1 DEF Plain
  <2>2. n \in Ccc(u.wire) /\ u.wire[n].arg = e /\ u.wire[n].who = r
    BY <1>3, <1>4, <1>6
  <2>3. ASSUME NEW q \in Listed(u)
        PROVE  /\ u.reg[q].told # "ok"
               /\ \/ q \in ToSet(u.regQ)
                  \/ \E i \in Ccc(u.wire) : u.wire[i].arg /\ u.wire[i].who = q
    <3>1. q \in Listed(t) /\ q \in DOMAIN t.reg
      BY <1>7 DEF Listed
    <3>2. t.reg[q].told # "ok" /\ (q \in ToSet(t.regQ) \/ (e /\ q = r))
      BY <1>11, <2>1, <3>1
    <3> QED
      BY <1>1, <1>5, <2>2, <3>1, <3>2
  <2> QED
    BY <1>1, <1>7, <1>11, <2>1, <2>3 DEF Enabled
<1>12. ASSUME NEW on, Lasting(t, on), Off(t) => e PROVE Lasting(u, on)
  <2> SUFFICES ASSUME Off(u) PROVE Lasting(u, on)
    BY DEF Lasting
  <2>1. Off(t) /\ e
    BY <1>1, <1>b, <1>12 DEF Off
  <2>2. \A i \in Ccc(u.wire) : u.wire[i].arg
    BY <1>3, <1>4, <1>6, <1>12, <2>1 DEF Lasting
  <2>3. \A q \in Listed(u) : Knows(u, q) => on
    BY <1>5, <1>7, <1>12, <2>1 DEF Lasting, Knows, Listed
  <2> QED
    BY <1>1, <1>7, <1>12, <2>1, <2>2, <2>3 DEF Lasting
<1> QED
  BY <1>0, <1>8, <1>9, <1>10, <1>11, <1>12

(* the answer to a write of the CCC is there *)
LEMMA CccPopped ==
    ASSUME NEW s, NEW t, NEW on, NEW i, RegInv(s, on), SameReg(s, t),
           Without(s.wire, i, t.wire), s.wire[i].pdu = "ccc"
    PROVE  LET w == s.wire[i]
           IN  /\ RegWaits(t) /\ Counted(t) /\ CccEntry(t, w)
               /\ w.live /\ w.arg =>
                     \A k \in Ccc(t.wire) :
                        t.wire[k].arg /\ t.wire[k].live => t.wire[k].who # w.who
               /\ ~t.stuck /\ ~t.overlap => ~t.crashed /\ t.writing /\ Ccc(t.wire) = {}
               /\ Plain(t) => /\ t.reg # <<>> => t.can
                              /\ t.count = Cardinality(Listed(t))
                              /\ \A q \in Listed(t) :
                                    /\ t.reg[q].told # "ok"
                                    /\ q \in ToSet(t.regQ) \/ (w.arg /\ q = w.who)
               /\ Lasting(t, on) /\ (Off(t) => w.arg)
               /\ ~w.live => \A any : (w.arg /\ on => any) => RegInv(t, any)
<1> DEFINE w == s.wire[i]
<1>1. /\ i \in Ccc(s.wire)
      /\ \A k \in Ccc(t.wire) : /\ Origin(i, k) \in Ccc(s.wire) /\ Origin(i, k) # i
                                /\ t.wire[k] = s.wire[Origin(i, k)]
      /\ \A k, l \in Ccc(t.wire) : Origin(i, k) = Origin(i, l) => k = l
  BY DEF Without, Ccc
<1>2. \A x : CccEntry(s, x) <=> CccEntry(t, x)
  BY DEF CccEntry, SameReg
<1>3. RegWaits(t)
  <2>1. RegQueued(t)
    BY DEF RegInv, RegWaits, RegQueued, SameReg
  <2>2. \A k \in Ccc(t.wire) : CccEntry(t, t.wire[k])
    BY <1>1, <1>2 DEF RegInv, RegWaits
  <2>3. ASSUME NEW k \in Ccc(t.wire), NEW l \in Ccc(t.wire),
               t.wire[k].arg, t.wire[k].live, t.wire[l].arg, t.wire[l].live,
               t.wire[k].who = t.wire[l].who
        PROVE  k = l
    <3>1. Origin(i, k) = Origin(i, l)
      BY <1>1, <2>3 DEF RegInv, RegWaits
    <3> QED
      BY <1>1, <3>1
  <2> QED
    BY <2>1, <2>2, <2>3 DEF RegWaits
<1>4. Counted(t) /\ Listed(t) = Listed(s)
  BY DEF RegInv, Counted, Listed, SameReg
<1>5. CccEntry(t, w)
  BY <1>1, <1>2 DEF RegInv, RegWaits
<1>6. w.live /\ w.arg =>
         \A k \in Ccc(t.wire) :
            t.wire[k].arg /\ t.wire[k].live => t.wire[k].who # w.who
  BY <1>1 DEF RegInv, RegWaits
<1>7. ~t.stuck /\ ~t.overlap => ~t.crashed /\ t.writing /\ Ccc(t.wire) = {}
  BY <1>1 DEF RegInv, OneWrite, SameReg
<1>8. ASSUME Plain(t)
      PROVE  /\ t.reg # <<>> => t.can
             /\ t.count = Cardinality(Listed(t))
             /\ \A q \in Listed(t) :
                   /\ t.reg[q].told # "ok"
                   /\ q \in ToSet(t.regQ) \/ (w.arg /\ q = w.who)
  <2>1. Plain(s) /\ s.writing /\ \A k \in Ccc(s.wire) : k = i
    BY <1>1, <1>7, <1>8 DEF Plain, SameReg, RegInv, OneWrite
  <2> QED
    BY <1>4, <2>1 DEF RegInv, Enabled, SameReg
<1>9. Lasting(t, on) /\ (Off(t) => w.arg)
  <2>1. Off(t) => Off(s)
    BY DEF Off, SameReg
  <2>2. Off(t) => \A k \in Ccc(s.wire) : s.wire[k].arg
    BY <2>1 DEF RegInv, Lasting
  <2>3. Off(t) => w.arg /\ \A k \in Ccc(t.wire) : t.wire[k].arg
    BY <1>1, <2>2
  <2> QED
    BY <1>4, <2>1, <2>3 DEF RegInv, Lasting, Knows, SameReg
<1>10. ~w.live => \A any : (w.arg /\ on => any) => RegInv(t, any)
  <2> SUFFICES ASSUME ~w.live, NEW any, w.arg /\ on => any PROVE RegInv(t, any)
    OBVIOUS
  <2>1. t.stuck
    BY <1>5 DEF CccEntry
  <2>2. Lasting(t, any)
    BY <1>9 DEF Lasting
  <2> QED
    BY <1>3, <1>4, <2>1, <2>2 DEF RegInv, OneWrite, Enabled, Plain
<1> QED
  BY <1>3, <1>4, <1>5, <1>6, <1>7, <1>8, <1>9, <1>10

LEMMA EmptyQueue == ToSet(<<>>) = {} /\ Distinct(<<>>) /\ <<>> \in Seq(Nat)
<1>1. DOMAIN <<>> = 1 .. Len(<<>>) /\ Len(<<>>) = 0
  OBVIOUS
<1>2. \A i : i \notin DOMAIN <<>>
  BY <1>1
<1>3. <<>> \in Seq(Nat)
  OBVIOUS
<1> QED
  BY <1>2, <1>3 DEF ToSet, Distinct

(* all that wait in the queue are told, or lost *)
LEMMA RegQueueEmptied ==
    ASSUME NEW t \in Client
    PROVE  LET u == [t EXCEPT !.regQ = <<>>]
           IN  /\ u \in Client /\ u.regQ = <<>> /\ SameOp(t, u) /\ u.wire = t.wire
               /\ u.hasCcc = t.hasCcc /\ u.can = t.can
               /\ u.reg = t.reg /\ u.count = t.count
               /\ u.writing = t.writing /\ u.crashed = t.crashed /\ u.leak = t.leak
               /\ u.stuck = t.stuck /\ u.overlap = t.overlap
<1>1. PICK q : q = <<>> /\ q \in Seq(Nat)
  BY EmptyQueue
<1>2. PICK u : u = [t EXCEPT !.regQ = q]
  OBVIOUS
<1>3. u \in Client /\ u.regQ = q
  BY <1>1, <1>2 DEF Client
<1>4. /\ SameOp(t, u) /\ u.wire = t.wire
      /\ u.hasCcc = t.hasCcc /\ u.can = t.can /\ u.reg = t.reg /\ u.count = t.count
      /\ u.writing = t.writing /\ u.crashed = t.crashed /\ u.leak = t.leak
      /\ u.stuck = t.stuck /\ u.overlap = t.overlap
  BY <1>2 DEF Client, SameOp
<1> QED
  BY <1>1, <1>2, <1>3, <1>4

LEMMA NextRegistrationKeeps ==
    ASSUME NEW t \in Client, NEW on, RegWaits(t), Counted(t), ~t.writing,
           ~t.stuck /\ ~t.overlap => ~t.crashed /\ Ccc(t.wire) = {},
           Plain(t) => /\ t.reg # <<>> => t.can
                       /\ t.count = Cardinality(Listed(t))
                       /\ Listed(t) \subseteq ToSet(t.regQ),
           Lasting(t, on)
    PROVE  LET u == NextRegistration(t)
           IN  /\ u \in Client /\ RegInv(u, on) /\ SameOp(t, u)
               /\ Same(t.wire, u.wire, Rest(t.wire), Rest(u.wire))
<1>0. PICK u : u = NextRegistration(t)
  OBVIOUS
<1>1. CASE t.regQ = <<>>
  <2>1. u = t
    BY <1>0, <1>1 DEF NextRegistration
  <2>2. Plain(t) => t.count = 0
    BY <1>1, EmptyQueue, FS_EmptySet
  <2>3. RegInv(t, on)
    BY <2>2 DEF RegInv, OneWrite, Enabled
  <2> QED
    BY <1>0, <2>1, <2>3, SameInPlace DEF SameOp
<1>2. CASE t.regQ # <<>> /\ ~CanEnable(t)
  <2>1. u = [t EXCEPT !.regQ = <<>>]
    BY <1>0, <1>2 DEF NextRegistration
  <2>2. /\ u \in Client /\ u.regQ = <<>> /\ SameOp(t, u) /\ u.wire = t.wire
        /\ u.hasCcc = t.hasCcc /\ u.can = t.can /\ u.reg = t.reg /\ u.count = t.count
        /\ u.writing = t.writing /\ u.crashed = t.crashed /\ u.leak = t.leak
        /\ u.stuck = t.stuck /\ u.overlap = t.overlap
    BY <2>1, RegQueueEmptied
  <2>3. RegWaits(u)
    <3>1. RegQueued(u)
      BY <2>2, EmptyQueue DEF RegQueued
    <3>2. \A i \in Ccc(u.wire) : CccEntry(u, u.wire[i])
      BY <2>2, EmptyQueue DEF RegWaits, CccEntry
    <3> QED
      BY <2>2, <3>1, <3>2 DEF RegWaits
  <2>4. Counted(u) /\ OneWrite(u) /\ Listed(u) = Listed(t)
    BY <2>2 DEF Counted, Listed, OneWrite
  <2>5. t.reg # <<>>
    <3>1. t.regQ \in Seq(Nat)
      BY DEF Client
    <3>2. Head(t.regQ) \in DOMAIN t.reg
      BY <1>2, <3>1, PopHead DEF RegWaits, RegQueued
    <3> QED
      BY <3>2
  <2>6. Enabled(u, on)
    BY <1>2, <2>2, <2>5 DEF Enabled, Plain, CanEnable, SameOp
  <2>7. Lasting(u, on)
    BY <2>2, <2>4 DEF Lasting, Off, Knows, SameOp
  <2> QED
    BY <1>0, <2>2, <2>3, <2>4, <2>6, <2>7, SameInPlace DEF RegInv
<1>3. CASE t.regQ # <<>> /\ CanEnable(t)
  <2> DEFINE v == [t EXCEPT !.regQ = Tail(@)]
             r == Head(t.regQ)
  <2>1. u = WriteCcc(v, r, TRUE)
    BY <1>0, <1>3 DEF NextRegistration
  <2>2. /\ r \in ToSet(t.regQ) /\ Tail(t.regQ) \in Seq(Nat)
        /\ Distinct(Tail(t.regQ)) /\ ToSet(Tail(t.regQ)) = ToSet(t.regQ) \ {r}
    <3>1. t.regQ \in Seq(Nat)
      BY DEF Client
    <3> QED
      BY <1>3, <3>1, PopHead DEF RegWaits, RegQueued
  <2>3. r \in DOMAIN t.reg /\ t.reg[r].listed /\ t.reg[r].told = "none"
    BY <2>2 DEF RegWaits, RegQueued
  <2>4. /\ v \in Client /\ v.regQ = Tail(t.regQ) /\ SameOp(t, v) /\ v.wire = t.wire
        /\ v.hasCcc = t.hasCcc /\ v.can = t.can /\ v.reg = t.reg /\ v.count = t.count
        /\ v.writing = t.writing /\ v.crashed = t.crashed /\ v.leak = t.leak
        /\ v.stuck = t.stuck /\ v.overlap = t.overlap
    BY <2>2 DEF Client, SameOp
  <2> HIDE DEF v, r
  <2>5. RegWaits(v) /\ Counted(v) /\ Listed(v) = Listed(t)
    <3>1. RegQueued(v)
      BY <2>2, <2>4 DEF RegWaits, RegQueued
    <3>2. \A i \in Ccc(v.wire) : CccEntry(v, v.wire[i])
      BY <2>2, <2>4 DEF RegWaits, CccEntry
    <3>3. RegWaits(v)
      BY <2>4, <3>1, <3>2 DEF RegWaits
    <3> QED
      BY <2>4, <3>3 DEF Counted, Listed
  <2>6. /\ v.reg[r].listed /\ v.reg[r].told = "none" /\ r \notin ToSet(v.regQ)
        /\ r \in DOMAIN v.reg /\ v.open /\ v.can
        /\ \A i \in Ccc(v.wire) : v.wire[i].arg /\ v.wire[i].live => v.wire[i].who # r
    BY <1>3, <2>2, <2>3, <2>4 DEF RegWaits, CccEntry, CanEnable, SameOp
  <2>7. ~v.stuck /\ ~v.overlap => ~v.crashed /\ Ccc(v.wire) = {}
    BY <2>4
  <2>8. Plain(v) => /\ v.can /\ v.count = Cardinality(Listed(v))
                    /\ \A q \in Listed(v) : /\ v.reg[q].told # "ok"
                                            /\ q \in ToSet(v.regQ) \/ (TRUE /\ q = r)
    <3> SUFFICES ASSUME Plain(v) PROVE /\ v.can /\ v.count = Cardinality(Listed(v))
                    /\ \A q \in Listed(v) : /\ v.reg[q].told # "ok"
                                            /\ q \in ToSet(v.regQ) \/ (TRUE /\ q = r)
      OBVIOUS
    <3>1. Plain(t)
      BY <2>4 DEF Plain, SameOp
    <3>2. \A q \in Listed(v) : q \in ToSet(t.regQ) /\ t.reg[q].told = "none"
      BY <2>5, <3>1 DEF RegWaits, RegQueued
    <3> QED
      BY <2>2, <2>4, <2>5, <2>6, <3>1, <3>2
  <2>a. Lasting(v, on)
    BY <2>4, <2>5 DEF Lasting, Off, Knows, SameOp
  <2>9. /\ RegWaits(u) /\ Counted(u) /\ OneWrite(u) /\ Enabled(u, on)
        /\ Lasting(u, on)
    BY <2>1, <2>4, <2>5, <2>6, <2>7, <2>8, <2>a, WriteCccKeeps
  <2>10. u \in Client /\ SameOp(v, u) /\ u.wire = Append(v.wire, CccMsg(r, TRUE))
         /\ CccMsg(r, TRUE) \in Message
    BY <2>1, <2>4, <2>6, WriteCccIs
  <2>11. Same(t.wire, u.wire, Rest(t.wire), Rest(u.wire))
    <3>1. t.wire \in Seq(Message) /\ CccMsg(r, TRUE).pdu = "ccc"
      BY DEF Client, CccMsg
    <3> QED
      BY <2>4, <2>10, <3>1, SameSent
  <2> QED
    BY <1>0, <2>4, <2>9, <2>10, <2>11 DEF RegInv, SameOp
<1> QED
  BY <1>1, <1>2, <1>3

LEMMA AllOnce ==
    ASSUME NEW t \in Client, NEW r \in DOMAIN t.reg, r \notin ToSet(t.regQ), Distinct(t.regQ)
    PROVE  LET all == <<r>> \o t.regQ
           IN  /\ ToSet(all) = ToSet(t.regQ) \cup {r}
               /\ \A q : Once(all, q)
<1>1. t.regQ \in Seq(Nat) /\ r \in Nat
  BY DEF Client
<1>2. PICK all : all = <<r>> \o t.regQ
  OBVIOUS
<1>3. ToSet(all) = ToSet(t.regQ) \cup {r} /\ Distinct(all)
  BY <1>1, <1>2, PushHead
<1> QED
  BY <1>2, <1>3 DEF Once, Distinct

LEMMA TellAllIs ==
    ASSUME NEW t \in Client, NEW r \in DOMAIN t.reg, RegQueued(t),
           r \notin ToSet(t.regQ), t.reg[r].told = "none"
    PROVE  LET u == TellAll(t, r)
           IN  /\ u \in Client /\ SameOp(t, u) /\ u.wire = t.wire /\ u.regQ = <<>>
               /\ u.hasCcc = t.hasCcc /\ u.can = t.can /\ u.count = t.count
               /\ u.writing = t.writing /\ u.crashed = t.crashed /\ u.leak = t.leak
               /\ u.stuck = t.stuck /\ u.overlap = t.overlap
               /\ Len(u.reg) = Len(t.reg) /\ DOMAIN u.reg = DOMAIN t.reg
               /\ u.reg # <<>>
               /\ \A q \in DOMAIN t.reg :
                     /\ u.reg[q].listed = t.reg[q].listed
                     /\ q \notin ToSet(t.regQ) /\ q # r => u.reg[q] = t.reg[q]
<1> DEFINE all == <<r>> \o t.regQ
           new(q) == IF q \in ToSet(all)
                     THEN [t.reg[q] EXCEPT !.att = FALSE,
                                           !.told = Heard(@, "ok", Once(all, q))]
                     ELSE t.reg[q]
           g == [q \in DOMAIN t.reg |-> new(q)]
<1>1. ToSet(all) = ToSet(t.regQ) \cup {r} /\ \A q : Once(all, q)
  BY AllOnce DEF RegQueued
<1>2. /\ t.reg \in Seq(Registration) /\ Len(t.reg) \in Nat
      /\ DOMAIN t.reg = 1 .. Len(t.reg) /\ r \in 1 .. Len(t.reg)
  BY DEF Client
<1>3. TellAll(t, r) = [t EXCEPT !.regQ = <<>>, !.reg = g]
  BY DEF TellAll
<1> HIDE DEF all
<1>4. ASSUME NEW q \in DOMAIN t.reg
      PROVE  /\ new(q) \in Registration /\ new(q).listed = t.reg[q].listed
             /\ q \notin ToSet(t.regQ) /\ q # r => new(q) = t.reg[q]
  <2>1. t.reg[q] \in Registration
    BY <1>2
  <2>2. CASE q \notin ToSet(all)
    BY <2>1, <2>2
  <2>3. CASE q \in ToSet(all)
    <3>1. t.reg[q].told = "none" /\ Once(all, q)
      BY <1>1, <2>3 DEF RegQueued
    <3>2. Heard(t.reg[q].told, "ok", Once(all, q)) = "ok"
      BY <3>1 DEF Heard
    <3>3. new(q) = [t.reg[q] EXCEPT !.att = FALSE, !.told = "ok"]
      BY <2>3, <3>2
    <3> QED
      BY <1>1, <2>1, <2>3, <3>3 DEF Registration
  <2> QED
    BY <2>2, <2>3
<1> HIDE DEF new
<1>5. /\ g \in Seq(Registration) /\ Len(g) = Len(t.reg) /\ DOMAIN g = DOMAIN t.reg /\ g # <<>>
      /\ \A q \in DOMAIN t.reg : g[q] = new(q)
  <2>1. g \in [1 .. Len(t.reg) -> Registration]
    BY <1>2, <1>4
  <2>2. g \in Seq(Registration) /\ Len(g) = Len(t.reg)
    BY <1>2, <2>1
  <2> QED
    BY <1>2, <2>2
<1> HIDE DEF g
<1>6. PICK u : u = TellAll(t, r)
  OBVIOUS
<1>7. /\ u \in Client /\ SameOp(t, u) /\ u.wire = t.wire /\ u.regQ = <<>> /\ u.reg = g
      /\ u.hasCcc = t.hasCcc /\ u.can = t.can /\ u.count = t.count
      /\ u.writing = t.writing /\ u.crashed = t.crashed /\ u.leak = t.leak
      /\ u.stuck = t.stuck /\ u.overlap = t.overlap
  <2>1. PICK q : q = <<>> /\ q \in Seq(Nat)
    BY EmptyQueue
  <2>2. u = [t EXCEPT !.regQ = q, !.reg = g]
    BY <1>3, <1>6, <2>1
  <2>3. u \in Client /\ u.regQ = q /\ u.reg = g
    BY <1>5, <2>1, <2>2 DEF Client
  <2>4. /\ SameOp(t, u) /\ u.wire = t.wire
        /\ u.hasCcc = t.hasCcc /\ u.can = t.can /\ u.count = t.count
        /\ u.writing = t.writing /\ u.crashed = t.crashed /\ u.leak = t.leak
        /\ u.stuck = t.stuck /\ u.overlap = t.overlap
    BY <2>2 DEF Client, SameOp
  <2> QED
    BY <2>1, <2>3, <2>4
<1> QED
  BY <1>4, <1>5, <1>6, <1>7

LEMMA TellAllKeeps ==
    ASSUME NEW t \in Client, NEW r \in DOMAIN t.reg, RegWaits(t), Counted(t), ~t.writing,
           r \notin ToSet(t.regQ), t.reg[r].told = "none",
           \A k \in Ccc(t.wire) : t.wire[k].arg /\ t.wire[k].live => t.wire[k].who # r,
           ~t.stuck /\ ~t.overlap => ~t.crashed /\ Ccc(t.wire) = {},
           Plain(t) => /\ t.reg # <<>> => t.can
                       /\ t.count = Cardinality(Listed(t)),
           Lasting(t, TRUE)
    PROVE  LET u == TellAll(t, r)
           IN  /\ u \in Client /\ RegInv(u, TRUE) /\ SameOp(t, u)
               /\ Same(t.wire, u.wire, Rest(t.wire), Rest(u.wire))
<1>0. PICK u : u = TellAll(t, r)
  OBVIOUS
<1>1. RegQueued(t)
  BY DEF RegWaits
<1>2. /\ u \in Client /\ SameOp(t, u) /\ u.wire = t.wire /\ u.regQ = <<>>
      /\ u.hasCcc = t.hasCcc /\ u.can = t.can /\ u.count = t.count
      /\ u.writing = t.writing /\ u.crashed = t.crashed /\ u.leak = t.leak
      /\ u.stuck = t.stuck /\ u.overlap = t.overlap
      /\ Len(u.reg) = Len(t.reg) /\ DOMAIN u.reg = DOMAIN t.reg
      /\ u.reg # <<>>
      /\ \A q \in DOMAIN t.reg :
            /\ u.reg[q].listed = t.reg[q].listed
            /\ q \notin ToSet(t.regQ) /\ q # r => u.reg[q] = t.reg[q]
  BY <1>0, <1>1, TellAllIs
<1>3. RegWaits(u)
  <2>1. RegQueued(u)
    BY <1>2, EmptyQueue DEF RegQueued
  <2>2. ASSUME NEW i \in Ccc(u.wire) PROVE CccEntry(u, u.wire[i])
    <3>1. CccEntry(t, u.wire[i])
      BY <1>2 DEF RegWaits
    <3>2. u.wire[i].arg /\ u.wire[i].live =>
             u.wire[i].who # r /\ u.wire[i].who \notin ToSet(t.regQ)
      BY <1>2, <3>1 DEF CccEntry
    <3> QED
      BY <1>2, <3>1, <3>2, EmptyQueue DEF CccEntry
  <2> QED
    BY <1>2, <2>1, <2>2 DEF RegWaits
<1>4. Listed(u) = Listed(t) /\ Counted(u)
  BY <1>2 DEF Listed, Counted
<1>5. OneWrite(u) /\ Enabled(u, TRUE) /\ Lasting(u, TRUE)
  <2>1. t.reg # <<>>
    OBVIOUS
  <2>2. OneWrite(u) /\ Enabled(u, TRUE)
    BY <1>2, <1>4, <2>1 DEF OneWrite, Enabled, Plain, SameOp
  <2>3. Lasting(u, TRUE)
    BY <1>2, <1>4 DEF Lasting, Off, SameOp
  <2> QED
    BY <2>2, <2>3
<1> QED
  BY <1>0, <1>2, <1>3, <1>4, <1>5, SameInPlace DEF RegInv

LEMMA ListedFinite ==
    ASSUME NEW t \in Client
    PROVE  /\ IsFiniteSet(Listed(t)) /\ Cardinality(Listed(t)) \in Nat
           /\ Len(t.reg) \in Nat /\ DOMAIN t.reg = 1 .. Len(t.reg)
<1>1. t.reg \in Seq(Registration)
  BY DEF Client
<1>2. Len(t.reg) \in Nat /\ DOMAIN t.reg = 1 .. Len(t.reg)
  BY <1>1
<1>3. IsFiniteSet(1 .. Len(t.reg))
  BY <1>2, FS_Interval
<1>4. Listed(t) \subseteq 1 .. Len(t.reg)
  BY <1>2 DEF Listed
<1>5. IsFiniteSet(Listed(t))
  BY <1>3, <1>4, FS_Subset
<1> QED
  BY <1>2, <1>5, FS_CardinalityType

(* enable_ccc_callback() with an error, before the queue is served *)
LEMMA RefuseIs ==
    ASSUME NEW t \in Client, NEW r \in DOMAIN t.reg, t.reg[r].told = "none", NEW res
    PROVE  LET v == Refuse(t, r, res)
           IN  /\ v \in Client /\ SameOp(t, v) /\ v.wire = t.wire
               /\ v.hasCcc = t.hasCcc /\ v.can = t.can
               /\ v.count = t.count /\ v.regQ = t.regQ
               /\ v.writing = t.writing /\ v.crashed = t.crashed /\ v.leak
               /\ v.stuck = t.stuck /\ v.overlap = t.overlap
               /\ Len(v.reg) = Len(t.reg) /\ DOMAIN v.reg = DOMAIN t.reg
               /\ v.reg # <<>> /\ ~v.reg[r].listed
               /\ \A q \in DOMAIN t.reg : q # r => v.reg[q] = t.reg[q]
<1> DEFINE x == t.reg[r]
           what == ProcessError(res)
           d == [x EXCEPT !.att = FALSE, !.told = what, !.listed = FALSE]
           g == [t.reg EXCEPT ![r] = d]
<1>1. t.reg \in Seq(Registration) /\ x \in Registration
  BY DEF Client
<1>a. what \in {"error", "ok"}
  BY DEF ProcessError
<1> HIDE DEF what
<1>2. d \in Registration /\ ~d.listed
  <2> HIDE DEF x
  <2> QED
    BY <1>1, <1>a DEF Registration
<1>3. Refuse(t, r, res) = [t EXCEPT !.reg = g, !.leak = TRUE]
  <2>1. Heard(x.told, what, TRUE) = what
    BY DEF Heard
  <2>2. PICK h : h = [t.reg EXCEPT ![r].att = FALSE,
                                   ![r].told = Heard(x.told, what, TRUE),
                                   ![r].listed = FALSE]
    OBVIOUS
  <2>3. h = g
    BY <1>1, <2>1, <2>2 DEF Registration
  <2>4. Refuse(t, r, res) = [t EXCEPT !.reg = h, !.leak = TRUE]
    BY <1>1, <2>2 DEF Refuse, Tell, Client, Registration, what
  <2> QED
    BY <2>3, <2>4
<1> HIDE DEF d
<1>4. /\ g \in Seq(Registration) /\ Len(g) = Len(t.reg) /\ DOMAIN g = DOMAIN t.reg
      /\ g[r] = d /\ \A k \in DOMAIN t.reg : k # r => g[k] = t.reg[k]
      /\ g # <<>>
  BY <1>1, <1>2, SetEntry
<1> HIDE DEF g
<1>5. PICK v : v = Refuse(t, r, res)
  OBVIOUS
<1>6. v \in Client /\ v.reg = g /\ v.writing = t.writing /\ v.leak
  BY <1>3, <1>4, <1>5 DEF Client
<1>7. /\ SameOp(t, v) /\ v.wire = t.wire
      /\ v.hasCcc = t.hasCcc /\ v.can = t.can /\ v.count = t.count /\ v.regQ = t.regQ
      /\ v.crashed = t.crashed /\ v.stuck = t.stuck /\ v.overlap = t.overlap
  BY <1>3, <1>5 DEF Client, SameOp
<1> QED
  BY <1>2, <1>4, <1>5, <1>6, <1>7

LEMMA RefuseKeeps ==
    ASSUME NEW t \in Client, NEW r \in DOMAIN t.reg, NEW res, NEW on,
           RegWaits(t), Counted(t),
           r \notin ToSet(t.regQ), t.reg[r].told = "none", t.reg[r].listed,
           \A k \in Ccc(t.wire) : t.wire[k].arg /\ t.wire[k].live => t.wire[k].who # r,
           ~t.stuck /\ ~t.overlap => Ccc(t.wire) = {},
           Plain(t) => \A q \in Listed(t) : t.reg[q].told # "ok",
           Lasting(t, on)
    PROVE  LET v == Refuse(t, r, res)
           IN  /\ v \in Client /\ RegWaits(v) /\ Counted(v) /\ ~Plain(v)
               /\ Lasting(v, on)
<1>0. PICK v : v = Refuse(t, r, res)
  OBVIOUS
<1>1. /\ v \in Client /\ SameOp(t, v) /\ v.wire = t.wire
      /\ v.hasCcc = t.hasCcc /\ v.can = t.can /\ v.count = t.count /\ v.regQ = t.regQ
      /\ v.crashed = t.crashed /\ v.leak
      /\ v.stuck = t.stuck /\ v.overlap = t.overlap
      /\ Len(v.reg) = Len(t.reg) /\ DOMAIN v.reg = DOMAIN t.reg
      /\ v.reg # <<>> /\ ~v.reg[r].listed
      /\ \A q \in DOMAIN t.reg : q # r => v.reg[q] = t.reg[q]
  BY <1>0, RefuseIs
<1>2. RegQueued(v)
  BY <1>1 DEF RegWaits, RegQueued
<1>3. ASSUME NEW i \in Ccc(v.wire) PROVE CccEntry(v, v.wire[i])
  <2>1. CccEntry(t, v.wire[i])
    BY <1>1 DEF RegWaits
  <2>2. v.wire[i].arg /\ v.wire[i].live => v.wire[i].who # r
    BY <1>1
  <2> QED
    BY <1>1, <2>1, <2>2 DEF CccEntry
<1>4. RegWaits(v)
  BY <1>1, <1>2, <1>3 DEF RegWaits
<1>5. Listed(v) = Listed(t) \ {r} /\ r \in Listed(t)
  BY <1>1 DEF Listed
<1>6. Counted(v) /\ v.count > Cardinality(Listed(v))
  <2>1. IsFiniteSet(Listed(t)) /\ Cardinality(Listed(t)) \in Nat
    BY ListedFinite
  <2>2. Cardinality(Listed(v)) = Cardinality(Listed(t)) - 1
    BY <1>5, <2>1, FS_RemoveElement
  <2>3. t.count \in Nat
    BY DEF Client
  <2> QED
    BY <1>1, <2>1, <2>2, <2>3 DEF Counted
<1>7. Lasting(v, on)
  <2> SUFFICES ASSUME Off(v) PROVE Lasting(v, on)
    BY DEF Lasting
  <2>1. Off(t) \/ (Plain(t) /\ Ccc(t.wire) = {})
    BY <1>1 DEF Off, Plain, SameOp
  <2>2. \A i \in Ccc(v.wire) : v.wire[i].arg
    BY <1>1, <2>1 DEF Lasting
  <2>3. ASSUME NEW q \in Listed(v), Knows(v, q) PROVE on
    <3>1. q \in Listed(t) /\ Knows(t, q)
      BY <1>1, <1>5, <2>3 DEF Knows, Listed
    <3> QED
      BY <2>1, <3>1 DEF Lasting, Knows
  <2> QED
    BY <1>6, <2>2, <2>3 DEF Lasting
<1> QED
  BY <1>0, <1>1, <1>4, <1>6, <1>7 DEF Plain

LEMMA WritingEnds ==
    ASSUME NEW t \in Client
    PROVE  LET v == [t EXCEPT !.writing = FALSE]
           IN  /\ v \in Client /\ SameOp(t, v) /\ v.wire = t.wire /\ v.reg = t.reg
               /\ v.hasCcc = t.hasCcc /\ v.can = t.can
               /\ v.count = t.count /\ v.regQ = t.regQ
               /\ ~v.writing /\ v.crashed = t.crashed /\ v.leak = t.leak
               /\ v.stuck = t.stuck /\ v.overlap = t.overlap
BY DEF Client, SameOp

LEMMA WritingEndsKeeps ==
    ASSUME NEW t \in Client, RegWaits(t), Counted(t)
    PROVE  LET v == [t EXCEPT !.writing = FALSE]
           IN  /\ v \in Client /\ RegWaits(v) /\ Counted(v) /\ Listed(v) = Listed(t)
               /\ Plain(v) = Plain(t)
               /\ \A on : Lasting(t, on) => Lasting(v, on)
<1>0. PICK v : v = [t EXCEPT !.writing = FALSE]
  OBVIOUS
<1>1. /\ v \in Client /\ SameOp(t, v) /\ v.wire = t.wire /\ v.reg = t.reg
      /\ v.hasCcc = t.hasCcc /\ v.can = t.can /\ v.count = t.count /\ v.regQ = t.regQ
      /\ v.leak = t.leak /\ v.stuck = t.stuck /\ v.overlap = t.overlap
  BY <1>0, WritingEnds
<1>2. RegWaits(v)
  BY <1>1 DEF RegWaits, RegQueued, CccEntry
<1>3. Counted(v) /\ Listed(v) = Listed(t)
  BY <1>1 DEF Counted, Listed
<1>4. Plain(v) = Plain(t)
  BY <1>1 DEF Plain, SameOp
<1>5. ASSUME NEW on, Lasting(t, on) PROVE Lasting(v, on)
  BY <1>1, <1>3, <1>5 DEF Lasting, Off, Knows, SameOp
<1> QED
  BY <1>0, <1>1, <1>2, <1>3, <1>4, <1>5

LEMMA Crashes ==
    ASSUME NEW t \in Client, NEW on, RegWaits(t), Counted(t), t.stuck \/ t.overlap,
           Lasting(t, on)
    PROVE  LET u == [t EXCEPT !.crashed = TRUE]
           IN  u \in Client /\ RegInv(u, on) /\ SameOp(t, u) /\ u.wire = t.wire
<1>0. PICK u : u = [t EXCEPT !.crashed = TRUE]
  OBVIOUS
<1>1. /\ u \in Client /\ SameOp(t, u) /\ u.wire = t.wire /\ u.reg = t.reg
      /\ u.hasCcc = t.hasCcc /\ u.can = t.can /\ u.count = t.count /\ u.regQ = t.regQ
      /\ u.leak = t.leak /\ u.stuck = t.stuck /\ u.overlap = t.overlap
  BY <1>0 DEF Client, SameOp
<1>2. RegWaits(u)
  BY <1>1 DEF RegWaits, RegQueued, CccEntry
<1>3. Counted(u) /\ Listed(u) = Listed(t)
  BY <1>1 DEF Counted, Listed
<1>4. Lasting(u, on)
  BY <1>1, <1>3 DEF Lasting, Off, Knows, SameOp
<1> QED
  BY <1>0, <1>1, <1>2, <1>3, <1>4 DEF RegInv, OneWrite, Enabled, Plain

(* the callback of a write of the CCC *)
LEMMA CccAnswered ==
    ASSUME NEW s, NEW t \in Client, NEW on, NEW now, NEW i, NEW res, NEW len,
           RegInv(s, on), SameReg(s, t), Without(s.wire, i, t.wire),
           s.wire[i] \in Message, s.wire[i].pdu = "ccc",
           s.wire[i].arg => (on => now) /\ (~Failed(res) => now)
    PROVE  LET u == Callback(t, s.wire[i], res, len)
           IN  /\ u \in Client /\ RegInv(u, now) /\ SameOp(t, u)
               /\ Same(t.wire, u.wire, Rest(t.wire), Rest(u.wire))
<1> DEFINE w == s.wire[i]
<1>0. PICK u : u = Callback(t, w, res, len)
  OBVIOUS
<1>1. /\ RegWaits(t) /\ Counted(t) /\ CccEntry(t, w)
      /\ w.live /\ w.arg =>
            \A k \in Ccc(t.wire) :
               t.wire[k].arg /\ t.wire[k].live => t.wire[k].who # w.who
      /\ ~t.stuck /\ ~t.overlap => ~t.crashed /\ t.writing /\ Ccc(t.wire) = {}
      /\ Plain(t) => /\ t.reg # <<>> => t.can
                     /\ t.count = Cardinality(Listed(t))
                     /\ \A q \in Listed(t) :
                           /\ t.reg[q].told # "ok"
                           /\ q \in ToSet(t.regQ) \/ (w.arg /\ q = w.who)
      /\ Lasting(t, on) /\ (Off(t) => w.arg)
      /\ ~w.live => \A any : (w.arg /\ on => any) => RegInv(t, any)
  BY CccPopped
<1>a. Lasting(t, now) /\ (~w.live => RegInv(t, now))
  BY <1>1 DEF Lasting
<1> HIDE DEF w
<1>2. CASE ~w.live
  <2>1. u = t
    BY <1>0, <1>2 DEF Callback
  <2> QED
    BY <1>0, <1>a, <1>2, <2>1, SameInPlace DEF SameOp, w
<1> DEFINE r == w.who
           v == [t EXCEPT !.writing = FALSE]
<1>3. r \in DOMAIN t.reg /\ w.arg \in BOOLEAN
  BY <1>1 DEF CccEntry
<1>4. /\ v \in Client /\ RegWaits(v) /\ Counted(v) /\ Listed(v) = Listed(t)
      /\ Plain(v) = Plain(t) /\ Lasting(v, now)
  BY <1>1, <1>a, WritingEndsKeeps
<1>5. /\ SameOp(t, v) /\ v.wire = t.wire /\ v.reg = t.reg
      /\ v.can = t.can /\ v.count = t.count /\ v.regQ = t.regQ
      /\ ~v.writing /\ v.crashed = t.crashed
      /\ v.stuck = t.stuck /\ v.overlap = t.overlap
  BY WritingEnds
<1>6. CASE w.live /\ ~t.writing
  <2>1. w.cb \in {"enable", "disable"}
    BY <1>1 DEF CccEntry
  <2>2. u = [t EXCEPT !.crashed = TRUE]
    BY <1>0, <1>6, <2>1 DEF Callback, EnableCccCallback, DisableCccCallback
  <2>3. u \in Client /\ RegInv(u, now) /\ SameOp(t, u) /\ u.wire = t.wire
    BY <1>1, <1>a, <1>6, <2>2, Crashes
  <2> QED
    BY <1>0, <2>3, SameInPlace DEF w
<1>7. CASE w.live /\ t.writing /\ ~w.arg
  <2>1. w.cb = "disable"
    BY <1>1, <1>7 DEF CccEntry
  <2>2. u = NextRegistration(v)
    BY <1>0, <1>7, <2>1 DEF Callback, DisableCccCallback
  <2>3. Plain(v) => /\ v.reg # <<>> => v.can
                    /\ v.count = Cardinality(Listed(v))
                    /\ Listed(v) \subseteq ToSet(v.regQ)
    BY <1>1, <1>4, <1>5, <1>7
  <2>4. ~v.stuck /\ ~v.overlap => ~v.crashed /\ Ccc(v.wire) = {}
    BY <1>1, <1>5
  <2> HIDE DEF v
  <2>5. /\ u \in Client /\ RegInv(u, now) /\ SameOp(v, u)
        /\ Same(v.wire, u.wire, Rest(v.wire), Rest(u.wire))
    BY <1>4, <1>5, <2>2, <2>3, <2>4, NextRegistrationKeeps
  <2> QED
    BY <1>0, <1>5, <2>5 DEF SameOp, w
<1>8. CASE w.live /\ t.writing /\ w.arg /\ ~Failed(res)
  <2>1. w.cb = "enable"
    BY <1>1, <1>8 DEF CccEntry
  <2>2. u = TellAll(v, r)
    BY <1>0, <1>8, <2>1 DEF Callback, EnableCccCallback
  <2>3. now
    BY <1>8 DEF w
  <2>4. /\ r \notin ToSet(v.regQ) /\ v.reg[r].told = "none" /\ r \in DOMAIN v.reg
        /\ \A k \in Ccc(v.wire) : v.wire[k].arg /\ v.wire[k].live => v.wire[k].who # r
        /\ ~v.stuck /\ ~v.overlap => ~v.crashed /\ Ccc(v.wire) = {}
        /\ Plain(v) => /\ v.reg # <<>> => v.can
                       /\ v.count = Cardinality(Listed(v))
    BY <1>1, <1>4, <1>5, <1>8 DEF CccEntry
  <2>a. Lasting(v, TRUE)
    BY <1>4 DEF Lasting
  <2> HIDE DEF v, r
  <2>5. /\ u \in Client /\ RegInv(u, TRUE) /\ SameOp(v, u)
        /\ Same(v.wire, u.wire, Rest(v.wire), Rest(u.wire))
    BY <1>4, <1>5, <2>2, <2>4, <2>a, TellAllKeeps
  <2>6. RegInv(u, now)
    BY <2>3, <2>5 DEF RegInv, Enabled, Lasting
  <2> QED
    BY <1>0, <1>5, <2>5, <2>6 DEF SameOp, w
<1>9. CASE w.live /\ t.writing /\ w.arg /\ Failed(res)
  <2>1. w.cb = "enable"
    BY <1>1, <1>9 DEF CccEntry
  <2>2. PICK x : x = Refuse(v, r, res)
    OBVIOUS
  <2>3. u = NextRegistration(x)
    BY <1>0, <1>9, <2>1, <2>2 DEF Callback, EnableCccCallback
  <2>4. /\ r \notin ToSet(v.regQ) /\ v.reg[r].told = "none" /\ v.reg[r].listed
        /\ r \in DOMAIN v.reg
        /\ \A k \in Ccc(v.wire) : v.wire[k].arg /\ v.wire[k].live => v.wire[k].who # r
        /\ ~v.stuck /\ ~v.overlap => ~v.crashed /\ Ccc(v.wire) = {}
        /\ Plain(v) => \A q \in Listed(v) : v.reg[q].told # "ok"
    BY <1>1, <1>4, <1>5, <1>9 DEF CccEntry
  <2> HIDE DEF v, r
  <2>5. x \in Client /\ RegWaits(x) /\ Counted(x) /\ ~Plain(x) /\ Lasting(x, now)
    BY <1>4, <2>2, <2>4, RefuseKeeps
  <2>6. /\ SameOp(v, x) /\ x.wire = v.wire /\ x.crashed = v.crashed /\ ~x.writing
        /\ x.stuck = v.stuck /\ x.overlap = v.overlap
    BY <1>4, <1>5, <2>2, <2>4, RefuseIs
  <2>7. ~x.stuck /\ ~x.overlap => ~x.crashed /\ Ccc(x.wire) = {}
    BY <2>4, <2>6
  <2>8. /\ u \in Client /\ RegInv(u, now) /\ SameOp(x, u)
        /\ Same(x.wire, u.wire, Rest(x.wire), Rest(u.wire))
    BY <2>3, <2>5, <2>6, <2>7, NextRegistrationKeeps
  <2> QED
    BY <1>0, <1>5, <2>6, <2>8 DEF SameOp, w
<1> QED
  BY <1>2, <1>3, <1>6, <1>7, <1>8, <1>9

(* register_notify() *)

LEMMA NewNotifyDataIs ==
    ASSUME NEW t \in Client, NEW ccc \in BOOLEAN, NEW can \in BOOLEAN
    PROVE  LET u == NewNotifyData(NotifyChrcCreate(t, ccc, can))
               r == Len(t.reg) + 1
           IN  /\ u \in Client /\ SameOp(t, u) /\ u.wire = t.wire /\ u.regQ = t.regQ
               /\ u.hasCcc = ccc /\ u.can = can /\ u.count = t.count + 1
               /\ u.writing = t.writing /\ u.crashed = t.crashed /\ u.leak = t.leak
               /\ u.stuck = t.stuck /\ u.overlap = t.overlap
               /\ Len(u.reg) = Len(t.reg) + 1 /\ DOMAIN u.reg = DOMAIN t.reg \cup {r}
               /\ r \notin DOMAIN t.reg /\ r \in Nat
               /\ u.reg[r].listed /\ u.reg[r].told = "none" /\ ~u.reg[r].att
               /\ \A q \in DOMAIN t.reg : u.reg[q] = t.reg[q]
<1> DEFINE x == [listed |-> TRUE, att |-> FALSE, told |-> "none", guess |-> FALSE]
           g == Append(t.reg, x)
           r == Len(t.reg) + 1
<1>1. x \in Registration /\ t.reg \in Seq(Registration) /\ t.count \in Nat
  BY DEF Client, Registration
<1>2. x.listed /\ x.told = "none" /\ ~x.att
  OBVIOUS
<1> HIDE DEF x
<1>3. /\ g \in Seq(Registration) /\ Len(t.reg) \in Nat
      /\ Len(g) = Len(t.reg) + 1 /\ DOMAIN g = DOMAIN t.reg \cup {r}
      /\ r \notin DOMAIN t.reg
      /\ \A i \in DOMAIN t.reg : g[i] = t.reg[i]
      /\ g[r] = x
  BY <1>1, PushTail
<1>4. PICK u : u = NewNotifyData(NotifyChrcCreate(t, ccc, can))
  OBVIOUS
<1>5. PICK y : y = NotifyChrcCreate(t, ccc, can)
  OBVIOUS
<1>6. /\ y \in Client /\ y.hasCcc = ccc /\ y.can = can
      /\ y.reg = t.reg /\ y.count = t.count
      /\ SameOp(t, y) /\ y.wire = t.wire /\ y.regQ = t.regQ
      /\ y.writing = t.writing /\ y.crashed = t.crashed /\ y.leak = t.leak
      /\ y.stuck = t.stuck /\ y.overlap = t.overlap
  BY <1>5 DEF NotifyChrcCreate, Client, SameOp
<1>7. u = [y EXCEPT !.reg = g, !.count = t.count + 1]
  BY <1>4, <1>5, <1>6 DEF NewNotifyData, x
<1> HIDE DEF g
<1>8. u \in Client /\ u.reg = g /\ u.hasCcc = ccc /\ u.can = can /\ u.count = t.count + 1
  <2>1. PICK n \in Nat : n = t.count + 1
    BY <1>1
  <2>2. g \in Seq(Registration)
    BY <1>3
  <2>3. u = [y EXCEPT !.reg = g, !.count = n]
    BY <1>7, <2>1
  <2>4. u \in Client /\ u.reg = g /\ u.hasCcc = y.hasCcc /\ u.can = y.can /\ u.count = n
    BY <1>6, <2>2, <2>3 DEF Client
  <2> QED
    BY <1>6, <2>1, <2>4
<1>9. /\ SameOp(y, u) /\ u.wire = y.wire /\ u.regQ = y.regQ
      /\ u.writing = y.writing /\ u.crashed = y.crashed /\ u.leak = y.leak
      /\ u.stuck = y.stuck /\ u.overlap = y.overlap
  BY <1>6, <1>7 DEF Client, SameOp
<1> QED
  BY <1>2, <1>3, <1>4, <1>6, <1>8, <1>9 DEF SameOp

LEMMA NewNotifyDataKeeps ==
    ASSUME NEW t \in Client, NEW ccc \in BOOLEAN, NEW can \in BOOLEAN, NEW on, RegInv(t, on),
           Len(t.reg) + 1 <= MaxCalls, t.reg # <<>> => ccc = t.hasCcc
    PROVE  LET u == NewNotifyData(NotifyChrcCreate(t, ccc, can))
               r == Len(t.reg) + 1
           IN  /\ RegWaits(u) /\ Counted(u) /\ OneWrite(u) /\ Lasting(u, on)
               /\ Listed(u) = Listed(t) \cup {r} /\ r \notin Listed(t)
               /\ Cardinality(Listed(u)) = Cardinality(Listed(t)) + 1
               /\ r \notin ToSet(u.regQ)
               /\ \A i \in Ccc(u.wire) : u.wire[i].who # r
<1> DEFINE r == Len(t.reg) + 1
<1>0. PICK u : u = NewNotifyData(NotifyChrcCreate(t, ccc, can))
  OBVIOUS
<1>1. /\ u \in Client /\ SameOp(t, u) /\ u.wire = t.wire /\ u.regQ = t.regQ
      /\ u.hasCcc = ccc /\ u.can = can /\ u.count = t.count + 1
      /\ u.writing = t.writing /\ u.crashed = t.crashed /\ u.leak = t.leak
      /\ u.stuck = t.stuck /\ u.overlap = t.overlap
      /\ Len(u.reg) = Len(t.reg) + 1 /\ DOMAIN u.reg = DOMAIN t.reg \cup {r}
      /\ r \notin DOMAIN t.reg /\ r \in Nat
      /\ u.reg[r].listed /\ u.reg[r].told = "none" /\ ~u.reg[r].att
      /\ \A q \in DOMAIN t.reg : u.reg[q] = t.reg[q]
  BY <1>0, NewNotifyDataIs
<1> HIDE DEF r
<1>2. /\ RegQueued(u)
      /\ r \notin ToSet(u.regQ)
  BY <1>1 DEF RegInv, RegWaits, RegQueued
<1>3. ASSUME NEW i \in Ccc(u.wire) PROVE CccEntry(u, u.wire[i]) /\ u.wire[i].who # r
  <2>1. CccEntry(t, u.wire[i])
    BY <1>1 DEF RegInv, RegWaits
  <2> QED
    BY <1>1, <2>1 DEF CccEntry
<1>4. RegWaits(u)
  BY <1>1, <1>2, <1>3 DEF RegInv, RegWaits
<1>5. Listed(u) = Listed(t) \cup {r} /\ r \notin Listed(t)
  BY <1>1 DEF Listed
<1>6. /\ Cardinality(Listed(u)) = Cardinality(Listed(t)) + 1
      /\ Cardinality(Listed(t)) \in Nat /\ Len(t.reg) \in Nat /\ t.count \in Nat
  <2>1. IsFiniteSet(Listed(t)) /\ Cardinality(Listed(t)) \in Nat /\ Len(t.reg) \in Nat
    BY ListedFinite
  <2>2. t.count \in Nat
    BY DEF Client
  <2> QED
    BY <1>5, <2>1, <2>2, FS_AddElement
<1>7. Counted(u)
  <2>1. Len(u.reg) # Len(<<>>)
    BY <1>1, <1>6
  <2>2. u.reg # <<>>
    BY <2>1
  <2> QED
    BY <1>1, <1>6, <2>2 DEF RegInv, Counted
<1>8. OneWrite(u)
  BY <1>1 DEF RegInv, OneWrite
<1>9. Lasting(u, on)
  <2> SUFFICES ASSUME Off(u) PROVE Lasting(u, on)
    BY DEF Lasting
  <2>1. Off(t)
    BY <1>1 DEF Off, SameOp, RegInv, Counted
  <2>2. u.count > Cardinality(Listed(u))
    BY <1>1, <1>6, <2>1 DEF RegInv, Lasting
  <2>3. \A i \in Ccc(u.wire) : u.wire[i].arg
    BY <1>1, <2>1 DEF RegInv, Lasting
  <2>4. ASSUME NEW q \in Listed(u), Knows(u, q) PROVE on
    <3>1. q \in Listed(t) /\ Knows(t, q)
      BY <1>1, <1>5, <2>4 DEF Knows, Listed
    <3> QED
      BY <2>1, <3>1 DEF RegInv, Lasting
  <2> QED
    BY <2>2, <2>3, <2>4 DEF Lasting
<1> QED
  BY <1>0, <1>2, <1>3, <1>4, <1>5, <1>6, <1>7, <1>8, <1>9 DEF r

LEMMA RegisterKeeps ==
    ASSUME NEW t \in Client, NEW ccc \in BOOLEAN, NEW can \in BOOLEAN, NEW on, RegInv(t, on), t.open,
           Len(t.reg) + 1 <= MaxCalls, t.reg # <<>> => ccc = t.hasCcc /\ can = t.can
    PROVE  LET u == RegisterNotify(t, ccc, can)
           IN  /\ u \in Client /\ RegInv(u, on) /\ SameOp(t, u)
               /\ Same(t.wire, u.wire, Rest(t.wire), Rest(u.wire))
<1> DEFINE r == Len(t.reg) + 1
<1>0. PICK u : u = RegisterNotify(t, ccc, can)
  OBVIOUS
<1>1. PICK z : z = NewNotifyData(NotifyChrcCreate(t, ccc, can))
  OBVIOUS
<1>2. /\ z \in Client /\ SameOp(t, z) /\ z.wire = t.wire /\ z.regQ = t.regQ
      /\ z.hasCcc = ccc /\ z.can = can /\ z.count = t.count + 1
      /\ z.writing = t.writing /\ z.crashed = t.crashed /\ z.leak = t.leak
      /\ z.stuck = t.stuck /\ z.overlap = t.overlap
      /\ Len(z.reg) = Len(t.reg) + 1 /\ DOMAIN z.reg = DOMAIN t.reg \cup {r}
      /\ r \notin DOMAIN t.reg /\ r \in Nat
      /\ z.reg[r].listed /\ z.reg[r].told = "none" /\ ~z.reg[r].att
      /\ \A q \in DOMAIN t.reg : z.reg[q] = t.reg[q]
  BY <1>1, NewNotifyDataIs
<1>3. /\ RegWaits(z) /\ Counted(z) /\ OneWrite(z) /\ Lasting(z, on)
      /\ Listed(z) = Listed(t) \cup {r} /\ r \notin Listed(t)
      /\ Cardinality(Listed(z)) = Cardinality(Listed(t)) + 1
      /\ r \notin ToSet(z.regQ)
      /\ \A i \in Ccc(z.wire) : z.wire[i].who # r
  BY <1>1, NewNotifyDataKeeps
<1>4. t.count \in Nat /\ Cardinality(Listed(t)) \in Nat /\ IsFiniteSet(Listed(t))
  BY ListedFinite DEF Client
<1>5. Plain(z) => /\ Plain(t) /\ t.count = Cardinality(Listed(t))
                  /\ t.reg # <<>> => can
  <2> SUFFICES ASSUME Plain(z) PROVE /\ Plain(t) /\ t.count = Cardinality(Listed(t))
                                     /\ t.reg # <<>> => can
    OBVIOUS
  <2>1. t.hasCcc
    BY <1>2 DEF Plain, RegInv, Counted
  <2>2. Plain(t)
    BY <1>2, <2>1 DEF Plain, SameOp
  <2> QED
    BY <2>2 DEF RegInv, Enabled
<1>6. /\ t.writing => u = [z EXCEPT !.regQ = Append(@, r)]
      /\ ~t.writing /\ (z.count > 1 \/ ~z.hasCcc) => u = TellCounted(z, r)
      /\ ~t.writing /\ ~(z.count > 1 \/ ~z.hasCcc) /\ CanEnable(z) =>
            u = WriteCcc(z, r, TRUE)
      /\ ~t.writing /\ ~(z.count > 1 \/ ~z.hasCcc) /\ ~CanEnable(z) => u = Drop(z, r)
  BY <1>0, <1>1 DEF RegisterNotify
<1>a. /\ t.count <= Len(t.reg) /\ Len(t.reg) \in Nat
      /\ t.reg = <<>> => t.count = 0
  <2>1. t.count <= Len(t.reg) /\ Len(t.reg) \in Nat
    BY ListedFinite DEF RegInv, Counted
  <2>2. t.reg = <<>> => Len(t.reg) = 0
    OBVIOUS
  <2> QED
    BY <1>4, <2>1, <2>2
<1> HIDE DEF r
<1>7. CASE t.writing
  <2>1. /\ Append(z.regQ, r) \in Seq(Nat) /\ Distinct(Append(z.regQ, r))
        /\ ToSet(Append(z.regQ, r)) = ToSet(z.regQ) \cup {r}
    <3>1. z.regQ \in Seq(Nat) /\ Distinct(z.regQ)
      BY <1>2, <1>3 DEF Client, RegWaits, RegQueued
    <3> QED
      BY <1>2, <1>3, <3>1, PushTail
  <2>2. PICK h : h = Append(z.regQ, r)
    OBVIOUS
  <2>3. u = [z EXCEPT !.regQ = h]
    BY <1>6, <1>7, <2>2
  <2>4. /\ u \in Client /\ SameOp(z, u) /\ u.wire = z.wire /\ u.regQ = h /\ u.reg = z.reg
        /\ u.hasCcc = z.hasCcc /\ u.can = z.can /\ u.count = z.count
        /\ u.writing = z.writing /\ u.crashed = z.crashed /\ u.leak = z.leak
        /\ u.stuck = z.stuck /\ u.overlap = z.overlap
    BY <1>2, <2>1, <2>2, <2>3 DEF Client, SameOp
  <2>5. RegWaits(u)
    <3>1. RegQueued(u)
      BY <1>2, <1>3, <2>1, <2>2, <2>4 DEF RegWaits, RegQueued
    <3>2. \A i \in Ccc(u.wire) : CccEntry(u, u.wire[i])
      BY <1>3, <2>1, <2>2, <2>4 DEF RegWaits, CccEntry
    <3> QED
      BY <1>3, <2>4, <3>1, <3>2 DEF RegWaits
  <2>6. Counted(u) /\ OneWrite(u) /\ Listed(u) = Listed(z)
    BY <1>3, <2>4 DEF Counted, OneWrite, Listed
  <2>a. Lasting(u, on)
    BY <1>3, <2>4, <2>6 DEF Lasting, Off, Knows, SameOp
  <2>7. Enabled(u, on)
    <3> SUFFICES ASSUME Plain(u) PROVE Enabled(u, on)
      BY DEF Enabled
    <3>1. Plain(z)
      BY <2>4 DEF Plain, SameOp
    <3>2. ASSUME NEW q \in Listed(u)
          PROVE  /\ u.reg[q].told # "ok"
                 /\ \/ q \in ToSet(u.regQ)
                    \/ \E i \in Ccc(u.wire) : u.wire[i].arg /\ u.wire[i].who = q
      <4>1. CASE q = r
        BY <1>2, <2>1, <2>2, <2>4, <4>1
      <4>2. CASE q \in Listed(t)
        <5>1. q \in DOMAIN t.reg
          BY <4>2 DEF Listed
        <5>2. /\ t.reg[q].told # "ok"
              /\ \/ q \in ToSet(t.regQ)
                 \/ \E i \in Ccc(t.wire) : t.wire[i].arg /\ t.wire[i].who = q
          BY <1>5, <1>7, <3>1, <4>2 DEF RegInv, Enabled
        <5> QED
          BY <1>2, <2>1, <2>2, <2>4, <5>1, <5>2
      <4> QED
        BY <1>3, <2>6, <4>1, <4>2
    <3>3. u.count = Cardinality(Listed(u)) /\ u.writing
      BY <1>2, <1>3, <1>4, <1>5, <1>7, <2>4, <2>6, <3>1
    <3>4. u.can
      <4>1. PICK i \in Ccc(t.wire) : TRUE
        BY <1>5, <1>7, <3>1 DEF RegInv, OneWrite, Plain
      <4>2. t.wire[i].who \in DOMAIN t.reg
        BY <4>1 DEF RegInv, RegWaits, CccEntry
      <4>3. t.reg # <<>>
        BY <4>2
      <4> QED
        BY <1>2, <1>5, <2>4, <3>1, <4>3
    <3> QED
      BY <3>2, <3>3, <3>4 DEF Enabled
  <2> QED
    BY <1>0, <1>2, <2>4, <2>5, <2>6, <2>7, <2>a, SameInPlace DEF RegInv, SameOp
<1>8. CASE ~t.writing /\ (z.count > 1 \/ ~z.hasCcc)
  <2> DEFINE x == z.reg[r]
             off == z.leak \/ z.stuck
             d == [x EXCEPT !.att = FALSE, !.told = "ok", !.guess = off]
             g == [z.reg EXCEPT ![r] = d]
  <2>1. z.reg \in Seq(Registration) /\ r \in DOMAIN z.reg /\ x \in Registration
    BY <1>2 DEF Client
  <2>a. off \in BOOLEAN
    BY <1>2 DEF Client
  <2>2. d \in Registration /\ d.listed = x.listed /\ d.guess = off
    <3> HIDE DEF x, off
    <3> QED
      BY <2>1, <2>a DEF Registration
  <2>3. u = [z EXCEPT !.reg = g]
    <3>1. Heard(x.told, "ok", TRUE) = "ok"
      BY <1>2 DEF Heard
    <3>2. PICK h : h = [z.reg EXCEPT ![r].att = FALSE,
                                     ![r].told = Heard(x.told, "ok", TRUE),
                                     ![r].guess = off]
      OBVIOUS
    <3>3. h = g
      BY <2>1, <3>1, <3>2 DEF Registration
    <3>4. TellCounted(z, r) = [z EXCEPT !.reg = h]
      BY <1>2, <2>1, <3>2 DEF TellCounted, Tell, Client, Registration
    <3> QED
      BY <1>6, <1>8, <3>3, <3>4
  <2> HIDE DEF d, off
  <2>4. /\ g \in Seq(Registration) /\ Len(g) = Len(z.reg) /\ DOMAIN g = DOMAIN z.reg
        /\ g[r] = d /\ \A k \in DOMAIN z.reg : k # r => g[k] = z.reg[k]
        /\ g # <<>>
    BY <2>1, <2>2, SetEntry
  <2> HIDE DEF g
  <2>5. /\ u \in Client /\ SameOp(z, u) /\ u.wire = z.wire /\ u.regQ = z.regQ /\ u.reg = g
        /\ u.hasCcc = z.hasCcc /\ u.can = z.can /\ u.count = z.count
        /\ u.writing = z.writing /\ u.crashed = z.crashed /\ u.leak = z.leak
        /\ u.stuck = z.stuck /\ u.overlap = z.overlap
    BY <1>2, <2>3, <2>4 DEF Client, SameOp
  <2>6. RegWaits(u)
    <3>1. RegQueued(u)
      BY <1>2, <1>3, <2>4, <2>5 DEF RegWaits, RegQueued
    <3>2. ASSUME NEW i \in Ccc(u.wire) PROVE CccEntry(u, u.wire[i])
      <4>1. CccEntry(z, u.wire[i]) /\ u.wire[i].who # r
        BY <1>3, <2>5 DEF RegWaits
      <4> QED
        BY <2>4, <2>5, <4>1 DEF CccEntry
    <3> QED
      BY <1>3, <2>5, <3>1, <3>2 DEF RegWaits
  <2>7. Listed(u) = Listed(z)
    BY <2>2, <2>4, <2>5 DEF Listed
  <2>8. Counted(u) /\ OneWrite(u)
    BY <1>3, <2>4, <2>5, <2>7 DEF Counted, OneWrite
  <2>9. Enabled(u, on)
    <3> SUFFICES ASSUME Plain(u) PROVE Enabled(u, on)
      BY DEF Enabled
    <3>1. Plain(z) /\ z.count > 1
      BY <1>8, <2>5 DEF Plain, SameOp
    <3>2. on /\ z.can
      BY <1>2, <1>4, <1>5, <1>8, <1>a, <3>1 DEF RegInv, Enabled
    <3> QED
      BY <1>2, <1>3, <1>4, <1>5, <1>8, <2>5, <2>7, <3>1, <3>2 DEF Enabled
  <2>10. Lasting(u, on)
    <3> SUFFICES ASSUME Off(u) PROVE Lasting(u, on)
      BY DEF Lasting
    <3>1. Off(z) /\ off
      BY <2>5 DEF Off, SameOp, off
    <3>2. ASSUME NEW q \in Listed(u), Knows(u, q) PROVE on
      <4>1. q # r
        BY <2>2, <2>4, <2>5, <3>1, <3>2 DEF Knows
      <4>2. q \in Listed(z) /\ Knows(z, q)
        BY <2>4, <2>5, <2>7, <3>2, <4>1 DEF Knows, Listed
      <4> QED
        BY <1>3, <3>1, <4>2 DEF Lasting
    <3> QED
      BY <1>3, <2>5, <2>7, <3>1, <3>2 DEF Lasting
  <2> QED
    BY <1>0, <1>2, <2>5, <2>6, <2>8, <2>9, <2>10, SameInPlace DEF RegInv, SameOp
<1>b. ASSUME ~t.writing, ~(z.count > 1 \/ ~z.hasCcc) PROVE Listed(t) = {}
  <2>1. t.count = 0
    BY <1>2, <1>4, <1>b
  <2>2. Cardinality(Listed(t)) = 0
    BY <1>4, <2>1 DEF RegInv, Counted
  <2> QED
    BY <1>4, <2>2, FS_EmptySet
<1>9. CASE ~t.writing /\ ~(z.count > 1 \/ ~z.hasCcc) /\ CanEnable(z)
  <2>1. u = WriteCcc(z, r, TRUE) /\ r \in DOMAIN z.reg /\ z.open /\ z.can
    BY <1>2, <1>6, <1>9 DEF SameOp, CanEnable
  <2>2. Listed(t) = {}
    BY <1>9, <1>b
  <2>3. ~z.stuck /\ ~z.overlap => ~z.crashed /\ Ccc(z.wire) = {}
    BY <1>2, <1>3, <1>9 DEF OneWrite
  <2>4. Plain(z) => /\ z.can /\ z.count = Cardinality(Listed(z))
                    /\ \A q \in Listed(z) :
                          /\ z.reg[q].told # "ok"
                          /\ q \in ToSet(z.regQ) \/ (TRUE /\ q = r)
    BY <1>2, <1>3, <1>4, <1>5, <2>1, <2>2
  <2>5. \A i \in Ccc(z.wire) : z.wire[i].arg /\ z.wire[i].live => z.wire[i].who # r
    BY <1>3
  <2>6. /\ RegWaits(u) /\ Counted(u) /\ OneWrite(u) /\ Enabled(u, on)
        /\ Lasting(u, on)
    BY <1>2, <1>3, <2>1, <2>3, <2>4, <2>5, WriteCccKeeps
  <2>7. /\ u \in Client /\ SameOp(z, u) /\ u.wire = Append(z.wire, CccMsg(r, TRUE))
        /\ CccMsg(r, TRUE) \in Message
    BY <1>2, <2>1, WriteCccIs
  <2>8. Same(t.wire, u.wire, Rest(t.wire), Rest(u.wire))
    <3>1. t.wire \in Seq(Message) /\ CccMsg(r, TRUE).pdu = "ccc"
      BY DEF Client, CccMsg
    <3> QED
      BY <1>2, <2>7, <3>1, SameSent
  <2> QED
    BY <1>0, <1>2, <2>6, <2>7, <2>8 DEF RegInv, SameOp
<1>10. CASE ~t.writing /\ ~(z.count > 1 \/ ~z.hasCcc) /\ ~CanEnable(z)
  <2> DEFINE x == z.reg[r]
             d == [x EXCEPT !.listed = FALSE, !.told = "refused"]
             g == [z.reg EXCEPT ![r] = d]
  <2>1. z.reg \in Seq(Registration) /\ r \in DOMAIN z.reg /\ x \in Registration
    BY <1>2 DEF Client
  <2>2. d \in Registration /\ ~d.listed
    <3> HIDE DEF x
    <3> QED
      BY <2>1 DEF Registration
  <2>3. u = [z EXCEPT !.reg = g, !.leak = TRUE]
    <3>1. PICK h : h = [z.reg EXCEPT ![r].listed = FALSE, ![r].told = "refused"]
      OBVIOUS
    <3>2. h = g
      BY <2>1, <3>1 DEF Registration
    <3>3. Drop(z, r) = [z EXCEPT !.reg = h, !.leak = TRUE]
      BY <1>2, <2>1, <3>1 DEF Drop, Client, Registration
    <3> QED
      BY <1>6, <1>10, <3>2, <3>3
  <2> HIDE DEF d
  <2>4. /\ g \in Seq(Registration) /\ Len(g) = Len(z.reg) /\ DOMAIN g = DOMAIN z.reg
        /\ g[r] = d /\ \A k \in DOMAIN z.reg : k # r => g[k] = z.reg[k]
        /\ g # <<>>
    BY <2>1, <2>2, SetEntry
  <2> HIDE DEF g
  <2>5. /\ u \in Client /\ SameOp(z, u) /\ u.wire = z.wire /\ u.regQ = z.regQ /\ u.reg = g
        /\ u.hasCcc = z.hasCcc /\ u.can = z.can /\ u.count = z.count
        /\ u.writing = z.writing /\ u.crashed = z.crashed /\ u.leak
        /\ u.stuck = z.stuck /\ u.overlap = z.overlap
    BY <1>2, <2>3, <2>4 DEF Client, SameOp
  <2>6. RegWaits(u)
    <3>1. RegQueued(u)
      BY <1>2, <1>3, <2>4, <2>5 DEF RegWaits, RegQueued
    <3>2. ASSUME NEW i \in Ccc(u.wire) PROVE CccEntry(u, u.wire[i])
      <4>1. CccEntry(z, u.wire[i]) /\ u.wire[i].who # r
        BY <1>3, <2>5 DEF RegWaits
      <4> QED
        BY <2>4, <2>5, <4>1 DEF CccEntry
    <3> QED
      BY <1>3, <2>5, <3>1, <3>2 DEF RegWaits
  <2>7. Listed(u) = {}
    <3>1. Listed(u) = Listed(t)
      BY <1>2, <2>2, <2>4, <2>5 DEF Listed
    <3> QED
      BY <1>10, <1>b, <3>1
  <2>8. u.count = t.count + 1 /\ Cardinality(Listed(u)) = 0
    BY <1>2, <2>5, <2>7, FS_EmptySet
  <2>9. Counted(u)
    BY <1>3, <1>4, <2>4, <2>5, <2>8 DEF Counted
  <2>10. OneWrite(u) /\ Enabled(u, on)
    BY <1>3, <2>5 DEF OneWrite, Enabled, Plain
  <2>11. Lasting(u, on)
    <3> SUFFICES ASSUME Off(u) PROVE Lasting(u, on)
      BY DEF Lasting
    <3>1. Off(z) \/ Ccc(z.wire) = {}
      BY <1>2, <1>3, <1>10, <2>5 DEF Off, OneWrite, SameOp
    <3>2. \A i \in Ccc(u.wire) : u.wire[i].arg
      BY <1>3, <2>5, <3>1 DEF Lasting
    <3> QED
      BY <1>4, <2>7, <2>8, <3>2 DEF Lasting
  <2> QED
    BY <1>0, <1>2, <2>5, <2>6, <2>9, <2>10, <2>11, SameInPlace DEF RegInv, SameOp
<1> QED
  BY <1>7, <1>8, <1>9, <1>10

(* bt_att_cancel(): of the requests at the places "at" none is left that   *)
(* has its callback; the others are as they were                           *)
Cancelled(a, at, b) ==
    \E f \in [DOMAIN b -> DOMAIN a] :
        /\ \A k, l \in DOMAIN b : f[k] = f[l] => k = l
        /\ \A m \in DOMAIN a : m \notin at => \E k \in DOMAIN b : f[k] = m
        /\ \A k \in DOMAIN b : f[k] \notin at => b[k] = a[f[k]]
        /\ \A k \in DOMAIN b : f[k] \in at =>
              /\ ~b[k].live /\ b[k].pdu = a[f[k]].pdu /\ b[k].who = a[f[k]].who
              /\ b[k].arg = a[f[k]].arg /\ b[k].cb = a[f[k]].cb

LEMMA CancelSentIs ==
    ASSUME NEW t \in Client, NEW at, at \subseteq DOMAIN t.wire, \A i, k \in at : i = k
    PROVE  LET u == CancelSent(t, at)
           IN  /\ u \in Client /\ SameReg(t, u) /\ SameOp(t, u)
               /\ Cancelled(t.wire, at, u.wire)
<1>0. PICK u : u = CancelSent(t, at)
  OBVIOUS
<1>1. t.wire \in Seq(Message) /\ DOMAIN t.wire = 1 .. Len(t.wire) /\ Len(t.wire) \in Nat
  BY DEF Client
<1>2. CASE at = {}
  <2>1. u = t
    BY <1>0, <1>2 DEF CancelSent
  <2> DEFINE f == [k \in DOMAIN t.wire |-> k]
  <2>2. f \in [DOMAIN t.wire -> DOMAIN t.wire] /\ \A k \in DOMAIN t.wire : f[k] = k
    OBVIOUS
  <2> HIDE DEF f
  <2>3. Cancelled(t.wire, at, t.wire)
    BY <1>2, <2>2 DEF Cancelled
  <2> QED
    BY <1>0, <2>1, <2>3 DEF SameReg, SameOp
<1>3. CASE 1 \in at
  <2> DEFINE x == t.wire[1]
             d == [x EXCEPT !.live = FALSE]
             g == [t.wire EXCEPT ![1] = d]
             f == [k \in DOMAIN t.wire |-> k]
  <2>1. 1 \in DOMAIN t.wire /\ x \in Message
    BY <1>1, <1>3
  <2>2. /\ d \in Message /\ ~d.live /\ d.pdu = x.pdu /\ d.who = x.who
        /\ d.arg = x.arg /\ d.cb = x.cb
    <3> HIDE DEF x
    <3> QED
      BY <2>1 DEF Message
  <2>3. u = [t EXCEPT !.wire = g]
    BY <1>0, <1>3 DEF CancelSent
  <2> HIDE DEF d
  <2>4. /\ g \in Seq(Message) /\ DOMAIN g = DOMAIN t.wire
        /\ g[1] = d /\ \A k \in DOMAIN t.wire : k # 1 => g[k] = t.wire[k]
    BY <1>1, <2>1, <2>2, SetEntry
  <2> HIDE DEF g
  <2>5. u \in Client /\ u.wire = g /\ SameReg(t, u) /\ SameOp(t, u)
    BY <2>3, <2>4 DEF Client, SameReg, SameOp
  <2>6. f \in [DOMAIN g -> DOMAIN t.wire] /\ \A k \in DOMAIN g : f[k] = k
    BY <2>4
  <2> HIDE DEF f
  <2>7. \A k \in DOMAIN g : k \in at => k = 1
    BY <1>3
  <2>8. Cancelled(t.wire, at, g)
    <3>1. \A k \in DOMAIN g : f[k] \notin at => g[k] = t.wire[f[k]]
      BY <1>3, <2>4, <2>6
    <3>2. \A k \in DOMAIN g : f[k] \in at =>
              /\ ~g[k].live /\ g[k].pdu = t.wire[f[k]].pdu /\ g[k].who = t.wire[f[k]].who
              /\ g[k].arg = t.wire[f[k]].arg /\ g[k].cb = t.wire[f[k]].cb
      BY <2>2, <2>4, <2>6, <2>7
    <3> QED
      BY <2>4, <2>6, <3>1, <3>2 DEF Cancelled
  <2> QED
    BY <1>0, <2>5, <2>8
<1>4. CASE at # {} /\ 1 \notin at
  <2>1. PICK i : i = CHOOSE k \in at : TRUE
    OBVIOUS
  <2>2. i \in at /\ at = {i}
    BY <1>4, <2>1
  <2>3. PICK b : b = RemoveAt(t.wire, i)
    OBVIOUS
  <2>4. u = [t EXCEPT !.wire = b]
    BY <1>0, <1>4, <2>1, <2>3 DEF CancelSent
  <2>5. Without(t.wire, i, b)
    <3>1. i \in DOMAIN t.wire
      BY <2>2
    <3>2. t.wire # <<>>
      BY <1>1, <3>1
    <3> QED
      BY <1>1, <2>3, <3>1, <3>2, PopWire
  <2>6. u \in Client /\ u.wire = b /\ SameReg(t, u) /\ SameOp(t, u)
    BY <2>4, <2>5 DEF Without, Client, SameReg, SameOp
  <2> DEFINE f == [k \in DOMAIN b |-> Origin(i, k)]
  <2>7. f \in [DOMAIN b -> DOMAIN t.wire] /\ \A k \in DOMAIN b : f[k] = Origin(i, k)
    BY <2>5 DEF Without
  <2> HIDE DEF f
  <2>8. Cancelled(t.wire, at, b)
    BY <2>2, <2>5, <2>7 DEF Without, Cancelled
  <2> QED
    BY <1>0, <2>6, <2>8
<1> QED
  BY <1>2, <1>3, <1>4

LEMMA CancelledSame ==
    ASSUME NEW a, NEW b, NEW at, Cancelled(a, at, b)
    PROVE  /\ at \subseteq Ccc(a) => Same(a, b, Rest(a), Rest(b))
           /\ at \subseteq Rest(a) => Same(a, b, Ccc(a), Ccc(b))
<1>1. PICK f \in [DOMAIN b -> DOMAIN a] :
        /\ \A k, l \in DOMAIN b : f[k] = f[l] => k = l
        /\ \A m \in DOMAIN a : m \notin at => \E k \in DOMAIN b : f[k] = m
        /\ \A k \in DOMAIN b : f[k] \notin at => b[k] = a[f[k]]
        /\ \A k \in DOMAIN b : f[k] \in at =>
              /\ ~b[k].live /\ b[k].pdu = a[f[k]].pdu /\ b[k].who = a[f[k]].who
              /\ b[k].arg = a[f[k]].arg /\ b[k].cb = a[f[k]].cb
  BY DEF Cancelled
<1>2. \A k \in DOMAIN b : f[k] \in DOMAIN a /\ b[k].pdu = a[f[k]].pdu
  BY <1>1
<1>3. ASSUME at \subseteq Ccc(a) PROVE Same(a, b, Rest(a), Rest(b))
  <2> DEFINE g == [k \in Rest(b) |-> f[k]]
  <2>1. g \in [Rest(b) -> Rest(a)] /\ \A k \in Rest(b) : g[k] = f[k]
    BY <1>2 DEF Rest
  <2>2. \A k \in Rest(b) : k \in DOMAIN b /\ f[k] \notin at
    BY <1>2, <1>3 DEF Rest, Ccc
  <2>3. \A m \in Rest(a) : m \in DOMAIN a /\ m \notin at
    BY <1>3 DEF Rest, Ccc
  <2> HIDE DEF g
  <2>4. \A m \in Rest(a) : \E k \in Rest(b) : g[k] = m
    <3> SUFFICES ASSUME NEW m \in Rest(a) PROVE \E k \in Rest(b) : g[k] = m
      OBVIOUS
    <3>1. PICK k \in DOMAIN b : f[k] = m
      BY <1>1, <2>3
    <3>2. k \in Rest(b)
      BY <1>2, <3>1 DEF Rest
    <3> QED
      BY <2>1, <3>1, <3>2
  <2> QED
    BY <1>1, <2>1, <2>2, <2>4 DEF Same
<1>4. ASSUME at \subseteq Rest(a) PROVE Same(a, b, Ccc(a), Ccc(b))
  <2> DEFINE g == [k \in Ccc(b) |-> f[k]]
  <2>1. g \in [Ccc(b) -> Ccc(a)] /\ \A k \in Ccc(b) : g[k] = f[k]
    BY <1>2 DEF Ccc
  <2>2. \A k \in Ccc(b) : k \in DOMAIN b /\ f[k] \notin at
    BY <1>2, <1>4 DEF Rest, Ccc
  <2>3. \A m \in Ccc(a) : m \in DOMAIN a /\ m \notin at
    BY <1>4 DEF Rest, Ccc
  <2> HIDE DEF g
  <2>4. \A m \in Ccc(a) : \E k \in Ccc(b) : g[k] = m
    <3> SUFFICES ASSUME NEW m \in Ccc(a) PROVE \E k \in Ccc(b) : g[k] = m
      OBVIOUS
    <3>1. PICK k \in DOMAIN b : f[k] = m
      BY <1>1, <2>3
    <3>2. k \in Ccc(b)
      BY <1>2, <3>1 DEF Ccc
    <3> QED
      BY <2>1, <3>1, <3>2
  <2> QED
    BY <1>1, <2>1, <2>2, <2>4 DEF Same
<1> QED
  BY <1>3, <1>4

(* bt_gatt_client_unregister_notify(): the registration leaves the list    *)
(* and the queue                                                           *)
Unlisted(t, r) ==
    [t EXCEPT !.reg[r].listed = FALSE, !.regQ = RemoveFirst(@, r)]

LEMMA UnlistedIs ==
    ASSUME NEW t \in Client, NEW r \in DOMAIN t.reg, Distinct(t.regQ)
    PROVE  LET u == Unlisted(t, r)
           IN  /\ u \in Client /\ SameOp(t, u) /\ u.wire = t.wire
               /\ u.hasCcc = t.hasCcc /\ u.can = t.can /\ u.count = t.count
               /\ u.writing = t.writing /\ u.crashed = t.crashed /\ u.leak = t.leak
               /\ u.stuck = t.stuck /\ u.overlap = t.overlap
               /\ Distinct(u.regQ) /\ ToSet(u.regQ) = ToSet(t.regQ) \ {r}
               /\ Len(u.reg) = Len(t.reg) /\ DOMAIN u.reg = DOMAIN t.reg
               /\ u.reg # <<>> /\ ~u.reg[r].listed /\ u.reg[r].att = t.reg[r].att
               /\ \A q \in DOMAIN t.reg : q # r => u.reg[q] = t.reg[q]
<1> DEFINE x == t.reg[r]
           d == [x EXCEPT !.listed = FALSE]
           g == [t.reg EXCEPT ![r] = d]
           h == RemoveFirst(t.regQ, r)
<1>1. t.reg \in Seq(Registration) /\ x \in Registration /\ t.regQ \in Seq(Nat)
  BY DEF Client
<1>2. d \in Registration /\ ~d.listed /\ d.att = x.att
  <2> HIDE DEF x
  <2> QED
    BY <1>1 DEF Registration
<1>3. h \in Seq(Nat) /\ Distinct(h) /\ ToSet(h) = ToSet(t.regQ) \ {r}
  BY <1>1, RemoveIf
<1>4. Unlisted(t, r) = [t EXCEPT !.reg = g, !.regQ = h]
  BY DEF Unlisted, Client
<1> HIDE DEF d, h
<1>5. /\ g \in Seq(Registration) /\ Len(g) = Len(t.reg) /\ DOMAIN g = DOMAIN t.reg
      /\ g[r] = d /\ \A k \in DOMAIN t.reg : k # r => g[k] = t.reg[k]
      /\ g # <<>>
  BY <1>1, <1>2, SetEntry
<1> HIDE DEF g
<1>6. PICK u : u = Unlisted(t, r)
  OBVIOUS
<1>7. u \in Client /\ u.reg = g /\ u.regQ = h
  BY <1>3, <1>4, <1>5, <1>6 DEF Client
<1>8. /\ SameOp(t, u) /\ u.wire = t.wire
      /\ u.hasCcc = t.hasCcc /\ u.can = t.can /\ u.count = t.count
      /\ u.writing = t.writing /\ u.crashed = t.crashed /\ u.leak = t.leak
      /\ u.stuck = t.stuck /\ u.overlap = t.overlap
  BY <1>4, <1>6 DEF Client, SameOp
<1> QED
  BY <1>2, <1>3, <1>5, <1>6, <1>7, <1>8

LEMMA UnlistedKeeps ==
    ASSUME NEW t \in Client, NEW r \in DOMAIN t.reg, NEW on, RegInv(t, on), t.reg[r].listed
    PROVE  LET u == Unlisted(t, r)
           IN  /\ RegQueued(u)
               /\ \A i \in Ccc(u.wire) :
                     u.wire[i].who # r => CccEntry(u, u.wire[i])
               /\ \A i \in Ccc(u.wire) : u.wire[i].who = r /\ u.wire[i].live =>
                                            u.wire[i].arg /\ u.reg[r].att
               /\ Listed(u) = Listed(t) \ {r}
               /\ Cardinality(Listed(u)) = Cardinality(Listed(t)) - 1
               /\ Cardinality(Listed(t)) \in Nat \ {0} /\ t.count \in Nat \ {0}
               /\ Cardinality(Listed(u)) \in Nat /\ IsFiniteSet(Listed(u))
               /\ \A i \in Ccc(u.wire) :
                     u.wire[i].who = r /\ ~u.wire[i].live => CccEntry(u, u.wire[i])
<1>0. PICK u : u = Unlisted(t, r)
  OBVIOUS
<1>1. Distinct(t.regQ)
  BY DEF RegInv, RegWaits, RegQueued
<1>2. /\ u.wire = t.wire /\ u.stuck = t.stuck
      /\ Distinct(u.regQ) /\ ToSet(u.regQ) = ToSet(t.regQ) \ {r}
      /\ DOMAIN u.reg = DOMAIN t.reg
      /\ ~u.reg[r].listed /\ u.reg[r].att = t.reg[r].att
      /\ \A q \in DOMAIN t.reg : q # r => u.reg[q] = t.reg[q]
  BY <1>0, <1>1, UnlistedIs
<1>3. RegQueued(u)
  BY <1>2 DEF RegInv, RegWaits, RegQueued
<1>4. ASSUME NEW i \in Ccc(u.wire)
      PROVE  /\ u.wire[i].who # r => CccEntry(u, u.wire[i])
             /\ u.wire[i].who = r /\ u.wire[i].live => u.wire[i].arg /\ u.reg[r].att
             /\ u.wire[i].who = r /\ ~u.wire[i].live => CccEntry(u, u.wire[i])
  <2>1. CccEntry(t, u.wire[i])
    BY <1>2 DEF RegInv, RegWaits
  <2> QED
    BY <1>2, <2>1 DEF CccEntry
<1>5. Listed(u) = Listed(t) \ {r} /\ r \in Listed(t)
  BY <1>2 DEF Listed
<1>6. IsFiniteSet(Listed(t)) /\ Cardinality(Listed(t)) \in Nat /\ t.count \in Nat
  <2>1. t.count \in Nat
    BY DEF Client
  <2> QED
    BY <2>1, ListedFinite
<1>7. /\ Cardinality(Listed(u)) = Cardinality(Listed(t)) - 1
      /\ IsFiniteSet(Listed(u))
  BY <1>5, <1>6, FS_RemoveElement
<1>8. Cardinality(Listed(t)) # 0
  BY <1>5, <1>6, FS_EmptySet
<1>9. Cardinality(Listed(u)) \in Nat
  BY <1>7, FS_CardinalityType
<1>10. t.count # 0
  BY <1>6, <1>8 DEF RegInv, Counted
<1> QED
  BY <1>0, <1>3, <1>4, <1>5, <1>6, <1>7, <1>8, <1>9, <1>10

(* its write of the CCC is cancelled *)
LEMMA UnregisterCancels ==
    ASSUME NEW t \in Client, NEW r \in DOMAIN t.reg, NEW on, RegInv(t, on),
           t.reg[r].listed, t.reg[r].att
    PROVE  LET u == Unlisted(t, r)
               v == [CancelSent(u, SentFor(u, r, TRUE)) EXCEPT
                        !.reg[r].att = FALSE, !.stuck = TRUE]
           IN  /\ v \in Client /\ RegInv(v, on) /\ SameOp(t, v)
               /\ Same(t.wire, v.wire, Rest(t.wire), Rest(v.wire))
<1>1. PICK u : u = Unlisted(t, r)
  OBVIOUS
<1>2. PICK at : at = SentFor(u, r, TRUE)
  OBVIOUS
<1>3. PICK y : y = CancelSent(u, at)
  OBVIOUS
<1>4. PICK v : v = [y EXCEPT !.reg[r].att = FALSE, !.stuck = TRUE]
  OBVIOUS
<1>5. Distinct(t.regQ)
  BY DEF RegInv, RegWaits, RegQueued
<1>6. /\ u \in Client /\ SameOp(t, u) /\ u.wire = t.wire
      /\ u.hasCcc = t.hasCcc /\ u.can = t.can /\ u.count = t.count
      /\ u.stuck = t.stuck /\ u.overlap = t.overlap
      /\ Distinct(u.regQ) /\ ToSet(u.regQ) = ToSet(t.regQ) \ {r}
      /\ Len(u.reg) = Len(t.reg) /\ DOMAIN u.reg = DOMAIN t.reg
      /\ u.reg # <<>> /\ ~u.reg[r].listed
      /\ \A q \in DOMAIN t.reg : q # r => u.reg[q] = t.reg[q]
  BY <1>1, <1>5, UnlistedIs
<1>7. /\ RegQueued(u)
      /\ \A i \in Ccc(u.wire) : u.wire[i].who # r => CccEntry(u, u.wire[i])
      /\ \A i \in Ccc(u.wire) : u.wire[i].who = r /\ u.wire[i].live => u.wire[i].arg
      /\ Cardinality(Listed(u)) = Cardinality(Listed(t)) - 1
      /\ Cardinality(Listed(t)) \in Nat \ {0} /\ t.count \in Nat \ {0}
      /\ \A i \in Ccc(u.wire) :
            u.wire[i].who = r /\ ~u.wire[i].live => CccEntry(u, u.wire[i])
  BY <1>1, UnlistedKeeps
<1>8. /\ at \subseteq Ccc(u.wire) /\ at \subseteq DOMAIN u.wire
      /\ \A i \in Ccc(u.wire) : i \in at <=> u.wire[i].live /\ u.wire[i].who = r
  BY <1>2 DEF SentFor, Ccc
<1>9. \A i, k \in at : i = k
  <2> SUFFICES ASSUME NEW i \in at, NEW k \in at PROVE i = k
    OBVIOUS
  <2>1. /\ i \in Ccc(t.wire) /\ k \in Ccc(t.wire) /\ t.wire[i].arg /\ t.wire[i].live
        /\ t.wire[k].arg /\ t.wire[k].live /\ t.wire[i].who = t.wire[k].who
    BY <1>6, <1>7, <1>8
  <2> QED
    BY <2>1 DEF RegInv, RegWaits
<1>10. y \in Client /\ SameReg(u, y) /\ SameOp(u, y) /\ Cancelled(u.wire, at, y.wire)
  BY <1>3, <1>6, <1>8, <1>9, CancelSentIs
<1>11. /\ v \in Client /\ SameOp(y, v) /\ v.wire = y.wire /\ v.stuck
       /\ v.overlap = y.overlap
       /\ v.regQ = y.regQ /\ v.count = y.count /\ v.hasCcc = y.hasCcc /\ v.can = y.can
       /\ Len(v.reg) = Len(y.reg) /\ DOMAIN v.reg = DOMAIN y.reg /\ v.reg # <<>>
       /\ v.reg[r].listed = y.reg[r].listed
       /\ \A q \in DOMAIN y.reg : q # r => v.reg[q] = y.reg[q]
  <2> DEFINE d == [y.reg[r] EXCEPT !.att = FALSE]
             g == [y.reg EXCEPT ![r] = d]
  <2>1. y.reg \in Seq(Registration) /\ y.reg[r] \in Registration /\ r \in DOMAIN y.reg
    BY <1>6, <1>10 DEF Client, SameReg
  <2>2. d \in Registration /\ d.listed = y.reg[r].listed
    BY <2>1, AttSet
  <2>3. v = [y EXCEPT !.reg = g, !.stuck = TRUE]
    BY <1>4
  <2> HIDE DEF d
  <2>4. /\ g \in Seq(Registration) /\ Len(g) = Len(y.reg) /\ DOMAIN g = DOMAIN y.reg
        /\ g[r] = d /\ \A k \in DOMAIN y.reg : k # r => g[k] = y.reg[k]
        /\ g # <<>>
    BY <2>1, <2>2, SetEntry
  <2> HIDE DEF g
  <2>5. v \in Client /\ v.reg = g /\ v.stuck
    BY <1>10, <2>3, <2>4 DEF Client
  <2>6. SameOp(y, v) /\ v.wire = y.wire /\ v.regQ = y.regQ /\ v.count = y.count
        /\ v.overlap = y.overlap /\ v.hasCcc = y.hasCcc /\ v.can = y.can
    BY <1>10, <2>3 DEF Client, SameOp
  <2> QED
    BY <2>2, <2>4, <2>5, <2>6
<1>12. PICK f \in [DOMAIN v.wire -> DOMAIN u.wire] :
        /\ \A k, l \in DOMAIN v.wire : f[k] = f[l] => k = l
        /\ \A k \in DOMAIN v.wire : f[k] \notin at => v.wire[k] = u.wire[f[k]]
        /\ \A k \in DOMAIN v.wire : f[k] \in at =>
              /\ ~v.wire[k].live /\ v.wire[k].pdu = u.wire[f[k]].pdu
              /\ v.wire[k].who = u.wire[f[k]].who
              /\ v.wire[k].arg = u.wire[f[k]].arg /\ v.wire[k].cb = u.wire[f[k]].cb
  BY <1>10, <1>11 DEF Cancelled
<1>13. \A k \in Ccc(v.wire) : f[k] \in Ccc(u.wire)
  BY <1>12 DEF Ccc
<1>14. RegWaits(v)
  <2>1. RegQueued(v)
    BY <1>6, <1>7, <1>10, <1>11 DEF RegQueued, SameReg
  <2>2. ASSUME NEW k \in Ccc(v.wire) PROVE CccEntry(v, v.wire[k])
    <3>1. k \in DOMAIN v.wire /\ f[k] \in Ccc(u.wire)
      BY <1>13 DEF Ccc
    <3>2. CASE f[k] \in at
      <4>1. CccEntry(t, u.wire[f[k]])
        BY <1>6, <3>1 DEF RegInv, RegWaits
      <4>2. u.wire[f[k]].arg /\ u.wire[f[k]].who = r
        BY <1>7, <1>8, <3>1, <3>2
      <4> QED
        BY <1>6, <1>10, <1>11, <1>12, <3>1, <3>2, <4>1, <4>2 DEF CccEntry, SameReg
    <3>3. CASE f[k] \notin at
      <4>1. CccEntry(u, v.wire[k]) /\ (v.wire[k].live => v.wire[k].who # r)
        BY <1>7, <1>8, <1>12, <3>1, <3>3
      <4>2. \A q \in DOMAIN u.reg : v.reg[q].listed = u.reg[q].listed
        BY <1>6, <1>10, <1>11 DEF SameReg
      <4> QED
        BY <1>6, <1>10, <1>11, <4>1, <4>2 DEF CccEntry, SameReg
    <3> QED
      BY <3>2, <3>3
  <2>3. ASSUME NEW k \in Ccc(v.wire), NEW l \in Ccc(v.wire),
               v.wire[k].arg, v.wire[k].live, v.wire[l].arg, v.wire[l].live,
               v.wire[k].who = v.wire[l].who
        PROVE  k = l
    <3>1. k \in DOMAIN v.wire /\ l \in DOMAIN v.wire
      BY DEF Ccc
    <3>2. v.wire[k] = t.wire[f[k]] /\ v.wire[l] = t.wire[f[l]]
      BY <1>6, <1>12, <2>3, <3>1
    <3>3. f[k] \in Ccc(t.wire) /\ f[l] \in Ccc(t.wire)
      BY <1>6, <1>13
    <3>4. f[k] = f[l]
      BY <2>3, <3>2, <3>3 DEF RegInv, RegWaits
    <3> QED
      BY <1>12, <3>1, <3>4
  <2> QED
    BY <2>1, <2>2, <2>3 DEF RegWaits
<1>15. Listed(v) = Listed(u)
  BY <1>6, <1>10, <1>11 DEF Listed, SameReg
<1>16. Counted(v)
  <2>1. /\ v.count = t.count /\ Len(v.reg) = Len(t.reg) /\ t.count >= Cardinality(Listed(t))
        /\ t.count <= Len(t.reg) /\ Len(t.reg) <= MaxCalls
    BY <1>6, <1>10, <1>11 DEF SameReg, RegInv, Counted
  <2>2. v.count >= Cardinality(Listed(v))
    BY <1>7, <1>15, <2>1
  <2> QED
    BY <1>11, <2>1, <2>2 DEF Counted
<1>17. OneWrite(v) /\ Enabled(v, on)
  BY <1>11 DEF OneWrite, Enabled, Plain
<1>a. Lasting(v, on)
  <2> SUFFICES ASSUME t.open, t.hasCcc, ~t.overlap PROVE Lasting(v, on)
    <3>1. SameOp(t, v)
      BY <1>6, <1>10, <1>11 DEF SameOp
    <3> QED
      BY <1>6, <1>10, <1>11, <3>1 DEF Lasting, Off, SameOp, SameReg
  <2>1. Off(t) \/ (Plain(t) /\ OneWrite(t))
    BY DEF Off, Plain, RegInv
  <2>2. r \in Listed(t) /\ r \notin ToSet(t.regQ)
    BY DEF Listed, RegInv, RegWaits, RegQueued
  <2>3. \A i \in Ccc(t.wire) : t.wire[i].arg
    <3>1. CASE Off(t)
      BY <3>1 DEF RegInv, Lasting
    <3>2. CASE Plain(t) /\ ~t.writing
      BY <3>2 DEF RegInv, OneWrite, Plain
    <3>3. CASE Plain(t) /\ t.writing
      <4>1. \E i \in Ccc(t.wire) : t.wire[i].arg
        BY <2>2, <3>3 DEF RegInv, Enabled
      <4>2. \A i, k \in Ccc(t.wire) : i = k
        BY <3>3 DEF RegInv, OneWrite, Plain
      <4> QED
        BY <4>1, <4>2
    <3> QED
      BY <2>1, <3>1, <3>2, <3>3
  <2>4. \A k \in Ccc(v.wire) : v.wire[k].arg
    <3> SUFFICES ASSUME NEW k \in Ccc(v.wire) PROVE v.wire[k].arg
      OBVIOUS
    <3>1. k \in DOMAIN v.wire /\ f[k] \in Ccc(t.wire) /\ u.wire = t.wire
      BY <1>6, <1>13 DEF Ccc
    <3>2. v.wire[k].arg = t.wire[f[k]].arg
      BY <1>12, <3>1
    <3> QED
      BY <2>3, <3>1, <3>2
  <2>5. ASSUME NEW q \in Listed(v), Knows(v, q) PROVE on
    <3>1. q \in DOMAIN t.reg /\ q # r
      BY <1>6, <1>10, <1>11, <2>5 DEF Listed, SameReg
    <3>2. v.reg[q] = t.reg[q]
      BY <1>6, <1>10, <1>11, <3>1 DEF SameReg
    <3>3. q \in Listed(t) /\ Knows(t, q)
      BY <2>5, <3>1, <3>2 DEF Listed, Knows
    <3>4. CASE Off(t)
      BY <3>3, <3>4 DEF RegInv, Lasting
    <3>5. CASE Plain(t) /\ t.writing
      BY <3>3, <3>5 DEF RegInv, Enabled, Knows
    <3>6. CASE Plain(t) /\ ~t.writing
      BY <1>7, <3>6 DEF RegInv, Enabled
    <3> QED
      BY <2>1, <3>4, <3>5, <3>6
  <2>6. v.count > Cardinality(Listed(v))
    <3>1. v.count = t.count /\ t.count >= Cardinality(Listed(t))
      BY <1>6, <1>10, <1>11 DEF SameReg, RegInv, Counted
    <3> QED
      BY <1>7, <1>15, <3>1
  <2> QED
    BY <2>4, <2>5, <2>6 DEF Lasting
<1>18. Same(t.wire, v.wire, Rest(t.wire), Rest(v.wire))
  BY <1>6, <1>8, <1>10, <1>11, CancelledSame
<1>19. SameOp(t, v) /\ v \in Client /\ RegInv(v, on)
  BY <1>6, <1>10, <1>11, <1>14, <1>16, <1>17, <1>a DEF SameOp, RegInv
<1> QED
  BY <1>1, <1>2, <1>3, <1>4, <1>18, <1>19

(* bt_gatt_client_unregister_notify() *)
LEMMA UnregisterKeeps ==
    ASSUME NEW t \in Client, NEW r \in DOMAIN t.reg, NEW on, RegInv(t, on), t.open,
           t.reg[r].listed
    PROVE  LET u == UnregisterNotify(t, r)
           IN  /\ u \in Client /\ RegInv(u, on) /\ SameOp(t, u)
               /\ Same(t.wire, u.wire, Rest(t.wire), Rest(u.wire))
<1>0. PICK z : z = UnregisterNotify(t, r)
  OBVIOUS
<1>1. PICK u : u = Unlisted(t, r)
  OBVIOUS
<1>2. PICK v : v = [u EXCEPT !.count = @ - 1]
  OBVIOUS
<1>3. /\ u.reg[r].att => z = [CancelSent(u, SentFor(u, r, TRUE)) EXCEPT
                                 !.reg[r].att = FALSE, !.stuck = TRUE]
      /\ ~u.reg[r].att /\ (v.count # 0 \/ ~v.hasCcc) => z = v
      /\ ~u.reg[r].att /\ ~(v.count # 0 \/ ~v.hasCcc) =>
            z = WriteCcc([v EXCEPT !.overlap = @ \/ t.writing], r, FALSE)
  BY <1>0, <1>1, <1>2 DEF UnregisterNotify, Unlisted
<1>4. Distinct(t.regQ)
  BY DEF RegInv, RegWaits, RegQueued
<1>5. /\ u \in Client /\ SameOp(t, u) /\ u.wire = t.wire
      /\ u.hasCcc = t.hasCcc /\ u.can = t.can /\ u.count = t.count
      /\ u.writing = t.writing /\ u.crashed = t.crashed /\ u.leak = t.leak
      /\ u.stuck = t.stuck /\ u.overlap = t.overlap
      /\ ToSet(u.regQ) = ToSet(t.regQ) \ {r}
      /\ Len(u.reg) = Len(t.reg) /\ DOMAIN u.reg = DOMAIN t.reg
      /\ u.reg # <<>> /\ ~u.reg[r].listed /\ u.reg[r].att = t.reg[r].att
      /\ \A q \in DOMAIN t.reg : q # r => u.reg[q] = t.reg[q]
  BY <1>1, <1>4, UnlistedIs
<1>6. /\ RegQueued(u)
      /\ \A i \in Ccc(u.wire) : u.wire[i].who # r => CccEntry(u, u.wire[i])
      /\ \A i \in Ccc(u.wire) : u.wire[i].who = r /\ u.wire[i].live => u.reg[r].att
      /\ Listed(u) = Listed(t) \ {r}
      /\ Cardinality(Listed(u)) = Cardinality(Listed(t)) - 1
      /\ Cardinality(Listed(t)) \in Nat \ {0} /\ t.count \in Nat \ {0}
      /\ Cardinality(Listed(u)) \in Nat /\ IsFiniteSet(Listed(u))
      /\ \A i \in Ccc(u.wire) :
            u.wire[i].who = r /\ ~u.wire[i].live => CccEntry(u, u.wire[i])
  BY <1>1, UnlistedKeeps
<1>7. CASE u.reg[r].att
  <2>1. z = [CancelSent(u, SentFor(u, r, TRUE)) EXCEPT !.reg[r].att = FALSE, !.stuck = TRUE]
    BY <1>3, <1>7
  <2>2. /\ z \in Client /\ RegInv(z, on) /\ SameOp(t, z)
        /\ Same(t.wire, z.wire, Rest(t.wire), Rest(z.wire))
    BY <1>1, <1>5, <1>7, <2>1, UnregisterCancels
  <2> QED
    BY <1>0, <2>2
<1>8. ASSUME ~u.reg[r].att
      PROVE  /\ v \in Client /\ SameOp(u, v) /\ v.wire = u.wire /\ v.regQ = u.regQ
             /\ v.reg = u.reg /\ v.count = t.count - 1
             /\ v.hasCcc = u.hasCcc /\ v.can = u.can
             /\ v.writing = u.writing /\ v.crashed = u.crashed /\ v.leak = u.leak
             /\ v.stuck = u.stuck /\ v.overlap = u.overlap
             /\ RegWaits(v) /\ Counted(v) /\ OneWrite(v) /\ Listed(v) = Listed(u)
             /\ Lasting(v, on)
  <2>1. PICK n \in Nat : n = t.count - 1
    BY <1>6
  <2>2. v = [u EXCEPT !.count = n]
    BY <1>2, <1>5, <2>1
  <2>3. v \in Client /\ v.count = n
    BY <1>5, <2>2 DEF Client
  <2>4. /\ SameOp(u, v) /\ v.wire = u.wire /\ v.regQ = u.regQ
        /\ v.reg = u.reg /\ v.hasCcc = u.hasCcc /\ v.can = u.can
        /\ v.writing = u.writing /\ v.crashed = u.crashed /\ v.leak = u.leak
        /\ v.stuck = u.stuck /\ v.overlap = u.overlap
    BY <1>5, <2>2 DEF Client, SameOp
  <2>5. \A i \in Ccc(v.wire) : CccEntry(v, v.wire[i])
    <3>1. \A i \in Ccc(u.wire) : CccEntry(u, u.wire[i])
      BY <1>6, <1>8
    <3> QED
      BY <2>4, <3>1 DEF CccEntry
  <2>6. RegQueued(v)
    BY <1>6, <2>4 DEF RegQueued
  <2>7. RegWaits(v)
    BY <1>5, <2>4, <2>5, <2>6 DEF RegWaits, RegInv
  <2>8. Listed(v) = Listed(u)
    BY <2>4 DEF Listed
  <2>9. Counted(v)
    <3>1. /\ t.count >= Cardinality(Listed(t)) /\ t.count <= Len(t.reg)
          /\ Len(t.reg) <= MaxCalls /\ Len(t.reg) \in Nat
      BY ListedFinite DEF RegInv, Counted
    <3>2. v.count >= Cardinality(Listed(v)) /\ v.count <= Len(v.reg)
      BY <1>5, <1>6, <2>1, <2>3, <2>4, <2>8, <3>1
    <3> QED
      BY <1>5, <2>4, <3>1, <3>2 DEF Counted
  <2>10. OneWrite(v)
    BY <1>5, <2>4 DEF RegInv, OneWrite
  <2>11. Lasting(v, on)
    <3> SUFFICES ASSUME Off(v) PROVE Lasting(v, on)
      BY DEF Lasting
    <3>1. Off(t)
      BY <1>5, <2>4 DEF Off, SameOp
    <3>2. v.count > Cardinality(Listed(v))
      BY <1>6, <2>1, <2>3, <2>8, <3>1 DEF RegInv, Lasting
    <3>3. ASSUME NEW q \in Listed(v), Knows(v, q) PROVE on
      <4>1. q \in Listed(t) /\ q # r /\ q \in DOMAIN t.reg
        BY <1>6, <2>8 DEF Listed
      <4>2. Knows(t, q)
        BY <1>5, <2>4, <3>3, <4>1 DEF Knows
      <4> QED
        BY <3>1, <4>1, <4>2 DEF RegInv, Lasting
    <3> QED
      BY <1>5, <2>4, <3>1, <3>2, <3>3 DEF RegInv, Lasting
  <2> QED
    BY <2>1, <2>3, <2>4, <2>7, <2>8, <2>9, <2>10, <2>11
<1>9. CASE ~u.reg[r].att /\ (v.count # 0 \/ ~v.hasCcc)
  <2>1. z = v
    BY <1>3, <1>9
  <2>2. Enabled(v, on)
    <3> SUFFICES ASSUME Plain(v) PROVE Enabled(v, on)
      BY DEF Enabled
    <3>1. Plain(t)
      BY <1>5, <1>8, <1>9 DEF Plain, SameOp
    <3>a. t.reg # <<>>
      OBVIOUS
    <3>2. v.count = Cardinality(Listed(v)) /\ v.can
      BY <1>5, <1>6, <1>8, <1>9, <3>1, <3>a DEF RegInv, Enabled
    <3>3. ~v.writing /\ v.count # 0 => on
      BY <1>5, <1>6, <1>8, <1>9, <3>1 DEF RegInv, Enabled
    <3>4. ASSUME v.writing, NEW q \in Listed(v)
          PROVE  /\ v.reg[q].told # "ok"
                 /\ \/ q \in ToSet(v.regQ)
                    \/ \E i \in Ccc(v.wire) : v.wire[i].arg /\ v.wire[i].who = q
      <4>1. q \in Listed(t) /\ q # r /\ q \in DOMAIN t.reg
        BY <1>6, <1>8, <1>9 DEF Listed
      <4>2. /\ t.reg[q].told # "ok"
            /\ \/ q \in ToSet(t.regQ)
               \/ \E i \in Ccc(t.wire) : t.wire[i].arg /\ t.wire[i].who = q
        BY <1>5, <1>8, <1>9, <3>1, <3>4, <4>1 DEF RegInv, Enabled
      <4> QED
        BY <1>5, <1>8, <1>9, <4>1, <4>2
    <3> QED
      BY <3>2, <3>3, <3>4 DEF Enabled
  <2>3. RegInv(v, on) /\ v \in Client /\ SameOp(t, v) /\ v.wire = t.wire
    BY <1>5, <1>8, <1>9, <2>2 DEF RegInv, SameOp
  <2> QED
    BY <1>0, <2>1, <2>3, SameInPlace
<1>10. CASE ~u.reg[r].att /\ ~(v.count # 0 \/ ~v.hasCcc)
  <2>1. PICK x : x = [v EXCEPT !.overlap = @ \/ t.writing]
    OBVIOUS
  <2>2. z = WriteCcc(x, r, FALSE)
    BY <1>3, <1>10, <2>1
  <2>3. /\ x \in Client /\ SameOp(v, x) /\ x.wire = v.wire /\ x.regQ = v.regQ
        /\ x.reg = v.reg /\ x.count = v.count /\ x.hasCcc = v.hasCcc /\ x.can = v.can
        /\ x.writing = v.writing /\ x.crashed = v.crashed /\ x.leak = v.leak
        /\ x.stuck = v.stuck
    <3>1. v \in Client
      BY <1>8, <1>10
    <3>2. x \in Client
      BY <2>1, <3>1 DEF Client
    <3> QED
      BY <2>1, <3>1, <3>2 DEF Client, SameOp
  <2>4. x.overlap = (v.overlap \/ t.writing)
    BY <1>8, <1>10, <2>1 DEF Client
  <2>5. RegWaits(x) /\ Counted(x) /\ Listed(x) = Listed(v)
    <3>1. RegWaits(x)
      BY <1>8, <1>10, <2>3 DEF RegWaits, RegQueued, CccEntry
    <3>2. Counted(x) /\ Listed(x) = Listed(v)
      BY <1>8, <1>10, <2>3 DEF Counted, Listed
    <3> QED
      BY <3>1, <3>2
  <2>6. Listed(x) = {} /\ x.count = Cardinality(Listed(x))
    <3>0. v.count = 0 /\ v.count >= Cardinality(Listed(v)) /\ Listed(v) = Listed(u)
      BY <1>8, <1>10 DEF Counted
    <3>1. Cardinality(Listed(u)) = 0
      BY <1>6, <3>0
    <3> QED
      BY <1>6, <1>8, <1>10, <2>3, <2>5, <3>1, FS_EmptySet
  <2>7. ~x.stuck /\ ~x.overlap => ~x.crashed /\ Ccc(x.wire) = {}
    BY <1>5, <1>8, <1>10, <2>3, <2>4 DEF OneWrite
  <2>8. r \in DOMAIN x.reg /\ ~x.reg[r].listed /\ x.open
    BY <1>5, <1>8, <1>10, <2>3 DEF SameOp
  <2>9. RegWaits(z) /\ Counted(z) /\ OneWrite(z) /\ Enabled(z, on) /\ Lasting(z, on)
    <3>1. Plain(x) => Plain(t)
      BY <1>5, <1>8, <1>10, <2>3, <2>4 DEF Plain, SameOp
    <3>2. Plain(x) => /\ x.can /\ x.count = Cardinality(Listed(x))
                      /\ \A q \in Listed(x) :
                            /\ x.reg[q].told # "ok"
                            /\ q \in ToSet(x.regQ) \/ (FALSE /\ q = r)
      BY <1>5, <1>8, <1>10, <2>3, <2>6, <3>1 DEF RegInv, Enabled
    <3>3. ~Off(x)
      <4>1. Off(x) => Off(v)
        BY <1>8, <1>10, <2>3, <2>4 DEF Off, SameOp
      <4> QED
        BY <1>8, <1>10, <2>3, <2>5, <2>6, <4>1 DEF Lasting
    <3>4. Lasting(x, on)
      BY <3>3 DEF Lasting
    <3> QED
      BY <2>2, <2>3, <2>5, <2>7, <2>8, <3>2, <3>3, <3>4, WriteCccKeeps
  <2>10. /\ z \in Client /\ SameOp(x, z) /\ z.wire = Append(x.wire, CccMsg(r, FALSE))
         /\ CccMsg(r, FALSE) \in Message
    BY <2>2, <2>3, <2>8, WriteCccIs
  <2>11. x.wire = t.wire /\ SameOp(t, z)
    <3>1. SameOp(t, u) /\ SameOp(u, v) /\ SameOp(v, x) /\ SameOp(x, z)
      BY <1>5, <1>8, <1>10, <2>3, <2>10
    <3>2. SameOp(t, v)
      BY <3>1 DEF SameOp
    <3>3. SameOp(t, x)
      BY <3>1, <3>2 DEF SameOp
    <3> QED
      BY <1>5, <1>8, <1>10, <2>3, <3>1, <3>3 DEF SameOp
  <2>12. Same(t.wire, z.wire, Rest(t.wire), Rest(z.wire))
    <3>1. t.wire \in Seq(Message) /\ CccMsg(r, FALSE).pdu = "ccc"
      BY DEF Client, CccMsg
    <3> QED
      BY <2>10, <2>11, <3>1, SameSent
  <2>13. RegInv(z, on)
    BY <2>9 DEF RegInv
  <2> QED
    BY <1>0, <2>10, <2>11, <2>12, <2>13
<1> QED
  BY <1>7, <1>9, <1>10
-----------------------------------------------------------------------------
(* Requests *)

(* only the operation j differs *)
OneOp(t, u, j) ==
    /\ DOMAIN u.op = DOMAIN t.op /\ Len(u.op) = Len(t.op)
    /\ \A k \in DOMAIN t.op : k # j => u.op[k] = t.op[k]

SameRest(t, u) ==
    /\ u.open = t.open /\ u.inLong = t.inLong /\ u.longQ = t.longQ
    /\ u.session = t.session /\ u.mixed = t.mixed

LEMMA OpSet ==
    ASSUME NEW t \in Client, NEW j \in DOMAIN t.op, NEW d \in Operation
    PROVE  LET u == [t EXCEPT !.op = [t.op EXCEPT ![j] = d]]
           IN  /\ u \in Client /\ SameReg(t, u) /\ SameRest(t, u) /\ u.wire = t.wire
               /\ OneOp(t, u, j) /\ u.op[j] = d
<1>1. t.op \in Seq(Operation)
  BY DEF Client
<1>2. PICK g : g = [t.op EXCEPT ![j] = d]
  OBVIOUS
<1>3. /\ g \in Seq(Operation) /\ Len(g) = Len(t.op) /\ DOMAIN g = DOMAIN t.op
      /\ g[j] = d /\ \A k \in DOMAIN t.op : k # j => g[k] = t.op[k]
  BY <1>1, <1>2, SetEntry
<1>4. PICK u : u = [t EXCEPT !.op = g]
  OBVIOUS
<1>5. u \in Client /\ u.op = g
  BY <1>3, <1>4 DEF Client
<1>6. SameReg(t, u) /\ SameRest(t, u) /\ u.wire = t.wire
  BY <1>4 DEF Client, SameReg, SameRest
<1> QED
  BY <1>2, <1>3, <1>4, <1>5, <1>6 DEF OneOp

(* nothing is on its way for j that would end it *)
Quiet(t, j) ==
    /\ j \notin ToSet(t.longQ)
    /\ \A i \in Rest(t.wire) : Steps(t.wire[i]) => t.wire[i].who # j

LEMMA OpChanged ==
    ASSUME NEW t, NEW u, NEW j \in DOMAIN t.op, OpWaits(t), Quiet(t, j),
           OneOp(t, u, j), u.wire = t.wire, u.session = t.session, u.longQ = t.longQ,
           u.op[j].kind = t.op[j].kind, u.op[j].removed = t.op[j].removed,
           t.op[j].kind = "session" => u.op[j].told = t.op[j].told
    PROVE  OpWaits(u) /\ Quiet(u, j)
<1>1. OpQueued(u)
  <2>1. \A k \in ToSet(t.longQ) : k \in DOMAIN t.op /\ k # j /\ u.op[k] = t.op[k]
    BY DEF OpWaits, OpQueued, Quiet, OneOp
  <2> QED
    BY <2>1 DEF OpWaits, OpQueued, OneOp
<1>2. ASSUME NEW i \in Rest(u.wire) PROVE OpEntry(u, u.wire[i])
  <2>1. PICK w : w = u.wire[i]
    OBVIOUS
  <2>2. OpEntry(t, w) /\ (Steps(w) => w.who # j)
    BY <2>1 DEF OpWaits, Quiet
  <2>3. /\ w.who \in DOMAIN t.op
        /\ u.op[w.who].kind = t.op[w.who].kind /\ u.op[w.who].removed = t.op[w.who].removed
        /\ w.who # j => u.op[w.who] = t.op[w.who]
    BY <2>2 DEF OpEntry, OneOp
  <2>4. w.cb = "readlong" /\ w.live => Steps(w)
    BY DEF Steps
  <2> QED
    BY <2>1, <2>2, <2>3, <2>4 DEF OpEntry, OneOp
<1>3. \A k \in DOMAIN u.op :
         u.op[k].kind = "session" /\ u.op[k].told = "none" /\ ~u.op[k].removed
            => k = u.session
  BY DEF OpWaits, OneOp
<1>4. u.session # 0 => /\ u.session \in DOMAIN u.op
                       /\ u.op[u.session].kind = "session"
                       /\ u.op[u.session].removed \/ u.op[u.session].told = "none"
  BY DEF OpWaits, OneOp
<1> QED
  BY <1>1, <1>2, <1>3, <1>4 DEF OpWaits, OneOp, Quiet

LEMMA WholeChanged ==
    ASSUME NEW t, NEW u, NEW j, Whole(t), OneOp(t, u, j), u.mixed = t.mixed,
           u.op[j].told = "ok" => WholeOp(u.op[j], j, u.mixed)
    PROVE  Whole(u)
BY DEF Whole, OneOp

LEMMA InTurnChanged ==
    ASSUME NEW t, NEW u, NEW j, NEW prep, InTurn(t, prep), OneOp(t, u, j), SameRest(t, u),
           u.wire = t.wire, \A i \in Writes(t.wire) : t.wire[i].who # j, OpWaits(t)
    PROVE  InTurn(u, prep)
<1>1. \A i \in Writes(t.wire) : t.wire[i].who \in DOMAIN t.op
  BY DEF OpWaits, Writes, Rest, OpEntry
<1>2. \A i \in Writes(t.wire) : u.op[t.wire[i].who] = t.op[t.wire[i].who]
  BY <1>1 DEF OneOp
<1>3. ASSUME NEW i \in Writes(t.wire), LongEntry(t, t.wire[i], prep)
      PROVE  LongEntry(u, t.wire[i], prep)
  BY <1>2, <1>3 DEF LongEntry
<1> QED
  BY <1>3 DEF InTurn, SameRest

Msg(pdu, who, arg, cb) == [pdu |-> pdu, who |-> who, arg |-> arg, cb |-> cb, live |-> TRUE]

LEMMA MsgIs ==
    ASSUME NEW pdu \in {"ccc", "prep", "exec", "read"}, NEW who \in Nat, NEW arg \in Int,
           NEW cb \in {"prepare", "prep", "execute", "exec", "cancel long", "cancel prep",
                      "readlong", "simple"}
    PROVE  LET m == Msg(pdu, who, arg, cb)
           IN  /\ m \in Message /\ m.pdu = pdu /\ m.who = who /\ m.arg = arg /\ m.cb = cb
               /\ m.live
BY DEF Msg, Message

LEMMA SendIs ==
    ASSUME NEW t \in Client, NEW pdu \in {"prep", "exec", "read"}, NEW who, NEW arg, NEW cb,
           NEW m \in Message, m = Msg(pdu, who, arg, cb),
           NEW u, u = Send(t, pdu, who, arg, cb)
    PROVE  /\ u \in Client /\ SameReg(t, u) /\ SameOp(t, u)
           /\ u.wire = Append(t.wire, m)
           /\ Same(t.wire, u.wire, Ccc(t.wire), Ccc(u.wire))
<1>2. m \in Message /\ m.pdu # "ccc" /\ t.wire \in Seq(Message)
  BY DEF Client, Msg
<1>3. PICK a : a = Append(t.wire, m)
  OBVIOUS
<1>4. a \in Seq(Message)
  BY <1>2, <1>3
<1>6. u = [t EXCEPT !.wire = a]
  BY <1>3 DEF Send, Msg
<1>7. u \in Client /\ u.wire = a
  BY <1>4, <1>6 DEF Client
<1>8. SameReg(t, u) /\ SameOp(t, u)
  BY <1>6 DEF Client, SameReg, SameOp
<1>9. Same(t.wire, u.wire, Ccc(t.wire), Ccc(u.wire))
  BY <1>2, <1>3, <1>7, SameSent
<1> QED
  BY <1>3, <1>7, <1>8, <1>9

(* a request is sent *)
LEMMA SendKeeps ==
    ASSUME NEW t \in Client, NEW u \in Client, NEW m \in Message, NEW prep,
           OpWaits(t), Whole(t), SameOp(t, u), u.wire = Append(t.wire, m),
           m.pdu # "ccc", OpEntry(t, m),
           Steps(m) => \A i \in Rest(t.wire) : Steps(t.wire[i]) => t.wire[i].who # m.who,
           Ends(m) => \A i \in Rest(t.wire) : ~Ends(t.wire[i])
    PROVE  /\ OpWaits(u) /\ Whole(u)
           /\ m.pdu = "read" /\ InTurn(t, prep) => InTurn(u, prep)
           /\ /\ m.pdu \in {"prep", "exec"}
              /\ t.open /\ ~t.mixed =>
                    /\ Writes(t.wire) = {}
                    /\ t.session # 0 => ~t.inLong /\ m.who = t.session
                    /\ t.session = 0 => t.inLong /\ LongEntry(t, m, prep)
              => InTurn(u, prep)
<1> DEFINE n == Len(t.wire) + 1
<1>1. t.wire \in Seq(Message)
  BY DEF Client
<1>2. /\ DOMAIN u.wire = DOMAIN t.wire \cup {n} /\ n \notin DOMAIN t.wire
      /\ \A i \in DOMAIN t.wire : u.wire[i] = t.wire[i]
      /\ u.wire[n] = m
  BY <1>1, PushTail
<1> HIDE DEF n
<1>3. /\ Rest(u.wire) = Rest(t.wire) \cup {n}
      /\ \A i \in Rest(t.wire) : u.wire[i] = t.wire[i] /\ i # n
  BY <1>2 DEF Rest
<1>4. OpWaits(u)
  <2>1. OpQueued(u)
    BY DEF OpWaits, OpQueued, SameOp
  <2>2. \A i \in Rest(u.wire) : OpEntry(t, u.wire[i])
    BY <1>2, <1>3 DEF OpWaits
  <2>3. \A i \in Rest(u.wire) : OpEntry(u, u.wire[i])
    <3>1. ASSUME NEW x, OpEntry(t, x) PROVE OpEntry(u, x)
      BY <3>1 DEF OpEntry, SameOp
    <3> QED
      BY <2>2, <3>1
  <2>4. ASSUME NEW i \in Rest(u.wire), NEW k \in Rest(u.wire),
               \/ Steps(u.wire[i]) /\ Steps(u.wire[k]) /\ u.wire[i].who = u.wire[k].who
               \/ Ends(u.wire[i]) /\ Ends(u.wire[k])
        PROVE  i = k
    <3>1. CASE i \in Rest(t.wire) /\ k \in Rest(t.wire)
      BY <1>3, <2>4, <3>1 DEF OpWaits
    <3>2. CASE i = n /\ k \in Rest(t.wire)
      BY <1>2, <1>3, <2>4, <3>2
    <3>3. CASE k = n /\ i \in Rest(t.wire)
      BY <1>2, <1>3, <2>4, <3>3
    <3> QED
      BY <1>3, <3>1, <3>2, <3>3
  <2> QED
    BY <2>1, <2>3, <2>4 DEF OpWaits, SameOp
<1>5. Whole(u)
  BY DEF Whole, SameOp
<1>6. \A x : LongEntry(t, x, prep) => LongEntry(u, x, prep)
  BY DEF LongEntry, SameOp
<1>7. ASSUME m.pdu = "read", InTurn(t, prep) PROVE InTurn(u, prep)
  <2>1. Writes(u.wire) = Writes(t.wire) /\ \A i \in Writes(t.wire) : u.wire[i] = t.wire[i]
    BY <1>2, <1>7 DEF Writes
  <2> QED
    BY <1>6, <1>7, <2>1 DEF InTurn, SameOp
<1>8. ASSUME m.pdu \in {"prep", "exec"},
             t.open /\ ~t.mixed =>
                    /\ Writes(t.wire) = {}
                    /\ t.session # 0 => ~t.inLong /\ m.who = t.session
                    /\ t.session = 0 => t.inLong /\ LongEntry(t, m, prep)
      PROVE  InTurn(u, prep)
  <2> SUFFICES ASSUME t.open, ~t.mixed PROVE InTurn(u, prep)
    BY DEF InTurn, SameOp
  <2>1. Writes(u.wire) = {n}
    BY <1>2, <1>8 DEF Writes
  <2> QED
    BY <1>2, <1>6, <1>8, <2>1 DEF InTurn, SameOp
<1> QED
  BY <1>4, <1>5, <1>7, <1>8

(* the answer to a request is there *)
LEMMA OpPopped ==
    ASSUME NEW s, NEW t, NEW prep, NEW i, OpInv(s, prep), SameOp(s, t),
           Without(s.wire, i, t.wire), s.wire[i].pdu # "ccc"
    PROVE  LET w == s.wire[i]
           IN  /\ OpWaits(t) /\ Whole(t) /\ OpEntry(t, w)
               /\ Steps(w) => Quiet(t, w.who)
               /\ Ends(w) => \A k \in Rest(t.wire) : ~Ends(t.wire[k])
               /\ w.pdu = "read" => InTurn(t, prep)
               /\ w.pdu \in {"prep", "exec"} /\ t.open /\ ~t.mixed =>
                     /\ Writes(t.wire) = {}
                     /\ t.session # 0 => ~t.inLong /\ w.who = t.session
                     /\ t.session = 0 => t.inLong /\ LongEntry(t, w, prep)
<1> DEFINE w == s.wire[i]
<1>1. /\ i \in Rest(s.wire)
      /\ \A k \in Rest(t.wire) : /\ Origin(i, k) \in Rest(s.wire) /\ Origin(i, k) # i
                                 /\ t.wire[k] = s.wire[Origin(i, k)]
      /\ \A k, l \in Rest(t.wire) : Origin(i, k) = Origin(i, l) => k = l
  BY DEF Without, Rest
<1>2. \A x : OpEntry(s, x) => OpEntry(t, x)
  BY DEF OpEntry, SameOp
<1>3. OpWaits(t)
  <2>1. OpQueued(t)
    BY DEF OpInv, OpWaits, OpQueued, SameOp
  <2>2. \A k \in Rest(t.wire) : OpEntry(t, t.wire[k])
    BY <1>1, <1>2 DEF OpInv, OpWaits
  <2>3. ASSUME NEW k \in Rest(t.wire), NEW l \in Rest(t.wire),
               \/ Steps(t.wire[k]) /\ Steps(t.wire[l]) /\ t.wire[k].who = t.wire[l].who
               \/ Ends(t.wire[k]) /\ Ends(t.wire[l])
        PROVE  k = l
    <3>1. Origin(i, k) = Origin(i, l)
      BY <1>1, <2>3 DEF OpInv, OpWaits
    <3> QED
      BY <1>1, <3>1
  <2> QED
    BY <2>1, <2>2, <2>3 DEF OpInv, OpWaits, SameOp
<1>4. Whole(t)
  BY DEF OpInv, Whole, SameOp
<1>5. OpEntry(t, w)
  BY <1>1, <1>2 DEF OpInv, OpWaits
<1>6. ASSUME Steps(w) PROVE Quiet(t, w.who)
  <2>1. w.who \notin ToSet(t.longQ)
    BY <1>5, <1>6 DEF OpEntry
  <2>2. ASSUME NEW k \in Rest(t.wire), Steps(t.wire[k]), t.wire[k].who = w.who PROVE FALSE
    <3>1. Origin(i, k) \in Rest(s.wire) /\ Origin(i, k) # i /\ t.wire[k] = s.wire[Origin(i, k)]
      BY <1>1
    <3>2. Origin(i, k) = i
      BY <1>1, <1>6, <2>2, <3>1 DEF OpInv, OpWaits
    <3> QED
      BY <3>1, <3>2
  <2> QED
    BY <2>1, <2>2 DEF Quiet
<1>7. Ends(w) => \A k \in Rest(t.wire) : ~Ends(t.wire[k])
  BY <1>1 DEF OpInv, OpWaits
<1>8. \A x : LongEntry(s, x, prep) => LongEntry(t, x, prep)
  BY DEF LongEntry, SameOp
<1>9. /\ \A k \in Writes(t.wire) : /\ Origin(i, k) \in Writes(s.wire) /\ Origin(i, k) # i
                                   /\ t.wire[k] = s.wire[Origin(i, k)]
      /\ \A k, l \in Writes(t.wire) : Origin(i, k) = Origin(i, l) => k = l
      /\ \A m \in Writes(s.wire) : m # i => \E k \in DOMAIN t.wire : Origin(i, k) = m
  BY DEF Without, Writes
<1>10. ASSUME w.pdu = "read" PROVE InTurn(t, prep)
  <2> SUFFICES ASSUME s.open, ~s.mixed PROVE InTurn(t, prep)
    BY DEF InTurn, SameOp
  <2>1. \A m \in Writes(s.wire) : m # i
    BY <1>10 DEF Writes
  <2>2. \A m \in Writes(s.wire) : \E k \in Writes(t.wire) : Origin(i, k) = m
    BY <1>9, <2>1 DEF Writes, Without
  <2>3. \A k, l \in Writes(t.wire) : k = l
    BY <1>9 DEF OpInv, InTurn
  <2>4. s.session # 0 => \A k \in Writes(t.wire) : t.wire[k].who = s.session
    BY <1>9 DEF OpInv, InTurn
  <2>5. s.session = 0 /\ s.inLong => Writes(t.wire) # {}
    BY <2>2 DEF OpInv, InTurn
  <2>6. s.session = 0 /\ s.inLong => \A k \in Writes(t.wire) : LongEntry(t, t.wire[k], prep)
    BY <1>8, <1>9 DEF OpInv, InTurn
  <2>7. s.session = 0 /\ ~s.inLong => Writes(t.wire) = {} /\ prep = <<>>
    BY <1>9 DEF OpInv, InTurn
  <2> QED
    BY <2>3, <2>4, <2>5, <2>6, <2>7 DEF OpInv, InTurn, SameOp
<1>11. ASSUME w.pdu \in {"prep", "exec"}, t.open, ~t.mixed
       PROVE  /\ Writes(t.wire) = {}
              /\ t.session # 0 => ~t.inLong /\ w.who = t.session
              /\ t.session = 0 => t.inLong /\ LongEntry(t, w, prep)
  <2>1. i \in Writes(s.wire) /\ s.open /\ ~s.mixed
    BY <1>11 DEF Writes, Without, SameOp
  <2>2. Writes(t.wire) = {}
    BY <1>9, <2>1 DEF OpInv, InTurn
  <2>3. s.session # 0 => ~s.inLong /\ w.who = s.session
    BY <2>1 DEF OpInv, InTurn
  <2>4. s.session = 0 => s.inLong /\ LongEntry(s, w, prep)
    BY <2>1 DEF OpInv, InTurn
  <2> QED
    BY <1>8, <2>2, <2>3, <2>4 DEF SameOp
<1> QED
  BY <1>3, <1>4, <1>5, <1>6, <1>7, <1>10, <1>11

(* an operation with another told, and so on *)
Like(x, d) ==
    /\ d \in Operation /\ d.kind = x.kind /\ d.reliable = x.reliable
    /\ d.removed = x.removed /\ d.len = x.len

LEMMA ToldSet ==
    ASSUME NEW x \in Operation, NEW v \in {"none", "ok", "fail", "withdrawn"}
    PROVE  LET d == [x EXCEPT !.told = v]
           IN  /\ Like(x, d) /\ d \in Operation /\ d.told = v
               /\ d.sent = x.sent /\ d.idx = x.idx /\ d.success = x.success /\ d.wrote = x.wrote
BY DEF Operation, Like

LEMMA SentSet ==
    ASSUME NEW x \in Operation
    PROVE  LET d == [x EXCEPT !.sent = TRUE]
           IN  /\ Like(x, d) /\ d \in Operation /\ d.sent
               /\ d.told = x.told /\ d.idx = x.idx /\ d.success = x.success /\ d.wrote = x.wrote
BY DEF Operation, Like

LEMMA SuccessSet ==
    ASSUME NEW x \in Operation, NEW v \in BOOLEAN
    PROVE  LET d == [x EXCEPT !.success = v]
           IN  /\ Like(x, d) /\ d \in Operation /\ d.success = v
               /\ d.told = x.told /\ d.sent = x.sent /\ d.idx = x.idx /\ d.wrote = x.wrote
BY DEF Operation, Like

LEMMA IdxSet ==
    ASSUME NEW x \in Operation, NEW v \in Nat
    PROVE  LET d == [x EXCEPT !.idx = v]
           IN  /\ Like(x, d) /\ d \in Operation /\ d.idx = v
               /\ d.told = x.told /\ d.sent = x.sent /\ d.success = x.success /\ d.wrote = x.wrote
BY DEF Operation, Like

LEMMA WroteSet ==
    ASSUME NEW x \in Operation, NEW v \in Seq(Nat \X Int)
    PROVE  LET d == [x EXCEPT !.wrote = v]
           IN  /\ Like(x, d) /\ d \in Operation /\ d.wrote = v
               /\ d.told = x.told /\ d.sent = x.sent /\ d.idx = x.idx /\ d.success = x.success
BY DEF Operation, Like

LEMMA OpTypes ==
    ASSUME NEW t \in Client, NEW j \in DOMAIN t.op
    PROVE  /\ t.op \in Seq(Operation) /\ t.op[j] \in Operation /\ j \in Nat \ {0}
           /\ t.op[j].idx \in Nat /\ t.op[j].len \in Nat /\ t.op[j].reliable \in BOOLEAN
           /\ Len(t.op) \in Nat /\ DOMAIN t.op = 1 .. Len(t.op)
<1>1. t.op \in Seq(Operation)
  BY DEF Client
<1>2. t.op[j] \in Operation /\ j \in Nat \ {0} /\ Len(t.op) \in Nat /\ DOMAIN t.op = 1 .. Len(t.op)
  BY <1>1
<1>3. t.op[j].idx \in Nat /\ t.op[j].len \in Nat /\ t.op[j].reliable \in BOOLEAN
  BY <1>2 DEF Operation
<1> QED
  BY <1>1, <1>2, <1>3

LEMMA ResultIs ==
    ASSUME NEW t \in Client, NEW j \in DOMAIN t.op, t.op[j].told = "none",
           NEW what \in {"ok", "fail"}
    PROVE  LET u == Result(t, j, what)
           IN  /\ u \in Client /\ SameReg(t, u) /\ SameRest(t, u) /\ u.wire = t.wire
               /\ OneOp(t, u, j) /\ Like(t.op[j], u.op[j]) /\ u.op[j].told = what
               /\ u.op[j].idx = t.op[j].idx /\ u.op[j].wrote = t.op[j].wrote
<1>0. PICK x \in Operation : x = t.op[j]
  BY OpTypes
<1>1. PICK d : d = [x EXCEPT !.told = what]
  OBVIOUS
<1>2. what \in {"none", "ok", "fail", "withdrawn"}
  OBVIOUS
<1>3. /\ Like(x, d) /\ d \in Operation /\ d.told = what /\ d.idx = x.idx
      /\ d.wrote = x.wrote
  BY <1>1, <1>2, ToldSet
<1>4. Result(t, j, what) = [t EXCEPT !.op = [t.op EXCEPT ![j] = d]]
  <2>1. Heard(x.told, what, TRUE) = what
    BY <1>0 DEF Heard
  <2> QED
    BY <1>0, <1>1, <2>1 DEF Result
<1> QED
  BY <1>0, <1>3, <1>4, OpSet

(* the operation that is told is not waited for *)
LEMMA ResultKeeps ==
    ASSUME NEW t \in Client, NEW j \in DOMAIN t.op, t.op[j].told = "none",
           t.op[j].kind # "session", NEW what \in {"ok", "fail"},
           OpWaits(t), Whole(t), Quiet(t, j),
           what = "ok" => WholeOp(t.op[j], j, t.mixed)
    PROVE  LET u == Result(t, j, what)
           IN  OpWaits(u) /\ Whole(u)
<1>0. PICK u : u = Result(t, j, what)
  OBVIOUS
<1>1. /\ u \in Client /\ SameReg(t, u) /\ SameRest(t, u) /\ u.wire = t.wire
      /\ OneOp(t, u, j) /\ Like(t.op[j], u.op[j]) /\ u.op[j].told = what
      /\ u.op[j].idx = t.op[j].idx /\ u.op[j].wrote = t.op[j].wrote
  BY <1>0, ResultIs
<1>2. OpWaits(u)
  <2>1. /\ u.session = t.session /\ u.longQ = t.longQ
        /\ u.op[j].kind = t.op[j].kind /\ u.op[j].removed = t.op[j].removed
    BY <1>1 DEF SameRest, Like
  <2> QED
    BY <1>1, <2>1, OpChanged
<1>3. Whole(u)
  <2>1. u.op[j].told = "ok" => WholeOp(u.op[j], j, u.mixed)
    BY <1>1 DEF WholeOp, Like, SameRest, Placed
  <2>2. u.mixed = t.mixed
    BY <1>1 DEF SameRest
  <2> QED
    BY <1>1, <2>1, <2>2, WholeChanged
<1> QED
  BY <1>0, <1>2, <1>3

(* a prepared write of the next chunk *)
LEMMA SendPrepIs ==
    ASSUME NEW t \in Client, NEW j \in DOMAIN t.op, NEW cb \in {"prepare", "prep"}
    PROVE  \E z \in Client :
              /\ SameReg(t, z) /\ SameRest(t, z) /\ z.wire = t.wire /\ OneOp(t, z, j)
              /\ Like(t.op[j], z.op[j]) /\ z.op[j].sent /\ z.op[j].told = t.op[j].told
              /\ z.op[j].idx = t.op[j].idx /\ z.op[j].success = t.op[j].success
              /\ z.op[j].wrote = t.op[j].wrote
              /\ Msg("prep", j, t.op[j].idx, cb) \in Message
              /\ SendPrep(t, j, cb) = Send(z, "prep", j, t.op[j].idx, cb)
<1> DEFINE x == t.op[j]
           d == [x EXCEPT !.sent = TRUE]
           z == [t EXCEPT !.op = [t.op EXCEPT ![j] = d]]
<1>1. x \in Operation /\ t.op \in Seq(Operation)
  BY DEF Client
<1>2. /\ Like(x, d) /\ d.sent /\ d.told = x.told /\ d.idx = x.idx
      /\ d.success = x.success /\ d.wrote = x.wrote
  BY <1>1, SentSet
<1>3. d \in Operation
  BY <1>2 DEF Like
<1>4. SendPrep(t, j, cb) = Send(z, "prep", j, t.op[j].idx, cb)
  BY DEF SendPrep
<1>5. Msg("prep", j, t.op[j].idx, cb) \in Message
  <2>1. j \in Nat /\ t.op[j].idx \in Int
    BY OpTypes
  <2>2. PICK n \in Int : n = t.op[j].idx
    BY <2>1
  <2>4. Msg("prep", j, n, cb) \in Message
    BY <2>1 DEF Msg, Message
  <2> QED
    BY <2>2, <2>4
<1> HIDE DEF d
<1>6. /\ z \in Client /\ SameReg(t, z) /\ SameRest(t, z) /\ z.wire = t.wire
      /\ OneOp(t, z, j) /\ z.op[j] = d
  BY <1>3, OpSet
<1> HIDE DEF z
<1> QED
  BY <1>2, <1>4, <1>5, <1>6

LEMMA SendPrepKeeps ==
    ASSUME NEW t \in Client, NEW j \in DOMAIN t.op, NEW cb \in {"prepare", "prep"}, NEW prep,
           OpWaits(t), Whole(t), Quiet(t, j),
           t.op[j].kind = Kind(cb), cb = "prepare" => t.op[j].told = "none",
           t.open /\ ~t.mixed =>
              /\ Writes(t.wire) = {}
              /\ t.session # 0 => ~t.inLong /\ j = t.session
              /\ t.session = 0 => /\ t.inLong /\ cb = "prepare"
                                  /\ t.op[j].idx \in 1 .. NChunks
                                  /\ Placed(t.op[j], j, prep, t.op[j].idx - 1)
    PROVE  LET u == SendPrep(t, j, cb)
           IN  /\ u \in Client /\ OpInv(u, prep) /\ SameReg(t, u)
               /\ Same(t.wire, u.wire, Ccc(t.wire), Ccc(u.wire))
<1>0. PICK u : u = SendPrep(t, j, cb)
  OBVIOUS
<1>1. PICK z \in Client :
              /\ SameReg(t, z) /\ SameRest(t, z) /\ z.wire = t.wire /\ OneOp(t, z, j)
              /\ Like(t.op[j], z.op[j]) /\ z.op[j].sent /\ z.op[j].told = t.op[j].told
              /\ z.op[j].idx = t.op[j].idx /\ z.op[j].success = t.op[j].success
              /\ z.op[j].wrote = t.op[j].wrote
              /\ Msg("prep", j, t.op[j].idx, cb) \in Message
              /\ u = Send(z, "prep", j, t.op[j].idx, cb)
  BY <1>0, SendPrepIs
<1>2. PICK m : m = Msg("prep", j, t.op[j].idx, cb)
  OBVIOUS
<1>3. /\ m \in Message /\ m.pdu = "prep" /\ m.who = j /\ m.arg = t.op[j].idx /\ m.cb = cb
      /\ m.live
  BY <1>1, <1>2 DEF Msg
<1>4. /\ u \in Client /\ SameReg(z, u) /\ SameOp(z, u) /\ u.wire = Append(z.wire, m)
      /\ Same(z.wire, u.wire, Ccc(z.wire), Ccc(u.wire))
  BY <1>1, <1>2, SendIs
<1>5. /\ z.open = t.open /\ z.inLong = t.inLong /\ z.longQ = t.longQ
      /\ z.session = t.session /\ z.mixed = t.mixed
      /\ DOMAIN z.op = DOMAIN t.op
      /\ z.op[j].kind = t.op[j].kind /\ z.op[j].removed = t.op[j].removed
      /\ z.op[j].reliable = t.op[j].reliable
  BY <1>1 DEF SameRest, OneOp, Like
<1>6. OpWaits(z) /\ Quiet(z, j)
  BY <1>1, <1>5, OpChanged
<1>7. Whole(z)
  <2>1. z.op[j].told = "ok" => WholeOp(z.op[j], j, z.mixed)
    <3>1. t.op[j].told = "ok" => WholeOp(t.op[j], j, t.mixed)
      BY DEF Whole
    <3>2. WholeOp(t.op[j], j, t.mixed) => WholeOp(z.op[j], j, z.mixed)
      BY <1>1, <1>5 DEF WholeOp, Placed, Like
    <3> QED
      BY <1>1, <3>1, <3>2
  <2> QED
    BY <1>1, <1>5, <2>1, WholeChanged
<1>8. OpEntry(z, m)
  <2>1. t.op[j].idx \in Nat
    BY OpTypes
  <2>2. Kind("prepare") = "long" /\ Kind("prep") = "session" /\ Pdu("prepare") = "prep"
        /\ Pdu("prep") = "prep"
    BY DEF Kind, Pdu
  <2>3. /\ m.who \in DOMAIN z.op
        /\ m.cb \notin {"enable", "disable"}
        /\ z.op[m.who].kind = Kind(m.cb) /\ m.pdu = Pdu(m.cb)
        /\ m.arg \in Int
        /\ ~Ends(m) /\ m.cb # "readlong"
    <3>1. m.who \in DOMAIN z.op /\ m.arg \in Int
      BY <1>3, <1>5, <2>1
    <3>2. z.op[m.who].kind = Kind(cb)
      BY <1>3, <1>5
    <3>3. CASE cb = "prepare"
      BY <1>3, <2>2, <3>1, <3>2, <3>3 DEF Ends
    <3>4. CASE cb = "prep"
      BY <1>3, <2>2, <3>1, <3>2, <3>4 DEF Ends
    <3> QED
      BY <3>3, <3>4
  <2>4. Steps(m) => m.cb = "prepare"
    BY <1>3 DEF Steps
  <2>5. m.who \notin ToSet(z.longQ)
    BY <1>3, <1>6 DEF Quiet
  <2> QED
    BY <1>1, <1>3, <2>3, <2>4, <2>5 DEF OpEntry
<1>9. z.open /\ ~z.mixed =>
         /\ Writes(z.wire) = {}
         /\ z.session # 0 => ~z.inLong /\ m.who = z.session
         /\ z.session = 0 => z.inLong /\ LongEntry(z, m, prep)
  <2>1. t.op[j].idx \in 1 .. NChunks /\ Placed(t.op[j], j, prep, t.op[j].idx - 1)
          /\ cb = "prepare" => LongEntry(z, m, prep)
    BY <1>1, <1>3, <1>5 DEF LongEntry, Placed
  <2> QED
    BY <1>1, <1>3, <1>5, <2>1
<1>10. OpWaits(u) /\ Whole(u) /\ InTurn(u, prep)
  <2>1. Steps(m) => \A i \in Rest(z.wire) : Steps(z.wire[i]) => z.wire[i].who # m.who
    BY <1>3, <1>6 DEF Quiet
  <2>2. ~Ends(m) /\ m.pdu # "ccc" /\ m.pdu \in {"prep", "exec"}
    BY <1>3 DEF Ends
  <2> QED
    BY <1>3, <1>4, <1>6, <1>7, <1>8, <1>9, <2>1, <2>2, SendKeeps
<1>11. SameReg(t, u)
  BY <1>1, <1>4 DEF SameReg
<1> QED
  BY <1>0, <1>1, <1>4, <1>10, <1>11 DEF OpInv

(* fewer long writes wait *)
LEMMA FewerQueued ==
    ASSUME NEW t, NEW u, OpWaits(t), Whole(t), u.op = t.op, u.wire = t.wire,
           u.session = t.session, t.mixed => u.mixed, u.mixed \in BOOLEAN, t.mixed \in BOOLEAN,
           Distinct(u.longQ), ToSet(u.longQ) \subseteq ToSet(t.longQ)
    PROVE  OpWaits(u) /\ Whole(u)
<1>1. OpQueued(u)
  BY DEF OpWaits, OpQueued
<1>2. ASSUME NEW x, OpEntry(t, x) PROVE OpEntry(u, x)
  BY <1>2 DEF OpEntry
<1>3. OpWaits(u)
  BY <1>1, <1>2 DEF OpWaits
<1>4. Whole(u)
  BY DEF Whole, WholeOp
<1> QED
  BY <1>3, <1>4

LEMMA LongTypes ==
    ASSUME NEW t \in Client
    PROVE  /\ t.longQ \in Seq(Nat) /\ t.mixed \in BOOLEAN /\ t.open \in BOOLEAN
           /\ t.inLong \in BOOLEAN /\ t.session \in Nat /\ t.wire \in Seq(Message)
           /\ t.op \in Seq(Operation)
BY DEF Client

(* start_next_long_write() with a closed bearer *)
AllFailed(t) ==
    LET failed(j) ==
          [t.op[j] EXCEPT !.told = Heard(@, "fail", Once(t.longQ, j))]
    IN  [t EXCEPT !.longQ = <<>>, !.inLong = FALSE,
                  !.op = [j \in DOMAIN t.op |->
                            IF j \in ToSet(t.longQ) THEN failed(j) ELSE t.op[j]]]

LEMMA AllFailedIs ==
    ASSUME NEW t \in Client, OpWaits(t)
    PROVE  LET u == AllFailed(t)
           IN  /\ u \in Client /\ SameReg(t, u) /\ u.wire = t.wire
               /\ u.longQ = <<>> /\ u.session = t.session /\ u.mixed = t.mixed
               /\ DOMAIN u.op = DOMAIN t.op /\ Len(u.op) = Len(t.op)
               /\ \A j \in DOMAIN t.op :
                     /\ Like(t.op[j], u.op[j])
                     /\ j \notin ToSet(t.longQ) => u.op[j] = t.op[j]
                     /\ j \in ToSet(t.longQ) => u.op[j].told = "fail"
<1>1. Distinct(t.longQ) /\ \A j \in ToSet(t.longQ) : t.op[j].told = "none"
  BY DEF OpWaits, OpQueued
<1> DEFINE f(j) == [t.op[j] EXCEPT !.told = "fail"]
           g == [j \in DOMAIN t.op |-> IF j \in ToSet(t.longQ) THEN f(j) ELSE t.op[j]]
<1>2. \A j \in ToSet(t.longQ) : Heard(t.op[j].told, "fail", Once(t.longQ, j)) = "fail"
  BY <1>1 DEF Heard, Once, Distinct
<1>3. PICK u : u = AllFailed(t)
  OBVIOUS
<1>4. u = [t EXCEPT !.longQ = <<>>, !.inLong = FALSE, !.op = g]
  <2>1. g = [j \in DOMAIN t.op |->
               IF j \in ToSet(t.longQ)
               THEN [t.op[j] EXCEPT !.told = Heard(@, "fail", Once(t.longQ, j))]
               ELSE t.op[j]]
    BY <1>2
  <2> QED
    BY <1>3, <2>1 DEF AllFailed
<1>5. t.op \in Seq(Operation) /\ DOMAIN t.op = 1 .. Len(t.op) /\ Len(t.op) \in Nat
  BY LongTypes
<1>6. ASSUME NEW j \in DOMAIN t.op PROVE Like(t.op[j], f(j)) /\ f(j) \in Operation /\ f(j).told = "fail"
  <2>1. t.op[j] \in Operation
    BY <1>5
  <2> QED
    BY <2>1, ToldSet
<1>7. ASSUME NEW j \in DOMAIN t.op PROVE Like(t.op[j], t.op[j]) /\ t.op[j] \in Operation
  BY <1>5 DEF Like
<1> HIDE DEF f
<1>8. /\ DOMAIN g = DOMAIN t.op
      /\ \A j \in DOMAIN t.op :
                     /\ Like(t.op[j], g[j]) /\ g[j] \in Operation
                     /\ j \notin ToSet(t.longQ) => g[j] = t.op[j]
                     /\ j \in ToSet(t.longQ) => g[j].told = "fail"
  BY <1>6, <1>7
<1> HIDE DEF g
<1>9. g \in Seq(Operation) /\ Len(g) = Len(t.op)
  <2>1. g \in [1 .. Len(t.op) -> Operation]
    <3>1. g = [j \in DOMAIN t.op |-> g[j]]
      BY DEF g
    <3> QED
      BY <1>5, <1>8, <3>1
  <2> QED
    BY <1>5, <2>1
<1>10. u \in Client
  BY <1>4, <1>9, EmptyQueue DEF Client
<1>11. /\ SameReg(t, u) /\ u.wire = t.wire
       /\ u.longQ = <<>> /\ u.session = t.session /\ u.mixed = t.mixed /\ u.op = g
  BY <1>4 DEF Client, SameReg
<1> QED
  BY <1>3, <1>8, <1>9, <1>10, <1>11

LEMMA AllFailedKeeps ==
    ASSUME NEW t \in Client, OpWaits(t), Whole(t)
    PROVE  OpWaits(AllFailed(t)) /\ Whole(AllFailed(t))
<1>1. PICK u : u = AllFailed(t)
  OBVIOUS
<1>2.  /\ u \in Client /\ SameReg(t, u) /\ u.wire = t.wire
       /\ u.longQ = <<>> /\ u.session = t.session /\ u.mixed = t.mixed
       /\ DOMAIN u.op = DOMAIN t.op /\ Len(u.op) = Len(t.op)
       /\ \A j \in DOMAIN t.op :
                     /\ Like(t.op[j], u.op[j])
                     /\ j \notin ToSet(t.longQ) => u.op[j] = t.op[j]
                     /\ j \in ToSet(t.longQ) => u.op[j].told = "fail"
  BY <1>1, AllFailedIs
<1>3. OpQueued(u)
  BY <1>2, EmptyQueue DEF OpQueued
<1>4. ASSUME NEW i \in Rest(u.wire) PROVE OpEntry(u, u.wire[i])
  <2>1. PICK w : w = u.wire[i]
    OBVIOUS
  <2>2. OpEntry(t, w)
    BY <1>2, <2>1 DEF OpWaits
  <2>3. /\ w.who \in DOMAIN t.op
        /\ u.op[w.who].kind = t.op[w.who].kind /\ u.op[w.who].removed = t.op[w.who].removed
        /\ Steps(w) => u.op[w.who] = t.op[w.who]
    BY <1>2, <2>2 DEF OpEntry, Like
  <2>4. w.cb = "readlong" /\ w.live => Steps(w)
    BY DEF Steps
  <2>5. ToSet(u.longQ) = {}
    BY <1>2, EmptyQueue
  <2> QED
    BY <1>2, <2>1, <2>2, <2>3, <2>4, <2>5 DEF OpEntry
<1>5. \A j \in DOMAIN t.op : t.op[j].kind = "session" => j \notin ToSet(t.longQ)
  BY DEF OpWaits, OpQueued
<1>6. \A j \in DOMAIN u.op : u.op[j].kind = "session" => u.op[j] = t.op[j]
  BY <1>2, <1>5 DEF Like
<1>7. \A k \in DOMAIN u.op :
         u.op[k].kind = "session" /\ u.op[k].told = "none" /\ ~u.op[k].removed
            => k = u.session
  BY <1>2, <1>6 DEF OpWaits
<1>8. u.session # 0 => /\ u.session \in DOMAIN u.op
                       /\ u.op[u.session].kind = "session"
                       /\ u.op[u.session].removed \/ u.op[u.session].told = "none"
  BY <1>2, <1>5 DEF OpWaits
<1>9. OpWaits(u)
  BY <1>2, <1>3, <1>4, <1>7, <1>8 DEF OpWaits
<1>10. Whole(u)
  <2>1. \A j \in DOMAIN t.op : u.op[j].told = "ok" => u.op[j] = t.op[j]
    BY <1>2
  <2> QED
    BY <1>2, <2>1 DEF Whole
<1> QED
  BY <1>1, <1>9, <1>10

(* start_next_long_write() *)
LEMMA StartNextKeeps ==
    ASSUME NEW t \in Client, NEW prep, OpWaits(t), Whole(t),
           t.open /\ ~t.mixed => /\ Writes(t.wire) = {} /\ prep = <<>> /\ t.session = 0
                                 /\ t.longQ # <<>> => t.inLong
    PROVE  LET u == StartNextLongWrite(t)
           IN  /\ u \in Client /\ OpInv(u, prep) /\ SameReg(t, u)
               /\ Same(t.wire, u.wire, Ccc(t.wire), Ccc(u.wire))
<1>0. PICK u : u = StartNextLongWrite(t)
  OBVIOUS
<1>1. /\ t.longQ \in Seq(Nat) /\ t.mixed \in BOOLEAN
      /\ t.op \in Seq(Operation) /\ Distinct(t.longQ)
  BY LongTypes DEF OpWaits, OpQueued
<1>2. CASE t.longQ = <<>>
  <2>1. u = [t EXCEPT !.inLong = FALSE]
    BY <1>0, <1>2 DEF StartNextLongWrite
  <2>2. u \in Client /\ u.inLong = FALSE
    BY <2>1 DEF Client
  <2>3. /\ SameReg(t, u) /\ u.wire = t.wire /\ u.op = t.op /\ u.session = t.session
        /\ u.longQ = t.longQ /\ u.mixed = t.mixed /\ u.open = t.open
    BY <2>1 DEF Client, SameReg
  <2>4. OpWaits(u) /\ Whole(u)
    BY <1>1, <2>3, FewerQueued
  <2>5. InTurn(u, prep)
    BY <2>2, <2>3 DEF InTurn
  <2> QED
    BY <1>0, <2>2, <2>3, <2>4, <2>5, SameInPlace DEF OpInv
<1>3. CASE t.longQ # <<>> /\ t.open
  <2>1. PICK j : j = Head(t.longQ)
    OBVIOUS
  <2>2. PICK q : q = Tail(t.longQ)
    OBVIOUS
  <2>3. PICK x : x = [t EXCEPT !.longQ = q]
    OBVIOUS
  <2>4. u = SendPrep(x, j, "prepare")
    BY <1>0, <1>3, <2>1, <2>2, <2>3 DEF StartNextLongWrite
  <2>5. /\ j \in ToSet(t.longQ) /\ q \in Seq(Nat) /\ Distinct(q)
        /\ ToSet(q) = ToSet(t.longQ) \ {j}
    BY <1>1, <1>3, <2>1, <2>2, PopHead
  <2>6. x \in Client /\ x.longQ = q
    BY <2>3, <2>5 DEF Client
  <2>7. /\ SameReg(t, x) /\ x.wire = t.wire /\ x.op = t.op /\ x.session = t.session
        /\ x.mixed = t.mixed /\ x.open = t.open /\ x.inLong = t.inLong
    BY <2>3 DEF Client, SameReg
  <2>8. OpWaits(x) /\ Whole(x)
    BY <1>1, <2>5, <2>6, <2>7, FewerQueued
  <2>9. Quiet(x, j)
    <3>1. ASSUME NEW i \in Rest(t.wire), Steps(t.wire[i]) PROVE t.wire[i].who # j
      BY <2>5, <3>1 DEF OpWaits, OpEntry
    <3> QED
      BY <2>5, <2>6, <2>7, <3>1 DEF Quiet
  <2>10. /\ j \in DOMAIN x.op /\ x.op[j].told = "none"
         /\ x.op[j].kind = "long" /\ x.op[j].idx = 1
    BY <2>5, <2>7 DEF OpWaits, OpQueued
  <2>11. x.open /\ ~x.mixed =>
              /\ Writes(x.wire) = {} /\ x.session = 0 /\ x.inLong /\ prep = <<>>
    BY <1>3, <2>7
  <2>12. x.op[j].idx \in 1 .. NChunks
    BY <2>10, ClientAssumption
  <2>13. prep = <<>> => Placed(x.op[j], j, prep, x.op[j].idx - 1)
    <3>1. x.op[j].idx - 1 = 0
      BY <2>10
    <3> QED
      BY <3>1 DEF Placed
  <2>14. x.op[j].kind = Kind("prepare")
    BY <2>10 DEF Kind
  <2>15. /\ u \in Client /\ OpInv(u, prep) /\ SameReg(x, u)
         /\ Same(x.wire, u.wire, Ccc(x.wire), Ccc(u.wire))
    BY <2>4, <2>6, <2>8, <2>9, <2>10, <2>11, <2>12, <2>13, <2>14, SendPrepKeeps
  <2>16. SameReg(t, u)
    BY <2>7, <2>15 DEF SameReg
  <2> QED
    BY <1>0, <2>7, <2>15, <2>16
<1>4. CASE t.longQ # <<>> /\ ~t.open
  <2>1. u = AllFailed(t)
    BY <1>0, <1>4 DEF StartNextLongWrite, AllFailed
  <2>2. u \in Client /\ SameReg(t, u) /\ u.wire = t.wire
    BY <2>1, AllFailedIs
  <2>3. OpWaits(u) /\ Whole(u)
    BY <2>1, AllFailedKeeps
  <2>4. InTurn(u, prep)
    BY <1>4, <2>2 DEF InTurn, SameReg
  <2> QED
    BY <1>0, <2>2, <2>3, <2>4, SameInPlace DEF OpInv
<1> QED
  BY <1>2, <1>3, <1>4

(* the requests are as they should be, and the registrations as they were *)
Kept(t, u, prep) ==
    /\ u \in Client /\ OpInv(u, prep) /\ SameReg(t, u)
    /\ Same(t.wire, u.wire, Ccc(t.wire), Ccc(u.wire))

LEMMA KeptAfter ==
    ASSUME NEW t, NEW x, NEW u, NEW prep, SameReg(t, x), x.wire = t.wire, Kept(x, u, prep)
    PROVE  Kept(t, u, prep)
<1>1. SameReg(x, u)
  BY DEF Kept
<1>2. SameReg(t, u)
  BY <1>1 DEF SameReg
<1> QED
  BY <1>2 DEF Kept

LEMMA KeptInPlace ==
    ASSUME NEW t, NEW u \in Client, NEW prep, SameReg(t, u), u.wire = t.wire, OpInv(u, prep)
    PROVE  Kept(t, u, prep)
<1>1. Same(t.wire, u.wire, Ccc(t.wire), Ccc(u.wire))
  BY SameInPlace
<1> QED
  BY <1>1 DEF Kept

SetOp(t, j, d) == [t EXCEPT !.op = [t.op EXCEPT ![j] = d]]

(* an operation that nobody was told about and nothing ends changes *)
LEMMA SilentChange ==
    ASSUME NEW t \in Client, NEW j \in DOMAIN t.op, NEW d \in Operation, OpWaits(t), Whole(t),
           Quiet(t, j), Like(t.op[j], d), d.told = "none",
           t.op[j].told = "none", NEW u, u = SetOp(t, j, d)
    PROVE  /\ u \in Client /\ SameReg(t, u) /\ SameRest(t, u) /\ u.wire = t.wire
           /\ OneOp(t, u, j) /\ u.op[j] = d /\ j \in DOMAIN u.op
           /\ OpWaits(u) /\ Whole(u) /\ Quiet(u, j)
<1>1. /\ u \in Client /\ SameReg(t, u) /\ SameRest(t, u) /\ u.wire = t.wire
      /\ OneOp(t, u, j) /\ u.op[j] = d
  BY OpSet DEF SetOp
<1>2. /\ u.session = t.session /\ u.longQ = t.longQ /\ u.mixed = t.mixed
      /\ u.op[j].kind = t.op[j].kind /\ u.op[j].removed = t.op[j].removed
      /\ u.op[j].told = t.op[j].told
  BY <1>1 DEF SameRest, Like
<1>3. OpWaits(u) /\ Quiet(u, j)
  BY <1>1, <1>2, OpChanged
<1>4. Whole(u)
  BY <1>1, <1>2, WholeChanged
<1> QED
  BY <1>1, <1>3, <1>4 DEF OneOp

(* complete_write_long_op() *)
LEMMA CompleteKeeps ==
    ASSUME NEW t \in Client, NEW j \in DOMAIN t.op, NEW success \in BOOLEAN, NEW prep,
           OpWaits(t), Whole(t), Quiet(t, j),
           t.op[j].kind = "long", t.op[j].told = "none", t.op[j].sent,
           t.open /\ ~t.mixed => /\ Writes(t.wire) = {} /\ t.session = 0 /\ t.inLong
                                 /\ success => Placed(t.op[j], j, prep, NChunks)
    PROVE  Kept(t, CompleteWriteLongOp(t, j, success), prep)
<1>0. PICK u : u = CompleteWriteLongOp(t, j, success)
  OBVIOUS
<1>1. PICK d : d = [t.op[j] EXCEPT !.success = success]
  OBVIOUS
<1>2. t.op[j] \in Operation /\ j \in Nat
  BY OpTypes
<1>3. /\ Like(t.op[j], d) /\ d \in Operation /\ d.success = success
      /\ d.told = t.op[j].told /\ d.sent = t.op[j].sent
  BY <1>1, <1>2, SuccessSet
<1>4. PICK x : x = SetOp(t, j, d)
  OBVIOUS
<1>5. /\ x \in Client /\ SameReg(t, x) /\ SameRest(t, x) /\ x.wire = t.wire
      /\ OneOp(t, x, j) /\ x.op[j] = d /\ j \in DOMAIN x.op
      /\ OpWaits(x) /\ Whole(x) /\ Quiet(x, j)
  BY <1>3, <1>4, SilentChange
<1>6. /\ x.open = t.open /\ x.mixed = t.mixed /\ x.session = t.session /\ x.inLong = t.inLong
      /\ x.op[j].kind = "long" /\ x.op[j].told = "none" /\ x.op[j].sent
      /\ x.op[j].reliable = t.op[j].reliable /\ x.op[j].success = success
  BY <1>3, <1>5 DEF SameRest, Like
<1>7. [t EXCEPT !.op[j].success = success] = x
  BY <1>1, <1>4 DEF SetOp
<1>8. CASE t.open
  <2>1. PICK n \in {0, 1} : n = IF success THEN 1 ELSE 0
    OBVIOUS
  <2>2. u = Send(x, "exec", j, n, "execute")
    BY <1>0, <1>7, <1>8, <2>1 DEF CompleteWriteLongOp
  <2>3. PICK m : m = Msg("exec", j, n, "execute")
    OBVIOUS
  <2>4. /\ m \in Message /\ m.pdu = "exec" /\ m.who = j /\ m.arg = n /\ m.cb = "execute"
        /\ m.live
    BY <1>2, <2>3 DEF Msg, Message
  <2>5. /\ u \in Client /\ SameReg(x, u) /\ SameOp(x, u) /\ u.wire = Append(x.wire, m)
        /\ Same(x.wire, u.wire, Ccc(x.wire), Ccc(u.wire))
    BY <1>5, <2>2, <2>3, <2>4, SendIs
  <2>6. Kind(m.cb) = "long" /\ Pdu(m.cb) = "exec" /\ Steps(m) /\ ~Ends(m)
    BY <2>4 DEF Kind, Pdu, Steps, Ends
  <2>7. OpEntry(x, m)
    <3>1. m.arg \in Int
      BY <2>4
    <3>2. m.who \notin ToSet(x.longQ)
      BY <1>5, <2>4 DEF Quiet
    <3> QED
      BY <1>5, <1>6, <2>4, <2>6, <3>1, <3>2 DEF OpEntry
  <2>8. ~x.mixed => LongEntry(x, m, prep)
    <3>1. ~x.mixed /\ success => Placed(x.op[j], j, prep, NChunks)
      BY <1>6, <1>8 DEF Placed
    <3>2. m.arg = 1 <=> success
      BY <2>1, <2>4
    <3> QED
      BY <1>6, <2>4, <3>1, <3>2 DEF LongEntry
  <2>9. x.open /\ ~x.mixed =>
           /\ Writes(x.wire) = {}
           /\ x.session # 0 => ~x.inLong /\ m.who = x.session
           /\ x.session = 0 => x.inLong /\ LongEntry(x, m, prep)
    BY <1>5, <1>6, <1>8, <2>8
  <2>10. Steps(m) => \A i \in Rest(x.wire) : Steps(x.wire[i]) => x.wire[i].who # m.who
    BY <1>5, <2>4 DEF Quiet
  <2>11. OpWaits(u) /\ Whole(u) /\ InTurn(u, prep)
    BY <1>5, <2>4, <2>5, <2>6, <2>7, <2>9, <2>10, SendKeeps
  <2>12. Kept(x, u, prep)
    BY <2>5, <2>11 DEF Kept, OpInv
  <2> QED
    BY <1>0, <1>5, <2>12, KeptAfter
<1>9. CASE ~t.open
  <2>1. PICK y : y = Result(x, j, "fail")
    OBVIOUS
  <2>2. u = StartNextLongWrite(y)
    BY <1>0, <1>7, <1>9, <2>1 DEF CompleteWriteLongOp
  <2>3. y \in Client /\ SameReg(x, y) /\ SameRest(x, y) /\ y.wire = x.wire
    BY <1>5, <1>6, <2>1, ResultIs
  <2>4. OpWaits(y) /\ Whole(y)
    BY <1>5, <1>6, <2>1, ResultKeeps
  <2>5. ~y.open
    BY <1>6, <1>9, <2>3 DEF SameRest
  <2>6. Kept(y, u, prep)
    BY <2>2, <2>3, <2>4, <2>5, StartNextKeeps DEF Kept
  <2>7. Kept(x, u, prep)
    BY <2>3, <2>6, KeptAfter
  <2> QED
    BY <1>0, <1>5, <2>7, KeptAfter
<1> QED
  BY <1>8, <1>9

(* handle_next_prep_write() *)
LEMMA HandleNextKeeps ==
    ASSUME NEW t \in Client, NEW j \in DOMAIN t.op, NEW prep,
           OpWaits(t), Whole(t), Quiet(t, j),
           t.op[j].kind = "long", t.op[j].told = "none", t.op[j].sent,
           t.open /\ ~t.mixed => /\ Writes(t.wire) = {} /\ t.session = 0 /\ t.inLong
                                 /\ t.op[j].idx \in 1 .. NChunks
                                 /\ Placed(t.op[j], j, prep, t.op[j].idx - 1)
    PROVE  Kept(t, HandleNextPrepWrite(t, j), prep)
<1>1. CASE t.open
  <2>1. HandleNextPrepWrite(t, j) = SendPrep(t, j, "prepare")
    BY <1>1 DEF HandleNextPrepWrite
  <2>2. t.op[j].kind = Kind("prepare")
    BY DEF Kind
  <2> QED
    BY <2>1, <2>2, SendPrepKeeps DEF Kept
<1>2. CASE ~t.open
  <2>1. HandleNextPrepWrite(t, j) = CompleteWriteLongOp(t, j, FALSE)
    BY <1>2 DEF HandleNextPrepWrite
  <2> QED
    BY <1>2, <2>1, CompleteKeeps
<1> QED
  BY <1>1, <1>2

(* the peer took one more chunk *)
LEMMA PlacedMore ==
    ASSUME NEW d, NEW j \in Nat, NEW s \in Seq(Nat \X Int), NEW n \in Nat \ {0}, NEW e \in Int,
           Placed(d, j, s, n - 1), e = n \/ (~d.reliable /\ e = -n)
    PROVE  Placed(d, j, Append(s, <<j, e>>), n)
<1>1. PICK x : x = <<j, e>>
  OBVIOUS
<1>2. x \in Nat \X Int
  BY <1>1
<1>3. PICK r : r = Append(s, x)
  OBVIOUS
<1>4. Len(s) = n - 1 /\ DOMAIN s = 1 .. n - 1
  BY DEF Placed
<1>5. Len(r) = n /\ r[n] = x /\ \A i \in 1 .. n - 1 : r[i] = s[i]
  <2>1. Len(r) = Len(s) + 1 /\ r[Len(s) + 1] = x /\ \A i \in DOMAIN s : r[i] = s[i]
    BY <1>2, <1>3, PushTail
  <2>2. Len(s) + 1 = n
    BY <1>4
  <2> QED
    BY <1>4, <2>1, <2>2
<1>6. ASSUME NEW i \in 1 .. n
      PROVE  r[i] = <<j, i>> \/ (~d.reliable /\ r[i] = <<j, -i>>)
  <2>1. CASE i = n
    BY <1>1, <1>5, <2>1
  <2>2. CASE i # n
    <3>1. i \in 1 .. n - 1
      BY <2>2
    <3> QED
      BY <1>5, <3>1 DEF Placed
  <2> QED
    BY <2>1, <2>2
<1> QED
  BY <1>1, <1>3, <1>5, <1>6 DEF Placed

(* prepare_write_cb() *)
LEMMA PrepareWriteCbKeeps ==
    ASSUME NEW t \in Client, NEW j \in DOMAIN t.op, NEW res,
           NEW prep \in Seq(Nat \X Int), NEW prep2,
           OpWaits(t), Whole(t), Quiet(t, j),
           t.op[j].kind = "long", t.op[j].told = "none", t.op[j].sent,
           t.open /\ ~t.mixed => /\ Writes(t.wire) = {} /\ t.session = 0 /\ t.inLong
                                 /\ t.op[j].idx \in 1 .. NChunks
                                 /\ Placed(t.op[j], j, prep, t.op[j].idx - 1)
                                 /\ ~Failed(res) =>
                                      prep2 = Append(prep, <<j, IF res = "bad" THEN -t.op[j].idx
                                                                ELSE t.op[j].idx>>)
    PROVE  Kept(t, PrepareWriteCb(t, j, res), prep2)
<1>0. PICK u : u = PrepareWriteCb(t, j, res)
  OBVIOUS
<1>1. /\ t.op[j] \in Operation /\ j \in Nat /\ t.op[j].idx \in Nat
      /\ t.op[j].reliable \in BOOLEAN
  BY OpTypes
<1>2. PICK n \in Nat : n = t.op[j].idx
  BY <1>1
<1> DEFINE off == Failed(res) \/ (res = "bad" /\ t.op[j].reliable)
<1>3. t.open /\ ~t.mixed /\ ~off => Placed(t.op[j], j, prep2, n)
  <2> SUFFICES ASSUME t.open, ~t.mixed, ~off PROVE Placed(t.op[j], j, prep2, n)
    OBVIOUS
  <2>1. PICK e \in Int : e = IF res = "bad" THEN -n ELSE n
    OBVIOUS
  <2>2. prep2 = Append(prep, <<j, e>>)
    BY <1>2, <2>1
  <2>3. e = n \/ (~t.op[j].reliable /\ e = -n)
    BY <1>1, <2>1
  <2>4. n \in Nat \ {0} /\ Placed(t.op[j], j, prep, n - 1)
    BY <1>2
  <2> QED
    BY <1>1, <2>2, <2>3, <2>4, PlacedMore
<1> HIDE DEF off
<1>4. /\ off => u = CompleteWriteLongOp(t, j, FALSE)
      /\ ~off /\ n = NChunks => u = CompleteWriteLongOp(t, j, TRUE)
      /\ ~off /\ n # NChunks =>
            u = HandleNextPrepWrite([t EXCEPT !.op[j].idx = @ + 1], j)
  BY <1>0, <1>2 DEF PrepareWriteCb, off
<1>5. CASE off
  <2>1. Kept(t, CompleteWriteLongOp(t, j, FALSE), prep2)
    BY CompleteKeeps
  <2> QED
    BY <1>0, <1>4, <1>5, <2>1
<1>6. CASE ~off /\ n = NChunks
  <2>1. Kept(t, CompleteWriteLongOp(t, j, TRUE), prep2)
    BY <1>3, <1>6, CompleteKeeps
  <2> QED
    BY <1>0, <1>4, <1>6, <2>1
<1>7. CASE ~off /\ n # NChunks
  <2>0. OpWaits(t) /\ Whole(t) /\ Quiet(t, j) /\ t.op[j].told = "none"
    OBVIOUS
  <2>1. PICK k \in Nat : k = n + 1
    OBVIOUS
  <2>2. PICK d : d = [t.op[j] EXCEPT !.idx = k]
    OBVIOUS
  <2>3. /\ Like(t.op[j], d) /\ d \in Operation /\ d.idx = k
        /\ d.told = t.op[j].told /\ d.sent = t.op[j].sent
    BY <1>1, <2>2, IdxSet
  <2>4. PICK x : x = SetOp(t, j, d)
    OBVIOUS
  <2>5. /\ x \in Client /\ SameReg(t, x) /\ SameRest(t, x) /\ x.wire = t.wire
        /\ OneOp(t, x, j) /\ x.op[j] = d /\ j \in DOMAIN x.op
        /\ OpWaits(x) /\ Whole(x) /\ Quiet(x, j)
    <3>1. d \in Operation /\ d.told = "none" /\ Like(t.op[j], d)
      BY <2>0, <2>3
    <3> QED
      BY <2>0, <2>4, <3>1, SilentChange
  <2>6. /\ x.open = t.open /\ x.mixed = t.mixed /\ x.session = t.session
        /\ x.inLong = t.inLong
        /\ x.op[j].kind = "long" /\ x.op[j].told = "none" /\ x.op[j].sent
        /\ x.op[j].reliable = t.op[j].reliable /\ x.op[j].idx = k
    BY <2>3, <2>5 DEF SameRest, Like
  <2>7. u = HandleNextPrepWrite(x, j)
    <3>1. [t EXCEPT !.op[j].idx = @ + 1] = x
      BY <1>2, <2>1, <2>2, <2>4 DEF SetOp
    <3> QED
      BY <1>4, <1>7, <3>1
  <2>8. x.open /\ ~x.mixed => x.op[j].idx \in 1 .. NChunks
    <3>1. t.open /\ ~t.mixed => n \in 1 .. NChunks
      BY <1>2
    <3>2. n \in 1 .. NChunks => k \in 1 .. NChunks
      BY <1>7, <2>1, ClientAssumption
    <3> QED
      BY <2>6, <3>1, <3>2
  <2>9. x.open /\ ~x.mixed => Placed(x.op[j], j, prep2, x.op[j].idx - 1)
    <3>1. k - 1 = n
      BY <2>1
    <3>2. t.open /\ ~t.mixed => Placed(t.op[j], j, prep2, n)
      BY <1>3, <1>7
    <3>3. Placed(t.op[j], j, prep2, n) => Placed(x.op[j], j, prep2, n)
      BY <2>6 DEF Placed
    <3> QED
      BY <2>6, <3>1, <3>2, <3>3
  <2>10. x.open /\ ~x.mixed => Writes(x.wire) = {} /\ x.session = 0 /\ x.inLong
    BY <2>5, <2>6
  <2>11. Kept(x, u, prep2)
    BY <2>5, <2>6, <2>7, <2>8, <2>9, <2>10, HandleNextKeeps
  <2> QED
    BY <1>0, <2>5, <2>11, KeptAfter
<1> QED
  BY <1>5, <1>6, <1>7

(* execute_write_cb() *)
LEMMA ExecuteWriteCbKeeps ==
    ASSUME NEW t \in Client, NEW j \in DOMAIN t.op, NEW ok \in BOOLEAN, NEW prep,
           OpWaits(t), Whole(t), Quiet(t, j),
           t.op[j].kind = "long", t.op[j].told = "none",
           ok /\ t.op[j].success /\ ~t.mixed => Placed(t.op[j], j, t.op[j].wrote, NChunks),
           t.open /\ ~t.mixed => /\ Writes(t.wire) = {} /\ t.session = 0 /\ t.inLong
                                 /\ prep = <<>>
    PROVE  Kept(t, ExecuteWriteCb(t, j, ok), prep)
<1>0. PICK u : u = ExecuteWriteCb(t, j, ok)
  OBVIOUS
<1>1. PICK what \in {"ok", "fail"} : what = IF ok /\ t.op[j].success THEN "ok" ELSE "fail"
  OBVIOUS
<1>2. PICK x : x = Result(t, j, what)
  OBVIOUS
<1>3. u = StartNextLongWrite(x)
  BY <1>0, <1>1, <1>2 DEF ExecuteWriteCb
<1>4. x \in Client /\ SameReg(t, x) /\ SameRest(t, x) /\ x.wire = t.wire
  BY <1>2, ResultIs
<1>5. what = "ok" => WholeOp(t.op[j], j, t.mixed)
  BY <1>1 DEF WholeOp
<1>6. OpWaits(x) /\ Whole(x)
  BY <1>2, <1>5, ResultKeeps
<1>7. x.open /\ ~x.mixed => /\ Writes(x.wire) = {} /\ prep = <<>> /\ x.session = 0
                            /\ x.longQ # <<>> => x.inLong
  BY <1>4 DEF SameRest
<1>8. Kept(x, u, prep)
  BY <1>3, <1>4, <1>6, <1>7, StartNextKeeps DEF Kept
<1> QED
  BY <1>0, <1>4, <1>8, KeptAfter

(* no prepared write and no Execute Write is for a read *)
LEMMA WritesKind ==
    ASSUME NEW t, OpWaits(t), NEW i \in Writes(t.wire)
    PROVE  /\ t.wire[i].who \in DOMAIN t.op
           /\ t.op[t.wire[i].who].kind \in {"long", "session"}
<1>1. i \in Rest(t.wire) /\ t.wire[i].pdu # "read"
  BY DEF Writes, Rest
<1>2. OpEntry(t, t.wire[i])
  BY <1>1 DEF OpWaits
<1> QED
  BY <1>1, <1>2 DEF OpEntry, Kind, Pdu

(* a session ends; told is what its operation hears, or had heard *)
LEMMA SessionEnds ==
    ASSUME NEW t \in Client, NEW u \in Client, NEW j \in DOMAIN t.op,
           OpWaits(t), Whole(t), j = t.session, t.op[j].kind = "session",
           OneOp(t, u, j), u.wire = t.wire, u.longQ = t.longQ, u.session = 0,
           t.mixed => u.mixed,
           u.op[j].kind = "session", u.op[j].removed = t.op[j].removed,
           t.op[j].removed \/ u.op[j].told # "none",
           \A i \in Rest(t.wire) : ~Ends(t.wire[i])
    PROVE  OpWaits(u) /\ Whole(u)
<1>1. j \notin ToSet(t.longQ)
  BY DEF OpWaits, OpQueued
<1>2. OpQueued(u)
  <2>1. \A k \in ToSet(t.longQ) : k \in DOMAIN t.op /\ k # j /\ u.op[k] = t.op[k]
    BY <1>1 DEF OpWaits, OpQueued, OneOp
  <2> QED
    BY <2>1 DEF OpWaits, OpQueued, OneOp
<1>3. ASSUME NEW i \in Rest(u.wire) PROVE OpEntry(u, u.wire[i])
  <2>1. PICK w : w = u.wire[i]
    OBVIOUS
  <2>2. OpEntry(t, w) /\ ~Ends(w)
    BY <2>1 DEF OpWaits
  <2>3. Steps(w) => w.who # j
    <3>1. Steps(w) => Kind(w.cb) # "session"
      BY DEF Steps, Kind
    <3> QED
      BY <2>2, <3>1 DEF OpEntry
  <2>4. /\ w.who \in DOMAIN t.op
        /\ u.op[w.who].kind = t.op[w.who].kind
        /\ w.who # j => u.op[w.who] = t.op[w.who]
    BY <2>2 DEF OpEntry, OneOp
  <2>5. w.cb = "readlong" /\ w.live => Steps(w)
    BY DEF Steps
  <2> QED
    BY <2>1, <2>2, <2>3, <2>4, <2>5 DEF OpEntry, OneOp
<1>4. \A k \in DOMAIN u.op :
         ~(u.op[k].kind = "session" /\ u.op[k].told = "none" /\ ~u.op[k].removed)
  BY DEF OpWaits, OneOp
<1>5. OpWaits(u)
  BY <1>2, <1>3, <1>4 DEF OpWaits, OneOp
<1>6. t.mixed \in BOOLEAN /\ u.mixed \in BOOLEAN
  BY LongTypes
<1>7. Whole(u)
  BY <1>6 DEF Whole, WholeOp, OneOp
<1> QED
  BY <1>5, <1>7

(* exec_write_cb() *)
LEMMA ExecWriteCbKeeps ==
    ASSUME NEW t \in Client, NEW j \in DOMAIN t.op, NEW ok \in BOOLEAN, NEW prep,
           OpWaits(t), Whole(t), j = t.session, t.op[j].kind = "session",
           t.op[j].told = "none", \A i \in Rest(t.wire) : ~Ends(t.wire[i]),
           t.open /\ ~t.mixed => Writes(t.wire) = {} /\ prep = <<>>
    PROVE  Kept(t, ExecWriteCb(t, j, ok), prep)
<1>0. PICK u : u = ExecWriteCb(t, j, ok)
  OBVIOUS
<1>1. PICK what \in {"ok", "fail"} : what = IF ok THEN "ok" ELSE "fail"
  OBVIOUS
<1>2. PICK x : x = Result(t, j, what)
  OBVIOUS
<1>3. /\ x \in Client /\ SameReg(t, x) /\ SameRest(t, x) /\ x.wire = t.wire
      /\ OneOp(t, x, j) /\ Like(t.op[j], x.op[j]) /\ x.op[j].told = what
  BY <1>2, ResultIs
<1>4. PICK b \in BOOLEAN : b = (x.mixed \/ t.longQ # <<>>)
  OBVIOUS
<1>5. PICK y : y = [x EXCEPT !.session = 0, !.mixed = b]
  OBVIOUS
<1>6. u = StartNextLongWrite(y)
  <2>1. [Result(t, j, IF ok THEN "ok" ELSE "fail") EXCEPT
             !.session = 0, !.mixed = @ \/ t.longQ # <<>>] = y
    BY <1>1, <1>2, <1>4, <1>5
  <2> QED
    BY <1>0, <2>1 DEF ExecWriteCb
<1>7. y \in Client /\ y.session = 0 /\ y.mixed = b
  BY <1>3, <1>5 DEF Client
<1>8. /\ SameReg(x, y) /\ y.wire = x.wire /\ y.op = x.op /\ y.longQ = x.longQ
      /\ y.open = x.open
  BY <1>3, <1>5 DEF Client, SameReg
<1>9. /\ OneOp(t, y, j) /\ y.wire = t.wire /\ y.longQ = t.longQ
      /\ y.op[j].kind = "session" /\ y.op[j].removed = t.op[j].removed
      /\ y.op[j].told # "none" /\ (t.mixed => y.mixed) /\ y.open = t.open
  BY <1>3, <1>4, <1>7, <1>8 DEF OneOp, Like, SameRest
<1>10. OpWaits(y) /\ Whole(y)
  BY <1>7, <1>9, SessionEnds
<1>11. y.open /\ ~y.mixed => /\ Writes(y.wire) = {} /\ prep = <<>> /\ y.session = 0
                             /\ y.longQ # <<>> => y.inLong
  BY <1>4, <1>7, <1>9
<1>12. Kept(y, u, prep)
  BY <1>6, <1>7, <1>10, <1>11, StartNextKeeps DEF Kept
<1>13. Kept(x, u, prep)
  BY <1>8, <1>12, KeptAfter
<1> QED
  BY <1>0, <1>3, <1>13, KeptAfter

(* cancel_prep_write_cb() *)
LEMMA CancelPrepWriteCbKeeps ==
    ASSUME NEW t \in Client, NEW j \in DOMAIN t.op, NEW prep,
           OpWaits(t), Whole(t), j = t.session, t.op[j].kind = "session",
           t.op[j].removed, \A i \in Rest(t.wire) : ~Ends(t.wire[i]),
           t.open /\ ~t.mixed => Writes(t.wire) = {} /\ prep = <<>> /\ ~t.inLong
    PROVE  Kept(t, CancelPrepWriteCb(t), prep)
<1>0. PICK u : u = CancelPrepWriteCb(t)
  OBVIOUS
<1>1. u = [t EXCEPT !.session = 0]
  BY <1>0 DEF CancelPrepWriteCb
<1>2. u \in Client /\ u.session = 0
  BY <1>1 DEF Client
<1>3. /\ SameReg(t, u) /\ u.wire = t.wire /\ u.op = t.op /\ u.longQ = t.longQ
      /\ u.open = t.open /\ u.mixed = t.mixed /\ u.inLong = t.inLong
  BY <1>1 DEF Client, SameReg
<1>4. OneOp(t, u, j)
  BY <1>3 DEF OneOp
<1>5. OpWaits(u) /\ Whole(u)
  BY <1>2, <1>3, <1>4, SessionEnds
<1>6. InTurn(u, prep)
  BY <1>2, <1>3 DEF InTurn
<1> QED
  BY <1>0, <1>2, <1>3, <1>5, <1>6, KeptInPlace DEF OpInv

(* cancel_long_write_cb() *)
LEMMA CancelLongWriteCbKeeps ==
    ASSUME NEW t \in Client, NEW prep, OpWaits(t), Whole(t), ~t.open \/ t.mixed
    PROVE  Kept(t, CancelLongWriteCb(t), prep)
<1>0. PICK u : u = CancelLongWriteCb(t)
  OBVIOUS
<1>1. /\ u \in Client /\ SameReg(t, u) /\ u.wire = t.wire /\ u.op = t.op
      /\ u.longQ = t.longQ /\ u.session = t.session /\ u.open = t.open /\ u.mixed = t.mixed
  <2>1. CASE t.longQ = <<>>
    <3>1. u = [t EXCEPT !.inLong = FALSE]
      BY <1>0, <2>1 DEF CancelLongWriteCb
    <3>2. u \in Client
      BY <3>1 DEF Client
    <3> QED
      BY <3>1, <3>2 DEF Client, SameReg
  <2>2. CASE t.longQ # <<>>
    BY <1>0, <2>2 DEF CancelLongWriteCb, SameReg
  <2> QED
    BY <2>1, <2>2
<1>2. t.mixed \in BOOLEAN /\ Distinct(t.longQ)
  BY LongTypes DEF OpWaits, OpQueued
<1>3. OpWaits(u) /\ Whole(u)
  BY <1>1, <1>2, FewerQueued
<1>4. InTurn(u, prep)
  BY <1>1 DEF InTurn
<1> QED
  BY <1>0, <1>1, <1>3, <1>4, KeptInPlace DEF OpInv

(* a read, or a plain write, has its result *)
LEMMA ResultOfRead ==
    ASSUME NEW t \in Client, NEW j \in DOMAIN t.op, NEW what \in {"ok", "fail"}, NEW prep,
           OpInv(t, prep), Quiet(t, j), t.op[j].told = "none",
           t.op[j].kind \in {"readlong", "simple"},
           what = "ok" => WholeOp(t.op[j], j, t.mixed)
    PROVE  Kept(t, Result(t, j, what), prep)
<1>0. PICK u : u = Result(t, j, what)
  OBVIOUS
<1>1. OpWaits(t) /\ Whole(t) /\ InTurn(t, prep)
  BY DEF OpInv
<1>2. u \in Client /\ SameReg(t, u) /\ SameRest(t, u) /\ u.wire = t.wire /\ OneOp(t, u, j)
  BY <1>0, ResultIs
<1>3. t.op[j].kind # "session"
  OBVIOUS
<1>4. OpWaits(u) /\ Whole(u)
  BY <1>0, <1>1, <1>3, ResultKeeps
<1>5. \A i \in Writes(t.wire) : t.wire[i].who # j
  BY <1>1, WritesKind
<1>6. InTurn(u, prep)
  BY <1>1, <1>2, <1>5, InTurnChanged
<1> QED
  BY <1>0, <1>2, <1>4, <1>6, KeptInPlace DEF OpInv

(* a read that was sent on is asked for what is left *)
LEMMA ReadSent ==
    ASSUME NEW t \in Client, NEW j \in DOMAIN t.op, NEW n \in Int,
           NEW cb \in {"readlong", "simple"}, NEW prep,
           OpInv(t, prep), Quiet(t, j), t.op[j].told = "none", t.op[j].kind = cb,
           cb = "readlong" =>
              /\ n = t.op[j].idx /\ n <= t.op[j].len /\ n < MaxValueLen
    PROVE  Kept(t, Send(t, "read", j, n, cb), prep)
<1>0. PICK u : u = Send(t, "read", j, n, cb)
  OBVIOUS
<1>1. PICK m : m = Msg("read", j, n, cb)
  OBVIOUS
<1>2. j \in Nat
  BY OpTypes
<1>3. /\ m \in Message /\ m.pdu = "read" /\ m.who = j /\ m.arg = n /\ m.cb = cb /\ m.live
  BY <1>1, <1>2 DEF Msg, Message
<1>4. /\ u \in Client /\ SameReg(t, u) /\ SameOp(t, u) /\ u.wire = Append(t.wire, m)
      /\ Same(t.wire, u.wire, Ccc(t.wire), Ccc(u.wire))
  BY <1>0, <1>1, <1>3, SendIs
<1>5. Kind(cb) = cb /\ Pdu(cb) = "read"
  BY DEF Kind, Pdu
<1>6. j \notin ToSet(t.longQ)
  BY DEF Quiet
<1>7. ~Ends(m)
  BY <1>3 DEF Ends
<1>8. OpEntry(t, m)
  BY <1>3, <1>5, <1>6, <1>7 DEF OpEntry
<1>9. Steps(m) => \A i \in Rest(t.wire) : Steps(t.wire[i]) => t.wire[i].who # m.who
  BY <1>3 DEF Quiet
<1>10. OpWaits(u) /\ Whole(u) /\ InTurn(u, prep)
  BY <1>3, <1>4, <1>7, <1>8, <1>9, SendKeeps DEF OpInv
<1> QED
  BY <1>0, <1>4, <1>10 DEF Kept, OpInv

(* append_chunk() *)
LEMMA ChunkAppended ==
    ASSUME NEW old \in Nat, NEW size \in Nat, NEW len \in Nat, NEW got \in Nat,
           old <= size, len = IF size - old < Blob THEN size - old ELSE Blob,
           got = IF old + len > MaxValueLen THEN MaxValueLen ELSE old + len
    PROVE  /\ got <= size
           /\ ~(got < MaxValueLen /\ len >= Blob) =>
                 got = IF size < MaxValueLen THEN size ELSE MaxValueLen
BY ClientAssumption

(* read_long_cb() *)
LEMMA ReadLongCbKeeps ==
    ASSUME NEW t \in Client, NEW j \in DOMAIN t.op, NEW ok \in BOOLEAN, NEW len, NEW prep,
           OpInv(t, prep), Quiet(t, j), t.op[j].told = "none", t.op[j].kind = "readlong",
           t.op[j].idx <= t.op[j].len,
           ok => len = IF t.op[j].len - t.op[j].idx < Blob THEN t.op[j].len - t.op[j].idx
                       ELSE Blob
    PROVE  Kept(t, ReadLongCb(t, j, ok, len), prep)
<1>0. PICK u : u = ReadLongCb(t, j, ok, len)
  OBVIOUS
<1>1. CASE ~ok
  <2>1. u = Result(t, j, "fail")
    BY <1>0, <1>1 DEF ReadLongCb
  <2>2. Kept(t, Result(t, j, "fail"), prep)
    BY ResultOfRead
  <2> QED
    BY <1>0, <2>1, <2>2
<1>2. CASE ok
  <2>1. t.op[j] \in Operation /\ t.op[j].idx \in Nat /\ t.op[j].len \in Nat
    BY OpTypes
  <2>2. PICK old \in Nat : old = t.op[j].idx
    BY <2>1
  <2>3. PICK size \in Nat : size = t.op[j].len
    BY <2>1
  <2>4. /\ old <= size /\ len \in Nat
        /\ len = IF size - old < Blob THEN size - old ELSE Blob
    BY <1>2, <2>2, <2>3, ClientAssumption
  <2>5. PICK got \in Nat : got = IF old + len > MaxValueLen THEN MaxValueLen ELSE old + len
    BY <2>4, ClientAssumption
  <2>6. /\ got <= size
        /\ ~(got < MaxValueLen /\ len >= Blob) =>
              got = IF size < MaxValueLen THEN size ELSE MaxValueLen
    BY <2>4, <2>5, ChunkAppended
  <2>7. PICK d : d = [t.op[j] EXCEPT !.idx = got]
    OBVIOUS
  <2>8. Like(t.op[j], d) /\ d \in Operation /\ d.idx = got /\ d.told = t.op[j].told
    BY <2>1, <2>7, IdxSet
  <2>9. PICK x : x = SetOp(t, j, d)
    OBVIOUS
  <2>10. OpWaits(t) /\ Whole(t) /\ InTurn(t, prep) /\ d.told = "none"
    BY <2>8 DEF OpInv
  <2>11. /\ x \in Client /\ SameReg(t, x) /\ SameRest(t, x) /\ x.wire = t.wire
         /\ OneOp(t, x, j) /\ x.op[j] = d /\ j \in DOMAIN x.op
         /\ OpWaits(x) /\ Whole(x) /\ Quiet(x, j)
    BY <2>8, <2>9, <2>10, SilentChange
  <2>12. /\ x.open = t.open /\ x.mixed = t.mixed
         /\ x.op[j].kind = "readlong" /\ x.op[j].told = "none"
         /\ x.op[j].idx = got /\ x.op[j].len = size
    BY <2>3, <2>8, <2>10, <2>11 DEF SameRest, Like
  <2>13. OpInv(x, prep)
    <3>1. \A i \in Writes(t.wire) : t.wire[i].who # j
      BY <2>10, WritesKind
    <3> QED
      BY <2>10, <2>11, <3>1, InTurnChanged DEF OpInv
  <2>14. x = [t EXCEPT !.op[j].idx = got]
    BY <2>7, <2>9 DEF SetOp
  <2>15. /\ got < MaxValueLen /\ len >= Blob /\ t.open => u = Send(x, "read", j, got, "readlong")
         /\ got < MaxValueLen /\ len >= Blob /\ ~t.open => u = Result(x, j, "fail")
         /\ ~(got < MaxValueLen /\ len >= Blob) => u = Result(x, j, "ok")
    BY <1>0, <1>2, <2>2, <2>5, <2>14 DEF ReadLongCb, More
  <2>16. CASE got < MaxValueLen /\ len >= Blob /\ t.open
    <3>1. Kept(x, Send(x, "read", j, got, "readlong"), prep)
      BY <2>6, <2>11, <2>12, <2>13, <2>16, ReadSent
    <3> QED
      BY <1>0, <2>11, <2>15, <2>16, <3>1, KeptAfter
  <2>17. CASE got < MaxValueLen /\ len >= Blob /\ ~t.open
    <3>1. Kept(x, Result(x, j, "fail"), prep)
      BY <2>11, <2>12, <2>13, ResultOfRead
    <3> QED
      BY <1>0, <2>11, <2>15, <2>17, <3>1, KeptAfter
  <2>18. CASE ~(got < MaxValueLen /\ len >= Blob)
    <3>1. WholeOp(x.op[j], j, x.mixed)
      BY <2>6, <2>12, <2>18 DEF WholeOp
    <3>2. Kept(x, Result(x, j, "ok"), prep)
      BY <2>11, <2>12, <2>13, <3>1, ResultOfRead
    <3> QED
      BY <1>0, <2>11, <2>15, <2>18, <3>2, KeptAfter
  <2> QED
    BY <2>16, <2>17, <2>18
<1> QED
  BY <1>1, <1>2
-----------------------------------------------------------------------------
(* The answer to a request *)

(* the prepared write or Execute Write w was taken out of the queue *)
Turn(t, w, prep) ==
    w.pdu \in {"prep", "exec"} /\ t.open /\ ~t.mixed =>
        /\ Writes(t.wire) = {}
        /\ t.session # 0 => ~t.inLong /\ w.who = t.session
        /\ t.session = 0 => t.inLong /\ LongEntry(t, w, prep)

(* the request w was taken out of the queue *)
Taken(t, w, prep) ==
    /\ OpWaits(t) /\ Whole(t) /\ OpEntry(t, w)
    /\ Steps(w) => Quiet(t, w.who)
    /\ Ends(w) => \A k \in Rest(t.wire) : ~Ends(t.wire[k])
    /\ w.pdu = "read" => InTurn(t, prep)
    /\ Turn(t, w, prep)

(* the peer executed what was prepared *)
Wrote(t, w, prep) == [t EXCEPT !.op[w.who].wrote = prep]

LEMMA WroteKeeps ==
    ASSUME NEW t \in Client, NEW w, NEW prep \in Seq(Nat \X Int), Taken(t, w, prep),
           w.pdu = "exec", t.open
    PROVE  LET u == Wrote(t, w, prep)
           IN  /\ u \in Client /\ SameReg(t, u) /\ SameRest(t, u) /\ u.wire = t.wire
               /\ Taken(u, w, prep) /\ u.op[w.who].wrote = prep
<1>0. PICK j \in DOMAIN t.op : j = w.who
  BY DEF Taken, OpEntry
<1>1. t.op[j] \in Operation
  BY OpTypes
<1>2. PICK d : d = [t.op[j] EXCEPT !.wrote = prep]
  OBVIOUS
<1>3. /\ Like(t.op[j], d) /\ d \in Operation /\ d.wrote = prep
      /\ d.told = t.op[j].told /\ d.sent = t.op[j].sent /\ d.idx = t.op[j].idx
      /\ d.success = t.op[j].success
  BY <1>1, <1>2, WroteSet
<1>4. PICK u : u = [t EXCEPT !.op = [t.op EXCEPT ![j] = d]]
  OBVIOUS
<1>5. u = Wrote(t, w, prep)
  BY <1>0, <1>2, <1>4 DEF Wrote
<1>6. /\ u \in Client /\ SameReg(t, u) /\ SameRest(t, u) /\ u.wire = t.wire
      /\ OneOp(t, u, j) /\ u.op[j] = d
  BY <1>3, <1>4, OpSet
<1>7. /\ u.session = t.session /\ u.longQ = t.longQ /\ u.mixed = t.mixed /\ u.open = t.open
      /\ u.inLong = t.inLong
  BY <1>6 DEF SameRest
<1>8. \A k \in DOMAIN t.op :
         /\ u.op[k].kind = t.op[k].kind /\ u.op[k].removed = t.op[k].removed
         /\ u.op[k].told = t.op[k].told /\ u.op[k].sent = t.op[k].sent
         /\ u.op[k].idx = t.op[k].idx /\ u.op[k].success = t.op[k].success
         /\ u.op[k].len = t.op[k].len /\ u.op[k].reliable = t.op[k].reliable
  <2> SUFFICES ASSUME NEW k \in DOMAIN t.op
               PROVE /\ u.op[k].kind = t.op[k].kind /\ u.op[k].removed = t.op[k].removed
                     /\ u.op[k].told = t.op[k].told /\ u.op[k].sent = t.op[k].sent
                     /\ u.op[k].idx = t.op[k].idx /\ u.op[k].success = t.op[k].success
                     /\ u.op[k].len = t.op[k].len /\ u.op[k].reliable = t.op[k].reliable
    OBVIOUS
  <2>1. CASE k = j
    BY <1>3, <1>6, <2>1 DEF Like
  <2>2. CASE k # j
    BY <1>6, <2>2 DEF OneOp
  <2> QED
    BY <2>1, <2>2
<1>9. DOMAIN u.op = DOMAIN t.op /\ Len(u.op) = Len(t.op)
  BY <1>6 DEF OneOp
<1>10. ASSUME NEW x, OpEntry(t, x) PROVE OpEntry(u, x)
  BY <1>7, <1>8, <1>9, <1>10 DEF OpEntry
<1>11. OpWaits(u)
  <2>1. OpWaits(t)
    BY DEF Taken
  <2>2. OpQueued(u)
    <3>1. OpQueued(t)
      BY <2>1 DEF OpWaits
    <3> QED
      BY <1>7, <1>8, <1>9, <3>1 DEF OpQueued
  <2>3. /\ \A i \in Rest(u.wire) : OpEntry(u, u.wire[i])
        /\ \A i, k \in Rest(u.wire) :
              \/ Steps(u.wire[i]) /\ Steps(u.wire[k]) /\ u.wire[i].who = u.wire[k].who
              \/ Ends(u.wire[i]) /\ Ends(u.wire[k])
              => i = k
    BY <1>6, <1>10, <2>1 DEF OpWaits
  <2>4. u.session # 0 => /\ u.session \in DOMAIN u.op
                         /\ u.op[u.session].kind = "session"
                         /\ u.op[u.session].removed \/ u.op[u.session].told = "none"
    BY <1>7, <1>8, <1>9, <2>1 DEF OpWaits
  <2>5. /\ \A k \in DOMAIN u.op :
              u.op[k].kind = "session" /\ u.op[k].told = "none" /\ ~u.op[k].removed
                 => k = u.session
        /\ Len(u.op) <= MaxCalls
    BY <1>7, <1>8, <1>9, <2>1 DEF OpWaits
  <2> QED
    BY <2>2, <2>3, <2>4, <2>5 DEF OpWaits
<1>12. Whole(u)
  <2>1. Whole(t) /\ OpEntry(t, w) /\ Turn(t, w, prep) /\ OpWaits(t)
    BY DEF Taken
  <2>2. ASSUME u.op[j].told = "ok" PROVE WholeOp(u.op[j], j, u.mixed)
    <3>1. WholeOp(t.op[j], j, t.mixed) /\ t.op[j].told = "ok"
      BY <1>8, <2>1, <2>2 DEF Whole
    <3>2. ASSUME t.op[j].kind = "long", ~t.mixed PROVE FALSE
      <4>1. w.cb \in {"execute", "cancel long"} /\ w.live
        BY <1>0, <2>1, <3>2 DEF OpEntry, Kind, Pdu
      <4>2. w.cb # "execute"
        BY <1>0, <2>1, <3>1, <4>1 DEF OpEntry, Steps
      <4>3. t.session = 0
        BY <1>0, <2>1, <3>2 DEF Turn, OpWaits
      <4>4. LongEntry(t, w, prep)
        BY <2>1, <3>2, <4>3 DEF Turn
      <4> QED
        BY <4>1, <4>2, <4>4 DEF LongEntry
    <3> QED
      BY <1>7, <1>8, <3>1, <3>2 DEF WholeOp
  <2> QED
    BY <1>6, <1>7, <2>1, <2>2, WholeChanged
<1>13. Turn(u, w, prep)
  <2>1. Turn(t, w, prep)
    BY DEF Taken
  <2>2. LongEntry(t, w, prep) => LongEntry(u, w, prep)
    BY <1>0, <1>8 DEF LongEntry, Placed
  <2> QED
    BY <1>6, <1>7, <2>1, <2>2 DEF Turn
<1>14. Steps(w) => Quiet(u, w.who)
  BY <1>6, <1>7 DEF Taken, Quiet
<1>15. OpEntry(u, w)
  BY <1>10 DEF Taken
<1>16. Ends(w) => \A k \in Rest(u.wire) : ~Ends(u.wire[k])
  BY <1>6 DEF Taken
<1>17. Taken(u, w, prep)
  BY <1>11, <1>12, <1>13, <1>14, <1>15, <1>16 DEF Taken
<1> QED
  BY <1>0, <1>3, <1>5, <1>6, <1>17

LEMMA CallbackKeeps ==
    ASSUME NEW t \in Client, NEW w \in Message, NEW len,
           NEW res \in {"ok", "err", "bad", "none"},
           NEW prep \in Seq(Nat \X Int), NEW prep2, Taken(t, w, prep),
           res = "bad" => w.cb = "prepare",
           w.pdu = "exec" /\ w.arg = 1 /\ res = "ok" => t.op[w.who].wrote = prep,
           w.pdu = "exec" /\ t.open => prep2 = <<>>,
           w.pdu = "prep" /\ t.open /\ ~Failed(res) =>
              prep2 = Append(prep, <<w.who, IF res = "bad" THEN -w.arg ELSE w.arg>>),
           w.pdu = "read" => prep2 = prep,
           ~t.open => Failed(res),
           w.pdu = "read" /\ ~Failed(res) =>
              len = IF t.op[w.who].len - w.arg < Blob THEN t.op[w.who].len - w.arg ELSE Blob
    PROVE  Kept(t, Callback(t, w, res, len), prep2)
<1>0. PICK u : u = Callback(t, w, res, len)
  OBVIOUS
<1>1. /\ OpWaits(t) /\ Whole(t) /\ OpEntry(t, w) /\ Turn(t, w, prep)
      /\ Steps(w) => Quiet(t, w.who)
      /\ Ends(w) => \A k \in Rest(t.wire) : ~Ends(t.wire[k])
      /\ w.pdu = "read" => InTurn(t, prep)
  BY DEF Taken
<1>2. PICK j \in DOMAIN t.op : j = w.who
  BY <1>1 DEF OpEntry
<1>3. PICK ok \in BOOLEAN : ok = ~Failed(res)
  BY DEF Failed
<1>4. /\ ~w.live => u = t
      /\ w.live => /\ w.cb = "prepare" => u = PrepareWriteCb(t, j, res)
                   /\ w.cb = "prep" => u = t
                   /\ w.cb = "execute" => u = ExecuteWriteCb(t, j, ok)
                   /\ w.cb = "exec" => u = ExecWriteCb(t, j, ok)
                   /\ w.cb = "cancel long" => u = CancelLongWriteCb(t)
                   /\ w.cb = "cancel prep" => u = CancelPrepWriteCb(t)
                   /\ w.cb = "readlong" => u = ReadLongCb(t, j, ok, len)
                   /\ w.cb = "simple" => u = Result(t, j, IF ok THEN "ok" ELSE "fail")
  BY <1>0, <1>2, <1>3 DEF Callback
<1>5. /\ t.op[j].kind = Kind(w.cb) /\ w.pdu = Pdu(w.cb)
      /\ w.pdu # "read" => w.live
      /\ w.cb \in {"prepare", "prep", "execute", "exec", "cancel long", "cancel prep",
                   "readlong", "simple"}
  BY <1>1, <1>2 DEF OpEntry, Message
<1>6. SameReg(t, t) /\ Same(t.wire, t.wire, Ccc(t.wire), Ccc(t.wire))
  BY SameInPlace DEF SameReg
<1>7. CASE w.cb = "prep"
  <2>1. w.pdu = "prep" /\ t.op[j].kind = "session" /\ w.live
    BY <1>5, <1>7 DEF Kind, Pdu
  <2>2. t.open /\ ~t.mixed => Writes(t.wire) = {} /\ t.session # 0 /\ ~t.inLong
    BY <1>1, <1>7, <2>1 DEF Turn, LongEntry
  <2>3. InTurn(t, prep2)
    BY <2>2 DEF InTurn
  <2> QED
    BY <1>0, <1>1, <1>4, <1>6, <1>7, <2>1, <2>3 DEF Kept, OpInv
<1>8. CASE w.cb = "prepare"
  <2>1. /\ w.pdu = "prep" /\ t.op[j].kind = "long" /\ w.live /\ Steps(w)
    BY <1>5, <1>8 DEF Kind, Pdu, Steps
  <2>2. t.op[j].told = "none" /\ t.op[j].sent /\ Quiet(t, j)
    BY <1>1, <1>2, <2>1 DEF OpEntry
  <2>3. t.open /\ ~t.mixed => t.session = 0
    BY <1>1, <1>2, <2>1 DEF Turn, OpWaits
  <2>4. t.open /\ ~t.mixed =>
           /\ Writes(t.wire) = {} /\ t.inLong
           /\ w.arg = t.op[j].idx /\ t.op[j].idx \in 1 .. NChunks
           /\ Placed(t.op[j], j, prep, t.op[j].idx - 1)
    BY <1>1, <1>2, <1>8, <2>1, <2>3 DEF Turn, LongEntry
  <2>5. t.open /\ ~t.mixed /\ ~Failed(res) =>
           prep2 = Append(prep, <<j, IF res = "bad" THEN -t.op[j].idx ELSE t.op[j].idx>>)
    BY <1>2, <2>1, <2>4
  <2>6. Kept(t, PrepareWriteCb(t, j, res), prep2)
    BY <1>1, <2>1, <2>2, <2>3, <2>4, <2>5, PrepareWriteCbKeeps
  <2> QED
    BY <1>0, <1>4, <1>8, <2>1, <2>6
<1>9. CASE w.cb = "execute"
  <2>1. /\ w.pdu = "exec" /\ t.op[j].kind = "long" /\ w.live /\ Steps(w)
    BY <1>5, <1>9 DEF Kind, Pdu, Steps
  <2>2. t.op[j].told = "none" /\ Quiet(t, j)
    BY <1>1, <1>2, <2>1 DEF OpEntry
  <2>3. t.open /\ ~t.mixed => t.session = 0
    BY <1>1, <1>2, <2>1 DEF Turn, OpWaits
  <2>4. t.open /\ ~t.mixed =>
           /\ Writes(t.wire) = {} /\ t.inLong
           /\ w.arg = 1 <=> t.op[j].success
           /\ t.op[j].success => Placed(t.op[j], j, prep, NChunks)
    BY <1>1, <1>2, <1>9, <2>1, <2>3 DEF Turn, LongEntry
  <2>5. ok /\ t.op[j].success /\ ~t.mixed => Placed(t.op[j], j, t.op[j].wrote, NChunks)
    <3> SUFFICES ASSUME ok, t.op[j].success, ~t.mixed
                 PROVE  Placed(t.op[j], j, t.op[j].wrote, NChunks)
      OBVIOUS
    <3>1. t.open /\ res = "ok"
      BY <1>3, <1>9 DEF Failed
    <3>2. t.op[j].wrote = prep
      BY <1>2, <2>1, <2>4, <3>1
    <3> QED
      BY <2>4, <3>1, <3>2
  <2>6. t.open => prep2 = <<>>
    BY <2>1
  <2>7. Kept(t, ExecuteWriteCb(t, j, ok), prep2)
    BY <1>1, <2>1, <2>2, <2>3, <2>4, <2>5, <2>6, ExecuteWriteCbKeeps
  <2> QED
    BY <1>0, <1>4, <1>9, <2>1, <2>7
<1>10. CASE w.cb \in {"exec", "cancel prep"}
  <2>1. w.pdu = "exec" /\ t.op[j].kind = "session" /\ w.live /\ Ends(w)
    BY <1>5, <1>10 DEF Kind, Pdu, Ends
  <2>2. j = t.session /\ t.op[j].removed = (w.cb = "cancel prep")
    BY <1>1, <1>2, <2>1 DEF OpEntry
  <2>3. t.session # 0
    BY <2>2, OpTypes
  <2>4. t.op[j].removed \/ t.op[j].told = "none"
    BY <1>1, <2>2, <2>3 DEF OpWaits
  <2>5. t.open /\ ~t.mixed => Writes(t.wire) = {} /\ prep2 = <<>> /\ ~t.inLong
    BY <1>1, <2>1, <2>3 DEF Turn
  <2>6. \A k \in Rest(t.wire) : ~Ends(t.wire[k])
    BY <1>1, <2>1
  <2>7. CASE w.cb = "exec"
    <3>1. t.op[j].told = "none"
      BY <2>2, <2>4, <2>7
    <3>2. Kept(t, ExecWriteCb(t, j, ok), prep2)
      BY <1>1, <2>1, <2>2, <2>5, <2>6, <3>1, ExecWriteCbKeeps
    <3> QED
      BY <1>0, <1>4, <2>1, <2>7, <3>2
  <2>8. CASE w.cb = "cancel prep"
    <3>1. Kept(t, CancelPrepWriteCb(t), prep2)
      BY <1>1, <2>1, <2>2, <2>5, <2>6, <2>8, CancelPrepWriteCbKeeps
    <3> QED
      BY <1>0, <1>4, <2>1, <2>8, <3>1
  <2> QED
    BY <1>10, <2>7, <2>8
<1>11. CASE w.cb = "cancel long"
  <2>1. w.pdu = "exec" /\ t.op[j].kind = "long" /\ w.live
    BY <1>5, <1>11 DEF Kind, Pdu
  <2>2. ~t.open \/ t.mixed
    <3> SUFFICES ASSUME t.open, ~t.mixed PROVE FALSE
      OBVIOUS
    <3>1. t.session = 0
      BY <1>1, <1>2, <2>1 DEF Turn, OpWaits
    <3> QED
      BY <1>1, <1>11, <2>1, <3>1 DEF Turn, LongEntry
  <2>3. Kept(t, CancelLongWriteCb(t), prep2)
    BY <1>1, <2>2, CancelLongWriteCbKeeps
  <2> QED
    BY <1>0, <1>4, <1>11, <2>1, <2>3
<1>12. CASE w.cb \in {"readlong", "simple"}
  <2>1. w.pdu = "read" /\ t.op[j].kind = w.cb /\ (w.live => Steps(w))
    BY <1>5, <1>12 DEF Kind, Pdu, Steps
  <2>2. OpInv(t, prep) /\ prep2 = prep
    BY <1>1, <2>1 DEF OpInv
  <2>3. CASE ~w.live
    BY <1>0, <1>4, <1>6, <2>2, <2>3 DEF Kept
  <2>4. CASE w.live
    <3>1. t.op[j].told = "none" /\ Quiet(t, j)
      BY <1>1, <1>2, <2>1, <2>4 DEF OpEntry
    <3>2. CASE w.cb = "readlong"
      <4>1. w.arg = t.op[j].idx /\ t.op[j].idx <= t.op[j].len
        BY <1>1, <1>2, <2>4, <3>2 DEF OpEntry
      <4>2. ok => len = IF t.op[j].len - t.op[j].idx < Blob THEN t.op[j].len - t.op[j].idx
                        ELSE Blob
        BY <1>2, <1>3, <2>1, <4>1
      <4>3. Kept(t, ReadLongCb(t, j, ok, len), prep)
        BY <2>1, <2>2, <3>1, <3>2, <4>1, <4>2, ReadLongCbKeeps
      <4> QED
        BY <1>0, <1>4, <2>2, <2>4, <3>2, <4>3
    <3>3. CASE w.cb = "simple"
      <4>1. PICK what \in {"ok", "fail"} : what = IF ok THEN "ok" ELSE "fail"
        OBVIOUS
      <4>2. WholeOp(t.op[j], j, t.mixed) /\ t.op[j].kind \in {"readlong", "simple"}
        BY <2>1, <3>3 DEF WholeOp
      <4>3. Kept(t, Result(t, j, what), prep)
        BY <2>2, <3>1, <4>2, ResultOfRead
      <4>4. u = Result(t, j, what)
        BY <1>4, <2>4, <3>3, <4>1
      <4> QED
        BY <1>0, <2>2, <4>3, <4>4
    <3> QED
      BY <1>12, <3>2, <3>3
  <2> QED
    BY <2>3, <2>4
<1> QED
  BY <1>5, <1>7, <1>8, <1>9, <1>10, <1>11, <1>12
-----------------------------------------------------------------------------
(* The calls of the upper layer *)

(* request_create() made the operation d *)
Created(t, u, kind, d) ==
    /\ d \in Operation /\ u \in Client
    /\ SameReg(t, u) /\ SameRest(t, u) /\ u.wire = t.wire
    /\ u.op = Append(t.op, d)
    /\ d.kind = kind /\ d.told = "none" /\ ~d.removed /\ d.idx = 1 /\ d.success

LEMMA NewOpIs ==
    ASSUME NEW t \in Client, NEW kind \in {"long", "session", "readlong", "simple"},
           NEW reliable \in BOOLEAN, NEW u, u = NewOp(t, kind, reliable)
    PROVE  \E d : Created(t, u, kind, d)
<1>1. PICK d : d = [kind |-> kind, reliable |-> reliable,
                    sent |-> FALSE, idx |-> 1, success |-> TRUE, removed |-> FALSE,
                    told |-> "none", wrote |-> <<>>, len |-> 0]
  OBVIOUS
<1>2. <<>> \in Seq(Nat \X Int)
  OBVIOUS
<1>3. d \in Operation
  BY <1>1, <1>2 DEF Operation
<1>4. d.kind = kind /\ d.told = "none" /\ ~d.removed /\ d.idx = 1 /\ d.success
  BY <1>1
<1>5. PICK g : g = Append(t.op, d)
  OBVIOUS
<1>6. g \in Seq(Operation)
  BY <1>3, <1>5, LongTypes
<1>8. u = [t EXCEPT !.op = g]
  BY <1>1, <1>5 DEF NewOp
<1>9. u \in Client /\ u.op = g
  BY <1>6, <1>8 DEF Client
<1>10. SameReg(t, u) /\ SameRest(t, u) /\ u.wire = t.wire
  BY <1>8 DEF Client, SameReg, SameRest
<1> QED
  BY <1>3, <1>4, <1>5, <1>9, <1>10 DEF Created

LEMMA OpAppended ==
    ASSUME NEW t \in Client, NEW u \in Client, NEW d \in Operation, OpWaits(t), Whole(t),
           d.told = "none", ~d.removed, Len(t.op) < MaxCalls,
           u.op = Append(t.op, d), u.wire = t.wire, u.longQ = t.longQ, u.mixed = t.mixed,
           \/ u.session = t.session /\ d.kind # "session"
           \/ t.session = 0 /\ u.session = Len(t.op) + 1 /\ d.kind = "session",
           NEW n, n = Len(t.op) + 1
    PROVE  /\ OpWaits(u) /\ Whole(u) /\ Quiet(u, n)
           /\ n \in DOMAIN u.op /\ u.op[n] = d
           /\ \A i \in Rest(t.wire) : t.wire[i].who # n
           /\ \A prep : SameRest(t, u) /\ InTurn(t, prep) => InTurn(u, prep)
<1>1. /\ t.op \in Seq(Operation) /\ Len(t.op) \in Nat
      /\ \A k \in DOMAIN t.op : k # 0
  BY LongTypes
<1>2. /\ DOMAIN u.op = DOMAIN t.op \cup {n} /\ n \notin DOMAIN t.op /\ Len(u.op) = n
      /\ \A k \in DOMAIN t.op : u.op[k] = t.op[k]
      /\ u.op[n] = d
  BY <1>1, PushTail
<1>3. \A i \in Rest(t.wire) : OpEntry(t, t.wire[i]) /\ t.wire[i].who \in DOMAIN t.op
  BY DEF OpWaits, OpEntry
<1>4. OpQueued(u)
  <2>1. \A k \in ToSet(t.longQ) : k \in DOMAIN t.op
    BY DEF OpWaits, OpQueued
  <2> QED
    BY <1>2, <2>1 DEF OpWaits, OpQueued
<1>5. ASSUME NEW i \in Rest(u.wire) PROVE OpEntry(u, u.wire[i])
  <2>1. PICK w : w = u.wire[i]
    OBVIOUS
  <2>2. OpEntry(t, w) /\ w.who \in DOMAIN t.op
    BY <1>3, <2>1
  <2>3. w.who \in DOMAIN u.op /\ u.op[w.who] = t.op[w.who]
    BY <1>2, <2>2
  <2>4. Ends(w) => u.session = t.session
    BY <1>1, <2>2 DEF OpEntry
  <2> QED
    BY <2>1, <2>2, <2>3, <2>4 DEF OpEntry
<1>6. \A k \in DOMAIN u.op :
         u.op[k].kind = "session" /\ u.op[k].told = "none" /\ ~u.op[k].removed
            => k = u.session
  <2> SUFFICES ASSUME NEW k \in DOMAIN u.op,
                      u.op[k].kind = "session", u.op[k].told = "none", ~u.op[k].removed
               PROVE  k = u.session
    OBVIOUS
  <2>1. CASE k = n
    BY <1>2, <2>1
  <2>2. CASE k \in DOMAIN t.op
    <3>1. k = t.session
      BY <1>2, <2>2 DEF OpWaits
    <3> QED
      BY <1>1, <2>2, <3>1
  <2> QED
    BY <1>2, <2>1, <2>2
<1>7. u.session # 0 => /\ u.session \in DOMAIN u.op
                       /\ u.op[u.session].kind = "session"
                       /\ u.op[u.session].removed \/ u.op[u.session].told = "none"
  <2>1. CASE u.session = t.session
    BY <1>2, <2>1 DEF OpWaits
  <2>2. CASE u.session = n /\ d.kind = "session"
    BY <1>2, <2>2
  <2> QED
    BY <2>1, <2>2
<1>8. Len(u.op) <= MaxCalls
  BY <1>1, <1>2, ClientAssumption
<1>9. OpWaits(u)
  BY <1>4, <1>5, <1>6, <1>7, <1>8 DEF OpWaits
<1>10. Whole(u)
  BY <1>2 DEF Whole
<1>11. Quiet(u, n)
  <2>1. n \notin ToSet(t.longQ)
    BY <1>2 DEF OpWaits, OpQueued
  <2> QED
    BY <1>2, <1>3, <2>1 DEF Quiet
<1>12. ASSUME NEW prep, SameRest(t, u), InTurn(t, prep) PROVE InTurn(u, prep)
  <2>1. \A i \in Writes(t.wire) : t.wire[i].who \in DOMAIN t.op
    BY WritesKind
  <2>2. \A i \in Writes(t.wire) : u.op[t.wire[i].who] = t.op[t.wire[i].who]
    BY <1>2, <2>1
  <2>3. ASSUME NEW i \in Writes(t.wire), LongEntry(t, t.wire[i], prep)
        PROVE  LongEntry(u, t.wire[i], prep)
    BY <2>2, <2>3 DEF LongEntry
  <2> QED
    BY <1>12, <2>3 DEF InTurn, SameRest
<1> QED
  BY <1>2, <1>3, <1>9, <1>10, <1>11, <1>12

(* bt_gatt_client_write_long_value() *)
LEMMA WriteLongKeeps ==
    ASSUME NEW t \in Client, NEW reliable \in BOOLEAN, NEW prep, OpInv(t, prep),
           Len(t.op) < MaxCalls
    PROVE  Kept(t, WriteLong(t, reliable), prep)
<1>0. PICK u : u = WriteLong(t, reliable)
  OBVIOUS
<1>1. PICK x : x = NewOp(t, "long", reliable)
  OBVIOUS
<1>2. PICK d \in Operation :
         /\ x \in Client /\ SameReg(t, x) /\ SameRest(t, x) /\ x.wire = t.wire
         /\ x.op = Append(t.op, d)
         /\ d.kind = "long" /\ d.told = "none" /\ ~d.removed /\ d.idx = 1 /\ d.success
  <2>1. \E d : Created(t, x, "long", d)
    BY <1>1, NewOpIs
  <2> QED
    BY <2>1 DEF Created
<1>3. PICK n : n = Len(t.op) + 1
  OBVIOUS
<1>4. /\ x.open = t.open /\ x.inLong = t.inLong /\ x.longQ = t.longQ
      /\ x.session = t.session /\ x.mixed = t.mixed
  BY <1>2 DEF SameRest
<1>5. OpWaits(t) /\ Whole(t) /\ InTurn(t, prep)
  BY DEF OpInv
<1>6. d.kind # "session"
  BY <1>2
<1>7. /\ OpWaits(x) /\ Whole(x) /\ Quiet(x, n)
      /\ n \in DOMAIN x.op /\ x.op[n] = d
      /\ \A i \in Rest(t.wire) : t.wire[i].who # n
      /\ InTurn(x, prep)
  BY <1>2, <1>3, <1>4, <1>5, <1>6, OpAppended
<1>8. n \in Nat
  BY <1>2, <1>7, OpTypes
<1>9. CASE t.inLong \/ t.session # 0
  <2>1. PICK q : q = Append(x.longQ, n)
    OBVIOUS
  <2>2. u = [x EXCEPT !.longQ = q]
    BY <1>0, <1>1, <1>3, <1>9, <2>1 DEF WriteLong
  <2>3. /\ x.longQ \in Seq(Nat) /\ Distinct(x.longQ) /\ n \notin ToSet(x.longQ)
    BY <1>2, <1>7, LongTypes DEF OpWaits, OpQueued, Quiet
  <2>4. q \in Seq(Nat) /\ Distinct(q) /\ ToSet(q) = ToSet(x.longQ) \cup {n}
    BY <1>8, <2>1, <2>3, PushTail
  <2>5. u \in Client /\ u.longQ = q
    BY <1>2, <2>2, <2>4 DEF Client
  <2>6. /\ SameReg(x, u) /\ u.wire = x.wire /\ u.op = x.op /\ u.session = x.session
        /\ u.mixed = x.mixed /\ u.open = x.open /\ u.inLong = x.inLong
    BY <1>2, <2>2 DEF Client, SameReg
  <2>7. OpQueued(u)
    BY <1>2, <1>7, <2>4, <2>5, <2>6 DEF OpWaits, OpQueued
  <2>8. ASSUME NEW i \in Rest(u.wire) PROVE OpEntry(u, u.wire[i])
    <3>1. OpEntry(x, u.wire[i]) /\ u.wire[i].who # n
      BY <1>2, <1>7, <2>6 DEF OpWaits
    <3> QED
      BY <2>4, <2>5, <2>6, <3>1 DEF OpEntry
  <2>9. OpWaits(u)
    <3>1. \A i \in Rest(u.wire) : OpEntry(u, u.wire[i])
      BY <2>8
    <3>2. /\ \A i, k \in Rest(u.wire) :
                \/ Steps(u.wire[i]) /\ Steps(u.wire[k]) /\ u.wire[i].who = u.wire[k].who
                \/ Ends(u.wire[i]) /\ Ends(u.wire[k])
                => i = k
          /\ u.session # 0 => /\ u.session \in DOMAIN u.op
                              /\ u.op[u.session].kind = "session"
                              /\ u.op[u.session].removed \/ u.op[u.session].told = "none"
          /\ \A j \in DOMAIN u.op :
                u.op[j].kind = "session" /\ u.op[j].told = "none" /\ ~u.op[j].removed
                   => j = u.session
          /\ Len(u.op) <= MaxCalls
      <4>1. OpWaits(x)
        BY <1>7
      <4> QED
        BY <2>6, <4>1 DEF OpWaits
    <3> QED
      BY <2>7, <3>1, <3>2 DEF OpWaits
  <2>10. Whole(u)
    BY <1>7, <2>6 DEF Whole
  <2>11. InTurn(u, prep)
    <3>1. InTurn(x, prep)
      BY <1>7
    <3>2. \A i : LongEntry(x, x.wire[i], prep) => LongEntry(u, u.wire[i], prep)
      BY <2>6 DEF LongEntry
    <3> QED
      BY <2>6, <3>1, <3>2 DEF InTurn
  <2>12. Kept(x, u, prep)
    BY <2>5, <2>6, <2>9, <2>10, <2>11, KeptInPlace DEF OpInv
  <2> QED
    BY <1>0, <1>2, <2>12, KeptAfter
<1>10. CASE ~(t.inLong \/ t.session # 0)
  <2>1. PICK y : y = [x EXCEPT !.inLong = TRUE]
    OBVIOUS
  <2>2. u = SendPrep(y, n, "prepare")
    BY <1>0, <1>1, <1>3, <1>10, <2>1 DEF WriteLong
  <2>3. y \in Client /\ y.inLong
    BY <1>2, <2>1 DEF Client
  <2>4. /\ SameReg(x, y) /\ y.wire = x.wire /\ y.op = x.op /\ y.session = x.session
        /\ y.mixed = x.mixed /\ y.open = x.open /\ y.longQ = x.longQ
    BY <1>2, <2>1 DEF Client, SameReg
  <2>5. Distinct(y.longQ) /\ y.mixed \in BOOLEAN
    BY <1>7, <2>3, <2>4, LongTypes DEF OpWaits, OpQueued
  <2>6. OpWaits(y) /\ Whole(y) /\ Quiet(y, n)
    <3>1. OpWaits(y) /\ Whole(y)
      BY <1>7, <2>4, <2>5, FewerQueued
    <3> QED
      BY <1>7, <2>4, <3>1 DEF Quiet
  <2>7. y.open /\ ~y.mixed => Writes(y.wire) = {} /\ prep = <<>>
    BY <1>2, <1>4, <1>5, <1>10, <2>4 DEF InTurn
  <2>8. n \in DOMAIN y.op /\ y.op[n].kind = "long" /\ y.op[n].told = "none" /\ y.op[n].idx = 1
    BY <1>2, <1>7, <2>4
  <2>9. y.op[n].idx \in 1 .. NChunks /\ y.op[n].kind = Kind("prepare")
    BY <2>8, ClientAssumption DEF Kind
  <2>10. prep = <<>> => Placed(y.op[n], n, prep, y.op[n].idx - 1)
    <3>1. y.op[n].idx - 1 = 0
      BY <2>8
    <3> QED
      BY <3>1 DEF Placed
  <2>11. y.session = 0
    BY <1>4, <1>10, <2>4
  <2>12. Kept(y, u, prep)
    BY <2>2, <2>3, <2>6, <2>7, <2>8, <2>9, <2>10, <2>11, SendPrepKeeps DEF Kept
  <2>13. Kept(x, u, prep)
    BY <2>4, <2>12, KeptAfter
  <2> QED
    BY <1>0, <1>2, <2>13, KeptAfter
<1> QED
  BY <1>9, <1>10

(* nothing is under way for a session that is idle *)
LEMMA IdleWrites ==
    ASSUME NEW t, NEW prep, OpInv(t, prep), t.session # 0, Idle(t, t.session)
    PROVE  /\ t.open /\ ~t.mixed => Writes(t.wire) = {} /\ ~t.inLong
           /\ \A i \in Rest(t.wire) : ~Ends(t.wire[i])
           /\ \A i \in Rest(t.wire) : t.wire[i].who # t.session
           /\ Quiet(t, t.session)
<1>1. \A i \in Rest(t.wire) : t.wire[i].who # t.session
  BY DEF Idle, Rest
<1>2. \A i \in Rest(t.wire) : ~Ends(t.wire[i])
  BY <1>1 DEF OpInv, OpWaits, OpEntry
<1>3. \A i \in Writes(t.wire) : i \in Rest(t.wire)
  BY DEF Writes, Rest
<1>4. t.open /\ ~t.mixed => Writes(t.wire) = {} /\ ~t.inLong
  BY <1>1, <1>3 DEF OpInv, InTurn
<1>5. Quiet(t, t.session)
  BY <1>1 DEF OpInv, OpWaits, OpQueued, Quiet
<1> QED
  BY <1>1, <1>2, <1>4, <1>5

(* bt_gatt_client_prepare_write() *)
LEMMA PrepareWriteKeeps ==
    ASSUME NEW t \in Client, NEW prep, OpInv(t, prep), ~t.inLong,
           IF t.session = 0 THEN Len(t.op) < MaxCalls
           ELSE ~t.op[t.session].removed /\ Idle(t, t.session)
    PROVE  Kept(t, PrepareWrite(t), prep)
<1>0. PICK u : u = PrepareWrite(t)
  OBVIOUS
<1>1. OpWaits(t) /\ Whole(t) /\ InTurn(t, prep)
  BY DEF OpInv
<1>2. CASE t.session = 0
  <2>1. PICK x : x = NewOp(t, "session", TRUE)
    OBVIOUS
  <2>2. \E d : Created(t, x, "session", d)
    BY <2>1, NewOpIs
  <2>3. PICK d \in Operation :
           /\ x \in Client /\ SameReg(t, x) /\ SameRest(t, x) /\ x.wire = t.wire
           /\ x.op = Append(t.op, d)
           /\ d.kind = "session" /\ d.told = "none" /\ ~d.removed
    BY <2>2 DEF Created
  <2>4. PICK n \in Nat : n = Len(t.op) + 1
    BY LongTypes
  <2>5. PICK y : y = [x EXCEPT !.session = n]
    OBVIOUS
  <2>6. u = SendPrep(y, n, "prep")
    BY <1>0, <1>2, <2>1, <2>4, <2>5 DEF PrepareWrite
  <2>7. y \in Client /\ y.session = n
    BY <2>3, <2>5 DEF Client
  <2>8. /\ SameReg(x, y) /\ y.wire = x.wire /\ y.op = x.op /\ y.longQ = x.longQ
        /\ y.mixed = x.mixed /\ y.open = x.open /\ y.inLong = x.inLong
    BY <2>3, <2>5 DEF Client, SameReg
  <2>9. /\ y.wire = t.wire /\ y.op = Append(t.op, d) /\ y.longQ = t.longQ
        /\ y.mixed = t.mixed /\ y.open = t.open /\ y.inLong = t.inLong
    BY <2>3, <2>8 DEF SameRest
  <2>10. Len(t.op) < MaxCalls
    BY <1>2
  <2>11. /\ OpWaits(y) /\ Whole(y) /\ Quiet(y, n)
         /\ n \in DOMAIN y.op /\ y.op[n] = d
    BY <1>1, <1>2, <2>3, <2>4, <2>7, <2>9, <2>10, OpAppended
  <2>12. y.open /\ ~y.mixed => Writes(y.wire) = {}
    BY <1>1, <1>2, <2>9 DEF InTurn
  <2>13. y.session # 0 /\ n = y.session /\ ~y.inLong
    BY <2>4, <2>7, <2>9, LongTypes
  <2>14. y.op[n].kind = Kind("prep")
    BY <2>3, <2>11 DEF Kind
  <2>15. Kept(y, u, prep)
    BY <2>6, <2>7, <2>11, <2>12, <2>13, <2>14, SendPrepKeeps DEF Kept
  <2>16. Kept(x, u, prep)
    BY <2>8, <2>15, KeptAfter
  <2> QED
    BY <1>0, <2>3, <2>16, KeptAfter
<1>3. CASE t.session # 0
  <2>1. PICK j \in DOMAIN t.op : j = t.session
    BY <1>1, <1>3 DEF OpWaits
  <2>2. t.op[j].kind = "session" /\ t.op[j].told = "none"
    BY <1>1, <1>3, <2>1 DEF OpWaits
  <2>3. t.op[j] \in Operation /\ t.op[j].idx \in Nat
    BY OpTypes
  <2>4. PICK n \in Nat : n = t.op[j].idx + 1
    BY <2>3
  <2>5. PICK d : d = [t.op[j] EXCEPT !.idx = n]
    OBVIOUS
  <2>6. Like(t.op[j], d) /\ d \in Operation /\ d.told = "none"
    BY <2>2, <2>3, <2>5, IdxSet
  <2>7. PICK x : x = SetOp(t, j, d)
    OBVIOUS
  <2>8. /\ t.open /\ ~t.mixed => Writes(t.wire) = {} /\ ~t.inLong
        /\ Quiet(t, j)
    BY <1>3, <2>1, IdleWrites
  <2>9. /\ x \in Client /\ SameReg(t, x) /\ SameRest(t, x) /\ x.wire = t.wire
        /\ OneOp(t, x, j) /\ x.op[j] = d /\ j \in DOMAIN x.op
        /\ OpWaits(x) /\ Whole(x) /\ Quiet(x, j)
    BY <1>1, <2>2, <2>6, <2>7, <2>8, SilentChange
  <2>10. u = SendPrep(x, j, "prep")
    <3>1. [t EXCEPT !.op[j].idx = @ + 1] = x
      BY <2>4, <2>5, <2>7 DEF SetOp
    <3> QED
      BY <1>0, <1>3, <2>1, <3>1 DEF PrepareWrite
  <2>11. /\ x.open = t.open /\ x.mixed = t.mixed /\ x.session = j /\ x.inLong = t.inLong
    BY <2>1, <2>9 DEF SameRest
  <2>12. x.op[j].kind = Kind("prep")
    BY <2>2, <2>6, <2>9 DEF Kind, Like
  <2>13. x.session # 0
    BY <1>3, <2>1, <2>11
  <2>14. Kept(x, u, prep)
    BY <2>8, <2>9, <2>10, <2>11, <2>12, <2>13, SendPrepKeeps DEF Kept
  <2> QED
    BY <1>0, <2>9, <2>14, KeptAfter
<1> QED
  BY <1>2, <1>3

(* an Execute Write that ends the session, or a long write that goes on *)
LEMMA ExecSent ==
    ASSUME NEW t \in Client, NEW j \in DOMAIN t.op, NEW n \in Int, NEW prep,
           NEW cb, cb \in {"exec", "cancel prep", "cancel long"},
           OpWaits(t), Whole(t), t.op[j].kind = Kind(cb),
           cb = "cancel long" => t.mixed,
           cb # "cancel long" =>
              /\ j = t.session /\ t.op[j].removed = (cb = "cancel prep")
              /\ \A i \in Rest(t.wire) : ~Ends(t.wire[i])
              /\ t.open /\ ~t.mixed => Writes(t.wire) = {} /\ ~t.inLong
    PROVE  Kept(t, Send(t, "exec", j, n, cb), prep)
<1>0. PICK u : u = Send(t, "exec", j, n, cb)
  OBVIOUS
<1>1. PICK m : m = Msg("exec", j, n, cb)
  OBVIOUS
<1>2. j \in Nat \ {0}
  BY OpTypes
<1>3. /\ m \in Message /\ m.pdu = "exec" /\ m.who = j /\ m.arg = n /\ m.cb = cb /\ m.live
  BY <1>1, <1>2 DEF Msg, Message
<1>4. /\ u \in Client /\ SameReg(t, u) /\ SameOp(t, u) /\ u.wire = Append(t.wire, m)
      /\ Same(t.wire, u.wire, Ccc(t.wire), Ccc(u.wire))
  <2>1. m \in Message
    BY <1>3
  <2> QED
    BY ONLY t \in Client, <1>0, <1>1, <2>1, SendIs
<1>5. Pdu(cb) = "exec" /\ ~Steps(m) /\ (Ends(m) <=> cb # "cancel long")
  BY <1>3 DEF Pdu, Steps, Ends
<1>6. OpEntry(t, m)
  <2>1. m.arg \in Int
    BY <1>3
  <2> QED
    BY <1>3, <1>5, <2>1 DEF OpEntry
<1>7. t.open /\ ~t.mixed =>
         /\ Writes(t.wire) = {}
         /\ t.session # 0 => ~t.inLong /\ m.who = t.session
         /\ t.session = 0 => t.inLong /\ LongEntry(t, m, prep)
  BY <1>2, <1>3
<1>8. OpWaits(u) /\ Whole(u) /\ InTurn(u, prep)
  BY <1>3, <1>4, <1>5, <1>6, <1>7, SendKeeps
<1> QED
  BY <1>0, <1>4, <1>8 DEF Kept, OpInv

(* bt_gatt_client_write_execute() *)
LEMMA ExecuteKeeps ==
    ASSUME NEW t \in Client, NEW prep, OpInv(t, prep), ~t.inLong, t.session # 0,
           ~t.op[t.session].removed, Idle(t, t.session)
    PROVE  Kept(t, Send(t, "exec", t.session, 1, "exec"), prep)
<1>1. OpWaits(t) /\ Whole(t)
  BY DEF OpInv
<1>2. PICK j \in DOMAIN t.op : j = t.session
  BY <1>1 DEF OpWaits
<1> DEFINE cb == "exec"
<1>3. t.op[j].kind = Kind(cb)
  BY <1>1, <1>2 DEF OpWaits, Kind
<1>4. /\ t.open /\ ~t.mixed => Writes(t.wire) = {} /\ ~t.inLong
      /\ \A i \in Rest(t.wire) : ~Ends(t.wire[i])
  BY IdleWrites
<1>5. t.op[j].removed = (cb = "cancel prep")
  <2>1. t.op[j].removed \in BOOLEAN
    BY OpTypes DEF Operation
  <2> QED
    BY <1>2, <2>1
<1>6. cb \in {"exec", "cancel prep", "cancel long"} /\ cb # "cancel long" /\ 1 \in Int
  OBVIOUS
<1>7. Send(t, "exec", t.session, 1, "exec") = Send(t, "exec", j, 1, cb)
  BY <1>2
<1> HIDE DEF cb
<1>8. Kept(t, Send(t, "exec", j, 1, cb), prep)
  BY <1>1, <1>2, <1>3, <1>4, <1>5, <1>6, ExecSent
<1> QED
  BY <1>7, <1>8

(* bt_gatt_client_read_long_value() and the requests with one answer *)
LEMMA RequestKeeps ==
    ASSUME NEW t \in Client, NEW prep, OpInv(t, prep), Len(t.op) < MaxCalls,
           NEW kind \in {"readlong", "simple"}, NEW len \in Nat
    PROVE  Kept(t, Request(t, kind, len), prep)
<1>0. PICK u : u = Request(t, kind, len)
  OBVIOUS
<1>1. PICK x : x = NewOp(t, kind, FALSE)
  OBVIOUS
<1>2. \E d : Created(t, x, kind, d)
  BY <1>1, NewOpIs
<1>3. PICK d \in Operation :
         /\ x \in Client /\ SameReg(t, x) /\ SameRest(t, x) /\ x.wire = t.wire
         /\ x.op = Append(t.op, d)
         /\ d.kind = kind /\ d.told = "none" /\ ~d.removed
  BY <1>2 DEF Created
<1>4. PICK n \in Nat : n = Len(t.op) + 1
  BY LongTypes
<1>5. OpWaits(t) /\ Whole(t) /\ InTurn(t, prep)
  BY DEF OpInv
<1>6. /\ x.longQ = t.longQ /\ x.session = t.session /\ x.mixed = t.mixed
      /\ d.kind # "session"
  BY <1>3 DEF SameRest
<1>7. /\ OpWaits(x) /\ Whole(x) /\ Quiet(x, n)
      /\ n \in DOMAIN x.op /\ x.op[n] = d
      /\ \A i \in Rest(t.wire) : t.wire[i].who # n
      /\ InTurn(x, prep)
  BY <1>3, <1>4, <1>5, <1>6, OpAppended
<1>8. PICK e : e = [x.op[n] EXCEPT !.idx = 0, !.len = len]
  OBVIOUS
<1>9. /\ e \in Operation /\ e.idx = 0 /\ e.len = len /\ e.kind = kind /\ e.told = "none"
      /\ e.removed = d.removed
  BY <1>3, <1>7, <1>8 DEF Operation
<1>10. PICK y : y = [x EXCEPT !.op = [x.op EXCEPT ![n] = e]]
  OBVIOUS
<1>11. /\ y \in Client /\ SameReg(x, y) /\ SameRest(x, y) /\ y.wire = x.wire
       /\ OneOp(x, y, n) /\ y.op[n] = e
  BY <1>3, <1>7, <1>9, <1>10, OpSet
<1>12. u = Send(y, "read", n, 0, kind)
  <2>1. [x EXCEPT !.op[n].idx = 0, !.op[n].len = len] = y
    BY <1>3, <1>7, <1>8, <1>10 DEF Client
  <2> QED
    BY <1>0, <1>1, <1>4, <2>1 DEF Request
<1>13. /\ y.session = x.session /\ y.longQ = x.longQ /\ y.mixed = x.mixed
       /\ y.op[n].kind = x.op[n].kind /\ y.op[n].removed = x.op[n].removed
       /\ x.op[n].kind # "session" /\ y.op[n].told # "ok"
  BY <1>3, <1>6, <1>7, <1>9, <1>11 DEF SameRest
<1>14. OpWaits(y) /\ Quiet(y, n)
  BY <1>7, <1>11, <1>13, OpChanged
<1>15. Whole(y)
  BY <1>7, <1>11, <1>13, WholeChanged
<1>16. InTurn(y, prep)
  <2>1. \A i \in Writes(x.wire) : x.wire[i].who # n
    <3>1. x.op[n].kind \notin {"long", "session"}
      BY <1>3, <1>7
    <3> QED
      BY <1>7, <3>1, WritesKind
  <2> QED
    BY <1>7, <1>11, <2>1, InTurnChanged
<1>17. /\ n \in DOMAIN y.op /\ y.op[n].told = "none" /\ y.op[n].kind = kind
       /\ 0 = y.op[n].idx /\ 0 <= y.op[n].len /\ 0 < MaxValueLen
  BY <1>7, <1>9, <1>11, ClientAssumption DEF OneOp
<1>18. Kept(y, u, prep)
  BY <1>11, <1>12, <1>14, <1>15, <1>16, <1>17, ReadSent DEF OpInv
<1>19. Kept(x, u, prep)
  BY <1>11, <1>18, KeptAfter
<1> QED
  BY <1>0, <1>3, <1>19, KeptAfter

(* bt_gatt_client_cancel() takes the operation out of the list of requests *)
Removed(t, j) == SetOp(t, j, [t.op[j] EXCEPT !.removed = TRUE])

LEMMA RemovedIs ==
    ASSUME NEW t \in Client, NEW j \in DOMAIN t.op, NEW u, u = Removed(t, j)
    PROVE  /\ u \in Client /\ SameReg(t, u) /\ SameRest(t, u) /\ u.wire = t.wire
           /\ OneOp(t, u, j) /\ j \in DOMAIN u.op /\ u.op[j].removed
           /\ u.op[j].kind = t.op[j].kind /\ u.op[j].told = t.op[j].told
           /\ u.op[j].sent = t.op[j].sent /\ u.op[j].idx = t.op[j].idx
           /\ u.op[j].success = t.op[j].success /\ u.op[j].len = t.op[j].len
           /\ u.op[j].reliable = t.op[j].reliable /\ u.op[j].wrote = t.op[j].wrote
<1>1. t.op[j] \in Operation
  BY OpTypes
<1>2. PICK d : d = [t.op[j] EXCEPT !.removed = TRUE]
  OBVIOUS
<1>3. /\ d \in Operation /\ d.removed
      /\ d.kind = t.op[j].kind /\ d.told = t.op[j].told
      /\ d.sent = t.op[j].sent /\ d.idx = t.op[j].idx
      /\ d.success = t.op[j].success /\ d.len = t.op[j].len
      /\ d.reliable = t.op[j].reliable /\ d.wrote = t.op[j].wrote
  BY <1>1, <1>2 DEF Operation
<1>4. u = [t EXCEPT !.op = [t.op EXCEPT ![j] = d]]
  BY <1>2 DEF Removed, SetOp
<1>5. /\ u \in Client /\ SameReg(t, u) /\ SameRest(t, u) /\ u.wire = t.wire
      /\ OneOp(t, u, j) /\ u.op[j] = d
  BY <1>3, <1>4, OpSet
<1> QED
  BY <1>3, <1>5 DEF OneOp

LEMMA RemovedKeeps ==
    ASSUME NEW t \in Client, NEW j \in DOMAIN t.op, NEW u, u = Removed(t, j), NEW prep,
           OpInv(t, prep), t.op[j].kind # "session"
    PROVE  OpInv(u, prep)
<1>1. /\ u \in Client /\ SameReg(t, u) /\ SameRest(t, u) /\ u.wire = t.wire
      /\ OneOp(t, u, j) /\ j \in DOMAIN u.op /\ u.op[j].removed
      /\ u.op[j].kind = t.op[j].kind /\ u.op[j].told = t.op[j].told
      /\ u.op[j].sent = t.op[j].sent /\ u.op[j].idx = t.op[j].idx
      /\ u.op[j].success = t.op[j].success /\ u.op[j].len = t.op[j].len
      /\ u.op[j].reliable = t.op[j].reliable /\ u.op[j].wrote = t.op[j].wrote
  BY RemovedIs
<1>2. /\ u.open = t.open /\ u.inLong = t.inLong /\ u.longQ = t.longQ
      /\ u.session = t.session /\ u.mixed = t.mixed
      /\ DOMAIN u.op = DOMAIN t.op /\ Len(u.op) = Len(t.op)
  BY <1>1 DEF SameRest, OneOp
<1>3. \A k \in DOMAIN t.op :
         /\ u.op[k].kind = t.op[k].kind
         /\ u.op[k].told = t.op[k].told /\ u.op[k].sent = t.op[k].sent
         /\ u.op[k].idx = t.op[k].idx /\ u.op[k].success = t.op[k].success
         /\ u.op[k].len = t.op[k].len /\ u.op[k].reliable = t.op[k].reliable
         /\ u.op[k].wrote = t.op[k].wrote
         /\ t.op[k].kind = "session" => u.op[k].removed = t.op[k].removed
  BY <1>1 DEF OneOp
<1>4. OpWaits(t) /\ Whole(t) /\ InTurn(t, prep)
  BY DEF OpInv
<1>5. ASSUME NEW x, OpEntry(t, x) PROVE OpEntry(u, x)
  <2>1. /\ x.who \in DOMAIN t.op /\ t.op[x.who].kind = Kind(x.cb)
    BY <1>5 DEF OpEntry
  <2>2. Ends(x) => t.op[x.who].kind = "session"
    BY <2>1 DEF Ends, Kind
  <2> QED
    BY <1>2, <1>3, <1>5, <2>1, <2>2 DEF OpEntry
<1>6. OpWaits(u)
  <2>1. OpQueued(u)
    BY <1>2, <1>3, <1>4 DEF OpWaits, OpQueued
  <2>2. \A i \in Rest(u.wire) : OpEntry(u, u.wire[i])
    BY <1>1, <1>4, <1>5 DEF OpWaits
  <2>3. u.session # 0 => /\ u.session \in DOMAIN u.op
                         /\ u.op[u.session].kind = "session"
                         /\ u.op[u.session].removed \/ u.op[u.session].told = "none"
    BY <1>2, <1>3, <1>4 DEF OpWaits
  <2>4. \A k \in DOMAIN u.op :
           u.op[k].kind = "session" /\ u.op[k].told = "none" /\ ~u.op[k].removed
              => k = u.session
    BY <1>2, <1>3, <1>4 DEF OpWaits
  <2> QED
    BY <1>1, <1>2, <1>4, <2>1, <2>2, <2>3, <2>4 DEF OpWaits
<1>7. Whole(u)
  <2>1. u.op[j].told = "ok" => WholeOp(u.op[j], j, u.mixed)
    <3>1. t.op[j].told = "ok" => WholeOp(t.op[j], j, t.mixed)
      BY <1>4 DEF Whole
    <3>2. WholeOp(t.op[j], j, t.mixed) => WholeOp(u.op[j], j, u.mixed)
      BY <1>1, <1>2 DEF WholeOp, Placed
    <3> QED
      BY <1>1, <3>1, <3>2
  <2> QED
    BY <1>1, <1>2, <1>4, <2>1, WholeChanged
<1>8. InTurn(u, prep)
  <2>1. \A i \in Writes(t.wire) : t.wire[i].who \in DOMAIN t.op
    BY <1>4, WritesKind
  <2>2. ASSUME NEW i \in Writes(t.wire), LongEntry(t, t.wire[i], prep)
        PROVE  LongEntry(u, t.wire[i], prep)
    BY <1>3, <2>1, <2>2 DEF LongEntry, Placed
  <2> QED
    BY <1>1, <1>2, <1>4, <2>2 DEF InTurn
<1> QED
  BY <1>6, <1>7, <1>8 DEF OpInv

(* an operation that nothing ends is withdrawn *)
Withdrawn(t, j) == SetOp(t, j, [t.op[j] EXCEPT !.told = "withdrawn"])

LEMMA WithdrawnIs ==
    ASSUME NEW t \in Client, NEW j \in DOMAIN t.op, NEW u, u = Withdrawn(t, j)
    PROVE  /\ u \in Client /\ SameReg(t, u) /\ SameRest(t, u) /\ u.wire = t.wire
           /\ OneOp(t, u, j) /\ j \in DOMAIN u.op
           /\ Like(t.op[j], u.op[j]) /\ u.op[j].told = "withdrawn"
           /\ u.op[j].idx = t.op[j].idx /\ u.op[j].success = t.op[j].success
<1>1. t.op[j] \in Operation
  BY OpTypes
<1>2. PICK d : d = [t.op[j] EXCEPT !.told = "withdrawn"]
  OBVIOUS
<1>3. /\ Like(t.op[j], d) /\ d \in Operation /\ d.told = "withdrawn"
      /\ d.idx = t.op[j].idx /\ d.success = t.op[j].success
  BY <1>1, <1>2 DEF Operation, Like
<1>4. u = [t EXCEPT !.op = [t.op EXCEPT ![j] = d]]
  BY <1>2 DEF Withdrawn, SetOp
<1>5. /\ u \in Client /\ SameReg(t, u) /\ SameRest(t, u) /\ u.wire = t.wire
      /\ OneOp(t, u, j) /\ u.op[j] = d
  BY <1>3, <1>4, OpSet
<1> QED
  BY <1>3, <1>5 DEF OneOp

LEMMA WithdrawnKeeps ==
    ASSUME NEW t \in Client, NEW j \in DOMAIN t.op, NEW u, u = Withdrawn(t, j), NEW prep,
           OpInv(t, prep), t.op[j].kind # "session", Quiet(t, j)
    PROVE  Kept(t, u, prep)
<1>1. /\ u \in Client /\ SameReg(t, u) /\ SameRest(t, u) /\ u.wire = t.wire
      /\ OneOp(t, u, j) /\ j \in DOMAIN u.op
      /\ Like(t.op[j], u.op[j]) /\ u.op[j].told = "withdrawn"
      /\ u.op[j].idx = t.op[j].idx /\ u.op[j].success = t.op[j].success
  BY WithdrawnIs
<1>2. /\ u.open = t.open /\ u.inLong = t.inLong /\ u.longQ = t.longQ
      /\ u.session = t.session /\ u.mixed = t.mixed
      /\ u.op[j].kind = t.op[j].kind /\ u.op[j].removed = t.op[j].removed
      /\ u.op[j].reliable = t.op[j].reliable
  BY <1>1 DEF SameRest, Like
<1>3. OpWaits(t) /\ Whole(t) /\ InTurn(t, prep)
  BY DEF OpInv
<1>4. OpWaits(u)
  BY <1>1, <1>2, <1>3, OpChanged
<1>5. Whole(u)
  BY <1>1, <1>2, <1>3, WholeChanged
<1>6. InTurn(u, prep)
  <2>1. \A i \in Writes(t.wire) : t.wire[i].who \in DOMAIN t.op
    BY <1>3, WritesKind
  <2>2. \A k \in DOMAIN t.op : /\ u.op[k].idx = t.op[k].idx
                               /\ u.op[k].success = t.op[k].success
                               /\ u.op[k].reliable = t.op[k].reliable
    BY <1>1, <1>2 DEF OneOp
  <2>3. ASSUME NEW i \in Writes(t.wire), LongEntry(t, t.wire[i], prep)
        PROVE  LongEntry(u, t.wire[i], prep)
    BY <2>1, <2>2, <2>3 DEF LongEntry, Placed
  <2> QED
    BY <1>1, <1>2, <1>3, <2>3 DEF InTurn
<1> QED
  BY <1>1, <1>4, <1>5, <1>6, KeptInPlace DEF OpInv

(* bt_att_cancel() for a read *)
LEMMA ReadCancelled ==
    ASSUME NEW t \in Client, NEW j \in DOMAIN t.op, NEW prep, OpInv(t, prep),
           t.op[j].kind \in {"readlong", "simple"},
           NEW u, u = CancelSent(t, SentFor(t, j, FALSE))
    PROVE  Kept(t, u, prep) /\ SameOp(t, u) /\ Quiet(u, j)
<1>0. PICK at : at = SentFor(t, j, FALSE)
  OBVIOUS
<1>1. OpWaits(t) /\ Whole(t) /\ InTurn(t, prep)
  BY DEF OpInv
<1>2. /\ at \subseteq Rest(t.wire) /\ at \subseteq DOMAIN t.wire
      /\ \A i \in Rest(t.wire) : t.wire[i].live /\ t.wire[i].who = j => i \in at
      /\ \A i \in at : t.wire[i].live /\ t.wire[i].who = j
  BY <1>0 DEF SentFor, Rest
<1>3. ASSUME NEW i \in at PROVE Steps(t.wire[i]) /\ t.wire[i].pdu = "read" /\ ~Ends(t.wire[i])
  <2>1. OpEntry(t, t.wire[i]) /\ t.wire[i].live /\ t.wire[i].who = j
    BY <1>1, <1>2 DEF OpWaits
  <2> QED
    BY <2>1 DEF OpEntry, Steps, Kind, Pdu, Ends
<1>4. \A i, k \in at : i = k
  BY <1>1, <1>2, <1>3 DEF OpWaits
<1>5. u \in Client /\ SameReg(t, u) /\ SameOp(t, u) /\ Cancelled(t.wire, at, u.wire)
  BY <1>0, <1>2, <1>4, CancelSentIs
<1>6. Same(t.wire, u.wire, Ccc(t.wire), Ccc(u.wire))
  BY <1>2, <1>5, CancelledSame
<1>a. /\ u.open = t.open /\ u.op = t.op /\ u.inLong = t.inLong /\ u.longQ = t.longQ
      /\ u.session = t.session /\ u.mixed = t.mixed
  BY <1>5 DEF SameOp
<1>b. /\ OpQueued(t)
      /\ \A i, k \in Rest(t.wire) :
            \/ Steps(t.wire[i]) /\ Steps(t.wire[k]) /\ t.wire[i].who = t.wire[k].who
            \/ Ends(t.wire[i]) /\ Ends(t.wire[k])
            => i = k
  BY <1>1 DEF OpWaits
<1>7. PICK f \in [DOMAIN u.wire -> DOMAIN t.wire] :
        /\ \A k, l \in DOMAIN u.wire : f[k] = f[l] => k = l
        /\ \A m \in DOMAIN t.wire : m \notin at => \E k \in DOMAIN u.wire : f[k] = m
        /\ \A k \in DOMAIN u.wire : f[k] \notin at => u.wire[k] = t.wire[f[k]]
        /\ \A k \in DOMAIN u.wire : f[k] \in at =>
              /\ ~u.wire[k].live /\ u.wire[k].pdu = t.wire[f[k]].pdu
              /\ u.wire[k].who = t.wire[f[k]].who
              /\ u.wire[k].arg = t.wire[f[k]].arg /\ u.wire[k].cb = t.wire[f[k]].cb
  <2>1. Cancelled(t.wire, at, u.wire)
    BY <1>5
  <2> QED
    BY ONLY <2>1 DEF Cancelled
<1>8. \A k \in DOMAIN u.wire : u.wire[k].pdu = t.wire[f[k]].pdu /\ f[k] \in DOMAIN t.wire
  BY <1>7
<1>9. \A k \in Rest(u.wire) : k \in DOMAIN u.wire /\ f[k] \in Rest(t.wire)
  BY <1>8 DEF Rest
<1>10. ASSUME NEW k \in Rest(u.wire) PROVE OpEntry(u, u.wire[k])
  <2>1. OpEntry(t, t.wire[f[k]]) /\ k \in DOMAIN u.wire
    BY <1>1, <1>9 DEF OpWaits
  <2>2. CASE f[k] \notin at
    <3>1. OpEntry(t, u.wire[k])
      BY <1>7, <2>1, <2>2
    <3> QED
      BY <1>a, <3>1 DEF OpEntry
  <2>3. CASE f[k] \in at
    <3>1. PICK w : w = u.wire[k]
      OBVIOUS
    <3>2. PICK v : v = t.wire[f[k]]
      OBVIOUS
    <3>3. OpEntry(t, v) /\ v.pdu = "read" /\ ~Ends(v)
      BY <1>3, <2>1, <2>3, <3>2
    <3>4. /\ ~w.live /\ w.pdu = v.pdu /\ w.who = v.who
          /\ w.arg = v.arg /\ w.cb = v.cb
      BY <1>7, <2>1, <2>3, <3>1, <3>2
    <3>5. ~Steps(w) /\ ~Ends(w)
      BY <3>3, <3>4 DEF Steps, Ends
    <3> QED
      BY <1>5, <3>1, <3>3, <3>4, <3>5 DEF OpEntry, SameOp
  <2> QED
    BY <2>2, <2>3
<1>11. \A k \in Rest(u.wire) : Steps(u.wire[k]) \/ Ends(u.wire[k]) =>
          /\ u.wire[k] = t.wire[f[k]] /\ f[k] \in Rest(t.wire) /\ f[k] \notin at
  <2> SUFFICES ASSUME NEW k \in Rest(u.wire), Steps(u.wire[k]) \/ Ends(u.wire[k])
               PROVE  /\ u.wire[k] = t.wire[f[k]] /\ f[k] \in Rest(t.wire) /\ f[k] \notin at
    OBVIOUS
  <2>1. ASSUME f[k] \in at PROVE FALSE
    <3>1. ~Ends(t.wire[f[k]]) /\ ~u.wire[k].live /\ u.wire[k].cb = t.wire[f[k]].cb
      BY <1>3, <1>7, <1>9, <2>1
    <3> QED
      BY <3>1 DEF Steps, Ends
  <2> QED
    BY <1>7, <1>9, <2>1
<1>12. ASSUME NEW k \in Rest(u.wire), NEW l \in Rest(u.wire),
              \/ Steps(u.wire[k]) /\ Steps(u.wire[l]) /\ u.wire[k].who = u.wire[l].who
              \/ Ends(u.wire[k]) /\ Ends(u.wire[l])
       PROVE  k = l
  <2>1. f[k] = f[l]
    <3>1. /\ u.wire[k] = t.wire[f[k]] /\ f[k] \in Rest(t.wire)
          /\ u.wire[l] = t.wire[f[l]] /\ f[l] \in Rest(t.wire)
      BY <1>11, <1>12
    <3> QED
      BY <1>b, <1>12, <3>1
  <2> QED
    BY <1>7, <1>9, <2>1
<1>13. OpWaits(u)
  <2>1. OpQueued(u)
    <3>1. OpQueued(t)
      BY <1>b
    <3>2. u.longQ = t.longQ /\ u.op = t.op
      BY <1>a
    <3> QED
      BY <3>1, <3>2 DEF OpQueued
  <2>2. /\ t.session # 0 => /\ t.session \in DOMAIN t.op
                            /\ t.op[t.session].kind = "session"
                            /\ t.op[t.session].removed \/ t.op[t.session].told = "none"
        /\ \A k \in DOMAIN t.op :
              t.op[k].kind = "session" /\ t.op[k].told = "none" /\ ~t.op[k].removed
                 => k = t.session
        /\ Len(t.op) <= MaxCalls
    BY <1>1 DEF OpWaits
  <2>3. /\ u.session # 0 => /\ u.session \in DOMAIN u.op
                            /\ u.op[u.session].kind = "session"
                            /\ u.op[u.session].removed \/ u.op[u.session].told = "none"
        /\ \A k \in DOMAIN u.op :
              u.op[k].kind = "session" /\ u.op[k].told = "none" /\ ~u.op[k].removed
                 => k = u.session
        /\ Len(u.op) <= MaxCalls
    <3>1. u.op = t.op /\ u.session = t.session
      BY <1>a
    <3> QED
      BY <2>2, <3>1
  <2>4. /\ \A k \in Rest(u.wire) : OpEntry(u, u.wire[k])
        /\ \A k, l \in Rest(u.wire) :
              \/ Steps(u.wire[k]) /\ Steps(u.wire[l]) /\ u.wire[k].who = u.wire[l].who
              \/ Ends(u.wire[k]) /\ Ends(u.wire[l])
              => k = l
    <3>1. \A k \in Rest(u.wire) : OpEntry(u, u.wire[k])
      BY <1>10
    <3>2. \A k, l \in Rest(u.wire) :
              \/ Steps(u.wire[k]) /\ Steps(u.wire[l]) /\ u.wire[k].who = u.wire[l].who
              \/ Ends(u.wire[k]) /\ Ends(u.wire[l])
              => k = l
      BY <1>12
    <3> QED
      BY <3>1, <3>2
  <2> QED
    BY <2>1, <2>3, <2>4 DEF OpWaits
<1>14. Whole(u)
  BY <1>1, <1>5 DEF Whole, SameOp
<1>15. Quiet(u, j)
  <2>1. j \notin ToSet(u.longQ)
    BY <1>a, <1>b DEF OpQueued
  <2>2. ASSUME NEW k \in Rest(u.wire), Steps(u.wire[k]) PROVE u.wire[k].who # j
    <3>1. u.wire[k] = t.wire[f[k]] /\ f[k] \in Rest(t.wire) /\ f[k] \notin at
      BY <1>11, <2>2
    <3>2. u.wire[k].live
      BY <2>2 DEF Steps
    <3> QED
      BY <1>2, <3>1, <3>2
  <2> QED
    BY <2>1, <2>2 DEF Quiet
<1>16. /\ \A k \in Writes(u.wire) : /\ k \in DOMAIN u.wire /\ f[k] \in Writes(t.wire)
                                    /\ u.wire[k] = t.wire[f[k]]
       /\ \A m \in Writes(t.wire) : \E k \in Writes(u.wire) : f[k] = m
  <2>1. ASSUME NEW k \in Writes(u.wire)
        PROVE  /\ k \in DOMAIN u.wire /\ f[k] \in Writes(t.wire) /\ u.wire[k] = t.wire[f[k]]
    <3>1. k \in DOMAIN u.wire /\ f[k] \in Writes(t.wire)
      BY <1>8 DEF Writes
    <3>2. f[k] \notin at
      BY <1>3, <3>1 DEF Writes
    <3> QED
      BY <1>7, <3>1, <3>2
  <2>2. ASSUME NEW m \in Writes(t.wire) PROVE \E k \in Writes(u.wire) : f[k] = m
    <3>1. m \in DOMAIN t.wire /\ m \notin at
      BY <1>3 DEF Writes
    <3>2. PICK k \in DOMAIN u.wire : f[k] = m
      BY <1>7, <3>1
    <3> QED
      BY <1>8, <3>2 DEF Writes
  <2> QED
    BY <2>1, <2>2
<1>17. InTurn(u, prep)
  <2> SUFFICES ASSUME t.open, ~t.mixed PROVE InTurn(u, prep)
    BY <1>5 DEF InTurn, SameOp
  <2>0. /\ \A k, l \in Writes(t.wire) : k = l
        /\ t.session # 0 => \A k \in Writes(t.wire) : t.wire[k].who = t.session
    BY <1>1 DEF InTurn
  <2>1. \A k, l \in Writes(u.wire) : k = l
    <3> SUFFICES ASSUME NEW k \in Writes(u.wire), NEW l \in Writes(u.wire) PROVE k = l
      OBVIOUS
    <3>1. /\ k \in DOMAIN u.wire /\ f[k] \in Writes(t.wire)
          /\ l \in DOMAIN u.wire /\ f[l] \in Writes(t.wire)
      BY <1>16
    <3>2. f[k] = f[l]
      BY <2>0, <3>1
    <3> QED
      BY <1>7, <3>1, <3>2
  <2>2. t.session # 0 => \A k \in Writes(u.wire) : u.wire[k].who = t.session
    <3> SUFFICES ASSUME t.session # 0, NEW k \in Writes(u.wire) PROVE u.wire[k].who = t.session
      OBVIOUS
    <3>1. f[k] \in Writes(t.wire) /\ u.wire[k] = t.wire[f[k]]
      BY <1>16
    <3> QED
      BY <2>0, <3>1
  <2>3. t.session = 0 /\ t.inLong => Writes(u.wire) # {}
    BY <1>1, <1>16 DEF InTurn
  <2>4. t.session = 0 /\ t.inLong => \A k \in Writes(u.wire) : LongEntry(u, u.wire[k], prep)
    <3> SUFFICES ASSUME t.session = 0 /\ t.inLong, NEW k \in Writes(u.wire)
                 PROVE  LongEntry(u, u.wire[k], prep)
      OBVIOUS
    <3>1. LongEntry(t, u.wire[k], prep)
      BY <1>1, <1>16 DEF InTurn
    <3> QED
      BY <1>5, <3>1 DEF LongEntry, SameOp
  <2>5. t.session = 0 /\ ~t.inLong => Writes(u.wire) = {} /\ prep = <<>>
    BY <1>1, <1>16 DEF InTurn
  <2> QED
    BY <1>1, <1>5, <2>1, <2>2, <2>3, <2>4, <2>5 DEF InTurn, SameOp
<1> QED
  BY <1>5, <1>6, <1>13, <1>14, <1>15, <1>17 DEF Kept, OpInv

LEMMA KeptBefore ==
    ASSUME NEW t, NEW x, NEW u, NEW prep, Kept(t, x, prep), Kept(x, u, prep), u.wire = x.wire
    PROVE  Kept(t, u, prep)
<1>1. SameReg(t, x) /\ SameReg(x, u)
  BY DEF Kept
<1>2. SameReg(t, u)
  BY <1>1 DEF SameReg
<1> QED
  BY <1>2 DEF Kept

(* a long write that waits is cancelled *)
LEMMA CancelWaiting ==
    ASSUME NEW t \in Client, NEW j \in DOMAIN t.op, NEW prep, OpInv(t, prep),
           t.op[j].kind = "long", ~t.op[j].sent
    PROVE  Kept(t, CancelRequest(t, j), prep)
<1>0. PICK u : u = CancelRequest(t, j)
  OBVIOUS
<1>1. PICK x : x = Removed(t, j)
  OBVIOUS
<1>2. /\ x \in Client /\ SameReg(t, x) /\ SameRest(t, x) /\ x.wire = t.wire
      /\ j \in DOMAIN x.op /\ x.op[j].kind = "long" /\ ~x.op[j].sent
  BY <1>1, RemovedIs
<1>3. OpWaits(x) /\ Whole(x) /\ InTurn(x, prep)
  BY <1>1, RemovedKeeps DEF OpInv
<1>4. PICK q : q = RemoveFirst(x.longQ, j)
  OBVIOUS
<1>5. x.longQ \in Seq(Nat) /\ Distinct(x.longQ) /\ x.mixed \in BOOLEAN
  BY <1>2, <1>3, LongTypes DEF OpWaits, OpQueued
<1>6. q \in Seq(Nat) /\ Distinct(q) /\ ToSet(q) = ToSet(x.longQ) \ {j}
  BY <1>4, <1>5, RemoveIf
<1>7. PICK y : y = [x EXCEPT !.longQ = q]
  OBVIOUS
<1>8. y \in Client /\ y.longQ = q
  BY <1>2, <1>6, <1>7 DEF Client
<1>9. /\ SameReg(x, y) /\ y.wire = x.wire /\ y.op = x.op /\ y.session = x.session
      /\ y.mixed = x.mixed /\ y.open = x.open /\ y.inLong = x.inLong
  BY <1>2, <1>7 DEF Client, SameReg
<1>10. OpWaits(y) /\ Whole(y)
  <2>1. Distinct(y.longQ) /\ ToSet(y.longQ) \subseteq ToSet(x.longQ)
    BY <1>6, <1>8
  <2>2. y.mixed \in BOOLEAN /\ (x.mixed => y.mixed) /\ x.mixed \in BOOLEAN
    BY <1>5, <1>9
  <2>3. OpWaits(x) /\ Whole(x) /\ y.op = x.op /\ y.wire = x.wire /\ y.session = x.session
    BY <1>3, <1>9
  <2> QED
    BY <2>1, <2>2, <2>3, FewerQueued
<1>11. InTurn(y, prep)
  <2>1. InTurn(x, prep)
    BY <1>3
  <2>2. \A i : LongEntry(x, x.wire[i], prep) => LongEntry(y, y.wire[i], prep)
    BY <1>9 DEF LongEntry
  <2> QED
    BY <1>9, <2>1, <2>2 DEF InTurn
<1>12. Quiet(y, j)
  <2>1. ASSUME NEW i \in Rest(y.wire), Steps(y.wire[i]), y.wire[i].who = j PROVE FALSE
    <3>1. PICK w : w = y.wire[i]
      OBVIOUS
    <3>2. OpEntry(y, w) /\ Steps(w) /\ w.who = j
      BY <1>10, <2>1, <3>1 DEF OpWaits
    <3>3. y.op[j].kind = "long" /\ ~y.op[j].sent
      BY <1>2, <1>9
    <3>4. w.cb \notin {"readlong", "simple"}
      BY <3>2, <3>3 DEF OpEntry, Kind
    <3>5. w.pdu # "read"
      BY <3>2, <3>4 DEF OpEntry, Steps, Pdu
    <3> QED
      BY <3>2, <3>3, <3>5 DEF OpEntry
  <2>2. j \notin ToSet(y.longQ)
    BY <1>6, <1>8
  <2> QED
    BY <2>1, <2>2 DEF Quiet
<1>13. u = Withdrawn(y, j)
  <2>1. [t EXCEPT !.op[j].removed = TRUE] = x
    BY <1>1 DEF Removed, SetOp
  <2>2. u = [x EXCEPT !.longQ = RemoveFirst(@, j), !.op[j].told = "withdrawn"]
    BY <1>0, <2>1 DEF CancelRequest
  <2> QED
    BY <1>2, <1>4, <1>7, <2>2 DEF Withdrawn, SetOp, Client
<1>14. j \in DOMAIN y.op /\ y.op[j].kind # "session"
  BY <1>2, <1>9
<1>15. Kept(y, u, prep)
  BY <1>8, <1>10, <1>11, <1>12, <1>13, <1>14, WithdrawnKeeps DEF OpInv
<1>16. Kept(x, u, prep)
  BY <1>9, <1>15, KeptAfter
<1> QED
  BY <1>0, <1>2, <1>16, KeptAfter

(* a long write that was begun is cancelled *)
LEMMA CancelBegun ==
    ASSUME NEW t \in Client, NEW j \in DOMAIN t.op, NEW prep, OpInv(t, prep),
           t.op[j].kind = "long", t.op[j].sent
    PROVE  Kept(t, CancelRequest(t, j), prep)
<1>0. PICK u : u = CancelRequest(t, j)
  OBVIOUS
<1>1. PICK x : x = Removed(t, j)
  OBVIOUS
<1>2. /\ x \in Client /\ SameReg(t, x) /\ x.wire = t.wire
      /\ j \in DOMAIN x.op /\ x.op[j].kind = "long"
  BY <1>1, RemovedIs
<1>3. OpWaits(x) /\ Whole(x)
  BY <1>1, RemovedKeeps DEF OpInv
<1>4. PICK y : y = [x EXCEPT !.mixed = TRUE]
  OBVIOUS
<1>5. y \in Client /\ y.mixed
  BY <1>2, <1>4 DEF Client
<1>6. /\ SameReg(x, y) /\ y.wire = x.wire /\ y.op = x.op /\ y.session = x.session
      /\ y.longQ = x.longQ
  BY <1>2, <1>4 DEF Client, SameReg
<1>7. /\ x.mixed \in BOOLEAN /\ y.mixed \in BOOLEAN /\ Distinct(y.longQ)
  BY <1>2, <1>3, <1>5, <1>6, LongTypes DEF OpWaits, OpQueued
<1>8. OpWaits(y) /\ Whole(y)
  BY <1>3, <1>5, <1>6, <1>7, FewerQueued
<1> DEFINE cb == "cancel long"
<1>9. u = Send(y, "exec", j, 0, cb)
  <2>1. [t EXCEPT !.op[j].removed = TRUE] = x
    BY <1>1 DEF Removed, SetOp
  <2> QED
    BY <1>0, <1>4, <2>1 DEF CancelRequest
<1>10. y.op[j].kind = Kind(cb) /\ j \in DOMAIN y.op
  BY <1>2, <1>6 DEF Kind
<1>11. cb \in {"exec", "cancel prep", "cancel long"} /\ cb = "cancel long" /\ 0 \in Int
  OBVIOUS
<1> HIDE DEF cb
<1>12. Kept(y, u, prep)
  BY <1>5, <1>8, <1>9, <1>10, <1>11, ExecSent
<1>13. Kept(x, u, prep)
  BY <1>6, <1>12, KeptAfter
<1> QED
  BY <1>0, <1>2, <1>13, KeptAfter

(* a reliable session is cancelled *)
LEMMA CancelSession ==
    ASSUME NEW t \in Client, NEW j \in DOMAIN t.op, NEW prep, OpInv(t, prep),
           t.op[j].kind = "session", t.op[j].told = "none", ~t.op[j].removed, Idle(t, j)
    PROVE  Kept(t, CancelRequest(t, j), prep)
<1>0. PICK u : u = CancelRequest(t, j)
  OBVIOUS
<1>1. OpWaits(t) /\ Whole(t)
  BY DEF OpInv
<1>2. j = t.session /\ t.session # 0
  BY <1>1, OpTypes DEF OpWaits
<1>3. PICK x : x = Removed(t, j)
  OBVIOUS
<1>4. /\ x \in Client /\ SameReg(t, x) /\ SameRest(t, x) /\ x.wire = t.wire
      /\ OneOp(t, x, j) /\ j \in DOMAIN x.op /\ x.op[j].removed
      /\ x.op[j].kind = "session"
  BY <1>3, RemovedIs
<1>5. PICK y : y = Withdrawn(x, j)
  OBVIOUS
<1>6. /\ y \in Client /\ SameReg(x, y) /\ SameRest(x, y) /\ y.wire = x.wire
      /\ OneOp(x, y, j) /\ j \in DOMAIN y.op
      /\ Like(x.op[j], y.op[j]) /\ y.op[j].told = "withdrawn"
  BY <1>4, <1>5, WithdrawnIs
<1>7. /\ y.open = t.open /\ y.inLong = t.inLong /\ y.longQ = t.longQ
      /\ y.session = t.session /\ y.mixed = t.mixed /\ y.wire = t.wire
  BY <1>4, <1>6 DEF SameRest
<1>8. /\ DOMAIN y.op = DOMAIN t.op /\ Len(y.op) = Len(t.op)
      /\ \A k \in DOMAIN t.op : k # j => y.op[k] = t.op[k]
  BY <1>4, <1>6 DEF OneOp
<1>9. y.op[j].kind = "session" /\ y.op[j].removed
  BY <1>4, <1>6 DEF Like
<1>10. /\ t.open /\ ~t.mixed => Writes(t.wire) = {} /\ ~t.inLong
       /\ \A i \in Rest(t.wire) : ~Ends(t.wire[i])
       /\ \A i \in Rest(t.wire) : t.wire[i].who # j
       /\ Quiet(t, j)
  BY <1>2, IdleWrites
<1>11. OpWaits(y)
  <2>1. OpQueued(y)
    <3>1. \A k \in ToSet(t.longQ) : k \in DOMAIN t.op /\ k # j /\ y.op[k] = t.op[k]
      BY <1>1, <1>8, <1>10 DEF OpWaits, OpQueued, Quiet
    <3> QED
      BY <1>1, <1>7, <1>8, <3>1 DEF OpWaits, OpQueued
  <2>2. ASSUME NEW i \in Rest(y.wire) PROVE OpEntry(y, y.wire[i])
    <3>1. OpEntry(t, y.wire[i]) /\ y.wire[i].who # j
      BY <1>1, <1>7, <1>10 DEF OpWaits
    <3>2. y.op[y.wire[i].who] = t.op[y.wire[i].who]
      BY <1>8, <3>1 DEF OpEntry
    <3> QED
      BY <1>7, <1>8, <3>1, <3>2 DEF OpEntry
  <2>3. \A k \in DOMAIN y.op :
           y.op[k].kind = "session" /\ y.op[k].told = "none" /\ ~y.op[k].removed
              => k = y.session
    BY <1>1, <1>7, <1>8, <1>9 DEF OpWaits
  <2>4. y.session = j
    BY <1>2, <1>7
  <2> QED
    BY <1>1, <1>6, <1>7, <1>8, <1>9, <2>1, <2>2, <2>3, <2>4 DEF OpWaits
<1>12. Whole(y)
  BY <1>1, <1>6, <1>7, <1>8 DEF Whole
<1> DEFINE cb == "cancel prep"
<1>13. u = Send(y, "exec", j, 0, cb)
  <2>1. [t EXCEPT !.op[j].removed = TRUE] = x
    BY <1>3 DEF Removed, SetOp
  <2>2. [x EXCEPT !.op[j].told = "withdrawn"] = y
    BY <1>5 DEF Withdrawn, SetOp
  <2> QED
    BY <1>0, <2>1, <2>2 DEF CancelRequest
<1>14. y.op[j].kind = Kind(cb)
  BY <1>9 DEF Kind
<1>15. y.op[j].removed = (cb = "cancel prep")
  <2>1. y.op[j].removed \in BOOLEAN
    BY <1>6, OpTypes DEF Operation
  <2> QED
    BY <1>9, <2>1
<1>16. cb \in {"exec", "cancel prep", "cancel long"} /\ cb # "cancel long" /\ 0 \in Int
  OBVIOUS
<1> HIDE DEF cb
<1>17. /\ j = y.session
       /\ \A i \in Rest(y.wire) : ~Ends(y.wire[i])
       /\ y.open /\ ~y.mixed => Writes(y.wire) = {} /\ ~y.inLong
  BY <1>2, <1>7, <1>10
<1>18. Kept(y, u, prep)
  BY <1>6, <1>11, <1>12, <1>13, <1>14, <1>15, <1>16, <1>17, ExecSent
<1>19. Kept(x, u, prep)
  BY <1>6, <1>18, KeptAfter
<1> QED
  BY <1>0, <1>4, <1>19, KeptAfter

(* bt_gatt_client_cancel() *)
LEMMA CancelKeeps ==
    ASSUME NEW t \in Client, NEW j \in DOMAIN t.op, NEW prep, OpInv(t, prep),
           t.op[j].told = "none", ~t.op[j].removed,
           t.op[j].kind = "session" => Idle(t, j)
    PROVE  Kept(t, CancelRequest(t, j), prep)
<1>1. t.op[j].kind \in {"long", "session", "readlong", "simple"}
  BY OpTypes DEF Operation
<1>2. CASE t.op[j].kind = "long"
  BY <1>2, CancelWaiting, CancelBegun
<1>3. CASE t.op[j].kind = "session"
  BY <1>3, CancelSession
<1>4. CASE t.op[j].kind \in {"readlong", "simple"}
  <2>0. PICK u : u = CancelRequest(t, j)
    OBVIOUS
  <2>1. PICK x : x = Removed(t, j)
    OBVIOUS
  <2>2. /\ x \in Client /\ SameReg(t, x) /\ x.wire = t.wire
        /\ j \in DOMAIN x.op /\ x.op[j].kind \in {"readlong", "simple"}
    BY <1>4, <2>1, RemovedIs
  <2>3. OpInv(x, prep)
    BY <1>4, <2>1, RemovedKeeps
  <2>4. PICK y : y = CancelSent(x, SentFor(x, j, FALSE))
    OBVIOUS
  <2>5. Kept(x, y, prep) /\ SameOp(x, y) /\ Quiet(y, j)
    BY <2>2, <2>3, <2>4, ReadCancelled
  <2>6. u = Withdrawn(y, j)
    <3>1. [t EXCEPT !.op[j].removed = TRUE] = x
      BY <2>1 DEF Removed, SetOp
    <3>2. [y EXCEPT !.op[j].told = "withdrawn"] = Withdrawn(y, j)
      BY DEF Withdrawn, SetOp
    <3> QED
      BY <1>4, <2>0, <2>4, <3>1, <3>2 DEF CancelRequest
  <2>7. y \in Client /\ OpInv(y, prep) /\ j \in DOMAIN y.op /\ y.op[j].kind # "session"
    BY <2>2, <2>5 DEF Kept, SameOp
  <2>8. Kept(y, u, prep) /\ u.wire = y.wire
    BY <2>5, <2>6, <2>7, WithdrawnKeeps, WithdrawnIs
  <2>9. Kept(x, u, prep)
    BY <2>5, <2>8, KeptBefore
  <2> QED
    BY <2>0, <2>2, <2>9, KeptAfter
<1> QED
  BY <1>1, <1>2, <1>3, <1>4
-----------------------------------------------------------------------------
(* A request that ends *)

WithWire(s, b) == [s EXCEPT !.wire = b]

LEMMA Popped ==
    ASSUME NEW s \in Client, NEW i, NEW b, Without(s.wire, i, b),
           NEW t, t = WithWire(s, b)
    PROVE  /\ t \in Client /\ SameReg(s, t) /\ SameOp(s, t) /\ t.wire = b
           /\ i \in DOMAIN s.wire /\ s.wire[i] \in Message
<1>1. b \in Seq(Message) /\ i \in DOMAIN s.wire
  BY DEF Without
<1>2. s.wire \in Seq(Message)
  BY DEF Client
<1>3. s.wire[i] \in Message
  BY <1>1, <1>2
<1>4. t \in Client /\ t.wire = b
  BY <1>1 DEF Client, WithWire
<1>5. SameReg(s, t) /\ SameOp(s, t)
  BY DEF Client, SameReg, SameOp, WithWire
<1> QED
  BY <1>1, <1>3, <1>4, <1>5

(* the entry i of the queue, w, is taken out *)
Out(s, t, i, w) ==
    /\ Without(s.wire, i, t.wire) /\ SameReg(s, t) /\ SameOp(s, t)
    /\ w = s.wire[i] /\ w \in Message

(* the answer to a write of the CCC *)
LEMMA CccEnds ==
    ASSUME NEW s \in Client, NEW t \in Client, NEW i, NEW w, Out(s, t, i, w),
           w.pdu = "ccc", NEW on, NEW now, NEW prep, RegInv(s, on), OpInv(s, prep),
           NEW res, NEW len, w.arg => (on => now) /\ (~Failed(res) => now)
    PROVE  /\ Callback(t, w, res, len) \in Client
           /\ RegInv(Callback(t, w, res, len), now)
           /\ OpInv(Callback(t, w, res, len), prep)
           /\ w.arg \in BOOLEAN
<1>0. PICK u : u = Callback(t, w, res, len)
  OBVIOUS
<1>1. /\ Without(s.wire, i, t.wire) /\ SameReg(s, t) /\ SameOp(s, t)
      /\ w = s.wire[i] /\ w \in Message
  BY DEF Out
<1>2. Same(s.wire, t.wire, Rest(s.wire), Rest(t.wire))
  BY <1>1, SameWithout
<1>3. OpInv(t, prep)
  BY <1>1, <1>2, OpFrame
<1>4. /\ s.wire[i] \in Message /\ s.wire[i].pdu = "ccc"
      /\ s.wire[i].arg => (on => now) /\ (~Failed(res) => now)
      /\ u = Callback(t, s.wire[i], res, len)
  BY <1>0, <1>1
<1>5. /\ u \in Client /\ RegInv(u, now) /\ SameOp(t, u)
      /\ Same(t.wire, u.wire, Rest(t.wire), Rest(u.wire))
  BY <1>1, <1>4, CccAnswered
<1>6. OpInv(u, prep)
  BY <1>3, <1>5, OpFrame
<1>7. w.arg \in BOOLEAN
  BY <1>1 DEF RegInv, RegWaits, Ccc, CccEntry, Without
<1> QED
  BY <1>0, <1>5, <1>6, <1>7

(* any other request is taken out of the queue *)
LEMMA RequestTaken ==
    ASSUME NEW s \in Client, NEW t \in Client, NEW i, NEW w, Out(s, t, i, w),
           w.pdu # "ccc", NEW on, NEW prep, RegInv(s, on), OpInv(s, prep)
    PROVE  RegInv(t, on) /\ Taken(t, w, prep)
<1>1. /\ Without(s.wire, i, t.wire) /\ SameReg(s, t) /\ SameOp(s, t)
      /\ w = s.wire[i]
  BY DEF Out
<1>2. Same(s.wire, t.wire, Ccc(s.wire), Ccc(t.wire))
  BY <1>1, SameWithout
<1>3. RegInv(t, on)
  BY <1>1, <1>2, RegFrame
<1>4. /\ OpWaits(t) /\ Whole(t) /\ OpEntry(t, w)
      /\ Steps(w) => Quiet(t, w.who)
      /\ Ends(w) => \A k \in Rest(t.wire) : ~Ends(t.wire[k])
      /\ w.pdu = "read" => InTurn(t, prep)
      /\ w.pdu \in {"prep", "exec"} /\ t.open /\ ~t.mixed =>
            /\ Writes(t.wire) = {}
            /\ t.session # 0 => ~t.inLong /\ w.who = t.session
            /\ t.session = 0 => t.inLong /\ LongEntry(t, w, prep)
  BY <1>1, OpPopped
<1>5. Taken(t, w, prep)
  BY <1>4 DEF Taken, Turn
<1> QED
  BY <1>3, <1>5

LEMMA KeptInv ==
    ASSUME NEW t, NEW u, NEW on, NEW prep, RegInv(t, on), Kept(t, u, prep)
    PROVE  u \in Client /\ RegInv(u, on) /\ OpInv(u, prep)
BY RegFrame DEF Kept

(* every request is failed in turn once the bearer is lost *)
LEMMA DiscAttSendOpKeeps ==
    ASSUME Inv, DiscAttSendOp
    PROVE  Inv'
<1>1. PICK i : i = IF Len(c.wire) = 1 THEN 1 ELSE 2
  OBVIOUS
<1>2. /\ ~c.open /\ c.wire # <<>> /\ peer' = peer
      /\ c' = Callback([c EXCEPT !.wire = RemoveAt(@, i)], c.wire[i], "none", 0)
  BY <1>1 DEF DiscAttSendOp
<1>3. c \in Client /\ RegInv(c, peer.ccc) /\ OpInv(c, peer.prep)
      /\ peer \in [ccc : BOOLEAN, prep : Seq(Nat \X Int)]
  BY DEF Inv
<1>4. c.wire \in Seq(Message) /\ i \in DOMAIN c.wire
  <2>1. c.wire \in Seq(Message)
    BY <1>3 DEF Client
  <2>2. PICK n \in Nat : n = Len(c.wire) /\ DOMAIN c.wire = 1 .. n
    BY <2>1
  <2>3. n # 0
    <3>1. c.wire # <<>>
      BY <1>2
    <3> QED
      BY <2>1, <2>2, <3>1
  <2>4. i \in 1 .. n
    <3>1. i = IF n = 1 THEN 1 ELSE 2
      BY <1>1, <2>2
    <3> QED
      BY <2>3, <3>1
  <2> QED
    BY <2>1, <2>2, <2>4
<1>5. Without(c.wire, i, RemoveAt(c.wire, i))
  BY <1>2, <1>4, PopWire
<1>6. PICK b : b = RemoveAt(c.wire, i)
  OBVIOUS
<1>7. PICK t : t = WithWire(c, b)
  OBVIOUS
<1>8. PICK w : w = c.wire[i]
  OBVIOUS
<1>9. PICK u : u = Callback(t, w, "none", 0)
  OBVIOUS
<1>10. c' = u
  BY <1>2, <1>6, <1>7, <1>8, <1>9 DEF WithWire
<1>11. Without(c.wire, i, b)
  BY <1>5, <1>6
<1>12. u \in Client /\ RegInv(u, peer.ccc) /\ OpInv(u, peer.prep)
  <2> DEFINE res == "none"
             on == peer.ccc
             prep == peer.prep
             len == 0
  <2>0. /\ res \in {"ok", "err", "bad", "none"} /\ res # "ok" /\ res # "bad"
        /\ Failed(res)
    BY DEF Failed
  <2>1. u = Callback(t, w, res, len)
    BY <1>9
  <2> HIDE DEF res, on, prep, len
  <2>2. /\ t \in Client /\ SameReg(c, t) /\ SameOp(c, t) /\ t.wire = b
        /\ w \in Message
    BY <1>3, <1>7, <1>8, <1>11, Popped
  <2>3. Out(c, t, i, w)
    BY <1>8, <1>11, <2>2 DEF Out
  <2>4. RegInv(c, on) /\ OpInv(c, prep) /\ c \in Client /\ prep \in Seq(Nat \X Int)
    BY <1>3 DEF on, prep
  <2>5. CASE w.pdu = "ccc"
    <3>1. w.arg => (on => on) /\ (~Failed(res) => on)
      BY <2>0
    <3>2. u \in Client /\ RegInv(u, on) /\ OpInv(u, prep)
      BY <2>1, <2>2, <2>3, <2>4, <2>5, <3>1, CccEnds
    <3> QED
      BY <3>2 DEF on, prep
  <2>6. CASE w.pdu # "ccc"
    <3>1. RegInv(t, on) /\ Taken(t, w, prep)
      BY <2>2, <2>3, <2>4, <2>6, RequestTaken
    <3>2. ~t.open
      BY <1>2, <2>2 DEF SameReg
    <3>3. Kept(t, Callback(t, w, res, len), prep)
      BY <2>0, <2>2, <2>4, <3>1, <3>2, CallbackKeeps
    <3>4. Kept(t, u, prep)
      BY <2>1, <3>3
    <3>5. u \in Client /\ RegInv(u, on) /\ OpInv(u, prep)
      BY <3>1, <3>4, KeptInv
    <3> QED
      BY <3>5 DEF on, prep
  <2> QED
    BY <2>5, <2>6
<1> QED
  BY <1>2, <1>3, <1>10, <1>12 DEF Inv

(* what a prepared write, or an execution, leaves with the peer *)
Prep2(w, res, prep) ==
    IF w.pdu = "exec" THEN <<>>
    ELSE IF w.pdu = "prep" /\ res # "err"
    THEN Append(prep, <<w.who, IF res = "bad" THEN -w.arg ELSE w.arg>>) ELSE prep

LEMMA Prep2Is ==
    ASSUME NEW w \in Message, w.arg \in Int, NEW res, NEW prep \in Seq(Nat \X Int)
    PROVE  Prep2(w, res, prep) \in Seq(Nat \X Int)
<1>1. w.who \in Nat
  BY DEF Message
<1>2. PICK x : x = IF res = "bad" THEN -w.arg ELSE w.arg
  OBVIOUS
<1>3. x \in Int
  BY <1>2
<1>4. <<w.who, x>> \in Nat \X Int
  BY <1>1, <1>3
<1>5. Append(prep, <<w.who, x>>) \in Seq(Nat \X Int)
  BY <1>4
<1>6. <<>> \in Seq(Nat \X Int)
  OBVIOUS
<1> QED
  BY <1>2, <1>5, <1>6 DEF Prep2

(* the state in which the callback is called *)
Asked(t, w, res, prep) ==
    IF w.pdu = "exec" /\ w.arg = 1 /\ res = "ok"
    THEN [t EXCEPT !.op[w.who].wrote = prep] ELSE t

LEMMA AskedKeeps ==
    ASSUME NEW t \in Client, NEW w, NEW res, NEW prep \in Seq(Nat \X Int), t.open,
           Taken(t, w, prep), NEW x, x = Asked(t, w, res, prep)
    PROVE  /\ x \in Client /\ SameReg(t, x) /\ x.wire = t.wire /\ Taken(x, w, prep)
           /\ w.pdu # "exec" => x = t
           /\ w.pdu = "exec" /\ w.arg = 1 /\ res = "ok" => x.op[w.who].wrote = prep
<1>1. CASE w.pdu = "exec" /\ w.arg = 1 /\ res = "ok"
  <2>1. x = Wrote(t, w, prep)
    BY <1>1 DEF Asked, Wrote
  <2>2. /\ x \in Client /\ SameReg(t, x) /\ x.wire = t.wire
        /\ Taken(x, w, prep) /\ x.op[w.who].wrote = prep
    BY <1>1, <2>1, WroteKeeps
  <2> QED
    BY <1>1, <2>2
<1>2. CASE ~(w.pdu = "exec" /\ w.arg = 1 /\ res = "ok")
  <2>1. x = t
    BY <1>2 DEF Asked
  <2>2. SameReg(t, x)
    BY <2>1 DEF SameReg
  <2> QED
    BY <1>2, <2>1, <2>2
<1> QED
  BY <1>1, <1>2

(* the answer to any other request, while the bearer stands *)
LEMMA RequestEnds ==
    ASSUME NEW t \in Client, NEW w \in Message, NEW on, NEW prep \in Seq(Nat \X Int),
           RegInv(t, on), Taken(t, w, prep), t.open, NEW res \in {"ok", "err", "bad"},
           res = "bad" => w.cb = "prepare", NEW x, x = Asked(t, w, res, prep), NEW len,
           w.pdu = "read" =>
              len = IF t.op[w.who].len - w.arg < Blob THEN t.op[w.who].len - w.arg ELSE Blob
    PROVE  /\ Callback(x, w, res, len) \in Client
           /\ RegInv(Callback(x, w, res, len), on)
           /\ OpInv(Callback(x, w, res, len), Prep2(w, res, prep))
<1>0. PICK u : u = Callback(x, w, res, len)
  OBVIOUS
<1>1. PICK p : p = Prep2(w, res, prep)
  OBVIOUS
<1>2. /\ x \in Client /\ SameReg(t, x) /\ x.wire = t.wire /\ Taken(x, w, prep)
      /\ w.pdu # "exec" => x = t
      /\ w.pdu = "exec" /\ w.arg = 1 /\ res = "ok" => x.op[w.who].wrote = prep
  BY AskedKeeps
<1>3. /\ w.pdu = "exec" => p = <<>>
      /\ w.pdu = "prep" /\ res # "err" =>
            p = Append(prep, <<w.who, IF res = "bad" THEN -w.arg ELSE w.arg>>)
      /\ w.pdu = "read" => p = prep
  BY <1>1 DEF Prep2
<1>4. x.open /\ (~Failed(res) <=> res # "err")
  BY <1>2 DEF SameReg, Failed
<1>5. w.pdu = "read" /\ ~Failed(res) =>
         len = IF x.op[w.who].len - w.arg < Blob THEN x.op[w.who].len - w.arg ELSE Blob
  BY <1>2
<1>6. Kept(x, Callback(x, w, res, len), p)
  <2>1. x \in Client /\ Taken(x, w, prep)
    BY <1>2
  <2>2. w.pdu = "exec" /\ w.arg = 1 /\ res = "ok" => x.op[w.who].wrote = prep
    BY <1>2
  <2>3. w.pdu = "exec" /\ x.open => p = <<>>
    BY <1>3
  <2>4. w.pdu = "prep" /\ x.open /\ ~Failed(res) =>
           p = Append(prep, <<w.who, IF res = "bad" THEN -w.arg ELSE w.arg>>)
    BY <1>3, <1>4
  <2>5. w.pdu = "read" => p = prep
    BY <1>3
  <2>6. ~x.open => Failed(res)
    BY <1>4
  <2>7. res \in {"ok", "err", "bad", "none"}
    OBVIOUS
  <2> QED
    BY <1>5, <2>1, <2>2, <2>3, <2>4, <2>5, <2>6, <2>7, CallbackKeeps
<1>7. Kept(t, u, p)
  BY <1>0, <1>2, <1>6, KeptAfter
<1>8. u \in Client /\ RegInv(u, on) /\ OpInv(u, p)
  BY <1>7, KeptInv
<1> QED
  BY <1>0, <1>1, <1>8

(* w is taken out of the queue, and answered with res; the CCC is now *)
AnswerTo(w, t, len, res, now) ==
    /\ Out(c, t, 1, w) /\ t = WithWire(c, Tail(c.wire))
    /\ c.open /\ t.open
    /\ res = "bad" => w.cb = "prepare"
    /\ res = "none" => w.pdu = "ccc"
    /\ now \in CccAfter(w, res)
    /\ c' = Callback(Asked(t, w, res, peer.prep), w, res, len)
    /\ w.pdu = "read" =>
          len = IF t.op[w.who].len - w.arg < Blob THEN t.op[w.who].len - w.arg ELSE Blob
    /\ peer' = [ccc |-> now, prep |-> Prep2(w, res, peer.prep)]

LEMMA AnswerIs ==
    ASSUME Inv, NEW res \in {"ok", "err", "bad", "none"}, Answer(res)
    PROVE  \E w \in Message, t \in Client : \E len, now : AnswerTo(w, t, len, res, now)
<1>1. /\ c \in Client /\ peer \in [ccc : BOOLEAN, prep : Seq(Nat \X Int)]
  BY DEF Inv
<1>2. c.wire \in Seq(Message)
  BY <1>1 DEF Client
<1>3. c.wire # <<>> /\ c.open
  BY DEF Answer, Running
<1>4. /\ Without(c.wire, 1, Tail(c.wire)) /\ Head(c.wire) = c.wire[1]
      /\ 1 \in DOMAIN c.wire
  BY <1>2, <1>3, PopWire
<1>5. PICK w : w = Head(c.wire)
  OBVIOUS
<1>6. PICK t : t = WithWire(c, Tail(c.wire))
  OBVIOUS
<1>7. /\ t \in Client /\ SameReg(c, t) /\ SameOp(c, t) /\ t.wire = Tail(c.wire)
      /\ c.wire[1] \in Message
  BY <1>1, <1>4, <1>6, Popped
<1>8. w \in Message
  BY <1>4, <1>5, <1>7
<1>9. Out(c, t, 1, w)
  BY <1>4, <1>5, <1>7, <1>8 DEF Out
<1>10. t.open /\ t.op = c.op
  BY <1>3, <1>7 DEF SameReg, SameOp
<1>11. PICK left : left = c.op[w.who].len - w.arg
  OBVIOUS
<1>12. PICK len : len = IF w.pdu # "read" THEN 0 ELSE IF left < Blob THEN left ELSE Blob
  OBVIOUS
<1>13. /\ res = "bad" => w.cb = "prepare"
       /\ res = "none" => w.pdu = "ccc"
       /\ c' = Callback(Asked(t, w, res, peer.prep), w, res, len)
  BY <1>5, <1>6, <1>11, <1>12 DEF Answer, Asked, WithWire
<1>14. w.pdu = "read" =>
          len = IF t.op[w.who].len - w.arg < Blob THEN t.op[w.who].len - w.arg ELSE Blob
  BY <1>10, <1>11, <1>12
<1>15. PICK now \in CccAfter(w, res) :
          peer' = [ccc |-> now, prep |-> Prep2(w, res, peer.prep)]
  <2>1. PICK now \in CccAfter(w, res) :
           peer' = [peer EXCEPT !.ccc = now, !.prep = Prep2(w, res, @)]
    BY <1>5 DEF Answer, Prep2
  <2> QED
    BY <1>1, <2>1
<1>16. AnswerTo(w, t, len, res, now)
  BY <1>3, <1>6, <1>9, <1>10, <1>13, <1>14, <1>15 DEF AnswerTo
<1> QED
  BY <1>7, <1>8, <1>16

(* The peer answers the first request, and its callback runs. *)
LEMMA AnswerKeeps ==
    ASSUME Inv, NEW res \in {"ok", "err", "bad", "none"}, Answer(res)
    PROVE  Inv'
<1>1. PICK w \in Message, t \in Client : \E len, now : AnswerTo(w, t, len, res, now)
  BY AnswerIs
<1>0. PICK len, now :
     /\ Out(c, t, 1, w) /\ t = WithWire(c, Tail(c.wire))
     /\ c.open /\ t.open
     /\ res = "bad" => w.cb = "prepare"
     /\ res = "none" => w.pdu = "ccc"
     /\ now \in CccAfter(w, res)
     /\ c' = Callback(Asked(t, w, res, peer.prep), w, res, len)
     /\ w.pdu = "read" =>
           len = IF t.op[w.who].len - w.arg < Blob
                 THEN t.op[w.who].len - w.arg ELSE Blob
     /\ peer' = [ccc |-> now, prep |-> Prep2(w, res, peer.prep)]
  BY <1>1 DEF AnswerTo
<1>2. PICK on, prep : on = peer.ccc /\ prep = peer.prep
  OBVIOUS
<1>3. /\ c \in Client /\ RegInv(c, on) /\ OpInv(c, prep)
      /\ on \in BOOLEAN /\ prep \in Seq(Nat \X Int)
  BY <1>2 DEF Inv
<1>4. PICK x : x = Asked(t, w, res, prep)
  OBVIOUS
<1>5. PICK p : p = Prep2(w, res, prep)
  OBVIOUS
<1>6. c' = Callback(x, w, res, len) /\ peer' = [ccc |-> now, prep |-> p]
  BY <1>0, <1>2, <1>4, <1>5
<1>7. /\ Without(c.wire, 1, t.wire) /\ w = c.wire[1] /\ 1 \in DOMAIN c.wire
  BY <1>0 DEF Out, Without
<1>8. /\ Callback(x, w, res, len) \in Client
      /\ RegInv(Callback(x, w, res, len), now)
      /\ OpInv(Callback(x, w, res, len), p)
      /\ now \in BOOLEAN /\ p \in Seq(Nat \X Int)
  <2>1. CASE w.pdu = "ccc"
    <3>1. x = t /\ p = prep
      BY <1>4, <1>5, <2>1 DEF Asked, Prep2
    <3>2. CccEntry(c, w)
      BY <1>3, <1>7, <2>1 DEF RegInv, RegWaits, Ccc
    <3>3. res # "bad" /\ w.arg \in BOOLEAN
      BY <1>0, <3>2 DEF CccEntry
    <3>4. now \in BOOLEAN /\ (w.arg => (on => now) /\ (~Failed(res) => now))
      <4>1. /\ res = "err" => now = on
            /\ res = "ok" => now = w.arg
            /\ res = "none" => now \in {on, w.arg}
        BY <1>0, <1>2, <2>1 DEF CccAfter
      <4> QED
        BY <1>3, <3>3, <4>1 DEF Failed
    <3>5. Out(c, t, 1, w)
      BY <1>0
    <3> DEFINE i == 1
    <3>6. Out(c, t, i, w)
      BY <3>5
    <3> HIDE DEF i
    <3>7. /\ Callback(t, w, res, len) \in Client
          /\ RegInv(Callback(t, w, res, len), now)
          /\ OpInv(Callback(t, w, res, len), prep)
      BY <1>3, <2>1, <3>4, <3>6, CccEnds
    <3> QED
      BY <1>3, <3>1, <3>4, <3>7
  <2>2. CASE w.pdu # "ccc"
    <3>1. now = on /\ res \in {"ok", "err", "bad"}
      BY <1>0, <1>2, <2>2 DEF CccAfter
    <3>2. OpEntry(c, w)
      BY <1>3, <1>7, <2>2 DEF OpInv, OpWaits, Rest
    <3>3. p \in Seq(Nat \X Int)
      BY <1>3, <1>5, <3>2, Prep2Is DEF OpEntry
    <3> DEFINE i == 1
    <3>4. Out(c, t, i, w) /\ Without(c.wire, i, t.wire) /\ w = c.wire[i]
      BY <1>0, <1>7
    <3> HIDE DEF i
    <3>5. RegInv(t, on) /\ Taken(t, w, prep)
      BY <1>0, <1>3, <2>2, <3>4, RequestTaken
    <3>6. /\ t.open
          /\ res = "bad" => w.cb = "prepare"
          /\ w.pdu = "read" =>
                len = IF t.op[w.who].len - w.arg < Blob
                      THEN t.op[w.who].len - w.arg ELSE Blob
      BY <1>0
    <3>7. /\ Callback(x, w, res, len) \in Client
          /\ RegInv(Callback(x, w, res, len), on)
          /\ OpInv(Callback(x, w, res, len), Prep2(w, res, prep))
      BY <1>3, <1>4, <3>1, <3>5, <3>6, RequestEnds
    <3> QED
      BY <1>3, <1>5, <3>1, <3>3, <3>7
  <2> QED
    BY <2>1, <2>2
<1>9. c' \in Client /\ RegInv(c', now) /\ OpInv(c', p)
  BY <1>6, <1>8
<1>10. peer'.ccc = now /\ peer'.prep = p /\ peer' \in [ccc : BOOLEAN, prep : Seq(Nat \X Int)]
  BY <1>6, <1>8
<1> QED
  BY <1>9, <1>10 DEF Inv
-----------------------------------------------------------------------------
(* The steps *)

LEMMA InitInv ==
    ASSUME Init
    PROVE  Inv
<1>1. MaxCalls \in Nat
  BY ClientAssumption
<1>2. c = New /\ peer = [ccc |-> FALSE, prep |-> <<>>]
  BY DEF Init
<1>3. c \in Client
  <2>1. <<>> \in Seq(Message) /\ <<>> \in Seq(Registration) /\ <<>> \in Seq(Operation)
        /\ <<>> \in Seq(Nat)
    OBVIOUS
  <2> QED
    BY <1>2, <2>1 DEF New, Client
<1>4. peer \in [ccc : BOOLEAN, prep : Seq(Nat \X Int)]
  BY <1>2
<1>5. /\ c.open /\ c.wire = <<>> /\ c.reg = <<>> /\ c.hasCcc /\ c.count = 0 /\ ~c.writing
      /\ c.regQ = <<>> /\ c.op = <<>> /\ ~c.inLong /\ c.longQ = <<>> /\ c.session = 0
      /\ ~c.crashed /\ ~c.leak /\ ~c.stuck
  BY <1>2 DEF New
<1>6. Ccc(c.wire) = {} /\ Rest(c.wire) = {} /\ Writes(c.wire) = {} /\ Listed(c) = {}
      /\ Len(c.reg) = 0 /\ Len(c.op) = 0 /\ DOMAIN c.op = {}
  BY <1>5 DEF Ccc, Rest, Writes, Listed
<1>7. ToSet(c.regQ) = {} /\ Distinct(c.regQ) /\ ToSet(c.longQ) = {} /\ Distinct(c.longQ)
  BY <1>5, EmptyQueue
<1>8. Cardinality({}) = 0
  BY FS_EmptySet
<1>9. RegInv(c, peer.ccc)
  <2>1. RegWaits(c)
    BY <1>6, <1>7 DEF RegWaits, RegQueued
  <2>2. Counted(c)
    BY <1>1, <1>5, <1>6, <1>8 DEF Counted
  <2>3. OneWrite(c)
    BY <1>5, <1>6 DEF OneWrite
  <2>4. Enabled(c, peer.ccc)
    BY <1>5, <1>6, <1>8 DEF Enabled
  <2>5. Lasting(c, peer.ccc)
    BY <1>5 DEF Lasting, Off
  <2> QED
    BY <2>1, <2>2, <2>3, <2>4, <2>5 DEF RegInv
<1>10. OpInv(c, peer.prep)
  <2>1. OpWaits(c)
    BY <1>1, <1>5, <1>6, <1>7 DEF OpWaits, OpQueued
  <2>2. Whole(c)
    BY <1>6 DEF Whole
  <2>3. peer.prep = <<>>
    BY <1>2
  <2>4. InTurn(c, peer.prep)
    BY <1>5, <1>6, <2>3 DEF InTurn
  <2> QED
    BY <2>1, <2>2, <2>4 DEF OpInv
<1> QED
  BY <1>3, <1>4, <1>9, <1>10 DEF Inv

LEMMA DisconnectKeeps ==
    ASSUME Inv, Disconnect
    PROVE  Inv'
<1>1. PICK u : u = [c EXCEPT !.open = FALSE]
  OBVIOUS
<1>2. c' = u /\ peer' = peer
  BY <1>1 DEF Disconnect
<1>3. /\ c \in Client /\ RegInv(c, peer.ccc) /\ OpInv(c, peer.prep)
  BY DEF Inv
<1>4. /\ u \in Client /\ ~u.open /\ u.wire = c.wire
      /\ u.hasCcc = c.hasCcc /\ u.can = c.can /\ u.reg = c.reg
      /\ u.count = c.count /\ u.writing = c.writing /\ u.regQ = c.regQ /\ u.op = c.op
      /\ u.inLong = c.inLong /\ u.longQ = c.longQ /\ u.session = c.session
      /\ u.crashed = c.crashed /\ u.leak = c.leak /\ u.stuck = c.stuck
      /\ u.overlap = c.overlap /\ u.mixed = c.mixed
  BY <1>1, <1>3 DEF Client
<1>5. RegInv(u, peer.ccc)
  <2>1. \A w : CccEntry(c, w) => CccEntry(u, w)
    BY <1>4 DEF CccEntry
  <2>2. RegWaits(u)
    BY <1>3, <1>4, <2>1 DEF RegInv, RegWaits, RegQueued
  <2>3. Counted(u)
    BY <1>3, <1>4 DEF RegInv, Counted, Listed
  <2>4. OneWrite(u)
    BY <1>3, <1>4 DEF RegInv, OneWrite
  <2>5. Enabled(u, peer.ccc)
    BY <1>4 DEF Enabled, Plain
  <2>6. Lasting(u, peer.ccc)
    BY <1>4 DEF Lasting, Off
  <2> QED
    BY <2>2, <2>3, <2>4, <2>5, <2>6 DEF RegInv
<1>6. OpInv(u, peer.prep)
  <2>1. \A w : OpEntry(c, w) => OpEntry(u, w)
    BY <1>4 DEF OpEntry
  <2>2. OpWaits(u)
    BY <1>3, <1>4, <2>1 DEF OpInv, OpWaits, OpQueued
  <2>3. Whole(u)
    BY <1>3, <1>4 DEF OpInv, Whole
  <2>4. InTurn(u, peer.prep)
    BY <1>4 DEF InTurn
  <2> QED
    BY <2>2, <2>3, <2>4 DEF OpInv
<1> QED
  BY <1>2, <1>4, <1>5, <1>6 DEF Inv

(* the bound on the calls bounds both lists *)
LEMMA UsedIs ==
    ASSUME c \in Client
    PROVE  /\ Used \in Nat /\ Len(c.reg) \in Nat /\ Len(c.op) \in Nat
           /\ Used < MaxCalls => Len(c.reg) + 1 <= MaxCalls /\ Len(c.op) < MaxCalls
<1>0. MaxCalls \in Nat
  BY ClientAssumption
<1>1. c.reg \in Seq(Registration) /\ c.op \in Seq(Operation)
  BY DEF Client
<1>2. PICK m \in Nat, n \in Nat : m = Len(c.reg) /\ n = Len(c.op) /\ DOMAIN c.op = 1 .. n
  BY <1>1
<1>3. IsFiniteSet(1 .. n)
  BY <1>2, FS_Interval
<1>4. PICK A, B : /\ A = {j \in DOMAIN c.op : c.op[j].kind \in {"readlong", "simple"}}
                  /\ B = {j \in DOMAIN c.op : c.op[j].removed}
  OBVIOUS
<1>5. A \subseteq 1 .. n /\ B \subseteq 1 .. n
  BY <1>2, <1>4
<1>6. Cardinality(A) \in Nat /\ Cardinality(B) \in Nat
  BY <1>3, <1>5, FS_Subset, FS_CardinalityType
<1>7. PICK k \in Nat, l \in Nat : k = Cardinality(A) /\ l = Cardinality(B)
  BY <1>6
<1>9. Used = m + n + k + l
  BY <1>2, <1>4, <1>7 DEF Used
<1>8. Used \in Nat /\ (Used < MaxCalls => m + 1 <= MaxCalls /\ n < MaxCalls)
  BY <1>0, <1>9
<1> QED
  BY <1>2, <1>8

(* a call about a registration, and a call that is a request *)
LEMMA RegCall ==
    ASSUME Inv, NEW u \in Client, c' = u, peer' = peer, RegInv(u, peer.ccc), SameOp(c, u),
           Same(c.wire, u.wire, Rest(c.wire), Rest(u.wire))
    PROVE  Inv'
<1>1. OpInv(u, peer.prep)
  BY OpFrame DEF Inv
<1> QED
  BY <1>1 DEF Inv

LEMMA OpCall ==
    ASSUME Inv, NEW u, c' = u, peer' = peer, Kept(c, u, peer.prep)
    PROVE  Inv'
<1>1. u \in Client /\ RegInv(u, peer.ccc) /\ OpInv(u, peer.prep)
  BY KeptInv DEF Inv
<1> QED
  BY <1>1 DEF Inv

LEMMA InvNext ==
    ASSUME Inv, [Next]_vars
    PROVE  Inv'
<1>1. /\ c \in Client /\ RegInv(c, peer.ccc) /\ OpInv(c, peer.prep)
      /\ peer \in [ccc : BOOLEAN, prep : Seq(Nat \X Int)]
  BY DEF Inv
<1>2. /\ Used \in Nat /\ Len(c.reg) \in Nat /\ Len(c.op) \in Nat /\ MaxCalls \in Nat
      /\ Used < MaxCalls => Len(c.reg) + 1 <= MaxCalls /\ Len(c.op) < MaxCalls
  BY <1>1, UsedIs, ClientAssumption
<1>3. PICK on, prep : on = peer.ccc /\ prep = peer.prep
  OBVIOUS
<1>4. RegInv(c, on) /\ OpInv(c, prep)
  BY <1>1, <1>3
<1>5. CASE Register
  <2>1. PICK ccc \in BOOLEAN, can \in BOOLEAN :
           /\ c.reg # <<>> => ccc = c.hasCcc /\ can = c.can
           /\ Call(RegisterNotify(c, ccc, can))
    BY <1>5 DEF Register
  <2>2. c.open /\ c' = RegisterNotify(c, ccc, can) /\ peer' = peer
    BY <2>1 DEF Call, Running
  <2>3. Len(c.reg) + 1 <= MaxCalls
    BY <1>2, <1>5 DEF Register, CallsLeft
  <2>4. PICK u : u = RegisterNotify(c, ccc, can)
    OBVIOUS
  <2>5. /\ u \in Client /\ RegInv(u, on) /\ SameOp(c, u)
        /\ Same(c.wire, u.wire, Rest(c.wire), Rest(u.wire))
    <3>1. c.reg # <<>> => ccc = c.hasCcc /\ can = c.can
      BY <2>1
    <3>2. c.open
      BY <2>2
    <3> QED
      BY <1>1, <1>4, <2>3, <2>4, <3>1, <3>2, RegisterKeeps
  <2> QED
    BY <1>3, <2>2, <2>4, <2>5, RegCall
<1>6. ASSUME NEW r \in DOMAIN c.reg, Unregister(r) PROVE Inv'
  <2>1. c.reg[r].listed /\ c.open
    BY <1>6 DEF Unregister, Call, Running
  <2>2. PICK u : u = UnregisterNotify(c, r)
    OBVIOUS
  <2>3. c' = u /\ peer' = peer
    BY <1>6, <2>2 DEF Unregister, Call
  <2>4. /\ u \in Client /\ RegInv(u, on) /\ SameOp(c, u)
        /\ Same(c.wire, u.wire, Rest(c.wire), Rest(u.wire))
    BY <1>1, <1>4, <2>1, <2>2, UnregisterKeeps
  <2> QED
    BY <1>3, <2>3, <2>4, RegCall
<1>7. ASSUME NEW reliable \in BOOLEAN, LongWrite(reliable) PROVE Inv'
  <2>1. PICK u : u = WriteLong(c, reliable)
    OBVIOUS
  <2>2. c' = u /\ peer' = peer
    BY <1>7, <2>1 DEF LongWrite, Call
  <2>3. Len(c.op) < MaxCalls
    BY <1>2, <1>7 DEF LongWrite, CallsLeft
  <2>4. Kept(c, u, peer.prep)
    BY <1>1, <2>1, <2>3, WriteLongKeeps
  <2> QED
    BY <2>2, <2>4, OpCall
<1>8. ASSUME NEW kind \in {"readlong", "simple"}, NEW len \in Nat, Read(kind, len)
      PROVE Inv'
  <2>1. PICK u : u = Request(c, kind, len)
    OBVIOUS
  <2>2. c' = u /\ peer' = peer
    BY <1>8, <2>1 DEF Read, Call
  <2>3. Len(c.op) < MaxCalls
    <3>1. Used + 1 < MaxCalls
      BY <1>8 DEF Read
    <3> QED
      BY <1>2, <3>1
  <2>4. Kept(c, u, peer.prep)
    BY <1>1, <2>1, <2>3, RequestKeeps
  <2> QED
    BY <2>2, <2>4, OpCall
<1>9. CASE Prepare
  <2>1. PICK u : u = PrepareWrite(c)
    OBVIOUS
  <2>2. c' = u /\ peer' = peer
    BY <1>9, <2>1 DEF Prepare, Call
  <2>3. ~c.inLong
    BY <1>9 DEF Prepare
  <2>4. IF c.session = 0 THEN Len(c.op) < MaxCalls
        ELSE ~c.op[c.session].removed /\ Idle(c, c.session)
    <3>1. c.session = 0 => Used < MaxCalls
      BY <1>9 DEF Prepare, CallsLeft
    <3>2. c.session # 0 => ~c.op[c.session].removed /\ Idle(c, c.session)
      BY <1>9 DEF Prepare
    <3> QED
      BY <1>2, <3>1, <3>2
  <2>5. Kept(c, u, peer.prep)
    BY <1>1, <2>1, <2>3, <2>4, PrepareWriteKeeps
  <2> QED
    BY <2>2, <2>5, OpCall
<1>10. CASE Execute
  <2>1. PICK u : u = Send(c, "exec", c.session, 1, "exec")
    OBVIOUS
  <2>2. c' = u /\ peer' = peer
    BY <1>10, <2>1 DEF Execute, Call
  <2>3. /\ ~c.inLong /\ c.session # 0
        /\ ~c.op[c.session].removed /\ Idle(c, c.session)
    BY <1>10 DEF Execute
  <2>4. Kept(c, u, peer.prep)
    BY <1>1, <2>1, <2>3, ExecuteKeeps
  <2> QED
    BY <2>2, <2>4, OpCall
<1>11. ASSUME NEW j \in DOMAIN c.op, Cancel(j) PROVE Inv'
  <2>1. PICK u : u = CancelRequest(c, j)
    OBVIOUS
  <2>2. c' = u /\ peer' = peer
    BY <1>11, <2>1 DEF Cancel, Call
  <2>3. /\ c.op[j].told = "none" /\ ~c.op[j].removed
        /\ c.op[j].kind = "session" => Idle(c, j)
    BY <1>11 DEF Cancel
  <2>4. Kept(c, u, peer.prep)
    BY <1>1, <2>1, <2>3, CancelKeeps
  <2> QED
    BY <2>2, <2>4, OpCall
<1>12. ASSUME NEW res \in {"ok", "err", "bad", "none"}, Answer(res) PROVE Inv'
  BY <1>12, AnswerKeeps
<1>13. CASE Disconnect
  BY <1>13, DisconnectKeeps
<1>14. CASE DiscAttSendOp
  BY <1>14, DiscAttSendOpKeeps
<1>15. CASE UNCHANGED vars
  BY <1>15 DEF vars, Inv
<1>16. ASSUME NEW len \in ValueLens, Read("readlong", len) PROVE Inv'
  BY <1>8, <1>16, ClientAssumption
<1>17. ASSUME Read("simple", 0) PROVE Inv'
  BY <1>8, <1>17
<1> QED
  BY <1>5, <1>6, <1>7, <1>9, <1>10, <1>11, <1>12, <1>13, <1>14, <1>15, <1>16, <1>17
  DEF Next

(* The invariant holds in every state of the client. *)
LEMMA InvHolds == Spec => []Inv
<1>1. Init => Inv
  BY InitInv
<1>2. Inv /\ [Next]_vars => Inv'
  BY InvNext
<1> QED
  BY <1>1, <1>2, PTL DEF Spec
-----------------------------------------------------------------------------
(* The theorems *)

LEMMA TypesHold ==
    ASSUME Inv
    PROVE  TypeOK
<1>1. /\ c \in Client /\ RegInv(c, peer.ccc) /\ OpInv(c, peer.prep)
      /\ peer \in [ccc : BOOLEAN, prep : Seq(Nat \X Int)]
  BY DEF Inv
<1>2. MaxCalls \in Nat
  BY ClientAssumption
<1>3. \A f \in {"open", "hasCcc", "can", "writing", "inLong", "crashed", "leak",
                "stuck", "overlap", "mixed"} : c[f] \in BOOLEAN
  BY <1>1 DEF Client
<1>4. c.reg \in Seq([listed : BOOLEAN, att : BOOLEAN,
                     told : {"none", "ok", "error", "refused"}, guess : BOOLEAN])
  BY <1>1 DEF Client, Registration
<1>5. c.count \in 0 .. MaxCalls
  <2>1. c.count \in Nat /\ c.reg \in Seq(Registration)
    BY <1>1 DEF Client
  <2>2. PICK n \in Nat : n = Len(c.reg)
    BY <2>1
  <2>3. c.count <= n /\ n <= MaxCalls
    BY <1>1, <2>2 DEF RegInv, Counted
  <2> QED
    BY <1>2, <2>1, <2>2, <2>3
<1>6. ASSUME NEW q \in Seq(Nat), NEW D, \A x \in ToSet(q) : x \in D
      PROVE  q \in Seq(D)
  <2>1. Len(q) \in Nat /\ DOMAIN q = 1 .. Len(q) /\ q = [i \in 1 .. Len(q) |-> q[i]]
    OBVIOUS
  <2>2. \A i \in 1 .. Len(q) : q[i] \in D
    BY <1>6, <2>1 DEF ToSet
  <2> QED
    BY <2>1, <2>2
<1>7. c.regQ \in Seq(DOMAIN c.reg) /\ c.longQ \in Seq(DOMAIN c.op)
  <2>1. c.regQ \in Seq(Nat) /\ c.longQ \in Seq(Nat)
    BY <1>1 DEF Client
  <2>2. \A r \in ToSet(c.regQ) : r \in DOMAIN c.reg
    BY <1>1 DEF RegInv, RegWaits, RegQueued
  <2>3. \A j \in ToSet(c.longQ) : j \in DOMAIN c.op
    BY <1>1 DEF OpInv, OpWaits, OpQueued
  <2> QED
    BY <1>6, <2>1, <2>2, <2>3
<1>8. c.session \in 0 .. Len(c.op) /\ Len(c.op) <= MaxCalls
  <2>1. c.session \in Nat /\ c.op \in Seq(Operation)
    BY <1>1 DEF Client
  <2>2. PICK n \in Nat : n = Len(c.op) /\ DOMAIN c.op = 1 .. n
    BY <2>1
  <2>3. /\ c.session # 0 => c.session \in DOMAIN c.op
        /\ Len(c.op) <= MaxCalls
    BY <1>1 DEF OpInv, OpWaits
  <2> QED
    BY <2>1, <2>2, <2>3
<1>9. \A j \in DOMAIN c.op : c.op[j].told \in {"none", "ok", "fail", "withdrawn"}
  <2>1. \A j \in DOMAIN c.op : c.op[j] \in Operation
    BY <1>1 DEF Client
  <2> QED
    BY <2>1 DEF Operation
<1>10. peer.ccc \in BOOLEAN
  BY <1>1
<1> QED
  BY <1>3, <1>4, <1>5, <1>7, <1>8, <1>9, <1>10 DEF TypeOK

(* In every reachable state of gatt-client.c the types hold (each request  *)
(* is told one result) and, unless a write of the CCC was cancelled or a   *)
(* disabling was sent over another, at most one write of the CCC is in the *)
(* queue of att.c and assert(ccc_write_id) has not failed.                 *)
THEOREM OneCccWriteHolds == Spec => []OneCccWrite
<1>1. ASSUME Inv PROVE OneCccWrite
  <2>1. TypeOK
    BY <1>1, TypesHold
  <2>2. ASSUME ~c.stuck, ~c.overlap
        PROVE  ~c.crashed /\ \A i, k \in Ccc(c.wire) : i = k
    BY <1>1, <2>2 DEF Inv, RegInv, OneWrite
  <2>3. ASSUME NEW S, \A i, k \in S : i = k PROVE Cardinality(S) <= 1
    <3>1. CASE S = {}
      BY <3>1, FS_EmptySet
    <3>2. CASE S # {}
      <4>1. PICK i : i \in S
        BY <3>2
      <4>2. S = {i}
        BY <2>3, <4>1
      <4>3. Cardinality({i}) = 1
        BY FS_Singleton
      <4> QED
        BY <4>2, <4>3
    <3> QED
      BY <3>1, <3>2
  <2> QED
    BY <2>1, <2>2, <2>3 DEF OneCccWrite, Ccc
<1> QED
  BY <1>1, InvHolds, PTL

(* A registration that is still listed and was told success by an answer   *)
(* to a write of the CCC, or by a notify_count that is right, gets the     *)
(* notifications: the CCC of the peer is set, whatever was registered,     *)
(* withdrawn, refused, cancelled and answered before and after, also by    *)
(* the paths of register_notify() and enable_ccc_callback() that leave the *)
(* count too high.  Left out are who was told by such a count, and what    *)
(* follows two disablings under way at once.                               *)
THEOREM ToldMeansEnabledHolds == Spec => []ToldMeansEnabled
<1>1. ASSUME Inv PROVE ToldMeansEnabled
  <2> SUFFICES ASSUME c.open, c.hasCcc, ~c.overlap, NEW r \in DOMAIN c.reg,
                      c.reg[r].listed, c.reg[r].told = "ok", ~c.reg[r].guess
               PROVE  peer.ccc
    BY DEF ToldMeansEnabled
  <2>1. r \in Listed(c)
    BY DEF Listed
  <2>2. CASE c.leak \/ c.stuck
    <3>1. Off(c) /\ Knows(c, r)
      BY <2>2 DEF Off, Knows
    <3> QED
      BY <1>1, <2>1, <3>1 DEF Inv, RegInv, Lasting
  <2>3. CASE ~(c.leak \/ c.stuck)
    <3>1. Plain(c)
      BY <2>3 DEF Plain
    <3>2. /\ c.count = Cardinality(Listed(c))
          /\ ~c.writing /\ c.count # 0 => peer.ccc
          /\ ~c.writing
      BY <1>1, <2>1, <3>1 DEF Inv, RegInv, Enabled
    <3>3. Cardinality(Listed(c)) # 0
      <4>1. c \in Client
        BY <1>1 DEF Inv
      <4>2. IsFiniteSet(Listed(c))
        BY <4>1, ListedFinite
      <4> QED
        BY <2>1, <4>2, FS_EmptySet
    <3> QED
      BY <3>2, <3>3
  <2> QED
    BY <2>2, <2>3
<1> QED
  BY <1>1, InvHolds, PTL

(* A long read that is reported as a success has the whole value up to     *)
(* BT_ATT_MAX_VALUE_LEN, and a long write that is reported as a success    *)
(* was executed by the peer with all its chunks in their order and nothing *)
(* else, for any number of chunks, any MTU and any calls between them.     *)
THEOREM LongWholeHolds == Spec => []LongWhole
<1>1. ASSUME Inv PROVE LongWhole
  <2> SUFFICES ASSUME NEW j \in DOMAIN c.op, c.op[j].told = "ok"
               PROVE  LET d == c.op[j]
                          place(x) == <<x[1], IF x[2] < 0 THEN -x[2] ELSE x[2]>>
                          got == [i \in DOMAIN d.wrote |->
                                    IF d.reliable THEN d.wrote[i]
                                    ELSE place(d.wrote[i])]
                      IN  /\ d.kind = "readlong" =>
                                d.idx = IF d.len < MaxValueLen THEN d.len
                                        ELSE MaxValueLen
                          /\ d.kind = "long" /\ ~c.mixed =>
                                got = [i \in 1 .. NChunks |-> <<j, i>>]
    BY DEF LongWhole
  <2>1. PICK d : d = c.op[j]
    OBVIOUS
  <2>2. WholeOp(d, j, c.mixed) /\ d \in Operation
    BY <1>1, <2>1 DEF Inv, OpInv, Whole, Client
  <2> DEFINE place(x) == <<x[1], IF x[2] < 0 THEN -x[2] ELSE x[2]>>
             got == [i \in DOMAIN d.wrote |->
                       IF d.reliable THEN d.wrote[i] ELSE place(d.wrote[i])]
  <2>3. ASSUME d.kind = "long", ~c.mixed
        PROVE  got = [i \in 1 .. NChunks |-> <<j, i>>]
    <3>1. Placed(d, j, d.wrote, NChunks)
      BY <2>2, <2>3 DEF WholeOp
    <3>2. PICK s \in Seq(Nat \X Int) : s = d.wrote
      BY <2>2 DEF Operation
    <3>3. DOMAIN s = 1 .. NChunks
      BY <3>1, <3>2 DEF Placed
    <3>4. ASSUME NEW i \in 1 .. NChunks
          PROVE  (IF d.reliable THEN s[i] ELSE place(s[i])) = <<j, i>>
      <4>1. s[i] = <<j, i>> \/ (~d.reliable /\ s[i] = <<j, -i>>)
        BY <3>1, <3>2 DEF Placed
      <4>2. i \in Int /\ i > 0 /\ ~(i < 0) /\ -i < 0 /\ -(-i) = i
        BY ClientAssumption
      <4>3. CASE s[i] = <<j, i>>
        BY <4>2, <4>3
      <4>4. CASE ~d.reliable /\ s[i] = <<j, -i>>
        BY <4>2, <4>4
      <4> QED
        BY <4>1, <4>3, <4>4
    <3> QED
      BY <3>2, <3>3, <3>4
  <2>4. d.kind = "readlong" =>
           d.idx = IF d.len < MaxValueLen THEN d.len ELSE MaxValueLen
    BY <2>2 DEF WholeOp
  <2> QED
    BY <2>1, <2>3, <2>4
<1> QED
  BY <1>1, InvHolds, PTL
=============================================================================
