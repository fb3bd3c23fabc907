---------------------------- MODULE RuntimeProofs ----------------------------
(***************************************************************************)
(* A compiled program's run.  On the host it keeps ReactorInv, for every   *)
(* bound: the reactor's count, its waiting reads, its deliveries and the   *)
(* program's wake table agree; no item and no wake is lost, and a deadlock *)
(* is real.  Among its own tasks a channel wakes whoever could go on, and  *)
(* a cleanup's deadline never moves.                                       *)
(***************************************************************************)
EXTENDS HostRun, TimedChannel, FiniteSetTheorems, SequenceTheorems, TLAPS

-----------------------------------------------------------------------------
(***************************************************************************)
(* The waiting reads, a sequence in ascending order.                       *)
(***************************************************************************)

Sorted(s) == \A i, j \in DOMAIN s : i < j => s[i] < s[j]

LEMMA SeqFacts ==
  ASSUME NEW S, NEW s \in Seq(S)
  PROVE  /\ DOMAIN s = 1 .. Len(s) /\ Len(s) \in Nat
         /\ Range(s) = {s[i] : i \in 1 .. Len(s)} /\ Range(s) \subseteq S
  BY DEF Range

\* No two reads are the same.
LEMMA SortedApart ==
  ASSUME NEW s \in Seq(Nat), Sorted(s), NEW i \in DOMAIN s, NEW j \in DOMAIN s, s[i] = s[j]
  PROVE  i = j
  <1>1. i \in Nat /\ j \in Nat /\ s[i] \in Nat
    BY SeqFacts
  <1>2. ~ (i < j) /\ ~ (j < i)
    BY <1>1 DEF Sorted
  <1> QED
    BY <1>1, <1>2

\* What is left when the first n reads are served.
LEMMA ServedRest ==
  ASSUME NEW s \in Seq(Nat), Sorted(s), NEW n \in 0 .. Len(s)
  PROVE  LET t == SubSeq(s, n + 1, Len(s)) IN
         /\ t \in Seq(Nat) /\ Sorted(t)
         /\ Range(t) = {s[i] : i \in n + 1 .. Len(s)}
  <1> DEFINE t == SubSeq(s, n + 1, Len(s))
             k == Len(s)
  <1>0. k \in Nat /\ n \in Nat /\ n <= k /\ DOMAIN s = 1 .. k /\ \A i \in 1 .. k : s[i] \in Nat
    BY SeqFacts
  <1>1. /\ t \in Seq(Nat) /\ Len(t) = IF n + 1 <= k THEN k - (n + 1) + 1 ELSE 0
        /\ \A i \in 1 .. k - (n + 1) + 1 : t[i] = s[(n + 1) + i - 1]
    <2>1. \A i \in n + 1 .. k : s[i] \in Nat
      BY <1>0
    <2> QED
      BY <1>0, <2>1, SubSeqProperties
  <1> HIDE DEF t, k
  <1>2. Len(t) = k - n
    <2> DEFINE m == Len(t)
    <2>1. m = IF n + 1 <= k THEN k - (n + 1) + 1 ELSE 0
      BY <1>1
    <2> HIDE DEF m
    <2>2. m = k - n
      BY <1>0, <2>1
    <2> QED
      BY <2>2 DEF m
  <1>3. \A i \in 1 .. k - n : t[i] = s[n + i]
    <2> SUFFICES ASSUME NEW i \in 1 .. k - n PROVE t[i] = s[n + i]
      OBVIOUS
    <2>1. i \in 1 .. k - (n + 1) + 1 /\ (n + 1) + i - 1 = n + i
      BY <1>0
    <2> QED
      BY <1>1, <2>1
  <1>4. DOMAIN t = 1 .. k - n /\ Range(t) = {t[i] : i \in 1 .. k - n}
    BY <1>1, <1>2, SeqFacts
  <1>5. Range(t) = {s[i] : i \in n + 1 .. k}
    <2>1. \A i \in 1 .. k - n : n + i \in n + 1 .. k
      BY <1>0
    <2>2. \A i \in n + 1 .. k : i - n \in 1 .. k - n /\ n + (i - n) = i
      BY <1>0
    <2> QED
      BY <1>3, <1>4, <2>1, <2>2
  <1>6. Sorted(t)
    <2> SUFFICES ASSUME NEW i \in 1 .. k - n, NEW j \in 1 .. k - n, i < j PROVE t[i] < t[j]
      BY <1>4 DEF Sorted
    <2>1. n + i \in 1 .. k /\ n + j \in 1 .. k /\ n + i < n + j
      BY <1>0
    <2>2. s[n + i] < s[n + j]
      BY <1>0, <2>1 DEF Sorted
    <2> QED
      BY <1>3, <2>2
  <1> QED
    BY <1>1, <1>5, <1>6 DEF t, k

\* The place of a read among those that wait.
LEMMA PlaceIs ==
  ASSUME NEW s \in Seq(Nat), Sorted(s), NEW h
  PROVE  /\ Place(s, h) \in 0 .. Len(s)
         /\ Place(s, h) # 0 => s[Place(s, h)] = h
         /\ \A i \in 1 .. Len(s) : s[i] = h => Place(s, h) = i
  <1> DEFINE I == {i \in 1 .. Len(s) : s[i] = h}
             p == Place(s, h)
  <1>1. p = IF I # {} THEN Min(I) ELSE 0
    BY DEF Place, SelectInSeq
  <1>2. Len(s) \in Nat /\ DOMAIN s = 1 .. Len(s)
    BY SeqFacts
  <1>3. CASE I = {}
    <2>1. p = 0 /\ 0 \in 0 .. Len(s) /\ \A i \in 1 .. Len(s) : s[i] # h
      BY <1>1, <1>2, <1>3
    <2> QED
      BY <2>1
  <1>4. CASE I # {}
    <2>1. PICK i \in 1 .. Len(s) : s[i] = h
      BY <1>4
    <2>2. I = {i}
      BY <1>2, <2>1, SortedApart
    <2>3. i \in Int
      BY <1>2
    <2>4. Min({i}) = i
      BY <2>3 DEF Min
    <2>5. p = i
      BY <1>1, <1>4, <2>2, <2>4
    <2> HIDE DEF p
    <2>6. p \in 0 .. Len(s)
      BY <1>2, <2>1, <2>5
    <2>7. \A j \in 1 .. Len(s) : s[j] = h => p = j
      BY <2>2, <2>5
    <2> QED
      BY <2>1, <2>5, <2>6, <2>7 DEF p
  <1> QED
    BY <1>3, <1>4

\* A read that ends waits no more, and the others keep their order.
LEMMA RemoveRead ==
  ASSUME NEW s \in Seq(Nat), Sorted(s), NEW h
  PROVE  LET t == RemoveFirst(s, h) IN
         t \in Seq(Nat) /\ Sorted(t) /\ Range(t) = Range(s) \ {h}
  <1> DEFINE k == Len(s)
             p == Place(s, h)
  <1>1. /\ k \in Nat /\ DOMAIN s = 1 .. k /\ Range(s) = {s[i] : i \in 1 .. k}
        /\ \A i \in 1 .. k : s[i] \in Nat
    BY SeqFacts
  <1>2. CASE ~ \E i \in 1 .. k : s[i] = h
    <2>1. RemoveFirst(s, h) = s
      BY <1>2 DEF RemoveFirst
    <2> QED
      BY <1>1, <1>2, <2>1
  <1>3. CASE \E i \in 1 .. k : s[i] = h
    <2> DEFINE a == SubSeq(s, 1, p - 1)
               b == SubSeq(s, p + 1, k)
               t == a \o b
    <2>1. p \in 1 .. k /\ s[p] = h
      <3>1. /\ p \in 0 .. k /\ \A i \in 1 .. k : s[i] = h => p = i
        BY PlaceIs
      <3> QED
        BY <1>3, <3>1
    <2>2. RemoveFirst(s, h) = t
      BY <1>3 DEF RemoveFirst, RemoveAt, Place
    <2> HIDE DEF p
    <2>3. /\ a \in Seq(Nat) /\ Len(a) = p - 1 /\ \A i \in 1 .. p - 1 : a[i] = s[i]
      <3>1. \A i \in 1 .. p - 1 : s[i] \in Nat
        BY <1>1, <2>1
      <3>2. /\ a \in Seq(Nat) /\ Len(a) = IF 1 <= p - 1 THEN (p - 1) - 1 + 1 ELSE 0
            /\ \A i \in 1 .. (p - 1) - 1 + 1 : a[i] = s[1 + i - 1]
        BY <1>1, <2>1, <3>1, SubSeqProperties
      <3> HIDE DEF a
      <3>3. Len(a) = p - 1
        <4> DEFINE m == Len(a)
        <4>1. m = IF 1 <= p - 1 THEN (p - 1) - 1 + 1 ELSE 0
          BY <3>2
        <4> HIDE DEF m
        <4>2. m = p - 1
          BY <1>1, <2>1, <4>1
        <4> QED
          BY <4>2 DEF m
      <3>4. \A i \in 1 .. p - 1 : i \in 1 .. (p - 1) - 1 + 1 /\ 1 + i - 1 = i
        BY <1>1, <2>1
      <3> QED
        BY <3>2, <3>3, <3>4
    <2>4. /\ b \in Seq(Nat) /\ Len(b) = k - p /\ \A i \in 1 .. k - p : b[i] = s[p + i]
      <3>1. \A i \in p + 1 .. k : s[i] \in Nat
        BY <1>1, <2>1
      <3>2. /\ b \in Seq(Nat) /\ Len(b) = IF p + 1 <= k THEN k - (p + 1) + 1 ELSE 0
            /\ \A i \in 1 .. k - (p + 1) + 1 : b[i] = s[(p + 1) + i - 1]
        BY <1>1, <2>1, <3>1, SubSeqProperties
      <3> HIDE DEF b
      <3>3. Len(b) = k - p
        <4> DEFINE m == Len(b)
        <4>1. m = IF p + 1 <= k THEN k - (p + 1) + 1 ELSE 0
          BY <3>2
        <4> HIDE DEF m, k
        <4>2. m = k - p
          BY <1>1, <2>1, <4>1
        <4> QED
          BY <4>2 DEF m
      <3> HIDE DEF k
      <3>4. \A i \in 1 .. k - p : i \in 1 .. k - (p + 1) + 1 /\ (p + 1) + i - 1 = p + i
        BY <1>1, <2>1
      <3> QED
        BY <3>2, <3>3, <3>4
    <2> HIDE DEF a, b, k
    <2>5. /\ t \in Seq(Nat) /\ Len(t) = Len(a) + Len(b)
          /\ \A i \in 1 .. Len(a) + Len(b) : t[i] = IF i <= Len(a) THEN a[i] ELSE b[i - Len(a)]
      BY <2>3, <2>4, ConcatProperties
    <2> HIDE DEF t
    <2>6. \A i \in 1 .. k - 1 : t[i] = IF i < p THEN s[i] ELSE s[i + 1]
      <3> SUFFICES ASSUME NEW i \in 1 .. k - 1
                   PROVE  t[i] = IF i < p THEN s[i] ELSE s[i + 1]
        OBVIOUS
      <3>1. i \in 1 .. (p - 1) + (k - p)
        BY <1>1, <2>1
      <3>2. t[i] = IF i <= p - 1 THEN a[i] ELSE b[i - (p - 1)]
        BY <2>3, <2>4, <2>5, <3>1
      <3>3. CASE i < p
        <4>1. i <= p - 1 /\ i \in 1 .. p - 1
          BY <1>1, <2>1, <3>3
        <4> QED
          BY <2>3, <3>2, <3>3, <4>1
      <3>4. CASE ~ (i < p)
        <4>1. ~ (i <= p - 1) /\ i - (p - 1) \in 1 .. k - p /\ p + (i - (p - 1)) = i + 1
          BY <1>1, <2>1, <3>4
        <4> QED
          BY <2>4, <3>2, <3>4, <4>1
      <3> QED
        BY <3>3, <3>4
    <2>7. DOMAIN t = 1 .. k - 1 /\ Range(t) = {t[i] : i \in 1 .. k - 1}
      <3>1. (p - 1) + (k - p) = k - 1
        BY <1>1, <2>1
      <3> QED
        BY <2>3, <2>4, <2>5, <3>1, SeqFacts
    <2>8. Sorted(t)
      <3> SUFFICES ASSUME NEW i \in 1 .. k - 1, NEW j \in 1 .. k - 1, i < j PROVE t[i] < t[j]
        BY <2>7 DEF Sorted
      <3> DEFINE x == IF i < p THEN i ELSE i + 1
                 y == IF j < p THEN j ELSE j + 1
      <3>1. x \in 1 .. k /\ y \in 1 .. k /\ x < y
        BY <1>1, <2>1
      <3>2. s[x] < s[y]
        BY <1>1, <3>1 DEF Sorted
      <3>3. t[i] = s[x] /\ t[j] = s[y]
        BY <2>6
      <3> QED
        BY <3>2, <3>3
    <2>9. Range(t) = Range(s) \ {h}
      <3>1. \A i \in 1 .. k : s[i] = h => i = p
        BY <1>1, <2>1, SortedApart
      <3>2. ASSUME NEW i \in 1 .. k - 1 PROVE t[i] \in Range(s) \ {h}
        <4> DEFINE x == IF i < p THEN i ELSE i + 1
        <4>1. x \in 1 .. k /\ x # p
          BY <1>1, <2>1
        <4>2. t[i] = s[x]
          BY <2>6
        <4> HIDE DEF x
        <4> QED
          BY <1>1, <3>1, <4>1, <4>2
      <3>3. ASSUME NEW i \in 1 .. k, s[i] # h PROVE s[i] \in Range(t)
        <4> DEFINE x == IF i < p THEN i ELSE i - 1
        <4>1. x \in 1 .. k - 1 /\ (IF x < p THEN x ELSE x + 1) = i
          BY <1>1, <2>1, <3>3
        <4>2. t[x] = s[i]
          BY <2>6, <4>1
        <4> HIDE DEF x
        <4> QED
          BY <2>7, <4>1, <4>2
      <3> QED
        BY <1>1, <2>7, <3>2, <3>3
    <2> QED
      BY <2>2, <2>5, <2>8, <2>9
  <1> QED
    BY <1>2, <1>3
-----------------------------------------------------------------------------
(***************************************************************************)
(* The reactor's operators: what serve and take_delivered return.          *)
(***************************************************************************)

InputType == [buffered : Seq(Int), ended : BOOLEAN, asked : BOOLEAN, lines : Nat]

\* The reads of os that wait.
Waiting(os) == {h \in DOMAIN os : os[h].kind = "read" /\ os[h].at = "pending"}

LEMMA OpAt ==
  ASSUME NEW o \in Op, NEW a \in OpStates
  PROVE  /\ [o EXCEPT !.at = a] = [kind |-> o.kind, at |-> a, val |-> o.val]
         /\ [kind |-> o.kind, at |-> a, val |-> o.val] \in Op
  <1>1. o = [kind |-> o.kind, at |-> o.at, val |-> o.val]
        /\ o.kind \in {"gone", "sleep", "io", "read"} /\ o.at \in OpStates /\ o.val \in Int
    BY DEF Op
  <1> QED
    BY <1>1 DEF Op

LEMMA OpWith ==
  ASSUME NEW o \in Op, NEW a \in OpStates, NEW v \in Int
  PROVE  /\ [o EXCEPT !.at = a, !.val = v] = [kind |-> o.kind, at |-> a, val |-> v]
         /\ [o EXCEPT !.val = v, !.at = a] = [kind |-> o.kind, at |-> a, val |-> v]
         /\ [kind |-> o.kind, at |-> a, val |-> v] \in Op
  <1>1. o = [kind |-> o.kind, at |-> o.at, val |-> o.val]
        /\ o.kind \in {"gone", "sleep", "io", "read"} /\ o.at \in OpStates /\ o.val \in Int
    BY DEF Op
  <1> DEFINE p == [o EXCEPT !.at = a]
             q == [o EXCEPT !.val = v]
  <1>2. p = [kind |-> o.kind, at |-> a, val |-> o.val]
    BY <1>1
  <1>3. q = [kind |-> o.kind, at |-> o.at, val |-> v]
    BY <1>1
  <1>4. [o EXCEPT !.at = a, !.val = v] = [p EXCEPT !.val = v]
    BY <1>1
  <1>5. [o EXCEPT !.val = v, !.at = a] = [q EXCEPT !.at = a]
    BY <1>1
  <1> HIDE DEF p, q
  <1>6. [p EXCEPT !.val = v] = [kind |-> o.kind, at |-> a, val |-> v]
    BY <1>2
  <1>7. [q EXCEPT !.at = a] = [kind |-> o.kind, at |-> a, val |-> v]
    BY <1>3
  <1> QED
    BY <1>1, <1>4, <1>5, <1>6, <1>7 DEF Op

LEMMA InputWith ==
  ASSUME NEW in \in InputType, NEW c, NEW a
  PROVE  [in EXCEPT !.buffered = c, !.asked = a]
           = [buffered |-> c, ended |-> in.ended, asked |-> a, lines |-> in.lines]
  <1> DEFINE p == [in EXCEPT !.buffered = c]
  <1>1. in = [buffered |-> in.buffered, ended |-> in.ended, asked |-> in.asked, lines |-> in.lines]
    BY DEF InputType
  <1>2. p = [buffered |-> c, ended |-> in.ended, asked |-> in.asked, lines |-> in.lines]
    BY <1>1
  <1>3. [in EXCEPT !.buffered = c, !.asked = a] = [p EXCEPT !.asked = a]
    BY <1>1
  <1> HIDE DEF p
  <1>4. [p EXCEPT !.asked = a] = [buffered |-> c, ended |-> in.ended, asked |-> a, lines |-> in.lines]
    BY <1>2
  <1> QED
    BY <1>3, <1>4

LEMMA MinOfTwo ==
  ASSUME NEW x \in Int, NEW y \in Int
  PROVE  Min({x, y}) = IF x <= y THEN x ELSE y
  <1>1. CASE x <= y
    <2>1. x \in {x, y} /\ \A z \in {x, y} : x <= z
      BY <1>1
    <2>2. \A w \in {x, y} : (\A z \in {x, y} : w <= z) => w = x
      BY <2>1
    <2> QED
      BY <1>1, <2>1, <2>2 DEF Min
  <1>2. CASE ~ (x <= y)
    <2>1. y \in {x, y} /\ \A z \in {x, y} : y <= z
      BY <1>2
    <2>2. \A w \in {x, y} : (\A z \in {x, y} : w <= z) => w = y
      BY <2>1
    <2> QED
      BY <1>2, <2>1, <2>2 DEF Min
  <1> QED
    BY <1>1, <1>2

\* A function over the indices of a sequence is a sequence.
LEMMA SeqLike ==
  ASSUME NEW S, NEW s \in Seq(S), NEW t,
         t = [i \in DOMAIN s |-> t[i]], \A i \in DOMAIN s : t[i] \in S
  PROVE  t \in Seq(S) /\ DOMAIN t = DOMAIN s /\ Len(t) = Len(s)
  <1>1. DOMAIN s = 1 .. Len(s) /\ Len(s) \in Nat
    BY SeqFacts
  <1>2. t \in [1 .. Len(s) -> S]
    BY <1>1
  <1>3. t \in Seq(S)
    BY <1>1, <1>2
  <1> QED
    BY <1>1, <1>2, <1>3

\* serve gives the oldest reads a result and changes no other operation; the
\* reads still pending are the ones that still wait.
LEMMA ServedIs ==
  ASSUME NEW os \in Seq(Op), NEW rs \in Seq(Nat), NEW in \in InputType,
         Sorted(rs), Range(rs) = Waiting(os)
  PROVE  LET s == Served(os, rs, in) IN
         /\ s.ops \in Seq(Op) /\ DOMAIN s.ops = DOMAIN os /\ Len(s.ops) = Len(os)
         /\ s.reads \in Seq(Nat) /\ Sorted(s.reads) /\ Range(s.reads) = Waiting(s.ops)
         /\ s.input \in InputType
         /\ \A h \in DOMAIN os : \/ s.ops[h] = os[h]
                                 \/ h \in Waiting(os) /\ s.ops[h].kind = "read" /\ s.ops[h].at = "taken"
  <1> DEFINE k == Len(rs)
             b == in.buffered
             n == IF in.ended THEN Len(rs) ELSE Min({Len(rs), Len(in.buffered)})
             answer(i) == IF i <= Len(in.buffered) THEN in.buffered[i] ELSE EndOfInput
             t == [h \in DOMAIN os |-> IF Place(rs, h) \in 1 .. n
                     THEN [os[h] EXCEPT !.at = "taken", !.val = answer(Place(rs, h))] ELSE os[h]]
             rest == SubSeq(rs, n + 1, Len(rs))
             left == [in EXCEPT !.buffered = SubSeq(in.buffered, n + 1, Len(in.buffered)),
                                !.asked = in.asked \/ (n < Len(rs) /\ ~ in.ended)]
  <1>1. Served(os, rs, in) = [ops |-> t, reads |-> rest, input |-> left]
    BY DEF Served
  <1>2. /\ k \in Nat /\ Len(b) \in Nat /\ in.ended \in BOOLEAN /\ in.asked \in BOOLEAN /\ in.lines \in Nat
        /\ b \in Seq(Int) /\ \A i \in 1 .. Len(b) : b[i] \in Int
        /\ in = [buffered |-> b, ended |-> in.ended, asked |-> in.asked, lines |-> in.lines]
    <2>1. b \in Seq(Int) /\ in.ended \in BOOLEAN /\ in.asked \in BOOLEAN /\ in.lines \in Nat
          /\ in = [buffered |-> b, ended |-> in.ended, asked |-> in.asked, lines |-> in.lines]
      BY DEF InputType
    <2>2. k \in Nat /\ Len(b) \in Nat /\ \A i \in 1 .. Len(b) : b[i] \in Int
      BY <2>1, SeqFacts
    <2> QED
      BY <2>1, <2>2
  <1>3. n \in 0 .. k
    <2>1. CASE in.ended
      BY <1>2, <2>1
    <2>2. CASE ~ in.ended
      <3>1. n = IF k <= Len(b) THEN k ELSE Len(b)
        <4> DEFINE y == Len(b)
        <4>1. k \in Int /\ y \in Int /\ n = Min({k, y})
          BY <1>2, <2>2
        <4> HIDE DEF k, y, n
        <4>2. n = IF k <= y THEN k ELSE y
          BY <4>1, MinOfTwo
        <4> QED
          BY <4>2 DEF y
      <3> QED
        BY <1>2, <3>1
    <2> QED
      BY <2>1, <2>2
  <1>4. \A i \in 1 .. n : answer(i) \in Int
    <2>1. \A i \in 1 .. n : i <= Len(b) => i \in 1 .. Len(b)
      BY <1>2, <1>3
    <2> QED
      BY <1>2, <2>1 DEF EndOfInput
  <1>5. left \in InputType
    <2> DEFINE c == SubSeq(b, n + 1, Len(b))
               a == in.asked \/ (n < Len(rs) /\ ~ in.ended)
    <2>1. c \in Seq(Int)
      <3> DEFINE z == Len(b)
      <3>0. z \in Nat
        BY <1>2
      <3>1. \A i \in n + 1 .. z : b[i] \in Int
        BY <1>2, <1>3
      <3>2. n + 1 \in Int /\ z \in Int
        BY <1>2, <1>3
      <3> HIDE DEF z, n, b
      <3>3. SubSeq(b, n + 1, z) \in Seq(Int)
        BY <3>1, <3>2, SubSeqProperties
      <3> QED
        BY <3>3 DEF z
    <2>2. a \in BOOLEAN
      BY <1>2
    <2> HIDE DEF c, a, b, n
    <2>5. [in EXCEPT !.buffered = c, !.asked = a]
            = [buffered |-> c, ended |-> in.ended, asked |-> a, lines |-> in.lines]
      BY <1>2, InputWith
    <2>6. left = [in EXCEPT !.buffered = c, !.asked = a]
      BY DEF c, a, b
    <2> QED
      BY <1>2, <2>1, <2>2, <2>5, <2>6 DEF InputType
  <1>6. rest \in Seq(Nat) /\ Sorted(rest) /\ Range(rest) = {rs[i] : i \in n + 1 .. k}
    BY <1>3, ServedRest
  <1> HIDE DEF answer, n, b, left, rest
  <1>7. \A h \in DOMAIN os : Place(rs, h) \in 1 .. n => h \in Waiting(os)
    <2>1. \A h : Place(rs, h) # 0 => rs[Place(rs, h)] = h
      BY PlaceIs
    <2>2. \A i \in 1 .. n : i # 0 /\ i \in 1 .. k
      BY <1>2, <1>3
    <2>3. \A i \in 1 .. k : rs[i] \in Waiting(os)
      BY SeqFacts
    <2> QED
      BY <2>1, <2>2, <2>3
  <1>8. \A h \in DOMAIN os : Place(rs, h) \in 1 .. n =>
          t[h].kind = os[h].kind /\ t[h].at = "taken" /\ t[h] \in Op
    <2> SUFFICES ASSUME NEW h \in DOMAIN os, Place(rs, h) \in 1 .. n
                 PROVE  t[h].kind = os[h].kind /\ t[h].at = "taken" /\ t[h] \in Op
      OBVIOUS
    <2> DEFINE o == os[h]
               v == answer(Place(rs, h))
    <2>1. o \in Op
      OBVIOUS
    <2>2. v \in Int /\ "taken" \in OpStates
      BY <1>4 DEF OpStates
    <2>3. t[h] = [o EXCEPT !.at = "taken", !.val = v]
      OBVIOUS
    <2> HIDE DEF o, v, t
    <2>4. /\ [o EXCEPT !.at = "taken", !.val = v] = [kind |-> o.kind, at |-> "taken", val |-> v]
          /\ [kind |-> o.kind, at |-> "taken", val |-> v] \in Op
      BY <2>1, <2>2, OpWith
    <2>5. t[h] = [kind |-> o.kind, at |-> "taken", val |-> v] /\ t[h] \in Op
      BY <2>3, <2>4
    <2> QED
      BY <2>5 DEF o
  <1>9. \A h \in DOMAIN os : Place(rs, h) \notin 1 .. n => t[h] = os[h]
    OBVIOUS
  <1>10. t = [h \in DOMAIN os |-> t[h]] /\ DOMAIN t = DOMAIN os
    OBVIOUS
  <1> HIDE DEF t
  <1>11. t \in Seq(Op) /\ Len(t) = Len(os)
    <2>1. \A h \in DOMAIN os : os[h] \in Op
      OBVIOUS
    <2>2. \A h \in DOMAIN os : t[h] \in Op
      BY <1>8, <1>9, <2>1
    <2> QED
      BY <1>10, <2>2, SeqLike
  <1>12. \A h \in DOMAIN os : \/ t[h] = os[h]
                              \/ h \in Waiting(os) /\ t[h].kind = "read" /\ t[h].at = "taken"
    BY <1>7, <1>8, <1>9 DEF Waiting
  <1>13. Range(rest) = Waiting(t)
    <2>1. ASSUME NEW i \in n + 1 .. k PROVE rs[i] \in Waiting(t)
      <3>1. i \in 1 .. k /\ ~ (i \in 1 .. n)
        BY <1>2, <1>3, <2>1
      <3>2. rs[i] \in Waiting(os) /\ Place(rs, rs[i]) = i
        BY <3>1, SeqFacts, PlaceIs
      <3> QED
        BY <1>9, <1>10, <3>1, <3>2 DEF Waiting
    <2>2. ASSUME NEW h \in Waiting(t) PROVE h \in Range(rest)
      <3>1. h \in DOMAIN os /\ t[h] = os[h] /\ h \in Waiting(os)
        BY <1>10, <1>12, <2>2 DEF Waiting
      <3>2. Place(rs, h) \notin 1 .. n
        BY <1>8, <2>2, <3>1 DEF Waiting
      <3>3. PICK i \in 1 .. k : rs[i] = h
        BY <3>1, SeqFacts
      <3>4. Place(rs, h) = i
        BY <3>3, PlaceIs
      <3>5. i \in n + 1 .. k
        BY <1>2, <1>3, <3>2, <3>3, <3>4
      <3> QED
        BY <1>6, <3>3, <3>5
    <2> QED
      BY <1>6, <2>1, <2>2
  <1> QED
    BY <1>1, <1>5, <1>6, <1>10, <1>11, <1>12, <1>13

-----------------------------------------------------------------------------
(***************************************************************************)
(* The operations of a state and their deliveries.                         *)
(***************************************************************************)

LEMMA OpsFacts ==
  ASSUME TypeOK
  PROVE  /\ Handles = 1 .. Len(ops) /\ Len(ops) \in Nat
         /\ \A h \in Handles : /\ ops[h] \in Op /\ ops[h].at \in OpStates /\ ops[h].val \in Int
                               /\ ops[h].kind \in {"gone", "sleep", "io", "read"}
                               /\ ops[h] = [kind |-> ops[h].kind, at |-> ops[h].at, val |-> ops[h].val]
         /\ IsFiniteSet(Handles) /\ IsFiniteSet(Uncompleted)
         /\ Cardinality(Uncompleted) \in Nat
  <1>1. ops \in Seq(Op)
    BY DEF TypeOK
  <1>2. Handles = 1 .. Len(ops) /\ Len(ops) \in Nat /\ \A h \in Handles : ops[h] \in Op
    BY <1>1, SeqFacts DEF Handles
  <1>3. IsFiniteSet(Handles)
    BY <1>2, FS_Interval
  <1>4. IsFiniteSet(Uncompleted)
    <2>1. Uncompleted \subseteq Handles
      BY DEF Uncompleted
    <2> QED
      BY <1>3, <2>1, FS_Subset
  <1> QED
    BY <1>2, <1>3, <1>4, FS_CardinalityType DEF Op

\* A delivery is the one result of an operation on the socket.
LEMMA DeliveredIs ==
  ASSUME TypeOK, DeliveriesInv, NEW h \in Handles, Delivered(h)
  PROVE  \E v \in Nat : /\ v # None /\ <<h, v>> \in inbox.done /\ Held(h) = {None, v}
                        /\ (CHOOSE w \in Held(h) : w # None) = v
                        /\ ops[h].kind = "io" /\ ops[h].at = "pending" /\ ops[h].val = None
  <1>1. PICK d \in inbox.done : d[1] = h
    BY DEF Delivered
  <1>2. inbox.done \subseteq Handles \X Nat
    BY DEF TypeOK
  <1>3. d = <<h, d[2]>> /\ d[2] \in Nat
    BY <1>1, <1>2
  <1>4. d[2] # None /\ ops[h].kind = "io" /\ ops[h].at = "pending" /\ ops[h].val = None
    BY <1>1 DEF DeliveriesInv
  <1>5. \A e \in inbox.done : e[1] = h => e = d
    BY <1>1 DEF DeliveriesInv
  <1>6. {e \in inbox.done : e[1] = h} = {d}
    BY <1>1, <1>5
  <1>7. Held(h) = {None, d[2]}
    BY <1>4, <1>6 DEF Held
  <1>8. (CHOOSE w \in Held(h) : w # None) = d[2]
    BY <1>4, <1>7
  <1> QED
    BY <1>1, <1>3, <1>4, <1>7, <1>8

LEMMA NotDelivered ==
  ASSUME NEW h, ~ Delivered(h)
  PROVE  Held(h) = {ops[h].val} /\ {e \in inbox.done : e[1] = h} = {}
  BY DEF Held, Delivered

LEMMA TailReads ==
  ASSUME NEW s \in Seq(Nat), Sorted(s), s # <<>>
  PROVE  /\ Head(s) \in Range(s)
         /\ Tail(s) \in Seq(Nat) /\ Sorted(Tail(s)) /\ Range(Tail(s)) = Range(s) \ {Head(s)}
  <1> DEFINE k == Len(s)
  <1>1. k \in Nat /\ DOMAIN s = 1 .. k /\ Range(s) = {s[i] : i \in 1 .. k}
    BY SeqFacts
  <1>2. k # 0
    BY EmptySeq
  <1>3. Head(s) = s[1] /\ Tail(s) = SubSeq(s, 2, k)
    BY TailIsSubSeq
  <1>4. 1 \in 0 .. k /\ 1 \in 1 .. k
    BY <1>1, <1>2
  <1>5. /\ SubSeq(s, 1 + 1, k) \in Seq(Nat) /\ Sorted(SubSeq(s, 1 + 1, k))
        /\ Range(SubSeq(s, 1 + 1, k)) = {s[i] : i \in 1 + 1 .. k}
    BY <1>4, ServedRest
  <1>6. {s[i] : i \in 2 .. k} = Range(s) \ {s[1]}
    <2>1. \A i \in 1 .. k : s[i] = s[1] => i = 1
      BY <1>1, <1>4, SortedApart
    <2> HIDE DEF k
    <2>2. \A i \in 1 .. k : i # 1 <=> i \in 2 .. k
      BY <1>1
    <2>3. \A i \in 2 .. k : i \in 1 .. k /\ i # 1
      BY <1>1
    <2> QED
      BY <1>1, <2>1, <2>2, <2>3
  <1>7. 1 + 1 = 2
    OBVIOUS
  <1>8. /\ SubSeq(s, 2, k) \in Seq(Nat) /\ Sorted(SubSeq(s, 2, k))
        /\ Range(SubSeq(s, 2, k)) = {s[i] : i \in 2 .. k}
    BY <1>5, <1>7
  <1>9. Head(s) \in Range(s)
    BY <1>1, <1>3, <1>4
  <1> HIDE DEF k
  <1> QED
    BY <1>3, <1>6, <1>8, <1>9

\* take_delivered: the reads that get a line, the end or an error, and the
\* operations with a delivery are taken; nothing else changes.
LEMMA TakenIs ==
  ASSUME TypeOK, ReadsWait, DeliveriesInv
  PROVE  LET t == TakeDelivered IN
         /\ t.ops \in Seq(Op) /\ DOMAIN t.ops = Handles /\ Len(t.ops) = Len(ops)
         /\ t.reads \in Seq(Nat) /\ Sorted(t.reads) /\ Range(t.reads) = Waiting(t.ops)
         /\ t.input \in InputType
         /\ \A h \in Handles :
              \/ t.ops[h] = ops[h] /\ ~ Delivered(h)
              \/ /\ h \in Waiting(ops) /\ t.ops[h].kind = "read" /\ t.ops[h].at = "taken"
                 /\ ~ Delivered(h)
              \/ /\ Delivered(h)
                 /\ t.ops[h] = [kind |-> "io", at |-> "taken",
                                val |-> CHOOSE v \in Held(h) : v # None]
  <1> DEFINE chunk == IF inbox.chunks = <<>> THEN None ELSE Head(inbox.chunks)
             in == [input EXCEPT !.asked = @ /\ chunk = None, !.ended = @ \/ chunk = EndOfInput,
                                 !.buffered = IF chunk > 0 THEN Append(@, chunk) ELSE @]
             os == [h \in Handles |-> IF ~ (Delivered(h) /\ ops[h].kind = "io") THEN ops[h]
                      ELSE [ops[h] EXCEPT !.at = "taken", !.val = CHOOSE v \in Held(h) : v # None]]
             err == [kind |-> "read", at |-> "taken", val |-> Failed]
             oe == [os EXCEPT ![Head(reads)] = err]
             t == TakeDelivered
  <1>1. t = IF chunk = Failed /\ reads # <<>> THEN Served(oe, Tail(reads), in) ELSE Served(os, reads, in)
    BY DEF TakeDelivered
  <1>2. in \in InputType
    <2>1. chunk \in Int
      <3>1. inbox.chunks \in Seq(Int)
        BY DEF TypeOK
      <3> QED
        BY <3>1 DEF None
    <2> HIDE DEF chunk
    <2> DEFINE a == input.asked /\ chunk = None
               e == input.ended \/ chunk = EndOfInput
               b == IF chunk > 0 THEN Append(input.buffered, chunk) ELSE input.buffered
               p == [input EXCEPT !.asked = a]
               q == [p EXCEPT !.ended = e]
    <2>2. /\ input = [buffered |-> input.buffered, ended |-> input.ended, asked |-> input.asked, lines |-> input.lines]
          /\ input.buffered \in Seq(Int) /\ input.ended \in BOOLEAN /\ input.asked \in BOOLEAN /\ input.lines \in Nat
      BY DEF TypeOK
    <2>3. a \in BOOLEAN /\ e \in BOOLEAN
      BY <2>2
    <2>4. b \in Seq(Int)
      BY <2>1, <2>2
    <2>5. p = [buffered |-> input.buffered, ended |-> input.ended, asked |-> a, lines |-> input.lines]
      BY <2>2
    <2>6. in = [q EXCEPT !.buffered = b]
      BY <2>2
    <2> HIDE DEF a, e, b, p, in
    <2>7. q = [buffered |-> input.buffered, ended |-> e, asked |-> a, lines |-> input.lines]
      BY <2>5
    <2> HIDE DEF q
    <2>8. in = [buffered |-> b, ended |-> e, asked |-> a, lines |-> input.lines]
      BY <2>6, <2>7
    <2> QED
      BY <2>2, <2>3, <2>4, <2>8 DEF InputType
  <1> HIDE DEF in, chunk, t
  <1>3. \A h \in Handles : ~ Delivered(h) => os[h] = ops[h]
    OBVIOUS
  <1>4. \A h \in Handles : Delivered(h) =>
          /\ os[h] = [kind |-> "io", at |-> "taken", val |-> CHOOSE v \in Held(h) : v # None]
          /\ os[h] \in Op /\ h \notin Waiting(ops)
    <2> SUFFICES ASSUME NEW h \in Handles, Delivered(h)
                 PROVE  /\ os[h] = [kind |-> "io", at |-> "taken", val |-> CHOOSE v \in Held(h) : v # None]
                        /\ os[h] \in Op /\ h \notin Waiting(ops)
      OBVIOUS
    <2> DEFINE v == CHOOSE w \in Held(h) : w # None
               o == ops[h]
    <2>1. v \in Nat /\ o.kind = "io" /\ o.at = "pending"
      BY DeliveredIs
    <2>2. os[h] = [o EXCEPT !.at = "taken", !.val = v]
      BY <2>1
    <2>4. h \notin Waiting(ops)
      BY <2>1 DEF Waiting
    <2>7. o \in Op
      BY OpsFacts
    <2> HIDE DEF o, v, os
    <2>3. v \in Int /\ "taken" \in OpStates
      BY <2>1 DEF OpStates
    <2>5. /\ [o EXCEPT !.at = "taken", !.val = v] = [kind |-> o.kind, at |-> "taken", val |-> v]
          /\ [kind |-> o.kind, at |-> "taken", val |-> v] \in Op
      BY <2>3, <2>7, OpWith
    <2>6. os[h] = [kind |-> "io", at |-> "taken", val |-> v] /\ os[h] \in Op
      BY <2>1, <2>2, <2>5
    <2> QED
      BY <2>4, <2>6 DEF v
  <1>5. os = [h \in DOMAIN ops |-> os[h]] /\ DOMAIN os = DOMAIN ops
    BY DEF Handles
  <1> HIDE DEF os
  <1>6. os \in Seq(Op) /\ DOMAIN os = DOMAIN ops /\ Len(os) = Len(ops)
    <2>1. ops \in Seq(Op)
      BY DEF TypeOK
    <2>2. \A h \in DOMAIN ops : os[h] \in Op
      BY <1>3, <1>4, OpsFacts DEF Handles
    <2> QED
      BY <1>5, <2>1, <2>2, SeqLike
  <1>7. Waiting(os) = Waiting(ops)
    <2>1. \A h \in Handles : h \in Waiting(os) <=> h \in Waiting(ops)
      BY <1>3, <1>4, <1>6 DEF Waiting, Handles
    <2> QED
      BY <1>6, <2>1 DEF Waiting, Handles
  <1>8. reads \in Seq(Nat) /\ Sorted(reads) /\ Range(reads) = Waiting(ops)
    BY DEF TypeOK, ReadsWait, Sorted, Waiting, Handles
  <1>9. ASSUME NEW s, s = Served(os, reads, in)
        PROVE  /\ s.ops \in Seq(Op) /\ DOMAIN s.ops = DOMAIN os /\ Len(s.ops) = Len(os)
               /\ s.reads \in Seq(Nat) /\ Sorted(s.reads) /\ Range(s.reads) = Waiting(s.ops)
               /\ s.input \in InputType
               /\ \A h \in DOMAIN os : \/ s.ops[h] = os[h]
                                       \/ h \in Waiting(ops) /\ s.ops[h].kind = "read" /\ s.ops[h].at = "taken"
    BY <1>2, <1>6, <1>7, <1>8, <1>9, ServedIs
  <1>10. ASSUME NEW s, s = Served(oe, Tail(reads), in), reads # <<>>
         PROVE  /\ s.ops \in Seq(Op) /\ DOMAIN s.ops = DOMAIN os /\ Len(s.ops) = Len(os)
                /\ s.reads \in Seq(Nat) /\ Sorted(s.reads) /\ Range(s.reads) = Waiting(s.ops)
                /\ s.input \in InputType
                /\ \A h \in DOMAIN os : \/ s.ops[h] = os[h]
                                        \/ h \in Waiting(ops) /\ s.ops[h].kind = "read" /\ s.ops[h].at = "taken"
    <2> DEFINE r == Head(reads)
    <2>1. /\ r \in Waiting(ops) /\ Tail(reads) \in Seq(Nat) /\ Sorted(Tail(reads))
          /\ Range(Tail(reads)) = Waiting(ops) \ {r}
      BY <1>8, <1>10, TailReads
    <2>2. r \in DOMAIN os /\ err \in Op /\ err.kind = "read" /\ err.at = "taken"
      BY <1>6, <2>1 DEF Waiting, Op, OpStates, Failed
    <2> HIDE DEF r, err
    <2>3. /\ oe = [h \in DOMAIN os |-> oe[h]] /\ oe[r] = err
          /\ \A h \in DOMAIN os : h # r => oe[h] = os[h]
      BY <2>2 DEF r
    <2> HIDE DEF oe
    <2>4. oe \in Seq(Op) /\ DOMAIN oe = DOMAIN os /\ Len(oe) = Len(os)
      <3>1. \A h \in DOMAIN os : oe[h] \in Op
        BY <1>6, <2>2, <2>3
      <3> QED
        BY <1>6, <2>3, <3>1, SeqLike
    <2>5. Waiting(oe) = Waiting(os) \ {r}
      <3>1. \A h \in DOMAIN os : h \in Waiting(oe) <=> h \in Waiting(os) /\ h # r
        BY <2>2, <2>3, <2>4 DEF Waiting
      <3> QED
        BY <2>4, <3>1 DEF Waiting
    <2> DEFINE y == Tail(reads)
    <2>8. y \in Seq(Nat) /\ Sorted(y) /\ Range(y) = Waiting(oe) /\ s = Served(oe, y, in)
      BY <1>7, <1>10, <2>1, <2>5
    <2> HIDE DEF y
    <2>6. /\ s.ops \in Seq(Op) /\ DOMAIN s.ops = DOMAIN oe /\ Len(s.ops) = Len(oe)
          /\ s.reads \in Seq(Nat) /\ Sorted(s.reads) /\ Range(s.reads) = Waiting(s.ops)
          /\ s.input \in InputType
          /\ \A h \in DOMAIN oe : \/ s.ops[h] = oe[h]
                                  \/ h \in Waiting(oe) /\ s.ops[h].kind = "read" /\ s.ops[h].at = "taken"
      BY <1>2, <2>4, <2>8, ServedIs
    <2>7. \A h \in DOMAIN os : \/ s.ops[h] = os[h]
                               \/ h \in Waiting(ops) /\ s.ops[h].kind = "read" /\ s.ops[h].at = "taken"
      BY <1>7, <2>1, <2>2, <2>3, <2>4, <2>5, <2>6
    <2> QED
      BY <2>4, <2>6, <2>7
  <1>11. /\ t.ops \in Seq(Op) /\ DOMAIN t.ops = DOMAIN os /\ Len(t.ops) = Len(os)
         /\ t.reads \in Seq(Nat) /\ Sorted(t.reads) /\ Range(t.reads) = Waiting(t.ops)
         /\ t.input \in InputType
         /\ \A h \in DOMAIN os : \/ t.ops[h] = os[h]
                                 \/ h \in Waiting(ops) /\ t.ops[h].kind = "read" /\ t.ops[h].at = "taken"
    <2>1. CASE chunk = Failed /\ reads # <<>>
      BY <1>1, <1>10, <2>1
    <2>2. CASE ~ (chunk = Failed /\ reads # <<>>)
      BY <1>1, <1>9, <2>2
    <2> QED
      BY <2>1, <2>2
  <1>12. \A h \in Handles :
           \/ t.ops[h] = ops[h] /\ ~ Delivered(h)
           \/ /\ h \in Waiting(ops) /\ t.ops[h].kind = "read" /\ t.ops[h].at = "taken"
              /\ ~ Delivered(h)
           \/ /\ Delivered(h)
              /\ t.ops[h] = [kind |-> "io", at |-> "taken", val |-> CHOOSE v \in Held(h) : v # None]
    <2> SUFFICES ASSUME NEW h \in Handles
                 PROVE  \/ t.ops[h] = ops[h] /\ ~ Delivered(h)
                        \/ /\ h \in Waiting(ops) /\ t.ops[h].kind = "read" /\ t.ops[h].at = "taken"
                           /\ ~ Delivered(h)
                        \/ /\ Delivered(h)
                           /\ t.ops[h] = [kind |-> "io", at |-> "taken", val |-> CHOOSE v \in Held(h) : v # None]
      OBVIOUS
    <2>0. h \in DOMAIN os
      BY <1>6 DEF Handles
    <2>1. CASE Delivered(h)
      <3>1. h \notin Waiting(ops) /\ os[h] = [kind |-> "io", at |-> "taken", val |-> CHOOSE v \in Held(h) : v # None]
        BY <1>4, <2>1
      <3>2. t.ops[h] = os[h]
        BY <1>11, <2>0, <3>1
      <3> QED
        BY <2>1, <3>1, <3>2
    <2>2. CASE ~ Delivered(h)
      <3>1. os[h] = ops[h]
        BY <1>3, <2>2
      <3> QED
        BY <1>11, <2>0, <2>2, <3>1
    <2> QED
      BY <2>1, <2>2
  <1> QED
    BY <1>6, <1>11, <1>12 DEF t, Handles

-----------------------------------------------------------------------------
(***************************************************************************)
(* The steps of the other threads.                                         *)
(***************************************************************************)

\* A step that touches neither the reactor nor the wake table.
LEMMA QuietStep ==
  ASSUME ReactorInv, UNCHANGED <<session, reactor, woken>>,
         pc' \in Points, guest' \in {"runs", "cleanup", "abandoned", "last"},
         stop' \in [flag : BOOLEAN, waking : Nat, asked : Nat], Ended' => Ended
  PROVE  ReactorInv'
  <1>1. TypeOK'
    BY DEF ReactorInv, TypeOK, reactor, Handles
  <1>2. Uncompleted' = Uncompleted
    BY DEF reactor, Uncompleted, Handles, Here
  <1>3. OpenCounts'
    BY <1>2 DEF ReactorInv, OpenCounts, reactor
  <1>4. ReadsWait'
    BY DEF ReactorInv, ReadsWait, reactor, Handles
  <1>5. DeliveriesInv'
    BY DEF ReactorInv, DeliveriesInv, reactor, Handles
  <1>6. ToldInv'
    BY DEF ReactorInv, ToldInv, reactor, Handles, Here
  <1> QED
    BY <1>1, <1>3, <1>4, <1>5, <1>6 DEF ReactorInv

LEMMA QuietSteps ==
  ASSUME ReactorInv,
         \/ Request \/ Wake \/ BoundPasses \/ TimedOut \/ Poll \/ PollOther
         \/ Pends \/ Interrupted \/ Wait \/ Park \/ Woken
  PROVE  ReactorInv'
  <1>1. /\ pc \in Points /\ guest \in {"runs", "cleanup", "abandoned", "last"}
        /\ stop \in [flag : BOOLEAN, waking : Nat, asked : Nat]
    BY DEF ReactorInv, TypeOK
  <1>2. /\ stop.flag \in BOOLEAN /\ stop.waking \in Nat /\ stop.asked \in Nat
        /\ stop = [flag |-> stop.flag, waking |-> stop.waking, asked |-> stop.asked]
    BY <1>1
  <1>3. [stop EXCEPT !.flag = FALSE] \in [flag : BOOLEAN, waking : Nat, asked : Nat]
    BY <1>2
  <1>4. CASE Request
    <2>1. stop' \in [flag : BOOLEAN, waking : Nat, asked : Nat]
      BY <1>2, <1>4 DEF Request
    <2> QED
      BY <1>1, <1>4, <2>1, QuietStep DEF Request, Ended
  <1>5. CASE Wake
    <2>1. stop' = [flag |-> stop.flag, waking |-> stop.waking - 1, asked |-> stop.asked]
      BY <1>2, <1>5 DEF Wake
    <2>2. stop' \in [flag : BOOLEAN, waking : Nat, asked : Nat]
      BY <1>2, <1>5, <2>1 DEF Wake
    <2>3. pc' \in Points /\ (Ended' => Ended)
      BY <1>1, <1>5 DEF Wake, WakeIf, Points, Ended, Outcomes
    <2> QED
      BY <1>1, <1>5, <2>2, <2>3, QuietStep DEF Wake
  <1>6. CASE BoundPasses
    BY <1>1, <1>6, QuietStep DEF BoundPasses, Ended
  <1>7. CASE TimedOut
    BY <1>1, <1>7, QuietStep DEF TimedOut, Ended, Points, Outcomes
  <1>8. CASE Poll
    <2>1. guest' \in {"runs", "cleanup", "abandoned", "last"}
      BY <1>1, <1>8 DEF Poll, CancelStep
    <2> QED
      BY <1>1, <1>3, <1>8, <2>1, QuietStep DEF Poll, Ended, Points, Outcomes
  <1>9. CASE PollOther
    BY <1>1, <1>9, QuietStep DEF PollOther, Ended, Points, Outcomes
  <1>10. CASE Pends
    BY <1>1, <1>10, QuietStep DEF Pends, Ended, Points, Outcomes
  <1>11. CASE Interrupted
    BY <1>1, <1>3, <1>11, QuietStep DEF Interrupted, Ended, Points, Outcomes
  <1>12. CASE Wait
    BY <1>1, <1>12, QuietStep DEF Wait, Ended, Points, Outcomes
  <1>13. CASE Park
    BY <1>1, <1>13, QuietStep DEF Park, Ended, Points, Outcomes
  <1>14. CASE Woken
    BY <1>1, <1>14, QuietStep DEF Woken, Ended, Points, Outcomes
  <1> QED
    BY <1>4, <1>5, <1>6, <1>7, <1>8, <1>9, <1>10, <1>11, <1>12, <1>13, <1>14

LEMMA TimerPassesStep ==
  ASSUME ReactorInv, NEW h \in Handles, TimerPasses(h)
  PROVE  ReactorInv'
  <1> DEFINE o == ops[h]
             due == [kind |-> "sleep", at |-> "due", val |-> o.val]
  <1>1. /\ h \in Handles /\ o.kind = "sleep" /\ o.at = "pending" /\ ops' = [ops EXCEPT ![h].at = "due"]
        /\ UNCHANGED <<session, pc, guest, open, reads, input, inbox, woken, socket, got, stop>>
    BY DEF TimerPasses
  <1>2. TypeOK /\ OpenCounts /\ ReadsWait /\ DeliveriesInv /\ ToldInv
    BY DEF ReactorInv
  <1>3. ops' = [ops EXCEPT ![h] = due] /\ due \in Op
    <2>1. o \in Op /\ "due" \in OpStates
      BY <1>2, OpsFacts DEF OpStates
    <2>2. ops' = [ops EXCEPT ![h] = [o EXCEPT !.at = "due"]]
      BY <1>1 DEF Handles
    <2> HIDE DEF o
    <2>3. [o EXCEPT !.at = "due"] = [kind |-> o.kind, at |-> "due", val |-> o.val]
          /\ [kind |-> o.kind, at |-> "due", val |-> o.val] \in Op
      BY <2>1, OpAt
    <2> QED
      BY <1>1, <2>2, <2>3 DEF o
  <1>4. due.kind = "sleep" /\ due.at = "due"
    OBVIOUS
  <1> HIDE DEF due
  <1>5. ops \in Seq(Op) /\ ops' = [i \in DOMAIN ops |-> ops'[i]] /\ ops'[h] = due
        /\ \A i \in Handles : i # h => ops'[i] = ops[i]
    BY <1>1, <1>2, <1>3 DEF TypeOK, Handles
  <1>6. ops' \in Seq(Op) /\ Handles' = Handles
    <2>1. \A i \in DOMAIN ops : ops'[i] \in Op
      BY <1>2, <1>3, <1>5, OpsFacts DEF Handles
    <2> QED
      BY <1>5, <2>1, SeqLike DEF Handles
  <1>7. TypeOK'
    BY <1>1, <1>2, <1>6 DEF TypeOK
  <1>8. OpenCounts'
    <2>1. \A i \in Handles : i \in Uncompleted' <=> i \in Uncompleted
      BY <1>1, <1>4, <1>5, <1>6 DEF Uncompleted, Here
    <2>2. Uncompleted' = Uncompleted
      BY <1>6, <2>1 DEF Uncompleted
    <2> QED
      BY <1>1, <1>2, <2>2 DEF OpenCounts
  <1>9. ReadsWait'
    BY <1>1, <1>2, <1>4, <1>5, <1>6 DEF ReadsWait
  <1>10. DeliveriesInv'
    <2>1. \A d \in inbox.done : d[1] \in Handles
      BY <1>2 DEF TypeOK
    <2> QED
      BY <1>1, <1>2, <1>4, <1>5, <1>6, <2>1 DEF DeliveriesInv
  <1>11. ToldInv'
    <2>1. woken \subseteq Handles
      BY <1>2 DEF TypeOK
    <2>2. ~ Ended
      BY <1>1, <1>2 DEF ToldInv, Here
    <2> QED
      BY <1>1, <1>2, <1>4, <1>5, <1>6, <2>1, <2>2 DEF ToldInv, Here, Ended
  <1> QED
    BY <1>7, <1>8, <1>9, <1>10, <1>11 DEF ReactorInv

LEMMA TaskEndsStep ==
  ASSUME ReactorInv, NEW h \in Handles, TaskEnds(h)
  PROVE  ReactorInv'
  <1> DEFINE v == socket.items + 1
             done == inbox.done \cup {<<h, v>>}
  <1>1. TypeOK /\ OpenCounts /\ ReadsWait /\ DeliveriesInv /\ ToldInv
    BY DEF ReactorInv
  <1>2. /\ socket.items \in Nat /\ v \in Nat /\ v # None
        /\ inbox = [chunks |-> inbox.chunks, done |-> inbox.done]
        /\ inbox.chunks \in Seq(Int) /\ inbox.done \subseteq Handles \X Nat
        /\ socket = [closed |-> socket.closed, unread |-> socket.unread, items |-> socket.items]
        /\ socket.closed \in BOOLEAN /\ socket.unread \subseteq Nat
    BY <1>1 DEF TypeOK, None
  <1>3. /\ ops[h].kind = "io" /\ ops[h].at = "pending" /\ ~ Delivered(h) /\ ~ Ended
        /\ socket' = [socket EXCEPT !.items = v] /\ inbox' = [inbox EXCEPT !.done = done]
        /\ WakeIf(TRUE)
        /\ UNCHANGED <<session, guest, ops, open, reads, input, woken, got, stop>>
    BY DEF TaskEnds, TaskRuns
  <1> HIDE DEF v
  <1>4. inbox' = [chunks |-> inbox.chunks, done |-> done]
    BY <1>2, <1>3
  <1>5. socket' = [closed |-> socket.closed, unread |-> socket.unread, items |-> v]
    BY <1>2, <1>3
  <1>6. Handles' = Handles
    BY <1>3 DEF Handles
  <1>7. TypeOK'
    <2>1. pc' \in Points
      BY <1>1, <1>3 DEF TypeOK, WakeIf, Points
    <2>2. inbox' \in [chunks : Seq(Int), done : SUBSET (Handles' \X Nat)]
      BY <1>2, <1>4, <1>6
    <2>3. socket' \in [closed : BOOLEAN, unread : SUBSET Nat, items : Nat]
      BY <1>2, <1>5
    <2> QED
      BY <1>1, <1>3, <1>6, <2>1, <2>2, <2>3 DEF TypeOK
  <1>8. OpenCounts'
    <2>1. Uncompleted' = Uncompleted
      BY <1>3 DEF Uncompleted, Handles, Here
    <2> QED
      BY <1>1, <1>3, <2>1 DEF OpenCounts
  <1>9. ReadsWait'
    BY <1>1, <1>3, <1>6 DEF ReadsWait
  <1>10. DeliveriesInv'
    <2>1. \A d \in inbox.done : d[1] # h
      BY <1>3 DEF Delivered
    <2>2. inbox'.done = done
      BY <1>4
    <2> DEFINE x == <<h, v>>
    <2>3. x[1] = h /\ x[2] = v /\ done = inbox.done \cup {x}
      OBVIOUS
    <2> HIDE DEF x, done
    <2>4. \A d \in done : d = x \/ (d \in inbox.done /\ d[1] # h)
      BY <2>1, <2>3
    <2>5. \A d \in done : ops[d[1]].kind = "io" /\ ops[d[1]].at = "pending" /\ d[2] # None
      BY <1>1, <1>2, <1>3, <2>3, <2>4 DEF DeliveriesInv
    <2>6. \A d, e \in done : e[1] = d[1] => e = d
      BY <1>1, <2>3, <2>4 DEF DeliveriesInv
    <2> QED
      BY <1>1, <1>3, <1>6, <2>2, <2>5, <2>6 DEF DeliveriesInv
  <1>11. ToldInv'
    <2>1. ~ Ended'
      BY <1>3 DEF WakeIf, Ended, Outcomes
    <2> QED
      BY <1>1, <1>3, <1>6, <2>1 DEF ToldInv, Here
  <1> QED
    BY <1>7, <1>8, <1>9, <1>10, <1>11 DEF ReactorInv

LEMMA ReaderReadsStep ==
  ASSUME ReactorInv, ReaderReads
  PROVE  ReactorInv'
  <1>1. TypeOK /\ OpenCounts /\ ReadsWait /\ DeliveriesInv /\ ToldInv
    BY DEF ReactorInv
  <1>2. /\ WakeIf(TRUE)
        /\ UNCHANGED <<session, guest, ops, open, reads, woken, socket, got, stop>>
    BY DEF ReaderReads
  <1>3. PICK chunk \in {EndOfInput, Failed} \cup ((input.lines + 1) .. MaxLines) :
          /\ inbox' = [inbox EXCEPT !.chunks = <<chunk>>]
          /\ input' = [input EXCEPT !.lines = IF chunk > 0 THEN chunk ELSE @]
    BY DEF ReaderReads
  <1>4. /\ input = [buffered |-> input.buffered, ended |-> input.ended, asked |-> input.asked, lines |-> input.lines]
        /\ input.buffered \in Seq(Int) /\ input.ended \in BOOLEAN /\ input.asked \in BOOLEAN
        /\ input.lines \in Nat /\ inbox.chunks \in Seq(Int) /\ inbox.done \subseteq Handles \X Nat
        /\ inbox = [chunks |-> inbox.chunks, done |-> inbox.done] /\ MaxLines \in Nat
    BY <1>1, HostRunAssumption DEF TypeOK
  <1>5. chunk \in Int
    BY <1>4 DEF EndOfInput, Failed
  <1> DEFINE m == IF chunk > 0 THEN chunk ELSE input.lines
  <1>6. m \in Nat /\ input' = [input EXCEPT !.lines = m]
    BY <1>3, <1>4, <1>5
  <1> HIDE DEF m
  <1>7. input' = [buffered |-> input.buffered, ended |-> input.ended, asked |-> input.asked, lines |-> m]
    BY <1>4, <1>6
  <1>8. inbox' = [chunks |-> <<chunk>>, done |-> inbox.done]
    BY <1>3, <1>4
  <1>9. Handles' = Handles
    BY <1>2 DEF Handles
  <1>10. TypeOK'
    <2>1. pc' \in Points
      BY <1>1, <1>2 DEF TypeOK, WakeIf, Points
    <2>2. inbox' \in [chunks : Seq(Int), done : SUBSET (Handles' \X Nat)]
      BY <1>4, <1>5, <1>8, <1>9
    <2>3. input' \in [buffered : Seq(Int), ended : BOOLEAN, asked : BOOLEAN, lines : Nat]
      BY <1>4, <1>6, <1>7
    <2> QED
      BY <1>1, <1>2, <1>9, <2>1, <2>2, <2>3 DEF TypeOK
  <1>11. OpenCounts'
    <2>1. Uncompleted' = Uncompleted
      BY <1>2 DEF Uncompleted, Handles, Here
    <2> QED
      BY <1>1, <1>2, <2>1 DEF OpenCounts
  <1>12. ReadsWait'
    BY <1>1, <1>2, <1>9 DEF ReadsWait
  <1>13. DeliveriesInv'
    <2>1. inbox'.done = inbox.done
      BY <1>8
    <2> QED
      BY <1>1, <1>2, <1>9, <2>1 DEF DeliveriesInv
  <1>14. ToldInv'
    <2>1. Ended' => Ended
      BY <1>2 DEF WakeIf, Ended, Outcomes
    <2> QED
      BY <1>1, <1>2, <1>9, <2>1 DEF ToldInv, Here
  <1> QED
    BY <1>10, <1>11, <1>12, <1>13, <1>14 DEF ReactorInv

-----------------------------------------------------------------------------
(***************************************************************************)
(* The program's calls.                                                    *)
(***************************************************************************)

InboxType(handles) == [chunks : Seq(Int), done : SUBSET (handles \X Nat)]
SocketType == [closed : BOOLEAN, unread : SUBSET Nat, items : Nat]
GotType == [items : SUBSET Int, lines : SUBSET Int]

\* What every host call leaves alone, and how the wake table follows the handles.
CallFrame ==
  /\ pc = "turn" /\ UNCHANGED <<session, pc, pending, cancel, guest, stop, inputs>>
  /\ woken' = {h \in woken : ops'[h].kind # "gone"}

\* An operation that had completed stays completed or goes; no other completes
\* in the program's turn.
LEMMA CallStep ==
  ASSUME ReactorInv, CallFrame, ops' \in Seq(Op), Handles \subseteq Handles',
         reads' \in Seq(Nat), input' \in InputType, inbox' \in InboxType(Handles'),
         socket' \in SocketType, got' \in GotType,
         \A h \in Handles' :
           \/ h \in Handles /\ Here(h) /\ ops[h].at = "completed" /\ ops'[h].at = "completed"
           \/ ops'[h].kind = "gone" /\ ops'[h].at = "completed"
           \/ /\ ops'[h].kind # "gone" /\ ops'[h].at # "completed"
              /\ h \in Handles => ops[h].at # "completed",
         OpenCounts', ReadsWait', DeliveriesInv'
  PROVE  ReactorInv'
  <1>1. TypeOK /\ ToldInv
    BY DEF ReactorInv
  <1>2. woken' \subseteq woken /\ woken \subseteq Handles
    BY <1>1 DEF CallFrame, TypeOK
  <1>3. TypeOK'
    BY <1>1, <1>2 DEF CallFrame, TypeOK, InputType, InboxType, SocketType, GotType
  <1>4. ~ Ended'
    BY DEF CallFrame, Ended, Outcomes
  <1>5. ToldInv'
    BY <1>1, <1>2, <1>4 DEF ToldInv, CallFrame, Here
  <1> QED
    BY <1>3, <1>5 DEF ReactorInv

\* An operation that starts.
LEMMA StartedIs ==
  ASSUME TypeOK, NEW kind \in {"sleep", "io", "read"}
  PROVE  LET os == Started(kind) IN
         /\ os \in Seq(Op) /\ DOMAIN os = Handles \cup {Len(ops) + 1} /\ Len(ops) + 1 \notin Handles
         /\ \A h \in Handles : os[h] = ops[h]
         /\ os[Len(ops) + 1] = [kind |-> kind, at |-> "pending", val |-> None]
  <1> DEFINE o == [kind |-> kind, at |-> "pending", val |-> None]
             os == Append(ops, o)
  <1>1. ops \in Seq(Op) /\ o \in Op
    BY DEF TypeOK, Op, OpStates, None
  <1>2. Handles = 1 .. Len(ops) /\ Len(ops) \in Nat
    BY OpsFacts
  <1> HIDE DEF o
  <1>3. /\ os \in Seq(Op) /\ Len(os) = Len(ops) + 1
        /\ \A i \in 1 .. Len(ops) : os[i] = ops[i]
        /\ os[Len(ops) + 1] = o
    BY <1>1, AppendProperties
  <1> HIDE DEF os
  <1>4. DOMAIN os = 1 .. Len(ops) + 1
    BY <1>3, SeqFacts
  <1>5. 1 .. Len(ops) + 1 = Handles \cup {Len(ops) + 1} /\ Len(ops) + 1 \notin Handles
    BY <1>2
  <1>6. os = Started(kind)
    BY DEF os, o, Started
  <1> QED
    BY <1>2, <1>3, <1>4, <1>5, <1>6 DEF o

LEMMA OneMore ==
  ASSUME TypeOK, OpenCounts, NEW n, n \notin Uncompleted, open' = open + 1,
         Uncompleted' = Uncompleted \cup {n}
  PROVE  OpenCounts'
  <1>1. IsFiniteSet(Uncompleted)
    BY OpsFacts
  <1> QED
    BY <1>1, FS_AddElement DEF OpenCounts

LEMMA StartStep ==
  ASSUME ReactorInv, CallFrame, NEW kind \in {"sleep", "io"}, ops' = Started(kind), open' = open + 1,
         UNCHANGED <<reads, input, inbox, socket, got>>
  PROVE  ReactorInv'
  <1> DEFINE n == Len(ops) + 1
  <1>1. TypeOK /\ OpenCounts /\ ReadsWait /\ DeliveriesInv /\ ToldInv
    BY DEF ReactorInv
  <1>2. /\ ops' \in Seq(Op) /\ Handles' = Handles \cup {n} /\ n \notin Handles
        /\ \A h \in Handles : ops'[h] = ops[h]
        /\ ops'[n].kind = kind /\ ops'[n].at = "pending" /\ ops'[n].val = None
    BY <1>1, StartedIs DEF Handles
  <1> HIDE DEF n
  <1>3. OpenCounts'
    <2>1. \A h \in Handles' : h \in Uncompleted' <=> h \in Uncompleted \/ h = n
      BY <1>2 DEF Uncompleted, Here
    <2>2. Uncompleted' = Uncompleted \cup {n} /\ n \notin Uncompleted
      BY <1>2, <2>1 DEF Uncompleted
    <2> QED
      BY <1>1, <2>2, OneMore
  <1>4. ReadsWait'
    BY <1>1, <1>2 DEF ReadsWait
  <1>5. DeliveriesInv'
    <2>1. \A d \in inbox.done : d[1] \in Handles
      BY <1>1 DEF TypeOK
    <2> QED
      BY <1>1, <1>2, <2>1 DEF DeliveriesInv, None, Disposed
  <1>6. /\ reads' \in Seq(Nat) /\ input' \in InputType /\ inbox' \in InboxType(Handles')
        /\ socket' \in SocketType /\ got' \in GotType
    <2>1. SUBSET (Handles \X Nat) \subseteq SUBSET (Handles' \X Nat)
      BY <1>2
    <2> QED
      BY <1>1, <2>1 DEF TypeOK, InputType, InboxType, SocketType, GotType
  <1>7. \A h \in Handles' :
           \/ h \in Handles /\ Here(h) /\ ops[h].at = "completed" /\ ops'[h].at = "completed"
           \/ ops'[h].kind = "gone" /\ ops'[h].at = "completed"
           \/ /\ ops'[h].kind # "gone" /\ ops'[h].at # "completed"
              /\ h \in Handles => ops[h].at # "completed"
    BY <1>1, <1>2 DEF ToldInv, Here
  <1> QED
    BY <1>2, <1>3, <1>4, <1>5, <1>6, <1>7, CallStep

LEMMA ReadSocketStep ==
  ASSUME ReactorInv, CallFrame, ReadSocket
  PROVE  ReactorInv'
  <1>1. TypeOK /\ OpenCounts /\ ReadsWait /\ DeliveriesInv /\ ToldInv
    BY DEF ReactorInv
  <1>2. CASE socket.unread = {}
    BY <1>2, StartStep DEF ReadSocket
  <1>3. CASE socket.unread # {}
    <2>1. /\ got' = [got EXCEPT !.items = @ \cup socket.unread]
          /\ socket' = [socket EXCEPT !.unread = {}]
          /\ UNCHANGED <<ops, open, reads, input, inbox>>
      BY <1>3 DEF ReadSocket, UnreadDrained
    <2>2. /\ socket = [closed |-> socket.closed, unread |-> socket.unread, items |-> socket.items]
          /\ socket.closed \in BOOLEAN /\ socket.unread \subseteq Nat /\ socket.items \in Nat
          /\ got = [items |-> got.items, lines |-> got.lines]
          /\ got.items \subseteq Int /\ got.lines \subseteq Int
      BY <1>1 DEF TypeOK
    <2>3. socket' = [closed |-> socket.closed, unread |-> {}, items |-> socket.items]
      BY <2>1, <2>2
    <2>4. got' = [items |-> got.items \cup socket.unread, lines |-> got.lines]
      BY <2>1, <2>2
    <2>5. socket' \in SocketType /\ got' \in GotType
      BY <2>2, <2>3, <2>4 DEF SocketType, GotType
    <2>6. Handles' = Handles /\ Uncompleted' = Uncompleted
      BY <2>1 DEF Handles, Uncompleted, Here
    <2>7. OpenCounts' /\ ReadsWait' /\ DeliveriesInv'
      BY <1>1, <2>1, <2>6 DEF OpenCounts, ReadsWait, DeliveriesInv
    <2>8. /\ ops' \in Seq(Op) /\ reads' \in Seq(Nat) /\ input' \in InputType /\ inbox' \in InboxType(Handles')
      BY <1>1, <2>1, <2>6 DEF TypeOK, InputType, InboxType
    <2>9. \A h \in Handles' :
           \/ h \in Handles /\ Here(h) /\ ops[h].at = "completed" /\ ops'[h].at = "completed"
           \/ ops'[h].kind = "gone" /\ ops'[h].at = "completed"
           \/ /\ ops'[h].kind # "gone" /\ ops'[h].at # "completed"
              /\ h \in Handles => ops[h].at # "completed"
      BY <1>1, <2>1, <2>6 DEF ToldInv, Here
    <2> QED
      BY <2>5, <2>6, <2>7, <2>8, <2>9, CallStep
  <1> QED
    BY <1>2, <1>3

\* A read that starts gets a buffered line, or the end, after the reads before it.
LEMMA ReadLineIs ==
  ASSUME ReactorInv, ReadLine
  PROVE  LET n == Len(ops) + 1 IN
         /\ ops' \in Seq(Op) /\ Handles' = Handles \cup {n} /\ n \notin Handles
         /\ reads' \in Seq(Nat) /\ Sorted(reads') /\ Range(reads') = Waiting(ops')
         /\ input' \in InputType
         /\ \A h \in Handles : \/ ops'[h] = ops[h]
                              \/ /\ ops[h].kind = "read" /\ ops[h].at = "pending"
                                 /\ ops'[h].kind = "read" /\ ops'[h].at = "taken"
         /\ ops'[n].kind = "read" /\ ops'[n].at \in {"pending", "taken"}
  <1> DEFINE n == Len(ops) + 1
             os == Started("read")
             rs == Append(reads, Len(ops) + 1)
             s == Served(os, rs, input)
  <1>1. TypeOK /\ OpenCounts /\ ReadsWait /\ DeliveriesInv /\ ToldInv
    BY DEF ReactorInv
  <1>2. /\ ops' = s.ops /\ reads' = s.reads /\ input' = s.input /\ open' = open + 1
    BY DEF ReadLine
  <1>3. /\ os \in Seq(Op) /\ DOMAIN os = Handles \cup {n} /\ n \notin Handles
        /\ \A h \in Handles : os[h] = ops[h]
        /\ os[n].kind = "read" /\ os[n].at = "pending"
    BY <1>1, StartedIs
  <1>4. reads \in Seq(Nat) /\ Sorted(reads) /\ Range(reads) = Waiting(ops)
    BY <1>1 DEF TypeOK, ReadsWait, Sorted, Waiting, Handles
  <1>5. n \in Nat /\ \A h \in Handles : h < n
    <2>1. Handles = 1 .. Len(ops) /\ Len(ops) \in Nat
      BY <1>1, OpsFacts
    <2> QED
      BY <2>1
  <1> HIDE DEF os
  <1>6. rs \in Seq(Nat) /\ Sorted(rs) /\ Range(rs) = Waiting(os)
    <2> DEFINE k == Len(reads)
    <2>1. k \in Nat /\ DOMAIN reads = 1 .. k /\ Range(reads) = {reads[i] : i \in 1 .. k}
      BY <1>4, SeqFacts
    <2>2. /\ rs \in Seq(Nat) /\ Len(rs) = k + 1
          /\ \A i \in 1 .. k : rs[i] = reads[i]
          /\ rs[k + 1] = n
      BY <1>4, <1>5, AppendProperties
    <2> HIDE DEF rs, n, k
    <2>3. DOMAIN rs = 1 .. k + 1 /\ Range(rs) = {rs[i] : i \in 1 .. k + 1}
      BY <2>2, SeqFacts
    <2>4. \A i \in 1 .. k : reads[i] \in Handles
      <3>1. Waiting(ops) \subseteq Handles
        BY DEF Waiting, Handles
      <3> QED
        BY <1>4, <2>1, <3>1
    <2>5. \A i \in 1 .. k + 1 : i \in 1 .. k \/ i = k + 1
      BY <2>1
    <2>6. Sorted(rs)
      <3> SUFFICES ASSUME NEW i \in 1 .. k + 1, NEW j \in 1 .. k + 1, i < j PROVE rs[i] < rs[j]
        BY <2>3 DEF Sorted
      <3>1. i \in 1 .. k
        BY <2>1
      <3>2. CASE j \in 1 .. k
        BY <1>4, <2>1, <2>2, <3>1, <3>2 DEF Sorted
      <3>3. CASE j = k + 1
        BY <1>5, <2>2, <2>4, <3>1, <3>3
      <3> QED
        BY <2>5, <3>2, <3>3
    <2>7. Range(rs) = Range(reads) \cup {n}
      <3>1. k + 1 \in 1 .. k + 1 /\ \A i \in 1 .. k : i \in 1 .. k + 1
        BY <2>1
      <3> QED
        BY <2>1, <2>2, <2>3, <2>5, <3>1
    <2>8. Waiting(os) = Waiting(ops) \cup {n}
      BY <1>3 DEF Waiting, Handles
    <2> QED
      BY <1>4, <2>2, <2>6, <2>7, <2>8
  <1>7. input \in InputType
    BY <1>1 DEF TypeOK, InputType
  <1> HIDE DEF rs, n, s
  <1>8. /\ s.ops \in Seq(Op) /\ DOMAIN s.ops = DOMAIN os /\ Len(s.ops) = Len(os)
        /\ s.reads \in Seq(Nat) /\ Sorted(s.reads) /\ Range(s.reads) = Waiting(s.ops)
        /\ s.input \in InputType
        /\ \A h \in DOMAIN os : \/ s.ops[h] = os[h]
                                \/ h \in Waiting(os) /\ s.ops[h].kind = "read" /\ s.ops[h].at = "taken"
    BY <1>3, <1>6, <1>7, ServedIs DEF s
  <1>9. ops' \in Seq(Op) /\ Handles' = Handles \cup {n} /\ Handles \subseteq Handles'
    BY <1>2, <1>3, <1>8 DEF Handles
  <1>10. \A h \in Handles : \/ ops'[h] = ops[h]
                            \/ /\ ops[h].kind = "read" /\ ops[h].at = "pending"
                               /\ ops'[h].kind = "read" /\ ops'[h].at = "taken"
    BY <1>2, <1>3, <1>8 DEF Waiting
  <1>11. ops'[n].kind = "read" /\ ops'[n].at \in {"pending", "taken"}
    BY <1>2, <1>3, <1>8
  <1> QED
    BY <1>2, <1>3, <1>8, <1>9, <1>10, <1>11 DEF n

LEMMA ReadLineStep ==
  ASSUME ReactorInv, CallFrame, ReadLine
  PROVE  ReactorInv'
  <1> DEFINE n == Len(ops) + 1
  <1>1. TypeOK /\ OpenCounts /\ ReadsWait /\ DeliveriesInv /\ ToldInv
    BY DEF ReactorInv
  <1>2. open' = open + 1 /\ UNCHANGED <<inbox, socket, got>>
    BY DEF ReadLine
  <1>9. /\ ops' \in Seq(Op) /\ Handles' = Handles \cup {n} /\ n \notin Handles
        /\ reads' \in Seq(Nat) /\ Sorted(reads') /\ Range(reads') = Waiting(ops')
        /\ input' \in InputType
    BY ReadLineIs
  <1>10. \A h \in Handles : \/ ops'[h] = ops[h]
                            \/ /\ ops[h].kind = "read" /\ ops[h].at = "pending"
                               /\ ops'[h].kind = "read" /\ ops'[h].at = "taken"
    BY ReadLineIs
  <1>11. ops'[n].kind = "read" /\ ops'[n].at \in {"pending", "taken"}
    BY ReadLineIs
  <1> HIDE DEF n
  <1>12. OpenCounts'
    <2>1. \A h \in Handles' : h \in Uncompleted' <=> h \in Uncompleted \/ h = n
      BY <1>9, <1>10, <1>11 DEF Uncompleted, Here
    <2>2. Uncompleted' = Uncompleted \cup {n} /\ n \notin Uncompleted
      BY <1>9, <2>1 DEF Uncompleted
    <2> QED
      BY <1>1, <1>2, <2>2, OneMore
  <1>13. ReadsWait'
    BY <1>9 DEF ReadsWait, Waiting, Sorted, Handles
  <1>14. DeliveriesInv'
    <2>1. \A d \in inbox.done : d[1] \in Handles
      BY <1>1 DEF TypeOK
    <2>2. \A h \in Handles' : ops'[h].kind = "io" => h \in Handles /\ ops'[h] = ops[h]
      BY <1>9, <1>10, <1>11
    <2>3. \A h \in Handles : ops[h].kind = "io" => ops'[h] = ops[h]
      BY <1>10
    <2> QED
      BY <1>1, <1>2, <2>1, <2>2, <2>3 DEF DeliveriesInv
  <1>15. /\ reads' \in Seq(Nat) /\ input' \in InputType /\ inbox' \in InboxType(Handles')
         /\ socket' \in SocketType /\ got' \in GotType
    <2>1. SUBSET (Handles \X Nat) \subseteq SUBSET (Handles' \X Nat)
      BY <1>9
    <2> QED
      BY <1>1, <1>2, <1>9, <2>1 DEF TypeOK, InboxType, SocketType, GotType
  <1>16. \A h \in Handles' :
           \/ h \in Handles /\ Here(h) /\ ops[h].at = "completed" /\ ops'[h].at = "completed"
           \/ ops'[h].kind = "gone" /\ ops'[h].at = "completed"
           \/ /\ ops'[h].kind # "gone" /\ ops'[h].at # "completed"
              /\ h \in Handles => ops[h].at # "completed"
    <2>1. \A h \in Handles : ops[h].kind = "gone" => ops[h].at = "completed"
      BY <1>1 DEF ToldInv
    <2> QED
      BY <1>9, <1>10, <1>11, <2>1 DEF Here
  <1> QED
    BY <1>9, <1>12, <1>13, <1>14, <1>15, <1>16, CallStep

\* remove: the operation goes, with its read and its delivery.
LEMMA RemovedIs ==
  ASSUME ReactorInv, NEW h \in Handles, RemoveOp(h)
  PROVE  /\ ops' \in Seq(Op) /\ Handles' = Handles /\ ops'[h] = Gone
         /\ \A i \in Handles : i # h => ops'[i] = ops[i]
         /\ inbox' = [chunks |-> inbox.chunks, done |-> {d \in inbox.done : d[1] # h}]
         /\ inbox' \in InboxType(Handles')
         /\ reads' \in Seq(Nat) /\ OpenCounts' /\ ReadsWait' /\ DeliveriesInv'
         /\ \A i \in Handles' :
              \/ i \in Handles /\ Here(i) /\ ops[i].at = "completed" /\ ops'[i].at = "completed"
              \/ ops'[i].kind = "gone" /\ ops'[i].at = "completed"
              \/ /\ ops'[i].kind # "gone" /\ ops'[i].at # "completed"
                 /\ i \in Handles => ops[i].at # "completed"
  <1>1. TypeOK /\ OpenCounts /\ ReadsWait /\ DeliveriesInv /\ ToldInv
    BY DEF ReactorInv
  <1>2. /\ Here(h) /\ ops' = [ops EXCEPT ![h] = Gone] /\ reads' = RemoveFirst(reads, h)
        /\ open' = (IF ops[h].at = "completed" THEN open ELSE open - 1)
        /\ inbox' = [inbox EXCEPT !.done = {d \in @ : d[1] # h}]
    BY DEF RemoveOp, ReadsWithout, OpenWithout
  <1>3. Gone \in Op /\ Gone.kind = "gone" /\ Gone.at = "completed"
    BY DEF Gone, Op, OpStates, None
  <1>4. ops \in Seq(Op) /\ ops' = [i \in DOMAIN ops |-> ops'[i]] /\ ops'[h] = Gone
        /\ \A i \in Handles : i # h => ops'[i] = ops[i]
    BY <1>1, <1>2 DEF TypeOK, Handles
  <1>5. ops' \in Seq(Op) /\ Handles' = Handles
    <2>1. \A i \in DOMAIN ops : ops'[i] \in Op
      BY <1>1, <1>3, <1>4, OpsFacts DEF Handles
    <2> QED
      BY <1>4, <2>1, SeqLike DEF Handles
  <1>6. inbox' = [chunks |-> inbox.chunks, done |-> {d \in inbox.done : d[1] # h}]
        /\ inbox' \in InboxType(Handles')
    <2>1. inbox = [chunks |-> inbox.chunks, done |-> inbox.done]
          /\ inbox.chunks \in Seq(Int) /\ inbox.done \subseteq Handles \X Nat
      BY <1>1 DEF TypeOK
    <2>2. inbox' = [chunks |-> inbox.chunks, done |-> {d \in inbox.done : d[1] # h}]
      BY <1>2, <2>1
    <2> DEFINE done == {d \in inbox.done : d[1] # h}
    <2>3. done \subseteq Handles' \X Nat
      BY <1>5, <2>1
    <2> HIDE DEF done
    <2>4. inbox' = [chunks |-> inbox.chunks, done |-> done]
      BY <2>2 DEF done
    <2>5. inbox' \in InboxType(Handles')
      BY <2>1, <2>3, <2>4 DEF InboxType
    <2> QED
      BY <2>2, <2>5
  <1>7. OpenCounts'
    <2>1. Uncompleted' = Uncompleted \ {h}
      <3>1. \A i \in Handles : i \in Uncompleted' <=> i \in Uncompleted /\ i # h
        BY <1>3, <1>4, <1>5 DEF Uncompleted, Here
      <3> QED
        BY <1>5, <3>1 DEF Uncompleted
    <2>2. h \in Uncompleted <=> ops[h].at # "completed"
      BY <1>2 DEF Uncompleted
    <2>3. IsFiniteSet(Uncompleted)
      BY <1>1, OpsFacts
    <2> QED
      BY <1>1, <1>2, <2>1, <2>2, <2>3, FS_RemoveElement DEF OpenCounts
  <1>8. reads' \in Seq(Nat) /\ Sorted(reads') /\ Range(reads') = Range(reads) \ {h}
    <2>1. reads \in Seq(Nat) /\ Sorted(reads)
      BY <1>1 DEF TypeOK, ReadsWait, Sorted
    <2> QED
      BY <1>2, <2>1, RemoveRead
  <1>9. ReadsWait'
    <2>1. \A i \in Handles : ops'[i].kind = "read" /\ ops'[i].at = "pending"
                               <=> ops[i].kind = "read" /\ ops[i].at = "pending" /\ i # h
      BY <1>3, <1>4
    <2> QED
      BY <1>1, <1>5, <1>8, <2>1 DEF ReadsWait, Sorted
  <1>10. DeliveriesInv'
    <2>1. \A d \in inbox.done : d[1] \in Handles
      BY <1>1 DEF TypeOK
    <2>2. inbox'.done = {d \in inbox.done : d[1] # h}
      BY <1>6
    <2> QED
      BY <1>1, <1>3, <1>4, <1>5, <2>1, <2>2 DEF DeliveriesInv
  <1>11. \A i \in Handles' :
              \/ i \in Handles /\ Here(i) /\ ops[i].at = "completed" /\ ops'[i].at = "completed"
              \/ ops'[i].kind = "gone" /\ ops'[i].at = "completed"
              \/ /\ ops'[i].kind # "gone" /\ ops'[i].at # "completed"
                 /\ i \in Handles => ops[i].at # "completed"
    BY <1>1, <1>3, <1>4, <1>5 DEF ToldInv, Here
  <1> QED
    BY <1>4, <1>5, <1>6, <1>7, <1>8, <1>9, <1>10, <1>11

LEMMA UnreadIs ==
  ASSUME TypeOK, NEW values \in SUBSET Int
  PROVE  /\ Unread(values) \in SocketType
         /\ Unread(values).closed = socket.closed /\ Unread(values).items = socket.items
         /\ ~ socket.closed => Unread(values).unread = socket.unread \cup {v \in values : v > 0}
  <1>1. /\ socket = [closed |-> socket.closed, unread |-> socket.unread, items |-> socket.items]
        /\ socket.closed \in BOOLEAN /\ socket.unread \subseteq Nat /\ socket.items \in Nat
    BY DEF TypeOK
  <1> DEFINE u == socket.unread \cup {v \in values : v > 0}
  <1>2. u \subseteq Nat
    BY <1>1
  <1>3. Unread(values) = IF socket.closed THEN socket ELSE [socket EXCEPT !.unread = u]
    BY DEF Unread
  <1> HIDE DEF u
  <1>4. [socket EXCEPT !.unread = u] = [closed |-> socket.closed, unread |-> u, items |-> socket.items]
    BY <1>1
  <1>5. CASE socket.closed
    <2>1. Unread(values) = socket
      BY <1>3, <1>5
    <2>2. socket \in SocketType
      BY DEF TypeOK, SocketType
    <2> QED
      BY <1>5, <2>1, <2>2
  <1>6. CASE ~ socket.closed
    BY <1>1, <1>2, <1>3, <1>4, <1>6 DEF SocketType, u
  <1> QED
    BY <1>1, <1>5, <1>6

LEMMA HeldIsInt ==
  ASSUME TypeOK, NEW h \in Handles
  PROVE  Held(h) \subseteq Int
  <1>1. ops[h].val \in Int
    BY OpsFacts
  <1>2. \A d \in inbox.done : d[2] \in Nat
    BY DEF TypeOK
  <1> QED
    BY <1>1, <1>2 DEF Held

LEMMA AbortStep ==
  ASSUME ReactorInv, CallFrame, NEW h \in Handles, Abort(h)
  PROVE  ReactorInv'
  <1>1. TypeOK
    BY DEF ReactorInv
  <1>2. /\ RemoveOp(h) /\ UNCHANGED <<input, got>>
        /\ socket' = IF ops[h].kind = "io" THEN Unread(Held(h)) ELSE socket
    BY DEF Abort, Returned
  <1>3. socket' \in SocketType
    <2>1. Unread(Held(h)) \in SocketType
      BY <1>1, HeldIsInt, UnreadIs
    <2>2. socket \in SocketType
      BY <1>1 DEF TypeOK, SocketType
    <2> QED
      BY <1>2, <2>1, <2>2
  <1>4. input' \in InputType /\ got' \in GotType
    BY <1>1, <1>2 DEF TypeOK, InputType, GotType
  <1>5. /\ ops' \in Seq(Op) /\ Handles' = Handles /\ inbox' \in InboxType(Handles')
        /\ reads' \in Seq(Nat) /\ OpenCounts' /\ ReadsWait' /\ DeliveriesInv'
        /\ \A i \in Handles' :
              \/ i \in Handles /\ Here(i) /\ ops[i].at = "completed" /\ ops'[i].at = "completed"
              \/ ops'[i].kind = "gone" /\ ops'[i].at = "completed"
              \/ /\ ops'[i].kind # "gone" /\ ops'[i].at # "completed"
                 /\ i \in Handles => ops[i].at # "completed"
    BY <1>2, RemovedIs
  <1> QED
    BY <1>3, <1>4, <1>5, CallStep

LEMMA FinishStep ==
  ASSUME ReactorInv, CallFrame, NEW h \in Handles, Finish(h)
  PROVE  ReactorInv'
  <1> DEFINE value == {ops[h].val} \ {None, Disposed, EndOfInput, Failed}
  <1>1. TypeOK
    BY DEF ReactorInv
  <1>2. /\ RemoveOp(h) /\ UNCHANGED <<input, socket>>
        /\ got' = [items |-> IF ops[h].kind = "io" THEN got.items \cup value ELSE got.items,
                   lines |-> IF ops[h].kind = "read" THEN got.lines \cup value ELSE got.lines]
    BY DEF Finish
  <1>3. value \subseteq Int
    BY <1>1, OpsFacts
  <1> HIDE DEF value
  <1>4. got' \in GotType
    <2>1. got.items \subseteq Int /\ got.lines \subseteq Int
      BY <1>1 DEF TypeOK
    <2> QED
      BY <1>2, <1>3, <2>1 DEF GotType
  <1>5. input' \in InputType /\ socket' \in SocketType
    BY <1>1, <1>2 DEF TypeOK, InputType, SocketType
  <1>6. /\ ops' \in Seq(Op) /\ Handles' = Handles /\ inbox' \in InboxType(Handles')
        /\ reads' \in Seq(Nat) /\ OpenCounts' /\ ReadsWait' /\ DeliveriesInv'
        /\ \A i \in Handles' :
              \/ i \in Handles /\ Here(i) /\ ops[i].at = "completed" /\ ops'[i].at = "completed"
              \/ ops'[i].kind = "gone" /\ ops'[i].at = "completed"
              \/ /\ ops'[i].kind # "gone" /\ ops'[i].at # "completed"
                 /\ i \in Handles => ops[i].at # "completed"
    BY <1>2, RemovedIs
  <1> QED
    BY <1>4, <1>5, <1>6, CallStep

\* close completes the operations on the socket with Disposed.
LEMMA ClosedIs ==
  ASSUME TypeOK, Close
  PROVE  /\ ops' \in Seq(Op) /\ Handles' = Handles
         /\ \A h \in Handles :
              \/ ops[h].kind # "io" /\ ops'[h] = ops[h]
              \/ /\ ops[h].kind = "io"
                 /\ ops'[h] = [kind |-> "io", val |-> Disposed,
                               at |-> IF ops[h].at = "completed" THEN "completed" ELSE "taken"]
         /\ inbox' = [chunks |-> inbox.chunks, done |-> {}]
         /\ socket' = [closed |-> TRUE, unread |-> {}, items |-> socket.items]
  <1>1. /\ ops' = [h \in Handles |-> IF ops[h].kind # "io" THEN ops[h]
                     ELSE [ops[h] EXCEPT !.val = Disposed,
                                         !.at = IF ops[h].at = "completed" THEN ops[h].at ELSE "taken"]]
        /\ socket' = [socket EXCEPT !.closed = TRUE, !.unread = {}]
        /\ inbox' = [inbox EXCEPT !.done = {}]
    <2>1. \A h \in Handles :
            [ops[h] EXCEPT !.val = Disposed, !.at = IF @ = "completed" THEN @ ELSE "taken"]
              = [ops[h] EXCEPT !.val = Disposed,
                               !.at = IF ops[h].at = "completed" THEN ops[h].at ELSE "taken"]
      OBVIOUS
    <2> QED
      BY <2>1 DEF Close
  <1>2. \A h \in Handles :
          \/ ops[h].kind # "io" /\ ops'[h] = ops[h] /\ ops'[h] \in Op
          \/ /\ ops[h].kind = "io"
             /\ ops'[h] = [kind |-> "io", val |-> Disposed,
                           at |-> IF ops[h].at = "completed" THEN "completed" ELSE "taken"]
             /\ ops'[h] \in Op
    <2> SUFFICES ASSUME NEW h \in Handles
                 PROVE \/ ops[h].kind # "io" /\ ops'[h] = ops[h] /\ ops'[h] \in Op
                       \/ /\ ops[h].kind = "io"
                          /\ ops'[h] = [kind |-> "io", val |-> Disposed,
                                        at |-> IF ops[h].at = "completed" THEN "completed" ELSE "taken"]
                          /\ ops'[h] \in Op
      OBVIOUS
    <2> DEFINE o == ops[h]
               a == IF o.at = "completed" THEN o.at ELSE "taken"
               b == IF o.at = "completed" THEN "completed" ELSE "taken"
               v == Disposed
    <2>1. o \in Op
      BY OpsFacts
    <2>2. o.kind # "io" => ops'[h] = o
      BY <1>1
    <2>3. o.kind = "io" => ops'[h] = [o EXCEPT !.val = v, !.at = a]
      BY <1>1
    <2>4. a = b
      OBVIOUS
    <2>7. a \in OpStates
      BY DEF OpStates
    <2>8. v \in Int
      BY DEF Disposed
    <2> HIDE DEF o, a, b, v
    <2>5. [o EXCEPT !.val = v, !.at = a] = [kind |-> o.kind, at |-> a, val |-> v]
          /\ [kind |-> o.kind, at |-> a, val |-> v] \in Op
      BY <2>1, <2>7, <2>8, OpWith
    <2>6. o.kind = "io" => ops'[h] = [kind |-> "io", at |-> b, val |-> v] /\ ops'[h] \in Op
      BY <2>3, <2>4, <2>5
    <2> QED
      BY <2>1, <2>2, <2>6 DEF o, b, v
  <1>3. ops' \in Seq(Op) /\ Handles' = Handles
    <2>1. ops \in Seq(Op) /\ ops' = [h \in DOMAIN ops |-> ops'[h]]
      BY <1>1 DEF TypeOK, Handles
    <2>2. \A h \in DOMAIN ops : ops'[h] \in Op
      BY <1>2 DEF Handles
    <2> QED
      BY <2>1, <2>2, SeqLike DEF Handles
  <1>4. inbox' = [chunks |-> inbox.chunks, done |-> {}]
    BY <1>1 DEF TypeOK
  <1>5. socket' = [closed |-> TRUE, unread |-> {}, items |-> socket.items]
    <2> DEFINE yes == TRUE
               p == [socket EXCEPT !.closed = yes]
    <2>1. socket = [closed |-> socket.closed, unread |-> socket.unread, items |-> socket.items]
      BY DEF TypeOK
    <2>2. socket' = [p EXCEPT !.unread = {}]
      BY <1>1, <2>1
    <2> HIDE DEF yes
    <2>3. p = [closed |-> yes, unread |-> socket.unread, items |-> socket.items]
      BY <2>1
    <2> HIDE DEF p
    <2>4. socket' = [closed |-> yes, unread |-> {}, items |-> socket.items]
      BY <2>2, <2>3
    <2> QED
      BY <2>4 DEF yes
  <1> QED
    BY <1>2, <1>3, <1>4, <1>5

LEMMA CloseStep ==
  ASSUME ReactorInv, CallFrame, Close
  PROVE  ReactorInv'
  <1>1. TypeOK /\ OpenCounts /\ ReadsWait /\ DeliveriesInv /\ ToldInv
    BY DEF ReactorInv
  <1>2. /\ ops' \in Seq(Op) /\ Handles' = Handles
        /\ inbox' = [chunks |-> inbox.chunks, done |-> {}]
        /\ socket' = [closed |-> TRUE, unread |-> {}, items |-> socket.items]
    BY <1>1, ClosedIs
  <1>3. /\ \A h \in Handles : ops[h].kind # "io" => ops'[h] = ops[h]
        /\ \A h \in Handles : ops[h].kind = "io" =>
             /\ ops'[h].kind = "io" /\ ops'[h].val = Disposed /\ ops'[h].at \in {"taken", "completed"}
             /\ ops'[h].at = "completed" <=> ops[h].at = "completed"
    <2> SUFFICES ASSUME NEW h \in Handles
                 PROVE /\ ops[h].kind # "io" => ops'[h] = ops[h]
                       /\ ops[h].kind = "io" =>
                            /\ ops'[h].kind = "io" /\ ops'[h].val = Disposed
                            /\ ops'[h].at \in {"taken", "completed"}
                            /\ ops'[h].at = "completed" <=> ops[h].at = "completed"
      OBVIOUS
    <2>1. \/ ops[h].kind # "io" /\ ops'[h] = ops[h]
          \/ /\ ops[h].kind = "io"
             /\ ops'[h] = [kind |-> "io", val |-> Disposed,
                           at |-> IF ops[h].at = "completed" THEN "completed" ELSE "taken"]
      BY <1>1, ClosedIs
    <2> QED
      BY <2>1
  <1>4. UNCHANGED <<open, reads, input, got>>
    BY DEF Close
  <1>5. OpenCounts'
    <2>1. \A h \in Handles : h \in Uncompleted' <=> h \in Uncompleted
      BY <1>2, <1>3 DEF Uncompleted, Here
    <2>2. Uncompleted' = Uncompleted
      BY <1>2, <2>1 DEF Uncompleted
    <2> QED
      BY <1>1, <1>4, <2>2 DEF OpenCounts
  <1>6. ReadsWait'
    <2>1. \A h \in Handles : ops'[h].kind = "read" /\ ops'[h].at = "pending"
                               <=> ops[h].kind = "read" /\ ops[h].at = "pending"
      BY <1>3
    <2> QED
      BY <1>1, <1>2, <1>4, <2>1 DEF ReadsWait
  <1>7. DeliveriesInv'
    <2>1. inbox'.done = {}
      BY <1>2
    <2>2. \A h \in Handles' : ops'[h].kind = "io" => ops'[h].val = Disposed /\ ops'[h].at # "pending"
      BY <1>2, <1>3
    <2> QED
      BY <2>1, <2>2 DEF DeliveriesInv, Disposed
  <1>8. /\ reads' \in Seq(Nat) /\ input' \in InputType /\ inbox' \in InboxType(Handles')
        /\ socket' \in SocketType /\ got' \in GotType
    BY <1>1, <1>2, <1>4 DEF TypeOK, InputType, InboxType, SocketType, GotType
  <1>9. \A h \in Handles' :
           \/ h \in Handles /\ Here(h) /\ ops[h].at = "completed" /\ ops'[h].at = "completed"
           \/ ops'[h].kind = "gone" /\ ops'[h].at = "completed"
           \/ /\ ops'[h].kind # "gone" /\ ops'[h].at # "completed"
              /\ h \in Handles => ops[h].at # "completed"
    BY <1>1, <1>2, <1>3 DEF ToldInv, Here
  <1> QED
    BY <1>2, <1>5, <1>6, <1>7, <1>8, <1>9, CallStep

LEMMA ProgramStep ==
  ASSUME ReactorInv, Program
  PROVE  ReactorInv'
  <1>1. CASE Call(Sleep)
    BY <1>1, StartStep DEF Call, CallFrame, Sleep
  <1>2. CASE Call(ReadSocket)
    BY <1>2, ReadSocketStep DEF Call, CallFrame
  <1>3. CASE Call(ReadLine)
    BY <1>3, ReadLineStep DEF Call, CallFrame
  <1>4. ASSUME NEW h \in Handles, Call(Finish(h)) PROVE ReactorInv'
    BY <1>4, FinishStep DEF Call, CallFrame
  <1>5. ASSUME NEW h \in Handles, Call(Abort(h)) PROVE ReactorInv'
    BY <1>5, AbortStep DEF Call, CallFrame
  <1>6. CASE Call(Close)
    BY <1>6, CloseStep DEF Call, CallFrame
  <1> QED
    BY <1>1, <1>2, <1>3, <1>4, <1>5, <1>6 DEF Program

-----------------------------------------------------------------------------
(***************************************************************************)
(* The steps of the loop.                                                  *)
(***************************************************************************)

\* The end of a run: no operation is left, and none is counted.
LEMMA EndsStep ==
  ASSUME ReactorInv, NEW outcome \in Outcomes, Ends(outcome)
  PROVE  ReactorInv'
  <1> DEFINE left == UNION {Held(h) : h \in {i \in Handles : ops[i].kind = "io"}}
  <1>1. TypeOK /\ ToldInv
    BY DEF ReactorInv
  <1>2. /\ pc' = outcome /\ ops' = [h \in Handles |-> Gone] /\ open' = 0 /\ reads' = <<>>
        /\ inbox' = [inbox EXCEPT !.done = {}] /\ socket' = Unread(left)
        /\ UNCHANGED <<session, guest, input, woken, got, stop>>
    BY DEF Ends
  <1>3. Handles' = Handles /\ \A h \in Handles : ops'[h] = Gone
    BY <1>2 DEF Handles
  <1>4. Gone \in Op /\ Gone.kind = "gone" /\ Gone.at = "completed"
    BY DEF Gone, Op, OpStates, None
  <1>5. ops' \in Seq(Op)
    <2>1. ops \in Seq(Op) /\ ops' = [h \in DOMAIN ops |-> ops'[h]]
      BY <1>1, <1>2 DEF TypeOK, Handles
    <2>2. \A h \in DOMAIN ops : ops'[h] \in Op
      BY <1>3, <1>4 DEF Handles
    <2> QED
      BY <2>1, <2>2, SeqLike
  <1>6. socket' \in SocketType
    <2>1. left \subseteq Int
      BY <1>1, HeldIsInt
    <2> HIDE DEF left
    <2> QED
      BY <1>1, <1>2, <2>1, UnreadIs
  <1>7. inbox' = [chunks |-> inbox.chunks, done |-> {}] /\ inbox.chunks \in Seq(Int)
    BY <1>1, <1>2 DEF TypeOK
  <1>8. reads' \in Seq(Nat) /\ DOMAIN reads' = {} /\ Range(reads') = {}
    <2>1. Len(reads') = 0 /\ reads' \in Seq(Nat)
      BY <1>2
    <2> QED
      BY <1>2 DEF Range
  <1>9. TypeOK'
    <2>1. inbox' \in [chunks : Seq(Int), done : SUBSET (Handles' \X Nat)]
      BY <1>7
    <2>2. pc' \in Points
      BY <1>2 DEF Points
    <2> QED
      BY <1>1, <1>2, <1>3, <1>5, <1>6, <1>8, <2>1, <2>2 DEF TypeOK, SocketType
  <1>10. OpenCounts'
    <2>1. Uncompleted' = {}
      BY <1>3, <1>4 DEF Uncompleted
    <2> QED
      BY <1>2, <2>1, FS_EmptySet DEF OpenCounts
  <1>11. ReadsWait'
    BY <1>3, <1>4, <1>8 DEF ReadsWait
  <1>12. DeliveriesInv'
    <2>1. inbox'.done = {}
      BY <1>7
    <2> QED
      BY <1>3, <1>4, <2>1 DEF DeliveriesInv
  <1>13. ToldInv'
    <2>1. woken \subseteq Handles
      BY <1>1 DEF TypeOK
    <2> QED
      BY <1>2, <1>3, <1>4, <2>1 DEF ToldInv, Here
  <1> QED
    BY <1>9, <1>10, <1>11, <1>12, <1>13 DEF ReactorInv

\* complete: what is due or taken completes and wakes the program.
LEMMA CollectIs ==
  ASSUME TypeOK, ReadsWait, DeliveriesInv, Collect
  PROVE  /\ ops' \in Seq(Op) /\ Handles' = Handles
         /\ reads' \in Seq(Nat) /\ Sorted(reads') /\ Range(reads') = Waiting(ops')
         /\ input' \in InputType
         /\ \A h \in Handles :
              \/ /\ ops[h].at \in {"pending", "completed"} /\ ops'[h] = ops[h] /\ ~ Delivered(h)
              \/ /\ ops[h].at \in {"due", "taken"} /\ ops'[h].at = "completed" /\ ~ Delivered(h)
                 /\ ops'[h].kind = ops[h].kind /\ ops'[h].val = ops[h].val
              \/ /\ ops[h].kind = "read" /\ ops[h].at = "pending" /\ ~ Delivered(h)
                 /\ ops'[h].kind = "read" /\ ops'[h].at = "completed"
              \/ /\ Delivered(h) /\ ops[h].kind = "io" /\ ops[h].at = "pending"
                 /\ ops'[h] = [kind |-> "io", at |-> "completed",
                               val |-> CHOOSE v \in Held(h) : v # None]
         /\ LET due == {h \in Handles : ops[h].at # "completed" /\ ops'[h].at = "completed"}
            IN  open' = open - Cardinality(due) /\ woken' = woken \cup due
         /\ inbox' = [chunks |-> <<>>, done |-> {}]
         /\ pc' \in {"poll", "wait"}
         /\ UNCHANGED <<session, pending, cancel, guest, socket, got, stop, inputs>>
  <1> DEFINE t == TakeDelivered
             due == {h \in Handles : t.ops[h].at \in {"due", "taken"}}
             v(h) == CHOOSE w \in Held(h) : w # None
  <1>1. /\ ops' = [h \in Handles |-> IF h \in due THEN [t.ops[h] EXCEPT !.at = "completed"] ELSE t.ops[h]]
        /\ reads' = t.reads /\ input' = t.input /\ inbox' = [chunks |-> <<>>, done |-> {}]
        /\ open' = open - Cardinality(due) /\ woken' = woken \cup due
        /\ pc' \in {"poll", "wait"}
        /\ UNCHANGED <<session, pending, cancel, guest, socket, got, stop, inputs>>
    BY DEF Collect
  <1>2. /\ t.ops \in Seq(Op) /\ DOMAIN t.ops = Handles
        /\ t.reads \in Seq(Nat) /\ Sorted(t.reads) /\ Range(t.reads) = Waiting(t.ops)
        /\ t.input \in InputType
        /\ \A h \in Handles :
             \/ t.ops[h] = ops[h] /\ ~ Delivered(h)
             \/ /\ h \in Waiting(ops) /\ t.ops[h].kind = "read" /\ t.ops[h].at = "taken"
                /\ ~ Delivered(h)
             \/ Delivered(h) /\ t.ops[h] = [kind |-> "io", at |-> "taken", val |-> v(h)]
    BY TakenIs
  <1> HIDE DEF t, v
  <1>3. \A h \in Handles : t.ops[h] \in Op
    BY <1>2
  <1>4. \A h \in Handles :
          /\ h \notin due => ops'[h] = t.ops[h] /\ t.ops[h].at \in {"pending", "completed"}
          /\ h \in due => ops'[h] = [kind |-> t.ops[h].kind, at |-> "completed", val |-> t.ops[h].val]
                          /\ t.ops[h].at \in {"due", "taken"}
          /\ ops'[h] \in Op
    <2> SUFFICES ASSUME NEW h \in Handles
                 PROVE /\ h \notin due => ops'[h] = t.ops[h] /\ t.ops[h].at \in {"pending", "completed"}
                       /\ h \in due => ops'[h] = [kind |-> t.ops[h].kind, at |-> "completed", val |-> t.ops[h].val]
                                       /\ t.ops[h].at \in {"due", "taken"}
                       /\ ops'[h] \in Op
      OBVIOUS
    <2> DEFINE o == t.ops[h]
    <2>1. o \in Op /\ o.at \in OpStates
      BY <1>3 DEF Op
    <2>2. h \in due <=> o.at \in {"due", "taken"}
      OBVIOUS
    <2>3. h \notin due => ops'[h] = o /\ o.at \in {"pending", "completed"}
      BY <1>1, <2>1, <2>2 DEF OpStates
    <2>4. h \in due => ops'[h] = [o EXCEPT !.at = "completed"]
      BY <1>1
    <2> HIDE DEF o, due
    <2>5. /\ [o EXCEPT !.at = "completed"] = [kind |-> o.kind, at |-> "completed", val |-> o.val]
          /\ [kind |-> o.kind, at |-> "completed", val |-> o.val] \in Op
      BY <2>1, OpAt DEF OpStates
    <2> QED
      BY <2>1, <2>2, <2>3, <2>4, <2>5 DEF o
  <1>5. ops' = [h \in DOMAIN ops |-> ops'[h]]
    BY <1>1 DEF Handles
  <1>6. due \subseteq Handles
    OBVIOUS
  <1> HIDE DEF due
  <1>7. ops' \in Seq(Op) /\ Handles' = Handles
    <2>1. ops \in Seq(Op)
      BY DEF TypeOK
    <2>2. \A h \in DOMAIN ops : ops'[h] \in Op
      BY <1>4 DEF Handles
    <2> QED
      BY <1>5, <2>1, <2>2, SeqLike DEF Handles
  <1>8. \A h \in Handles :
          \/ /\ ops[h].at \in {"pending", "completed"} /\ ops'[h] = ops[h] /\ ~ Delivered(h) /\ h \notin due
          \/ /\ ops[h].at \in {"due", "taken"} /\ ops'[h].at = "completed" /\ ~ Delivered(h)
             /\ ops'[h].kind = ops[h].kind /\ ops'[h].val = ops[h].val /\ h \in due
          \/ /\ ops[h].kind = "read" /\ ops[h].at = "pending" /\ ~ Delivered(h)
             /\ ops'[h].kind = "read" /\ ops'[h].at = "completed" /\ h \in due
          \/ /\ Delivered(h) /\ ops[h].kind = "io" /\ ops[h].at = "pending"
             /\ ops'[h] = [kind |-> "io", at |-> "completed", val |-> v(h)] /\ h \in due
    <2> SUFFICES ASSUME NEW h \in Handles
                 PROVE
          \/ /\ ops[h].at \in {"pending", "completed"} /\ ops'[h] = ops[h] /\ ~ Delivered(h) /\ h \notin due
          \/ /\ ops[h].at \in {"due", "taken"} /\ ops'[h].at = "completed" /\ ~ Delivered(h)
             /\ ops'[h].kind = ops[h].kind /\ ops'[h].val = ops[h].val /\ h \in due
          \/ /\ ops[h].kind = "read" /\ ops[h].at = "pending" /\ ~ Delivered(h)
             /\ ops'[h].kind = "read" /\ ops'[h].at = "completed" /\ h \in due
          \/ /\ Delivered(h) /\ ops[h].kind = "io" /\ ops[h].at = "pending"
             /\ ops'[h] = [kind |-> "io", at |-> "completed", val |-> v(h)] /\ h \in due
      OBVIOUS
    <2> DEFINE o == t.ops[h]
               w == v(h)
    <2>0. /\ h \notin due => ops'[h] = o /\ o.at \in {"pending", "completed"}
          /\ h \in due => ops'[h] = [kind |-> o.kind, at |-> "completed", val |-> o.val]
                          /\ o.at \in {"due", "taken"}
      BY <1>4
    <2>4. \/ o = ops[h] /\ ~ Delivered(h)
          \/ /\ h \in Waiting(ops) /\ o.kind = "read" /\ o.at = "taken"
             /\ ~ Delivered(h)
          \/ Delivered(h) /\ o = [kind |-> "io", at |-> "taken", val |-> w]
      BY <1>2
    <2> HIDE DEF o, w
    <2>1. CASE o = ops[h] /\ ~ Delivered(h)
      <3>1. CASE h \in due
        BY <2>0, <2>1, <3>1
      <3>2. CASE h \notin due
        BY <2>0, <2>1, <3>2
      <3> QED
        BY <3>1, <3>2
    <2>2. CASE h \in Waiting(ops) /\ o.kind = "read" /\ o.at = "taken" /\ ~ Delivered(h)
      <3>1. h \in due /\ ops[h].kind = "read" /\ ops[h].at = "pending"
        BY <2>0, <2>2 DEF Waiting
      <3> QED
        BY <2>0, <2>2, <3>1
    <2>3. CASE Delivered(h) /\ o = [kind |-> "io", at |-> "taken", val |-> w]
      <3>1. ops[h].kind = "io" /\ ops[h].at = "pending"
        BY <2>3, DeliveredIs
      <3>2. h \in due
        BY <2>0, <2>3
      <3>3. ops'[h] = [kind |-> "io", at |-> "completed", val |-> w]
        BY <2>0, <2>3, <3>2
      <3> QED
        BY <2>3, <3>1, <3>2, <3>3 DEF w
    <2> QED
      BY <2>1, <2>2, <2>3, <2>4
  <1>9. due = {h \in Handles : ops[h].at # "completed" /\ ops'[h].at = "completed"}
    <2>1. ASSUME NEW h \in Handles
          PROVE  h \in due <=> ops[h].at # "completed" /\ ops'[h].at = "completed"
      <3> DEFINE w == v(h)
      <3>1. \/ /\ ops[h].at \in {"pending", "completed"} /\ ops'[h] = ops[h] /\ h \notin due
            \/ ops[h].at \in {"due", "taken"} /\ ops'[h].at = "completed" /\ h \in due
            \/ ops[h].at = "pending" /\ ops'[h].at = "completed" /\ h \in due
            \/ /\ ops[h].at = "pending" /\ h \in due
               /\ ops'[h] = [kind |-> "io", at |-> "completed", val |-> w]
        BY <1>8
      <3> HIDE DEF w
      <3> QED
        BY <3>1
    <2> QED
      BY <1>6, <2>1
  <1>10. Waiting(ops') = Waiting(t.ops)
    <2>1. \A h \in Handles : h \in Waiting(ops') <=> h \in Waiting(t.ops)
      BY <1>2, <1>4, <1>7 DEF Waiting, Handles
    <2> QED
      BY <1>2, <1>7, <2>1 DEF Waiting, Handles
  <1> QED
    BY <1>1, <1>2, <1>7, <1>8, <1>9, <1>10 DEF v

LEMMA CollectStep ==
  ASSUME ReactorInv, Collect
  PROVE  ReactorInv'
  <1> DEFINE due == {h \in Handles : ops[h].at # "completed" /\ ops'[h].at = "completed"}
  <1>1. TypeOK /\ OpenCounts /\ ReadsWait /\ DeliveriesInv /\ ToldInv
    BY DEF ReactorInv
  <1>2. /\ ops' \in Seq(Op) /\ Handles' = Handles
        /\ reads' \in Seq(Nat) /\ Sorted(reads') /\ Range(reads') = Waiting(ops')
        /\ input' \in InputType
        /\ open' = open - Cardinality(due) /\ woken' = woken \cup due
        /\ inbox' = [chunks |-> <<>>, done |-> {}] /\ pc' \in {"poll", "wait"}
        /\ UNCHANGED <<session, guest, socket, got, stop>>
    BY <1>1, CollectIs
  <1>3. \A h \in Handles :
          /\ ops'[h].kind = ops[h].kind
          /\ ops'[h].at \in {"pending", "completed"} /\ ops[h].at \in OpStates
          /\ ops'[h].at = "pending" => ops'[h] = ops[h]
          /\ ops[h].at = "completed" => ops'[h] = ops[h]
          /\ ops[h].kind = "io" /\ ops[h].at # "completed" /\ ops'[h].at = "completed"
               => ops'[h].val = ops[h].val \/ ops'[h].val \in Nat
          /\ ops[h].kind = "io" => ops'[h].at # "pending" \/ ~ Delivered(h)
    <2> SUFFICES ASSUME NEW h \in Handles
                 PROVE
          /\ ops'[h].kind = ops[h].kind
          /\ ops'[h].at \in {"pending", "completed"} /\ ops[h].at \in OpStates
          /\ ops'[h].at = "pending" => ops'[h] = ops[h]
          /\ ops[h].at = "completed" => ops'[h] = ops[h]
          /\ ops[h].kind = "io" /\ ops[h].at # "completed" /\ ops'[h].at = "completed"
               => ops'[h].val = ops[h].val \/ ops'[h].val \in Nat
          /\ ops[h].kind = "io" => ops'[h].at # "pending" \/ ~ Delivered(h)
      OBVIOUS
    <2> DEFINE v == CHOOSE w \in Held(h) : w # None
    <2>1. \/ /\ ops[h].at \in {"pending", "completed"} /\ ops'[h] = ops[h] /\ ~ Delivered(h)
          \/ /\ ops[h].at \in {"due", "taken"} /\ ops'[h].at = "completed" /\ ~ Delivered(h)
             /\ ops'[h].kind = ops[h].kind /\ ops'[h].val = ops[h].val
          \/ /\ ops[h].kind = "read" /\ ops[h].at = "pending" /\ ~ Delivered(h)
             /\ ops'[h].kind = "read" /\ ops'[h].at = "completed"
          \/ /\ Delivered(h) /\ ops[h].kind = "io" /\ ops[h].at = "pending"
             /\ ops'[h] = [kind |-> "io", at |-> "completed", val |-> v]
      BY <1>1, CollectIs
    <2>2. Delivered(h) => v \in Nat
      BY <1>1, DeliveredIs
    <2> HIDE DEF v
    <2> QED
      BY <2>1, <2>2 DEF OpStates
  <1>4. TypeOK'
    <2>1. woken' \subseteq Handles'
      BY <1>1, <1>2 DEF TypeOK
    <2>2. inbox' \in [chunks : Seq(Int), done : SUBSET (Handles' \X Nat)]
      BY <1>2
    <2>3. pc' \in Points
      BY <1>2 DEF Points
    <2> QED
      BY <1>1, <1>2, <2>1, <2>2, <2>3 DEF TypeOK, InputType
  <1>5. \A h \in Handles : ops[h].kind = "gone" => ops[h].at = "completed"
    BY <1>1 DEF ToldInv
  <1>6. OpenCounts'
    <2>1. due \subseteq Uncompleted
      BY <1>3, <1>5 DEF Uncompleted, Here
    <2>2. Uncompleted' = Uncompleted \ due
      <3>1. \A h \in Handles : h \in Uncompleted' <=> h \in Uncompleted /\ h \notin due
        BY <1>2, <1>3, <1>5 DEF Uncompleted, Here
      <3> QED
        BY <1>2, <3>1 DEF Uncompleted
    <2>3. IsFiniteSet(Uncompleted)
      BY <1>1, OpsFacts
    <2> HIDE DEF due
    <2>4. Uncompleted \cap due = due
      BY <2>1
    <2> QED
      BY <1>1, <1>2, <2>2, <2>3, <2>4, FS_Difference DEF OpenCounts
  <1>7. ReadsWait'
    BY <1>2 DEF ReadsWait, Sorted, Waiting, Handles
  <1>8. DeliveriesInv'
    <2>1. inbox'.done = {}
      BY <1>2
    <2>2. \A h \in Handles : ops'[h].kind = "io" => ops'[h].val >= Disposed
      <3>1. \A h \in Handles : ops[h].kind = "io" => ops[h].val >= Disposed
        BY <1>1 DEF DeliveriesInv
      <3> QED
        BY <1>3, <3>1 DEF Disposed
    <2>3. \A h \in Handles : ops'[h].kind = "io" /\ ops'[h].at = "pending" => ops'[h].val = None
      BY <1>1, <1>3 DEF DeliveriesInv
    <2> QED
      BY <1>2, <2>1, <2>2, <2>3 DEF DeliveriesInv
  <1>9. ToldInv'
    <2>1. \A h \in Handles : ops'[h].kind = "gone" => ops'[h].at = "completed"
      BY <1>3, <1>5
    <2>2. \A h \in Handles : ops'[h].kind # "gone" /\ ops'[h].at = "completed" => h \in woken'
      BY <1>1, <1>2, <1>3 DEF ToldInv, Here
    <2>3. woken \subseteq Handles
      BY <1>1 DEF TypeOK
    <2>4. \A h \in woken' : ops'[h].at = "completed"
      BY <1>1, <1>2, <1>3, <2>3 DEF ToldInv
    <2>5. ~ Ended'
      BY <1>2 DEF Ended, Outcomes
    <2> QED
      BY <1>2, <2>1, <2>2, <2>4, <2>5 DEF ToldInv, Here
  <1> QED
    BY <1>4, <1>6, <1>7, <1>8, <1>9 DEF ReactorInv

LEMMA NextInputStep ==
  ASSUME ReactorInv, NextInput
  PROVE  ReactorInv'
  <1>1. TypeOK /\ OpenCounts /\ ReadsWait /\ DeliveriesInv /\ ToldInv
    BY DEF ReactorInv
  <1>2. /\ Ended /\ pc' = "poll" /\ guest' = "runs" /\ woken' = {}
        /\ stop' = [stop EXCEPT !.flag = FALSE]
        /\ UNCHANGED <<session, reactor>>
    BY DEF NextInput
  <1>3. Handles' = Handles
    BY <1>2 DEF reactor, Handles
  <1>4. TypeOK'
    <2>1. stop' \in [flag : BOOLEAN, waking : Nat, asked : Nat]
      BY <1>1, <1>2 DEF TypeOK
    <2> QED
      BY <1>1, <1>2, <1>3, <2>1 DEF TypeOK, reactor, Points
  <1>5. OpenCounts'
    <2>1. Uncompleted' = Uncompleted
      BY <1>2 DEF reactor, Uncompleted, Handles, Here
    <2> QED
      BY <1>1, <1>2, <2>1 DEF OpenCounts, reactor
  <1>6. ReadsWait' /\ DeliveriesInv'
    BY <1>1, <1>2, <1>3 DEF ReadsWait, DeliveriesInv, reactor
  <1>7. ToldInv'
    BY <1>1, <1>2, <1>3 DEF ToldInv, reactor, Here
  <1> QED
    BY <1>4, <1>5, <1>6, <1>7 DEF ReactorInv

LEMMA NextStep ==
  ASSUME ReactorInv, Next
  PROVE  ReactorInv'
  <1>1. CASE Poll \/ PollOther \/ Pends \/ Interrupted \/ Wait \/ Park \/ Woken
    BY <1>1, QuietSteps
  <1>2. CASE Request \/ Wake \/ BoundPasses \/ TimedOut
    BY <1>2, QuietSteps
  <1>3. CASE Trapped \/ Deadlocks \/ Returns
    <2>1. \E outcome \in Outcomes : Ends(outcome)
      BY <1>3 DEF Trapped, Deadlocks, Returns, Outcomes
    <2> QED
      BY <2>1, EndsStep
  <1>4. CASE Collect
    BY <1>4, CollectStep
  <1>5. CASE Program
    BY <1>5, ProgramStep
  <1>6. ASSUME NEW h \in Handles, TaskEnds(h) \/ TimerPasses(h) PROVE ReactorInv'
    BY <1>6, TaskEndsStep, TimerPassesStep
  <1>7. CASE ReaderReads
    BY <1>7, ReaderReadsStep
  <1>8. CASE NextInput
    BY <1>8, NextInputStep
  <1> QED
    BY <1>1, <1>2, <1>3, <1>4, <1>5, <1>6, <1>7, <1>8 DEF Next, Loop, Others

LEMMA InitReactor ==
  ASSUME Init
  PROVE  ReactorInv
  <1>1. ops = <<>> /\ Handles = {} /\ reads = <<>> /\ DOMAIN reads = {} /\ Range(reads) = {}
    BY DEF Init, Handles, Range
  <1>2. TypeOK
    <2>1. NoInput \in [buffered : Seq(Int), ended : BOOLEAN, asked : BOOLEAN, lines : Nat]
      BY DEF NoInput
    <2>2. pc \in Points
      BY DEF Init, Points
    <2> QED
      BY <1>1, <2>1, <2>2 DEF Init, TypeOK
  <1>3. OpenCounts
    <2>1. Uncompleted = {}
      BY <1>1 DEF Uncompleted
    <2> QED
      BY <2>1, FS_EmptySet DEF Init, OpenCounts
  <1>4. ReadsWait
    BY <1>1 DEF ReadsWait
  <1>5. DeliveriesInv
    BY <1>1 DEF DeliveriesInv, Init
  <1>6. ToldInv
    BY <1>1 DEF ToldInv, Init
  <1> QED
    BY <1>2, <1>3, <1>4, <1>5, <1>6 DEF ReactorInv

\* reactor.rs, instance.rs: the count, the reads that wait, the deliveries and the
\* wake table agree after every step of the loop, the program and the other threads.
THEOREM KeepsReactorInv == Spec => []ReactorInv
  <1>1. Init => ReactorInv
    BY InitReactor
  <1>2. ReactorInv /\ [Next]_vars => ReactorInv'
    <2> SUFFICES ASSUME ReactorInv, [Next]_vars PROVE ReactorInv'
      OBVIOUS
    <2>1. CASE Next
      BY <2>1, NextStep
    <2>2. CASE UNCHANGED vars
      <3>1. /\ UNCHANGED <<session, pc, guest, reactor, woken, stop>>
            /\ pc \in Points /\ guest \in {"runs", "cleanup", "abandoned", "last"}
            /\ stop \in [flag : BOOLEAN, waking : Nat, asked : Nat]
        BY <2>2 DEF vars, ReactorInv, TypeOK
      <3> QED
        BY <3>1, QuietStep DEF Ended
    <2> QED
      BY <2>1, <2>2
  <1> QED
    BY <1>1, <1>2, PTL DEF Spec

-----------------------------------------------------------------------------
(***************************************************************************)
(* No item is lost, and none is in two places.                             *)
(***************************************************************************)

\* An operation on the socket has the item, or has it in the inbox.
InHand(v) == \E h \in Handles : v \in ItemsOf(h)

NoneLost == socket.closed \/
  1 .. socket.items = got.items \cup socket.unread \cup UNION {ItemsOf(h) : h \in Handles}

NoneTwice == socket.closed \/ \A v :
  /\ ~ (v \in got.items /\ v \in socket.unread)
  /\ \A h \in Handles : v \in ItemsOf(h) =>
       /\ v \notin got.items /\ v \notin socket.unread
       /\ \A i \in Handles : v \in ItemsOf(i) => i = h

Kept == NoneLost /\ NoneTwice

LEMMA KeptMeans == Kept <=> ItemsAreKept
  <1>1. NoneTwice <=>
          \/ socket.closed
          \/ /\ got.items \cap socket.unread = {}
             /\ \A h \in Handles : /\ ItemsOf(h) \cap (got.items \cup socket.unread) = {}
                                   /\ \A i \in Handles \ {h} : ItemsOf(h) \cap ItemsOf(i) = {}
    BY DEF NoneTwice
  <1> QED
    BY <1>1 DEF Kept, NoneLost, ItemsAreKept

\* The items are as many and where they were, but for those that some operations
\* had, which may have gone back.
LEMMA KeptAgain ==
  ASSUME Kept, ~ socket'.closed => ~ socket.closed, socket'.items = socket.items,
         got'.items = got.items, NEW S \in SUBSET Handles,
         ~ socket'.closed =>
           /\ \A v : v \in socket'.unread <=> v \in socket.unread \/ \E h \in S : v \in ItemsOf(h)
           /\ \A v : \A h \in Handles' : v \in ItemsOf(h)' => h \in Handles \ S /\ v \in ItemsOf(h)
           /\ \A v : \A h \in Handles \ S : v \in ItemsOf(h) => h \in Handles' /\ v \in ItemsOf(h)'
  PROVE  Kept'
  <1> SUFFICES ASSUME ~ socket'.closed PROVE Kept'
    BY DEF Kept, NoneLost, NoneTwice
  <1> DEFINE hand == UNION {ItemsOf(h) : h \in Handles}
  <1>1. 1 .. socket.items = got.items \cup socket.unread \cup hand
    BY DEF Kept, NoneLost
  <1>2. \A v : v \in hand <=> InHand(v)
    BY DEF InHand
  <1>3. \A v : v \in hand' <=> InHand(v)'
    BY DEF InHand
  <1> HIDE DEF hand
  <1>4. \A v : v \in socket'.unread \/ InHand(v)' <=> v \in socket.unread \/ InHand(v)
    BY DEF InHand
  <1>5. got'.items \cup socket'.unread \cup hand' = got.items \cup socket.unread \cup hand
    BY <1>2, <1>3, <1>4
  <1>6. 1 .. socket'.items = got'.items \cup socket'.unread \cup hand'
    BY <1>1, <1>5
  <1>7. NoneLost'
    BY <1>6 DEF NoneLost, hand
  <1>8. NoneTwice'
    BY DEF Kept, NoneTwice
  <1> QED
    BY <1>7, <1>8 DEF Kept

\* What the operations on the socket have is the same when their results and the
\* deliveries are.
LEMMA HandSame ==
  ASSUME TypeOK, Handles \subseteq Handles', inbox'.done = inbox.done,
         \A h \in Handles : \/ ops'[h].kind = ops[h].kind /\ ops'[h].val = ops[h].val
                            \/ ops'[h].kind # "io" /\ ops[h].kind # "io",
         \A h \in Handles' : h \in Handles \/ ops'[h].kind # "io" \/ ops'[h].val = None
  PROVE  /\ \A h \in Handles : ItemsOf(h)' = ItemsOf(h)
         /\ \A h \in Handles' : h \notin Handles => ItemsOf(h)' = {}
  <1>1. \A d \in inbox.done : d[1] \in Handles
    BY DEF TypeOK
  <1>2. ASSUME NEW h \in Handles PROVE ItemsOf(h)' = ItemsOf(h)
    <2>1. ASSUME ops[h].kind = "io" \/ ops'[h].kind = "io"
          PROVE  Held(h)' = Held(h) /\ ops[h].kind = "io" /\ ops'[h].kind = "io"
      BY <1>2, <2>1 DEF Held
    <2> QED
      BY <2>1 DEF ItemsOf
  <1>3. ASSUME NEW h \in Handles', h \notin Handles PROVE ItemsOf(h)' = {}
    <2>1. ops'[h].kind = "io" => Held(h)' = {None}
      BY <1>1, <1>3 DEF Held
    <2>2. ~ (None > 0)
      BY DEF None
    <2> QED
      BY <2>1, <2>2 DEF ItemsOf
  <1> QED
    BY <1>2, <1>3

\* A step that leaves the socket, what was given and what the operations have.
LEMMA KeptSame ==
  ASSUME Kept, UNCHANGED <<socket, got>>, Handles \subseteq Handles',
         \A h \in Handles : ItemsOf(h)' = ItemsOf(h),
         \A h \in Handles' : h \notin Handles => ItemsOf(h)' = {}
  PROVE  Kept'
  <1>1. \A v : \A h \in Handles' : v \in ItemsOf(h)' => h \in Handles \ {} /\ v \in ItemsOf(h)
    OBVIOUS
  <1>2. \A v : \A h \in Handles \ {} : v \in ItemsOf(h) => h \in Handles' /\ v \in ItemsOf(h)'
    OBVIOUS
  <1>3. \A v : v \in socket'.unread <=> v \in socket.unread \/ \E h \in {} : v \in ItemsOf(h)
    OBVIOUS
  <1>4. {} \in SUBSET Handles
    OBVIOUS
  <1> QED
    BY <1>1, <1>2, <1>3, <1>4, KeptAgain

LEMMA KeptByQuiet ==
  ASSUME Kept, UNCHANGED reactor
  PROVE  Kept'
  <1>1. UNCHANGED <<ops, inbox, socket, got>>
    BY DEF reactor
  <1>2. Handles' = Handles /\ \A h \in Handles : ItemsOf(h)' = ItemsOf(h)
    BY <1>1 DEF ItemsOf, Held, Handles
  <1> QED
    BY <1>1, <1>2, KeptSame

\* A new item is in one delivery, and nowhere else.
LEMMA KeptByTask ==
  ASSUME ReactorInv, Kept, NEW h \in Handles, TaskEnds(h)
  PROVE  Kept'
  <1> SUFFICES ASSUME ~ socket'.closed PROVE Kept'
    BY DEF Kept, NoneLost, NoneTwice
  <1> DEFINE w == socket.items + 1
             hand == UNION {ItemsOf(i) : i \in Handles}
  <1>1. TypeOK
    BY DEF ReactorInv
  <1>2. /\ socket.items \in Nat /\ w \in Nat /\ w > 0
        /\ socket' = [socket EXCEPT !.items = w] /\ ops[h].kind = "io"
        /\ inbox' = [inbox EXCEPT !.done = inbox.done \cup {<<h, w>>}]
        /\ UNCHANGED <<ops, got>>
    BY <1>1 DEF TaskEnds, TaskRuns, TypeOK
  <1>3. /\ socket'.items = w /\ socket'.unread = socket.unread /\ socket'.closed = socket.closed
        /\ inbox'.done = inbox.done \cup {<<h, w>>} /\ Handles' = Handles
    BY <1>1, <1>2 DEF TypeOK, Handles
  <1>4. 1 .. socket.items = got.items \cup socket.unread \cup hand
    BY <1>3 DEF Kept, NoneLost
  <1>5. 1 .. w = 1 .. socket.items \cup {w} /\ w \notin 1 .. socket.items
    BY <1>2
  <1> HIDE DEF w
  <1>6. Held(h)' = Held(h) \cup {w} /\ \A i \in Handles : i # h => Held(i)' = Held(i)
    <2> DEFINE x == <<h, w>>
    <2>1. x[1] = h /\ x[2] = w /\ inbox'.done = inbox.done \cup {x}
      BY <1>3
    <2> HIDE DEF x
    <2>2. ASSUME NEW i
          PROVE {e \in inbox'.done : e[1] = i}
                  = {e \in inbox.done : e[1] = i} \cup (IF i = h THEN {x} ELSE {})
      BY <2>1
    <2>3. \A i \in Handles : Held(i)' = {ops[i].val} \cup {d[2] : d \in {e \in inbox'.done : e[1] = i}}
      BY <1>2 DEF Held
    <2>4. Held(h)' = Held(h) \cup {w}
      BY <2>1, <2>2, <2>3 DEF Held
    <2>5. \A i \in Handles : i # h => Held(i)' = Held(i)
      BY <2>2, <2>3 DEF Held
    <2> QED
      BY <2>4, <2>5
  <1>7. ItemsOf(h)' = ItemsOf(h) \cup {w} /\ \A i \in Handles : i # h => ItemsOf(i)' = ItemsOf(i)
    BY <1>2, <1>6 DEF ItemsOf
  <1>8. \A v : v \in hand <=> \E i \in Handles : v \in ItemsOf(i)
    OBVIOUS
  <1>9. \A v : v \in hand' <=> \E i \in Handles : v \in ItemsOf(i)'
    BY <1>3
  <1> HIDE DEF hand
  <1>10. hand' = hand \cup {w}
    BY <1>7, <1>8, <1>9
  <1>11. 1 .. socket'.items = got'.items \cup socket'.unread \cup hand'
    BY <1>2, <1>3, <1>4, <1>5, <1>10
  <1>12. NoneLost'
    BY <1>11 DEF NoneLost, hand
  <1>13. w \notin got.items /\ w \notin socket.unread /\ \A i \in Handles : w \notin ItemsOf(i)
    BY <1>4, <1>5, <1>8
  <1>14. NoneTwice'
    BY <1>2, <1>3, <1>7, <1>13 DEF Kept, NoneTwice
  <1> QED
    BY <1>12, <1>14 DEF Kept

\* What an operation that is removed had is nobody's.
LEMMA HandRemoved ==
  ASSUME ReactorInv, NEW h \in Handles, RemoveOp(h)
  PROVE  /\ Handles' = Handles /\ ItemsOf(h)' = {}
         /\ \A i \in Handles : i # h => ItemsOf(i)' = ItemsOf(i)
  <1>1. /\ Handles' = Handles /\ ops'[h] = Gone /\ Gone.kind = "gone"
        /\ \A i \in Handles : i # h => ops'[i] = ops[i]
        /\ inbox'.done = {d \in inbox.done : d[1] # h}
    BY RemovedIs DEF Gone
  <1>2. ASSUME NEW i \in Handles, i # h PROVE Held(i)' = Held(i)
    BY <1>1, <1>2 DEF Held
  <1> QED
    BY <1>1, <1>2 DEF ItemsOf

LEMMA KeptByAbort ==
  ASSUME ReactorInv, Kept, NEW h \in Handles, Abort(h)
  PROVE  Kept'
  <1>1. TypeOK
    BY DEF ReactorInv
  <1>2. /\ RemoveOp(h) /\ UNCHANGED got
        /\ socket' = IF ops[h].kind = "io" THEN Unread(Held(h)) ELSE socket
    BY DEF Abort, Returned
  <1>3. /\ Handles' = Handles /\ ItemsOf(h)' = {}
        /\ \A i \in Handles : i # h => ItemsOf(i)' = ItemsOf(i)
    BY <1>2, HandRemoved
  <1>4. /\ socket'.closed = socket.closed /\ socket'.items = socket.items
        /\ ~ socket.closed => socket'.unread = socket.unread \cup ItemsOf(h)
    <2>1. CASE ops[h].kind = "io"
      BY <1>1, <1>2, <2>1, HeldIsInt, UnreadIs DEF ItemsOf
    <2>2. CASE ops[h].kind # "io"
      BY <1>2, <2>2 DEF ItemsOf
    <2> QED
      BY <2>1, <2>2
  <1>5. /\ {h} \in SUBSET Handles
        /\ \A v : \A i \in Handles' : v \in ItemsOf(i)' => i \in Handles \ {h} /\ v \in ItemsOf(i)
        /\ \A v : \A i \in Handles \ {h} : v \in ItemsOf(i) => i \in Handles' /\ v \in ItemsOf(i)'
    BY <1>3
  <1>6. ~ socket'.closed =>
          \A v : v \in socket'.unread <=> v \in socket.unread \/ \E i \in {h} : v \in ItemsOf(i)
    BY <1>4
  <1> QED
    BY <1>2, <1>4, <1>5, <1>6, KeptAgain

LEMMA KeptByFinish ==
  ASSUME ReactorInv, Kept, NEW h \in Handles, Finish(h)
  PROVE  Kept'
  <1> SUFFICES ASSUME ~ socket'.closed PROVE Kept'
    BY DEF Kept, NoneLost, NoneTwice
  <1> DEFINE value == {ops[h].val} \ {None, Disposed, EndOfInput, Failed}
             hand == UNION {ItemsOf(i) : i \in Handles}
  <1>1. TypeOK /\ DeliveriesInv /\ ToldInv
    BY DEF ReactorInv
  <1>2. /\ RemoveOp(h) /\ h \in woken /\ UNCHANGED socket
        /\ got' = [items |-> IF ops[h].kind = "io" THEN got.items \cup value ELSE got.items,
                   lines |-> IF ops[h].kind = "read" THEN got.lines \cup value ELSE got.lines]
    BY DEF Finish
  <1>3. /\ Handles' = Handles /\ ItemsOf(h)' = {}
        /\ \A i \in Handles : i # h => ItemsOf(i)' = ItemsOf(i)
    BY <1>2, HandRemoved
  <1>4. got'.items = got.items \cup ItemsOf(h)
    <2>1. CASE ops[h].kind = "io"
      <3>1. ~ Delivered(h)
        BY <1>1, <1>2, DeliveredIs DEF ToldInv
      <3>2. Held(h) = {ops[h].val}
        BY <3>1, NotDelivered
      <3>3. ops[h].val \in Int /\ ops[h].val >= Disposed
        BY <1>1, <2>1, OpsFacts DEF DeliveriesInv
      <3>4. \A v : v \in value <=> v \in Held(h) /\ v > 0
        BY <3>2, <3>3 DEF None, Disposed, EndOfInput, Failed
      <3>5. got'.items = got.items \cup value
        BY <1>2, <2>1
      <3> HIDE DEF value
      <3>6. \A v : v \in ItemsOf(h) <=> v \in value
        BY <2>1, <3>4 DEF ItemsOf
      <3> QED
        BY <3>5, <3>6
    <2>2. CASE ops[h].kind # "io"
      BY <1>2, <2>2 DEF ItemsOf
    <2> QED
      BY <2>1, <2>2
  <1>5. 1 .. socket.items = got.items \cup socket.unread \cup hand
    BY <1>2 DEF Kept, NoneLost
  <1>6. \A v : v \in hand <=> \E i \in Handles : v \in ItemsOf(i)
    OBVIOUS
  <1>7. \A v : v \in hand' <=> \E i \in Handles : v \in ItemsOf(i)'
    BY <1>3
  <1> HIDE DEF hand, value
  <1>8. got'.items \cup hand' = got.items \cup hand
    BY <1>3, <1>4, <1>6, <1>7
  <1>9. 1 .. socket'.items = got'.items \cup socket'.unread \cup hand'
    BY <1>2, <1>5, <1>8
  <1>10. NoneLost'
    BY <1>9 DEF NoneLost, hand
  <1>11. NoneTwice'
    BY <1>2, <1>3, <1>4 DEF Kept, NoneTwice
  <1> QED
    BY <1>10, <1>11 DEF Kept

LEMMA KeptByStart ==
  ASSUME ReactorInv, Kept, NEW kind \in {"sleep", "io"}, ops' = Started(kind),
         UNCHANGED <<inbox, socket, got>>
  PROVE  Kept'
  <1> DEFINE n == Len(ops) + 1
  <1>1. TypeOK
    BY DEF ReactorInv
  <1>2. /\ Handles' = Handles \cup {n} /\ \A h \in Handles : ops'[h] = ops[h]
        /\ ops'[n].val = None
    BY <1>1, StartedIs DEF Handles
  <1> HIDE DEF n
  <1>3. /\ \A h \in Handles : ItemsOf(h)' = ItemsOf(h)
        /\ \A h \in Handles' : h \notin Handles => ItemsOf(h)' = {}
    BY <1>1, <1>2, HandSame
  <1> QED
    BY <1>2, <1>3, KeptSame

LEMMA KeptByReadLine ==
  ASSUME ReactorInv, Kept, ReadLine
  PROVE  Kept'
  <1> DEFINE n == Len(ops) + 1
  <1>1. TypeOK
    BY DEF ReactorInv
  <1>2. UNCHANGED <<inbox, socket, got>>
    BY DEF ReadLine
  <1>3. /\ Handles' = Handles \cup {n} /\ ops'[n].kind = "read"
        /\ \A h \in Handles : \/ ops'[h] = ops[h]
                              \/ /\ ops[h].kind = "read" /\ ops[h].at = "pending"
                                 /\ ops'[h].kind = "read" /\ ops'[h].at = "taken"
    BY ReadLineIs
  <1> HIDE DEF n
  <1>4. /\ \A h \in Handles : ItemsOf(h)' = ItemsOf(h)
        /\ \A h \in Handles' : h \notin Handles => ItemsOf(h)' = {}
    BY <1>1, <1>2, <1>3, HandSame
  <1> QED
    BY <1>2, <1>3, <1>4, KeptSame

\* What was kept for the next read is given, and kept no more.
LEMMA KeptByReadSocket ==
  ASSUME ReactorInv, Kept, ReadSocket
  PROVE  Kept'
  <1>1. CASE socket.unread = {}
    BY <1>1, KeptByStart DEF ReadSocket
  <1>2. CASE socket.unread # {}
    <2>1. /\ ~ socket.closed /\ UNCHANGED <<ops, inbox>>
          /\ got' = [got EXCEPT !.items = @ \cup socket.unread]
          /\ socket' = [socket EXCEPT !.unread = {}]
      BY <1>2 DEF ReadSocket, UnreadDrained
    <2>2. TypeOK
      BY DEF ReactorInv
    <2>3. /\ got'.items = got.items \cup socket.unread /\ socket'.unread = {}
          /\ socket'.closed = socket.closed /\ socket'.items = socket.items
      BY <2>1, <2>2 DEF TypeOK
    <2>4. Handles' = Handles /\ \A h \in Handles : ItemsOf(h)' = ItemsOf(h)
      BY <2>1 DEF ItemsOf, Held, Handles
    <2>5. NoneLost'
      <3>1. UNION {ItemsOf(h)' : h \in Handles'} = UNION {ItemsOf(h) : h \in Handles}
        BY <2>4
      <3> QED
        BY <2>1, <2>3, <3>1 DEF Kept, NoneLost
    <2>6. NoneTwice'
      BY <2>1, <2>3, <2>4 DEF Kept, NoneTwice
    <2> QED
      BY <2>5, <2>6 DEF Kept
  <1> QED
    BY <1>1, <1>2

\* The end of a run gives back what its operations had.
LEMMA KeptByEnd ==
  ASSUME ReactorInv, Kept, NEW outcome, Ends(outcome)
  PROVE  Kept'
  <1> DEFINE left == UNION {Held(h) : h \in {i \in Handles : ops[i].kind = "io"}}
  <1>1. TypeOK
    BY DEF ReactorInv
  <1>2. ops' = [h \in Handles |-> Gone] /\ socket' = Unread(left) /\ UNCHANGED got
    BY DEF Ends
  <1>3. \A v : v \in left /\ v > 0 <=> \E h \in Handles : v \in ItemsOf(h)
    BY DEF ItemsOf
  <1>4. left \subseteq Int
    BY <1>1, HeldIsInt
  <1> HIDE DEF left
  <1>5. /\ socket'.closed = socket.closed /\ socket'.items = socket.items
        /\ ~ socket.closed => socket'.unread = socket.unread \cup {v \in left : v > 0}
    BY <1>1, <1>2, <1>4, UnreadIs
  <1>6. Handles' = Handles /\ \A h \in Handles : ItemsOf(h)' = {}
    BY <1>2 DEF ItemsOf, Handles, Gone
  <1>7. ~ socket'.closed =>
          \A v : v \in socket'.unread <=> v \in socket.unread \/ \E h \in Handles : v \in ItemsOf(h)
    BY <1>3, <1>5
  <1>8. /\ Handles \in SUBSET Handles
        /\ \A v : \A h \in Handles' : v \in ItemsOf(h)' => h \in Handles \ Handles /\ v \in ItemsOf(h)
        /\ \A v : \A h \in Handles \ Handles : v \in ItemsOf(h) => h \in Handles' /\ v \in ItemsOf(h)'
    BY <1>6
  <1> QED
    BY <1>2, <1>5, <1>7, <1>8, KeptAgain

\* A completion takes the result out of the inbox into the operation.
LEMMA KeptByCollect ==
  ASSUME ReactorInv, Kept, Collect
  PROVE  Kept'
  <1>1. TypeOK /\ ReadsWait /\ DeliveriesInv
    BY DEF ReactorInv
  <1>2. /\ Handles' = Handles /\ inbox'.done = {} /\ UNCHANGED <<socket, got>>
    <2>1. Handles' = Handles /\ inbox' = [chunks |-> <<>>, done |-> {}] /\ UNCHANGED <<socket, got>>
      BY <1>1, CollectIs
    <2> QED
      BY <2>1
  <1>3. ASSUME NEW h \in Handles
        PROVE  ItemsOf(h)' = ItemsOf(h)
    <2> DEFINE w == CHOOSE x \in Held(h) : x # None
    <2>1. \/ /\ ops[h].at \in {"pending", "completed"} /\ ops'[h] = ops[h] /\ ~ Delivered(h)
          \/ /\ ops[h].at \in {"due", "taken"} /\ ops'[h].at = "completed" /\ ~ Delivered(h)
             /\ ops'[h].kind = ops[h].kind /\ ops'[h].val = ops[h].val
          \/ /\ ops[h].kind = "read" /\ ops[h].at = "pending" /\ ~ Delivered(h)
             /\ ops'[h].kind = "read" /\ ops'[h].at = "completed"
          \/ /\ Delivered(h) /\ ops[h].kind = "io" /\ ops[h].at = "pending"
             /\ ops'[h] = [kind |-> "io", at |-> "completed", val |-> w]
      BY <1>1, CollectIs
    <2>2. Held(h)' = {ops'[h].val}
      BY <1>2 DEF Held
    <2>3. ~ Delivered(h) => Held(h) = {ops[h].val}
      BY NotDelivered
    <2>4. Delivered(h) => Held(h) = {None, w} /\ w \in Nat
      BY <1>1, DeliveredIs
    <2> HIDE DEF w
    <2>5. ops'[h].kind = ops[h].kind
      BY <2>1
    <2>6. CASE ~ Delivered(h)
      <3>1. ops[h].kind = "io" => ops'[h].val = ops[h].val
        BY <2>1, <2>6
      <3> QED
        BY <2>2, <2>3, <2>5, <2>6, <3>1 DEF ItemsOf
    <2>7. CASE Delivered(h)
      <3>1. ops'[h].val = w
        BY <2>1, <2>7
      <3>2. \A v : v \in Held(h)' /\ v > 0 <=> v \in Held(h) /\ v > 0
        BY <2>2, <2>4, <2>7, <3>1 DEF None
      <3> QED
        BY <2>5, <3>2 DEF ItemsOf
    <2> QED
      BY <2>6, <2>7
  <1> QED
    BY <1>2, <1>3, KeptSame

LEMMA KeptStep ==
  ASSUME ReactorInv, Kept, Next
  PROVE  Kept'
  <1>0. TypeOK
    BY DEF ReactorInv
  <1>1. CASE \/ Poll \/ PollOther \/ Pends \/ Interrupted \/ Wait \/ Park \/ Woken
             \/ Request \/ Wake \/ BoundPasses \/ TimedOut \/ NextInput
    <2>1. UNCHANGED reactor
      BY <1>1 DEF Poll, PollOther, Pends, Interrupted, Wait, Park, Woken, Request, Wake, BoundPasses,
                  TimedOut, NextInput
    <2> QED
      BY <2>1, KeptByQuiet
  <1>2. CASE Trapped \/ Deadlocks \/ Returns
    BY <1>2, KeptByEnd DEF Trapped, Deadlocks, Returns
  <1>3. CASE Collect
    BY <1>3, KeptByCollect
  <1>4. CASE Program
    <2>1. CASE Call(Sleep)
      BY <2>1, KeptByStart DEF Call, Sleep
    <2>2. CASE Call(ReadSocket)
      BY <2>2, KeptByReadSocket DEF Call
    <2>3. CASE Call(ReadLine)
      BY <2>3, KeptByReadLine DEF Call
    <2>4. ASSUME NEW h \in Handles, Call(Finish(h)) PROVE Kept'
      BY <2>4, KeptByFinish DEF Call
    <2>5. ASSUME NEW h \in Handles, Call(Abort(h)) PROVE Kept'
      BY <2>5, KeptByAbort DEF Call
    <2>6. CASE Call(Close)
      <3>1. socket'.closed
        BY <1>0, <2>6, ClosedIs DEF Call
      <3> QED
        BY <3>1 DEF Kept, NoneLost, NoneTwice
    <2> QED
      BY <1>4, <2>1, <2>2, <2>3, <2>4, <2>5, <2>6 DEF Program
  <1>5. ASSUME NEW h \in Handles, TaskEnds(h) PROVE Kept'
    BY <1>5, KeptByTask
  <1>6. ASSUME NEW h \in Handles, TimerPasses(h) PROVE Kept'
    <2>1. /\ ops' = [ops EXCEPT ![h].at = "due"] /\ ops[h].kind = "sleep" /\ UNCHANGED <<inbox, socket, got>>
      BY <1>6 DEF TimerPasses
    <2>2. Handles' = Handles /\ \A i \in Handles : i # h => ops'[i] = ops[i]
      BY <2>1 DEF Handles
    <2>3. ops'[h].kind = ops[h].kind /\ ops'[h].val = ops[h].val
      <3> DEFINE o == ops[h]
      <3>1. o \in Op /\ "due" \in OpStates
        BY <1>0, OpsFacts DEF OpStates
      <3>2. ops'[h] = [o EXCEPT !.at = "due"]
        BY <2>1 DEF Handles
      <3> HIDE DEF o
      <3>3. [o EXCEPT !.at = "due"] = [kind |-> o.kind, at |-> "due", val |-> o.val]
        BY <3>1, OpAt
      <3> QED
        BY <3>2, <3>3 DEF o
    <2>4. \A i \in Handles : ItemsOf(i)' = ItemsOf(i)
      BY <1>0, <2>1, <2>2, <2>3, HandSame
    <2> QED
      BY <2>1, <2>2, <2>4, KeptSame
  <1>7. CASE ReaderReads
    <2>1. /\ inbox'.done = inbox.done /\ UNCHANGED <<ops, socket, got>>
      BY <1>0, <1>7 DEF ReaderReads, TypeOK
    <2>2. Handles' = Handles /\ \A h \in Handles : ItemsOf(h)' = ItemsOf(h)
      BY <2>1 DEF ItemsOf, Held, Handles
    <2> QED
      BY <2>1, <2>2, KeptSame
  <1> QED
    BY <1>1, <1>2, <1>3, <1>4, <1>5, <1>6, <1>7 DEF Next, Loop, Others

\* client.rs, reactor.rs: until the socket is closed, each item a task read from it
\* is with the program, kept for the next read, or with one operation or its
\* delivery (none is lost), and in one of these places only: what the program has,
\* or what went back, nothing holds that could give it again.
THEOREM KeepsItems == Spec => []ItemsAreKept
  <1>1. Init => ReactorInv /\ Kept
    <2> SUFFICES ASSUME Init PROVE Kept
      BY InitReactor
    <2>1. socket.items = 0 /\ got.items = {} /\ socket.unread = {} /\ Handles = {} /\ 1 .. 0 = {}
      BY DEF Init, Handles
    <2> QED
      BY <2>1 DEF Kept, NoneLost, NoneTwice
  <1>2. (ReactorInv /\ Kept) /\ ReactorInv' /\ [Next]_vars => (ReactorInv /\ Kept)'
    <2> SUFFICES ASSUME ReactorInv, Kept, [Next]_vars PROVE Kept'
      OBVIOUS
    <2>1. CASE Next
      BY <2>1, KeptStep
    <2>2. CASE UNCHANGED vars
      BY <2>2, KeptByQuiet DEF vars
    <2> QED
      BY <2>1, <2>2
  <1>3. Kept => ItemsAreKept
    BY KeptMeans
  <1> QED
    BY <1>1, <1>2, <1>3, KeepsReactorInv, PTL DEF Spec

-----------------------------------------------------------------------------
(***************************************************************************)
(* No wake is lost, and a deadlock is real.                                *)
(***************************************************************************)

LEMMA WakeStep ==
  ASSUME ReactorInv, NoWakeIsLost, [Next]_vars
  PROVE  NoWakeIsLost'
  <1> SUFFICES ASSUME pc' = "parked"
               PROVE  /\ stop'.flag => stop'.waking > 0
                      /\ open' > 0 => inbox'.chunks = <<>> /\ inbox'.done = {}
    BY DEF NoWakeIsLost
  <1>1. open \in Nat /\ stop.waking \in Nat
    <2>1. TypeOK /\ OpenCounts
      BY DEF ReactorInv
    <2> QED
      BY <2>1, OpsFacts DEF OpenCounts, TypeOK
  <1>2. CASE pc = "parked"
    <2>1. /\ stop.flag => stop.waking > 0
          /\ open > 0 => inbox.chunks = <<>> /\ inbox.done = {}
      BY <1>2 DEF NoWakeIsLost
    <2>2. CASE Request
      BY <1>1, <2>1, <2>2 DEF Request, reactor
    <2>3. CASE ~ Request
      <3>1. UNCHANGED <<open, inbox, stop>>
        BY <1>2, <2>3 DEF Next, Loop, Program, Call, Others, Poll, PollOther, Trapped, Pends, Deadlocks,
             Returns, Interrupted, Collect, Wait, Park, Woken, TaskEnds, TimerPasses, ReaderReads, Wake,
             BoundPasses, TimedOut, NextInput, Ended, Outcomes, WakeIf, vars, reactor
      <3> QED
        BY <2>1, <3>1
    <2> QED
      BY <2>2, <2>3
  <1>3. CASE pc # "parked"
    <2>1. Park
      BY <1>3 DEF Next, Loop, Program, Call, Others, Poll, PollOther, Trapped, Ends, Pends, Deadlocks,
             Returns, Interrupted, Collect, Wait, Woken, TaskEnds, TimerPasses, ReaderReads, Wake,
             Request, BoundPasses, TimedOut, NextInput, WakeIf, vars
    <2> QED
      BY <1>1, <2>1 DEF Park, MayPark, reactor
  <1> QED
    BY <1>2, <1>3

\* reactor.rs, instance.rs: a loop that sleeps has nothing in its inbox while an
\* operation is open, and a request it has not seen is followed by a wake.
THEOREM KeepsWakes == Spec => []NoWakeIsLost
  <1>1. Init => NoWakeIsLost
    BY DEF Init, NoWakeIsLost
  <1>2. ReactorInv /\ NoWakeIsLost /\ [Next]_vars => NoWakeIsLost'
    BY WakeStep
  <1> QED
    BY <1>1, <1>2, KeepsReactorInv, PTL DEF Spec

\* instance.rs, deadlock: the run is given up only when every operation the program
\* still has completed, and the program was woken for it.
THEOREM OnlyRealDeadlocks == Spec => DeadlocksAreReal
  <1>1. ReactorInv /\ [Next]_vars
          => [pc' = "deadlock" /\ pc # "deadlock" => \A h \in Handles : Here(h) => h \in woken]_vars
    <2> SUFFICES ASSUME ReactorInv, Next, pc' = "deadlock", pc # "deadlock", NEW h \in Handles, Here(h)
                 PROVE  h \in woken
      BY DEF vars
    <2>1. Deadlocks
      BY DEF Next, Loop, Program, Call, Others, Poll, PollOther, Trapped, Ends, Pends,
             Returns, Interrupted, Collect, Wait, Park, Woken, TaskEnds, TimerPasses, ReaderReads, Wake,
             Request, BoundPasses, TimedOut, NextInput, WakeIf
    <2>2. TypeOK /\ OpenCounts /\ ToldInv
      BY DEF ReactorInv
    <2>3. IsFiniteSet(Uncompleted) /\ Cardinality(Uncompleted) \in Nat
      BY <2>2, OpsFacts
    <2>4. Cardinality(Uncompleted) = 0
      BY <2>1, <2>2, <2>3 DEF Deadlocks, OpenCounts
    <2>5. Uncompleted = {}
      BY <2>3, <2>4, FS_EmptySet
    <2>6. ops[h].at = "completed"
      BY <2>5 DEF Uncompleted
    <2> QED
      BY <2>2, <2>6 DEF ToldInv
  <1> QED
    BY <1>1, KeepsReactorInv, PTL DEF Spec, DeadlocksAreReal
-----------------------------------------------------------------------------
(***************************************************************************)
(* Tasks on a channel: a step of one task, or of the clock.                *)
(***************************************************************************)

\* What a step does to the receivers when it is about one of them.
OneReceiver(c, new) == receiver' = [receiver EXCEPT ![c] = new]

\* The signal of a cell wakes every frame that waits on it and changes nothing else.
LEMMA SignalSenders ==
  ASSUME NEW tasks \in [Senders -> Sender]
  PROVE  /\ Signal(tasks) \in [Senders -> Sender]
         /\ \A s \in Senders : Signal(tasks)[s].at # "linked"
  <1>1. DOMAIN tasks = Senders
    OBVIOUS
  <1>2. ASSUME NEW s \in Senders
        PROVE  Signal(tasks)[s] \in Sender /\ Signal(tasks)[s].at # "linked"
    <2>1. Signal(tasks)[s] = IF tasks[s].at = "linked" THEN [tasks[s] EXCEPT !.at = "signalled"]
                             ELSE tasks[s]
      BY <1>1 DEF Signal
    <2>2. tasks[s] \in Sender
      OBVIOUS
    <2> QED
      BY <2>1, <2>2 DEF Sender
  <1> QED
    BY <1>1, <1>2 DEF Signal

LEMMA SignalReceivers ==
  ASSUME NEW tasks \in [Receivers -> Receiver]
  PROVE  /\ Signal(tasks) \in [Receivers -> Receiver]
         /\ \A c \in Receivers :
              /\ Signal(tasks)[c].at # "linked"
              /\ Signal(tasks)[c].left = tasks[c].left /\ Signal(tasks)[c].since = tasks[c].since
              /\ Signal(tasks)[c].at \in {"settling", "cancelling"}
                   <=> tasks[c].at \in {"settling", "cancelling"}
  <1>1. DOMAIN tasks = Receivers
    OBVIOUS
  <1>2. ASSUME NEW c \in Receivers
        PROVE  /\ Signal(tasks)[c] \in Receiver /\ Signal(tasks)[c].at # "linked"
               /\ Signal(tasks)[c].left = tasks[c].left /\ Signal(tasks)[c].since = tasks[c].since
               /\ Signal(tasks)[c].at \in {"settling", "cancelling"}
                    <=> tasks[c].at \in {"settling", "cancelling"}
    <2>1. Signal(tasks)[c] = IF tasks[c].at = "linked" THEN [tasks[c] EXCEPT !.at = "signalled"]
                             ELSE tasks[c]
      BY <1>1 DEF Signal
    <2>2. tasks[c] \in Receiver
      OBVIOUS
    <2> QED
      BY <2>1, <2>2 DEF Receiver
  <1> QED
    BY <1>1, <1>2 DEF Signal

\* The frame of a receive at rest: no sleep, no deadline, no host operation.
AtRest == {"idle", "done"}
LEMMA RestTypes ==
  ASSUME NEW at \in AtRest
  PROVE  [Idle EXCEPT !.at = at] \in Receiver /\ [Idle EXCEPT !.at = at].at = at
  BY TimedChannelAssumption DEF AtRest, Idle, Receiver

LEMMA SettledRests ==
  ASSUME NEW at \in {"settling", "cancelling"}
  PROVE  Settled(at) \in Receiver /\ Settled(at).at \in AtRest
  <1>1. "idle" \in AtRest /\ "done" \in AtRest /\ Idle = [Idle EXCEPT !.at = "idle"]
    BY DEF AtRest, Idle
  <1> QED
    BY <1>1, RestTypes DEF Settled

\* A cleanup starts with its whole bound ahead of it, or is over at once.
LEMMA CleanupStarts ==
  ASSUME NEW c \in Receivers, NEW at \in {"settling", "cancelling"}, StartCleanup(c, at)
  PROVE  \E new \in Receiver :
           /\ OneReceiver(c, new)
           /\ \/ new.at \in AtRest
              \/ /\ new.at \in {"settling", "cancelling"}
                 /\ c \in Bounded => new.left = CleanupBound /\ new.since = 0
  <1>1. PICK host \in {"none", "waits"} :
          OneReceiver(c, IF host = "none" \/ (c \in Bounded /\ CleanupBound = 0) THEN Settled(at)
                         ELSE [Idle EXCEPT !.at = at, !.left = IF c \in Bounded THEN CleanupBound ELSE 0,
                                           !.host = host])
    BY DEF StartCleanup, OneReceiver
  <1>2. CASE host = "none" \/ (c \in Bounded /\ CleanupBound = 0)
    <2>1. OneReceiver(c, Settled(at))
      BY <1>1, <1>2
    <2> QED
      BY <2>1, SettledRests
  <1>3. CASE ~ (host = "none" \/ (c \in Bounded /\ CleanupBound = 0))
    <2> DEFINE left == IF c \in Bounded THEN CleanupBound ELSE 0
               first == [Idle EXCEPT !.at = at]
               second == [first EXCEPT !.left = left]
               new == [second EXCEPT !.host = host]
    <2>1. OneReceiver(c, new)
      BY <1>1, <1>3
    <2>2. left \in 0 .. CleanupBound /\ (c \in Bounded => left = CleanupBound)
      BY TimedChannelAssumption
    <2> HIDE DEF left
    <2>3. first \in Receiver /\ first.at = at /\ first.since = 0
      BY TimedChannelAssumption DEF Idle, Receiver
    <2> HIDE DEF first
    <2>4. second \in Receiver /\ second.at = at /\ second.since = 0 /\ second.left = left
      BY <2>2, <2>3 DEF Receiver
    <2> HIDE DEF second
    <2>5. new \in Receiver /\ new.at = at /\ new.since = 0 /\ new.left = left
      BY <2>4 DEF Receiver
    <2> HIDE DEF new
    <2> QED
      BY <2>1, <2>2, <2>5
  <1> QED
    BY <1>2, <1>3

\* The steps that leave the queue, the senders and the other receivers alone
\* and put no receiver to sleep.
ReceiverOnly(c) ==
  \/ RecvEnds(c) \/ Expire(c) \/ Settle(c) \/ CancelOutside(c) \/ HostCompletes(c)

LEMMA OneReceiverMoves ==
  ASSUME ChannelTypeOK, NEW c \in Receivers, ReceiverOnly(c)
  PROVE  /\ UNCHANGED <<items, closed, sender, panicked>>
         /\ \E new \in Receiver :
              /\ OneReceiver(c, new)
              /\ \/ new.at \in AtRest
                 \/ /\ new.at \in {"settling", "cancelling"}
                    /\ c \in Bounded => \/ new.left = CleanupBound /\ new.since = 0
                                        \/ /\ Unwinds(c) /\ new.left = receiver[c].left
                                           /\ new.since = receiver[c].since
  <1>0. receiver[c] \in Receiver
    BY DEF ChannelTypeOK
  <1>1. CASE RecvEnds(c)
    <2>1. OneReceiver(c, [Idle EXCEPT !.at = "done"]) /\ "done" \in AtRest
      BY <1>1 DEF RecvEnds, OneReceiver, AtRest
    <2> QED
      BY <1>1, <2>1, RestTypes DEF RecvEnds
  <1>2. CASE Expire(c)
    BY <1>2, CleanupStarts DEF Expire
  <1>3. CASE Settle(c)
    <2>1. OneReceiver(c, Settled(receiver[c].at))
          /\ receiver[c].at \in {"settling", "cancelling"}
      BY <1>3 DEF Settle, OneReceiver, Unwinds
    <2> QED
      BY <1>3, <2>1, SettledRests DEF Settle
  <1>4. CASE CancelOutside(c)
    <2>1. CASE StartCleanup(c, "cancelling")
      BY <1>4, <2>1, CleanupStarts DEF CancelOutside
    <2>2. CASE /\ receiver[c].at \in {"settling", "cancelling"}
               /\ receiver' = [receiver EXCEPT ![c].at = "cancelling", ![c].left = Continued(c)]
      <3> DEFINE new == [receiver[c] EXCEPT !.at = "cancelling", !.left = receiver[c].left]
      <3>1. new \in Receiver /\ new.at = "cancelling" /\ new.left = receiver[c].left
            /\ new.since = receiver[c].since
        BY <1>0 DEF Receiver
      <3>2. OneReceiver(c, new)
        BY <1>0, <2>2 DEF OneReceiver, Continued, ChannelTypeOK
      <3>3. Unwinds(c)
        BY <2>2 DEF Unwinds
      <3> QED
        BY <1>4, <3>1, <3>2, <3>3 DEF CancelOutside
    <2> QED
      BY <1>4, <2>1, <2>2 DEF CancelOutside
  <1>5. CASE HostCompletes(c)
    <2> DEFINE new == [receiver[c] EXCEPT !.host = "ready"]
    <2>1. new \in Receiver /\ new.at = receiver[c].at /\ new.left = receiver[c].left
          /\ new.since = receiver[c].since
      BY <1>0 DEF Receiver
    <2>2. OneReceiver(c, new) /\ Unwinds(c)
      BY <1>5 DEF OneReceiver, HostCompletes
    <2> QED
      BY <1>5, <2>1, <2>2 DEF HostCompletes, Unwinds
  <1> QED
    BY <1>1, <1>2, <1>3, <1>4, <1>5 DEF ReceiverOnly

-----------------------------------------------------------------------------
(***************************************************************************)
(* No wake of a channel is lost: NoSleeperCouldGoOn is inductive.          *)
(***************************************************************************)

LEMMA NobodySleepsAtFirst ==
  ASSUME ChannelInit
  PROVE  NoSleeperCouldGoOn
  <1>1. Idle \in Receiver /\ [at |-> "go", left |-> MaxSends] \in Sender
    BY TimedChannelAssumption DEF Idle, Receiver, Sender
  <1>2. items \in Seq(Senders) /\ Len(items) = 0
    BY DEF ChannelInit
  <1>3. ChannelTypeOK
    <2>1. sender \in [Senders -> Sender] /\ receiver \in [Receivers -> Receiver]
      BY <1>1 DEF ChannelInit
    <2>2. Len(items) <= Capacity
      BY <1>2, TimedChannelAssumption
    <2> QED
      BY <1>2, <2>1, <2>2 DEF ChannelInit, ChannelTypeOK
  <1>4. ASSUME NEW c \in Receivers PROVE receiver[c].at # "linked"
    BY DEF ChannelInit, Idle
  <1>5. ASSUME NEW s \in Senders PROVE sender[s].at # "linked"
    BY DEF ChannelInit
  <1> QED
    BY <1>3, <1>4, <1>5 DEF NoSleeperCouldGoOn

\* send!.
LEMMA SendsWakeReceivers ==
  ASSUME NoSleeperCouldGoOn, NEW s \in Senders, SenderStep(s)
  PROVE  NoSleeperCouldGoOn'
  <1> USE TimedChannelAssumption
  <1>0. /\ ChannelTypeOK /\ sender[s] \in Sender /\ items \in Seq(Senders) /\ Len(items) \in Nat
        /\ sender \in [Senders -> Sender] /\ receiver \in [Receivers -> Receiver]
    BY DEF NoSleeperCouldGoOn, ChannelTypeOK
  <1>1. CASE SendWaits(s)
    <2>1. [sender[s] EXCEPT !.at = "linked"] \in Sender
      BY <1>0 DEF Sender
    <2>2. ChannelTypeOK'
      BY <1>0, <1>1, <2>1 DEF SendWaits, ChannelTypeOK
    <2>3. \A t \in Senders : sender'[t].at = "linked" => Len(items) >= Capacity /\ ~ closed
      BY <1>0, <1>1 DEF SendWaits, NoSleeperCouldGoOn
    <2> QED
      BY <1>1, <2>2, <2>3 DEF SendWaits, NoSleeperCouldGoOn, CanReceive
  <1>2. CASE SendPuts(s)
    <2>1. /\ sender[s].left - 1 \in 0 .. MaxSends
          /\ sender' = [sender EXCEPT ![s] = [at |-> "go", left |-> sender[s].left - 1]]
      BY <1>0, <1>2 DEF SendPuts, Sends, Sender
    <2>2. [at |-> "go", left |-> sender[s].left - 1] \in Sender
      BY <2>1 DEF Sender
    <2>3. items' \in Seq(Senders) /\ Len(items') = Len(items) + 1
      BY <1>0, <1>2 DEF SendPuts
    <2>4. Len(items') <= Capacity
      BY <1>0, <1>2, <2>3 DEF SendPuts
    <2>5. receiver' \in [Receivers -> Receiver] /\ \A c \in Receivers : receiver'[c].at # "linked"
      BY <1>0, <1>2, SignalReceivers DEF SendPuts
    <2>6. sender' \in [Senders -> Sender]
      BY <1>0, <2>1, <2>2
    <2>7. ASSUME NEW t \in Senders PROVE sender'[t].at # "linked"
      <3>1. sender[t].at # "linked"
        BY <1>0, <1>2 DEF SendPuts, NoSleeperCouldGoOn
      <3> QED
        BY <1>0, <2>1, <3>1
    <2> QED
      BY <1>0, <1>2, <2>3, <2>4, <2>5, <2>6, <2>7 DEF SendPuts, NoSleeperCouldGoOn, ChannelTypeOK
  <1>3. CASE SendPanics(s)
    BY <1>0, <1>3 DEF SendPanics, NoSleeperCouldGoOn, ChannelTypeOK, CanReceive
  <1>4. CASE SendCloses(s)
    <2> DEFINE awake == IF closed THEN sender ELSE Signal(sender)
    <2>1. awake \in [Senders -> Sender] /\ \A t \in Senders : awake[t].at # "linked"
      BY <1>0, SignalSenders DEF NoSleeperCouldGoOn
    <2>2. receiver' \in [Receivers -> Receiver] /\ \A c \in Receivers : receiver'[c].at # "linked"
      BY <1>0, <1>4, SignalReceivers DEF SendCloses, NoSleeperCouldGoOn, CanReceive
    <2>3. sender' = [awake EXCEPT ![s].at = "done"]
      BY <1>4 DEF SendCloses
    <2> HIDE DEF awake
    <2>4. [awake[s] EXCEPT !.at = "done"] \in Sender /\ [awake[s] EXCEPT !.at = "done"].at = "done"
      BY <2>1 DEF Sender
    <2>5. sender' \in [Senders -> Sender] /\ \A t \in Senders : sender'[t].at # "linked"
      BY <2>1, <2>3, <2>4
    <2> QED
      BY <1>0, <1>4, <2>2, <2>5 DEF SendCloses, NoSleeperCouldGoOn, ChannelTypeOK
  <1> QED
    BY <1>1, <1>2, <1>3, <1>4 DEF SenderStep

\* A receive that takes an item: nobody slept on a queue that was not empty.
LEMMA ReceiveWakesSenders ==
  ASSUME NoSleeperCouldGoOn, NEW c \in Receivers, RecvTakes(c)
  PROVE  NoSleeperCouldGoOn'
  <1> USE TimedChannelAssumption
  <1>1. /\ ChannelTypeOK /\ items \in Seq(Senders) /\ Len(items) \in Nat
        /\ sender \in [Senders -> Sender] /\ receiver \in [Receivers -> Receiver]
    BY DEF NoSleeperCouldGoOn, ChannelTypeOK
  <1>2. items' \in Seq(Senders) /\ Len(items') = Len(items) - 1
    BY <1>1 DEF RecvTakes
  <1>3. Len(items') <= Capacity
    BY <1>1, <1>2 DEF ChannelTypeOK
  <1>4. sender' \in [Senders -> Sender] /\ \A s \in Senders : sender'[s].at # "linked"
    BY <1>1, SignalSenders DEF RecvTakes
  <1>5. Idle \in Receiver /\ Idle.at = "idle"
    BY DEF Idle, Receiver
  <1>6. receiver' \in [Receivers -> Receiver]
    BY <1>1, <1>5 DEF RecvTakes
  <1>7. ASSUME NEW d \in Receivers PROVE receiver'[d].at # "linked"
    <2>1. receiver[d].at # "linked"
      BY DEF RecvTakes, NoSleeperCouldGoOn, CanReceive
    <2> QED
      BY <1>1, <1>5, <2>1 DEF RecvTakes
  <1> QED
    BY <1>1, <1>2, <1>3, <1>4, <1>6, <1>7 DEF RecvTakes, NoSleeperCouldGoOn, ChannelTypeOK

LEMMA ReceiveSleeps ==
  ASSUME NoSleeperCouldGoOn, NEW c \in Receivers, RecvWaits(c)
  PROVE  NoSleeperCouldGoOn'
  <1> USE TimedChannelAssumption
  <1> DEFINE limit == IF receiver[c].at = "idle" THEN Limit ELSE receiver[c].limit
             new == [receiver[c] EXCEPT !.at = "linked", !.limit = limit]
  <1>1. receiver \in [Receivers -> Receiver] /\ receiver[c] \in Receiver
    BY DEF NoSleeperCouldGoOn, ChannelTypeOK
  <1>2. limit \in 0 .. Limit
    BY <1>1 DEF Receiver
  <1>3. receiver' = [receiver EXCEPT ![c] = new]
    BY <1>1 DEF RecvWaits
  <1> HIDE DEF limit
  <1>4. receiver' \in [Receivers -> Receiver]
    <2>1. new \in Receiver
      BY <1>1, <1>2 DEF Receiver
    <2> QED
      BY <1>1, <1>3, <2>1
  <1>5. UNCHANGED <<items, closed, sender, panicked>> /\ ~ CanReceive
    BY DEF RecvWaits
  <1>6. CanReceive' <=> CanReceive
    BY <1>5 DEF CanReceive
  <1>7. ChannelTypeOK'
    BY <1>4, <1>5 DEF NoSleeperCouldGoOn, ChannelTypeOK
  <1> QED
    BY <1>5, <1>6, <1>7 DEF NoSleeperCouldGoOn

LEMMA NobodyIsPutToSleep ==
  ASSUME NoSleeperCouldGoOn, NEW c \in Receivers, ReceiverOnly(c)
  PROVE  NoSleeperCouldGoOn'
  <1>1. ChannelTypeOK /\ receiver \in [Receivers -> Receiver]
    BY DEF NoSleeperCouldGoOn, ChannelTypeOK
  <1>2. UNCHANGED <<items, closed, sender, panicked>>
    BY <1>1, OneReceiverMoves
  <1>3. PICK new \in Receiver : OneReceiver(c, new) /\ new.at # "linked"
    BY <1>1, OneReceiverMoves DEF AtRest
  <1>4. receiver' \in [Receivers -> Receiver]
    BY <1>1, <1>3 DEF OneReceiver
  <1>5. ASSUME NEW d \in Receivers, receiver'[d].at = "linked" PROVE ~ CanReceive
    <2>1. receiver[d].at = "linked"
      BY <1>1, <1>3, <1>5 DEF OneReceiver
    <2> QED
      BY <2>1 DEF NoSleeperCouldGoOn
  <1>6. CanReceive' <=> CanReceive
    BY <1>2 DEF CanReceive
  <1>7. ChannelTypeOK'
    BY <1>1, <1>2, <1>4 DEF ChannelTypeOK
  <1> QED
    BY <1>2, <1>5, <1>6, <1>7 DEF NoSleeperCouldGoOn

\* What a tick does to one receiver.
LEMMA TickMoves ==
  ASSUME ChannelTypeOK, Tick, NEW c \in Receivers
  PROVE  /\ receiver'[c] \in Receiver /\ receiver'[c].at = receiver[c].at
         /\ receiver'[c].left = Less(receiver[c].left)
         /\ receiver'[c].since = IF Unwinds(c) /\ receiver[c].since < CleanupBound
                                 THEN receiver[c].since + 1 ELSE receiver[c].since
  <1> USE TimedChannelAssumption
  <1> DEFINE r == receiver[c]
             since == IF Unwinds(c) /\ r.since < CleanupBound THEN r.since + 1 ELSE r.since
  <1>1. r \in Receiver
    BY DEF ChannelTypeOK
  <1>2. receiver'[c] = [r EXCEPT !.limit = Less(r.limit), !.left = Less(r.left), !.since = since]
    <2>1. receiver'[c] = [r EXCEPT !.limit = Less(@), !.left = Less(@),
            !.since = IF Unwinds(c) /\ @ < CleanupBound THEN @ + 1 ELSE @]
      BY DEF Tick
    <2> QED
      BY <1>1, <2>1 DEF Receiver
  <1>3. /\ r.limit \in 0 .. Limit /\ r.left \in 0 .. CleanupBound /\ r.since \in 0 .. CleanupBound
        /\ DOMAIN r = {"at", "limit", "left", "since", "host"}
    BY <1>1 DEF Receiver
  <1>4. Less(r.limit) \in 0 .. Limit /\ Less(r.left) \in 0 .. CleanupBound
    BY <1>3 DEF Less
  <1>5. since \in 0 .. CleanupBound
    BY <1>3
  <1> HIDE DEF since
  <1>6. receiver'[c] \in Receiver
    BY <1>1, <1>2, <1>4, <1>5 DEF Receiver
  <1>7. receiver'[c].at = r.at /\ receiver'[c].left = Less(r.left) /\ receiver'[c].since = since
    BY <1>2, <1>3
  <1> QED
    BY <1>6, <1>7 DEF since

LEMMA TickWakesNobody ==
  ASSUME NoSleeperCouldGoOn, Tick
  PROVE  NoSleeperCouldGoOn'
  <1>1. ChannelTypeOK /\ UNCHANGED <<items, closed, sender, panicked>>
    BY DEF NoSleeperCouldGoOn, Tick
  <1>2. receiver' \in [Receivers -> Receiver] /\ \A c \in Receivers : receiver'[c].at = receiver[c].at
    <2>1. receiver' = [c \in Receivers |-> receiver'[c]]
      BY DEF Tick
    <2> QED
      BY <1>1, <2>1, TickMoves
  <1>3. CanReceive' <=> CanReceive
    BY <1>1 DEF CanReceive
  <1> QED
    BY <1>1, <1>2, <1>3 DEF NoSleeperCouldGoOn, ChannelTypeOK

LEMMA SleepersStep ==
  ASSUME NoSleeperCouldGoOn, [ChannelNext]_channelVars
  PROVE  NoSleeperCouldGoOn'
  <1>1. CASE UNCHANGED channelVars
    BY <1>1 DEF channelVars, NoSleeperCouldGoOn, ChannelTypeOK, CanReceive
  <1>2. ASSUME NEW s \in Senders, SenderStep(s) PROVE NoSleeperCouldGoOn'
    BY <1>2, SendsWakeReceivers
  <1>3. ASSUME NEW c \in Receivers, ReceiverStep(c) \/ CancelOutside(c) \/ HostCompletes(c)
        PROVE  NoSleeperCouldGoOn'
    BY <1>3, ReceiveWakesSenders, ReceiveSleeps, NobodyIsPutToSleep DEF ReceiverStep, ReceiverOnly
  <1>4. CASE Tick
    BY <1>4, TickWakesNobody
  <1> QED
    BY <1>1, <1>2, <1>3, <1>4 DEF ChannelNext

\* No wake of a channel is lost, for any senders, receivers, capacity, limits
\* and bounds: a frame that waits could not go on if it were polled.
THEOREM KeepsSleepers == ChannelSpec => []NoSleeperCouldGoOn
  BY NobodySleepsAtFirst, SleepersStep, PTL DEF ChannelSpec

-----------------------------------------------------------------------------
(***************************************************************************)
(* The cleanup deadline: DeadlineIsFixed is inductive with the types.      *)
(***************************************************************************)

LEMMA DeadlineStep ==
  ASSUME ChannelTypeOK, DeadlineIsFixed, [ChannelNext]_channelVars
  PROVE  DeadlineIsFixed'
  <1> USE TimedChannelAssumption
  <1>0. receiver \in [Receivers -> Receiver]
    BY DEF ChannelTypeOK
  <1> SUFFICES ASSUME NEW b \in Bounded, Unwinds(b)'
               PROVE  receiver'[b].left = CleanupBound - receiver'[b].since
    BY DEF DeadlineIsFixed
  <1>1. /\ b \in Receivers /\ receiver[b] \in Receiver
        /\ receiver[b].left \in 0 .. CleanupBound /\ receiver[b].since \in 0 .. CleanupBound
        /\ Unwinds(b) => receiver[b].left = CleanupBound - receiver[b].since
    BY <1>0 DEF Receiver, DeadlineIsFixed
  <1>2. CASE receiver' = receiver
    BY <1>1, <1>2 DEF Unwinds
  <1>3. CASE receiver' = Signal(receiver)
    <2>1. /\ receiver'[b].left = receiver[b].left /\ receiver'[b].since = receiver[b].since
          /\ receiver'[b].at \in {"settling", "cancelling"} <=> receiver[b].at \in {"settling", "cancelling"}
      BY <1>0, <1>1, <1>3, SignalReceivers
    <2> QED
      BY <1>1, <2>1 DEF Unwinds
  <1>4. ASSUME NEW c \in Receivers, RecvTakes(c) \/ RecvWaits(c)
        PROVE  receiver'[b].left = CleanupBound - receiver'[b].since
    <2>1. c # b
      BY <1>0, <1>4 DEF RecvTakes, RecvWaits, Unwinds, Idle, Receiver
    <2>2. receiver'[b] = receiver[b]
      BY <1>0, <1>1, <1>4, <2>1 DEF RecvTakes, RecvWaits
    <2> QED
      BY <1>1, <2>2 DEF Unwinds
  <1>5. ASSUME NEW c \in Receivers, ReceiverOnly(c)
        PROVE  receiver'[b].left = CleanupBound - receiver'[b].since
    <2>1. PICK new \in Receiver :
            /\ OneReceiver(c, new)
            /\ \/ new.at \in AtRest
               \/ /\ new.at \in {"settling", "cancelling"}
                  /\ c \in Bounded => \/ new.left = CleanupBound /\ new.since = 0
                                      \/ /\ Unwinds(c) /\ new.left = receiver[c].left
                                         /\ new.since = receiver[c].since
      BY <1>5, OneReceiverMoves
    <2>2. CASE c = b
      <3>1. receiver'[b] = new
        BY <1>0, <1>1, <2>1, <2>2 DEF OneReceiver
      <3>2. new.at \notin AtRest
        BY <3>1 DEF Unwinds, AtRest
      <3> QED
        BY <1>1, <2>1, <2>2, <3>1, <3>2
    <2>3. CASE c # b
      <3>1. receiver'[b] = receiver[b]
        BY <1>0, <1>1, <2>1, <2>3 DEF OneReceiver
      <3> QED
        BY <1>1, <3>1 DEF Unwinds
    <2> QED
      BY <2>2, <2>3
  <1>6. CASE Tick
    <2>1. /\ receiver'[b].at = receiver[b].at /\ receiver'[b].left = Less(receiver[b].left)
          /\ receiver'[b].since = IF Unwinds(b) /\ receiver[b].since < CleanupBound
                                  THEN receiver[b].since + 1 ELSE receiver[b].since
      BY <1>1, <1>6, TickMoves
    <2>2. Unwinds(b)
      BY <2>1 DEF Unwinds
    <2> QED
      BY <1>1, <2>1, <2>2 DEF Less
  <1>7. ASSUME NEW s \in Senders, SenderStep(s)
        PROVE  receiver' = receiver \/ receiver' = Signal(receiver)
    BY <1>7 DEF SenderStep, SendWaits, SendPuts, SendPanics, SendCloses
  <1>8. ASSUME NEW c \in Receivers, ReceiverStep(c) \/ CancelOutside(c) \/ HostCompletes(c)
        PROVE  RecvTakes(c) \/ RecvWaits(c) \/ ReceiverOnly(c)
    BY <1>8 DEF ReceiverStep, ReceiverOnly
  <1> QED
    BY <1>2, <1>3, <1>4, <1>5, <1>6, <1>7, <1>8 DEF ChannelNext, channelVars

\* The cleanup deadline of a bounded timeout is fixed when its work is first
\* cancelled and no later cancel moves it, for every limit and bound.
THEOREM KeepsDeadlines == ChannelSpec => []DeadlineIsFixed
  <1>1. ChannelInit => DeadlineIsFixed
    BY TimedChannelAssumption DEF ChannelInit, DeadlineIsFixed, Unwinds, Idle
  <1>2. ChannelTypeOK /\ DeadlineIsFixed /\ [ChannelNext]_channelVars => DeadlineIsFixed'
    BY DeadlineStep
  <1>3. NoSleeperCouldGoOn => ChannelTypeOK
    BY DEF NoSleeperCouldGoOn
  <1> QED
    BY <1>1, <1>2, <1>3, KeepsSleepers, PTL DEF ChannelSpec
=============================================================================
