-------------------------- MODULE CollectorProofs --------------------------
(***************************************************************************)
(* The counted heap keeps HeapInv and RoomsFollowHolders, for every finite *)
(* set of objects of any kinds and every bound: between any two steps of   *)
(* the program, of a release and of a collection the counts are exact, the *)
(* buffer lists its candidates once, and nothing the program reaches goes. *)
(* With that, its steps are those of ManagedHeap, and no garbage is out of *)
(* the next collection's sight (NoLeak).                                   *)
(***************************************************************************)
EXTENDS CycleCollector, FiniteSetTheorems, SequenceTheorems, TLAPS

-----------------------------------------------------------------------------
(***************************************************************************)
(* References.                                                             *)
(***************************************************************************)

\* Held, for the references r.
From(r, S, o) == Cardinality({x \in S \X (1 .. MaxRefs) : x[2] <= r[x[1]][o]})

Tables == [Objects -> [Objects -> 0 .. MaxRefs]]

LEMMA HeldIsFrom ==
  ASSUME NEW S, NEW o
  PROVE  Held(S, o) = From(refs, S, o) /\ Held(S, o)' = From(refs', S', o')
  BY DEF Held, From

\* A sum over two sets that share nothing is the sum of both.
LEMMA FromUnion ==
  ASSUME NEW r, NEW o, NEW S \in SUBSET Objects, NEW T \in SUBSET Objects, NEW U,
         U = S \union T, S \intersect T = {}
  PROVE  /\ From(r, U, o) = From(r, S, o) + From(r, T, o)
         /\ From(r, S, o) \in Nat /\ From(r, T, o) \in Nat
  <1> DEFINE N == 1 .. MaxRefs
             All(V) == {x \in V \X N : x[2] <= r[x[1]][o]}
  <1>1. ASSUME NEW V \in SUBSET Objects PROVE IsFiniteSet(All(V)) /\ Cardinality(All(V)) \in Nat
    <2>1. IsFiniteSet(V) /\ IsFiniteSet(N)
      BY Kinds, Sizes, FS_Subset, FS_Interval
    <2>2. IsFiniteSet(V \X N)
      BY <2>1, FS_Product
    <2>3. All(V) \in SUBSET (V \X N)
      OBVIOUS
    <2> HIDE DEF All, N
    <2> QED
      BY <2>2, <2>3, FS_Subset, FS_CardinalityType
  <1>2. All(U) = All(S) \union All(T) /\ All(S) \intersect All(T) = {}
    OBVIOUS
  <1>3. From(r, U, o) = Cardinality(All(U)) /\ From(r, S, o) = Cardinality(All(S))
        /\ From(r, T, o) = Cardinality(All(T))
    BY DEF From
  <1>4. Cardinality(All(S)) \in Nat /\ Cardinality(All(T)) \in Nat
    BY <1>1, Zenon
  <1>5. Cardinality(All(U)) = Cardinality(All(S)) + Cardinality(All(T)) - 0
    <2>1. IsFiniteSet(All(S)) /\ IsFiniteSet(All(T)) /\ Cardinality({}) = 0
      BY <1>1, FS_EmptySet, Zenon
    <2> HIDE DEF All
    <2>2. Cardinality(All(S) \union All(T))
            = Cardinality(All(S)) + Cardinality(All(T)) - Cardinality(All(S) \intersect All(T))
      BY <2>1, FS_Union
    <2> QED
      BY <1>2, <2>1, <2>2
  <1> HIDE DEF All
  <1> QED
    BY <1>3, <1>4, <1>5

LEMMA FromNat ==
  ASSUME NEW r, NEW o, NEW S \in SUBSET Objects
  PROVE  From(r, S, o) \in Nat
  <1>1. S = S \union {} /\ S \intersect {} = {} /\ {} \in SUBSET Objects
    OBVIOUS
  <1> QED
    BY <1>1, FromUnion

LEMMA FromOne ==
  ASSUME NEW r \in Tables, NEW p \in Objects, NEW o \in Objects
  PROVE  From(r, {p}, o) = r[p][o]
  <1> DEFINE n == r[p][o]
             All == {x \in {p} \X (1 .. MaxRefs) : x[2] <= r[x[1]][o]}
             pair == [i \in 1 .. n |-> <<p, i>>]
  <1>1. n \in 0 .. MaxRefs /\ MaxRefs \in Nat /\ n \in Nat
    BY Sizes DEF Tables
  <1>2. \A i \in 1 .. n : <<p, i>> \in All
    BY <1>1
  <1>3. \A x \in All : \E i \in 1 .. n : x = <<p, i>>
    <2> TAKE x \in All
    <2>1. x[1] = p /\ x[2] \in 1 .. MaxRefs /\ x[2] <= n /\ x = <<x[1], x[2]>>
      OBVIOUS
    <2>2. x[2] \in 1 .. n
      BY <1>1, <2>1
    <2> QED
      BY <2>1, <2>2
  <1>4. pair \in Bijection(1 .. n, All)
    <2> HIDE DEF n, All
    <2>1. pair \in [1 .. n -> All] /\ \A i, j \in 1 .. n : pair[i] = pair[j] => i = j
      BY <1>2
    <2>2. \A x \in All : \E i \in 1 .. n : pair[i] = x
      BY <1>3
    <2> HIDE DEF pair
    <2> QED
      BY <2>1, <2>2 DEF Bijection, Injection, Surjection, IsInjective
  <1>5. IsFiniteSet(1 .. n) /\ Cardinality(1 .. n) = n
    <2> HIDE DEF n
    <2> QED
      BY <1>1, FS_Interval
  <1>6. Cardinality(All) = Cardinality(1 .. n)
    <2> HIDE DEF n, All, pair
    <2> QED
      BY <1>4, <1>5, FS_Bijection DEF ExistsBijection
  <1> QED
    BY <1>5, <1>6 DEF From

\* The sum depends on the references to o from the set alone.
LEMMA FromSame ==
  ASSUME NEW r, NEW q, NEW S, NEW o, \A p \in S : r[p][o] = q[p][o]
  PROVE  From(r, S, o) = From(q, S, o)
  <1>1. {x \in S \X (1 .. MaxRefs) : x[2] <= r[x[1]][o]} = {x \in S \X (1 .. MaxRefs) : x[2] <= q[x[1]][o]}
    OBVIOUS
  <1> QED
    BY <1>1 DEF From

LEMMA FromZero ==
  ASSUME NEW r \in Tables, NEW S \in SUBSET Objects, NEW o \in Objects
  PROVE  From(r, S, o) = 0 <=> \A p \in S : r[p][o] = 0
  <1> DEFINE All == {x \in S \X (1 .. MaxRefs) : x[2] <= r[x[1]][o]}
  <1>1. All = {} <=> \A p \in S : r[p][o] = 0
    <2>1. \A p \in S : r[p][o] \in 0 .. MaxRefs
      BY DEF Tables
    <2>2. ASSUME \A p \in S : r[p][o] = 0 PROVE All = {}
      BY <2>2
    <2>3. ASSUME NEW p \in S, r[p][o] # 0 PROVE <<p, 1>> \in All
      BY <2>1, <2>3, Sizes
    <2> QED
      BY <2>2, <2>3
  <1>2. IsFiniteSet(All)
    <2>1. IsFiniteSet(S) /\ IsFiniteSet(1 .. MaxRefs)
      BY Kinds, Sizes, FS_Subset, FS_Interval
    <2>2. IsFiniteSet(S \X (1 .. MaxRefs)) /\ All \in SUBSET (S \X (1 .. MaxRefs))
      BY <2>1, FS_Product
    <2> HIDE DEF All
    <2> QED
      BY <2>2, FS_Subset
  <1>3. Cardinality(All) = 0 <=> All = {}
    <2> HIDE DEF All
    <2> QED
      BY <1>2, FS_EmptySet
  <1> QED
    BY <1>1, <1>3 DEF From

\* One holder more, one less, and one that holds another number than before.
LEMMA FromWithout ==
  ASSUME NEW r \in Tables, NEW S \in SUBSET Objects, NEW p \in S, NEW o \in Objects
  PROVE  /\ From(r, S, o) = From(r, S \ {p}, o) + r[p][o]
         /\ From(r, S, o) \in Nat /\ From(r, S \ {p}, o) \in Nat /\ r[p][o] \in Nat
         /\ From(r, S, o) >= r[p][o]
  <1> DEFINE R == S \ {p}
  <1>1. S = R \union {p} /\ R \intersect {p} = {} /\ p \in Objects /\ R \in SUBSET Objects
    OBVIOUS
  <1>2. /\ From(r, S, o) = From(r, R, o) + From(r, {p}, o)
        /\ From(r, R, o) \in Nat
    BY <1>1, FromUnion
  <1>3. From(r, {p}, o) = r[p][o] /\ r[p][o] \in Nat
    BY <1>1, FromOne DEF Tables
  <1> QED
    BY <1>2, <1>3

LEMMA FromStep ==
  ASSUME NEW r \in Tables, NEW q \in Tables, NEW S \in SUBSET Objects, NEW p \in S,
         NEW o \in Objects, \A x \in S \ {p} : q[x][o] = r[x][o]
  PROVE  From(q, S, o) = From(r, S, o) - r[p][o] + q[p][o]
  <1>1. From(q, S \ {p}, o) = From(r, S \ {p}, o)
    BY FromSame
  <1>2. /\ From(r, S, o) = From(r, S \ {p}, o) + r[p][o]
        /\ From(r, S \ {p}, o) \in Nat /\ r[p][o] \in Nat
    BY FromWithout
  <1>3. From(q, S, o) = From(q, S \ {p}, o) + q[p][o] /\ q[p][o] \in Nat
    BY FromWithout
  <1> QED
    BY <1>1, <1>2, <1>3
-----------------------------------------------------------------------------
(***************************************************************************)
(* The candidate buffer.                                                   *)
(***************************************************************************)

Rank(K, i) == Cardinality({j \in K : j <= i})

\* The ranks of the members of a finite set of numbers are 1, 2, 3, ...
LEMMA RankFacts ==
  ASSUME NEW K \in SUBSET Nat, IsFiniteSet(K)
  PROVE  /\ Cardinality(K) \in Nat
         /\ \A k \in K : Rank(K, k) \in 1 .. Cardinality(K)
         /\ \A k, l \in K : Rank(K, k) = Rank(K, l) => k = l
         /\ \A n \in 1 .. Cardinality(K) : \E k \in K : Rank(K, k) = n
  <1> DEFINE N == Cardinality(K)
             Upto(k) == {l \in K : l <= k}
             rank == [k \in K |-> Rank(K, k)]
  <1>1. N \in Nat
    BY FS_CardinalityType
  <1>2. ASSUME NEW k \in K
        PROVE  IsFiniteSet(Upto(k)) /\ Rank(K, k) \in 1 .. N
    <2>1. Upto(k) \in SUBSET K /\ k \in Upto(k)
      OBVIOUS
    <2>2. IsFiniteSet(Upto(k)) /\ Cardinality(Upto(k)) <= N /\ Cardinality(Upto(k)) \in Nat
      BY <2>1, FS_Subset, FS_CardinalityType
    <2>3. Cardinality(Upto(k)) # 0
      BY <2>1, <2>2, FS_EmptySet
    <2> QED
      BY <1>1, <2>2, <2>3 DEF Rank
  <1>3. ASSUME NEW k \in K, NEW l \in K, k < l
        PROVE  Rank(K, k) < Rank(K, l)
    <2>0. \A x \in K : x \in Nat
      OBVIOUS
    <2>1. \A x \in K : x <= k => x <= l
      BY <1>3, <2>0
    <2>2. l \in Upto(l) /\ l \notin Upto(k)
      BY <1>3
    <2>3. /\ Cardinality(Upto(k)) <= Cardinality(Upto(l))
          /\ Cardinality(Upto(k)) # Cardinality(Upto(l))
      BY <1>2, <2>1, <2>2, FS_Subset
    <2>4. Cardinality(Upto(k)) \in Nat /\ Cardinality(Upto(l)) \in Nat
      BY <1>2, FS_CardinalityType
    <2> QED
      BY <2>3, <2>4 DEF Rank
  <1>4. \A k \in K : Rank(K, k) \in 1 .. Cardinality(K)
    BY <1>2, Zenon
  <1>5. \A k, l \in K : Rank(K, k) = Rank(K, l) => k = l
    <2> SUFFICES ASSUME NEW k \in K, NEW l \in K, Rank(K, k) = Rank(K, l), k # l
                 PROVE  FALSE
      OBVIOUS
    <2>1. k < l \/ l < k
      OBVIOUS
    <2>2. Rank(K, k) \in Int
      BY <1>1, <1>4
    <2> QED
      BY <1>3, <2>1, <2>2
  <1>6. rank \in Injection(K, 1 .. N)
    BY <1>4, <1>5 DEF Injection, IsInjective
  <1>7. IsFiniteSet(1 .. N) /\ Cardinality(1 .. N) = N
    BY <1>1, FS_Interval
  <1>8. rank \in Surjection(K, 1 .. N)
    BY <1>6, <1>7, FS_Injection
  <1>9. \A n \in 1 .. N : \E k \in K : Rank(K, k) = n
    BY <1>8 DEF Surjection
  <1> QED
    BY <1>1, <1>4, <1>5, <1>9

LEMMA SeqFacts ==
  ASSUME NEW A, NEW s \in Seq(A)
  PROVE  /\ Len(s) \in Nat /\ DOMAIN s = 1 .. Len(s)
         /\ \A i \in DOMAIN s : s[i] \in A /\ s[i] \in InSeq(s)
         /\ \A x \in InSeq(s) : x \in A /\ \E i \in DOMAIN s : s[i] = x
  BY DEF InSeq

\* Without takes out what it says, and nothing twice.
LEMMA WithoutFacts ==
  ASSUME NEW A, NEW s \in Seq(A), NEW S,
         \A i, j \in 1 .. Len(s) : s[i] = s[j] /\ s[i] \notin S => i = j
  PROVE  LET w == Without(s, S) IN
         /\ w \in Seq(A) /\ Len(w) \in Nat
         /\ InSeq(w) = InSeq(s) \ S
         /\ \A i, j \in 1 .. Len(w) : w[i] = w[j] => i = j
  <1> DEFINE K == {i \in DOMAIN s : s[i] \notin S}
             N == Cardinality(K)
             Nth(n) == CHOOSE i \in K : Rank(K, i) = n
             w == Without(s, S)
  <1>1. Len(s) \in Nat /\ DOMAIN s = 1 .. Len(s) /\ \A i \in DOMAIN s : s[i] \in A
    OBVIOUS
  <1>2. K \in SUBSET Nat /\ IsFiniteSet(K)
    <2>1. IsFiniteSet(1 .. Len(s)) /\ K \in SUBSET (1 .. Len(s)) /\ K \in SUBSET Nat
      BY <1>1, FS_Interval
    <2> QED
      BY <2>1, FS_Subset
  <1>3. w = [n \in 1 .. N |-> s[Nth(n)]]
    BY DEF Without, Rank
  <1>4. /\ N \in Nat
        /\ \A k \in K : Rank(K, k) \in 1 .. N
        /\ \A k, l \in K : Rank(K, k) = Rank(K, l) => k = l
        /\ \A n \in 1 .. N : \E k \in K : Rank(K, k) = n
    <2> HIDE DEF K
    <2> QED
      BY <1>2, RankFacts
  <1>5. \A n \in 1 .. N : Nth(n) \in K /\ Rank(K, Nth(n)) = n
    <2> HIDE DEF K
    <2> QED
      BY <1>4
  <1>6. \A k \in K : k \in DOMAIN s /\ s[k] \in A /\ s[k] \notin S
    BY <1>1
  <1>7. \A k \in DOMAIN s : s[k] \in S \/ k \in K
    OBVIOUS
  <1>8. \A k \in K : Nth(Rank(K, k)) = k
    <2> HIDE DEF K, N, Nth
    <2> QED
      BY <1>4, <1>5
  <1> HIDE DEF K, N, Nth, w
  <1>9. w \in Seq(A) /\ Len(w) = N /\ \A n \in 1 .. N : w[n] = s[Nth(n)]
    <2>1. \A n \in 1 .. N : s[Nth(n)] \in A
      BY <1>5, <1>6
    <2> QED
      BY <1>3, <1>4, <2>1
  <1>10. InSeq(w) = InSeq(s) \ S
    <2>1. ASSUME NEW x \in InSeq(w) PROVE x \in InSeq(s) \ S
      <3>1. PICK n \in 1 .. N : x = w[n]
        BY <1>9 DEF InSeq
      <3> QED
        BY <1>1, <1>5, <1>6, <1>9, <3>1 DEF InSeq
    <2>2. ASSUME NEW x \in InSeq(s) \ S PROVE x \in InSeq(w)
      <3>1. PICK k \in DOMAIN s : x = s[k]
        BY <1>1 DEF InSeq
      <3>2. k \in K
        BY <1>7, <3>1
      <3>3. Rank(K, k) \in 1 .. N /\ w[Rank(K, k)] = s[k]
        BY <1>4, <1>8, <1>9, <3>2
      <3> QED
        BY <1>9, <3>1, <3>3 DEF InSeq
    <2> QED
      BY <2>1, <2>2
  <1>11. ASSUME NEW i \in 1 .. N, NEW j \in 1 .. N, w[i] = w[j] PROVE i = j
    <2>1. Nth(i) = Nth(j)
      BY <1>1, <1>5, <1>6, <1>9, <1>11
    <2> QED
      BY <1>5, <2>1
  <1> QED
    BY <1>4, <1>9, <1>10, <1>11 DEF w

\* A sequence without repetition is as long as the set of its entries.
LEMMA LenIsCardinality ==
  ASSUME NEW A, NEW s \in Seq(A), \A i, j \in 1 .. Len(s) : s[i] = s[j] => i = j
  PROVE  IsFiniteSet(InSeq(s)) /\ Cardinality(InSeq(s)) = Len(s)
  <1> DEFINE n == Len(s)
  <1>1. n \in Nat /\ s \in [1 .. n -> A]
    OBVIOUS
  <1>2. IsFiniteSet(1 .. n) /\ Cardinality(1 .. n) = n
    <2> HIDE DEF n
    <2> QED
      BY <1>1, FS_Interval
  <1>3. s \in Bijection(1 .. n, InSeq(s))
    <2>1. s \in [1 .. n -> InSeq(s)] /\ \A x \in InSeq(s) : \E i \in 1 .. n : s[i] = x
      BY <1>1 DEF InSeq
    <2>2. \A i, j \in 1 .. n : s[i] = s[j] => i = j
      OBVIOUS
    <2> HIDE DEF n
    <2> QED
      BY <2>1, <2>2 DEF Bijection, Injection, Surjection, IsInjective
  <1> HIDE DEF n
  <1>4. Cardinality(InSeq(s)) = Cardinality(1 .. n) /\ IsFiniteSet(InSeq(s))
    BY <1>2, <1>3, FS_Bijection DEF ExistsBijection
  <1> QED
    BY <1>2, <1>4 DEF n
-----------------------------------------------------------------------------
(***************************************************************************)
(* The parts of the invariant in a quiet heap, where no walk is under way. *)
(***************************************************************************)

\* What every step keeps; ReachableIsKept follows from it in any state.
Core == /\ TypeOK /\ CountsExact /\ BufferExact /\ RoomsFollowHolders
        /\ NothingDangles /\ PhasesInv /\ WalksInv

Quiet == {"idle", "later"}

\* A block that is not allocated holds nothing.
LEMMA FromHeap ==
  ASSUME NEW r \in Tables, NEW H \in SUBSET Objects, NEW X, NEW o \in Objects,
         \A p \in Objects \ H : r[p] = None, NEW S, S = H \ X, NEW U, U = Objects \ X
  PROVE  From(r, S, o) = From(r, U, o)
  <1> DEFINE T == (Objects \ H) \ X
  <1>1. S \in SUBSET Objects /\ T \in SUBSET Objects /\ U = S \union T /\ S \intersect T = {}
    OBVIOUS
  <1>2. \A p \in T : r[p][o] = 0
    BY DEF None
  <1> HIDE DEF T
  <1>3. From(r, U, o) = From(r, S, o) + From(r, T, o) /\ From(r, S, o) \in Nat
    BY <1>1, FromUnion
  <1>4. From(r, T, o) = 0
    BY <1>1, <1>2, FromZero
  <1> QED
    BY <1>3, <1>4

LEMMA FromAllocated ==
  ASSUME NEW r \in Tables, NEW H \in SUBSET Objects, NEW o \in Objects,
         \A p \in Objects \ H : r[p] = None
  PROVE  From(r, H, o) = From(r, Objects, o)
  <1> DEFINE X == {}
  <1>1. H = H \ X /\ Objects = Objects \ X
    OBVIOUS
  <1> HIDE DEF X
  <1> QED
    BY <1>1, FromHeap

\* In a quiet heap no count is taken off.
LEMMA QuietIs ==
  ASSUME TypeOK, PhasesInv, phase \in Quiet
  PROVE  /\ stack = {} /\ at = 1 /\ color = [o \in Objects |-> "black"]
         /\ TakenOff = {} /\ garbage \intersect heap = {}
         /\ (phase = "idle" => garbage = {} /\ later = None /\ rooms = {})
  <1>1. stack = {}
    BY DEF PhasesInv, HowsOf, Quiet
  <1>2. color = [o \in Objects |-> "black"]
    <2>1. color \in [Objects -> {"black", "gray", "white"}] /\ \A o \in Objects : color[o] = "black"
      BY DEF PhasesInv, Quiet, NotBlackYet, Colored, TypeOK
    <2> QED
      BY <2>1
  <1>3. garbage \intersect heap = {} /\ (phase = "idle" => garbage = {} /\ later = None)
    BY DEF PhasesInv, Quiet
  <1>4. phase = "idle" => rooms = {}
    BY <1>3 DEF PhasesInv
  <1>5. TakenOff = {}
    BY <1>1, <1>2, <1>3 DEF TakenOff, TypeOK
  <1> QED
    BY <1>1, <1>2, <1>3, <1>4, <1>5 DEF PhasesInv, Quiet

\* What refers to an object: what its count is, in a quiet heap.
Owed(r, l, w, o) == l[o] + From(r, Objects, o) + w[o]

LEMMA QuietCounts ==
  ASSUME Core, phase \in Quiet, NEW o \in heap \ InSeq(draining)
  PROVE  count[o] = Owed(refs, locals, later, o)
  <1>1. TypeOK /\ PhasesInv /\ NothingDangles /\ CountsExact
    BY DEF Core
  <1>2. TakenOff = {} /\ (phase = "idle" => later = None)
    BY <1>1, QuietIs
  <1>3. o \in Objects /\ refs \in Tables /\ heap \in SUBSET Objects /\ locals[o] \in Nat /\ later[o] \in Nat
    BY <1>1 DEF TypeOK, Tables
  <1>4. Counting(o) = heap
    BY <1>2 DEF Counting
  <1>5. \A p \in Objects \ heap : refs[p] = None
    BY <1>1 DEF NothingDangles
  <1>6. From(refs, heap, o) = From(refs, Objects, o)
    BY <1>3, <1>5, FromAllocated
  <1>7. Held(Counting(o), o) = From(refs, Objects, o)
    BY <1>4, <1>6, HeldIsFrom
  <1>8. From(refs, Objects, o) \in Nat
    BY FromNat
  <1>9. count[o] = locals[o] + Held(Counting(o), o) + (IF phase = "later" THEN later[o] ELSE 0)
    BY <1>1 DEF CountsExact
  <1>10. (IF phase = "later" THEN later[o] ELSE 0) = later[o]
    BY <1>2, <1>3 DEF Quiet, None
  <1> QED
    BY <1>7, <1>9, <1>10 DEF Owed

LEMMA QuietCountsNext ==
  ASSUME TypeOK', NothingDangles', PhasesInv', phase' \in Quiet,
         \A o \in heap' \ InSeq(draining') : count'[o] = Owed(refs', locals', later', o)
  PROVE  CountsExact'
  <1> SUFFICES ASSUME NEW o \in heap' \ InSeq(draining')
               PROVE  count'[o] = locals'[o] + Held(Counting(o), o)'
                                   + (IF phase' = "later" THEN later'[o] ELSE 0)
    BY DEF CountsExact
  <1>1. stack' = {} /\ color' = [x \in Objects |-> "black"]
    <2>1. stack' = {}
      BY DEF PhasesInv, HowsOf, Quiet
    <2>2. color' \in [Objects -> {"black", "gray", "white"}] /\ \A x \in Objects : color'[x] = "black"
      BY DEF PhasesInv, Quiet, NotBlackYet, Colored, TypeOK
    <2> QED
      BY <2>1, <2>2
  <1>2. garbage' \intersect heap' = {} /\ (phase' = "idle" => later' = None)
    BY DEF PhasesInv, Quiet
  <1>3. TakenOff' = {}
    BY <1>1, <1>2 DEF TakenOff, TypeOK
  <1>4. o \in Objects /\ refs' \in Tables /\ heap' \in SUBSET Objects /\ locals'[o] \in Nat /\ later'[o] \in Nat
    BY DEF TypeOK, Tables
  <1>5. Counting(o)' = heap'
    BY <1>3 DEF Counting
  <1>6. \A p \in Objects \ heap' : refs'[p] = None
    BY DEF NothingDangles, None
  <1>7. From(refs', heap', o) = From(refs', Objects, o)
    BY <1>4, <1>6, FromAllocated
  <1>8. Held(Counting(o), o)' = From(refs', Objects, o)
    BY <1>5, <1>7 DEF Held, From
  <1>9. (IF phase' = "later" THEN later'[o] ELSE 0) = later'[o]
    BY <1>2, <1>4 DEF Quiet, None
  <1> QED
    BY <1>8, <1>9 DEF Owed

\* An object that nothing refers to has no name but a weak one.
LEMMA OwedZero ==
  ASSUME NEW r \in Tables, NEW l \in [Objects -> Nat], NEW w \in [Objects -> Nat], NEW o \in Objects
  PROVE  /\ Owed(r, l, w, o) \in Nat
         /\ Owed(r, l, w, o) = 0 <=> l[o] + w[o] = 0 /\ \A p \in Objects : r[p][o] = 0
         /\ \A p \in Objects : Owed(r, l, w, o) >= r[p][o]
         /\ Owed(r, l, w, o) >= l[o] /\ Owed(r, l, w, o) >= w[o]
  <1>1. From(r, Objects, o) \in Nat /\ l[o] \in Nat /\ w[o] \in Nat
    BY FromNat
  <1>2. From(r, Objects, o) = 0 <=> \A p \in Objects : r[p][o] = 0
    BY FromZero
  <1>3. \A p \in Objects : From(r, Objects, o) >= r[p][o] /\ r[p][o] \in Nat
    BY FromWithout
  <1> QED
    BY <1>1, <1>2, <1>3 DEF Owed

\* What the program reaches is named, so it is there.
LEMMA KeptFollows ==
  ASSUME TypeOK, NothingDangles, PhasesInv, RoomsFollowHolders
  PROVE  /\ ReachableIsKept
         /\ \A o \in Reachable : o \in Objects /\ o \in heap \ Gone
  <1> DEFINE K == heap \ Gone
             S == {o \in Objects : locals[o] > 0}
  <1>0. K \in SUBSET Objects /\ \A o \in Objects : Names(o) => o \in K
    BY DEF TypeOK, NothingDangles
  <1>1. S \subseteq K
    <2>1. \A o \in Objects : locals[o] \in Nat /\ later[o] \in Nat
      BY Sizes DEF TypeOK
    <2>2. \A o \in S : Names(o)
      BY <2>1 DEF Names
    <2> HIDE DEF K
    <2> QED
      BY <1>0, <2>2
  <1>2. Closed(K)
    BY <1>0 DEF Names, Closed
  <1>3. Reachable \subseteq K
    <2> HIDE DEF K, S
    <2>1. ReachedFrom(S) \subseteq K
      BY <1>0, <1>1, <1>2 DEF ReachedFrom
    <2> QED
      BY <2>1 DEF Reachable, S
  <1>4. phase = "later" => garbage \intersect heap = {}
    BY DEF PhasesInv
  <1>5. \A o \in K : o \in Holders => o \in room
    BY DEF RoomsFollowHolders
  <1> QED
    BY <1>0, <1>3, <1>4, <1>5 DEF ReachableIsKept

\* What is left to show of a quiet heap.
LEMMA QuietNext ==
  ASSUME TypeOK', phase' \in Quiet, at' = 1, stack' = {}, color' = [x \in Objects |-> "black"],
         phase' = "idle" => garbage' = {} /\ later' = None /\ rooms' = {},
         phase' = "later" => garbage' \intersect heap' = {} /\ \A x \in garbage' : TakesPart(x)',
         CountGone' \intersect room' = {},
         BufferExact', RoomsFollowHolders', NothingDangles',
         \A o \in heap' \ InSeq(draining') : count'[o] = Owed(refs', locals', later', o)
  PROVE  Core'
  <1>1. NotBlackYet' = {} /\ Colored("gray")' = {} /\ Colored("white")' = {}
    BY DEF NotBlackYet, Colored
  <1>2. Entries("mark")' = {} /\ Entries("restore")' = {} /\ Entries("collect")' = {}
    BY DEF Entries
  <1>3. garbage' \subseteq Objects
    BY Kinds DEF TypeOK
  <1>4. garbage' \intersect heap' = {}
    BY DEF Quiet
  <1>5. \A o \in garbage' : TakesPart(o)' /\ color'[o] = "black"
    BY <1>3 DEF Quiet
  <1>6. PhasesInv'
    BY <1>1, <1>2, <1>4, <1>5 DEF PhasesInv, Quiet
  <1>7. WalksInv'
    BY DEF WalksInv, Quiet
  <1>8. CountsExact'
    BY <1>6, QuietCountsNext
  <1> QED
    BY <1>6, <1>7, <1>8 DEF Core

LEMMA TypeFacts ==
  ASSUME TypeOK
  PROVE  /\ heap \in SUBSET Objects /\ refs \in Tables
         /\ locals \in [Objects -> Nat] /\ locals \in [Objects -> 0 .. MaxLocals]
         /\ count \in [Objects -> Nat] /\ later \in [Objects -> Nat]
         /\ color \in [Objects -> {"black", "gray", "white"}]
         /\ draining \in Seq(Objects) /\ roots \in Seq(Objects \union {Gap})
         /\ InSeq(draining) \subseteq Objects
         /\ buffered \in SUBSET Objects /\ IsFiniteSet(buffered) /\ garbage \in SUBSET Objects
         /\ IsFiniteSet(garbage)
  <1>1. locals \in [Objects -> Nat]
    BY Sizes DEF TypeOK
  <1>2. InSeq(draining) \subseteq Objects
    BY SeqFacts DEF TypeOK
  <1>3. buffered \in SUBSET Objects /\ garbage \in SUBSET Objects
    BY Kinds DEF TypeOK
  <1>4. IsFiniteSet(buffered) /\ IsFiniteSet(garbage)
    BY <1>3, Kinds, FS_Subset
  <1> QED
    BY <1>1, <1>2, <1>3, <1>4 DEF TypeOK, Tables

\* One reference more to an object that is there.
LEMMA RetainKeeps ==
  ASSUME Core, phase \in Quiet, NEW o \in heap \ Gone, Retain(o),
         UNCHANGED <<heap, color, running, weak, room, draining, buffer, collector>>,
         refs' \in Tables, locals' \in [Objects -> 0 .. MaxLocals],
         Owed(refs', locals', later, o) = Owed(refs, locals, later, o) + 1,
         \A x \in Objects \ {o} : Owed(refs', locals', later, x) = Owed(refs, locals, later, x),
         \A x \in Objects : Names(x)' => Names(x) \/ x = o,
         \A p \in Objects \ (heap \ CountGone) : refs'[p] = None,
         \A x \in Objects : locals[x] > 0 => locals'[x] > 0
  PROVE  Core'
  <1>1. /\ TypeOK /\ CountsExact /\ BufferExact /\ RoomsFollowHolders
        /\ NothingDangles /\ PhasesInv /\ WalksInv
    BY DEF Core
  <1>2. /\ heap' = heap /\ color' = color /\ running' = running /\ weak' = weak /\ room' = room
        /\ draining' = draining /\ roots' = roots /\ buffered' = buffered
        /\ candidates' = candidates /\ dead' = dead /\ phase' = phase /\ at' = at
        /\ stack' = stack /\ garbage' = garbage /\ later' = later /\ rooms' = rooms
        /\ visited' = visited /\ threshold' = threshold
    BY DEF buffer, collector, walk
  <1>3. /\ stack = {} /\ at = 1 /\ color = [x \in Objects |-> "black"]
        /\ garbage \intersect heap = {}
        /\ (phase = "idle" => garbage = {} /\ later = None /\ rooms = {})
    BY <1>1, QuietIs
  <1>4. /\ o \in Objects /\ o \notin InSeq(draining) /\ o \notin CountGone
        /\ count \in [Objects -> Nat]
    BY <1>1 DEF TypeOK, Gone
  <1>5. /\ count' \in [Objects -> Nat] /\ count'[o] = count[o] + 1
        /\ \A x \in Objects \ {o} : count'[x] = count[x]
    BY <1>4 DEF Retain
  <1>6. TypeOK'
    BY <1>1, <1>2, <1>5 DEF TypeOK, Tables, InSeq
  <1>7. CountGone' = CountGone
    <2>1. Swept' = Swept
      <3>1. \A x \in buffered : count'[x] = 0 <=> count[x] = 0
        <4> TAKE x \in buffered
        <4>1. x \in Objects
          BY <1>1, TypeFacts
        <4>2. CASE x = o
          <5>1. count[o] # 0
            BY <1>4, <4>2 DEF CountGone, Swept, Quiet
          <5> QED
            BY <1>4, <1>5, <4>2, <5>1
        <4>3. CASE x # o
          BY <1>5, <4>1, <4>3
        <4> QED
          BY <4>2, <4>3
      <3> QED
        BY <1>2, <3>1 DEF Swept
    <2> QED
      BY <1>2, <2>1 DEF CountGone
  <1>8. Gone' = Gone
    BY <1>2, <1>7 DEF Gone, InSeq
  <1>9. BufferExact'
    BY <1>1, <1>2, <1>7 DEF BufferExact, InSeq
  <1>10. RoomsFollowHolders'
    BY <1>1, <1>2, <1>8 DEF RoomsFollowHolders
  <1>11. NothingDangles'
    <2>1. \A x \in Objects : Names(x)' => x \in heap' \ Gone'
      BY <1>1, <1>2, <1>8 DEF NothingDangles
    <2>2. \A p \in Objects \ (heap' \ CountGone') : refs'[p] = None'
      BY <1>2, <1>7 DEF None
    <2>3. \A x \in InSeq(draining)' : x \in heap' /\ count'[x] = 1
      <3>1. InSeq(draining)' = InSeq(draining) /\ InSeq(draining) \subseteq Objects
        BY <1>1, <1>2, TypeFacts DEF InSeq
      <3>2. \A x \in InSeq(draining) : x \in heap /\ count[x] = 1
        BY <1>1 DEF NothingDangles
      <3> QED
        BY <1>2, <1>4, <1>5, <3>1, <3>2
    <2>4. \A f \in running' : locals'[f] > 0
      BY <1>1, <1>2, Kinds DEF NothingDangles, TypeOK
    <2> QED
      BY <1>1, <1>2, <2>1, <2>2, <2>3, <2>4 DEF NothingDangles
  <1>12. \A x \in heap' \ InSeq(draining') : count'[x] = Owed(refs', locals', later', x)
    <2> TAKE x \in heap' \ InSeq(draining')
    <2>1. x \in heap \ InSeq(draining) /\ x \in Objects
      BY <1>1, <1>2 DEF TypeOK
    <2>2. count[x] = Owed(refs, locals, later, x)
      BY <2>1, QuietCounts
    <2> QED
      BY <1>2, <1>5, <2>1, <2>2
  <1>13. phase' = "later" => garbage' \intersect heap' = {} /\ \A x \in garbage' : TakesPart(x)'
    BY <1>1, <1>2, <1>3 DEF PhasesInv, TakesPart
  <1>14. CountGone' \intersect room' = {}
    BY <1>1, <1>2, <1>7 DEF PhasesInv
  <1>15. phase' = "idle" => garbage' = {} /\ later' = None /\ rooms' = {}
    BY <1>2, <1>3
  <1> QED
    BY <1>2, <1>3, <1>6, <1>9, <1>10, <1>11, <1>12, <1>13, <1>14, <1>15, QuietNext

\* A buffer lists each of S once.
Lists(s, S) ==
  /\ s \in Seq(Objects \union {Gap}) /\ InSeq(s) \ {Gap} = S
  /\ \A i, j \in 1 .. Len(s) : s[i] = s[j] /\ s[i] # Gap => i = j

LEMMA ListsAppend ==
  ASSUME NEW s, NEW S, Lists(s, S), NEW o \in Objects, o \notin S
  PROVE  /\ Lists(Append(s, o), S \union {o})
         /\ Gap \notin InSeq(s) => Gap \notin InSeq(Append(s, o))
         /\ Len(Append(s, o)) \in Nat
  <1> DEFINE t == Append(s, o)
             n == Len(s)
  <1>0. o # Gap /\ s \in Seq(Objects \union {Gap})
    BY Kinds DEF Lists
  <1>1. /\ n \in Nat /\ t \in Seq(Objects \union {Gap}) /\ Len(t) = n + 1 /\ t[n + 1] = o
        /\ \A i \in 1 .. n : t[i] = s[i] /\ s[i] \in InSeq(s)
    BY <1>0 DEF InSeq
  <1> HIDE DEF t
  <1>2. InSeq(t) = InSeq(s) \union {o}
    <2>1. \A x \in InSeq(s) : \E i \in 1 .. n : s[i] = x
      BY DEF InSeq
    <2> HIDE DEF n
    <2>2. 1 .. Len(t) = (1 .. n) \union {n + 1}
      BY <1>1
    <2>3. ASSUME NEW x \in InSeq(t) PROVE x \in InSeq(s) \union {o}
      <3>1. PICK i \in 1 .. Len(t) : x = t[i]
        BY DEF InSeq
      <3> QED
        BY <1>1, <2>2, <3>1
    <2>4. ASSUME NEW x \in InSeq(s) \union {o} PROVE x \in InSeq(t)
      <3>1. \E i \in 1 .. Len(t) : x = t[i]
        BY <1>1, <2>1, <2>2
      <3> QED
        BY <3>1 DEF InSeq
    <2> QED
      BY <2>3, <2>4
  <1>3. InSeq(t) \ {Gap} = S \union {o}
    BY <1>0, <1>2 DEF Lists
  <1>4. ASSUME NEW i \in 1 .. Len(t), NEW j \in 1 .. Len(t), t[i] = t[j], t[i] # Gap
        PROVE  i = j
    <2> HIDE DEF n
    <2>1. i \in 1 .. n \/ i = n + 1
      BY <1>1
    <2>2. j \in 1 .. n \/ j = n + 1
      BY <1>1
    <2>3. \A k \in 1 .. n : t[k] = o => FALSE
      BY <1>0, <1>1 DEF Lists
    <2>4. CASE i \in 1 .. n /\ j \in 1 .. n
      BY <1>1, <1>4, <2>4 DEF Lists, n
    <2> QED
      BY <1>1, <1>4, <2>1, <2>2, <2>3, <2>4
  <1> QED
    BY <1>0, <1>1, <1>2, <1>3, <1>4 DEF Lists, t

LEMMA ListsNoGaps ==
  ASSUME NEW s, NEW S, Lists(s, S)
  PROVE  /\ Lists(NoGaps(s), S) /\ Gap \notin InSeq(NoGaps(s))
         /\ Len(NoGaps(s)) = Cardinality(S) /\ IsFiniteSet(S) /\ Cardinality(S) \in Nat
  <1> DEFINE A == Objects \union {Gap}
             w == Without(s, {Gap})
  <1>1. s \in Seq(A) /\ \A i, j \in 1 .. Len(s) : s[i] = s[j] /\ s[i] \notin {Gap} => i = j
    BY DEF Lists
  <1>2. /\ w \in Seq(A) /\ Len(w) \in Nat /\ InSeq(w) = InSeq(s) \ {Gap}
        /\ \A i, j \in 1 .. Len(w) : w[i] = w[j] => i = j
    <2> HIDE DEF A
    <2> QED
      BY <1>1, WithoutFacts
  <1> HIDE DEF w
  <1>3. IsFiniteSet(InSeq(w)) /\ Cardinality(InSeq(w)) = Len(w)
    BY <1>2, LenIsCardinality
  <1>4. InSeq(w) = S
    BY <1>2 DEF Lists
  <1> QED
    BY <1>2, <1>3, <1>4 DEF Lists, NoGaps, w

LEMMA BufferIs ==
  /\ BufferExact <=> /\ buffered \subseteq heap /\ InSeq(roots) \ {Gap} = buffered
                     /\ \A i, j \in 1 .. Len(roots) : roots[i] = roots[j] /\ roots[i] # Gap => i = j
                     /\ candidates = Cardinality(buffered) /\ dead = Cardinality(CountGone)
                     /\ phase = "idle" => Gap \notin InSeq(roots)
  /\ TypeOK /\ BufferExact => Lists(roots, buffered)
  BY DEF BufferExact, TypeOK, Lists

\* A candidate more, or the same ones.
LEMMA SuspectEffect ==
  ASSUME TypeOK, BufferExact, NEW o \in Objects, Suspect(o)
  PROVE  /\ Lists(roots', buffered') /\ buffered' \subseteq Cyclic
         /\ buffered' = buffered \/ buffered' = buffered \union {o}
         /\ candidates' = Cardinality(buffered') /\ candidates' \in Nat /\ dead' = dead
         /\ Gap \notin InSeq(roots) => Gap \notin InSeq(roots')
         /\ Len(roots') \in Nat
  <1>1. Lists(roots, buffered) /\ candidates = Cardinality(buffered) /\ buffered \subseteq Cyclic
        /\ roots \in Seq(Objects \union {Gap})
    BY BufferIs DEF BufferExact, TypeOK
  <1>2. IsFiniteSet(buffered) /\ Cardinality(buffered) \in Nat
    BY TypeFacts, FS_CardinalityType
  <1>3. CASE NewSuspect(o)
    <2>1. /\ roots' \in {Append(roots, o), Append(NoGaps(roots), o)}
          /\ candidates' = candidates + 1 /\ buffered' = buffered \union {o} /\ dead' = dead
      BY <1>3 DEF Suspect
    <2>2. o \in Cyclic /\ o \notin buffered
      BY <1>3 DEF NewSuspect
    <2>3. candidates' = Cardinality(buffered') /\ candidates' \in Nat
      <3>1. Cardinality(buffered \union {o}) = Cardinality(buffered) + 1
        BY <1>2, <2>2, FS_AddElement
      <3> QED
        BY <1>1, <1>2, <2>1, <3>1
    <2>4. CASE roots' = Append(roots, o)
      <3>1. /\ Lists(Append(roots, o), buffered \union {o}) /\ Len(Append(roots, o)) \in Nat
            /\ Gap \notin InSeq(roots) => Gap \notin InSeq(Append(roots, o))
        BY <1>1, <2>2, ListsAppend
      <3> QED
        BY <1>1, <2>1, <2>2, <2>3, <2>4, <3>1
    <2>5. CASE roots' = Append(NoGaps(roots), o)
      <3>1. Lists(NoGaps(roots), buffered) /\ Gap \notin InSeq(NoGaps(roots))
        BY <1>1, ListsNoGaps
      <3>2. Lists(Append(NoGaps(roots), o), buffered \union {o}) /\ Len(Append(NoGaps(roots), o)) \in Nat
            /\ Gap \notin InSeq(Append(NoGaps(roots), o))
        BY <2>2, <3>1, ListsAppend
      <3> QED
        BY <1>1, <2>1, <2>2, <2>3, <2>5, <3>2
    <2> QED
      BY <2>1, <2>4, <2>5
  <1>4. CASE ~ NewSuspect(o)
    <2>1. UNCHANGED <<roots, buffered, candidates, dead>>
      BY <1>4 DEF Suspect, buffer
    <2> QED
      BY <1>1, <1>2, <2>1
  <1> QED
    BY <1>3, <1>4
-----------------------------------------------------------------------------
(***************************************************************************)
(* The steps of the program and of a release, in a quiet heap.             *)
(***************************************************************************)

\* A release in progress has each block once.
Once(d) == \A i, j \in DOMAIN d : d[i] = d[j] => i = j

LEMMA QueueFacts ==
  ASSUME draining \in Seq(Objects), Once(draining), NEW o \in Objects, o \notin InSeq(draining)
  PROVE  /\ Queue(o) \in Seq(Objects) /\ Once(Queue(o)) /\ Queue(o) # <<>>
         /\ InSeq(Queue(o)) = InSeq(draining) \union {o}
  <1>1. CASE draining = <<>>
    <2>1. Queue(o) = <<o>>
      BY <1>1 DEF Queue
    <2>2. InSeq(<<o>>) = {o} /\ InSeq(<<>>) = {} /\ Once(<<o>>)
      BY DEF InSeq, Once
    <2> QED
      BY <1>1, <2>1, <2>2
  <1>2. CASE draining # <<>>
    <2> DEFINE d == draining
               n == Len(d)
               q == Queue(o)
    <2>1. /\ n \in Nat \ {0} /\ DOMAIN d = 1 .. n
          /\ Len(q) = n + 1 /\ q \in Seq(Objects) /\ DOMAIN q = 1 .. n + 1 /\ q # <<>>
          /\ q[1] = d[1] /\ q[2] = o /\ \A k \in 3 .. n + 1 : q[k] = d[k - 1]
      <3>1. n \in Nat \ {0} /\ Head(d) = d[1] /\ Head(d) \in Objects /\ Tail(d) \in Seq(Objects)
            /\ Len(Tail(d)) = n - 1 /\ \A k \in 1 .. n - 1 : Tail(d)[k] = d[k + 1]
        BY <1>2
      <3> DEFINE a == <<Head(d), o>>
                 b == Tail(d)
      <3>2. a \in Seq(Objects) /\ Len(a) = 2 /\ a[1] = d[1] /\ a[2] = o
        BY <3>1
      <3>3. q = a \o b
        BY <1>2 DEF Queue
      <3> HIDE DEF a, q, d, n
      <3>4. b \in Seq(Objects) /\ Len(b) = n - 1 /\ \A k \in 1 .. n - 1 : b[k] = d[k + 1]
        BY <3>1
      <3> HIDE DEF b
      <3>5. /\ q \in Seq(Objects) /\ Len(q) = 2 + (n - 1)
            /\ \A k \in 1 .. 2 + (n - 1) : q[k] = IF k <= 2 THEN a[k] ELSE b[k - 2]
        <4>1. /\ a \o b \in Seq(Objects) /\ Len(a \o b) = Len(a) + Len(b)
              /\ \A k \in 1 .. Len(a) + Len(b) :
                   (a \o b)[k] = IF k <= Len(a) THEN a[k] ELSE b[k - Len(a)]
          BY <3>2, <3>4, ConcatProperties
        <4> QED
          BY <3>2, <3>3, <3>4, <4>1, Zenon
      <3>6. DOMAIN q = 1 .. n + 1 /\ q # <<>>
        BY <3>1, <3>5
      <3>7. q[1] = a[1] /\ q[2] = a[2]
        BY <3>1, <3>5
      <3>8. ASSUME NEW k \in 3 .. n + 1 PROVE q[k] = d[k - 1]
        <4>1. q[k] = b[k - 2] /\ k - 2 \in 1 .. n - 1 /\ (k - 2) + 1 = k - 1
          BY <3>1, <3>5
        <4> QED
          BY <3>4, <4>1
      <3>9. DOMAIN d = 1 .. n
        BY <3>1 DEF d, n
      <3> QED
        BY <3>1, <3>2, <3>5, <3>6, <3>7, <3>8, <3>9
    <2>2. \A i \in 1 .. n : d[i] \in InSeq(d)
      BY DEF InSeq
    <2>3. \A x \in InSeq(d) : \E i \in 1 .. n : d[i] = x
      BY DEF InSeq
    <2> HIDE DEF q, n, d
    <2>4. InSeq(q) = InSeq(d) \union {o}
      <3>1. ASSUME NEW x \in InSeq(q) PROVE x \in InSeq(d) \union {o}
        <4>1. PICK k \in 1 .. n + 1 : x = q[k]
          BY <2>1 DEF InSeq
        <4>2. k = 1 \/ k = 2 \/ (k \in 3 .. n + 1 /\ k - 1 \in 1 .. n)
          BY <2>1
        <4>3. 1 \in 1 .. n
          BY <2>1
        <4> QED
          BY <2>1, <2>2, <4>1, <4>2, <4>3
      <3>2. ASSUME NEW x \in InSeq(d) \union {o} PROVE x \in InSeq(q)
        <4>1. \E k \in 1 .. n + 1 : x = q[k]
          <5>1. CASE x = o
            <6>1. 2 \in 1 .. n + 1
              BY <2>1
            <6> QED
              BY <2>1, <5>1, <6>1
          <5>2. CASE x \in InSeq(d)
            <6>1. PICK i \in 1 .. n : d[i] = x
              BY <2>3, <5>2
            <6>2. CASE i = 1
              BY <2>1, <6>1, <6>2
            <6>3. CASE i # 1
              <7>1. i + 1 \in 3 .. n + 1 /\ (i + 1) - 1 = i /\ i + 1 \in 1 .. n + 1
                BY <2>1, <6>3
              <7>2. q[i + 1] = d[i]
                BY <2>1, <7>1
              <7> QED
                BY <6>1, <7>1, <7>2
            <6> QED
              BY <6>2, <6>3
          <5> QED
            BY <5>1, <5>2
        <4> QED
          BY <2>1, <4>1 DEF InSeq
      <3> QED
        BY <3>1, <3>2
    <2>5. ASSUME NEW i \in 1 .. n + 1, NEW j \in 1 .. n + 1, q[i] = q[j] PROVE i = j
      <3> DEFINE B(k) == IF k = 1 THEN 1 ELSE k - 1
      <3>1. \A k \in 1 .. n + 1 : k # 2 => B(k) \in 1 .. n /\ q[k] = d[B(k)] /\ q[k] # o
        <4> TAKE k \in 1 .. n + 1
        <4>1. CASE k = 1
          <5>1. 1 \in 1 .. n
            BY <2>1
          <5> QED
            BY <2>1, <2>2, <4>1, <5>1 DEF d
        <4>2. CASE k # 1 /\ k # 2
          <5>1. k \in 3 .. n + 1 /\ k - 1 \in 1 .. n
            BY <2>1, <4>2
          <5> QED
            BY <2>1, <2>2, <4>2, <5>1 DEF d
        <4> QED
          BY <4>1, <4>2
      <3>2. CASE i = 2 \/ j = 2
        BY <2>1, <2>5, <3>1, <3>2
      <3>3. CASE i # 2 /\ j # 2
        <4>1. B(i) \in DOMAIN d /\ B(j) \in DOMAIN d /\ d[B(i)] = d[B(j)]
          BY <2>1, <2>5, <3>1, <3>3
        <4>2. B(i) = B(j)
          BY <4>1 DEF Once, d
        <4> QED
          BY <2>1, <3>3, <4>2
      <3> QED
        BY <3>2, <3>3
    <2> QED
      BY <2>1, <2>4, <2>5 DEF Once, q, d
  <1> QED
    BY <1>1, <1>2

\* One reference less to an object that is there.
LEMMA ReleaseKeeps ==
  ASSUME Core, phase \in Quiet, NEW o \in heap \ Gone, Release(o),
         UNCHANGED <<heap, color, running, room, phase, at, stack, garbage, rooms, visited, threshold>>,
         refs' \in Tables, locals' \in [Objects -> 0 .. MaxLocals], later' \in [Objects -> Nat],
         Owed(refs, locals, later, o) = Owed(refs', locals', later', o) + 1,
         \A x \in Objects \ {o} : Owed(refs', locals', later', x) = Owed(refs, locals, later, x),
         \A x \in Objects : locals'[x] > 0 \/ later'[x] > 0 \/ (\E p \in Objects : refs'[p][x] > 0) => Names(x),
         \A p \in Objects \ (heap \ CountGone) : refs'[p] = None,
         \A f \in running : locals'[f] > 0,
         phase = "idle" => later' = None
  PROVE  Core'
  <1>1. /\ TypeOK /\ CountsExact /\ BufferExact /\ RoomsFollowHolders
        /\ NothingDangles /\ PhasesInv /\ WalksInv
    BY DEF Core
  <1>2. /\ heap' = heap /\ color' = color /\ running' = running /\ room' = room
        /\ phase' = phase /\ at' = at /\ stack' = stack /\ garbage' = garbage /\ rooms' = rooms
        /\ visited' = visited /\ threshold' = threshold
    OBVIOUS
  <1>3. /\ stack = {} /\ at = 1 /\ color = [x \in Objects |-> "black"]
        /\ garbage \intersect heap = {}
        /\ (phase = "idle" => garbage = {} /\ later = None /\ rooms = {})
    BY <1>1, QuietIs
  <1>4. /\ o \in Objects /\ o \notin InSeq(draining) /\ o \notin CountGone
        /\ CountGone = Swept /\ Swept' = CountGone'
    BY <1>1, <1>2 DEF TypeOK, Gone, CountGone, Quiet
  <1>5. locals' \in [Objects -> Nat]
    BY Sizes
  <1>6. /\ Owed(refs', locals', later', o) \in Nat
        /\ count[o] = Owed(refs', locals', later', o) + 1
    BY <1>4, <1>5, OwedZero, QuietCounts
  <1>7. /\ \A x \in Objects : locals'[x] \in Nat /\ later'[x] \in Nat
        /\ \A x \in Objects : Names(x)' => x \in weak' \/ Names(x)
    BY <1>5 DEF Names
  <1>8. CASE count[o] = 1
    <2>1. /\ draining' = Queue(o) /\ weak' = weak \ {o} /\ count' = count /\ roots' = roots
          /\ buffered' = buffered /\ candidates' = candidates /\ dead' = dead
      BY <1>8 DEF Release, ClearWeak, buffer
    <2>2. /\ draining' \in Seq(Objects) /\ Once(draining') /\ draining' # <<>>
          /\ InSeq(draining)' = InSeq(draining) \union {o}
      <3>1. draining \in Seq(Objects) /\ Once(draining)
        BY <1>1 DEF TypeOK, NothingDangles, Once
      <3>2. InSeq(draining)' = InSeq(draining')
        BY DEF InSeq
      <3> QED
        BY <1>4, <2>1, <3>1, <3>2, QueueFacts
    <2>3. CountGone' = CountGone
      BY <1>2, <1>4, <2>1 DEF Swept
    <2>4. Gone' = Gone \union {o}
      BY <2>2, <2>3 DEF Gone
    <2>5. TypeOK'
      BY <1>1, <1>2, <2>1, <2>2 DEF TypeOK, Tables
    <2>6. BufferExact'
      BY <1>1, <1>2, <2>1, <2>3 DEF BufferExact, InSeq
    <2>7. RoomsFollowHolders'
      BY <1>1, <1>2, <2>4 DEF RoomsFollowHolders
    <2>8. ~ Names(o)'
      <3>1. locals'[o] + later'[o] = 0 /\ \A p \in Objects : refs'[p][o] = 0
        BY <1>4, <1>5, <1>6, <1>8, OwedZero
      <3> QED
        BY <2>1, <3>1 DEF Names
    <2>9. NothingDangles'
      <3>1. \A x \in Objects : Names(x)' => x \in heap' \ Gone'
        <4> TAKE x \in Objects
        <4>1. ASSUME Names(x)' PROVE Names(x) /\ x # o
          BY <1>7, <2>1, <2>8, <4>1 DEF Names
        <4> QED
          BY <1>1, <1>2, <2>4, <4>1 DEF NothingDangles
      <3>2. \A p \in Objects \ (heap' \ CountGone') : refs'[p] = None'
        BY <1>2, <2>3 DEF None
      <3>3. \A x \in InSeq(draining)' : x \in heap' /\ count'[x] = 1
        BY <1>1, <1>2, <1>8, <2>1, <2>2 DEF NothingDangles
      <3>4. \A i, j \in DOMAIN draining' : draining'[i] = draining'[j] => i = j
        BY <2>2 DEF Once
      <3> QED
        BY <1>2, <3>1, <3>2, <3>3, <3>4 DEF NothingDangles
    <2>10. \A x \in heap' \ InSeq(draining') : count'[x] = Owed(refs', locals', later', x)
      <3> TAKE x \in heap' \ InSeq(draining')
      <3>1. x \in heap \ InSeq(draining) /\ x \in Objects \ {o}
        BY <1>1, <1>2, <2>2 DEF TypeOK, InSeq
      <3>2. count[x] = Owed(refs, locals, later, x)
        BY <3>1, QuietCounts
      <3> QED
        BY <2>1, <3>1, <3>2
    <2>11. phase' = "later" => garbage' \intersect heap' = {} /\ \A x \in garbage' : TakesPart(x)'
      BY <1>1, <1>2, <1>3 DEF PhasesInv, TakesPart
    <2>12. CountGone' \intersect room' = {}
      BY <1>1, <1>2, <2>3 DEF PhasesInv
    <2>13. phase' = "idle" => garbage' = {} /\ later' = None' /\ rooms' = {}
      BY <1>2, <1>3 DEF None
    <2> QED
      BY <1>2, <1>3, <2>5, <2>6, <2>7, <2>9, <2>10, <2>11, <2>12, <2>13, QuietNext
  <1>9. CASE count[o] # 1
    <2>1. /\ count' = [count EXCEPT ![o] = @ - 1] /\ Suspect(o)
          /\ draining' = draining /\ weak' = weak
      BY <1>9 DEF Release
    <2>2. /\ count \in [Objects -> Nat] /\ count[o] - 1 \in Nat \ {0}
      BY <1>1, <1>4, <1>6, <1>9, TypeFacts
    <2>3. /\ count' \in [Objects -> Nat] /\ count'[o] = count[o] - 1 /\ count'[o] # 0
          /\ \A x \in Objects \ {o} : count'[x] = count[x]
      BY <1>4, <2>1, <2>2
    <2>4. /\ Lists(roots', buffered') /\ buffered' \subseteq Cyclic
          /\ buffered' = buffered \/ buffered' = buffered \union {o}
          /\ candidates' = Cardinality(buffered') /\ candidates' \in Nat /\ dead' = dead
          /\ Gap \notin InSeq(roots) => Gap \notin InSeq(roots')
          /\ Len(roots') \in Nat
      BY <1>1, <1>4, <2>1, SuspectEffect
    <2>5. CountGone' = CountGone
      <3>1. \A x \in buffered' : count'[x] = 0 <=> x \in buffered /\ count[x] = 0
        <4> TAKE x \in buffered'
        <4>1. CASE x = o
          BY <2>2, <2>3, <4>1
        <4>2. CASE x # o
          <5>1. x \in buffered /\ x \in Objects
            BY <1>1, <2>4, <4>2, TypeFacts
          <5> QED
            BY <2>3, <4>2, <5>1
        <4> QED
          BY <4>1, <4>2
      <3> QED
        BY <1>4, <2>4, <3>1 DEF Swept
    <2>6. Gone' = Gone /\ InSeq(draining)' = InSeq(draining)
      BY <2>1, <2>5 DEF Gone, InSeq
    <2>7. TypeOK'
      <3>1. dead' \in Nat /\ roots' \in Seq(Objects \union {Gap}) /\ at' \in 1 .. Len(roots') + 1
        BY <1>1, <1>2, <1>3, <2>4 DEF TypeOK, Lists
      <3>2. /\ heap' \subseteq Objects /\ refs' \in [Objects -> [Objects -> 0 .. MaxRefs]]
            /\ color' \in [Objects -> {"black", "gray", "white"}]
            /\ phase' = "idle" => color' = [x \in Objects |-> "black"]
            /\ running' \subseteq Frames /\ weak' \subseteq Targets /\ room' \subseteq Holders
            /\ draining' \in Seq(Objects) /\ phase' \in Phases /\ stack' \subseteq Objects \X Hows
            /\ garbage' \subseteq Cyclic /\ rooms' \subseteq Holders
            /\ visited' \in Nat /\ threshold' \in Nat
        BY <1>1, <1>2, <2>1 DEF TypeOK, Tables
      <3> QED
        BY <2>3, <2>4, <3>1, <3>2 DEF TypeOK
    <2>8. BufferExact'
      <3>1. /\ buffered' \subseteq heap' /\ dead' = Cardinality(CountGone')
            /\ phase' = "idle" => Gap \notin InSeq(roots)
        BY <1>1, <1>2, <2>4, <2>5 DEF BufferExact
      <3>2. InSeq(roots)' = InSeq(roots')
        BY DEF InSeq
      <3>3. /\ InSeq(roots') \ {Gap} = buffered'
            /\ \A i, j \in 1 .. Len(roots') : roots'[i] = roots'[j] /\ roots'[i] # Gap => i = j
        BY <2>4 DEF Lists
      <3> QED
        BY <2>4, <3>1, <3>2, <3>3 DEF BufferExact
    <2>9. RoomsFollowHolders'
      BY <1>1, <1>2, <2>6 DEF RoomsFollowHolders
    <2>10. NothingDangles'
      <3>1. \A x \in Objects : Names(x)' => x \in heap' \ Gone'
        <4> TAKE x \in Objects
        <4>1. ASSUME Names(x)' PROVE Names(x)
          BY <1>7, <2>1, <4>1 DEF Names
        <4> QED
          BY <1>1, <1>2, <2>6, <4>1 DEF NothingDangles
      <3>2. \A p \in Objects \ (heap' \ CountGone') : refs'[p] = None'
        BY <1>2, <2>5 DEF None
      <3>3. \A x \in InSeq(draining)' : x \in heap' /\ count'[x] = 1
        <4>1. \A x \in InSeq(draining) : x \in heap /\ count[x] = 1 /\ x \in Objects \ {o}
          BY <1>1, <1>4, TypeFacts DEF NothingDangles
        <4> QED
          BY <1>2, <2>3, <2>6, <4>1
      <3>4. \A i, j \in DOMAIN draining' : draining'[i] = draining'[j] => i = j
        BY <1>1, <2>1 DEF NothingDangles
      <3> QED
        BY <1>2, <3>1, <3>2, <3>3, <3>4 DEF NothingDangles
    <2>11. \A x \in heap' \ InSeq(draining') : count'[x] = Owed(refs', locals', later', x)
      <3> TAKE x \in heap' \ InSeq(draining')
      <3>1. x \in heap \ InSeq(draining) /\ x \in Objects
        BY <1>1, <1>2, <2>1 DEF TypeOK
      <3>2. CASE x = o
        BY <1>6, <2>3, <3>2
      <3>3. CASE x # o
        <4>1. count[x] = Owed(refs, locals, later, x)
          BY <3>1, QuietCounts
        <4> QED
          BY <2>3, <3>1, <3>3, <4>1
      <3> QED
        BY <3>2, <3>3
    <2>12. phase' = "later" => garbage' \intersect heap' = {} /\ \A x \in garbage' : TakesPart(x)'
      BY <1>1, <1>2, <1>3 DEF PhasesInv, TakesPart
    <2>13. CountGone' \intersect room' = {}
      BY <1>1, <1>2, <2>5 DEF PhasesInv
    <2>14. phase' = "idle" => garbage' = {} /\ later' = None' /\ rooms' = {}
      BY <1>2, <1>3 DEF None
    <2> QED
      BY <1>2, <1>3, <2>7, <2>8, <2>9, <2>10, <2>11, <2>12, <2>13, <2>14, QuietNext
  <1> QED
    BY <1>8, <1>9

\* Another number of references from p to o.
OneRef(r, q, p, o, n) ==
  /\ q \in Tables /\ q[p][o] = n
  /\ \A x \in Objects : x # p => q[x] = r[x]
  /\ \A y \in Objects : y # o => q[p][y] = r[p][y]

LEMMA OneRefIs ==
  ASSUME NEW r \in Tables, NEW p \in Objects, NEW o \in Objects, NEW n \in 0 .. MaxRefs,
         NEW q, q = [r EXCEPT ![p][o] = n]
  PROVE  OneRef(r, q, p, o, n)
  <1>1. q = [r EXCEPT ![p] = [r[p] EXCEPT ![o] = n]] /\ r[p] \in [Objects -> 0 .. MaxRefs]
    BY DEF Tables
  <1>2. [r[p] EXCEPT ![o] = n] \in [Objects -> 0 .. MaxRefs]
    BY <1>1
  <1>3. q \in Tables /\ q[p] = [r[p] EXCEPT ![o] = n] /\ \A x \in Objects : x # p => q[x] = r[x]
    BY <1>1, <1>2 DEF Tables
  <1>4. q[p][o] = n /\ \A y \in Objects : y # o => q[p][y] = r[p][y]
    BY <1>1, <1>3
  <1> QED
    BY <1>3, <1>4 DEF OneRef

LEMMA OneRefCounts ==
  ASSUME NEW r \in Tables, NEW q, NEW p \in Objects, NEW o \in Objects, NEW n, OneRef(r, q, p, o, n)
  PROVE  /\ From(q, Objects, o) = From(r, Objects, o) - r[p][o] + n
         /\ \A x \in Objects \ {o} : From(q, Objects, x) = From(r, Objects, x)
         /\ \A x, y \in Objects : x # p \/ y # o => q[x][y] = r[x][y]
  <1>1. /\ q \in Tables /\ q[p][o] = n
        /\ \A x \in Objects : x # p => q[x] = r[x]
        /\ \A y \in Objects : y # o => q[p][y] = r[p][y]
    BY DEF OneRef
  <1>2. From(q, Objects, o) = From(r, Objects, o) - r[p][o] + n
    <2>1. \A x \in Objects \ {p} : q[x][o] = r[x][o]
      BY <1>1
    <2> QED
      BY <1>1, <2>1, FromStep
  <1>3. ASSUME NEW x \in Objects \ {o} PROVE From(q, Objects, x) = From(r, Objects, x)
    <2>1. \A y \in Objects : q[y][x] = r[y][x]
      BY <1>1
    <2> QED
      BY <2>1, FromSame
  <1> QED
    BY <1>1, <1>2, <1>3

LEMMA StoreKeeps == ASSUME Core, NEW p \in Objects, NEW o \in Objects, Store(p, o) PROVE Core'
  <1>1. TypeOK /\ NothingDangles /\ PhasesInv /\ RoomsFollowHolders
    BY DEF Core
  <1>2. o \in heap \ Gone /\ p \in heap \ Gone
    BY <1>1, KeptFollows DEF Store
  <1>3. refs \in Tables /\ refs[p][o] \in Nat /\ refs[p][o] + 1 \in 0 .. MaxRefs
    <2>1. refs \in Tables /\ refs[p][o] \in 0 .. MaxRefs /\ MaxRefs \in Nat
      BY <1>1, Sizes DEF TypeOK, Tables
    <2>2. refs[p][o] < MaxRefs
      BY DEF Store
    <2> QED
      BY <2>1, <2>2
  <1>4. OneRef(refs, refs', p, o, refs[p][o] + 1)
    <2>1. refs' = [refs EXCEPT ![p][o] = refs[p][o] + 1]
      BY DEF Store
    <2> DEFINE n == refs[p][o] + 1
    <2>2. n \in 0 .. MaxRefs /\ refs \in Tables /\ refs' = [refs EXCEPT ![p][o] = n]
      BY <1>3, <2>1
    <2> HIDE DEF n
    <2>3. OneRef(refs, refs', p, o, n)
      BY <2>2, OneRefIs
    <2> QED
      BY <2>3 DEF n
  <1>5. /\ refs' \in Tables /\ refs'[p][o] = refs[p][o] + 1
        /\ \A x, y \in Objects : x # p \/ y # o => refs'[x][y] = refs[x][y]
        /\ \A x \in Objects : x # p => refs'[x] = refs[x]
        /\ From(refs', Objects, o) = From(refs, Objects, o) - refs[p][o] + (refs[p][o] + 1)
        /\ \A x \in Objects \ {o} : From(refs', Objects, x) = From(refs, Objects, x)
    <2>1. refs' \in Tables /\ refs'[p][o] = refs[p][o] + 1 /\ \A x \in Objects : x # p => refs'[x] = refs[x]
      BY <1>4 DEF OneRef
    <2> QED
      BY <1>3, <1>4, <2>1, OneRefCounts
  <1>6. locals' = locals /\ later' = later /\ locals \in [Objects -> 0 .. MaxLocals]
        /\ locals[o] \in Nat /\ later[o] \in Nat /\ From(refs, Objects, o) \in Nat /\ weak' = weak
    BY <1>1, <1>3, TypeFacts, FromNat DEF Store, collector, walk
  <1>7. Owed(refs', locals', later, o) = Owed(refs, locals, later, o) + 1
    BY <1>3, <1>5, <1>6 DEF Owed
  <1>8. \A x \in Objects \ {o} : Owed(refs', locals', later, x) = Owed(refs, locals, later, x)
    BY <1>5, <1>6 DEF Owed
  <1>9. \A x \in Objects : Names(x)' => Names(x) \/ x = o
    BY <1>5, <1>6 DEF Names
  <1>10. \A x \in Objects \ (heap \ CountGone) : refs'[x] = None
    BY <1>1, <1>2, <1>5 DEF NothingDangles, Gone
  <1>11. UNCHANGED <<heap, color, running, weak, room, draining, buffer, collector>>
         /\ phase \in Quiet /\ Retain(o)
    BY DEF Store, Idle, Quiet
  <1> QED
    BY <1>2, <1>5, <1>6, <1>7, <1>8, <1>9, <1>10, <1>11, RetainKeeps

LEMMA LoadKeeps ==
  ASSUME Core, NEW o \in heap \ Gone, locals[o] < MaxLocals, Idle,
         locals' = [locals EXCEPT ![o] = @ + 1], Retain(o),
         UNCHANGED <<heap, refs, color, running, weak, room, draining, buffer, collector>>
  PROVE  Core'
  <1>1. TypeOK /\ NothingDangles
    BY DEF Core
  <1>2. o \in Objects /\ later' = later /\ refs' = refs /\ weak' = weak
    BY <1>1 DEF TypeOK, collector, walk
  <1>3. /\ locals' \in [Objects -> 0 .. MaxLocals] /\ locals'[o] = locals[o] + 1
        /\ \A x \in Objects \ {o} : locals'[x] = locals[x]
        /\ \A x \in Objects : locals[x] \in Nat
    <2>1. locals \in [Objects -> 0 .. MaxLocals] /\ MaxLocals \in Nat /\ locals[o] < MaxLocals
      BY <1>1, Sizes DEF TypeOK
    <2>2. locals[o] + 1 \in 0 .. MaxLocals /\ \A x \in Objects : locals[x] \in Nat
      BY <1>2, <2>1
    <2> QED
      BY <1>2, <2>1, <2>2
  <1>4. later[o] \in Nat /\ From(refs, Objects, o) \in Nat
    BY <1>1, <1>2, TypeFacts, FromNat
  <1>5. Owed(refs', locals', later, o) = Owed(refs, locals, later, o) + 1
    BY <1>2, <1>3, <1>4 DEF Owed
  <1>6. \A x \in Objects \ {o} : Owed(refs', locals', later, x) = Owed(refs, locals, later, x)
    BY <1>2, <1>3 DEF Owed
  <1>7. \A x \in Objects : Names(x)' => Names(x) \/ x = o
    BY <1>2, <1>3 DEF Names
  <1>8. \A x \in Objects \ (heap \ CountGone) : refs'[x] = None
    BY <1>1, <1>2 DEF NothingDangles
  <1>9. \A x \in Objects : locals[x] > 0 => locals'[x] > 0
    BY <1>2, <1>3
  <1>10. refs' \in Tables /\ phase \in Quiet
    BY <1>1, <1>2 DEF TypeOK, Tables, Idle, Quiet
  <1> QED
    BY <1>3, <1>5, <1>6, <1>7, <1>8, <1>9, <1>10, RetainKeeps

LEMMA OneLess ==
  ASSUME NEW r \in Tables, NEW p \in Objects, NEW o \in Objects, r[p][o] > 0,
         NEW q, q = [r EXCEPT ![p][o] = @ - 1]
  PROVE  OneRef(r, q, p, o, r[p][o] - 1)
  <1> DEFINE n == r[p][o] - 1
  <1>1. n \in 0 .. MaxRefs
    <2>1. r[p][o] \in 0 .. MaxRefs /\ MaxRefs \in Nat /\ r[p][o] > 0
      BY Sizes DEF Tables
    <2> QED
      BY <2>1
  <1>2. q = [r EXCEPT ![p][o] = n]
    OBVIOUS
  <1> HIDE DEF n
  <1>3. OneRef(r, q, p, o, n)
    BY <1>1, <1>2, OneRefIs
  <1> QED
    BY <1>3 DEF n

LEMMA RefReleased ==
  ASSUME Core, phase \in Quiet, NEW p \in heap \ CountGone, NEW o \in Objects,
         refs[p][o] > 0, OneRef(refs, refs', p, o, refs[p][o] - 1), Release(o),
         UNCHANGED <<heap, locals, color, running, room, collector>>
  PROVE  Core'
  <1>1. TypeOK /\ NothingDangles /\ PhasesInv
    BY DEF Core
  <1>2. p \in Objects /\ refs \in Tables /\ refs[p][o] \in Nat
    <2>1. p \in Objects /\ refs \in Tables
      BY <1>1, TypeFacts
    <2>2. refs[p][o] \in 0 .. MaxRefs /\ MaxRefs \in Nat
      BY <2>1, Sizes DEF Tables
    <2> QED
      BY <2>1, <2>2
  <1>3. /\ refs' \in Tables /\ refs'[p][o] = refs[p][o] - 1
        /\ \A x, y \in Objects : x # p \/ y # o => refs'[x][y] = refs[x][y]
        /\ \A x \in Objects : x # p => refs'[x] = refs[x]
        /\ From(refs', Objects, o) = From(refs, Objects, o) - refs[p][o] + (refs[p][o] - 1)
        /\ \A x \in Objects \ {o} : From(refs', Objects, x) = From(refs, Objects, x)
    <2>1. refs' \in Tables /\ refs'[p][o] = refs[p][o] - 1 /\ \A x \in Objects : x # p => refs'[x] = refs[x]
      BY DEF OneRef
    <2> QED
      BY <1>2, <2>1, OneRefCounts
  <1>4. locals' = locals /\ later' = later /\ locals \in [Objects -> 0 .. MaxLocals]
        /\ later \in [Objects -> Nat] /\ From(refs, Objects, o) \in Nat
        /\ \A x \in Objects : locals[x] \in Nat /\ later[x] \in Nat
    BY <1>1, TypeFacts, FromNat DEF collector, walk
  <1>5. o \in heap \ Gone
    BY <1>1, <1>2 DEF NothingDangles, Names
  <1>6. Owed(refs, locals, later, o) = Owed(refs', locals', later', o) + 1
    BY <1>2, <1>3, <1>4 DEF Owed
  <1>7. \A x \in Objects \ {o} : Owed(refs', locals', later', x) = Owed(refs, locals, later, x)
    BY <1>3, <1>4 DEF Owed
  <1>8. \A x \in Objects : locals'[x] > 0 \/ later'[x] > 0 \/ (\E y \in Objects : refs'[y][x] > 0)
                             => Names(x)
    BY <1>2, <1>3, <1>4 DEF Names
  <1>9. \A x \in Objects \ (heap \ CountGone) : refs'[x] = None
    BY <1>1, <1>3 DEF NothingDangles
  <1>10. \A f \in running : locals'[f] > 0
    BY <1>1, <1>4 DEF NothingDangles
  <1>11. phase = "idle" => later' = None
    BY <1>1, <1>4, QuietIs
  <1>12. UNCHANGED <<heap, color, running, room, phase, at, stack, garbage, rooms, visited, threshold>>
    BY DEF collector, walk
  <1> QED
    BY <1>3, <1>4, <1>5, <1>6, <1>7, <1>8, <1>9, <1>10, <1>11, <1>12, ReleaseKeeps

LEMMA DropKeeps == ASSUME Core, NEW o \in Objects, Drop(o) PROVE Core'
  <1>1. TypeOK /\ NothingDangles /\ PhasesInv
    BY DEF Core
  <1>2. refs' = refs /\ later' = later
    BY DEF Drop, collector, walk
  <1>3. /\ locals' \in [Objects -> 0 .. MaxLocals] /\ locals'[o] = locals[o] - 1 /\ locals[o] > 0
        /\ \A x \in Objects \ {o} : locals'[x] = locals[x]
        /\ \A x \in Objects : locals[x] \in Nat
    <2>1. locals \in [Objects -> 0 .. MaxLocals] /\ MaxLocals \in Nat
      BY <1>1, Sizes DEF TypeOK
    <2>2. locals[o] > 0 /\ locals' = [locals EXCEPT ![o] = @ - 1]
      BY DEF Drop
    <2>3. locals[o] - 1 \in 0 .. MaxLocals /\ \A x \in Objects : locals[x] \in Nat
      BY <2>1, <2>2
    <2> QED
      BY <2>1, <2>2, <2>3
  <1>4. /\ \A x \in Objects : later[x] \in Nat
        /\ later \in [Objects -> Nat] /\ From(refs, Objects, o) \in Nat
    BY <1>1, TypeFacts, FromNat
  <1>5. o \in heap \ Gone
    BY <1>1, <1>3, <1>4 DEF NothingDangles, Names
  <1>6. Owed(refs, locals, later, o) = Owed(refs', locals', later', o) + 1
    BY <1>2, <1>3, <1>4 DEF Owed
  <1>7. \A x \in Objects \ {o} : Owed(refs', locals', later', x) = Owed(refs, locals, later, x)
    BY <1>2, <1>3 DEF Owed
  <1>8. \A x \in Objects : locals'[x] > 0 \/ later'[x] > 0 \/ (\E y \in Objects : refs'[y][x] > 0)
                             => Names(x)
    BY <1>2, <1>3, <1>4 DEF Names
  <1>9. \A x \in Objects \ (heap \ CountGone) : refs'[x] = None
    BY <1>1, <1>2 DEF NothingDangles
  <1>10. \A f \in running : locals'[f] > 0
    <2>1. running \subseteq Objects /\ \A f \in running : locals[f] > 0
      BY <1>1, Kinds DEF NothingDangles, TypeOK
    <2>2. o \in running => locals[o] > 1
      BY DEF Drop
    <2> QED
      BY <1>3, <2>1, <2>2
  <1>11. phase \in Quiet /\ Release(o) /\ (phase = "idle" => later' = None) /\ refs' \in Tables
         /\ later' \in [Objects -> Nat]
    BY <1>1, <1>2, TypeFacts, QuietIs DEF Drop, Idle, Quiet
  <1>12. UNCHANGED <<heap, color, running, room, phase, at, stack, garbage, rooms, visited, threshold>>
    BY DEF Drop, collector, walk
  <1> QED
    BY <1>3, <1>5, <1>6, <1>7, <1>8, <1>9, <1>10, <1>11, <1>12, ReleaseKeeps

LEMMA ReleaseLaterKeeps == ASSUME Core, NEW o \in Objects, ReleaseLater(o) PROVE Core'
  <1>1. TypeOK /\ NothingDangles /\ PhasesInv
    BY DEF Core
  <1>2. refs' = refs /\ locals' = locals /\ phase = "later" /\ Release(o)
    BY DEF ReleaseLater, program
  <1>3. /\ \A x \in Objects : later[x] \in Nat /\ locals[x] \in Nat
        /\ locals \in [Objects -> 0 .. MaxLocals]
        /\ later \in [Objects -> Nat] /\ From(refs, Objects, o) \in Nat /\ refs \in Tables
    BY <1>1, TypeFacts, FromNat
  <1>4. /\ later' \in [Objects -> Nat] /\ later'[o] = later[o] - 1 /\ later[o] > 0
        /\ \A x \in Objects \ {o} : later'[x] = later[x]
    BY <1>3 DEF ReleaseLater
  <1>5. o \in heap \ Gone
    BY <1>1, <1>3, <1>4 DEF NothingDangles, Names
  <1>6. Owed(refs, locals, later, o) = Owed(refs', locals', later', o) + 1
    BY <1>2, <1>3, <1>4 DEF Owed
  <1>7. \A x \in Objects \ {o} : Owed(refs', locals', later', x) = Owed(refs, locals, later, x)
    BY <1>2, <1>4 DEF Owed
  <1>8. \A x \in Objects : locals'[x] > 0 \/ later'[x] > 0 \/ (\E y \in Objects : refs'[y][x] > 0)
                             => Names(x)
    BY <1>2, <1>3, <1>4 DEF Names
  <1>9. \A x \in Objects \ (heap \ CountGone) : refs'[x] = None
    BY <1>1, <1>2 DEF NothingDangles
  <1>10. \A f \in running : locals'[f] > 0
    BY <1>1, <1>2 DEF NothingDangles
  <1>11. UNCHANGED <<heap, color, running, room, phase, at, stack, garbage, rooms, visited, threshold>>
    BY DEF ReleaseLater, program
  <1>12. refs' \in Tables /\ locals' \in [Objects -> 0 .. MaxLocals] /\ phase \in Quiet
         /\ (phase = "idle" => later' = None)
    BY <1>2, <1>3 DEF Quiet
  <1> QED
    BY <1>2, <1>4, <1>5, <1>6, <1>7, <1>8, <1>9, <1>10, <1>11, <1>12, ReleaseKeeps

LEMMA ClearKeeps == ASSUME Core, NEW p \in Objects, NEW o \in Objects, Clear(p, o) PROVE Core'
  <1>1. TypeOK /\ NothingDangles /\ PhasesInv /\ RoomsFollowHolders
    BY DEF Core
  <1>2. p \in heap \ CountGone
    BY <1>1, KeptFollows DEF Clear, Gone
  <1>3. refs[p][o] > 0 /\ refs' = [refs EXCEPT ![p][o] = @ - 1] /\ refs \in Tables
    BY <1>1, TypeFacts DEF Clear
  <1>4. OneRef(refs, refs', p, o, refs[p][o] - 1)
    BY <1>3, OneLess
  <1>5. phase \in Quiet /\ Release(o) /\ UNCHANGED <<heap, locals, color, running, room, collector>>
    BY DEF Clear, Idle, Quiet
  <1> QED
    BY <1>2, <1>3, <1>4, <1>5, RefReleased

LEMMA HeadOf ==
  ASSUME Core, draining # <<>>
  PROVE  /\ phase \in Quiet /\ Head(draining) \in InSeq(draining) /\ Head(draining) \in heap
         /\ count[Head(draining)] = 1 /\ Head(draining) \notin CountGone
         /\ draining \in Seq(Objects) /\ Once(draining)
  <1>1. TypeOK /\ NothingDangles /\ PhasesInv
    BY DEF Core
  <1>2. phase \in Quiet
    BY <1>1 DEF PhasesInv, Quiet
  <1>3. draining \in Seq(Objects) /\ Once(draining)
    BY <1>1 DEF TypeOK, NothingDangles, Once
  <1>4. Len(draining) >= 1 /\ Len(draining) \in Nat /\ Head(draining) = draining[1]
    BY <1>3
  <1>5. Head(draining) \in InSeq(draining)
    BY <1>4 DEF InSeq
  <1>6. Head(draining) \in heap /\ count[Head(draining)] = 1
    BY <1>1, <1>5 DEF NothingDangles
  <1>7. Head(draining) \notin CountGone
    BY <1>6 DEF CountGone, Swept
  <1> QED
    BY <1>2, <1>3, <1>5, <1>6, <1>7

LEMMA ReleaseGlueKeeps == ASSUME Core, NEW o \in Objects, ReleaseGlue(o) PROVE Core'
  <1> DEFINE b == Head(draining)
  <1>1. TypeOK
    BY DEF Core
  <1>2. draining # <<>> /\ refs[b][o] > 0 /\ refs' = [refs EXCEPT ![b][o] = @ - 1]
        /\ Release(o) /\ UNCHANGED <<heap, locals, color, running, room, collector>>
    BY DEF ReleaseGlue
  <1>3. phase \in Quiet /\ b \in heap \ CountGone
    BY <1>2, HeadOf
  <1> HIDE DEF b
  <1>4. refs \in Tables /\ b \in Objects
    BY <1>1, <1>3, TypeFacts
  <1>5. OneRef(refs, refs', b, o, refs[b][o] - 1)
    BY <1>2, <1>4, OneLess
  <1> QED
    BY <1>2, <1>3, <1>5, RefReleased

LEMMA LoadsKeep ==
  ASSUME Core, NEW o \in Objects, Load(o) \/ Upgrade(o)
  PROVE  Core'
  <1>1. TypeOK /\ NothingDangles /\ PhasesInv /\ RoomsFollowHolders
    BY DEF Core
  <1>2. o \in heap \ Gone
    <2>1. CASE Load(o)
      BY <1>1, <2>1, KeptFollows DEF Load
    <2>2. CASE Upgrade(o)
      BY <1>1, <2>2 DEF Upgrade, NothingDangles, Names
    <2> QED
      BY <2>1, <2>2
  <1>3. /\ locals[o] < MaxLocals /\ Idle /\ locals' = [locals EXCEPT ![o] = @ + 1] /\ Retain(o)
        /\ UNCHANGED <<heap, refs, color, running, weak, room, draining, buffer, collector>>
    BY DEF Load, Upgrade
  <1> QED
    BY <1>2, <1>3, LoadKeeps

\* The steps that count nothing.
LEMMA CountlessKeeps ==
  ASSUME Core, Idle, UNCHANGED <<heap, refs, locals, words, room, draining, buffer, collector>>,
         running' \subseteq Frames, \A f \in running' : locals[f] > 0,
         weak' \subseteq Targets, \A o \in weak' : o \in weak \/ o \in heap \ Gone
  PROVE  Core'
  <1>1. /\ TypeOK /\ CountsExact /\ BufferExact /\ RoomsFollowHolders
        /\ NothingDangles /\ PhasesInv /\ WalksInv
    BY DEF Core
  <1>2. /\ heap' = heap /\ color' = color /\ count' = count /\ refs' = refs /\ locals' = locals
        /\ room' = room /\ later' = later
        /\ draining' = draining /\ roots' = roots /\ buffered' = buffered
        /\ candidates' = candidates /\ dead' = dead /\ phase' = phase /\ at' = at
        /\ stack' = stack /\ garbage' = garbage /\ rooms' = rooms
        /\ visited' = visited /\ threshold' = threshold
    BY DEF words, buffer, collector, walk
  <1>3. /\ stack = {} /\ at = 1 /\ color = [x \in Objects |-> "black"] /\ phase = "idle"
        /\ garbage = {} /\ later = None /\ rooms = {}
    BY <1>1, QuietIs DEF Idle, Quiet
  <1>4. TypeOK'
    BY <1>1, <1>2 DEF TypeOK
  <1>5. Swept' = Swept /\ InSeq(draining)' = InSeq(draining)
    BY <1>2 DEF Swept, InSeq
  <1>6. CountGone' = CountGone /\ Gone' = Gone
    BY <1>2, <1>5 DEF Gone, CountGone
  <1>7. BufferExact'
    BY <1>1, <1>2, <1>6 DEF BufferExact, InSeq
  <1>8. RoomsFollowHolders'
    BY <1>1, <1>2, <1>6 DEF RoomsFollowHolders
  <1>9. NothingDangles'
    <2>1. \A x \in Objects : Names(x)' => Names(x) \/ x \in heap \ Gone
      BY <1>2 DEF Names
    <2>2. \A x \in Objects : Names(x)' => x \in heap' \ Gone'
      BY <1>1, <1>2, <1>6, <2>1 DEF NothingDangles
    <2>3. \A p \in Objects \ (heap' \ CountGone') : refs'[p] = None'
      BY <1>1, <1>2, <1>6 DEF None, NothingDangles
    <2>4. \A x \in InSeq(draining)' : x \in heap' /\ count'[x] = 1
      BY <1>1, <1>2, <1>5 DEF NothingDangles
    <2>5. \A i, j \in DOMAIN draining' : draining'[i] = draining'[j] => i = j
      BY <1>1, <1>2 DEF NothingDangles
    <2> QED
      BY <1>2, <2>2, <2>3, <2>4, <2>5 DEF NothingDangles
  <1>10. \A x \in heap' \ InSeq(draining') : count'[x] = Owed(refs', locals', later', x)
    <2>1. \A x \in heap \ InSeq(draining) : count[x] = Owed(refs, locals, later, x)
      BY <1>3, QuietCounts DEF Quiet
    <2> QED
      BY <1>2, <2>1
  <1>11. CountGone' \intersect room' = {}
    BY <1>1, <1>2, <1>6 DEF PhasesInv
  <1>12. phase' \in Quiet /\ (phase' = "later" => garbage' \intersect heap' = {} /\ \A x \in garbage' : TakesPart(x)')
         /\ later' = None'
    BY <1>2, <1>3 DEF Quiet, None
  <1> QED
    BY <1>2, <1>3, <1>4, <1>7, <1>8, <1>9, <1>10, <1>11, <1>12, QuietNext

LEMMA FramesKeep == ASSUME Core, NEW f \in Frames, Run(f) \/ Suspend(f) PROVE Core'
  <1>1. TypeOK /\ NothingDangles
    BY DEF Core
  <1>2. Idle /\ weak' = weak /\ UNCHANGED <<heap, refs, locals, words, room, draining, buffer, collector>>
    BY DEF Run, Suspend
  <1>3. running \subseteq Frames /\ weak \subseteq Targets /\ \A x \in running : locals[x] > 0
    BY <1>1 DEF TypeOK, NothingDangles
  <1>4. running' \subseteq Frames /\ \A x \in running' : locals[x] > 0
    BY <1>3 DEF Run, Suspend
  <1> QED
    BY <1>2, <1>3, <1>4, CountlessKeeps

LEMMA WeakKeeps == ASSUME Core, NEW o \in Targets, MakeWeak(o) \/ ForgetWeak(o) PROVE Core'
  <1>1. TypeOK /\ NothingDangles /\ PhasesInv /\ RoomsFollowHolders
    BY DEF Core
  <1>2. Idle /\ running' = running /\ UNCHANGED <<heap, refs, locals, words, room, draining, buffer, collector>>
    BY DEF MakeWeak, ForgetWeak, program
  <1>3. running \subseteq Frames /\ weak \subseteq Targets /\ \A x \in running : locals[x] > 0
    BY <1>1 DEF TypeOK, NothingDangles
  <1>4. weak' \subseteq Targets /\ \A x \in weak' : x \in weak \/ x \in heap \ Gone
    <2>1. CASE MakeWeak(o)
      <3>1. o \in heap \ Gone
        BY <1>1, <2>1, KeptFollows DEF MakeWeak
      <3> QED
        BY <1>3, <2>1, <3>1 DEF MakeWeak
    <2>2. CASE ForgetWeak(o)
      BY <1>3, <2>2 DEF ForgetWeak
    <2> QED
      BY <2>1, <2>2
  <1> QED
    BY <1>2, <1>3, <1>4, CountlessKeeps

LEMMA NewKeeps == ASSUME Core, NEW o \in Objects, New(o) PROVE Core'
  <1>1. /\ TypeOK /\ CountsExact /\ BufferExact /\ RoomsFollowHolders
        /\ NothingDangles /\ PhasesInv /\ WalksInv
    BY DEF Core
  <1>2. /\ o \notin heap /\ heap' = heap \union {o} /\ refs' = refs /\ later' = later
        /\ room' = room \union ({o} \intersect Holders) /\ weak' = weak /\ running' = running
        /\ buffered' = buffered \ {o}
        /\ draining' = draining /\ roots' = roots /\ candidates' = candidates /\ dead' = dead
        /\ phase' = phase /\ at' = at /\ stack' = stack /\ garbage' = garbage /\ rooms' = rooms
        /\ visited' = visited /\ threshold' = threshold /\ draining = <<>>
    BY DEF New, Idle, collector, walk
  <1>3. /\ stack = {} /\ at = 1 /\ color = [x \in Objects |-> "black"] /\ phase = "idle"
        /\ garbage = {} /\ later = None /\ rooms = {}
    BY <1>1, QuietIs DEF Quiet, New, Idle
  <1>4. /\ locals' \in [Objects -> 0 .. MaxLocals] /\ locals'[o] = 1
        /\ \A x \in Objects \ {o} : locals'[x] = locals[x]
        /\ \A x \in Objects : locals[x] \in Nat
    <2>1. locals \in [Objects -> 0 .. MaxLocals] /\ MaxLocals \in Nat \ {0}
      BY <1>1, Sizes DEF TypeOK
    <2>2. locals' = [locals EXCEPT ![o] = 1] /\ 1 \in 0 .. MaxLocals
      BY <2>1 DEF New
    <2> QED
      BY <2>1, <2>2
  <1>5. /\ count' \in [Objects -> Nat] /\ count'[o] = 1
        /\ \A x \in Objects \ {o} : count'[x] = count[x]
        /\ color' = [x \in Objects |-> "black"]
    <2>1. count' = [count EXCEPT ![o] = 1] /\ color' = [color EXCEPT ![o] = "black"]
          /\ count \in [Objects -> Nat]
      BY <1>1 DEF TypeOK, New
    <2> QED
      BY <1>3, <2>1
  <1>6. InSeq(draining) = {} /\ InSeq(draining)' = {}
    BY <1>2 DEF InSeq
  <1>7. o \notin buffered /\ buffered' = buffered /\ buffered \subseteq Objects
    BY <1>1, <1>2, TypeFacts DEF BufferExact
  <1>8. CountGone' = CountGone /\ CountGone \subseteq heap
    <2>1. Swept' = Swept
      BY <1>5, <1>7 DEF Swept
    <2> QED
      BY <1>1, <1>2, <2>1 DEF CountGone, Swept, BufferExact
  <1>9. Gone' = Gone /\ Gone = CountGone /\ o \notin Gone
    BY <1>2, <1>6, <1>8 DEF Gone
  <1>10. ~ Names(o) /\ \A p \in Objects : refs[p][o] \in Nat
    BY <1>1, <1>2, Sizes DEF NothingDangles, TypeOK
  <1>11. TypeOK'
    <2>1. heap' \subseteq Objects /\ room' \subseteq Holders /\ buffered' \subseteq Cyclic
          /\ refs' \in [Objects -> [Objects -> 0 .. MaxRefs]]
          /\ running' \subseteq Frames /\ weak' \subseteq Targets
          /\ draining' \in Seq(Objects) /\ phase' \in Phases /\ stack' \subseteq Objects \X Hows
          /\ garbage' \subseteq Cyclic /\ rooms' \subseteq Holders
          /\ visited' \in Nat /\ threshold' \in Nat /\ candidates' \in Nat /\ dead' \in Nat
          /\ roots' \in Seq(Objects \union {Gap}) /\ at' \in 1 .. Len(roots') + 1
          /\ later' \in [Objects -> Nat]
      BY <1>1, <1>2, <1>7 DEF TypeOK
    <2> QED
      BY <1>4, <1>5, <2>1 DEF TypeOK
  <1>12. BufferExact'
    <2>1. InSeq(roots)' = InSeq(roots) /\ buffered' \subseteq heap'
      BY <1>1, <1>2, <1>7 DEF BufferExact, InSeq
    <2> QED
      BY <1>1, <1>2, <1>7, <1>8, <2>1 DEF BufferExact
  <1>13. RoomsFollowHolders'
    BY <1>1, <1>2, <1>3, <1>9 DEF RoomsFollowHolders
  <1>14. NothingDangles'
    <2>1. \A x \in Objects : Names(x)' => x \in heap' \ Gone'
      <3> TAKE x \in Objects
      <3>1. CASE x = o
        BY <1>2, <1>9, <3>1
      <3>2. CASE x # o
        <4>1. Names(x)' => Names(x)
          BY <1>2, <1>4, <3>2 DEF Names
        <4> QED
          BY <1>1, <1>2, <1>9, <4>1 DEF NothingDangles
      <3> QED
        BY <3>1, <3>2
    <2>2. \A p \in Objects \ (heap' \ CountGone') : refs'[p] = None'
      BY <1>1, <1>2, <1>8 DEF None, NothingDangles
    <2>3. \A f \in running' : locals'[f] > 0
      <3>1. running \subseteq Objects /\ \A f \in running : locals[f] > 0
        BY <1>1, Kinds DEF NothingDangles, TypeOK
      <3> QED
        BY <1>2, <1>4, <3>1
    <2> QED
      BY <1>2, <1>6, <2>1, <2>2, <2>3 DEF NothingDangles
  <1>15. ASSUME NEW x \in heap' \ InSeq(draining')
         PROVE  count'[x] = Owed(refs', locals', later', x)
    <2>1. CASE x = o
      <3>1. \A p \in Objects : refs[p][o] = 0
        BY <1>10 DEF Names
      <3>2. refs \in Tables /\ From(refs, Objects, o) = 0
        BY <1>1, <3>1, TypeFacts, FromZero
      <3>3. later'[o] = 0
        BY <1>2, <1>3 DEF None
      <3> QED
        BY <1>2, <1>4, <1>5, <2>1, <3>2, <3>3 DEF Owed
    <2>2. CASE x # o
      <3>1. x \in heap \ InSeq(draining) /\ x \in Objects
        BY <1>1, <1>2, <1>6, <2>2 DEF TypeOK
      <3>2. count[x] = Owed(refs, locals, later, x)
        BY <1>3, <3>1, QuietCounts DEF Quiet
      <3> QED
        BY <1>2, <1>4, <1>5, <2>2, <3>1, <3>2 DEF Owed
    <2> QED
      BY <2>1, <2>2
  <1>16. CountGone' \intersect room' = {}
    BY <1>1, <1>2, <1>8 DEF PhasesInv
  <1>17. phase' \in Quiet /\ (phase' = "later" => garbage' \intersect heap' = {} /\ \A x \in garbage' : TakesPart(x)')
         /\ later' = None'
    BY <1>2, <1>3 DEF Quiet, None
  <1> QED
    BY <1>2, <1>3, <1>5, <1>11, <1>12, <1>13, <1>14, <1>15, <1>16, <1>17, QuietNext

\* A block is freed, or kept as a candidate without a count.
LEMMA FreeOne ==
  ASSUME TypeOK, BufferExact, phase \in Quiet, NEW o \in heap, o \notin CountGone, Free({o}),
         UNCHANGED <<roots, buffered, candidates, phase>>
  PROVE  /\ heap' \subseteq heap /\ heap \ {o} \subseteq heap' /\ (o \in heap' => o \in buffered)
         /\ count' \in [Objects -> Nat] /\ \A x \in Objects \ {o} : count'[x] = count[x]
         /\ (o \in buffered => count'[o] = 0)
         /\ dead' \in Nat /\ BufferExact' /\ CountGone' \ {o} = CountGone
         /\ heap' \ CountGone' = (heap \ CountGone) \ {o}
  <1> DEFINE K == {o} \intersect buffered
  <1>1. /\ heap' = heap \ ({o} \ buffered)
        /\ count' = [x \in Objects |-> IF x \in K THEN 0 ELSE count[x]]
        /\ dead' = dead + Cardinality(K)
        /\ roots' = roots /\ buffered' = buffered /\ candidates' = candidates /\ phase' = phase
    BY DEF Free
  <1>2. o \in Objects /\ buffered \subseteq Objects /\ count \in [Objects -> Nat]
    BY TypeFacts
  <1>3. /\ count' \in [Objects -> Nat] /\ \A x \in Objects \ {o} : count'[x] = count[x]
        /\ (o \in buffered => count'[o] = 0) /\ (o \notin buffered => count'[o] = count[o])
    BY <1>1, <1>2
  <1>4. CountGone = Swept /\ CountGone' = Swept' /\ o \notin Swept /\ Swept \in SUBSET buffered
    BY <1>1 DEF CountGone, Quiet, Swept
  <1>5. Swept' = Swept \union K
    BY <1>1, <1>2, <1>3, <1>4 DEF Swept
  <1>6. dead = Cardinality(Swept) /\ IsFiniteSet(Swept) /\ dead \in Nat
    BY <1>4, TypeFacts, FS_Subset DEF BufferExact, TypeOK
  <1>7. dead' = Cardinality(Swept') /\ dead' \in Nat
    <2>1. CASE o \in buffered
      <3>1. K = {o} /\ Cardinality({o}) = 1
        BY <2>1, FS_Singleton
      <3>2. Cardinality(Swept \union {o}) = Cardinality(Swept) + 1
        BY <1>4, <1>6, FS_AddElement
      <3> QED
        BY <1>1, <1>5, <1>6, <3>1, <3>2
    <2>2. CASE o \notin buffered
      <3>1. K = {} /\ Cardinality({}) = 0
        BY <2>2, FS_EmptySet
      <3>2. Cardinality(K) = 0 /\ Swept' = Swept
        BY <1>5, <3>1
      <3> HIDE DEF K
      <3> QED
        BY <1>1, <1>6, <3>2
    <2> QED
      BY <2>1, <2>2
  <1>8. BufferExact'
    <2>1. InSeq(roots)' = InSeq(roots)
      BY <1>1 DEF InSeq
    <2>2. buffered' \subseteq heap'
      BY <1>1 DEF BufferExact
    <2> QED
      BY <1>1, <1>4, <1>7, <2>1, <2>2 DEF BufferExact
  <1> QED
    BY <1>1, <1>3, <1>4, <1>5, <1>7, <1>8

LEMMA TakeBoxKeeps == ASSUME Core, NEW o \in Objects, TakeBox(o) PROVE Core'
  <1>1. /\ TypeOK /\ CountsExact /\ BufferExact /\ RoomsFollowHolders
        /\ NothingDangles /\ PhasesInv /\ WalksInv
    BY DEF Core
  <1>2. /\ room' = room /\ weak' = weak \ {o} /\ running' = running /\ color' = color
        /\ draining' = draining /\ roots' = roots /\ buffered' = buffered /\ candidates' = candidates
        /\ phase' = phase /\ at' = at /\ stack' = stack /\ garbage' = garbage /\ rooms' = rooms
        /\ visited' = visited /\ threshold' = threshold /\ later' = later
        /\ draining = <<>> /\ o \notin Holders /\ o \notin Frames /\ locals[o] = 1 /\ count[o] = 1
        /\ Free({o})
    BY DEF TakeBox, ClearWeak, Idle, collector, walk
  <1>3. /\ stack = {} /\ at = 1 /\ color = [x \in Objects |-> "black"] /\ phase = "idle"
        /\ garbage = {} /\ later = None /\ rooms = {} /\ phase \in Quiet
    BY <1>1, QuietIs DEF Quiet, TakeBox, Idle
  <1>4. InSeq(draining) = {} /\ InSeq(draining)' = {}
    BY <1>2 DEF InSeq
  <1>5. o \in heap \ Gone /\ o \in heap /\ o \notin CountGone
    <2>1. \A x \in Objects : later[x] = 0
      BY <1>3 DEF None
    <2>2. Names(o)
      BY <1>2, <2>1 DEF Names
    <2> QED
      BY <1>1, <2>2 DEF NothingDangles, Gone
  <1>6. /\ heap' \subseteq heap /\ heap \ {o} \subseteq heap' /\ (o \in heap' => o \in buffered)
        /\ count' \in [Objects -> Nat] /\ \A x \in Objects \ {o} : count'[x] = count[x]
        /\ (o \in buffered => count'[o] = 0)
        /\ dead' \in Nat /\ BufferExact' /\ CountGone' \ {o} = CountGone
        /\ heap' \ CountGone' = (heap \ CountGone) \ {o}
    BY <1>1, <1>2, <1>3, <1>5, FreeOne
  <1>7. Gone = CountGone /\ Gone' = CountGone' /\ heap' \ Gone' = (heap \ Gone) \ {o}
    BY <1>4, <1>6 DEF Gone
  <1>8. /\ refs \in Tables /\ locals \in [Objects -> Nat] /\ later \in [Objects -> Nat]
        /\ \A x \in Objects : later[x] = 0 /\ later'[x] = 0 /\ locals[x] \in Nat
    BY <1>1, <1>2, <1>3, TypeFacts DEF None
  <1>9. From(refs, Objects, o) = 0 /\ \A p \in Objects : refs[p][o] = 0
    <2>1. count[o] = Owed(refs, locals, later, o)
      BY <1>3, <1>4, <1>5, QuietCounts
    <2>2. From(refs, Objects, o) \in Nat
      BY FromNat
    <2>3. From(refs, Objects, o) = 0
      BY <1>2, <1>8, <2>1, <2>2 DEF Owed
    <2> QED
      BY <1>8, <2>3, FromZero
  <1>10. /\ refs' \in Tables /\ refs'[o] = None /\ \A x \in Objects \ {o} : refs'[x] = refs[x]
         /\ \A x \in Objects : None[x] = 0
    <2>1. None \in [Objects -> 0 .. MaxRefs] /\ \A x \in Objects : None[x] = 0
      BY Sizes DEF None
    <2>2. refs' = [refs EXCEPT ![o] = None]
      BY DEF TakeBox
    <2> HIDE DEF None
    <2> QED
      BY <1>8, <2>1, <2>2 DEF Tables
  <1>11. /\ locals' \in [Objects -> 0 .. MaxLocals] /\ locals'[o] = 0
         /\ \A x \in Objects \ {o} : locals'[x] = locals[x] + refs[o][x]
         /\ \A x \in Objects : refs[o][x] \in Nat
    <2>1. \A x \in Objects : refs[o][x] \in Nat
      BY <1>8, Sizes DEF Tables
    <2>2. \A x \in Objects : locals[x] + refs[o][x] \in 0 .. MaxLocals /\ 0 \in 0 .. MaxLocals
      BY <1>8, <2>1, Sizes DEF TakeBox
    <2> QED
      BY <2>1, <2>2 DEF TakeBox
  <1>12. TypeOK'
    <2>1. heap' \subseteq Objects /\ room' \subseteq Holders /\ buffered' \subseteq Cyclic
          /\ running' \subseteq Frames /\ weak' \subseteq Targets
          /\ draining' \in Seq(Objects) /\ phase' \in Phases /\ stack' \subseteq Objects \X Hows
          /\ garbage' \subseteq Cyclic /\ rooms' \subseteq Holders
          /\ visited' \in Nat /\ threshold' \in Nat /\ candidates' \in Nat
          /\ roots' \in Seq(Objects \union {Gap}) /\ at' \in 1 .. Len(roots') + 1
          /\ later' \in [Objects -> Nat] /\ color' \in [Objects -> {"black", "gray", "white"}]
          /\ (phase' = "idle" => color' = [x \in Objects |-> "black"])
      BY <1>1, <1>2, <1>6 DEF TypeOK
    <2> QED
      BY <1>6, <1>10, <1>11, <2>1 DEF TypeOK, Tables
  <1>13. RoomsFollowHolders'
    <2>1. o \notin room
      BY <1>1, <1>2 DEF TypeOK
    <2>2. room' \ heap' = room \ heap /\ rooms' = {}
      BY <1>2, <1>3, <1>6, <2>1
    <2>3. (heap' \intersect Holders) \ Gone' \subseteq room'
      BY <1>1, <1>2, <1>7 DEF RoomsFollowHolders
    <2>4. phase' # "later" /\ room \ heap \subseteq {}
      BY <1>1, <1>2, <1>3 DEF RoomsFollowHolders
    <2> QED
      BY <2>2, <2>3, <2>4 DEF RoomsFollowHolders
  <1>14. NothingDangles'
    <2>1. \A x \in Objects : Names(x)' => x \in heap' \ Gone'
      <3> SUFFICES ASSUME NEW x \in Objects, Names(x)' PROVE x \in heap' \ Gone'
        OBVIOUS
      <3>1. locals'[x] + later'[x] > 0 \/ x \in weak' \/ \E p \in Objects : refs'[p][x] > 0
        BY DEF Names
      <3>2. x # o
        <4>1. locals'[o] = 0 /\ later'[o] = 0 /\ o \notin weak'
          BY <1>2, <1>8, <1>11
        <4>2. \A p \in Objects : refs'[p][o] = 0
          BY <1>9, <1>10
        <4> QED
          BY <3>1, <4>1, <4>2
      <3>3. locals'[x] = locals[x] + refs[o][x] /\ refs[o][x] \in Nat /\ locals[x] \in Nat
            /\ later[x] = 0 /\ later'[x] = 0
        BY <1>8, <1>11, <3>2
      <3>4. Names(x)
        <4>1. CASE locals'[x] + later'[x] > 0
          <5>1. locals[x] + later[x] > 0 \/ refs[o][x] > 0
            BY <3>3, <4>1
          <5> QED
            BY <5>1 DEF Names
        <4>2. CASE x \in weak'
          BY <1>2, <4>2 DEF Names
        <4>3. CASE \E p \in Objects : refs'[p][x] > 0
          BY <1>10, <4>3 DEF Names
        <4> QED
          BY <3>1, <4>1, <4>2, <4>3
      <3> QED
        BY <1>1, <1>7, <3>2, <3>4 DEF NothingDangles
    <2>2. \A p \in Objects \ (heap' \ CountGone') : refs'[p] = None'
      <3>1. \A p \in Objects \ (heap \ CountGone) : refs[p] = None
        BY <1>1 DEF NothingDangles
      <3>2. None' = None
        BY DEF None
      <3> QED
        BY <1>6, <1>10, <3>1, <3>2
    <2>3. \A f \in running' : locals'[f] > 0
      <3>1. running \subseteq Objects \ {o} /\ \A f \in running : locals[f] > 0
        BY <1>1, <1>2, Kinds DEF NothingDangles, TypeOK
      <3> QED
        BY <1>2, <1>8, <1>11, <3>1
    <2>4. draining' = <<>>
      BY <1>2
    <2> QED
      BY <1>4, <2>1, <2>2, <2>3, <2>4 DEF NothingDangles
  <1>15. ASSUME NEW x \in heap' \ InSeq(draining')
         PROVE  count'[x] = Owed(refs', locals', later', x)
    <2>0. x \in Objects
      BY <1>12 DEF TypeOK
    <2>1. /\ From(refs', Objects, x) = From(refs, Objects, x) - refs[o][x] + refs'[o][x]
          /\ From(refs, Objects, x) \in Nat /\ refs'[o][x] = 0
      BY <1>8, <1>10, <2>0, FromStep, FromNat
    <2>2. CASE x = o
      <3>1. count'[o] = 0
        BY <1>6, <2>2
      <3>2. From(refs', Objects, o) = 0
        BY <1>9, <2>1, <2>2
      <3> QED
        BY <1>8, <1>11, <2>2, <3>1, <3>2 DEF Owed
    <2>3. CASE x # o
      <3>1. x \in heap \ InSeq(draining)
        BY <1>4, <1>6
      <3>2. count[x] = Owed(refs, locals, later, x)
        BY <1>3, <3>1, QuietCounts
      <3>3. count'[x] = count[x] /\ locals'[x] = locals[x] + refs[o][x] /\ refs[o][x] \in Nat
            /\ locals[x] \in Nat /\ later[x] = 0 /\ later'[x] = 0
        BY <1>6, <1>8, <1>11, <2>0, <2>3
      <3> QED
        BY <2>1, <3>2, <3>3 DEF Owed
    <2> QED
      BY <2>2, <2>3
  <1>16. CountGone' \intersect room' = {}
    BY <1>1, <1>2, <1>6 DEF PhasesInv, TypeOK
  <1>17. phase' \in Quiet /\ (phase' = "later" => garbage' \intersect heap' = {} /\ \A x \in garbage' : TakesPart(x)')
         /\ later' = None'
    BY <1>2, <1>3 DEF Quiet, None
  <1> QED
    BY <1>2, <1>3, <1>6, <1>12, <1>13, <1>14, <1>15, <1>16, <1>17, QuietNext

\* What the rest of a release in progress is.
LEMMA TailFacts ==
  ASSUME NEW d \in Seq(Objects), Once(d), d # <<>>
  PROVE  Tail(d) \in Seq(Objects) /\ Once(Tail(d)) /\ InSeq(Tail(d)) = InSeq(d) \ {Head(d)}
  <1> DEFINE n == Len(d)
             t == Tail(d)
  <1>1. /\ n \in Nat \ {0} /\ DOMAIN d = 1 .. n /\ Head(d) = d[1]
        /\ t \in Seq(Objects) /\ Len(t) = n - 1 /\ DOMAIN t = 1 .. n - 1
        /\ \A k \in 1 .. n - 1 : t[k] = d[k + 1]
    OBVIOUS
  <1>2. InSeq(d) = {d[i] : i \in 1 .. n} /\ InSeq(t) = {t[i] : i \in 1 .. Len(t)}
    BY DEF InSeq
  <1> HIDE DEF n, t
  <1>3. \A i, j \in 1 .. n : d[i] = d[j] => i = j
    BY <1>1 DEF Once
  <1>4. \A k \in 1 .. n - 1 : k + 1 \in 1 .. n /\ k + 1 # 1 /\ 1 \in 1 .. n
    BY <1>1
  <1>5. \A k \in 1 .. n : k # 1 => k - 1 \in 1 .. n - 1 /\ (k - 1) + 1 = k
    BY <1>1
  <1>6. Once(t)
    <2> SUFFICES ASSUME NEW i \in 1 .. n - 1, NEW j \in 1 .. n - 1, t[i] = t[j] PROVE i = j
      BY <1>1 DEF Once
    <2>1. i + 1 = j + 1
      BY <1>1, <1>3, <1>4
    <2> QED
      BY <1>1, <2>1
  <1>7. ASSUME NEW x \in InSeq(t) PROVE x \in InSeq(d) \ {Head(d)}
    <2>1. PICK k \in 1 .. n - 1 : x = t[k]
      BY <1>1, <1>2
    <2>2. x = d[k + 1] /\ k + 1 \in 1 .. n /\ k + 1 # 1
      BY <1>1, <1>4, <2>1
    <2>3. d[k + 1] # d[1]
      BY <1>3, <1>4, <2>2
    <2> QED
      BY <1>1, <1>2, <2>2, <2>3
  <1>8. ASSUME NEW x \in InSeq(d) \ {Head(d)} PROVE x \in InSeq(t)
    <2>1. PICK k \in 1 .. n : x = d[k]
      BY <1>2
    <2>2. k - 1 \in 1 .. n - 1 /\ t[k - 1] = d[k]
      BY <1>1, <1>5, <2>1
    <2> QED
      BY <1>1, <1>2, <2>1, <2>2
  <1> QED
    BY <1>1, <1>6, <1>7, <1>8 DEF t

LEMMA FreeDrainedKeeps == ASSUME Core, FreeDrained PROVE Core'
  <1> DEFINE b == Head(draining)
  <1>1. /\ TypeOK /\ CountsExact /\ BufferExact /\ RoomsFollowHolders
        /\ NothingDangles /\ PhasesInv /\ WalksInv
    BY DEF Core
  <1>2. /\ draining # <<>> /\ refs[b] = None /\ room' = room \ {b} /\ Free({b})
        /\ draining' = Tail(draining) /\ refs' = refs /\ locals' = locals /\ running' = running
        /\ color' = color /\ weak' = weak /\ roots' = roots /\ buffered' = buffered
        /\ candidates' = candidates
        /\ phase' = phase /\ at' = at /\ stack' = stack /\ garbage' = garbage /\ rooms' = rooms
        /\ visited' = visited /\ threshold' = threshold /\ later' = later
    BY DEF FreeDrained, program, collector, walk
  <1>3. /\ phase \in Quiet /\ b \in InSeq(draining) /\ b \in heap /\ count[b] = 1
        /\ b \notin CountGone /\ draining \in Seq(Objects) /\ Once(draining)
    BY <1>2, HeadOf
  <1>4. /\ draining' \in Seq(Objects) /\ Once(draining') /\ InSeq(draining)' = InSeq(draining) \ {b}
    <2>1. InSeq(draining)' = InSeq(draining')
      BY DEF InSeq
    <2> QED
      BY <1>2, <1>3, <2>1, TailFacts
  <1> HIDE DEF b
  <1>5. /\ stack = {} /\ at = 1 /\ color = [x \in Objects |-> "black"]
        /\ garbage \intersect heap = {}
        /\ (phase = "idle" => garbage = {} /\ later = None /\ rooms = {})
    BY <1>1, <1>3, QuietIs
  <1>6. /\ heap' \subseteq heap /\ heap \ {b} \subseteq heap' /\ (b \in heap' => b \in buffered)
        /\ count' \in [Objects -> Nat] /\ \A x \in Objects \ {b} : count'[x] = count[x]
        /\ (b \in buffered => count'[b] = 0)
        /\ dead' \in Nat /\ BufferExact' /\ CountGone' \ {b} = CountGone
        /\ heap' \ CountGone' = (heap \ CountGone) \ {b}
    BY <1>1, <1>2, <1>3, FreeOne
  <1>7. heap' \ Gone' = heap \ Gone
    BY <1>3, <1>4, <1>6 DEF Gone
  <1>8. b \in Objects /\ b \in Gone /\ ~ Names(b)
    BY <1>1, <1>3 DEF Gone, NothingDangles, TypeOK
  <1>9. TypeOK'
    <2>1. heap' \subseteq Objects /\ room' \subseteq Holders /\ buffered' \subseteq Cyclic
          /\ running' \subseteq Frames /\ weak' \subseteq Targets /\ phase' \in Phases
          /\ stack' \subseteq Objects \X Hows
          /\ garbage' \subseteq Cyclic /\ rooms' \subseteq Holders
          /\ visited' \in Nat /\ threshold' \in Nat /\ candidates' \in Nat
          /\ roots' \in Seq(Objects \union {Gap}) /\ at' \in 1 .. Len(roots') + 1
          /\ later' \in [Objects -> Nat] /\ color' \in [Objects -> {"black", "gray", "white"}]
          /\ (phase' = "idle" => color' = [x \in Objects |-> "black"])
          /\ refs' \in [Objects -> [Objects -> 0 .. MaxRefs]]
          /\ locals' \in [Objects -> 0 .. MaxLocals]
      BY <1>1, <1>2, <1>6 DEF TypeOK
    <2> QED
      BY <1>4, <1>6, <2>1 DEF TypeOK
  <1>10. RoomsFollowHolders'
    <2>1. (heap' \intersect Holders) \ Gone' \subseteq room'
      BY <1>1, <1>2, <1>7, <1>8 DEF RoomsFollowHolders
    <2>2. phase' = "later" => garbage' \intersect Holders = rooms' /\ rooms' \subseteq room'
      BY <1>1, <1>2, <1>3, <1>5 DEF RoomsFollowHolders
    <2>3. room' \ heap' \subseteq rooms'
      BY <1>1, <1>2, <1>6 DEF RoomsFollowHolders
    <2> QED
      BY <2>1, <2>2, <2>3 DEF RoomsFollowHolders
  <1>11. NothingDangles'
    <2>1. \A x \in Objects : Names(x)' => x \in heap' \ Gone'
      BY <1>1, <1>2, <1>7 DEF NothingDangles, Names
    <2>2. \A p \in Objects \ (heap' \ CountGone') : refs'[p] = None'
      BY <1>1, <1>2, <1>6 DEF NothingDangles, None
    <2>3. \A x \in InSeq(draining)' : x \in heap' /\ count'[x] = 1
      <3>1. \A x \in InSeq(draining) : x \in heap /\ count[x] = 1 /\ x \in Objects
        BY <1>1 DEF NothingDangles, TypeOK
      <3> QED
        BY <1>4, <1>6, <3>1
    <2>4. \A i, j \in DOMAIN draining' : draining'[i] = draining'[j] => i = j
      BY <1>4 DEF Once
    <2>5. \A f \in running' : locals'[f] > 0
      BY <1>1, <1>2 DEF NothingDangles
    <2> QED
      BY <2>1, <2>2, <2>3, <2>4, <2>5 DEF NothingDangles
  <1>12. ASSUME NEW x \in heap' \ InSeq(draining')
         PROVE  count'[x] = Owed(refs', locals', later', x)
    <2>0. x \in Objects /\ InSeq(draining') = InSeq(draining) \ {b}
      BY <1>4, <1>9 DEF TypeOK, InSeq
    <2>1. CASE x = b
      <3>1. count'[b] = 0
        BY <1>6, <2>1
      <3>2. /\ refs \in Tables /\ locals \in [Objects -> Nat] /\ later \in [Objects -> Nat]
        BY <1>1, TypeFacts
      <3>3. locals[b] + later[b] = 0 /\ \A p \in Objects : refs[p][b] = 0
        <4>1. locals[b] \in Nat /\ later[b] \in Nat /\ \A p \in Objects : refs[p][b] \in Nat
          BY <1>8, <3>2, Sizes DEF Tables
        <4> QED
          BY <1>8, <4>1 DEF Names
      <3>4. Owed(refs, locals, later, b) = 0
        BY <1>8, <3>2, <3>3, OwedZero
      <3> QED
        BY <1>2, <2>1, <3>1, <3>4
    <2>2. CASE x # b
      <3>1. x \in heap \ InSeq(draining)
        BY <1>6, <2>0, <2>2
      <3>2. count[x] = Owed(refs, locals, later, x)
        BY <1>3, <3>1, QuietCounts
      <3> QED
        BY <1>2, <1>6, <2>0, <2>2, <3>2
    <2> QED
      BY <2>1, <2>2
  <1>13. CountGone' \intersect room' = {}
    BY <1>1, <1>2, <1>6 DEF PhasesInv
  <1>14. phase' \in Quiet /\ (phase' = "later" => garbage' \intersect heap' = {} /\ \A x \in garbage' : TakesPart(x)')
         /\ (phase' = "idle" => garbage' = {} /\ later' = None' /\ rooms' = {})
    BY <1>1, <1>2, <1>3, <1>5, <1>6 DEF PhasesInv, TakesPart, None
  <1> QED
    BY <1>2, <1>5, <1>9, <1>6, <1>10, <1>11, <1>12, <1>13, <1>14, QuietNext

-----------------------------------------------------------------------------
(***************************************************************************)
(* A collection.                                                           *)
(***************************************************************************)
Walking == {"mark", "scan", "collect"}

\* While a walk is under way, what is on an object's count: its references
\* from outside, and from inside those that are not taken off.
Left(r, l, off, o) == l[o] + From(r, IF TakesPart(o) THEN Objects \ off ELSE Objects, o)

LEMMA WalkIs ==
  ASSUME Core, phase \in Walking
  PROVE  /\ draining = <<>> /\ InSeq(draining) = {} /\ CountGone = {} /\ Gone = {}
         /\ TakenOff \in SUBSET heap
         /\ \A o \in heap : count[o] = Left(refs, locals, TakenOff, o)
  <1>1. TypeOK /\ CountsExact /\ NothingDangles /\ PhasesInv
    BY DEF Core
  <1>2. draining = <<>> /\ InSeq(draining) = {} /\ CountGone = {} /\ Gone = {}
    <2>1. draining = <<>> /\ CountGone = {}
      BY <1>1 DEF PhasesInv, Walking, CountGone
    <2>2. InSeq(draining) = {}
      BY <2>1 DEF InSeq
    <2> QED
      BY <2>1, <2>2 DEF Gone
  <1>3. TakenOff \in SUBSET heap
    BY DEF TakenOff
  <1>4. ASSUME NEW o \in heap PROVE count[o] = Left(refs, locals, TakenOff, o)
    <2>1. /\ o \in Objects /\ refs \in Tables /\ heap \in SUBSET Objects /\ locals[o] \in Nat
          /\ \A p \in Objects \ heap : refs[p] = None
      BY <1>1, <1>2, TypeFacts DEF NothingDangles
    <2>2. count[o] = locals[o] + From(refs, Counting(o), o) + 0
      BY <1>1, <1>2, HeldIsFrom DEF CountsExact, Walking
    <2>3. CASE TakesPart(o)
      <3>1. From(refs, heap \ TakenOff, o) = From(refs, Objects \ TakenOff, o)
        BY <2>1, FromHeap
      <3> QED
        BY <2>1, <2>2, <2>3, <3>1, FromNat DEF Counting, Left
    <2>4. CASE ~ TakesPart(o)
      <3>1. From(refs, heap, o) = From(refs, Objects, o)
        BY <2>1, FromAllocated
      <3> QED
        BY <2>1, <2>2, <2>4, <3>1, FromNat DEF Counting, Left
    <2> QED
      BY <2>3, <2>4
  <1> QED
    BY <1>2, <1>3, <1>4

LEMMA WalkCountsNext ==
  ASSUME TypeOK', NothingDangles', PhasesInv', phase' \in Walking, InSeq(draining)' = {},
         \A o \in heap' : TakesPart(o)' = TakesPart(o),
         \A o \in heap' : count'[o] = Left(refs', locals', TakenOff', o)
  PROVE  CountsExact'
  <1>1. CountGone' = {}
    BY DEF CountGone, Walking
  <1>2. TakenOff' \in SUBSET heap'
    BY DEF TakenOff
  <1>3. ASSUME NEW o \in heap'
        PROVE  count'[o] = locals'[o] + Held(Counting(o), o)' + (IF phase' = "later" THEN later'[o] ELSE 0)
    <2>1. /\ o \in Objects /\ refs' \in Tables /\ heap' \in SUBSET Objects
          /\ \A p \in Objects \ heap' : refs'[p] = None
          /\ locals'[o] \in Nat
      BY <1>1, Sizes DEF NothingDangles, None, TypeOK, Tables
    <2>2. CASE TakesPart(o)
      <3>1. From(refs', heap' \ TakenOff', o) = From(refs', Objects \ TakenOff', o)
        BY <2>1, FromHeap
      <3>2. Counting(o)' = heap' \ TakenOff'
        BY <2>2 DEF Counting
      <3>3. Held(Counting(o), o)' = From(refs', heap' \ TakenOff', o)
        BY <3>2 DEF Held, From
      <3>4. From(refs', Objects \ TakenOff', o) \in Nat
        BY FromNat
      <3> QED
        BY <2>1, <2>2, <3>1, <3>3, <3>4 DEF Left, Walking
    <2>3. CASE ~ TakesPart(o)
      <3>1. From(refs', heap', o) = From(refs', Objects, o)
        BY <2>1, FromAllocated
      <3>2. Counting(o)' = heap'
        BY <2>3 DEF Counting
      <3>3. Held(Counting(o), o)' = From(refs', heap', o)
        BY <3>2 DEF Held, From
      <3>4. From(refs', Objects, o) \in Nat
        BY FromNat
      <3> QED
        BY <2>1, <2>3, <3>1, <3>3, <3>4 DEF Left, Walking
    <2> QED
      BY <2>2, <2>3
  <1> QED
    BY <1>3 DEF CountsExact

\* What is left to show of a step of a walk.
LEMMA WalkNext ==
  ASSUME Core, phase \in Walking, phase' \in Walking, UNCHANGED still,
         TypeOK', BufferExact', PhasesInv', WalksInv',
         \A o \in Objects : later'[o] > 0 => later[o] > 0 \/ \E p \in Objects : refs[p][o] > 0,
         \A o \in heap : count'[o] = Left(refs, locals, TakenOff', o)
  PROVE  Core'
  <1>1. /\ TypeOK /\ CountsExact /\ BufferExact /\ RoomsFollowHolders
        /\ NothingDangles /\ PhasesInv /\ WalksInv
    BY DEF Core
  <1>2. /\ heap' = heap /\ refs' = refs /\ locals' = locals /\ running' = running /\ weak' = weak
        /\ room' = room /\ draining' = draining /\ threshold' = threshold
    BY DEF still, program
  <1>3. draining = <<>> /\ InSeq(draining) = {} /\ CountGone = {} /\ Gone = {}
    BY WalkIs
  <1>4. InSeq(draining)' = {} /\ CountGone' = {} /\ Gone' = {}
    BY <1>2, <1>3 DEF InSeq, CountGone, Walking, Gone
  <1>5. RoomsFollowHolders'
    <2>1. phase # "later" /\ phase' # "later"
      BY DEF Walking
    <2>2. rooms \subseteq heap
      <3>1. rooms \subseteq garbage /\ (phase # "collect" => garbage = {}) /\ (phase = "collect" => garbage \subseteq heap)
        BY <1>1, <2>1 DEF PhasesInv
      <3> QED
        BY <3>1
    <2>3. room \ heap = {}
      BY <1>1, <2>2 DEF RoomsFollowHolders
    <2>4. (heap \intersect Holders) \ {} \subseteq room
      BY <1>1, <1>3 DEF RoomsFollowHolders
    <2> QED
      BY <1>2, <1>4, <2>1, <2>3, <2>4 DEF RoomsFollowHolders
  <1>6. NothingDangles'
    <2>1. \A x \in Objects : Names(x)' => Names(x)
      <3>1. \A x \in Objects : locals[x] \in Nat /\ later[x] \in Nat /\ later'[x] \in Nat
        BY <1>1, TypeFacts DEF TypeOK
      <3> QED
        BY <1>2, <3>1 DEF Names
    <2>2. \A x \in Objects : Names(x)' => x \in heap' \ Gone'
      BY <1>1, <1>2, <1>3, <1>4, <2>1 DEF NothingDangles
    <2>3. \A p \in Objects \ (heap' \ CountGone') : refs'[p] = None'
      BY <1>1, <1>2, <1>3, <1>4 DEF NothingDangles, None
    <2>4. \A f \in running' : locals'[f] > 0
      BY <1>1, <1>2 DEF NothingDangles
    <2>5. draining' = <<>>
      BY <1>2, <1>3
    <2> QED
      BY <1>4, <2>2, <2>3, <2>4, <2>5 DEF NothingDangles
  <1>7. CountsExact'
    <2>1. \A o \in heap' : count'[o] = Left(refs', locals', TakenOff', o)
      BY <1>2
    <2>2. \A o \in heap' : TakesPart(o)' = TakesPart(o)
      BY <1>2 DEF TakesPart
    <2> QED
      BY <1>4, <1>6, <2>1, <2>2, WalkCountsNext
  <1> QED
    BY <1>5, <1>6, <1>7 DEF Core

\* The buffer during a walk: unchanged, or with a root dropped.
LEMMA BufferStays ==
  ASSUME Core, phase \in Walking, phase' \in Walking, heap' = heap, UNCHANGED buffer
  PROVE  BufferExact'
  <1>1. BufferExact /\ CountGone = {}
    BY WalkIs DEF Core
  <1>2. CountGone' = {} /\ phase' # "idle"
    BY DEF CountGone, Walking
  <1>3. roots' = roots /\ buffered' = buffered /\ candidates' = candidates /\ dead' = dead
    BY DEF buffer
  <1>4. InSeq(roots)' = InSeq(roots)
    BY <1>3 DEF InSeq
  <1> QED
    BY <1>1, <1>2, <1>3, <1>4 DEF BufferExact

LEMMA DropRootKeeps ==
  ASSUME Core, phase \in Walking, phase' \in Walking, heap' = heap,
         NEW i \in DOMAIN roots, roots[i] # Gap, DropRoot(i)
  PROVE  /\ BufferExact' /\ roots' \in Seq(Objects \union {Gap}) /\ Len(roots') = Len(roots)
         /\ DOMAIN roots' = DOMAIN roots /\ roots'[i] = Gap
         /\ \A j \in DOMAIN roots : j # i => roots'[j] = roots[j]
         /\ candidates' \in Nat /\ buffered' \subseteq Cyclic /\ dead' \in Nat
  <1> DEFINE n == Len(roots)
             s == roots[i]
  <1>1. TypeOK /\ BufferExact /\ CountGone = {} /\ Lists(roots, buffered)
    BY WalkIs, BufferIs DEF Core
  <1>2. /\ roots' = [roots EXCEPT ![i] = Gap] /\ candidates' = candidates - 1
        /\ buffered' = buffered \ {s} /\ dead' = dead
    BY DEF DropRoot, Unbuffered
  <1>3. /\ n \in Nat /\ DOMAIN roots = 1 .. n /\ i \in 1 .. n
        /\ roots' \in Seq(Objects \union {Gap}) /\ Len(roots') = n
        /\ DOMAIN roots' = 1 .. n /\ roots'[i] = Gap
        /\ \A j \in 1 .. n : j # i => roots'[j] = roots[j]
    BY <1>1, <1>2 DEF TypeOK
  <1>4. InSeq(roots) = {roots[j] : j \in 1 .. n} /\ InSeq(roots)' = {roots'[j] : j \in 1 .. n}
    BY <1>3 DEF InSeq
  <1>5. InSeq(roots) \ {Gap} = buffered
        /\ \A j, k \in 1 .. n : roots[j] = roots[k] /\ roots[j] # Gap => j = k
    BY <1>1 DEF Lists
  <1> HIDE DEF n, s
  <1>6. s \in buffered /\ s = roots[i]
    BY <1>3, <1>4, <1>5 DEF s
  <1>7. InSeq(roots)' \ {Gap} = buffered \ {s}
    <2>1. ASSUME NEW x \in InSeq(roots)', x # Gap PROVE x \in buffered \ {s}
      <3>1. PICK j \in 1 .. n : x = roots'[j]
        BY <1>4
      <3>2. j # i /\ x = roots[j]
        BY <1>3, <2>1, <3>1
      <3>3. x # s
        BY <1>3, <1>5, <1>6, <2>1, <3>2
      <3> QED
        BY <1>4, <1>5, <2>1, <3>2, <3>3
    <2>2. ASSUME NEW x \in buffered, x # s PROVE x \in InSeq(roots)' /\ x # Gap
      <3>1. PICK j \in 1 .. n : x = roots[j]
        BY <1>4, <1>5
      <3>2. j # i
        BY <1>6, <2>2, <3>1
      <3>3. x = roots'[j]
        BY <1>3, <3>1, <3>2
      <3> QED
        BY <1>4, <1>5, <3>3
    <2> QED
      BY <2>1, <2>2
  <1>8. \A j, k \in 1 .. n : roots'[j] = roots'[k] /\ roots'[j] # Gap => j = k
    BY <1>3, <1>5
  <1>9. candidates' = Cardinality(buffered') /\ candidates' \in Nat
    <2>1. IsFiniteSet(buffered) /\ candidates = Cardinality(buffered) /\ Cardinality(buffered) \in Nat
      BY <1>1, TypeFacts, FS_CardinalityType DEF BufferExact
    <2>2. Cardinality(buffered \ {s}) = Cardinality(buffered) - 1
      BY <1>6, <2>1, FS_RemoveElement
    <2>3. IsFiniteSet(buffered \ {s}) /\ Cardinality(buffered \ {s}) \in Nat
      BY <2>1, FS_RemoveElement, FS_CardinalityType, FS_Difference
    <2> QED
      BY <1>2, <2>1, <2>2, <2>3
  <1>10. CountGone' = {} /\ phase' # "idle" /\ dead = Cardinality({}) /\ dead \in Nat
    BY <1>1 DEF CountGone, Walking, BufferExact, TypeOK
  <1>11. BufferExact'
    <2>1. buffered' \subseteq heap' /\ dead' = Cardinality(CountGone')
      BY <1>1, <1>2, <1>10 DEF BufferExact
    <2> QED
      BY <1>2, <1>3, <1>7, <1>8, <1>9, <1>10, <2>1 DEF BufferExact
  <1> QED
    BY <1>1, <1>2, <1>3, <1>9, <1>10, <1>11 DEF n, TypeOK
-----------------------------------------------------------------------------
(***************************************************************************)
(* What the invariant says in each walk, as a formula of the variables the *)
(* walk changes: c is a coloring, st a work list, s a buffer, a an index,  *)
(* r the references, n the counts, g the garbage.                          *)
(***************************************************************************)
Of(c, k)       == {o \in Objects : c[o] = k}
Painted(c)     == Of(c, "gray") \union Of(c, "white")
In(st, how)    == {o \in Objects : <<o, how>> \in st}
RootsOf(s, I)  == {s[i] : i \in I}
HeldFrom(r, E) == {o \in Objects : \E p \in E : r[p][o] > 0}
Enters(o)      == o \in heap /\ TakesPart(o)

Cov(r, S, N) ==
  \A T \in SUBSET Objects :
    (/\ S \intersect N \subseteq T
     /\ \A p \in T \intersect N, o \in N : r[p][o] > 0 => o \in T) => N \subseteq T

Marks(r, s, a, c, st, g, l, w) ==
  /\ st \subseteq Objects \X {"mark"}
  /\ \A o \in Of(c, "gray") : Enters(o)
  /\ In(st, "mark") \subseteq Of(c, "gray") /\ Of(c, "white") = {}
  /\ g = {} /\ l = None /\ w = {}
  /\ Cov(r, RootsOf(s, 1 .. a - 1), Of(c, "gray"))

Scans(r, s, a, c, st, g, l, w, n) ==
  /\ st \subseteq Objects \X {"scan", "restore"}
  /\ \A o \in Painted(c) \union In(st, "scan") \union In(st, "restore") : Enters(o)
  /\ In(st, "restore") \intersect Painted(c) = {}
  /\ g = {} /\ l = None /\ w = {}
  /\ \A o \in Of(c, "white") : n[o] = 0
  /\ Cov(r, RootsOf(s, DOMAIN s) \union HeldFrom(r, In(st, "restore")), Painted(c))
  /\ Cov(r, RootsOf(s, a .. Len(s)) \union In(st, "scan") \union HeldFrom(r, In(st, "restore")),
         Of(c, "gray"))

Collects(r, s, a, c, st, g, l, w, n) ==
  /\ st \subseteq Objects \X {"collect"}
  /\ \A o \in Of(c, "white") \union g : Enters(o) /\ n[o] = 0
  /\ In(st, "collect") \subseteq g /\ Of(c, "gray") = {} /\ \A o \in g : c[o] = "black"
  /\ \A i \in 1 .. a - 1 : s[i] = Gap \/ ~ TakesPart(s[i])
  /\ \A o \in Objects : l[o] = IF TakesPart(o) THEN 0 ELSE From(r, g \ In(st, "collect"), o)
  /\ w = Holders \intersect (g \ In(st, "collect"))
  /\ Cov(r, RootsOf(s, a .. Len(s)) \union HeldFrom(r, In(st, "collect")), Of(c, "white"))

LEMMA Plain ==
  /\ Colored("gray") = Of(color, "gray") /\ Colored("white") = Of(color, "white")
  /\ NotBlackYet = Painted(color)
  /\ \A how : Entries(how) = In(stack, how)
  /\ Colored("gray")' = Of(color', "gray") /\ Colored("white")' = Of(color', "white")
  /\ NotBlackYet' = Painted(color')
  /\ Entries("mark")' = In(stack', "mark") /\ Entries("scan")' = In(stack', "scan")
  /\ Entries("restore")' = In(stack', "restore") /\ Entries("collect")' = In(stack', "collect")
  BY DEF Colored, Of, NotBlackYet, Painted, Entries, In

LEMMA MarksIs ==
  ASSUME TypeOK, PhasesInv, WalksInv, phase = "mark"
  PROVE  /\ draining = <<>> /\ Marks(refs, roots, at, color, stack, garbage, later, rooms)
         /\ TakenOff = Of(color, "gray") \ In(stack, "mark")
  <1>1. /\ Colored("gray") = Of(color, "gray") /\ Colored("white") = Of(color, "white")
        /\ NotBlackYet = Painted(color) /\ Entries("mark") = In(stack, "mark")
        /\ Painted(color) = Of(color, "gray") \union Of(color, "white")
    BY Plain DEF Painted
  <1>2. stack \subseteq Objects \X {"mark"}
    BY DEF TypeOK, PhasesInv, HowsOf
  <1>3. \A o \in Of(color, "gray") : Enters(o)
    BY <1>1 DEF PhasesInv, Enters
  <1>4. In(stack, "mark") \subseteq Of(color, "gray") /\ Of(color, "white") = {}
    BY <1>1 DEF PhasesInv
  <1>5. garbage = {} /\ later = None /\ rooms = {} /\ draining = <<>>
    BY DEF PhasesInv
  <1>6. Cov(refs, RootsOf(roots, 1 .. at - 1), Of(color, "gray"))
    <2>1. Covers(RootsIn(1 .. at - 1), NotBlackYet) /\ NotBlackYet = Of(color, "gray")
      BY <1>1, <1>4 DEF WalksInv
    <2> QED
      BY <2>1 DEF Covers, Cov, RootsIn, RootsOf
  <1>7. TakenOff = Of(color, "gray") \ In(stack, "mark")
    <2>1. \A o \in Objects : color[o] # "white"
      BY <1>4 DEF Of
    <2>2. \A o \in Of(color, "gray") : o \in heap
      BY <1>3 DEF Enters
    <2>3. heap \subseteq Objects /\ garbage = {} /\ \A o : <<o, "restore">> \notin stack
      BY <1>2, <1>5 DEF TypeOK
    <2> QED
      BY <2>1, <2>2, <2>3 DEF TakenOff, Of, In
  <1> QED
    BY <1>2, <1>3, <1>4, <1>5, <1>6, <1>7 DEF Marks

LEMMA MarksNext ==
  ASSUME TypeOK', phase' = "mark", draining' = <<>>, heap' = heap, running' = running,
         Marks(refs', roots', at', color', stack', garbage', later', rooms')
  PROVE  PhasesInv' /\ WalksInv' /\ TakenOff' = Of(color', "gray") \ In(stack', "mark")
  <1>1. /\ Colored("gray")' = Of(color', "gray") /\ Colored("white")' = Of(color', "white")
        /\ NotBlackYet' = Painted(color')
        /\ Painted(color') = Of(color', "gray") \union Of(color', "white")
        /\ Entries("mark")' = In(stack', "mark")
        /\ Entries("restore")' = In(stack', "restore") /\ Entries("collect")' = In(stack', "collect")
    BY Plain DEF Painted
  <1>2. /\ stack' \subseteq Objects \X {"mark"}
        /\ \A o \in Of(color', "gray") : Enters(o)
        /\ In(stack', "mark") \subseteq Of(color', "gray") /\ Of(color', "white") = {}
        /\ garbage' = {} /\ later' = None /\ rooms' = {}
        /\ Cov(refs', RootsOf(roots', 1 .. at' - 1), Of(color', "gray"))
    BY DEF Marks
  <1>3. /\ \A e \in stack' : e[2] = "mark" /\ e[1] \in In(stack', "mark")
        /\ In(stack', "restore") = {} /\ In(stack', "collect") = {}
        /\ \A o : <<o, "restore">> \notin stack'
    BY <1>2 DEF In
  <1>4. \A o : Enters(o) <=> o \in heap' /\ TakesPart(o)'
    BY DEF Enters, TakesPart
  <1>5. CountGone' = {} /\ HowsOf' = {"mark"} /\ None' = None
    BY DEF CountGone, HowsOf, None
  <1>6. PhasesInv'
    BY <1>1, <1>2, <1>3, <1>4, <1>5 DEF PhasesInv
  <1>7. WalksInv'
    <2>1. NotBlackYet' = Of(color', "gray")
      BY <1>1, <1>2
    <2>2. Covers(RootsIn(1 .. at - 1), NotBlackYet)'
      BY <1>2, <2>1 DEF Covers, Cov, RootsIn, RootsOf
    <2> QED
      BY <2>2 DEF WalksInv
  <1>8. TakenOff' = Of(color', "gray") \ In(stack', "mark")
    <2>1. \A o \in Objects : color'[o] # "white"
      BY <1>2 DEF Of
    <2>2. \A o \in Of(color', "gray") : o \in heap'
      BY <1>2 DEF Enters
    <2>3. heap' \subseteq Objects /\ garbage' = {}
      BY <1>2 DEF TypeOK
    <2> QED
      BY <1>3, <2>1, <2>2, <2>3 DEF TakenOff, Of, In
  <1> QED
    BY <1>6, <1>7, <1>8

LEMMA ScansIs ==
  ASSUME TypeOK, PhasesInv, WalksInv, phase = "scan"
  PROVE  /\ draining = <<>> /\ Scans(refs, roots, at, color, stack, garbage, later, rooms, count)
         /\ TakenOff = Painted(color) \union In(stack, "restore")
  <1>1. /\ Colored("gray") = Of(color, "gray") /\ Colored("white") = Of(color, "white")
        /\ NotBlackYet = Painted(color) /\ Entries("scan") = In(stack, "scan")
        /\ Entries("restore") = In(stack, "restore")
    BY Plain
  <1>2. stack \subseteq Objects \X {"scan", "restore"}
    BY DEF TypeOK, PhasesInv, HowsOf
  <1>3. \A o \in Painted(color) \union In(stack, "scan") \union In(stack, "restore") : Enters(o)
    <2>1. \A o \in Painted(color) \union {e[1] : e \in stack} : Enters(o)
      BY <1>1 DEF PhasesInv, Enters
    <2>2. \A o \in In(stack, "scan") \union In(stack, "restore") : o \in {e[1] : e \in stack}
      BY DEF In
    <2> QED
      BY <2>1, <2>2
  <1>4. In(stack, "restore") \intersect Painted(color) = {}
    BY <1>1 DEF PhasesInv
  <1>5. garbage = {} /\ later = None /\ rooms = {} /\ draining = <<>>
    BY DEF PhasesInv
  <1>6. \A o \in Of(color, "white") : count[o] = 0
    BY <1>1 DEF PhasesInv
  <1>7. /\ Cov(refs, RootsOf(roots, DOMAIN roots) \union HeldFrom(refs, In(stack, "restore")), Painted(color))
        /\ Cov(refs, RootsOf(roots, at .. Len(roots)) \union In(stack, "scan")
                       \union HeldFrom(refs, In(stack, "restore")), Of(color, "gray"))
    BY <1>1 DEF WalksInv, Covers, Cov, RootsIn, RootsOf, HeldBy, HeldFrom
  <1>8. TakenOff = Painted(color) \union In(stack, "restore")
    <2>1. \A o \in Painted(color) \union In(stack, "restore") : o \in heap
      BY <1>3 DEF Enters
    <2>2. heap \subseteq Objects /\ garbage = {} /\ \A o : <<o, "mark">> \notin stack
      BY <1>2, <1>5 DEF TypeOK
    <2> QED
      BY <2>1, <2>2 DEF TakenOff, Of, In, Painted
  <1> QED
    BY <1>2, <1>3, <1>4, <1>5, <1>6, <1>7, <1>8 DEF Scans

LEMMA ScansNext ==
  ASSUME TypeOK', phase' = "scan", draining' = <<>>, heap' = heap, running' = running,
         Scans(refs', roots', at', color', stack', garbage', later', rooms', count')
  PROVE  PhasesInv' /\ WalksInv' /\ TakenOff' = Painted(color') \union In(stack', "restore")
  <1>1. /\ Colored("gray")' = Of(color', "gray") /\ Colored("white")' = Of(color', "white")
        /\ NotBlackYet' = Painted(color') /\ Entries("scan")' = In(stack', "scan")
        /\ Entries("mark")' = In(stack', "mark")
        /\ Entries("restore")' = In(stack', "restore") /\ Entries("collect")' = In(stack', "collect")
    BY Plain
  <1>2. /\ stack' \subseteq Objects \X {"scan", "restore"}
        /\ \A o \in Painted(color') \union In(stack', "scan") \union In(stack', "restore") : Enters(o)
        /\ In(stack', "restore") \intersect Painted(color') = {}
        /\ garbage' = {} /\ later' = None /\ rooms' = {}
        /\ \A o \in Of(color', "white") : count'[o] = 0
        /\ Cov(refs', RootsOf(roots', DOMAIN roots') \union HeldFrom(refs', In(stack', "restore")), Painted(color'))
        /\ Cov(refs', RootsOf(roots', at' .. Len(roots')) \union In(stack', "scan")
                       \union HeldFrom(refs', In(stack', "restore")), Of(color', "gray"))
    BY DEF Scans
  <1>3. /\ \A e \in stack' : e[2] \in {"scan", "restore"} /\ e[1] \in In(stack', "scan") \union In(stack', "restore")
        /\ In(stack', "mark") = {} /\ In(stack', "collect") = {}
        /\ \A o : <<o, "mark">> \notin stack'
    BY <1>2 DEF In
  <1>4. \A o : Enters(o) <=> o \in heap' /\ TakesPart(o)'
    BY DEF Enters, TakesPart
  <1>5. CountGone' = {} /\ HowsOf' = {"scan", "restore"} /\ None' = None
    BY DEF CountGone, HowsOf, None
  <1>6. PhasesInv'
    BY <1>1, <1>2, <1>3, <1>4, <1>5 DEF PhasesInv
  <1>7. WalksInv'
    BY <1>1, <1>2 DEF WalksInv, Covers, Cov, RootsIn, RootsOf, HeldBy, HeldFrom
  <1>8. TakenOff' = Painted(color') \union In(stack', "restore")
    <2>1. \A o \in Painted(color') \union In(stack', "restore") : o \in heap'
      BY <1>2 DEF Enters
    <2>2. heap' \subseteq Objects /\ garbage' = {}
      BY <1>2 DEF TypeOK
    <2> QED
      BY <1>3, <2>1, <2>2 DEF TakenOff, Of, In, Painted
  <1> QED
    BY <1>6, <1>7, <1>8

LEMMA CollectsIs ==
  ASSUME TypeOK, PhasesInv, WalksInv, phase = "collect"
  PROVE  /\ draining = <<>> /\ Collects(refs, roots, at, color, stack, garbage, later, rooms, count)
         /\ TakenOff = Of(color, "white") \union garbage
  <1>1. /\ Colored("gray") = Of(color, "gray") /\ Colored("white") = Of(color, "white")
        /\ NotBlackYet = Painted(color) /\ Entries("collect") = In(stack, "collect")
        /\ Painted(color) = Of(color, "gray") \union Of(color, "white")
    BY Plain DEF Painted
  <1>2. stack \subseteq Objects \X {"collect"}
    BY DEF TypeOK, PhasesInv, HowsOf
  <1>3. garbage \subseteq heap
    BY DEF PhasesInv
  <1>4. \A o \in Of(color, "white") \union garbage : Enters(o) /\ count[o] = 0
    BY <1>1, <1>3 DEF PhasesInv, Enters
  <1>5. In(stack, "collect") \subseteq garbage /\ Of(color, "gray") = {} /\ (\A o \in garbage : color[o] = "black")
        /\ draining = <<>>
    BY <1>1 DEF PhasesInv
  <1>6. \A i \in 1 .. at - 1 : roots[i] = Gap \/ ~ TakesPart(roots[i])
    BY DEF PhasesInv
  <1>7. /\ \A o \in Objects : later[o] = IF TakesPart(o) THEN 0 ELSE From(refs, garbage \ In(stack, "collect"), o)
        /\ rooms = Holders \intersect (garbage \ In(stack, "collect"))
    BY <1>1, HeldIsFrom DEF PhasesInv
  <1>8. Cov(refs, RootsOf(roots, at .. Len(roots)) \union HeldFrom(refs, In(stack, "collect")), Of(color, "white"))
    BY <1>1 DEF WalksInv, Covers, Cov, RootsIn, RootsOf, HeldBy, HeldFrom
  <1>9. TakenOff = Of(color, "white") \union garbage
    <2>1. \A o \in Of(color, "white") \union garbage : o \in heap
      BY <1>4 DEF Enters
    <2>2. heap \subseteq Objects /\ \A o : <<o, "mark">> \notin stack /\ <<o, "restore">> \notin stack
      BY <1>2 DEF TypeOK
    <2>3. \A o \in Objects : color[o] # "gray"
      BY <1>5 DEF Of
    <2> QED
      BY <2>1, <2>2, <2>3 DEF TakenOff, Of
  <1> QED
    BY <1>2, <1>4, <1>5, <1>6, <1>7, <1>8, <1>9 DEF Collects

LEMMA CollectsNext ==
  ASSUME TypeOK', phase' = "collect", draining' = <<>>, heap' = heap, running' = running,
         Collects(refs', roots', at', color', stack', garbage', later', rooms', count')
  PROVE  PhasesInv' /\ WalksInv' /\ TakenOff' = Of(color', "white") \union garbage'
  <1>1. /\ Colored("gray")' = Of(color', "gray") /\ Colored("white")' = Of(color', "white")
        /\ NotBlackYet' = Painted(color')
        /\ Painted(color') = Of(color', "gray") \union Of(color', "white")
        /\ Entries("mark")' = In(stack', "mark")
        /\ Entries("restore")' = In(stack', "restore") /\ Entries("collect")' = In(stack', "collect")
    BY Plain DEF Painted
  <1>2. /\ stack' \subseteq Objects \X {"collect"}
        /\ \A o \in Of(color', "white") \union garbage' : Enters(o) /\ count'[o] = 0
        /\ In(stack', "collect") \subseteq garbage' /\ Of(color', "gray") = {}
        /\ \A o \in garbage' : color'[o] = "black"
        /\ \A i \in 1 .. at' - 1 : roots'[i] = Gap \/ ~ TakesPart(roots'[i])
        /\ \A o \in Objects : later'[o] = IF TakesPart(o) THEN 0 ELSE From(refs', garbage' \ In(stack', "collect"), o)
        /\ rooms' = Holders \intersect (garbage' \ In(stack', "collect"))
        /\ Cov(refs', RootsOf(roots', at' .. Len(roots')) \union HeldFrom(refs', In(stack', "collect")),
               Of(color', "white"))
    BY DEF Collects
  <1>3. /\ \A e \in stack' : e[2] = "collect" /\ e[1] \in In(stack', "collect")
        /\ In(stack', "mark") = {} /\ In(stack', "restore") = {}
        /\ \A o : <<o, "mark">> \notin stack' /\ <<o, "restore">> \notin stack'
    BY <1>2 DEF In
  <1>4. \A o : (Enters(o) <=> o \in heap' /\ TakesPart(o)') /\ (TakesPart(o)' <=> TakesPart(o))
    BY DEF Enters, TakesPart
  <1>5. CountGone' = {} /\ HowsOf' = {"collect"} /\ None' = None
    BY DEF CountGone, HowsOf, None
  <1>6. garbage' \subseteq heap' /\ \A o \in garbage' : o \in heap'
    BY <1>2 DEF Enters
  <1>7. \A o \in Objects : later'[o] = IF TakesPart(o)' THEN 0 ELSE Held(garbage \ Entries("collect"), o)'
    <2> TAKE o \in Objects
    <2>1. Held(garbage \ Entries("collect"), o)' = From(refs', garbage' \ Entries("collect")', o)
      BY DEF Held, From
    <2> QED
      BY <1>1, <1>2, <1>4, <2>1
  <1>8. \A i \in 1 .. at' - 1 : roots'[i] = Gap \/ ~ TakesPart(roots[i])'
    BY <1>2, <1>4 DEF TakesPart
  <1>9. rooms' = Holders \intersect (garbage' \ Entries("collect")')
    BY <1>1, <1>2
  <1>10. \A o \in NotBlackYet' \union {e[1] : e \in stack'} : o \in heap' /\ TakesPart(o)'
    BY <1>1, <1>2, <1>3, <1>4
  <1>11. PhasesInv'
    BY <1>1, <1>2, <1>3, <1>4, <1>5, <1>6, <1>7, <1>8, <1>9, <1>10 DEF PhasesInv
  <1>12. WalksInv'
    BY <1>1, <1>2 DEF WalksInv, Covers, Cov, RootsIn, RootsOf, HeldBy, HeldFrom
  <1>13. TakenOff' = Of(color', "white") \union garbage'
    <2>1. \A o \in Of(color', "white") \union garbage' : o \in heap'
      BY <1>2 DEF Enters
    <2>2. heap' \subseteq Objects
      BY DEF TypeOK
    <2>3. \A o \in Objects : color'[o] # "gray"
      BY <1>2 DEF Of
    <2> QED
      BY <1>3, <2>1, <2>2, <2>3 DEF TakenOff, Of
  <1> QED
    BY <1>11, <1>12, <1>13

\* A walk that meets all of N still meets what is left of it, and what it adds.
LEMMA CovShrinks ==
  ASSUME NEW r, NEW S, NEW N \in SUBSET Objects, Cov(r, S, N), NEW M \in SUBSET N,
         NEW R, S \intersect M \subseteq R,
         \A p \in N, o \in M : p \notin M /\ r[p][o] > 0 => o \in R
  PROVE  Cov(r, R, M)
  <1> SUFFICES ASSUME NEW T \in SUBSET Objects, R \intersect M \subseteq T,
                      \A p \in T \intersect M, o \in M : r[p][o] > 0 => o \in T
               PROVE  M \subseteq T
    BY DEF Cov
  <1> DEFINE U == T \union (N \ M)
  <1>1. U \in SUBSET Objects /\ S \intersect N \subseteq U
    OBVIOUS
  <1>2. \A p \in U \intersect N, o \in N : r[p][o] > 0 => o \in U
    OBVIOUS
  <1>3. N \subseteq U
    BY <1>1, <1>2 DEF Cov
  <1> QED
    BY <1>3

LEMMA CovGrows ==
  ASSUME NEW r, NEW S, NEW N \in SUBSET Objects, Cov(r, S, N), NEW M \in SUBSET Objects, N \subseteq M,
         NEW R, S \intersect N \subseteq R,
         \A o \in M : o \in N \/ o \in R \/ \E p \in N : r[p][o] > 0
  PROVE  Cov(r, R, M)
  <1> SUFFICES ASSUME NEW T \in SUBSET Objects, R \intersect M \subseteq T,
                      \A p \in T \intersect M, o \in M : r[p][o] > 0 => o \in T
               PROVE  M \subseteq T
    BY DEF Cov
  <1>1. S \intersect N \subseteq T /\ \A p \in T \intersect N, o \in N : r[p][o] > 0 => o \in T
    OBVIOUS
  <1>2. N \subseteq T
    BY <1>1 DEF Cov
  <1> QED
    BY <1>2

LEMMA CovNone ==
  ASSUME NEW r, NEW S, NEW N \in SUBSET Objects, Cov(r, S, N), S \intersect N = {}
  PROVE  N = {}
  <1>1. {} \in SUBSET Objects /\ S \intersect N \subseteq {}
        /\ \A p \in {} \intersect N, o \in N : r[p][o] > 0 => o \in {}
    OBVIOUS
  <1>2. N \subseteq {}
    BY <1>1 DEF Cov
  <1> QED
    BY <1>2

LEMMA RootsStep ==
  ASSUME NEW s, NEW n \in Nat, NEW a \in 1 .. n
  PROVE  /\ RootsOf(s, a .. n) = RootsOf(s, a + 1 .. n) \union {s[a]}
         /\ RootsOf(s, 1 .. a) = RootsOf(s, 1 .. a - 1) \union {s[a]}
  <1>1. a .. n = (a + 1 .. n) \union {a} /\ 1 .. a = (1 .. a - 1) \union {a}
    OBVIOUS
  <1>2. /\ RootsOf(s, (a + 1 .. n) \union {a}) = RootsOf(s, a + 1 .. n) \union {s[a]}
        /\ RootsOf(s, (1 .. a - 1) \union {a}) = RootsOf(s, 1 .. a - 1) \union {s[a]}
    BY DEF RootsOf
  <1> QED
    BY <1>1, <1>2

\* A trace of an object that takes part finds its references.
LEMMA SeenFacts ==
  ASSUME Core, phase \in Walking, NEW b, Enters(b)
  PROVE  /\ b \in Objects /\ Seen(b) = {refs[b]} /\ \A o \in Objects : refs[b][o] \in Nat
         /\ \A o \in Entered(refs[b]) : o \in Objects /\ Enters(o) /\ refs[b][o] > 0
         /\ \A o \in Objects : refs[b][o] > 0 /\ TakesPart(o) => o \in Entered(refs[b])
  <1>1. TypeOK /\ NothingDangles /\ Gone = {}
    BY WalkIs DEF Core
  <1>2. b \in Objects /\ Seen(b) = {refs[b]} /\ \A o \in Objects : refs[b][o] \in Nat
    BY <1>1, Sizes DEF Enters, TakesPart, Seen, TypeOK
  <1>3. \A o \in Objects : refs[b][o] > 0 => o \in heap
    BY <1>1, <1>2 DEF NothingDangles, Names
  <1> QED
    BY <1>2, <1>3 DEF Entered, Enters

LEMMA LeftStep ==
  ASSUME NEW r \in Tables, NEW l \in [Objects -> Nat], NEW off \in SUBSET Objects,
         NEW b \in Objects, b \notin off, NEW more, more = off \union {b}, NEW o \in Objects
  PROVE  /\ Left(r, l, more, o) \in Nat
         /\ Left(r, l, off, o) = Left(r, l, more, o) + (IF TakesPart(o) THEN r[b][o] ELSE 0)
  <1> DEFINE S == Objects \ off
             R == Objects \ more
  <1>1. S \in SUBSET Objects /\ b \in S /\ R = S \ {b}
    OBVIOUS
  <1>2. /\ From(r, S, o) = From(r, S \ {b}, o) + r[b][o]
        /\ From(r, S, o) \in Nat /\ From(r, S \ {b}, o) \in Nat /\ r[b][o] \in Nat
    <2> HIDE DEF S, R
    <2> QED
      BY <1>1, FromWithout
  <1>3. From(r, Objects, o) \in Nat /\ l[o] \in Nat
    BY FromNat
  <1>4. CASE TakesPart(o)
    <2>1. Left(r, l, more, o) = l[o] + From(r, R, o) /\ Left(r, l, off, o) = l[o] + From(r, S, o)
      BY <1>4 DEF Left
    <2> HIDE DEF S, R
    <2> QED
      BY <1>1, <1>2, <1>3, <1>4, <2>1
  <1>5. CASE ~ TakesPart(o)
    BY <1>3, <1>5 DEF Left
  <1> QED
    BY <1>4, <1>5

Colors    == {"black", "gray", "white"}
Colorings == [Objects -> Colors]

Painting(c, S, k, d) ==
  /\ c \in Colorings /\ S \in SUBSET Objects /\ k \in Colors
  /\ d = [o \in Objects |-> IF o \in S THEN k ELSE c[o]]

Working(st, b, h, S, how, new) ==
  /\ st \in SUBSET (Objects \X Hows) /\ S \in SUBSET Objects /\ how \in Hows
  /\ new = (st \ {<<b, h>>}) \union (S \X {how})

LEMMA PaintIs ==
  ASSUME NEW c, NEW S, NEW k, NEW d, Painting(c, S, k, d)
  PROVE  /\ d \in Colorings
         /\ Of(d, k) = Of(c, k) \union S
         /\ \A j : j # k => Of(d, j) = Of(c, j) \ S
         /\ \A o \in Objects : d[o] = IF o \in S THEN k ELSE c[o]
  BY DEF Of, Painting, Colorings

LEMMA ColorsAre ==
  /\ TypeOK => color \in Colorings
  /\ \A c \in Colorings : c \in [Objects -> {"black", "gray", "white"}]
  /\ "black" \in Colors /\ "gray" \in Colors /\ "white" \in Colors
  BY DEF TypeOK, Colorings, Colors

LEMMA WorkIs ==
  ASSUME NEW st, NEW b, NEW h, NEW S, NEW how, NEW new, Working(st, b, h, S, how, new)
  PROVE  /\ new \in SUBSET (Objects \X Hows)
         /\ \A k : k # h => In(new, k) = In(st, k) \union (IF k = how THEN S ELSE {})
         /\ In(new, h) = (In(st, h) \ {b}) \union (IF h = how THEN S ELSE {})
  BY DEF In, Working

LEMMA WorkOn ==
  ASSUME NEW st, NEW b, NEW h, NEW S, NEW new, Working(st, b, h, S, h, new)
  PROVE  /\ new \in SUBSET (Objects \X Hows)
         /\ In(new, h) = (In(st, h) \ {b}) \union S
         /\ \A k : k # h => In(new, k) = In(st, k)
  BY DEF In, Working

\* The walk goes past a gap, or past a candidate that takes no part.
LEMMA SkipRootKeeps == ASSUME Core, SkipRoot PROVE Core'
  <1>1. TypeOK /\ PhasesInv /\ WalksInv /\ BufferExact
    BY DEF Core
  <1>2. /\ phase \in Walking /\ stack = {} /\ at <= Len(roots) /\ Skipped /\ at' = at + 1
        /\ UNCHANGED still
        /\ heap' = heap /\ refs' = refs /\ locals' = locals /\ running' = running /\ weak' = weak
        /\ room' = room /\ draining' = draining /\ threshold' = threshold
        /\ count' = count /\ color' = color /\ roots' = roots /\ buffered' = buffered
        /\ candidates' = candidates /\ dead' = dead
        /\ phase' = phase /\ stack' = stack /\ garbage' = garbage /\ later' = later /\ rooms' = rooms
        /\ visited' = visited
    BY DEF SkipRoot, AtRoot, Walking, still, program, words, buffer
  <1> DEFINE n == Len(roots)
  <1>3. n \in Nat /\ DOMAIN roots = 1 .. n /\ at \in 1 .. n
    BY <1>1, <1>2 DEF TypeOK
  <1>4. TypeOK'
    BY <1>1, <1>2, <1>3 DEF TypeOK
  <1>5. BufferExact'
    BY <1>2, BufferStays DEF buffer
  <1> HIDE DEF n
  <1>6. /\ RootsOf(roots, at .. n) = RootsOf(roots, at + 1 .. n) \union {roots[at]}
        /\ RootsOf(roots, 1 .. at) = RootsOf(roots, 1 .. at - 1) \union {roots[at]}
        /\ (at + 1) - 1 = at
    BY <1>3, RootsStep
  <1>7. ~ Enters(roots[at]) /\ (roots[at] = Gap \/ ~ TakesPart(roots[at]))
    BY <1>1, <1>2, Kinds DEF Skipped, Enters, TypeOK
  <1>8. refs \in Tables /\ \A o : Of(color, o) \in SUBSET Objects
    BY <1>1, TypeFacts DEF Of
  <1>9. CASE phase = "mark"
    <2>1. draining = <<>> /\ Marks(refs, roots, at, color, stack, garbage, later, rooms)
          /\ TakenOff = Of(color, "gray") \ In(stack, "mark")
      BY <1>1, <1>9, MarksIs
    <2>2. Cov(refs, RootsOf(roots, 1 .. at), Of(color, "gray"))
      <3>1. Cov(refs, RootsOf(roots, 1 .. at - 1), Of(color, "gray"))
        BY <2>1 DEF Marks
      <3> QED
        BY <1>6, <1>8, <3>1, CovGrows
    <2>3. Marks(refs', roots', at', color', stack', garbage', later', rooms')
      BY <1>2, <1>6, <2>1, <2>2 DEF Marks
    <2>4. PhasesInv' /\ WalksInv' /\ TakenOff' = TakenOff
      BY <1>2, <1>4, <1>9, <2>1, <2>3, MarksNext
    <2> QED
      BY <1>2, <1>4, <1>5, <2>4, WalkIs, WalkNext
  <1>10. CASE phase = "scan"
    <2>1. draining = <<>> /\ Scans(refs, roots, at, color, stack, garbage, later, rooms, count)
          /\ TakenOff = Painted(color) \union In(stack, "restore")
      BY <1>1, <1>10, ScansIs
    <2> DEFINE A == RootsOf(roots, at .. n) \union In(stack, "scan") \union HeldFrom(refs, In(stack, "restore"))
               B == RootsOf(roots, at + 1 .. n) \union In(stack, "scan") \union HeldFrom(refs, In(stack, "restore"))
    <2>2. Cov(refs, B, Of(color, "gray"))
      <3>1. Cov(refs, A, Of(color, "gray")) /\ \A o \in Of(color, "gray") : Enters(o)
        BY <2>1 DEF Scans, n, Painted
      <3>2. A \intersect Of(color, "gray") \subseteq B
        BY <1>6, <1>7, <3>1
      <3> HIDE DEF A, B
      <3> QED
        BY <1>8, <3>1, <3>2, CovShrinks
    <2>3. Scans(refs', roots', at', color', stack', garbage', later', rooms', count')
      BY <1>2, <2>1, <2>2 DEF Scans, n
    <2>4. PhasesInv' /\ WalksInv' /\ TakenOff' = TakenOff
      BY <1>2, <1>4, <1>10, <2>1, <2>3, ScansNext
    <2> QED
      BY <1>2, <1>4, <1>5, <2>4, WalkIs, WalkNext
  <1>11. CASE phase = "collect"
    <2>1. draining = <<>> /\ Collects(refs, roots, at, color, stack, garbage, later, rooms, count)
          /\ TakenOff = Of(color, "white") \union garbage
      BY <1>1, <1>11, CollectsIs
    <2> DEFINE A == RootsOf(roots, at .. n) \union HeldFrom(refs, In(stack, "collect"))
               B == RootsOf(roots, at + 1 .. n) \union HeldFrom(refs, In(stack, "collect"))
    <2>2. Cov(refs, B, Of(color, "white"))
      <3>1. Cov(refs, A, Of(color, "white")) /\ \A o \in Of(color, "white") : Enters(o)
        BY <2>1 DEF Collects, n
      <3>2. A \intersect Of(color, "white") \subseteq B
        BY <1>6, <1>7, <3>1
      <3> HIDE DEF A, B
      <3> QED
        BY <1>8, <3>1, <3>2, CovShrinks
    <2>3. \A i \in 1 .. (at + 1) - 1 : roots[i] = Gap \/ ~ TakesPart(roots[i])
      <3>1. \A i \in 1 .. at - 1 : roots[i] = Gap \/ ~ TakesPart(roots[i])
        BY <2>1 DEF Collects
      <3>2. \A i \in 1 .. (at + 1) - 1 : i \in 1 .. at - 1 \/ i = at
        BY <1>3
      <3> QED
        BY <1>7, <3>1, <3>2
    <2>4. Collects(refs', roots', at', color', stack', garbage', later', rooms', count')
      BY <1>2, <2>1, <2>2, <2>3 DEF Collects, n
    <2>5. PhasesInv' /\ WalksInv' /\ TakenOff' = TakenOff
      BY <1>2, <1>4, <1>11, <2>1, <2>4, CollectsNext
    <2> QED
      BY <1>2, <1>4, <1>5, <2>5, WalkIs, WalkNext
  <1> QED
    BY <1>2, <1>9, <1>10, <1>11 DEF Walking

LEMMA MarkRootKeeps == ASSUME Core, MarkRoot PROVE Core'
  <1> DEFINE n == Len(roots)
             s == roots[at]
  <1>1. TypeOK /\ PhasesInv /\ WalksInv /\ BufferExact
    BY DEF Core
  <1>2. /\ phase = "mark" /\ phase \in Walking /\ stack = {} /\ at <= n /\ ~ Skipped /\ at' = at + 1
        /\ UNCHANGED still
        /\ heap' = heap /\ refs' = refs /\ locals' = locals /\ running' = running /\ weak' = weak
        /\ room' = room /\ draining' = draining /\ threshold' = threshold
        /\ count' = count /\ phase' = phase /\ garbage' = garbage /\ later' = later /\ rooms' = rooms
        /\ visited' = visited
    BY DEF MarkRoot, AtRoot, Walking, still, program
  <1>3. n \in Nat /\ DOMAIN roots = 1 .. n /\ at \in 1 .. n /\ s \in Objects \union {Gap}
    BY <1>1, <1>2 DEF TypeOK
  <1>4. draining = <<>> /\ Marks(refs, roots, at, color, stack, garbage, later, rooms)
        /\ TakenOff = Of(color, "gray") \ In(stack, "mark")
    BY <1>1, <1>2, MarksIs
  <1>5. s # Gap /\ TakesPart(s) /\ s \in Objects /\ s \in heap /\ Enters(s)
    <2>1. s # Gap /\ TakesPart(s)
      BY <1>2 DEF Skipped
    <2>2. s \in InSeq(roots)
      BY <1>3 DEF InSeq
    <2> QED
      BY <1>1, <1>3, <2>1, <2>2 DEF BufferExact, Enters
  <1>6. /\ RootsOf(roots, 1 .. at) = RootsOf(roots, 1 .. at - 1) \union {s}
        /\ (at + 1) - 1 = at
    <2> HIDE DEF n
    <2> QED
      BY <1>3, RootsStep
  <1>7. refs \in Tables /\ Of(color, "gray") \in SUBSET Objects
    BY <1>1, TypeFacts DEF Of
  <1>8. Cov(refs, RootsOf(roots, 1 .. at - 1), Of(color, "gray")) /\ In(stack, "mark") = {}
    BY <1>2, <1>4 DEF Marks, In
  <1>9. CASE Marked(s)
    <2>1. DropRoot(at) /\ color' = color /\ stack' = stack
      BY <1>9 DEF MarkRoot
    <2>2. /\ BufferExact' /\ roots' \in Seq(Objects \union {Gap}) /\ Len(roots') = n
          /\ roots'[at] = Gap /\ (\A j \in DOMAIN roots : j # at => roots'[j] = roots[j])
          /\ candidates' \in Nat /\ buffered' \subseteq Cyclic /\ dead' \in Nat
      BY <1>2, <1>3, <1>5, <2>1, DropRootKeeps
    <2>3. TypeOK'
      <3>1. at' \in 1 .. Len(roots') + 1
        BY <1>2, <1>3, <2>2
      <3> QED
        BY <1>1, <1>2, <2>1, <2>2, <3>1 DEF TypeOK
    <2>4. Cov(refs, RootsOf(roots', 1 .. at), Of(color, "gray"))
      <3>1. RootsOf(roots', 1 .. at) = RootsOf(roots', 1 .. at - 1) \union {Gap}
        <4> HIDE DEF n
        <4>1. RootsOf(roots', 1 .. at) = RootsOf(roots', 1 .. at - 1) \union {roots'[at]}
          BY <1>3, RootsStep
        <4> QED
          BY <2>2, <4>1
      <3>2. RootsOf(roots', 1 .. at - 1) = RootsOf(roots, 1 .. at - 1)
        <4>1. \A j \in 1 .. at - 1 : roots'[j] = roots[j]
          BY <1>3, <2>2
        <4> QED
          BY <4>1 DEF RootsOf
      <3> QED
        BY <1>7, <1>8, <3>1, <3>2, CovGrows
    <2>5. Marks(refs', roots', at', color', stack', garbage', later', rooms')
      BY <1>2, <1>4, <1>6, <2>1, <2>4 DEF Marks
    <2>6. PhasesInv' /\ WalksInv' /\ TakenOff' = TakenOff
      BY <1>2, <1>4, <2>1, <2>3, <2>5, MarksNext
    <2> QED
      BY <1>2, <2>2, <2>3, <2>6, WalkIs, WalkNext
  <1>10. CASE ~ Marked(s)
    <2>1. /\ Paint({s}, "gray") /\ stack' = {<<s, "mark">>} /\ UNCHANGED buffer
          /\ roots' = roots /\ buffered' = buffered /\ candidates' = candidates /\ dead' = dead
      BY <1>10 DEF MarkRoot, buffer
    <2>2. /\ color' \in [Objects -> {"black", "gray", "white"}]
          /\ Of(color', "gray") = Of(color, "gray") \union {s}
          /\ Of(color', "white") = Of(color, "white") \ {s}
      <3>1. Painting(color, {s}, "gray", color')
        BY <1>1, <1>5, <2>1, ColorsAre DEF Paint, Painting
      <3> HIDE DEF s
      <3> QED
        BY <3>1, ColorsAre, PaintIs
    <2>3. s \notin Of(color, "gray")
      BY <1>10 DEF Marked, Of
    <2>4. stack' \subseteq Objects \X {"mark"} /\ In(stack', "mark") = {s}
      BY <1>5, <2>1 DEF In
    <2>5. TypeOK'
      <3>1. at' \in 1 .. Len(roots') + 1
        BY <1>2, <1>3, <2>1
      <3>2. stack' \subseteq Objects \X Hows
        BY <2>4 DEF Hows
      <3> QED
        BY <1>1, <1>2, <2>1, <2>2, <3>1, <3>2 DEF TypeOK
    <2>6. BufferExact'
      BY <1>2, <2>1, BufferStays
    <2>7. Cov(refs, RootsOf(roots, 1 .. at), Of(color', "gray"))
      BY <1>5, <1>6, <1>7, <1>8, <2>2, CovGrows
    <2>8. Marks(refs', roots', at', color', stack', garbage', later', rooms')
      <3>1. (\A o \in Of(color', "gray") : Enters(o)) /\ Of(color', "white") = {}
        BY <1>4, <1>5, <2>2 DEF Marks
      <3> QED
        BY <1>2, <1>4, <1>6, <2>1, <2>2, <2>4, <2>7, <3>1 DEF Marks
    <2>9. PhasesInv' /\ WalksInv' /\ TakenOff' = Of(color', "gray") \ In(stack', "mark")
      BY <1>2, <1>4, <2>5, <2>8, MarksNext
    <2>10. TakenOff' = TakenOff
      BY <1>4, <1>8, <2>2, <2>3, <2>4, <2>9
    <2> QED
      BY <1>2, <2>5, <2>6, <2>9, <2>10, WalkIs, WalkNext
  <1> QED
    BY <1>9, <1>10

LEMMA MarkKeeps == ASSUME Core, NEW b, Mark(b) PROVE Core'
  <1>1. TypeOK /\ PhasesInv /\ WalksInv /\ BufferExact
    BY DEF Core
  <1>2. PICK seen \in Seen(b) :
          LET fresh == {o \in Entered(seen) : color[o] # "gray"}
          IN /\ TakeCounts(seen)
             /\ Paint(fresh, "gray")
             /\ Walk(<<b, "mark">>, fresh, "mark")
    BY DEF Mark
  <1> DEFINE fresh == {o \in Entered(seen) : color[o] # "gray"}
  <1>3. /\ <<b, "mark">> \in stack /\ UNCHANGED still
        /\ heap' = heap /\ refs' = refs /\ locals' = locals /\ running' = running /\ weak' = weak
        /\ room' = room /\ draining' = draining /\ threshold' = threshold
        /\ UNCHANGED buffer /\ roots' = roots /\ buffered' = buffered
        /\ candidates' = candidates /\ dead' = dead
        /\ phase' = phase /\ at' = at /\ garbage' = garbage /\ later' = later /\ rooms' = rooms
        /\ visited' = visited + 1
    BY DEF Mark, still, program, buffer
  <1>4. phase = "mark" /\ phase \in Walking
    BY <1>1, <1>3 DEF PhasesInv, HowsOf, TypeOK, Phases, Walking
  <1>5. draining = <<>> /\ Marks(refs, roots, at, color, stack, garbage, later, rooms)
        /\ TakenOff = Of(color, "gray") \ In(stack, "mark")
    BY <1>1, <1>4, MarksIs
  <1>6. /\ stack \subseteq Objects \X {"mark"} /\ (\A o \in Of(color, "gray") : Enters(o))
        /\ In(stack, "mark") \subseteq Of(color, "gray") /\ Of(color, "white") = {}
        /\ garbage = {} /\ later = None /\ rooms = {}
        /\ Cov(refs, RootsOf(roots, 1 .. at - 1), Of(color, "gray"))
    BY <1>5 DEF Marks
  <1>7. b \in In(stack, "mark") /\ Enters(b)
    BY <1>3, <1>6 DEF In
  <1>8. /\ b \in Objects /\ seen = refs[b] /\ (\A o \in Objects : refs[b][o] \in Nat)
        /\ \A o \in Entered(seen) : o \in Objects /\ Enters(o) /\ refs[b][o] > 0
    BY <1>2, <1>4, <1>7, SeenFacts
  <1>9. fresh \in SUBSET Objects /\ fresh \intersect Of(color, "gray") = {}
        /\ (\A o \in fresh : Enters(o) /\ refs[b][o] > 0)
    BY <1>8 DEF Of
  <1>10. /\ TakeCounts(refs[b])
         /\ Painting(color, fresh, "gray", color')
         /\ Working(stack, b, "mark", fresh, "mark", stack')
    <2>1. color \in Colorings /\ "gray" \in Colors /\ "mark" \in Hows /\ stack \in SUBSET (Objects \X Hows)
      BY <1>1, ColorsAre DEF Hows, TypeOK
    <2>2. TakeCounts(refs[b]) /\ Paint(fresh, "gray") /\ Walk(<<b, "mark">>, fresh, "mark")
          /\ fresh \in SUBSET Objects
      BY <1>2, <1>8, <1>9
    <2> HIDE DEF fresh
    <2> QED
      BY <2>1, <2>2 DEF Paint, Walk, Painting, Working
  <1> HIDE DEF fresh
  <1>11. /\ color' \in [Objects -> {"black", "gray", "white"}]
         /\ Of(color', "gray") = Of(color, "gray") \union fresh
         /\ Of(color', "white") = Of(color, "white") \ fresh
    <2>1. /\ color' \in Colorings
          /\ Of(color', "gray") = Of(color, "gray") \union fresh
          /\ \A j : j # "gray" => Of(color', j) = Of(color, j) \ fresh
      BY <1>10, PaintIs
    <2> QED
      BY <2>1, ColorsAre
  <1>12. /\ stack' \in SUBSET (Objects \X Hows) /\ stack' \subseteq Objects \X {"mark"}
         /\ In(stack', "mark") = (In(stack, "mark") \ {b}) \union fresh
    <2>1. stack' \subseteq Objects \X {"mark"}
      BY <1>6, <1>9, <1>10 DEF Working
    <2> QED
      BY <1>10, <2>1, WorkIs
  <1> DEFINE off == TakenOff
             more == off \union {b}
  <1>13. b \notin off /\ off \in SUBSET Objects /\ refs \in Tables /\ locals \in [Objects -> Nat]
    BY <1>1, <1>5, <1>7, TypeFacts DEF Of
  <1>14. ASSUME NEW o \in Objects
         PROVE  /\ Left(refs, locals, more, o) \in Nat
                /\ Left(refs, locals, off, o)
                     = Left(refs, locals, more, o) + (IF TakesPart(o) THEN refs[b][o] ELSE 0)
    <2> DEFINE p == more
    <2>1. p = off \union {b}
      OBVIOUS
    <2> HIDE DEF p, off
    <2>2. /\ Left(refs, locals, p, o) \in Nat
          /\ Left(refs, locals, off, o) = Left(refs, locals, p, o) + (IF TakesPart(o) THEN refs[b][o] ELSE 0)
      BY <1>8, <1>13, <2>1, LeftStep
    <2> QED
      BY <2>1, <2>2
  <1>15. count' = [o \in Objects |-> IF TakesPart(o) THEN count[o] - refs[b][o] ELSE count[o]]
    BY <1>10 DEF TakeCounts
  <1>16. \A o \in heap : count'[o] = Left(refs, locals, more, o) /\ count'[o] \in Nat
    <2> TAKE o \in heap
    <2>1. o \in Objects /\ count[o] = Left(refs, locals, off, o) /\ refs[b][o] \in Nat
      BY <1>1, <1>4, <1>8, WalkIs DEF TypeOK
    <2> HIDE DEF more, off
    <2> QED
      BY <1>14, <1>15, <2>1
  <1>17. count' \in [Objects -> Nat]
    <2>1. \A o \in Objects \ heap : refs[b][o] = 0
      <3>1. NothingDangles /\ refs[b] \in [Objects -> 0 .. MaxRefs] /\ Gone = {}
        BY <1>1, <1>4, <1>8, WalkIs DEF Core, TypeOK
      <3> QED
        BY <1>8, <3>1 DEF NothingDangles, Names
    <2>2. \A o \in Objects \ heap : count'[o] = count[o] /\ count[o] \in Nat
      BY <1>1, <1>15, <2>1 DEF TypeOK
    <2> QED
      BY <1>15, <1>16, <2>2
  <1>18. TypeOK'
    <2>1. visited' \in Nat
      BY <1>1, <1>3 DEF TypeOK
    <2>2. stack' \subseteq Objects \X Hows /\ phase' # "idle"
      BY <1>3, <1>4, <1>12
    <2>3. /\ heap' \subseteq Objects /\ refs' \in [Objects -> [Objects -> 0 .. MaxRefs]]
          /\ locals' \in [Objects -> 0 .. MaxLocals]
          /\ running' \subseteq Frames /\ weak' \subseteq Targets /\ room' \subseteq Holders
          /\ draining' \in Seq(Objects) /\ roots' \in Seq(Objects \union {Gap}) /\ buffered' \subseteq Cyclic
          /\ candidates' \in Nat /\ dead' \in Nat /\ threshold' \in Nat /\ phase' \in Phases
          /\ at' \in 1 .. Len(roots') + 1
          /\ garbage' \subseteq Cyclic /\ later' \in [Objects -> Nat] /\ rooms' \subseteq Holders
      BY <1>1, <1>3 DEF TypeOK
    <2> HIDE DEF more, off
    <2> QED
      BY <1>11, <1>17, <2>1, <2>2, <2>3 DEF TypeOK
  <1>19. BufferExact'
    BY <1>3, <1>4, BufferStays
  <1>20. Marks(refs', roots', at', color', stack', garbage', later', rooms')
    <2>1. Cov(refs, RootsOf(roots, 1 .. at - 1), Of(color', "gray"))
      <3>1. /\ Of(color, "gray") \in SUBSET Objects /\ Of(color', "gray") \in SUBSET Objects
            /\ b \in Of(color, "gray")
        BY <1>6, <1>7 DEF Of
      <3> QED
        BY <1>6, <1>9, <1>11, <3>1, CovGrows
    <2>2. /\ \A o \in Of(color', "gray") : Enters(o)
          /\ In(stack', "mark") \subseteq Of(color', "gray") /\ Of(color', "white") = {}
      BY <1>6, <1>9, <1>11, <1>12
    <2> QED
      BY <1>3, <1>6, <1>12, <2>1, <2>2 DEF Marks
  <1>21. PhasesInv' /\ WalksInv' /\ TakenOff' = Of(color', "gray") \ In(stack', "mark")
    BY <1>3, <1>4, <1>5, <1>18, <1>20, MarksNext
  <1>22. TakenOff' = more
    BY <1>5, <1>6, <1>7, <1>9, <1>11, <1>12, <1>21
  <1>23. \A o \in heap : count'[o] = Left(refs, locals, TakenOff', o)
    <2> HIDE DEF more
    <2> QED
      BY <1>16, <1>22
  <1> QED
    BY <1>3, <1>4, <1>18, <1>19, <1>21, <1>23, WalkNext

LEMMA ScanRootKeeps == ASSUME Core, ScanRoot PROVE Core'
  <1> DEFINE n == Len(roots)
             s == roots[at]
  <1>1. TypeOK /\ PhasesInv /\ WalksInv /\ BufferExact
    BY DEF Core
  <1>2. /\ phase = "scan" /\ phase \in Walking /\ stack = {} /\ at <= n /\ ~ Skipped /\ at' = at + 1
        /\ stack' = {<<s, "scan">>} /\ UNCHANGED still
        /\ heap' = heap /\ refs' = refs /\ locals' = locals /\ running' = running /\ weak' = weak
        /\ room' = room /\ draining' = draining /\ threshold' = threshold
        /\ UNCHANGED buffer /\ roots' = roots /\ buffered' = buffered
        /\ candidates' = candidates /\ dead' = dead /\ color' = color
        /\ count' = count /\ phase' = phase /\ garbage' = garbage /\ later' = later /\ rooms' = rooms
        /\ visited' = visited
    BY DEF ScanRoot, AtRoot, Walking, still, program, buffer, words
  <1>3. n \in Nat /\ DOMAIN roots = 1 .. n /\ at \in 1 .. n /\ s \in Objects \union {Gap}
    BY <1>1, <1>2 DEF TypeOK
  <1>4. draining = <<>> /\ Scans(refs, roots, at, color, stack, garbage, later, rooms, count)
        /\ TakenOff = Painted(color) \union In(stack, "restore")
    BY <1>1, <1>2, ScansIs
  <1>5. s \in Objects /\ Enters(s)
    <2>1. s # Gap /\ TakesPart(s)
      BY <1>2 DEF Skipped
    <2>2. s \in InSeq(roots)
      BY <1>3 DEF InSeq
    <2> QED
      BY <1>1, <1>3, <2>1, <2>2 DEF BufferExact, Enters
  <1>6. RootsOf(roots, at .. n) = RootsOf(roots, at + 1 .. n) \union {s}
    <2> HIDE DEF n
    <2> QED
      BY <1>3, RootsStep
  <1>7. /\ stack' \subseteq Objects \X {"scan", "restore"} /\ In(stack', "scan") = {s}
        /\ In(stack', "restore") = {} /\ In(stack, "scan") = {} /\ In(stack, "restore") = {}
    BY <1>2, <1>5 DEF In
  <1>8. TypeOK'
    <2>1. at' \in 1 .. Len(roots') + 1 /\ stack' \subseteq Objects \X Hows
      BY <1>2, <1>3, <1>7 DEF Hows
    <2> QED
      BY <1>1, <1>2, <2>1 DEF TypeOK
  <1>9. BufferExact'
    BY <1>2, BufferStays
  <1>10. Cov(refs, RootsOf(roots, at + 1 .. n) \union In(stack', "scan")
                     \union HeldFrom(refs, In(stack', "restore")), Of(color, "gray"))
    <2>1. Cov(refs, RootsOf(roots, at .. n) \union In(stack, "scan")
                      \union HeldFrom(refs, In(stack, "restore")), Of(color, "gray"))
      BY <1>4 DEF Scans
    <2>2. RootsOf(roots, at .. n) \union In(stack, "scan") \union HeldFrom(refs, In(stack, "restore"))
            = RootsOf(roots, at + 1 .. n) \union In(stack', "scan") \union HeldFrom(refs, In(stack', "restore"))
      BY <1>6, <1>7
    <2> QED
      BY <2>1, <2>2
  <1>11. Scans(refs', roots', at', color', stack', garbage', later', rooms', count')
    <2>1. /\ \A o \in Painted(color) \union In(stack', "scan") \union In(stack', "restore") : Enters(o)
          /\ In(stack', "restore") \intersect Painted(color) = {}
          /\ garbage = {} /\ later = None /\ rooms = {}
          /\ \A o \in Of(color, "white") : count[o] = 0
          /\ Cov(refs, RootsOf(roots, DOMAIN roots) \union HeldFrom(refs, In(stack', "restore")), Painted(color))
      BY <1>4, <1>5, <1>7 DEF Scans
    <2> QED
      BY <1>2, <1>7, <1>10, <2>1 DEF Scans
  <1>12. PhasesInv' /\ WalksInv' /\ TakenOff' = TakenOff
    BY <1>2, <1>4, <1>7, <1>8, <1>11, ScansNext
  <1> QED
    BY <1>2, <1>8, <1>9, <1>12, WalkIs, WalkNext

LEMMA ScanKeeps == ASSUME Core, NEW b, Scan(b) PROVE Core'
  <1>1. TypeOK /\ PhasesInv /\ WalksInv /\ BufferExact
    BY DEF Core
  <1>2. /\ <<b, "scan">> \in stack /\ UNCHANGED still
        /\ heap' = heap /\ refs' = refs /\ locals' = locals /\ running' = running /\ weak' = weak
        /\ room' = room /\ draining' = draining /\ threshold' = threshold
        /\ UNCHANGED buffer /\ roots' = roots /\ buffered' = buffered
        /\ candidates' = candidates /\ dead' = dead /\ count' = count
        /\ phase' = phase /\ at' = at /\ garbage' = garbage /\ later' = later /\ rooms' = rooms
        /\ visited' = visited
    BY DEF Scan, still, program, buffer
  <1>3. phase = "scan" /\ phase \in Walking
    BY <1>1, <1>2 DEF PhasesInv, HowsOf, TypeOK, Phases, Walking
  <1>4. draining = <<>> /\ Scans(refs, roots, at, color, stack, garbage, later, rooms, count)
        /\ TakenOff = Painted(color) \union In(stack, "restore")
    BY <1>1, <1>3, ScansIs
  <1> DEFINE R == RootsOf(roots, DOMAIN roots)
             Q == RootsOf(roots, at .. Len(roots))
             gray == Of(color, "gray")
             white == Of(color, "white")
  <1>5. /\ stack \subseteq Objects \X {"scan", "restore"}
        /\ (\A o \in gray \union white \union In(stack, "scan") \union In(stack, "restore") : Enters(o))
        /\ In(stack, "restore") \intersect (gray \union white) = {}
        /\ garbage = {} /\ later = None /\ rooms = {}
        /\ (\A o \in white : count[o] = 0)
        /\ Cov(refs, R \union HeldFrom(refs, In(stack, "restore")), gray \union white)
        /\ Cov(refs, Q \union In(stack, "scan") \union HeldFrom(refs, In(stack, "restore")), gray)
        /\ Painted(color) = gray \union white /\ Painted(color') = Of(color', "gray") \union Of(color', "white")
        /\ gray \in SUBSET Objects /\ white \in SUBSET Objects /\ gray \intersect white = {}
    BY <1>4 DEF Scans, Painted, Of
  <1>6. b \in In(stack, "scan") /\ Enters(b) /\ b \in Objects
    BY <1>2, <1>5 DEF In
  <1>7. /\ Seen(b) = {refs[b]}
        /\ (\A o \in Entered(refs[b]) : o \in Objects /\ Enters(o) /\ refs[b][o] > 0)
        /\ (\A o \in Objects : refs[b][o] > 0 /\ TakesPart(o) => o \in Entered(refs[b]))
    BY <1>3, <1>6, SeenFacts
  \* It is enough that the step keeps what Scans says and takes nothing else off.
  <1>8. ASSUME color' \in Colorings, stack' \in SUBSET (Objects \X Hows),
               Scans(refs, roots, at, color', stack', garbage, later, rooms, count),
               Painted(color') \union In(stack', "restore") = Painted(color) \union In(stack, "restore")
        PROVE  Core'
    <2>1. color' \in [Objects -> {"black", "gray", "white"}]
      BY <1>8, ColorsAre
    <2>2. TypeOK'
      BY <1>1, <1>2, <1>3, <1>8, <2>1 DEF TypeOK
    <2>3. BufferExact'
      BY <1>2, <1>3, BufferStays
    <2>4. Scans(refs', roots', at', color', stack', garbage', later', rooms', count')
      BY <1>2, <1>8
    <2>5. PhasesInv' /\ WalksInv' /\ TakenOff' = Painted(color') \union In(stack', "restore")
      BY <1>2, <1>3, <1>4, <2>2, <2>4, ScansNext
    <2>6. TakenOff' = TakenOff
      BY <1>4, <1>8, <2>5
    <2> QED
      BY <1>2, <1>3, <2>2, <2>3, <2>5, <2>6, WalkIs, WalkNext
  <1>9. color \in Colorings /\ "black" \in Colors /\ "white" \in Colors /\ stack \in SUBSET (Objects \X Hows)
        /\ "scan" \in Hows /\ "restore" \in Hows
    BY <1>1, ColorsAre DEF TypeOK, Hows
  <1>10. CASE color[b] # "gray"
    <2>1. Walk(<<b, "scan">>, {}, "scan") /\ color' = color
      BY <1>10 DEF Scan
    <2>2. Working(stack, b, "scan", {}, "scan", stack')
      BY <1>9, <2>1 DEF Walk, Working
    <2>3. /\ stack' \in SUBSET (Objects \X Hows) /\ In(stack', "scan") = In(stack, "scan") \ {b}
          /\ In(stack', "restore") = In(stack, "restore")
      BY <2>2, WorkIs
    <2>4. stack' \subseteq Objects \X {"scan", "restore"}
      BY <1>5, <2>1 DEF Walk
    <2>5. Cov(refs, Q \union In(stack', "scan") \union HeldFrom(refs, In(stack', "restore")), gray)
      <3>1. (Q \union In(stack, "scan") \union HeldFrom(refs, In(stack, "restore"))) \intersect gray
               \subseteq Q \union In(stack', "scan") \union HeldFrom(refs, In(stack', "restore"))
        BY <1>10, <2>3 DEF Of
      <3> HIDE DEF Q, gray
      <3> QED
        BY <1>5, <3>1, CovShrinks
    <2>6. Scans(refs, roots, at, color', stack', garbage, later, rooms, count)
      BY <1>5, <2>1, <2>3, <2>4, <2>5 DEF Scans
    <2> QED
      BY <1>8, <1>9, <2>1, <2>3, <2>6
  <1>11. CASE color[b] = "gray" /\ HeldOutside(b)
    <2>1. Paint({b}, "black") /\ Walk(<<b, "scan">>, {b}, "restore")
      BY <1>11 DEF Scan
    <2>2. Painting(color, {b}, "black", color') /\ Working(stack, b, "scan", {b}, "restore", stack')
      BY <1>6, <1>9, <2>1 DEF Paint, Walk, Painting, Working
    <2>3. /\ color' \in Colorings
          /\ Of(color', "gray") = gray \ {b} /\ Of(color', "white") = white \ {b}
      BY <2>2, PaintIs
    <2>4. /\ stack' \in SUBSET (Objects \X Hows) /\ In(stack', "scan") = In(stack, "scan") \ {b}
          /\ In(stack', "restore") = In(stack, "restore") \union {b}
      BY <2>2, WorkIs
    <2>5. stack' \subseteq Objects \X {"scan", "restore"}
      BY <1>5, <1>6, <2>1 DEF Walk
    <2>6. b \in gray /\ b \notin white /\ Of(color', "white") = white
      BY <1>5, <1>6, <1>11, <2>3 DEF Of
    <2>7. HeldFrom(refs, In(stack', "restore"))
            = HeldFrom(refs, In(stack, "restore")) \union {o \in Objects : refs[b][o] > 0}
      BY <2>4 DEF HeldFrom
    <2> HIDE DEF R, Q, gray, white
    <2>8. Cov(refs, R \union HeldFrom(refs, In(stack', "restore")), Of(color', "gray") \union Of(color', "white"))
      <3> DEFINE N == gray \union white
                 M == Of(color', "gray") \union Of(color', "white")
                 A == R \union HeldFrom(refs, In(stack, "restore"))
                 B == R \union HeldFrom(refs, In(stack', "restore"))
      <3>1. N \in SUBSET Objects /\ M \in SUBSET N /\ M = N \ {b} /\ A \intersect M \subseteq B
            /\ \A p \in N, o \in M : p \notin M /\ refs[p][o] > 0 => o \in B
        BY <1>5, <2>3, <2>6, <2>7
      <3>2. Cov(refs, A, N)
        BY <1>5
      <3> HIDE DEF N, M, A, B
      <3>3. Cov(refs, B, M)
        BY <3>1, <3>2, CovShrinks
      <3> QED
        BY <3>3 DEF B, M
    <2>9. Cov(refs, Q \union In(stack', "scan") \union HeldFrom(refs, In(stack', "restore")), Of(color', "gray"))
      <3> DEFINE M == Of(color', "gray")
                 A == Q \union In(stack, "scan") \union HeldFrom(refs, In(stack, "restore"))
                 B == Q \union In(stack', "scan") \union HeldFrom(refs, In(stack', "restore"))
      <3>1. gray \in SUBSET Objects /\ M \in SUBSET gray /\ M = gray \ {b} /\ A \intersect M \subseteq B
            /\ \A p \in gray, o \in M : p \notin M /\ refs[p][o] > 0 => o \in B
        BY <1>5, <2>3, <2>4, <2>7
      <3>2. Cov(refs, A, gray)
        BY <1>5
      <3> HIDE DEF M, A, B
      <3>3. Cov(refs, B, M)
        BY <3>1, <3>2, CovShrinks
      <3> QED
        BY <3>3 DEF B, M
    <2>10. Scans(refs, roots, at, color', stack', garbage, later, rooms, count)
      <3>1. /\ \A o \in Painted(color') \union In(stack', "scan") \union In(stack', "restore") : Enters(o)
            /\ In(stack', "restore") \intersect Painted(color') = {}
            /\ \A o \in Of(color', "white") : count[o] = 0
        BY <1>5, <1>6, <2>3, <2>4, <2>6
      <3> QED
        BY <1>5, <2>5, <2>8, <2>9, <3>1 DEF Scans, R, Q
    <2>11. Painted(color') \union In(stack', "restore") = Painted(color) \union In(stack, "restore")
      BY <1>5, <2>3, <2>4, <2>6
    <2> QED
      BY <1>8, <2>3, <2>4, <2>10, <2>11
  <1>12. CASE color[b] = "gray" /\ ~ HeldOutside(b)
    <2> DEFINE next == Entered(refs[b])
    <2>1. Paint({b}, "white") /\ Walk(<<b, "scan">>, next, "scan")
      BY <1>7, <1>12 DEF Scan
    <2>2. next \in SUBSET Objects
      BY <1>7
    <2>3. Painting(color, {b}, "white", color') /\ Working(stack, b, "scan", next, "scan", stack')
      <3> HIDE DEF next
      <3> QED
        BY <1>6, <1>9, <2>1, <2>2 DEF Paint, Walk, Painting, Working
    <2> HIDE DEF next
    <2>4. /\ color' \in Colorings
          /\ Of(color', "gray") = gray \ {b} /\ Of(color', "white") = white \union {b}
      BY <2>3, PaintIs
    <2>5. /\ stack' \in SUBSET (Objects \X Hows) /\ In(stack', "scan") = (In(stack, "scan") \ {b}) \union next
          /\ In(stack', "restore") = In(stack, "restore")
      BY <2>3, WorkOn
    <2>6. stack' \subseteq Objects \X {"scan", "restore"}
      BY <1>5, <2>1, <2>2 DEF Walk
    <2>7. b \in gray /\ count[b] = 0
      <3>1. count[b] \in Nat
        BY <1>1, <1>6 DEF TypeOK
      <3> QED
        BY <1>6, <1>12, <3>1 DEF Of, HeldOutside
    <2>8. \A o \in gray : refs[b][o] > 0 => o \in next
      BY <1>5, <1>7 DEF next, Enters
    <2>9. Painted(color') = Painted(color)
      BY <1>5, <2>4, <2>7
    <2> HIDE DEF R, Q, gray, white
    <2>10. Cov(refs, Q \union In(stack', "scan") \union HeldFrom(refs, In(stack', "restore")), Of(color', "gray"))
      <3> DEFINE M == Of(color', "gray")
                 A == Q \union In(stack, "scan") \union HeldFrom(refs, In(stack, "restore"))
                 B == Q \union In(stack', "scan") \union HeldFrom(refs, In(stack', "restore"))
      <3>1. gray \in SUBSET Objects /\ M \in SUBSET gray /\ M = gray \ {b} /\ A \intersect M \subseteq B
            /\ \A p \in gray, o \in M : p \notin M /\ refs[p][o] > 0 => o \in B
        BY <1>5, <2>4, <2>5, <2>8
      <3>2. Cov(refs, A, gray)
        BY <1>5
      <3> HIDE DEF M, A, B
      <3>3. Cov(refs, B, M)
        BY <3>1, <3>2, CovShrinks
      <3> QED
        BY <3>3 DEF B, M
    <2>11. Scans(refs, roots, at, color', stack', garbage, later, rooms, count)
      <3>1. \A o \in next : Enters(o)
        BY <1>7 DEF next
      <3>2. /\ \A o \in Painted(color') \union In(stack', "scan") \union In(stack', "restore") : Enters(o)
            /\ In(stack', "restore") \intersect Painted(color') = {}
            /\ \A o \in Of(color', "white") : count[o] = 0
        BY <1>5, <2>4, <2>5, <2>7, <2>9, <3>1
      <3>3. Cov(refs, R \union HeldFrom(refs, In(stack', "restore")), Painted(color'))
        BY <1>5, <2>5, <2>9
      <3> QED
        BY <1>5, <2>6, <2>10, <3>2, <3>3 DEF Scans, R, Q
    <2> QED
      BY <1>8, <2>4, <2>5, <2>9, <2>11
  <1> QED
    BY <1>10, <1>11, <1>12

LEMMA RestoreKeeps == ASSUME Core, NEW b, Restore(b) PROVE Core'
  <1>1. TypeOK /\ PhasesInv /\ WalksInv /\ BufferExact
    BY DEF Core
  <1>2. /\ <<b, "restore">> \in stack /\ UNCHANGED still
        /\ heap' = heap /\ refs' = refs /\ locals' = locals /\ running' = running /\ weak' = weak
        /\ room' = room /\ draining' = draining /\ threshold' = threshold
        /\ UNCHANGED buffer /\ roots' = roots /\ buffered' = buffered
        /\ candidates' = candidates /\ dead' = dead
        /\ phase' = phase /\ at' = at /\ garbage' = garbage /\ later' = later /\ rooms' = rooms
        /\ visited' = visited
    BY DEF Restore, still, program, buffer
  <1>3. phase = "scan" /\ phase \in Walking
    BY <1>1, <1>2 DEF PhasesInv, HowsOf, TypeOK, Phases, Walking
  <1>4. draining = <<>> /\ Scans(refs, roots, at, color, stack, garbage, later, rooms, count)
        /\ TakenOff = Painted(color) \union In(stack, "restore")
    BY <1>1, <1>3, ScansIs
  <1> DEFINE R == RootsOf(roots, DOMAIN roots)
             Q == RootsOf(roots, at .. Len(roots))
             gray == Of(color, "gray")
             white == Of(color, "white")
             held == In(stack, "restore")
             fresh == NotBlack(refs[b])
  <1>5. /\ stack \subseteq Objects \X {"scan", "restore"}
        /\ (\A o \in gray \union white \union In(stack, "scan") \union held : Enters(o))
        /\ held \intersect (gray \union white) = {}
        /\ garbage = {} /\ later = None /\ rooms = {}
        /\ (\A o \in white : count[o] = 0)
        /\ Cov(refs, R \union HeldFrom(refs, held), gray \union white)
        /\ Cov(refs, Q \union In(stack, "scan") \union HeldFrom(refs, held), gray)
        /\ Painted(color) = gray \union white /\ Painted(color') = Of(color', "gray") \union Of(color', "white")
        /\ gray \in SUBSET Objects /\ white \in SUBSET Objects
    BY <1>4 DEF Scans, Painted, Of
  <1>6. b \in held /\ Enters(b) /\ b \in Objects /\ b \notin gray \union white
    BY <1>2, <1>5 DEF In
  <1>7. /\ Seen(b) = {refs[b]} /\ (\A o \in Objects : refs[b][o] \in Nat)
        /\ (\A o \in Entered(refs[b]) : o \in Objects /\ Enters(o) /\ refs[b][o] > 0)
        /\ (\A o \in Objects : refs[b][o] > 0 /\ TakesPart(o) => o \in Entered(refs[b]))
    BY <1>3, <1>6, SeenFacts
  <1>8. GiveCounts(refs[b]) /\ Paint(fresh, "black") /\ Walk(<<b, "restore">>, fresh, "restore")
    BY <1>7 DEF Restore
  <1>9. /\ fresh \in SUBSET (gray \union white) /\ fresh \in SUBSET Objects
        /\ (\A o \in fresh : Enters(o))
        /\ \A o \in gray \union white : refs[b][o] > 0 => o \in fresh
    <2>1. color \in [Objects -> {"black", "gray", "white"}]
      BY <1>1 DEF TypeOK
    <2>2. \A o \in gray \union white : TakesPart(o) /\ o \in Objects /\ color[o] # "black"
      BY <1>5 DEF Enters, Of
    <2>3. \A o \in fresh : o \in Objects /\ Enters(o) /\ color[o] \in {"gray", "white"}
      BY <1>7, <2>1 DEF NotBlack
    <2>4. \A o \in gray \union white : refs[b][o] > 0 => o \in fresh
      BY <1>7, <2>2 DEF NotBlack
    <2> QED
      BY <2>3, <2>4 DEF Of
  <1> HIDE DEF fresh
  <1>10. /\ Painting(color, fresh, "black", color')
         /\ Working(stack, b, "restore", fresh, "restore", stack')
    <2>1. color \in Colorings /\ "black" \in Colors /\ "restore" \in Hows /\ stack \in SUBSET (Objects \X Hows)
      BY <1>1, ColorsAre DEF Hows, TypeOK
    <2> QED
      BY <1>8, <1>9, <2>1 DEF Paint, Walk, Painting, Working
  <1>11. /\ color' \in Colorings /\ color' \in [Objects -> {"black", "gray", "white"}]
         /\ Of(color', "gray") = gray \ fresh /\ Of(color', "white") = white \ fresh
    <2>1. /\ color' \in Colorings
          /\ Of(color', "gray") = gray \ fresh /\ Of(color', "white") = white \ fresh
      BY <1>10, PaintIs
    <2> QED
      BY <2>1, ColorsAre
  <1>12. /\ stack' \in SUBSET (Objects \X Hows) /\ In(stack', "scan") = In(stack, "scan")
         /\ In(stack', "restore") = (held \ {b}) \union fresh
    BY <1>10, WorkOn
  <1>13. stack' \subseteq Objects \X {"scan", "restore"}
    BY <1>5, <1>9, <1>10 DEF Working
  <1>14. HeldFrom(refs, In(stack', "restore"))
           = HeldFrom(refs, held \ {b}) \union {o \in Objects : \E p \in fresh : refs[p][o] > 0}
         /\ HeldFrom(refs, held) = HeldFrom(refs, held \ {b}) \union {o \in Objects : refs[b][o] > 0}
    BY <1>6, <1>12 DEF HeldFrom
  <1> HIDE DEF R, Q, gray, white, held
  <1>15. Cov(refs, R \union HeldFrom(refs, In(stack', "restore")), Of(color', "gray") \union Of(color', "white"))
    <2> DEFINE N == gray \union white
               M == Of(color', "gray") \union Of(color', "white")
               A == R \union HeldFrom(refs, held)
               B == R \union HeldFrom(refs, In(stack', "restore"))
    <2>1. N \in SUBSET Objects /\ M \in SUBSET N /\ M = N \ fresh /\ A \intersect M \subseteq B
          /\ \A p \in N, o \in M : p \notin M /\ refs[p][o] > 0 => o \in B
      BY <1>5, <1>9, <1>11, <1>14
    <2>2. Cov(refs, A, N)
      BY <1>5
    <2> HIDE DEF N, M, A, B
    <2>3. Cov(refs, B, M)
      BY <2>1, <2>2, CovShrinks
    <2> QED
      BY <2>3 DEF B, M
  <1>16. Cov(refs, Q \union In(stack', "scan") \union HeldFrom(refs, In(stack', "restore")), Of(color', "gray"))
    <2> DEFINE M == Of(color', "gray")
               A == Q \union In(stack, "scan") \union HeldFrom(refs, held)
               B == Q \union In(stack', "scan") \union HeldFrom(refs, In(stack', "restore"))
    <2>1. gray \in SUBSET Objects /\ M \in SUBSET gray /\ M = gray \ fresh /\ A \intersect M \subseteq B
          /\ \A p \in gray, o \in M : p \notin M /\ refs[p][o] > 0 => o \in B
      BY <1>5, <1>9, <1>11, <1>12, <1>14
    <2>2. Cov(refs, A, gray)
      BY <1>5
    <2> HIDE DEF M, A, B
    <2>3. Cov(refs, B, M)
      BY <2>1, <2>2, CovShrinks
    <2> QED
      BY <2>3 DEF B, M
  <1>17. count' = [o \in Objects |-> IF TakesPart(o) THEN count[o] + refs[b][o] ELSE count[o]]
         /\ count' \in [Objects -> Nat]
    <2>1. \A o \in Objects : count[o] \in Nat /\ refs[b][o] \in Nat
      BY <1>1, <1>7 DEF TypeOK
    <2>2. count' = [o \in Objects |-> IF TakesPart(o) THEN count[o] + refs[b][o] ELSE count[o]]
      BY <1>8 DEF GiveCounts
    <2>3. \A o \in Objects : (IF TakesPart(o) THEN count[o] + refs[b][o] ELSE count[o]) \in Nat
      BY <2>1
    <2> QED
      BY <2>2, <2>3
  <1>18. \A o \in Of(color', "white") : count'[o] = 0
    <2> TAKE o \in Of(color', "white")
    <2>1. o \in white /\ o \in Objects /\ o \notin fresh /\ count[o] = 0
      BY <1>5, <1>11
    <2>2. refs[b][o] = 0
      BY <1>7, <1>9, <2>1
    <2> QED
      BY <1>17, <2>1, <2>2
  <1>19. TypeOK'
    BY <1>1, <1>2, <1>3, <1>11, <1>12, <1>17 DEF TypeOK
  <1>20. BufferExact'
    BY <1>2, <1>3, BufferStays
  <1>21. Scans(refs', roots', at', color', stack', garbage', later', rooms', count')
    <2>1. /\ \A o \in Painted(color') \union In(stack', "scan") \union In(stack', "restore") : Enters(o)
          /\ In(stack', "restore") \intersect Painted(color') = {}
      BY <1>5, <1>9, <1>11, <1>12
    <2>2. Scans(refs, roots, at, color', stack', garbage, later, rooms, count')
      BY <1>5, <1>13, <1>15, <1>16, <1>18, <2>1 DEF Scans, R, Q
    <2> QED
      BY <1>2, <2>2
  <1>22. PhasesInv' /\ WalksInv' /\ TakenOff' = Painted(color') \union In(stack', "restore")
    BY <1>2, <1>3, <1>4, <1>19, <1>21, ScansNext
  <1> DEFINE off == TakenOff
             less == TakenOff'
  <1>23. b \notin less /\ off = less \union {b} /\ less \in SUBSET Objects
         /\ refs \in Tables /\ locals \in [Objects -> Nat]
    <2>1. off = gray \union white \union held
      BY <1>4, <1>5 DEF held
    <2>2. less = (gray \ fresh) \union (white \ fresh) \union ((held \ {b}) \union fresh)
      BY <1>5, <1>11, <1>12, <1>22
    <2>3. held \in SUBSET Objects
      BY DEF held, In
    <2> HIDE DEF off, less
    <2> QED
      BY <1>1, <1>5, <1>6, <1>9, <2>1, <2>2, <2>3, TypeFacts
  <1>24. \A o \in heap : count'[o] = Left(refs, locals, TakenOff', o)
    <2> TAKE o \in heap
    <2>1. o \in Objects /\ count[o] = Left(refs, locals, off, o) /\ refs[b][o] \in Nat
      BY <1>1, <1>3, <1>7, WalkIs DEF TypeOK
    <2> HIDE DEF off, less
    <2>2. /\ Left(refs, locals, off, o) \in Nat
          /\ Left(refs, locals, less, o) = Left(refs, locals, off, o) + (IF TakesPart(o) THEN refs[b][o] ELSE 0)
      BY <1>6, <1>23, <2>1, LeftStep
    <2>3. count'[o] = Left(refs, locals, less, o)
      BY <1>17, <2>1, <2>2
    <2> QED
      BY <2>3 DEF less
  <1> QED
    BY <1>2, <1>3, <1>19, <1>20, <1>22, <1>24, WalkNext

LEMMA CollectRootKeeps == ASSUME Core, CollectRoot PROVE Core'
  <1> DEFINE n == Len(roots)
             s == roots[at]
             white == Of(color, "white")
  <1>1. TypeOK /\ PhasesInv /\ WalksInv /\ BufferExact
    BY DEF Core
  <1>2. /\ phase = "collect" /\ phase \in Walking /\ stack = {} /\ at <= n /\ ~ Skipped
        /\ DropRoot(at) /\ at' = at + 1 /\ UNCHANGED still
        /\ heap' = heap /\ refs' = refs /\ locals' = locals /\ running' = running /\ weak' = weak
        /\ room' = room /\ draining' = draining /\ threshold' = threshold
        /\ count' = count /\ phase' = phase /\ later' = later /\ rooms' = rooms
        /\ visited' = visited
    BY DEF CollectRoot, AtRoot, Walking, still, program
  <1>3. n \in Nat /\ DOMAIN roots = 1 .. n /\ at \in 1 .. n /\ s \in Objects \union {Gap}
    BY <1>1, <1>2 DEF TypeOK
  <1>4. draining = <<>> /\ Collects(refs, roots, at, color, stack, garbage, later, rooms, count)
        /\ TakenOff = white \union garbage
    BY <1>1, <1>2, CollectsIs
  <1>5. s # Gap /\ TakesPart(s) /\ s \in Objects /\ Enters(s) /\ s \in Cyclic
    <2>1. s # Gap /\ TakesPart(s)
      BY <1>2 DEF Skipped
    <2>2. s \in InSeq(roots)
      BY <1>3 DEF InSeq
    <2> QED
      BY <1>1, <1>3, <2>1, <2>2 DEF BufferExact, Enters, TakesPart
  <1>6. /\ BufferExact' /\ roots' \in Seq(Objects \union {Gap}) /\ Len(roots') = n
        /\ roots'[at] = Gap /\ (\A j \in DOMAIN roots : j # at => roots'[j] = roots[j])
        /\ candidates' \in Nat /\ buffered' \subseteq Cyclic /\ dead' \in Nat
    BY <1>2, <1>3, <1>5, DropRootKeeps
  <1>7. /\ In(stack, "collect") = {}
        /\ (\A o \in white \union garbage : Enters(o) /\ count[o] = 0)
        /\ Of(color, "gray") = {} /\ (\A o \in garbage : color[o] = "black")
        /\ (\A i \in 1 .. at - 1 : roots[i] = Gap \/ ~ TakesPart(roots[i]))
        /\ (\A o \in Objects : later[o] = IF TakesPart(o) THEN 0 ELSE From(refs, garbage \ {}, o))
        /\ rooms = Holders \intersect (garbage \ {})
        /\ Cov(refs, RootsOf(roots, at .. n) \union {}, white)
        /\ white \in SUBSET Objects
    <2>1. In(stack, "collect") = {} /\ HeldFrom(refs, In(stack, "collect")) = {}
      BY <1>2 DEF In, HeldFrom
    <2> QED
      BY <1>4, <2>1 DEF Collects, Of
  \* The entries of the steps before have been dropped, and so is this one.
  <1>8. /\ \A i \in 1 .. at' - 1 : roots'[i] = Gap \/ ~ TakesPart(roots'[i])
        /\ RootsOf(roots', at' .. n) = RootsOf(roots, at + 1 .. n)
        /\ RootsOf(roots, at .. n) = RootsOf(roots, at + 1 .. n) \union {s}
    <2>1. \A i \in 1 .. at' - 1 : roots'[i] = Gap \/ ~ TakesPart(roots'[i])
      <3>1. \A i \in 1 .. at' - 1 : i = at \/ (i \in 1 .. at - 1 /\ i \in DOMAIN roots /\ i # at)
        BY <1>2, <1>3
      <3> QED
        BY <1>6, <1>7, <3>1
    <2>2. RootsOf(roots', at' .. n) = RootsOf(roots, at + 1 .. n)
      <3>1. \A j \in at + 1 .. n : roots'[j] = roots[j]
        BY <1>3, <1>6
      <3> QED
        BY <1>2, <3>1 DEF RootsOf
    <2>3. RootsOf(roots, at .. n) = RootsOf(roots, at + 1 .. n) \union {s}
      <3> HIDE DEF n
      <3> QED
        BY <1>3, RootsStep
    <2> QED
      BY <2>1, <2>2, <2>3
  \* It is enough that the step moves white objects to the garbage alone.
  <1>9. ASSUME color' \in [Objects -> {"black", "gray", "white"}], stack' \subseteq Objects \X {"collect"},
               garbage' \subseteq Cyclic,
               Collects(refs, roots', at', color', stack', garbage', later, rooms, count),
               Of(color', "white") \union garbage' = white \union garbage
        PROVE  Core'
    <2>1. TypeOK'
      <3>1. at' \in 1 .. Len(roots') + 1 /\ stack' \subseteq Objects \X Hows /\ phase' # "idle"
        BY <1>2, <1>3, <1>6, <1>9 DEF Hows
      <3> QED
        BY <1>1, <1>2, <1>6, <1>9, <3>1 DEF TypeOK
    <2>2. Collects(refs', roots', at', color', stack', garbage', later', rooms', count')
      BY <1>2, <1>9
    <2>3. PhasesInv' /\ WalksInv' /\ TakenOff' = Of(color', "white") \union garbage'
      BY <1>2, <1>4, <2>1, <2>2, CollectsNext
    <2>4. TakenOff' = TakenOff
      BY <1>4, <1>9, <2>3
    <2> QED
      BY <1>2, <1>6, <2>1, <2>3, <2>4, WalkIs, WalkNext
  <1> HIDE DEF white
  <1>10. CASE color[s] = "white"
    <2>1. Paint({s}, "black") /\ garbage' = garbage \union {s} /\ stack' = {<<s, "collect">>}
      BY <1>10 DEF CollectRoot
    <2>2. /\ color' \in Colorings /\ Of(color', "gray") = {} /\ Of(color', "white") = white \ {s}
          /\ \A o \in Objects : color'[o] = IF o \in {s} THEN "black" ELSE color[o]
      <3>1. Painting(color, {s}, "black", color')
        BY <1>1, <1>5, <2>1, ColorsAre DEF Paint, Painting
      <3> HIDE DEF s
      <3>2. Of(color', "gray") = Of(color, "gray") \ {s} /\ Of(color', "white") = Of(color, "white") \ {s}
            /\ color' \in Colorings /\ \A o \in Objects : color'[o] = IF o \in {s} THEN "black" ELSE color[o]
        BY <3>1, PaintIs
      <3> QED
        BY <1>7, <3>2 DEF white
    <2>3. s \in white /\ s \notin garbage
      BY <1>5, <1>7, <1>10 DEF white, Of
    <2>4. stack' \subseteq Objects \X {"collect"} /\ In(stack', "collect") = {s}
          /\ garbage' \ In(stack', "collect") = garbage \ {}
      BY <1>5, <2>1, <2>3 DEF In
    <2>5. HeldFrom(refs, In(stack', "collect")) = {o \in Objects : refs[s][o] > 0}
      BY <2>4 DEF HeldFrom
    <2>6. Cov(refs, RootsOf(roots', at' .. n) \union HeldFrom(refs, In(stack', "collect")), Of(color', "white"))
      <3> DEFINE M == Of(color', "white")
                 A == RootsOf(roots, at .. n) \union {}
                 B == RootsOf(roots', at' .. n) \union HeldFrom(refs, In(stack', "collect"))
      <3>1. white \in SUBSET Objects /\ M \in SUBSET white /\ M = white \ {s} /\ A \intersect M \subseteq B
            /\ \A p \in white, o \in M : p \notin M /\ refs[p][o] > 0 => o \in B
        BY <1>7, <1>8, <2>2, <2>5
      <3>2. Cov(refs, A, white)
        BY <1>7
      <3> HIDE DEF M, A, B
      <3>3. Cov(refs, B, M)
        BY <3>1, <3>2, CovShrinks
      <3> QED
        BY <3>3 DEF B, M
    <2>7. Collects(refs, roots', at', color', stack', garbage', later, rooms, count)
      <3>1. /\ \A o \in Of(color', "white") \union garbage' : Enters(o) /\ count[o] = 0
            /\ In(stack', "collect") \subseteq garbage'
        BY <1>7, <2>1, <2>2, <2>3, <2>4
      <3>2. \A o \in garbage' : color'[o] = "black"
        <4>1. \A o \in garbage : o \in Objects
          BY <1>1, Kinds DEF TypeOK
        <4> QED
          BY <1>5, <1>7, <2>1, <2>2, <4>1
      <3>3. /\ \A o \in Objects : later[o] = IF TakesPart(o) THEN 0 ELSE From(refs, garbage' \ In(stack', "collect"), o)
            /\ rooms = Holders \intersect (garbage' \ In(stack', "collect"))
        BY <1>7, <2>4
      <3> QED
        BY <1>6, <1>8, <2>2, <2>4, <2>6, <3>1, <3>2, <3>3 DEF Collects
    <2>8. garbage' \subseteq Cyclic /\ Of(color', "white") \union garbage' = white \union garbage
      BY <1>1, <1>5, <2>1, <2>2, <2>3 DEF TypeOK
    <2> QED
      BY <1>9, <2>2, <2>4, <2>7, <2>8, ColorsAre
  <1>11. CASE color[s] # "white"
    <2>1. color' = color /\ garbage' = garbage /\ stack' = stack
      BY <1>11 DEF CollectRoot
    <2>2. s \notin white
      BY <1>11 DEF white, Of
    <2>3. Cov(refs, RootsOf(roots', at' .. n) \union {}, white)
      <3> DEFINE A == RootsOf(roots, at .. n) \union {}
                 B == RootsOf(roots', at' .. n) \union {}
      <3>1. A \intersect white \subseteq B
        BY <1>8, <2>2
      <3>2. Cov(refs, A, white)
        BY <1>7
      <3> HIDE DEF A, B
      <3>3. Cov(refs, B, white)
        BY <1>7, <3>1, <3>2, CovShrinks
      <3> QED
        BY <3>3 DEF B
    <2>4. In(stack', "collect") = {} /\ HeldFrom(refs, In(stack', "collect")) = {} /\ Of(color', "white") = white
      BY <1>7, <2>1 DEF HeldFrom, white
    <2>5. Collects(refs, roots', at', color', stack', garbage', later, rooms, count)
      <3>1. stack' \subseteq Objects \X {"collect"}
        BY <1>2, <2>1
      <3> QED
        BY <1>6, <1>7, <1>8, <2>1, <2>3, <2>4, <3>1 DEF Collects
    <2> QED
      BY <1>1, <1>2, <1>9, <2>1, <2>4, <2>5 DEF TypeOK
  <1> QED
    BY <1>10, <1>11

LEMMA CollectKeeps == ASSUME Core, NEW b, Collect(b) PROVE Core'
  <1>1. TypeOK /\ PhasesInv /\ WalksInv /\ BufferExact
    BY DEF Core
  <1>2. /\ <<b, "collect">> \in stack /\ UNCHANGED still
        /\ heap' = heap /\ refs' = refs /\ locals' = locals /\ running' = running /\ weak' = weak
        /\ room' = room /\ draining' = draining /\ threshold' = threshold
        /\ UNCHANGED buffer /\ roots' = roots /\ buffered' = buffered
        /\ candidates' = candidates /\ dead' = dead /\ count' = count
        /\ phase' = phase /\ at' = at /\ visited' = visited
        /\ rooms' = rooms \union ({b} \intersect room)
    BY DEF Collect, GiveRoomUp, still, program, buffer
  <1>3. phase = "collect" /\ phase \in Walking
    BY <1>1, <1>2 DEF PhasesInv, HowsOf, TypeOK, Phases, Walking
  <1>4. draining = <<>> /\ Collects(refs, roots, at, color, stack, garbage, later, rooms, count)
        /\ TakenOff = Of(color, "white") \union garbage
    BY <1>1, <1>3, CollectsIs
  <1> DEFINE Q == RootsOf(roots, at .. Len(roots))
             white == Of(color, "white")
             held == In(stack, "collect")
             fresh == {o \in Entered(refs[b]) : color[o] = "white"}
  <1>5. /\ stack \subseteq Objects \X {"collect"}
        /\ (\A o \in white \union garbage : Enters(o) /\ count[o] = 0)
        /\ held \subseteq garbage /\ Of(color, "gray") = {} /\ (\A o \in garbage : color[o] = "black")
        /\ (\A i \in 1 .. at - 1 : roots[i] = Gap \/ ~ TakesPart(roots[i]))
        /\ (\A o \in Objects : later[o] = IF TakesPart(o) THEN 0 ELSE From(refs, garbage \ held, o))
        /\ rooms = Holders \intersect (garbage \ held)
        /\ Cov(refs, Q \union HeldFrom(refs, held), white)
        /\ white \in SUBSET Objects /\ (\A o \in white : color[o] = "white")
    BY <1>4 DEF Collects, Of
  <1>6. b \in held /\ b \in garbage /\ Enters(b) /\ b \in Objects
    BY <1>2, <1>5 DEF In
  <1>7. /\ Seen(b) = {refs[b]} /\ (\A o \in Objects : refs[b][o] \in Nat)
        /\ (\A o \in Entered(refs[b]) : o \in Objects /\ Enters(o) /\ refs[b][o] > 0)
        /\ (\A o \in Objects : refs[b][o] > 0 /\ TakesPart(o) => o \in Entered(refs[b]))
    BY <1>3, <1>6, SeenFacts
  <1>8. /\ Paint(fresh, "black") /\ garbage' = garbage \union fresh
        /\ later' = [o \in Objects |-> IF TakesPart(o) THEN later[o] ELSE later[o] + refs[b][o]]
        /\ Walk(<<b, "collect">>, fresh, "collect")
    BY <1>7 DEF Collect
  <1>9. /\ fresh \in SUBSET white /\ fresh \in SUBSET Objects
        /\ fresh \intersect garbage = {} /\ fresh \subseteq Cyclic
        /\ \A o \in white : refs[b][o] > 0 => o \in fresh
    <2>1. \A o \in white : TakesPart(o) /\ o \in Objects /\ color[o] = "white"
      BY <1>5 DEF Enters
    <2>2. \A o \in fresh : o \in Objects /\ Enters(o) /\ color[o] = "white"
      BY <1>7
    <2>3. \A o \in fresh : o \in white /\ o \notin garbage /\ o \in Cyclic
      BY <1>5, <2>2 DEF Of, Enters, TakesPart
    <2>4. \A o \in white : refs[b][o] > 0 => o \in fresh
      BY <1>7, <2>1
    <2> HIDE DEF fresh
    <2> QED
      BY <2>2, <2>3, <2>4
  <1> HIDE DEF fresh
  <1>10. /\ Painting(color, fresh, "black", color')
         /\ Working(stack, b, "collect", fresh, "collect", stack')
    <2>1. color \in Colorings /\ "black" \in Colors /\ "collect" \in Hows /\ stack \in SUBSET (Objects \X Hows)
      BY <1>1, ColorsAre DEF Hows, TypeOK
    <2> QED
      BY <1>8, <1>9, <2>1 DEF Paint, Walk, Painting, Working
  <1>11. /\ color' \in Colorings /\ color' \in [Objects -> {"black", "gray", "white"}]
         /\ Of(color', "gray") = {} /\ Of(color', "white") = white \ fresh
         /\ \A o \in Objects : color'[o] = IF o \in fresh THEN "black" ELSE color[o]
    <2>1. /\ color' \in Colorings
          /\ Of(color', "gray") = Of(color, "gray") \ fresh /\ Of(color', "white") = white \ fresh
          /\ \A o \in Objects : color'[o] = IF o \in fresh THEN "black" ELSE color[o]
      BY <1>10, PaintIs
    <2> QED
      BY <1>5, <2>1, ColorsAre
  <1>12. /\ stack' \in SUBSET (Objects \X Hows)
         /\ In(stack', "collect") = (held \ {b}) \union fresh
    BY <1>10, WorkOn
  <1>13. stack' \subseteq Objects \X {"collect"}
    BY <1>5, <1>9, <1>10 DEF Working
  <1>14. HeldFrom(refs, In(stack', "collect"))
           = HeldFrom(refs, held \ {b}) \union {o \in Objects : \E p \in fresh : refs[p][o] > 0}
         /\ HeldFrom(refs, held) = HeldFrom(refs, held \ {b}) \union {o \in Objects : refs[b][o] > 0}
    BY <1>6, <1>12 DEF HeldFrom
  <1> HIDE DEF Q, white, held
  <1>15. Cov(refs, Q \union HeldFrom(refs, In(stack', "collect")), Of(color', "white"))
    <2> DEFINE M == Of(color', "white")
               A == Q \union HeldFrom(refs, held)
               B == Q \union HeldFrom(refs, In(stack', "collect"))
    <2>1. white \in SUBSET Objects /\ M \in SUBSET white /\ M = white \ fresh /\ A \intersect M \subseteq B
          /\ \A p \in white, o \in M : p \notin M /\ refs[p][o] > 0 => o \in B
      BY <1>5, <1>9, <1>11, <1>14
    <2>2. Cov(refs, A, white)
      BY <1>5
    <2> HIDE DEF M, A, B
    <2>3. Cov(refs, B, M)
      BY <2>1, <2>2, CovShrinks
    <2> QED
      BY <2>3 DEF B, M
  \* What the traced garbage held: b's references and room are new to it.
  <1> DEFINE traced == garbage \ held
             next == garbage' \ In(stack', "collect")
  <1>16. /\ traced \in SUBSET Objects /\ next \in SUBSET Objects /\ b \in next /\ next \ {b} = traced
         /\ next = traced \union {b}
    <2>1. garbage \subseteq Objects
      BY <1>1, Kinds DEF TypeOK
    <2> QED
      BY <1>5, <1>6, <1>8, <1>9, <1>12, <2>1
  <1> HIDE DEF traced, next
  <1>17. /\ refs \in Tables /\ \A o \in Objects : later[o] \in Nat
    BY <1>1, TypeFacts DEF TypeOK
  <1>18. /\ \A o \in Objects : later'[o] = IF TakesPart(o) THEN later[o] ELSE later[o] + refs[b][o]
         /\ later' \in [Objects -> Nat]
    <2>1. \A o \in Objects : (IF TakesPart(o) THEN later[o] ELSE later[o] + refs[b][o]) \in Nat
      BY <1>7, <1>17
    <2> QED
      BY <1>8, <2>1
  <1>19. \A o \in Objects : later'[o] = IF TakesPart(o) THEN 0 ELSE From(refs, next, o)
    <2> TAKE o \in Objects
    <2>1. CASE TakesPart(o)
      BY <1>5, <1>18, <2>1
    <2>2. CASE ~ TakesPart(o)
      <3>1. later[o] = From(refs, traced, o)
        BY <1>5, <2>2 DEF traced
      <3>2. From(refs, next, o) = From(refs, next \ {b}, o) + refs[b][o]
        BY <1>16, <1>17, FromWithout
      <3> QED
        BY <1>16, <1>18, <2>2, <3>1, <3>2
    <2> QED
      BY <2>1, <2>2
  <1>20. rooms' = Holders \intersect next /\ rooms' \subseteq Holders
    <2>1. RoomsFollowHolders /\ Gone = {} /\ room \subseteq Holders /\ b \in heap
      BY <1>1, <1>3, <1>6, WalkIs DEF Core, TypeOK, Enters
    <2>2. b \in room <=> b \in Holders
      BY <2>1 DEF RoomsFollowHolders
    <2>3. rooms = Holders \intersect traced
      BY <1>5 DEF traced
    <2> QED
      BY <1>2, <1>16, <2>2, <2>3
  <1>21. TypeOK'
    <2>1. garbage' \subseteq Cyclic /\ phase' # "idle"
      BY <1>1, <1>2, <1>3, <1>8, <1>9 DEF TypeOK
    <2> QED
      BY <1>1, <1>2, <1>11, <1>12, <1>18, <1>20, <2>1 DEF TypeOK
  <1>22. BufferExact'
    BY <1>2, <1>3, BufferStays
  <1>23. Of(color', "white") \union garbage' = white \union garbage
    BY <1>8, <1>9, <1>11
  <1>24. Collects(refs', roots', at', color', stack', garbage', later', rooms', count')
    <2>1. /\ \A o \in Of(color', "white") \union garbage' : Enters(o) /\ count[o] = 0
          /\ In(stack', "collect") \subseteq garbage'
      BY <1>5, <1>8, <1>12, <1>23
    <2>2. \A o \in garbage' : color'[o] = "black"
      <3>1. \A o \in garbage : o \in Objects
        BY <1>1, Kinds DEF TypeOK
      <3> QED
        BY <1>5, <1>8, <1>9, <1>11, <3>1
    <2>3. /\ \A o \in Objects : later'[o] = IF TakesPart(o) THEN 0 ELSE From(refs, garbage' \ In(stack', "collect"), o)
          /\ rooms' = Holders \intersect (garbage' \ In(stack', "collect"))
      BY <1>19, <1>20 DEF next
    <2>4. Collects(refs, roots, at, color', stack', garbage', later', rooms', count)
      BY <1>5, <1>11, <1>13, <1>15, <2>1, <2>2, <2>3 DEF Collects, Q
    <2> QED
      BY <1>2, <2>4
  <1>25. PhasesInv' /\ WalksInv' /\ TakenOff' = Of(color', "white") \union garbage'
    BY <1>2, <1>3, <1>4, <1>21, <1>24, CollectsNext
  <1>26. TakenOff' = TakenOff
    BY <1>4, <1>23, <1>25 DEF white
  <1>27. \A o \in Objects : later'[o] > 0 => later[o] > 0 \/ \E p \in Objects : refs[p][o] > 0
    <2>1. \A o \in Objects : later[o] \in Nat /\ refs[b][o] \in Nat
      BY <1>7, <1>17
    <2> QED
      BY <1>6, <1>18, <2>1
  <1>28. \A o \in heap : count'[o] = Left(refs, locals, TakenOff', o)
    BY <1>2, <1>3, <1>26, WalkIs
  <1> QED
    BY <1>2, <1>3, <1>21, <1>22, <1>25, <1>27, <1>28, WalkNext

LEMMA NextWalkKeeps == ASSUME Core, NextWalk PROVE Core'
  <1> DEFINE n == Len(roots)
  <1>1. TypeOK /\ PhasesInv /\ WalksInv /\ BufferExact
    BY DEF Core
  <1>2. /\ UNCHANGED still /\ at' = 1 /\ stack = {} /\ at > n
        /\ \/ phase = "mark" /\ phase' = "scan"
           \/ phase = "scan" /\ phase' = "collect"
        /\ heap' = heap /\ refs' = refs /\ locals' = locals /\ running' = running /\ weak' = weak
        /\ room' = room /\ draining' = draining /\ threshold' = threshold
        /\ count' = count /\ color' = color /\ UNCHANGED buffer
        /\ roots' = roots /\ buffered' = buffered /\ candidates' = candidates /\ dead' = dead
        /\ stack' = stack /\ garbage' = garbage /\ later' = later /\ rooms' = rooms /\ visited' = visited
    BY DEF NextWalk, AtEnd, still, program, words, buffer
  <1>3. n \in Nat /\ DOMAIN roots = 1 .. n /\ at = n + 1 /\ phase \in Walking /\ phase' \in Walking
    <2>1. n \in Nat /\ DOMAIN roots = 1 .. n /\ at \in 1 .. n + 1
      BY <1>1 DEF TypeOK
    <2> HIDE DEF n
    <2> QED
      BY <1>2, <2>1 DEF Walking
  <1>4. \A how : In(stack, how) = {} /\ HeldFrom(refs, In(stack, how)) = {}
    BY <1>2 DEF In, HeldFrom
  <1>5. TypeOK'
    <2>1. phase' \in Phases /\ phase' # "idle" /\ at' \in 1 .. Len(roots') + 1
      BY <1>2, <1>3 DEF Phases
    <2> QED
      BY <1>1, <1>2, <2>1 DEF TypeOK
  <1>6. BufferExact'
    BY <1>2, <1>3, BufferStays
  <1>7. Of(color, "gray") \in SUBSET Objects /\ Of(color, "white") \in SUBSET Objects /\ refs \in Tables
    BY <1>1, TypeFacts DEF Of
  <1>8. (PhasesInv' /\ WalksInv' /\ TakenOff' = TakenOff) => Core'
    BY <1>2, <1>3, <1>5, <1>6, WalkIs, WalkNext
  <1>9. CASE phase = "mark" /\ phase' = "scan"
    <2>1. draining = <<>> /\ Marks(refs, roots, at, color, stack, garbage, later, rooms)
          /\ TakenOff = Of(color, "gray") \ In(stack, "mark")
      BY <1>1, <1>9, MarksIs
    <2>2. /\ (\A o \in Of(color, "gray") : Enters(o)) /\ Of(color, "white") = {}
          /\ garbage = {} /\ later = None /\ rooms = {}
          /\ Cov(refs, RootsOf(roots, 1 .. at - 1), Of(color, "gray"))
          /\ Painted(color) = Of(color, "gray")
      BY <2>1 DEF Marks, Painted
    <2>3. 1 .. at - 1 = DOMAIN roots /\ 1 .. Len(roots) = DOMAIN roots
      BY <1>3
    <2>4. Cov(refs, RootsOf(roots, DOMAIN roots) \union {}, Of(color, "gray"))
          /\ Cov(refs, RootsOf(roots, 1 .. Len(roots)) \union {} \union {}, Of(color, "gray"))
      <3>1. Cov(refs, RootsOf(roots, DOMAIN roots), Of(color, "gray"))
        BY <2>2, <2>3
      <3> QED
        BY <2>3, <3>1
    <2>5. Scans(refs, roots, 1, color, stack, garbage, later, rooms, count)
      BY <1>2, <1>4, <2>2, <2>4 DEF Scans
    <2>6. Scans(refs', roots', at', color', stack', garbage', later', rooms', count')
      BY <1>2, <2>5
    <2>7. PhasesInv' /\ WalksInv' /\ TakenOff' = Painted(color') \union In(stack', "restore")
      BY <1>2, <1>5, <1>9, <2>1, <2>6, ScansNext
    <2>8. TakenOff' = TakenOff
      BY <1>2, <1>4, <2>1, <2>2, <2>7
    <2> QED
      BY <1>8, <2>7, <2>8
  <1>10. CASE phase = "scan" /\ phase' = "collect"
    <2>1. draining = <<>> /\ Scans(refs, roots, at, color, stack, garbage, later, rooms, count)
          /\ TakenOff = Painted(color) \union In(stack, "restore")
      BY <1>1, <1>10, ScansIs
    <2>2. /\ (\A o \in Painted(color) : Enters(o))
          /\ garbage = {} /\ later = None /\ rooms = {}
          /\ (\A o \in Of(color, "white") : count[o] = 0)
          /\ Cov(refs, RootsOf(roots, DOMAIN roots) \union {}, Painted(color))
          /\ Cov(refs, RootsOf(roots, at .. n) \union {} \union {}, Of(color, "gray"))
      BY <1>4, <2>1 DEF Scans
    <2>3. RootsOf(roots, at .. n) = {} /\ 1 .. n = DOMAIN roots
      BY <1>3 DEF RootsOf
    \* Nothing is left of the entries, so the walk has met every gray object.
    <2>4. Of(color, "gray") = {}
      <3>1. ({} \union {} \union {}) \intersect Of(color, "gray") = {}
            /\ Cov(refs, {} \union {} \union {}, Of(color, "gray"))
        BY <2>2, <2>3
      <3> QED
        BY <1>7, <3>1, CovNone
    <2>5. Painted(color) = Of(color, "white")
      BY <2>4 DEF Painted
    <2>6. Cov(refs, RootsOf(roots, 1 .. Len(roots)) \union {}, Of(color, "white"))
      BY <2>2, <2>3, <2>5
    <2>7. \A o \in Objects : From(refs, {} \ {}, o) = 0
      <3> TAKE o \in Objects
      <3>1. ({} \ {}) \in SUBSET Objects /\ \A p \in {} \ {} : refs[p][o] = 0
        OBVIOUS
      <3> QED
        BY <1>7, <3>1, FromZero
    <2>8. Collects(refs, roots, 1, color, stack, garbage, later, rooms, count)
      <3>1. \A o \in Of(color, "white") \union garbage : Enters(o) /\ count[o] = 0
        BY <2>2, <2>5
      <3>2. \A o \in Objects : later[o] = IF TakesPart(o) THEN 0 ELSE From(refs, garbage \ {}, o)
        BY <2>2, <2>7 DEF None
      <3>3. rooms = Holders \intersect (garbage \ {}) /\ stack \subseteq Objects \X {"collect"}
            /\ \A i \in 1 .. 1 - 1 : roots[i] = Gap \/ ~ TakesPart(roots[i])
        BY <1>2, <2>2
      <3> QED
        BY <1>4, <2>2, <2>4, <2>6, <3>1, <3>2, <3>3 DEF Collects
    <2>9. Collects(refs', roots', at', color', stack', garbage', later', rooms', count')
      BY <1>2, <2>8
    <2>10. PhasesInv' /\ WalksInv' /\ TakenOff' = Of(color', "white") \union garbage'
      BY <1>2, <1>5, <1>10, <2>1, <2>9, CollectsNext
    <2>11. TakenOff' = TakenOff
      BY <1>2, <1>4, <2>1, <2>2, <2>5, <2>10
    <2> QED
      BY <1>8, <2>10, <2>11
  <1> QED
    BY <1>2, <1>9, <1>10

\* The sweep frees the candidates without a count, and no other object.
LEMMA SweepKeeps ==
  ASSUME Core, Idle, NEW next \in {"mark", "idle"}, SweepThen(next),
         UNCHANGED <<program, words, weak, room, draining, stack, garbage, later, rooms, threshold>>
  PROVE  Core'
  <1> DEFINE S == Swept \union {Gap}
             A == Objects \union {Gap}
  <1>1. /\ TypeOK /\ CountsExact /\ BufferExact /\ RoomsFollowHolders
        /\ NothingDangles /\ PhasesInv /\ WalksInv
    BY DEF Core
  <1>2. /\ heap' = heap \ Swept /\ roots' = Without(roots, S) /\ candidates' = Len(roots')
        /\ dead' = 0 /\ buffered' = buffered \ Swept /\ phase' = next /\ at' = 1 /\ visited' = 0
        /\ refs' = refs /\ locals' = locals /\ running' = running /\ count' = count /\ color' = color
        /\ weak' = weak /\ room' = room /\ draining' = draining /\ stack' = stack
        /\ garbage' = garbage /\ later' = later /\ rooms' = rooms /\ threshold' = threshold
    BY DEF SweepThen, program, words
  <1>3. phase = "idle" /\ phase \in Quiet /\ draining = <<>> /\ InSeq(draining) = {} /\ InSeq(draining') = {}
        /\ CountGone = Swept /\ Gone = Swept
    <2>1. phase = "idle" /\ draining = <<>>
      BY DEF Idle
    <2>2. InSeq(draining) = {} /\ InSeq(draining') = {}
      BY <1>2, <2>1 DEF InSeq
    <2> QED
      BY <2>1, <2>2 DEF Gone, CountGone, Quiet
  <1>4. /\ stack = {} /\ at = 1 /\ color = [o \in Objects |-> "black"]
        /\ garbage = {} /\ later = None /\ rooms = {}
    BY <1>1, <1>3, QuietIs
  <1>5. /\ roots' \in Seq(A) /\ Len(roots') \in Nat /\ InSeq(roots') = InSeq(roots) \ S
        /\ \A i, j \in 1 .. Len(roots') : roots'[i] = roots'[j] => i = j
    <2>1. roots \in Seq(A) /\ \A i, j \in 1 .. Len(roots) : roots[i] = roots[j] /\ roots[i] \notin S => i = j
      BY <1>1 DEF TypeOK, BufferExact
    <2> HIDE DEF S, A
    <2> QED
      BY <1>2, <2>1, WithoutFacts
  <1>6. IsFiniteSet(InSeq(roots')) /\ Cardinality(InSeq(roots')) = Len(roots')
    BY <1>5, LenIsCardinality
  <1>7. InSeq(roots') = buffered' /\ Gap \notin InSeq(roots') /\ InSeq(roots)' = InSeq(roots')
    <2>1. InSeq(roots') = buffered \ Swept /\ Gap \notin InSeq(roots')
      BY <1>1, <1>5 DEF BufferExact
    <2> QED
      BY <1>2, <2>1 DEF InSeq
  <1>8. CountGone' = {} /\ Gone' = {}
    <2>1. Swept' = {}
      BY <1>2 DEF Swept
    <2>2. CountGone' = {} /\ InSeq(draining)' = {}
      BY <1>3, <2>1 DEF CountGone, InSeq
    <2> QED
      BY <2>2 DEF Gone
  <1>9. TypeOK'
    <2>1. /\ candidates' \in Nat /\ dead' \in Nat /\ visited' \in Nat
          /\ phase' \in Phases /\ at' \in 1 .. Len(roots') + 1 /\ roots' \in Seq(Objects \union {Gap})
          /\ heap' \subseteq Objects /\ buffered' \subseteq Cyclic
      BY <1>1, <1>2, <1>5 DEF TypeOK, Phases
    <2> QED
      BY <1>1, <1>2, <1>4, <2>1 DEF TypeOK
  <1>10. BufferExact'
    <2>1. buffered' \subseteq heap' /\ dead' = Cardinality(CountGone') /\ candidates' = Cardinality(buffered')
      BY <1>1, <1>2, <1>6, <1>7, <1>8, FS_EmptySet DEF BufferExact
    <2> QED
      BY <1>5, <1>7, <2>1 DEF BufferExact
  <1>11. RoomsFollowHolders'
    <2>1. room \intersect Swept = {} /\ room \ heap = {} /\ (heap \intersect Holders) \ Swept \subseteq room
      BY <1>1, <1>3, <1>4 DEF PhasesInv, RoomsFollowHolders
    <2> QED
      BY <1>2, <1>4, <1>8, <2>1 DEF RoomsFollowHolders
  <1>12. NothingDangles'
    <2>1. \A o \in Objects : Names(o)' => o \in heap' \ Gone'
      BY <1>1, <1>2, <1>3, <1>8 DEF NothingDangles, Names
    <2>2. \A p \in Objects \ (heap' \ CountGone') : refs'[p] = None'
      BY <1>1, <1>2, <1>3, <1>8 DEF NothingDangles, None
    <2>3. draining' = <<>> /\ InSeq(draining)' = {}
      BY <1>2, <1>3 DEF InSeq
    <2>4. \A f \in running' : locals'[f] > 0
      BY <1>1, <1>2 DEF NothingDangles
    <2> QED
      BY <2>1, <2>2, <2>3, <2>4 DEF NothingDangles
  <1>13. ASSUME NEW o \in heap' PROVE count'[o] = Owed(refs', locals', later', o)
    BY <1>2, <1>3, <1>13, QuietCounts
  <1>14. CASE next = "idle"
    BY <1>2, <1>3, <1>4, <1>8, <1>9, <1>10, <1>11, <1>12, <1>13, <1>14, QuietNext DEF Quiet, None
  <1>15. CASE next = "mark"
    <2>1. /\ NotBlackYet' = {} /\ Colored("gray")' = {} /\ Colored("white")' = {}
          /\ Entries("mark")' = {} /\ Entries("restore")' = {} /\ Entries("collect")' = {}
      BY <1>2, <1>4 DEF NotBlackYet, Colored, Entries
    <2>2. PhasesInv'
      BY <1>2, <1>3, <1>4, <1>8, <1>15, <2>1 DEF PhasesInv, None
    <2>3. WalksInv'
      BY <1>2, <1>15, <2>1 DEF WalksInv, Covers
    <2>4. TakenOff' = {}
      BY <1>2, <1>4, <1>9 DEF TakenOff, TypeOK
    <2>5. ASSUME NEW o \in heap' PROVE count'[o] = Left(refs', locals', TakenOff', o)
      <3>1. o \in Objects /\ locals'[o] \in Nat /\ later'[o] = 0
        BY <1>2, <1>4, <1>9, Sizes DEF TypeOK, None
      <3>2. From(refs', Objects, o) \in Nat /\ Objects \ {} = Objects
        BY FromNat
      <3>3. Owed(refs', locals', later', o) = locals'[o] + From(refs', Objects, o)
        BY <3>1, <3>2 DEF Owed
      <3>4. Left(refs', locals', {}, o) = locals'[o] + From(refs', Objects, o)
        BY <3>2 DEF Left
      <3> QED
        BY <1>13, <2>4, <3>3, <3>4
    <2>6. InSeq(draining)' = {} /\ phase' \in Walking /\ \A o \in heap' : TakesPart(o)' = TakesPart(o)
      BY <1>2, <1>3, <1>15 DEF InSeq, Walking, TakesPart
    <2>7. CountsExact'
      BY <1>9, <1>12, <2>2, <2>5, <2>6, WalkCountsNext
    <2> QED
      BY <1>9, <1>10, <1>11, <1>12, <2>2, <2>3, <2>7 DEF Core
  <1> QED
    BY <1>14, <1>15

LEMMA CollectsStart == ASSUME Core, PollCollects \/ AllocCollects PROVE Core'
  <1>1. /\ Idle
        /\ SweepThen("mark") \/ SweepThen("idle")
        /\ UNCHANGED <<program, words, weak, room, draining, stack, garbage, later, rooms, threshold>>
    BY DEF PollCollects, AllocCollects
  <1> QED
    BY <1>1, SweepKeeps

\* The walks have met every object with a color, so the garbage is complete
\* and nothing outside it refers to it.
LEMMA GarbageIs ==
  ASSUME Core, AtEnd("collect")
  PROVE  /\ (\A o \in garbage : Enters(o) /\ count[o] = 0)
         /\ Of(color, "gray") = {} /\ (\A i \in 1 .. Len(roots) : roots[i] = Gap \/ ~ TakesPart(roots[i]))
         /\ (\A o \in Objects : later[o] = IF TakesPart(o) THEN 0 ELSE From(refs, garbage, o))
         /\ rooms = Holders \intersect garbage
         /\ Of(color, "white") = {} /\ garbage \in SUBSET Objects /\ garbage \subseteq heap
         /\ TakenOff = garbage
         /\ \A o \in garbage : locals[o] = 0 /\ later[o] = 0 /\ \A p \in Objects \ garbage : refs[p][o] = 0
  <1> DEFINE n == Len(roots)
             H == Objects \ garbage
  <1>1. TypeOK /\ PhasesInv /\ WalksInv
    BY DEF Core
  <1>2. phase = "collect" /\ phase \in Walking /\ stack = {} /\ at > n
    BY DEF AtEnd, Walking
  <1>3. /\ n \in Nat /\ at - 1 = n /\ DOMAIN roots = 1 .. n /\ at .. n = {}
        /\ In(stack, "collect") = {} /\ HeldFrom(refs, In(stack, "collect")) = {}
    <2>1. n \in Nat /\ DOMAIN roots = 1 .. n /\ at \in 1 .. n + 1
      BY <1>1 DEF TypeOK
    <2>2. In(stack, "collect") = {} /\ HeldFrom(refs, In(stack, "collect")) = {}
      BY <1>2 DEF In, HeldFrom
    <2> HIDE DEF n
    <2> QED
      BY <1>2, <2>1, <2>2
  <1>4. /\ draining = <<>> /\ InSeq(draining) = {} /\ CountGone = {} /\ Gone = {}
        /\ Collects(refs, roots, at, color, stack, garbage, later, rooms, count)
        /\ \A o \in heap : count[o] = Left(refs, locals, TakenOff, o)
        /\ TakenOff = Of(color, "white") \union garbage
    BY <1>1, <1>2, WalkIs, CollectsIs
  <1>5. /\ (\A o \in garbage : Enters(o) /\ count[o] = 0)
        /\ Of(color, "gray") = {} /\ (\A i \in 1 .. n : roots[i] = Gap \/ ~ TakesPart(roots[i]))
        /\ (\A o \in Objects : later[o] = IF TakesPart(o) THEN 0 ELSE From(refs, garbage, o))
        /\ rooms = Holders \intersect garbage
        /\ Of(color, "white") = {}
    <2>1. Cov(refs, {} \union {}, Of(color, "white")) /\ Of(color, "white") \in SUBSET Objects
      <3>1. RootsOf(roots, at .. n) = {}
        BY <1>3 DEF RootsOf
      <3> QED
        BY <1>3, <1>4, <3>1 DEF Collects, Of
    <2>2. Of(color, "white") = {}
      BY <2>1, CovNone
    <2>3. garbage \ {} = garbage
      OBVIOUS
    <2> QED
      BY <1>3, <1>4, <2>2, <2>3 DEF Collects
  <1>6. garbage \in SUBSET Objects /\ garbage \subseteq heap /\ TakenOff = garbage /\ H \in SUBSET Objects
    BY <1>1, <1>4, <1>5, TypeFacts DEF Enters
  <1>7. \A o \in Objects : locals[o] \in Nat /\ later[o] \in Nat /\ count[o] \in Nat
        /\ From(refs, H, o) \in Nat /\ From(refs, garbage, o) \in Nat /\ refs \in Tables
    BY <1>1, <1>6, TypeFacts, FromNat
  <1>8. ASSUME NEW o \in garbage
         PROVE  locals[o] = 0 /\ later[o] = 0 /\ \A p \in H : refs[p][o] = 0
    <2>1. o \in Objects /\ o \in heap /\ TakesPart(o) /\ count[o] = 0
      BY <1>5, <1>6 DEF Enters
    <2>2. count[o] = locals[o] + From(refs, H, o)
      BY <1>4, <1>6, <2>1 DEF Left
    <2> HIDE DEF H
    <2>3. locals[o] = 0 /\ From(refs, H, o) = 0
      <3>1. locals[o] \in Nat /\ From(refs, H, o) \in Nat
        BY <1>7, <2>1
      <3> QED
        BY <2>1, <2>2, <3>1
    <2>4. \A p \in H : refs[p][o] = 0
      BY <1>6, <1>7, <2>1, <2>3, FromZero
    <2> QED
      BY <1>5, <2>1, <2>3, <2>4
  <1> QED
    BY <1>5, <1>6, <1>8

LEMMA EndCollectKeeps == ASSUME Core, EndCollect PROVE Core'
  <1> DEFINE n == Len(roots)
             H == Objects \ garbage
  <1>1. /\ TypeOK /\ CountsExact /\ BufferExact /\ RoomsFollowHolders
        /\ NothingDangles /\ PhasesInv /\ WalksInv
    BY DEF Core
  <1>2. /\ phase = "collect" /\ phase \in Walking /\ stack = {} /\ at > n
        /\ phase' = "later" /\ at' = 1 /\ Free(garbage) /\ AtEnd("collect") /\ weak' = weak \ garbage
        /\ refs' = [p \in Objects |-> IF p \in garbage THEN None ELSE refs[p]]
        /\ locals' = locals /\ color' = color /\ running' = running /\ room' = room
        /\ draining' = draining /\ roots' = roots /\ buffered' = buffered /\ candidates' = candidates
        /\ threshold' = threshold /\ stack' = stack /\ garbage' = garbage /\ later' = later
        /\ rooms' = rooms /\ visited' = visited
    BY DEF EndCollect, AtEnd, ClearWeak, Walking
  <1>3. n \in Nat /\ DOMAIN roots = 1 .. n
    BY <1>1 DEF TypeOK
  <1>4. /\ draining = <<>> /\ InSeq(draining) = {} /\ CountGone = {} /\ Gone = {}
        /\ \A o \in heap : count[o] = Left(refs, locals, TakenOff, o)
    BY <1>2, WalkIs
  <1>5. /\ (\A o \in garbage : Enters(o) /\ count[o] = 0)
        /\ Of(color, "gray") = {} /\ (\A i \in 1 .. n : roots[i] = Gap \/ ~ TakesPart(roots[i]))
        /\ (\A o \in Objects : later[o] = IF TakesPart(o) THEN 0 ELSE From(refs, garbage, o))
        /\ rooms = Holders \intersect garbage
        /\ Of(color, "white") = {}
    BY <1>2, GarbageIs
  <1>6. garbage \in SUBSET Objects /\ garbage \subseteq heap /\ TakenOff = garbage /\ H \in SUBSET Objects
    BY <1>2, GarbageIs
  <1>7. color = [o \in Objects |-> "black"]
    <2>1. color \in [Objects -> {"black", "gray", "white"}] /\ \A o \in Objects : color[o] = "black"
      BY <1>1, <1>5 DEF TypeOK, Of
    <2> QED
      BY <2>1
  <1>8. \A o \in Objects : locals[o] \in Nat /\ later[o] \in Nat /\ count[o] \in Nat
        /\ From(refs, H, o) \in Nat /\ From(refs, garbage, o) \in Nat /\ refs \in Tables
    BY <1>1, <1>6, TypeFacts, FromNat
  \* A candidate that is left takes no part: a frame that runs, and that
  \* whoever polls it holds.
  <1>9. \A o \in buffered : o \notin garbage /\ count[o] > 0 /\ o \in heap
    <2> TAKE o \in buffered
    <2>1. o \in heap /\ o \in Objects /\ o \in Cyclic /\ o # Gap
      BY <1>1, Kinds DEF BufferExact, TypeOK
    <2>2. PICK i \in 1 .. n : roots[i] = o
      <3>1. o \in InSeq(roots)
        BY <1>1, <2>1 DEF BufferExact
      <3> QED
        BY <3>1 DEF InSeq
    <2>3. ~ TakesPart(o)
      BY <1>5, <2>1, <2>2
    <2>4. o \notin garbage
      BY <1>5, <2>3 DEF Enters
    <2>5. locals[o] > 0
      BY <1>1, <2>1, <2>3 DEF TakesPart, NothingDangles
    <2>6. count[o] = locals[o] + From(refs, Objects, o) /\ From(refs, Objects, o) \in Nat
      BY <1>4, <2>1, <2>3, FromNat DEF Left
    <2> QED
      BY <1>8, <2>1, <2>4, <2>5, <2>6
  <1>10. /\ heap' = heap \ garbage /\ dead' = dead /\ count' \in [Objects -> Nat]
         /\ \A o \in Objects : count'[o] = count[o]
    <2>1. garbage \intersect buffered = {}
      BY <1>9
    <2>2. garbage \ buffered = garbage /\ Cardinality(garbage \intersect buffered) = 0 /\ dead \in Nat
      BY <1>1, <2>1, FS_EmptySet DEF TypeOK
    <2>3. \A o \in Objects : o \notin garbage \intersect buffered /\ count[o] \in Nat
      BY <1>8, <2>1
    <2> QED
      BY <1>2, <2>2, <2>3 DEF Free
  <1>11. CountGone' = {} /\ InSeq(draining') = {} /\ Gone' = {}
    <2>1. Swept' = {}
      <3>1. \A o \in buffered : count'[o] > 0
        BY <1>1, <1>9, <1>10, TypeFacts
      <3> QED
        BY <1>2, <3>1 DEF Swept
    <2>2. CountGone' = {} /\ InSeq(draining') = {} /\ InSeq(draining)' = {}
      BY <1>2, <1>4, <2>1 DEF CountGone, InSeq
    <2> QED
      BY <2>2 DEF Gone
  <1>12. ASSUME NEW o \in garbage
         PROVE  locals[o] = 0 /\ later[o] = 0 /\ \A p \in H : refs[p][o] = 0
    BY <1>2, <1>12, GarbageIs
  <1>13. /\ refs' \in Tables /\ (\A p \in garbage : refs'[p] = None) /\ (\A p \in H : refs'[p] = refs[p])
    <2>1. None \in [Objects -> 0 .. MaxRefs]
      BY Sizes DEF None
    <2> QED
      BY <1>2, <1>6, <1>8, <2>1 DEF Tables
  <1>14. TypeOK'
    <2>1. /\ heap' \subseteq Objects /\ refs' \in [Objects -> [Objects -> 0 .. MaxRefs]]
          /\ weak' \subseteq Targets /\ dead' \in Nat /\ phase' \in Phases /\ at' \in 1 .. Len(roots') + 1
      BY <1>1, <1>2, <1>3, <1>10, <1>13 DEF TypeOK, Phases, Tables
    <2> QED
      BY <1>1, <1>2, <1>7, <1>10, <2>1 DEF TypeOK
  <1>15. BufferExact'
    <2>1. buffered' \subseteq heap' /\ dead' = Cardinality(CountGone') /\ phase' # "idle"
      BY <1>1, <1>2, <1>4, <1>9, <1>10, <1>11 DEF BufferExact
    <2>2. InSeq(roots)' = InSeq(roots)
      BY <1>2 DEF InSeq
    <2> QED
      BY <1>1, <1>2, <2>1, <2>2 DEF BufferExact
  <1>16. RoomsFollowHolders'
    <2>1. (heap \intersect Holders) \ {} \subseteq room /\ room \subseteq Holders
      BY <1>1, <1>4 DEF RoomsFollowHolders, TypeOK
    <2>2. room \ heap \subseteq rooms
      BY <1>1 DEF RoomsFollowHolders
    <2> QED
      BY <1>2, <1>5, <1>6, <1>10, <1>11, <2>1, <2>2 DEF RoomsFollowHolders
  <1>17. NothingDangles'
    <2>1. ASSUME NEW o \in Objects, Names(o)' PROVE o \in heap' \ Gone'
      <3>1. o \notin garbage
        <4>1. o \in garbage => ~ (locals'[o] + later'[o] > 0) /\ o \notin weak'
          BY <1>2, <1>12
        <4>2. o \in garbage => \A p \in Objects : ~ (refs'[p][o] > 0)
          BY <1>12, <1>13, <2>1 DEF None
        <4> QED
          BY <2>1, <4>1, <4>2 DEF Names
      <3>2. Names(o)
        <4>1. \A p \in Objects : refs'[p][o] > 0 => refs[p][o] > 0
          BY <1>13 DEF None
        <4> QED
          BY <1>2, <2>1, <4>1 DEF Names
      <3> QED
        BY <1>1, <1>10, <1>11, <3>1, <3>2 DEF NothingDangles
    <2>2. \A p \in Objects \ (heap' \ CountGone') : refs'[p] = None'
      <3>1. \A p \in Objects \ heap : refs[p] = None
        BY <1>1, <1>4 DEF NothingDangles
      <3>2. None' = None
        BY DEF None
      <3> QED
        BY <1>10, <1>11, <1>13, <3>1, <3>2
    <2>3. draining' = <<>> /\ InSeq(draining)' = {}
      BY <1>2, <1>4 DEF InSeq
    <2>4. \A f \in running' : locals'[f] > 0
      BY <1>1, <1>2 DEF NothingDangles
    <2> QED
      BY <2>1, <2>2, <2>3, <2>4 DEF NothingDangles
  <1>18. ASSUME NEW o \in heap' PROVE count'[o] = Owed(refs', locals', later', o)
    <2>1. o \in Objects /\ o \in heap /\ count'[o] = Left(refs, locals, garbage, o)
      BY <1>1, <1>4, <1>6, <1>10, TypeFacts
    <2>2. From(refs', Objects, o) = From(refs, H, o)
      <3>1. From(refs', H, o) = From(refs, H, o)
        <4>1. \A p \in H : refs'[p][o] = refs[p][o]
          BY <1>13
        <4> HIDE DEF H
        <4> QED
          BY <4>1, FromSame
      <3>2. From(refs', H, o) = From(refs', Objects, o)
        <4>1. \A p \in Objects \ H : refs'[p] = None
          BY <1>13
        <4> HIDE DEF H
        <4> QED
          BY <1>6, <1>13, <2>1, <4>1, FromAllocated
      <3> QED
        BY <3>1, <3>2
    <2>3. From(refs, Objects, o) = From(refs, H, o) + From(refs, garbage, o)
      <3>1. Objects = H \union garbage /\ H \intersect garbage = {}
        BY <1>6
      <3> HIDE DEF H
      <3> QED
        BY <1>6, <3>1, FromUnion
    <2>4. locals[o] \in Nat /\ From(refs, H, o) \in Nat /\ From(refs, garbage, o) \in Nat
          /\ locals' = locals /\ later' = later
      BY <1>2, <1>8, <2>1
    <2>5. CASE TakesPart(o)
      BY <1>5, <2>1, <2>2, <2>4, <2>5 DEF Left, Owed
    <2>6. CASE ~ TakesPart(o)
      <3>1. later[o] = From(refs, garbage, o)
        BY <1>5, <2>1, <2>6
      <3>2. Left(refs, locals, garbage, o) = locals[o] + From(refs, Objects, o)
        BY <2>6 DEF Left
      <3> QED
        BY <2>1, <2>2, <2>3, <2>4, <3>1, <3>2 DEF Owed
    <2> QED
      BY <2>5, <2>6
  <1>19. /\ phase' \in Quiet /\ stack' = {} /\ color' = [x \in Objects |-> "black"] /\ phase' # "idle"
         /\ garbage' \intersect heap' = {} /\ (\A x \in garbage' : TakesPart(x)')
         /\ CountGone' \intersect room' = {}
    BY <1>2, <1>5, <1>7, <1>10, <1>11 DEF Quiet, Enters, TakesPart
  <1> QED
    BY <1>2, <1>14, <1>15, <1>16, <1>17, <1>18, <1>19, QuietNext

LEMMA FinishKeeps == ASSUME Core, Finish PROVE Core'
  <1>1. /\ TypeOK /\ CountsExact /\ BufferExact /\ RoomsFollowHolders
        /\ NothingDangles /\ PhasesInv /\ WalksInv
    BY DEF Core
  <1>2. /\ phase = "later" /\ draining = <<>> /\ later = None
        /\ room' = room \ rooms /\ rooms' = {} /\ garbage' = {} /\ roots' = NoGaps(roots)
        /\ candidates' = Len(roots') /\ threshold' = NewThreshold /\ phase' = "idle" /\ at' = 1
        /\ visited' = 0 /\ heap' = heap /\ refs' = refs /\ locals' = locals /\ running' = running
        /\ count' = count /\ color' = color /\ weak' = weak /\ draining' = draining
        /\ buffered' = buffered /\ dead' = dead /\ stack' = stack /\ later' = later
    BY DEF Finish, program, words
  <1>3. /\ stack = {} /\ color = [o \in Objects |-> "black"] /\ garbage \intersect heap = {}
        /\ InSeq(draining)' = InSeq(draining) /\ CountGone' = CountGone /\ Gone' = Gone
        /\ phase \in Quiet
    <2>1. phase \in Quiet
      BY <1>2 DEF Quiet
    <2>2. InSeq(draining)' = InSeq(draining) /\ CountGone' = CountGone
      BY <1>2 DEF InSeq, CountGone, Swept
    <2> QED
      BY <1>1, <2>1, <2>2, QuietIs DEF Gone
  <1>4. /\ Lists(roots', buffered) /\ Gap \notin InSeq(roots')
        /\ Len(roots') = Cardinality(buffered) /\ Len(roots') \in Nat
    <2>1. Lists(roots, buffered)
      BY <1>1, BufferIs
    <2> QED
      BY <1>2, <2>1, ListsNoGaps
  <1>5. threshold' \in Nat
    <2>1. threshold \in Nat /\ First \in Nat /\ Word \in Nat \ {0}
      BY <1>1, Sizes DEF TypeOK
    <2>2. threshold \div 2 \in Nat /\ (threshold * 2) % Word \in Nat
      BY <2>1
    <2> QED
      BY <1>2, <2>1, <2>2 DEF NewThreshold
  <1>6. TypeOK'
    <2>1. /\ roots' \in Seq(Objects \union {Gap}) /\ at' \in 1 .. Len(roots') + 1
          /\ candidates' \in Nat /\ phase' \in Phases /\ room' \subseteq Holders
      BY <1>1, <1>2, <1>4 DEF TypeOK, Lists, Phases
    <2> QED
      BY <1>1, <1>2, <1>3, <1>5, <2>1 DEF TypeOK
  <1>7. BufferExact'
    <2>1. InSeq(roots)' = InSeq(roots')
      BY DEF InSeq
    <2>2. buffered' \subseteq heap' /\ dead' = Cardinality(CountGone') /\ candidates' = Cardinality(buffered')
      BY <1>1, <1>2, <1>3, <1>4 DEF BufferExact
    <2> QED
      BY <1>2, <1>4, <2>1, <2>2 DEF BufferExact, Lists
  <1>8. RoomsFollowHolders'
    <2>1. rooms = garbage \intersect Holders /\ room \ heap \subseteq rooms
          /\ (heap \intersect Holders) \ Gone \subseteq room
      BY <1>1, <1>2 DEF RoomsFollowHolders
    <2> QED
      BY <1>2, <1>3, <2>1 DEF RoomsFollowHolders
  <1>9. NothingDangles'
    <2>1. \A o \in Objects : Names(o)' => o \in heap' \ Gone'
      BY <1>1, <1>2, <1>3 DEF NothingDangles, Names
    <2>2. \A p \in Objects \ (heap' \ CountGone') : refs'[p] = None'
      BY <1>1, <1>2, <1>3 DEF NothingDangles, None
    <2> QED
      BY <1>1, <1>2, <1>3, <2>1, <2>2 DEF NothingDangles
  <1>10. ASSUME NEW o \in heap' \ InSeq(draining') PROVE count'[o] = Owed(refs', locals', later', o)
    BY <1>2, <1>3, <1>10, QuietCounts
  <1>11. CountGone' \intersect room' = {} /\ later' = None'
    BY <1>1, <1>2, <1>3 DEF PhasesInv, None
  <1> QED
    BY <1>2, <1>3, <1>6, <1>7, <1>8, <1>9, <1>10, <1>11, QuietNext DEF Quiet

-----------------------------------------------------------------------------
(***************************************************************************)
(* The invariant.                                                          *)
(***************************************************************************)
LEMMA CoreStarts == Init => Core
  <1> SUFFICES ASSUME Init PROVE Core
    OBVIOUS
  <1>1. /\ heap = {} /\ refs = [p \in Objects |-> None] /\ locals = None /\ count = None
        /\ color = [o \in Objects |-> "black"] /\ running = {} /\ weak = {} /\ room = {}
        /\ draining = <<>> /\ roots = <<>> /\ buffered = {} /\ candidates = 0 /\ dead = 0
        /\ phase = "idle" /\ at = 1 /\ stack = {} /\ garbage = {} /\ later = None
        /\ rooms = {} /\ visited = 0 /\ threshold = First
    BY DEF Init
  <1>2. InSeq(draining) = {} /\ InSeq(roots) = {} /\ CountGone = {} /\ Gone = {}
    <2>1. InSeq(draining) = {} /\ InSeq(roots) = {} /\ CountGone = {}
      BY <1>1 DEF InSeq, CountGone, Swept
    <2> QED
      BY <2>1 DEF Gone
  <1>3. None \in [Objects -> Nat] /\ None \in [Objects -> 0 .. MaxRefs] /\ None \in [Objects -> 0 .. MaxLocals]
        /\ First \in Nat
    BY Sizes DEF None
  <1>4. TypeOK
    <2>1. <<>> \in Seq(Objects) /\ <<>> \in Seq(Objects \union {Gap}) /\ Len(<<>>) = 0
      OBVIOUS
    <2>2. at \in 1 .. Len(roots) + 1 /\ phase \in Phases
      BY <1>1, <2>1 DEF Phases
    <2>3. refs \in [Objects -> [Objects -> 0 .. MaxRefs]] /\ color \in [Objects -> {"black", "gray", "white"}]
      BY <1>1, <1>3
    <2> QED
      BY <1>1, <1>3, <2>1, <2>2, <2>3 DEF TypeOK
  <1>5. BufferExact
    BY <1>1, <1>2, FS_EmptySet DEF BufferExact
  <1>6. RoomsFollowHolders
    BY <1>1 DEF RoomsFollowHolders
  <1>7. NothingDangles
    <2>1. \A o \in Objects : ~ Names(o)
      BY <1>1 DEF Names, None
    <2> QED
      BY <1>1, <1>2, <2>1 DEF NothingDangles
  <1>8. CountsExact
    BY <1>1 DEF CountsExact
  <1>9. NotBlackYet = {} /\ (\A how : Entries(how) = {}) /\ Colored("white") = {} /\ Colored("gray") = {}
    BY <1>1 DEF NotBlackYet, Colored, Entries
  <1>10. PhasesInv
    BY <1>1, <1>2, <1>9 DEF PhasesInv
  <1>11. WalksInv
    BY <1>1 DEF WalksInv
  <1> QED
    BY <1>4, <1>5, <1>6, <1>7, <1>8, <1>10, <1>11 DEF Core

LEMMA CoreStays == Core /\ UNCHANGED vars => Core'
  <1> SUFFICES ASSUME Core, UNCHANGED vars PROVE Core'
    OBVIOUS
  <1>1. /\ TypeOK /\ CountsExact /\ BufferExact /\ RoomsFollowHolders
        /\ NothingDangles /\ PhasesInv /\ WalksInv
    BY DEF Core
  <1>2. /\ heap' = heap /\ refs' = refs /\ locals' = locals /\ running' = running /\ count' = count
        /\ color' = color /\ weak' = weak /\ room' = room /\ draining' = draining /\ roots' = roots
        /\ buffered' = buffered /\ candidates' = candidates /\ dead' = dead /\ phase' = phase
        /\ at' = at /\ stack' = stack /\ garbage' = garbage /\ later' = later /\ rooms' = rooms
        /\ visited' = visited /\ threshold' = threshold
    BY DEF vars, program, words, buffer, walk
  <1>3. TypeOK'
    BY <1>1, <1>2 DEF TypeOK
  <1>4. /\ CountGone' = CountGone /\ InSeq(draining)' = InSeq(draining) /\ InSeq(roots)' = InSeq(roots)
        /\ Gone' = Gone
    BY <1>2 DEF CountGone, Swept, InSeq, Gone
  <1>5. CountsExact'
    BY <1>1, <1>2 DEF CountsExact, InSeq, Held, Counting, TakesPart, TakenOff
  <1>6. BufferExact'
    BY <1>1, <1>2, <1>4 DEF BufferExact
  <1>7. RoomsFollowHolders'
    BY <1>1, <1>2, <1>4 DEF RoomsFollowHolders
  <1>8. NothingDangles'
    BY <1>1, <1>2, <1>4 DEF NothingDangles, Names, None
  <1>9. PhasesInv'
    BY <1>1, <1>2, <1>4 DEF PhasesInv, NotBlackYet, Colored, Entries, HowsOf, TakesPart, Held, None
  <1>10. WalksInv'
    <2>1. /\ NotBlackYet' = NotBlackYet /\ Colored("gray")' = Colored("gray")
          /\ Colored("white")' = Colored("white") /\ Entries("scan")' = Entries("scan")
          /\ HeldBy(Entries("restore"))' = HeldBy(Entries("restore"))
          /\ HeldBy(Entries("collect"))' = HeldBy(Entries("collect"))
      BY <1>2 DEF HeldBy, NotBlackYet, Colored, Entries
    <2>2. /\ RootsIn(1 .. at - 1)' = RootsIn(1 .. at - 1) /\ RootsIn(DOMAIN roots)' = RootsIn(DOMAIN roots)
          /\ RootsIn(at .. Len(roots))' = RootsIn(at .. Len(roots))
      BY <1>2 DEF RootsIn
    <2> QED
      BY <1>1, <1>2, <2>1, <2>2 DEF WalksInv, Covers
  <1> QED
    BY <1>3, <1>5, <1>6, <1>7, <1>8, <1>9, <1>10 DEF Core

LEMMA CoreSteps == Core /\ [Next]_vars => Core'
  <1> SUFFICES ASSUME Core, [Next]_vars PROVE Core'
    OBVIOUS
  <1>1. CASE \E o \in Objects : New(o) \/ Load(o) \/ Drop(o) \/ TakeBox(o)
    BY <1>1, NewKeeps, LoadsKeep, DropKeeps, TakeBoxKeeps
  <1>2. CASE \E p, o \in Objects : Store(p, o) \/ Clear(p, o)
    BY <1>2, StoreKeeps, ClearKeeps
  <1>3. CASE \E f \in Frames : Run(f) \/ Suspend(f)
    BY <1>3, FramesKeep
  <1>4. CASE \E o \in Targets : MakeWeak(o) \/ Upgrade(o) \/ ForgetWeak(o)
    BY <1>4, Kinds, WeakKeeps, LoadsKeep
  <1>5. CASE Drain
    BY <1>5, FreeDrainedKeeps, ReleaseGlueKeeps DEF Drain
  <1>6. CASE PollCollects \/ AllocCollects
    BY <1>6, CollectsStart
  <1>7. CASE Collection
    <2>1. CASE SkipRoot \/ MarkRoot \/ ScanRoot \/ CollectRoot
      BY <2>1, SkipRootKeeps, MarkRootKeeps, ScanRootKeeps, CollectRootKeeps
    <2>2. CASE NextWalk \/ EndCollect \/ Finish
      BY <2>2, NextWalkKeeps, EndCollectKeeps, FinishKeeps
    <2>3. CASE \E b \in Objects : Mark(b) \/ Scan(b) \/ Restore(b) \/ Collect(b) \/ ReleaseLater(b)
      BY <2>3, MarkKeeps, ScanKeeps, RestoreKeeps, CollectKeeps, ReleaseLaterKeeps
    <2> QED
      BY <1>7, <2>1, <2>2, <2>3 DEF Collection
  <1>8. CASE UNCHANGED vars
    BY <1>8, CoreStays
  <1> QED
    BY <1>1, <1>2, <1>3, <1>4, <1>5, <1>6, <1>7, <1>8 DEF Next, Program

(***************************************************************************)
(* Between any two steps of the program, of a release (rt.rs) and of a     *)
(* collection (cycle.hd): the counts are exact but for what a walk has     *)
(* taken off, the buffer lists its candidates once, nothing names a block  *)
(* that is gone, and what the program reaches is kept.                     *)
(***************************************************************************)
THEOREM HeapIsKept == Spec => []HeapInv
  <1>1. Init => Core
    BY CoreStarts
  <1>2. Core /\ [Next]_vars => Core'
    BY CoreSteps
  <1>3. Core => HeapInv
    BY KeptFollows DEF Core, HeapInv
  <1> QED
    BY <1>1, <1>2, <1>3, PTL DEF Spec

(***************************************************************************)
(* hold_room and CycleFree (rt.rs): a buffer's room is there as long as    *)
(* its holder's contents, or the references that may point into it, are.   *)
(***************************************************************************)
THEOREM RoomsAreKept == Spec => []RoomsFollowHolders
  <1>1. Init => Core
    BY CoreStarts
  <1>2. Core /\ [Next]_vars => Core'
    BY CoreSteps
  <1>3. Core => RoomsFollowHolders
    BY DEF Core
  <1> QED
    BY <1>1, <1>2, <1>3, PTL DEF Spec

-----------------------------------------------------------------------------
(***************************************************************************)
(* The refinement of ManagedHeap.  No step takes an object that is named   *)
(* after it (NothingDangles), so whatever a step makes of the heap, the    *)
(* rest is kept whole; what is left is which step of the program it was.   *)
(***************************************************************************)

LEMMA ObjsAre ==
  ASSUME Core
  PROVE  /\ Objs \in SUBSET Objects /\ weak \subseteq Objs
         /\ \A o \in Objects : locals[o] \in Nat /\ (locals[o] > 0 => o \in Objs)
         /\ \A p, o \in Objects : refs[p][o] \in Nat /\ (refs[p][o] > 0 => o \in Objs)
         /\ \A p \in Objs, o \in Objects : ObjRefs[p][o] = refs[p][o]
  <1>1. TypeOK /\ \A o \in Objects : Names(o) => o \in Objs
    BY DEF Core, NothingDangles, Objs
  <1>2. heap \subseteq Objects /\ weak \subseteq Objects
    BY <1>1, Kinds DEF TypeOK
  <1>3. \A o \in Objects : locals[o] \in Nat /\ later[o] \in Nat
    BY <1>1, TypeFacts
  <1>4. \A p, o \in Objects : refs[p][o] \in Nat
    BY <1>1, TypeFacts, Sizes DEF Tables
  <1>5. Objs \in SUBSET Objects
    BY <1>2 DEF Objs
  <1>6. weak \subseteq Objs
    BY <1>1, <1>2 DEF Names
  <1>7. \A o \in Objects : locals[o] > 0 => o \in Objs
    BY <1>1, <1>3 DEF Names
  <1>8. \A p, o \in Objects : refs[p][o] > 0 => o \in Objs
    BY <1>1 DEF Names
  <1>9. \A p \in Objs, o \in Objects : ObjRefs[p][o] = refs[p][o]
    <2> SUFFICES ASSUME NEW p \in Objs, NEW o \in Objects PROVE ObjRefs[p][o] = refs[p][o]
      OBVIOUS
    <2>1. ObjRefs[p][o] = IF {p, o} \subseteq Objs THEN refs[p][o] ELSE 0
      BY <1>5 DEF ObjRefs
    <2>2. o \notin Objs => refs[p][o] = 0
      BY <1>4, <1>5, <1>8
    <2> QED
      BY <2>1, <2>2
  <1> QED
    BY <1>3, <1>4, <1>5, <1>6, <1>7, <1>8, <1>9

\* The program's guards: what it reaches, it reaches in the abstract heap.
LEMMA ReachableIsReached ==
  ASSUME Core
  PROVE  Reachable \subseteq Managed!Reaches(ObjRefs, locals) /\ Reachable \subseteq Objs
  <1> DEFINE S == {o \in Objects : locals[o] > 0}
             Good(T) == /\ \A o \in Objects : locals[o] > 0 => o \in T
                        /\ \A p \in T, o \in Objects : ObjRefs[p][o] > 0 => o \in T
  <1>1. ASSUME NEW T \in SUBSET Objects, Good(T), NEW x \in Reachable PROVE x \in T \intersect Objs
    <2> DEFINE K == T \intersect Objs
    <2>1. S \subseteq K
      BY <1>1, ObjsAre
    <2>2. Closed(K)
      <3> SUFFICES ASSUME NEW p \in K, NEW o \in Objects, refs[p][o] > 0 PROVE o \in K
        BY DEF Closed
      <3>1. p \in Objects /\ o \in Objs /\ ObjRefs[p][o] > 0
        BY ObjsAre
      <3> QED
        BY <1>1, <3>1
    <2>3. K \in SUBSET Objects
      OBVIOUS
    <2> HIDE DEF K, S
    <2>4. ReachedFrom(S) \subseteq K
      BY <2>1, <2>2, <2>3 DEF ReachedFrom
    <2> QED
      BY <1>1, <2>4 DEF Reachable, S, K
  <1>2. Reachable \subseteq Objects
    BY DEF Reachable, ReachedFrom
  <1>3. Managed!Reaches(ObjRefs, locals)
          = {o \in Objects : \A T \in {U \in SUBSET Objects : Good(U)} : o \in T}
    BY DEF Managed!Reaches
  <1>4. Good(Objs) /\ Objs \in SUBSET Objects
    BY ObjsAre
  <1> HIDE DEF Good
  <1>5. Reachable \subseteq Objs
    BY <1>1, <1>4
  <1> QED
    BY <1>1, <1>2, <1>3, <1>5

\* The step to the references r and l: an object that stays holds in r what it holds.
LEMMA BecomesIs ==
  ASSUME Core', NEW S, NEW r, NEW l, NEW w,
         Objs' \subseteq S, locals' = l, weak' \subseteq w, w \intersect Objs' \subseteq weak',
         \A p \in Objs', o \in Objects : r[p][o] = refs'[p][o]
  PROVE  Managed!Becomes(S, r, l, w)
  <1>1. /\ Objs' \in SUBSET Objects
        /\ \A o \in Objects : locals'[o] > 0 => o \in Objs'
        /\ \A p, o \in Objects : refs'[p][o] > 0 => o \in Objs'
        /\ weak' \subseteq Objs'
    <2>1. TypeOK' /\ \A o \in Objects : Names(o)' => o \in Objs'
      BY DEF Core, NothingDangles, Objs
    <2>2. Objs' \in SUBSET Objects
      BY <2>1 DEF Objs, TypeOK
    <2>3. \A o \in Objects : locals'[o] \in Nat /\ later'[o] \in Nat
      BY <2>1, Sizes DEF TypeOK
    <2>4. \A o \in Objects : locals'[o] > 0 => Names(o)'
      BY <2>3 DEF Names
    <2>5. \A p, o \in Objects : refs'[p][o] > 0 => Names(o)'
      BY DEF Names
    <2>6. weak' \subseteq Objects
      BY <2>1, Kinds DEF TypeOK
    <2>7. \A o \in weak' : Names(o)'
      BY DEF Names
    <2> QED
      BY <2>1, <2>2, <2>4, <2>5, <2>6, <2>7
  <1>2. ObjRefs' = [p \in Objects |-> [o \in Objects |->
                      IF {p, o} \subseteq Objs' THEN r[p][o] ELSE 0]]
    <2>1. ObjRefs' = [p \in Objects |-> [o \in Objects |->
                        IF {p, o} \subseteq Objs' THEN refs'[p][o] ELSE 0]]
      BY DEF ObjRefs
    <2>2. ASSUME NEW p \in Objects, NEW o \in Objects
          PROVE  (IF {p, o} \subseteq Objs' THEN refs'[p][o] ELSE 0)
                   = IF {p, o} \subseteq Objs' THEN r[p][o] ELSE 0
      OBVIOUS
    <2> QED
      BY <2>1, <2>2
  <1>3. Managed!Reaches(r, l) \subseteq Objs'
    <2>1. \A o \in Objects : l[o] > 0 => o \in Objs'
      BY <1>1
    <2>2. \A p \in Objs', o \in Objects : r[p][o] > 0 => o \in Objs'
      BY <1>1
    <2> QED
      BY <1>1, <2>1, <2>2 DEF Managed!Reaches
  <1>4. weak' = w \intersect Objs'
    BY <1>1
  <1> QED
    BY <1>2, <1>3, <1>4 DEF Managed!Becomes

\* A step of the collector or of a release: objects may go, and nothing else.
LEMMA LoseIs ==
  ASSUME Core, Core', Objs' \subseteq Objs, locals' = locals,
         weak' \subseteq weak, weak \intersect Objs' \subseteq weak',
         \A p \in Objs' : refs'[p] = refs[p]
  PROVE  Managed!Next
  <1>1. \A p \in Objs', o \in Objects : ObjRefs[p][o] = refs'[p][o]
    BY ObjsAre
  <1>2. Managed!Becomes(Objs, ObjRefs, locals, weak)
    BY <1>1, BecomesIs
  <1> QED
    BY <1>2 DEF Managed!Next, Managed!Lose

\* Between collections only what is queued or swept is gone.
LEMMA QuietGone ==
  /\ phase \in Quiet => Gone = InSeq(draining) \union Swept
  /\ phase' \in Quiet => Gone' = InSeq(draining') \union Swept'
  <1>1. InSeq(draining)' = InSeq(draining')
    BY DEF InSeq
  <1> QED
    BY <1>1 DEF Gone, CountGone, Quiet

\* A count that goes up, and blocks that stay.
LEMMA RetainLoses ==
  ASSUME Core, Idle, phase' = phase, draining' = draining, NEW o \in Objs, Retain(o),
         heap' = heap, UNCHANGED buffer
  PROVE  Objs' \subseteq Objs
  <1>1. phase \in Quiet /\ phase' \in Quiet
    BY DEF Idle, Quiet
  <1>2. buffered' = buffered /\ count' = [count EXCEPT ![o] = @ + 1] /\ buffered \subseteq Objects
        /\ count \in [Objects -> Nat]
    BY TypeFacts DEF buffer, Retain, Core
  <1>3. o \notin Swept
    BY <1>1, QuietGone DEF Objs
  <1>4. Swept \subseteq Swept'
    BY <1>2, <1>3 DEF Swept
  <1> QED
    BY <1>1, <1>4, QuietGone DEF Objs

\* A count that goes down, or the block is queued and its weak entry cleared.
LEMMA ReleaseLoses ==
  ASSUME Core, phase \in Quiet, phase' = phase, NEW o \in Objs, Release(o), heap' = heap
  PROVE  /\ Objs' \subseteq Objs
         /\ weak' \subseteq weak /\ weak \intersect Objs' \subseteq weak'
  <1>1. /\ TypeOK /\ BufferExact /\ draining \in Seq(Objects) /\ Once(draining) /\ o \in Objects
        /\ buffered \subseteq Objects /\ count \in [Objects -> Nat]
    BY TypeFacts, ObjsAre DEF Core, NothingDangles, Once
  <1>2. o \notin InSeq(draining) /\ o \notin Swept
    BY QuietGone DEF Objs
  <1>3. CASE count[o] = 1
    <2>1. draining' = Queue(o) /\ weak' = weak \ {o} /\ count' = count /\ buffered' = buffered
      BY <1>3 DEF Release, ClearWeak, buffer
    <2>2. InSeq(draining') = InSeq(draining) \union {o}
      BY <1>1, <1>2, <2>1, QueueFacts
    <2>3. Swept' = Swept
      BY <2>1 DEF Swept
    <2>4. Objs' = Objs \ {o}
      BY <2>2, <2>3, QuietGone DEF Objs
    <2> QED
      BY <2>1, <2>4
  <1>4. CASE count[o] # 1
    <2>1. count' = [count EXCEPT ![o] = @ - 1] /\ Suspect(o) /\ draining' = draining /\ weak' = weak
      BY <1>4 DEF Release
    <2>2. buffered \subseteq buffered'
      BY <1>1, <2>1, SuspectEffect
    <2>3. Swept \subseteq Swept'
      BY <1>1, <1>2, <2>1, <2>2 DEF Swept
    <2> QED
      BY <2>1, <2>3, QuietGone DEF Objs
  <1> QED
    BY <1>3, <1>4

\* The program's steps.

LEMMA NewMaps == ASSUME Core, Core', NEW o \in Objects, New(o) PROVE Managed!Next
  <1>1. /\ o \notin heap /\ heap' = heap \union {o} /\ locals' = [locals EXCEPT ![o] = 1]
        /\ count' = [count EXCEPT ![o] = 1] /\ buffered' = buffered \ {o}
        /\ refs' = refs /\ weak' = weak /\ draining' = draining /\ phase' = phase
        /\ phase \in Quiet
    BY DEF New, collector, walk, Idle, Quiet
  <1>2. TypeOK /\ BufferExact /\ buffered \subseteq heap /\ count \in [Objects -> Nat]
    BY TypeFacts DEF Core, BufferExact
  <1>3. Swept' = Swept
    BY <1>1, <1>2, TypeFacts DEF Swept
  <1>4. Objs' \subseteq Objs \union {o} /\ o \notin Objs
    BY <1>1, <1>3, QuietGone DEF Objs
  <1>5. \A x \in Objects : ObjRefs[o][x] = refs[o][x]
    <2>1. \A x \in Objects : refs[o][x] = 0
      BY <1>1 DEF Core, NothingDangles, None
    <2> QED
      BY <1>4, <2>1 DEF ObjRefs
  <1>6. \A p \in Objs', x \in Objects : ObjRefs[p][x] = refs'[p][x]
    BY <1>1, <1>4, <1>5, ObjsAre
  <1>7. Managed!Becomes(Objs \union {o}, ObjRefs, [locals EXCEPT ![o] = 1], weak)
    BY <1>1, <1>4, <1>6, BecomesIs
  <1> QED
    BY <1>4, <1>7 DEF Managed!Next, Managed!Allocate

LEMMA StoreMaps ==
  ASSUME Core, Core', NEW p \in Objects, NEW o \in Objects, Store(p, o)
  PROVE  Managed!Next
  <1>1. /\ {p, o} \subseteq Reachable /\ refs' = [refs EXCEPT ![p][o] = @ + 1] /\ Retain(o)
        /\ heap' = heap /\ locals' = locals /\ weak' = weak /\ draining' = draining
        /\ UNCHANGED buffer /\ phase' = phase /\ Idle
    BY DEF Store, collector, walk
  <1>2. {p, o} \subseteq Objs /\ {p, o} \subseteq Managed!Reaches(ObjRefs, locals)
    BY <1>1, KeptFollows, ReachableIsReached DEF Core, Objs
  <1>3. Objs' \subseteq Objs
    BY <1>1, <1>2, RetainLoses
  <1> DEFINE r == [ObjRefs EXCEPT ![p][o] = @ + 1]
  <1>4. \A q \in Objs', x \in Objects : r[q][x] = refs'[q][x]
    <2>1. /\ refs \in [Objects -> [Objects -> 0 .. MaxRefs]]
          /\ \A q \in Objs, x \in Objects : ObjRefs[q][x] = refs[q][x]
          /\ Objs \subseteq Objects
      BY ObjsAre DEF Core, TypeOK
    <2>2. ObjRefs = [q \in Objects |-> [x \in Objects |-> ObjRefs[q][x]]]
      BY DEF ObjRefs
    <2> QED
      BY <1>1, <1>3, <2>1, <2>2
  <1> HIDE DEF r
  <1>5. Managed!Becomes(Objs, r, locals, weak)
    BY <1>1, <1>3, <1>4, BecomesIs
  <1> QED
    BY <1>2, <1>5 DEF Managed!Next, Managed!Put, r

LEMMA LoadsMap ==
  ASSUME Core, Core', NEW o \in Objects, Load(o) \/ Upgrade(o)
  PROVE  Managed!Next
  <1>1. /\ o \in Reachable \union weak /\ locals' = [locals EXCEPT ![o] = @ + 1] /\ Retain(o)
        /\ heap' = heap /\ refs' = refs /\ weak' = weak /\ draining' = draining
        /\ UNCHANGED buffer /\ phase' = phase /\ Idle
    BY DEF Load, Upgrade, collector, walk
  <1>2. o \in Objs /\ o \in Managed!Reaches(ObjRefs, locals) \union weak
    BY <1>1, KeptFollows, ObjsAre, ReachableIsReached DEF Core, Objs
  <1>3. Objs' \subseteq Objs
    BY <1>1, <1>2, RetainLoses
  <1>4. \A p \in Objs', x \in Objects : ObjRefs[p][x] = refs'[p][x]
    BY <1>1, <1>3, ObjsAre
  <1>5. Managed!Becomes(Objs, ObjRefs, [locals EXCEPT ![o] = @ + 1], weak)
    BY <1>1, <1>3, <1>4, BecomesIs
  <1> QED
    BY <1>2, <1>5 DEF Managed!Next, Managed!Copy

LEMMA DropMaps == ASSUME Core, Core', NEW o \in Objects, Drop(o) PROVE Managed!Next
  <1>1. /\ locals[o] > 0 /\ locals' = [locals EXCEPT ![o] = @ - 1] /\ Release(o)
        /\ heap' = heap /\ refs' = refs /\ phase' = phase /\ phase \in Quiet
    BY DEF Drop, collector, walk, Idle, Quiet
  <1>2. o \in Objs
    BY <1>1, ObjsAre
  <1>3. Objs' \subseteq Objs /\ weak' \subseteq weak /\ weak \intersect Objs' \subseteq weak'
    BY <1>1, <1>2, ReleaseLoses
  <1>4. \A p \in Objs', x \in Objects : ObjRefs[p][x] = refs'[p][x]
    BY <1>1, <1>3, ObjsAre
  <1>5. Managed!Becomes(Objs, ObjRefs, [locals EXCEPT ![o] = @ - 1], weak)
    BY <1>1, <1>3, <1>4, BecomesIs
  <1> QED
    BY <1>1, <1>5 DEF Managed!Next, Managed!Drop

LEMMA ClearMaps ==
  ASSUME Core, Core', NEW p \in Objects, NEW o \in Objects, Clear(p, o)
  PROVE  Managed!Next
  <1>1. /\ refs[p][o] > 0 /\ p \in Reachable /\ refs' = [refs EXCEPT ![p][o] = @ - 1] /\ Release(o)
        /\ heap' = heap /\ locals' = locals /\ phase' = phase /\ phase \in Quiet
    BY DEF Clear, collector, walk, Idle, Quiet
  <1>2. {p, o} \subseteq Objs /\ p \in Managed!Reaches(ObjRefs, locals) /\ ObjRefs[p][o] > 0
    BY <1>1, KeptFollows, ObjsAre, ReachableIsReached DEF Core, Objs
  <1>3. Objs' \subseteq Objs /\ weak' \subseteq weak /\ weak \intersect Objs' \subseteq weak'
    BY <1>1, <1>2, ReleaseLoses
  <1> DEFINE r == [ObjRefs EXCEPT ![p][o] = @ - 1]
  <1>4. \A q \in Objs', x \in Objects : r[q][x] = refs'[q][x]
    <2>1. /\ refs \in [Objects -> [Objects -> 0 .. MaxRefs]]
          /\ \A q \in Objs, x \in Objects : ObjRefs[q][x] = refs[q][x]
          /\ Objs \subseteq Objects
      BY ObjsAre DEF Core, TypeOK
    <2>2. ObjRefs = [q \in Objects |-> [x \in Objects |-> ObjRefs[q][x]]]
      BY DEF ObjRefs
    <2> QED
      BY <1>1, <1>3, <2>1, <2>2
  <1> HIDE DEF r
  <1>5. Managed!Becomes(Objs, r, locals, weak)
    BY <1>1, <1>3, <1>4, BecomesIs
  <1> QED
    BY <1>2, <1>5 DEF Managed!Next, Managed!Take, r

LEMMA TakeBoxMaps == ASSUME Core, Core', NEW o \in Objects, TakeBox(o) PROVE Managed!Next
  <1> DEFINE r == [ObjRefs EXCEPT ![o] = [x \in Objects |-> 0]]
             l == [x \in Objects |-> IF x = o THEN 0 ELSE locals[x] + ObjRefs[o][x]]
  <1>1. /\ locals[o] = 1 /\ locals' = [x \in Objects |-> IF x = o THEN 0 ELSE locals[x] + refs[o][x]]
        /\ refs' = [refs EXCEPT ![o] = None] /\ weak' = weak \ {o} /\ Free({o})
        /\ draining' = draining /\ roots' = roots /\ buffered' = buffered
        /\ candidates' = candidates /\ phase' = phase /\ phase \in Quiet
    BY DEF TakeBox, ClearWeak, collector, walk, Idle, Quiet
  <1>2. o \in Objs
    BY <1>1, ObjsAre
  <1>3. Objs' \subseteq Objs \ {o}
    <2>1. o \in heap /\ o \notin CountGone
      BY <1>2 DEF Objs, Gone
    <2>2. heap' \ CountGone' = (heap \ CountGone) \ {o}
      BY <1>1, <2>1, FreeOne DEF Core
    <2>3. InSeq(draining)' = InSeq(draining)
      BY <1>1 DEF InSeq
    <2> QED
      BY <2>2, <2>3 DEF Objs, Gone
  <1>4. locals' = l
    BY <1>1, <1>2, ObjsAre
  <1>5. \A p \in Objs', x \in Objects : r[p][x] = refs'[p][x]
    <2>1. /\ refs \in [Objects -> [Objects -> 0 .. MaxRefs]]
          /\ \A q \in Objs, x \in Objects : ObjRefs[q][x] = refs[q][x]
          /\ Objs \subseteq Objects
      BY ObjsAre DEF Core, TypeOK
    <2>2. ObjRefs = [q \in Objects |-> [x \in Objects |-> ObjRefs[q][x]]]
      BY DEF ObjRefs
    <2>3. \A q \in Objs' : r[q] = ObjRefs[q] /\ refs'[q] = refs[q]
      BY <1>1, <1>3, <2>1, <2>2
    <2> QED
      BY <1>3, <2>1, <2>3
  <1> HIDE DEF r, l
  <1>6. Managed!Becomes(Objs, r, l, weak)
    BY <1>1, <1>3, <1>4, <1>5, BecomesIs
  <1> QED
    BY <1>1, <1>6 DEF Managed!Next, Managed!Unbox, r, l

\* Frames and weak references leave the blocks as they are.
LEMMA BlocksStay ==
  ASSUME UNCHANGED <<heap, words, draining, buffer, phase>>
  PROVE  Objs' = Objs
  <1>1. count' = count /\ buffered' = buffered
    BY DEF words, buffer
  <1>2. InSeq(draining)' = InSeq(draining) /\ CountGone' = CountGone
    BY <1>1 DEF InSeq, CountGone, Swept
  <1> QED
    BY <1>2 DEF Objs, Gone

LEMMA FramesMap == ASSUME Core, Core', NEW f \in Frames, Run(f) \/ Suspend(f) PROVE Managed!Next
  <1>1. /\ locals' = locals /\ refs' = refs /\ weak' = weak
        /\ UNCHANGED <<heap, words, draining, buffer, phase>>
    BY DEF Run, Suspend, collector, walk
  <1> QED
    BY <1>1, BlocksStay, LoseIs

LEMMA WeakMaps ==
  ASSUME Core, Core', NEW o \in Objects, MakeWeak(o) \/ ForgetWeak(o)
  PROVE  Managed!Next
  <1>1. /\ locals' = locals /\ refs' = refs
        /\ UNCHANGED <<heap, words, draining, buffer, phase>>
    BY DEF MakeWeak, ForgetWeak, program, collector, walk
  <1>2. Objs' = Objs
    BY <1>1, BlocksStay
  <1>3. \A p \in Objs', x \in Objects : ObjRefs[p][x] = refs'[p][x]
    BY <1>1, <1>2, ObjsAre
  <1>4. CASE MakeWeak(o)
    <2>1. o \in Reachable /\ weak' = weak \union {o}
      BY <1>4 DEF MakeWeak
    <2>2. Managed!Becomes(Objs, ObjRefs, locals, weak \union {o})
      BY <1>1, <1>2, <1>3, <2>1, BecomesIs
    <2> QED
      BY <2>1, <2>2, ReachableIsReached DEF Managed!Next, Managed!Watch
  <1>5. CASE ForgetWeak(o)
    <2>1. weak' = weak \ {o}
      BY <1>5 DEF ForgetWeak
    <2>2. Managed!Becomes(Objs, ObjRefs, locals, weak \ {o})
      BY <1>1, <1>2, <1>3, <2>1, BecomesIs
    <2> QED
      BY <2>2 DEF Managed!Next, Managed!Unwatch
  <1> QED
    BY <1>4, <1>5

\* The steps of a release.

LEMMA ReleaseGlueMaps == ASSUME Core, Core', NEW o \in Objects, ReleaseGlue(o) PROVE Managed!Next
  <1> DEFINE b == Head(draining)
  <1>1. /\ draining # <<>> /\ refs[b][o] > 0 /\ refs' = [refs EXCEPT ![b][o] = @ - 1] /\ Release(o)
        /\ heap' = heap /\ locals' = locals /\ phase' = phase
    BY DEF ReleaseGlue, collector, walk
  <1>2. phase \in Quiet /\ draining \in Seq(Objects)
    BY <1>1 DEF Core, TypeOK, PhasesInv, Quiet
  <1>3. b \in InSeq(draining) /\ b \in Objects
    BY <1>1, <1>2 DEF InSeq
  <1>4. o \in Objs
    BY <1>1, <1>3, ObjsAre
  <1>5. Objs' \subseteq Objs /\ weak' \subseteq weak /\ weak \intersect Objs' \subseteq weak'
    BY <1>1, <1>2, <1>4, ReleaseLoses
  <1>6. b \notin Objs
    BY <1>3 DEF Objs, Gone
  <1> HIDE DEF b
  <1>7. \A p \in Objs' : refs'[p] = refs[p]
    <2>1. refs \in [Objects -> [Objects -> 0 .. MaxRefs]]
      BY DEF Core, TypeOK
    <2> QED
      BY <1>1, <1>5, <1>6, <2>1, ObjsAre
  <1> QED
    BY <1>1, <1>5, <1>7, LoseIs

LEMMA FreeDrainedMaps == ASSUME Core, Core', FreeDrained PROVE Managed!Next
  <1> DEFINE b == Head(draining)
  <1>1. /\ draining # <<>> /\ Free({b}) /\ draining' = Tail(draining)
        /\ refs' = refs /\ locals' = locals /\ weak' = weak
        /\ roots' = roots /\ buffered' = buffered /\ candidates' = candidates /\ phase' = phase
    BY DEF FreeDrained, program, collector, walk
  <1>2. /\ phase \in Quiet /\ draining \in Seq(Objects) /\ Once(draining)
        /\ TypeOK /\ BufferExact
    BY <1>1 DEF Core, TypeOK, NothingDangles, Once, PhasesInv, Quiet
  <1>3. InSeq(draining') = InSeq(draining) \ {b}
    BY <1>1, <1>2, TailFacts
  <1>4. b \in heap /\ b \notin CountGone
    <2>1. b \in InSeq(draining)
      BY <1>1, <1>2 DEF InSeq
    <2>2. b \in heap /\ count[b] = 1
      BY <2>1 DEF Core, NothingDangles
    <2> QED
      BY <2>2 DEF CountGone, Swept
  <1> HIDE DEF b
  <1>5. heap' \ CountGone' = (heap \ CountGone) \ {b}
    BY <1>1, <1>2, <1>4, FreeOne
  <1>6. InSeq(draining)' = InSeq(draining')
    BY DEF InSeq
  <1>7. Objs' \subseteq Objs
    BY <1>3, <1>5, <1>6 DEF Objs, Gone
  <1> QED
    BY <1>1, <1>7, LoseIs

\* The steps of a collection: blocks go in its sweep and at its end.

LEMMA CollectsMap == ASSUME Core, Core', PollCollects \/ AllocCollects PROVE Managed!Next
  <1>1. /\ phase = "idle" /\ phase' \in {"mark", "idle"} /\ heap' = heap \ Swept
        /\ draining = <<>> /\ draining' = draining
        /\ locals' = locals /\ refs' = refs /\ weak' = weak
    BY DEF PollCollects, AllocCollects, SweepThen, Idle, program
  <1>2. InSeq(draining) = {}
    BY <1>1 DEF InSeq
  <1>3. Gone = Swept
    BY <1>1, <1>2, QuietGone DEF Quiet
  <1>4. Objs' \subseteq Objs
    BY <1>1, <1>3 DEF Objs
  <1> QED
    BY <1>1, <1>4, LoseIs

LEMMA WalksMap ==
  ASSUME Core, Core', NEW b,
         \/ SkipRoot \/ MarkRoot \/ ScanRoot \/ CollectRoot \/ NextWalk
         \/ Mark(b) \/ Scan(b) \/ Restore(b) \/ Collect(b)
  PROVE  Managed!Next
  <1>1. heap' = heap /\ refs' = refs /\ locals' = locals /\ weak' = weak
    BY DEF SkipRoot, MarkRoot, ScanRoot, CollectRoot, NextWalk, Mark, Scan, Restore, Collect,
           still, program
  <1>2. phase \in Walking
    <2>1. CASE SkipRoot \/ MarkRoot \/ ScanRoot \/ CollectRoot \/ NextWalk
      BY <2>1 DEF SkipRoot, MarkRoot, ScanRoot, CollectRoot, NextWalk, AtRoot, AtEnd, Walking
    <2>2. CASE Mark(b) \/ Scan(b) \/ Restore(b) \/ Collect(b)
      <3>1. stack # {}
        BY <2>2 DEF Mark, Scan, Restore, Collect
      <3>2. TypeOK /\ PhasesInv
        BY DEF Core
      <3>3. phase \notin Quiet
        BY <3>1, <3>2, QuietIs
      <3> QED
        BY <3>2, <3>3 DEF TypeOK, Phases, Quiet, Walking
    <2> QED
      BY <2>1, <2>2
  <1>3. Gone = {}
    BY <1>2, WalkIs
  <1>4. Objs' \subseteq Objs
    BY <1>1, <1>3 DEF Objs
  <1> QED
    BY <1>1, <1>4, LoseIs

LEMMA EndCollectMaps == ASSUME Core, Core', EndCollect PROVE Managed!Next
  <1>1. /\ phase = "collect" /\ phase' = "later" /\ Free(garbage) /\ weak' = weak \ garbage
        /\ refs' = [p \in Objects |-> IF p \in garbage THEN None ELSE refs[p]]
        /\ locals' = locals /\ garbage' = garbage
    BY DEF EndCollect, AtEnd, ClearWeak
  <1>2. Gone = {} /\ heap' \subseteq heap
    BY <1>1, WalkIs DEF Walking, Free
  <1>3. Objs' \subseteq Objs
    BY <1>2 DEF Objs
  <1>4. garbage \intersect Objs' = {}
    BY <1>1 DEF Core, PhasesInv, Objs
  <1>5. \A p \in Objs' : refs'[p] = refs[p]
    BY <1>1, <1>3, <1>4, ObjsAre
  <1> QED
    BY <1>1, <1>3, <1>4, <1>5, LoseIs

LEMMA ReleaseLaterMaps == ASSUME Core, Core', NEW o \in Objects, ReleaseLater(o) PROVE Managed!Next
  <1>1. /\ phase = "later" /\ later[o] > 0 /\ Release(o)
        /\ heap' = heap /\ refs' = refs /\ locals' = locals /\ phase' = phase
    BY DEF ReleaseLater, program
  <1>2. o \in Objs
    <2>1. locals[o] \in Nat /\ later[o] \in Nat
      BY TypeFacts DEF Core
    <2>2. Names(o)
      BY <1>1, <2>1 DEF Names
    <2> QED
      BY <2>2 DEF Core, NothingDangles, Objs
  <1>3. Objs' \subseteq Objs /\ weak' \subseteq weak /\ weak \intersect Objs' \subseteq weak'
    BY <1>1, <1>2, ReleaseLoses DEF Quiet
  <1> QED
    BY <1>1, <1>3, LoseIs

LEMMA FinishMaps == ASSUME Core, Core', Finish PROVE Managed!Next
  <1>1. /\ phase = "later" /\ phase' = "idle" /\ heap' = heap /\ refs' = refs
        /\ locals' = locals /\ weak' = weak /\ draining' = draining
        /\ count' = count /\ buffered' = buffered
    BY DEF Finish, program, words
  <1>2. Gone' = Gone
    <2>1. Swept' = Swept
      BY <1>1 DEF Swept
    <2> QED
      BY <1>1, <2>1, QuietGone DEF Quiet
  <1> QED
    BY <1>1, <1>2, LoseIs DEF Objs

mvars == <<Objs, ObjRefs, locals, weak>>

LEMMA StepMaps == Core /\ Core' /\ [Next]_vars => [Managed!Next]_mvars
  <1> SUFFICES ASSUME Core, Core', [Next]_vars PROVE Managed!Next \/ UNCHANGED mvars
    OBVIOUS
  <1>1. CASE \E o \in Objects : New(o) \/ Load(o) \/ Drop(o) \/ TakeBox(o)
    BY <1>1, NewMaps, LoadsMap, DropMaps, TakeBoxMaps
  <1>2. CASE \E p, o \in Objects : Store(p, o) \/ Clear(p, o)
    BY <1>2, StoreMaps, ClearMaps
  <1>3. CASE \E f \in Frames : Run(f) \/ Suspend(f)
    BY <1>3, FramesMap
  <1>4. CASE \E o \in Targets : MakeWeak(o) \/ Upgrade(o) \/ ForgetWeak(o)
    BY <1>4, Kinds, WeakMaps, LoadsMap
  <1>5. CASE Drain
    BY <1>5, FreeDrainedMaps, ReleaseGlueMaps DEF Drain
  <1>6. CASE PollCollects \/ AllocCollects
    BY <1>6, CollectsMap
  <1>7. CASE Collection
    <2>1. CASE SkipRoot \/ MarkRoot \/ ScanRoot \/ CollectRoot \/ NextWalk
      BY <2>1, WalksMap
    <2>2. CASE EndCollect \/ Finish
      BY <2>2, EndCollectMaps, FinishMaps
    <2>3. CASE \E b \in Objects : Mark(b) \/ Scan(b) \/ Restore(b) \/ Collect(b) \/ ReleaseLater(b)
      BY <2>3, WalksMap, ReleaseLaterMaps
    <2> QED
      BY <1>7, <2>1, <2>2, <2>3 DEF Collection
  <1>8. CASE UNCHANGED vars
    <2>1. /\ UNCHANGED <<heap, words, draining, buffer, phase>>
          /\ refs' = refs /\ locals' = locals /\ weak' = weak
      BY <1>8 DEF vars, program, walk
    <2>2. Objs' = Objs
      BY <2>1, BlocksStay
    <2>3. ObjRefs' = ObjRefs
      BY <2>1, <2>2 DEF ObjRefs
    <2> QED
      BY <2>1, <2>2, <2>3 DEF mvars
  <1> QED
    BY <1>1, <1>2, <1>3, <1>4, <1>5, <1>6, <1>7, <1>8 DEF Next, Program

(***************************************************************************)
(* The counted heap, with its queue of releases, its candidates and its    *)
(* collections (rt.rs, cycle.hd), is to the program a heap that loses      *)
(* objects at any time, but never one that it reaches, and with a lost     *)
(* object its weak reference: every step is one of ManagedHeap.            *)
(***************************************************************************)
THEOREM HeapIsManaged == Spec => ImplementsManagedHeap
  <1>1. Init => Core
    BY CoreStarts
  <1>2. Core /\ [Next]_vars => Core'
    BY CoreSteps
  <1>3. Init => Managed!Init
    BY DEF Init, Managed!Init, Objs, ObjRefs, None
  <1>4. Core /\ Core' /\ [Next]_vars => [Managed!Next]_mvars
    BY StepMaps
  <1>5. Spec => Managed!Init /\ [][Managed!Next]_mvars
    BY <1>1, <1>2, <1>3, <1>4, PTL DEF Spec
  <1> QED
    BY <1>5 DEF ImplementsManagedHeap, Managed!Spec, mvars

-----------------------------------------------------------------------------
(***************************************************************************)
(* No leak.  Paths are closed sets: what S reaches is the least set around *)
(* S that references do not leave, and an island is a set into which no    *)
(* reference leads.                                                        *)
(***************************************************************************)
Shut(r, T) == \A p \in T, o \in Objects : r[p][o] > 0 => o \in T

Reach(r, S) == {o \in Objects : \A T \in {U \in SUBSET Objects : S \subseteq U /\ Shut(r, U)} : o \in T}

LEMMA ReachIs ==
  ASSUME NEW S
  PROVE  ReachedFrom(S) = Reach(refs, S) /\ ReachedFrom(S)' = Reach(refs', S')
  BY DEF ReachedFrom, Closed, Reach, Shut

LEMMA ReachFacts ==
  ASSUME NEW r, NEW S \in SUBSET Objects
  PROVE  /\ Reach(r, S) \in SUBSET Objects /\ S \subseteq Reach(r, S) /\ Shut(r, Reach(r, S))
         /\ \A T \in SUBSET Objects : S \subseteq T /\ Shut(r, T) => Reach(r, S) \subseteq T
  <1>1. Reach(r, S) \in SUBSET Objects /\ S \subseteq Reach(r, S)
    BY DEF Reach
  <1>2. \A T \in SUBSET Objects : S \subseteq T /\ Shut(r, T) => Reach(r, S) \subseteq T
    BY DEF Reach
  <1>3. Shut(r, Reach(r, S))
    <2> SUFFICES ASSUME NEW p \in Reach(r, S), NEW o \in Objects, r[p][o] > 0 PROVE o \in Reach(r, S)
      BY DEF Shut
    <2>1. ASSUME NEW T \in SUBSET Objects, S \subseteq T, Shut(r, T) PROVE o \in T
      <3>1. p \in T
        BY <1>2, <2>1
      <3> QED
        BY <2>1, <3>1 DEF Shut
    <2> QED
      BY <2>1 DEF Reach
  <1> QED
    BY <1>1, <1>2, <1>3

\* No cycle goes through an object that takes no part, for the references r.
NoCycle(r) == \A p, o \in Objects : r[p][o] > 0 /\ p \in Reach(r, {o}) => o \in Cyclic

LEMMA NoCycleIs == NoPlainCycle = NoCycle(refs) /\ NoPlainCycle' = NoCycle(refs')
  BY ReachIs DEF NoPlainCycle, NoCycle, ReachedFrom, Closed, Reach, Shut

LEMMA NoCycleShrinks ==
  ASSUME NEW r, NEW s, NoCycle(r), \A p, o \in Objects : s[p][o] > 0 => r[p][o] > 0
  PROVE  NoCycle(s)
  <1> SUFFICES ASSUME NEW p \in Objects, NEW o \in Objects, s[p][o] > 0, p \in Reach(s, {o})
               PROVE  o \in Cyclic
    BY DEF NoCycle
  <1>1. Reach(r, {o}) \in SUBSET Objects /\ {o} \subseteq Reach(r, {o}) /\ Shut(r, Reach(r, {o}))
    BY ReachFacts
  <1>2. Shut(s, Reach(r, {o}))
    BY <1>1 DEF Shut
  <1>3. Reach(s, {o}) \subseteq Reach(r, {o})
    BY <1>1, <1>2, ReachFacts
  <1> QED
    BY <1>3 DEF NoCycle

\* One more reference from p to o, which MayHold allows.
OneEdgeMore(r, s, p, o) ==
  \A q, x \in Objects : s[q][x] > 0 => r[q][x] > 0 \/ (q = p /\ x = o)

MayAdd(r, p, o) == \A x \in Reach(r, {o}) : p \in Reach(r, {x}) => x \in Cyclic

LEMMA NoCycleGrows ==
  ASSUME NEW r, NEW s, NEW p \in Objects, NEW o \in Objects,
         NoCycle(r), OneEdgeMore(r, s, p, o), MayAdd(r, p, o)
  PROVE  NoCycle(s)
  <1> SUFFICES ASSUME NEW q \in Objects, NEW x \in Objects, s[q][x] > 0, q \in Reach(s, {x})
               PROVE  x \in Cyclic
    BY DEF NoCycle
  <1>1. /\ Reach(r, {x}) \in SUBSET Objects /\ x \in Reach(r, {x}) /\ Shut(r, Reach(r, {x}))
        /\ Reach(r, {o}) \in SUBSET Objects /\ o \in Reach(r, {o}) /\ Shut(r, Reach(r, {o}))
    BY ReachFacts
  <1> DEFINE K == Reach(r, {x}) \union (IF p \in Reach(r, {x}) THEN Reach(r, {o}) ELSE {})
  <1>2. Shut(s, K) /\ K \in SUBSET Objects /\ {x} \subseteq K
    <2>1. ASSUME NEW a \in K, NEW b \in Objects, s[a][b] > 0 PROVE b \in K
      <3>1. a \in Objects /\ (r[a][b] > 0 \/ (a = p /\ b = o))
        BY <1>1, <2>1 DEF OneEdgeMore
      <3>2. CASE r[a][b] > 0
        BY <1>1, <3>1, <3>2 DEF Shut
      <3>3. CASE a = p /\ b = o
        BY <1>1, <3>3
      <3> QED
        BY <3>1, <3>2, <3>3
    <2> HIDE DEF K
    <2>2. Shut(s, K)
      BY <2>1 DEF Shut
    <2> QED
      BY <1>1, <2>2 DEF K
  <1>3. q \in K
    <2> HIDE DEF K
    <2> QED
      BY <1>2, ReachFacts
  <1>4. CASE r[q][x] > 0
    <2>1. CASE q \in Reach(r, {x})
      BY <1>4, <2>1 DEF NoCycle
    <2>2. CASE q \notin Reach(r, {x})
      <3>1. p \in Reach(r, {x}) /\ q \in Reach(r, {o})
        BY <1>3, <2>2
      <3>2. x \in Reach(r, {o})
        BY <1>1, <1>4, <3>1 DEF Shut
      <3> QED
        BY <3>1, <3>2 DEF MayAdd
    <2> QED
      BY <2>1, <2>2
  <1>5. CASE q = p /\ x = o
    BY <1>1, <1>3, <1>5 DEF MayAdd
  <1> QED
    BY <1>4, <1>5 DEF OneEdgeMore

\* No reference leads into S.
Apart(r, S) == \A o \in S, p \in Objects : r[p][o] > 0 => p \in S

\* What an object that takes no part reaches can be cut off: what refers to
\* it is not on a cycle with it, and is left.
LEMMA CutOff ==
  ASSUME NEW r, NoCycle(r), NEW S \in SUBSET Objects, Apart(r, S),
         NEW o \in S, o \notin Cyclic, NEW p \in Objects, r[p][o] > 0
  PROVE  \E T \in SUBSET S : T # {} /\ o \notin T /\ Apart(r, T)
  <1> DEFINE R == Reach(r, {o})
             T == S \ R
  <1>1. R \in SUBSET Objects /\ o \in R /\ Shut(r, R)
    BY ReachFacts
  <1>2. p \in S /\ p \notin R
    BY DEF Apart, NoCycle
  <1>3. Apart(r, T)
    BY <1>1 DEF Apart, Shut
  <1> QED
    BY <1>1, <1>2, <1>3

Isle(r, l, w, K, S) ==
  S # {} /\ S \subseteq K /\ Apart(r, S) /\ \A o \in S : l[o] = 0 /\ w[o] = 0

LEMMA IslandIs ==
  ASSUME NEW S
  PROVE  /\ Island(S) <=> Isle(refs, locals, later, Objs, S)
         /\ Island(S)' <=> Isle(refs', locals', later', Objs', S')
  BY DEF Island, Isle, Apart, Objs

\* Each island of the blocks K has a candidate.
Met(r, l, w, K, b) == \A S \in SUBSET Objects : Isle(r, l, w, K, S) => S \intersect b # {}

LEMMA QuietIslands ==
  /\ phase \in Quiet => (IslandsInv <=> Met(refs, locals, later, Objs, buffered))
  /\ phase' \in Quiet => (IslandsInv' <=> Met(refs', locals', later', Objs', buffered'))
  <1>1. phase \in Quiet => (IslandsInv <=> Met(refs, locals, later, Objs, buffered))
    BY IslandIs DEF IslandsInv, Met, Quiet
  <1>2. phase' \in Quiet => (IslandsInv' <=> Met(refs', locals', later', Objs', buffered'))
    <2>1. \A S \in SUBSET Objects : Island(S)' <=> Isle(refs', locals', later', Objs', S)
      BY DEF Island, Isle, Apart, Objs
    <2> QED
      BY <2>1 DEF IslandsInv, Met, Quiet
  <1> QED
    BY <1>1, <1>2

\* A step that makes no island: what is not named after it was not before,
\* and what referred to it still does.
LEMMA NoNewIsland ==
  ASSUME NEW r, NEW l, NEW w, NEW K, NEW b, Met(r, l, w, K, b),
         NEW s, NEW m, NEW v, NEW J, NEW c, b \intersect J \subseteq c, J \subseteq Objects,
         \A o \in J : m[o] = 0 /\ v[o] = 0 =>
           /\ o \in K /\ l[o] = 0 /\ w[o] = 0
           /\ \A p \in Objects : r[p][o] > 0 => s[p][o] > 0
  PROVE  Met(s, m, v, J, c)
  <1> SUFFICES ASSUME NEW S \in SUBSET Objects, Isle(s, m, v, J, S) PROVE S \intersect c # {}
    BY DEF Met
  <1>1. \A o \in S : o \in J /\ m[o] = 0 /\ v[o] = 0
    BY DEF Isle
  <1>2. Apart(r, S)
    BY <1>1 DEF Isle, Apart
  <1>3. Isle(r, l, w, K, S)
    BY <1>1, <1>2 DEF Isle
  <1> QED
    BY <1>1, <1>3 DEF Met

LEMMA TypesAfter ==
  ASSUME TypeOK'
  PROVE  refs' \in Tables /\ locals' \in [Objects -> Nat] /\ later' \in [Objects -> Nat]
  <1>1. refs' \in Tables /\ later' \in [Objects -> Nat] /\ locals' \in [Objects -> 0 .. MaxLocals]
    BY DEF TypeOK, Tables
  <1> QED
    BY <1>1, Sizes

LEMMA CountsAfter ==
  ASSUME Core', phase' \in Quiet, NEW o \in heap' \ InSeq(draining')
  PROVE  count'[o] = Owed(refs', locals', later', o)
  <1>1. TypeOK' /\ PhasesInv' /\ NothingDangles' /\ CountsExact'
    BY DEF Core
  <1>2. stack' = {} /\ \A x \in Objects : color'[x] = "black"
    BY <1>1 DEF PhasesInv, HowsOf, Quiet, NotBlackYet, Colored, TypeOK
  <1>3. garbage' \intersect heap' = {} /\ (phase' = "idle" => later' = None)
    BY <1>1 DEF PhasesInv, Quiet
  <1>4. /\ o \in Objects /\ refs' \in Tables /\ heap' \in SUBSET Objects
        /\ locals'[o] \in Nat /\ later'[o] \in Nat
    BY <1>1, Sizes DEF TypeOK, Tables
  <1>5. TakenOff' = {}
    BY <1>2, <1>3, <1>4 DEF TakenOff
  <1>6. Counting(o)' = heap'
    BY <1>5 DEF Counting
  <1>7. \A p \in Objects \ heap' : refs'[p] = None
    BY <1>1 DEF NothingDangles, None
  <1>8. From(refs', heap', o) = From(refs', Objects, o) /\ From(refs', Objects, o) \in Nat
    BY <1>4, <1>7, FromAllocated, FromNat
  <1>9. Held(Counting(o), o)' = From(refs', Objects, o)
    BY <1>6, <1>8 DEF Held, From
  <1>10. (IF phase' = "later" THEN later'[o] ELSE 0) = later'[o]
    BY <1>3, <1>4 DEF Quiet, None
  <1>11. o \in heap' \ InSeq(draining)'
    BY DEF InSeq
  <1>12. count'[o] = locals'[o] + Held(Counting(o), o)' + (IF phase' = "later" THEN later'[o] ELSE 0)
    BY <1>1, <1>11 DEF CountsExact
  <1> QED
    BY <1>8, <1>9, <1>10, <1>12 DEF Owed

\* What a released reference leaves alone may be an island, and is suspected;
\* if it takes no part, what refers to it was one before.
LEMMA ReleaseMeets ==
  ASSUME Core, Core', NoCycle(refs'), Met(refs, locals, later, Objs, buffered),
         phase \in Quiet, phase' = phase, NEW o \in Objs, Release(o), heap' = heap,
         \A x \in Objects \ {o} : /\ locals'[x] = locals[x] /\ later'[x] = later[x]
                                  /\ \A p \in Objects : refs'[p][x] = refs[p][x]
  PROVE  Met(refs', locals', later', Objs', buffered')
  <1>1. /\ TypeOK /\ BufferExact /\ draining \in Seq(Objects) /\ Once(draining) /\ o \in Objects
        /\ count \in [Objects -> Nat] /\ count' \in [Objects -> Nat] /\ o \notin InSeq(draining)
        /\ Objs' \subseteq Objs /\ o \in heap
    BY TypeFacts, ObjsAre, ReleaseLoses DEF Core, NothingDangles, Once, TypeOK, Objs, Gone
  <1>2. buffered \subseteq buffered'
    BY <1>1, SuspectEffect DEF Release, buffer
  <1>3. ASSUME NEW T \in SUBSET Objects, Isle(refs', locals', later', Objs', T), o \notin T
        PROVE  T \intersect buffered' # {}
    <2>1. \A x \in T : x \in Objects \ {o}
      BY <1>3
    <2>2. Apart(refs, T) /\ \A x \in T : locals[x] = 0 /\ later[x] = 0
      BY <1>3, <2>1 DEF Isle, Apart
    <2>3. Isle(refs, locals, later, Objs, T)
      BY <1>1, <1>3, <2>2 DEF Isle
    <2> QED
      BY <1>2, <2>3 DEF Met
  <1>4. ASSUME NEW S \in SUBSET Objects, Isle(refs', locals', later', Objs', S), o \in S
        PROVE  S \intersect buffered' # {}
    <2>1. o \in heap' /\ o \notin InSeq(draining') /\ locals'[o] = 0 /\ later'[o] = 0 /\ Apart(refs', S)
      <3>1. InSeq(draining)' = InSeq(draining')
        BY DEF InSeq
      <3> QED
        BY <1>4, <3>1 DEF Isle, Objs, Gone
    <2>2. count[o] # 1
      <3>1. count[o] = 1 => draining' = Queue(o)
        BY DEF Release
      <3> QED
        BY <1>1, <2>1, <3>1, QueueFacts
    <2>3. count' = [count EXCEPT ![o] = @ - 1] /\ Suspect(o)
      BY <2>2 DEF Release
    <2>4. CASE o \in Cyclic
      <3>1. o \in buffered'
        BY <2>3, <2>4 DEF Suspect, NewSuspect, buffer
      <3> QED
        BY <1>4, <3>1
    <2>5. CASE o \notin Cyclic
      <3>1. count'[o] = count[o] - 1 /\ count'[o] \in Nat /\ count[o] \in Nat
        BY <1>1, <2>3
      <3>2. count'[o] # 0
        BY <2>2, <3>1
      <3>3. /\ refs' \in Tables /\ locals' \in [Objects -> Nat] /\ later' \in [Objects -> Nat]
        BY TypesAfter DEF Core
      <3>4. Owed(refs', locals', later', o) # 0
        BY <2>1, <3>2, CountsAfter
      <3>5. \E p \in Objects : refs'[p][o] # 0
        <4>1. Owed(refs', locals', later', o) = 0
                <=> locals'[o] + later'[o] = 0 /\ \A p \in Objects : refs'[p][o] = 0
          BY <1>1, <3>3, OwedZero
        <4> QED
          BY <2>1, <3>4, <4>1
      <3>6. PICK p \in Objects : refs'[p][o] > 0
        BY <1>1, <3>3, <3>5, Sizes DEF Tables
      <3>7. PICK T \in SUBSET S : T # {} /\ o \notin T /\ Apart(refs', T)
        BY <1>4, <2>1, <2>5, <3>6, CutOff
      <3>8. Isle(refs', locals', later', Objs', T)
        BY <1>4, <3>7 DEF Isle
      <3> QED
        BY <1>3, <3>7, <3>8
    <2> QED
      BY <2>4, <2>5
  <1> QED
    BY <1>3, <1>4 DEF Met

\* The parts of NoLeak that steps keep; the rest follows when nothing is under way.
LeakInv == NoPlainCycle /\ IslandsInv

LEMMA QuietLeak ==
  /\ phase \in Quiet => (LeakInv <=> NoCycle(refs) /\ Met(refs, locals, later, Objs, buffered))
  /\ phase' \in Quiet => (LeakInv' <=> NoCycle(refs') /\ Met(refs', locals', later', Objs', buffered'))
  <1>1. LeakInv' <=> NoPlainCycle' /\ IslandsInv'
    BY DEF LeakInv
  <1> QED
    BY <1>1, QuietIslands, NoCycleIs DEF LeakInv

\* A quiet step that makes no cycle and no island.
LEMMA QuietMeets ==
  ASSUME Core, LeakInv, phase \in Quiet, phase' \in Quiet,
         NoCycle(refs'), Objs' \subseteq Objects, buffered \intersect Objs' \subseteq buffered',
         \A o \in Objs' : locals'[o] = 0 /\ later'[o] = 0 =>
           /\ o \in Objs /\ locals[o] = 0 /\ later[o] = 0
           /\ \A p \in Objects : refs[p][o] > 0 => refs'[p][o] > 0
  PROVE  LeakInv'
  <1>1. Met(refs, locals, later, Objs, buffered)
    BY QuietLeak
  <1>2. Met(refs', locals', later', Objs', buffered')
    BY <1>1, NoNewIsland
  <1> QED
    BY <1>2, QuietLeak

LEMMA ReleaseNoLeak ==
  ASSUME Core, Core', LeakInv, phase \in Quiet, phase' = phase, NEW o \in Objs, Release(o), heap' = heap,
         \A p, x \in Objects : refs'[p][x] > 0 => refs[p][x] > 0,
         \A x \in Objects \ {o} : /\ locals'[x] = locals[x] /\ later'[x] = later[x]
                                  /\ \A p \in Objects : refs'[p][x] = refs[p][x]
  PROVE  LeakInv'
  <1>1. NoCycle(refs) /\ Met(refs, locals, later, Objs, buffered)
    BY QuietLeak
  <1>2. NoCycle(refs')
    BY <1>1, NoCycleShrinks
  <1>3. Met(refs', locals', later', Objs', buffered')
    BY <1>1, <1>2, ReleaseMeets
  <1> QED
    BY <1>2, <1>3, QuietLeak

\* The references after one is taken away.
LEMMA OneRefLess ==
  ASSUME Core, NEW p \in Objects, NEW o \in Objects, refs[p][o] > 0,
         refs' = [refs EXCEPT ![p][o] = @ - 1]
  PROVE  /\ \A q, x \in Objects : refs'[q][x] > 0 => refs[q][x] > 0
         /\ \A x \in Objects \ {o}, q \in Objects : refs'[q][x] = refs[q][x]
  <1>1. refs \in [Objects -> [Objects -> 0 .. MaxRefs]]
    BY DEF Core, TypeOK
  <1> QED
    BY <1>1, Sizes

LEMMA NewNoLeak == ASSUME Core, Core', LeakInv, NEW o \in Objects, New(o) PROVE LeakInv'
  <1>1. /\ o \notin heap /\ heap' = heap \union {o} /\ locals' = [locals EXCEPT ![o] = 1]
        /\ count' = [count EXCEPT ![o] = 1] /\ buffered' = buffered \ {o}
        /\ refs' = refs /\ draining' = draining /\ phase' = phase /\ later' = later
        /\ phase \in Quiet
    BY DEF New, collector, walk, Idle, Quiet
  <1>2. /\ TypeOK /\ BufferExact /\ buffered \subseteq heap /\ heap \subseteq Objects
        /\ count \in [Objects -> Nat] /\ locals \in [Objects -> Nat]
    BY TypeFacts DEF Core, BufferExact
  <1>3. Swept' = Swept /\ buffered' = buffered
    BY <1>1, <1>2 DEF Swept
  <1>4. Objs' \subseteq Objs \union {o}
    BY <1>1, <1>3, QuietGone DEF Objs
  <1>5. NoCycle(refs') /\ Objs' \subseteq Objects
    BY <1>1, <1>4, QuietLeak, ObjsAre
  <1>6. \A x \in Objs' : locals'[x] = 0 => x \in Objs /\ locals[x] = 0
    BY <1>1, <1>2, <1>4, ObjsAre
  <1> QED
    BY <1>1, <1>3, <1>5, <1>6, QuietMeets

LEMMA StoreNoLeak ==
  ASSUME Core, Core', LeakInv, NEW p \in Objects, NEW o \in Objects, Store(p, o)
  PROVE  LeakInv'
  <1>1. /\ {p, o} \subseteq Reachable /\ refs' = [refs EXCEPT ![p][o] = @ + 1] /\ Retain(o)
        /\ heap' = heap /\ locals' = locals /\ later' = later /\ draining' = draining
        /\ UNCHANGED buffer /\ phase' = phase /\ Idle /\ phase \in Quiet /\ MayHold(p, o)
    BY DEF Store, collector, walk, Idle, Quiet
  <1>2. o \in Objs
    BY <1>1, KeptFollows DEF Core, Objs
  <1>3. Objs' \subseteq Objs /\ Objs \subseteq Objects /\ buffered' = buffered
    BY <1>1, <1>2, RetainLoses, ObjsAre DEF buffer
  <1>4. \A q, x \in Objects : /\ refs[q][x] > 0 => refs'[q][x] > 0
                              /\ refs'[q][x] > 0 => refs[q][x] > 0 \/ (q = p /\ x = o)
    <2>1. refs \in [Objects -> [Objects -> 0 .. MaxRefs]]
      BY DEF Core, TypeOK
    <2> QED
      BY <1>1, <2>1, Sizes
  <1>5. \A x \in Reach(refs, {o}) : p \in Reach(refs, {x}) => x \in Cyclic
    BY <1>1, ReachIs DEF MayHold
  <1>6. NoCycle(refs)
    BY <1>1, QuietLeak
  <1>7. NoCycle(refs')
    <2>1. OneEdgeMore(refs, refs', p, o)
      BY <1>4 DEF OneEdgeMore
    <2>2. MayAdd(refs, p, o)
      BY <1>5 DEF MayAdd
    <2> QED
      BY <1>6, <2>1, <2>2, NoCycleGrows
  <1> QED
    BY <1>1, <1>3, <1>4, <1>7, QuietMeets

LEMMA LoadsNoLeak ==
  ASSUME Core, Core', LeakInv, NEW o \in Objects, Load(o) \/ Upgrade(o)
  PROVE  LeakInv'
  <1>1. /\ o \in Reachable \union weak /\ locals' = [locals EXCEPT ![o] = @ + 1] /\ Retain(o)
        /\ heap' = heap /\ refs' = refs /\ later' = later /\ draining' = draining
        /\ UNCHANGED buffer /\ phase' = phase /\ Idle /\ phase \in Quiet
    BY DEF Load, Upgrade, collector, walk, Idle, Quiet
  <1>2. o \in Objs
    BY <1>1, KeptFollows, ObjsAre DEF Core, Objs
  <1>3. Objs' \subseteq Objs /\ Objs \subseteq Objects /\ buffered' = buffered
    BY <1>1, <1>2, RetainLoses, ObjsAre DEF buffer
  <1>4. \A x \in Objs' : locals'[x] = 0 => locals[x] = 0
    <2>1. locals \in [Objects -> Nat]
      BY TypeFacts DEF Core
    <2> QED
      BY <1>1, <1>3, <2>1
  <1>5. NoCycle(refs')
    BY <1>1, QuietLeak
  <1> QED
    BY <1>1, <1>3, <1>4, <1>5, QuietMeets

LEMMA DropNoLeak == ASSUME Core, Core', LeakInv, NEW o \in Objects, Drop(o) PROVE LeakInv'
  <1>1. /\ locals[o] > 0 /\ locals' = [locals EXCEPT ![o] = @ - 1] /\ Release(o)
        /\ heap' = heap /\ refs' = refs /\ later' = later /\ phase' = phase /\ phase \in Quiet
    BY DEF Drop, collector, walk, Idle, Quiet
  <1>2. o \in Objs
    BY <1>1, ObjsAre
  <1>3. \A x \in Objects \ {o} : locals'[x] = locals[x]
    <2>1. locals \in [Objects -> Nat]
      BY TypeFacts DEF Core
    <2> QED
      BY <1>1, <2>1
  <1> QED
    BY <1>1, <1>2, <1>3, ReleaseNoLeak

LEMMA ClearNoLeak ==
  ASSUME Core, Core', LeakInv, NEW p \in Objects, NEW o \in Objects, Clear(p, o)
  PROVE  LeakInv'
  <1>1. /\ refs[p][o] > 0 /\ refs' = [refs EXCEPT ![p][o] = @ - 1] /\ Release(o)
        /\ heap' = heap /\ locals' = locals /\ later' = later /\ phase' = phase /\ phase \in Quiet
    BY DEF Clear, collector, walk, Idle, Quiet
  <1>2. o \in Objs
    BY <1>1, ObjsAre
  <1> QED
    BY <1>1, <1>2, OneRefLess, ReleaseNoLeak

LEMMA ReleaseGlueNoLeak == ASSUME Core, Core', LeakInv, NEW o \in Objects, ReleaseGlue(o) PROVE LeakInv'
  <1> DEFINE b == Head(draining)
  <1>1. /\ draining # <<>> /\ refs[b][o] > 0 /\ refs' = [refs EXCEPT ![b][o] = @ - 1] /\ Release(o)
        /\ heap' = heap /\ locals' = locals /\ later' = later /\ phase' = phase
    BY DEF ReleaseGlue, collector, walk
  <1>2. phase \in Quiet /\ draining \in Seq(Objects)
    BY <1>1 DEF Core, TypeOK, PhasesInv, Quiet
  <1>3. b \in Objects
    BY <1>1, <1>2
  <1>4. o \in Objs
    BY <1>1, <1>3, ObjsAre
  <1> HIDE DEF b
  <1> QED
    BY <1>1, <1>2, <1>3, <1>4, OneRefLess, ReleaseNoLeak

LEMMA ReleaseLaterNoLeak == ASSUME Core, Core', LeakInv, NEW o \in Objects, ReleaseLater(o) PROVE LeakInv'
  <1>1. /\ phase = "later" /\ later[o] > 0 /\ later' = [later EXCEPT ![o] = @ - 1] /\ Release(o)
        /\ heap' = heap /\ refs' = refs /\ locals' = locals /\ phase' = phase
    BY DEF ReleaseLater, program
  <1>2. o \in Objs
    <2>1. locals[o] \in Nat /\ later[o] \in Nat
      BY TypeFacts DEF Core
    <2>2. Names(o)
      BY <1>1, <2>1 DEF Names
    <2> QED
      BY <2>2 DEF Core, NothingDangles, Objs
  <1>3. \A x \in Objects \ {o} : later'[x] = later[x]
    <2>1. later \in [Objects -> Nat]
      BY TypeFacts DEF Core
    <2> QED
      BY <1>1, <2>1
  <1> QED
    BY <1>1, <1>2, <1>3, ReleaseNoLeak DEF Quiet

LEMMA TakeBoxNoLeak == ASSUME Core, Core', LeakInv, NEW o \in Objects, TakeBox(o) PROVE LeakInv'
  <1>1. /\ locals[o] = 1 /\ locals' = [x \in Objects |-> IF x = o THEN 0 ELSE locals[x] + refs[o][x]]
        /\ refs' = [refs EXCEPT ![o] = None] /\ Free({o}) /\ later' = later
        /\ draining' = draining /\ roots' = roots /\ buffered' = buffered
        /\ candidates' = candidates /\ phase' = phase /\ phase \in Quiet
    BY DEF TakeBox, collector, walk, Idle, Quiet
  <1>2. o \in Objs
    BY <1>1, ObjsAre
  <1>3. Objs' \subseteq Objs \ {o} /\ Objs \subseteq Objects
    <2>1. o \in heap /\ o \notin CountGone
      BY <1>2 DEF Objs, Gone
    <2>2. heap' \ CountGone' = (heap \ CountGone) \ {o}
      BY <1>1, <2>1, FreeOne DEF Core
    <2>3. InSeq(draining)' = InSeq(draining)
      BY <1>1 DEF InSeq
    <2> QED
      BY <2>2, <2>3, ObjsAre DEF Objs, Gone
  <1>4. /\ refs \in [Objects -> [Objects -> 0 .. MaxRefs]] /\ locals \in [Objects -> Nat]
        /\ \A x \in Objects : refs[o][x] \in Nat
    BY TypeFacts, ObjsAre DEF Core, TypeOK
  <1>5. NoCycle(refs')
    <2>1. \A p, x \in Objects : refs'[p][x] > 0 => refs[p][x] > 0
      BY <1>1, <1>4 DEF None
    <2> QED
      BY <1>1, <2>1, QuietLeak, NoCycleShrinks
  <1>6. ASSUME NEW x \in Objs', locals'[x] = 0
        PROVE  locals[x] = 0 /\ \A p \in Objects : refs[p][x] > 0 => refs'[p][x] > 0
    <2>1. x \in Objects /\ x # o
      BY <1>3, <1>6
    <2>2. locals[x] + refs[o][x] = 0
      BY <1>1, <1>6, <2>1
    <2>3. locals[x] = 0 /\ refs[o][x] = 0
      BY <1>4, <2>1, <2>2
    <2>4. \A p \in Objects \ {o} : refs'[p] = refs[p]
      BY <1>1, <1>4
    <2> QED
      BY <2>3, <2>4
  <1> QED
    BY <1>1, <1>3, <1>5, <1>6, QuietMeets

\* Frames and weak references make no island.
LEMMA SameNoLeak ==
  ASSUME Core, LeakInv, phase \in Quiet,
         UNCHANGED <<heap, words, draining, buffer, phase>>,
         refs' = refs, locals' = locals, later' = later
  PROVE  LeakInv'
  <1>1. Objs' = Objs /\ Objs \subseteq Objects /\ buffered' = buffered /\ phase' = phase
    BY BlocksStay, ObjsAre DEF buffer
  <1>2. NoCycle(refs')
    BY QuietLeak
  <1> QED
    BY <1>1, <1>2, QuietMeets

LEMMA FramesNoLeak == ASSUME Core, LeakInv, NEW f \in Frames, Run(f) \/ Suspend(f) PROVE LeakInv'
  <1>1. /\ UNCHANGED <<heap, words, draining, buffer, phase>> /\ phase \in Quiet
        /\ refs' = refs /\ locals' = locals /\ later' = later
    BY DEF Run, Suspend, collector, walk, Idle, Quiet
  <1> QED
    BY <1>1, SameNoLeak

LEMMA WeakNoLeak == ASSUME Core, LeakInv, NEW o \in Objects, MakeWeak(o) \/ ForgetWeak(o) PROVE LeakInv'
  <1>1. /\ UNCHANGED <<heap, words, draining, buffer, phase>> /\ phase \in Quiet
        /\ refs' = refs /\ locals' = locals /\ later' = later
    BY DEF MakeWeak, ForgetWeak, program, collector, walk, Idle, Quiet
  <1> QED
    BY <1>1, SameNoLeak

LEMMA FreeDrainedNoLeak == ASSUME Core, LeakInv, FreeDrained PROVE LeakInv'
  <1> DEFINE b == Head(draining)
  <1>1. /\ draining # <<>> /\ Free({b}) /\ draining' = Tail(draining)
        /\ refs' = refs /\ locals' = locals /\ later' = later
        /\ roots' = roots /\ buffered' = buffered /\ candidates' = candidates /\ phase' = phase
    BY DEF FreeDrained, program, collector, walk
  <1>2. /\ phase \in Quiet /\ draining \in Seq(Objects) /\ Once(draining)
        /\ TypeOK /\ BufferExact
    BY <1>1 DEF Core, TypeOK, NothingDangles, Once, PhasesInv, Quiet
  <1>3. InSeq(draining') = InSeq(draining) \ {b}
    BY <1>1, <1>2, TailFacts
  <1>4. b \in heap /\ b \notin CountGone
    <2>1. b \in InSeq(draining)
      BY <1>1, <1>2 DEF InSeq
    <2>2. b \in heap /\ count[b] = 1
      BY <2>1 DEF Core, NothingDangles
    <2> QED
      BY <2>2 DEF CountGone, Swept
  <1> HIDE DEF b
  <1>5. heap' \ CountGone' = (heap \ CountGone) \ {b}
    BY <1>1, <1>2, <1>4, FreeOne
  <1>6. InSeq(draining)' = InSeq(draining')
    BY DEF InSeq
  <1>7. Objs' \subseteq Objs /\ Objs \subseteq Objects
    BY <1>3, <1>5, <1>6, ObjsAre DEF Objs, Gone
  <1>8. NoCycle(refs')
    BY <1>1, <1>2, QuietLeak
  <1> QED
    BY <1>1, <1>2, <1>7, <1>8, QuietMeets

LEMMA FinishNoLeak == ASSUME Core, LeakInv, Finish PROVE LeakInv'
  <1>1. /\ phase = "later" /\ phase' = "idle" /\ heap' = heap /\ refs' = refs
        /\ locals' = locals /\ draining' = draining /\ later' = later
        /\ count' = count /\ buffered' = buffered
    BY DEF Finish, program, words
  <1>2. Gone' = Gone
    <2>1. Swept' = Swept
      BY <1>1 DEF Swept
    <2> QED
      BY <1>1, <2>1, QuietGone DEF Quiet
  <1>3. Objs' = Objs /\ Objs \subseteq Objects
    BY <1>1, <1>2, ObjsAre DEF Objs
  <1>4. NoCycle(refs')
    BY <1>1, QuietLeak DEF Quiet
  <1> QED
    BY <1>1, <1>3, <1>4, QuietMeets DEF Quiet

\* Islands during a walk.

LEMMA IslandParts ==
  ASSUME Core, NEW S \in SUBSET Cyclic, Island(S)
  PROVE  /\ \A o \in S : TakesPart(o) /\ o \in heap /\ o \in Objects /\ o # Gap
         /\ \A o \in S : locals[o] = 0 /\ \A p \in Objects : refs[p][o] > 0 => p \in S
  <1>1. \A o \in S : o \in heap /\ locals[o] = 0 /\ \A p \in Objects : refs[p][o] > 0 => p \in S
    BY DEF Island
  <1>2. \A f \in running : locals[f] > 0
    BY DEF Core, NothingDangles
  <1>3. \A o \in S : o \in Objects /\ o # Gap
    BY Kinds
  <1> QED
    BY <1>1, <1>2, <1>3 DEF TakesPart

LEMMA IslandStays ==
  ASSUME Core, phase \in Walking, heap' \subseteq heap, refs' = refs, locals' = locals,
         \A o \in Objects : later'[o] = 0 => later[o] = 0,
         NEW S \in SUBSET Objects, Island(S)'
  PROVE  Island(S)
  <1>1. Gone = {}
    BY WalkIs
  <1>2. Isle(refs', locals', later', Objs', S)
    BY DEF Island, Isle, Apart, Objs
  <1>3. Isle(refs, locals, later, Objs, S)
    BY <1>1, <1>2 DEF Isle, Objs
  <1> QED
    BY <1>3, IslandIs

\* A step within the walks: what it has to show of the islands that were there.
LEMMA WalkNoLeak ==
  ASSUME Core, LeakInv, phase \in Walking, phase' \in Walking,
         heap' = heap, refs' = refs, locals' = locals,
         \A o \in Objects : later'[o] = 0 => later[o] = 0,
         \A o \in heap \ Cyclic : count'[o] = count[o],
         phase' = "mark" => \A p \in Colored("gray")' \ Entries("mark")', o \in Objects :
                              refs[p][o] > 0 /\ TakesPart(o)' => color'[o] = "gray",
         \A S \in SUBSET Cyclic : Island(S) =>
           /\ phase' = "mark" => S \intersect (Colored("gray")' \union RootsIn(at .. Len(roots))') # {}
           /\ phase' = "scan" => S \subseteq NotBlackYet'
           /\ phase' = "collect" => S \subseteq Colored("white")' \union garbage'
  PROVE  LeakInv'
  <1>1. \A S \in SUBSET Cyclic : Island(S)' => Island(S)
    BY IslandStays, Kinds
  <1>2. phase \notin {"idle", "later"} /\ phase' \notin {"idle", "later"}
    BY DEF Walking
  <1>3. \A o \in heap' \ Cyclic : count'[o] > 0
    BY <1>2 DEF LeakInv, IslandsInv
  <1>4. \A S \in SUBSET Cyclic : Island(S)' =>
           /\ phase' = "mark" => S \intersect (Colored("gray")' \union RootsIn(at .. Len(roots))') # {}
           /\ phase' = "scan" => S \subseteq NotBlackYet'
           /\ phase' = "collect" => S \subseteq Colored("white")' \union garbage'
    BY <1>1
  <1>5. IslandsInv'
    BY <1>2, <1>3, <1>4 DEF IslandsInv
  <1>6. NoPlainCycle'
    BY NoCycleIs DEF LeakInv
  <1> QED
    BY <1>5, <1>6 DEF LeakInv

\* What LeakInv says of the islands in each of the walks.
LEMMA WalkingIslands ==
  ASSUME Core, LeakInv, NEW S \in SUBSET Cyclic, Island(S)
  PROVE  /\ phase = "mark" => S \intersect (Of(color, "gray") \union RootsOf(roots, at .. Len(roots))) # {}
         /\ phase = "scan" => S \subseteq Painted(color)
         /\ phase = "collect" => S \subseteq Of(color, "white") \union garbage
  BY Plain DEF LeakInv, IslandsInv, RootsIn, RootsOf

LEMMA SkipRootNoLeak == ASSUME Core, LeakInv, SkipRoot PROVE LeakInv'
  <1>1. /\ phase \in Walking /\ phase' = phase /\ at <= Len(roots) /\ Skipped /\ at' = at + 1
        /\ heap' = heap /\ refs' = refs /\ locals' = locals /\ running' = running
        /\ count' = count /\ color' = color /\ roots' = roots /\ stack' = stack
        /\ garbage' = garbage /\ later' = later
    BY DEF SkipRoot, AtRoot, Walking, still, program, words, buffer
  <1>2. at \in 1 .. Len(roots) /\ Len(roots) \in Nat
    BY <1>1 DEF Core, TypeOK
  <1>3. RootsOf(roots, at .. Len(roots)) = RootsOf(roots, at + 1 .. Len(roots)) \union {roots[at]}
    BY <1>2, RootsStep
  <1>4. ASSUME NEW S \in SUBSET Cyclic, Island(S)
        PROVE  /\ phase' = "mark" => S \intersect (Colored("gray")' \union RootsIn(at .. Len(roots))') # {}
               /\ phase' = "scan" => S \subseteq NotBlackYet'
               /\ phase' = "collect" => S \subseteq Colored("white")' \union garbage'
    <2>1. roots[at] \notin S
      BY <1>1, <1>4, IslandParts DEF Skipped
    <2>2. RootsIn(at .. Len(roots))' = RootsOf(roots, at + 1 .. Len(roots))
      BY <1>1 DEF RootsIn, RootsOf
    <2> QED
      BY <1>1, <1>3, <1>4, <2>1, <2>2, WalkingIslands, Plain
  <1>5. phase' = "mark" => \A p \in Colored("gray")' \ Entries("mark")', o \in Objects :
                             refs[p][o] > 0 /\ TakesPart(o)' => color'[o] = "gray"
    BY <1>1 DEF LeakInv, IslandsInv, Colored, Entries, TakesPart
  <1> QED
    BY <1>1, <1>4, <1>5, WalkNoLeak

LEMMA MarkRootNoLeak == ASSUME Core, LeakInv, MarkRoot PROVE LeakInv'
  <1> DEFINE r == roots[at]
  <1>1. /\ phase = "mark" /\ phase' = phase /\ at <= Len(roots) /\ at' = at + 1 /\ stack = {}
        /\ heap' = heap /\ refs' = refs /\ locals' = locals /\ running' = running
        /\ count' = count /\ later' = later /\ phase \in Walking
        /\ \/ color[r] = "gray" /\ roots' = [roots EXCEPT ![at] = Gap] /\ color' = color /\ stack' = stack
           \/ Paint({r}, "gray") /\ stack' = {<<r, "mark">>} /\ roots' = roots
    BY DEF MarkRoot, AtRoot, Walking, still, program, buffer, DropRoot, Marked
  <1>2. /\ at \in 1 .. Len(roots) /\ Len(roots) \in Nat /\ roots \in Seq(Objects \union {Gap})
        /\ color \in [Objects -> {"black", "gray", "white"}]
    BY <1>1 DEF Core, TypeOK
  <1>3. r \in Objects
    <2>1. r # Gap /\ r \in Objects \union {Gap}
      BY <1>2 DEF MarkRoot, Skipped
    <2> QED
      BY <2>1
  <1>4. RootsOf(roots, at .. Len(roots)) = RootsOf(roots, at + 1 .. Len(roots)) \union {r}
    BY <1>2, RootsStep
  <1> HIDE DEF r
  <1>5. Of(color, "gray") \union {r} \subseteq Of(color', "gray")
    BY <1>1, <1>2, <1>3 DEF Paint, Of
  <1>6. Of(color', "gray") \subseteq Of(color, "gray") \union {r}
    BY <1>1, <1>2, <1>3 DEF Paint, Of
  <1>7. RootsIn(at .. Len(roots))' = RootsOf(roots, at + 1 .. Len(roots))
    <2>1. Len(roots') = Len(roots) /\ \A i \in at + 1 .. Len(roots) : roots'[i] = roots[i]
      BY <1>1, <1>2
    <2>2. RootsIn(at .. Len(roots))' = {roots'[i] : i \in at + 1 .. Len(roots)}
      BY <1>1, <2>1 DEF RootsIn
    <2> QED
      BY <2>1, <2>2 DEF RootsOf
  <1>8. ASSUME NEW S \in SUBSET Cyclic, Island(S)
        PROVE  S \intersect (Colored("gray")' \union RootsIn(at .. Len(roots))') # {}
    BY <1>1, <1>4, <1>5, <1>7, <1>8, WalkingIslands, Plain
  <1>9. ASSUME NEW p \in Colored("gray")' \ Entries("mark")', NEW o \in Objects,
               refs[p][o] > 0, TakesPart(o)'
        PROVE  color'[o] = "gray"
    <2>1. Of(color, "gray") \ In(stack, "mark") = Of(color, "gray")
      BY <1>1 DEF In
    <2>2. p \in Of(color, "gray")
      <3>1. p \in Of(color', "gray") /\ p \notin In(stack', "mark")
        BY <1>9, Plain
      <3>2. CASE color' = color
        BY <3>1, <3>2
      <3>3. CASE stack' = {<<r, "mark">>}
        <4>1. r \in In(stack', "mark")
          BY <1>3, <3>3 DEF In
        <4> QED
          BY <1>6, <3>1, <4>1
      <3> QED
        BY <1>1, <3>2, <3>3
    <2>3. color[o] = "gray"
      <3>1. p \in Colored("gray") \ Entries("mark") /\ TakesPart(o)
        BY <1>1, <1>9, <2>1, <2>2, Plain DEF TakesPart
      <3> QED
        BY <1>1, <1>9, <3>1 DEF LeakInv, IslandsInv
    <2> QED
      BY <1>5, <2>3 DEF Of
  <1> QED
    BY <1>1, <1>8, <1>9, WalkNoLeak

LEMMA MarkNoLeak == ASSUME Core, LeakInv, NEW b, Mark(b) PROVE LeakInv'
  <1>1. /\ phase' = phase /\ at' = at /\ roots' = roots /\ heap' = heap /\ refs' = refs
        /\ locals' = locals /\ running' = running /\ later' = later /\ <<b, "mark">> \in stack
    BY DEF Mark, still, program, buffer
  <1>2. TypeOK /\ PhasesInv /\ color \in [Objects -> {"black", "gray", "white"}]
    BY DEF Core, TypeOK
  <1>3. phase = "mark" /\ phase \in Walking
    BY <1>1, <1>2 DEF PhasesInv, HowsOf, Walking, TypeOK, Phases
  <1>4. Enters(b)
    BY <1>1, <1>2 DEF PhasesInv, Enters
  <1> DEFINE E == Entered(refs[b])
             fresh == {o \in E : color[o] # "gray"}
  <1>5. TakeCounts(refs[b]) /\ Paint(fresh, "gray") /\ Walk(<<b, "mark">>, fresh, "mark")
    BY <1>3, <1>4, SeenFacts DEF Mark
  <1>6. E \subseteq Objects /\ \A o \in Objects : refs[b][o] > 0 /\ TakesPart(o) => o \in E
    BY <1>3, <1>4, SeenFacts
  <1>7. \A o \in heap \ Cyclic : count'[o] = count[o]
    BY <1>2, <1>5 DEF TakeCounts, TakesPart, TypeOK
  <1> HIDE DEF E
  <1>8. Of(color', "gray") = Of(color, "gray") \union E
    BY <1>2, <1>5, <1>6 DEF Paint, Of
  <1>9. In(stack', "mark") = (In(stack, "mark") \ {b}) \union fresh
    BY <1>5, <1>6 DEF Walk, In
  <1>10. ASSUME NEW S \in SUBSET Cyclic, Island(S)
         PROVE  S \intersect (Colored("gray")' \union RootsIn(at .. Len(roots))') # {}
    <2>1. RootsIn(at .. Len(roots))' = RootsOf(roots, at .. Len(roots))
      BY <1>1 DEF RootsIn, RootsOf
    <2> QED
      BY <1>3, <1>8, <1>10, <2>1, WalkingIslands, Plain
  <1>11. ASSUME NEW p \in Colored("gray")' \ Entries("mark")', NEW o \in Objects,
                refs[p][o] > 0, TakesPart(o)'
         PROVE  color'[o] = "gray"
    <2>1. p \in Of(color', "gray") /\ p \notin In(stack', "mark") /\ TakesPart(o)
      BY <1>1, <1>11, Plain DEF TakesPart
    <2>2. p \in Of(color, "gray")
      <3>1. p \in E => color[p] = "gray"
        BY <1>9, <2>1
      <3> QED
        BY <1>6, <1>8, <2>1, <3>1 DEF Of
    <2>3. o \in Of(color', "gray")
      <3>1. CASE p = b
        BY <1>6, <1>8, <1>11, <2>1, <3>1
      <3>2. CASE p # b
        <4>1. p \notin In(stack, "mark")
          BY <1>9, <2>1, <3>2
        <4>2. p \in Colored("gray") \ Entries("mark")
          BY <2>2, <4>1, Plain
        <4>3. color[o] = "gray"
          BY <1>3, <1>11, <2>1, <4>2 DEF LeakInv, IslandsInv
        <4> QED
          BY <1>8, <4>3 DEF Of
      <3> QED
        BY <3>1, <3>2
    <2> QED
      BY <2>3 DEF Of
  <1> QED
    BY <1>1, <1>3, <1>7, <1>10, <1>11, WalkNoLeak

\* In a scan, what an island holds has no count left, and is not restored.
LEMMA ScannedIsland ==
  ASSUME Core, LeakInv, phase = "scan", NEW S \in SUBSET Cyclic, Island(S)
  PROVE  /\ S \subseteq Painted(color) /\ \A b \in S : count[b] = 0
         /\ \A b \in In(stack, "restore"), o \in S : refs[b][o] = 0
  <1>1. phase \in Walking /\ TypeOK /\ PhasesInv /\ refs \in Tables /\ locals \in [Objects -> Nat]
    BY TypeFacts DEF Core, Walking
  <1>2. S \subseteq Painted(color)
    BY WalkingIslands
  <1>3. S \subseteq TakenOff
    <2>1. \A p : <<p, "mark">> \notin stack
      <3>1. \A e \in stack : e[2] # "mark"
        BY <1>1 DEF PhasesInv, HowsOf
      <3> QED
        BY <3>1
    <2> QED
      BY <1>2, <2>1, IslandParts DEF TakenOff, Painted, Of
  <1>4. ASSUME NEW b \in S PROVE count[b] = 0
    <2>1. b \in heap /\ TakesPart(b) /\ locals[b] = 0 /\ b \in Objects
      BY IslandParts
    <2>2. \A p \in Objects \ TakenOff : refs[p][b] = 0
      <3>1. \A p \in Objects : refs[p][b] \in Nat
        BY <2>1, ObjsAre
      <3> QED
        BY <1>3, <3>1, IslandParts
    <2>3. From(refs, Objects \ TakenOff, b) = 0
      BY <1>1, <2>1, <2>2, FromZero
    <2>4. count[b] = Left(refs, locals, TakenOff, b)
      BY <1>1, <2>1, WalkIs
    <2> QED
      BY <2>1, <2>3, <2>4 DEF Left
  <1>5. ASSUME NEW b \in In(stack, "restore"), NEW o \in S PROVE refs[b][o] = 0
    <2>1. b \notin Painted(color) /\ b \in Objects
      BY <1>1, Plain DEF PhasesInv, In
    <2>2. o \in Objects /\ refs[b][o] \in Nat /\ (refs[b][o] > 0 => b \in S)
      BY <2>1, IslandParts, ObjsAre
    <2> QED
      BY <1>2, <2>1, <2>2
  <1> QED
    BY <1>2, <1>4, <1>5

LEMMA ScanRootNoLeak == ASSUME Core, LeakInv, ScanRoot PROVE LeakInv'
  <1>1. /\ phase = "scan" /\ phase' = phase /\ phase \in Walking
        /\ heap' = heap /\ refs' = refs /\ locals' = locals /\ count' = count
        /\ color' = color /\ later' = later
    BY DEF ScanRoot, AtRoot, Walking, still, program, words
  <1>2. \A S \in SUBSET Cyclic : Island(S) => S \subseteq NotBlackYet'
    BY <1>1, WalkingIslands, Plain
  <1> QED
    BY <1>1, <1>2, WalkNoLeak

LEMMA ScanNoLeak == ASSUME Core, LeakInv, NEW b, Scan(b) PROVE LeakInv'
  <1>1. /\ phase' = phase /\ heap' = heap /\ refs' = refs /\ locals' = locals
        /\ count' = count /\ later' = later /\ <<b, "scan">> \in stack
    BY DEF Scan, still, program
  <1>2. TypeOK /\ PhasesInv /\ color \in [Objects -> {"black", "gray", "white"}]
    BY DEF Core, TypeOK
  <1>3. phase = "scan" /\ phase \in Walking
    BY <1>1, <1>2 DEF PhasesInv, HowsOf, Walking, TypeOK, Phases
  <1>4. \/ color' = color
        \/ count[b] > 0 /\ Paint({b}, "black")
        \/ Paint({b}, "white")
    BY DEF Scan, HeldOutside
  <1>5. ASSUME NEW S \in SUBSET Cyclic, Island(S) PROVE S \subseteq NotBlackYet'
    <2>1. S \subseteq Painted(color) /\ \A x \in S : count[x] = 0
      BY <1>3, <1>5, ScannedIsland
    <2>2. S \subseteq Painted(color')
      <3>1. CASE color' = color
        BY <2>1, <3>1
      <3>2. CASE count[b] > 0 /\ Paint({b}, "black")
        <4>1. b \notin S
          BY <2>1, <3>2
        <4> QED
          BY <2>1, <3>2, <4>1 DEF Paint, Painted, Of
      <3>3. CASE Paint({b}, "white")
        BY <2>1, <3>3 DEF Paint, Painted, Of
      <3> QED
        BY <1>4, <3>1, <3>2, <3>3
    <2> QED
      BY <2>2, Plain
  <1> QED
    BY <1>1, <1>3, <1>5, WalkNoLeak

LEMMA RestoreNoLeak == ASSUME Core, LeakInv, NEW b, Restore(b) PROVE LeakInv'
  <1>1. /\ phase' = phase /\ heap' = heap /\ refs' = refs /\ locals' = locals
        /\ later' = later /\ <<b, "restore">> \in stack
    BY DEF Restore, still, program
  <1>2. TypeOK /\ PhasesInv /\ b \in Objects
    BY <1>1 DEF Core, TypeOK
  <1>3. phase = "scan" /\ phase \in Walking
    BY <1>1, <1>2 DEF PhasesInv, HowsOf, Walking, TypeOK, Phases
  <1>4. Enters(b) /\ b \in In(stack, "restore")
    BY <1>1, <1>2 DEF PhasesInv, Enters, In
  <1>5. GiveCounts(refs[b]) /\ Paint(NotBlack(refs[b]), "black")
    BY <1>3, <1>4, SeenFacts DEF Restore
  <1>6. \A o \in heap \ Cyclic : count'[o] = count[o]
    BY <1>2, <1>5 DEF GiveCounts, TakesPart, TypeOK
  <1>7. ASSUME NEW S \in SUBSET Cyclic, Island(S) PROVE S \subseteq NotBlackYet'
    <2>1. S \subseteq Painted(color) /\ \A o \in S : refs[b][o] = 0
      BY <1>3, <1>4, <1>7, ScannedIsland
    <2>2. S \intersect NotBlack(refs[b]) = {}
      BY <2>1 DEF NotBlack, Entered
    <2>3. S \subseteq Painted(color')
      BY <1>5, <2>1, <2>2 DEF Paint, Painted, Of
    <2> QED
      BY <2>3, Plain
  <1> QED
    BY <1>1, <1>3, <1>6, <1>7, WalkNoLeak

LEMMA CollectRootNoLeak == ASSUME Core, LeakInv, CollectRoot PROVE LeakInv'
  <1>1. /\ phase = "collect" /\ phase' = phase /\ phase \in Walking
        /\ heap' = heap /\ refs' = refs /\ locals' = locals /\ count' = count /\ later' = later
        /\ \/ color' = color /\ garbage' = garbage
           \/ Paint({roots[at]}, "black") /\ garbage' = garbage \union {roots[at]}
    BY DEF CollectRoot, AtRoot, Walking, still, program
  <1>2. Of(color, "white") \union garbage \subseteq Of(color', "white") \union garbage'
    BY <1>1 DEF Paint, Of
  <1>3. \A S \in SUBSET Cyclic : Island(S) => S \subseteq Colored("white")' \union garbage'
    BY <1>1, <1>2, WalkingIslands, Plain
  <1> QED
    BY <1>1, <1>3, WalkNoLeak

LEMMA CollectNoLeak == ASSUME Core, LeakInv, NEW b, Collect(b) PROVE LeakInv'
  <1>1. /\ phase' = phase /\ heap' = heap /\ refs' = refs /\ locals' = locals
        /\ count' = count /\ <<b, "collect">> \in stack
    BY DEF Collect, program
  <1>2. TypeOK /\ PhasesInv /\ later \in [Objects -> Nat]
    BY DEF Core, TypeOK
  <1>3. phase = "collect" /\ phase \in Walking
    BY <1>1, <1>2 DEF PhasesInv, HowsOf, Walking, TypeOK, Phases
  <1>4. Enters(b)
    BY <1>1, <1>2 DEF PhasesInv, Enters
  <1> DEFINE fresh == {o \in Entered(refs[b]) : color[o] = "white"}
  <1>5. /\ Paint(fresh, "black") /\ garbage' = garbage \union fresh
        /\ later' = [o \in Objects |-> IF TakesPart(o) THEN later[o] ELSE later[o] + refs[b][o]]
    BY <1>3, <1>4, SeenFacts DEF Collect
  <1>6. \A o \in Objects : later'[o] = 0 => later[o] = 0
    <2>1. \A o \in Objects : refs[b][o] \in Nat
      BY <1>3, <1>4, SeenFacts
    <2> QED
      BY <1>2, <1>5, <2>1
  <1> HIDE DEF fresh
  <1>7. Of(color, "white") \union garbage \subseteq Of(color', "white") \union garbage'
    BY <1>5 DEF Paint, Of
  <1>8. \A S \in SUBSET Cyclic : Island(S) => S \subseteq Colored("white")' \union garbage'
    BY <1>3, <1>7, WalkingIslands, Plain
  <1> QED
    BY <1>1, <1>3, <1>6, <1>8, WalkNoLeak

LEMMA NextWalkNoLeak == ASSUME Core, Core', LeakInv, NextWalk PROVE LeakInv'
  <1>1. /\ stack = {} /\ heap' = heap /\ refs' = refs /\ locals' = locals /\ count' = count
        /\ later' = later /\ color' = color /\ at > Len(roots)
        /\ \/ phase = "mark" /\ phase' = "scan"
           \/ phase = "scan" /\ phase' = "collect"
    BY DEF NextWalk, AtEnd, still, program, words
  <1>2. phase \in Walking /\ phase' \in Walking
    BY <1>1 DEF Walking
  <1>3. CASE phase = "mark"
    <2>1. ASSUME NEW S \in SUBSET Cyclic, Island(S) PROVE S \subseteq NotBlackYet'
      <3> DEFINE B == S \ Of(color, "gray")
      <3>1. ASSUME B # {} PROVE FALSE
        <4>1. \A o \in B, p \in Objects : refs[p][o] > 0 => p \in B
          <5> SUFFICES ASSUME NEW o \in B, NEW p \in Objects, refs[p][o] > 0 PROVE p \in B
            OBVIOUS
          <5>1. p \in S /\ TakesPart(o) /\ o \in Objects
            BY <2>1, IslandParts
          <5>2. ASSUME p \in Of(color, "gray") PROVE FALSE
            <6>1. p \in Colored("gray") \ Entries("mark")
              BY <1>1, <5>2, Plain DEF In
            <6>2. color[o] = "gray"
              BY <1>3, <5>1, <6>1 DEF LeakInv, IslandsInv
            <6> QED
              BY <5>1, <6>2 DEF Of
          <5> QED
            BY <5>1, <5>2
        <4>2. Island(B)
          BY <2>1, <3>1, <4>1 DEF Island
        <4>3. RootsOf(roots, at .. Len(roots)) = {}
          <5>1. at .. Len(roots) = {}
            <6>1. at \in Nat /\ Len(roots) \in Nat
              BY DEF Core, TypeOK
            <6> QED
              BY <1>1, <6>1
          <5> QED
            BY <5>1 DEF RootsOf
        <4> HIDE DEF B
        <4>4. B \in SUBSET Cyclic /\ B \intersect Of(color, "gray") = {}
          BY DEF B
        <4> QED
          BY <1>3, <4>2, <4>3, <4>4, WalkingIslands
      <3>2. S \subseteq Painted(color')
        BY <1>1, <3>1 DEF Painted
      <3> QED
        BY <3>2, Plain
    <2> QED
      BY <1>1, <1>2, <1>3, <2>1, WalkNoLeak
  <1>4. CASE phase = "scan"
    <2>1. Of(color', "gray") = {}
      <3>1. PhasesInv' /\ phase' = "collect"
        BY <1>1, <1>4 DEF Core
      <3> QED
        BY <3>1, Plain DEF PhasesInv
    <2>2. \A S \in SUBSET Cyclic : Island(S) => S \subseteq Colored("white")' \union garbage'
      BY <1>1, <1>4, <2>1, WalkingIslands, Plain DEF Painted
    <2> QED
      BY <1>1, <1>2, <1>4, <2>2, WalkNoLeak
  <1> QED
    BY <1>1, <1>3, <1>4

\* A collection begins with the islands that were there, each with a candidate.
LEMMA CollectsNoLeak == ASSUME Core, Core', LeakInv, PollCollects \/ AllocCollects PROVE LeakInv'
  <1>1. /\ phase = "idle" /\ draining = <<>> /\ draining' = draining /\ at' = 1 /\ phase' \in {"mark", "idle"}
        /\ heap' = heap \ Swept /\ buffered' = buffered \ Swept /\ count' = count /\ color' = color
        /\ refs' = refs /\ locals' = locals /\ later' = later /\ running' = running
    BY DEF PollCollects, AllocCollects, SweepThen, Idle, program, words
  <1>2. /\ TypeOK /\ PhasesInv /\ phase \in Quiet /\ refs \in Tables /\ heap \in SUBSET Objects
        /\ locals \in [Objects -> Nat] /\ later \in [Objects -> Nat] /\ count \in [Objects -> Nat]
    BY <1>1, TypeFacts DEF Core, Quiet
  <1>3. InSeq(draining) = {} /\ Gone = Swept /\ Objs = heap \ Swept /\ Objs' \subseteq Objs
    <2>1. InSeq(draining) = {}
      BY <1>1 DEF InSeq
    <2>2. Gone = Swept
      BY <1>1, <2>1 DEF Gone, CountGone
    <2> QED
      BY <1>1, <2>1, <2>2 DEF Objs
  <1>4. NoCycle(refs) /\ Met(refs, locals, later, Objs, buffered)
    BY <1>2, QuietLeak
  <1>5. CASE phase' = "idle"
    <2>1. phase' \in Quiet /\ buffered \intersect Objs' \subseteq buffered' /\ Objs' \subseteq Objects
      BY <1>1, <1>2, <1>3, <1>5 DEF Quiet
    <2> QED
      BY <1>1, <1>2, <1>3, <1>4, <2>1, QuietMeets
  <1>6. CASE phase' = "mark"
    <2>1. ASSUME NEW S \in SUBSET Objects, Isle(refs, locals, later, Objs, S)
          PROVE  \E o \in S : o \in buffered'
      BY <1>1, <1>3, <1>4, <2>1 DEF Met, Isle
    <2>2. ASSUME NEW o \in heap' \ Cyclic PROVE count'[o] > 0
      <3>1. o \in Objects /\ o \in Objs /\ o \in heap \ InSeq(draining) /\ count[o] \in Nat
        BY <1>1, <1>2, <1>3, <2>2
      <3>2. ASSUME count[o] = 0 PROVE FALSE
        <4>1. Owed(refs, locals, later, o) = 0
          BY <1>2, <3>1, <3>2, QuietCounts
        <4>2. locals[o] + later[o] = 0 /\ \A p \in Objects : refs[p][o] = 0
          BY <1>2, <3>1, <4>1, OwedZero
        <4>3. locals[o] = 0 /\ later[o] = 0
          <5>1. locals[o] \in Nat /\ later[o] \in Nat
            BY <1>2, <3>1
          <5> QED
            BY <4>2, <5>1
        <4>4. Isle(refs, locals, later, Objs, {o})
          BY <3>1, <4>2, <4>3 DEF Isle, Apart
        <4>5. {o} \in SUBSET Objects
          BY <3>1
        <4>6. o \in buffered'
          BY <2>1, <4>4, <4>5
        <4>7. buffered' \subseteq Cyclic
          BY DEF Core, TypeOK
        <4> QED
          BY <2>2, <4>6, <4>7
      <3> QED
        BY <1>1, <3>1, <3>2
    <2>3. RootsIn(at .. Len(roots))' \union {Gap} = buffered' \union {Gap}
      <3>1. InSeq(roots)' \ {Gap} = buffered'
        BY DEF Core, BufferExact
      <3>2. RootsIn(at .. Len(roots))' = InSeq(roots)'
        BY <1>1 DEF RootsIn, InSeq
      <3> QED
        BY <3>1, <3>2
    <2>4. ASSUME NEW S \in SUBSET Cyclic, Island(S)'
          PROVE  S \intersect (Colored("gray")' \union RootsIn(at .. Len(roots))') # {}
      <3>1. S \in SUBSET Objects /\ Isle(refs', locals', later', Objs', S)
        BY <2>4, Kinds DEF Island, Isle, Apart, Objs
      <3>2. Isle(refs, locals, later, Objs, S)
        BY <1>1, <1>3, <3>1 DEF Isle
      <3>3. PICK o \in S : o \in buffered'
        BY <2>1, <3>1, <3>2
      <3>4. o # Gap
        BY <3>1, Kinds
      <3> QED
        BY <2>3, <3>3, <3>4
    <2>5. Colored("gray")' = {}
      BY <1>1, <1>2, QuietIs DEF Colored
    <2>6. IslandsInv'
      BY <1>6, <2>2, <2>4, <2>5 DEF IslandsInv
    <2>7. NoPlainCycle'
      BY <1>1, <1>4, NoCycleIs
    <2> QED
      BY <2>6, <2>7 DEF LeakInv
  <1> QED
    BY <1>1, <1>5, <1>6

\* A least set into which no reference leads.
LEMMA LeastApart ==
  ASSUME NEW r, NEW S \in SUBSET Objects, S # {}, Apart(r, S)
  PROVE  \E T \in SUBSET S : /\ T # {} /\ Apart(r, T)
                             /\ \A U \in SUBSET T : U # {} /\ Apart(r, U) => U = T
  <1> DEFINE W == {T \in SUBSET S : T # {} /\ Apart(r, T)}
             R == StrictSubsetOrdering(Objects)
  <1>1. IsWellFoundedOn(R, SUBSET Objects)
    BY Kinds, FS_StrictSubsetOrderingWellFounded, FS_FiniteSubsetsOfFinite
  <1>2. W \subseteq SUBSET Objects /\ W # {}
    <2>1. S \in W
      OBVIOUS
    <2> QED
      BY <2>1
  <1>3. PICK T \in W : \A U \in W : <<U, T>> \notin R
    <2> HIDE DEF W, R
    <2> QED
      BY <1>1, <1>2, WFMin
  <1>4. ASSUME NEW U \in SUBSET T, U # {}, Apart(r, U) PROVE U = T
    <2>1. U \in W /\ U \in SUBSET Objects /\ T \in SUBSET Objects
      BY <1>3, <1>4
    <2>2. U # T => <<U, T>> \in R
      BY <2>1 DEF StrictSubsetOrdering
    <2> QED
      BY <1>3, <2>1, <2>2
  <1> QED
    BY <1>3, <1>4

\* A collection leaves no island: the garbage it took was all of them, but
\* for what takes no part, and no cycle keeps that.
LEMMA EndCollectNoLeak == ASSUME Core, Core', LeakInv, EndCollect PROVE LeakInv'
  <1>1. /\ AtEnd("collect") /\ phase = "collect" /\ phase \in Walking /\ phase' = "later" /\ phase' \in Quiet
        /\ refs' = [p \in Objects |-> IF p \in garbage THEN None ELSE refs[p]]
        /\ locals' = locals /\ later' = later /\ garbage' = garbage /\ heap' \subseteq heap
    BY DEF EndCollect, AtEnd, Walking, Quiet, Free
  <1>2. /\ refs \in Tables /\ heap \in SUBSET Objects /\ locals \in [Objects -> Nat]
        /\ later \in [Objects -> Nat] /\ count \in [Objects -> Nat]
    BY TypeFacts DEF Core
  <1>3. /\ Gone = {} /\ Of(color, "white") = {} /\ garbage \in SUBSET Objects /\ garbage \subseteq heap
        /\ TakenOff = garbage /\ \A o \in heap : count[o] = Left(refs, locals, TakenOff, o)
        /\ \A o \in garbage : locals[o] = 0 /\ later[o] = 0 /\ \A p \in Objects \ garbage : refs[p][o] = 0
        /\ \A o \in Objects : later[o] = IF TakesPart(o) THEN 0 ELSE From(refs, garbage, o)
        /\ garbage \subseteq Cyclic
    <2>1. garbage \subseteq Cyclic
      BY DEF Core, TypeOK
    <2> QED
      BY <1>1, <2>1, WalkIs, GarbageIs
  <1>4. \A p, o \in Objects : /\ refs'[p][o] > 0 => refs[p][o] > 0
                              /\ p \notin garbage => refs'[p][o] = refs[p][o]
    BY <1>1, <1>2 DEF None, Tables
  <1>5. NoCycle(refs')
    BY <1>4, NoCycleShrinks, NoCycleIs DEF LeakInv
  <1>6. ASSUME NEW S \in SUBSET Objects, Isle(refs', locals', later', Objs', S) PROVE FALSE
    <2>1. /\ S # {} /\ Apart(refs', S)
          /\ \A o \in S : o \in heap' /\ locals[o] = 0 /\ later[o] = 0
      BY <1>1, <1>6 DEF Isle, Objs
    <2>2. PICK T \in SUBSET S : /\ T # {} /\ Apart(refs', T)
                                /\ \A U \in SUBSET T : U # {} /\ Apart(refs', U) => U = T
      BY <2>1, LeastApart
    <2>3. \A o \in T : o \in Objects /\ o \in heap /\ locals[o] = 0 /\ later[o] = 0
      BY <1>1, <1>2, <2>1, <2>2
    <2>4. T \intersect garbage = {}
      <3>1. garbage \intersect heap' = {}
        BY <1>1 DEF Core, PhasesInv
      <3> QED
        BY <2>1, <2>2, <3>1
    <2>5. ASSUME NEW o \in T, o \notin Cyclic PROVE FALSE
      <3>1. o \in Objects /\ o \in heap /\ locals[o] = 0 /\ later[o] = 0 /\ ~ TakesPart(o)
        BY <2>3, <2>5 DEF TakesPart
      <3>2. count[o] > 0
        BY <1>1, <2>5, <3>1 DEF LeakInv, IslandsInv
      <3>3. count[o] = 0 + From(refs, Objects, o)
        BY <1>3, <3>1 DEF Left
      <3>4. From(refs, garbage, o) = 0
        BY <1>3, <3>1
      <3>5. \A p \in garbage : refs[p][o] = 0
        BY <1>2, <1>3, <3>1, <3>4, FromZero
      <3>6. \E p \in Objects : refs[p][o] # 0
        <4>1. From(refs, Objects, o) # 0
          BY <1>2, <3>1, <3>2, <3>3
        <4> QED
          BY <1>2, <3>1, <4>1, FromZero
      <3>7. PICK p \in Objects : refs[p][o] # 0
        BY <3>6
      <3>8. refs[p][o] > 0
        <4>1. refs[p][o] \in Nat
          BY <1>2, <3>1, Sizes DEF Tables
        <4> QED
          BY <3>7, <4>1
      <3>9. refs'[p][o] > 0
        BY <1>4, <3>1, <3>5, <3>7, <3>8
      <3>10. T \in SUBSET Objects
        BY <2>3
      <3>11. \E U \in SUBSET T : U # {} /\ o \notin U /\ Apart(refs', U)
        BY <1>5, <2>2, <2>5, <3>9, <3>10, CutOff
      <3> QED
        BY <2>2, <3>11
    <2> DEFINE I == T \union garbage
    <2>6. Island(I)
      <3>1. \A o \in I : o \in heap \ Gone /\ locals[o] = 0 /\ later[o] = 0
        BY <1>3, <2>3
      <3>2. ASSUME NEW o \in I, NEW p \in Objects, refs[p][o] > 0, p \notin garbage PROVE p \in T
        <4>1. o \notin garbage
          BY <1>3, <3>2
        <4>2. o \in T /\ refs'[p][o] > 0
          BY <1>4, <2>3, <3>2, <4>1
        <4> QED
          BY <2>2, <4>2 DEF Apart
      <3> QED
        BY <2>2, <3>1, <3>2 DEF Island
    <2>7. I \in SUBSET Cyclic
      BY <1>3, <2>5
    <2> HIDE DEF I
    <2>8. I \subseteq garbage
      BY <1>1, <1>3, <2>6, <2>7, WalkingIslands
    <2> QED
      BY <2>2, <2>4, <2>8 DEF I
  <1>7. Met(refs', locals', later', Objs', buffered')
    BY <1>6 DEF Met
  <1> QED
    BY <1>1, <1>5, <1>7, QuietLeak

LEMMA LeakStarts == Init => LeakInv
  <1> SUFFICES ASSUME Init PROVE LeakInv
    OBVIOUS
  <1>1. heap = {} /\ refs = [p \in Objects |-> None] /\ phase \in Quiet
    BY DEF Init, Quiet
  <1>2. NoCycle(refs)
    BY <1>1 DEF NoCycle, None
  <1>3. Met(refs, locals, later, Objs, buffered)
    BY <1>1 DEF Met, Isle, Objs
  <1> QED
    BY <1>1, <1>2, <1>3, QuietLeak

LEMMA LeakStays == ASSUME Core, LeakInv, UNCHANGED vars PROVE LeakInv'
  <1>1. /\ heap' = heap /\ refs' = refs /\ locals' = locals /\ running' = running /\ count' = count
        /\ color' = color /\ draining' = draining /\ roots' = roots /\ phase' = phase
        /\ at' = at /\ stack' = stack /\ garbage' = garbage /\ later' = later
        /\ UNCHANGED words /\ UNCHANGED buffer
    BY DEF vars, program, words, buffer, walk
  <1>2. CASE phase \in Quiet
    BY <1>1, <1>2, SameNoLeak
  <1>3. CASE phase \in Walking
    <2>1. \A S \in SUBSET Cyclic : Island(S) =>
           /\ phase' = "mark" => S \intersect (Colored("gray")' \union RootsIn(at .. Len(roots))') # {}
           /\ phase' = "scan" => S \subseteq NotBlackYet'
           /\ phase' = "collect" => S \subseteq Colored("white")' \union garbage'
      <3>1. RootsIn(at .. Len(roots))' = RootsOf(roots, at .. Len(roots))
        BY <1>1 DEF RootsIn, RootsOf
      <3> QED
        BY <1>1, <3>1, WalkingIslands, Plain
    <2>2. phase' = "mark" => \A p \in Colored("gray")' \ Entries("mark")', o \in Objects :
                               refs[p][o] > 0 /\ TakesPart(o)' => color'[o] = "gray"
      BY <1>1 DEF LeakInv, IslandsInv, Colored, Entries, TakesPart
    <2> QED
      BY <1>1, <1>3, <2>1, <2>2, WalkNoLeak
  <1>4. phase \in Quiet \union Walking
    BY DEF Core, TypeOK, Phases, Quiet, Walking
  <1> QED
    BY <1>2, <1>3, <1>4

LEMMA LeakSteps == Core /\ Core' /\ LeakInv /\ [Next]_vars => LeakInv'
  <1> SUFFICES ASSUME Core, Core', LeakInv, [Next]_vars PROVE LeakInv'
    OBVIOUS
  <1>1. CASE \E o \in Objects : New(o) \/ Load(o) \/ Drop(o) \/ TakeBox(o)
    BY <1>1, NewNoLeak, LoadsNoLeak, DropNoLeak, TakeBoxNoLeak
  <1>2. CASE \E p, o \in Objects : Store(p, o) \/ Clear(p, o)
    BY <1>2, StoreNoLeak, ClearNoLeak
  <1>3. CASE \E f \in Frames : Run(f) \/ Suspend(f)
    BY <1>3, FramesNoLeak
  <1>4. CASE \E o \in Targets : MakeWeak(o) \/ Upgrade(o) \/ ForgetWeak(o)
    BY <1>4, Kinds, WeakNoLeak, LoadsNoLeak
  <1>5. CASE Drain
    BY <1>5, FreeDrainedNoLeak, ReleaseGlueNoLeak DEF Drain
  <1>6. CASE PollCollects \/ AllocCollects
    BY <1>6, CollectsNoLeak
  <1>7. CASE Collection
    <2>1. CASE SkipRoot \/ MarkRoot \/ ScanRoot \/ CollectRoot
      BY <2>1, SkipRootNoLeak, MarkRootNoLeak, ScanRootNoLeak, CollectRootNoLeak
    <2>2. CASE NextWalk \/ EndCollect \/ Finish
      BY <2>2, NextWalkNoLeak, EndCollectNoLeak, FinishNoLeak
    <2>3. CASE \E b \in Objects : Mark(b) \/ Scan(b) \/ Restore(b) \/ Collect(b) \/ ReleaseLater(b)
      BY <2>3, MarkNoLeak, ScanNoLeak, RestoreNoLeak, CollectNoLeak, ReleaseLaterNoLeak
    <2> QED
      BY <1>7, <2>1, <2>2, <2>3 DEF Collection
  <1>8. CASE UNCHANGED vars
    BY <1>8, LeakStays
  <1> QED
    BY <1>1, <1>2, <1>3, <1>4, <1>5, <1>6, <1>7, <1>8 DEF Next, Program

\* What neither the program nor a candidate reaches would be an island that
\* has no candidate.
LEMMA LeakFollows == Core /\ LeakInv => NoLeak
  <1> SUFFICES ASSUME Core, LeakInv, Idle PROVE heap \ Reachable \subseteq ReachedFrom(InSeq(roots) \ {Gap})
    BY DEF NoLeak, LeakInv
  <1> DEFINE L == {o \in Objects : locals[o] > 0}
             P == Reach(refs, L)
             C == Reach(refs, buffered)
             U == heap \ (P \union C)
  <1>1. /\ phase = "idle" /\ phase \in Quiet /\ TypeOK /\ PhasesInv /\ BufferExact /\ NothingDangles
        /\ draining = <<>>
    BY DEF Core, Idle, Quiet
  <1>2. /\ heap \in SUBSET Objects /\ buffered \in SUBSET Objects /\ locals \in [Objects -> Nat]
        /\ later = None /\ L \in SUBSET Objects
    BY <1>1, TypeFacts, QuietIs
  <1>3. Reachable = P /\ ReachedFrom(InSeq(roots) \ {Gap}) = C
    BY <1>1, ReachIs DEF Reachable, BufferExact
  <1>4. L \subseteq P /\ Shut(refs, P) /\ buffered \subseteq C /\ Shut(refs, C)
    <2> HIDE DEF L
    <2> QED
      BY <1>2, ReachFacts
  <1> HIDE DEF L, P, C
  <1>5. U \subseteq Objs
    <2>1. InSeq(draining) = {} /\ CountGone \subseteq buffered
      BY <1>1 DEF InSeq, CountGone, Swept
    <2> QED
      BY <1>4, <2>1 DEF Objs, Gone
  <1>6. \A o \in U : o \in Objects /\ locals[o] = 0 /\ later[o] = 0
    <2> TAKE o \in U
    <2>1. o \in Objects /\ o \notin L /\ locals[o] \in Nat
      BY <1>2, <1>4
    <2> QED
      BY <1>2, <2>1 DEF L, None
  <1>7. Apart(refs, U)
    <2> SUFFICES ASSUME NEW o \in U, NEW p \in Objects, refs[p][o] > 0 PROVE p \in U
      BY DEF Apart
    <2>1. p \in heap
      <3>1. p \notin heap => refs[p] = None
        BY <1>1 DEF NothingDangles
      <3> QED
        BY <1>6, <3>1 DEF None
    <2>2. p \notin P /\ p \notin C
      BY <1>4, <1>6 DEF Shut
    <2> QED
      BY <2>1, <2>2
  <1>8. U = {}
    <2>1. U # {} => Isle(refs, locals, later, Objs, U)
      BY <1>5, <1>6, <1>7 DEF Isle
    <2>2. Met(refs, locals, later, Objs, buffered) /\ U \in SUBSET Objects
      BY <1>1, <1>2, QuietLeak
    <2>3. U \intersect buffered = {}
      BY <1>4
    <2> HIDE DEF U
    <2> QED
      BY <2>1, <2>2, <2>3 DEF Met
  <1> QED
    BY <1>3, <1>8

(***************************************************************************)
(* suspect and drop_root, with the collections of cycle.hd: no garbage is  *)
(* out of the next collection's sight.  Whatever cuts live blocks off from *)
(* the program leaves a candidate among them, and a collection that clears *)
(* its candidates has taken every island there was.                        *)
(***************************************************************************)
THEOREM NothingLeaks == Spec => []NoLeak
  <1>1. Init => Core /\ LeakInv
    BY CoreStarts, LeakStarts
  <1>2. Core /\ LeakInv /\ [Next]_vars => Core' /\ LeakInv'
    BY CoreSteps, LeakSteps
  <1>3. Core /\ LeakInv => NoLeak
    BY LeakFollows
  <1> QED
    BY <1>1, <1>2, <1>3, PTL DEF Spec
=============================================================================
