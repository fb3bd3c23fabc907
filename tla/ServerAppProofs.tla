--------------------------- MODULE ServerAppProofs ---------------------------
(***************************************************************************)
(* The requests of a retained program keep ServerInv, for every set of     *)
(* requests and of workers: leases are neither lost nor given out twice,   *)
(* owners clean up what they started, and none sleeps through its end.     *)
(***************************************************************************)
EXTENDS ServerApp, FiniteSetTheorems, SequenceTheorems, WellFoundedInduction, TLAPS

-----------------------------------------------------------------------------
(***************************************************************************)
(* The dispatcher's operations on a lease.                                 *)
(***************************************************************************)

\* A lease as the dispatcher keeps it.
GoodLease(l) == l \in Lease /\ OwnerInv(l)

Tasks == {"start", "clean"} \X Ops

LEMMA NewLeaseIsGood == GoodLease(NewLease)
  <1>1. <<>> \in Seq(Tasks) /\ \A o \in Ops : "none" \in OpStates
    BY DEF OpStates
  <1>2. NewLease \in Lease
    BY <1>1 DEF NewLease, Lease, Tasks, OpStates
  <1> QED
    BY <1>2 DEF GoodLease, OwnerInv, NewLease, Live

\* signal: an owner that sleeps is woken, nothing else changes.
LEMMA SignalKeeps ==
  ASSUME NEW l \in Lease
  PROVE  /\ Signal(l) \in Lease
         /\ Signal(l).owner = IF l.owner = "parked" THEN "running" ELSE l.owner
         /\ Signal(l).op = l.op /\ Signal(l).tasks = l.tasks
         /\ Signal(l).finished = l.finished /\ Signal(l).cancelled = l.cancelled
         /\ Signal(l).response = l.response
  BY DEF Signal, Lease

\* A task that is queued comes after the others.
LEMMA AppendAdds ==
  ASSUME NEW s \in Seq(Tasks), NEW x \in Tasks
  PROVE  /\ Append(s, x) \in Seq(Tasks)
         /\ Range(s) \subseteq Range(Append(s, x)) /\ x \in Range(Append(s, x))
  <1>1. /\ Append(s, x) \in Seq(Tasks) /\ Len(Append(s, x)) = Len(s) + 1 /\ Len(s) \in Nat
        /\ \A i \in 1 .. Len(s) : Append(s, x)[i] = s[i]
        /\ Append(s, x)[Len(s) + 1] = x
        /\ DOMAIN s = 1 .. Len(s) /\ DOMAIN Append(s, x) = 1 .. Len(s) + 1
    OBVIOUS
  <1>2. x \in Range(Append(s, x))
    BY <1>1 DEF Range
  <1>3. ASSUME NEW y \in Range(s) PROVE y \in Range(Append(s, x))
    <2>1. PICK i \in 1 .. Len(s) : y = s[i]
      BY <1>1 DEF Range
    <2>2. i \in 1 .. Len(s) + 1 /\ Append(s, x)[i] = y
      BY <1>1, <2>1
    <2> QED
      BY <1>1, <2>2 DEF Range
  <1> QED
    BY <1>1, <1>2, <1>3

\* What enqueue does to a lease that has an owner.
LEMMA EnqueueAdds ==
  ASSUME NEW l \in Lease, NEW x \in Tasks, l.owner \in {"running", "parked"}
  PROVE  LET e == Enqueue(l, x) IN
         /\ e \in Lease /\ e.owner = "running" /\ e.op = l.op
         /\ Range(l.tasks) \subseteq Range(e.tasks) /\ x \in Range(e.tasks)
         /\ e.finished = l.finished /\ e.cancelled = l.cancelled /\ e.response = l.response
  <1> DEFINE a == [l EXCEPT !.tasks = Append(@, x)]
  <1>1. l.tasks \in Seq(Tasks)
    BY DEF Lease, Tasks
  <1>2. /\ Append(l.tasks, x) \in Seq(Tasks)
        /\ Range(l.tasks) \subseteq Range(Append(l.tasks, x)) /\ x \in Range(Append(l.tasks, x))
    BY <1>1, AppendAdds
  <1>3. /\ a \in Lease /\ a.owner = l.owner /\ a.op = l.op /\ a.tasks = Append(l.tasks, x)
        /\ a.finished = l.finished /\ a.cancelled = l.cancelled /\ a.response = l.response
    BY <1>2 DEF Lease, Tasks
  <1>4. Enqueue(l, x) = Signal(a)
    BY DEF Enqueue
  <1> HIDE DEF a
  <1> QED
    BY <1>2, <1>3, <1>4, SignalKeeps

\* Disposal: the operation is live no more, its owner has a task, and what was
\* not live is not disturbed.
LEMMA DisposeKeeps ==
  ASSUME NEW l, GoodLease(l), NEW o \in Ops, l.owner \in {"running", "parked"}
  PROVE  LET d == Dispose(l, o) IN
         /\ GoodLease(d) /\ d.owner \in {"running", "parked"} /\ ~ Live(d, o)
         /\ \A x \in Ops : ~ Live(l, x) => ~ Live(d, x)
         /\ d.finished = l.finished /\ d.cancelled = l.cancelled /\ d.response = l.response
  <1>1. CASE ~ Live(l, o)
    BY <1>1 DEF Dispose
  <1>2. CASE Live(l, o)
    <2> DEFINE s == IF l.op[o] = "queued" THEN "dropped" ELSE "closing"
               a == [l EXCEPT !.op[o] = s]
               d == Enqueue(a, <<"clean", o>>)
    <2>1. l \in Lease /\ OwnerInv(l) /\ l.op \in [Ops -> OpStates]
      BY DEF GoodLease, Lease
    <2>2. s \in OpStates /\ s \in {"dropped", "closing"}
      BY DEF OpStates
    <2>3. /\ a \in Lease /\ a.owner = l.owner /\ a.tasks = l.tasks
          /\ a.op = [l.op EXCEPT ![o] = s]
          /\ a.finished = l.finished /\ a.cancelled = l.cancelled /\ a.response = l.response
      BY <2>1, <2>2 DEF Lease
    <2>4. Dispose(l, o) = d
      BY <1>2 DEF Dispose
    <2>5. <<"clean", o>> \in Tasks
      BY DEF Tasks
    <2> HIDE DEF s, a
    <2>6. /\ d \in Lease /\ d.owner = "running" /\ d.op = a.op
          /\ Range(l.tasks) \subseteq Range(d.tasks) /\ <<"clean", o>> \in Range(d.tasks)
          /\ d.finished = l.finished /\ d.cancelled = l.cancelled /\ d.response = l.response
      BY <2>3, <2>5, EnqueueAdds
    <2> HIDE DEF d
    <2>7. d.op[o] = s /\ \A x \in Ops \ {o} : d.op[x] = l.op[x]
      BY <2>1, <2>3, <2>6
    <2>8. ~ Live(d, o) /\ \A x \in Ops : ~ Live(l, x) => ~ Live(d, x)
      BY <2>2, <2>7 DEF Live
    <2>9. OwnerInv(d)
      <3>1. ASSUME NEW x \in Ops PROVE /\ d.op[x] = "closing" => <<"clean", x>> \in Range(d.tasks)
                                       /\ d.finished => ~ Live(d, x)
        BY <2>1, <2>6, <2>7, <2>8 DEF OwnerInv
      <3> QED
        BY <2>6, <3>1 DEF OwnerInv
    <2> QED
      BY <2>4, <2>6, <2>8, <2>9 DEF GoodLease
  <1> QED
    BY <1>1, <1>2

\* finish: the owner of the lease is awake, or was already.
LEMMA FinishedKeeps ==
  ASSUME NEW l, GoodLease(l), l.owner \in {"running", "parked"}
  PROVE  LET f == FinishedLease(l) IN
         /\ GoodLease(f) /\ f.finished
         /\ f.owner \in {"running", "parked"}
  <1>1. CASE l.finished
    BY <1>1 DEF FinishedLease
  <1>2. CASE ~ l.finished
    <2> DEFINE d == Dispose(l, "work")
               e == Dispose(d, "cleanup")
               a == [e EXCEPT !.finished = TRUE]
    <2>1. Ops = {"work", "cleanup"}
      BY DEF Ops
    <2>2. /\ GoodLease(d) /\ d.owner \in {"running", "parked"} /\ ~ Live(d, "work")
      BY <2>1, DisposeKeeps
    <2> HIDE DEF d
    <2>3. /\ GoodLease(e) /\ e.owner \in {"running", "parked"}
          /\ ~ Live(e, "cleanup") /\ ~ Live(e, "work")
      BY <2>1, <2>2, DisposeKeeps
    <2> HIDE DEF e
    <2>4. /\ a \in Lease /\ a.owner = e.owner /\ a.op = e.op /\ a.tasks = e.tasks /\ a.finished
      BY <2>3 DEF GoodLease, Lease
    <2>5. FinishedLease(l) = Signal(a)
      BY <1>2 DEF FinishedLease, d, e
    <2> HIDE DEF a
    <2>6. /\ Signal(a) \in Lease /\ Signal(a).owner = "running" /\ Signal(a).op = e.op
          /\ Signal(a).tasks = e.tasks /\ Signal(a).finished
      BY <2>3, <2>4, SignalKeeps
    <2>7. OwnerInv(Signal(a))
      <3>1. \A o \in Ops : ~ Live(Signal(a), o)
        BY <2>1, <2>3, <2>6 DEF Live
      <3>2. \A o \in Ops : e.op[o] = "closing" => <<"clean", o>> \in Range(e.tasks)
        BY <2>3 DEF GoodLease, OwnerInv
      <3> QED
        BY <2>6, <3>1, <3>2 DEF OwnerInv
    <2> QED
      BY <2>5, <2>6, <2>7 DEF GoodLease
  <1> QED
    BY <1>1, <1>2

\* A new operation is a task of its owner.
LEMMA StartKeeps ==
  ASSUME NEW l, GoodLease(l), l.owner \in {"running", "parked"}, ~ l.finished, NEW o \in Ops
  PROVE  LET s == StartOp(l, o) IN
         GoodLease(s) /\ s.owner = "running" /\ ~ s.finished
  <1> DEFINE a == [l EXCEPT !.op[o] = "queued"]
             s == Enqueue(a, <<"start", o>>)
  <1>1. l \in Lease /\ OwnerInv(l) /\ l.op \in [Ops -> OpStates] /\ "queued" \in OpStates
    BY DEF GoodLease, Lease, OpStates
  <1>2. /\ a \in Lease /\ a.owner = l.owner /\ a.tasks = l.tasks
        /\ a.op = [l.op EXCEPT ![o] = "queued"] /\ a.finished = l.finished
    BY <1>1 DEF Lease
  <1>3. StartOp(l, o) = s
    BY DEF StartOp
  <1>4. <<"start", o>> \in Tasks
    BY DEF Tasks
  <1> HIDE DEF a
  <1>5. /\ s \in Lease /\ s.owner = "running" /\ s.op = a.op
        /\ Range(l.tasks) \subseteq Range(s.tasks) /\ s.finished = l.finished
    BY <1>2, <1>4, EnqueueAdds
  <1> HIDE DEF s
  <1>6. s.op[o] = "queued" /\ \A x \in Ops \ {o} : s.op[x] = l.op[x]
    BY <1>1, <1>2, <1>5
  <1>7. OwnerInv(s)
    <2>1. ASSUME NEW x \in Ops PROVE s.op[x] = "closing" => <<"clean", x>> \in Range(s.tasks)
      BY <1>1, <1>5, <1>6 DEF OwnerInv
    <2> QED
      BY <1>5, <2>1 DEF OwnerInv
  <1> QED
    BY <1>3, <1>5, <1>7 DEF GoodLease

-----------------------------------------------------------------------------
(***************************************************************************)
(* The queue of the application.                                           *)
(***************************************************************************)

LEMMA RangeOf ==
  ASSUME NEW s \in Seq(Requests)
  PROVE  /\ Range(s) = {s[i] : i \in 1 .. Len(s)} /\ Range(s) \subseteq Requests
         /\ DOMAIN s = 1 .. Len(s) /\ Len(s) \in Nat
  BY DEF Range

\* push: a request that is not in the queue comes last.
LEMMA PushAdds ==
  ASSUME NEW s \in Seq(Requests), NEW r \in Requests, IsInjective(s), r \notin Range(s)
  PROVE  LET t == Append(s, r) IN
         /\ t \in Seq(Requests) /\ IsInjective(t) /\ Range(t) = Range(s) \union {r}
  <1> DEFINE t == Append(s, r)
  <1>1. /\ t \in Seq(Requests) /\ Len(t) = Len(s) + 1
        /\ \A i \in 1 .. Len(s) : t[i] = s[i]
        /\ t[Len(s) + 1] = r
    OBVIOUS
  <1>2. /\ Range(s) = {s[i] : i \in 1 .. Len(s)} /\ DOMAIN s = 1 .. Len(s) /\ Len(s) \in Nat
        /\ Range(t) = {t[i] : i \in 1 .. Len(t)} /\ DOMAIN t = 1 .. Len(t)
    BY <1>1, RangeOf
  <1> HIDE DEF t
  <1>3. \A i \in 1 .. Len(t) : i \in 1 .. Len(s) \/ i = Len(s) + 1
    BY <1>1, <1>2
  <1>4. \A i \in 1 .. Len(s) : i \in 1 .. Len(t)
    BY <1>1, <1>2
  <1>5. Len(s) + 1 \in 1 .. Len(t)
    BY <1>1, <1>2
  <1>6. Range(t) = Range(s) \union {r}
    BY <1>1, <1>2, <1>3, <1>4, <1>5
  <1>7. ASSUME NEW i \in DOMAIN t, NEW j \in DOMAIN t, t[i] = t[j] PROVE i = j
    <2>1. \A k \in 1 .. Len(s) : t[k] # r
      BY <1>1, <1>2
    <2>2. CASE i \in 1 .. Len(s) /\ j \in 1 .. Len(s)
      BY <1>1, <1>2, <1>7, <2>2 DEF IsInjective
    <2> QED
      BY <1>1, <1>2, <1>3, <1>7, <2>1, <2>2
  <1> QED
    BY <1>1, <1>6, <1>7 DEF IsInjective, t

\* unshift: a request that is not in the queue comes first.
LEMMA UnshiftAdds ==
  ASSUME NEW s \in Seq(Requests), NEW r \in Requests, IsInjective(s), r \notin Range(s)
  PROVE  LET t == <<r>> \o s IN
         /\ t \in Seq(Requests) /\ IsInjective(t) /\ Range(t) = Range(s) \union {r}
  <1> DEFINE t == <<r>> \o s
  <1>1. /\ t \in Seq(Requests) /\ Len(t) = Len(s) + 1
        /\ \A i \in 2 .. Len(s) + 1 : t[i] = s[i - 1]
        /\ t[1] = r
    OBVIOUS
  <1>2. /\ Range(s) = {s[i] : i \in 1 .. Len(s)} /\ DOMAIN s = 1 .. Len(s) /\ Len(s) \in Nat
        /\ Range(t) = {t[i] : i \in 1 .. Len(t)} /\ DOMAIN t = 1 .. Len(t)
    BY <1>1, RangeOf
  <1> HIDE DEF t
  <1>3. \A i \in 1 .. Len(t) : i \in 2 .. Len(s) + 1 \/ i = 1
    BY <1>1, <1>2
  <1>4. \A i \in 2 .. Len(s) + 1 : i - 1 \in 1 .. Len(s)
    BY <1>2
  <1>5. 1 \in 1 .. Len(t) /\ \A i \in 1 .. Len(s) : i + 1 \in 1 .. Len(t) /\ t[i + 1] = s[i]
    BY <1>1, <1>2
  <1>6. Range(t) = Range(s) \union {r}
    <2>1. ASSUME NEW x \in Range(t) PROVE x \in Range(s) \union {r}
      BY <1>1, <1>2, <1>3, <1>4
    <2>2. Range(s) \union {r} \subseteq Range(t)
      BY <1>1, <1>2, <1>5
    <2> QED
      BY <2>1, <2>2
  <1>7. ASSUME NEW i \in DOMAIN t, NEW j \in DOMAIN t, t[i] = t[j] PROVE i = j
    <2>1. \A k \in 2 .. Len(s) + 1 : t[k] # r
      BY <1>1, <1>2, <1>4
    <2>2. CASE i \in 2 .. Len(s) + 1 /\ j \in 2 .. Len(s) + 1
      <3>1. s[i - 1] = s[j - 1] /\ i - 1 \in DOMAIN s /\ j - 1 \in DOMAIN s
        BY <1>1, <1>2, <1>4, <1>7, <2>2
      <3>2. i - 1 = j - 1
        BY <3>1 DEF IsInjective
      <3> QED
        BY <2>2, <3>2
    <2> QED
      BY <1>1, <1>2, <1>3, <1>7, <2>1, <2>2
  <1> QED
    BY <1>1, <1>6, <1>7 DEF IsInjective, t

\* shift, up to the one at place k: it is gone, what came after it stays.
LEMMA ShiftKeeps ==
  ASSUME NEW s \in Seq(Requests), IsInjective(s), NEW k \in 1 .. Len(s)
  PROVE  LET t == SubSeq(s, k + 1, Len(s)) IN
         /\ t \in Seq(Requests) /\ IsInjective(t) /\ Range(t) \subseteq Range(s)
         /\ s[k] \in Range(s) \ Range(t)
         /\ \A i \in 1 .. Len(s) : i > k => s[i] \in Range(t)
  <1> DEFINE t == SubSeq(s, k + 1, Len(s))
  <1>0. /\ Range(s) = {s[i] : i \in 1 .. Len(s)} /\ DOMAIN s = 1 .. Len(s) /\ Len(s) \in Nat
        /\ k \in Nat /\ k <= Len(s)
    BY RangeOf
  <1>1. /\ t \in Seq(Requests) /\ Len(t) = Len(s) - k
        /\ \A i \in 1 .. Len(s) - k : t[i] = s[k + i]
    <2>1. \A i \in k + 1 .. Len(s) : s[i] \in Requests
      BY <1>0
    <2>2. /\ t \in Seq(Requests)
          /\ Len(t) = IF k + 1 <= Len(s) THEN Len(s) - (k + 1) + 1 ELSE 0
          /\ \A i \in 1 .. Len(s) - (k + 1) + 1 : t[i] = s[(k + 1) + i - 1]
      BY <1>0, <2>1, SubSeqProperties
    <2> HIDE DEF t
    <2>3. Len(t) = Len(s) - k
      <3> DEFINE n == Len(s)
                 m == Len(t)
      <3>1. n \in Nat /\ k \in Nat /\ k <= n /\ m = IF k + 1 <= n THEN n - (k + 1) + 1 ELSE 0
        BY <1>0, <2>2
      <3> HIDE DEF n, m
      <3>2. m = n - k
        BY <3>1
      <3> QED
        BY <3>2 DEF n, m
    <2>4. ASSUME NEW i \in 1 .. Len(s) - k PROVE t[i] = s[k + i]
      <3>1. i \in 1 .. Len(s) - (k + 1) + 1 /\ (k + 1) + i - 1 = k + i
        BY <1>0
      <3> QED
        BY <2>2, <3>1
    <2> QED
      BY <2>2, <2>3, <2>4
  <1>2. Range(t) = {t[i] : i \in 1 .. Len(t)} /\ DOMAIN t = 1 .. Len(t)
    BY <1>1, RangeOf
  <1> HIDE DEF t
  <1>3. \A i \in 1 .. Len(t) : k + i \in 1 .. Len(s) /\ k + i # k /\ t[i] = s[k + i]
    BY <1>0, <1>1
  <1>4. Range(t) \subseteq Range(s)
    BY <1>0, <1>2, <1>3
  <1>5. s[k] \in Range(s) \ Range(t)
    BY <1>0, <1>2, <1>3 DEF IsInjective
  <1>6. ASSUME NEW i \in 1 .. Len(s), i > k PROVE s[i] \in Range(t)
    <2>1. i - k \in 1 .. Len(t) /\ t[i - k] = s[i]
      BY <1>0, <1>1, <1>6
    <2> QED
      BY <1>2, <2>1
  <1>7. ASSUME NEW i \in DOMAIN t, NEW j \in DOMAIN t, t[i] = t[j] PROVE i = j
    <2>1. k + i = k + j
      BY <1>0, <1>2, <1>3, <1>7 DEF IsInjective
    <2> QED
      BY <1>0, <1>1, <1>2, <2>1
  <1> QED
    BY <1>1, <1>4, <1>5, <1>6, <1>7 DEF IsInjective, t

\* A finite set of numbers that is not empty has a least one.
LEMMA MinExists ==
  ASSUME NEW S \in SUBSET Int, IsFiniteSet(S), S # {}
  PROVE  Min(S) \in S /\ \A y \in S : Min(S) <= y
  <1> DEFINE Below(x) == {z \in S : z < x}
             T == {Below(x) : x \in S}
  <1>1. IsWellFoundedOn(StrictSubsetOrdering(S), SUBSET S)
    BY FS_StrictSubsetOrderingWellFounded, FS_FiniteSubsetsOfFinite
  <1>2. T \subseteq SUBSET S /\ T # {}
    OBVIOUS
  <1>3. PICK b \in T : \A c \in T : ~ (<<c, b>> \in StrictSubsetOrdering(S))
    BY <1>1, <1>2, WFMin
  <1>4. PICK x \in S : b = Below(x)
    OBVIOUS
  <1>5. ASSUME NEW y \in S PROVE x <= y
    <2> SUFFICES ASSUME y < x PROVE FALSE
      OBVIOUS
    <2>0. x \in Int /\ y \in Int /\ \A z \in S : z \in Int
      OBVIOUS
    <2>1. Below(y) \subseteq Below(x) /\ Below(y) # Below(x)
      <3>1. \A z \in S : z < y => z < x
        BY <2>0
      <3>2. y \in Below(x)
        BY <2>0
      <3>3. y \notin Below(y)
        BY <2>0
      <3> QED
        BY <3>1, <3>2, <3>3
    <2>2. <<Below(y), b>> \in StrictSubsetOrdering(S)
      BY <1>4, <2>1, <1>2 DEF StrictSubsetOrdering
    <2> QED
      BY <1>3, <2>2
  <1> QED
    BY <1>5 DEF Min

\* accept's poll finds the first request in the queue whose lease lives.
LEMMA FirstLiveIs ==
  ASSUME TypeOK
  PROVE  \/ FirstLive = 0 /\ \A i \in 1 .. Len(incoming) : incoming[i] \notin leases
         \/ /\ FirstLive \in 1 .. Len(incoming) /\ incoming[FirstLive] \in leases
            /\ \A i \in 1 .. Len(incoming) : i < FirstLive => incoming[i] \notin leases
  <1> DEFINE I == {i \in 1 .. Len(incoming) : incoming[i] \in leases}
  <1>1. FirstLive = IF I # {} THEN Min(I) ELSE 0
    BY DEF FirstLive, SelectInSeq
  <1>2. Len(incoming) \in Nat
    BY DEF TypeOK
  <1>3. I \in SUBSET Int /\ IsFiniteSet(I)
    <2>1. IsFiniteSet(1 .. Len(incoming)) /\ I \subseteq 1 .. Len(incoming)
      BY <1>2, FS_Interval
    <2>2. \A i \in I : i \in Int
      BY <1>2
    <2> QED
      BY <2>1, <2>2, FS_Subset
  <1>4. CASE I = {}
    BY <1>1, <1>4
  <1>5. CASE I # {}
    <2>1. Min(I) \in I /\ \A i \in I : Min(I) <= i
      BY <1>3, <1>5, MinExists
    <2>2. FirstLive \in I /\ \A i \in I : FirstLive <= i
      BY <1>1, <1>5, <2>1
    <2>3. ASSUME NEW i \in 1 .. Len(incoming), i < FirstLive, incoming[i] \in leases PROVE FALSE
      <3>1. FirstLive <= i /\ FirstLive \in Int /\ i \in Int
        BY <1>2, <1>3, <2>2, <2>3
      <3> QED
        BY <2>3, <3>1
    <2> QED
      BY <2>2, <2>3
  <1> QED
    BY <1>4, <1>5

-----------------------------------------------------------------------------
(***************************************************************************)
(* What a step must show of the requests, by what it changes.              *)
(***************************************************************************)

\* The lease of one request changes and keeps an owner.
LEMMA LeaseStep ==
  ASSUME ServerInv, NEW r \in Requests, NEW l, GoodLease(l), Waits(r),
         l.owner \in {"running", "parked"}, lease' = [lease EXCEPT ![r] = l],
         l.finished = lease[r].finished \/ r \notin leases',
         leases' \subseteq leases, Range(incoming') \subseteq Range(incoming),
         job' = job, app' = app
  PROVE  lease' \in [Requests -> Lease] /\ OwnersInv' /\ RequestsInv'
  <1>1. lease' \in [Requests -> Lease] /\ lease'[r] = l /\ \A q \in Requests \ {r} : lease'[q] = lease[q]
    BY DEF ServerInv, TypeOK, GoodLease
  <1>2. OwnersInv'
    <2> SUFFICES ASSUME NEW q \in Requests PROVE OwnerInv(lease'[q])
      BY DEF OwnersInv
    <2> QED
      BY <1>1 DEF GoodLease, ServerInv, OwnersInv
  <1>3. RequestsInv'
    <2> SUFFICES ASSUME NEW q \in Requests
                 PROVE  /\ q \in leases' => Waits(q)' /\ ~ lease'[q].finished
                        /\ q \in Range(incoming') => lease'[q].owner # "none"
                        /\ job'[q].stage \in {"new", "body"} => lease'[q].owner = "none"
                        /\ job'[q].stage = "lease" => Waits(q)'
                        /\ job'[q].stage \in {"closing", "done"} /\ ~ app'.failed => ~ Waits(q)'
      BY DEF RequestsInv
    <2>1. /\ q \in leases => Waits(q) /\ ~ lease[q].finished
          /\ q \in Range(incoming) => lease[q].owner # "none"
          /\ job[q].stage \in {"new", "body"} => lease[q].owner = "none"
          /\ job[q].stage = "lease" => Waits(q)
          /\ job[q].stage \in {"closing", "done"} /\ ~ app.failed => ~ Waits(q)
      BY DEF ServerInv, RequestsInv
    <2>2. CASE q = r
      BY <1>1, <2>1, <2>2 DEF Waits
    <2>3. CASE q # r
      <3>1. lease'[q] = lease[q]
        BY <1>1, <2>3
      <3> QED
        BY <2>1, <3>1 DEF Waits
    <2> QED
      BY <2>2, <2>3
  <1> QED
    BY <1>1, <1>2, <1>3

\* The job of one request changes, and says what its lease and owner do.
LEMMA JobStep ==
  ASSUME ServerInv, NEW r \in Requests, NEW j \in Job, job' = [job EXCEPT ![r] = j],
         UNCHANGED <<lease, leases, incoming>>,
         j.stage # "new", j.stage = "body" => lease[r].owner = "none",
         j.stage = "lease" => Waits(r),
         j.stage \in {"closing", "done"} /\ ~ app'.failed => ~ Waits(r),
         app.failed => app'.failed
  PROVE  job' \in [Requests -> Job] /\ lease' \in [Requests -> Lease] /\ OwnersInv' /\ RequestsInv'
  <1>1. job' \in [Requests -> Job] /\ job'[r] = j /\ \A q \in Requests \ {r} : job'[q] = job[q]
    BY DEF ServerInv, TypeOK
  <1>2. lease' \in [Requests -> Lease] /\ OwnersInv'
    BY DEF ServerInv, TypeOK, OwnersInv
  <1>3. RequestsInv'
    <2> SUFFICES ASSUME NEW q \in Requests
                 PROVE  /\ q \in leases => Waits(q) /\ ~ lease[q].finished
                        /\ q \in Range(incoming) => lease[q].owner # "none"
                        /\ job'[q].stage \in {"new", "body"} => lease[q].owner = "none"
                        /\ job'[q].stage = "lease" => Waits(q)
                        /\ job'[q].stage \in {"closing", "done"} /\ ~ app'.failed => ~ Waits(q)
      BY DEF RequestsInv, Waits
    <2>1. /\ q \in leases => Waits(q) /\ ~ lease[q].finished
          /\ q \in Range(incoming) => lease[q].owner # "none"
          /\ job[q].stage \in {"new", "body"} => lease[q].owner = "none"
          /\ job[q].stage = "lease" => Waits(q)
          /\ job[q].stage \in {"closing", "done"} /\ ~ app.failed => ~ Waits(q)
      BY DEF ServerInv, RequestsInv
    <2>2. j.stage \in {"new", "body", "lease", "closing", "done"}
      BY DEF Job
    <2> QED
      BY <1>1, <2>1, <2>2
  <1> QED
    BY <1>1, <1>2, <1>3

\* Neither a job nor a lease changes.
LEMMA QuietStep ==
  ASSUME ServerInv, UNCHANGED <<job, lease>>, leases' \subseteq leases,
         \A q \in Range(incoming') : lease[q].owner # "none", app.failed => app'.failed
  PROVE  /\ job' \in [Requests -> Job] /\ lease' \in [Requests -> Lease]
         /\ OwnersInv' /\ RequestsInv'
  <1>1. OwnersInv'
    BY DEF ServerInv, OwnersInv
  <1>2. RequestsInv'
    BY DEF ServerInv, RequestsInv, Waits
  <1> QED
    BY <1>1, <1>2 DEF ServerInv, TypeOK

\* The queue, the leases and the workers stay.
LEMMA PlacesStay ==
  ASSUME ServerInv, UNCHANGED <<leases, incoming, worker>>
  PROVE  /\ leases' \subseteq Requests /\ incoming' \in Seq(Requests)
         /\ worker' \in [Workers -> Worker] /\ WorkersInv' /\ LeasesHaveOnePlace'
         /\ leases' \subseteq leases /\ Range(incoming') \subseteq Range(incoming)
         /\ \A q \in Range(incoming') : q \in Requests /\ lease[q].owner # "none"
  <1>1. WorkersInv' /\ LeasesHaveOnePlace'
    BY DEF ServerInv, WorkersInv, LeasesHaveOnePlace
  <1>2. Range(incoming) \subseteq Requests
    BY RangeOf DEF ServerInv, TypeOK
  <1> QED
    BY <1>1, <1>2 DEF ServerInv, TypeOK, RequestsInv

\* What a worker has names a lease that lives and an owner.
LEMMA WorkersLease ==
  ASSUME ServerInv, NEW w \in Workers, worker[w].req # Nobody
  PROVE  /\ worker[w].req \in Requests /\ worker[w].req \in leases
         /\ worker[w].req \notin Range(incoming)
         /\ Waits(worker[w].req) /\ ~ lease[worker[w].req].finished
         /\ GoodLease(lease[worker[w].req])
  <1>1. worker[w].req \in leases \ Range(incoming) /\ leases \subseteq Requests
    BY DEF ServerInv, LeasesHaveOnePlace, TypeOK
  <1>2. lease[worker[w].req] \in Lease /\ OwnerInv(lease[worker[w].req])
    BY <1>1 DEF ServerInv, TypeOK, OwnersInv
  <1> QED
    BY <1>1, <1>2 DEF ServerInv, RequestsInv, GoodLease

\* A worker goes on with its request.
LEMMA WorkerGoes ==
  ASSUME ServerInv, NEW w \in Workers, NEW at \in Serving, worker[w].req # Nobody,
         worker' = [worker EXCEPT ![w].at = at], UNCHANGED <<leases, incoming>>
  PROVE  worker' \in [Workers -> Worker] /\ WorkersInv' /\ LeasesHaveOnePlace'
  <1>1. /\ worker' = [worker EXCEPT ![w] = [at |-> at, req |-> worker[w].req]]
        /\ worker \in [Workers -> Worker]
    <2>1. worker \in [Workers -> Worker] /\ worker[w] \in Worker
      BY DEF ServerInv, TypeOK
    <2>2. [worker[w] EXCEPT !.at = at] = [at |-> at, req |-> worker[w].req]
      BY <2>1 DEF Worker
    <2> QED
      BY <2>1, <2>2
  <1>2. worker' \in [Workers -> Worker]
    BY <1>1 DEF Worker, Serving
  <1>3. worker'[w].at = at /\ \A v \in Workers : worker'[v].req = worker[v].req
    BY <1>1
  <1>4. \A v \in Workers \ {w} : worker'[v] = worker[v]
    BY <1>1
  <1>5. WorkersInv'
    <2> SUFFICES ASSUME NEW v \in Workers
                 PROVE  /\ worker'[v].at \in {"accept", "ended"} => worker'[v].req = Nobody
                        /\ worker'[v].at \in Serving => worker'[v].req # Nobody
      BY DEF WorkersInv
    <2>1. CASE v = w
      BY <1>3, <2>1 DEF Serving
    <2>2. CASE v # w
      BY <1>4, <2>2 DEF ServerInv, WorkersInv
    <2> QED
      BY <2>1, <2>2
  <1>6. LeasesHaveOnePlace'
    BY <1>3 DEF ServerInv, LeasesHaveOnePlace
  <1> QED
    BY <1>2, <1>5, <1>6

\* fail: the flag is set, now or before.
LEMMA FailsSets ==
  ASSUME ServerInv, NEW r \in Requests, Fails(r)
  PROVE  app' \in App /\ cancelling' \in CancelLoop /\ app'.failed /\ app'.poisoned = app.poisoned
  <1>1. app \in App /\ cancelling \in CancelLoop
    BY DEF ServerInv, TypeOK
  <1>2. CASE app.failed
    BY <1>1, <1>2 DEF Fails
  <1>3. CASE ~ app.failed
    <2>1. /\ app' = [app EXCEPT !.failed = TRUE]
          /\ cancelling' = [todo |-> Jobs \ {r}, reason |-> "Failed", on |-> TRUE, poison |-> TRUE]
      BY <1>3 DEF Fails
    <2>2. Jobs \ {r} \in SUBSET Requests /\ "Failed" \in Reasons
      BY DEF Jobs, Reasons
    <2>3. cancelling' \in CancelLoop
      BY <2>1, <2>2 DEF CancelLoop
    <2> QED
      BY <1>1, <2>1, <2>3 DEF App
  <1> QED
    BY <1>2, <1>3

\* poison: every lease is finished, nothing is queued, no worker is left.
LEMMA PoisonKeeps ==
  ASSUME ServerInv, Poison, UNCHANGED <<job, aborts>>, cancelling' \in CancelLoop
  PROVE  ServerInv'
  <1>1. /\ app' \in App /\ app'.failed = app.failed
    BY DEF ServerInv, TypeOK, Poison, App
  <1>2. /\ leases' = {} /\ incoming' = <<>> /\ driving' = FALSE
        /\ worker' = [w \in Workers |-> [at |-> "ended", req |-> Nobody]]
        /\ lease' = Poisoned
    BY DEF Poison
  <1>3. Range(incoming') = {} /\ IsInjective(incoming') /\ incoming' \in Seq(Requests)
    BY <1>2 DEF Range, IsInjective
  <1>4. worker' \in [Workers -> Worker]
    BY <1>2 DEF Worker
  <1>5. \A q \in Requests : /\ GoodLease(lease'[q])
                            /\ Waits(q) => lease'[q].owner \in {"running", "parked"}
                            /\ ~ Waits(q) => lease'[q] = lease[q]
    <2> SUFFICES ASSUME NEW q \in Requests
                 PROVE  /\ GoodLease(lease'[q])
                        /\ Waits(q) => lease'[q].owner \in {"running", "parked"}
                        /\ ~ Waits(q) => lease'[q] = lease[q]
      OBVIOUS
    <2>1. GoodLease(lease[q]) /\ lease[q].owner \in {"none", "parked", "running", "ended"}
      BY DEF GoodLease, ServerInv, TypeOK, OwnersInv, Lease
    <2>2. CASE Waits(q)
      <3>1. lease'[q] = FinishedLease(lease[q]) /\ lease[q].owner \in {"running", "parked"}
        BY <1>2, <2>2 DEF Poisoned, Waits
      <3> QED
        BY <2>1, <2>2, <3>1, FinishedKeeps
    <2>3. CASE ~ Waits(q)
      <3>1. lease'[q] = lease[q]
        BY <1>2, <2>1, <2>3 DEF Poisoned, Waits
      <3> QED
        BY <2>1, <2>3, <3>1
    <2> QED
      BY <2>2, <2>3
  <1>6. lease' \in [Requests -> Lease] /\ OwnersInv'
    <2>1. lease' = [q \in Requests |-> lease'[q]]
      BY <1>2 DEF Poisoned
    <2>2. \A q \in Requests : lease'[q] \in Lease /\ OwnerInv(lease'[q])
      BY <1>5 DEF GoodLease
    <2> QED
      BY <2>1, <2>2 DEF OwnersInv
  <1>7. WorkersInv'
    BY <1>2 DEF WorkersInv, Serving
  <1>8. LeasesHaveOnePlace'
    BY <1>2, <1>3 DEF LeasesHaveOnePlace
  <1>9. RequestsInv'
    <2> SUFFICES ASSUME NEW q \in Requests
                 PROVE  /\ q \notin leases' /\ q \notin Range(incoming')
                        /\ job[q].stage \in {"new", "body"} => lease'[q].owner = "none"
                        /\ job[q].stage = "lease" => Waits(q)'
                        /\ job[q].stage \in {"closing", "done"} /\ ~ app'.failed => ~ Waits(q)'
      BY DEF RequestsInv
    <2>1. /\ job[q].stage \in {"new", "body"} => lease[q].owner = "none"
          /\ job[q].stage = "lease" => Waits(q)
          /\ job[q].stage \in {"closing", "done"} /\ ~ app.failed => ~ Waits(q)
      BY DEF ServerInv, RequestsInv
    <2> QED
      BY <1>1, <1>2, <1>3, <1>5, <2>1 DEF Waits
  <1>10. job' \in [Requests -> Job] /\ aborts' \in Nat /\ driving' \in BOOLEAN
    BY <1>2 DEF ServerInv, TypeOK
  <1> QED
    BY <1>1, <1>2, <1>3, <1>4, <1>6, <1>7, <1>8, <1>9, <1>10 DEF ServerInv, TypeOK

-----------------------------------------------------------------------------
(***************************************************************************)
(* The turns of the guest.                                                 *)
(***************************************************************************)

LEMMA AcceptKeeps ==
  ASSUME ServerInv, NEW w \in Workers, Accept(w), UNCHANGED <<job, cancelling>>
  PROVE  ServerInv'
  <1> DEFINE k == FirstLive
             q == IF k = 0 THEN Nobody ELSE incoming[k]
  <1>1. /\ worker[w].at = "accept" /\ worker' = [worker EXCEPT ![w] = [at |-> "held", req |-> q]]
        /\ incoming' = IF k = 0 THEN <<>> ELSE SubSeq(incoming, k + 1, Len(incoming))
        /\ UNCHANGED <<lease, leases, app, driving, aborts, job, cancelling>>
    BY DEF Accept
  <1>2. /\ worker \in [Workers -> Worker] /\ incoming \in Seq(Requests) /\ leases \subseteq Requests
        /\ IsInjective(incoming) /\ worker[w].req = Nobody
        /\ Range(incoming) = {incoming[i] : i \in 1 .. Len(incoming)} /\ Range(incoming) \subseteq Requests
    BY <1>1, RangeOf DEF ServerInv, TypeOK, LeasesHaveOnePlace, WorkersInv
  <1>3. \/ k = 0 /\ \A i \in 1 .. Len(incoming) : incoming[i] \notin leases
        \/ /\ k \in 1 .. Len(incoming) /\ incoming[k] \in leases
           /\ \A i \in 1 .. Len(incoming) : i < k => incoming[i] \notin leases
    BY FirstLiveIs DEF ServerInv
  <1> HIDE DEF k
  <1>4. /\ incoming' \in Seq(Requests) /\ IsInjective(incoming')
        /\ Range(incoming') \subseteq Range(incoming)
        /\ q # Nobody => q \in leases /\ q \in Range(incoming) \ Range(incoming')
        /\ \A r \in leases \intersect Range(incoming) : r = q \/ r \in Range(incoming')
    <2>1. CASE k = 0
      <3>1. Range(incoming') = {} /\ IsInjective(incoming') /\ incoming' \in Seq(Requests)
        BY <1>1, <2>1 DEF Range, IsInjective
      <3>2. leases \intersect Range(incoming) = {}
        BY <1>2, <1>3, <2>1
      <3> QED
        BY <2>1, <3>1, <3>2
    <2>2. CASE k # 0
      <3>1. k \in 1 .. Len(incoming) /\ incoming[k] \in leases /\ q = incoming[k]
            /\ incoming' = SubSeq(incoming, k + 1, Len(incoming))
        BY <1>1, <1>3, <2>2
      <3>2. /\ incoming' \in Seq(Requests) /\ IsInjective(incoming')
            /\ Range(incoming') \subseteq Range(incoming)
            /\ incoming[k] \in Range(incoming) \ Range(incoming')
            /\ \A i \in 1 .. Len(incoming) : i > k => incoming[i] \in Range(incoming')
        BY <1>2, <3>1, ShiftKeeps
      <3>3. ASSUME NEW r \in leases \intersect Range(incoming) PROVE r = q \/ r \in Range(incoming')
        <4>1. PICK i \in 1 .. Len(incoming) : r = incoming[i]
          BY <1>2
        <4>2. ~ (i < k)
          BY <1>3, <2>2, <4>1
        <4>3. i \in Int /\ k \in Int
          BY <3>1
        <4>4. i = k \/ i > k
          BY <4>2, <4>3
        <4> QED
          BY <3>1, <3>2, <4>1, <4>4
      <3> QED
        BY <3>1, <3>2, <3>3
    <2> QED
      BY <2>1, <2>2
  <1>5. q \in Requests \union {Nobody}
    BY <1>2, <1>4
  <1> HIDE DEF q
  <1>6. /\ worker'[w].at = "held" /\ worker'[w].req = q
        /\ \A v \in Workers \ {w} : worker'[v] = worker[v]
        /\ worker' \in [Workers -> Worker]
    BY <1>1, <1>2, <1>5 DEF Worker
  <1>7. WorkersInv'
    <2> SUFFICES ASSUME NEW v \in Workers
                 PROVE  /\ worker'[v].at \in {"accept", "ended"} => worker'[v].req = Nobody
                        /\ worker'[v].at \in Serving => worker'[v].req # Nobody
      BY DEF WorkersInv
    <2>1. CASE v = w
      BY <1>6, <2>1 DEF Serving
    <2>2. CASE v # w
      BY <1>6, <2>2 DEF ServerInv, WorkersInv
    <2> QED
      BY <2>1, <2>2
  <1>8. LeasesHaveOnePlace'
    <2>1. \A v \in Workers \ {w} : worker'[v].req # Nobody =>
            /\ worker'[v].req \in leases \ Range(incoming) /\ worker'[v].req # q
            /\ \A u \in Workers \ {w} : worker'[u].req = worker'[v].req => u = v
      BY <1>4, <1>6 DEF ServerInv, LeasesHaveOnePlace
    <2>2. ASSUME NEW v \in Workers, worker'[v].req # Nobody
          PROVE  /\ worker'[v].req \in leases' \ Range(incoming')
                 /\ \A u \in Workers : worker'[u].req = worker'[v].req => u = v
      <3>1. CASE v = w
        BY <1>1, <1>4, <1>6, <2>1, <2>2, <3>1
      <3>2. CASE v # w
        BY <1>1, <1>4, <1>6, <2>1, <2>2, <3>2
      <3> QED
        BY <3>1, <3>2
    <2>3. ASSUME NEW r \in leases'
          PROVE  r \in Range(incoming') \/ \E v \in Workers : worker'[v].req = r
      <3>1. r # Nobody /\ r \in leases
        BY <1>1, <1>2, <2>3, ServerAppAssumption
      <3>2. r \in Range(incoming) \/ \E v \in Workers : worker[v].req = r
        BY <3>1 DEF ServerInv, LeasesHaveOnePlace
      <3>3. CASE r \in Range(incoming)
        BY <1>4, <1>6, <3>1, <3>3
      <3>4. CASE \E v \in Workers : worker[v].req = r
        <4>1. PICK v \in Workers : worker[v].req = r
          BY <3>4
        <4>2. v # w
          BY <1>2, <3>1, <4>1
        <4> QED
          BY <1>6, <4>1, <4>2
      <3> QED
        BY <3>2, <3>3, <3>4
    <2> QED
      BY <1>4, <2>2, <2>3 DEF LeasesHaveOnePlace
  <1>9. /\ job' \in [Requests -> Job] /\ lease' \in [Requests -> Lease] /\ OwnersInv' /\ RequestsInv'
    <2>1. \A r \in Range(incoming') : lease[r].owner # "none"
      BY <1>2, <1>4 DEF ServerInv, RequestsInv
    <2> QED
      BY <1>1, <2>1, QuietStep
  <1>10. /\ app' \in App /\ cancelling' \in CancelLoop /\ driving' \in BOOLEAN /\ aborts' \in Nat
         /\ leases' \subseteq Requests
    BY <1>1 DEF ServerInv, TypeOK
  <1> QED
    BY <1>4, <1>6, <1>7, <1>8, <1>9, <1>10 DEF ServerInv, TypeOK

LEMMA TakeKeeps ==
  ASSUME ServerInv, NEW w \in Workers, Take(w), UNCHANGED <<job, cancelling>>
  PROVE  ServerInv'
  <1>1. /\ worker[w].at = "held"
        /\ worker' = [worker EXCEPT ![w].at = IF worker[w].req = Nobody THEN "ended" ELSE "run"]
        /\ UNCHANGED <<lease, leases, incoming, app, driving, aborts, job, cancelling>>
    BY DEF Take
  <1>2. worker' \in [Workers -> Worker] /\ WorkersInv' /\ LeasesHaveOnePlace'
    <2>1. CASE worker[w].req # Nobody
      <3>1. worker' = [worker EXCEPT ![w].at = "run"] /\ "run" \in Serving
        BY <1>1, <2>1 DEF Serving
      <3> QED
        BY <1>1, <2>1, <3>1, WorkerGoes
    <2>2. CASE worker[w].req = Nobody
      <3>1. worker \in [Workers -> Worker] /\ worker[w] \in Worker
        BY DEF ServerInv, TypeOK
      <3>2. [worker[w] EXCEPT !.at = "ended"] = [at |-> "ended", req |-> Nobody]
        BY <2>2, <3>1 DEF Worker
      <3>3. worker' = [worker EXCEPT ![w] = [at |-> "ended", req |-> Nobody]]
        BY <1>1, <2>2, <3>1, <3>2
      <3>4. /\ worker' \in [Workers -> Worker]
            /\ worker'[w] = [at |-> "ended", req |-> Nobody]
            /\ \A v \in Workers \ {w} : worker'[v] = worker[v]
            /\ \A v \in Workers : worker'[v].req = worker[v].req
        BY <2>2, <3>1, <3>3 DEF Worker
      <3>5. WorkersInv'
        <4> SUFFICES ASSUME NEW v \in Workers
                     PROVE  /\ worker'[v].at \in {"accept", "ended"} => worker'[v].req = Nobody
                            /\ worker'[v].at \in Serving => worker'[v].req # Nobody
          BY DEF WorkersInv
        <4>1. CASE v = w
          BY <3>4, <4>1 DEF Serving
        <4>2. CASE v # w
          BY <3>4, <4>2 DEF ServerInv, WorkersInv
        <4> QED
          BY <4>1, <4>2
      <3>6. LeasesHaveOnePlace'
        BY <1>1, <3>4 DEF ServerInv, LeasesHaveOnePlace
      <3> QED
        BY <3>4, <3>5, <3>6
    <2> QED
      BY <2>1, <2>2
  <1>3. /\ job' \in [Requests -> Job] /\ lease' \in [Requests -> Lease] /\ OwnersInv' /\ RequestsInv'
        /\ leases' \subseteq Requests /\ incoming' \in Seq(Requests)
    BY <1>1 DEF ServerInv, TypeOK, OwnersInv, RequestsInv, Waits
  <1>4. /\ app' \in App /\ cancelling' \in CancelLoop /\ driving' \in BOOLEAN /\ aborts' \in Nat
    BY <1>1 DEF ServerInv, TypeOK
  <1> QED
    BY <1>2, <1>3, <1>4 DEF ServerInv, TypeOK

\* A worker that lets go of its request: no other worker has it.
LEMMA WorkerLetsGo ==
  ASSUME ServerInv, NEW w \in Workers, NEW at \in {"accept", "ended"}, worker[w].req # Nobody,
         worker' = [worker EXCEPT ![w] = [at |-> at, req |-> Nobody]]
  PROVE  /\ worker' \in [Workers -> Worker] /\ WorkersInv'
         /\ worker'[w].req = Nobody
         /\ \A v \in Workers \ {w} : worker'[v] = worker[v] /\ worker[v].req # worker[w].req
  <1>1. /\ worker' \in [Workers -> Worker]
        /\ worker'[w] = [at |-> at, req |-> Nobody]
        /\ \A v \in Workers \ {w} : worker'[v] = worker[v]
    BY DEF ServerInv, TypeOK, Worker
  <1>2. \A v \in Workers \ {w} : worker[v].req # worker[w].req
    BY DEF ServerInv, LeasesHaveOnePlace
  <1>3. WorkersInv'
    <2> SUFFICES ASSUME NEW v \in Workers
                 PROVE  /\ worker'[v].at \in {"accept", "ended"} => worker'[v].req = Nobody
                        /\ worker'[v].at \in Serving => worker'[v].req # Nobody
      BY DEF WorkersInv
    <2>1. CASE v = w
      BY <1>1, <2>1 DEF Serving
    <2>2. CASE v # w
      BY <1>1, <2>2 DEF ServerInv, WorkersInv
    <2> QED
      BY <2>1, <2>2
  <1> QED
    BY <1>1, <1>2, <1>3

LEMMA AbortAcceptKeeps ==
  ASSUME ServerInv, NEW w \in Workers, AbortAccept(w), UNCHANGED <<job, cancelling>>
  PROVE  ServerInv'
  <1> DEFINE q == worker[w].req
  <1>1. /\ q # Nobody /\ incoming' = PutBack(q)
        /\ worker' = [worker EXCEPT ![w] = [at |-> "accept", req |-> Nobody]]
        /\ aborts' = aborts + 1
        /\ UNCHANGED <<lease, leases, app, driving, job, cancelling>>
    BY DEF AbortAccept
  <1>2. q \in Requests /\ q \in leases /\ q \notin Range(incoming) /\ lease[q].owner # "none"
    BY <1>1, WorkersLease DEF Waits
  <1>3. /\ worker' \in [Workers -> Worker] /\ WorkersInv' /\ worker'[w].req = Nobody
        /\ \A v \in Workers \ {w} : worker'[v] = worker[v] /\ worker[v].req # q
    BY <1>1, WorkerLetsGo
  <1> HIDE DEF q
  <1>4. /\ incoming' \in Seq(Requests) /\ IsInjective(incoming')
        /\ Range(incoming') = Range(incoming) \union {q}
    <2>1. incoming' = <<q>> \o incoming
      BY <1>1, <1>2 DEF PutBack
    <2>2. incoming \in Seq(Requests) /\ IsInjective(incoming)
      BY DEF ServerInv, TypeOK, LeasesHaveOnePlace
    <2> QED
      BY <1>2, <2>1, <2>2, UnshiftAdds
  <1>5. LeasesHaveOnePlace'
    <2>1. ASSUME NEW v \in Workers, worker'[v].req # Nobody
          PROVE  /\ worker'[v].req \in leases' \ Range(incoming')
                 /\ \A u \in Workers : worker'[u].req = worker'[v].req => u = v
      <3>1. v # w /\ worker'[v] = worker[v] /\ worker[v].req # q
        BY <1>3, <2>1
      <3>2. /\ worker[v].req \in leases \ Range(incoming)
            /\ \A u \in Workers : worker[u].req = worker[v].req => u = v
        BY <2>1, <3>1 DEF ServerInv, LeasesHaveOnePlace
      <3> QED
        BY <1>1, <1>3, <1>4, <2>1, <3>1, <3>2
    <2>2. ASSUME NEW r \in leases'
          PROVE  r \in Range(incoming') \/ \E v \in Workers : worker'[v].req = r
      <3>1. r \in leases
        BY <1>1, <2>2
      <3>2. CASE r = q
        BY <1>4, <3>2
      <3>3. CASE r # q
        <4>1. r \in Range(incoming) \/ \E v \in Workers : worker[v].req = r
          BY <3>1 DEF ServerInv, LeasesHaveOnePlace
        <4> QED
          BY <1>3, <1>4, <3>3, <4>1 DEF q
      <3> QED
        BY <3>2, <3>3
    <2> QED
      BY <1>4, <2>1, <2>2 DEF LeasesHaveOnePlace
  <1>6. /\ job' \in [Requests -> Job] /\ lease' \in [Requests -> Lease] /\ OwnersInv' /\ RequestsInv'
    <2>1. \A r \in Range(incoming') : lease[r].owner # "none"
      <3>1. Range(incoming) \subseteq Requests
        BY RangeOf DEF ServerInv, TypeOK
      <3> QED
        BY <1>2, <1>4, <3>1 DEF ServerInv, RequestsInv
    <2> QED
      BY <1>1, <2>1, QuietStep
  <1>7. /\ app' \in App /\ cancelling' \in CancelLoop /\ driving' \in BOOLEAN /\ aborts' \in Nat
        /\ leases' \subseteq Requests
    BY <1>1 DEF ServerInv, TypeOK
  <1> QED
    BY <1>3, <1>4, <1>5, <1>6, <1>7 DEF ServerInv, TypeOK

\* A worker goes on with its request and does something to its lease.
LEMMA GoesKeeps ==
  ASSUME ServerInv, NEW w \in Workers, NEW at \in Serving, NEW l, GoodLease(l),
         worker[w].req # Nobody, l.owner \in {"running", "parked"}, ~ l.finished,
         Goes(w, at, l), UNCHANGED <<job, cancelling>>
  PROVE  ServerInv'
  <1> DEFINE q == worker[w].req
  <1>1. /\ worker' = [worker EXCEPT ![w].at = at] /\ lease' = [lease EXCEPT ![q] = l]
        /\ UNCHANGED <<leases, incoming, app, driving, aborts, job, cancelling>>
    BY DEF Goes
  <1>2. q \in Requests /\ Waits(q) /\ ~ lease[q].finished
    BY WorkersLease
  <1>3. worker' \in [Workers -> Worker] /\ WorkersInv' /\ LeasesHaveOnePlace'
    BY <1>1, WorkerGoes
  <1> HIDE DEF q
  <1>4. l.finished = lease[q].finished
    <2>1. l.finished \in BOOLEAN /\ lease[q].finished \in BOOLEAN
      BY <1>2 DEF GoodLease, Lease, ServerInv, TypeOK
    <2> QED
      BY <1>2, <2>1
  <1>5. lease' \in [Requests -> Lease] /\ OwnersInv' /\ RequestsInv'
    BY <1>1, <1>2, <1>4, LeaseStep
  <1>6. /\ job' \in [Requests -> Job] /\ leases' \subseteq Requests /\ incoming' \in Seq(Requests)
        /\ app' \in App /\ cancelling' \in CancelLoop /\ driving' \in BOOLEAN /\ aborts' \in Nat
    BY <1>1 DEF ServerInv, TypeOK
  <1> QED
    BY <1>3, <1>5, <1>6 DEF ServerInv, TypeOK

\* A worker finishes the lease of its request and lets go of it.
LEMMA FinishesKeeps ==
  ASSUME ServerInv, NEW w \in Workers, NEW l, GoodLease(l),
         worker[w].req # Nobody, l.owner \in {"running", "parked"},
         Finishes(w, l), UNCHANGED <<job, cancelling>>
  PROVE  ServerInv'
  <1> DEFINE q == worker[w].req
             f == FinishedLease(l)
  <1>1. PICK at \in {"accept", "ended"} : worker' = [worker EXCEPT ![w] = [at |-> at, req |-> Nobody]]
    BY DEF Finishes
  <1>2. /\ lease' = [lease EXCEPT ![q] = f] /\ leases' = leases \ {q}
        /\ UNCHANGED <<incoming, app, driving, aborts, job, cancelling>>
    BY DEF Finishes
  <1>3. q \in Requests /\ Waits(q) /\ q \notin Range(incoming)
    BY WorkersLease
  <1>4. GoodLease(f) /\ f.owner \in {"running", "parked"}
    BY FinishedKeeps
  <1>5. /\ worker' \in [Workers -> Worker] /\ WorkersInv' /\ worker'[w].req = Nobody
        /\ \A v \in Workers \ {w} : worker'[v] = worker[v] /\ worker[v].req # q
    BY <1>1, WorkerLetsGo
  <1> HIDE DEF q, f
  <1>6. lease' \in [Requests -> Lease] /\ OwnersInv' /\ RequestsInv'
    <2>1. q \notin leases' /\ leases' \subseteq leases /\ Range(incoming') \subseteq Range(incoming)
      BY <1>2
    <2> QED
      BY <1>2, <1>3, <1>4, <2>1, LeaseStep
  <1>7. LeasesHaveOnePlace'
    <2>1. ASSUME NEW v \in Workers, worker'[v].req # Nobody
          PROVE  /\ worker'[v].req \in leases' \ Range(incoming')
                 /\ \A u \in Workers : worker'[u].req = worker'[v].req => u = v
      <3>1. v # w /\ worker'[v] = worker[v] /\ worker[v].req # q
        BY <1>5, <2>1
      <3>2. /\ worker[v].req \in leases \ Range(incoming)
            /\ \A u \in Workers : worker[u].req = worker[v].req => u = v
        BY <2>1, <3>1 DEF ServerInv, LeasesHaveOnePlace
      <3> QED
        BY <1>2, <1>5, <2>1, <3>1, <3>2
    <2>2. ASSUME NEW r \in leases'
          PROVE  r \in Range(incoming') \/ \E v \in Workers : worker'[v].req = r
      <3>1. r \in leases /\ r # q
        BY <1>2, <2>2
      <3>2. r \in Range(incoming) \/ \E v \in Workers : worker[v].req = r
        BY <3>1 DEF ServerInv, LeasesHaveOnePlace
      <3> QED
        BY <1>2, <1>5, <3>1, <3>2 DEF q
    <2>3. IsInjective(incoming')
      BY <1>2 DEF ServerInv, LeasesHaveOnePlace
    <2> QED
      BY <2>1, <2>2, <2>3 DEF LeasesHaveOnePlace
  <1>8. /\ job' \in [Requests -> Job] /\ leases' \subseteq Requests /\ incoming' \in Seq(Requests)
        /\ app' \in App /\ cancelling' \in CancelLoop /\ driving' \in BOOLEAN /\ aborts' \in Nat
    BY <1>2 DEF ServerInv, TypeOK
  <1> QED
    BY <1>5, <1>6, <1>7, <1>8 DEF ServerInv, TypeOK

LEMMA ServeKeeps ==
  ASSUME ServerInv, NEW w \in Workers, Serve(w), UNCHANGED <<job, cancelling>>
  PROVE  ServerInv'
  <1> DEFINE l == lease[worker[w].req]
             a == [l EXCEPT !.response = ~ l.cancelled]
  <1>1. worker[w].at \in Serving
    BY DEF Serve, Serving
  <1>2. worker[w].req # Nobody
    BY <1>1 DEF ServerInv, WorkersInv
  <1>3. GoodLease(l) /\ l.owner \in {"running", "parked"} /\ ~ l.finished
    BY <1>2, WorkersLease DEF Waits
  <1>4. GoodLease(a) /\ a.owner \in {"running", "parked"}
    <2>1. l \in Lease /\ OwnerInv(l)
      BY <1>3 DEF GoodLease
    <2>2. /\ a \in Lease /\ a.owner = l.owner /\ a.op = l.op /\ a.tasks = l.tasks
          /\ a.finished = l.finished
      BY <2>1 DEF Lease
    <2> HIDE DEF a, l
    <2>3. a.owner # "none"
      BY <1>3, <2>2
    <2> QED
      BY <1>3, <2>1, <2>2, <2>3 DEF GoodLease, OwnerInv, Live
  <1>5. "work" \in Ops /\ "cleanup" \in Ops /\ {"run", "wait", "clean", "cleaning"} = Serving
    BY DEF Ops, Serving
  <1>6. \/ Goes(w, "wait", StartOp(l, "work")) \/ Goes(w, "clean", Dispose(l, "work"))
        \/ Goes(w, "run", Dispose(l, "work")) \/ Goes(w, "cleaning", StartOp(l, "cleanup"))
        \/ Finishes(w, a) \/ Finishes(w, l) \/ Finishes(w, Dispose(l, "cleanup"))
    BY DEF Serve
  <1> HIDE DEF l, a
  <1>7. \A o \in Ops : LET s == StartOp(l, o) IN GoodLease(s) /\ s.owner = "running" /\ ~ s.finished
    BY <1>3, StartKeeps
  <1>8. \A o \in Ops : LET d == Dispose(l, o) IN
          GoodLease(d) /\ d.owner \in {"running", "parked"} /\ ~ d.finished
    BY <1>3, DisposeKeeps
  <1>9. CASE Goes(w, "wait", StartOp(l, "work"))
    BY <1>2, <1>5, <1>7, <1>9, GoesKeeps
  <1>10. CASE Goes(w, "clean", Dispose(l, "work"))
    BY <1>2, <1>5, <1>8, <1>10, GoesKeeps
  <1>11. CASE Goes(w, "run", Dispose(l, "work"))
    BY <1>2, <1>5, <1>8, <1>11, GoesKeeps
  <1>12. CASE Goes(w, "cleaning", StartOp(l, "cleanup"))
    BY <1>2, <1>5, <1>7, <1>12, GoesKeeps
  <1>13. CASE Finishes(w, a)
    BY <1>2, <1>4, <1>13, FinishesKeeps
  <1>14. CASE Finishes(w, l)
    BY <1>2, <1>3, <1>14, FinishesKeeps
  <1>15. CASE Finishes(w, Dispose(l, "cleanup"))
    BY <1>2, <1>5, <1>8, <1>15, FinishesKeeps
  <1> QED
    BY <1>6, <1>9, <1>10, <1>11, <1>12, <1>13, <1>14, <1>15

LEMMA MainEndsKeeps ==
  ASSUME ServerInv, MainEnds, UNCHANGED <<job, cancelling>>
  PROVE  ServerInv'
  <1>1. CASE Poison
    <2>1. UNCHANGED <<job, aborts>> /\ cancelling' \in CancelLoop
      BY DEF MainEnds, ServerInv, TypeOK
    <2> QED
      BY <1>1, <2>1, PoisonKeeps
  <1>2. CASE /\ app' = [app EXCEPT !.ended = TRUE] /\ driving' = FALSE
             /\ UNCHANGED <<lease, leases, incoming, worker, aborts>>
    <2>1. app' \in App /\ app'.failed = app.failed
      BY <1>2 DEF ServerInv, TypeOK, App
    <2>2. /\ leases' \subseteq Requests /\ incoming' \in Seq(Requests)
          /\ worker' \in [Workers -> Worker] /\ WorkersInv' /\ LeasesHaveOnePlace'
          /\ leases' \subseteq leases
          /\ \A q \in Range(incoming') : lease[q].owner # "none"
      BY <1>2, PlacesStay
    <2>3. /\ job' \in [Requests -> Job] /\ lease' \in [Requests -> Lease]
          /\ OwnersInv' /\ RequestsInv'
      BY <1>2, <2>1, <2>2, QuietStep
    <2>4. cancelling' \in CancelLoop /\ driving' \in BOOLEAN /\ aborts' \in Nat
      BY <1>2 DEF ServerInv, TypeOK
    <2> QED
      BY <2>1, <2>2, <2>3, <2>4 DEF ServerInv, TypeOK
  <1> QED
    BY <1>1, <1>2 DEF MainEnds

LEMMA GuestKeeps ==
  ASSUME ServerInv, Guest
  PROVE  ServerInv'
  <1>0. UNCHANGED <<job, cancelling>>
    BY DEF Guest
  <1>1. CASE Trap
    <2>1. Poison /\ UNCHANGED <<job, aborts>> /\ cancelling' \in CancelLoop
      BY <1>0, <1>1 DEF Trap, ServerInv, TypeOK
    <2> QED
      BY <2>1, PoisonKeeps
  <1>2. CASE MainEnds
    BY <1>0, <1>2, MainEndsKeeps
  <1>3. CASE Park
    <2>1. driving' = FALSE /\ UNCHANGED <<job, lease, leases, incoming, worker, app, cancelling, aborts>>
      BY <1>0, <1>3 DEF Park
    <2>2. WorkersInv' /\ LeasesHaveOnePlace' /\ OwnersInv' /\ RequestsInv'
      BY <2>1 DEF ServerInv, WorkersInv, LeasesHaveOnePlace, OwnersInv, RequestsInv, Waits
    <2> QED
      BY <2>1, <2>2 DEF ServerInv, TypeOK
  <1>4. ASSUME NEW w \in Workers, Accept(w) \/ Take(w) \/ AbortAccept(w) \/ Serve(w)
        PROVE  ServerInv'
    BY <1>0, <1>4, AcceptKeeps, TakeKeeps, AbortAcceptKeeps, ServeKeeps
  <1> QED
    BY <1>1, <1>2, <1>3, <1>4 DEF Guest

-----------------------------------------------------------------------------
(***************************************************************************)
(* The owners of leases.                                                   *)
(***************************************************************************)

\* A step of an owner, or of an operation, that ends nothing.
LEMMA OwnerSteps ==
  ASSUME ServerInv, NEW r \in Requests, NEW l, GoodLease(l), Waits(r),
         l.owner \in {"running", "parked"}, l.finished = lease[r].finished,
         lease' = [lease EXCEPT ![r] = l], driving' \in BOOLEAN,
         UNCHANGED <<job, leases, incoming, worker, app, cancelling, aborts>>
  PROVE  ServerInv'
  <1>1. /\ leases' \subseteq Requests /\ incoming' \in Seq(Requests)
        /\ worker' \in [Workers -> Worker] /\ WorkersInv' /\ LeasesHaveOnePlace'
        /\ leases' \subseteq leases /\ Range(incoming') \subseteq Range(incoming)
    BY PlacesStay
  <1>2. lease' \in [Requests -> Lease] /\ OwnersInv' /\ RequestsInv'
    BY <1>1, LeaseStep
  <1>3. /\ job' \in [Requests -> Job] /\ app' \in App /\ cancelling' \in CancelLoop
        /\ driving' \in BOOLEAN /\ aborts' \in Nat
    BY DEF ServerInv, TypeOK
  <1> QED
    BY <1>1, <1>2, <1>3 DEF ServerInv, TypeOK

\* The owner did its first task.  It may do nothing for an operation that was
\* dropped, and only its cleanup takes an operation from "closing".
LEMMA TaskDone ==
  ASSUME NEW l, GoodLease(l), l.owner = "running", l.tasks # <<>>, NEW st \in OpStates,
         st = "closing" => l.op[Head(l.tasks)[2]] = "closing" /\ Head(l.tasks)[1] = "start",
         st \in {"queued", "open", "ready"} => Live(l, Head(l.tasks)[2])
  PROVE  LET d == [l EXCEPT !.tasks = Tail(@), !.op[Head(l.tasks)[2]] = st] IN
         GoodLease(d) /\ d.owner = "running" /\ d.finished = l.finished
  <1> DEFINE o == Head(l.tasks)[2]
             op == [l.op EXCEPT ![o] = st]
             d == [l EXCEPT !.tasks = Tail(@), !.op[Head(l.tasks)[2]] = st]
  <1>1. l \in Lease /\ OwnerInv(l) /\ l.op \in [Ops -> OpStates] /\ l.tasks \in Seq(Tasks)
    BY DEF GoodLease, Lease, Tasks
  <1>2. Head(l.tasks) \in Tasks /\ Tail(l.tasks) \in Seq(Tasks)
    BY <1>1, HeadTailProperties
  <1>3. o \in Ops /\ Head(l.tasks) = <<Head(l.tasks)[1], o>>
    BY <1>2 DEF Tasks
  <1>4. op \in [Ops -> OpStates] /\ op[o] = st /\ \A x \in Ops \ {o} : op[x] = l.op[x]
    BY <1>1, <1>3
  <1>5. d = [l EXCEPT !.tasks = Tail(l.tasks), !.op = op]
    BY <1>1 DEF Lease
  <1> HIDE DEF d, op
  <1>6. /\ d \in Lease /\ d.owner = "running" /\ d.op = op /\ d.tasks = Tail(l.tasks)
        /\ d.finished = l.finished
    BY <1>1, <1>2, <1>4, <1>5 DEF Lease, Tasks
  <1>7. \A x \in Range(l.tasks) : x = Head(l.tasks) \/ x \in Range(Tail(l.tasks))
    <2>1. /\ Len(l.tasks) \in Nat /\ DOMAIN l.tasks = 1 .. Len(l.tasks)
          /\ Len(Tail(l.tasks)) = Len(l.tasks) - 1
          /\ \A i \in 1 .. Len(Tail(l.tasks)) : Tail(l.tasks)[i] = l.tasks[i + 1]
          /\ DOMAIN Tail(l.tasks) = 1 .. Len(Tail(l.tasks)) /\ Head(l.tasks) = l.tasks[1]
      BY <1>1, <1>2, HeadTailProperties
    <2> SUFFICES ASSUME NEW i \in 1 .. Len(l.tasks), i # 1
                 PROVE  l.tasks[i] \in Range(Tail(l.tasks))
      BY <2>1 DEF Range
    <2>2. i - 1 \in 1 .. Len(Tail(l.tasks)) /\ (i - 1) + 1 = i
      BY <2>1
    <2>3. Tail(l.tasks)[i - 1] = l.tasks[i]
      BY <2>1, <2>2
    <2> QED
      BY <2>1, <2>2, <2>3 DEF Range
  <1>8. ASSUME NEW x \in Ops
        PROVE  /\ d.op[x] = "closing" => <<"clean", x>> \in Range(d.tasks)
               /\ d.finished => ~ Live(d, x)
    <2>1. /\ l.op[x] = "closing" => <<"clean", x>> \in Range(l.tasks)
          /\ l.finished => ~ Live(l, x)
      BY <1>1 DEF OwnerInv
    <2>2. CASE x = o
      <3>1. d.op[x] = st
        BY <1>4, <1>6, <2>2
      <3>2. d.op[x] = "closing" => <<"clean", x>> \in Range(d.tasks)
        <4> SUFFICES ASSUME st = "closing" PROVE <<"clean", x>> \in Range(d.tasks)
          BY <3>1
        <4>1. l.op[x] = "closing" /\ Head(l.tasks)[1] = "start"
          BY <2>2
        <4>2. <<"clean", x>> \in Range(l.tasks) /\ <<"clean", x>> # Head(l.tasks)
          BY <1>3, <2>1, <4>1
        <4> QED
          BY <1>6, <1>7, <4>2
      <3> QED
        BY <1>6, <2>1, <2>2, <3>1, <3>2 DEF Live
    <2>3. CASE x # o
      <3>1. d.op[x] = l.op[x] /\ <<"clean", x>> # Head(l.tasks)
        BY <1>3, <1>4, <1>6, <2>3
      <3> QED
        BY <1>6, <1>7, <2>1, <3>1 DEF Live
    <2> QED
      BY <2>2, <2>3
  <1>9. OwnerInv(d)
    BY <1>6, <1>8 DEF OwnerInv
  <1> QED
    BY <1>6, <1>9 DEF GoodLease, d

\* The lease of a request, as ServerInv knows it.
LEMMA LeaseIsGood ==
  ASSUME ServerInv, NEW r \in Requests
  PROVE  /\ GoodLease(lease[r]) /\ lease[r].op \in [Ops -> OpStates]
         /\ lease[r].owner \in {"none", "parked", "running", "ended"}
         /\ lease[r].finished \in BOOLEAN /\ lease \in [Requests -> Lease]
  BY DEF ServerInv, TypeOK, OwnersInv, GoodLease, Lease

LEMMA RunTaskKeeps ==
  ASSUME ServerInv, NEW r \in Requests, RunTask(r)
  PROVE  ServerInv'
  <1> DEFINE l == lease[r]
             o == Head(l.tasks)[2]
             To(st) == [l EXCEPT !.tasks = Tail(@), !.op[Head(l.tasks)[2]] = st]
  <1>1. /\ l.owner = "running" /\ l.tasks # <<>>
        /\ UNCHANGED <<job, leases, incoming, worker, app, cancelling, aborts>>
    BY DEF RunTask
  <1>2. GoodLease(l) /\ Waits(r) /\ app \in App /\ driving \in BOOLEAN /\ l.op \in [Ops -> OpStates]
    BY <1>1, LeaseIsGood DEF ServerInv, TypeOK, Waits
  <1>3. o \in Ops /\ l.op[o] \in OpStates
    <2>1. l.tasks \in Seq(Tasks)
      BY <1>2 DEF GoodLease, Lease, Tasks
    <2>2. Head(l.tasks) \in Tasks
      BY <1>1, <2>1, HeadTailProperties
    <2> QED
      BY <1>2, <2>2 DEF Tasks
  <1>4. \E st \in OpStates :
          /\ lease' = [lease EXCEPT ![r] = To(st)] /\ driving' \in BOOLEAN
          /\ st = "closing" => l.op[o] = "closing" /\ Head(l.tasks)[1] = "start"
          /\ st \in {"queued", "open", "ready"} => Live(l, o)
    <2>1. CASE /\ l.op[o] = "queued"
               /\ \/ lease' = [lease EXCEPT ![r] = To("open")] /\ UNCHANGED driving
                  \/ lease' = [lease EXCEPT ![r] = To("ready")] /\ driving' = Drives
      <3>1. Drives \in BOOLEAN /\ Live(l, o) /\ "open" \in OpStates /\ "ready" \in OpStates
        BY <1>2, <2>1 DEF Drives, Live, OpStates, App
      <3> QED
        BY <1>2, <2>1, <3>1
    <2>2. CASE /\ Head(l.tasks)[1] = "start"
               /\ lease' = [lease EXCEPT ![r] = To(l.op[o])] /\ UNCHANGED driving
      BY <1>2, <1>3, <2>2 DEF Live
    <2>3. CASE /\ lease' = [lease EXCEPT ![r] = To(IF l.op[o] = "closing" THEN "closed" ELSE l.op[o])]
               /\ UNCHANGED driving
      <3> DEFINE st == IF l.op[o] = "closing" THEN "closed" ELSE l.op[o]
      <3>1. st \in OpStates /\ st # "closing"
        BY <1>3 DEF OpStates
      <3>2. st \in {"queued", "open", "ready"} => Live(l, o)
        BY DEF Live
      <3>3. lease' = [lease EXCEPT ![r] = To(st)] /\ driving' \in BOOLEAN
        BY <1>2, <2>3
      <3> HIDE DEF st, To
      <3> QED
        BY <3>1, <3>2, <3>3
    <2> QED
      BY <2>1, <2>2, <2>3 DEF RunTask
  <1>5. PICK st \in OpStates :
          /\ lease' = [lease EXCEPT ![r] = To(st)] /\ driving' \in BOOLEAN
          /\ st = "closing" => l.op[o] = "closing" /\ Head(l.tasks)[1] = "start"
          /\ st \in {"queued", "open", "ready"} => Live(l, o)
    BY <1>4
  <1>6. /\ GoodLease(To(st)) /\ To(st).owner = "running" /\ To(st).finished = l.finished
    BY <1>1, <1>2, <1>5, TaskDone
  <1> HIDE DEF To
  <1> QED
    BY <1>1, <1>2, <1>5, <1>6, OwnerSteps

LEMMA RunParksKeeps ==
  ASSUME ServerInv, NEW r \in Requests, RunParks(r)
  PROVE  ServerInv'
  <1> DEFINE l == lease[r]
             d == [l EXCEPT !.owner = "parked"]
  <1>1. /\ l.owner = "running" /\ l.tasks = <<>> /\ ~ l.finished
        /\ lease' = [lease EXCEPT ![r] = d]
        /\ UNCHANGED <<job, leases, incoming, worker, app, cancelling, driving, aborts>>
    BY DEF RunParks
  <1>2. GoodLease(l) /\ Waits(r) /\ driving \in BOOLEAN
    BY <1>1, LeaseIsGood DEF ServerInv, TypeOK, Waits
  <1>3. /\ d \in Lease /\ d.owner = "parked" /\ d.op = l.op /\ d.tasks = l.tasks
        /\ d.finished = l.finished
    BY <1>2 DEF GoodLease, Lease
  <1> HIDE DEF d, l
  <1>4. GoodLease(d)
    BY <1>1, <1>2, <1>3 DEF GoodLease, OwnerInv, Live
  <1> QED
    BY <1>1, <1>2, <1>3, <1>4, OwnerSteps DEF l

LEMMA SettleKeeps ==
  ASSUME ServerInv, NEW r \in Requests, NEW o \in Ops, Settle(r, o)
  PROVE  ServerInv'
  <1> DEFINE l == lease[r]
             d == [l EXCEPT !.op[o] = "ready"]
  <1>1. /\ l.op[o] = "open" /\ ~ l.finished
        /\ lease' = [lease EXCEPT ![r] = d] /\ driving' = Drives
        /\ UNCHANGED <<job, leases, incoming, worker, app, cancelling, aborts>>
    BY DEF Settle
  <1>2. GoodLease(l) /\ l \in Lease /\ OwnerInv(l) /\ Drives \in BOOLEAN
    BY LeaseIsGood DEF ServerInv, TypeOK, Drives, App, GoodLease
  <1>3. l.owner \in {"running", "parked"} /\ Waits(r)
    <2>1. l.owner # "none"
      BY <1>1, <1>2 DEF OwnerInv, NewLease
    <2>2. l.owner # "ended"
      BY <1>1, <1>2 DEF OwnerInv
    <2> QED
      BY <2>1, <2>2, LeaseIsGood DEF Waits
  <1>4. /\ d \in Lease /\ d.owner = l.owner /\ d.op = [l.op EXCEPT ![o] = "ready"]
        /\ d.tasks = l.tasks /\ d.finished = l.finished /\ l.op \in [Ops -> OpStates]
    BY <1>2 DEF Lease, OpStates
  <1> HIDE DEF d, l
  <1>5. OwnerInv(d)
    <2>1. ASSUME NEW x \in Ops PROVE d.op[x] = "closing" => <<"clean", x>> \in Range(d.tasks)
      BY <1>2, <1>4 DEF OwnerInv
    <2> QED
      BY <1>1, <1>2, <1>3, <1>4, <2>1 DEF OwnerInv
  <1> QED
    BY <1>1, <1>2, <1>3, <1>4, <1>5, OwnerSteps DEF l, GoodLease

Answers == {"none", "ok", "400", "500", "503", "504", "aborted"}

LEMMA AnswerIsOne ==
  ASSUME NEW r \in Requests, NEW other \in Answers
  PROVE  AnswerOr(r, other) \in Answers
  <1>1. CASE job[r].reason = "Deadline"
    BY <1>1 DEF AnswerOr, Interruption, Answers
  <1>2. CASE job[r].reason = "Disconnected"
    BY <1>2 DEF AnswerOr, Interruption, Answers
  <1>3. CASE job[r].reason = "Stopping"
    BY <1>3 DEF AnswerOr, Interruption, Answers
  <1>4. CASE job[r].reason \notin {"Deadline", "Disconnected", "Stopping"}
    BY <1>4 DEF AnswerOr, Interruption
  <1> QED
    BY <1>1, <1>2, <1>3, <1>4

\* finish(): the job of a request that has its answer.
LEMMA ClosesOne ==
  ASSUME ServerInv, NEW r \in Requests, NEW a \in Answers, NEW rd \in {"none", "cancelled", "released"},
         Closes(r, a, rd)
  PROVE  \E j \in Job : j.stage = "closing" /\ job' = [job EXCEPT ![r] = j]
  <1> DEFINE j == [stage |-> "closing", reason |-> job[r].reason, reader |-> rd, answer |-> a]
  <1>1. job \in [Requests -> Job] /\ job[r] \in Job
    BY DEF ServerInv, TypeOK
  <1>2. j \in Job
    BY <1>1 DEF Job, Answers
  <1>3. job' = [job EXCEPT ![r].stage = "closing", ![r].answer = a, ![r].reader = rd]
    BY DEF Closes
  <1>4. [[[job[r] EXCEPT !.stage = "closing"] EXCEPT !.answer = a] EXCEPT !.reader = rd] = j
    <2> DEFINE s == [stage |-> "closing", reason |-> job[r].reason, reader |-> job[r].reader,
                     answer |-> job[r].answer]
               t == [stage |-> "closing", reason |-> job[r].reason, reader |-> job[r].reader,
                     answer |-> a]
    <2>1. [job[r] EXCEPT !.stage = "closing"] = s
      BY <1>1 DEF Job
    <2>2. [s EXCEPT !.answer = a] = t
      OBVIOUS
    <2>3. [t EXCEPT !.reader = rd] = j
      OBVIOUS
    <2> HIDE DEF s, t, j
    <2> QED
      BY <2>1, <2>2, <2>3
  <1>5. job' = [job EXCEPT ![r] = j]
    BY <1>1, <1>3, <1>4
  <1> QED
    BY <1>2, <1>5

LEMMA RunEndsKeeps ==
  ASSUME ServerInv, NEW r \in Requests, RunEnds(r)
  PROVE  ServerInv'
  <1> DEFINE l == lease[r]
             d == [l EXCEPT !.owner = "ended"]
             a == AnswerOr(r, IF app.poisoned \/ l.cancelled \/ ~ l.response THEN "500" ELSE "ok")
  <1>1. /\ l.owner = "running" /\ l.tasks = <<>> /\ l.finished
        /\ lease' = [lease EXCEPT ![r] = d] /\ leases' = leases \ {r}
        /\ UNCHANGED <<incoming, worker, driving, aborts>>
    BY DEF RunEnds, Drained
  <1>2. leases' = leases
    BY <1>1 DEF ServerInv, RequestsInv
  <1>3. GoodLease(l) /\ l \in Lease /\ OwnerInv(l) /\ lease \in [Requests -> Lease]
    BY LeaseIsGood DEF GoodLease
  <1>4. /\ d \in Lease /\ d.owner = "ended" /\ d.op = l.op /\ d.tasks = l.tasks
        /\ d.finished = l.finished
    BY <1>3 DEF Lease
  <1>5. \/ /\ job[r].stage = "lease" /\ Closes(r, a, "released")
           /\ Fails(r) \/ UNCHANGED <<app, cancelling>>
        \/ job[r].stage # "lease" /\ UNCHANGED <<job, app, cancelling>>
    BY DEF RunEnds
  <1>6. a \in Answers
    <2>1. (IF app.poisoned \/ l.cancelled \/ ~ l.response THEN "500" ELSE "ok") \in Answers
      BY DEF Answers
    <2> QED
      BY <2>1, AnswerIsOne
  <1> HIDE DEF d, l, a
  <1>7. OwnerInv(d)
    BY <1>1, <1>3, <1>4 DEF OwnerInv, Live
  <1>8. lease' \in [Requests -> Lease] /\ lease'[r] = d /\ \A q \in Requests \ {r} : lease'[q] = lease[q]
    BY <1>1, <1>3, <1>4
  <1>9. OwnersInv'
    <2> SUFFICES ASSUME NEW q \in Requests PROVE OwnerInv(lease'[q])
      BY DEF OwnersInv
    <2> QED
      BY <1>7, <1>8 DEF ServerInv, OwnersInv
  <1>10. /\ app' \in App /\ cancelling' \in CancelLoop
         /\ app'.failed \/ app' = app
    BY <1>5, FailsSets DEF ServerInv, TypeOK
  <1>11. /\ job' \in [Requests -> Job] /\ \A q \in Requests \ {r} : job'[q] = job[q]
         /\ job'[r].stage \in {"closing", "done"}
    <2>1. CASE /\ job[r].stage = "lease" /\ Closes(r, a, "released")
      <3>1. PICK j \in Job : j.stage = "closing" /\ job' = [job EXCEPT ![r] = j]
        BY <1>6, <2>1, ClosesOne
      <3> QED
        BY <3>1 DEF ServerInv, TypeOK
    <2>2. CASE job[r].stage # "lease" /\ UNCHANGED <<job, app, cancelling>>
      <3>1. job[r].stage \notin {"new", "body", "lease"} /\ job[r] \in Job
        BY <1>1, <2>2 DEF ServerInv, TypeOK, RequestsInv, l
      <3>2. job[r].stage \in {"closing", "done"}
        BY <3>1 DEF Job
      <3> QED
        BY <2>2, <3>2 DEF ServerInv, TypeOK
    <2> QED
      BY <1>5, <2>1, <2>2
  <1>12. RequestsInv'
    <2> SUFFICES ASSUME NEW q \in Requests
                 PROVE  /\ q \in leases => Waits(q)' /\ ~ lease'[q].finished
                        /\ q \in Range(incoming) => lease'[q].owner # "none"
                        /\ job'[q].stage \in {"new", "body"} => lease'[q].owner = "none"
                        /\ job'[q].stage = "lease" => Waits(q)'
                        /\ job'[q].stage \in {"closing", "done"} /\ ~ app'.failed => ~ Waits(q)'
      BY <1>1, <1>2 DEF RequestsInv
    <2>1. /\ q \in leases => Waits(q) /\ ~ lease[q].finished
          /\ q \in Range(incoming) => lease[q].owner # "none"
          /\ job[q].stage \in {"new", "body"} => lease[q].owner = "none"
          /\ job[q].stage = "lease" => Waits(q)
          /\ job[q].stage \in {"closing", "done"} /\ ~ app.failed => ~ Waits(q)
      BY DEF ServerInv, RequestsInv
    <2>2. CASE q = r
      <3>1. q \notin leases
        BY <1>1, <1>2, <2>2
      <3> QED
        BY <1>4, <1>8, <1>11, <2>2, <3>1 DEF Waits
    <2>3. CASE q # r
      <3>1. lease'[q] = lease[q] /\ job'[q] = job[q]
        BY <1>8, <1>11, <2>3
      <3> QED
        BY <1>10, <2>1, <3>1 DEF Waits
    <2> QED
      BY <2>2, <2>3
  <1>13. WorkersInv' /\ LeasesHaveOnePlace' /\ leases' \subseteq Requests
         /\ incoming' \in Seq(Requests) /\ worker' \in [Workers -> Worker]
    BY <1>1, <1>2, PlacesStay
  <1>14. driving' \in BOOLEAN /\ aborts' \in Nat
    BY <1>1 DEF ServerInv, TypeOK
  <1> QED
    BY <1>8, <1>9, <1>10, <1>11, <1>12, <1>13, <1>14 DEF ServerInv, TypeOK

-----------------------------------------------------------------------------
(***************************************************************************)
(* The fetch adapter.                                                      *)
(***************************************************************************)

\* A step that changes one job, and flags.
LEMMA JobSteps ==
  ASSUME ServerInv, NEW r \in Requests, NEW j \in Job, job' = [job EXCEPT ![r] = j],
         UNCHANGED <<lease, leases, incoming, worker, aborts>>,
         j.stage # "new", j.stage = "body" => lease[r].owner = "none",
         j.stage = "lease" => Waits(r),
         j.stage \in {"closing", "done"} /\ ~ app'.failed => ~ Waits(r),
         app.failed => app'.failed,
         app' \in App, cancelling' \in CancelLoop, driving' \in BOOLEAN
  PROVE  ServerInv'
  <1>1. job' \in [Requests -> Job] /\ lease' \in [Requests -> Lease] /\ OwnersInv' /\ RequestsInv'
    BY JobStep
  <1>2. /\ leases' \subseteq Requests /\ incoming' \in Seq(Requests)
        /\ worker' \in [Workers -> Worker] /\ WorkersInv' /\ LeasesHaveOnePlace'
    BY PlacesStay
  <1>3. aborts' \in Nat
    BY DEF ServerInv, TypeOK
  <1> QED
    BY <1>1, <1>2, <1>3 DEF ServerInv, TypeOK

\* What ServerInv says of the job of one request.
LEMMA JobIsGood ==
  ASSUME ServerInv, NEW r \in Requests
  PROVE  /\ job \in [Requests -> Job] /\ job[r] \in Job
         /\ job[r].stage \in {"new", "body"} => ~ Waits(r) /\ lease[r].owner = "none"
         /\ job[r].stage = "lease" => Waits(r)
         /\ job[r].stage \in {"closing", "done"} /\ ~ app.failed => ~ Waits(r)
         /\ app \in App /\ cancelling \in CancelLoop /\ driving \in BOOLEAN
         /\ Drives \in BOOLEAN
  BY DEF ServerInv, TypeOK, RequestsInv, Waits, Drives, App

LEMMA FetchKeeps ==
  ASSUME ServerInv, NEW r \in Requests, Fetch(r)
  PROVE  ServerInv'
  <1>1. /\ job[r].stage = "new"
        /\ UNCHANGED <<lease, leases, incoming, worker, app, cancelling, driving, aborts>>
    BY DEF Fetch
  <1>2. \E j \in Job : job' = [job EXCEPT ![r] = j] /\ j.stage \in {"done", "body"}
    <2> DEFINE a == [job[r] EXCEPT !.stage = "done", !.answer = "503"]
               b == [job[r] EXCEPT !.stage = "body"]
    <2>1. a \in Job /\ a.stage = "done" /\ b \in Job /\ b.stage = "body"
      BY JobIsGood DEF Job
    <2>2. job' = [job EXCEPT ![r] = a] \/ job' = [job EXCEPT ![r] = b]
      <3>1. CASE job' = [job EXCEPT ![r].stage = "done", ![r].answer = "503"]
        BY <3>1, JobIsGood
      <3> QED
        BY <3>1 DEF Fetch
    <2> HIDE DEF a, b
    <2> QED
      BY <2>1, <2>2
  <1>3. PICK j \in Job : job' = [job EXCEPT ![r] = j] /\ j.stage \in {"done", "body"}
    BY <1>2
  <1>4. ~ Waits(r) /\ lease[r].owner = "none"
    BY <1>1, JobIsGood
  <1> QED
    BY <1>1, <1>3, <1>4, JobIsGood, JobSteps

LEMMA BodyEndsKeeps ==
  ASSUME ServerInv, NEW r \in Requests, BodyEnds(r)
  PROVE  ServerInv'
  <1>1. /\ job[r].stage = "body" /\ UNCHANGED <<worker, aborts>>
    BY DEF BodyEnds
  <1>2. ~ Waits(r) /\ lease[r].owner = "none"
    BY <1>1, JobIsGood
  <1>3. CASE app.poisoned
    <2>1. Closes(r, "500", "released") /\ Fails(r) /\ UNCHANGED <<lease, leases, incoming, driving>>
      BY <1>3 DEF BodyEnds
    <2>2. "500" \in Answers
      BY DEF Answers
    <2>3. PICK j \in Job : j.stage = "closing" /\ job' = [job EXCEPT ![r] = j]
      BY <2>1, <2>2, ClosesOne
    <2>4. app' \in App /\ cancelling' \in CancelLoop /\ app'.failed
      BY <2>1, FailsSets
    <2>5. driving' \in BOOLEAN
      BY <2>1, JobIsGood
    <2> QED
      BY <1>1, <2>1, <2>3, <2>4, <2>5, JobSteps
  <1>4. CASE ~ app.poisoned
    <2> DEFINE j == [stage |-> "lease", reason |-> job[r].reason, reader |-> "released",
                     answer |-> job[r].answer]
               l == lease[r]
               d == [l EXCEPT !.owner = "running"]
    <2>1. /\ job' = [job EXCEPT ![r].stage = "lease", ![r].reader = "released"]
          /\ leases' = leases \cup {r} /\ incoming' = Append(incoming, r)
          /\ lease' = [lease EXCEPT ![r] = d] /\ driving' = Drives
          /\ UNCHANGED <<app, cancelling>>
      BY <1>4 DEF BodyEnds
    <2>2. job' = [job EXCEPT ![r] = j] /\ j \in Job /\ j.stage = "lease"
      <3>1. job \in [Requests -> Job] /\ job[r] \in Job
        BY JobIsGood
      <3>2. [[job[r] EXCEPT !.stage = "lease"] EXCEPT !.reader = "released"] = j
        <4> DEFINE s == [stage |-> "lease", reason |-> job[r].reason, reader |-> job[r].reader,
                         answer |-> job[r].answer]
        <4>1. [job[r] EXCEPT !.stage = "lease"] = s
          BY <3>1 DEF Job
        <4>2. [s EXCEPT !.reader = "released"] = j
          OBVIOUS
        <4> HIDE DEF s, j
        <4> QED
          BY <4>1, <4>2
      <3> QED
        BY <2>1, <3>1, <3>2 DEF Job
    <2>3. l = NewLease /\ l \in Lease /\ lease \in [Requests -> Lease]
      BY <1>2, LeaseIsGood DEF GoodLease, OwnerInv
    <2>4. /\ d \in Lease /\ d.owner = "running" /\ d.op = l.op /\ d.tasks = l.tasks
          /\ ~ d.finished
      <3>1. ~ l.finished
        BY <2>3 DEF NewLease
      <3> QED
        BY <2>3, <3>1 DEF Lease
    <2> HIDE DEF d, j
    <2>5. OwnerInv(d)
      BY <2>3, <2>4 DEF OwnerInv, NewLease
    <2>6. /\ r \notin leases /\ r \notin Range(incoming) /\ leases \subseteq Requests
          /\ incoming \in Seq(Requests) /\ IsInjective(incoming)
      BY <1>2 DEF ServerInv, RequestsInv, TypeOK, LeasesHaveOnePlace
    <2>7. /\ incoming' \in Seq(Requests) /\ IsInjective(incoming')
          /\ Range(incoming') = Range(incoming) \union {r}
      BY <2>1, <2>6, PushAdds
    <2>8. /\ lease' \in [Requests -> Lease] /\ lease'[r] = d
          /\ \A q \in Requests \ {r} : lease'[q] = lease[q]
      BY <2>1, <2>3, <2>4
    <2>9. /\ job' \in [Requests -> Job] /\ job'[r] = j
          /\ \A q \in Requests \ {r} : job'[q] = job[q]
      BY <2>2, JobIsGood
    <2>10. OwnersInv'
      <3> SUFFICES ASSUME NEW q \in Requests PROVE OwnerInv(lease'[q])
        BY DEF OwnersInv
      <3> QED
        BY <2>5, <2>8 DEF ServerInv, OwnersInv
    <2>11. RequestsInv'
      <3> SUFFICES ASSUME NEW q \in Requests
                   PROVE  /\ q \in leases' => Waits(q)' /\ ~ lease'[q].finished
                          /\ q \in Range(incoming') => lease'[q].owner # "none"
                          /\ job'[q].stage \in {"new", "body"} => lease'[q].owner = "none"
                          /\ job'[q].stage = "lease" => Waits(q)'
                          /\ job'[q].stage \in {"closing", "done"} /\ ~ app'.failed => ~ Waits(q)'
        BY DEF RequestsInv
      <3>1. CASE q = r
        BY <2>2, <2>4, <2>8, <2>9, <3>1 DEF Waits
      <3>2. CASE q # r
        <4>1. lease'[q] = lease[q] /\ job'[q] = job[q] /\ app' = app
              /\ (q \in leases' <=> q \in leases) /\ (q \in Range(incoming') <=> q \in Range(incoming))
          BY <2>1, <2>7, <2>8, <2>9, <3>2
        <4>2. /\ q \in leases => Waits(q) /\ ~ lease[q].finished
              /\ q \in Range(incoming) => lease[q].owner # "none"
              /\ job[q].stage \in {"new", "body"} => lease[q].owner = "none"
              /\ job[q].stage = "lease" => Waits(q)
              /\ job[q].stage \in {"closing", "done"} /\ ~ app.failed => ~ Waits(q)
          BY DEF ServerInv, RequestsInv
        <4> QED
          BY <4>1, <4>2 DEF Waits
      <3> QED
        BY <3>1, <3>2
    <2>12. LeasesHaveOnePlace'
      <3>1. \A w \in Workers : worker[w].req # Nobody =>
              /\ worker[w].req \in leases \ Range(incoming)
              /\ \A v \in Workers : worker[v].req = worker[w].req => v = w
        BY DEF ServerInv, LeasesHaveOnePlace
      <3>2. \A q \in leases : q \in Range(incoming) \/ \E w \in Workers : worker[w].req = q
        BY DEF ServerInv, LeasesHaveOnePlace
      <3> QED
        BY <1>1, <2>1, <2>6, <2>7, <3>1, <3>2 DEF LeasesHaveOnePlace
    <2>13. /\ worker' \in [Workers -> Worker] /\ WorkersInv' /\ aborts' \in Nat
           /\ app' \in App /\ cancelling' \in CancelLoop /\ leases' \subseteq Requests
      BY <1>1, <2>1 DEF ServerInv, TypeOK, WorkersInv
    <2>14. driving' \in BOOLEAN
      BY <2>1, JobIsGood
    <2> QED
      BY <2>7, <2>8, <2>9, <2>10, <2>11, <2>12, <2>13, <2>14 DEF ServerInv, TypeOK
  <1> QED
    BY <1>3, <1>4

LEMMA BodyRejectsKeeps ==
  ASSUME ServerInv, NEW r \in Requests, BodyRejects(r)
  PROVE  ServerInv'
  <1> DEFINE j == [stage |-> "closing", reason |-> "Rejected", reader |-> "cancelled", answer |-> "400"]
  <1>1. /\ job[r].stage = "body" /\ job' = [job EXCEPT ![r] = j]
        /\ UNCHANGED <<lease, leases, incoming, worker, app, cancelling, driving, aborts>>
    BY DEF BodyRejects
  <1>2. j \in Job /\ j.stage = "closing"
    BY DEF Job, Reasons
  <1> HIDE DEF j
  <1> QED
    BY <1>1, <1>2, JobIsGood, JobSteps

LEMMA BodyStopsKeeps ==
  ASSUME ServerInv, NEW r \in Requests, BodyStops(r)
  PROVE  ServerInv'
  <1>1. /\ job[r].stage = "body" /\ Closes(r, AnswerOr(r, "500"), "cancelled")
        /\ UNCHANGED <<lease, leases, incoming, worker, app, cancelling, driving, aborts>>
    BY DEF BodyStops
  <1>2. AnswerOr(r, "500") \in Answers
    BY AnswerIsOne DEF Answers
  <1>3. PICK j \in Job : j.stage = "closing" /\ job' = [job EXCEPT ![r] = j]
    BY <1>1, <1>2, ClosesOne
  <1> QED
    BY <1>1, <1>3, JobIsGood, JobSteps

LEMMA ReaderEndsKeeps ==
  ASSUME ServerInv, NEW r \in Requests, ReaderEnds(r)
  PROVE  ServerInv'
  <1> DEFINE j == [job[r] EXCEPT !.reader = "released"]
  <1>1. /\ job[r].stage = "closing" /\ job' = [job EXCEPT ![r] = j]
        /\ UNCHANGED <<lease, leases, incoming, worker, app, cancelling, driving, aborts>>
    BY DEF ReaderEnds
  <1>2. j \in Job /\ j.stage = "closing"
    BY <1>1, JobIsGood DEF Job
  <1> HIDE DEF j
  <1> QED
    BY <1>1, <1>2, JobIsGood, JobSteps

LEMMA AnswerKeeps ==
  ASSUME ServerInv, NEW r \in Requests, Answer(r)
  PROVE  ServerInv'
  <1> DEFINE j == [job[r] EXCEPT !.stage = "done"]
  <1>1. /\ job[r].stage = "closing" /\ job' = [job EXCEPT ![r] = j]
        /\ UNCHANGED <<lease, leases, incoming, worker, cancelling, aborts>>
        /\ StopsProgram \/ UNCHANGED <<app, driving>>
    BY DEF Answer
  <1>2. j \in Job /\ j.stage = "done"
    BY <1>1, JobIsGood DEF Job
  <1>3. app' \in App /\ app'.failed = app.failed /\ driving' \in BOOLEAN
    BY <1>1, JobIsGood DEF StopsProgram, App
  <1> HIDE DEF j
  <1> QED
    BY <1>1, <1>2, <1>3, JobIsGood, JobSteps

\* cancel(job, reason): the job has its reason, and its owner wakes.
LEMMA CancelKeeps ==
  ASSUME ServerInv, NEW r \in Requests, NEW reason \in Reasons, Cancel(r, reason),
         UNCHANGED <<leases, incoming, worker, app, aborts>>, cancelling' \in CancelLoop
  PROVE  ServerInv'
  <1> DEFINE j == [job[r] EXCEPT !.reason = reason]
             l == lease[r]
             c == [l EXCEPT !.cancelled = TRUE]
  <1>1. /\ job' = [job EXCEPT ![r] = j]
        /\ \/ job[r].stage = "lease" /\ lease' = [lease EXCEPT ![r] = Signal(c)] /\ driving' = Drives
           \/ UNCHANGED <<lease, driving>>
    BY DEF Cancel
  <1>2. j \in Job /\ j.stage = job[r].stage /\ job \in [Requests -> Job]
    BY JobIsGood DEF Job
  <1>3. GoodLease(l) /\ l \in Lease /\ OwnerInv(l) /\ lease \in [Requests -> Lease]
    BY LeaseIsGood DEF GoodLease
  <1>4. /\ c \in Lease /\ c.owner = l.owner /\ c.op = l.op /\ c.tasks = l.tasks
        /\ c.finished = l.finished
    BY <1>3 DEF Lease
  <1> HIDE DEF j, c
  <1>5. /\ job' \in [Requests -> Job] /\ \A q \in Requests : job'[q].stage = job[q].stage
    BY <1>1, <1>2
  <1>6. CASE UNCHANGED <<lease, driving>>
    <2>1. OwnersInv' /\ RequestsInv'
      BY <1>5, <1>6 DEF ServerInv, OwnersInv, RequestsInv, Waits
    <2>2. WorkersInv' /\ LeasesHaveOnePlace'
      BY PlacesStay
    <2> QED
      BY <1>5, <1>6, <2>1, <2>2 DEF ServerInv, TypeOK
  <1>7. CASE job[r].stage = "lease" /\ lease' = [lease EXCEPT ![r] = Signal(c)] /\ driving' = Drives
    <2> DEFINE s == Signal(c)
    <2>1. Waits(r) /\ l.owner \in {"running", "parked"}
      BY <1>7, JobIsGood DEF Waits
    <2>2. /\ s \in Lease /\ s.owner = "running" /\ s.op = l.op /\ s.tasks = l.tasks
          /\ s.finished = l.finished
      BY <1>4, <2>1, SignalKeeps
    <2>3. lease' = [lease EXCEPT ![r] = s]
      BY <1>7
    <2> HIDE DEF s
    <2>4. OwnerInv(s)
      BY <1>3, <2>2 DEF OwnerInv, Live
    <2>5. /\ lease' \in [Requests -> Lease] /\ lease'[r] = s
          /\ \A q \in Requests \ {r} : lease'[q] = lease[q]
      BY <1>3, <2>2, <2>3
    <2>6. OwnersInv'
      <3> SUFFICES ASSUME NEW q \in Requests PROVE OwnerInv(lease'[q])
        BY DEF OwnersInv
      <3> QED
        BY <2>4, <2>5 DEF ServerInv, OwnersInv
    <2>7. RequestsInv'
      <3> SUFFICES ASSUME NEW q \in Requests
                   PROVE  /\ q \in leases => Waits(q)' /\ ~ lease'[q].finished
                          /\ q \in Range(incoming) => lease'[q].owner # "none"
                          /\ job'[q].stage \in {"new", "body"} => lease'[q].owner = "none"
                          /\ job'[q].stage = "lease" => Waits(q)'
                          /\ job'[q].stage \in {"closing", "done"} /\ ~ app.failed => ~ Waits(q)'
        BY DEF RequestsInv
      <3>1. /\ q \in leases => Waits(q) /\ ~ lease[q].finished
            /\ q \in Range(incoming) => lease[q].owner # "none"
            /\ job[q].stage \in {"new", "body"} => lease[q].owner = "none"
            /\ job[q].stage = "lease" => Waits(q)
            /\ job[q].stage \in {"closing", "done"} /\ ~ app.failed => ~ Waits(q)
        BY DEF ServerInv, RequestsInv
      <3>2. CASE q = r
        BY <1>5, <2>1, <2>2, <2>5, <3>1, <3>2 DEF Waits
      <3>3. CASE q # r
        BY <1>5, <2>5, <3>1, <3>3 DEF Waits
      <3> QED
        BY <3>2, <3>3
    <2>8. WorkersInv' /\ LeasesHaveOnePlace'
      BY PlacesStay
    <2>9. driving' \in BOOLEAN
      BY <1>7, JobIsGood
    <2> QED
      BY <1>5, <2>5, <2>6, <2>7, <2>8, <2>9 DEF ServerInv, TypeOK
  <1> QED
    BY <1>1, <1>6, <1>7

LEMMA CancelNextKeeps ==
  ASSUME ServerInv, NEW r \in Requests, CancelNext(r)
  PROVE  ServerInv'
  <1>1. /\ cancelling' = [cancelling EXCEPT !.todo = @ \ {r}]
        /\ UNCHANGED <<leases, incoming, worker, app, aborts>>
    BY DEF CancelNext
  <1>2. cancelling' \in CancelLoop /\ cancelling.reason \in Reasons
    BY <1>1, JobIsGood DEF CancelLoop
  <1>3. CASE Cancel(r, cancelling.reason)
    BY <1>1, <1>2, <1>3, CancelKeeps
  <1>4. CASE UNCHANGED <<job, lease, driving>>
    <2>1. WorkersInv' /\ LeasesHaveOnePlace' /\ OwnersInv' /\ RequestsInv'
      BY <1>1, <1>4 DEF ServerInv, WorkersInv, LeasesHaveOnePlace, OwnersInv, RequestsInv, Waits
    <2> QED
      BY <1>1, <1>2, <1>4, <2>1 DEF ServerInv, TypeOK
  <1> QED
    BY <1>3, <1>4 DEF CancelNext

LEMMA CancelledAllKeeps ==
  ASSUME ServerInv, CancelledAll
  PROVE  ServerInv'
  <1>1. cancelling' = NoLoop /\ UNCHANGED <<job, aborts>>
    BY DEF CancelledAll
  <1>2. cancelling' \in CancelLoop
    BY <1>1 DEF CancelLoop, NoLoop, Reasons
  <1>3. CASE Poison
    BY <1>1, <1>2, <1>3, PoisonKeeps
  <1>4. CASE UNCHANGED <<lease, leases, incoming, worker, app, driving>>
    <2>1. WorkersInv' /\ LeasesHaveOnePlace' /\ OwnersInv' /\ RequestsInv'
      BY <1>1, <1>4 DEF ServerInv, WorkersInv, LeasesHaveOnePlace, OwnersInv, RequestsInv, Waits
    <2> QED
      BY <1>1, <1>2, <1>4, <2>1 DEF ServerInv, TypeOK
  <1> QED
    BY <1>3, <1>4 DEF CancelledAll

LEMMA CleanupFiresKeeps ==
  ASSUME ServerInv, NEW r \in Requests, CleanupFires(r)
  PROVE  ServerInv'
  <1> DEFINE a == IF job[r].stage = "closing" THEN job[r].answer ELSE AnswerOr(r, "500")
  <1>1. /\ Fails(r) /\ Closes(r, a, "released")
        /\ UNCHANGED <<lease, leases, incoming, worker, driving, aborts>>
    BY DEF CleanupFires
  <1>2. a \in Answers
    <2>1. AnswerOr(r, "500") \in Answers
      BY AnswerIsOne DEF Answers
    <2>2. job[r].answer \in Answers
      BY JobIsGood DEF Job, Answers
    <2> QED
      BY <2>1, <2>2
  <1> HIDE DEF a
  <1>3. PICK j \in Job : j.stage = "closing" /\ job' = [job EXCEPT ![r] = j]
    BY <1>1, <1>2, ClosesOne
  <1>4. app' \in App /\ cancelling' \in CancelLoop /\ app'.failed
    BY <1>1, FailsSets
  <1> QED
    BY <1>1, <1>3, <1>4, JobIsGood, JobSteps

LEMMA StopKeeps ==
  ASSUME ServerInv, Stop
  PROVE  ServerInv'
  <1>1. /\ app.stops < 2
        /\ app' = [app EXCEPT !.stops = @ + 1, !.stopping = @ \/ Jobs = {}]
        /\ driving' = (Jobs = {} /\ Drives)
        /\ cancelling' = IF app.stops = 0 THEN cancelling
                         ELSE [todo |-> Jobs, reason |-> "Stopping", on |-> TRUE, poison |-> FALSE]
        /\ UNCHANGED <<job, lease, leases, incoming, worker, aborts>>
    BY DEF Stop
  <1>2. app \in App /\ cancelling \in CancelLoop /\ Drives \in BOOLEAN
    BY DEF ServerInv, TypeOK, Drives, App
  <1>3. app' \in App /\ app'.failed = app.failed
    <2>1. app.stops \in 0 .. 2 /\ app.stops + 1 \in 0 .. 2
      BY <1>1, <1>2 DEF App
    <2> QED
      BY <1>1, <1>2, <2>1 DEF App
  <1>4. cancelling' \in CancelLoop
    <2>1. Jobs \in SUBSET Requests /\ "Stopping" \in Reasons
      BY DEF Jobs, Reasons
    <2> QED
      BY <1>1, <1>2, <2>1 DEF CancelLoop
  <1>5. WorkersInv' /\ LeasesHaveOnePlace' /\ OwnersInv' /\ RequestsInv'
    BY <1>1, <1>3 DEF ServerInv, WorkersInv, LeasesHaveOnePlace, OwnersInv, RequestsInv, Waits
  <1>6. driving' \in BOOLEAN
    BY <1>1
  <1> QED
    BY <1>1, <1>3, <1>4, <1>5, <1>6 DEF ServerInv, TypeOK

-----------------------------------------------------------------------------
(***************************************************************************)
(* The invariant of the specification, and what follows from it.           *)
(***************************************************************************)

LEMMA InitServer == Init => ServerInv
  <1> SUFFICES ASSUME Init PROVE ServerInv
    OBVIOUS
  <1>1. NewJob \in Job /\ NewLease \in Lease /\ OwnerInv(NewLease)
    BY NewLeaseIsGood DEF NewJob, Job, Reasons, GoodLease
  <1>2. Range(incoming) = {} /\ IsInjective(incoming) /\ incoming \in Seq(Requests)
    BY DEF Init, Range, IsInjective
  <1>3. TypeOK
    <2>1. worker \in [Workers -> Worker]
      BY DEF Init, Worker
    <2>2. app \in App /\ cancelling \in CancelLoop
      BY DEF Init, App, CancelLoop, NoLoop, Reasons
    <2> QED
      BY <1>1, <1>2, <2>1, <2>2 DEF Init, TypeOK
  <1>4. WorkersInv /\ LeasesHaveOnePlace
    BY <1>2 DEF Init, WorkersInv, LeasesHaveOnePlace, Serving
  <1>5. OwnersInv
    BY <1>1 DEF Init, OwnersInv
  <1>6. RequestsInv
    BY <1>2 DEF Init, RequestsInv, Waits, NewJob, NewLease
  <1> QED
    BY <1>3, <1>4, <1>5, <1>6 DEF ServerInv

LEMMA NextServer == ServerInv /\ [Next]_vars => ServerInv'
  <1> SUFFICES ASSUME ServerInv, [Next]_vars PROVE ServerInv'
    OBVIOUS
  <1>1. CASE UNCHANGED vars
    <2>1. WorkersInv' /\ LeasesHaveOnePlace' /\ OwnersInv' /\ RequestsInv'
      BY <1>1 DEF vars, ServerInv, WorkersInv, LeasesHaveOnePlace, OwnersInv, RequestsInv, Waits
    <2> QED
      BY <1>1, <2>1 DEF vars, ServerInv, TypeOK
  <1>2. CASE Guest
    BY <1>2, GuestKeeps
  <1>3. CASE CancelledAll
    BY <1>3, CancelledAllKeeps
  <1>4. ASSUME NEW r \in Requests, CancelNext(r) PROVE ServerInv'
    BY <1>4, CancelNextKeeps
  <1>5. CASE Continue
    BY <1>5, RunTaskKeeps, RunParksKeeps, RunEndsKeeps, BodyStopsKeeps, AnswerKeeps DEF Continue
  <1>6. ASSUME NEW r \in Requests, Deadline(r) \/ Disconnect(r) PROVE ServerInv'
    <2>1. /\ Cancel(r, "Deadline") \/ Cancel(r, "Disconnected")
          /\ UNCHANGED <<leases, incoming, worker, app, cancelling, aborts>>
      BY <1>6 DEF Deadline, Disconnect
    <2>2. "Deadline" \in Reasons /\ "Disconnected" \in Reasons /\ cancelling' \in CancelLoop
      BY <2>1, JobIsGood DEF Reasons
    <2> QED
      BY <2>1, <2>2, CancelKeeps
  <1>7. CASE Platform
    BY <1>6, <1>7, StopKeeps, FetchKeeps, BodyEndsKeeps, BodyRejectsKeeps, ReaderEndsKeeps,
       SettleKeeps DEF Platform
  <1>8. CASE Timers
    BY <1>6, <1>8, CleanupFiresKeeps DEF Timers
  <1> QED
    BY <1>1, <1>2, <1>3, <1>4, <1>5, <1>7, <1>8 DEF Next, Loop

\* No request of a retained program is lost or served twice, no lease the guest
\* may name is gone, and no owner sleeps through a task or its end.
THEOREM KeepsServerInv == Spec => []ServerInv
  BY InitServer, NextServer, PTL DEF Spec

\* An owner ends with each operation disposed of or cleaned up, and a request is
\* answered when its owner has ended.
LEMMA ServerReleases == ServerInv => NativeIsReleased
  <1> SUFFICES ASSUME ServerInv, NEW r \in Requests
               PROVE  /\ lease[r].owner = "ended" =>
                           \A o \in Ops : lease[r].op[o] \in {"none", "dropped", "closed"}
                      /\ job[r].stage = "done" /\ ~ app.failed =>
                           lease[r].owner \in {"none", "ended"}
    BY DEF NativeIsReleased
  <1>1. ASSUME lease[r].owner = "ended", NEW o \in Ops
        PROVE  lease[r].op[o] \in {"none", "dropped", "closed"}
    <2>1. /\ lease[r].tasks = <<>> /\ lease[r].finished
          /\ lease[r].op[o] = "closing" => <<"clean", o>> \in Range(lease[r].tasks)
          /\ lease[r].finished => ~ Live(lease[r], o)
      BY <1>1 DEF ServerInv, OwnersInv, OwnerInv
    <2>2. Range(lease[r].tasks) = {}
      BY <2>1 DEF Range
    <2>3. lease[r].op[o] \in OpStates
      BY LeaseIsGood
    <2> QED
      BY <2>1, <2>2, <2>3 DEF Live, OpStates
  <1>2. job[r].stage = "done" /\ ~ app.failed => lease[r].owner \in {"none", "ended"}
    BY JobIsGood, LeaseIsGood DEF Waits
  <1> QED
    BY <1>1, <1>2

\* No native operation outlives the owner that started it, and no owner outlives
\* its request, unless the application failed.
THEOREM KeepsNativeReleased == Spec => []NativeIsReleased
  BY KeepsServerInv, ServerReleases, PTL
=============================================================================
