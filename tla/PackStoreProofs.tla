--------------------------- MODULE PackStoreProofs ---------------------------
(***************************************************************************)
(* The packed cache keeps CacheInv and implements CacheMap, for every      *)
(* finite set of processes and of keys, every batch, cap and bound: what   *)
(* the index names is complete and unlocked, a live lease is retained,     *)
(* marks only grow, to its readers the cache is a map, and a collection    *)
(* that ends well leaves what fits its cap.                                *)
(*                                                                         *)
(* StoreInv comes first, action by action (StepKeeps), and what follows    *)
(* from it alone.  Then what a step does to a settled pack, to the work of *)
(* a process (JobSteps) and to a snapshot, what it has gathered, and the   *)
(* step of the map that each step of the store is.  Sums over packs come   *)
(* last, with what a collection works towards.                             *)
(***************************************************************************)
EXTENDS PackStore, FiniteSetTheorems, SequenceTheorems, WellFoundedInduction, TLAPS

-----------------------------------------------------------------------------
(***************************************************************************)
(* The operators of the model.                                             *)
(***************************************************************************)

\* A finite set of numbers that is not empty has a least and a greatest one.
LEMMA MinExists ==
  ASSUME NEW S \in SUBSET Int, IsFiniteSet(S), S # {}
  PROVE  Min(S) \in S /\ \A y \in S : Min(S) <= y
  <1> DEFINE Below(x) == {z \in S : z < x}
             T == {Below(x) : x \in S}
  <1>1. IsWellFoundedOn(StrictSubsetOrdering(S), SUBSET S)
    BY FS_StrictSubsetOrderingWellFounded, FS_FiniteSubsetsOfFinite
  <1>2. T \subseteq SUBSET S /\ T # {}
    OBVIOUS
  <1>3. PICK b \in T : \A c \in T : ~ (<<c, b>> \in StrictSubsetOrdering(S))
    BY <1>1, <1>2, WFMin
  <1>4. PICK x \in S : b = Below(x)
    OBVIOUS
  <1>5. ASSUME NEW y \in S PROVE x <= y
    <2> SUFFICES ASSUME y < x PROVE FALSE
      OBVIOUS
    <2>0. x \in Int /\ y \in Int /\ \A z \in S : z \in Int
      OBVIOUS
    <2>1. Below(y) \subseteq Below(x) /\ Below(y) # Below(x)
      <3>1. \A z \in S : z < y => z < x
        BY <2>0
      <3>2. y \in Below(x)
        BY <2>0
      <3>3. y \notin Below(y)
        BY <2>0
      <3> QED
        BY <3>1, <3>2, <3>3
    <2>2. <<Below(y), b>> \in StrictSubsetOrdering(S)
      BY <1>4, <2>1, <1>2 DEF StrictSubsetOrdering
    <2> QED
      BY <1>3, <2>2
  <1> QED
    BY <1>5 DEF Min

LEMMA MaxExists ==
  ASSUME NEW S \in SUBSET Int, IsFiniteSet(S), S # {}
  PROVE  Max(S) \in S /\ \A y \in S : Max(S) >= y
  <1> DEFINE Above(x) == {z \in S : z > x}
             T == {Above(x) : x \in S}
  <1>1. IsWellFoundedOn(StrictSubsetOrdering(S), SUBSET S)
    BY FS_StrictSubsetOrderingWellFounded, FS_FiniteSubsetsOfFinite
  <1>2. T \subseteq SUBSET S /\ T # {}
    OBVIOUS
  <1>3. PICK b \in T : \A c \in T : ~ (<<c, b>> \in StrictSubsetOrdering(S))
    BY <1>1, <1>2, WFMin
  <1>4. PICK x \in S : b = Above(x)
    OBVIOUS
  <1>5. ASSUME NEW y \in S PROVE x >= y
    <2> SUFFICES ASSUME y > x PROVE FALSE
      OBVIOUS
    <2>0. x \in Int /\ y \in Int /\ \A z \in S : z \in Int
      OBVIOUS
    <2>1. Above(y) \subseteq Above(x) /\ Above(y) # Above(x)
      <3>1. \A z \in S : z > y => z > x
        BY <2>0
      <3>2. y \in Above(x)
        BY <2>0
      <3>3. y \notin Above(y)
        BY <2>0
      <3> QED
        BY <3>1, <3>2, <3>3
    <2>2. <<Above(y), b>> \in StrictSubsetOrdering(S)
      BY <1>4, <2>1, <1>2 DEF StrictSubsetOrdering
    <2> QED
      BY <1>3, <2>2
  <1> QED
    BY <1>5 DEF Max

\* A table is a function from some keys to locations.
LEMMA TableFacts ==
  ASSUME NEW f
  PROVE  f \in Tables <=> /\ f = [k \in DOMAIN f |-> f[k]]
                          /\ DOMAIN f \subseteq Keys
                          /\ \A k \in DOMAIN f : f[k] \in Locations
  BY DEF Tables

LEMMA EmptyTable == <<>> \in Tables /\ DOMAIN <<>> = {}
  <1>1. DOMAIN <<>> = {}
    OBVIOUS
  <1>2. <<>> = [k \in {} |-> k]
    OBVIOUS
  <1> QED
    BY <1>1, <1>2, TableFacts

LEMMA LocationFacts ==
  ASSUME NEW l \in Locations
  PROVE  l.pack \in Packs /\ l.at \in Places /\ l.at \in Nat /\ l.at >= 1 /\ l.used \in 1 .. MaxClock
  <1>1. IsFiniteSet(Keys) /\ Batches \subseteq Seq(Keys)
    BY Sizes
  <1>2. Cardinality(Keys) \in Nat
    BY <1>1, FS_CardinalityType
  <1>3. \A b \in Batches : DOMAIN b = 1 .. Len(b) /\ Len(b) \in Nat
    BY <1>1, LenProperties
  <1> QED
    BY <1>2, <1>3 DEF Locations, Places

LEMMA ExtendedTable ==
  ASSUME NEW f \in Tables, NEW g \in Tables
  PROVE  /\ Extended(f, g) \in Tables
         /\ DOMAIN Extended(f, g) = DOMAIN f \union DOMAIN g
         /\ \A k \in DOMAIN g : Extended(f, g)[k] = g[k]
         /\ \A k \in DOMAIN f \ DOMAIN g : Extended(f, g)[k] = f[k]
  BY TableFacts DEF Extended

LEMMA RestrictTable ==
  ASSUME NEW f \in Tables, NEW S \in SUBSET DOMAIN f
  PROVE  /\ Restrict(f, S) \in Tables
         /\ DOMAIN Restrict(f, S) = S
         /\ \A k \in S : Restrict(f, S)[k] = f[k]
  BY TableFacts DEF Restrict

\* merge_touches moves marks forward and nothing else.
LEMMA MarkedTable ==
  ASSUME NEW p \in Procs, NEW f \in Tables, touched[p] \in [Keys -> 0 .. MaxClock]
  PROVE  /\ Marked(p, f) \in Tables
         /\ DOMAIN Marked(p, f) = DOMAIN f
         /\ \A k \in DOMAIN f : /\ Marked(p, f)[k].pack = f[k].pack
                                /\ Marked(p, f)[k].at = f[k].at
                                /\ Marked(p, f)[k].used >= f[k].used
  <1>1. DOMAIN f \subseteq Keys /\ \A k \in DOMAIN f : f[k] \in Locations
    BY TableFacts
  <1>2. MaxClock \in Nat
    BY Sizes
  <1>3. \A k \in DOMAIN f :
          LET m == [f[k] EXCEPT !.used = IF touched[p][k] > f[k].used THEN touched[p][k] ELSE f[k].used]
          IN  /\ m \in Locations
              /\ m.pack = f[k].pack /\ m.at = f[k].at /\ m.used >= f[k].used
    <2> TAKE k \in DOMAIN f
    <2>1. f[k] \in Locations /\ touched[p][k] \in 0 .. MaxClock
      BY <1>1
    <2>2. f[k].used \in 1 .. MaxClock
      BY <2>1, LocationFacts
    <2> QED
      BY <1>2, <2>1, <2>2 DEF Locations
  <1> QED
    BY <1>1, <1>3, TableFacts DEF Marked
\* compact numbers the copies 1, 2, .. in the order of their keys: the place of
\* a copy determines its key.
LEMMA RankFacts ==
  ASSUME NEW keys \in SUBSET Keys
  PROVE  /\ Cardinality(keys) \in 0 .. Cardinality(Keys)
         /\ \A k \in keys : Rank(keys, k) \in 1 .. Cardinality(keys)
         /\ \A k, l \in keys : Rank(keys, k) = Rank(keys, l) => k = l
         /\ \A n \in 1 .. Cardinality(keys) : \E k \in keys : Rank(keys, k) = n
  <1> DEFINE N == Cardinality(keys)
             Upto(k) == {l \in keys : l <= k}
             rank == [k \in keys |-> Rank(keys, k)]
  <1>1. IsFiniteSet(Keys) /\ \A k \in keys : k \in Nat
    BY Sizes
  <1>2. IsFiniteSet(keys) /\ N \in Nat /\ N <= Cardinality(Keys) /\ Cardinality(Keys) \in Nat
    BY <1>1, FS_Subset, FS_CardinalityType
  <1>3. ASSUME NEW k \in keys
        PROVE  IsFiniteSet(Upto(k)) /\ Rank(keys, k) \in 1 .. N
    <2>1. Upto(k) \in SUBSET keys /\ k \in Upto(k)
      BY <1>1
    <2>2. IsFiniteSet(Upto(k)) /\ Cardinality(Upto(k)) <= N /\ Cardinality(Upto(k)) \in Nat
      BY <1>2, <2>1, FS_Subset, FS_CardinalityType
    <2>3. Cardinality(Upto(k)) # 0
      BY <2>1, <2>2, FS_EmptySet
    <2> QED
      BY <1>2, <2>2, <2>3 DEF Rank
  <1>4. ASSUME NEW k \in keys, NEW l \in keys, k < l
        PROVE  Rank(keys, k) < Rank(keys, l)
    <2>1. Upto(k) \in SUBSET Upto(l)
      BY <1>1, <1>4
    <2>2. l \in Upto(l) /\ l \notin Upto(k)
      BY <1>1, <1>4
    <2>3. /\ Cardinality(Upto(k)) <= Cardinality(Upto(l))
          /\ Cardinality(Upto(k)) # Cardinality(Upto(l))
      BY <1>3, <2>1, <2>2, FS_Subset
    <2>4. Cardinality(Upto(k)) \in Nat /\ Cardinality(Upto(l)) \in Nat
      BY <1>3, FS_CardinalityType
    <2> QED
      BY <2>3, <2>4 DEF Rank
  <1>0. \A k \in keys : Rank(keys, k) \in 1 .. Cardinality(keys)
    BY <1>3, Zenon
  <1>5. \A k, l \in keys : Rank(keys, k) = Rank(keys, l) => k = l
    <2> SUFFICES ASSUME NEW k \in keys, NEW l \in keys, Rank(keys, k) = Rank(keys, l), k # l
                 PROVE  FALSE
      OBVIOUS
    <2>1. k < l \/ l < k
      BY <1>1
    <2>2. Rank(keys, k) \in Int
      BY <1>0, <1>2
    <2> QED
      BY <1>4, <2>1, <2>2
  <1>6. rank \in Injection(keys, 1 .. N)
    BY <1>0, <1>5 DEF Injection, IsInjective
  <1>7. IsFiniteSet(1 .. N) /\ Cardinality(1 .. N) = N
    BY <1>2, FS_Interval
  <1>8. rank \in Surjection(keys, 1 .. N)
    BY <1>6, <1>7, FS_Injection
  <1>9. \A n \in 1 .. N : \E k \in keys : Rank(keys, k) = n
    BY <1>8 DEF Surjection
  <1> QED
    BY <1>0, <1>2, <1>5, <1>9

\* What a collection keeps is some of what it found: no entry at all fits any
\* cap, so there is always a largest part that fits.
LEMMA KeptHas ==
  ASSUME NEW f \in Tables, NEW cap \in Caps
  PROVE  \E ks \in SUBSET DOMAIN f :
           /\ Recent(f, ks) /\ Within(ks, (cap * 9) \div 10)
           /\ \A more \in SUBSET DOMAIN f :
                (Recent(f, more) /\ Within(more, (cap * 9) \div 10)) => Cardinality(more) <= Cardinality(ks)
  <1> DEFINE Fits(keys) == Recent(f, keys) /\ Within(keys, (cap * 9) \div 10)
             Parts == {keys \in SUBSET DOMAIN f : Fits(keys)}
             Counts == {Cardinality(keys) : keys \in Parts}
  <1>1. DOMAIN f \subseteq Keys /\ IsFiniteSet(Keys)
    BY TableFacts, Sizes
  <1>2. IsFiniteSet(DOMAIN f)
    BY <1>1, FS_Subset
  <1>3. \A keys \in SUBSET DOMAIN f : Cardinality(keys) \in 0 .. Cardinality(DOMAIN f)
    BY <1>2, FS_Subset, FS_CardinalityType
  <1>4. Fits({})
    <2>1. Recent(f, {})
      BY DEF Recent
    <2>2. Cardinality({}) = 0
      BY FS_EmptySet
    <2>3. FrameSize \in Nat /\ cap \in Nat
      BY Sizes
    <2>4. (cap * 9) \div 10 >= 0
      BY <2>3
    <2>5. FrameSize * 0 + 0 = 0
      BY <2>3
    <2>6. Within({}, (cap * 9) \div 10)
      BY <2>2, <2>4, <2>5 DEF Within, IndexSize
    <2> QED
      BY <2>1, <2>6
  <1> HIDE DEF Fits
  <1>5. Counts \in SUBSET Int /\ Counts # {}
    BY <1>3, <1>4
  <1>6. IsFiniteSet(Counts)
    <2>1. Cardinality(DOMAIN f) \in Nat
      BY <1>2, FS_CardinalityType
    <2>2. IsFiniteSet(0 .. Cardinality(DOMAIN f))
      BY <2>1, FS_Interval
    <2>3. Counts \in SUBSET (0 .. Cardinality(DOMAIN f))
      BY <1>3
    <2> QED
      BY <2>2, <2>3, FS_Subset
  <1>7. Max(Counts) \in Counts /\ \A y \in Counts : Max(Counts) >= y
    BY <1>5, <1>6, MaxExists
  <1>8. PICK keys \in Parts : Max(Counts) = Cardinality(keys)
    BY <1>7
  <1>9. \A more \in SUBSET DOMAIN f : Fits(more) => Cardinality(more) <= Cardinality(keys)
    BY <1>3, <1>7, <1>8
  <1> QED
    BY <1>8, <1>9 DEF Fits

LEMMA KeptIsPart ==
  ASSUME NEW f \in Tables, NEW cap \in Caps
  PROVE  Kept(f, cap) \in SUBSET DOMAIN f
  BY KeptHas DEF Kept
-----------------------------------------------------------------------------
(***************************************************************************)
(* The initial state, and steps that touch no lease.                       *)
(***************************************************************************)

LEMMA PacksFinite == IsFiniteSet(Packs) /\ Packs \subseteq Nat \ {0}
  <1>1. MaxPacks \in Nat
    BY Sizes
  <1>2. IsFiniteSet(1 .. MaxPacks)
    BY <1>1, FS_Interval
  <1> QED
    BY <1>1, <1>2 DEF Packs

LEMMA UnusedFacts ==
  /\ Unused \in SUBSET Packs /\ IsFiniteSet(Unused) /\ Cardinality(Unused) \in Nat
  /\ Unused # {} => Min(Unused) \in Unused
  <1>1. Unused \in SUBSET Packs
    BY DEF Unused
  <1>2. IsFiniteSet(Unused) /\ Cardinality(Unused) \in Nat
    BY <1>1, PacksFinite, FS_Subset, FS_CardinalityType
  <1>3. Unused # {} => Min(Unused) \in Unused
    BY <1>1, <1>2, PacksFinite, MinExists
  <1> QED
    BY <1>1, <1>2, <1>3

LEMMA LoadedTable == TypeOK => Loaded \in Tables
  BY EmptyTable DEF TypeOK, Loaded

LEMMA IdleIsJob == Idle \in Jobs
  <1>1. 0 \in 0 .. MaxClock
    BY Sizes
  <1> QED
    BY <1>1, EmptyTable DEF Idle, Jobs

\* A fresh cache: no index, no pack, nobody at work.
LEMMA InitInv == Init => StoreInv
  <1> SUFFICES ASSUME Init PROVE StoreInv
    OBVIOUS
  <1>0. /\ {FrameSize, MaxHandles, MaxClock} \subseteq Nat \ {0} /\ MaxFaults \in Nat
        /\ Nobody \notin Procs
    BY Sizes
  <1>1. Loaded = <<>> /\ DOMAIN Loaded = {} /\ DOMAIN index = {}
    BY EmptyTable DEF Init, Loaded
  <1>2. TypeOK
    <2>1. \A p \in Procs : Cardinality(files[p]) <= MaxHandles
      BY <1>0, FS_EmptySet DEF Init
    <2>2. data \in [Packs -> Seq(Frames)]
      BY EmptySeq DEF Init
    <2>3. job \in [Procs -> Jobs]
      BY IdleIsJob DEF Init
    <2>4. clock \in 1 .. MaxClock /\ damage \in 0 .. MaxFaults
      BY <1>0 DEF Init
    <2>5. touched \in [Procs -> [Keys -> 0 .. MaxClock]]
      BY <1>0 DEF Init
    <2> QED
      BY <2>1, <2>2, <2>3, <2>4, <2>5, EmptyTable DEF Init, TypeOK
  <1>3. JobsInv
    <2> SUFFICES ASSUME NEW p \in Procs
                 PROVE  job[p] = Idle /\ job[p].pc = "idle" /\ job[p].batch = <<>> /\ lock # p
      BY DEF JobsInv, At, Publishing
    <2> QED
      BY <1>0 DEF Init, Idle
  <1>4. LeasesInv
    BY <1>1 DEF LeasesInv, Init, Idle
  <1>5. MadeInv
    <2>1. \A p \in Procs : DOMAIN job[p].entries = {}
      BY EmptyTable DEF Init, Idle
    <2>2. \A i \in Packs : DOMAIN data[i] = {}
      BY EmptyTable DEF Init
    <2> QED
      BY <1>1, <2>1, <2>2 DEF MadeInv
  <1>6. BatchesInv
    BY DEF BatchesInv, Publishing, Init, Idle
  <1>7. IndexInv /\ WholeInv
    BY <1>0, <1>1 DEF IndexInv, WholeInv, Init
  <1> QED
    BY <1>2, <1>3, <1>4, <1>5, <1>6, <1>7 DEF StoreInv

\* Reading and the clock leave alone what the invariant is about.
LEMMA SameStore ==
  ASSUME StoreInv, UNCHANGED <<lock, index, name, data, leased, job, damage>>
  PROVE  JobsInv' /\ LeasesInv' /\ MadeInv' /\ BatchesInv' /\ IndexInv' /\ WholeInv'
  <1>1. Loaded' = Loaded /\ Unused' = Unused
    BY DEF Loaded, Unused
  <1>2. JobsInv'
    BY <1>1 DEF StoreInv, JobsInv, At, Publishing
  <1>3. LeasesInv'
    BY <1>1 DEF StoreInv, LeasesInv, Unindexed
  <1>4. MadeInv' /\ BatchesInv'
    BY <1>1 DEF StoreInv, MadeInv, BatchesInv, Publishing
  <1>5. IndexInv' /\ WholeInv'
    BY <1>1 DEF StoreInv, IndexInv, WholeInv, At, LeadsTo, InRange
  <1> QED
    BY <1>2, <1>3, <1>4, <1>5

LEMMA OpenedFits ==
  ASSUME NEW open \in SUBSET Packs, Cardinality(open) <= MaxHandles, NEW i \in Packs
  PROVE  Opened(open, i) \in SUBSET Packs /\ Cardinality(Opened(open, i)) <= MaxHandles
  <1>1. IsFiniteSet(open) /\ Cardinality(open) \in Nat /\ MaxHandles \in Nat \ {0}
    BY PacksFinite, FS_Subset, FS_CardinalityType, Sizes
  <1>2. CASE i \in open
    BY <1>2 DEF Opened
  <1>3. CASE i \notin open /\ Cardinality(open) < MaxHandles
    <2>1. Opened(open, i) = open \union {i}
      BY <1>1, <1>3 DEF Opened
    <2> QED
      BY <1>1, <1>3, <2>1, FS_AddElement
  <1>4. CASE i \notin open /\ Cardinality(open) >= MaxHandles
    <2> DEFINE less == open \ {Min(open)}
    <2>1. open # {}
      BY <1>1, <1>4, FS_EmptySet
    <2>2. Min(open) \in open
      BY <1>1, <2>1, PacksFinite, MinExists
    <2>3. IsFiniteSet(less) /\ Cardinality(less) = Cardinality(open) - 1
      BY <1>1, <2>2, FS_RemoveElement
    <2>4. Opened(open, i) = less \union {i} /\ i \notin less
      BY <1>4 DEF Opened
    <2>5. Cardinality(less \union {i}) = Cardinality(less) + 1
      BY <2>3, <2>4, FS_AddElement
    <2> QED
      BY <1>1, <1>4, <2>3, <2>4, <2>5
  <1> QED
    BY <1>1, <1>2, <1>3, <1>4

\* A question changes the process's snapshot, handles and marks.
LEMMA ReadKeeps ==
  ASSUME StoreInv, NEW p \in Procs, Read(p)
  PROVE  StoreInv'
  <1>1. UNCHANGED <<clock, lock, index, temps, name, data, leased, writeFailed, job, damage>>
    BY DEF Read, Get, Touch, disk
  <1>2. TypeOK
    BY DEF StoreInv
  <1>3. Known(p) \in Tables
    BY <1>2, LoadedTable DEF Known, TypeOK
  <1>4. PICK k \in Keys : Get(p, k) \/ Touch(p, k)
    BY DEF Read
  <1>5. snapshot' \in [Procs -> Tables \union {Unread}]
    BY <1>2, <1>3, <1>4 DEF Get, Touch, TypeOK
  <1>6. touched' \in [Procs -> [Keys -> 0 .. MaxClock]]
    <2>1. touched' = touched \/ touched' = [touched EXCEPT ![p] = [touched[p] EXCEPT ![k] = clock]]
      BY <1>4 DEF Get, Touch, Touched
    <2>2. touched \in [Procs -> [Keys -> 0 .. MaxClock]] /\ clock \in 0 .. MaxClock
      BY <1>2, Sizes DEF TypeOK
    <2> QED
      BY <2>1, <2>2
  <1>7. files' \in [Procs -> SUBSET Packs] /\ \A q \in Procs : Cardinality(files'[q]) <= MaxHandles
    <2>1. files[p] \in SUBSET Packs /\ Cardinality(files[p]) <= MaxHandles
      BY <1>2 DEF TypeOK
    <2>2. files' = files
          \/ \E i \in Packs : files' = [files EXCEPT ![p] = Opened(files[p], i)]
      BY <1>3, <1>4, TableFacts, LocationFacts DEF Get, Touch
    <2> QED
      BY <1>2, <2>1, <2>2, OpenedFits DEF TypeOK
  <1>8. TypeOK'
    BY <1>1, <1>2, <1>5, <1>6, <1>7 DEF TypeOK
  <1> QED
    BY <1>1, <1>8, SameStore DEF StoreInv

LEMMA TickKeeps ==
  ASSUME StoreInv, Tick
  PROVE  StoreInv'
  <1>1. UNCHANGED <<lock, index, temps, name, data, leased, snapshot, files, touched, writeFailed, job, damage>>
    BY DEF Tick, disk, reads
  <1>2. clock' \in 1 .. MaxClock
    BY Sizes DEF Tick, StoreInv, TypeOK
  <1>3. TypeOK'
    BY <1>1, <1>2 DEF StoreInv, TypeOK
  <1> QED
    BY <1>1, <1>3, SameStore DEF StoreInv
-----------------------------------------------------------------------------
(***************************************************************************)
(* Steps that go on with the same work, or end it.                         *)
(***************************************************************************)

LEMMA JobUpdate ==
  ASSUME TypeOK, NEW p \in Procs, NEW j \in Jobs, Becomes(p, j)
  PROVE  /\ job' \in [Procs -> Jobs] /\ job'[p] = j
         /\ \A q \in Procs \ {p} : job'[q] = job[q]
  BY DEF TypeOK, Becomes

\* The parts of a job.
LEMMA JobFields ==
  ASSUME TypeOK, NEW p \in Procs
  PROVE  /\ job[p] \in Jobs
         /\ job[p].entries \in Tables /\ job[p].lease \in Packs \union {0}
         /\ job[p].batch \in Batches \union {<<>>} /\ job[p].at \in 0 .. MaxClock
         /\ job[p].todo \in SUBSET Packs /\ job[p].cap \in Caps \union {0}
         /\ job[p].list \in SUBSET (Packs \union {0})
  <1>1. job[p] \in Jobs
    BY DEF TypeOK
  <1> QED
    BY <1>1 DEF Jobs

\* Where the index, the entries of a job and the frames point.
LEMMA Located ==
  ASSUME TypeOK
  PROVE  /\ \A k \in DOMAIN Loaded : k \in Keys /\ Loaded[k] \in Locations /\ Loaded[k].pack \in Packs
         /\ \A q \in Procs : \A k \in DOMAIN job[q].entries :
              k \in Keys /\ job[q].entries[k] \in Locations /\ job[q].entries[k].pack \in Packs
         /\ \A i \in Packs : \A n \in DOMAIN data[i] : data[i][n] \in Frames /\ data[i][n].pack \in Packs
         /\ \A i \in Packs : DOMAIN data[i] = 1 .. Len(data[i]) /\ Len(data[i]) \in Nat
  <1>1. \A k \in DOMAIN Loaded : k \in Keys /\ Loaded[k] \in Locations /\ Loaded[k].pack \in Packs
    BY LoadedTable, TableFacts, LocationFacts
  <1>2. \A q \in Procs : \A k \in DOMAIN job[q].entries :
          k \in Keys /\ job[q].entries[k] \in Locations /\ job[q].entries[k].pack \in Packs
    BY JobFields, TableFacts, LocationFacts
  <1>3. ASSUME NEW i \in Packs
        PROVE  /\ \A n \in DOMAIN data[i] : data[i][n] \in Frames /\ data[i][n].pack \in Packs
               /\ DOMAIN data[i] = 1 .. Len(data[i]) /\ Len(data[i]) \in Nat
    <2>1. data[i] \in Seq(Frames)
      BY DEF TypeOK
    <2>2. \A n \in DOMAIN data[i] : data[i][n] \in Frames
      BY <2>1, LenProperties
    <2> QED
      BY <2>1, <2>2, LenProperties DEF Frames
  <1> QED
    BY <1>1, <1>2, <1>3

\* WholeInv, with the files as a parameter.
Leads(d, loc, k) == loc.at <= Len(d[loc.pack]) /\ d[loc.pack][loc.at].key = k

IndexWhole(d, nm, rows) == \A k \in DOMAIN rows : nm[rows[k].pack] = "pack" /\ Leads(d, rows[k], k)

JobWhole(d, nm, j) == \A k \in DOMAIN j.entries :
  Leads(d, j.entries[k], k) /\ (j.entries[k].pack # j.lease => nm[j.entries[k].pack] = "pack")

LEMMA WholeIs ==
  WholeInv <=> (damage = 0 => /\ IndexWhole(data, name, Loaded)
                              /\ \A p \in Procs : lock = p => JobWhole(data, name, job[p]))
  BY DEF WholeInv, IndexWhole, JobWhole, Leads, LeadsTo, InRange

LEMMA WholeNext ==
  WholeInv' <=> (damage' = 0 => /\ IndexWhole(data', name', Loaded')
                                /\ \A p \in Procs : lock' = p => JobWhole(data', name', job'[p]))
  BY DEF WholeInv, IndexWhole, JobWhole, Leads, LeadsTo, InRange

\* The steps at which a process holds the publication lock.
Locks(j) == \/ j.pc \in {"finish", "save", "rename", "compact", "prune", "replace"}
            \/ j.pc \in {"drop", "remove"} /\ j.batch = <<>>

\* A process goes on with the lease, the batch and the entries that it has.
LEMMA SameWork ==
  ASSUME StoreInv, NEW p \in Procs, NEW j \in Jobs, Becomes(p, j),
         UNCHANGED <<index, name, data, damage>>,
         IF j.pc = "remove" THEN leased' = [leased EXCEPT ![job[p].lease] = Nobody]
                            ELSE leased' = leased,
         j.lease = job[p].lease, j.entries = job[p].entries, j.batch = job[p].batch,
         j.todo = job[p].todo, j.at = job[p].at,
         j.pc \notin {"idle", "write", "finish"},
         j.pc \in {"compact", "prune"} => job[p].pc \in {"compact", "prune"},
         j.pc \in {"save", "rename"} => job[p].pc \in {"save", "rename"} \/ job[p].lease = 0,
         j.pc \in {"drop", "remove"} => Unindexed(p) /\ job[p].lease # 0,
         job[p].pc \in {"write", "finish", "drop"} => j.pc \in {"drop", "remove"},
         Locks(j) <=> lock' = p, lock' = p => lock = p,
         \A q \in Procs \ {p} : lock' = q <=> lock = q,
         j.pc \in {"prune", "replace"} \/ (j.pc = "compact" /\ ~ j.dirty) => index = j.entries
  PROVE  JobsInv' /\ LeasesInv' /\ MadeInv' /\ BatchesInv' /\ IndexInv' /\ WholeInv'
  <1>0. job'[p] = j /\ \A q \in Procs \ {p} : job'[q] = job[q]
    BY JobUpdate DEF StoreInv
  <1>1. Loaded' = Loaded /\ Unused' = Unused
    BY DEF Loaded, Unused
  <1>2. JobsInv'
    <2> SUFFICES ASSUME NEW q \in Procs
                 PROVE  /\ job'[q].pc = "idle" => job'[q] = Idle
                        /\ job'[q].pc = "write" => job'[q].batch # <<>>
                        /\ job'[q].batch # <<>> => job'[q].lease # 0 /\ job'[q].at # 0 /\ job'[q].todo = {}
                        /\ job'[q].pc \in {"write", "finish", "drop", "remove"} => job'[q].lease # 0
                        /\ job'[q].pc \in {"compact", "prune"} => job'[q].batch = <<>> /\ job'[q].lease = 0
                        /\ (lock' = q) <=> Locks(job'[q])
                        /\ lock' = q => Cardinality(job'[q].todo) <= Cardinality(Unused)
      BY <1>1, Zenon DEF JobsInv, At, Publishing, Locks
    <2>1. CASE q = p
      BY <1>0, <2>1 DEF StoreInv, JobsInv, At, Publishing
    <2>2. CASE q # p
      BY <1>0, <2>2 DEF StoreInv, JobsInv, At, Publishing, Locks
    <2> QED
      BY <2>1, <2>2
  <1>3. LeasesInv'
    <2>1. \A q \in Procs : job'[q].lease = job[q].lease /\ job'[q].entries = job[q].entries
      BY <1>0
    <2>2. \A q \in Procs : q # p => Unindexed(q)' = Unindexed(q) /\ job'[q].pc = job[q].pc
      BY <1>0 DEF Unindexed
    <2>3. Unindexed(p)' => Unindexed(p) \/ job[p].lease = 0
      BY <1>0 DEF Unindexed
    <2> HIDE DEF Unindexed
    <2>4. ASSUME NEW q \in Procs, job'[q].lease # 0
          PROVE  LET i == job'[q].lease IN
                 /\ name'[i] # "none"
                 /\ \A r \in Procs \ {q} : job'[r].lease # i
                 /\ Unindexed(q)' =>
                      /\ \A k \in DOMAIN Loaded' : Loaded'[k].pack # i
                      /\ \A r \in Procs \ {q} : \A k \in DOMAIN job'[r].entries : job'[r].entries[k].pack # i
                 /\ job'[q].pc \in {"write", "finish"} => name'[i] = "pending" /\ leased'[i] = q
                 /\ job'[q].pc \in {"save", "rename"} => name'[i] = "pack"
      <3>1. CASE q = p
        BY <1>0, <1>1, <2>1, <2>3, <2>4, <3>1 DEF StoreInv, LeasesInv
      <3>2. CASE q # p
        <4>1. leased[job[q].lease] = q => leased'[job[q].lease] = q
          BY <1>0, <2>1, <2>4, <3>2, JobFields DEF StoreInv, LeasesInv, TypeOK
        <4> QED
          BY <1>0, <1>1, <2>1, <2>2, <2>4, <3>2, <4>1 DEF StoreInv, LeasesInv
      <3> QED
        BY <3>1, <3>2
    <2>5. \A i \in Packs : leased'[i] # Nobody =>
             job'[leased'[i]].lease = i /\ job'[leased'[i]].pc \in {"write", "finish", "drop"}
      <3> SUFFICES ASSUME NEW i \in Packs, leased'[i] # Nobody
                   PROVE  job'[leased'[i]].lease = i /\ job'[leased'[i]].pc \in {"write", "finish", "drop"}
        OBVIOUS
      <3>1. leased'[i] = leased[i] /\ leased[i] \in Procs
            /\ (j.pc = "remove" => i # job[p].lease)
        BY DEF StoreInv, TypeOK
      <3>2. job[leased[i]].lease = i /\ job[leased[i]].pc \in {"write", "finish", "drop"}
        BY <3>1 DEF StoreInv, LeasesInv
      <3>3. leased[i] = p => j.pc = "drop"
        BY <3>1, <3>2
      <3> QED
        BY <1>0, <3>1, <3>2, <3>3
    <2> QED
      BY <2>4, <2>5 DEF LeasesInv
  <1>4. MadeInv'
    BY <1>0, <1>1 DEF StoreInv, MadeInv
  <1>5. BatchesInv'
    BY <1>0 DEF StoreInv, BatchesInv, JobsInv, Publishing
  <1>6. IndexInv'
    BY <1>0, <1>1 DEF StoreInv, IndexInv, At
  <1>7. WholeInv'
    <2>1. \A q \in Procs : job'[q].entries = job[q].entries /\ job'[q].lease = job[q].lease
      BY <1>0
    <2> QED
      BY <1>0, <1>1, <2>1, WholeIs, WholeNext DEF StoreInv, JobWhole
  <1> QED
    BY <1>2, <1>3, <1>4, <1>5, <1>6, <1>7

\* A process ends its operation, or dies: its lock and its file lock are free,
\* and the pack that it was making may be removed.
LEMMA WorkEnds ==
  ASSUME StoreInv, NEW p \in Procs, Becomes(p, Idle),
         UNCHANGED <<index, data, damage>>,
         lock' = IF lock = p THEN Nobody ELSE lock,
         \A i \in Packs : leased[i] = p => leased'[i] = Nobody,
         \A i \in Packs : leased[i] # p => leased'[i] = leased[i],
         name' = name \/ (Unindexed(p) /\ job[p].lease # 0
                           /\ name' = [name EXCEPT ![job[p].lease] = "gone"])
  PROVE  JobsInv' /\ LeasesInv' /\ MadeInv' /\ BatchesInv' /\ IndexInv' /\ WholeInv'
  <1>0. /\ job'[p] = Idle /\ \A q \in Procs \ {p} : job'[q] = job[q]
        /\ Idle.pc = "idle" /\ Idle.batch = <<>> /\ Idle.lease = 0 /\ DOMAIN Idle.entries = {}
        /\ \A q \in Procs : lock' = q <=> lock = q /\ q # p
    BY JobUpdate, IdleIsJob, EmptyTable, Sizes DEF StoreInv, Idle
  <1>1. Loaded' = Loaded
    BY DEF Loaded
  <1>2. /\ \A i \in Packs : name'[i] = "none" <=> name[i] = "none"
        /\ \A i \in Packs : name'[i] # name[i] => i = job[p].lease /\ Unindexed(p) /\ i # 0
    BY JobFields DEF StoreInv, TypeOK, LeasesInv
  <1>3. Unused' = Unused
    BY <1>2 DEF Unused
  <1>4. JobsInv'
    BY <1>0, <1>3 DEF StoreInv, JobsInv, At, Publishing
  <1>5. LeasesInv'
    <2>1. ASSUME NEW q \in Procs, job'[q].lease # 0
          PROVE  LET i == job'[q].lease IN
                 /\ name'[i] # "none"
                 /\ \A r \in Procs \ {q} : job'[r].lease # i
                 /\ Unindexed(q)' =>
                      /\ \A k \in DOMAIN Loaded' : Loaded'[k].pack # i
                      /\ \A r \in Procs \ {q} : \A k \in DOMAIN job'[r].entries : job'[r].entries[k].pack # i
                 /\ job'[q].pc \in {"write", "finish"} => name'[i] = "pending" /\ leased'[i] = q
                 /\ job'[q].pc \in {"save", "rename"} => name'[i] = "pack"
      <3> DEFINE i == job[q].lease
      <3>1. q # p /\ job'[q] = job[q] /\ i # 0 /\ i \in Packs
        BY <1>0, <2>1, JobFields DEF StoreInv
      <3>2. job[p].lease # i /\ name[i] # "none"
        BY <3>1 DEF StoreInv, LeasesInv
      <3>3. name'[i] = name[i]
        BY <1>2, <3>1, <3>2
      <3>4. leased[i] = q => leased'[i] = q
        BY <3>1
      <3>5. \A r \in Procs \ {q} : job'[r].lease # i
        BY <1>0, <3>1 DEF StoreInv, LeasesInv
      <3>6. Unindexed(q)' => 
              /\ \A k \in DOMAIN Loaded : Loaded[k].pack # i
              /\ \A r \in Procs \ {q} : \A k \in DOMAIN job'[r].entries : job'[r].entries[k].pack # i
        BY <1>0, <3>1 DEF StoreInv, LeasesInv, Unindexed
      <3>7. job'[q].pc \in {"write", "finish"} => name[i] = "pending" /\ leased[i] = q
        BY <3>1 DEF StoreInv, LeasesInv
      <3>8. job'[q].pc \in {"save", "rename"} => name[i] = "pack"
        BY <3>1 DEF StoreInv, LeasesInv
      <3> QED
        BY <1>1, <3>1, <3>2, <3>3, <3>4, <3>5, <3>6, <3>7, <3>8
    <2>2. \A i \in Packs : leased'[i] # Nobody =>
             job'[leased'[i]].lease = i /\ job'[leased'[i]].pc \in {"write", "finish", "drop"}
      BY <1>0 DEF StoreInv, LeasesInv, TypeOK
    <2> QED
      BY <2>1, <2>2 DEF LeasesInv
  <1>6. MadeInv'
    <2> QED
      BY <1>0, <1>1, <1>2, Located DEF StoreInv, MadeInv
  <1>7. BatchesInv'
    BY <1>0 DEF StoreInv, BatchesInv, Publishing
  <1>8. IndexInv'
    BY <1>0, <1>1 DEF StoreInv, IndexInv, At
  <1>9. WholeInv'
    <2> SUFFICES ASSUME damage = 0 PROVE WholeInv'
      BY WholeNext
    <2>1. ASSUME NEW k \in DOMAIN Loaded
          PROVE  name'[Loaded[k].pack] = "pack" /\ Leads(data', Loaded[k], k)
      <3>1. Loaded[k].pack \in Packs
        BY <2>1, Located DEF StoreInv
      <3>2. name[Loaded[k].pack] = "pack" /\ Leads(data, Loaded[k], k)
        BY <2>1, WholeIs DEF StoreInv, IndexWhole
      <3>3. Unindexed(p) /\ job[p].lease # 0 => Loaded[k].pack # job[p].lease
        BY <2>1 DEF StoreInv, LeasesInv
      <3> QED
        BY <1>2, <3>1, <3>2, <3>3
    <2>2. ASSUME NEW q \in Procs, lock' = q, NEW k \in DOMAIN job'[q].entries
          PROVE  /\ Leads(data', job'[q].entries[k], k)
                 /\ job'[q].entries[k].pack # job'[q].lease => name'[job'[q].entries[k].pack] = "pack"
      <3> DEFINE l == job[q].entries[k]
      <3>1. q # p /\ job'[q] = job[q] /\ lock = q
        BY <1>0, <2>2
      <3>2. l.pack \in Packs
        BY <2>2, <3>1, Located DEF StoreInv
      <3>3. Leads(data, l, k) /\ (l.pack # job[q].lease => name[l.pack] = "pack")
        BY <2>2, <3>1, WholeIs DEF StoreInv, JobWhole
      <3>4. Unindexed(p) /\ job[p].lease # 0 => l.pack # job[p].lease
        BY <2>2, <3>1 DEF StoreInv, LeasesInv
      <3> QED
        BY <1>2, <3>1, <3>2, <3>3, <3>4
    <2> QED
      BY <1>1, <2>1, <2>2, WholeNext DEF IndexWhole, JobWhole
  <1> QED
    BY <1>4, <1>5, <1>6, <1>7, <1>8, <1>9
\* The index is written under another name first.
LEMMA SaveTempKeeps ==
  ASSUME StoreInv, NEW p \in Procs, SaveTemp(p)
  PROVE  StoreInv'
  <1> DEFINE j == [job[p] EXCEPT !.pc = "rename"]
  <1>1. job[p] \in Jobs
    BY JobFields DEF StoreInv
  <1>2. /\ j \in Jobs /\ j.pc = "rename" /\ j.lease = job[p].lease /\ j.entries = job[p].entries
        /\ j.batch = job[p].batch /\ j.todo = job[p].todo /\ j.at = job[p].at
    BY <1>1 DEF Jobs
  <1>3. Becomes(p, j) /\ temps' = temps \union {p} /\ At(p, "save")
    BY DEF SaveTemp, Go
  <1> HIDE DEF j
  <1>4. UNCHANGED <<clock, lock, index, name, data, leased, snapshot, files, touched, writeFailed, damage>>
    BY DEF SaveTemp, reads
  <1>5. lock = p
    BY <1>3 DEF StoreInv, JobsInv, At
  <1>6. JobsInv' /\ LeasesInv' /\ MadeInv' /\ BatchesInv' /\ IndexInv' /\ WholeInv'
    BY <1>2, <1>3, <1>4, <1>5, SameWork DEF At, Locks
  <1>7. TypeOK'
    BY <1>2, <1>3, <1>4, JobUpdate DEF StoreInv, TypeOK
  <1> QED
    BY <1>6, <1>7 DEF StoreInv

\* When no pack is left to compact the entries are saved, unless they are the
\* index already.
LEMMA EndCompactKeeps ==
  ASSUME StoreInv, NEW p \in Procs, EndCompact(p)
  PROVE  StoreInv'
  <1> DEFINE j == IF job[p].dirty \/ job[p].entries = <<>> THEN [job[p] EXCEPT !.pc = "save"]
                  ELSE [job[p] EXCEPT !.pc = "prune", !.list = Files \union {0}, !.did = FALSE]
  <1>1. job[p] \in Jobs /\ Files \union {0} \in SUBSET (Packs \union {0})
    BY JobFields DEF StoreInv, Files
  <1>2. /\ j \in Jobs /\ j.lease = job[p].lease /\ j.entries = job[p].entries
        /\ j.batch = job[p].batch /\ j.todo = job[p].todo /\ j.at = job[p].at
        /\ j.pc = "save" \/ (j.pc = "prune" /\ ~ job[p].dirty)
    BY <1>1 DEF Jobs
  <1>3. Becomes(p, j) /\ job[p].pc = "compact"
    BY DEF EndCompact, At
  <1> HIDE DEF j
  <1>4. UNCHANGED <<clock, lock, index, temps, name, data, leased, snapshot, files, touched, writeFailed, damage>>
    BY DEF EndCompact, disk, reads
  <1>5. lock = p /\ job[p].lease = 0
    BY <1>3 DEF StoreInv, JobsInv
  <1>6. ~ job[p].dirty => index = job[p].entries
    BY <1>3, <1>5 DEF StoreInv, IndexInv, At
  <1>7. JobsInv' /\ LeasesInv' /\ MadeInv' /\ BatchesInv' /\ IndexInv' /\ WholeInv'
    BY <1>2, <1>3, <1>4, <1>5, <1>6, SameWork DEF Locks
  <1>8. TypeOK'
    BY <1>2, <1>3, <1>4, JobUpdate DEF StoreInv, TypeOK
  <1> QED
    BY <1>7, <1>8 DEF StoreInv

\* While it prunes a collection goes through its list.
LEMMA PruneGoesOn ==
  ASSUME StoreInv, NEW p \in Procs, NEW j \in Jobs, Becomes(p, j), At(p, "prune"),
         j.lease = job[p].lease, j.entries = job[p].entries, j.batch = job[p].batch,
         j.todo = job[p].todo, j.at = job[p].at, j.pc \in {"prune", "replace"},
         temps' \subseteq Procs,
         UNCHANGED <<clock, lock, index, name, data, leased, reads, writeFailed, damage>>
  PROVE  StoreInv'
  <1>1. lock = p
    BY DEF StoreInv, JobsInv, At
  <1>2. index = job[p].entries
    BY <1>1 DEF StoreInv, IndexInv, At
  <1>3. JobsInv' /\ LeasesInv' /\ MadeInv' /\ BatchesInv' /\ IndexInv' /\ WholeInv'
    BY <1>1, <1>2, SameWork DEF Locks, At
  <1>4. TypeOK'
    BY JobUpdate DEF StoreInv, TypeOK, reads
  <1> QED
    BY <1>3, <1>4 DEF StoreInv

LEMMA PruneWalks ==
  ASSUME StoreInv, NEW p \in Procs,
         (\E i \in Packs : PruneSkip(p, i)) \/ PruneTemps(p) \/ EndPrune(p)
  PROVE  StoreInv'
  <1>1. job[p] \in Jobs
    BY JobFields DEF StoreInv
  <1>2. ASSUME NEW i \in Packs, PruneSkip(p, i) PROVE StoreInv'
    <2> DEFINE j == [job[p] EXCEPT !.list = job[p].list \ {i}]
    <2>1. /\ j \in Jobs /\ j.pc = job[p].pc /\ j.lease = job[p].lease /\ j.entries = job[p].entries
          /\ j.batch = job[p].batch /\ j.todo = job[p].todo /\ j.at = job[p].at
      BY <1>1 DEF Jobs
    <2>2. Becomes(p, j) /\ At(p, "prune")
      BY <1>2 DEF PruneSkip
    <2> HIDE DEF j
    <2> QED
      BY <1>2, <2>1, <2>2, PruneGoesOn DEF PruneSkip, disk, At, StoreInv, TypeOK
  <1>3. ASSUME PruneTemps(p) PROVE StoreInv'
    <2> DEFINE j == [job[p] EXCEPT !.list = job[p].list \ {0}, !.did = job[p].did \/ temps # {}]
    <2>0. (job[p].did \/ temps # {}) \in BOOLEAN /\ job[p].list \ {0} \in SUBSET (Packs \union {0})
      BY <1>1 DEF Jobs
    <2>1. /\ j \in Jobs /\ j.pc = job[p].pc /\ j.lease = job[p].lease /\ j.entries = job[p].entries
          /\ j.batch = job[p].batch /\ j.todo = job[p].todo /\ j.at = job[p].at
      BY <1>1, <2>0 DEF Jobs
    <2>2. Becomes(p, j) /\ At(p, "prune")
      BY <1>3 DEF PruneTemps
    <2> HIDE DEF j
    <2> QED
      BY <1>3, <2>1, <2>2, PruneGoesOn DEF PruneTemps, disk, At
  <1>4. ASSUME EndPrune(p) PROVE StoreInv'
    <2> DEFINE j == [job[p] EXCEPT !.pc = "replace"]
    <2>1. /\ j \in Jobs /\ j.pc = "replace" /\ j.lease = job[p].lease /\ j.entries = job[p].entries
          /\ j.batch = job[p].batch /\ j.todo = job[p].todo /\ j.at = job[p].at
      BY <1>1 DEF Jobs
    <2>2. Becomes(p, j) /\ At(p, "prune")
      BY <1>4 DEF EndPrune, Go
    <2> HIDE DEF j
    <2> QED
      BY <1>4, <2>1, <2>2, PruneGoesOn DEF EndPrune, disk, StoreInv, TypeOK
  <1> QED
    BY <1>2, <1>3, <1>4

\* The steps that end an operation.
LEMMA EndsKeep ==
  ASSUME StoreInv, NEW p \in Procs,
         Replace(p) \/ (\E i \in Packs : PruneVanished(p, i)) \/ DropRemove(p) \/ Crash(p)
  PROVE  StoreInv'
  <1>1. TypeOK
    BY DEF StoreInv
  <1>2. Becomes(p, Idle) /\ UNCHANGED <<clock, index, data, damage>>
    BY DEF Replace, PruneVanished, DropRemove, Crash, disk
  <1>3. job[p].pc \in {"replace", "prune"} => lock = p
    BY DEF StoreInv, JobsInv, At
  <1>4. lock' = IF lock = p THEN Nobody ELSE lock
    BY <1>3 DEF Replace, PruneVanished, DropRemove, Crash, At
  <1>5. ~ Crash(p) => \A i \in Packs : leased[i] # p
    <2> SUFFICES ASSUME ~ Crash(p), NEW i \in Packs, leased[i] = p PROVE FALSE
      OBVIOUS
    <2>1. job[p].pc \in {"write", "finish", "drop"}
      BY Sizes DEF StoreInv, LeasesInv
    <2> QED
      BY <2>1 DEF Replace, PruneVanished, DropRemove, At
  <1>6. /\ \A i \in Packs : leased[i] = p => leased'[i] = Nobody
        /\ \A i \in Packs : leased[i] # p => leased'[i] = leased[i]
        /\ leased' \in [Packs -> Procs \union {Nobody}]
    BY <1>1, <1>5 DEF Replace, PruneVanished, DropRemove, Crash, disk, TypeOK
  <1>7. name' = name \/ (Unindexed(p) /\ job[p].lease # 0
                           /\ name' = [name EXCEPT ![job[p].lease] = "gone"])
    BY DEF Replace, PruneVanished, DropRemove, Crash, disk, At, Unindexed, StoreInv, JobsInv
  <1>8. JobsInv' /\ LeasesInv' /\ MadeInv' /\ BatchesInv' /\ IndexInv' /\ WholeInv'
    BY <1>2, <1>4, <1>6, <1>7, WorkEnds
  <1>9. TypeOK'
    <2>1. name' \in [Packs -> {"none", "pending", "pack", "gone"}]
      BY <1>1, <1>7 DEF TypeOK
    <2>2. lock' \in Procs \union {Nobody} /\ temps' \subseteq Procs /\ writeFailed' \subseteq Procs
      BY <1>1, <1>4 DEF TypeOK, Replace, PruneVanished, DropRemove, Crash, disk
    <2>3. job' \in [Procs -> Jobs]
      BY <1>1, <1>2, IdleIsJob, JobUpdate
    <2>4. snapshot' \in [Procs -> Tables \union {Unread}]
      BY <1>1, JobFields DEF TypeOK, Replace, Replaced, PruneVanished, DropRemove, Crash, reads
    <2>5. touched' \in [Procs -> [Keys -> 0 .. MaxClock]]
      BY <1>1, Sizes DEF TypeOK, Replace, PruneVanished, DropRemove, Crash, reads, NoMarks
    <2>6. files' \in [Procs -> SUBSET Packs] /\ \A q \in Procs : Cardinality(files'[q]) <= MaxHandles
      <3>1. files' = files \/ files' = [files EXCEPT ![p] = {}]
        BY DEF Replace, Replaced, PruneVanished, DropRemove, Crash, reads
      <3>2. Cardinality({}) <= MaxHandles
        BY FS_EmptySet, Sizes
      <3> QED
        BY <1>1, <3>1, <3>2 DEF TypeOK
    <2> QED
      BY <1>1, <1>2, <1>6, <2>1, <2>2, <2>3, <2>4, <2>5, <2>6 DEF TypeOK
  <1> QED
    BY <1>8, <1>9 DEF StoreInv

\* An operation that fails drops its lease, or has none.
LEMMA FailKeeps ==
  ASSUME StoreInv, NEW p \in Procs, Fail(p)
  PROVE  StoreInv'
  <1>1. TypeOK /\ job[p] \in Jobs
    BY JobFields DEF StoreInv
  <1>2. /\ job[p].pc \in {"write", "finish", "save", "rename", "compact", "prune"}
        /\ temps' \subseteq Procs /\ writeFailed' \subseteq Procs
        /\ UNCHANGED <<clock, index, name, data, leased, snapshot, files, touched, damage>>
    BY <1>1 DEF Fail, TypeOK, reads
  <1>3. CASE job[p].lease # 0
    <2> DEFINE j == [job[p] EXCEPT !.pc = "drop"]
    <2>1. /\ j \in Jobs /\ j.pc = "drop" /\ j.lease = job[p].lease /\ j.entries = job[p].entries
          /\ j.batch = job[p].batch /\ j.todo = job[p].todo /\ j.at = job[p].at
      BY <1>1 DEF Jobs
    <2>2. Becomes(p, j) /\ lock' = LockAfterFail(p)
      BY <1>3 DEF Fail, Go
    <2> HIDE DEF j
    <2>3. Unindexed(p)
      BY <1>2, <1>3 DEF Unindexed, StoreInv, JobsInv
    <2>4. /\ Locks(j) <=> lock' = p
          /\ lock' = p => lock = p
          /\ \A q \in Procs \ {p} : lock' = q <=> lock = q
          /\ lock' \in Procs \union {Nobody}
      <3>1. job[p].batch = <<>> => lock = p
        BY <1>2 DEF StoreInv, JobsInv, Publishing, At
      <3> QED
        BY <1>1, <2>1, <2>2, <3>1, Sizes DEF Locks, LockAfterFail, Publishing, TypeOK
    <2>5. JobsInv' /\ LeasesInv' /\ MadeInv' /\ BatchesInv' /\ IndexInv' /\ WholeInv'
      BY <1>2, <1>3, <2>1, <2>2, <2>3, <2>4, SameWork
    <2>6. TypeOK'
      BY <1>1, <1>2, <2>1, <2>2, <2>4, JobUpdate DEF TypeOK
    <2> QED
      BY <2>5, <2>6 DEF StoreInv
  <1>4. CASE job[p].lease = 0
    <2>1. Becomes(p, Idle) /\ lock' = Nobody
      BY <1>4 DEF Fail
    <2>2. lock = p
      BY <1>2, <1>4 DEF StoreInv, JobsInv
    <2>3. \A i \in Packs : leased[i] # p
      <3> SUFFICES ASSUME NEW i \in Packs, leased[i] = p PROVE FALSE
        OBVIOUS
      <3>1. p # Nobody
        BY Sizes
      <3> QED
        BY <1>4, <3>1, PacksFinite DEF StoreInv, LeasesInv
    <2>4. JobsInv' /\ LeasesInv' /\ MadeInv' /\ BatchesInv' /\ IndexInv' /\ WholeInv'
      BY <1>2, <2>1, <2>2, <2>3, WorkEnds
    <2>5. TypeOK'
      BY <1>1, <1>2, <2>1, IdleIsJob, JobUpdate DEF TypeOK
    <2> QED
      BY <2>4, <2>5 DEF StoreInv
  <1> QED
    BY <1>3, <1>4
\* Drop unlocks the file of a lease, and only then removes it.
LEMMA DropUnlockKeeps ==
  ASSUME StoreInv, NEW p \in Procs, DropUnlock(p)
  PROVE  StoreInv'
  <1> DEFINE j == [job[p] EXCEPT !.pc = "remove"]
  <1>1. TypeOK /\ job[p] \in Jobs
    BY JobFields DEF StoreInv
  <1>2. /\ j \in Jobs /\ j.pc = "remove" /\ j.lease = job[p].lease /\ j.entries = job[p].entries
        /\ j.batch = job[p].batch /\ j.todo = job[p].todo /\ j.at = job[p].at
    BY <1>1 DEF Jobs
  <1>3. Becomes(p, j) /\ job[p].pc = "drop" /\ leased' = [leased EXCEPT ![job[p].lease] = Nobody]
    BY DEF DropUnlock, Go, At
  <1> HIDE DEF j
  <1>4. UNCHANGED <<clock, lock, index, temps, name, data, snapshot, files, touched, writeFailed, damage>>
    BY DEF DropUnlock, reads
  <1>5. job[p].lease # 0 /\ (lock = p <=> job[p].batch = <<>>) /\ Unindexed(p)
    BY <1>3 DEF StoreInv, JobsInv, Publishing, Unindexed
  <1>6. JobsInv' /\ LeasesInv' /\ MadeInv' /\ BatchesInv' /\ IndexInv' /\ WholeInv'
    BY <1>2, <1>3, <1>4, <1>5, SameWork DEF Locks
  <1>7. TypeOK'
    BY <1>1, <1>2, <1>3, <1>4, JobUpdate DEF TypeOK
  <1> QED
    BY <1>6, <1>7 DEF StoreInv

-----------------------------------------------------------------------------
(***************************************************************************)
(* The index is saved.                                                     *)
(***************************************************************************)

\* With the publication lock held, the entries become the index: nobody else
\* has a location in the pack that was just made, and it is complete.
LEMMA SaveKeeps ==
  ASSUME StoreInv, NEW p \in Procs, SaveEmpty(p) \/ SaveRename(p)
  PROVE  StoreInv'
  <1> DEFINE j == IF job[p].batch # <<>> THEN [job[p] EXCEPT !.pc = "replace"]
                  ELSE IF job[p].lease # 0
                  THEN [job[p] EXCEPT !.pc = "compact", !.lease = 0, !.dirty = FALSE, !.did = TRUE]
                  ELSE [job[p] EXCEPT !.pc = "prune", !.list = Files \union {0}, !.did = FALSE]
  <1>1. TypeOK /\ job[p] \in Jobs /\ job[p].entries \in Tables /\ job[p].lease \in Packs \union {0}
        /\ Files \union {0} \in SUBSET (Packs \union {0})
    BY JobFields DEF StoreInv, Files
  <1>2. /\ j \in Jobs /\ j.entries = job[p].entries /\ j.batch = job[p].batch /\ j.todo = job[p].todo
        /\ j.at = job[p].at /\ j.lease \in {0, job[p].lease}
        /\ j.pc \in {"replace", "compact", "prune"}
        /\ j.batch # <<>> => j.pc = "replace" /\ j.lease = job[p].lease
        /\ j.pc \in {"compact", "prune"} => j.batch = <<>> /\ j.lease = 0
    BY <1>1 DEF Jobs
  <1>3. Becomes(p, j)
    BY DEF SaveEmpty, SaveRename, Saved, Publishing
  <1> HIDE DEF j
  <1>4. /\ job[p].pc \in {"save", "rename"} /\ index' = job[p].entries /\ temps' \subseteq Procs
        /\ UNCHANGED <<clock, lock, name, data, leased, snapshot, files, touched, writeFailed, damage>>
    BY <1>1 DEF SaveEmpty, SaveRename, At, reads, TypeOK
  <1>5. lock = p
    BY <1>4 DEF StoreInv, JobsInv
  <1>6. job'[p] = j /\ \A q \in Procs \ {p} : job'[q] = job[q]
    BY <1>1, <1>2, <1>3, JobUpdate
  <1>7. \A k \in DOMAIN Loaded' : k \in DOMAIN job[p].entries /\ Loaded'[k] = job[p].entries[k]
    BY <1>4, EmptyTable DEF Loaded
  <1>8. TypeOK'
    BY <1>1, <1>2, <1>3, <1>4, JobUpdate DEF TypeOK
  <1>9. JobsInv'
    <2>1. Unused' = Unused
      BY <1>4 DEF Unused
    <2> QED
      BY <1>2, <1>4, <1>5, <1>6, <2>1 DEF StoreInv, JobsInv, At, Publishing
  <1>10. LeasesInv'
    <2>1. ASSUME NEW q \in Procs, job'[q].lease # 0
          PROVE  LET i == job'[q].lease IN
                 /\ name'[i] # "none"
                 /\ \A r \in Procs \ {q} : job'[r].lease # i
                 /\ Unindexed(q)' =>
                      /\ \A k \in DOMAIN Loaded' : Loaded'[k].pack # i
                      /\ \A r \in Procs \ {q} : \A k \in DOMAIN job'[r].entries : job'[r].entries[k].pack # i
                 /\ job'[q].pc \in {"write", "finish"} => name'[i] = "pending" /\ leased'[i] = q
                 /\ job'[q].pc \in {"save", "rename"} => name'[i] = "pack"
      <3>1. CASE q = p
        <4>1. ~ Unindexed(q)' /\ job'[q].lease = job[p].lease /\ job[p].lease # 0
          BY <1>2, <1>6, <2>1, <3>1 DEF Unindexed
        <4> QED
          BY <1>2, <1>4, <1>6, <3>1, <4>1 DEF StoreInv, LeasesInv
      <3>2. CASE q # p
        <4>1. job'[q] = job[q] /\ (Unindexed(q)' <=> Unindexed(q))
          BY <1>6, <3>2 DEF Unindexed
        <4>2. \A r \in Procs : job'[r].entries = job[r].entries /\ job'[r].lease \in {0, job[r].lease}
          BY <1>2, <1>6
        <4> QED
          BY <1>4, <1>7, <2>1, <3>2, <4>1, <4>2 DEF StoreInv, LeasesInv
      <3> QED
        BY <3>1, <3>2
    <2>2. \A i \in Packs : leased'[i] # Nobody =>
             job'[leased'[i]].lease = i /\ job'[leased'[i]].pc \in {"write", "finish", "drop"}
      <3> SUFFICES ASSUME NEW i \in Packs, leased[i] # Nobody
                   PROVE  job'[leased[i]].lease = i /\ job'[leased[i]].pc \in {"write", "finish", "drop"}
        BY <1>4
      <3>1. leased[i] \in Procs
        BY <1>1 DEF TypeOK
      <3>2. job[leased[i]].lease = i /\ job[leased[i]].pc \in {"write", "finish", "drop"}
        BY DEF StoreInv, LeasesInv
      <3> QED
        BY <1>4, <1>6, <3>1, <3>2
    <2> QED
      BY <2>1, <2>2 DEF LeasesInv
  <1>11. MadeInv'
    BY <1>2, <1>4, <1>6, <1>7 DEF StoreInv, MadeInv
  <1>12. BatchesInv'
    BY <1>2, <1>4, <1>6 DEF StoreInv, BatchesInv, Publishing
  <1>13. IndexInv'
    <2> SUFFICES ASSUME NEW q \in Procs, lock' = q
                 PROVE  /\ \A k \in DOMAIN Loaded' \intersect DOMAIN job'[q].entries :
                             Loaded'[k].used <= job'[q].entries[k].used
                        /\ index' = job'[q].entries
      BY DEF IndexInv
    <2>1. q = p /\ job'[q].entries = job[p].entries
      BY <1>2, <1>4, <1>5, <1>6
    <2>2. \A k \in DOMAIN job[p].entries : job[p].entries[k].used \in Nat
      BY <1>1, Located, LocationFacts
    <2> QED
      BY <1>4, <1>7, <2>1, <2>2
  <1>14. WholeInv'
    <2> SUFFICES ASSUME damage = 0 PROVE WholeInv'
      BY <1>4, WholeNext
    <2>1. \A k \in DOMAIN job[p].entries :
            /\ Leads(data, job[p].entries[k], k) /\ name[job[p].entries[k].pack] = "pack"
      <3> TAKE k \in DOMAIN job[p].entries
      <3>1. /\ Leads(data, job[p].entries[k], k)
            /\ job[p].entries[k].pack # job[p].lease => name[job[p].entries[k].pack] = "pack"
        BY <1>5, WholeIs DEF StoreInv, JobWhole
      <3>2. job[p].entries[k].pack # 0
        BY <1>1, Located, PacksFinite
      <3>3. job[p].lease # 0 => name[job[p].lease] = "pack"
        BY <1>4 DEF StoreInv, LeasesInv
      <3> QED
        BY <3>1, <3>2, <3>3
    <2> QED
      BY <1>2, <1>4, <1>5, <1>6, <1>7, <2>1, WholeNext DEF IndexWhole, JobWhole
  <1> QED
    BY <1>8, <1>9, <1>10, <1>11, <1>12, <1>13, <1>14 DEF StoreInv
-----------------------------------------------------------------------------
(***************************************************************************)
(* publish.                                                                *)
(***************************************************************************)

\* What LeasesInv says of one process, for the files and rows it is given.
LeaseAt(q, jb, nm, ls, rows) ==
  LET i == jb[q].lease IN
  /\ nm[i] # "none"
  /\ \A r \in Procs \ {q} : jb[r].lease # i
  /\ jb[q].pc \in {"write", "finish", "save", "rename", "drop", "remove"} =>
       /\ \A k \in DOMAIN rows : rows[k].pack # i
       /\ \A r \in Procs \ {q} : \A k \in DOMAIN jb[r].entries : jb[r].entries[k].pack # i
  /\ jb[q].pc \in {"write", "finish"} => nm[i] = "pending" /\ ls[i] = q
  /\ jb[q].pc \in {"save", "rename"} => nm[i] = "pack"

LockedFor(i, jb, ls) == ls[i] # Nobody =>
  jb[ls[i]].lease = i /\ jb[ls[i]].pc \in {"write", "finish", "drop"}

LEMMA LeasesIs ==
  LeasesInv <=> /\ \A q \in Procs : job[q].lease # 0 => LeaseAt(q, job, name, leased, Loaded)
                /\ \A i \in Packs : LockedFor(i, job, leased)
  BY DEF LeasesInv, LeaseAt, LockedFor, Unindexed

LEMMA LeasesNext ==
  LeasesInv' <=> /\ \A q \in Procs : job'[q].lease # 0 => LeaseAt(q, job', name', leased', Loaded')
                 /\ \A i \in Packs : LockedFor(i, job', leased')
  BY DEF LeasesInv, LeaseAt, LockedFor, Unindexed

\* The lease: a fresh pack, which nothing names yet.
LEMMA PublishLeaseKeeps ==
  ASSUME StoreInv, NEW p \in Procs, NEW b \in Batches, PublishLease(p, b)
  PROVE  StoreInv'
  <1> DEFINE i == Min(Unused)
             j == [Idle EXCEPT !.pc = "write", !.batch = b, !.at = clock, !.lease = i]
  <1>1. TypeOK /\ i \in Unused /\ i \in Packs /\ i # 0 /\ name[i] = "none"
    BY UnusedFacts, PacksFinite DEF StoreInv, PublishLease, Unused
  <1>2. /\ j \in Jobs /\ j.pc = "write" /\ j.batch = b /\ j.at = clock /\ j.lease = i
        /\ j.entries = <<>> /\ j.todo = {} /\ b # <<>> /\ b \in Seq(Keys) /\ clock # 0
    <2>1. clock \in 0 .. MaxClock /\ clock # 0
      BY <1>1, Sizes DEF TypeOK
    <2>2. Idle \in Jobs
      BY IdleIsJob
    <2> QED
      BY <1>1, <2>1, <2>2, Sizes DEF Jobs, Idle
  <1>3. Becomes(p, j) /\ At(p, "idle") /\ lock = Nobody
    BY DEF PublishLease
  <1>4. /\ name' = [name EXCEPT ![i] = "pending"] /\ data' = [data EXCEPT ![i] = <<>>]
        /\ leased' = [leased EXCEPT ![i] = p]
        /\ UNCHANGED <<clock, lock, index, temps, snapshot, files, touched, writeFailed, damage>>
    BY DEF PublishLease, Lease, reads
  <1> HIDE DEF i, j
  <1>5. job'[p] = j /\ \A q \in Procs \ {p} : job'[q] = job[q]
    BY <1>1, <1>2, <1>3, JobUpdate
  <1>6. Loaded' = Loaded
    BY <1>4 DEF Loaded
  <1>7. \A l \in Packs : l # i => name'[l] = name[l] /\ data'[l] = data[l] /\ leased'[l] = leased[l]
    BY <1>1, <1>4 DEF TypeOK
  <1>8. name'[i] = "pending" /\ data'[i] = <<>> /\ leased'[i] = p
    BY <1>1, <1>4 DEF TypeOK
  <1>9. TypeOK'
    <2>1. <<>> \in Seq(Frames)
      BY EmptySeq
    <2>2. name' \in [Packs -> {"none", "pending", "pack", "gone"}] /\ data' \in [Packs -> Seq(Frames)]
          /\ leased' \in [Packs -> Procs \union {Nobody}]
      BY <1>1, <1>4, <2>1 DEF TypeOK
    <2>3. job' \in [Procs -> Jobs]
      BY <1>1, <1>2, <1>3, JobUpdate
    <2> QED
      BY <1>1, <1>4, <2>2, <2>3 DEF TypeOK
  <1>10. JobsInv'
    <2>1. \A q \in Procs : lock' # q
      BY <1>3, <1>4, Sizes
    <2>2. ~ Locks(j) /\ job[p].pc = "idle"
      BY <1>2, <1>3 DEF Locks, At
    <2> QED
      BY <1>1, <1>2, <1>3, <1>4, <1>5, <2>1, <2>2 DEF StoreInv, JobsInv, At, Publishing, Locks
  <1>11. LeasesInv'
    <2>1. \A q \in Procs : job[q].lease # i
      BY <1>1 DEF StoreInv, LeasesInv
    <2>2. \A k \in DOMAIN Loaded : Loaded[k].pack # i
      BY <1>1 DEF StoreInv, MadeInv
    <2>3. \A q \in Procs : \A k \in DOMAIN job[q].entries : job[q].entries[k].pack # i
      BY <1>1 DEF StoreInv, MadeInv
    <2>4. LeaseAt(p, job', name', leased', Loaded')
      BY <1>2, <1>5, <1>6, <1>8, <2>1, <2>2, <2>3 DEF LeaseAt
    <2>5. ASSUME NEW q \in Procs \ {p}, job'[q].lease # 0
          PROVE  LeaseAt(q, job', name', leased', Loaded')
      <3>1. LeaseAt(q, job, name, leased, Loaded) /\ job[q].lease \in Packs
        BY <1>1, <1>5, <2>5, LeasesIs, JobFields DEF StoreInv
      <3>2. DOMAIN j.entries = {} /\ j.lease # job[q].lease
        BY <1>2, <2>1, EmptyTable
      <3> QED
        BY <1>5, <1>6, <1>7, <2>1, <3>1, <3>2 DEF LeaseAt
    <2>6. ASSUME NEW l \in Packs PROVE LockedFor(l, job', leased')
      <3>1. LockedFor(l, job, leased)
        BY LeasesIs DEF StoreInv
      <3>2. leased[l] # p
        <4> SUFFICES ASSUME leased[l] = p PROVE FALSE
          OBVIOUS
        <4>1. job[p].pc \in {"write", "finish", "drop"}
          BY <3>1, Sizes DEF LockedFor
        <4> QED
          BY <1>3, <4>1 DEF At
      <3> QED
        BY <1>1, <1>2, <1>5, <1>7, <1>8, <3>1, <3>2 DEF LockedFor, TypeOK
    <2> QED
      BY <2>4, <2>5, <2>6, LeasesNext
  <1>12. MadeInv'
    <2>1. \A l \in Packs : name[l] # "none" => name'[l] # "none"
      BY <1>7, <1>8
    <2>2. DOMAIN data'[i] = {} /\ DOMAIN job'[p].entries = {}
      BY <1>2, <1>5, <1>8, EmptyTable
    <2>3. \A q \in Procs : \A k \in DOMAIN job'[q].entries : name'[job'[q].entries[k].pack] # "none"
      BY <1>1, <1>5, <2>1, <2>2, Located DEF StoreInv, MadeInv
    <2>4. \A l \in Packs : \A n \in DOMAIN data'[l] : name'[data'[l][n].pack] # "none"
      BY <1>1, <1>7, <2>1, <2>2, Located DEF StoreInv, MadeInv
    <2> QED
      BY <1>1, <1>6, <2>1, <2>3, <2>4, Located DEF StoreInv, MadeInv
  <1>13. BatchesInv'
    <2>1. DOMAIN data'[i] = {}
      BY <1>8, EmptyTable
    <2>2. \A l \in Packs : \A n \in DOMAIN data[l] : data[l][n].pack # i
      BY <1>1 DEF StoreInv, MadeInv
    <2>3. \A q \in Procs : job[q].lease # i
      BY <1>1 DEF StoreInv, LeasesInv
    <2> SUFFICES ASSUME NEW q \in Procs, job'[q].batch # <<>>,
                        job'[q].pc \in {"write", "finish", "save", "rename"}
                 PROVE  LET g == job'[q] IN
                   /\ \A n \in DOMAIN data'[g.lease] : n <= Len(g.batch)
                        /\ data'[g.lease][n] = [key |-> g.batch[n], pack |-> g.lease, at |-> n]
                   /\ \A l \in Packs \ {g.lease} : \A n \in DOMAIN data'[l] : data'[l][n].pack # g.lease
                   /\ g.pc # "write" =>
                        \A k \in Range(g.batch) : k \in DOMAIN g.entries /\ g.entries[k].pack = g.lease
      BY DEF BatchesInv, Publishing
    <2>4. CASE q = p
      BY <1>2, <1>5, <1>7, <2>1, <2>2, <2>4
    <2>5. CASE q # p
      <3>1. job'[q] = job[q] /\ job[q].lease \in Packs
        BY <1>1, <1>5, <2>5, JobFields DEF StoreInv, JobsInv, Publishing
      <3> QED
        BY <1>7, <2>1, <2>3, <3>1 DEF StoreInv, BatchesInv, Publishing
    <2> QED
      BY <2>4, <2>5
  <1>14. IndexInv'
    BY <1>3, <1>4, Sizes DEF IndexInv
  <1>15. WholeInv'
    <2> SUFFICES ASSUME damage = 0 PROVE IndexWhole(data', name', Loaded')
      BY <1>3, <1>4, Sizes, WholeNext
    <2>1. \A k \in DOMAIN Loaded : Loaded[k].pack # i /\ Loaded[k].pack \in Packs
      BY <1>1, Located DEF StoreInv, MadeInv
    <2>2. IndexWhole(data, name, Loaded)
      BY WholeIs DEF StoreInv
    <2> QED
      BY <1>6, <1>7, <2>1, <2>2 DEF IndexWhole, Leads
  <1> QED
    BY <1>9, <1>10, <1>11, <1>12, <1>13, <1>14, <1>15 DEF StoreInv
\* What BatchesInv says of a job g and the files d.
BatchAt(g, d) ==
  /\ \A n \in DOMAIN d[g.lease] : n <= Len(g.batch)
       /\ d[g.lease][n] = [key |-> g.batch[n], pack |-> g.lease, at |-> n]
  /\ \A l \in Packs \ {g.lease} : \A n \in DOMAIN d[l] : d[l][n].pack # g.lease
  /\ g.pc # "write" =>
       \A k \in Range(g.batch) : k \in DOMAIN g.entries /\ g.entries[k].pack = g.lease

WritesBatch(g) == g.batch # <<>> /\ g.pc \in {"write", "finish", "save", "rename"}

LEMMA BatchesIs == BatchesInv <=> \A q \in Procs : WritesBatch(job[q]) => BatchAt(job[q], data)
  BY DEF BatchesInv, Publishing, WritesBatch, BatchAt

LEMMA BatchesNext == BatchesInv' <=> \A q \in Procs : WritesBatch(job'[q]) => BatchAt(job'[q], data')
  BY DEF BatchesInv, Publishing, WritesBatch, BatchAt

\* The next frame of a batch goes to the end of its pack, where nothing leads
\* but the writer's own entries.
LEMMA PublishWriteKeeps ==
  ASSUME StoreInv, NEW p \in Procs, PublishWrite(p)
  PROVE  StoreInv'
  <1> DEFINE j == job[p]
             i == job[p].lease
             n == Len(data[i]) + 1
             frame == [key |-> j.batch[n], pack |-> i, at |-> n]
  <1>1. /\ TypeOK /\ j \in Jobs /\ j.pc = "write" /\ j.batch # <<>> /\ i # 0 /\ i \in Packs
        /\ j.batch \in Batches /\ j.batch \in Seq(Keys)
    BY JobFields, Sizes DEF StoreInv, JobsInv, PublishWrite, At, Publishing
  <1>2. /\ n <= Len(j.batch) /\ data' = [data EXCEPT ![i] = Append(data[i], frame)]
        /\ UNCHANGED <<clock, lock, index, temps, name, leased, snapshot, files, touched, writeFailed,
                       job, damage>>
    BY DEF PublishWrite, reads
  <1>3. data[i] \in Seq(Frames) /\ Len(data[i]) \in Nat /\ DOMAIN data[i] = 1 .. Len(data[i])
    BY <1>1, LenProperties DEF TypeOK
  <1>4. frame \in Frames
    <2>1. Len(j.batch) \in Nat /\ DOMAIN j.batch = 1 .. Len(j.batch)
      BY <1>1, LenProperties
    <2>2. n \in DOMAIN j.batch
      BY <1>2, <1>3, <2>1
    <2>3. j.batch[n] \in Keys
      BY <1>1, <2>1, <2>2, ElementOfSeq
    <2>4. n \in Places
      BY <1>1, <2>2 DEF Places
    <2> QED
      BY <1>1, <2>3, <2>4 DEF Frames
  <1> HIDE DEF frame, n
  <1>5. /\ data'[i] \in Seq(Frames) /\ DOMAIN data'[i] = 1 .. Len(data[i]) + 1
        /\ Len(data'[i]) = Len(data[i]) + 1
        /\ \A m \in DOMAIN data[i] : data'[i][m] = data[i][m]
        /\ data'[i][Len(data[i]) + 1] = frame
    <2>1. data'[i] = Append(data[i], frame)
      BY <1>1, <1>2 DEF TypeOK
    <2> QED
      BY <1>3, <1>4, <2>1, AppendProperties, LenProperties
  <1>15. /\ \A m \in DOMAIN data'[i] : (m \in DOMAIN data[i] /\ data'[i][m] = data[i][m])
                                        \/ (m = Len(data[i]) + 1 /\ data'[i][m] = frame)
         /\ \A m \in DOMAIN data[i] : data'[i][m] = data[i][m] /\ m <= Len(data'[i])
    <2>1. \A m \in 1 .. Len(data[i]) + 1 : m \in 1 .. Len(data[i]) \/ m = Len(data[i]) + 1
      BY <1>3
    <2>2. \A m \in 1 .. Len(data[i]) : m <= Len(data[i]) + 1
      BY <1>3
    <2> QED
      BY <1>3, <1>5, <2>1, <2>2
  <1>6. \A l \in Packs : l # i => data'[l] = data[l]
    BY <1>1, <1>2 DEF TypeOK
  <1>7. Loaded' = Loaded /\ Unused' = Unused
    BY <1>2 DEF Loaded, Unused
  <1>8. TypeOK'
    <2>1. data' \in [Packs -> Seq(Frames)]
      BY <1>1, <1>2, <1>3, <1>4, AppendProperties DEF TypeOK
    <2> QED
      BY <1>1, <1>2, <2>1 DEF TypeOK
  <1>9. JobsInv'
    BY <1>2, <1>7 DEF StoreInv, JobsInv, At, Publishing
  <1>10. LeasesInv'
    BY <1>2, <1>7, LeasesIs, LeasesNext DEF StoreInv
  <1>11. MadeInv'
    <2>1. frame.pack = i /\ name[i] # "none"
      BY <1>1 DEF frame, StoreInv, LeasesInv
    <2>2. \A l \in Packs : \A m \in DOMAIN data'[l] : name[data'[l][m].pack] # "none"
      <3> TAKE l \in Packs
      <3>1. \A m \in DOMAIN data[l] : name[data[l][m].pack] # "none"
        BY DEF StoreInv, MadeInv
      <3> QED
        BY <1>6, <1>15, <2>1, <3>1
    <2> QED
      BY <1>2, <1>7, <2>2 DEF StoreInv, MadeInv
  <1>12. BatchesInv'
    <2> SUFFICES ASSUME NEW q \in Procs, WritesBatch(job[q]) PROVE BatchAt(job[q], data')
      BY <1>2, BatchesNext
    <2>1. BatchAt(job[q], data)
      BY BatchesIs DEF StoreInv
    <2>2. CASE q = p
      <3>1. \A m \in DOMAIN data'[i] : m <= Len(j.batch)
              /\ data'[i][m] = [key |-> j.batch[m], pack |-> i, at |-> m]
        BY <1>2, <1>15, <2>1, <2>2 DEF BatchAt, frame, n
      <3> QED
        BY <1>1, <1>6, <2>1, <2>2, <3>1 DEF BatchAt
    <2>3. CASE q # p
      <3>1. job[q].lease # i /\ frame.pack = i
        BY <1>1, <2>3 DEF StoreInv, LeasesInv, frame
      <3>2. job[q].lease \in Packs
        BY <1>1, JobFields DEF StoreInv, JobsInv, Publishing, WritesBatch
      <3>3. data'[job[q].lease] = data[job[q].lease]
        BY <1>6, <3>1, <3>2
      <3>4. \A m \in DOMAIN data'[i] : data'[i][m].pack # job[q].lease
        BY <1>1, <1>15, <2>1, <2>3, <3>1 DEF BatchAt
      <3> QED
        BY <1>6, <2>1, <3>1, <3>3, <3>4 DEF BatchAt
    <2> QED
      BY <2>2, <2>3
  <1>13. IndexInv'
    BY <1>2, <1>7 DEF StoreInv, IndexInv, At
  <1>14. WholeInv'
    <2> SUFFICES ASSUME damage = 0 PROVE WholeInv'
      BY <1>2, WholeNext
    <2>1. ASSUME NEW l \in Locations, NEW k, Leads(data, l, k)
          PROVE  Leads(data', l, k)
      <3>1. l.pack \in Packs /\ l.at \in Nat /\ l.at >= 1
        BY LocationFacts
      <3>2. CASE l.pack = i
        <4>1. l.at \in DOMAIN data[i] /\ data[i][l.at].key = k
          BY <1>3, <2>1, <3>1, <3>2 DEF Leads
        <4> QED
          BY <1>15, <3>2, <4>1 DEF Leads
      <3>3. CASE l.pack # i
        BY <1>6, <2>1, <3>1, <3>3 DEF Leads
      <3> QED
        BY <3>2, <3>3
    <2>2. IndexWhole(data', name', Loaded')
      BY <1>1, <1>2, <1>7, <2>1, WholeIs, Located DEF StoreInv, IndexWhole
    <2>3. ASSUME NEW q \in Procs, lock = q PROVE JobWhole(data', name', job'[q])
      <3>1. JobWhole(data, name, job[q])
        BY <2>3, WholeIs DEF StoreInv
      <3>2. \A k \in DOMAIN job[q].entries : job[q].entries[k] \in Locations
        BY <1>1, Located
      <3> QED
        BY <1>2, <2>1, <3>1, <3>2 DEF JobWhole
    <2> QED
      BY <1>2, <2>2, <2>3, WholeNext
  <1> QED
    BY <1>8, <1>9, <1>10, <1>11, <1>12, <1>13, <1>14 DEF StoreInv

\* The pack gets its name and loses its file lock; the index may not name it yet.
LEMMA FinishKeeps ==
  ASSUME StoreInv, NEW p \in Procs, Finish(p)
  PROVE  StoreInv'
  <1> DEFINE i == job[p].lease
             j == [job[p] EXCEPT !.pc = "save"]
  <1>1. /\ TypeOK /\ job[p] \in Jobs /\ job[p].pc = "finish" /\ i # 0 /\ i \in Packs /\ lock = p
        /\ name[i] = "pending"
    BY JobFields DEF StoreInv, JobsInv, LeasesInv, Finish, At
  <1>2. /\ j \in Jobs /\ j.pc = "save" /\ j.lease = i /\ j.entries = job[p].entries
        /\ j.batch = job[p].batch /\ j.todo = job[p].todo /\ j.at = job[p].at
    BY <1>1 DEF Jobs
  <1>3. /\ Becomes(p, j)
        /\ leased' = [leased EXCEPT ![i] = Nobody] /\ name' = [name EXCEPT ![i] = "pack"]
        /\ UNCHANGED <<clock, lock, index, temps, data, snapshot, files, touched, writeFailed, damage>>
    BY DEF Finish, Go, reads
  <1> HIDE DEF j
  <1>4. job'[p] = j /\ \A q \in Procs \ {p} : job'[q] = job[q]
    BY <1>1, <1>2, <1>3, JobUpdate
  <1>5. \A l \in Packs : l # i => name'[l] = name[l] /\ leased'[l] = leased[l]
    BY <1>1, <1>3 DEF TypeOK
  <1>6. name'[i] = "pack" /\ leased'[i] = Nobody
    BY <1>1, <1>3 DEF TypeOK
  <1>7. Loaded' = Loaded
    BY <1>3 DEF Loaded
  <1>8. Unused' = Unused
    BY <1>1, <1>5, <1>6 DEF Unused
  <1>9. TypeOK'
    <2>1. name' \in [Packs -> {"none", "pending", "pack", "gone"}]
          /\ leased' \in [Packs -> Procs \union {Nobody}]
      BY <1>1, <1>3 DEF TypeOK
    <2> QED
      BY <1>1, <1>2, <1>3, <2>1, JobUpdate DEF TypeOK
  <1>10. JobsInv'
    BY <1>1, <1>2, <1>3, <1>4, <1>8 DEF StoreInv, JobsInv, At, Publishing
  <1>11. LeasesInv'
    <2>1. ASSUME NEW q \in Procs, job'[q].lease # 0
          PROVE  LeaseAt(q, job', name', leased', Loaded')
      <3>1. LeaseAt(q, job, name, leased, Loaded) /\ job[q].lease \in Packs
        BY <1>1, <1>2, <1>4, <2>1, LeasesIs, JobFields DEF StoreInv
      <3>2. \A r \in Procs : job'[r].lease = job[r].lease /\ job'[r].entries = job[r].entries
        BY <1>2, <1>4
      <3>3. CASE q = p
        BY <1>1, <1>2, <1>4, <1>6, <1>7, <3>1, <3>2, <3>3 DEF LeaseAt
      <3>4. CASE q # p
        <4>1. job[q].lease # i
          BY <3>1, <3>4 DEF LeaseAt
        <4> QED
          BY <1>4, <1>5, <1>7, <3>1, <3>2, <3>4, <4>1 DEF LeaseAt
      <3> QED
        BY <3>3, <3>4
    <2>2. ASSUME NEW l \in Packs PROVE LockedFor(l, job', leased')
      <3>1. LockedFor(l, job, leased) /\ leased[l] \in Procs \union {Nobody}
        BY <1>1, LeasesIs DEF StoreInv, TypeOK
      <3>2. leased'[l] # Nobody => l # i /\ leased'[l] = leased[l]
        BY <1>5, <1>6
      <3> QED
        BY <1>4, <3>1, <3>2 DEF LockedFor
    <2> QED
      BY <2>1, <2>2, LeasesNext
  <1>12. MadeInv'
    <2>1. \A l \in Packs : name[l] # "none" => name'[l] # "none"
      BY <1>5, <1>6
    <2> QED
      BY <1>1, <1>2, <1>3, <1>4, <1>7, <2>1, Located DEF StoreInv, MadeInv
  <1>13. BatchesInv'
    BY <1>1, <1>2, <1>3, <1>4, BatchesIs, BatchesNext DEF StoreInv, WritesBatch, BatchAt
  <1>14. IndexInv'
    BY <1>1, <1>2, <1>3, <1>4, <1>7 DEF StoreInv, IndexInv, At
  <1>15. WholeInv'
    <2> SUFFICES ASSUME damage = 0 PROVE WholeInv'
      BY <1>3, WholeNext
    <2>1. \A l \in Packs : name[l] = "pack" => name'[l] = "pack"
      BY <1>5, <1>6
    <2>2. IndexWhole(data', name', Loaded')
      BY <1>1, <1>3, <1>7, <2>1, WholeIs, Located DEF StoreInv, IndexWhole
    <2>3. JobWhole(data', name', job'[p])
      <3>1. JobWhole(data, name, job[p])
        BY <1>1, WholeIs DEF StoreInv
      <3>2. \A k \in DOMAIN job[p].entries : job[p].entries[k].pack \in Packs
        BY <1>1, Located
      <3> QED
        BY <1>2, <1>3, <1>4, <2>1, <3>1, <3>2 DEF JobWhole
    <2> QED
      BY <1>1, <1>3, <2>2, <2>3, WholeNext
  <1> QED
    BY <1>9, <1>10, <1>11, <1>12, <1>13, <1>14, <1>15 DEF StoreInv
\* The locations of a batch lead to its last frame for each key.
LEMMA PendingTable ==
  ASSUME NEW j \in Jobs, j.batch # <<>>, j.lease # 0, j.at # 0
  PROVE  /\ Pending(j) \in Tables /\ DOMAIN Pending(j) = Range(j.batch)
         /\ \A k \in Range(j.batch) :
              /\ Pending(j)[k].pack = j.lease
              /\ Pending(j)[k].at \in DOMAIN j.batch /\ j.batch[Pending(j)[k].at] = k
  <1> DEFINE In(k) == {n \in DOMAIN j.batch : j.batch[n] = k}
             loc(k) == [pack |-> j.lease, at |-> Max(In(k)), used |-> j.at]
  <1>1. j.batch \in Batches /\ j.batch \in Seq(Keys) /\ j.lease \in Packs /\ j.at \in 1 .. MaxClock
    BY Sizes DEF Jobs
  <1>2. DOMAIN j.batch = 1 .. Len(j.batch) /\ Len(j.batch) \in Nat
    BY <1>1, LenProperties
  <1>3. ASSUME NEW k \in Range(j.batch) PROVE Max(In(k)) \in DOMAIN j.batch /\ j.batch[Max(In(k))] = k
    <2>1. In(k) # {}
      BY DEF Range
    <2>2. In(k) \in SUBSET (1 .. Len(j.batch))
      BY <1>2
    <2>3. IsFiniteSet(1 .. Len(j.batch))
      BY <1>2, FS_Interval
    <2>4. IsFiniteSet(In(k)) /\ In(k) \in SUBSET Int
      BY <1>2, <2>2, <2>3, FS_Subset
    <2>5. Max(In(k)) \in In(k)
      BY <2>1, <2>4, MaxExists
    <2> QED
      BY <2>5
  <1>4. Range(j.batch) \in SUBSET Keys
    BY <1>1, RangeOfSeq
  <1>5. \A k \in Range(j.batch) : loc(k) \in Locations
    <2> TAKE k \in Range(j.batch)
    <2>1. Max(In(k)) \in Places
      BY <1>1, <1>3 DEF Places
    <2> HIDE DEF In
    <2> QED
      BY <1>1, <2>1 DEF Locations
  <1>6. Pending(j) = [k \in Range(j.batch) |-> loc(k)]
    BY DEF Pending
  <1> HIDE DEF loc
  <1>7. Pending(j) \in [Range(j.batch) -> Locations]
    BY <1>5, <1>6
  <1>8. Pending(j) \in Tables
    BY <1>4, <1>7 DEF Tables
  <1>9. \A k \in Range(j.batch) :
          /\ Pending(j)[k].pack = j.lease
          /\ Pending(j)[k].at \in DOMAIN j.batch /\ j.batch[Pending(j)[k].at] = k
    <2> TAKE k \in Range(j.batch)
    <2>1. Pending(j)[k] = loc(k)
      BY <1>6
    <2>2. loc(k).pack = j.lease /\ loc(k).at = Max(In(k))
      BY DEF loc
    <2> QED
      BY <1>3, <2>1, <2>2
  <1> QED
    BY <1>7, <1>8, <1>9

\* Under the publication lock a writer adds its batch to the index it finds.
LEMMA PublishMergeKeeps ==
  ASSUME StoreInv, NEW p \in Procs, PublishMerge(p)
  PROVE  StoreInv'
  <1> DEFINE old == Marked(p, Loaded)
             new == Pending(job[p])
             rows == Extended(old, new)
             j == [job[p] EXCEPT !.pc = "finish", !.entries = rows]
             i == job[p].lease
             b == job[p].batch
  <1>1. /\ TypeOK /\ job[p] \in Jobs /\ job[p].pc = "write" /\ b # <<>> /\ i # 0 /\ i \in Packs
        /\ job[p].at # 0 /\ lock = Nobody /\ job[p].todo = {}
    BY JobFields DEF StoreInv, JobsInv, PublishMerge, At, Publishing
  <1>2. /\ old \in Tables /\ DOMAIN old = DOMAIN Loaded
        /\ \A k \in DOMAIN Loaded : /\ old[k].pack = Loaded[k].pack /\ old[k].at = Loaded[k].at
                                    /\ old[k].used >= Loaded[k].used
    <2>1. touched[p] \in [Keys -> 0 .. MaxClock]
      BY <1>1 DEF TypeOK
    <2> QED
      BY <1>1, <2>1, LoadedTable, MarkedTable
  <1>3. /\ new \in Tables /\ DOMAIN new = Range(b)
        /\ \A k \in Range(b) : new[k].pack = i /\ new[k].at \in DOMAIN b /\ b[new[k].at] = k
    BY <1>1, PendingTable
  <1>4. Becomes(p, j)
    BY DEF PublishMerge, Recovered
  <1> HIDE DEF old, new
  <1>5. /\ rows \in Tables /\ DOMAIN rows = DOMAIN Loaded \union Range(b)
        /\ \A k \in Range(b) : rows[k] = new[k]
        /\ \A k \in DOMAIN Loaded \ Range(b) : rows[k] = old[k]
    <2>1. /\ Extended(old, new) \in Tables
          /\ DOMAIN Extended(old, new) = DOMAIN old \union DOMAIN new
          /\ \A k \in DOMAIN new : Extended(old, new)[k] = new[k]
          /\ \A k \in DOMAIN old \ DOMAIN new : Extended(old, new)[k] = old[k]
      BY <1>2, <1>3, ExtendedTable, Zenon
    <2> QED
      BY <1>2, <1>3, <2>1
  <1> HIDE DEF rows
  <1>6. /\ j \in Jobs /\ j.pc = "finish" /\ j.entries = rows /\ j.lease = i /\ j.batch = b
        /\ j.at = job[p].at /\ j.todo = {}
    BY <1>1, <1>5 DEF Jobs
  <1> HIDE DEF j
  <1>7. /\ lock' = p
        /\ UNCHANGED <<clock, index, temps, name, data, leased, snapshot, files, writeFailed, damage>>
    BY DEF PublishMerge, disk
  <1>8. job'[p] = j /\ \A q \in Procs \ {p} : job'[q] = job[q]
    BY <1>1, <1>4, <1>6, JobUpdate
  <1>9. Loaded' = Loaded /\ Unused' = Unused
    BY <1>7 DEF Loaded, Unused
  <1>10. TypeOK'
    <2>1. touched' \in [Procs -> [Keys -> 0 .. MaxClock]]
      BY <1>1, Sizes DEF TypeOK, PublishMerge, NoMarks
    <2> QED
      BY <1>1, <1>4, <1>6, <1>7, <2>1, JobUpdate DEF TypeOK
  <1>11. JobsInv'
    <2>1. Cardinality({}) = 0 /\ Cardinality(Unused) \in Nat
      BY FS_EmptySet, UnusedFacts
    <2>2. \A q \in Procs : lock # q
      BY <1>1, Sizes
    <2> SUFFICES ASSUME NEW q \in Procs
                 PROVE  /\ job'[q].pc = "idle" => job'[q] = Idle
                        /\ job'[q].pc = "write" => job'[q].batch # <<>>
                        /\ job'[q].batch # <<>> => job'[q].lease # 0 /\ job'[q].at # 0 /\ job'[q].todo = {}
                        /\ job'[q].pc \in {"write", "finish", "drop", "remove"} => job'[q].lease # 0
                        /\ job'[q].pc \in {"compact", "prune"} => job'[q].batch = <<>> /\ job'[q].lease = 0
                        /\ (lock' = q) <=> Locks(job'[q])
                        /\ lock' = q => Cardinality(job'[q].todo) <= Cardinality(Unused)
      BY <1>9, Zenon DEF JobsInv, At, Publishing, Locks
    <2>3. CASE q = p
      <3>1. job'[q] = j /\ lock' = q
        BY <1>7, <1>8, <2>3
      <3>2. 0 <= Cardinality(Unused) /\ Locks(j)
        BY <1>6, <2>1 DEF Locks
      <3> QED
        BY <1>1, <1>6, <2>1, <3>1, <3>2
    <2>4. CASE q # p
      <3>1. job'[q] = job[q] /\ lock' # q /\ lock # q
        BY <1>7, <1>8, <2>2, <2>4
      <3> QED
        BY <3>1 DEF StoreInv, JobsInv, At, Publishing, Locks
    <2> QED
      BY <2>3, <2>4
  <1>12. LeasesInv'
    <2>1. ASSUME NEW q \in Procs, job'[q].lease # 0
          PROVE  LeaseAt(q, job', name', leased', Loaded')
      <3>1. LeaseAt(q, job, name, leased, Loaded) /\ job[q].lease \in Packs
        BY <1>1, <1>6, <1>8, <2>1, LeasesIs, JobFields DEF StoreInv
      <3>2. \A r \in Procs : job'[r].lease = job[r].lease
        BY <1>6, <1>8
      <3>3. CASE q = p
        BY <1>1, <1>6, <1>7, <1>8, <1>9, <3>1, <3>2, <3>3 DEF LeaseAt
      <3>4. CASE q # p
        <4>1. i # job[q].lease
          BY <3>1, <3>4 DEF LeaseAt
        <4>2. Unindexed(q) => \A k \in DOMAIN rows : rows[k].pack # job[q].lease
          BY <1>2, <1>3, <1>5, <3>1, <4>1 DEF LeaseAt, Unindexed
        <4> QED
          BY <1>6, <1>7, <1>8, <1>9, <3>1, <3>2, <3>4, <4>2 DEF LeaseAt, Unindexed
      <3> QED
        BY <3>3, <3>4
    <2>2. ASSUME NEW l \in Packs PROVE LockedFor(l, job', leased')
      <3>1. LockedFor(l, job, leased) /\ leased[l] \in Procs \union {Nobody}
        BY <1>1, LeasesIs DEF StoreInv, TypeOK
      <3> QED
        BY <1>6, <1>7, <1>8, <3>1 DEF LockedFor
    <2> QED
      BY <2>1, <2>2, LeasesNext
  <1>13. MadeInv'
    <2>1. name[i] # "none" /\ \A k \in DOMAIN Loaded : name[Loaded[k].pack] # "none"
      BY <1>1 DEF StoreInv, LeasesInv, MadeInv
    <2>2. \A k \in DOMAIN rows : name[rows[k].pack] # "none"
      BY <1>2, <1>3, <1>5, <2>1
    <2> QED
      BY <1>6, <1>7, <1>8, <1>9, <2>2 DEF StoreInv, MadeInv
  <1>14. BatchesInv'
    <2> SUFFICES ASSUME NEW q \in Procs, WritesBatch(job'[q]) PROVE BatchAt(job'[q], data)
      BY <1>7, BatchesNext
    <2>1. CASE q = p
      <3>1. BatchAt(job[p], data)
        BY <1>1, BatchesIs DEF StoreInv, WritesBatch
      <3> QED
        BY <1>3, <1>5, <1>6, <1>8, <2>1, <3>1 DEF BatchAt
    <2>2. CASE q # p
      BY <1>8, <2>2, BatchesIs DEF StoreInv
    <2> QED
      BY <2>1, <2>2
  <1>15. IndexInv'
    <2>1. \A k \in DOMAIN Loaded : k \notin Range(b) => Loaded[k].used <= rows[k].used
      <3> TAKE k \in DOMAIN Loaded
      <3>1. Loaded[k].used \in Nat /\ (k \notin Range(b) => rows[k] = old[k])
        BY <1>1, <1>5, Located, LocationFacts
      <3>2. old[k].used \in Nat
        BY <1>2, TableFacts, LocationFacts
      <3> QED
        BY <1>2, <3>1, <3>2
    <2>2. \A q \in Procs : lock' = q => q = p
      BY <1>7
    <2> QED
      BY <1>6, <1>8, <1>9, <2>1, <2>2 DEF IndexInv, At
  <1>16. WholeInv'
    <2> SUFFICES ASSUME damage = 0 PROVE WholeInv'
      BY <1>7, WholeNext
    <2>1. IndexWhole(data, name, Loaded)
      BY WholeIs DEF StoreInv
    <2>2. /\ Len(data[i]) = Len(b)
          /\ \A n \in DOMAIN data[i] : data[i][n] = [key |-> b[n], pack |-> i, at |-> n]
      <3>1. BatchAt(job[p], data)
        BY <1>1, BatchesIs DEF StoreInv, WritesBatch
      <3> QED
        BY <3>1 DEF BatchAt, PublishMerge
    <2>3. DOMAIN data[i] = 1 .. Len(data[i]) /\ DOMAIN b = 1 .. Len(b) /\ Len(b) \in Nat
      <3>1. b \in Seq(Keys)
        BY <1>1, Sizes DEF Jobs
      <3> QED
        BY <1>1, <3>1, Located, LenProperties
    <2>4. ASSUME NEW k \in DOMAIN rows
          PROVE  Leads(data, rows[k], k) /\ (rows[k].pack # i => name[rows[k].pack] = "pack")
      <3>1. CASE k \in Range(b)
        <4>1. rows[k].pack = i /\ rows[k].at \in DOMAIN b /\ b[rows[k].at] = k
          BY <1>3, <1>5, <3>1
        <4>2. rows[k].at \in DOMAIN data[i] /\ rows[k].at <= Len(data[i])
          BY <2>2, <2>3, <4>1
        <4> DEFINE n == rows[k].at
        <4>3. data[i][n] = [key |-> b[n], pack |-> i, at |-> n]
          BY <2>2, <4>2
        <4>4. data[i][n].key = k
          BY <4>1, <4>3
        <4> HIDE DEF n
        <4> QED
          BY <4>1, <4>2, <4>4 DEF Leads, n
      <3>2. CASE k \notin Range(b)
        <4>1. k \in DOMAIN Loaded /\ rows[k].pack = Loaded[k].pack /\ rows[k].at = Loaded[k].at
          BY <1>2, <1>5, <3>2
        <4> QED
          BY <2>1, <4>1 DEF IndexWhole, Leads
      <3> QED
        BY <3>1, <3>2
    <2>5. JobWhole(data, name, j)
      BY <1>6, <2>4 DEF JobWhole
    <2> QED
      BY <1>7, <1>8, <1>9, <2>1, <2>5, WholeNext
  <1> QED
    BY <1>10, <1>11, <1>12, <1>13, <1>14, <1>15, <1>16 DEF StoreInv
-----------------------------------------------------------------------------
(***************************************************************************)
(* maintain.                                                               *)
(***************************************************************************)

\* A collection begins with rows of the index, which it may write back as they
\* are, and it never plans more new packs than there are fresh IDs.
LEMMA CollectsKeeps ==
  ASSUME StoreInv, NEW p \in Procs, NEW bounded \in BOOLEAN, NEW cap \in Caps,
         Collects(p, bounded, cap)
  PROVE  StoreInv'
  <1> DEFINE merged == Marked(p, Loaded)
             whole == {k \in DOMAIN merged : Finds(merged, {}, k)}
             valid == Restrict(merged, whole)
             kept == Restrict(valid, Kept(valid, cap))
             sparse == Sparse(kept, PhysicalSize, cap)
             over == ~ Within(DOMAIN valid, cap)
             dirty == index = Corrupt \/ kept # Loaded
             j == [Idle EXCEPT
                     !.pc = "compact", !.bounded = bounded, !.cap = cap, !.entries = kept,
                     !.todo = sparse, !.over = over, !.dirty = dirty]
  <1>1. TypeOK /\ job[p].pc = "idle" /\ lock = Nobody /\ touched[p] \in [Keys -> 0 .. MaxClock]
    BY DEF StoreInv, Collects, At, TypeOK
  <1>2. /\ Cardinality(sparse) <= Cardinality(Unused)
        /\ snapshot' = [snapshot EXCEPT ![p] = merged] /\ files' = [files EXCEPT ![p] = {}]
        /\ NoMarks(p) /\ Becomes(p, j) /\ lock' = p
        /\ UNCHANGED <<clock, index, temps, name, data, leased, writeFailed, damage>>
    BY DEF Collects, Recovered, Replaced, disk
  <1>3. /\ merged \in Tables /\ DOMAIN merged = DOMAIN Loaded
        /\ \A k \in DOMAIN Loaded : /\ merged[k].pack = Loaded[k].pack /\ merged[k].at = Loaded[k].at
                                    /\ merged[k].used >= Loaded[k].used
    BY <1>1, LoadedTable, MarkedTable
  <1> HIDE DEF merged
  <1>4. valid \in Tables /\ DOMAIN valid = whole /\ \A k \in whole : valid[k] = merged[k]
    <2>1. whole \in SUBSET DOMAIN merged
      OBVIOUS
    <2> HIDE DEF whole
    <2> QED
      BY <1>3, <2>1, RestrictTable
  <1>5. \A k \in whole : k \in DOMAIN Loaded /\ name[merged[k].pack] = "pack" /\ InRange(merged[k])
    BY <1>3 DEF Finds
  <1> HIDE DEF valid, whole
  <1>6. /\ kept \in Tables /\ DOMAIN kept \in SUBSET whole /\ \A k \in DOMAIN kept : kept[k] = merged[k]
    <2>1. Kept(valid, cap) \in SUBSET DOMAIN valid
      BY <1>4, KeptIsPart
    <2>2. /\ kept \in Tables /\ DOMAIN kept = Kept(valid, cap)
          /\ \A k \in Kept(valid, cap) : kept[k] = valid[k]
      BY <1>4, <2>1, RestrictTable
    <2> QED
      BY <1>4, <2>1, <2>2
  <1> HIDE DEF kept
  <1>7. \A k \in DOMAIN kept : /\ k \in DOMAIN Loaded
                               /\ kept[k].pack = Loaded[k].pack /\ kept[k].at = Loaded[k].at
                               /\ kept[k].used >= Loaded[k].used
                               /\ kept[k] \in Locations /\ kept[k].pack \in Packs
                               /\ name[kept[k].pack] = "pack"
    BY <1>3, <1>5, <1>6, TableFacts, LocationFacts
  <1>8. sparse \in SUBSET Packs
    BY <1>7 DEF Sparse, PacksOf
  <1>9. ~ dirty => index = kept
    BY DEF Loaded
  <1>10. over \in BOOLEAN /\ dirty \in BOOLEAN
    <2>1. dirty \in BOOLEAN
      OBVIOUS
    <2>2. over \in BOOLEAN
      BY DEF Within
    <2> QED
      BY <2>1, <2>2
  <1> HIDE DEF sparse, over, dirty
  <1>11. /\ j \in Jobs /\ j.pc = "compact" /\ j.entries = kept /\ j.lease = 0 /\ j.batch = <<>>
         /\ j.todo = sparse /\ j.dirty = dirty
    BY <1>6, <1>8, <1>10, IdleIsJob DEF Jobs, Idle
  <1> HIDE DEF j
  <1>12. job'[p] = j /\ \A q \in Procs \ {p} : job'[q] = job[q]
    BY <1>1, <1>2, <1>11, JobUpdate
  <1>13. Loaded' = Loaded /\ Unused' = Unused /\ \A q \in Procs : lock # q
    BY <1>1, <1>2, Sizes DEF Loaded, Unused
  <1>14. TypeOK'
    <2>1. touched' \in [Procs -> [Keys -> 0 .. MaxClock]]
      BY <1>1, <1>2, Sizes DEF TypeOK, NoMarks
    <2>2. Cardinality({}) <= MaxHandles
      BY FS_EmptySet, Sizes
    <2> QED
      BY <1>1, <1>2, <1>3, <1>11, <2>1, <2>2, JobUpdate DEF TypeOK
  <1>15. JobsInv'
    <2> SUFFICES ASSUME NEW q \in Procs
                 PROVE  /\ job'[q].pc = "idle" => job'[q] = Idle
                        /\ job'[q].pc = "write" => job'[q].batch # <<>>
                        /\ job'[q].batch # <<>> => job'[q].lease # 0 /\ job'[q].at # 0 /\ job'[q].todo = {}
                        /\ job'[q].pc \in {"write", "finish", "drop", "remove"} => job'[q].lease # 0
                        /\ job'[q].pc \in {"compact", "prune"} => job'[q].batch = <<>> /\ job'[q].lease = 0
                        /\ (lock' = q) <=> Locks(job'[q])
                        /\ lock' = q => Cardinality(job'[q].todo) <= Cardinality(Unused)
      BY <1>13, Zenon DEF JobsInv, At, Publishing, Locks
    <2>1. CASE q = p
      <3>1. job'[q] = j /\ lock' = q /\ Locks(j)
        BY <1>2, <1>11, <1>12, <2>1 DEF Locks
      <3> QED
        BY <1>2, <1>11, <3>1
    <2>2. CASE q # p
      <3>1. job'[q] = job[q] /\ lock' # q /\ lock # q
        BY <1>2, <1>12, <1>13, <2>2
      <3> QED
        BY <3>1 DEF StoreInv, JobsInv, At, Publishing, Locks
    <2> QED
      BY <2>1, <2>2
  <1>16. LeasesInv'
    <2>1. ASSUME NEW q \in Procs, job'[q].lease # 0
          PROVE  LeaseAt(q, job', name', leased', Loaded')
      <3>1. q # p /\ job'[q] = job[q]
        BY <1>11, <1>12, <2>1
      <3>2. LeaseAt(q, job, name, leased, Loaded)
        BY <2>1, <3>1, LeasesIs DEF StoreInv
      <3>3. Unindexed(q) => \A k \in DOMAIN kept : kept[k].pack # job[q].lease
        BY <1>7, <3>2 DEF LeaseAt, Unindexed
      <3>4. \A r \in Procs : job'[r].lease # 0 => job'[r].lease = job[r].lease
        BY <1>11, <1>12
      <3> QED
        BY <1>2, <1>11, <1>12, <1>13, <2>1, <3>1, <3>2, <3>3, <3>4 DEF LeaseAt, Unindexed
    <2>2. ASSUME NEW l \in Packs PROVE LockedFor(l, job', leased')
      <3>1. LockedFor(l, job, leased) /\ leased[l] \in Procs \union {Nobody}
        BY <1>1, LeasesIs DEF StoreInv, TypeOK
      <3> QED
        BY <1>1, <1>2, <1>12, <3>1 DEF LockedFor
    <2> QED
      BY <2>1, <2>2, LeasesNext
  <1>17. MadeInv'
    <2>1. \A k \in DOMAIN kept : name[kept[k].pack] # "none"
      BY <1>7
    <2> QED
      BY <1>2, <1>11, <1>12, <1>13, <2>1 DEF StoreInv, MadeInv
  <1>18. BatchesInv'
    BY <1>2, <1>11, <1>12, BatchesIs, BatchesNext DEF StoreInv, WritesBatch
  <1>19. IndexInv'
    <2>1. \A k \in DOMAIN Loaded \intersect DOMAIN kept : Loaded[k].used <= kept[k].used
      <3> TAKE k \in DOMAIN Loaded \intersect DOMAIN kept
      <3>1. Loaded[k] \in Locations /\ kept[k] \in Locations /\ kept[k].used >= Loaded[k].used
        BY <1>1, <1>7, Located
      <3>2. Loaded[k].used \in Nat /\ kept[k].used \in Nat
        BY <3>1, LocationFacts
      <3> QED
        BY <3>1, <3>2
    <2>2. \A q \in Procs : lock' = q => q = p
      BY <1>2
    <2> QED
      BY <1>2, <1>9, <1>11, <1>12, <1>13, <2>1, <2>2 DEF IndexInv, At
  <1>20. WholeInv'
    <2> SUFFICES ASSUME damage = 0 PROVE WholeInv'
      BY <1>2, WholeNext
    <2>1. IndexWhole(data, name, Loaded)
      BY WholeIs DEF StoreInv
    <2>2. JobWhole(data, name, j)
      BY <1>7, <1>11, <2>1 DEF JobWhole, IndexWhole, Leads
    <2> QED
      BY <1>2, <1>12, <1>13, <2>1, <2>2, WholeNext
  <1> QED
    BY <1>14, <1>15, <1>16, <1>17, <1>18, <1>19, <1>20 DEF StoreInv
\* The new pack of a compaction holds the frame of every key that it moves, at
\* the place that its location says.
LEMMA CopiesFacts ==
  ASSUME TypeOK, NEW f \in Tables, NEW from \in Packs, NEW keys \in SUBSET DOMAIN f,
         \A k \in keys : f[k].pack = from /\ InRange(f[k])
  PROVE  LET c == Copies(f, from, keys) IN
         /\ c \in Seq(Frames) /\ Len(c) = Cardinality(keys) /\ DOMAIN c = 1 .. Cardinality(keys)
         /\ \A k \in keys : c[Rank(keys, k)] = data[from][f[k].at]
         /\ \A n \in DOMAIN c : keys # {} /\ \E m \in DOMAIN data[from] : c[n] = data[from][m]
  <1> DEFINE N == Cardinality(keys)
             moved(n) == CHOOSE k \in keys : Rank(keys, k) = n
             c == Copies(f, from, keys)
  <1>1. keys \in SUBSET Keys
    BY TableFacts
  <1>2. /\ N \in Nat
        /\ \A k \in keys : Rank(keys, k) \in 1 .. N
        /\ \A k, l \in keys : Rank(keys, k) = Rank(keys, l) => k = l
        /\ \A n \in 1 .. N : \E k \in keys : Rank(keys, k) = n
    BY <1>1, RankFacts
  <1>3. \A n \in 1 .. N : moved(n) \in keys /\ Rank(keys, moved(n)) = n
    BY <1>2
  <1>4. \A k \in keys : moved(Rank(keys, k)) = k
    BY <1>2, <1>3
  <1> HIDE DEF moved
  <1>5. \A k \in keys : f[k].at \in DOMAIN data[from] /\ data[from][f[k].at] \in Frames
    <2> TAKE k \in keys
    <2>1. f[k].at \in Nat /\ f[k].at >= 1
      BY TableFacts, LocationFacts
    <2>2. f[k].at <= Len(data[from])
      BY DEF InRange
    <2> QED
      BY <2>1, <2>2, Located
  <1>6. c = [n \in 1 .. N |-> data[from][f[moved(n)].at]]
    BY DEF Copies, moved
  <1> HIDE DEF c
  <1>7. DOMAIN c = 1 .. N /\ c \in [1 .. N -> Frames]
    BY <1>3, <1>5, <1>6
  <1>8. c \in Seq(Frames) /\ Len(c) = N
    BY <1>2, <1>7
  <1>9. \A k \in keys : c[Rank(keys, k)] = data[from][f[k].at]
    BY <1>2, <1>4, <1>6
  <1>10. \A n \in DOMAIN c : keys # {} /\ \E m \in DOMAIN data[from] : c[n] = data[from][m]
    BY <1>3, <1>5, <1>6, <1>7
  <1> QED
    BY <1>7, <1>8, <1>9, <1>10 DEF c

\* compact copies the live frames of a sparse pack to a new one, which nothing
\* else names yet, and its entries follow them.
LEMMA CompactKeeps ==
  ASSUME StoreInv, NEW p \in Procs, Compact(p)
  PROVE  StoreInv'
  <1> DEFINE g == job[p]
             from == Min(g.todo)
             to == Min(Unused)
             keys == {k \in DOMAIN g.entries : g.entries[k].pack = from}
             copies == Copies(g.entries, from, keys)
             moved == [k \in keys |-> [pack |-> to, at |-> Place(keys, k), used |-> g.entries[k].used]]
             rows == Extended(g.entries, moved)
             j == [g EXCEPT !.pc = "finish", !.lease = to, !.todo = g.todo \ {from}, !.entries = rows]
  <1>1. /\ TypeOK /\ g \in Jobs /\ g.pc = "compact" /\ g.todo # {} /\ g.batch = <<>> /\ g.lease = 0
        /\ lock = p /\ Cardinality(g.todo) <= Cardinality(Unused) /\ g.entries \in Tables
        /\ g.todo \in SUBSET Packs
    BY JobFields DEF StoreInv, JobsInv, Compact, At, Publishing
  <1>2. /\ name[from] = "pack" /\ \A k \in keys : InRange(g.entries[k])
        /\ name' = [name EXCEPT ![to] = "pending"] /\ data' = [data EXCEPT ![to] = copies]
        /\ leased' = [leased EXCEPT ![to] = p] /\ Becomes(p, j)
        /\ UNCHANGED <<clock, lock, index, temps, snapshot, files, touched, writeFailed, damage>>
    BY DEF Compact, Lease, reads
  <1>3. /\ from \in g.todo /\ from \in Packs /\ IsFiniteSet(g.todo)
        /\ IsFiniteSet(g.todo \ {from}) /\ Cardinality(g.todo \ {from}) = Cardinality(g.todo) - 1
        /\ Cardinality(g.todo) \in Nat /\ Cardinality(g.todo) # 0
    <2>0. IsFiniteSet(g.todo)
      BY <1>1, PacksFinite, FS_Subset
    <2>1. IsFiniteSet(g.todo) /\ g.todo \in SUBSET Int
      <3>1. g.todo \in SUBSET Packs /\ Packs \subseteq Int
        BY <1>1 DEF Packs
      <3> QED
        BY <2>0, <3>1
    <2>2. from \in g.todo
      BY <1>1, <2>1, MinExists
    <2>3. Cardinality(g.todo) \in Nat /\ Cardinality(g.todo) # 0
      BY <1>1, <2>1, FS_CardinalityType, FS_EmptySet
    <2> HIDE DEF from
    <2> QED
      BY <1>1, <2>1, <2>2, <2>3, FS_RemoveElement
  <1>4. /\ to \in Unused /\ to \in Packs /\ to # 0 /\ name[to] = "none"
        /\ Cardinality(Unused \ {to}) = Cardinality(Unused) - 1 /\ Cardinality(Unused) \in Nat
    <2>1. Unused # {}
      BY <1>1, <1>3, UnusedFacts, FS_EmptySet
    <2>2. to \in Unused
      BY <2>1, UnusedFacts
    <2>3. to \in Packs /\ name[to] = "none"
      BY <2>2 DEF Unused
    <2> HIDE DEF to
    <2> QED
      BY <2>2, <2>3, PacksFinite, UnusedFacts, FS_RemoveElement
  <1> HIDE DEF from, to
  <1>5. /\ keys \in SUBSET DOMAIN g.entries
        /\ \A k \in keys : g.entries[k].pack = from
        /\ \A k \in DOMAIN g.entries \ keys : g.entries[k].pack # from
    OBVIOUS
  <1> HIDE DEF keys
  <1>6. /\ copies \in Seq(Frames) /\ Len(copies) = Cardinality(keys)
        /\ DOMAIN copies = 1 .. Cardinality(keys)
        /\ \A k \in keys : copies[Rank(keys, k)] = data[from][g.entries[k].at]
        /\ \A n \in DOMAIN copies : keys # {} /\ \E m \in DOMAIN data[from] : copies[n] = data[from][m]
    BY <1>1, <1>2, <1>3, <1>5, CopiesFacts
  <1> HIDE DEF copies
  <1>7. /\ Cardinality(keys) \in 0 .. Cardinality(Keys) /\ Cardinality(Keys) \in Nat
        /\ \A k \in keys : Rank(keys, k) \in 1 .. Cardinality(keys)
    BY <1>1, <1>5, TableFacts, RankFacts, FS_CardinalityType, Sizes
  <1>8. /\ moved \in Tables /\ DOMAIN moved = keys
        /\ \A k \in keys : moved[k].pack = to /\ moved[k].at = Rank(keys, k)
                           /\ moved[k].used = g.entries[k].used
    <2>1. \A k \in keys : [pack |-> to, at |-> Place(keys, k), used |-> g.entries[k].used] \in Locations
      <3> TAKE k \in keys
      <3>1. g.entries[k].used \in 1 .. MaxClock
        BY <1>1, <1>5, TableFacts, LocationFacts
      <3>2. Rank(keys, k) \in Places
        BY <1>7 DEF Places
      <3> QED
        BY <1>4, <3>1, <3>2 DEF Locations, Place
    <2>2. keys \in SUBSET Keys
      BY <1>1, <1>5, TableFacts
    <2>3. moved \in [keys -> Locations]
      BY <2>1
    <2> QED
      BY <2>2, <2>3 DEF Tables, Place
  <1> HIDE DEF moved
  <1>9. /\ rows \in Tables /\ DOMAIN rows = DOMAIN g.entries
        /\ \A k \in keys : rows[k].pack = to /\ rows[k].at = Rank(keys, k)
                           /\ rows[k].used = g.entries[k].used
        /\ \A k \in DOMAIN rows : k \notin keys => rows[k] = g.entries[k]
    <2>1. /\ Extended(g.entries, moved) \in Tables
          /\ DOMAIN Extended(g.entries, moved) = DOMAIN g.entries \union DOMAIN moved
          /\ \A k \in DOMAIN moved : Extended(g.entries, moved)[k] = moved[k]
          /\ \A k \in DOMAIN g.entries \ DOMAIN moved : Extended(g.entries, moved)[k] = g.entries[k]
      BY <1>1, <1>8, ExtendedTable, Zenon
    <2> QED
      BY <1>5, <1>8, <2>1
  <1> HIDE DEF rows
  <1>10. /\ j \in Jobs /\ j.pc = "finish" /\ j.entries = rows /\ j.lease = to /\ j.batch = <<>>
         /\ j.todo = g.todo \ {from}
    BY <1>1, <1>4, <1>9 DEF Jobs
  <1> HIDE DEF j
  <1>11. job'[p] = j /\ \A q \in Procs \ {p} : job'[q] = job[q]
    BY <1>1, <1>2, <1>10, JobUpdate
  <1>12. /\ \A l \in Packs : l # to => name'[l] = name[l] /\ data'[l] = data[l] /\ leased'[l] = leased[l]
         /\ name'[to] = "pending" /\ data'[to] = copies /\ leased'[to] = p
    BY <1>1, <1>2, <1>4 DEF TypeOK
  <1>13. Loaded' = Loaded /\ Unused' = Unused \ {to}
    BY <1>2, <1>4, <1>12 DEF Loaded, Unused
  <1>14. /\ \A q \in Procs : job[q].lease # to
         /\ \A k \in DOMAIN Loaded : Loaded[k].pack # to
         /\ \A q \in Procs : \A k \in DOMAIN job[q].entries : job[q].entries[k].pack # to
         /\ \A l \in Packs : \A n \in DOMAIN data[l] : data[l][n].pack # to
    <2>1. \A q \in Procs : job[q].lease # to
      BY <1>4 DEF StoreInv, LeasesInv
    <2>2. \A k \in DOMAIN Loaded : Loaded[k].pack # to
      BY <1>4 DEF StoreInv, MadeInv
    <2>3. \A q \in Procs : \A k \in DOMAIN job[q].entries : job[q].entries[k].pack # to
      BY <1>4 DEF StoreInv, MadeInv
    <2>4. \A l \in Packs : \A n \in DOMAIN data[l] : data[l][n].pack # to
      BY <1>4 DEF StoreInv, MadeInv
    <2> QED
      BY <2>1, <2>2, <2>3, <2>4
  <1>15. TypeOK'
    <2>1. /\ name' \in [Packs -> {"none", "pending", "pack", "gone"}] /\ data' \in [Packs -> Seq(Frames)]
          /\ leased' \in [Packs -> Procs \union {Nobody}]
      BY <1>1, <1>2, <1>6 DEF TypeOK
    <2>2. job' \in [Procs -> Jobs]
      BY <1>1, <1>2, <1>10, JobUpdate
    <2> QED
      BY <1>1, <1>2, <2>1, <2>2 DEF TypeOK
  <1>16. JobsInv'
    <2>1. Cardinality(g.todo \ {from}) <= Cardinality(Unused \ {to})
      BY <1>1, <1>3, <1>4
    <2> SUFFICES ASSUME NEW q \in Procs
                 PROVE  /\ job'[q].pc = "idle" => job'[q] = Idle
                        /\ job'[q].pc = "write" => job'[q].batch # <<>>
                        /\ job'[q].batch # <<>> => job'[q].lease # 0 /\ job'[q].at # 0 /\ job'[q].todo = {}
                        /\ job'[q].pc \in {"write", "finish", "drop", "remove"} => job'[q].lease # 0
                        /\ job'[q].pc \in {"compact", "prune"} => job'[q].batch = <<>> /\ job'[q].lease = 0
                        /\ (lock' = q) <=> Locks(job'[q])
                        /\ lock' = q => Cardinality(job'[q].todo) <= Cardinality(Unused \ {to})
      BY <1>13, Zenon DEF JobsInv, At, Publishing, Locks
    <2>2. CASE q = p
      <3>1. job'[q] = j /\ lock' = q /\ Locks(j)
        BY <1>1, <1>2, <1>10, <1>11, <2>2 DEF Locks
      <3> QED
        BY <1>4, <1>10, <2>1, <3>1
    <2>3. CASE q # p
      <3>1. job'[q] = job[q] /\ lock' # q /\ lock # q
        BY <1>1, <1>2, <1>11, <2>3
      <3> QED
        BY <3>1 DEF StoreInv, JobsInv, At, Publishing, Locks
    <2> QED
      BY <2>2, <2>3
  <1>17. LeasesInv'
    <2>1. LeaseAt(p, job', name', leased', Loaded')
      BY <1>10, <1>11, <1>12, <1>13, <1>14 DEF LeaseAt
    <2>2. ASSUME NEW q \in Procs \ {p}, job'[q].lease # 0
          PROVE  LeaseAt(q, job', name', leased', Loaded')
      <3>1. LeaseAt(q, job, name, leased, Loaded) /\ job[q].lease \in Packs /\ job[q].lease # to
        BY <1>1, <1>11, <1>14, <2>2, LeasesIs, JobFields DEF StoreInv
      <3>2. Unindexed(q) => \A k \in DOMAIN rows : rows[k].pack # job[q].lease
        BY <1>9, <3>1 DEF LeaseAt, Unindexed
      <3>3. /\ name'[job[q].lease] = name[job[q].lease]
            /\ leased'[job[q].lease] = leased[job[q].lease]
            /\ \A r \in Procs \ {q} : job'[r].lease # job[q].lease
        BY <1>10, <1>11, <1>12, <3>1 DEF LeaseAt
      <3> QED
        BY <1>10, <1>11, <1>13, <3>1, <3>2, <3>3 DEF LeaseAt, Unindexed
    <2>3. ASSUME NEW l \in Packs PROVE LockedFor(l, job', leased')
      <3>1. LockedFor(l, job, leased) /\ leased[l] \in Procs \union {Nobody}
        BY <1>1, LeasesIs DEF StoreInv, TypeOK
      <3> QED
        BY <1>1, <1>10, <1>11, <1>12, <3>1 DEF LockedFor
    <2> QED
      BY <2>1, <2>2, <2>3, LeasesNext
  <1>18. MadeInv'
    <2>1. \A l \in Packs : name[l] # "none" => name'[l] # "none"
      BY <1>12
    <2>2. \A k \in DOMAIN rows : name'[rows[k].pack] # "none"
      <3> TAKE k \in DOMAIN rows
      <3>1. CASE k \in keys
        BY <1>9, <1>12, <3>1
      <3>2. CASE k \notin keys
        <4>1. rows[k] = g.entries[k] /\ name[g.entries[k].pack] # "none" /\ g.entries[k].pack \in Packs
          BY <1>1, <1>9, <3>2, Located DEF StoreInv, MadeInv
        <4> QED
          BY <2>1, <4>1
      <3> QED
        BY <3>1, <3>2
    <2>3. \A q \in Procs : \A k \in DOMAIN job'[q].entries : name'[job'[q].entries[k].pack] # "none"
      BY <1>1, <1>10, <1>11, <2>1, <2>2, Located DEF StoreInv, MadeInv
    <2>4. \A l \in Packs : \A n \in DOMAIN data[l] : name'[data[l][n].pack] # "none"
      BY <1>1, <2>1, Located DEF StoreInv, MadeInv
    <2>5. \A l \in Packs : \A n \in DOMAIN data'[l] : name'[data'[l][n].pack] # "none"
      BY <1>3, <1>6, <1>12, <2>4
    <2> QED
      BY <1>1, <1>13, <2>1, <2>3, <2>5, Located DEF StoreInv, MadeInv
  <1>19. BatchesInv'
    <2> SUFFICES ASSUME NEW q \in Procs, WritesBatch(job'[q]) PROVE BatchAt(job'[q], data')
      BY BatchesNext
    <2>1. q # p /\ job'[q] = job[q]
      BY <1>10, <1>11 DEF WritesBatch
    <2>2. BatchAt(job[q], data) /\ job[q].lease # 0 /\ job[q].lease \in Packs /\ job[q].lease # to
      BY <1>1, <1>14, <2>1, BatchesIs, JobFields DEF StoreInv, JobsInv, Publishing, WritesBatch
    <2>3. keys # {} => from # job[q].lease
      <3>1. \A k \in DOMAIN g.entries : g.entries[k].pack # job[q].lease
        BY <2>1, <2>2 DEF StoreInv, LeasesInv, Unindexed, WritesBatch
      <3> QED
        BY <1>5, <3>1
    <2>4. \A n \in DOMAIN data'[to] : data'[to][n].pack # job[q].lease
      BY <1>3, <1>6, <1>12, <2>2, <2>3 DEF BatchAt
    <2> QED
      BY <1>12, <2>1, <2>2, <2>4 DEF BatchAt
  <1>20. IndexInv'
    <2>1. \A k \in DOMAIN Loaded \intersect DOMAIN rows : Loaded[k].used <= rows[k].used
      <3> TAKE k \in DOMAIN Loaded \intersect DOMAIN rows
      <3>1. rows[k].used = g.entries[k].used /\ k \in DOMAIN g.entries
        BY <1>9
      <3>2. k \notin Range(g.batch)
        BY <1>1, EmptyTable DEF Range
      <3> QED
        BY <1>1, <3>1, <3>2 DEF StoreInv, IndexInv
    <2>2. \A q \in Procs : lock' = q => q = p
      BY <1>1, <1>2
    <2> QED
      BY <1>10, <1>11, <1>13, <2>1, <2>2 DEF IndexInv, At
  <1>21. WholeInv'
    <2> SUFFICES ASSUME damage = 0 PROVE WholeInv'
      BY <1>2, WholeNext
    <2>1. IndexWhole(data', name', Loaded')
      BY <1>1, <1>12, <1>13, <1>14, WholeIs, Located DEF StoreInv, IndexWhole, Leads
    <2>2. JobWhole(data, name, g)
      BY <1>1, WholeIs DEF StoreInv
    <2>3. ASSUME NEW k \in DOMAIN rows
          PROVE  Leads(data', rows[k], k) /\ (rows[k].pack # to => name'[rows[k].pack] = "pack")
      <3>1. CASE k \in keys
        <4>1. rows[k].pack = to /\ rows[k].at = Rank(keys, k) /\ g.entries[k].pack = from /\ k \in DOMAIN g.entries
          BY <1>5, <1>9, <3>1
        <4>2. copies[Rank(keys, k)].key = k
          BY <1>6, <2>2, <3>1, <4>1 DEF JobWhole, Leads
        <4>3. Rank(keys, k) <= Len(copies)
          BY <1>6, <1>7, <3>1
        <4> QED
          BY <1>12, <4>1, <4>2, <4>3 DEF Leads
      <3>2. CASE k \notin keys
        <4>1. rows[k] = g.entries[k] /\ k \in DOMAIN g.entries /\ g.entries[k].pack \in Packs
              /\ g.entries[k].pack # to /\ g.entries[k].pack # 0
          BY <1>1, <1>9, <1>14, <3>2, Located, PacksFinite
        <4>2. Leads(data, g.entries[k], k) /\ name[g.entries[k].pack] = "pack"
          BY <1>1, <2>2, <4>1 DEF JobWhole
        <4> QED
          BY <1>12, <4>1, <4>2 DEF Leads
      <3> QED
        BY <3>1, <3>2
    <2>4. JobWhole(data', name', j)
      BY <1>10, <2>3 DEF JobWhole
    <2> QED
      BY <1>1, <1>2, <1>11, <2>1, <2>4, WholeNext
  <1> QED
    BY <1>15, <1>16, <1>17, <1>18, <1>19, <1>20, <1>21 DEF StoreInv

\* Pruning removes a file only when no row names it and its lock is free: it is
\* not a pack that another process makes.
LEMMA PruneRemoveKeeps ==
  ASSUME StoreInv, NEW p \in Procs, NEW i \in Packs, PruneRemove(p, i)
  PROVE  StoreInv'
  <1> DEFINE g == job[p]
             j == [g EXCEPT !.list = g.list \ {i}, !.did = TRUE]
  <1>1. /\ TypeOK /\ g \in Jobs /\ g.pc = "prune" /\ g.batch = <<>> /\ g.lease = 0 /\ lock = p
        /\ index = g.entries
    <2>1. g.pc = "prune"
      BY DEF PruneRemove, At
    <2>2. lock = p /\ g.batch = <<>> /\ g.lease = 0
      BY <2>1 DEF StoreInv, JobsInv, Publishing
    <2>3. index = g.entries
      BY <2>1, <2>2 DEF StoreInv, IndexInv
    <2> QED
      BY <2>1, <2>2, <2>3, JobFields DEF StoreInv
  <1>2. /\ name[i] \in {"pending", "pack"} /\ leased[i] = Nobody
        /\ name[i] = "pack" => \A k \in DOMAIN g.entries : g.entries[k].pack # i
    BY DEF PruneRemove, Files, Live, Locked
  <1>3. /\ j \in Jobs /\ j.pc = "prune" /\ j.lease = 0 /\ j.entries = g.entries /\ j.batch = <<>>
        /\ j.todo = g.todo /\ j.at = g.at /\ j.dirty = g.dirty
    BY <1>1 DEF Jobs
  <1>4. /\ Becomes(p, j) /\ name' = [name EXCEPT ![i] = "gone"]
        /\ UNCHANGED <<clock, lock, index, temps, data, leased, snapshot, files, touched, writeFailed, damage>>
    BY DEF PruneRemove, reads
  <1> HIDE DEF j
  <1>5. job'[p] = j /\ \A q \in Procs \ {p} : job'[q] = job[q]
    BY <1>1, <1>3, <1>4, JobUpdate
  <1>6. (\A l \in Packs : l # i => name'[l] = name[l]) /\ name'[i] = "gone"
    BY <1>1, <1>4 DEF TypeOK
  <1>7. Loaded' = Loaded /\ Unused' = Unused
    BY <1>2, <1>4, <1>6 DEF Loaded, Unused
  <1>8. TypeOK'
    <2>1. job' \in [Procs -> Jobs]
      BY <1>1, <1>3, <1>4, JobUpdate
    <2> QED
      BY <1>1, <1>4, <2>1 DEF TypeOK
  <1>9. JobsInv'
    <2> SUFFICES ASSUME NEW q \in Procs
                 PROVE  /\ job'[q].pc = "idle" => job'[q] = Idle
                        /\ job'[q].pc = "write" => job'[q].batch # <<>>
                        /\ job'[q].batch # <<>> => job'[q].lease # 0 /\ job'[q].at # 0 /\ job'[q].todo = {}
                        /\ job'[q].pc \in {"write", "finish", "drop", "remove"} => job'[q].lease # 0
                        /\ job'[q].pc \in {"compact", "prune"} => job'[q].batch = <<>> /\ job'[q].lease = 0
                        /\ (lock' = q) <=> Locks(job'[q])
                        /\ lock' = q => Cardinality(job'[q].todo) <= Cardinality(Unused)
      BY <1>7, Zenon DEF JobsInv, At, Publishing, Locks
    <2>1. CASE q = p
      BY <1>1, <1>3, <1>4, <1>5, <2>1 DEF StoreInv, JobsInv, Locks
    <2>2. CASE q # p
      BY <1>4, <1>5, <2>2 DEF StoreInv, JobsInv, At, Publishing, Locks
    <2> QED
      BY <2>1, <2>2
  <1>10. LeasesInv'
    <2>1. ASSUME NEW q \in Procs, job'[q].lease # 0
          PROVE  LeaseAt(q, job', name', leased', Loaded')
      <3>1. q # p /\ job'[q] = job[q]
        BY <1>3, <1>5, <2>1
      <3>2. LeaseAt(q, job, name, leased, Loaded) /\ job[q].lease \in Packs
        BY <1>1, <2>1, <3>1, LeasesIs, JobFields DEF StoreInv
      <3>3. job[q].lease = i => job[q].pc \notin {"write", "finish", "save", "rename"}
        <4>1. job[q].pc \in {"write", "finish"} => leased[job[q].lease] = q
          BY <3>2 DEF LeaseAt
        <4>2. job[q].pc \notin {"save", "rename"}
          BY <1>1, <3>1 DEF StoreInv, JobsInv
        <4> QED
          BY <1>2, <4>1, <4>2, Sizes
      <3>4. \A r \in Procs : job'[r].lease = job[r].lease /\ job'[r].entries = job[r].entries
        BY <1>1, <1>3, <1>5
      <3> QED
        BY <1>4, <1>6, <1>7, <3>1, <3>2, <3>3, <3>4 DEF LeaseAt
    <2>2. ASSUME NEW l \in Packs PROVE LockedFor(l, job', leased')
      <3>1. LockedFor(l, job, leased) /\ leased[l] \in Procs \union {Nobody}
        BY <1>1, LeasesIs DEF StoreInv, TypeOK
      <3> QED
        BY <1>1, <1>4, <1>5, <3>1 DEF LockedFor
    <2> QED
      BY <2>1, <2>2, LeasesNext
  <1>11. MadeInv'
    <2>1. \A l \in Packs : name[l] # "none" => name'[l] # "none"
      BY <1>6
    <2> QED
      BY <1>1, <1>3, <1>4, <1>5, <1>7, <2>1, Located DEF StoreInv, MadeInv
  <1>12. BatchesInv'
    BY <1>3, <1>4, <1>5, BatchesIs, BatchesNext DEF StoreInv, WritesBatch
  <1>13. IndexInv'
    BY <1>1, <1>3, <1>4, <1>5, <1>7 DEF StoreInv, IndexInv, At
  <1>14. WholeInv'
    <2> SUFFICES ASSUME damage = 0 PROVE WholeInv'
      BY <1>4, WholeNext
    <2>1. IndexWhole(data, name, Loaded) /\ JobWhole(data, name, g)
      BY <1>1, WholeIs DEF StoreInv
    <2>2. \A k \in DOMAIN g.entries :
            g.entries[k].pack # i /\ g.entries[k].pack \in Packs /\ g.entries[k].pack # 0
      <3>1. \A k \in DOMAIN g.entries : g.entries[k].pack \in Packs /\ g.entries[k].pack # 0
        BY <1>1, Located, PacksFinite
      <3> QED
        BY <1>1, <1>2, <2>1, <3>1 DEF JobWhole
    <2>3. \A k \in DOMAIN Loaded : k \in DOMAIN g.entries /\ Loaded[k] = g.entries[k]
      BY <1>1, EmptyTable DEF Loaded
    <2>4. IndexWhole(data', name', Loaded')
      BY <1>4, <1>6, <1>7, <2>1, <2>2, <2>3 DEF IndexWhole
    <2>5. JobWhole(data', name', j)
      BY <1>1, <1>3, <1>4, <1>6, <2>1, <2>2 DEF JobWhole
    <2> QED
      BY <1>1, <1>4, <1>5, <2>4, <2>5, WholeNext
  <1> QED
    BY <1>8, <1>9, <1>10, <1>11, <1>12, <1>13, <1>14 DEF StoreInv
-----------------------------------------------------------------------------
(***************************************************************************)
(* The world outside, and every step.                                      *)
(***************************************************************************)

\* Damage takes from packs that the index names, which nobody is making.
LEMMA DamageKeeps ==
  ASSUME StoreInv, Damage
  PROVE  StoreInv'
  <1>1. /\ TypeOK /\ damage' \in 0 .. MaxFaults /\ damage' # 0
        /\ UNCHANGED <<clock, lock, temps, leased, snapshot, files, touched, writeFailed, job>>
    <2>1. /\ damage + Cardinality(writeFailed) < MaxFaults /\ damage' = damage + 1
          /\ UNCHANGED <<clock, lock, temps, leased, snapshot, files, touched, writeFailed, job>>
      BY DEF Damage, reads
    <2>2. TypeOK /\ damage \in 0 .. MaxFaults /\ MaxFaults \in Nat
      BY Sizes DEF StoreInv, TypeOK
    <2>3. Cardinality(writeFailed) \in Nat
      BY <2>2, Sizes, FS_Subset, FS_CardinalityType DEF TypeOK
    <2> QED
      BY <2>1, <2>2, <2>3
  <1>2. WholeInv'
    BY <1>1 DEF WholeInv
  <1>3. ASSUME NEW i \in LivePacks, data[i] # <<>>, data' = [data EXCEPT ![i] = Front(data[i])],
               UNCHANGED <<index, name>>
        PROVE  StoreInv'
    <2>1. /\ i \in Packs /\ data[i] \in Seq(Frames) /\ Front(data[i]) \in Seq(Frames)
          /\ \A n \in DOMAIN Front(data[i]) : n \in DOMAIN data[i] /\ Front(data[i])[n] = data[i][n]
      <3>1. i \in Packs /\ data[i] \in Seq(Frames)
        BY <1>1 DEF LivePacks, TypeOK
      <3> QED
        BY <1>3, <3>1 DEF Front
    <2>2. data'[i] = Front(data[i]) /\ \A l \in Packs : l # i => data'[l] = data[l]
      BY <1>1, <1>3, <2>1 DEF TypeOK
    <2>3. \A l \in Packs : \A n \in DOMAIN data'[l] : n \in DOMAIN data[l] /\ data'[l][n] = data[l][n]
      BY <2>1, <2>2
    <2>4. Loaded' = Loaded /\ Unused' = Unused
      BY <1>3 DEF Loaded, Unused
    <2>5. TypeOK'
      BY <1>1, <1>3, <2>1 DEF TypeOK
    <2>6. JobsInv' /\ LeasesInv'
      BY <1>1, <1>3, <2>4, LeasesIs, LeasesNext DEF StoreInv, JobsInv, At, Publishing
    <2>7. MadeInv'
      BY <1>1, <1>3, <2>3, <2>4 DEF StoreInv, MadeInv
    <2>8. BatchesInv'
      <3> SUFFICES ASSUME NEW q \in Procs, WritesBatch(job[q]) PROVE BatchAt(job[q], data')
        BY <1>1, BatchesNext
      <3>1. BatchAt(job[q], data) /\ job[q].lease # 0 /\ job[q].lease \in Packs
        BY <1>1, BatchesIs, JobFields DEF StoreInv, JobsInv, Publishing, WritesBatch
      <3>2. job[q].lease # i
        BY <3>1 DEF LivePacks, StoreInv, LeasesInv, Unindexed, WritesBatch
      <3> QED
        BY <2>2, <2>3, <3>1, <3>2 DEF BatchAt
    <2>9. IndexInv'
      BY <1>1, <1>3, <2>4 DEF StoreInv, IndexInv, At
    <2> QED
      BY <1>2, <2>5, <2>6, <2>7, <2>8, <2>9 DEF StoreInv
  <1>4. ASSUME NEW i \in LivePacks, name' = [name EXCEPT ![i] = "gone"], UNCHANGED <<index, data>>
        PROVE  StoreInv'
    <2>1. i \in Packs /\ name[i] = "pack" /\ \E k \in DOMAIN Loaded : Loaded[k].pack = i
      BY DEF LivePacks
    <2>2. name'[i] = "gone" /\ \A l \in Packs : l # i => name'[l] = name[l]
      BY <1>1, <1>4, <2>1 DEF TypeOK
    <2>3. \A l \in Packs : name[l] # "none" => name'[l] # "none"
      BY <2>2
    <2>4. Loaded' = Loaded /\ Unused' = Unused
      BY <1>4, <2>1, <2>2 DEF Loaded, Unused
    <2>5. TypeOK'
      BY <1>1, <1>4 DEF TypeOK
    <2>6. JobsInv'
      BY <1>1, <1>4, <2>4 DEF StoreInv, JobsInv, At, Publishing
    <2>7. LeasesInv'
      <3>1. ASSUME NEW q \in Procs, job[q].lease # 0
            PROVE  LeaseAt(q, job, name', leased, Loaded)
        <4>1. LeaseAt(q, job, name, leased, Loaded) /\ job[q].lease \in Packs
          BY <1>1, <3>1, LeasesIs, JobFields DEF StoreInv
        <4>2. job[q].lease = i => job[q].pc \notin {"write", "finish", "save", "rename"}
          BY <2>1, <4>1 DEF LeaseAt
        <4> QED
          BY <2>2, <4>1, <4>2 DEF LeaseAt
      <3> QED
        BY <1>1, <2>4, <3>1, LeasesIs, LeasesNext DEF StoreInv
    <2>8. MadeInv'
      BY <1>1, <1>4, <2>3, <2>4, Located DEF StoreInv, MadeInv
    <2>9. BatchesInv'
      BY <1>1, <1>4, BatchesIs, BatchesNext DEF StoreInv
    <2>10. IndexInv'
      BY <1>1, <1>4, <2>4 DEF StoreInv, IndexInv, At
    <2> QED
      BY <1>2, <2>5, <2>6, <2>7, <2>8, <2>9, <2>10 DEF StoreInv
  <1>5. ASSUME index' = Corrupt, lock = Nobody, UNCHANGED <<name, data>>
        PROVE  StoreInv'
    <2>1. DOMAIN Loaded' = {} /\ Unused' = Unused /\ \A q \in Procs : lock' # q
      BY <1>1, <1>5, EmptyTable, Sizes DEF Loaded, Unused
    <2>2. TypeOK'
      BY <1>1, <1>5 DEF TypeOK
    <2>3. JobsInv'
      BY <1>1, <1>5, <2>1 DEF StoreInv, JobsInv, At, Publishing
    <2>4. LeasesInv'
      BY <1>1, <1>5, <2>1, LeasesIs, LeasesNext DEF StoreInv, LeaseAt
    <2>5. MadeInv'
      BY <1>1, <1>5, <2>1 DEF StoreInv, MadeInv
    <2>6. BatchesInv'
      BY <1>1, <1>5, BatchesIs, BatchesNext DEF StoreInv
    <2>7. IndexInv'
      BY <2>1 DEF IndexInv
    <2> QED
      BY <1>2, <2>2, <2>3, <2>4, <2>5, <2>6, <2>7 DEF StoreInv
  <1> QED
    BY <1>3, <1>4, <1>5 DEF Damage

\* Every step of every process keeps the invariant.
LEMMA StepKeeps ==
  ASSUME StoreInv, [Next]_vars
  PROVE  StoreInv'
  <1>1. ASSUME UNCHANGED vars PROVE StoreInv'
    <2>1. UNCHANGED <<clock, lock, index, temps, name, data, leased, snapshot, files, touched,
                      writeFailed, job, damage>>
      BY <1>1 DEF vars, disk, reads
    <2>2. TypeOK'
      BY <2>1 DEF StoreInv, TypeOK
    <2> QED
      BY <2>1, <2>2, SameStore DEF StoreInv
  <1>2. ASSUME NEW p \in Procs, NEW b \in Batches, PublishLease(p, b) PROVE StoreInv'
    BY <1>2, PublishLeaseKeeps
  <1>3. ASSUME NEW p \in Procs, NEW bounded \in BOOLEAN, Maintain(p, bounded) PROVE StoreInv'
    BY <1>3, CollectsKeeps DEF Maintain
  <1>4. ASSUME NEW p \in Procs, Save(p) PROVE StoreInv'
    BY <1>4, SaveTempKeeps, SaveKeeps DEF Save
  <1>5. ASSUME NEW p \in Procs, Prune(p) PROVE StoreInv'
    BY <1>5, PruneWalks, PruneRemoveKeeps, EndsKeep DEF Prune
  <1>6. ASSUME NEW p \in Procs, Work(p) PROVE StoreInv'
    BY <1>4, <1>5, <1>6, PublishWriteKeeps, PublishMergeKeeps, FinishKeeps, EndsKeep, DropUnlockKeeps,
       CompactKeeps, EndCompactKeeps DEF Work
  <1> QED
    BY <1>1, <1>2, <1>3, <1>6, ReadKeeps, FailKeeps, EndsKeep, DamageKeeps, TickKeeps DEF Next
-----------------------------------------------------------------------------
(***************************************************************************)
(* The theorems.                                                           *)
(***************************************************************************)

\* The cache keeps its invariant through publishes, collections, compactions,
\* crashes, failures and damage, whatever processes share it.
THEOREM KeepsStoreInv == Spec => []StoreInv
  <1>1. Init => StoreInv
    BY InitInv
  <1>2. StoreInv /\ [Next]_vars => StoreInv'
    BY StepKeeps
  <1> QED
    BY <1>1, <1>2, PTL DEF Spec

\* DESIGN 5.4: an indexed pack is complete and unlocked.
LEMMA InvComplete == StoreInv => IndexedIsComplete
  <1> SUFFICES ASSUME StoreInv, damage = 0, NEW k \in DOMAIN Loaded
               PROVE  /\ name[Loaded[k].pack] = "pack" /\ leased[Loaded[k].pack] = Nobody
                      /\ InRange(Loaded[k]) /\ data[Loaded[k].pack][Loaded[k].at].key = k
    BY DEF IndexedIsComplete
  <1> DEFINE i == Loaded[k].pack
  <1>1. TypeOK /\ i \in Packs
    BY Located DEF StoreInv
  <1>2. name[i] = "pack" /\ InRange(Loaded[k]) /\ data[i][Loaded[k].at].key = k
    BY DEF StoreInv, WholeInv, LeadsTo
  <1>3. leased[i] = Nobody
    <2> SUFFICES ASSUME leased[i] # Nobody PROVE FALSE
      OBVIOUS
    <2> DEFINE q == leased[i]
    <2>0. i # 0
      BY <1>1, PacksFinite
    <2>1. q \in Procs /\ job[q].lease = i /\ job[q].pc \in {"write", "finish", "drop"} /\ i # 0
      BY <1>1, <2>0, LeasesIs DEF TypeOK, StoreInv, LockedFor
    <2> QED
      BY <2>1 DEF StoreInv, LeasesInv, Unindexed
  <1> QED
    BY <1>2, <1>3

\* DESIGN 5.4: every indexed pack is complete and unlocked before a reader can
\* observe it, as long as nothing outside damaged the cache.
THEOREM KeepsIndexedIsComplete == Spec => []IndexedIsComplete
  BY KeepsStoreInv, InvComplete, PTL

LEMMA InvLease == StoreInv => LiveLeaseStays
  <1> SUFFICES ASSUME StoreInv, NEW p \in Procs
               PROVE  /\ At(p, "write") => name[job[p].lease] = "pending" /\ leased[job[p].lease] = p
                      /\ job[p].pc \in {"save", "rename"} /\ job[p].lease # 0 => name[job[p].lease] = "pack"
    BY DEF LiveLeaseStays
  <1> QED
    BY DEF StoreInv, JobsInv, LeasesInv, At, Publishing

\* DESIGN 5.4: a live lease is retained, also when collectors run and files are
\* lost.
THEOREM KeepsLiveLeaseStays == Spec => []LiveLeaseStays
  BY KeepsStoreInv, InvLease, PTL

\* Only a save changes the rows of the index, and damage that loses them all.
LEMMA IndexSteps ==
  ASSUME [Next]_vars
  PROVE  \/ index' = index
         \/ \E p \in Procs : SaveEmpty(p) \/ SaveRename(p)
         \/ Damage /\ index' = Corrupt /\ lock = Nobody
  <1>1. CASE UNCHANGED vars
    BY <1>1 DEF vars, disk
  <1>2. ASSUME NEW p \in Procs, Work(p), ~ Save(p) PROVE index' = index
    <2>1. ASSUME Prune(p) PROVE index' = index
      BY <2>1 DEF Prune, PruneSkip, PruneRemove, PruneVanished, PruneTemps, EndPrune, disk
    <2> QED
      BY <1>2, <2>1 DEF Work, PublishWrite, PublishMerge, Finish, Replace, DropUnlock, DropRemove,
                        Compact, EndCompact, disk
  <1>3. ASSUME NEW p \in Procs, Save(p), ~ SaveEmpty(p), ~ SaveRename(p) PROVE index' = index
    BY <1>3 DEF Save, SaveTemp
  <1>4. ASSUME NEW p \in Procs,
               \/ Read(p) \/ (\E b \in Batches : PublishLease(p, b))
               \/ (\E bounded \in BOOLEAN : Maintain(p, bounded))
               \/ Fail(p) \/ Crash(p)
        PROVE  index' = index
    BY <1>4 DEF Read, Get, Touch, PublishLease, Maintain, Collects, Fail, Crash, disk
  <1>5. Damage \/ Tick => index' = index \/ (Damage /\ index' = Corrupt /\ lock = Nobody)
    BY DEF Damage, Tick, disk
  <1> QED
    BY <1>1, <1>2, <1>3, <1>4, <1>5 DEF Next

\* A save of a batch replaces the rows of its keys by rows of other frames; the
\* other rows have their marks, or later ones, since the merge.
LEMMA StepMarks ==
  ASSUME StoreInv, [Next]_vars, NEW k \in DOMAIN Loaded \intersect DOMAIN Loaded',
         FrameOf(Loaded[k]) # Miss, FrameOf(Loaded[k]) = FrameOf(Loaded[k])'
  PROVE  Loaded[k].used <= Loaded[k].used'
  <1>1. TypeOK /\ Loaded[k] \in Locations /\ Loaded[k].used \in Nat /\ Loaded[k].pack \in Packs
        /\ Loaded[k].at \in DOMAIN data[Loaded[k].pack] /\ FrameOf(Loaded[k]) = data[Loaded[k].pack][Loaded[k].at]
    <2>1. TypeOK /\ Loaded[k] \in Locations /\ Loaded[k].pack \in Packs
      BY Located DEF StoreInv
    <2>2. Loaded[k].used \in Nat /\ Loaded[k].at \in Nat /\ Loaded[k].at >= 1
      BY <2>1, LocationFacts
    <2>3. InRange(Loaded[k])
      BY DEF FrameOf
    <2> QED
      BY <2>1, <2>2, <2>3, Located DEF InRange, FrameOf
  <1>2. ASSUME index' = index PROVE Loaded[k].used <= Loaded[k].used'
    BY <1>1, <1>2 DEF Loaded
  <1>3. index' # Corrupt
    BY EmptyTable DEF Loaded
  <1>4. ASSUME NEW p \in Procs, SaveEmpty(p) PROVE FALSE
    BY <1>4, EmptyTable DEF SaveEmpty, Loaded
  <1>5. ASSUME NEW p \in Procs, SaveRename(p) PROVE Loaded[k].used <= Loaded[k].used'
    <2> DEFINE j == job[p]
    <2>1. /\ j.pc = "rename" /\ lock = p /\ data' = data /\ k \in DOMAIN j.entries
          /\ Loaded'[k] = j.entries[k]
      BY <1>3, <1>5 DEF SaveRename, At, StoreInv, JobsInv, Loaded
    <2>2. k \notin Range(j.batch)
      <3> SUFFICES ASSUME k \in Range(j.batch) PROVE FALSE
        OBVIOUS
      <3>1. j.batch # <<>>
        BY EmptyTable DEF Range
      <3>2. BatchAt(j, data) /\ j.lease # 0 /\ j.lease \in Packs
        BY <1>1, <2>1, <3>1, BatchesIs, JobFields DEF StoreInv, WritesBatch, JobsInv, Publishing
      <3>3. j.entries[k].pack = j.lease /\ Loaded[k].pack # j.lease
        BY <2>1, <3>2 DEF BatchAt, StoreInv, LeasesInv, Unindexed
      <3>4. FrameOf(Loaded[k]).pack # j.lease
        BY <1>1, <3>2, <3>3 DEF BatchAt
      <3>5. j.entries[k] \in Locations /\ j.entries[k].at \in Nat /\ j.entries[k].at >= 1
        BY <1>1, <2>1, Located, LocationFacts
      <3>6. j.entries[k].at <= Len(data[j.lease])
        BY <2>1, <3>3 DEF FrameOf, InRange
      <3>7. FrameOf(Loaded[k])' = data[j.lease][j.entries[k].at] /\ j.entries[k].at \in DOMAIN data[j.lease]
        BY <1>1, <2>1, <3>2, <3>3, <3>5, <3>6, Located DEF FrameOf, InRange
      <3>8. data[j.lease][j.entries[k].at].pack = j.lease
        <4> DEFINE n == j.entries[k].at
        <4>1. data[j.lease][n] = [key |-> j.batch[n], pack |-> j.lease, at |-> n]
          BY <3>2, <3>7 DEF BatchAt
        <4> QED
          BY <4>1
      <3>9. FrameOf(Loaded[k]) = data[j.lease][j.entries[k].at]
        BY <3>7, Zenon
      <3> QED
        BY <3>4, <3>8, <3>9
    <2> QED
      BY <2>1, <2>2 DEF StoreInv, IndexInv
  <1> QED
    BY <1>2, <1>3, <1>4, <1>5, IndexSteps

\* A last-use mark never goes back while its entry stays the same frame,
\* through merges of old marks, saves and compactions.
THEOREM KeepsMarksGrow == Spec => MarksGrow
  <1>1. StoreInv /\ [Next]_vars =>
          [\A k \in DOMAIN Loaded \intersect DOMAIN Loaded' :
             FrameOf(Loaded[k]) # Miss /\ FrameOf(Loaded[k]) = FrameOf(Loaded[k])'
               => Loaded[k].used <= Loaded[k].used']_vars
    BY StepMarks
  <1> QED
    BY <1>1, KeepsStoreInv, PTL DEF Spec, MarksGrow

\* A collection that goes on with its pruning passed over a name, or removed
\* the file or the temporary indexes; or another process made a step.
LEMMA PruneSteps ==
  ASSUME StoreInv, [Next]_vars, NEW p \in Procs, At(p, "prune"), (At(p, "prune"))'
  PROVE  \/ job'[p] = job[p]
         \/ \E i \in Packs : PruneSkip(p, i) \/ PruneRemove(p, i)
         \/ PruneTemps(p)
  <1>0. job[p].pc = "prune" /\ job'[p].pc = "prune" /\ TypeOK
    BY DEF At, StoreInv
  <1>1. ASSUME NEW q \in Procs, q # p, NEW j, Becomes(q, j) PROVE job'[p] = job[p]
    BY <1>0, <1>1 DEF Becomes, TypeOK
  <1>2. ASSUME NEW j, Becomes(p, j) PROVE job'[p] = j
    BY <1>0, <1>2 DEF Becomes, TypeOK
  <1>3. Idle.pc # "prune"
    BY DEF Idle
  <1>4. ASSUME NEW q \in Procs, Prune(q) PROVE job'[p] = job[p] \/ (q = p /\ Prune(p))
    <2>1. \E j : Becomes(q, j)
      BY <1>4 DEF Prune, PruneSkip, PruneRemove, PruneVanished, PruneTemps, EndPrune, Go
    <2> QED
      BY <1>1, <1>4, <2>1
  <1>5. ASSUME Prune(p)
        PROVE  PruneTemps(p) \/ \E i \in Packs : PruneSkip(p, i) \/ PruneRemove(p, i)
    <2>1. ASSUME NEW i \in Packs, PruneVanished(p, i) PROVE FALSE
      BY <1>0, <1>2, <1>3, <2>1 DEF PruneVanished
    <2>2. ASSUME EndPrune(p) PROVE FALSE
      <3>1. job'[p] = [job[p] EXCEPT !.pc = "replace"] /\ job[p] \in Jobs
        BY <1>0, <1>2, <2>2 DEF EndPrune, Go, TypeOK
      <3> QED
        BY <1>0, <3>1 DEF Jobs
    <2> QED
      BY <1>5, <2>1, <2>2 DEF Prune
  <1>6. ASSUME NEW q \in Procs, Work(q), ~ Prune(q) PROVE job'[p] = job[p]
    <2>1. job' = job \/ (\E j : Becomes(q, j) /\ job[q].pc # "prune")
      BY <1>6 DEF Work, PublishWrite, PublishMerge, Finish, Save, SaveEmpty, SaveTemp, SaveRename, Saved,
                  Replace, DropUnlock, DropRemove, Compact, EndCompact, Go, At
    <2> QED
      BY <1>0, <1>1, <2>1
  <1>7. ASSUME NEW q \in Procs, Fail(q) \/ Crash(q) PROVE job'[p] = job[p]
    <2>1. Becomes(q, Idle) \/ Becomes(q, [job[q] EXCEPT !.pc = "drop"])
      BY <1>7 DEF Fail, Crash, Go
    <2>2. q # p
      <3> SUFFICES ASSUME q = p PROVE FALSE
        OBVIOUS
      <3>1. job'[p] = Idle \/ job'[p] = [job[p] EXCEPT !.pc = "drop"]
        BY <1>2, <2>1
      <3>2. job[p] \in Jobs
        BY <1>0 DEF TypeOK
      <3> QED
        BY <1>0, <1>3, <3>1, <3>2 DEF Jobs
    <2> QED
      BY <1>1, <2>1, <2>2
  <1>8. ASSUME NEW q \in Procs,
               \/ Read(q) \/ (\E b \in Batches : PublishLease(q, b))
               \/ (\E bounded \in BOOLEAN : Maintain(q, bounded))
        PROVE  job'[p] = job[p]
    <2>1. job' = job \/ (\E j : Becomes(q, j) /\ job[q].pc # "prune")
      BY <1>8 DEF Read, Get, Touch, PublishLease, Maintain, Collects, At
    <2> QED
      BY <1>0, <1>1, <2>1
  <1>9. ASSUME UNCHANGED vars \/ Damage \/ Tick PROVE job'[p] = job[p]
    BY <1>9 DEF vars, Damage, Tick
  <1> QED
    BY <1>4, <1>5, <1>6, <1>7, <1>8, <1>9 DEF Next

\* A name that pruning leaves behind is that of a live pack or of a leased one,
\* or of a file that is gone.
LEMMA StepPasses ==
  ASSUME StoreInv, [Next]_vars, NEW p \in Procs, At(p, "prune"), (At(p, "prune"))',
         NEW i \in job[p].list \ (job'[p].list \union {0})
  PROVE  ~ (Orphan(i))'
  <1>1. /\ TypeOK /\ job[p].pc = "prune" /\ lock = p /\ index = job[p].entries /\ job[p].entries \in Tables
        /\ i \in Packs
    BY JobFields DEF StoreInv, JobsInv, IndexInv, At
  <1>2. Loaded = job[p].entries
    BY <1>1, CorruptIsNoTable DEF Loaded
  <1>3. ~ PruneTemps(p)
    <2> SUFFICES ASSUME PruneTemps(p) PROVE FALSE
      OBVIOUS
    <2>1. job'[p] = [job[p] EXCEPT !.list = job[p].list \ {0}, !.did = job[p].did \/ temps # {}]
          /\ job[p] \in Jobs
      BY <1>1 DEF PruneTemps, Becomes, TypeOK
    <2>2. job'[p].list = job[p].list \ {0}
      BY <2>1 DEF Jobs
    <2> QED
      BY <2>2
  <1>4. ASSUME NEW l \in Packs, PruneSkip(p, l) PROVE ~ (Orphan(i))'
    <2>1. /\ Becomes(p, [job[p] EXCEPT !.list = job[p].list \ {l}]) /\ job[p] \in Jobs
          /\ UNCHANGED <<index, name, leased>>
      BY <1>1, <1>4 DEF PruneSkip, disk, TypeOK
    <2>2. job'[p].list = job[p].list \ {l} /\ \A q \in Procs : job'[q].lease = job[q].lease
      BY <1>1, <2>1 DEF Jobs, Becomes, TypeOK
    <2>3. l = i /\ Loaded' = Loaded
      BY <2>1, <2>2 DEF Loaded
    <2>4. CASE Live(p, i)
      BY <1>2, <2>3, <2>4 DEF Live, Orphan
    <2>5. CASE leased[i] # Nobody
      <3>1. leased[i] \in Procs /\ job[leased[i]].lease = i
        BY <1>1, <2>5, LeasesIs DEF StoreInv, LockedFor, TypeOK
      <3> QED
        BY <2>2, <3>1 DEF Orphan
    <2>6. CASE name[i] = "gone"
      BY <2>1, <2>6 DEF Orphan, Files
    <2> QED
      BY <1>4, <2>3, <2>4, <2>5, <2>6 DEF PruneSkip, Locked
  <1>5. ASSUME NEW l \in Packs, PruneRemove(p, l) PROVE ~ (Orphan(i))'
    <2>1. /\ Becomes(p, [job[p] EXCEPT !.list = job[p].list \ {l}, !.did = TRUE]) /\ job[p] \in Jobs
          /\ name' = [name EXCEPT ![l] = "gone"]
      BY <1>1, <1>5 DEF PruneRemove, TypeOK
    <2>2. job'[p].list = job[p].list \ {l}
      BY <1>1, <2>1 DEF Jobs, Becomes, TypeOK
    <2>3. name'[i] = "gone"
      BY <1>1, <2>1, <2>2 DEF TypeOK
    <2> QED
      BY <2>3 DEF Orphan, Files
  <1> QED
    BY <1>3, <1>4, <1>5, PruneSteps

\* A collection passes over no orphan, whoever publishes, crashes or fails
\* meanwhile.
THEOREM KeepsNoOrphanIsPassedOver == Spec => NoOrphanIsPassedOver
  <1>1. StoreInv /\ [Next]_vars =>
          [\A p \in Procs : At(p, "prune") /\ (At(p, "prune"))' =>
             \A i \in job[p].list \ (job'[p].list \union {0}) : ~ (Orphan(i))']_vars
    BY StepPasses
  <1> QED
    BY <1>1, KeepsStoreInv, PTL DEF Spec, NoOrphanIsPassedOver
-----------------------------------------------------------------------------
(***************************************************************************)
(* What a step does to the packs that somebody may read.                   *)
(***************************************************************************)

\* A reader finds as much in pack i as before, or no more.
Still(i) == (name'[i] = "pack" <=> name[i] = "pack") /\ data'[i] = data[i]

Shrinks(i) == /\ name'[i] = "pack" => name[i] = "pack"
              /\ Len(data'[i]) <= Len(data[i])
              /\ \A n \in 1 .. Len(data'[i]) : data'[i][n] = data[i][n]

\* A compaction has a fresh ID: a collection plans no more than there are.
LEMMA CompactHasFresh ==
  ASSUME StoreInv, NEW p \in Procs, Compact(p)
  PROVE  /\ Unused # {} /\ Min(Unused) \in Packs /\ name[Min(Unused)] = "none"
         /\ Min(job[p].todo) \in Packs
  <1> DEFINE todo == job[p].todo
  <1>1. todo # {} /\ todo \in SUBSET Packs /\ Cardinality(todo) <= Cardinality(Unused)
    BY JobFields DEF StoreInv, JobsInv, Compact, At
  <1>2. IsFiniteSet(todo) /\ Cardinality(todo) \in Nat /\ Cardinality(todo) # 0
    BY <1>1, PacksFinite, FS_Subset, FS_CardinalityType, FS_EmptySet
  <1>3. Cardinality(Unused) # 0
    BY <1>1, <1>2, UnusedFacts
  <1>4. Unused # {}
    BY <1>3, FS_EmptySet
  <1>5. Min(todo) \in todo
    <2>1. todo \in SUBSET Int
      BY <1>1 DEF Packs
    <2> QED
      BY <1>1, <1>2, <2>1, MinExists
  <1> QED
    BY <1>1, <1>4, <1>5, UnusedFacts DEF Unused

\* A lease is a pack that is not settled: the one of a fresh ID, and the one of
\* a process on its way to the index.
LEMMA LeaseSteps ==
  ASSUME StoreInv, NEW p \in Procs, NEW frames, Lease(p, frames), Unused # {}, NEW i \in Packs
  PROVE  /\ name[i] # "none" => name'[i] # "none"
         /\ name[i] # "none" => Still(i)
  <1>1. TypeOK /\ Min(Unused) \in Packs /\ name[Min(Unused)] = "none"
    BY UnusedFacts DEF StoreInv, Unused
  <1> QED
    BY <1>1 DEF Lease, Still, TypeOK

LEMMA OwnSteps ==
  ASSUME StoreInv, NEW p \in Procs, job[p].lease # 0, Unindexed(p), NEW i \in Packs, NEW s, NEW f,
         \/ s \in {"pack", "gone"} /\ name' = [name EXCEPT ![job[p].lease] = s] /\ data' = data
         \/ (name' = name /\ data' = [data EXCEPT ![job[p].lease] = f])
  PROVE  /\ name[i] # "none" => name'[i] # "none"
         /\ Settled(i) => Still(i)
  <1>1. TypeOK
    BY DEF StoreInv
  <1> QED
    BY <1>1 DEF Settled, Still, TypeOK

\* Only damage and pruning take from a settled pack.
LEMMA FileSteps ==
  ASSUME StoreInv, [Next]_vars, NEW i \in Packs
  PROVE  /\ name[i] # "none" => name'[i] # "none"
         /\ Settled(i) => \/ Still(i) \/ Damage
                          \/ \E p \in Procs : PruneRemove(p, i)
  <1> DEFINE Goal == /\ name[i] # "none" => name'[i] # "none"
                     /\ Settled(i) => \/ Still(i) \/ Damage
                                      \/ \E p \in Procs : PruneRemove(p, i)
  <1>0. TypeOK
    BY DEF StoreInv
  <1>1. ASSUME UNCHANGED <<name, data>> PROVE Goal
    BY <1>1 DEF Still
  <1>2. ASSUME NEW p \in Procs, NEW b \in Batches, PublishLease(p, b) PROVE Goal
    <2>1. Lease(p, <<>>) /\ Unused # {}
      BY <1>2 DEF PublishLease
    <2> QED
      BY <2>1, LeaseSteps DEF Settled
  <1>3. ASSUME NEW p \in Procs, Compact(p) PROVE Goal
    <2> DEFINE j == job[p]
               from == Min(j.todo)
               frames == Copies(j.entries, from, {k \in DOMAIN j.entries : j.entries[k].pack = from})
    <2>1. Lease(p, frames)
      BY <1>3 DEF Compact
    <2>2. Unused # {}
      BY <1>3, CompactHasFresh
    <2> HIDE DEF frames
    <2> QED
      BY <2>1, <2>2, LeaseSteps DEF Settled
  <1>4. ASSUME NEW p \in Procs, PublishWrite(p) \/ Finish(p) \/ DropRemove(p) PROVE Goal
    <2>1. job[p].pc \in {"write", "finish", "remove"} /\ Unindexed(p) /\ job[p].lease # 0
      BY <1>4 DEF PublishWrite, Finish, DropRemove, At, Unindexed, StoreInv, JobsInv
    <2>2. \E s, f : \/ s \in {"pack", "gone"} /\ name' = [name EXCEPT ![job[p].lease] = s] /\ data' = data
                    \/ name' = name /\ data' = [data EXCEPT ![job[p].lease] = f]
      BY <1>4 DEF PublishWrite, Finish, DropRemove
    <2> QED
      BY <2>1, <2>2, OwnSteps
  <1>5. ASSUME NEW p \in Procs, NEW l \in Packs, PruneRemove(p, l) PROVE Goal
    <2>1. name' = [name EXCEPT ![l] = "gone"] /\ data' = data
      BY <1>5 DEF PruneRemove
    <2> QED
      BY <1>0, <1>5, <2>1 DEF Still, TypeOK
  <1>6. ASSUME Damage PROVE Goal
    <2>1. name' = name \/ \E l \in Packs : name' = [name EXCEPT ![l] = "gone"]
      BY <1>6 DEF Damage, LivePacks
    <2> QED
      BY <1>0, <1>6, <2>1 DEF TypeOK
  <1>7. ASSUME NEW p \in Procs, Work(p) PROVE Goal
    <2>1. ASSUME Save(p) \/ PublishMerge(p) \/ Replace(p) \/ DropUnlock(p) \/ EndCompact(p)
          PROVE  UNCHANGED <<name, data>>
      BY <2>1 DEF Save, SaveEmpty, SaveTemp, SaveRename, PublishMerge, Replace, DropUnlock, EndCompact, disk
    <2>2. ASSUME Prune(p) PROVE UNCHANGED <<name, data>> \/ \E l \in Packs : PruneRemove(p, l)
      BY <2>2 DEF Prune, PruneSkip, PruneVanished, PruneTemps, EndPrune, disk
    <2> HIDE DEF Goal
    <2> QED
      BY <1>1, <1>3, <1>4, <1>5, <1>7, <2>1, <2>2 DEF Work
  <1>8. ASSUME NEW p \in Procs,
               Read(p) \/ (\E bounded \in BOOLEAN : Maintain(p, bounded)) \/ Fail(p) \/ Crash(p)
        PROVE  UNCHANGED <<name, data>>
    BY <1>8 DEF Read, Get, Touch, Maintain, Collects, Fail, Crash, disk
  <1>9. ASSUME Tick \/ UNCHANGED vars PROVE UNCHANGED <<name, data>>
    BY <1>9 DEF Tick, vars, disk
  <1> HIDE DEF Goal
  <1>10. Goal
    BY <1>1, <1>2, <1>6, <1>7, <1>8, <1>9 DEF Next
  <1> QED
    BY <1>10 DEF Goal

LEMMA SettledShrinks ==
  ASSUME StoreInv, [Next]_vars, NEW i \in Packs, Settled(i)
  PROVE  Shrinks(i)
  <1>0. TypeOK /\ data[i] \in Seq(Frames) /\ Len(data[i]) \in Nat
    BY Located DEF StoreInv, TypeOK
  <1>1. CASE Still(i)
    BY <1>0, <1>1 DEF Still, Shrinks
  <1>2. ASSUME NEW p \in Procs, PruneRemove(p, i) PROVE Shrinks(i)
    BY <1>0, <1>2 DEF PruneRemove, Shrinks, TypeOK
  <1>3. CASE Damage
    <2>1. ASSUME NEW l \in LivePacks, data[l] # <<>>, data' = [data EXCEPT ![l] = Front(data[l])],
                 name' = name
          PROVE  Shrinks(i)
      <3>1. l \in Packs /\ data[l] \in Seq(Frames)
        BY <1>0 DEF LivePacks, TypeOK
      <3>2. /\ Len(Front(data[l])) <= Len(data[l])
            /\ \A n \in 1 .. Len(Front(data[l])) : Front(data[l])[n] = data[l][n]
        BY <2>1, <3>1 DEF Front
      <3>3. data'[i] = data[i] \/ (i = l /\ data'[i] = Front(data[l]))
        BY <1>0, <2>1, <3>1 DEF TypeOK
      <3> QED
        BY <1>0, <2>1, <3>2, <3>3 DEF Shrinks
    <2>2. ASSUME NEW l \in LivePacks, name' = [name EXCEPT ![l] = "gone"], data' = data
          PROVE  Shrinks(i)
      BY <1>0, <2>2 DEF Shrinks, TypeOK, LivePacks
    <2>3. ASSUME UNCHANGED <<name, data>> PROVE Shrinks(i)
      BY <1>0, <2>3 DEF Shrinks
    <2> QED
      BY <1>3, <2>1, <2>2, <2>3 DEF Damage
  <1> QED
    BY <1>1, <1>2, <1>3, FileSteps
-----------------------------------------------------------------------------
(***************************************************************************)
(* What a step does to the work of the processes.                          *)
(***************************************************************************)

OthersStay(p) == \A q \in Procs \ {p} : job'[q] = job[q]

\* The same work at another place of its program.
SameLoad(g, h) == /\ g.batch = h.batch /\ g.lease = h.lease /\ g.entries = h.entries
                  /\ g.at = h.at /\ g.over = h.over

LEMMA GoFields ==
  ASSUME TypeOK, NEW p \in Procs, NEW pc, Go(p, pc)
  PROVE  OthersStay(p) /\ job'[p].pc = pc /\ SameLoad(job'[p], job[p])
  <1>1. job'[p] = [job[p] EXCEPT !.pc = pc] /\ job[p] \in Jobs
    BY DEF Go, Becomes, TypeOK
  <1>2. OthersStay(p)
    BY DEF Go, Becomes, TypeOK, OthersStay
  <1> QED
    BY <1>1, <1>2 DEF Jobs, SameLoad

LEMMA WalkFields ==
  ASSUME TypeOK, NEW p \in Procs, PruneTemps(p) \/ \E i \in Packs : PruneSkip(p, i) \/ PruneRemove(p, i)
  PROVE  OthersStay(p) /\ SameLoad(job'[p], job[p]) /\ job[p].pc = "prune" /\ job'[p].pc = "prune"
  <1> DEFINE g == job[p]
  <1>0. g \in Jobs
    BY DEF TypeOK
  <1>1. ASSUME NEW i \in Packs, PruneSkip(p, i)
        PROVE  Becomes(p, [g EXCEPT !.list = g.list \ {i}, !.did = g.did])
    <2>1. [g EXCEPT !.list = g.list \ {i}] = [g EXCEPT !.list = g.list \ {i}, !.did = g.did]
      BY <1>0 DEF Jobs
    <2> QED
      BY <1>1, <2>1 DEF PruneSkip
  <1>2. ASSUME NEW i \in Packs, PruneRemove(p, i)
        PROVE  Becomes(p, [g EXCEPT !.list = g.list \ {i}, !.did = TRUE])
    BY <1>2 DEF PruneRemove
  <1>3. ASSUME PruneTemps(p)
        PROVE  Becomes(p, [g EXCEPT !.list = g.list \ {0}, !.did = g.did \/ temps # {}])
    BY <1>3 DEF PruneTemps
  <1>4. g.pc = "prune"
    BY DEF PruneTemps, PruneSkip, PruneRemove, At
  <1>5. \E list, did : Becomes(p, [g EXCEPT !.list = list, !.did = did])
    BY <1>1, <1>2, <1>3
  <1> QED
    BY <1>0, <1>4, <1>5 DEF Becomes, TypeOK, Jobs, OthersStay, SameLoad

LEMMA EndCompactFields ==
  ASSUME TypeOK, NEW p \in Procs, EndCompact(p)
  PROVE  /\ OthersStay(p) /\ SameLoad(job'[p], job[p])
         /\ job[p].pc = "compact" /\ job'[p].pc \in {"save", "prune"}
  <1> DEFINE g == job[p]
  <1>1. /\ g.pc = "compact"
        /\ \/ Becomes(p, [g EXCEPT !.pc = "save"])
           \/ \E list : Becomes(p, [g EXCEPT !.pc = "prune", !.list = list, !.did = FALSE])
    BY Zenon DEF EndCompact, At
  <1>2. /\ OthersStay(p)
        /\ \/ job'[p] = [g EXCEPT !.pc = "save"]
           \/ \E list : job'[p] = [g EXCEPT !.pc = "prune", !.list = list, !.did = FALSE]
    BY <1>1, Zenon DEF Becomes, TypeOK, OthersStay
  <1>3. g \in Jobs
    BY DEF TypeOK
  <1> QED
    BY <1>1, <1>2, <1>3 DEF Jobs, SameLoad

\* p goes on: it publishes what it published, to the same pack, or gathers what
\* it gathered, perhaps to a fresh one.
GoesOn(p) ==
  /\ OthersStay(p)
  /\ job'[p].batch = job[p].batch /\ job'[p].over = job[p].over
  /\ Asking(p)' <=> Asking(p)
  /\ Publishing(p) => job'[p].lease = job[p].lease
  /\ Unindexed(p)' /\ job'[p].lease # 0 =>
       \/ Unindexed(p) /\ job'[p].lease = job[p].lease
       \/ name[job'[p].lease] = "none"

\* p ends its work, or what is left of it is to drop its lease.
GivesUp(p) ==
  /\ OthersStay(p)
  /\ \/ job'[p] = Idle
     \/ /\ Unindexed(p) /\ job'[p].pc = "drop" /\ job'[p].lease = job[p].lease
        /\ job'[p].batch = job[p].batch /\ job'[p].over = job[p].over

LEMMA WorkGoesOn ==
  ASSUME StoreInv, NEW p \in Procs, Work(p)
  PROVE  \/ job' = job \/ GoesOn(p) \/ SaveEmpty(p) \/ SaveRename(p)
         \/ (OthersStay(p) /\ job'[p] = Idle)
  <1> DEFINE g == job[p]
  <1>0. /\ TypeOK /\ g \in Jobs
        /\ g.pc = "write" => g.batch # <<>>
        /\ g.pc = "compact" => g.batch = <<>> /\ g.lease = 0
        /\ g.pc = "prune" => g.batch = <<>>
    BY JobFields DEF StoreInv, JobsInv, At, Publishing
  <1>1. ASSUME PublishWrite(p) PROVE job' = job
    BY <1>1 DEF PublishWrite
  <1>2. ASSUME PublishMerge(p) PROVE GoesOn(p)
    <2>1. g.pc = "write" /\ \E rows : job' = [job EXCEPT ![p] = [g EXCEPT !.pc = "finish", !.entries = rows]]
      BY <1>2 DEF PublishMerge, At, Becomes
    <2>2. /\ OthersStay(p) /\ job'[p].pc = "finish" /\ job'[p].batch = g.batch
          /\ job'[p].over = g.over /\ job'[p].lease = g.lease
      BY <1>0, <2>1 DEF TypeOK, Jobs, OthersStay
    <2> QED
      BY <1>0, <2>1, <2>2 DEF GoesOn, Asking, Publishing, Unindexed
  <1>3. ASSUME Finish(p) \/ SaveTemp(p) \/ DropUnlock(p) \/ EndPrune(p) PROVE GoesOn(p)
    <2>1. \/ g.pc = "finish" /\ Go(p, "save")
          \/ g.pc = "save" /\ Go(p, "rename")
          \/ g.pc = "drop" /\ Go(p, "remove")
          \/ g.pc = "prune" /\ Go(p, "replace")
      BY <1>3 DEF Finish, SaveTemp, DropUnlock, EndPrune, At
    <2>2. ASSUME NEW pc, Go(p, pc)
          PROVE  /\ OthersStay(p) /\ job'[p].pc = pc /\ job'[p].batch = g.batch
                 /\ job'[p].over = g.over /\ job'[p].lease = g.lease
      BY <1>0, <2>2, GoFields DEF SameLoad
    <2> QED
      BY <2>1, <2>2 DEF GoesOn, Asking, Publishing, Unindexed
  <1>4. ASSUME Replace(p) \/ DropRemove(p) \/ \E i \in Packs : PruneVanished(p, i)
        PROVE  OthersStay(p) /\ job'[p] = Idle
    <2>1. Becomes(p, Idle)
      BY <1>4 DEF Replace, DropRemove, PruneVanished
    <2> QED
      BY <1>0, <2>1 DEF Becomes, TypeOK, OthersStay
  <1>5. ASSUME EndCompact(p) PROVE GoesOn(p)
    BY <1>0, <1>5, EndCompactFields DEF GoesOn, Asking, Publishing, Unindexed, SameLoad
  <1>6. ASSUME PruneTemps(p) \/ \E i \in Packs : PruneSkip(p, i) \/ PruneRemove(p, i) PROVE GoesOn(p)
    BY <1>0, <1>6, WalkFields DEF GoesOn, Asking, Publishing, Unindexed, SameLoad
  <1>7. ASSUME Compact(p) PROVE GoesOn(p)
    <2> DEFINE to == Min(Unused)
    <2>1. /\ g.pc = "compact" /\ g.todo # {}
          /\ \E todo, rows : Becomes(p, [g EXCEPT !.pc = "finish", !.lease = to, !.todo = todo, !.entries = rows])
      BY <1>7 DEF Compact, At
    <2>2. name[to] = "none"
      BY <1>7, CompactHasFresh
    <2> HIDE DEF to
    <2>3. /\ OthersStay(p) /\ job'[p].pc = "finish" /\ job'[p].batch = g.batch
          /\ job'[p].over = g.over /\ job'[p].lease = to
      BY <1>0, <2>1 DEF Becomes, TypeOK, Jobs, OthersStay
    <2> QED
      BY <1>0, <2>1, <2>2, <2>3 DEF GoesOn, Asking, Publishing, Unindexed
  <1> QED
    BY <1>1, <1>2, <1>3, <1>4, <1>5, <1>6, <1>7 DEF Work, Save, Prune

\* Every step, by what it does to the work of the process that makes it.
LEMMA JobSteps ==
  ASSUME StoreInv, [Next]_vars
  PROVE  \/ job' = job
         \/ \E p \in Procs : \/ GoesOn(p) \/ GivesUp(p)
                             \/ SaveEmpty(p) \/ SaveRename(p)
                             \/ \E b \in Batches : PublishLease(p, b)
                             \/ \E bounded \in BOOLEAN : Maintain(p, bounded)
  <1>0. TypeOK
    BY DEF StoreInv
  <1>1. ASSUME NEW p \in Procs, Fail(p) \/ Crash(p) PROVE GivesUp(p)
    <2>1. ASSUME Becomes(p, Idle) PROVE GivesUp(p)
      BY <1>0, <2>1 DEF Becomes, TypeOK, OthersStay, GivesUp
    <2>2. ASSUME Fail(p), job[p].lease # 0 PROVE GivesUp(p)
      <3>1. Go(p, "drop") /\ Unindexed(p)
        BY <2>2 DEF Fail, StoreInv, JobsInv, Unindexed
      <3> QED
        BY <1>0, <3>1, GoFields DEF GivesUp, SameLoad
    <2> QED
      BY <1>1, <2>1, <2>2 DEF Fail, Crash
  <1>2. ASSUME NEW p \in Procs, Read(p) PROVE job' = job
    BY <1>2 DEF Read, Get, Touch
  <1>3. ASSUME Damage \/ Tick \/ UNCHANGED vars PROVE job' = job
    BY <1>3 DEF Damage, Tick, vars
  <1> QED
    BY <1>1, <1>2, <1>3, WorkGoesOn DEF Next, GivesUp

LEMMA SavedFields ==
  ASSUME TypeOK, NEW p \in Procs, Saved(p)
  PROVE  /\ OthersStay(p) /\ job'[p].pc \in {"replace", "compact", "prune"}
         /\ job'[p].batch = job[p].batch /\ job'[p].over = job[p].over
         /\ job'[p].entries = job[p].entries
         /\ job[p].batch # <<>> => job'[p].pc = "replace" /\ job'[p].lease = job[p].lease
         /\ job'[p].pc = "compact" => job'[p].lease = 0
  <1> DEFINE j == job[p]
             next == IF Publishing(p) THEN [j EXCEPT !.pc = "replace"]
                     ELSE IF j.lease # 0
                     THEN [j EXCEPT !.pc = "compact", !.lease = 0, !.dirty = FALSE, !.did = TRUE]
                     ELSE [j EXCEPT !.pc = "prune", !.list = Files \union {0}, !.did = FALSE]
  <1>1. Becomes(p, next)
    BY DEF Saved
  <1> HIDE DEF next
  <1>2. job'[p] = next /\ OthersStay(p) /\ j \in Jobs
    BY <1>1 DEF Becomes, TypeOK, OthersStay
  <1>3. /\ next.pc \in {"replace", "compact", "prune"} /\ next.batch = j.batch /\ next.over = j.over
        /\ next.entries = j.entries
        /\ j.batch # <<>> => next.pc = "replace" /\ next.lease = j.lease
        /\ next.pc = "compact" => next.lease = 0
    <2>1. CASE Publishing(p)
      BY <1>2, <2>1 DEF next, Jobs, Publishing
    <2>2. CASE ~ Publishing(p) /\ j.lease # 0
      BY <1>2, <2>2 DEF next, Jobs, Publishing
    <2>3. CASE ~ Publishing(p) /\ j.lease = 0
      BY <1>2, <2>3 DEF next, Jobs, Publishing
    <2> QED
      BY <2>1, <2>2, <2>3
  <1> QED
    BY <1>2, <1>3

LEMMA PublishLeaseFields ==
  ASSUME StoreInv, NEW p \in Procs, NEW b \in Batches, PublishLease(p, b)
  PROVE  /\ OthersStay(p) /\ job[p] = Idle /\ b # <<>>
         /\ job'[p].pc = "write" /\ job'[p].batch = b /\ job'[p].over = FALSE
         /\ job'[p].lease \in Packs /\ name[job'[p].lease] = "none"
  <1> DEFINE i == Min(Unused)
  <1>1. /\ TypeOK /\ i \in Packs /\ name[i] = "none" /\ job[p] = Idle /\ b # <<>>
        /\ Becomes(p, [Idle EXCEPT !.pc = "write", !.batch = b, !.at = clock, !.lease = i])
    BY UnusedFacts, Sizes DEF StoreInv, JobsInv, PublishLease, Unused
  <1> HIDE DEF i
  <1>2. job'[p] = [Idle EXCEPT !.pc = "write", !.batch = b, !.at = clock, !.lease = i] /\ OthersStay(p)
    BY <1>1 DEF Becomes, TypeOK, OthersStay
  <1> QED
    BY <1>1, <1>2 DEF Idle

LEMMA CollectsFields ==
  ASSUME StoreInv, NEW p \in Procs, NEW bounded, NEW cap \in Caps, Collects(p, bounded, cap)
  PROVE  LET merged == Marked(p, Loaded)
             whole == {k \in DOMAIN merged : Finds(merged, {}, k)}
             valid == Restrict(merged, whole)
         IN  /\ OthersStay(p) /\ job[p] = Idle
             /\ job'[p].pc = "compact" /\ job'[p].batch = <<>> /\ job'[p].lease = 0
             /\ job'[p].over = ~ Within(DOMAIN valid, cap)
             /\ job'[p].entries = Restrict(valid, Kept(valid, cap))
             /\ snapshot' = [snapshot EXCEPT ![p] = merged] /\ files' = [files EXCEPT ![p] = {}]
             /\ lock' = p /\ UNCHANGED <<index, name, data, damage>>
  <1> DEFINE merged == Marked(p, Loaded)
             whole == {k \in DOMAIN merged : Finds(merged, {}, k)}
             valid == Restrict(merged, whole)
             kept == Restrict(valid, Kept(valid, cap))
             sparse == Sparse(kept, PhysicalSize, cap)
             over == ~ Within(DOMAIN valid, cap)
             dirty == index = Corrupt \/ kept # Loaded
             j == [Idle EXCEPT
                     !.pc = "compact", !.bounded = bounded, !.cap = cap, !.entries = kept,
                     !.todo = sparse, !.over = over, !.dirty = dirty]
  <1>1. /\ snapshot' = [snapshot EXCEPT ![p] = merged] /\ files' = [files EXCEPT ![p] = {}]
        /\ Becomes(p, j) /\ lock' = p /\ At(p, "idle")
        /\ UNCHANGED <<index, name, data, damage>>
    BY DEF Collects, Recovered, Replaced, disk
  <1>2. job[p] = Idle /\ TypeOK
    BY <1>1 DEF StoreInv, JobsInv
  <1> HIDE DEF merged, whole, valid, kept, sparse, over, dirty
  <1>3. j.pc = "compact" /\ j.batch = <<>> /\ j.lease = 0 /\ j.over = over /\ j.entries = kept
    BY DEF Idle
  <1> HIDE DEF j
  <1>4. job'[p] = j /\ OthersStay(p)
    BY <1>1, <1>2 DEF Becomes, TypeOK, OthersStay
  <1> QED
    BY <1>1, <1>2, <1>3, <1>4 DEF merged, whole, valid, kept, over
-----------------------------------------------------------------------------
(***************************************************************************)
(* Snapshots.                                                              *)
(***************************************************************************)

LEMMA IndexSettled == StoreInv => \A k \in DOMAIN Loaded : Settled(Loaded[k].pack)
  <1> SUFFICES ASSUME StoreInv, NEW k \in DOMAIN Loaded PROVE Settled(Loaded[k].pack)
    OBVIOUS
  <1>1. Loaded[k].pack # 0 /\ name[Loaded[k].pack] # "none"
    BY Located, PacksFinite DEF StoreInv, MadeInv
  <1>2. \A q \in Procs : Unindexed(q) => job[q].lease # Loaded[k].pack
    BY <1>1 DEF StoreInv, LeasesInv
  <1> QED
    BY <1>1, <1>2 DEF Settled

\* A settled pack stays so: every lease is a fresh pack.
LEMMA SettledStays ==
  ASSUME StoreInv, [Next]_vars, NEW i \in Packs, Settled(i)
  PROVE  Settled(i)'
  <1>0. TypeOK /\ i # 0 /\ name[i] # "none" /\ name'[i] # "none"
    BY FileSteps, PacksFinite DEF StoreInv, Settled
  <1> SUFFICES ASSUME NEW q \in Procs, Unindexed(q)' PROVE job'[q].lease # i
    BY <1>0 DEF Settled
  <1>1. CASE job'[q] = job[q]
    BY <1>1 DEF Settled, Unindexed
  <1>2. CASE GoesOn(q)
    BY <1>0, <1>2 DEF GoesOn, Settled
  <1>3. CASE GivesUp(q)
    BY <1>0, <1>3 DEF GivesUp, Settled, Idle, Unindexed
  <1>4. CASE SaveEmpty(q) \/ SaveRename(q)
    <2>1. job'[q].pc \in {"replace", "compact", "prune"}
      BY <1>0, <1>4, SavedFields DEF SaveEmpty, SaveRename
    <2> QED
      BY <2>1 DEF Unindexed
  <1>5. ASSUME NEW b \in Batches, PublishLease(q, b) PROVE job'[q].lease # i
    BY <1>0, <1>5, PublishLeaseFields
  <1>6. ASSUME NEW bounded \in BOOLEAN, Maintain(q, bounded) PROVE FALSE
    <2>1. job'[q].pc = "compact"
      BY <1>6, CollectsFields DEF Maintain
    <2> QED
      BY <2>1 DEF Unindexed
  <1>7. ASSUME NEW p \in Procs, p # q, OthersStay(p) PROVE job'[q] = job[q]
    BY <1>7 DEF OthersStay
  <1>8. ASSUME NEW p \in Procs,
               \/ GoesOn(p) \/ GivesUp(p) \/ SaveEmpty(p) \/ SaveRename(p)
               \/ (\E b \in Batches : PublishLease(p, b))
               \/ (\E bounded \in BOOLEAN : Maintain(p, bounded))
        PROVE  OthersStay(p)
    <2>1. ASSUME SaveEmpty(p) \/ SaveRename(p) PROVE OthersStay(p)
      BY <1>0, <2>1, SavedFields DEF SaveEmpty, SaveRename
    <2>2. ASSUME NEW bounded \in BOOLEAN, Maintain(p, bounded) PROVE OthersStay(p)
      BY <2>2, CollectsFields DEF Maintain
    <2> QED
      BY <1>8, <2>1, <2>2, PublishLeaseFields DEF GoesOn, GivesUp
  <1> QED
    BY <1>1, <1>2, <1>3, <1>4, <1>5, <1>6, <1>7, <1>8, JobSteps

SameRows(f, g) == DOMAIN f = DOMAIN g /\ \A k \in DOMAIN f : SamePlace(f[k], g[k])

\* A snapshot stays, is dropped, becomes the index as it is, or answers.
LEMMA SnapshotSteps ==
  ASSUME StoreInv, [Next]_vars, NEW q \in Procs
  PROVE  \/ snapshot'[q] = snapshot[q] /\ files'[q] = files[q]
         \/ snapshot'[q] = Unread /\ files'[q] = {}
         \/ /\ snapshot'[q] \in Tables /\ SameRows(snapshot'[q], Loaded) /\ files'[q] = {}
            /\ UNCHANGED <<index, name, data>>
         \/ /\ snapshot'[q] = Known(q) /\ UNCHANGED <<index, name, data>>
            /\ \/ files'[q] = files[q]
               \/ \E k \in DOMAIN Known(q) :
                    /\ Known(q)[k].pack \in files[q] \/ name[Known(q)[k].pack] = "pack"
                    /\ files'[q] = Opened(files[q], Known(q)[k].pack)
  <1> DEFINE Stays == snapshot'[q] = snapshot[q] /\ files'[q] = files[q]
             Fresh == /\ snapshot'[q] \in Tables /\ SameRows(snapshot'[q], Loaded) /\ files'[q] = {}
                      /\ UNCHANGED <<index, name, data>>
             Answers == /\ snapshot'[q] = Known(q) /\ UNCHANGED <<index, name, data>>
                        /\ \/ files'[q] = files[q]
                           \/ \E k \in DOMAIN Known(q) :
                                /\ Known(q)[k].pack \in files[q] \/ name[Known(q)[k].pack] = "pack"
                                /\ files'[q] = Opened(files[q], Known(q)[k].pack)
  <1>0. TypeOK
    BY DEF StoreInv
  <1>1. ASSUME UNCHANGED <<snapshot, files>> PROVE Stays
    BY <1>1
  <1>2. ASSUME NEW p \in Procs, p # q, NEW f, NEW g,
               snapshot' = [snapshot EXCEPT ![p] = f], files' = [files EXCEPT ![p] = g]
        PROVE  Stays
    BY <1>0, <1>2 DEF TypeOK
  <1>3. ASSUME NEW p \in Procs, Crash(p)
        PROVE  Stays \/ (snapshot'[q] = Unread /\ files'[q] = {})
    BY <1>0, <1>3 DEF Crash, TypeOK
  <1>4. ASSUME NEW p \in Procs, Replace(p) PROVE Stays \/ Fresh
    <2>1. /\ snapshot' = [snapshot EXCEPT ![p] = job[p].entries] /\ files' = [files EXCEPT ![p] = {}]
          /\ UNCHANGED <<index, name, data>> /\ job[p].pc = "replace"
      BY <1>4 DEF Replace, Replaced, disk, At
    <2>2. job[p].entries \in Tables /\ index = job[p].entries
      BY <1>0, <2>1, JobFields DEF StoreInv, JobsInv, IndexInv
    <2>3. Loaded = job[p].entries
      BY <2>2, CorruptIsNoTable DEF Loaded
    <2> QED
      BY <1>0, <1>2, <2>1, <2>2, <2>3 DEF SameRows, SamePlace, TypeOK
  <1>5. ASSUME NEW p \in Procs, NEW bounded \in BOOLEAN, Maintain(p, bounded) PROVE Stays \/ Fresh
    <2>1. /\ snapshot' = [snapshot EXCEPT ![p] = Marked(p, Loaded)] /\ files' = [files EXCEPT ![p] = {}]
          /\ UNCHANGED <<index, name, data>>
      BY <1>5, CollectsFields DEF Maintain
    <2>2. touched[p] \in [Keys -> 0 .. MaxClock]
      BY <1>0 DEF TypeOK
    <2>3. /\ Marked(p, Loaded) \in Tables /\ DOMAIN Marked(p, Loaded) = DOMAIN Loaded
          /\ \A k \in DOMAIN Loaded : /\ Marked(p, Loaded)[k].pack = Loaded[k].pack
                                      /\ Marked(p, Loaded)[k].at = Loaded[k].at
      BY <1>0, <2>2, LoadedTable, MarkedTable
    <2> QED
      BY <1>0, <1>2, <2>1, <2>3 DEF SameRows, SamePlace, TypeOK
  <1>6. ASSUME NEW p \in Procs, Read(p) PROVE Stays \/ Answers
    <2>1. PICK k \in Keys : Get(p, k) \/ Touch(p, k)
      BY <1>6 DEF Read
    <2> DEFINE f == Known(p)
    <2>2. /\ snapshot' = [snapshot EXCEPT ![p] = f] /\ UNCHANGED <<index, name, data>>
          /\ \/ files' = files
             \/ /\ k \in DOMAIN f /\ (f[k].pack \in files[p] \/ name[f[k].pack] = "pack")
                /\ files' = [files EXCEPT ![p] = Opened(files[p], f[k].pack)]
      BY <2>1 DEF Get, Touch, disk
    <2> HIDE DEF f
    <2>3. CASE p # q
      BY <1>0, <2>2, <2>3 DEF TypeOK
    <2>4. CASE p = q
      <3>1. snapshot'[q] = Known(q)
        BY <1>0, <2>2, <2>4 DEF TypeOK, f
      <3>2. files' = [files EXCEPT ![p] = Opened(files[p], f[k].pack)]
              => files'[q] = Opened(files[q], Known(q)[k].pack)
        BY <1>0, <2>4 DEF TypeOK, f
      <3> QED
        BY <2>2, <2>4, <3>1, <3>2 DEF f
    <2> QED
      BY <2>3, <2>4
  <1>7. ASSUME NEW p \in Procs, Work(p), ~ Replace(p) PROVE UNCHANGED <<snapshot, files>>
    <2>1. ASSUME Prune(p) PROVE UNCHANGED <<snapshot, files>>
      BY <2>1 DEF Prune, PruneSkip, PruneRemove, PruneVanished, PruneTemps, EndPrune, reads
    <2> QED
      BY <1>7, <2>1 DEF Work, PublishWrite, PublishMerge, Finish, Save, SaveEmpty, SaveTemp, SaveRename,
                        DropUnlock, DropRemove, Compact, EndCompact, reads
  <1>8. ASSUME NEW p \in Procs, (\E b \in Batches : PublishLease(p, b)) \/ Fail(p)
        PROVE  UNCHANGED <<snapshot, files>>
    BY <1>8 DEF PublishLease, Fail, reads
  <1>9. ASSUME Damage \/ Tick \/ UNCHANGED vars PROVE UNCHANGED <<snapshot, files>>
    BY <1>9 DEF Damage, Tick, vars, reads
  <1> HIDE DEF Stays, Fresh, Answers
  <1>10. Stays \/ Fresh \/ Answers \/ (snapshot'[q] = Unread /\ files'[q] = {})
    BY <1>1, <1>3, <1>4, <1>5, <1>6, <1>7, <1>8, <1>9 DEF Next
  <1> QED
    BY <1>10 DEF Stays, Fresh, Answers

LEMMA KnownTable ==
  ASSUME TypeOK, NEW q \in Procs
  PROVE  /\ Known(q) \in Tables /\ Known(q) # Unread
         /\ \A k \in DOMAIN Known(q) : /\ k \in Keys /\ Known(q)[k] \in Locations
                                       /\ Known(q)[k].pack \in Packs
                                       /\ Known(q)[k].at \in Nat /\ Known(q)[k].at >= 1
  <1>1. Known(q) \in Tables
    BY LoadedTable DEF Known, TypeOK
  <1> QED
    BY <1>1, TableFacts, LocationFacts, MarksAreNoData

LEMMA KnownSettled ==
  ASSUME StoreInv, SnapshotsInv, NEW q \in Procs
  PROVE  \A k \in DOMAIN Known(q) : Settled(Known(q)[k].pack)
  BY IndexSettled DEF SnapshotsInv, Known

\* Settled, of the names nm and the jobs jb.
SettledIn(nm, jb, i) ==
  /\ nm[i] # "none"
  /\ \A q \in Procs : jb[q].pc \in {"write", "finish", "save", "rename", "drop", "remove"} => jb[q].lease # i

LEMMA SnapshotsIs ==
  SnapshotsInv <=> \A q \in Procs :
    /\ snapshot[q] = Unread => files[q] = {}
    /\ snapshot[q] # Unread => \A k \in DOMAIN snapshot[q] : SettledIn(name, job, snapshot[q][k].pack)
  BY DEF SnapshotsInv, Settled, SettledIn, Unindexed

LEMMA SnapshotsNext ==
  SnapshotsInv' <=> \A q \in Procs :
    /\ snapshot'[q] = Unread => files'[q] = {}
    /\ snapshot'[q] # Unread => \A k \in DOMAIN snapshot'[q] : SettledIn(name', job', snapshot'[q][k].pack)
  BY DEF SnapshotsInv, Settled, SettledIn, Unindexed

LEMMA SnapshotsKept ==
  ASSUME StoreInv, SnapshotsInv, [Next]_vars
  PROVE  SnapshotsInv'
  <1> SUFFICES ASSUME NEW q \in Procs
               PROVE  /\ snapshot'[q] = Unread => files'[q] = {}
                      /\ snapshot'[q] # Unread =>
                           \A k \in DOMAIN snapshot'[q] : SettledIn(name', job', snapshot'[q][k].pack)
    BY SnapshotsNext
  <1>0. TypeOK
    BY DEF StoreInv
  <1>1. \A i \in Packs : Settled(i) => SettledIn(name', job', i)
    <2> TAKE i \in Packs
    <2>1. Settled(i) => Settled(i)'
      BY SettledStays
    <2> QED
      BY <2>1 DEF Settled, SettledIn, Unindexed
  <1>2. \A k \in DOMAIN Known(q) : SettledIn(name', job', Known(q)[k].pack)
    <2>1. \A k \in DOMAIN Known(q) : Known(q)[k].pack \in Packs
      BY <1>0, KnownTable
    <2>2. \A k \in DOMAIN Known(q) : Settled(Known(q)[k].pack)
      BY KnownSettled
    <2> QED
      BY <1>1, <2>1, <2>2
  <1>3. \A k \in DOMAIN Loaded : SettledIn(name', job', Loaded[k].pack)
    <2>1. \A k \in DOMAIN Loaded : Loaded[k].pack \in Packs
      BY <1>0, Located
    <2>2. \A k \in DOMAIN Loaded : Settled(Loaded[k].pack)
      BY IndexSettled
    <2> QED
      BY <1>1, <2>1, <2>2
  <1>4. CASE snapshot'[q] = snapshot[q] /\ files'[q] = files[q]
    BY <1>2, <1>4 DEF SnapshotsInv, Known
  <1>5. CASE snapshot'[q] = Unread /\ files'[q] = {}
    BY <1>5
  <1>6. CASE snapshot'[q] \in Tables /\ SameRows(snapshot'[q], Loaded) /\ files'[q] = {}
    BY <1>3, <1>6 DEF SameRows, SamePlace
  <1>7. CASE snapshot'[q] = Known(q)
    <2>1. Known(q) # Unread
      BY <1>0, KnownTable
    <2> QED
      BY <1>2, <1>7, <2>1
  <1> QED
    BY <1>4, <1>5, <1>6, <1>7, SnapshotSteps
-----------------------------------------------------------------------------
(***************************************************************************)
(* What the holder of the publication lock has gathered.                   *)
(***************************************************************************)

\* A get through rows finds key k, in the files nm and d.
Has(nm, d, rows, k) == /\ k \in DOMAIN rows /\ nm[rows[k].pack] = "pack"
                       /\ rows[k].at <= Len(d[rows[k].pack])

BatchIn(g, d, rows) ==
  /\ Len(d[g.lease]) = Len(g.batch)
  /\ DOMAIN g.entries = DOMAIN rows \union Range(g.batch)
  /\ \A k \in DOMAIN g.entries :
       SamePlace(g.entries[k], IF k \in Range(g.batch) THEN Pending(g)[k] ELSE rows[k])

CopyIn(g, nm, d, rows, k) ==
  /\ g.lease # 0 /\ g.entries[k].pack = g.lease
  /\ Has(nm, d, rows, k) /\ g.entries[k].at <= Len(d[g.lease])
  /\ d[g.lease][g.entries[k].at] = d[rows[k].pack][rows[k].at]

RowsIn(g, nm, d, rows) ==
  /\ \A k \in DOMAIN g.entries :
       CopyIn(g, nm, d, rows, k) \/ (k \in DOMAIN rows /\ SamePlace(g.entries[k], rows[k]))
  /\ ~ g.over => \A k \in Keys : Has(nm, d, rows, k) => k \in DOMAIN g.entries

Gathers(g) == g.pc \in {"compact", "finish", "save", "rename"}

LEMMA GatheredIs ==
  GatheredInv <=> \A p \in Procs :
    /\ job[p].batch # <<>> => ~ job[p].over
    /\ lock = p /\ Gathers(job[p]) =>
         /\ job[p].batch # <<>> => BatchIn(job[p], data, Loaded)
         /\ job[p].batch = <<>> => RowsIn(job[p], name, data, Loaded)
  <1>1. \A p \in Procs : GatheredBatch(job[p]) <=> BatchIn(job[p], data, Loaded)
    BY DEF GatheredBatch, BatchIn
  <1>2. \A p \in Procs : GatheredRows(job[p]) <=> RowsIn(job[p], name, data, Loaded)
    <2> TAKE p \in Procs
    <2>1. \A k : Finds(Loaded, {}, k) <=> Has(name, data, Loaded, k)
      BY DEF Finds, Has, InRange
    <2>2. \A k \in DOMAIN job[p].entries : Copied(job[p], k) <=> CopyIn(job[p], name, data, Loaded, k)
      BY <2>1 DEF Copied, CopyIn, InRange
    <2> QED
      BY <2>1, <2>2 DEF GatheredRows, RowsIn
  <1> QED
    BY <1>1, <1>2, Zenon DEF GatheredInv, Publishing, Gathers

LEMMA GatheredNext ==
  GatheredInv' <=> \A p \in Procs :
    /\ job'[p].batch # <<>> => ~ job'[p].over
    /\ lock' = p /\ Gathers(job'[p]) =>
         /\ job'[p].batch # <<>> => BatchIn(job'[p], data', Loaded')
         /\ job'[p].batch = <<>> => RowsIn(job'[p], name', data', Loaded')
  <1>1. \A p \in Procs : GatheredBatch(job[p])' <=> BatchIn(job'[p], data', Loaded')
    BY DEF GatheredBatch, BatchIn, Pending
  <1>2. \A p \in Procs : GatheredRows(job[p])' <=> RowsIn(job'[p], name', data', Loaded')
    <2> TAKE p \in Procs
    <2>1. \A k : Finds(Loaded, {}, k)' <=> Has(name', data', Loaded', k)
      BY DEF Finds, Has, InRange
    <2>2. \A k \in DOMAIN job'[p].entries : Copied(job[p], k)' <=> CopyIn(job'[p], name', data', Loaded', k)
      BY <2>1 DEF Copied, CopyIn, InRange
    <2> QED
      BY <2>1, <2>2 DEF GatheredRows, RowsIn
  <1> QED
    BY <1>1, <1>2, Zenon DEF GatheredInv, Publishing, Gathers

\* How a process comes to hold what it gathers.
LEMMA HolderSteps ==
  ASSUME StoreInv, [Next]_vars, NEW p \in Procs, Gathers(job'[p])
  PROVE  \/ job'[p] = job[p]
         \/ PublishMerge(p) \/ Compact(p) \/ SaveEmpty(p) \/ SaveRename(p)
         \/ \E bounded \in BOOLEAN : Maintain(p, bounded)
         \/ SameLoad(job'[p], job[p]) /\ Gathers(job[p])
  <1> DEFINE g == job[p]
  <1>0. TypeOK /\ g \in Jobs /\ Idle.pc = "idle"
    BY DEF StoreInv, TypeOK, Idle
  <1>1. ASSUME Finish(p) \/ SaveTemp(p) PROVE SameLoad(job'[p], g) /\ Gathers(g)
    <2>1. g.pc \in {"finish", "save"} /\ \E pc \in {"save", "rename"} : Go(p, pc)
      BY <1>1 DEF Finish, SaveTemp, At
    <2> QED
      BY <1>0, <2>1, GoFields DEF Gathers
  <1>2. ASSUME EndCompact(p) PROVE SameLoad(job'[p], g) /\ Gathers(g)
    BY <1>0, <1>2, EndCompactFields DEF Gathers
  <1>3. ASSUME DropUnlock(p) \/ EndPrune(p) PROVE FALSE
    <2>1. \E pc \in {"remove", "replace"} : Go(p, pc)
      BY <1>3 DEF DropUnlock, EndPrune
    <2> QED
      BY <1>0, <2>1, GoFields DEF Gathers
  <1>4. ASSUME Becomes(p, Idle) PROVE FALSE
    BY <1>0, <1>4 DEF Becomes, TypeOK, Gathers
  <1>5. ASSUME PruneTemps(p) \/ \E i \in Packs : PruneSkip(p, i) \/ PruneRemove(p, i) PROVE FALSE
    BY <1>0, <1>5, WalkFields DEF Gathers
  <1>6. ASSUME Work(p)
        PROVE  \/ job'[p] = job[p]
               \/ PublishMerge(p) \/ Compact(p) \/ SaveEmpty(p) \/ SaveRename(p)
               \/ SameLoad(job'[p], job[p]) /\ Gathers(job[p])
    <2>1. ASSUME Replace(p) \/ DropRemove(p) \/ \E i \in Packs : PruneVanished(p, i) PROVE FALSE
      BY <1>4, <2>1 DEF Replace, DropRemove, PruneVanished
    <2>2. ASSUME PublishWrite(p) PROVE job'[p] = job[p]
      BY <2>2 DEF PublishWrite
    <2> QED
      BY <1>1, <1>2, <1>3, <1>5, <1>6, <2>1, <2>2 DEF Work, Save, Prune
  <1>7. ASSUME NEW b \in Batches, PublishLease(p, b) PROVE FALSE
    BY <1>7, PublishLeaseFields DEF Gathers
  <1>8. ASSUME GivesUp(p) PROVE FALSE
    BY <1>0, <1>8 DEF GivesUp, Gathers
  <1>9. ASSUME NEW q \in Procs, q # p, OthersStay(q) PROVE job'[p] = job[p]
    BY <1>9 DEF OthersStay
  <1>10. ASSUME Fail(p) \/ Crash(p) PROVE GivesUp(p)
    <2>1. ASSUME Becomes(p, Idle) PROVE GivesUp(p)
      BY <1>4, <2>1
    <2>2. ASSUME Fail(p), job[p].lease # 0 PROVE GivesUp(p)
      <3>1. Go(p, "drop")
        BY <2>2 DEF Fail
      <3> QED
        BY <1>0, <3>1, GoFields DEF Gathers
    <2> QED
      BY <1>10, <2>1, <2>2 DEF Fail, Crash
  <1>11. ASSUME NEW q \in Procs, q # p,
                \/ GoesOn(q) \/ GivesUp(q) \/ SaveEmpty(q) \/ SaveRename(q)
                \/ (\E b \in Batches : PublishLease(q, b))
                \/ (\E bounded \in BOOLEAN : Maintain(q, bounded))
         PROVE  job'[p] = job[p]
    <2>1. ASSUME SaveEmpty(q) \/ SaveRename(q) PROVE OthersStay(q)
      BY <1>0, <2>1, SavedFields DEF SaveEmpty, SaveRename
    <2>2. ASSUME NEW bounded \in BOOLEAN, Maintain(q, bounded) PROVE OthersStay(q)
      BY <2>2, CollectsFields DEF Maintain
    <2> QED
      BY <1>9, <1>11, <2>1, <2>2, PublishLeaseFields DEF GoesOn, GivesUp
  <1>12. ASSUME Damage \/ Tick \/ UNCHANGED vars \/ Read(p) PROVE job'[p] = job[p]
    BY <1>12 DEF Damage, Tick, vars, Read, Get, Touch
  <1>13. ASSUME ~ (\/ Read(p) \/ (\E b \in Batches : PublishLease(p, b))
                   \/ (\E bounded \in BOOLEAN : Maintain(p, bounded))
                   \/ Work(p) \/ Fail(p) \/ Crash(p) \/ Damage \/ Tick \/ UNCHANGED vars)
         PROVE  job'[p] = job[p]
    <2>1. PICK q \in Procs : \/ Read(q) \/ (\E b \in Batches : PublishLease(q, b))
                             \/ (\E bounded \in BOOLEAN : Maintain(q, bounded))
                             \/ Work(q) \/ Fail(q) \/ Crash(q)
      BY <1>13 DEF Next
    <2>2. q # p
      BY <1>13, <2>1
    <2>3. ASSUME Work(q) PROVE job'[p] = job[p]
      BY <1>9, <1>11, <2>2, <2>3, WorkGoesOn
    <2>4. ASSUME Fail(q) \/ Crash(q) PROVE job'[p] = job[p]
      <3>1. \E j : Becomes(q, j)
        BY <2>4 DEF Fail, Crash, Go
      <3> QED
        BY <1>0, <2>2, <3>1 DEF Becomes, TypeOK
    <2>5. ASSUME Read(q) PROVE job'[p] = job[p]
      BY <2>5 DEF Read, Get, Touch
    <2> QED
      BY <1>11, <2>1, <2>2, <2>3, <2>4, <2>5
  <1> QED
    BY <1>6, <1>7, <1>8, <1>10, <1>12, <1>13

\* While a process holds the lock and a lease, the files that it has gathered
\* from stay as they are.
LEMMA HeldFiles ==
  ASSUME StoreInv, [Next]_vars, NEW p \in Procs, lock = p, job[p].lease # 0,
         job[p].pc \in {"finish", "save", "rename"}
  PROVE  /\ data'[job[p].lease] = data[job[p].lease]
         /\ \A i \in Packs : Settled(i) => Still(i)
  <1> DEFINE i == job[p].lease
  <1>0. TypeOK /\ i \in Packs /\ name[i] # "none"
    BY JobFields DEF StoreInv, LeasesInv
  <1>1. ~ Damage
    BY DEF Damage
  <1>2. ASSUME NEW q \in Procs, NEW l \in Packs, PruneRemove(q, l) PROVE FALSE
    BY <1>2 DEF PruneRemove, At, StoreInv, JobsInv
  <1>3. \A l \in Packs : Settled(l) => Still(l)
    BY <1>1, <1>2, FileSteps
  <1>4. ASSUME NEW q \in Procs, PublishWrite(q) PROVE data'[i] = data[i]
    <2>1. \E f : data' = [data EXCEPT ![job[q].lease] = f]
      BY <1>4 DEF PublishWrite
    <2>2. job[q].lease # i
      BY <1>0, <1>4 DEF PublishWrite, At, StoreInv, LeasesInv
    <2> QED
      BY <1>0, <2>1, <2>2 DEF TypeOK
  <1>5. ASSUME NEW q \in Procs, NEW b \in Batches, PublishLease(q, b) PROVE data'[i] = data[i]
    <2>1. Lease(q, <<>>) /\ Unused # {}
      BY <1>5 DEF PublishLease
    <2> QED
      BY <1>0, <2>1, LeaseSteps DEF Still
  <1>6. ASSUME NEW q \in Procs, Compact(q) PROVE FALSE
    BY <1>6 DEF Compact, At, StoreInv, JobsInv
  <1>7. ASSUME NEW q \in Procs, Work(q), ~ PublishWrite(q), ~ Compact(q) PROVE data' = data
    <2>1. ASSUME Prune(q) PROVE data' = data
      BY <2>1 DEF Prune, PruneSkip, PruneRemove, PruneVanished, PruneTemps, EndPrune, disk
    <2> QED
      BY <1>7, <2>1 DEF Work, PublishMerge, Finish, Save, SaveEmpty, SaveTemp, SaveRename, Replace,
                        DropUnlock, DropRemove, EndCompact, disk
  <1>8. ASSUME NEW q \in Procs,
               Read(q) \/ (\E bounded \in BOOLEAN : Maintain(q, bounded)) \/ Fail(q) \/ Crash(q)
        PROVE  data' = data
    BY <1>8 DEF Read, Get, Touch, Maintain, Collects, Fail, Crash, disk
  <1>9. ASSUME Tick \/ UNCHANGED vars PROVE data' = data
    BY <1>9 DEF Tick, vars, disk
  <1>10. data'[i] = data[i]
    BY <1>1, <1>4, <1>5, <1>6, <1>7, <1>8, <1>9 DEF Next
  <1> QED
    BY <1>3, <1>10

\* No step of another process disturbs what the holder has gathered.
LEMMA GatheredStays ==
  ASSUME StoreInv, GatheredInv, [Next]_vars, NEW p \in Procs, Gathers(job[p]),
         SameLoad(job'[p], job[p]), ~ SaveEmpty(p), ~ SaveRename(p)
  PROVE  /\ job'[p].batch # <<>> => BatchIn(job'[p], data', Loaded')
         /\ job'[p].batch = <<>> => RowsIn(job'[p], name', data', Loaded')
  <1> DEFINE g == job[p]
             h == job'[p]
  <1>0. TypeOK
    BY DEF StoreInv
  <1>1. lock = p
    BY DEF Gathers, StoreInv, JobsInv
  <1>2. Loaded' = Loaded
    <2>1. ASSUME NEW q \in Procs, SaveEmpty(q) \/ SaveRename(q) PROVE FALSE
      <3>1. q # p
        BY <2>1
      <3>2. job[q].pc \in {"save", "rename"}
        BY <2>1 DEF SaveEmpty, SaveRename, At
      <3> QED
        BY <1>1, <3>1, <3>2 DEF StoreInv, JobsInv
    <2>2. lock # Nobody
      BY <1>1, Sizes
    <2> QED
      BY <2>1, <2>2, IndexSteps DEF Loaded
  <1>3. /\ h.batch = g.batch /\ h.lease = g.lease /\ h.entries = g.entries /\ h.at = g.at /\ h.over = g.over
    BY DEF SameLoad
  <1>4. /\ g.batch # <<>> => BatchIn(g, data, Loaded) /\ g.lease # 0
        /\ g.batch = <<>> => RowsIn(g, name, data, Loaded)
        /\ g.lease # 0 => g.pc \in {"finish", "save", "rename"}
    <2>1. /\ g.batch # <<>> => BatchIn(g, data, Loaded)
          /\ g.batch = <<>> => RowsIn(g, name, data, Loaded)
      BY <1>1, GatheredIs
    <2>2. (g.batch # <<>> => g.lease # 0) /\ (g.lease # 0 => g.pc # "compact")
      BY DEF StoreInv, JobsInv, Publishing
    <2> QED
      BY <2>1, <2>2 DEF Gathers
  <1>5. \A k \in DOMAIN Loaded : Loaded[k].pack \in Packs /\ Settled(Loaded[k].pack)
    BY <1>0, Located, IndexSettled
  <1>6. Pending(h) = Pending(g)
    BY <1>3 DEF Pending
  <1> HIDE DEF g, h
  <1>7. CASE g.batch # <<>>
    <2>1. data'[g.lease] = data[g.lease]
      BY <1>1, <1>4, <1>7, HeldFiles DEF g
    <2>2. BatchIn(h, data', Loaded')
      BY <1>2, <1>3, <1>4, <1>6, <1>7, <2>1 DEF BatchIn
    <2> QED
      BY <1>3, <1>7, <2>2 DEF h
  <1>8. CASE g.batch = <<>> /\ g.lease # 0
    <2>1. data'[g.lease] = data[g.lease] /\ \A i \in Packs : Settled(i) => Still(i)
      BY <1>1, <1>4, <1>8, HeldFiles DEF g
    <2>2. \A k \in DOMAIN Loaded : /\ name'[Loaded[k].pack] = "pack" <=> name[Loaded[k].pack] = "pack"
                                   /\ data'[Loaded[k].pack] = data[Loaded[k].pack]
      BY <1>5, <2>1 DEF Still
    <2>3. \A k : Has(name', data', Loaded', k) <=> Has(name, data, Loaded, k)
      BY <1>2, <2>2 DEF Has
    <2>4. \A k \in DOMAIN g.entries :
            CopyIn(g, name, data, Loaded, k) => CopyIn(h, name', data', Loaded', k)
      <3> TAKE k \in DOMAIN g.entries
      <3> HAVE CopyIn(g, name, data, Loaded, k)
      <3>1. k \in DOMAIN Loaded
        BY DEF CopyIn, Has
      <3> QED
        BY <1>2, <1>3, <2>1, <2>2, <2>3, <3>1 DEF CopyIn
    <2>5. RowsIn(h, name', data', Loaded')
      BY <1>2, <1>3, <1>4, <1>8, <2>3, <2>4 DEF RowsIn
    <2> QED
      BY <1>3, <1>8, <2>5 DEF h
  <1>9. CASE g.batch = <<>> /\ g.lease = 0
    <2>1. \A k \in Keys : Has(name', data', Loaded', k) => Has(name, data, Loaded, k)
      <3> SUFFICES ASSUME NEW k \in DOMAIN Loaded, name'[Loaded[k].pack] = "pack",
                          Loaded[k].at <= Len(data'[Loaded[k].pack])
                   PROVE  name[Loaded[k].pack] = "pack" /\ Loaded[k].at <= Len(data[Loaded[k].pack])
        BY <1>2 DEF Has
      <3> DEFINE i == Loaded[k].pack
      <3>1. Shrinks(i)
        BY <1>5, SettledShrinks
      <3>2. Len(data[i]) \in Nat /\ Len(data'[i]) \in Nat /\ Loaded[k].at \in Nat
        <4>1. TypeOK'
          BY StepKeeps DEF StoreInv
        <4>2. data'[i] \in Seq(Frames)
          BY <1>5, <4>1 DEF TypeOK
        <4>3. Loaded[k].at \in Nat
          BY <1>0, Located, LocationFacts
        <4> QED
          BY <1>0, <1>5, <4>2, <4>3, Located, LenProperties
      <3> QED
        BY <3>1, <3>2 DEF Shrinks
    <2>2. RowsIn(h, name', data', Loaded')
      BY <1>2, <1>3, <1>4, <1>9, <2>1 DEF RowsIn, CopyIn
    <2> QED
      BY <1>3, <1>9, <2>2 DEF h
  <1> QED
    BY <1>7, <1>8, <1>9

\* A publication gathers the index and its batch.
LEMMA PublishMergeGathers ==
  ASSUME StoreInv, NEW p \in Procs, PublishMerge(p)
  PROVE  /\ OthersStay(p) /\ job'[p].batch = job[p].batch /\ job[p].batch # <<>>
         /\ BatchIn(job'[p], data', Loaded')
  <1> DEFINE old == Marked(p, Loaded)
             new == Pending(job[p])
             rows == Extended(old, new)
             j == [job[p] EXCEPT !.pc = "finish", !.entries = rows]
             i == job[p].lease
             b == job[p].batch
  <1>1. /\ TypeOK /\ job[p] \in Jobs /\ b # <<>> /\ i # 0 /\ job[p].at # 0
        /\ Len(data[i]) = Len(b) /\ Becomes(p, j) /\ UNCHANGED <<index, data>>
    BY JobFields DEF StoreInv, JobsInv, PublishMerge, At, Publishing, Recovered, disk
  <1>2. /\ old \in Tables /\ DOMAIN old = DOMAIN Loaded
        /\ \A k \in DOMAIN Loaded : SamePlace(old[k], Loaded[k])
    <2>1. touched[p] \in [Keys -> 0 .. MaxClock]
      BY <1>1 DEF TypeOK
    <2> QED
      BY <1>1, <2>1, LoadedTable, MarkedTable DEF SamePlace
  <1>3. new \in Tables /\ DOMAIN new = Range(b)
    BY <1>1, PendingTable
  <1> HIDE DEF old, new
  <1>4. /\ DOMAIN rows = DOMAIN Loaded \union Range(b)
        /\ \A k \in Range(b) : rows[k] = new[k]
        /\ \A k \in DOMAIN Loaded \ Range(b) : rows[k] = old[k]
    <2>1. /\ DOMAIN Extended(old, new) = DOMAIN old \union DOMAIN new
          /\ \A k \in DOMAIN new : Extended(old, new)[k] = new[k]
          /\ \A k \in DOMAIN old \ DOMAIN new : Extended(old, new)[k] = old[k]
      BY <1>2, <1>3, ExtendedTable, Zenon
    <2> QED
      BY <1>2, <1>3, <2>1
  <1> HIDE DEF rows
  <1>5. j.entries = rows /\ j.lease = i /\ j.batch = b /\ j.at = job[p].at
    BY <1>1 DEF Jobs
  <1>6. job'[p] = j /\ OthersStay(p) /\ Loaded' = Loaded
    BY <1>1 DEF Becomes, TypeOK, OthersStay, Loaded
  <1>7. Pending(j) = new
    BY <1>5 DEF Pending, new
  <1> HIDE DEF j
  <1>8. ASSUME NEW k \in DOMAIN rows
        PROVE  SamePlace(rows[k], IF k \in Range(b) THEN new[k] ELSE Loaded[k])
    BY <1>2, <1>4, <1>8 DEF SamePlace
  <1>9. BatchIn(j, data, Loaded)
    BY <1>1, <1>4, <1>5, <1>7, <1>8 DEF BatchIn
  <1> QED
    BY <1>1, <1>5, <1>6, <1>9

\* A collection gathers rows of the index, all that lead to a frame unless they
\* are too many for its cap.
LEMMA CollectsGathers ==
  ASSUME StoreInv, NEW p \in Procs, NEW bounded \in BOOLEAN, NEW cap \in Caps, Collects(p, bounded, cap)
  PROVE  /\ job'[p].over <=> ~ Within({k \in Keys : Has(name, data, Loaded, k)}, cap)
         /\ RowsIn(job'[p], name', data', Loaded')
  <1> DEFINE merged == Marked(p, Loaded)
             whole == {k \in DOMAIN merged : Finds(merged, {}, k)}
             valid == Restrict(merged, whole)
             kept == Restrict(valid, Kept(valid, cap))
  <1>1. /\ TypeOK /\ job'[p].lease = 0 /\ job'[p].over = ~ Within(DOMAIN valid, cap)
        /\ job'[p].entries = kept /\ UNCHANGED <<name, data>> /\ Loaded' = Loaded
    BY CollectsFields DEF StoreInv, Loaded
  <1>2. /\ merged \in Tables /\ DOMAIN merged = DOMAIN Loaded
        /\ \A k \in DOMAIN Loaded : SamePlace(merged[k], Loaded[k])
    <2>1. touched[p] \in [Keys -> 0 .. MaxClock]
      BY <1>1 DEF TypeOK
    <2> QED
      BY <1>1, <2>1, LoadedTable, MarkedTable DEF SamePlace
  <1> HIDE DEF merged
  <1>3. whole = {k \in Keys : Has(name, data, Loaded, k)}
    <2>1. DOMAIN Loaded \in SUBSET Keys
      BY <1>1, Located
    <2> QED
      BY <1>2, <2>1 DEF Finds, Has, InRange, SamePlace
  <1>4. valid \in Tables /\ DOMAIN valid = whole /\ \A k \in whole : valid[k] = merged[k]
    <2>1. whole \in SUBSET DOMAIN merged
      OBVIOUS
    <2> HIDE DEF whole
    <2> QED
      BY <1>2, <2>1, RestrictTable
  <1>5. whole \in SUBSET DOMAIN Loaded
    BY <1>2
  <1> HIDE DEF valid, whole
  <1>6. /\ DOMAIN kept = Kept(valid, cap) /\ DOMAIN kept \in SUBSET whole
        /\ \A k \in DOMAIN kept : kept[k] = merged[k]
    <2>1. Kept(valid, cap) \in SUBSET DOMAIN valid
      BY <1>4, KeptIsPart
    <2>2. /\ DOMAIN kept = Kept(valid, cap)
          /\ \A k \in Kept(valid, cap) : kept[k] = valid[k]
      BY <1>4, <2>1, RestrictTable
    <2> QED
      BY <1>4, <2>1, <2>2
  <1>7. Within(whole, cap) => DOMAIN kept = whole
    BY <1>4, <1>6 DEF Kept
  <1> HIDE DEF kept
  <1>8. job'[p].over <=> ~ Within(whole, cap)
    BY <1>1, <1>4
  <1>9. \A k \in DOMAIN kept : k \in DOMAIN Loaded /\ SamePlace(kept[k], Loaded[k])
    BY <1>2, <1>5, <1>6
  <1>10. ~ job'[p].over => \A k \in Keys : Has(name, data, Loaded, k) => k \in DOMAIN kept
    BY <1>3, <1>7, <1>8
  <1> QED
    BY <1>1, <1>3, <1>8, <1>9, <1>10 DEF RowsIn

\* The copies of a compaction are the frames that the index finds.
LEMMA CompactGathers ==
  ASSUME StoreInv, GatheredInv, NEW p \in Procs, Compact(p)
  PROVE  RowsIn(job'[p], name', data', Loaded') /\ job'[p].batch = <<>>
  <1> DEFINE g == job[p]
             from == Min(g.todo)
             to == Min(Unused)
             keys == {k \in DOMAIN g.entries : g.entries[k].pack = from}
             copies == Copies(g.entries, from, keys)
             moved == [k \in keys |-> [pack |-> to, at |-> Place(keys, k), used |-> g.entries[k].used]]
             rows == Extended(g.entries, moved)
             j == [g EXCEPT !.pc = "finish", !.lease = to, !.todo = g.todo \ {from}, !.entries = rows]
  <1>1. /\ TypeOK /\ g \in Jobs /\ g.pc = "compact" /\ g.todo # {} /\ g.batch = <<>> /\ g.lease = 0
        /\ lock = p /\ g.entries \in Tables
    BY JobFields DEF StoreInv, JobsInv, Compact, At, Publishing
  <1>2. /\ name[from] = "pack" /\ \A k \in keys : InRange(g.entries[k])
        /\ name' = [name EXCEPT ![to] = "pending"] /\ data' = [data EXCEPT ![to] = copies]
        /\ Becomes(p, j) /\ UNCHANGED index
    BY DEF Compact, Lease
  <1>3. from \in Packs
    BY CompactHasFresh
  <1>4. to \in Packs /\ to # 0 /\ name[to] = "none"
    BY CompactHasFresh, PacksFinite
  <1> HIDE DEF from, to
  <1>5. /\ keys \in SUBSET DOMAIN g.entries /\ \A k \in keys : g.entries[k].pack = from
    OBVIOUS
  <1> HIDE DEF keys
  <1>6. /\ Len(copies) = Cardinality(keys)
        /\ \A k \in keys : copies[Rank(keys, k)] = data[from][g.entries[k].at]
    BY <1>1, <1>2, <1>3, <1>5, CopiesFacts
  <1> HIDE DEF copies
  <1>7. /\ \A k \in keys : Rank(keys, k) \in 1 .. Cardinality(keys)
        /\ Cardinality(keys) \in Nat
    BY <1>1, <1>5, TableFacts, RankFacts, FS_CardinalityType, FS_Subset, Sizes
  <1>8. /\ moved \in Tables /\ DOMAIN moved = keys
        /\ \A k \in keys : moved[k].pack = to /\ moved[k].at = Rank(keys, k)
    <2>1. \A k \in keys : [pack |-> to, at |-> Place(keys, k), used |-> g.entries[k].used] \in Locations
      <3> TAKE k \in keys
      <3>1. g.entries[k].used \in 1 .. MaxClock
        BY <1>1, <1>5, TableFacts, LocationFacts
      <3>2. Cardinality(keys) \in 0 .. Cardinality(Keys) /\ Cardinality(Keys) \in Nat
        BY <1>1, <1>5, TableFacts, RankFacts, FS_CardinalityType, Sizes
      <3>3. Rank(keys, k) \in Places
        BY <1>7, <3>2 DEF Places
      <3> QED
        BY <1>4, <3>1, <3>3 DEF Locations, Place
    <2>2. keys \in SUBSET Keys
      BY <1>1, <1>5, TableFacts
    <2>3. moved \in [keys -> Locations]
      BY <2>1
    <2> QED
      BY <2>2, <2>3 DEF Tables, Place
  <1> HIDE DEF moved
  <1>9. /\ DOMAIN rows = DOMAIN g.entries
        /\ \A k \in keys : rows[k].pack = to /\ rows[k].at = Rank(keys, k)
        /\ \A k \in DOMAIN rows : k \notin keys => rows[k] = g.entries[k]
    <2>1. /\ DOMAIN Extended(g.entries, moved) = DOMAIN g.entries \union DOMAIN moved
          /\ \A k \in DOMAIN moved : Extended(g.entries, moved)[k] = moved[k]
          /\ \A k \in DOMAIN g.entries \ DOMAIN moved : Extended(g.entries, moved)[k] = g.entries[k]
      BY <1>1, <1>8, ExtendedTable, Zenon
    <2> QED
      BY <1>5, <1>8, <2>1
  <1> HIDE DEF rows
  <1>10. j.entries = rows /\ j.lease = to /\ j.batch = <<>> /\ j.over = g.over
    BY <1>1 DEF Jobs
  <1>11. job'[p] = j /\ Loaded' = Loaded
    BY <1>1, <1>2 DEF Becomes, TypeOK, Loaded
  <1> HIDE DEF j
  <1>12. /\ \A l \in Packs : l # to => name'[l] = name[l] /\ data'[l] = data[l]
         /\ data'[to] = copies
    BY <1>1, <1>2, <1>4 DEF TypeOK
  <1>13. \A k \in DOMAIN Loaded : Loaded[k].pack \in Packs /\ Loaded[k].pack # to
    BY <1>1, <1>4, Located DEF StoreInv, MadeInv
  <1>14. \A k : Has(name', data', Loaded', k) <=> Has(name, data, Loaded, k)
    BY <1>11, <1>12, <1>13 DEF Has
  <1>15. RowsIn(g, name, data, Loaded)
    BY <1>1, GatheredIs DEF Gathers
  <1>16. \A k \in DOMAIN g.entries : k \in DOMAIN Loaded /\ SamePlace(g.entries[k], Loaded[k])
    BY <1>1, <1>15 DEF RowsIn, CopyIn
  <1>17. ASSUME NEW k \in keys PROVE CopyIn(j, name', data', Loaded', k)
    <2>1. /\ k \in DOMAIN Loaded /\ Loaded[k].pack = from /\ Loaded[k].at = g.entries[k].at
      BY <1>5, <1>16 DEF SamePlace
    <2>2. Has(name', data', Loaded', k)
      BY <1>2, <1>5, <1>14, <2>1 DEF Has, InRange
    <2>3. j.entries[k].pack = to /\ j.entries[k].at = Rank(keys, k)
      BY <1>9, <1>10
    <2>4. Rank(keys, k) <= Len(data'[to]) /\ data'[to][Rank(keys, k)] = data[from][Loaded[k].at]
      BY <1>6, <1>7, <1>12, <2>1
    <2>5. data'[from] = data[from]
      BY <1>3, <1>12, <1>13, <2>1
    <2> QED
      BY <1>4, <1>10, <1>11, <2>1, <2>2, <2>3, <2>4, <2>5 DEF CopyIn
  <1>18. RowsIn(j, name', data', Loaded')
    <2>1. ~ g.over => \A k \in Keys : Has(name, data, Loaded, k) => k \in DOMAIN g.entries
      BY <1>15 DEF RowsIn
    <2> QED
      BY <1>9, <1>10, <1>11, <1>14, <1>16, <1>17, <2>1 DEF RowsIn
  <1> QED
    BY <1>10, <1>11, <1>18

\* A compaction that saved goes on from the index.
LEMMA SaveRows ==
  ASSUME StoreInv, NEW p \in Procs, SaveEmpty(p) \/ SaveRename(p)
  PROVE  Loaded' = job[p].entries /\ job[p].entries \in Tables
  <1>1. job[p].entries \in Tables /\ index' = job[p].entries
    BY JobFields DEF SaveEmpty, SaveRename, StoreInv
  <1> QED
    BY <1>1, CorruptIsNoTable DEF Loaded

LEMMA GatheredKept ==
  ASSUME StoreInv, GatheredInv, [Next]_vars
  PROVE  GatheredInv'
  <1>0. TypeOK
    BY DEF StoreInv
  <1>1. ASSUME NEW p \in Procs, job'[p].batch # <<>> PROVE ~ job'[p].over
    <2>0. job[p].batch # <<>> => ~ job[p].over
      BY GatheredIs
    <2>1. ASSUME GoesOn(p) \/ GivesUp(p) PROVE ~ job'[p].over
      BY <1>1, <2>0, <2>1 DEF GoesOn, GivesUp, Idle
    <2>2. ASSUME SaveEmpty(p) \/ SaveRename(p) PROVE ~ job'[p].over
      BY <1>0, <1>1, <2>0, <2>2, SavedFields DEF SaveEmpty, SaveRename
    <2>3. ASSUME NEW b \in Batches, PublishLease(p, b) PROVE ~ job'[p].over
      BY <2>3, PublishLeaseFields
    <2>4. ASSUME NEW bounded \in BOOLEAN, Maintain(p, bounded) PROVE FALSE
      BY <1>1, <2>4, CollectsFields DEF Maintain
    <2>5. ASSUME NEW q \in Procs, q # p,
                 \/ GoesOn(q) \/ GivesUp(q) \/ SaveEmpty(q) \/ SaveRename(q)
                 \/ (\E b \in Batches : PublishLease(q, b))
                 \/ (\E bounded \in BOOLEAN : Maintain(q, bounded))
          PROVE  job'[p] = job[p]
      <3>1. ASSUME SaveEmpty(q) \/ SaveRename(q) PROVE OthersStay(q)
        BY <1>0, <3>1, SavedFields DEF SaveEmpty, SaveRename
      <3>2. ASSUME NEW bounded \in BOOLEAN, Maintain(q, bounded) PROVE OthersStay(q)
        BY <3>2, CollectsFields DEF Maintain
      <3>3. OthersStay(q)
        BY <2>5, <3>1, <3>2, PublishLeaseFields DEF GoesOn, GivesUp
      <3> QED
        BY <2>5, <3>3 DEF OthersStay
    <2> QED
      BY <1>1, <2>0, <2>1, <2>2, <2>3, <2>4, <2>5, JobSteps
  <1>2. ASSUME NEW p \in Procs, Gathers(job'[p])
        PROVE  /\ job'[p].batch # <<>> => BatchIn(job'[p], data', Loaded')
               /\ job'[p].batch = <<>> => RowsIn(job'[p], name', data', Loaded')
    <2>1. ASSUME PublishMerge(p)
          PROVE  job'[p].batch # <<>> /\ BatchIn(job'[p], data', Loaded')
      BY <2>1, PublishMergeGathers
    <2>2. ASSUME NEW bounded \in BOOLEAN, Maintain(p, bounded)
          PROVE  job'[p].batch = <<>> /\ RowsIn(job'[p], name', data', Loaded')
      BY <2>2, CollectsFields, CollectsGathers DEF Maintain
    <2>3. ASSUME Compact(p)
          PROVE  job'[p].batch = <<>> /\ RowsIn(job'[p], name', data', Loaded')
      BY <2>3, CompactGathers
    <2>4. ASSUME SaveEmpty(p) \/ SaveRename(p)
          PROVE  job'[p].batch = <<>> /\ RowsIn(job'[p], name', data', Loaded')
      <3>1. Saved(p) /\ Loaded' = job[p].entries
        BY <2>4, SaveRows DEF SaveEmpty, SaveRename
      <3>2. job'[p].batch = <<>> /\ job'[p].entries = job[p].entries
        BY <1>0, <1>2, <3>1, SavedFields DEF Gathers
      <3> QED
        BY <3>1, <3>2 DEF RowsIn, Has, SamePlace
    <2>5. ASSUME ~ SaveEmpty(p), ~ SaveRename(p), SameLoad(job'[p], job[p]), Gathers(job[p])
          PROVE  /\ job'[p].batch # <<>> => BatchIn(job'[p], data', Loaded')
                 /\ job'[p].batch = <<>> => RowsIn(job'[p], name', data', Loaded')
      BY <2>5, GatheredStays
    <2>6. job'[p] = job[p] => SameLoad(job'[p], job[p]) /\ Gathers(job[p])
      BY <1>2 DEF SameLoad
    <2> QED
      BY <1>2, <2>1, <2>2, <2>3, <2>4, <2>5, <2>6, HolderSteps
  <1> QED
    BY <1>1, <1>2, GatheredNext
-----------------------------------------------------------------------------
(***************************************************************************)
(* The cache is a map: answers.                                            *)
(***************************************************************************)

\* A get through the rows f and the handles open finds key k.
Sees(nm, d, f, open, k) == /\ k \in DOMAIN f
                           /\ f[k].pack \in open \/ nm[f[k].pack] = "pack"
                           /\ f[k].at <= Len(d[f[k].pack])

\* The variables of the map.
MapStore == Found(Loaded, {})
MapViews == [p \in Procs |-> Found(Known(p), files[p])]
MapAsked == [p \in Procs |-> IF Asking(p) THEN job[p].batch ELSE <<>>]
MapOrigin == [p \in Procs |-> IF Asking(p) THEN job[p].lease ELSE 0]
MapForget == [p \in Procs |-> job[p].over]

LEMMA StoreIs ==
  \A k \in Keys :
    /\ MapStore[k] = IF Has(name, data, Loaded, k) THEN data[Loaded[k].pack][Loaded[k].at] ELSE Miss
    /\ MapStore'[k] = IF Has(name', data', Loaded', k)
                      THEN data'[Loaded'[k].pack][Loaded'[k].at] ELSE Miss
  BY DEF MapStore, Found, Finds, InRange, Has

LEMMA ViewsAre ==
  \A q \in Procs, k \in Keys :
    /\ MapViews[q][k] = IF Sees(name, data, Known(q), files[q], k)
                        THEN data[Known(q)[k].pack][Known(q)[k].at] ELSE Miss
    /\ MapViews'[q][k] = IF Sees(name', data', Known(q)', files'[q], k)
                         THEN data'[Known(q)'[k].pack][Known(q)'[k].at] ELSE Miss
  BY DEF MapViews, Found, Finds, InRange, Sees

\* A process that has no snapshot answers from the map.
LEMMA ViewFollows ==
  ASSUME NEW q \in Procs, files'[q] = {}, Known(q)' = Loaded' \/ SameRows(Known(q)', Loaded')
  PROVE  \A k \in Keys : MapViews'[q][k] = MapStore'[k]
  <1> TAKE k \in Keys
  <1>1. SameRows(Known(q)', Loaded')
    BY DEF SameRows, SamePlace
  <1>2. Sees(name', data', Known(q)', files'[q], k) <=> Has(name', data', Loaded', k)
    BY <1>1 DEF Sees, Has, SameRows, SamePlace
  <1>3. Has(name', data', Loaded', k) =>
          data'[Known(q)'[k].pack][Known(q)'[k].at] = data'[Loaded'[k].pack][Loaded'[k].at]
    BY <1>1 DEF Has, SameRows, SamePlace
  <1> QED
    BY <1>2, <1>3, StoreIs, ViewsAre

\* The handles after a get lead nowhere that the get did not read.
LEMMA OpenedReads ==
  ASSUME NEW open \in SUBSET Packs, NEW i \in Packs, NEW l \in Opened(open, i)
  PROVE  l \in open \/ l = i
  BY DEF Opened

\* An answer is never another frame than the one the process saw, or one of the
\* map.
LEMMA ViewSteps ==
  ASSUME StoreInv, SnapshotsInv, [Next]_vars, NEW q \in Procs
  PROVE  \/ \A k \in Keys : MapViews'[q][k] # Miss => MapViews'[q][k] = MapViews[q][k]
         \/ \A k \in Keys : MapViews'[q][k] # Miss => MapViews'[q][k] = MapStore'[k]
  <1> DEFINE f == Known(q)
             Less == \A k \in Keys : MapViews'[q][k] # Miss => MapViews'[q][k] = MapViews[q][k]
  <1>0. TypeOK /\ f \in Tables /\ f # Unread
        /\ \A k \in DOMAIN f : f[k].pack \in Packs /\ f[k].at \in Nat /\ f[k].at >= 1 /\ Settled(f[k].pack)
    <2>1. TypeOK
      BY DEF StoreInv
    <2>2. \A k \in DOMAIN f : Settled(f[k].pack)
      BY KnownSettled
    <2> QED
      BY <2>1, <2>2, KnownTable
  <1> HIDE DEF f
  <1>1. ASSUME Known(q)' = f,
               \A k \in DOMAIN f : LET i == f[k].pack IN
                 i \in files'[q] \/ name'[i] = "pack" => i \in files[q] \/ name[i] = "pack"
        PROVE  Less
    <2> SUFFICES ASSUME NEW k \in Keys, Sees(name', data', f, files'[q], k)
                 PROVE  /\ Sees(name, data, f, files[q], k)
                        /\ data'[f[k].pack][f[k].at] = data[f[k].pack][f[k].at]
      BY <1>1, ViewsAre DEF f
    <2> DEFINE i == f[k].pack
               n == f[k].at
    <2>1. k \in DOMAIN f /\ i \in Packs /\ n \in Nat /\ n >= 1 /\ n <= Len(data'[i])
          /\ (i \in files[q] \/ name[i] = "pack")
      BY <1>0, <1>1 DEF Sees
    <2>2. Shrinks(i)
      BY <1>0, <2>1, SettledShrinks
    <2>3. Len(data'[i]) \in Nat /\ Len(data[i]) \in Nat
      <3>1. TypeOK'
        BY StepKeeps DEF StoreInv
      <3>2. data'[i] \in Seq(Frames) /\ data[i] \in Seq(Frames)
        BY <1>0, <2>1, <3>1 DEF TypeOK
      <3> QED
        BY <3>2, LenProperties
    <2>4. n <= Len(data[i]) /\ data'[i][n] = data[i][n]
      BY <2>1, <2>2, <2>3 DEF Shrinks
    <2> QED
      BY <2>1, <2>4 DEF Sees
  <1>2. CASE snapshot'[q] = snapshot[q] /\ files'[q] = files[q] /\ snapshot[q] # Unread
    <2>1. Known(q)' = f
      BY <1>2 DEF Known, f
    <2>2. \A i \in Packs : Settled(i) /\ name'[i] = "pack" => name[i] = "pack"
      BY SettledShrinks DEF Shrinks
    <2> QED
      BY <1>0, <1>1, <1>2, <2>1, <2>2
  <1>3. CASE snapshot'[q] = Unread
    <2>1. files'[q] = {} /\ Known(q)' = Loaded'
      <3>1. SnapshotsInv'
        BY SnapshotsKept
      <3> QED
        BY <1>3, <3>1, SnapshotsNext DEF Known
    <2> QED
      BY <2>1, ViewFollows
  <1>4. CASE /\ snapshot'[q] \in Tables /\ SameRows(snapshot'[q], Loaded) /\ files'[q] = {}
             /\ UNCHANGED <<index, name, data>>
    <2>1. Known(q)' = snapshot'[q] /\ Loaded' = Loaded
      BY <1>4, MarksAreNoData DEF Known, Loaded
    <2> QED
      BY <1>4, <2>1, ViewFollows
  <1>5. CASE /\ snapshot'[q] = Known(q) /\ UNCHANGED <<index, name, data>>
             /\ \/ files'[q] = files[q]
                \/ \E k \in DOMAIN Known(q) :
                     /\ Known(q)[k].pack \in files[q] \/ name[Known(q)[k].pack] = "pack"
                     /\ files'[q] = Opened(files[q], Known(q)[k].pack)
    <2>1. Known(q)' = f
      BY <1>0, <1>5 DEF Known, f
    <2>2. \A i \in Packs : i \in files'[q] => i \in files[q] \/ name[i] = "pack"
      <3>1. files[q] \in SUBSET Packs
        BY <1>0 DEF TypeOK
      <3>2. CASE files'[q] = files[q]
        BY <3>2
      <3>3. ASSUME NEW k \in DOMAIN f, f[k].pack \in files[q] \/ name[f[k].pack] = "pack",
                   files'[q] = Opened(files[q], f[k].pack)
            PROVE  \A i \in Packs : i \in files'[q] => i \in files[q] \/ name[i] = "pack"
        BY <1>0, <3>1, <3>3, OpenedReads
      <3> QED
        BY <1>5, <3>2, <3>3 DEF f
    <2> QED
      BY <1>0, <1>1, <1>5, <2>1, <2>2
  <1> QED
    BY <1>2, <1>3, <1>4, <1>5, SnapshotSteps

LEMMA MapViewsStep ==
  ASSUME StoreInv, SnapshotsInv, [Next]_vars
  PROVE  Map!Views
  BY ViewSteps DEF Map!Views, Map!Within, MapViews, MapStore
-----------------------------------------------------------------------------
(***************************************************************************)
(* The cache is a map: steps.                                              *)
(***************************************************************************)

LEMMA StoreSame ==
  ASSUME \A k \in Keys : MapStore'[k] = MapStore[k]
  PROVE  MapStore' = MapStore
  <1>1. MapStore = [k \in Keys |-> MapStore[k]] /\ MapStore' = [k \in Keys |-> MapStore'[k]]
    BY DEF MapStore, Found
  <1> QED
    BY <1>1

\* What a fresh process finds: a frame, of a settled pack.
LEMMA StoreFrames ==
  ASSUME StoreInv, NEW k \in Keys
  PROVE  /\ MapStore[k] # Miss <=> Has(name, data, Loaded, k)
         /\ MapStore[k] # Miss => MapStore[k] \in Frames /\ name[MapStore[k].pack] # "none"
  <1>1. ASSUME Has(name, data, Loaded, k)
        PROVE  MapStore[k] \in Frames /\ name[MapStore[k].pack] # "none"
    <2> DEFINE i == Loaded[k].pack
               n == Loaded[k].at
    <2>1. TypeOK /\ k \in DOMAIN Loaded /\ i \in Packs /\ n \in Nat /\ n >= 1 /\ n <= Len(data[i])
      BY <1>1, Located, LocationFacts DEF StoreInv, Has
    <2>2. n \in DOMAIN data[i]
      BY <2>1, Located
    <2>3. MapStore[k] = data[i][n]
      BY <1>1, StoreIs
    <2> HIDE DEF i, n
    <2> QED
      BY <2>1, <2>2, <2>3, Located DEF StoreInv, MadeInv
  <1> QED
    BY <1>1, StoreIs, MarksAreNoData

\* Pruning takes no file that the index names, and nothing else takes from the
\* map, but damage and the saves of a collection.
LEMMA StoreStays ==
  ASSUME StoreInv, [Next]_vars, ~ Damage, \A p \in Procs : ~ SaveEmpty(p) /\ ~ SaveRename(p)
  PROVE  MapStore' = MapStore
  <1>0. TypeOK /\ Loaded' = Loaded
    BY IndexSteps DEF StoreInv, Loaded
  <1>1. ASSUME NEW k \in DOMAIN Loaded
        PROVE  LET i == Loaded[k].pack IN
               (name'[i] = "pack" <=> name[i] = "pack") /\ data'[i] = data[i]
    <2> DEFINE i == Loaded[k].pack
    <2>1. i \in Packs /\ Settled(i)
      BY <1>0, Located, IndexSettled
    <2>2. ASSUME NEW p \in Procs, PruneRemove(p, i) PROVE Still(i)
      <3>1. index = job[p].entries /\ job[p].entries \in Tables
        BY <1>0, <2>2, JobFields DEF PruneRemove, At, StoreInv, JobsInv, IndexInv
      <3>2. Loaded = job[p].entries
        BY <3>1, CorruptIsNoTable DEF Loaded
      <3>3. name[i] # "pack"
        BY <2>2, <3>2 DEF PruneRemove, Live
      <3>4. name'[i] = "gone" /\ data' = data
        BY <1>0, <2>1, <2>2 DEF PruneRemove, TypeOK
      <3> QED
        BY <3>3, <3>4 DEF Still
    <2>3. Still(i)
      BY <2>1, <2>2, FileSteps
    <2> QED
      BY <2>3 DEF Still
  <1>2. ASSUME NEW k \in Keys PROVE MapStore'[k] = MapStore[k]
    BY <1>0, <1>1, <1>2, StoreIs DEF Has
  <1> QED
    BY <1>2, StoreSame

LEMMA DamageTakes ==
  ASSUME StoreInv, Damage
  PROVE  \A k \in Keys : MapStore'[k] # Miss => MapStore'[k] = MapStore[k]
  <1>0. TypeOK /\ [Next]_vars /\ TypeOK'
    <2>1. [Next]_vars
      BY DEF Next
    <2> QED
      BY <2>1, StepKeeps DEF StoreInv
  <1> SUFFICES ASSUME NEW k \in Keys, Has(name', data', Loaded', k)
               PROVE  MapStore'[k] = MapStore[k]
    BY StoreIs
  <1>1. Loaded' = Loaded \/ Loaded' = <<>>
    BY DEF Damage, Loaded
  <1>2. Loaded' = Loaded /\ k \in DOMAIN Loaded
    BY <1>1, EmptyTable DEF Has
  <1> DEFINE i == Loaded[k].pack
             n == Loaded[k].at
  <1>3. i \in Packs /\ n \in Nat /\ n >= 1 /\ Settled(i)
    BY <1>0, <1>2, Located, LocationFacts, IndexSettled
  <1>4. Shrinks(i) /\ n <= Len(data'[i]) /\ name'[i] = "pack"
    BY <1>0, <1>2, <1>3, SettledShrinks DEF Has
  <1>5. Len(data'[i]) \in Nat /\ Len(data[i]) \in Nat
    <2>1. data'[i] \in Seq(Frames) /\ data[i] \in Seq(Frames)
      BY <1>0, <1>3 DEF TypeOK
    <2> QED
      BY <2>1, LenProperties
  <1>6. n <= Len(data[i]) /\ data'[i][n] = data[i][n] /\ name[i] = "pack"
    BY <1>3, <1>4, <1>5 DEF Shrinks
  <1>7. Has(name, data, Loaded, k)
    BY <1>2, <1>6 DEF Has
  <1> QED
    BY <1>2, <1>6, <1>7, StoreIs

\* Of two frames for one key in a batch, the last one counts.
LEMMA LastCounts ==
  ASSUME NEW b \in Seq(Keys), NEW o, NEW k \in Range(b)
  PROVE  LET m == Max({n \in DOMAIN b : b[n] = k}) IN
         /\ m \in 1 .. Len(b) /\ b[m] = k
         /\ Map!Frame(b, o, k) = [key |-> k, pack |-> o, at |-> m]
  <1> DEFINE In == {n \in DOMAIN b : b[n] = k}
             m == Max(In)
  <1>1. DOMAIN b = 1 .. Len(b) /\ Len(b) \in Nat
    BY LenProperties
  <1>2. In # {} /\ In \in SUBSET Int /\ IsFiniteSet(In)
    <2>1. IsFiniteSet(1 .. Len(b)) /\ In \in SUBSET (1 .. Len(b))
      BY <1>1, FS_Interval
    <2> QED
      BY <1>1, <2>1, FS_Subset DEF Range
  <1>3. m \in In /\ \A y \in In : m >= y
    BY <1>2, MaxExists
  <1> HIDE DEF m
  <1>4. m \in DOMAIN b /\ b[m] = k /\ \A n \in DOMAIN b : b[n] = k => n <= m
    BY <1>1, <1>3
  <1>5. \A n \in DOMAIN b : b[n] = k /\ (\A l \in DOMAIN b : b[l] = k => l <= n) => n = m
    BY <1>1, <1>4
  <1>6. m = CHOOSE n \in DOMAIN b : b[n] = k /\ \A l \in DOMAIN b : b[l] = k => l <= n
    BY <1>4, <1>5
  <1>7. Map!Frame(b, o, k) = [key |-> k, pack |-> o, at |-> m]
    BY <1>6, Zenon DEF Map!Frame
  <1> QED
    BY <1>1, <1>4, <1>7 DEF m

\* A publication puts its whole batch into the map and takes nothing away.
LEMMA PublishPuts ==
  ASSUME StoreInv, GatheredInv, NEW p \in Procs, job[p].batch # <<>>,
         SaveEmpty(p) \/ SaveRename(p), NEW k \in Keys
  PROVE  MapStore'[k] = IF k \in Range(job[p].batch)
                        THEN Map!Frame(job[p].batch, job[p].lease, k) ELSE MapStore[k]
  <1> DEFINE g == job[p]
             b == g.batch
             i == g.lease
  <1>1. /\ TypeOK /\ g \in Jobs /\ b \in Seq(Keys) /\ i # 0 /\ i \in Packs /\ name[i] = "pack"
        /\ Loaded' = g.entries /\ g.pc \in {"save", "rename"} /\ g.at # 0
        /\ UNCHANGED <<name, data>>
    <2>1. g.pc \in {"save", "rename"} /\ UNCHANGED <<name, data>>
      BY DEF SaveEmpty, SaveRename, At
    <2>2. TypeOK /\ i # 0 /\ g.at # 0
      BY DEF StoreInv, JobsInv, Publishing
    <2>3. g \in Jobs /\ b \in Seq(Keys) /\ i \in Packs
      BY <2>2, Sizes, JobFields
    <2>4. name[i] = "pack"
      BY <2>1, <2>2 DEF StoreInv, LeasesInv
    <2> QED
      BY <2>1, <2>2, <2>3, <2>4, SaveRows
  <1>2. BatchIn(g, data, Loaded) /\ BatchAt(g, data)
    <2>1. lock = p
      BY <1>1 DEF StoreInv, JobsInv
    <2> QED
      BY <1>1, <2>1, GatheredIs, BatchesIs DEF StoreInv, WritesBatch, Gathers
  <1>3. CASE k \in Range(b)
    <2> DEFINE m == Max({n \in DOMAIN b : b[n] = k})
    <2>1. /\ m \in 1 .. Len(b) /\ b[m] = k
          /\ Map!Frame(b, i, k) = [key |-> k, pack |-> i, at |-> m]
      BY <1>1, <1>3, LastCounts
    <2>2. Pending(g)[k].pack = i /\ Pending(g)[k].at = m
      BY <1>3 DEF Pending
    <2> HIDE DEF m
    <2>3. /\ k \in DOMAIN g.entries /\ g.entries[k].pack = i /\ g.entries[k].at = m
          /\ Len(data[i]) = Len(b)
      BY <1>2, <1>3, <2>2 DEF BatchIn, SamePlace
    <2>4. m \in DOMAIN data[i]
      BY <1>1, <2>1, <2>3, Located
    <2>5. data[i][m] = [key |-> k, pack |-> i, at |-> m]
      BY <1>2, <2>1, <2>4 DEF BatchAt
    <2>6. m <= Len(data[i])
      BY <1>1, <2>4, Located
    <2>7. Has(name', data', Loaded', k)
      BY <1>1, <2>3, <2>6 DEF Has
    <2> QED
      BY <1>1, <1>3, <2>1, <2>3, <2>5, <2>7, StoreIs
  <1>4. CASE k \notin Range(b)
    <2>1. /\ k \in DOMAIN g.entries <=> k \in DOMAIN Loaded
          /\ k \in DOMAIN Loaded => SamePlace(g.entries[k], Loaded[k])
      BY <1>2, <1>4 DEF BatchIn
    <2>2. Has(name', data', Loaded', k) <=> Has(name, data, Loaded, k)
      BY <1>1, <2>1 DEF Has, SamePlace
    <2>3. Has(name, data, Loaded, k) => data'[Loaded'[k].pack][Loaded'[k].at] = data[Loaded[k].pack][Loaded[k].at]
      BY <1>1, <2>1 DEF Has, SamePlace
    <2> QED
      BY <1>4, <2>2, <2>3, StoreIs
  <1> QED
    BY <1>3, <1>4

\* A collection takes from the map only when it found more than its cap.
LEMMA CollectionTakes ==
  ASSUME StoreInv, GatheredInv, NEW p \in Procs, job[p].batch = <<>>,
         SaveEmpty(p) \/ SaveRename(p), NEW k \in Keys
  PROVE  /\ MapStore'[k] # Miss => MapStore'[k] = MapStore[k]
         /\ ~ job[p].over => MapStore'[k] = MapStore[k]
  <1> DEFINE g == job[p]
  <1>1. /\ TypeOK /\ g.pc \in {"save", "rename"} /\ Loaded' = g.entries /\ UNCHANGED <<name, data>>
        /\ RowsIn(g, name, data, Loaded) /\ (g.lease # 0 => name[g.lease] = "pack")
    <2>1. g.pc \in {"save", "rename"} /\ UNCHANGED <<name, data>>
      BY DEF SaveEmpty, SaveRename, At
    <2>2. TypeOK /\ lock = p /\ (g.lease # 0 => name[g.lease] = "pack")
      BY <2>1 DEF StoreInv, JobsInv, LeasesInv
    <2> QED
      BY <2>1, <2>2, SaveRows, GatheredIs DEF Gathers
  <1>2. ASSUME k \in DOMAIN g.entries PROVE MapStore'[k] = MapStore[k]
    <2>1. CASE CopyIn(g, name, data, Loaded, k)
      <3>1. Has(name', data', Loaded', k)
        BY <1>1, <1>2, <2>1 DEF CopyIn, Has
      <3>2. Has(name, data, Loaded, k)
            /\ data'[Loaded'[k].pack][Loaded'[k].at] = data[Loaded[k].pack][Loaded[k].at]
        BY <1>1, <2>1 DEF CopyIn
      <3> QED
        BY <3>1, <3>2, StoreIs
    <2>2. CASE k \in DOMAIN Loaded /\ SamePlace(g.entries[k], Loaded[k])
      <3>1. Has(name', data', Loaded', k) <=> Has(name, data, Loaded, k)
        BY <1>1, <1>2, <2>2 DEF Has, SamePlace
      <3>2. data'[Loaded'[k].pack][Loaded'[k].at] = data[Loaded[k].pack][Loaded[k].at]
        BY <1>1, <2>2 DEF SamePlace
      <3> QED
        BY <3>1, <3>2, StoreIs
    <2> QED
      BY <1>1, <1>2, <2>1, <2>2 DEF RowsIn
  <1>3. ASSUME k \notin DOMAIN g.entries
        PROVE  MapStore'[k] = Miss /\ (~ g.over => MapStore[k] = Miss)
    <2>1. ~ Has(name', data', Loaded', k) /\ (~ g.over => ~ Has(name, data, Loaded, k))
      BY <1>1, <1>3 DEF Has, RowsIn
    <2> QED
      BY <2>1, StoreIs
  <1> QED
    BY <1>2, <1>3
-----------------------------------------------------------------------------
(* The map's actions, of the variables of the map. *)

LEMMA MapActions ==
  ASSUME NEW p \in Procs
  PROVE  /\ UNCHANGED <<damage, MapAsked, MapOrigin, MapForget, MapStore>> => Map!Read
         /\ /\ MapForget[p] /\ UNCHANGED <<damage, MapAsked, MapOrigin, MapForget>>
            /\ \A k \in Keys : MapStore'[k] # Miss => MapStore'[k] = MapStore[k]
            => Map!Forget(p)
         /\ /\ MapForget' = [MapForget EXCEPT ![p] = FALSE]
            /\ UNCHANGED <<damage, MapAsked, MapOrigin, MapStore>>
            => Map!Collected(p)
         /\ /\ OverCap({k \in Keys : MapStore[k] # Miss})
            /\ MapForget' = [MapForget EXCEPT ![p] = TRUE]
            /\ UNCHANGED <<damage, MapAsked, MapOrigin, MapStore>>
            => Map!Collect(p)
         /\ /\ MapAsked[p] # <<>>
            /\ MapAsked' = [MapAsked EXCEPT ![p] = <<>>] /\ MapOrigin' = [MapOrigin EXCEPT ![p] = 0]
            /\ UNCHANGED <<damage, MapForget, MapStore>>
            => Map!GiveUp(p)
  BY DEF Map!Read, Map!Forget, Map!Collected, Map!Collect, Map!GiveUp, Map!Answered,
         Map!Within, MapStore, MapAsked, MapOrigin, MapForget

LEMMA MapPublish ==
  ASSUME NEW p \in Procs, MapAsked[p] # <<>>,
         MapAsked' = [MapAsked EXCEPT ![p] = <<>>], MapOrigin' = [MapOrigin EXCEPT ![p] = 0],
         UNCHANGED <<damage, MapForget>>,
         \A k \in Keys : MapStore'[k] = IF \E n \in DOMAIN MapAsked[p] : MapAsked[p][n] = k
                                        THEN Map!Frame(MapAsked[p], MapOrigin[p], k)
                                        ELSE MapStore[k]
  PROVE  Map!Publish(p)
  <1>1. MapStore' = [k \in Keys |-> MapStore'[k]]
    BY DEF MapStore, Found
  <1>2. MapStore' = [k \in Keys |-> IF \E n \in DOMAIN MapAsked[p] : MapAsked[p][n] = k
                                    THEN Map!Frame(MapAsked[p], MapOrigin[p], k)
                                    ELSE MapStore[k]]
    BY <1>1
  <1> QED
    BY <1>2 DEF Map!Publish, Map!Answered, MapStore, MapAsked, MapOrigin, MapForget

LEMMA MapAsk ==
  ASSUME NEW p \in Procs, NEW b \in Batches, NEW o \in Packs, MapAsked[p] = <<>>,
         \A q \in Procs : MapOrigin[q] # o,
         \A k \in Keys : MapStore[k] # Miss => MapStore[k].pack # o,
         MapAsked' = [MapAsked EXCEPT ![p] = b], MapOrigin' = [MapOrigin EXCEPT ![p] = o],
         UNCHANGED <<damage, MapForget, MapStore>>
  PROVE  Map!Ask(p)
  BY DEF Map!Ask, MapStore, MapAsked, MapOrigin, MapForget

\* What the map sees of the work of p, and of a step of p.
LEMMA MapWork ==
  ASSUME NEW p \in Procs
  PROVE  /\ MapAsked[p] = IF Asking(p) THEN job[p].batch ELSE <<>>
         /\ MapOrigin[p] = IF Asking(p) THEN job[p].lease ELSE 0
         /\ MapForget[p] = job[p].over
         /\ OthersStay(p) =>
              /\ MapAsked' = [MapAsked EXCEPT ![p] = IF Asking(p)' THEN job'[p].batch ELSE <<>>]
              /\ MapOrigin' = [MapOrigin EXCEPT ![p] = IF Asking(p)' THEN job'[p].lease ELSE 0]
              /\ MapForget' = [MapForget EXCEPT ![p] = job'[p].over]
  <1>1. ASSUME OthersStay(p), NEW q \in Procs \ {p}
        PROVE  job'[q] = job[q] /\ (Asking(q)' <=> Asking(q))
    BY <1>1 DEF OthersStay, Asking, Publishing
  <1> QED
    BY <1>1 DEF MapAsked, MapOrigin, MapForget

\* A step after which the map sees the same work.
LEMMA MapIdle ==
  ASSUME NEW p \in Procs, OthersStay(p), job'[p].over = job[p].over,
         Asking(p)' <=> Asking(p),
         Asking(p) => job'[p].batch = job[p].batch /\ job'[p].lease = job[p].lease
  PROVE  UNCHANGED <<MapAsked, MapOrigin, MapForget>>
  <1>1. /\ MapAsked' = [MapAsked EXCEPT ![p] = MapAsked[p]]
        /\ MapOrigin' = [MapOrigin EXCEPT ![p] = MapOrigin[p]]
        /\ MapForget' = [MapForget EXCEPT ![p] = MapForget[p]]
    BY MapWork
  <1> QED
    BY <1>1 DEF MapAsked, MapOrigin, MapForget

LEMMA MapNoWork ==
  ASSUME job' = job
  PROVE  UNCHANGED <<MapAsked, MapOrigin, MapForget>>
  BY DEF MapAsked, MapOrigin, MapForget, Asking, Publishing

LEMMA OnlyDamageDamages ==
  ASSUME [Next]_vars, ~ Damage
  PROVE  damage' = damage
  <1>1. ASSUME NEW p \in Procs, Work(p) PROVE damage' = damage
    BY <1>1 DEF Work, PublishWrite, PublishMerge, Finish, Save, SaveEmpty, SaveTemp, SaveRename, Replace,
                DropUnlock, DropRemove, Compact, EndCompact, Prune, PruneSkip, PruneRemove,
                PruneVanished, PruneTemps, EndPrune
  <1>2. ASSUME NEW p \in Procs, Read(p) \/ Fail(p) \/ Crash(p) PROVE damage' = damage
    BY <1>2 DEF Read, Get, Touch, Fail, Crash
  <1>3. ASSUME NEW p \in Procs, NEW b \in Batches, PublishLease(p, b) PROVE damage' = damage
    BY <1>3 DEF PublishLease
  <1>4. ASSUME NEW p \in Procs, NEW bounded \in BOOLEAN, Maintain(p, bounded) PROVE damage' = damage
    BY <1>4 DEF Maintain, Collects
  <1> QED
    BY <1>1, <1>2, <1>3, <1>4 DEF Next, Tick, vars

\* A publisher's save publishes its batch; a collector's save forgets, or leaves
\* the map as it is.
LEMMA SaveMaps ==
  ASSUME StoreInv, GatheredInv, NEW p \in Procs, SaveEmpty(p) \/ SaveRename(p)
  PROVE  Map!Publish(p) \/ Map!Forget(p) \/ Map!Read
  <1> DEFINE g == job[p]
  <1>1. /\ TypeOK /\ g \in Jobs /\ g.pc \in {"save", "rename"} /\ Saved(p) /\ damage' = damage
    BY JobFields DEF SaveEmpty, SaveRename, At, StoreInv
  <1>2. /\ OthersStay(p) /\ job'[p].over = g.over /\ job'[p].batch = g.batch
        /\ job'[p].pc \in {"replace", "compact", "prune"}
    BY <1>1, SavedFields
  <1>3. ~ Asking(p)'
    BY <1>2 DEF Asking
  <1>4. CASE g.batch # <<>>
    <2>1. Asking(p) /\ MapAsked[p] = g.batch /\ MapOrigin[p] = g.lease
      BY <1>1, <1>4, MapWork DEF Asking, Publishing
    <2>2. MapAsked' = [MapAsked EXCEPT ![p] = <<>>] /\ MapOrigin' = [MapOrigin EXCEPT ![p] = 0]
      BY <1>2, <1>3, MapWork
    <2>3. MapForget' = MapForget
      <3>1. MapForget' = [MapForget EXCEPT ![p] = MapForget[p]]
        BY <1>2, MapWork
      <3> QED
        BY <3>1 DEF MapForget
    <2>4. ASSUME NEW k \in Keys
          PROVE  MapStore'[k] = IF \E n \in DOMAIN g.batch : g.batch[n] = k
                                THEN Map!Frame(g.batch, g.lease, k) ELSE MapStore[k]
      <3>1. k \in Range(g.batch) <=> \E n \in DOMAIN g.batch : g.batch[n] = k
        BY DEF Range
      <3> QED
        BY <1>4, <2>4, <3>1, PublishPuts
    <2>5. \A k \in Keys :
            MapStore'[k] = IF \E n \in DOMAIN MapAsked[p] : MapAsked[p][n] = k
                           THEN Map!Frame(MapAsked[p], MapOrigin[p], k) ELSE MapStore[k]
      <3>1. MapAsked[p] = g.batch /\ MapOrigin[p] = g.lease
        BY <2>1
      <3> QED
        BY <2>4, <3>1
    <2>6. MapAsked[p] # <<>> /\ UNCHANGED <<damage, MapForget>>
      BY <1>1, <1>4, <2>1, <2>3
    <2>7. Map!Publish(p)
      BY <2>2, <2>5, <2>6, MapPublish
    <2> QED
      BY <2>7
  <1>5. CASE g.batch = <<>>
    <2>1. UNCHANGED <<MapAsked, MapOrigin, MapForget>>
      <3>1. ~ Asking(p)
        BY <1>5 DEF Asking, Publishing
      <3> QED
        BY <1>2, <1>3, <3>1, MapIdle
    <2>2. \A k \in Keys : /\ MapStore'[k] # Miss => MapStore'[k] = MapStore[k]
                          /\ ~ g.over => MapStore'[k] = MapStore[k]
      BY <1>5, CollectionTakes
    <2>3. CASE g.over
      <3>1. MapForget[p]
        BY <2>3, MapWork
      <3> QED
        BY <1>1, <2>1, <2>2, <3>1, MapActions
    <2>4. CASE ~ g.over
      <3>1. MapStore' = MapStore
        BY <2>2, <2>4, StoreSame
      <3> QED
        BY <1>1, <2>1, <3>1, MapActions
    <2>5. g.over \in BOOLEAN
      BY <1>1 DEF Jobs
    <2> QED
      BY <2>3, <2>4
  <1> QED
    BY <1>4, <1>5

\* A process that ends gives its publication up, or is done with its collection.
LEMMA GivesUpMaps ==
  ASSUME StoreInv, GatheredInv, NEW p \in Procs, GivesUp(p), MapStore' = MapStore, damage' = damage
  PROVE  Map!GiveUp(p) \/ Map!Collected(p) \/ Map!Read
  <1> DEFINE g == job[p]
  <1>1. OthersStay(p) /\ ~ Asking(p)'
    BY DEF GivesUp, Asking, Publishing, Idle
  <1>2. CASE Asking(p)
    <2>1. g.batch # <<>> /\ g.over = FALSE
      <3>1. g.batch # <<>> /\ ~ g.over
        BY <1>2, GatheredIs DEF Asking, Publishing
      <3>2. g \in Jobs
        BY JobFields DEF StoreInv
      <3> QED
        BY <3>1, <3>2 DEF Jobs
    <2>2. MapAsked[p] # <<>> /\ MapForget[p] = FALSE /\ job'[p].over = FALSE
      BY <1>2, <2>1, MapWork DEF GivesUp, Idle
    <2>3. /\ MapAsked' = [MapAsked EXCEPT ![p] = <<>>] /\ MapOrigin' = [MapOrigin EXCEPT ![p] = 0]
          /\ MapForget' = [MapForget EXCEPT ![p] = MapForget[p]]
      BY <1>1, <2>2, MapWork
    <2>4. MapForget' = MapForget
      BY <2>3 DEF MapForget
    <2> QED
      BY <2>2, <2>3, <2>4, MapActions
  <1>3. CASE ~ Asking(p) /\ job'[p] = Idle
    <2>1. MapAsked[p] = <<>> /\ MapOrigin[p] = 0 /\ job'[p].over = FALSE
      BY <1>3, MapWork DEF Idle
    <2>2. /\ MapAsked' = [MapAsked EXCEPT ![p] = MapAsked[p]]
          /\ MapOrigin' = [MapOrigin EXCEPT ![p] = MapOrigin[p]]
          /\ MapForget' = [MapForget EXCEPT ![p] = FALSE]
      BY <1>1, <2>1, MapWork
    <2>3. UNCHANGED <<MapAsked, MapOrigin>>
      BY <2>2 DEF MapAsked, MapOrigin
    <2> QED
      BY <2>2, <2>3, MapActions
  <1>4. CASE ~ Asking(p) /\ job'[p].over = g.over
    <2>1. UNCHANGED <<MapAsked, MapOrigin, MapForget>>
      BY <1>1, <1>4, MapIdle
    <2> QED
      BY <2>1, MapActions
  <1> QED
    BY <1>2, <1>3, <1>4 DEF GivesUp

\* A publication asks with a batch and a name that nothing in the map has.
LEMMA PublishLeaseMaps ==
  ASSUME StoreInv, NEW p \in Procs, NEW b \in Batches, PublishLease(p, b),
         MapStore' = MapStore, damage' = damage
  PROVE  Map!Ask(p)
  <1> DEFINE o == job'[p].lease
  <1>1. /\ OthersStay(p) /\ job[p] = Idle /\ b # <<>> /\ job'[p].pc = "write" /\ job'[p].batch = b
        /\ job'[p].over = FALSE /\ o \in Packs /\ name[o] = "none"
    BY PublishLeaseFields
  <1> HIDE DEF o
  <1>2. Asking(p)' /\ ~ Asking(p) /\ job[p].over = FALSE
    BY <1>1 DEF Asking, Publishing, Idle
  <1>3. MapAsked[p] = <<>> /\ MapForget[p] = FALSE
    BY <1>2, MapWork
  <1>4. /\ MapAsked' = [MapAsked EXCEPT ![p] = b] /\ MapOrigin' = [MapOrigin EXCEPT ![p] = o]
        /\ MapForget' = [MapForget EXCEPT ![p] = MapForget[p]]
    BY <1>1, <1>2, <1>3, MapWork DEF o
  <1>5. MapForget' = MapForget
    BY <1>4 DEF MapForget
  <1>6. ASSUME NEW q \in Procs PROVE MapOrigin[q] # o
    <2>1. o # 0
      BY <1>1, PacksFinite
    <2>2. job[q].lease # 0 => name[job[q].lease] # "none"
      BY DEF StoreInv, LeasesInv
    <2> QED
      BY <1>1, <2>1, <2>2, MapWork
  <1>7. ASSUME NEW k \in Keys, MapStore[k] # Miss PROVE MapStore[k].pack # o
    BY <1>1, <1>7, StoreFrames
  <1> QED
    BY <1>1, <1>3, <1>4, <1>5, <1>6, <1>7, MapAsk

\* A collection that finds more than its cap may forget.
LEMMA MaintainMaps ==
  ASSUME StoreInv, GatheredInv, NEW p \in Procs, NEW bounded \in BOOLEAN, Maintain(p, bounded),
         MapStore' = MapStore, damage' = damage
  PROVE  Map!Collect(p) \/ Map!Read
  <1>1. PICK cap \in Caps : Collects(p, bounded, cap)
    BY DEF Maintain
  <1>2. OthersStay(p) /\ job[p] = Idle /\ job'[p].batch = <<>>
    BY <1>1, CollectsFields
  <1>3. ~ Asking(p) /\ ~ Asking(p)' /\ job[p].over = FALSE
    BY <1>2 DEF Asking, Publishing, Idle
  <1>4. job'[p].over <=> ~ Within({k \in Keys : Has(name, data, Loaded, k)}, cap)
    BY <1>1, CollectsGathers
  <1>5. {k \in Keys : Has(name, data, Loaded, k)} = {k \in Keys : MapStore[k] # Miss}
    BY StoreFrames
  <1>6. job'[p].over \in BOOLEAN
    <2>1. StoreInv'
      BY StepKeeps DEF Next
    <2>2. TypeOK'
      BY <2>1 DEF StoreInv
    <2>3. job'[p] \in Jobs
      BY <2>2 DEF TypeOK
    <2> QED
      BY <2>3 DEF Jobs
  <1>7. CASE job'[p].over = FALSE
    <2>1. UNCHANGED <<MapAsked, MapOrigin, MapForget>>
      BY <1>2, <1>3, <1>7, MapIdle
    <2> QED
      BY <2>1, MapActions
  <1>8. CASE job'[p].over = TRUE
    <2>1. OverCap({k \in Keys : MapStore[k] # Miss})
      BY <1>4, <1>5, <1>8 DEF OverCap
    <2>2. MapAsked[p] = <<>> /\ MapOrigin[p] = 0
      BY <1>3, MapWork
    <2>3. /\ MapAsked' = [MapAsked EXCEPT ![p] = MapAsked[p]]
          /\ MapOrigin' = [MapOrigin EXCEPT ![p] = MapOrigin[p]]
          /\ MapForget' = [MapForget EXCEPT ![p] = TRUE]
      BY <1>2, <1>3, <1>8, <2>2, MapWork
    <2>4. UNCHANGED <<MapAsked, MapOrigin>>
      BY <2>3 DEF MapAsked, MapOrigin
    <2> QED
      BY <2>1, <2>3, <2>4, MapActions
  <1> QED
    BY <1>6, <1>7, <1>8

\* Every step of the store is a step of the map.
LEMMA StepMaps ==
  ASSUME CacheInv, [Next]_vars
  PROVE  [Map!Next]_(Map!vars)
  <1>0. StoreInv /\ SnapshotsInv /\ GatheredInv
    BY DEF CacheInv
  <1>1. Map!Views
    BY <1>0, MapViewsStep
  <1> DEFINE Step == \/ Map!Read \/ Map!Lose
                     \/ \E p \in Procs : \/ Map!Ask(p) \/ Map!Publish(p) \/ Map!GiveUp(p)
                                         \/ Map!Collect(p) \/ Map!Forget(p) \/ Map!Collected(p)
  <1>2. ASSUME NEW p \in Procs, SaveEmpty(p) \/ SaveRename(p) PROVE Step
    BY <1>0, <1>2, SaveMaps
  <1>3. ASSUME Damage PROVE Step
    <2>1. job' = job /\ damage' = damage + 1
      BY <1>3 DEF Damage
    <2>2. UNCHANGED <<MapAsked, MapOrigin, MapForget>>
      BY <2>1, MapNoWork
    <2>3. \A k \in Keys : MapStore'[k] # Miss => MapStore'[k] = MapStore[k]
      BY <1>0, <1>3, DamageTakes
    <2> QED
      BY <2>1, <2>2, <2>3 DEF Map!Lose, Map!Within, MapStore, MapAsked, MapOrigin, MapForget
  <1>4. ASSUME ~ Damage, \A p \in Procs : ~ SaveEmpty(p) /\ ~ SaveRename(p) PROVE Step
    <2>1. MapStore' = MapStore /\ damage' = damage
      BY <1>0, <1>4, StoreStays, OnlyDamageDamages
    <2>2. ASSUME UNCHANGED <<MapAsked, MapOrigin, MapForget>> PROVE Map!Read
      BY <2>1, <2>2 DEF Map!Read, MapStore, MapAsked, MapOrigin, MapForget
    <2>3. ASSUME NEW p \in Procs, GoesOn(p) PROVE Map!Read
      <3>1. OthersStay(p) /\ job'[p].over = job[p].over /\ (Asking(p)' <=> Asking(p))
            /\ (Asking(p) => job'[p].batch = job[p].batch /\ job'[p].lease = job[p].lease)
        BY <2>3 DEF GoesOn, Asking
      <3> QED
        BY <2>2, <3>1, MapIdle
    <2>4. ASSUME NEW p \in Procs, GivesUp(p) PROVE Step
      BY <1>0, <2>1, <2>4, GivesUpMaps
    <2>5. ASSUME NEW p \in Procs, NEW b \in Batches, PublishLease(p, b) PROVE Step
      BY <1>0, <2>1, <2>5, PublishLeaseMaps
    <2>6. ASSUME NEW p \in Procs, NEW bounded \in BOOLEAN, Maintain(p, bounded) PROVE Step
      BY <1>0, <2>1, <2>6, MaintainMaps
    <2>7. job' = job => Map!Read
      BY <2>2, MapNoWork
    <2> HIDE DEF Step
    <2>8. Map!Read => Step
      BY DEF Step
    <2> QED
      BY <1>0, <1>4, <2>3, <2>4, <2>5, <2>6, <2>7, <2>8, JobSteps
  <1> HIDE DEF Step
  <1>5. Step
    BY <1>2, <1>3, <1>4
  <1> QED
    BY <1>1, <1>5 DEF Map!Next, Step
-----------------------------------------------------------------------------
(***************************************************************************)
(* Sums over finite sets.                                                  *)
(***************************************************************************)

\* A set of finite sets with a member has one that has no smaller one in it.
LEMMA LeastSet ==
  ASSUME NEW S, IsFiniteSet(S), NEW T \in SUBSET (SUBSET S), T # {}
  PROVE  \E s \in T : \A r \in SUBSET s : r \in T => r = s
  <1>1. IsWellFoundedOn(StrictSubsetOrdering(S), SUBSET S)
    BY FS_StrictSubsetOrderingWellFounded, FS_FiniteSubsetsOfFinite
  <1>2. PICK s \in T : \A r \in T : ~ (<<r, s>> \in StrictSubsetOrdering(S))
    BY <1>1, WFMin
  <1>3. ASSUME NEW r \in SUBSET s, r \in T PROVE r = s
    BY <1>2, <1>3 DEF StrictSubsetOrdering
  <1> QED
    BY <1>3

Pick(s) == CHOOSE x \in s : TRUE

\* g adds f up over the parts of S.
Adds(g, f, S) ==
  g = [s \in SUBSET S |-> IF s = {} THEN 0 ELSE f[Pick(s)] + g[s \ {Pick(s)}]]

LEMMA SumIs ==
  ASSUME NEW f, NEW S
  PROVE  SumFunctionOnSet(f, S) = (CHOOSE g : Adds(g, f, S))[S]
  BY DEF SumFunctionOnSet, FoldFunctionOnSet, MapThenFoldSet, Adds, Pick

Total(f, s) == (CHOOSE g : Adds(g, f, s))[s]

\* Two that add f up agree, and a part of one adds up a part.
LEMMA AddsAgree ==
  ASSUME NEW f, NEW S, IsFiniteSet(S), NEW g, NEW h, Adds(g, f, S), Adds(h, f, S),
         NEW r \in SUBSET S
  PROVE  g[r] = h[r]
  <1> DEFINE T == {s \in SUBSET S : g[s] # h[s]}
  <1>1. SUFFICES ASSUME T # {} PROVE FALSE
    OBVIOUS
  <1>2. PICK s \in T : \A u \in SUBSET s : u \in T => u = s
    <2>1. T \in SUBSET (SUBSET S)
      OBVIOUS
    <2> HIDE DEF T
    <2> QED
      BY <1>1, <2>1, LeastSet
  <1>3. \A u \in SUBSET S :
          /\ g[u] = IF u = {} THEN 0 ELSE f[Pick(u)] + g[u \ {Pick(u)}]
          /\ h[u] = IF u = {} THEN 0 ELSE f[Pick(u)] + h[u \ {Pick(u)}]
    <2>1. SUFFICES ASSUME NEW u \in SUBSET S
                   PROVE  /\ g[u] = IF u = {} THEN 0 ELSE f[Pick(u)] + g[u \ {Pick(u)}]
                          /\ h[u] = IF u = {} THEN 0 ELSE f[Pick(u)] + h[u \ {Pick(u)}]
      OBVIOUS
    <2> DEFINE G(x) == IF x = {} THEN 0 ELSE f[Pick(x)] + g[x \ {Pick(x)}]
               H(x) == IF x = {} THEN 0 ELSE f[Pick(x)] + h[x \ {Pick(x)}]
    <2>2. g = [x \in SUBSET S |-> G(x)] /\ h = [x \in SUBSET S |-> H(x)]
      BY DEF Adds
    <2> HIDE DEF G, H
    <2>3. g[u] = G(u) /\ h[u] = H(u)
      BY <2>2
    <2> QED
      BY <2>3 DEF G, H
  <1>4. s # {} /\ s \in SUBSET S
    BY <1>2, <1>3
  <1>5. Pick(s) \in s
    BY <1>4 DEF Pick
  <1>6. s \ {Pick(s)} \notin T /\ s \ {Pick(s)} \in SUBSET S
    BY <1>2, <1>4, <1>5
  <1>7. g[s \ {Pick(s)}] = h[s \ {Pick(s)}]
    BY <1>6
  <1>8. g[s] = f[Pick(s)] + g[s \ {Pick(s)}] /\ h[s] = f[Pick(s)] + h[s \ {Pick(s)}]
    BY <1>3, <1>4
  <1>9. g[s] = h[s]
    BY <1>7, <1>8
  <1> QED
    BY <1>2, <1>9

LEMMA AddsPart ==
  ASSUME NEW f, NEW S, NEW g, Adds(g, f, S), NEW R \in SUBSET S
  PROVE  Adds([r \in SUBSET R |-> g[r]], f, R)
  <1> DEFINE h == [r \in SUBSET R |-> g[r]]
             G(x) == IF x = {} THEN 0 ELSE f[Pick(x)] + g[x \ {Pick(x)}]
             H(x) == IF x = {} THEN 0 ELSE f[Pick(x)] + h[x \ {Pick(x)}]
  <1>1. g = [x \in SUBSET S |-> G(x)]
    BY DEF Adds
  <1>2. \A r \in SUBSET R : G(r) = H(r)
    <2>1. \A r \in SUBSET R : r \ {Pick(r)} \in SUBSET R
      OBVIOUS
    <2>2. \A r \in SUBSET R : h[r \ {Pick(r)}] = g[r \ {Pick(r)}]
      BY <2>1
    <2> QED
      BY <2>2
  <1> HIDE DEF G, H
  <1>3. \A r \in SUBSET R : g[r] = G(r)
    BY <1>1
  <1>4. h = [r \in SUBSET R |-> H(r)]
    BY <1>2, <1>3
  <1> QED
    BY <1>4 DEF H, Adds

\* A total, where there is one, is what one member adds to the total of the rest.
LEMMA TotalStep ==
  ASSUME NEW f, NEW s, IsFiniteSet(s), \E g : Adds(g, f, s)
  PROVE  Total(f, s) = IF s = {} THEN 0 ELSE f[Pick(s)] + Total(f, s \ {Pick(s)})
  <1> DEFINE g == CHOOSE h : Adds(h, f, s)
             u == s \ {Pick(s)}
             h == [r \in SUBSET u |-> g[r]]
             c == CHOOSE k : Adds(k, f, u)
  <1>1. Adds(g, f, s)
    OBVIOUS
  <1>2. g[s] = IF s = {} THEN 0 ELSE f[Pick(s)] + g[u]
    <2> HIDE DEF g
    <2> DEFINE G(x) == IF x = {} THEN 0 ELSE f[Pick(x)] + g[x \ {Pick(x)}]
    <2>1. g = [x \in SUBSET s |-> G(x)]
      BY <1>1 DEF Adds
    <2> HIDE DEF G
    <2>2. g[s] = G(s)
      BY <2>1
    <2> QED
      BY <2>2 DEF G
  <1>3. Adds(h, f, u)
    <2> HIDE DEF g
    <2> QED
      BY <1>1, AddsPart
  <1>4. Adds(c, f, u)
    <2> HIDE DEF h
    <2> QED
      BY <1>3
  <1>5. IsFiniteSet(u)
    BY FS_Subset
  <1>6. c[u] = h[u]
    <2>1. u \in SUBSET u
      OBVIOUS
    <2> HIDE DEF c, h, u
    <2> QED
      BY <1>3, <1>4, <1>5, <2>1, AddsAgree
  <1>7. h[u] = g[u]
    <2> HIDE DEF g
    <2> QED
      OBVIOUS
  <1>8. Total(f, s) = g[s] /\ Total(f, u) = c[u]
    BY DEF Total
  <1> HIDE DEF g, h, c, u
  <1> QED
    BY <1>2, <1>6, <1>7, <1>8 DEF u

LEMMA AddsExist ==
  ASSUME NEW f, NEW S, IsFiniteSet(S)
  PROVE  \E g : Adds(g, f, S)
  <1> DEFINE T == {s \in SUBSET S : ~ \E g : Adds(g, f, s)}
  <1>1. SUFFICES ASSUME T # {} PROVE FALSE
    OBVIOUS
  <1>2. PICK s \in T : \A u \in SUBSET s : u \in T => u = s
    <2>1. T \in SUBSET (SUBSET S)
      OBVIOUS
    <2> HIDE DEF T
    <2> QED
      BY <1>1, <2>1, LeastSet
  <1> DEFINE V(r) == IF r = {} THEN 0 ELSE f[Pick(r)] + Total(f, r \ {Pick(r)})
             h == [r \in SUBSET s |-> IF r = s THEN V(s) ELSE Total(f, r)]
             H(r) == IF r = {} THEN 0 ELSE f[Pick(r)] + h[r \ {Pick(r)}]
  <1>3. ASSUME NEW r \in SUBSET s PROVE h[r] = V(r)
    <2>1. CASE r = s
      BY <2>1
    <2>2. CASE r # s
      <3>1. r \in SUBSET S /\ r \notin T
        BY <1>2, <2>2
      <3>2. IsFiniteSet(r) /\ \E g : Adds(g, f, r)
        BY <3>1, FS_Subset
      <3>3. Total(f, r) = V(r)
        BY <3>2, TotalStep
      <3> HIDE DEF V
      <3> QED
        BY <2>2, <3>3
    <2> QED
      BY <2>1, <2>2
  <1>4. ASSUME NEW r \in SUBSET s PROVE V(r) = H(r)
    <2>1. CASE r = {}
      BY <2>1
    <2>2. CASE r # {}
      <3>1. Pick(r) \in r
        BY <2>2 DEF Pick
      <3>2. r \ {Pick(r)} \in SUBSET s /\ r \ {Pick(r)} # s
        BY <3>1
      <3>3. h[r \ {Pick(r)}] = Total(f, r \ {Pick(r)})
        <4> HIDE DEF V
        <4> QED
          BY <3>2
      <3> HIDE DEF h
      <3> QED
        BY <2>2, <3>3
    <2> QED
      BY <2>1, <2>2
  <1>5. h = [r \in SUBSET s |-> H(r)]
    <2>1. h = [r \in SUBSET s |-> h[r]]
      <3> HIDE DEF V, H
      <3> QED
        OBVIOUS
    <2> HIDE DEF h, V, H
    <2> QED
      BY <1>3, <1>4, <2>1
  <1>6. Adds(h, f, s)
    <2> HIDE DEF h
    <2> QED
      BY <1>5 DEF Adds
  <1> QED
    BY <1>2, <1>6

(***************************************************************************)
(* What is used of a sum: it is a number, any member can be taken out of   *)
(* it, and it grows with its set and its numbers.                          *)
(***************************************************************************)
SumOf(f, s) == SumFunctionOnSet(f, s)

LEMMA SumStep ==
  ASSUME NEW f, NEW s, IsFiniteSet(s)
  PROVE  SumOf(f, s) = IF s = {} THEN 0 ELSE f[Pick(s)] + SumOf(f, s \ {Pick(s)})
  <1>1. \A u : SumOf(f, u) = Total(f, u)
    BY SumIs DEF SumOf, Total
  <1>2. Total(f, s) = IF s = {} THEN 0 ELSE f[Pick(s)] + Total(f, s \ {Pick(s)})
    BY AddsExist, TotalStep
  <1> QED
    BY <1>1, <1>2

LEMMA SumNat ==
  ASSUME NEW f, NEW S, IsFiniteSet(S), \A x \in S : f[x] \in Nat
  PROVE  \A s \in SUBSET S : IsFiniteSet(s) /\ SumOf(f, s) \in Nat
  <1> DEFINE T == {s \in SUBSET S : SumOf(f, s) \notin Nat}
  <1>0. \A s \in SUBSET S : IsFiniteSet(s)
    BY FS_Subset
  <1>1. SUFFICES ASSUME T # {} PROVE FALSE
    BY <1>0
  <1>2. PICK s \in T : \A u \in SUBSET s : u \in T => u = s
    <2>1. T \in SUBSET (SUBSET S)
      OBVIOUS
    <2> HIDE DEF T
    <2> QED
      BY <1>1, <2>1, LeastSet
  <1>3. SumOf(f, s) = IF s = {} THEN 0 ELSE f[Pick(s)] + SumOf(f, s \ {Pick(s)})
    BY <1>0, SumStep
  <1>4. SumOf(f, s) \notin Nat /\ s # {}
    BY <1>2, <1>3
  <1>5. Pick(s) \in s /\ s \in SUBSET S
    BY <1>4 DEF Pick
  <1>6. SumOf(f, s \ {Pick(s)}) \in Nat /\ f[Pick(s)] \in Nat
    BY <1>2, <1>5
  <1> QED
    BY <1>3, <1>4, <1>6

LEMMA SumOut ==
  ASSUME NEW f, NEW S, IsFiniteSet(S), \A x \in S : f[x] \in Nat,
         NEW s \in SUBSET S, NEW x \in s
  PROVE  SumOf(f, s) = f[x] + SumOf(f, s \ {x})
  <1> DEFINE T == {r \in SUBSET S : \E y \in r : SumOf(f, r) # f[y] + SumOf(f, r \ {y})}
  <1>1. SUFFICES ASSUME T # {} PROVE FALSE
    OBVIOUS
  <1>2. PICK r \in T : \A u \in SUBSET r : u \in T => u = r
    <2>1. T \in SUBSET (SUBSET S)
      OBVIOUS
    <2> HIDE DEF T
    <2> QED
      BY <1>1, <2>1, LeastSet
  <1>3. PICK y \in r : SumOf(f, r) # f[y] + SumOf(f, r \ {y})
    OBVIOUS
  <1> DEFINE z == Pick(r)
  <1>4. z \in r /\ r \in SUBSET S
    BY <1>3 DEF Pick
  <1>5. SumOf(f, r) = f[z] + SumOf(f, r \ {z})
    BY <1>3, FS_Subset, SumStep
  <1> HIDE DEF z
  <1>6. y # z
    BY <1>3, <1>5
  <1>7. r \ {z} \in SUBSET S /\ r \ {z} \notin T /\ r \ {y} \in SUBSET S /\ r \ {y} \notin T
    BY <1>2, <1>3, <1>4
  <1>8. SumOf(f, r \ {z}) = f[y] + SumOf(f, (r \ {z}) \ {y})
    BY <1>3, <1>6, <1>7
  <1>9. SumOf(f, r \ {y}) = f[z] + SumOf(f, (r \ {y}) \ {z})
    BY <1>4, <1>6, <1>7
  <1>10. (r \ {z}) \ {y} = (r \ {y}) \ {z}
    OBVIOUS
  <1>11. f[y] \in Nat /\ f[z] \in Nat /\ SumOf(f, (r \ {y}) \ {z}) \in Nat
    <2>1. (r \ {y}) \ {z} \in SUBSET S
      BY <1>4
    <2> QED
      BY <1>3, <1>4, <2>1, SumNat
  <1> DEFINE a == f[y]
             b == f[z]
             c == SumOf(f, (r \ {y}) \ {z})
  <1>12. a + (b + c) = b + (a + c)
    <2> HIDE DEF a, b, c
    <2>1. a \in Nat /\ b \in Nat /\ c \in Nat
      BY <1>11 DEF a, b, c
    <2> QED
      BY <2>1
  <1>13. SumOf(f, r) = f[y] + SumOf(f, r \ {y})
    BY <1>5, <1>8, <1>9, <1>10, <1>12
  <1> QED
    BY <1>3, <1>13

LEMMA SumGrows ==
  ASSUME NEW f, NEW g, NEW S, IsFiniteSet(S), NEW R \in SUBSET S,
         \A x \in S : g[x] \in Nat, \A x \in R : f[x] \in Nat /\ f[x] <= g[x]
  PROVE  SumOf(f, R) <= SumOf(g, S)
  <1> DEFINE T == {s \in SUBSET S : ~ (SumOf(f, R \intersect s) <= SumOf(g, s))}
  <1>1. SUFFICES ASSUME T # {} PROVE FALSE
    <2>1. S \in SUBSET S /\ R \intersect S = R
      OBVIOUS
    <2> QED
      BY <2>1
  <1>2. PICK s \in T : \A u \in SUBSET s : u \in T => u = s
    <2>1. T \in SUBSET (SUBSET S)
      OBVIOUS
    <2> HIDE DEF T
    <2> QED
      BY <1>1, <2>1, LeastSet
  <1>0. /\ IsFiniteSet(R) /\ s \in SUBSET S
        /\ \A u \in SUBSET R : SumOf(f, u) \in Nat
        /\ \A u \in SUBSET S : SumOf(g, u) \in Nat
    BY FS_Subset, SumNat
  <1>6. ~ (SumOf(f, R \intersect s) <= SumOf(g, s))
    OBVIOUS
  <1>3. CASE s = {}
    <2>1. SumOf(f, {}) = 0 /\ SumOf(g, {}) = 0
      BY FS_EmptySet, SumStep
    <2>2. R \intersect s = {}
      BY <1>3
    <2> QED
      BY <1>3, <1>6, <2>1, <2>2
  <1>4. ASSUME NEW x \in s PROVE FALSE
    <2> DEFINE u == s \ {x}
    <2>1. u \in SUBSET S /\ u \notin T
      BY <1>2, <1>4
    <2>2. SumOf(f, R \intersect u) <= SumOf(g, u)
      BY <2>1
    <2>3. SumOf(g, s) = g[x] + SumOf(g, u)
      BY <1>0, <1>4, SumOut
    <2>4. CASE x \in R
      <3>1. SumOf(f, R \intersect s) = f[x] + SumOf(f, (R \intersect s) \ {x})
        <4>1. R \intersect s \in SUBSET R /\ x \in R \intersect s
          BY <1>4, <2>4
        <4> QED
          BY <1>0, <4>1, SumOut
      <3>2. (R \intersect s) \ {x} = R \intersect u
        OBVIOUS
      <3>3. f[x] \in Nat /\ g[x] \in Nat /\ f[x] <= g[x]
        BY <2>4
      <3> DEFINE a == SumOf(f, R \intersect u)
                 b == SumOf(g, u)
      <3>4. a \in Nat /\ b \in Nat /\ a <= b
        BY <1>0, <2>1, <2>2
      <3> HIDE DEF a, b
      <3>5. f[x] + a <= g[x] + b
        BY <3>3, <3>4
      <3>6. SumOf(f, R \intersect s) = f[x] + a /\ SumOf(g, s) = g[x] + b
        BY <2>3, <3>1, <3>2 DEF a, b
      <3> QED
        BY <1>6, <3>5, <3>6
    <2>5. CASE x \notin R
      <3>1. R \intersect s = R \intersect u
        BY <2>5
      <3>2. g[x] \in Nat
        BY <1>0, <1>4
      <3> DEFINE a == SumOf(f, R \intersect u)
                 b == SumOf(g, u)
      <3>3. a \in Nat /\ b \in Nat /\ a <= b
        BY <1>0, <2>1, <2>2
      <3> HIDE DEF a, b
      <3>4. a <= g[x] + b
        BY <3>2, <3>3
      <3>5. SumOf(f, R \intersect s) = a /\ SumOf(g, s) = g[x] + b
        BY <2>3, <3>1 DEF a, b
      <3> QED
        BY <1>6, <3>4, <3>5
    <2> QED
      BY <2>4, <2>5
  <1> QED
    BY <1>3, <1>4

\* Numbers no larger than the rows that lead to each pack, times a unit, add up
\* to no more than all the rows, times the unit.
LEMMA SumOfParts ==
  ASSUME NEW f, NEW S, IsFiniteSet(S), NEW rows, IsFiniteSet(DOMAIN rows), NEW unit \in Nat,
         \A i \in S : f[i] \in Nat /\ f[i] <= unit * Cardinality(InPack(rows, i))
  PROVE  SumOf(f, S) <= unit * Cardinality(DOMAIN rows)
  <1> DEFINE L(s) == {k \in DOMAIN rows : rows[k].pack \in s}
             T == {s \in SUBSET S : ~ (SumOf(f, s) <= unit * Cardinality(L(s)))}
  <1>0. /\ \A s : IsFiniteSet(L(s)) /\ Cardinality(L(s)) \in Nat
        /\ \A s \in SUBSET S : SumOf(f, s) \in Nat
        /\ Cardinality(DOMAIN rows) \in Nat /\ Cardinality(L(S)) <= Cardinality(DOMAIN rows)
    BY FS_Subset, FS_CardinalityType, SumNat
  <1>1. SUFFICES ASSUME T # {} PROVE FALSE
    <2>1. SumOf(f, S) <= unit * Cardinality(L(S))
      BY <1>1
    <2> DEFINE a == Cardinality(L(S))
               b == Cardinality(DOMAIN rows)
               c == SumOf(f, S)
    <2>2. a \in Nat /\ b \in Nat /\ a <= b /\ c \in Nat /\ c <= unit * a
      BY <1>0, <2>1
    <2> HIDE DEF a, b, c
    <2>3. unit * a <= unit * b
      BY <2>2
    <2>4. c <= unit * b
      BY <2>2, <2>3
    <2> QED
      BY <2>4 DEF b, c
  <1>2. PICK s \in T : \A u \in SUBSET s : u \in T => u = s
    <2>1. T \in SUBSET (SUBSET S)
      OBVIOUS
    <2> HIDE DEF T
    <2> QED
      BY <1>1, <2>1, LeastSet
  <1>3. s \in SUBSET S /\ ~ (SumOf(f, s) <= unit * Cardinality(L(s)))
    OBVIOUS
  <1>4. CASE s = {}
    <2>1. SumOf(f, s) = 0
      BY <1>4, FS_EmptySet, SumStep
    <2> DEFINE a == Cardinality(L(s))
    <2>2. a \in Nat
      BY <1>0
    <2> HIDE DEF a
    <2>3. 0 <= unit * a
      BY <2>2
    <2> QED
      BY <1>3, <2>1, <2>3 DEF a
  <1>5. ASSUME NEW x \in s PROVE FALSE
    <2> DEFINE u == s \ {x}
               a == Cardinality(L(u))
               b == Cardinality(InPack(rows, x))
               c == SumOf(f, u)
    <2>1. u \in SUBSET S /\ u \notin T
      BY <1>2, <1>3, <1>5
    <2>2. SumOf(f, s) = f[x] + c
      BY <1>3, <1>5, SumOut
    <2>3. L(s) = L(u) \union InPack(rows, x) /\ L(u) \intersect InPack(rows, x) = {}
      BY <1>5 DEF InPack
    <2>4. Cardinality(L(s)) = a + b
      <3>1. IsFiniteSet(L(u)) /\ IsFiniteSet(InPack(rows, x))
        BY <1>0, FS_Subset DEF InPack
      <3> DEFINE M == L(u)
                 N == InPack(rows, x)
      <3>2. IsFiniteSet(M) /\ IsFiniteSet(N) /\ M \intersect N = {}
        BY <2>3, <3>1
      <3> HIDE DEF M, N
      <3>3. Cardinality(M \union N) = Cardinality(M) + Cardinality(N)
        <4>1. Cardinality(M \union N) = Cardinality(M) + Cardinality(N) - Cardinality(M \intersect N)
          BY <3>2, FS_Union
        <4>2. Cardinality(M \intersect N) = 0
          BY <3>2, FS_EmptySet
        <4>3. Cardinality(M) \in Nat /\ Cardinality(N) \in Nat
          BY <3>2, FS_CardinalityType
        <4> QED
          BY <4>1, <4>2, <4>3
      <3> QED
        BY <2>3, <3>3 DEF M, N
    <2>5. c <= unit * a
      BY <2>1
    <2>6. a \in Nat /\ b \in Nat /\ c \in Nat /\ f[x] \in Nat /\ f[x] <= unit * b
      <3>1. x \in S
        BY <1>3, <1>5
      <3>2. b \in Nat
        BY FS_Subset, FS_CardinalityType DEF InPack
      <3> QED
        BY <1>0, <2>1, <3>1, <3>2
    <2> HIDE DEF a, b, c
    <2>7. f[x] + c <= unit * (a + b)
      <3> DEFINE y == f[x]
                 v == unit * a
                 w == unit * b
      <3>1. v \in Nat /\ w \in Nat /\ y \in Nat /\ y <= w /\ c <= v /\ unit * (a + b) = v + w
        BY <2>5, <2>6
      <3> HIDE DEF y, v, w
      <3>2. y + c <= unit * (a + b)
        BY <2>6, <3>1
      <3> QED
        BY <3>2 DEF y
    <2> QED
      BY <1>3, <2>2, <2>4, <2>7
  <1> QED
    BY <1>4, <1>5

-----------------------------------------------------------------------------
(***************************************************************************)
(* What a row of the index finds is a frame of its key.                    *)
(***************************************************************************)

LEMMA FramesAre ==
  ASSUME StoreInv, FramesInv, NEW k \in Keys, MapStore[k] # Miss
  PROVE  MapStore[k].key = k
  <1>1. Has(name, data, Loaded, k)
    BY StoreFrames
  <1>2. k \in DOMAIN Loaded /\ Finds(Loaded, {}, k)
    BY <1>1 DEF Has, Finds, InRange
  <1> QED
    BY <1>1, <1>2, StoreIs DEF FramesInv, LeadsTo

LEMMA FrameKey ==
  ASSUME NEW b \in Seq(Keys), NEW o, NEW k \in Range(b)
  PROVE  Map!Frame(b, o, k).key = k
  <1> DEFINE m == Max({n \in DOMAIN b : b[n] = k})
  <1>1. Map!Frame(b, o, k) = [key |-> k, pack |-> o, at |-> m]
    BY LastCounts, Zenon
  <1> HIDE DEF m
  <1> QED
    BY <1>1

LEMMA FramesKept ==
  ASSUME StoreInv, GatheredInv, FramesInv, [Next]_vars
  PROVE  FramesInv'
  <1>0. TypeOK /\ TypeOK'
    BY StepKeeps DEF StoreInv
  <1>1. ASSUME NEW k \in Keys, MapStore'[k] # Miss PROVE MapStore'[k].key = k
    <2>1. MapStore[k] # Miss => MapStore[k].key = k
      BY FramesAre
    <2>2. ASSUME NEW p \in Procs, SaveEmpty(p) \/ SaveRename(p), job[p].batch # <<>>
          PROVE  MapStore'[k].key = k
      <3> DEFINE b == job[p].batch
      <3>1. MapStore'[k] = IF k \in Range(b) THEN Map!Frame(b, job[p].lease, k) ELSE MapStore[k]
        BY <2>2, PublishPuts
      <3>2. b \in Seq(Keys)
        BY <1>0, <2>2, JobFields, Sizes
      <3> HIDE DEF b
      <3>3. CASE k \in Range(b)
        <4> DEFINE o == job[p].lease
        <4> HIDE DEF o
        <4>1. Map!Frame(b, o, k).key = k
          BY <3>2, <3>3, FrameKey
        <4> QED
          BY <3>1, <3>3, <4>1 DEF o
      <3>4. CASE k \notin Range(b)
        BY <1>1, <2>1, <3>1, <3>4
      <3> QED
        BY <3>3, <3>4
    <2>3. ASSUME NEW p \in Procs, SaveEmpty(p) \/ SaveRename(p), job[p].batch = <<>>
          PROVE  MapStore'[k].key = k
      BY <1>1, <2>1, <2>3, CollectionTakes
    <2>4. CASE Damage
      BY <1>1, <2>1, <2>4, DamageTakes
    <2>5. CASE ~ Damage /\ \A p \in Procs : ~ SaveEmpty(p) /\ ~ SaveRename(p)
      BY <1>1, <2>1, <2>5, StoreStays
    <2> QED
      BY <2>2, <2>3, <2>4, <2>5
  <1> SUFFICES ASSUME NEW k \in DOMAIN Loaded', Finds(Loaded, {}, k)'
               PROVE  LeadsTo(Loaded[k], k)'
    BY DEF FramesInv
  <1> DEFINE i == Loaded'[k].pack
             n == Loaded'[k].at
  <1>2. Has(name', data', Loaded', k)
    BY DEF Has, Finds, InRange
  <1>3. k \in Keys /\ Loaded'[k] \in Locations
    <2>1. Loaded' \in Tables
      BY <1>0, EmptyTable DEF TypeOK, Loaded
    <2> QED
      BY <2>1, TableFacts
  <1>4. MapStore'[k] = data'[i][n]
    BY <1>2, <1>3, StoreIs
  <1>5. data'[i][n] # Miss
    <2>1. i \in Packs /\ n \in Nat /\ n >= 1 /\ n <= Len(data'[i])
      BY <1>2, <1>3, LocationFacts DEF Has
    <2>2. data'[i] \in Seq(Frames)
      BY <1>0, <2>1 DEF TypeOK
    <2>3. data'[i][n] \in Frames
      <3>1. Len(data'[i]) \in Nat /\ DOMAIN data'[i] = 1 .. Len(data'[i])
        BY <2>2, LenProperties
      <3> HIDE DEF i, n
      <3>2. n \in DOMAIN data'[i]
        BY <2>1, <3>1
      <3> QED
        BY <2>2, <3>2
    <2> QED
      BY <2>3, MarksAreNoData
  <1>6. data'[i][n].key = k
    BY <1>1, <1>3, <1>4, <1>5
  <1> QED
    BY <1>2, <1>6 DEF LeadsTo, InRange, Has

-----------------------------------------------------------------------------
(***************************************************************************)
(* A collection's steps.                                                   *)
(***************************************************************************)

\* A step is one of process p, or leaves its work alone.
LEMMA StepOf ==
  ASSUME StoreInv, [Next]_vars, NEW p \in Procs
  PROVE  \/ job'[p] = job[p]
         \/ \E b \in Batches : PublishLease(p, b)
         \/ \E bounded \in BOOLEAN : Maintain(p, bounded)
         \/ Work(p) \/ Fail(p) \/ Crash(p)
  <1>0. TypeOK
    BY DEF StoreInv
  <1>1. ASSUME NEW q \in Procs, q # p, OthersStay(q) PROVE job'[p] = job[p]
    BY <1>1 DEF OthersStay
  <1>2. ASSUME NEW q \in Procs,
               \/ (\E b \in Batches : PublishLease(q, b))
               \/ (\E bounded \in BOOLEAN : Maintain(q, bounded))
               \/ Work(q) \/ Fail(q) \/ Crash(q)
        PROVE  job' = job \/ OthersStay(q)
    <2>1. ASSUME SaveEmpty(q) \/ SaveRename(q) PROVE OthersStay(q)
      BY <1>0, <2>1, SavedFields DEF SaveEmpty, SaveRename
    <2>2. ASSUME NEW bounded \in BOOLEAN, Maintain(q, bounded) PROVE OthersStay(q)
      BY <2>2, CollectsFields DEF Maintain
    <2>3. ASSUME Fail(q) \/ Crash(q) PROVE OthersStay(q)
      <3>1. \E j : Becomes(q, j)
        BY <2>3 DEF Fail, Crash, Go
      <3> QED
        BY <1>0, <3>1 DEF Becomes, TypeOK, OthersStay
    <2>4. ASSUME Work(q) PROVE job' = job \/ OthersStay(q)
      BY <2>1, <2>4, WorkGoesOn DEF GoesOn
    <2> QED
      BY <1>2, <2>2, <2>3, <2>4, PublishLeaseFields
  <1>3. ASSUME NEW q \in Procs, Read(q) PROVE job' = job
    BY <1>3 DEF Read, Get, Touch
  <1>4. ASSUME Damage \/ Tick \/ UNCHANGED vars PROVE job' = job
    BY <1>4 DEF Damage, Tick, vars
  <1> QED
    BY <1>1, <1>2, <1>3, <1>4 DEF Next

\* The same rows, packs to copy, cap and deadline.
SameSweep(g, h) == /\ g.entries = h.entries /\ g.todo = h.todo /\ g.cap = h.cap
                   /\ g.bounded = h.bounded /\ g.batch = h.batch

Sweeps(g) == g.batch = <<>> /\ g.pc \in {"compact", "finish", "save", "rename", "prune"}

\* When a collection may leave packs uncopied only because of its deadline.
Swept(g) == g.pc = "prune" \/ (g.pc \in {"save", "rename"} /\ g.lease = 0)

\* How a process comes to be sweeping.
LEMMA SweepSteps ==
  ASSUME StoreInv, [Next]_vars, NEW p \in Procs, Sweeps(job'[p])
  PROVE  \/ \E bounded \in BOOLEAN : Maintain(p, bounded)
         \/ Compact(p)
         \/ /\ SameSweep(job'[p], job[p]) /\ Sweeps(job[p])
            /\ Swept(job'[p]) => Swept(job[p]) \/ job[p].todo = {} \/ job[p].bounded
  <1> DEFINE g == job[p]
             h == job'[p]
             Same == /\ SameSweep(h, g) /\ Sweeps(g)
                     /\ Swept(h) => Swept(g) \/ g.todo = {} \/ g.bounded
  <1>0. TypeOK /\ g \in Jobs
    BY JobFields DEF StoreInv
  <1>1. ASSUME NEW j, Becomes(p, j) PROVE h = j
    BY <1>0, <1>1 DEF Becomes, TypeOK
  <1>2. ASSUME Becomes(p, Idle) PROVE FALSE
    <2>1. h = Idle
      BY <1>1, <1>2
    <2> QED
      BY <2>1 DEF Sweeps, Idle
  <1>3. ASSUME NEW pc, Go(p, pc)
        PROVE  h.pc = pc /\ SameSweep(h, g) /\ h.lease = g.lease
    <2>1. h = [g EXCEPT !.pc = pc]
      BY <1>1, <1>3 DEF Go
    <2> QED
      BY <1>0, <2>1 DEF Jobs, SameSweep
  <1>4. ASSUME h = g PROVE Same
    BY <1>4 DEF SameSweep
  <1>5. ASSUME Fail(p) \/ Crash(p) PROVE FALSE
    <2>1. Becomes(p, Idle) \/ Go(p, "drop")
      BY <1>5 DEF Fail, Crash
    <2> QED
      BY <1>2, <1>3, <2>1 DEF Sweeps
  <1>6. ASSUME NEW b \in Batches, PublishLease(p, b) PROVE FALSE
    BY <1>6, PublishLeaseFields DEF Sweeps
  <1>7. ASSUME Replace(p) \/ DropRemove(p) \/ \E i \in Packs : PruneVanished(p, i) PROVE FALSE
    BY <1>2, <1>7 DEF Replace, DropRemove, PruneVanished
  <1>8. ASSUME DropUnlock(p) \/ EndPrune(p) PROVE FALSE
    <2>1. Go(p, "remove") \/ Go(p, "replace")
      BY <1>8 DEF DropUnlock, EndPrune
    <2> QED
      BY <1>3, <2>1 DEF Sweeps
  <1>9. ASSUME Finish(p) PROVE Same
    <2>1. g.pc = "finish" /\ h.pc = "save" /\ SameSweep(h, g) /\ h.lease = g.lease
      BY <1>3, <1>9 DEF Finish, At
    <2>2. g.lease # 0
      BY <2>1 DEF StoreInv, JobsInv
    <2> QED
      BY <2>1, <2>2 DEF Sweeps, Swept, SameSweep
  <1>10. ASSUME SaveTemp(p) PROVE Same
    <2>1. g.pc = "save" /\ h.pc = "rename" /\ SameSweep(h, g) /\ h.lease = g.lease
      BY <1>3, <1>10 DEF SaveTemp, At
    <2> QED
      BY <2>1 DEF Sweeps, Swept, SameSweep
  <1>11. ASSUME PublishMerge(p) PROVE FALSE
    <2>1. g.batch # <<>>
      BY <1>11 DEF PublishMerge, At, StoreInv, JobsInv, Publishing
    <2>2. \E rows : h = [g EXCEPT !.pc = "finish", !.entries = rows]
      BY <1>1, <1>11 DEF PublishMerge
    <2> QED
      BY <1>0, <2>1, <2>2 DEF Jobs, Sweeps
  <1>12. ASSUME EndCompact(p) PROVE Same
    <2>1. g.pc = "compact" /\ (g.todo = {} \/ g.bounded)
      BY <1>12 DEF EndCompact, At, TimeUp
    <2>2. \/ Becomes(p, [g EXCEPT !.pc = "save"])
          \/ \E list : Becomes(p, [g EXCEPT !.pc = "prune", !.list = list, !.did = FALSE])
      BY <1>12, Zenon DEF EndCompact
    <2>3. \/ h = [g EXCEPT !.pc = "save"]
          \/ \E list : h = [g EXCEPT !.pc = "prune", !.list = list, !.did = FALSE]
      BY <1>1, <2>2
    <2>4. SameSweep(h, g)
      BY <1>0, <2>3 DEF Jobs, SameSweep
    <2> QED
      BY <2>1, <2>4 DEF Sweeps, SameSweep
  <1>13. ASSUME SaveEmpty(p) \/ SaveRename(p) PROVE Same
    <2>1. g.pc \in {"save", "rename"} /\ Saved(p)
      BY <1>13 DEF SaveEmpty, SaveRename, At
    <2>2. g.batch = <<>>
      BY <1>0, <2>1, SavedFields DEF Sweeps
    <2>3. CASE g.lease # 0
      <3>1. h = [g EXCEPT !.pc = "compact", !.lease = 0, !.dirty = FALSE, !.did = TRUE]
        BY <1>1, <2>1, <2>2, <2>3 DEF Saved, Publishing
      <3>2. SameSweep(h, g) /\ h.pc = "compact"
        BY <1>0, <3>1 DEF Jobs, SameSweep
      <3> QED
        BY <2>1, <2>2, <3>2 DEF Sweeps, Swept
    <2>4. CASE g.lease = 0
      <3>1. \E list : h = [g EXCEPT !.pc = "prune", !.list = list, !.did = FALSE]
        BY <1>1, <2>1, <2>2, <2>4 DEF Saved, Publishing
      <3>2. SameSweep(h, g)
        BY <1>0, <3>1 DEF Jobs, SameSweep
      <3> QED
        BY <2>1, <2>2, <2>4, <3>2 DEF Sweeps, Swept
    <2> QED
      BY <2>3, <2>4
  <1>14. ASSUME PruneTemps(p) \/ \E i \in Packs : PruneSkip(p, i) \/ PruneRemove(p, i) PROVE Same
    <2>1. g.pc = "prune"
      BY <1>14 DEF PruneTemps, PruneSkip, PruneRemove, At
    <2>2. \E list, did : h = [g EXCEPT !.list = list, !.did = did]
      <3>1. ASSUME NEW i \in Packs, PruneSkip(p, i)
            PROVE  h = [g EXCEPT !.list = g.list \ {i}, !.did = g.did]
        <4>1. h = [g EXCEPT !.list = g.list \ {i}]
          BY <1>1, <3>1 DEF PruneSkip
        <4> QED
          BY <1>0, <4>1 DEF Jobs
      <3>2. ASSUME NEW i \in Packs, PruneRemove(p, i)
            PROVE  h = [g EXCEPT !.list = g.list \ {i}, !.did = TRUE]
        BY <1>1, <3>2 DEF PruneRemove
      <3>3. ASSUME PruneTemps(p)
            PROVE  h = [g EXCEPT !.list = g.list \ {0}, !.did = g.did \/ temps # {}]
        BY <1>1, <3>3 DEF PruneTemps
      <3> QED
        BY <1>14, <3>1, <3>2, <3>3
    <2>3. SameSweep(h, g) /\ h.pc = g.pc
      BY <1>0, <2>2 DEF Jobs, SameSweep
    <2> QED
      BY <2>1, <2>3 DEF Sweeps, Swept, SameSweep
  <1>15. ASSUME PublishWrite(p) PROVE Same
    <2>1. h = g
      BY <1>15 DEF PublishWrite
    <2> QED
      BY <1>4, <2>1
  <1>16. ASSUME Work(p), ~ Compact(p) PROVE Same
    BY <1>7, <1>8, <1>9, <1>10, <1>11, <1>12, <1>13, <1>14, <1>15, <1>16 DEF Work, Save, Prune
  <1> QED
    BY <1>4, <1>5, <1>6, <1>16, StepOf

\* While a collection is on its way no pack that its rows lead to grows.
LEMMA RowsShrink ==
  ASSUME StoreInv, [Next]_vars, NEW p \in Procs, Sweeps(job[p]), NEW k \in DOMAIN job[p].entries
  PROVE  LET i == job[p].entries[k].pack
         IN  i \in Packs /\ Len(data'[i]) <= Len(data[i])
  <1> DEFINE i == job[p].entries[k].pack
  <1>0. TypeOK
    BY DEF StoreInv
  <1>1. i \in Packs /\ i # 0 /\ name[i] # "none" /\ Len(data[i]) \in Nat
    BY <1>0, Located, PacksFinite DEF StoreInv, MadeInv
  <1>2. lock = p
    BY DEF Sweeps, StoreInv, JobsInv, Publishing
  <1> HIDE DEF i
  <1>3. CASE Settled(i)
    BY <1>1, <1>3, SettledShrinks DEF Shrinks, i
  <1>4. CASE ~ Settled(i)
    <2>1. PICK q \in Procs : Unindexed(q) /\ job[q].lease = i
      BY <1>1, <1>4 DEF Settled
    <2>2. q = p
      <3>1. \A r \in Procs \ {q} : \A l \in DOMAIN job[r].entries : job[r].entries[l].pack # i
        BY <1>1, <2>1 DEF StoreInv, LeasesInv
      <3> QED
        BY <3>1 DEF i
    <2>3. job[p].lease = i /\ job[p].pc \in {"finish", "save", "rename"}
      BY <2>1, <2>2 DEF Sweeps, Unindexed
    <2>4. data'[i] = data[i]
      BY <1>1, <1>2, <2>3, HeldFiles
    <2> QED
      BY <1>1, <2>4 DEF i
  <1> QED
    BY <1>3, <1>4

-----------------------------------------------------------------------------
(***************************************************************************)
(* What packs take, with their files as a parameter.                       *)
(***************************************************************************)

Weights(d) == [i \in Packs |-> FrameSize * Len(d[i])]
Takes(d, packs, f) == SumOf(Weights(d), packs) + IndexSize(Cardinality(DOMAIN f))

LEMMA SizeIs ==
  ASSUME NEW packs, NEW f
  PROVE  Size(packs, f) = Takes(data, packs, f) /\ Size(packs, f)' = Takes(data', packs', f')
  BY DEF Size, Takes, SumOf, PackSize, Weights

LEMMA IndexGrows ==
  ASSUME NEW m \in Nat, NEW n \in Nat, m <= n
  PROVE  IndexSize(m) \in Nat /\ IndexSize(n) \in Nat /\ IndexSize(m) <= IndexSize(n)
  <1> DEFINE v == Row * m
             w == Row * n
  <1>1. Header \in Nat /\ Row \in Nat
    BY Sizes
  <1>2. v \in Nat /\ w \in Nat /\ v <= w
    BY <1>1
  <1>3. /\ IndexSize(m) = (IF m = 0 THEN 0 ELSE Header + v)
        /\ IndexSize(n) = (IF n = 0 THEN 0 ELSE Header + w)
    BY DEF IndexSize
  <1> HIDE DEF v, w
  <1> QED
    BY <1>1, <1>2, <1>3

LEMMA TableSize ==
  ASSUME NEW f \in Tables
  PROVE  /\ IsFiniteSet(DOMAIN f) /\ Cardinality(DOMAIN f) \in Nat
         /\ PacksOf(f) \in SUBSET Packs
         /\ \A i : IsFiniteSet(InPack(f, i)) /\ Cardinality(InPack(f, i)) \in Nat
  <1>1. DOMAIN f \in SUBSET Keys /\ \A k \in DOMAIN f : f[k].pack \in Packs
    BY TableFacts, LocationFacts
  <1>2. IsFiniteSet(DOMAIN f)
    BY <1>1, Sizes, FS_Subset
  <1> QED
    BY <1>1, <1>2, FS_Subset, FS_CardinalityType DEF PacksOf, InPack

LEMMA WeightFacts ==
  ASSUME NEW d, NEW P \in SUBSET Packs, \A i \in P : Len(d[i]) \in Nat
  PROVE  /\ \A i \in P : Weights(d)[i] \in Nat /\ Weights(d)[i] = FrameSize * Len(d[i])
         /\ IsFiniteSet(P) /\ SumOf(Weights(d), P) \in Nat
  <1>1. \A i \in P : Weights(d)[i] \in Nat /\ Weights(d)[i] = FrameSize * Len(d[i])
    <2> TAKE i \in P
    <2>1. Weights(d)[i] = FrameSize * Len(d[i])
      BY DEF Weights
    <2> DEFINE n == Len(d[i])
    <2>2. n \in Nat /\ FrameSize \in Nat
      BY Sizes
    <2> HIDE DEF n
    <2>3. FrameSize * n \in Nat
      BY <2>2
    <2> QED
      BY <2>1, <2>3 DEF n
  <1>2. IsFiniteSet(P)
    BY PacksFinite, FS_Subset
  <1> QED
    BY <1>1, <1>2, SumNat

\* Fewer packs with fewer frames and fewer rows take no more.
LEMMA TakesGrows ==
  ASSUME NEW d, NEW e, NEW P \in SUBSET Packs, NEW Q \in SUBSET P,
         NEW f \in Tables, NEW g \in Tables, DOMAIN f \subseteq DOMAIN g,
         \A i \in P : Len(e[i]) \in Nat,
         \A i \in Q : Len(d[i]) \in Nat /\ Len(d[i]) <= Len(e[i])
  PROVE  Takes(d, Q, f) \in Nat /\ Takes(e, P, g) \in Nat /\ Takes(d, Q, f) <= Takes(e, P, g)
  <1>1. /\ \A i \in P : Weights(e)[i] \in Nat /\ Weights(e)[i] = FrameSize * Len(e[i])
        /\ IsFiniteSet(P) /\ SumOf(Weights(e), P) \in Nat
    BY WeightFacts
  <1>2. /\ \A i \in Q : Weights(d)[i] \in Nat /\ Weights(d)[i] = FrameSize * Len(d[i])
        /\ SumOf(Weights(d), Q) \in Nat
    BY WeightFacts
  <1>3. \A i \in Q : Weights(d)[i] <= Weights(e)[i]
    <2> TAKE i \in Q
    <2> DEFINE m == Len(d[i])
               n == Len(e[i])
    <2>1. m \in Nat /\ n \in Nat /\ m <= n /\ FrameSize \in Nat
      BY Sizes
    <2> HIDE DEF m, n
    <2>2. FrameSize * m <= FrameSize * n
      BY <2>1
    <2> QED
      BY <1>1, <1>2, <2>2 DEF m, n
  <1>4. SumOf(Weights(d), Q) <= SumOf(Weights(e), P)
    BY <1>1, <1>2, <1>3, SumGrows
  <1> DEFINE m == Cardinality(DOMAIN f)
             n == Cardinality(DOMAIN g)
  <1>5. m \in Nat /\ n \in Nat /\ m <= n
    BY TableSize, FS_Subset
  <1>6. IndexSize(m) \in Nat /\ IndexSize(n) \in Nat /\ IndexSize(m) <= IndexSize(n)
    <2> HIDE DEF m, n
    <2> QED
      BY <1>5, IndexGrows
  <1> DEFINE a == SumOf(Weights(d), Q)
             b == SumOf(Weights(e), P)
             x == IndexSize(m)
             y == IndexSize(n)
  <1>7. Takes(d, Q, f) = a + x /\ Takes(e, P, g) = b + y
    BY DEF Takes
  <1>8. a \in Nat /\ b \in Nat /\ x \in Nat /\ y \in Nat /\ a <= b /\ x <= y
    BY <1>1, <1>2, <1>4, <1>6
  <1> HIDE DEF a, b, x, y
  <1> QED
    BY <1>7, <1>8

\* Packs that hold nothing but what their rows lead to fit what the rows fit.
LEMMA TakesRows ==
  ASSUME NEW d, NEW f \in Tables, NEW P \in SUBSET Packs, NEW cap \in Nat, Within(DOMAIN f, cap),
         \A i \in P : Len(d[i]) \in Nat /\ Len(d[i]) <= Cardinality(InPack(f, i))
  PROVE  Takes(d, P, f) <= cap
  <1>1. /\ \A i \in P : Weights(d)[i] \in Nat /\ Weights(d)[i] = FrameSize * Len(d[i])
        /\ IsFiniteSet(P) /\ SumOf(Weights(d), P) \in Nat
    BY WeightFacts
  <1>2. \A i \in P : Weights(d)[i] <= FrameSize * Cardinality(InPack(f, i))
    <2> TAKE i \in P
    <2> DEFINE m == Len(d[i])
               n == Cardinality(InPack(f, i))
    <2>1. m \in Nat /\ n \in Nat /\ m <= n /\ FrameSize \in Nat
      BY Sizes, TableSize
    <2> HIDE DEF m, n
    <2>2. FrameSize * m <= FrameSize * n
      BY <2>1
    <2> QED
      BY <1>1, <2>2 DEF m, n
  <1>3. SumOf(Weights(d), P) <= FrameSize * Cardinality(DOMAIN f)
    BY <1>1, <1>2, TableSize, SumOfParts, Sizes
  <1> DEFINE c == Cardinality(DOMAIN f)
             a == SumOf(Weights(d), P)
             b == FrameSize * c
             x == IndexSize(c)
  <1>4. a \in Nat /\ b \in Nat /\ x \in Nat /\ a <= b /\ b + x <= cap
    <2>1. c \in Nat /\ FrameSize \in Nat
      BY TableSize, Sizes
    <2>2. x \in Nat /\ b \in Nat
      <3> HIDE DEF c
      <3> QED
        BY <2>1, IndexGrows
    <2> QED
      BY <1>1, <1>3, <2>2 DEF Within
  <1>5. Takes(d, P, f) = a + x
    BY DEF Takes
  <1> HIDE DEF a, b, x
  <1> QED
    BY <1>4, <1>5

-----------------------------------------------------------------------------
(***************************************************************************)
(* What a collection works towards.                                        *)
(***************************************************************************)

\* All frames of the packs i of S are ones that a row of f leads to.
AllLive(d, f, S) == \A i \in S : Len(d[i]) <= Cardinality(InPack(f, i))

SweepIn(g, d) ==
  /\ Within(DOMAIN g.entries, g.cap)
  /\ \/ AllLive(d, g.entries, PacksOf(g.entries) \ g.todo)
     \/ Takes(d, PacksOf(g.entries), g.entries) <= g.cap
  /\ Swept(g) => g.bounded \/ g.todo = {}

LEMMA SweepsIs ==
  StoreInv => (SweepsInv <=> \A p \in Procs : Sweeps(job[p]) => SweepIn(job[p], data))
  <1> SUFFICES ASSUME StoreInv
               PROVE  SweepsInv <=> \A p \in Procs : Sweeps(job[p]) => SweepIn(job[p], data)
    OBVIOUS
  <1>1. \A p \in Procs : Sweeping(p) <=> Sweeps(job[p])
    BY DEF Sweeping, Sweeps, Publishing, StoreInv, JobsInv
  <1>2. \A p \in Procs : Size(PacksOf(job[p].entries), job[p].entries)
                           = Takes(data, PacksOf(job[p].entries), job[p].entries)
    BY SizeIs
  <1> QED
    BY <1>1, <1>2 DEF SweepsInv, SweepIn, AllLive, Swept

LEMMA SweepsNext ==
  StoreInv' => (SweepsInv' <=> \A p \in Procs : Sweeps(job'[p]) => SweepIn(job'[p], data'))
  <1> SUFFICES ASSUME StoreInv'
               PROVE  SweepsInv' <=> \A p \in Procs : Sweeps(job'[p]) => SweepIn(job'[p], data')
    OBVIOUS
  <1>1. \A p \in Procs : Sweeping(p)' <=> Sweeps(job'[p])
    BY DEF Sweeping, Sweeps, Publishing, StoreInv, JobsInv
  <1>2. \A p \in Procs : Size(PacksOf(job[p].entries), job[p].entries)'
                           = Takes(data', PacksOf(job'[p].entries), job'[p].entries)
    BY SizeIs DEF PacksOf
  <1> QED
    BY <1>1, <1>2 DEF SweepsInv, SweepIn, AllLive, Swept

\* The packs of a collection's rows hold no more than before.
LEMMA SweepStays ==
  ASSUME StoreInv, SweepsInv, [Next]_vars, NEW p \in Procs, Sweeps(job[p]),
         SameSweep(job'[p], job[p]),
         Swept(job'[p]) => Swept(job[p]) \/ job[p].todo = {} \/ job[p].bounded
  PROVE  SweepIn(job'[p], data')
  <1> DEFINE g == job[p]
             f == g.entries
  <1>0. TypeOK /\ TypeOK' /\ f \in Tables /\ PacksOf(f) \in SUBSET Packs /\ g.cap \in Nat
    BY StepKeeps, JobFields, TableSize, Sizes DEF StoreInv
  <1>1. SweepIn(g, data)
    BY SweepsIs
  <1>2. \A i \in PacksOf(f) : Len(data'[i]) <= Len(data[i])
    BY RowsShrink DEF PacksOf
  <1>3. \A i \in Packs : Len(data[i]) \in Nat /\ Len(data'[i]) \in Nat
    BY <1>0, LenProperties DEF TypeOK
  <1>4. AllLive(data, f, PacksOf(f) \ g.todo) => AllLive(data', f, PacksOf(f) \ g.todo)
    <2> SUFFICES ASSUME AllLive(data, f, PacksOf(f) \ g.todo), NEW i \in PacksOf(f) \ g.todo
                 PROVE  Len(data'[i]) <= Cardinality(InPack(f, i))
      BY DEF AllLive
    <2> DEFINE a == Len(data'[i])
               b == Len(data[i])
               c == Cardinality(InPack(f, i))
    <2>1. a \in Nat /\ b \in Nat /\ c \in Nat /\ a <= b /\ b <= c
      BY <1>0, <1>2, <1>3, TableSize DEF AllLive
    <2> HIDE DEF a, b, c
    <2>2. a <= c
      BY <2>1
    <2> QED
      BY <2>2 DEF a, c
  <1>5. Takes(data, PacksOf(f), f) <= g.cap => Takes(data', PacksOf(f), f) <= g.cap
    <2> DEFINE a == Takes(data', PacksOf(f), f)
               b == Takes(data, PacksOf(f), f)
    <2>1. a \in Nat /\ b \in Nat /\ a <= b
      BY <1>0, <1>2, <1>3, TakesGrows
    <2> HIDE DEF a, b
    <2>2. b <= g.cap => a <= g.cap
      BY <1>0, <2>1
    <2> QED
      BY <2>2 DEF a, b
  <1>6. /\ job'[p].entries = f /\ job'[p].cap = g.cap /\ job'[p].todo = g.todo
        /\ job'[p].bounded = g.bounded
    BY DEF SameSweep
  <1>7. Swept(job'[p]) => g.bounded \/ g.todo = {}
    BY <1>1 DEF SweepIn
  <1> QED
    BY <1>1, <1>4, <1>5, <1>6, <1>7 DEF SweepIn

\* What is kept of the entries that were found fits the cap.
LEMMA KeptFits ==
  ASSUME NEW f \in Tables, NEW cap \in Caps
  PROVE  Within(Kept(f, cap), cap)
  <1> DEFINE limit == (cap * 9) \div 10
  <1>1. CASE Within(DOMAIN f, cap)
    BY <1>1 DEF Kept
  <1>2. CASE ~ Within(DOMAIN f, cap)
    <2>1. \E ks \in SUBSET DOMAIN f :
            /\ Recent(f, ks) /\ Within(ks, limit)
            /\ \A more \in SUBSET DOMAIN f :
                 (Recent(f, more) /\ Within(more, limit)) => Cardinality(more) <= Cardinality(ks)
      BY KeptHas
    <2>2. Within(Kept(f, cap), limit)
      BY <1>2, <2>1 DEF Kept
    <2> DEFINE n == Cardinality(Kept(f, cap))
               v == FrameSize * n + IndexSize(n)
    <2>3. v <= limit
      BY <2>2 DEF Within
    <2>4. cap \in Nat /\ limit \in Nat /\ limit <= cap
      BY Sizes
    <2>5. v \in Nat
      <3>1. n \in Nat
        BY KeptIsPart, TableSize, FS_Subset, FS_CardinalityType
      <3> HIDE DEF n
      <3>2. IndexSize(n) \in Nat
        BY <3>1, IndexGrows
      <3> QED
        BY <3>1, <3>2, Sizes
    <2> HIDE DEF v, limit
    <2>6. v <= cap
      BY <2>3, <2>4, <2>5
    <2> QED
      BY <2>6 DEF v, Within
  <1> QED
    BY <1>1, <1>2

\* A collection that begins takes on every pack with a frame too many, unless
\* what is there fits its cap.
LEMMA CollectsSweeps ==
  ASSUME StoreInv, NEW p \in Procs, NEW bounded \in BOOLEAN, NEW cap \in Caps,
         Collects(p, bounded, cap)
  PROVE  SweepIn(job'[p], data')
  <1> DEFINE merged == Marked(p, Loaded)
             whole == {k \in DOMAIN merged : Finds(merged, {}, k)}
             valid == Restrict(merged, whole)
             kept == Restrict(valid, Kept(valid, cap))
             sparse == Sparse(kept, PhysicalSize, cap)
             over == ~ Within(DOMAIN valid, cap)
             dirty == index = Corrupt \/ kept # Loaded
             j == [Idle EXCEPT
                     !.pc = "compact", !.bounded = bounded, !.cap = cap, !.entries = kept,
                     !.todo = sparse, !.over = over, !.dirty = dirty]
  <1>1. TypeOK /\ Becomes(p, j) /\ data' = data /\ cap \in Nat
    BY Sizes DEF StoreInv, Collects, Recovered, disk
  <1>2. /\ merged \in Tables /\ DOMAIN merged = DOMAIN Loaded
    <2>1. touched[p] \in [Keys -> 0 .. MaxClock]
      BY <1>1 DEF TypeOK
    <2> QED
      BY <1>1, <2>1, LoadedTable, MarkedTable
  <1> HIDE DEF merged
  <1>3. /\ valid \in Tables /\ DOMAIN valid \in SUBSET DOMAIN Loaded
        /\ \A k \in DOMAIN valid : name[valid[k].pack] = "pack"
    <2>1. whole \in SUBSET DOMAIN merged /\ \A k \in whole : name[merged[k].pack] = "pack"
      BY DEF Finds
    <2> HIDE DEF whole
    <2>2. valid \in Tables /\ DOMAIN valid = whole /\ \A k \in whole : valid[k] = merged[k]
      BY <1>2, <2>1, RestrictTable
    <2> HIDE DEF valid
    <2> QED
      BY <1>2, <2>1, <2>2
  <1> HIDE DEF whole, valid
  <1>4. /\ kept \in Tables /\ DOMAIN kept = Kept(valid, cap) /\ DOMAIN kept \in SUBSET DOMAIN Loaded
        /\ \A k \in DOMAIN kept : name[kept[k].pack] = "pack"
    <2>1. Kept(valid, cap) \in SUBSET DOMAIN valid
      BY <1>3, KeptIsPart
    <2>2. /\ kept \in Tables /\ DOMAIN kept = Kept(valid, cap)
          /\ \A k \in Kept(valid, cap) : kept[k] = valid[k]
      BY <1>3, <2>1, RestrictTable
    <2> HIDE DEF kept
    <2> QED
      BY <1>3, <2>1, <2>2
  <1>5. Within(DOMAIN kept, cap)
    BY <1>3, <1>4, KeptFits
  <1> HIDE DEF kept, over, dirty
  <1>6. PacksOf(kept) \in SUBSET Packs /\ PacksOf(kept) \in SUBSET {i \in Packs : name[i] = "pack"}
    <2>1. PacksOf(kept) \in SUBSET Packs
      BY <1>4, TableSize
    <2>2. \A i \in PacksOf(kept) : name[i] = "pack"
      BY <1>4 DEF PacksOf
    <2> QED
      BY <2>1, <2>2
  <1>7. \A i \in Packs : Len(data[i]) \in Nat
    BY <1>1, LenProperties DEF TypeOK
  <1>8. AllLive(data, kept, PacksOf(kept) \ sparse) \/ Takes(data, PacksOf(kept), kept) <= cap
    <2>1. CASE PhysicalSize > cap
      <3> SUFFICES ASSUME NEW i \in PacksOf(kept) \ sparse
                   PROVE  Len(data[i]) <= Cardinality(InPack(kept, i))
        BY DEF AllLive
      <3>1. ~ (Cardinality(InPack(kept, i)) < Len(data[i]))
        BY <2>1 DEF Sparse
      <3> DEFINE a == Cardinality(InPack(kept, i))
                 b == Len(data[i])
      <3>2. a \in Nat /\ b \in Nat
        BY <1>4, <1>6, <1>7, TableSize
      <3> HIDE DEF a, b
      <3>3. ~ (a < b) => b <= a
        BY <3>2
      <3> QED
        BY <3>1, <3>3 DEF a, b
    <2>2. CASE ~ (PhysicalSize > cap)
      <3> DEFINE all == {i \in Packs : name[i] = "pack"}
                 a == Takes(data, PacksOf(kept), kept)
                 b == Takes(data, all, Loaded)
      <3>1. PhysicalSize = b
        BY SizeIs DEF PhysicalSize
      <3>2. a \in Nat /\ b \in Nat /\ a <= b
        <4>1. Loaded \in Tables /\ all \in SUBSET Packs
          BY <1>1, LoadedTable
        <4> HIDE DEF all
        <4> QED
          BY <1>4, <1>6, <1>7, <4>1, TakesGrows DEF all
      <3> HIDE DEF a, b
      <3>3. a <= cap
        BY <1>1, <2>2, <3>1, <3>2
      <3> QED
        BY <3>3 DEF a
    <2> QED
      BY <2>1, <2>2
  <1> HIDE DEF sparse
  <1>9. /\ j.pc = "compact" /\ j.entries = kept /\ j.todo = sparse /\ j.cap = cap
    BY DEF Idle
  <1> HIDE DEF j
  <1>10. job'[p] = j
    BY <1>1 DEF Becomes, TypeOK
  <1> QED
    BY <1>1, <1>5, <1>8, <1>9, <1>10 DEF SweepIn, Swept

\* No more rows lead to a pack than it has frames, as each finds its own.
LEMMA RowsFit ==
  ASSUME StoreInv, GatheredInv, FramesInv, NEW p \in Procs, NEW i \in Packs, name[i] = "pack",
         lock = p, At(p, "compact"), NEW keys \in SUBSET DOMAIN job[p].entries,
         \A k \in keys : job[p].entries[k].pack = i /\ InRange(job[p].entries[k])
  PROVE  Cardinality(keys) <= Len(data[i])
  <1> DEFINE f == job[p].entries
             place == [k \in keys |-> f[k].at]
  <1>0. TypeOK /\ job[p].batch = <<>> /\ job[p].lease = 0
    BY DEF StoreInv, JobsInv, Publishing, At
  <1>1. f \in Tables /\ Len(data[i]) \in Nat
    BY <1>0, JobFields, Located
  <1>2. RowsIn(job[p], name, data, Loaded)
    BY <1>0, GatheredIs DEF Gathers, At
  <1>3. ASSUME NEW k \in keys
        PROVE  f[k].at \in 1 .. Len(data[i]) /\ data[i][f[k].at].key = k
    <2>1. k \in DOMAIN Loaded /\ SamePlace(f[k], Loaded[k])
      BY <1>0, <1>2 DEF RowsIn, CopyIn
    <2>2. f[k].pack = i /\ InRange(f[k])
      OBVIOUS
    <2>3. Finds(Loaded, {}, k)
      BY <2>1, <2>2 DEF Finds, InRange, SamePlace
    <2>4. data[i][f[k].at].key = k
      BY <2>1, <2>2, <2>3 DEF FramesInv, LeadsTo, SamePlace
    <2>5. f[k].at \in Nat /\ f[k].at >= 1
      BY <1>1, TableFacts, LocationFacts
    <2> QED
      BY <1>1, <2>2, <2>4, <2>5 DEF InRange
  <1> HIDE DEF f
  <1>4. place \in Injection(keys, 1 .. Len(data[i]))
    <2>1. place \in [keys -> 1 .. Len(data[i])]
      BY <1>3
    <2>2. \A k, l \in keys : place[k] = place[l] => k = l
      BY <1>3
    <2> QED
      BY <2>1, <2>2 DEF Injection, IsInjective
  <1>5. IsFiniteSet(1 .. Len(data[i])) /\ Cardinality(1 .. Len(data[i])) = Len(data[i])
    <2> DEFINE n == Len(data[i])
    <2>1. n \in Nat
      BY <1>1
    <2> HIDE DEF n
    <2>2. IsFiniteSet(1 .. n) /\ Cardinality(1 .. n) = n
      BY <2>1, FS_Interval
    <2> QED
      BY <2>2 DEF n
  <1> HIDE DEF place
  <1> QED
    BY <1>4, <1>5, FS_Injection

\* Copying the frames of a pack that rows lead to makes a pack of them alone.
LEMMA CompactSweeps ==
  ASSUME StoreInv, GatheredInv, FramesInv, SweepsInv, NEW p \in Procs, Compact(p)
  PROVE  SweepIn(job'[p], data')
  <1> DEFINE g == job[p]
             f == g.entries
             from == Min(g.todo)
             to == Min(Unused)
             keys == {k \in DOMAIN f : f[k].pack = from}
             copies == Copies(f, from, keys)
             moved == [k \in keys |-> [pack |-> to, at |-> Place(keys, k), used |-> f[k].used]]
             rows == Extended(f, moved)
             j == [g EXCEPT !.pc = "finish", !.lease = to, !.todo = g.todo \ {from}, !.entries = rows]
  <1>1. /\ TypeOK /\ g \in Jobs /\ g.pc = "compact" /\ g.todo # {} /\ g.batch = <<>> /\ g.lease = 0
        /\ lock = p /\ f \in Tables /\ g.cap \in Nat
    BY JobFields, Sizes DEF StoreInv, JobsInv, Compact, At, Publishing
  <1>2. /\ name[from] = "pack" /\ \A k \in keys : InRange(f[k])
        /\ data' = [data EXCEPT ![to] = copies] /\ Becomes(p, j)
    BY DEF Compact, Lease
  <1>3. from \in Packs /\ to \in Packs /\ name[to] = "none"
    BY CompactHasFresh
  <1> HIDE DEF from, to
  <1>4. /\ keys \in SUBSET DOMAIN f /\ \A k \in keys : f[k].pack = from
        /\ InPack(f, from) = keys
    BY DEF InPack
  <1> HIDE DEF keys
  <1>5. Len(copies) = Cardinality(keys) /\ Cardinality(keys) \in Nat
    <2>1. Len(copies) = Cardinality(keys)
      BY <1>1, <1>2, <1>3, <1>4, CopiesFacts
    <2>2. Cardinality(keys) \in Nat
      BY <1>1, <1>4, TableSize
    <2> QED
      BY <2>1, <2>2
  <1>6. Cardinality(keys) <= Len(data[from])
    BY <1>1, <1>2, <1>3, <1>4, RowsFit DEF At
  <1> HIDE DEF copies
  <1>7. /\ moved \in Tables /\ DOMAIN moved = keys
        /\ \A k \in keys : moved[k].pack = to
    <2>1. \A k \in keys : [pack |-> to, at |-> Place(keys, k), used |-> f[k].used] \in Locations
      <3> TAKE k \in keys
      <3>1. f[k].used \in 1 .. MaxClock
        BY <1>1, <1>4, TableFacts, LocationFacts
      <3>2. Cardinality(keys) \in 0 .. Cardinality(Keys) /\ Cardinality(Keys) \in Nat
            /\ Rank(keys, k) \in 1 .. Cardinality(keys)
        <4>1. keys \in SUBSET Keys
          BY <1>1, <1>4, TableFacts
        <4>2. Cardinality(Keys) \in Nat
          BY FS_CardinalityType, Sizes
        <4> QED
          BY <4>1, <4>2, RankFacts
      <3>3. Rank(keys, k) \in Places
        BY <3>2 DEF Places
      <3> QED
        BY <1>3, <3>1, <3>3 DEF Locations, Place
    <2>2. keys \in SUBSET Keys
      BY <1>1, <1>4, TableFacts
    <2>3. moved \in [keys -> Locations]
      BY <2>1
    <2> QED
      BY <2>2, <2>3 DEF Tables
  <1> HIDE DEF moved
  <1>8. /\ rows \in Tables /\ DOMAIN rows = DOMAIN f
        /\ \A k \in keys : rows[k].pack = to
        /\ \A k \in DOMAIN f \ keys : rows[k] = f[k]
    <2>1. /\ Extended(f, moved) \in Tables
          /\ DOMAIN Extended(f, moved) = DOMAIN f \union DOMAIN moved
          /\ \A k \in DOMAIN moved : Extended(f, moved)[k] = moved[k]
          /\ \A k \in DOMAIN f \ DOMAIN moved : Extended(f, moved)[k] = f[k]
      BY <1>1, <1>7, ExtendedTable, Zenon
    <2> QED
      BY <1>4, <1>7, <2>1
  <1> HIDE DEF rows
  <1>9. \A k \in DOMAIN f : f[k].pack # to
    BY <1>3 DEF StoreInv, MadeInv
  <1>10. /\ to \notin PacksOf(f) /\ PacksOf(f) \in SUBSET Packs
         /\ PacksOf(rows) \in SUBSET ((PacksOf(f) \ {from}) \union {to})
         /\ keys = {} => PacksOf(rows) \in SUBSET PacksOf(f)
         /\ keys # {} => from \in PacksOf(f)
    <2>1. to \notin PacksOf(f) /\ PacksOf(f) \in SUBSET Packs
      BY <1>1, <1>9, TableSize DEF PacksOf
    <2>2. ASSUME NEW k \in DOMAIN f, k \notin keys
          PROVE  rows[k].pack \in PacksOf(f) \ {from}
      BY <1>4, <1>8, <2>2 DEF PacksOf, InPack
    <2>3. PacksOf(rows) \in SUBSET ((PacksOf(f) \ {from}) \union {to})
      BY <1>8, <2>2 DEF PacksOf
    <2>4. keys = {} => PacksOf(rows) \in SUBSET PacksOf(f)
      BY <1>8, <2>2 DEF PacksOf
    <2>5. keys # {} => from \in PacksOf(f)
      BY <1>4 DEF PacksOf
    <2> QED
      BY <2>1, <2>3, <2>4, <2>5
  <1>11. /\ InPack(rows, to) = keys
         /\ \A i \in PacksOf(rows) \ {to} : i # from /\ InPack(rows, i) = InPack(f, i)
    <2>1. InPack(rows, to) = keys
      BY <1>4, <1>8, <1>9 DEF InPack
    <2>2. ASSUME NEW i, i # to, i # from PROVE InPack(rows, i) = InPack(f, i)
      BY <1>4, <1>8, <2>2 DEF InPack
    <2>3. from # to
      BY <1>2, <1>3
    <2> QED
      BY <1>10, <2>1, <2>2, <2>3
  <1>12. /\ j.pc = "finish" /\ j.entries = rows /\ j.todo = g.todo \ {from} /\ j.cap = g.cap
         /\ j.bounded = g.bounded
    BY <1>1 DEF Jobs
  <1>13. job'[p] = j
    BY <1>1, <1>2 DEF Becomes, TypeOK
  <1> HIDE DEF j
  <1>14. /\ \A i \in Packs : i # to => data'[i] = data[i]
         /\ data'[to] = copies
    BY <1>1, <1>2, <1>3 DEF TypeOK
  <1>15. SweepIn(g, data)
    BY <1>1, SweepsIs DEF Sweeps
  <1>16. \A i \in Packs : Len(data[i]) \in Nat /\ Len(data'[i]) \in Nat
    BY <1>1, <1>5, <1>14, LenProperties DEF TypeOK
  <1>17. ASSUME AllLive(data, f, PacksOf(f) \ g.todo)
         PROVE  AllLive(data', rows, PacksOf(rows) \ (g.todo \ {from}))
    <2> SUFFICES ASSUME NEW i \in PacksOf(rows) \ (g.todo \ {from})
                 PROVE  Len(data'[i]) <= Cardinality(InPack(rows, i))
      BY DEF AllLive
    <2>1. CASE i = to
      BY <1>5, <1>11, <1>14, <2>1
    <2>2. CASE i # to
      <3>1. /\ i # from /\ i \in PacksOf(f) \ g.todo /\ InPack(rows, i) = InPack(f, i)
            /\ data'[i] = data[i]
        BY <1>10, <1>11, <1>14, <2>2
      <3> QED
        BY <1>17, <3>1 DEF AllLive
    <2> QED
      BY <2>1, <2>2
  <1>18. Takes(data', PacksOf(rows), rows) <= Takes(data, PacksOf(f), f)
    <2>1. CASE keys = {}
      <3>1. \A i \in PacksOf(rows) : data'[i] = data[i]
        BY <1>10, <1>14, <2>1
      <3>2. \A i \in PacksOf(rows) : Len(data'[i]) \in Nat /\ Len(data'[i]) <= Len(data[i])
        BY <1>10, <1>16, <2>1, <3>1
      <3> QED
        BY <1>1, <1>8, <1>10, <1>16, <2>1, <3>2, TakesGrows
    <2>2. CASE keys # {}
      <3> DEFINE S == PacksOf(f)
                 R == S \ {from}
                 new == R \union {to}
                 v == Weights(data)
                 w == Weights(data')
      <3>1. /\ \A i \in S : v[i] \in Nat /\ v[i] = FrameSize * Len(data[i])
            /\ IsFiniteSet(S) /\ SumOf(v, S) \in Nat
        BY <1>10, <1>16, WeightFacts
      <3>2. /\ \A i \in new : w[i] \in Nat /\ w[i] = FrameSize * Len(data'[i])
            /\ IsFiniteSet(new) /\ SumOf(w, new) \in Nat
        <4>1. new \in SUBSET Packs /\ \A i \in new : Len(data'[i]) \in Nat
          BY <1>3, <1>10, <1>16
        <4> HIDE DEF new
        <4> QED
          BY <4>1, WeightFacts
      <3>3. \A i \in R : w[i] = v[i]
        BY <1>10, <1>14, <3>1, <3>2
      <3>4. w[to] <= v[from]
        <4> DEFINE a == Len(copies)
                   b == Len(data[from])
        <4>1. a \in Nat /\ b \in Nat /\ a <= b /\ FrameSize \in Nat
          BY <1>3, <1>5, <1>6, <1>16, Sizes
        <4>2. w[to] = FrameSize * a /\ v[from] = FrameSize * b
          BY <1>10, <1>14, <2>2, <3>1, <3>2
        <4> HIDE DEF a, b, v, w
        <4>3. FrameSize * a <= FrameSize * b
          BY <4>1
        <4> QED
          BY <4>2, <4>3
      <3> HIDE DEF v, w
      <3>5. SumOf(w, new) = w[to] + SumOf(w, R)
        <4>1. to \in new /\ new \ {to} = R
          BY <1>10
        <4> HIDE DEF new, R
        <4>2. new \in SUBSET new
          OBVIOUS
        <4> QED
          BY <3>2, <4>1, <4>2, SumOut
      <3>6. SumOf(v, S) = v[from] + SumOf(v, R)
        <4>1. from \in S /\ S \in SUBSET S
          BY <1>10, <2>2
        <4> HIDE DEF S
        <4> QED
          BY <3>1, <4>1, SumOut
      <3>7. SumOf(w, R) <= SumOf(v, R) /\ SumOf(w, R) \in Nat /\ SumOf(v, R) \in Nat
        <4>1. IsFiniteSet(R) /\ \A i \in R : v[i] \in Nat /\ w[i] \in Nat /\ w[i] <= v[i]
          <5>1. \A i \in R : v[i] \in Nat /\ w[i] = v[i]
            BY <3>1, <3>3
          <5> QED
            BY <3>1, <5>1, FS_Subset
        <4>2. R \in SUBSET R
          OBVIOUS
        <4> HIDE DEF R
        <4> QED
          BY <4>1, <4>2, SumGrows, SumNat
      <3>8. SumOf(w, PacksOf(rows)) <= SumOf(w, new) /\ SumOf(w, PacksOf(rows)) \in Nat
        <4>1. PacksOf(rows) \in SUBSET new /\ \A i \in new : w[i] \in Nat /\ w[i] <= w[i]
          BY <1>10, <3>2
        <4> HIDE DEF new
        <4> QED
          BY <3>2, <4>1, SumGrows, SumNat
      <3>9. SumOf(w, PacksOf(rows)) <= SumOf(v, S)
        <4> DEFINE a == SumOf(w, R)
                   b == SumOf(v, R)
                   c == w[to]
                   d == v[from]
                   x == SumOf(w, PacksOf(rows))
        <4>1. /\ a \in Nat /\ b \in Nat /\ c \in Nat /\ d \in Nat /\ x \in Nat
              /\ a <= b /\ c <= d /\ x <= c + a
          BY <1>10, <2>2, <3>1, <3>2, <3>4, <3>5, <3>7, <3>8
        <4>2. SumOf(v, S) = d + b
          BY <3>6
        <4> HIDE DEF a, b, c, d, x
        <4>3. x <= d + b
          BY <4>1
        <4> QED
          BY <4>2, <4>3 DEF x
      <3> DEFINE n == IndexSize(Cardinality(DOMAIN f))
                 x == SumOf(w, PacksOf(rows))
                 y == SumOf(v, S)
      <3>10. /\ Takes(data', PacksOf(rows), rows) = x + n
             /\ Takes(data, S, f) = y + n
        BY <1>8 DEF Takes, v, w
      <3>11. n \in Nat /\ x \in Nat /\ y \in Nat /\ x <= y
        BY <1>1, <3>1, <3>8, <3>9, TableSize, IndexGrows
      <3> HIDE DEF n, x, y
      <3>12. x + n <= y + n
        BY <3>11
      <3> QED
        BY <3>10, <3>12
    <2> QED
      BY <2>1, <2>2
  <1>19. Takes(data, PacksOf(f), f) <= g.cap => Takes(data', PacksOf(rows), rows) <= g.cap
    <2> DEFINE a == Takes(data', PacksOf(rows), rows)
               b == Takes(data, PacksOf(f), f)
    <2>1. a \in Nat /\ b \in Nat
      <3>1. PacksOf(rows) \in SUBSET Packs /\ PacksOf(f) \in SUBSET Packs
        BY <1>1, <1>8, TableSize
      <3>2. \A i \in Packs : Len(data[i]) <= Len(data[i]) /\ Len(data'[i]) <= Len(data'[i])
        BY <1>16
      <3> QED
        BY <1>1, <1>8, <1>16, <3>1, <3>2, TakesGrows
    <2>2. a <= b
      BY <1>18
    <2> HIDE DEF a, b
    <2>3. b <= g.cap => a <= g.cap
      BY <1>1, <2>1, <2>2
    <2> QED
      BY <2>3 DEF a, b
  <1>20. Within(DOMAIN f, g.cap)
         /\ (AllLive(data, f, PacksOf(f) \ g.todo) \/ Takes(data, PacksOf(f), f) <= g.cap)
    BY <1>15 DEF SweepIn
  <1>21. /\ Within(DOMAIN j.entries, j.cap)
         /\ \/ AllLive(data', j.entries, PacksOf(j.entries) \ j.todo)
            \/ Takes(data', PacksOf(j.entries), j.entries) <= j.cap
    BY <1>8, <1>12, <1>17, <1>19, <1>20
  <1> QED
    BY <1>12, <1>13, <1>21 DEF SweepIn, Swept

LEMMA SweepsKept ==
  ASSUME StoreInv, GatheredInv, FramesInv, SweepsInv, [Next]_vars
  PROVE  SweepsInv'
  <1>1. StoreInv'
    BY StepKeeps
  <1>2. ASSUME NEW p \in Procs, Sweeps(job'[p]) PROVE SweepIn(job'[p], data')
    <2>1. ASSUME NEW bounded \in BOOLEAN, Maintain(p, bounded) PROVE SweepIn(job'[p], data')
      BY <2>1, CollectsSweeps DEF Maintain
    <2>2. ASSUME Compact(p) PROVE SweepIn(job'[p], data')
      BY <2>2, CompactSweeps
    <2> QED
      BY <1>2, <2>1, <2>2, SweepSteps, SweepStays
  <1> QED
    BY <1>1, <1>2, SweepsNext

-----------------------------------------------------------------------------
(***************************************************************************)
(* The end of a collection.                                                *)
(***************************************************************************)

\* One without a deadline that ends its pruning went through every name, and
\* the packs in use and the index fit its cap.
LEMMA SweepEnds ==
  ASSUME StoreInv, SweepsInv, [Next]_vars, NEW p \in Procs,
         At(p, "prune"), At(p, "replace")', ~ job[p].bounded
  PROVE  job[p].list = {} /\ Size(LivePacks, Loaded) <= job[p].cap
  <1> DEFINE g == job[p]
             f == g.entries
  <1>0. /\ TypeOK /\ g \in Jobs /\ g.pc = "prune" /\ job'[p].pc = "replace"
        /\ g.batch = <<>> /\ lock = p /\ f \in Tables /\ g.cap \in Nat
    BY JobFields, Sizes DEF At, StoreInv, JobsInv, Publishing
  <1>1. ASSUME NEW j, Becomes(p, j) PROVE job'[p] = j
    BY <1>0, <1>1 DEF Becomes, TypeOK
  <1>2. g.list = {}
    <2>1. EndPrune(p) => g.list = {}
      BY DEF EndPrune, TimeUp
    <2>2. ASSUME NEW i \in Packs, PruneSkip(p, i) \/ PruneRemove(p, i) PROVE FALSE
      BY <1>0, <2>2, WalkFields
    <2>3. ASSUME Becomes(p, Idle) PROVE FALSE
      BY <1>0, <1>1, <2>3 DEF Idle
    <2>4. ASSUME NEW i \in Packs, PruneVanished(p, i) PROVE FALSE
      BY <2>3, <2>4 DEF PruneVanished
    <2>5. ASSUME PruneTemps(p) PROVE FALSE
      BY <1>0, <2>5, WalkFields
    <2>6. ASSUME Fail(p) \/ Crash(p) PROVE FALSE
      <3>1. Becomes(p, Idle) \/ Go(p, "drop")
        BY <2>6 DEF Fail, Crash
      <3> QED
        BY <1>0, <2>3, <3>1, GoFields
    <2>7. ASSUME NEW b \in Batches, PublishLease(p, b) PROVE FALSE
      BY <1>0, <2>7, PublishLeaseFields
    <2>8. ASSUME NEW bounded \in BOOLEAN, Maintain(p, bounded) PROVE FALSE
      BY <1>0, <2>8 DEF Maintain, Collects, At
    <2>9. ASSUME Work(p), ~ EndPrune(p) PROVE FALSE
      <3>1. Prune(p)
        BY <1>0, <2>9 DEF Work, PublishWrite, PublishMerge, Finish, Save, SaveEmpty, SaveTemp, SaveRename,
                          Replace, DropUnlock, DropRemove, Compact, EndCompact, At
      <3> QED
        BY <2>2, <2>4, <2>5, <2>9, <3>1 DEF Prune
    <2> QED
      BY <1>0, <2>1, <2>6, <2>7, <2>8, <2>9, StepOf
  <1>3. Loaded = f
    <2>1. index = f
      BY <1>0 DEF StoreInv, IndexInv
    <2> QED
      BY <1>0, <2>1, CorruptIsNoTable DEF Loaded
  <1>4. SweepIn(g, data) /\ g.todo = {}
    <2>1. SweepIn(g, data)
      BY <1>0, SweepsIs DEF Sweeps
    <2> QED
      BY <1>0, <2>1 DEF SweepIn, Swept
  <1>5. /\ PacksOf(f) \in SUBSET Packs /\ LivePacks \in SUBSET PacksOf(f)
        /\ \A i \in Packs : Len(data[i]) \in Nat /\ Len(data[i]) <= Len(data[i])
    <2>1. LivePacks \in SUBSET PacksOf(f)
      BY <1>3 DEF LivePacks, PacksOf
    <2>2. \A i \in Packs : Len(data[i]) \in Nat
      BY <1>0, LenProperties DEF TypeOK
    <2> QED
      BY <1>0, <2>1, <2>2, TableSize
  <1>6. Size(LivePacks, Loaded) = Takes(data, LivePacks, f)
    BY <1>3, SizeIs
  <1> HIDE DEF g, f
  <1>7. CASE AllLive(data, f, PacksOf(f) \ g.todo)
    <2>1. \A i \in LivePacks : Len(data[i]) \in Nat /\ Len(data[i]) <= Cardinality(InPack(f, i))
      BY <1>4, <1>5, <1>7 DEF AllLive
    <2>2. Within(DOMAIN f, g.cap) /\ LivePacks \in SUBSET Packs
      BY <1>4, <1>5 DEF SweepIn, f
    <2>3. Takes(data, LivePacks, f) <= g.cap
      BY <1>0, <2>1, <2>2, TakesRows DEF f, g
    <2> QED
      BY <1>2, <1>6, <2>3 DEF g
  <1>8. CASE Takes(data, PacksOf(f), f) <= g.cap
    <2> DEFINE a == Takes(data, LivePacks, f)
               b == Takes(data, PacksOf(f), f)
               c == g.cap
    <2>1. a \in Nat /\ b \in Nat /\ a <= b
      <3>1. f \in Tables /\ DOMAIN f \subseteq DOMAIN f
        BY <1>0 DEF f, g
      <3> QED
        BY <1>5, <3>1, TakesGrows
    <2>2. b <= c /\ c \in Nat
      BY <1>0, <1>8 DEF g
    <2> HIDE DEF a, b, c
    <2>3. a <= c
      BY <2>1, <2>2
    <2> QED
      BY <1>2, <1>6, <2>3 DEF a, c, g
  <1> QED
    BY <1>4, <1>7, <1>8 DEF SweepIn, f

-----------------------------------------------------------------------------
(***************************************************************************)
(* The cache is a map, and its collections sweep.                          *)
(***************************************************************************)

LEMMA InitMaps == Init => CacheInv /\ Map!Init
  <1> SUFFICES ASSUME Init PROVE CacheInv /\ Map!Init
    OBVIOUS
  <1>1. /\ StoreInv /\ index = <<>> /\ snapshot = [p \in Procs |-> Unread] /\ damage = 0
        /\ files = [p \in Procs |-> {}] /\ job = [p \in Procs |-> Idle] /\ lock = Nobody
    BY InitInv DEF Init
  <1>2. Loaded = <<>> /\ DOMAIN Loaded = {}
    BY <1>1, EmptyTable DEF Loaded
  <1>3. SnapshotsInv
    BY <1>1 DEF SnapshotsInv
  <1>4. GatheredInv
    BY <1>1, Sizes DEF GatheredInv, Publishing, Idle
  <1>10. FramesInv /\ SweepsInv
    BY <1>1, <1>2, Sizes DEF FramesInv, SweepsInv, Sweeping
  <1>5. ASSUME NEW p \in Procs PROVE Known(p) = Loaded /\ ~ Asking(p) /\ job[p].over = FALSE
    BY <1>1, <1>5 DEF Known, Asking, Publishing, Idle
  <1>6. MapStore = [k \in Keys |-> Miss]
    BY <1>2 DEF MapStore, Found, Finds
  <1>7. MapViews = [p \in Procs |-> MapStore]
    BY <1>1, <1>5 DEF MapViews, MapStore
  <1>8. /\ MapAsked = [p \in Procs |-> <<>>] /\ MapOrigin = [p \in Procs |-> 0]
        /\ MapForget = [p \in Procs |-> FALSE]
    BY <1>5 DEF MapAsked, MapOrigin, MapForget
  <1>9. Map!Init
    BY <1>1, <1>6, <1>7, <1>8 DEF Map!Init, MapStore, MapViews, MapAsked, MapOrigin, MapForget
  <1> QED
    BY <1>1, <1>3, <1>4, <1>9, <1>10 DEF CacheInv

LEMMA CacheStep ==
  ASSUME CacheInv, [Next]_vars
  PROVE  CacheInv'
  BY StepKeeps, SnapshotsKept, GatheredKept, FramesKept, SweepsKept DEF CacheInv

\* Readers only know packs that nobody is making, what a writer is about to save
\* is the index with its batch, or rows of it and copies of their frames, a row
\* finds a frame of its key, and a collection comes closer to its cap.
THEOREM KeepsCacheInv == Spec => []CacheInv
  <1>1. Init => CacheInv
    BY InitMaps
  <1>2. CacheInv /\ [Next]_vars => CacheInv'
    BY CacheStep
  <1> QED
    BY <1>1, <1>2, PTL DEF Spec

\* The cache is a map, whatever the processes do and wherever they die: a batch
\* arrives whole, only a collection over its cap or damage takes entries away,
\* and a reader never gets another frame than the map had.
THEOREM ImplementsMap == Spec => ImplementsCacheMap
  <1>1. Init => Map!Init
    BY InitMaps
  <1>2. CacheInv /\ [Next]_vars => [Map!Next]_(Map!vars)
    BY StepMaps
  <1> QED
    BY <1>1, <1>2, KeepsCacheInv, PTL DEF Spec, ImplementsCacheMap, Map!Spec

\* A collection passes over no orphan; and one without a deadline (hd cache gc)
\* that ends well has gone through every file, and the packs in use and the
\* index fit its cap, whatever was damaged or died meanwhile.
THEOREM KeepsCollectionsSweep == Spec => CollectionsSweep
  <1>1. CacheInv /\ [Next]_vars =>
          [\A p \in Procs : At(p, "prune") /\ (At(p, "replace"))' /\ ~ job[p].bounded =>
             /\ job[p].list = {}
             /\ Size(LivePacks, Loaded) <= job[p].cap]_vars
    BY SweepEnds DEF CacheInv
  <1> QED
    BY <1>1, KeepsCacheInv, KeepsNoOrphanIsPassedOver, PTL DEF Spec, CollectionsSweep
=============================================================================
