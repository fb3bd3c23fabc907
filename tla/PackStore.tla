------------------------------ MODULE PackStore ------------------------------
(***************************************************************************)
(* The packed half of the disk cache (crates/hd_cache/src/disk.rs, mod     *)
(* packed), shared by processes that publish, collect and read, and that   *)
(* may die or fail at any step.                                            *)
(*                                                                         *)
(* A step is what the publication lock, an atomic rename or a file lock    *)
(* lets another process see.  A frame is named by its key and by the pack  *)
(* and place it was first written at, so a location is right when it finds *)
(* the frame it was made for; every frame has the same length.  Operations *)
(* on one Store run one after the other, its reads at any moment.          *)
(***************************************************************************)
EXTENDS Integers, Sequences, FiniteSets, FiniteSetsExt, SequencesExt, Functions

CONSTANTS
  Procs,       \* processes, each with one Store on the same root
  Keys,        \* a key is a number: eviction orders entries by use, then key
  Batches,     \* the key sequences a process may publish
  MaxPacks,    \* bound: the packs ever made
  MaxClock,    \* bound: the last second
  MaxFaults,   \* bound: packs or indexes lost to something outside, and processes that failed
  MarkAge,     \* USE_MARK_AGE
  MaxHandles,  \* MAX_HANDLES
  Caps, FrameSize, Header, Row,
  Nobody, Corrupt, Unread, Miss

ASSUME Sizes == /\ IsFiniteSet(Procs) /\ IsFiniteSet(Keys) /\ Keys \subseteq Nat
                /\ {MaxPacks, MaxFaults, MarkAge, Header, Row} \union Caps \subseteq Nat
                /\ {FrameSize, MaxHandles, MaxClock} \subseteq Nat \ {0}
                /\ Batches \subseteq Seq(Keys) \ {<<>>}
                /\ Nobody \notin Procs

VARIABLES
  clock,
  lock,        \* who holds the publication lock
  index,       \* the rows of the index file by key, or Corrupt
  temps,       \* whose index.*.tmp is there
  name,        \* each pack: "none" yet, "pending", "pack", or "gone"
  data,        \* the frames in its file, which a handle reads after it is gone
  leased,      \* who holds the lock of its file
  snapshot,    \* Snapshot::entries of each process, or Unread
  files,       \* Snapshot::files: the packs it has open
  touched,     \* Snapshot::touched: when a key was used, 0 when it was not
  writeFailed, \* the processes that publish no more
  job,         \* what each process is doing
  damage

disk  == <<index, temps, name, data, leased>>
reads == <<snapshot, files, touched>>
vars  == <<clock, lock, disk, reads, writeFailed, job, damage>>

Packs  == 1 .. MaxPacks
Unused == {i \in Packs : name[i] = "none"}

Idle == [pc |-> "idle", batch |-> <<>>, at |-> 0, lease |-> 0, entries |-> <<>>,
         bounded |-> FALSE, cap |-> 0, over |-> FALSE, todo |-> {}, dirty |-> FALSE,
         list |-> {}, did |-> FALSE]

Init == /\ clock = 1
        /\ lock = Nobody
        /\ index = <<>>
        /\ temps = {}
        /\ name = [i \in Packs |-> "none"]
        /\ data = [i \in Packs |-> <<>>]
        /\ leased = [i \in Packs |-> Nobody]
        /\ snapshot = [p \in Procs |-> Unread]
        /\ files = [p \in Procs |-> {}]
        /\ touched = [p \in Procs |-> [k \in Keys |-> 0]]
        /\ writeFailed = {}
        /\ job = [p \in Procs |-> Idle]
        /\ damage = 0
-----------------------------------------------------------------------------
(* The index and the snapshots. *)

\* What load finds; a corrupt index has no entries.
Loaded == IF index = Corrupt THEN <<>> ELSE index

\* f with the locations of g in their place.
Extended(f, g) == [k \in DOMAIN f \union DOMAIN g |-> IF k \in DOMAIN g THEN g[k] ELSE f[k]]

\* recover: what a writer under the publication lock builds on.
RecoveredFromSnapshot(p) == IF snapshot[p] = Unread THEN Loaded ELSE snapshot[p]    \* variant
Recovered(p) == Loaded

\* merge_touches: a mark only moves an entry's last use forward.
MarkedAlways(p, f) == [k \in DOMAIN f |-> [f[k] EXCEPT !.used =                     \* variant
                         IF touched[p][k] > 0 THEN touched[p][k] ELSE @]]
Marked(p, f) == [k \in DOMAIN f |-> [f[k] EXCEPT !.used =
                   IF touched[p][k] > @ THEN touched[p][k] ELSE @]]

NoMarks(p) == touched' = [touched EXCEPT ![p] = [k \in Keys |-> 0]]

InRange(loc) == loc.at <= Len(data[loc.pack])

\* Whether a get through entries f finds the bytes of k.
Finds(f, open, k) == /\ k \in DOMAIN f
                     /\ f[k].pack \in open \/ name[f[k].pack] = "pack"
                     /\ InRange(f[k])

Found(f, open) == [k \in Keys |-> IF Finds(f, open, k) THEN data[f[k].pack][f[k].at] ELSE Miss]

\* The handles after a get opened pack i; the first ID leaves a full table.
Opened(open, i) == IF i \in open THEN open
                   ELSE {i} \union (IF Cardinality(open) >= MaxHandles
                                    THEN open \ {Min(open)} ELSE open)

Touched(p, f, k) == IF clock - f[k].used > MarkAge
                    THEN [touched EXCEPT ![p][k] = clock] ELSE touched

Known(p) == IF snapshot[p] = Unread THEN Loaded ELSE snapshot[p]

Get(p, k) ==
  LET f == Known(p) IN
  /\ snapshot' = [snapshot EXCEPT ![p] = f]
  /\ files' = IF k \in DOMAIN f /\ (f[k].pack \in files[p] \/ name[f[k].pack] = "pack")
              THEN [files EXCEPT ![p] = Opened(@, f[k].pack)] ELSE files
  /\ touched' = IF Finds(f, files[p], k) THEN Touched(p, f, k) ELSE touched
  /\ UNCHANGED <<clock, lock, disk, writeFailed, job, damage>>

Touch(p, k) ==
  LET f == Known(p) IN
  /\ snapshot' = [snapshot EXCEPT ![p] = f]
  /\ touched' = IF k \in DOMAIN f THEN Touched(p, f, k) ELSE touched
  /\ UNCHANGED <<clock, lock, disk, files, writeFailed, job, damage>>

\* replace: the entries just written become the snapshot, its marks stay.
Replaced(p, f) == /\ snapshot' = [snapshot EXCEPT ![p] = f]
                  /\ files' = [files EXCEPT ![p] = {}]
-----------------------------------------------------------------------------
(* Steps that publish and collect share. *)

At(p, pc) == job[p].pc = pc
Publishing(p) == job[p].batch # <<>>

\* p goes on as j says, or at pc.
Becomes(p, j) == job' = [job EXCEPT ![p] = j]
Go(p, pc)     == Becomes(p, [job[p] EXCEPT !.pc = pc])

\* lease: a pack with a fresh ID, locked by p, which holds frames.
Lease(p, frames) == LET i == Min(Unused) IN
  /\ name' = [name EXCEPT ![i] = "pending"]
  /\ data' = [data EXCEPT ![i] = frames]
  /\ leased' = [leased EXCEPT ![i] = p]

\* finish: the publication lock keeps collectors away between the two calls.
Finish(p) == LET i == job[p].lease IN
  /\ At(p, "finish")
  /\ leased' = [leased EXCEPT ![i] = Nobody]
  /\ name' = [name EXCEPT ![i] = "pack"]
  /\ Go(p, "save")
  /\ UNCHANGED <<clock, lock, index, temps, data, reads, writeFailed, damage>>

\* After save: publish replaces its snapshot, compact goes on with the next
\* pack, and the last save of maintain is followed by the pruning.
Files == {i \in Packs : name[i] \in {"pending", "pack"}}

Saved(p) == LET j == job[p] IN Becomes(p,
  IF Publishing(p) THEN [j EXCEPT !.pc = "replace"]
  ELSE IF j.lease # 0 THEN [j EXCEPT !.pc = "compact", !.lease = 0, !.dirty = FALSE, !.did = TRUE]
  ELSE [j EXCEPT !.pc = "prune", !.list = Files \union {0}, !.did = FALSE])

SaveEmpty(p) ==
  /\ At(p, "save") /\ job[p].entries = <<>>
  /\ index' = <<>>
  /\ Saved(p)
  /\ UNCHANGED <<clock, lock, temps, name, data, leased, reads, writeFailed, damage>>

SaveTemp(p) ==
  /\ At(p, "save") /\ job[p].entries # <<>>
  /\ temps' = temps \union {p}
  /\ Go(p, "rename")
  /\ UNCHANGED <<clock, lock, index, name, data, leased, reads, writeFailed, damage>>

SaveRename(p) ==
  /\ At(p, "rename")
  /\ temps' = temps \ {p}
  /\ index' = job[p].entries
  /\ Saved(p)
  /\ UNCHANGED <<clock, lock, name, data, leased, reads, writeFailed, damage>>

\* The last step of publish and maintain, still under the lock.
Replace(p) ==
  /\ At(p, "replace")
  /\ Replaced(p, job[p].entries)
  /\ lock' = Nobody
  /\ Becomes(p, Idle)
  /\ UNCHANGED <<clock, disk, touched, writeFailed, damage>>

\* The publication lock after p failed while it held a lease.
LockAfterFail(p) == IF Publishing(p) /\ lock = p THEN Nobody ELSE lock

\* An operation fails: publish drops the publication lock and then its lease,
\* compact its lease first.  DiskStore::warn turns later puts off.
Fail(p) ==
  /\ damage + Cardinality(writeFailed \union {p}) <= MaxFaults
  /\ job[p].pc \in {"write", "finish", "save", "rename", "compact", "prune"}
  /\ IF job[p].lease # 0
     THEN /\ Go(p, "drop")
          /\ lock' = LockAfterFail(p)
     ELSE /\ Becomes(p, Idle)
          /\ lock' = Nobody
  /\ temps' = temps \ {p}
  /\ writeFailed' = writeFailed \union {p}
  /\ UNCHANGED <<clock, index, name, data, leased, reads, damage>>

DropUnlock(p) ==
  /\ At(p, "drop")
  /\ leased' = [leased EXCEPT ![job[p].lease] = Nobody]
  /\ Go(p, "remove")
  /\ UNCHANGED <<clock, lock, index, temps, name, data, reads, writeFailed, damage>>

DropRemove(p) ==
  /\ At(p, "remove")
  /\ name' = [name EXCEPT ![job[p].lease] = "gone"]
  /\ lock' = IF lock = p THEN Nobody ELSE lock
  /\ Becomes(p, Idle)
  /\ UNCHANGED <<clock, index, temps, data, leased, reads, writeFailed, damage>>
-----------------------------------------------------------------------------
(* publish *)

PublishLease(p, b) ==
  /\ At(p, "idle") /\ lock = Nobody /\ Unused # {} /\ p \notin writeFailed
  /\ Lease(p, <<>>)
  /\ Becomes(p, [Idle EXCEPT !.pc = "write", !.batch = b, !.at = clock, !.lease = Min(Unused)])
  /\ UNCHANGED <<clock, lock, index, temps, reads, writeFailed, damage>>

PublishWrite(p) ==
  LET j == job[p]
      n == Len(data[j.lease]) + 1 IN
  /\ At(p, "write") /\ n <= Len(j.batch)
  /\ data' = [data EXCEPT ![j.lease] =
                Append(@, [key |-> j.batch[n], pack |-> j.lease, at |-> n])]
  /\ UNCHANGED <<clock, lock, index, temps, name, leased, reads, writeFailed, job, damage>>

\* The locations of a batch: of two frames for one key the last counts.
Pending(j) == [k \in Range(j.batch) |->
                 [pack |-> j.lease, at |-> Max({n \in DOMAIN j.batch : j.batch[n] = k}),
                  used |-> j.at]]

PublishMerge(p) ==
  /\ At(p, "write") /\ lock = Nobody
  /\ Len(data[job[p].lease]) = Len(job[p].batch)
  /\ lock' = p
  /\ Becomes(p, [job[p] EXCEPT !.pc = "finish",
                   !.entries = Extended(Marked(p, Recovered(p)), Pending(job[p]))])
  /\ NoMarks(p)
  /\ UNCHANGED <<clock, disk, snapshot, files, writeFailed, damage>>
-----------------------------------------------------------------------------
(* maintain *)

IndexSize(n) == IF n = 0 THEN 0 ELSE Header + Row * n

WithinFrames(keys, limit) == FrameSize * Cardinality(keys) <= limit                \* variant
Within(keys, limit) == FrameSize * Cardinality(keys) + IndexSize(Cardinality(keys)) <= limit

\* Whether keys are all the entries used after some moment, the order by
\* (used, key) being total.
Recent(f, keys) == \A k \in keys, l \in DOMAIN f \ keys :
                      f[l].used < f[k].used \/ (f[l].used = f[k].used /\ l < k)

\* The entries that stay: all, or the most recent that fit nine tenths.
Kept(f, cap) == IF Within(DOMAIN f, cap) THEN DOMAIN f
                ELSE CHOOSE keys \in SUBSET DOMAIN f :
                       /\ Recent(f, keys) /\ Within(keys, (cap * 9) \div 10)
                       /\ \A more \in SUBSET DOMAIN f :
                            (Recent(f, more) /\ Within(more, (cap * 9) \div 10))
                              => Cardinality(more) <= Cardinality(keys)

\* What some packs and the index of some rows take.
PackSize == [i \in Packs |-> FrameSize * Len(data[i])]
Size(packs, f) == SumFunctionOnSet(PackSize, packs) + IndexSize(Cardinality(DOMAIN f))
PhysicalSize   == Size({i \in Packs : name[i] = "pack"}, Loaded)

\* The packs that the rows of f lead to, and the rows that lead to pack i.
PacksOf(f)   == {f[k].pack : k \in DOMAIN f}
InPack(f, i) == {k \in DOMAIN f : f[k].pack = i}

\* The packs that are worth copying into new ones.
Sparse(f, before, cap) == {i \in PacksOf(f) :
  LET live == Cardinality(InPack(f, i))
      all  == Len(data[i])
  IN  live < all /\ (before > cap \/ live * 4 < all * 3)}

\* A file that lost frames, and an entry of a lost pack, has no valid range.
\* The private entries leave the packs a cap of their own each time.
Collects(p, bounded, cap) ==
  LET merged == Marked(p, Recovered(p))
      valid  == Restrict(merged, {k \in DOMAIN merged : Finds(merged, {}, k)})
      kept   == Restrict(valid, Kept(valid, cap))
      sparse == Sparse(kept, PhysicalSize, cap)
  IN
  /\ At(p, "idle") /\ lock = Nobody /\ Unused # Packs
  /\ Cardinality(sparse) <= Cardinality(Unused)
  /\ lock' = p
  /\ Replaced(p, merged)
  /\ NoMarks(p)
  /\ Becomes(p, [Idle EXCEPT
       !.pc = "compact", !.bounded = bounded, !.cap = cap, !.entries = kept, !.todo = sparse,
       !.over = ~ Within(DOMAIN valid, cap),
       !.dirty = index = Corrupt \/ kept # Loaded])
  /\ UNCHANGED <<clock, disk, writeFailed, damage>>

Maintain(p, bounded) == \E cap \in Caps : Collects(p, bounded, cap)

\* Past the deadline a collection stops, once it has done one thing.
TimeUpFirst(p) == job[p].bounded                                                   \* variant
TimeUp(p) == job[p].bounded /\ job[p].did

\* Where compact put the frame of k: the copies follow one another by key.
Rank(keys, k)       == Cardinality({l \in keys : l <= k})
PlaceStill(keys, k) == 1                                                           \* variant
Place(keys, k)      == Rank(keys, k)

Copies(f, from, keys) == [n \in 1 .. Cardinality(keys) |->
                            data[from][f[CHOOSE k \in keys : Rank(keys, k) = n].at]]

\* compact: the live frames of the first sparse pack in the order of their keys.
Compact(p) ==
  LET j    == job[p]
      from == Min(j.todo)
      to   == Min(Unused)
      keys == {k \in DOMAIN j.entries : j.entries[k].pack = from}
  IN
  /\ At(p, "compact") /\ j.todo # {}
  /\ name[from] = "pack" /\ \A k \in keys : InRange(j.entries[k])
  /\ Lease(p, Copies(j.entries, from, keys))
  /\ Becomes(p, [j EXCEPT !.pc = "finish", !.lease = to, !.todo = j.todo \ {from},
       !.entries = Extended(j.entries, [k \in keys |->
          [pack |-> to, at |-> Place(keys, k), used |-> j.entries[k].used]])])
  /\ UNCHANGED <<clock, lock, index, temps, reads, writeFailed, damage>>

EndCompact(p) ==
  /\ At(p, "compact") /\ (job[p].todo = {} \/ TimeUp(p))
  /\ Becomes(p, IF job[p].dirty \/ job[p].entries = <<>> THEN [job[p] EXCEPT !.pc = "save"]
                ELSE [job[p] EXCEPT !.pc = "prune", !.list = Files \union {0}, !.did = FALSE])
  /\ UNCHANGED <<clock, lock, disk, reads, writeFailed, damage>>

Live(p, i) == name[i] = "pack" /\ \E k \in DOMAIN job[p].entries : job[p].entries[k].pack = i

\* try_lock finds another holder.
LockedNever(i)   == FALSE                                                          \* variant
LockedPending(i) == name[i] = "pending"                                            \* variant
Locked(i)        == leased[i] # Nobody

\* prune_orphans, one name at a time; a live entry's pack and a leased file stay.
PruneSkip(p, i) ==
  /\ At(p, "prune") /\ i \in job[p].list \ {0}
  /\ Live(p, i) \/ Locked(i) \/ name[i] = "gone"
  /\ Becomes(p, [job[p] EXCEPT !.list = @ \ {i}])
  /\ UNCHANGED <<clock, lock, disk, reads, writeFailed, damage>>

PruneRemove(p, i) ==
  /\ At(p, "prune") /\ i \in job[p].list \ {0}
  /\ i \in Files /\ ~ Live(p, i) /\ ~ Locked(i)
  /\ name' = [name EXCEPT ![i] = "gone"]
  /\ Becomes(p, [job[p] EXCEPT !.list = @ \ {i}, !.did = TRUE])
  /\ UNCHANGED <<clock, lock, index, temps, data, leased, reads, writeFailed, damage>>

\* A name that another process removed after it was listed ends the collection.
PruneVanished(p, i) ==
  /\ At(p, "prune") /\ i \in job[p].list \ {0}
  /\ name[i] = "gone"
  /\ lock' = Nobody
  /\ Becomes(p, Idle)
  /\ writeFailed' = writeFailed \union {p}
  /\ UNCHANGED <<clock, disk, reads, damage>>

\* 0 stands for the temporary indexes of dead writers.
PruneTemps(p) ==
  /\ At(p, "prune") /\ 0 \in job[p].list
  /\ temps' = {}
  /\ Becomes(p, [job[p] EXCEPT !.list = @ \ {0}, !.did = @ \/ temps # {}])
  /\ UNCHANGED <<clock, lock, index, name, data, leased, reads, writeFailed, damage>>

EndPrune(p) ==
  /\ At(p, "prune") /\ (job[p].list = {} \/ TimeUp(p))
  /\ Go(p, "replace")
  /\ UNCHANGED <<clock, lock, disk, reads, writeFailed, damage>>
-----------------------------------------------------------------------------
(* The world outside *)

\* The process dies, or ends; the system drops its file locks, no Drop runs.
Crash(p) ==
  /\ Becomes(p, Idle)
  /\ lock' = IF lock = p THEN Nobody ELSE lock
  /\ leased' = [i \in Packs |-> IF leased[i] = p THEN Nobody ELSE leased[i]]
  /\ snapshot' = [snapshot EXCEPT ![p] = Unread]
  /\ files' = [files EXCEPT ![p] = {}]
  /\ NoMarks(p)
  /\ writeFailed' = writeFailed \ {p}
  /\ UNCHANGED <<clock, index, temps, name, data, damage>>

LivePacks == {i \in Packs : name[i] = "pack" /\ \E k \in DOMAIN Loaded : Loaded[k].pack = i}

\* A pack in use loses its last frame or its name, or the index cannot be
\* decoded; not while a writer holds a good copy, which it would write back.
Damage ==
  /\ damage + Cardinality(writeFailed) < MaxFaults
  /\ \A p \in Procs : lock = p => job[p].pc \in {"compact", "prune", "replace"}
  /\ damage' = damage + 1
  /\ \/ \E i \in LivePacks : /\ data[i] # <<>>
                             /\ data' = [data EXCEPT ![i] = Front(@)]
                             /\ UNCHANGED <<index, name>>
     \/ \E i \in LivePacks : /\ name' = [name EXCEPT ![i] = "gone"]
                             /\ UNCHANGED <<index, data>>
     \/ /\ index # <<>> /\ lock = Nobody
        /\ index' = Corrupt
        /\ UNCHANGED <<name, data>>
  /\ UNCHANGED <<clock, lock, temps, leased, reads, writeFailed, job>>

Tick == /\ clock < MaxClock
        /\ clock' = clock + 1
        /\ UNCHANGED <<lock, disk, reads, writeFailed, job, damage>>
-----------------------------------------------------------------------------
\* A question whose answer changes nothing in memory is a stuttering step.
Read(p)    == /\ \E k \in Keys : Get(p, k) \/ Touch(p, k)
              /\ reads' # reads
Save(p)    == SaveEmpty(p) \/ SaveTemp(p) \/ SaveRename(p)
Prune(p)   == \/ \E i \in Packs : PruneSkip(p, i) \/ PruneRemove(p, i) \/ PruneVanished(p, i)
              \/ PruneTemps(p) \/ EndPrune(p)
Work(p)    == \/ PublishWrite(p) \/ PublishMerge(p) \/ Finish(p) \/ Save(p) \/ Replace(p)
              \/ DropUnlock(p) \/ DropRemove(p) \/ Compact(p) \/ EndCompact(p) \/ Prune(p)

Next == \/ \E p \in Procs : \/ Read(p)
                            \/ \E b \in Batches : PublishLease(p, b)
                            \/ \E bounded \in BOOLEAN : Maintain(p, bounded)
                            \/ Work(p) \/ Fail(p) \/ Crash(p)
        \/ Damage \/ Tick

Spec == Init /\ [][Next]_vars

\* Fairness: a live process goes on with what it began, and commands that end
\* collect with a deadline (Drop for DiskStore) again and again.
FairSpec == Spec /\ \A p \in Procs : /\ WF_vars(Work(p))
                                     /\ SF_vars(Maintain(p, TRUE))
-----------------------------------------------------------------------------
(* Properties *)

Places    == (UNION {DOMAIN b : b \in Batches}) \union (1 .. Cardinality(Keys))
Locations == [pack : Packs, at : Places, used : 1 .. MaxClock]
Frames    == [key : Keys, pack : Packs, at : Places]
Tables    == UNION {[keys -> Locations] : keys \in SUBSET Keys}

ASSUME CorruptIsNoTable == Corrupt \notin Tables
ASSUME MarksAreNoData == Unread \notin Tables /\ Miss \notin Frames

Jobs == [pc : {"idle", "write", "finish", "save", "rename", "replace", "compact", "prune",
               "drop", "remove"},
         batch : Batches \union {<<>>}, at : 0 .. MaxClock, lease : Packs \union {0},
         entries : Tables, bounded : BOOLEAN, cap : Caps \union {0}, over : BOOLEAN,
         todo : SUBSET Packs, dirty : BOOLEAN, list : SUBSET (Packs \union {0}), did : BOOLEAN]

TypeOK ==
  /\ clock \in 1 .. MaxClock /\ damage \in 0 .. MaxFaults
  /\ lock \in Procs \union {Nobody}
  /\ index = Corrupt \/ index \in Tables
  /\ temps \subseteq Procs /\ writeFailed \subseteq Procs
  /\ name \in [Packs -> {"none", "pending", "pack", "gone"}]
  /\ data \in [Packs -> Seq(Frames)]
  /\ leased \in [Packs -> Procs \union {Nobody}]
  /\ snapshot \in [Procs -> Tables \union {Unread}]
  /\ files \in [Procs -> SUBSET Packs] /\ \A p \in Procs : Cardinality(files[p]) <= MaxHandles
  /\ touched \in [Procs -> [Keys -> 0 .. MaxClock]]
  /\ job \in [Procs -> Jobs]

\* What an operation has at each of its steps: who holds the publication lock,
\* and that a collection always finds a fresh ID.
JobsInv ==
  \A p \in Procs :
    /\ At(p, "idle") => job[p] = Idle
    /\ At(p, "write") => Publishing(p)
    /\ Publishing(p) => job[p].lease # 0 /\ job[p].at # 0 /\ job[p].todo = {}
    /\ job[p].pc \in {"write", "finish", "drop", "remove"} => job[p].lease # 0
    /\ job[p].pc \in {"compact", "prune"} => ~ Publishing(p) /\ job[p].lease = 0
    /\ (lock = p) <=> \/ job[p].pc \in {"finish", "save", "rename", "compact", "prune", "replace"}
                      \/ job[p].pc \in {"drop", "remove"} /\ ~ Publishing(p)
    /\ lock = p => Cardinality(job[p].todo) <= Cardinality(Unused)

\* The steps until a new pack is in the index, or removed again.
Unindexed(p) == job[p].pc \in {"write", "finish", "save", "rename", "drop", "remove"}

\* A lease is a new pack.  Until its writer saves the index nobody else has a
\* location in it, and a file lock is that of a pack being written.
LeasesInv ==
  /\ \A p \in Procs : LET i == job[p].lease IN
       i # 0 =>
         /\ name[i] # "none"
         /\ \A q \in Procs \ {p} : job[q].lease # i
         /\ Unindexed(p) =>
              /\ \A k \in DOMAIN Loaded : Loaded[k].pack # i
              /\ \A q \in Procs \ {p} : \A k \in DOMAIN job[q].entries : job[q].entries[k].pack # i
         /\ job[p].pc \in {"write", "finish"} => name[i] = "pending" /\ leased[i] = p
         /\ job[p].pc \in {"save", "rename"} => name[i] = "pack"
  /\ \A i \in Packs : leased[i] # Nobody =>
       job[leased[i]].lease = i /\ job[leased[i]].pc \in {"write", "finish", "drop"}

\* Locations and frames name packs that were made.
MadeInv ==
  /\ \A k \in DOMAIN Loaded : name[Loaded[k].pack] # "none"
  /\ \A p \in Procs : \A k \in DOMAIN job[p].entries : name[job[p].entries[k].pack] # "none"
  /\ \A i \in Packs : \A n \in DOMAIN data[i] : name[data[i][n].pack] # "none"

\* The pack of a publication holds the first frames of its batch, in order, and
\* no other pack holds one of them.
BatchesInv ==
  \A p \in Procs : Publishing(p) /\ job[p].pc \in {"write", "finish", "save", "rename"} =>
    LET j == job[p] IN
    /\ \A n \in DOMAIN data[j.lease] : n <= Len(j.batch)
         /\ data[j.lease][n] = [key |-> j.batch[n], pack |-> j.lease, at |-> n]
    /\ \A i \in Packs \ {j.lease} : \A n \in DOMAIN data[i] : data[i][n].pack # j.lease
    /\ j.pc # "write" =>
         \A k \in Range(j.batch) : k \in DOMAIN j.entries /\ j.entries[k].pack = j.lease

\* The entries of the one who may write the index carry its marks, or later
\* ones, and when a collection prunes they are the index.
IndexInv ==
  \A p \in Procs : lock = p =>
    /\ \A k \in DOMAIN Loaded \intersect DOMAIN job[p].entries :
         k \notin Range(job[p].batch) => Loaded[k].used <= job[p].entries[k].used
    /\ job[p].pc \in {"prune", "replace"} \/ (At(p, "compact") /\ ~ job[p].dirty)
         => index = job[p].entries

\* As long as nothing outside damaged the cache, a location leads to a frame of
\* its key, in the index and in the entries that will become the index.
LeadsTo(loc, k) == InRange(loc) /\ data[loc.pack][loc.at].key = k

WholeInv ==
  damage = 0 =>
    /\ \A k \in DOMAIN Loaded : name[Loaded[k].pack] = "pack" /\ LeadsTo(Loaded[k], k)
    /\ \A p \in Procs : lock = p => \A k \in DOMAIN job[p].entries :
         LET loc == job[p].entries[k] IN
         LeadsTo(loc, k) /\ (loc.pack # job[p].lease => name[loc.pack] = "pack")

StoreInv == /\ TypeOK /\ JobsInv /\ LeasesInv /\ MadeInv /\ BatchesInv /\ IndexInv /\ WholeInv

\* A pack that nobody is making: it was made, and is not a lease on its way.
Settled(i) == name[i] # "none" /\ \A q \in Procs : Unindexed(q) => job[q].lease # i

\* A snapshot leads to settled packs only: no reader sees a file grow.
SnapshotsInv ==
  \A p \in Procs :
    /\ snapshot[p] = Unread => files[p] = {}
    /\ snapshot[p] # Unread => \A k \in DOMAIN snapshot[p] : Settled(snapshot[p][k].pack)

SamePlace(a, b) == a.pack = b.pack /\ a.at = b.at

\* What a publication has gathered: the rows of the index, and its whole batch.
GatheredBatch(j) ==
  /\ Len(data[j.lease]) = Len(j.batch)
  /\ DOMAIN j.entries = DOMAIN Loaded \union Range(j.batch)
  /\ \A k \in DOMAIN j.entries :
       SamePlace(j.entries[k], IF k \in Range(j.batch) THEN Pending(j)[k] ELSE Loaded[k])

\* A collection: rows of the index, or copies of what they find; all that can
\* be found unless it found more than its cap.
Copied(j, k) ==
  /\ j.lease # 0 /\ j.entries[k].pack = j.lease
  /\ Finds(Loaded, {}, k) /\ InRange(j.entries[k])
  /\ data[j.lease][j.entries[k].at] = data[Loaded[k].pack][Loaded[k].at]

GatheredRows(j) ==
  /\ \A k \in DOMAIN j.entries :
       Copied(j, k) \/ (k \in DOMAIN Loaded /\ SamePlace(j.entries[k], Loaded[k]))
  /\ ~ j.over => \A k \in Keys : Finds(Loaded, {}, k) => k \in DOMAIN j.entries

GatheredInv ==
  \A p \in Procs :
    /\ Publishing(p) => ~ job[p].over
    /\ lock = p /\ job[p].pc \in {"compact", "finish", "save", "rename"} =>
         IF Publishing(p) THEN GatheredBatch(job[p]) ELSE GatheredRows(job[p])

\* Even of a damaged cache, what a row of the index finds is a frame of its key.
FramesInv == \A k \in DOMAIN Loaded : Finds(Loaded, {}, k) => LeadsTo(Loaded[k], k)

\* What a collection works towards.  Its rows fit the cap; but for the packs it
\* still has to copy, either they are all that is in their packs, or these fit
\* the cap already.  Only a deadline lets it leave packs uncopied.
Sweeping(p) == /\ lock = p /\ ~ Publishing(p)
               /\ job[p].pc \in {"compact", "finish", "save", "rename", "prune"}

SweepsInv ==
  \A p \in Procs : Sweeping(p) =>
    LET j == job[p] IN
    /\ Within(DOMAIN j.entries, j.cap)
    /\ \/ \A i \in PacksOf(j.entries) \ j.todo : Len(data[i]) <= Cardinality(InPack(j.entries, i))
       \/ Size(PacksOf(j.entries), j.entries) <= j.cap
    /\ j.pc = "prune" \/ (j.pc \in {"save", "rename"} /\ j.lease = 0) => j.bounded \/ j.todo = {}

CacheInv == StoreInv /\ SnapshotsInv /\ GatheredInv /\ FramesInv /\ SweepsInv

\* DESIGN 5.4: every indexed pack is complete and unlocked before a reader
\* can observe it.  As long as nothing outside damaged the cache, each row of
\* the index names a finished pack which holds a frame of its key.
IndexedIsComplete ==
  damage = 0 => \A k \in DOMAIN Loaded :
    LET loc == Loaded[k] IN
    /\ name[loc.pack] = "pack" /\ leased[loc.pack] = Nobody
    /\ InRange(loc) /\ data[loc.pack][loc.at].key = k

\* DESIGN 5.4: a live lease is retained.  No collector takes a pack from under
\* the process that writes it or that finished it and has yet to index it.
LiveLeaseStays ==
  \A p \in Procs :
    LET i == job[p].lease IN
    /\ At(p, "write") => name[i] = "pending" /\ leased[i] = p
    /\ job[p].pc \in {"save", "rename"} /\ i # 0 => name[i] = "pack"

\* A last-use mark never goes back while the entry stays the same frame,
\* through merges of old marks and compactions (DESIGN 5.4).
FrameOf(loc) == IF InRange(loc) THEN data[loc.pack][loc.at] ELSE Miss

MarksGrow ==
  [][\A k \in DOMAIN Loaded \intersect DOMAIN Loaded' :
       FrameOf(Loaded[k]) # Miss /\ FrameOf(Loaded[k]) = FrameOf(Loaded[k])'
         => Loaded[k].used <= Loaded[k].used']_vars

\* A file that no index row names and no process holds.
Orphan(i) == /\ i \in Files
             /\ \A k \in DOMAIN Loaded : Loaded[k].pack # i
             /\ \A p \in Procs : job[p].lease # i

\* A collection passes over no orphan (DESIGN 5.4): of the names it went
\* through, what is still there is in the index or in the hands of a process.
NoOrphanIsPassedOver ==
  [][\A p \in Procs : At(p, "prune") /\ (At(p, "prune"))' =>
       \A i \in job[p].list \ (job'[p].list \union {0}) : ~ (Orphan(i))']_vars

\* What a collection leaves behind: no orphan among the names it went through;
\* and one without a deadline that ends well has looked at every file and
\* leaves packs and an index that fit the cap (hd cache gc).
CollectionsSweep ==
  /\ NoOrphanIsPassedOver
  /\ [][\A p \in Procs : At(p, "prune") /\ (At(p, "replace"))' /\ ~ job[p].bounded =>
           /\ job[p].list = {}
           /\ Size(LivePacks, Loaded) <= job[p].cap]_vars

\* The cache as a map: what a fresh process would read.
OverCap(keys) == \E cap \in Caps : ~ Within(keys, cap)

Asking(p) == Publishing(p) /\ job[p].pc \in {"write", "finish", "save", "rename"}

Map == INSTANCE CacheMap WITH
  store     <- Found(Loaded, {}),
  views     <- [p \in Procs |-> Found(Known(p), files[p])],
  asked     <- [p \in Procs |-> IF Asking(p) THEN job[p].batch ELSE <<>>],
  origin    <- [p \in Procs |-> IF Asking(p) THEN job[p].lease ELSE 0],
  mayForget <- [p \in Procs |-> job[p].over],
  faults    <- damage,
  TooMuch   <- OverCap

\* Across publishes, collections, compactions, crashes and failures, the cache
\* is a map: batches arrive whole, only a collection over its cap forgets, and
\* an open reader gets whole frames of the map it loaded, or a miss.
ImplementsCacheMap == Map!Spec

\* A file that no index row names and no process holds is removed, though
\* every collection has run out of time when it starts to prune, unless
\* processes go on dying at work.
OrphansAreRemoved ==
  <>[][\A p \in Procs : Crash(p) => At(p, "idle")]_vars
    => \A i \in Packs : Orphan(i) ~> ~ Orphan(i)
=============================================================================
