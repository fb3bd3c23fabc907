--------------------------- MODULE CycleCollector ---------------------------
(***************************************************************************)
(* The counted heap of the linear-memory runtime and its cycle collector:  *)
(* lib/std/rt/cycle.hd (trial deletion over a buffer of candidates), the   *)
(* counts of lib/std/rt/alloc.hd, the releases of                          *)
(* crates/hd_wasm_linear/src/rt.rs (ReleaseRef, ReleaseDrain, TakeBox) and *)
(* the weak side entries they clear.                                       *)
(*                                                                         *)
(* An object is its block.  `refs` is what its release glue releases;      *)
(* `locals` counts the references the program holds outside the heap: its  *)
(* stack, its globals and the host's.  The runtime has one thread, and     *)
(* neither a release nor a collection runs the program's code, so the      *)
(* program's actions wait until both are over.  Their steps are still      *)
(* separate actions, one for each block a loop takes, because the walk     *)
(* order is not fixed: `stack` is the set of the entries in the code's     *)
(* work list, and any of them may come next.                               *)
(***************************************************************************)
EXTENDS Integers, Sequences, FiniteSets

CONSTANTS
  Objects,    \* the block addresses
  Cyclic,     \* the ones whose descriptor has the CYCLIC bit
  Frames,     \* the ones opaque() has tagged: suspension frames
  Holders,    \* the ones with a std.rt.memory.Buffer, whose room is theirs
  Targets,    \* the ones a weak reference may name
  Gap,        \* the 0 that drop_root leaves in the buffer
  First,      \* FIRST, the threshold's first value
  Sweep,      \* SWEEP, the fewest dead candidates that make a sweep due
  Word,       \* one more than the largest usize
  MaxRefs,    \* bound: references from one object to another
  MaxLocals   \* bound: references from outside to one object

ASSUME Kinds == /\ IsFiniteSet(Objects)
                /\ Gap \notin Objects
                /\ Cyclic \subseteq Objects
                /\ Frames \subseteq Cyclic
                /\ Holders \subseteq Objects
                /\ Targets \subseteq Objects
ASSUME Sizes == /\ {First, Sweep, MaxRefs, MaxLocals} \subseteq Nat \ {0}
                /\ Word \in Nat
                /\ Word > First

VARIABLES
  heap,        \* the allocated blocks of counted objects
  refs,        \* refs[p][o]: how many references to o object p holds
  locals,      \* the references to an object from outside the heap
  count,       \* the header's first word
  color,       \* the collector's color bits
  running,     \* the frames whose ACTIVE or RUNNING flag is set
  weak,        \* the objects a live weak side entry names
  room,        \* the holders whose buffer's room is allocated
  draining,    \* the release in progress: the block whose glue runs, then
               \*   those linked behind it
  roots,       \* the candidate buffer
  buffered,    \* the objects with the BUFFERED bit
  candidates, dead,   \* the buffer's two counters
  phase,       \* where collect() is; "idle" when none runs
  at,          \* the walk's index into the buffer
  stack,       \* the work list: <<object, what its trace does>>
  garbage,     \* the white objects found
  later,       \* later[o]: references to o, which takes no part, from them
  rooms,       \* the rooms kept until `later` is released
  visited,     \* the objects marked gray
  threshold

program == <<refs, locals, running>>
words   == <<count, color>>
buffer  == <<roots, buffered, candidates, dead>>
walk    == <<phase, at, stack, garbage, later, rooms, visited>>
vars    == <<heap, program, words, weak, room, draining, buffer, walk, threshold>>

\* What the program's actions leave alone, and what the walks do.
collector == <<walk, threshold>>
still     == <<heap, program, weak, room, draining, threshold>>

None == [o \in Objects |-> 0]

Phases == {"idle", "mark", "scan", "collect", "later"}
Hows   == {"mark", "scan", "restore", "collect"}

\* A block is entered when its type can be on a cycle and, for a frame,
\* its saved slots are stable.
TakesPartStale(o) == o \in Cyclic                     \* variant
TakesPart(o)      == o \in Cyclic /\ o \notin running

-----------------------------------------------------------------------------
(***************************************************************************)
(* The candidate buffer.                                                   *)
(***************************************************************************)
\* The entries of s that are not in S, in their order.
Without(s, S) ==
  LET kept    == {i \in DOMAIN s : s[i] \notin S}
      Rank(i) == Cardinality({j \in kept : j <= i})
  IN [n \in 1 .. Cardinality(kept) |-> s[CHOOSE i \in kept : Rank(i) = n]]

NoGaps(s) == Without(s, {Gap})

\* drop_root: the entry becomes a gap.
StillBuffered(i) == buffered      \* variant: the bit stays
Unbuffered(i) == buffered \ {roots[i]}

DropRoot(i) ==
  /\ roots' = [roots EXCEPT ![i] = Gap]
  /\ candidates' = candidates - 1
  /\ buffered' = Unbuffered(i)
  /\ UNCHANGED dead

(***************************************************************************)
(* suspect: a count above zero is left on an object that takes part.  A    *)
(* full array first closes the gaps; which push finds it full depends on   *)
(* its capacity, so both cases are possible whenever there is a gap.       *)
(***************************************************************************)
NeverSuspect(o) == FALSE            \* variant
NewSuspect(o)   == o \in Cyclic /\ o \notin buffered

Suspect(o) ==
  IF NewSuspect(o)
  THEN /\ roots' \in {Append(roots, o), Append(NoGaps(roots), o)}
       /\ candidates' = candidates + 1
       /\ buffered' = buffered \union {o}
       /\ UNCHANGED dead
  ELSE UNCHANGED buffer

\* keep and free: a candidate's block stays for the next collection.
Free(S) ==
  /\ heap' = heap \ (S \ buffered)
  /\ count' = [o \in Objects |-> IF o \in S \intersect buffered THEN 0 ELSE count[o]]
  /\ dead' = dead + Cardinality(S \intersect buffered)

(***************************************************************************)
(* ReleaseRef: the last reference clears the weak entry and queues the     *)
(* block for its glue, behind the one whose glue runs; any other           *)
(* decrements the count and may make a candidate.                          *)
(***************************************************************************)
Queue(o) == IF draining = <<>> THEN <<o>>
            ELSE <<Head(draining), o>> \o Tail(draining)

KeepWeak(S)  == weak' = weak        \* variant: the entry is not cleared
ClearWeak(S) == weak' = weak \ S

Release(o) ==
  IF count[o] = 1
  THEN /\ draining' = Queue(o)
       /\ ClearWeak({o})
       /\ UNCHANGED <<count, buffer>>
  ELSE /\ count' = [count EXCEPT ![o] = @ - 1]
       /\ Suspect(o)
       /\ UNCHANGED <<draining, weak>>

Retain(o) == count' = [count EXCEPT ![o] = @ + 1]

-----------------------------------------------------------------------------
(***************************************************************************)
(* The program.  It reaches what its locals reach.                         *)
(***************************************************************************)
Closed(S) == \A p \in S, o \in Objects : refs[p][o] > 0 => o \in S

ReachedFrom(S) ==
  LET closed == {T \in SUBSET Objects : S \subseteq T /\ Closed(T)}
  IN {o \in Objects : \A T \in closed : o \in T}

Reachable == ReachedFrom({o \in Objects : locals[o] > 0})

Idle == phase = "idle" /\ draining = <<>>

Init ==
  /\ heap = {}
  /\ refs = [p \in Objects |-> None]
  /\ locals = None
  /\ count = None
  /\ color = [o \in Objects |-> "black"]
  /\ running = {}
  /\ weak = {}
  /\ room = {}
  /\ draining = <<>>
  /\ roots = <<>>
  /\ buffered = {}
  /\ candidates = 0
  /\ dead = 0
  /\ phase = "idle"
  /\ at = 1
  /\ stack = {}
  /\ garbage = {}
  /\ later = None
  /\ rooms = {}
  /\ visited = 0
  /\ threshold = First

\* rt:new writes the header whole: one count, black, not a candidate.
New(o) ==
  /\ Idle
  /\ o \notin heap
  /\ heap' = heap \union {o}
  /\ locals' = [locals EXCEPT ![o] = 1]
  /\ count' = [count EXCEPT ![o] = 1]
  /\ color' = [color EXCEPT ![o] = "black"]
  /\ buffered' = buffered \ {o}
  /\ room' = room \union ({o} \intersect Holders)
  /\ UNCHANGED <<refs, running, weak, draining, roots, candidates, dead, collector>>

\* cycle.rs: a reference from p to o never closes a cycle with an object
\* that takes no part.
MayHold(p, o) == \A x \in ReachedFrom({o}) : p \in ReachedFrom({x}) => x \in Cyclic

\* A reference to o is stored in p.
Store(p, o) ==
  /\ Idle
  /\ refs[p][o] < MaxRefs
  /\ {p, o} \subseteq Reachable
  /\ MayHold(p, o)
  /\ refs' = [refs EXCEPT ![p][o] = @ + 1]
  /\ Retain(o)
  /\ UNCHANGED <<heap, locals, color, running, weak, room, draining, buffer, collector>>

\* A reference is read into a local.
Load(o) ==
  /\ Idle
  /\ locals[o] < MaxLocals
  /\ o \in Reachable
  /\ locals' = [locals EXCEPT ![o] = @ + 1]
  /\ Retain(o)
  /\ UNCHANGED <<heap, refs, color, running, weak, room, draining, buffer, collector>>

\* A local is released.  Whoever polls a running frame holds it.
Drop(o) ==
  /\ Idle
  /\ locals[o] > 0
  /\ o \in running => locals[o] > 1
  /\ locals' = [locals EXCEPT ![o] = @ - 1]
  /\ Release(o)
  /\ UNCHANGED <<heap, refs, color, running, room, collector>>

\* A reference to o is cleared in p.
Clear(p, o) ==
  /\ Idle
  /\ refs[p][o] > 0
  /\ p \in Reachable
  /\ refs' = [refs EXCEPT ![p][o] = @ - 1]
  /\ Release(o)
  /\ UNCHANGED <<heap, locals, color, running, room, collector>>

\* TakeBox: the only reference to a box gives its contents and its block.
TakeBox(o) ==
  /\ Idle
  /\ o \notin Frames \union Holders
  /\ locals[o] = 1
  /\ count[o] = 1
  /\ \A x \in Objects : locals[x] + refs[o][x] <= MaxLocals
  /\ locals' = [x \in Objects |-> IF x = o THEN 0 ELSE locals[x] + refs[o][x]]
  /\ refs' = [refs EXCEPT ![o] = None]
  /\ ClearWeak({o})
  /\ Free({o})
  /\ UNCHANGED <<color, running, room, draining, roots, buffered, candidates, collector>>

\* guard_frame sets and restores RUNNING around a frame's body.
Run(f) ==
  /\ Idle
  /\ locals[f] > 0
  /\ f \notin running
  /\ running' = running \union {f}
  /\ UNCHANGED <<heap, refs, locals, words, weak, room, draining, buffer, collector>>

Suspend(f) ==
  /\ Idle
  /\ f \in running
  /\ running' = running \ {f}
  /\ UNCHANGED <<heap, refs, locals, words, weak, room, draining, buffer, collector>>

\* weak_new and weak_upgrade; WeakEntryDrop, when the last Weak goes.
MakeWeak(o) ==
  /\ Idle
  /\ o \in Reachable
  /\ weak' = weak \union {o}
  /\ UNCHANGED <<heap, program, words, room, draining, buffer, collector>>

Upgrade(o) ==
  /\ Idle
  /\ o \in weak
  /\ locals[o] < MaxLocals
  /\ locals' = [locals EXCEPT ![o] = @ + 1]
  /\ Retain(o)
  /\ UNCHANGED <<heap, refs, color, running, weak, room, draining, buffer, collector>>

ForgetWeak(o) ==
  /\ Idle
  /\ o \in weak
  /\ weak' = weak \ {o}
  /\ UNCHANGED <<heap, program, words, room, draining, buffer, collector>>

-----------------------------------------------------------------------------
(***************************************************************************)
(* ReleaseDrain: the glue of the block at the head releases its references *)
(* one at a time and drops its buffer, whose room goes at once; then the   *)
(* block is freed.                                                         *)
(***************************************************************************)
ReleaseGlue(o) ==
  /\ draining # <<>>
  /\ LET b == Head(draining)
     IN /\ refs[b][o] > 0
        /\ refs' = [refs EXCEPT ![b][o] = @ - 1]
  /\ Release(o)
  /\ UNCHANGED <<heap, locals, color, running, room, collector>>

FreeDrained ==
  /\ draining # <<>>
  /\ LET b == Head(draining)
     IN /\ refs[b] = None
        /\ room' = room \ {b}
        /\ Free({b})
  /\ draining' = Tail(draining)
  /\ UNCHANGED <<program, color, weak, roots, buffered, candidates, collector>>

-----------------------------------------------------------------------------
(***************************************************************************)
(* A collection.  It first frees the candidates without counts (sweep).    *)
(***************************************************************************)
Swept == {o \in buffered : count[o] = 0}

SweepThen(next) ==
  LET kept == Without(roots, Swept \union {Gap})
  IN /\ heap' = heap \ Swept
     /\ roots' = kept
     /\ candidates' = Len(kept)
     /\ dead' = 0
     /\ buffered' = buffered \ Swept
     /\ phase' = next
     /\ at' = 1
     /\ visited' = 0

\* due, and collection_due behind it.
DueFull  == candidates >= Sweep /\ candidates - dead >= threshold
DueSweep == /\ candidates >= Sweep
            /\ ~ DueFull
            /\ dead >= Sweep
            /\ dead * 2 >= candidates

\* CollectPoll collects whenever the entry's poll answers.
PollCollects ==
  /\ Idle
  /\ SweepThen("mark")
  /\ UNCHANGED <<program, words, weak, room, draining, stack, garbage, later, rooms, threshold>>

\* An allocation collects when due answers: all of it, or its sweep alone.
AllocCollects ==
  /\ Idle
  /\ \/ DueFull /\ SweepThen("mark")
     \/ DueSweep /\ SweepThen("idle")
  /\ UNCHANGED <<program, words, weak, room, draining, stack, garbage, later, rooms, threshold>>

(***************************************************************************)
(* One trace of b: what its glue hands to visit.  The saved slots of a     *)
(* running frame are stale, so its glue may also find nothing there.       *)
(***************************************************************************)
Seen(b) == IF b \in running THEN {refs[b], None} ELSE {refs[b]}

Entered(seen) == {o \in Objects : seen[o] > 0 /\ TakesPart(o)}

\* visit in the modes MARK and RESTORE.
TakeCounts(seen) ==
  count' = [o \in Objects |-> IF TakesPart(o) THEN count[o] - seen[o] ELSE count[o]]

GiveCounts(seen) ==
  count' = [o \in Objects |-> IF TakesPart(o) THEN count[o] + seen[o] ELSE count[o]]

Paint(S, c) == color' = [o \in Objects |-> IF o \in S THEN c ELSE color[o]]

\* The next candidate of the loop over the buffer that this phase runs.
AtRootShort(p) == phase = p /\ stack = {} /\ at < Len(roots)   \* variant
AtRoot(p)      == phase = p /\ stack = {} /\ at <= Len(roots)
AtEnd(p)       == phase = p /\ stack = {} /\ at > Len(roots)
Skipped        == roots[at] = Gap \/ ~ TakesPart(roots[at])

SkipRoot ==
  /\ \E p \in {"mark", "scan", "collect"} : AtRoot(p)
  /\ Skipped
  /\ at' = at + 1
  /\ UNCHANGED <<still, words, buffer, phase, stack, garbage, later, rooms, visited>>

\* A candidate that an earlier one's walk has reached needs no walk.
Marked(s) == color[s] = "gray"

MarkRoot ==
  /\ AtRoot("mark")
  /\ ~ Skipped
  /\ LET s == roots[at]
     IN IF Marked(s)
        THEN DropRoot(at) /\ UNCHANGED <<color, stack>>
        ELSE Paint({s}, "gray") /\ stack' = {<<s, "mark">>} /\ UNCHANGED buffer
  /\ at' = at + 1
  /\ UNCHANGED <<still, count, phase, garbage, later, rooms, visited>>

ScanRoot ==
  /\ AtRoot("scan")
  /\ ~ Skipped
  /\ stack' = {<<roots[at], "scan">>}
  /\ at' = at + 1
  /\ UNCHANGED <<still, words, buffer, phase, garbage, later, rooms, visited>>

CollectRoot ==
  /\ AtRoot("collect")
  /\ ~ Skipped
  /\ LET s == roots[at]
     IN IF color[s] = "white"
        THEN /\ Paint({s}, "black")
             /\ garbage' = garbage \union {s}
             /\ stack' = {<<s, "collect">>}
        ELSE UNCHANGED <<color, garbage, stack>>
  /\ DropRoot(at)
  /\ at' = at + 1
  /\ UNCHANGED <<still, count, phase, later, rooms, visited>>

\* Entry e of the work list is replaced by one for each object of S.
Walk(e, S, how) == stack' = (stack \ {e}) \union (S \X {how})

\* mark: one count off all that b references, which turns gray.
Mark(b) ==
  /\ <<b, "mark">> \in stack
  /\ \E seen \in Seen(b) :
       LET fresh == {o \in Entered(seen) : color[o] # "gray"}
       IN /\ TakeCounts(seen)
          /\ Paint(fresh, "gray")
          /\ Walk(<<b, "mark">>, fresh, "mark")
  /\ visited' = visited + 1
  /\ UNCHANGED <<still, buffer, phase, at, garbage, later, rooms>>

\* scan: a gray object with a count left is held from outside.
HeldOutside(b) == count[b] > 0

Scan(b) ==
  /\ <<b, "scan">> \in stack
  /\ CASE color[b] # "gray" -> Walk(<<b, "scan">>, {}, "scan") /\ UNCHANGED color
       [] color[b] = "gray" /\ HeldOutside(b) ->
            Paint({b}, "black") /\ Walk(<<b, "scan">>, {b}, "restore")
       [] OTHER ->
            Paint({b}, "white") /\ \E seen \in Seen(b) :
                                     Walk(<<b, "scan">>, Entered(seen), "scan")
  /\ UNCHANGED <<still, count, buffer, phase, at, garbage, later, rooms, visited>>

\* It and all it reaches turn black and get their counts back.
NotBlack(seen) == {o \in Entered(seen) : color[o] # "black"}

Restore(b) ==
  /\ <<b, "restore">> \in stack
  /\ \E seen \in Seen(b) : /\ GiveCounts(seen)
                           /\ Paint(NotBlack(seen), "black")
                           /\ Walk(<<b, "restore">>, NotBlack(seen), "restore")
  /\ UNCHANGED <<still, buffer, phase, at, garbage, later, rooms, visited>>

\* hold_room: only this trace gives the room up, and not yet.
FreeRoomNow(b) == room' = room \ {b} /\ UNCHANGED rooms      \* variant
GiveRoomUp(b)  == rooms' = rooms \union ({b} \intersect room) /\ UNCHANGED room

\* drain(COLLECT): the white objects are listed, and their references to
\* objects that take no part.
Collect(b) ==
  /\ <<b, "collect">> \in stack
  /\ \E seen \in Seen(b) :
       LET fresh == {o \in Entered(seen) : color[o] = "white"}
       IN /\ Paint(fresh, "black")
          /\ garbage' = garbage \union fresh
          /\ later' = [o \in Objects |-> IF TakesPart(o) THEN later[o] ELSE later[o] + seen[o]]
          /\ Walk(<<b, "collect">>, fresh, "collect")
  /\ GiveRoomUp(b)
  /\ UNCHANGED <<heap, program, count, weak, draining, buffer, threshold, phase, at, visited>>

\* The loop over the buffer ends, and the next one begins.
NextWalk ==
  /\ \/ AtEnd("mark") /\ phase' = "scan"
     \/ AtEnd("scan") /\ phase' = "collect"
  /\ at' = 1
  /\ UNCHANGED <<still, words, buffer, stack, garbage, later, rooms, visited>>

\* CycleFree clears the weak entry of each white object and frees it.
EndCollect ==
  /\ AtEnd("collect")
  /\ phase' = "later"
  /\ at' = 1
  /\ Free(garbage)
  /\ ClearWeak(garbage)
  /\ refs' = [p \in Objects |-> IF p \in garbage THEN None ELSE refs[p]]
  /\ UNCHANGED <<locals, color, running, room, draining, roots, buffered, candidates,
                 threshold, stack, garbage, later, rooms, visited>>

\* These releases may free more, and make candidates for the next time.
ReleaseLater(o) ==
  /\ phase = "later" /\ draining = <<>>
  /\ later[o] > 0
  /\ later' = [later EXCEPT ![o] = @ - 1]
  /\ Release(o)
  /\ UNCHANGED <<heap, program, color, room, threshold,
                 phase, at, stack, garbage, rooms, visited>>

\* The rooms go, the gaps close, and the threshold follows the yield.
NewThreshold ==
  IF Cardinality(garbage) * 2 >= visited
  THEN IF threshold \div 2 > First THEN threshold \div 2 ELSE First
  ELSE (threshold * 2) % Word

Finish ==
  /\ phase = "later" /\ draining = <<>> /\ later = None
  /\ room' = room \ rooms
  /\ rooms' = {}
  /\ garbage' = {}
  /\ roots' = NoGaps(roots)
  /\ candidates' = Len(NoGaps(roots))
  /\ threshold' = NewThreshold
  /\ phase' = "idle"
  /\ at' = 1
  /\ visited' = 0
  /\ UNCHANGED <<heap, program, words, weak, draining, buffered, dead, stack, later>>

-----------------------------------------------------------------------------
Program ==
  \/ \E o \in Objects : New(o) \/ Load(o) \/ Drop(o) \/ TakeBox(o)
  \/ \E p, o \in Objects : Store(p, o) \/ Clear(p, o)
  \/ \E f \in Frames : Run(f) \/ Suspend(f)
  \/ \E o \in Targets : MakeWeak(o) \/ Upgrade(o) \/ ForgetWeak(o)

Drain == FreeDrained \/ \E o \in Objects : ReleaseGlue(o)

Collection ==
  \/ SkipRoot \/ MarkRoot \/ ScanRoot \/ CollectRoot
  \/ NextWalk \/ EndCollect \/ Finish
  \/ \E b \in Objects : Mark(b) \/ Scan(b) \/ Restore(b) \/ Collect(b) \/ ReleaseLater(b)

Next == Program \/ Drain \/ PollCollects \/ AllocCollects \/ Collection

Spec == Init /\ [][Next]_vars

(***************************************************************************)
(* The runtime's loops run on; the host polls the entry again and again.   *)
(***************************************************************************)
FairSpec == Spec /\ WF_vars(Drain \/ Collection) /\ SF_vars(PollCollects)

-----------------------------------------------------------------------------
InSeq(s) == {s[i] : i \in 1 .. Len(s)}

\* The objects whose count is 0 because their last reference went, and not
\* because a walk took it off; with the ones whose release is in progress,
\* they are gone for the program.
CountGone == IF phase \in {"idle", "later"} THEN Swept ELSE {}
Gone    == InSeq(draining) \union CountGone

\* References to o from the objects of S.
Held(S, o) == Cardinality({r \in S \X (1 .. MaxRefs) : r[2] <= refs[r[1]][o]})

\* The objects whose references a walk has taken off the counts.
TakenOff == {p \in heap : \/ color[p] \in {"gray", "white"} /\ <<p, "mark">> \notin stack
                         \/ <<p, "restore">> \in stack
                         \/ p \in garbage}

Counting(o) == IF TakesPart(o) THEN heap \ TakenOff ELSE heap

(***************************************************************************)
(* Every variable has its type: counts never pass below zero, a color is   *)
(* left only while a collection runs, and the buffer holds objects.        *)
(***************************************************************************)
TypeOK ==
  /\ heap \subseteq Objects
  /\ refs \in [Objects -> [Objects -> 0 .. MaxRefs]]
  /\ locals \in [Objects -> 0 .. MaxLocals]
  /\ count \in [Objects -> Nat]
  /\ color \in [Objects -> {"black", "gray", "white"}]
  /\ phase = "idle" => color = [o \in Objects |-> "black"]
  /\ running \subseteq Frames
  /\ weak \subseteq Targets
  /\ room \subseteq Holders
  /\ draining \in Seq(Objects)
  /\ roots \in Seq(Objects \union {Gap})
  /\ buffered \subseteq Cyclic
  /\ {candidates, dead, visited, threshold} \subseteq Nat
  /\ phase \in Phases
  /\ at \in 1 .. Len(roots) + 1
  /\ stack \subseteq Objects \X Hows
  /\ garbage \subseteq Cyclic
  /\ later \in [Objects -> Nat]
  /\ rooms \subseteq Holders

(***************************************************************************)
(* cycle.hd, collect: at every step a count is what really refers to the   *)
(* object, less what the walk has taken off and not given back.  So the    *)
(* counts a collection leaves are exact, whatever it marked and restored.  *)
(***************************************************************************)
CountsExact ==
  \A o \in heap \ InSeq(draining) :
    count[o] = locals[o] + Held(Counting(o), o)
               + (IF phase = "later" THEN later[o] ELSE 0)

(***************************************************************************)
(* suspect, keep, drop_root, sweep and compact agree on the buffer: it     *)
(* lists each object with the BUFFERED bit once, all of them allocated,    *)
(* and its two counters count it.  A block that a walk finds through the   *)
(* buffer has not been freed, and is not freed twice.                      *)
(***************************************************************************)
BufferExact ==
  /\ buffered \subseteq heap
  /\ InSeq(roots) \ {Gap} = buffered
  /\ \A i, j \in 1 .. Len(roots) : roots[i] = roots[j] /\ roots[i] # Gap => i = j
  /\ candidates = Cardinality(buffered)
  /\ dead = Cardinality(CountGone)
  /\ phase = "idle" => Gap \notin InSeq(roots)

(***************************************************************************)
(* No release and no collection takes what the program still reaches: the  *)
(* block, its contents' counts, or its buffer's room.                      *)
(***************************************************************************)
ReachableIsKept ==
  \A o \in Reachable : /\ o \in heap \ Gone
                       /\ phase = "later" => o \notin garbage
                       /\ o \in Holders => o \in room

(***************************************************************************)
(* What anything names is a block whose release has not begun.  A block    *)
(* that is gone holds nothing; the drain frees each block once; whoever    *)
(* polls a frame holds it.                                                 *)
(***************************************************************************)
Names(o) == locals[o] + later[o] > 0 \/ o \in weak \/ \E p \in Objects : refs[p][o] > 0

NothingDangles ==
  /\ \A o \in Objects : Names(o) => o \in heap \ Gone
  /\ \A p \in Objects \ (heap \ CountGone) : refs[p] = None
  /\ \A o \in InSeq(draining) : o \in heap /\ count[o] = 1
  /\ \A i, j \in DOMAIN draining : draining[i] = draining[j] => i = j
  /\ \A f \in running : locals[f] > 0

(***************************************************************************)
(* What a phase has: its entries, its colors, its roots, its garbage, and  *)
(* the references and rooms that wait for its end.                         *)
(***************************************************************************)
Colored(c)   == {o \in Objects : color[o] = c}
NotBlackYet  == Colored("gray") \union Colored("white")
Entries(how) == {o \in Objects : <<o, how>> \in stack}

HowsOf == CASE phase = "mark"    -> {"mark"}
            [] phase = "scan"    -> {"scan", "restore"}
            [] phase = "collect" -> {"collect"}
            [] OTHER             -> {}

PhasesInv ==
  /\ draining # <<>> => phase \in {"idle", "later"}
  /\ phase \in {"idle", "later"} => at = 1 /\ NotBlackYet = {}
  /\ \A e \in stack : e[2] \in HowsOf
  /\ \A o \in NotBlackYet \union {e[1] : e \in stack} : o \in heap /\ TakesPart(o)
  /\ Entries("mark") \subseteq Colored("gray")
  /\ Entries("restore") \intersect NotBlackYet = {}
  /\ Entries("collect") \subseteq garbage
  /\ phase = "mark" => Colored("white") = {}
  /\ phase = "collect" => Colored("gray") = {}
  /\ phase = "collect" => \A i \in 1 .. at - 1 : roots[i] = Gap \/ ~ TakesPart(roots[i])
  /\ phase \notin {"collect", "later"} => garbage = {} /\ later = None
  /\ phase = "collect" => garbage \subseteq heap
  /\ phase = "later" => garbage \intersect heap = {}
  /\ \A o \in garbage : TakesPart(o) /\ color[o] = "black"
  /\ \A o \in Colored("white") \union (garbage \intersect heap) : count[o] = 0
  /\ phase = "collect" =>
       \A o \in Objects : later[o] = IF TakesPart(o) THEN 0
                                     ELSE Held(garbage \ Entries("collect"), o)
  /\ phase # "later" => rooms = Holders \intersect (garbage \ Entries("collect"))
  /\ CountGone \intersect room = {}

(***************************************************************************)
(* N can be reached inside N from S: a walk that starts at S misses none.  *)
(***************************************************************************)
Covers(S, N) ==
  \A T \in SUBSET Objects :
    (/\ S \intersect N \subseteq T
     /\ \A p \in T \intersect N, o \in N : refs[p][o] > 0 => o \in T) => N \subseteq T

HeldBy(S)   == {o \in Objects : \E p \in S : refs[p][o] > 0}
RootsIn(I)  == {roots[i] : i \in I}

\* No walk leaves a color behind: each object with one is still to be met,
\* and a candidate's entry stays until the walk that starts at it.
WalksInv ==
  /\ phase = "mark" => Covers(RootsIn(1 .. at - 1), NotBlackYet)
  /\ phase = "scan" =>
       /\ Covers(RootsIn(DOMAIN roots) \union HeldBy(Entries("restore")), NotBlackYet)
       /\ Covers(RootsIn(at .. Len(roots)) \union Entries("scan")
                   \union HeldBy(Entries("restore")), Colored("gray"))
  /\ phase = "collect" =>
       Covers(RootsIn(at .. Len(roots)) \union HeldBy(Entries("collect")), Colored("white"))

(***************************************************************************)
(* The counted heap between any two steps of the program, of a release and *)
(* of a walk: its types, its counts, its buffer, and what it must keep.    *)
(***************************************************************************)
HeapInv == /\ TypeOK /\ CountsExact /\ BufferExact /\ ReachableIsKept
           /\ NothingDangles /\ PhasesInv /\ WalksInv

(***************************************************************************)
(* hold_room: a room lives exactly as long as its holder's contents, and   *)
(* a white holder's until the references that may point into it are gone.  *)
(***************************************************************************)
RoomsFollowHolders ==
  /\ (heap \intersect Holders) \ Gone \subseteq room
  /\ phase = "later" => garbage \intersect Holders = rooms
  /\ phase = "later" => rooms \subseteq room
  /\ room \ heap \subseteq rooms

(***************************************************************************)
(* An island: live blocks that only each other refer to.                   *)
(***************************************************************************)
Island(S) ==
  /\ S # {} /\ S \subseteq heap \ Gone
  /\ \A o \in S : locals[o] = 0 /\ later[o] = 0 /\ \A p \in Objects : refs[p][o] > 0 => p \in S

\* cycle.rs: no cycle goes through an object that takes no part.
NoPlainCycle ==
  \A p, o \in Objects : refs[p][o] > 0 /\ p \in ReachedFrom({o}) => o \in Cyclic

\* An island has a candidate; a mark turns all of it gray, the scan finds it
\* white, and the collection takes it.
IslandsInv ==
  /\ phase \in {"idle", "later"} => \A S \in SUBSET Objects : Island(S) => S \intersect buffered # {}
  /\ phase \notin {"idle", "later"} => \A o \in heap \ Cyclic : count[o] > 0
  /\ phase = "mark" =>
       /\ \A S \in SUBSET Cyclic : Island(S) =>
            S \intersect (Colored("gray") \union RootsIn(at .. Len(roots))) # {}
       /\ \A p \in Colored("gray") \ Entries("mark"), o \in Objects :
            refs[p][o] > 0 /\ TakesPart(o) => color[o] = "gray"
  /\ phase = "scan" => \A S \in SUBSET Cyclic : Island(S) => S \subseteq NotBlackYet
  /\ phase = "collect" => \A S \in SUBSET Cyclic : Island(S) => S \subseteq Colored("white") \union garbage

(***************************************************************************)
(* What the program cannot reach is freed already, or a candidate reaches  *)
(* it: no garbage cycle is out of the next collection's sight.  It holds   *)
(* because the release that disconnects a cycle leaves a count above zero  *)
(* on one of its objects, and drop_root only forgets what another          *)
(* candidate reaches, and what turned black.                               *)
(***************************************************************************)
NoLeak == /\ NoPlainCycle /\ IslandsInv
          /\ Idle => heap \ Reachable \subseteq ReachedFrom(InSeq(roots) \ {Gap})

(***************************************************************************)
(* The runtime implements a heap without a collector (ManagedHeap): what   *)
(* the program holds changes by its own steps only.                        *)
(***************************************************************************)
Objs    == heap \ Gone
ObjRefs == [p \in Objects |-> [o \in Objects |->
              IF {p, o} \subseteq Objs THEN refs[p][o] ELSE 0]]

Managed == INSTANCE ManagedHeap WITH objs <- Objs, refs <- ObjRefs

ImplementsManagedHeap == Managed!Spec

(***************************************************************************)
(* What the program has lost is freed by one of the polls that follow,     *)
(* unless a weak reference brings it back: an object is again and again    *)
(* reachable or no block.  The walks end, however they push entries while  *)
(* they pop, and the candidates lead to all that is lost.                  *)
(***************************************************************************)
GarbageIsFreed == \A o \in Objects : []<>(o \notin heap \ Reachable)
=============================================================================
