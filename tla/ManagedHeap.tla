---------------------------- MODULE ManagedHeap -----------------------------
(***************************************************************************)
(* What the counted heap promises a program (CycleCollector implements     *)
(* it).  The program holds objects through locals and through the          *)
(* references other objects hold.  Any step may lose objects, but never    *)
(* one that is reachable after it; a weak reference to a lost object is    *)
(* cleared in the same step, so it gives the object whole, or nothing.     *)
(***************************************************************************)
EXTENDS Integers

CONSTANT Objects

VARIABLES objs,     \* the objects that exist
          refs,     \* refs[p][o]: how many references to o object p holds
          locals,   \* the references to an object from outside the heap
          weak      \* the objects that a weak reference upgrades to

Reaches(r, l) ==
  LET closed == {T \in SUBSET Objects :
                   /\ \A o \in Objects : l[o] > 0 => o \in T
                   /\ \A p \in T, o \in Objects : r[p][o] > 0 => o \in T}
  IN {o \in Objects : \A T \in closed : o \in T}

\* A step to the references r and l and the weak references w, of which no
\* object outside S survives.
Becomes(S, r, l, w) ==
  /\ objs' \subseteq S
  /\ locals' = l
  /\ weak' = w \intersect objs'
  /\ refs' = [p \in Objects |-> [o \in Objects |->
                IF {p, o} \subseteq objs' THEN r[p][o] ELSE 0]]
  /\ Reaches(r, l) \subseteq objs'

Init ==
  /\ objs = {}
  /\ refs = [p \in Objects |-> [o \in Objects |-> 0]]
  /\ locals = [o \in Objects |-> 0]
  /\ weak = {}

Allocate(o) ==
  /\ o \notin objs
  /\ Becomes(objs \union {o}, refs, [locals EXCEPT ![o] = 1], weak)

\* A reference goes into an object, into a local, or out of either.
Put(p, o) == /\ Becomes(objs, [refs EXCEPT ![p][o] = @ + 1], locals, weak)
             /\ {p, o} \subseteq Reaches(refs, locals)

Take(p, o) == /\ refs[p][o] > 0
              /\ Becomes(objs, [refs EXCEPT ![p][o] = @ - 1], locals, weak)
              /\ p \in Reaches(refs, locals)

Copy(o) == /\ Becomes(objs, refs, [locals EXCEPT ![o] = @ + 1], weak)
           /\ o \in Reaches(refs, locals) \union weak

Drop(o) == /\ locals[o] > 0
           /\ Becomes(objs, refs, [locals EXCEPT ![o] = @ - 1], weak)

\* The contents of an object move to locals.
Unbox(o) == /\ locals[o] = 1
            /\ Becomes(objs, [refs EXCEPT ![o] = [x \in Objects |-> 0]],
                       [x \in Objects |-> IF x = o THEN 0 ELSE locals[x] + refs[o][x]],
                       weak)

Watch(o) == /\ Becomes(objs, refs, locals, weak \union {o})
            /\ o \in Reaches(refs, locals)

Unwatch(o) == Becomes(objs, refs, locals, weak \ {o})

Lose == Becomes(objs, refs, locals, weak)

Next ==
  \/ Lose
  \/ \E o \in Objects : \/ Allocate(o) \/ Copy(o) \/ Drop(o) \/ Unbox(o)
                        \/ Watch(o) \/ Unwatch(o)
  \/ \E p, o \in Objects : Put(p, o) \/ Take(p, o)

Spec == Init /\ [][Next]_<<objs, refs, locals, weak>>
=============================================================================
