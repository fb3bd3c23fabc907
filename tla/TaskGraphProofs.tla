--------------------------- MODULE TaskGraphProofs ---------------------------
(***************************************************************************)
(* For every finite set of tasks: each method of TaskGraph keeps GraphInv. *)
(* PoolProofs and SerialProofs use these lemmas for the executors.         *)
(*                                                                         *)
(* The hard part is the count: waiting_on is a number, the pending edges a *)
(* set of pairs, and complete subtracts a whole row of edges at once.      *)
(***************************************************************************)
EXTENDS TaskGraph, FiniteSetTheorems, TLAPS

\* The pending edges from f into t, as Into lists them.
Row(g, f, t) == {<<f, k>> : k \in 1 .. g.successors[f][t]}

\* Membership in Into: one pair per unit of a successor count.
LEMMA IntoMember ==
  ASSUME NEW g \in Graphs, NEW t \in Tasks, NEW e
  PROVE  e \in Into(g, t) <=>
           \E f \in Tasks : \E k \in 1 .. g.successors[f][t] : e = <<f, k>>
  BY DEF Into

\* A row of Into is finite and has as many members as the successor count:
\* what complete subtracts in one step (lib.rs:249-250).
LEMMA RowSize ==
  ASSUME NEW g \in Graphs, NEW f \in Tasks, NEW t \in Tasks
  PROVE  /\ IsFiniteSet(Row(g, f, t))
         /\ Cardinality(Row(g, f, t)) = g.successors[f][t]
  <1> DEFINE n == g.successors[f][t]
  <1>1. n \in Nat
    BY DEF Graphs
  <1>2. IsFiniteSet(1 .. n) /\ Cardinality(1 .. n) = n
    <2>1. /\ IsFiniteSet(1 .. n)
          /\ Cardinality(1 .. n) = IF 1 > n THEN 0 ELSE n - 1 + 1
      BY <1>1, 1 \in Int, n \in Int, FS_Interval
    <2> QED
      BY <1>1, <2>1
  <1>3. IsFiniteSet({f}) /\ Cardinality({f}) = 1
    BY FS_Singleton
  <1>4. Row(g, f, t) = {f} \X (1 .. n)
    BY DEF Row
  <1>5. /\ IsFiniteSet({f} \X (1 .. n))
        /\ Cardinality({f} \X (1 .. n)) = Cardinality({f}) * Cardinality(1 .. n)
    BY <1>2, <1>3, FS_Product
  <1> QED
    BY <1>1, <1>2, <1>3, <1>4, <1>5

\* The pending edges of a task are finitely many.
LEMMA IntoFinite ==
  ASSUME NEW g \in Graphs, NEW t \in Tasks
  PROVE  /\ IsFiniteSet(Into(g, t))
         /\ Cardinality(Into(g, t)) \in Nat
  <1> DEFINE rows == {Row(g, f, t) : f \in Tasks}
  <1>1. Into(g, t) = UNION rows
    BY DEF Into, Row
  <1>2. IsFiniteSet(rows)
    <2> DEFINE row == [f \in Tasks |-> Row(g, f, t)]
    <2>1. row \in Surjection(Tasks, rows)
      BY DEF Surjection
    <2> QED
      BY <2>1, TasksFinite, FS_Surjection
  <1>3. \A r \in rows : IsFiniteSet(r)
    BY RowSize
  <1>4. IsFiniteSet(Into(g, t))
    BY <1>1, <1>2, <1>3, FS_UNION
  <1> QED
    BY <1>4, FS_CardinalityType

\* A task whose count fell to its guard has no pending edge left.
LEMMA NoneLeft ==
  ASSUME NEW g \in Graphs, NEW t \in Tasks, Cardinality(Into(g, t)) = 0
  PROVE  \A f \in Tasks : g.successors[f][t] = 0
  <1>1. Into(g, t) = {}
    BY IntoFinite, FS_EmptySet
  <1>2. ASSUME NEW f \in Tasks, g.successors[f][t] # 0
        PROVE  FALSE
    <2>1. 1 \in 1 .. g.successors[f][t]
      BY <1>2 DEF Graphs
    <2>2. <<f, 1>> \in Into(g, t)
      BY <2>1, IntoMember
    <2> QED
      BY <1>1, <2>2
  <1> QED
    BY <1>2

\* Equal columns of successor counts are equal sets of pending edges.
LEMMA SameColumn ==
  ASSUME NEW g, NEW h, NEW t \in Tasks,
         \A f \in Tasks : g.successors[f][t] = h.successors[f][t]
  PROVE  Into(g, t) = Into(h, t)
  BY DEF Into

-----------------------------------------------------------------------------
(***************************************************************************)
(* The methods.  Each lemma takes a graph in GraphInv for the guards       *)
(* `held` and names the guards of the graph the method leaves.             *)
(***************************************************************************)

\* The common part of release and complete: a graph whose counts exceed the
\* guards and the pending edges by less[t] is put right by CountDown.
LEMMA CountDownKeeps ==
  ASSUME NEW g \in Graphs, NEW less \in [Tasks -> Nat], NEW held,
         \A t \in Tasks : g.waiting_on[t] = less[t] + Guard(held, t)
                                              + Cardinality(Into(g, t)),
         StatesFollowCounts(g), QueueExact(g), NoStrayEdges(g, held)
  PROVE  /\ CountDown(g, less) \in Graphs
         /\ GraphInv(CountDown(g, less), held)
  <1> DEFINE h == CountDown(g, less)
  <1>1. \A t \in Tasks : /\ Cardinality(Into(g, t)) \in Nat
                         /\ Guard(held, t) \in Nat
                         /\ less[t] \in Nat
                         /\ g.waiting_on[t] \in Nat
                         /\ g.waiting_on[t] - less[t] \in Nat
    BY IntoFinite DEF Guard, Graphs
  <1>2. h \in Graphs
    BY <1>1 DEF CountDown, Graphs, States
  <1>3. \A t \in Tasks : Into(h, t) = Into(g, t)
    BY SameColumn DEF CountDown
  <1>4. \A t \in Tasks : /\ h.waiting_on[t] = g.waiting_on[t] - less[t]
                         /\ h.successors[t] = g.successors[t]
    BY DEF CountDown
  <1>5. \A t \in Tasks :
          IF less[t] > 0 /\ h.waiting_on[t] = 0 /\ g.state[t] = "Waiting"
          THEN h.state[t] = "Ready" /\ h.ready[t] = g.ready[t] + 1
          ELSE h.state[t] = g.state[t] /\ h.ready[t] = g.ready[t]
    BY DEF CountDown
  <1> HIDE DEF h
  <1>6. CountsExact(h, held)
    BY <1>1, <1>3, <1>4 DEF CountsExact
  <1>7. StatesFollowCounts(h)
    BY <1>1, <1>4, <1>5 DEF StatesFollowCounts
  <1>8. QueueExact(h)
    BY <1>5 DEF QueueExact
  <1>9. NoStrayEdges(h, held)
    BY <1>4, <1>5 DEF NoStrayEdges
  <1> QED
    BY <1>2, <1>6, <1>7, <1>8, <1>9 DEF GraphInv, h

\* release (lib.rs:173-181) of a held task.
LEMMA ReleaseKeeps ==
  ASSUME NEW g \in Graphs, NEW held, GraphInv(g, held), NEW id \in Tasks, id \in held
  PROVE  /\ Release(g, id) \in Graphs
         /\ GraphInv(Release(g, id), held \ {id})
  <1> DEFINE less == [NoEdges EXCEPT ![id] = 1]
  <1>1. less \in [Tasks -> Nat]
    BY DEF NoEdges
  <1>2. \A t \in Tasks : less[t] = IF t = id THEN 1 ELSE 0
    BY DEF NoEdges
  <1>3. \A t \in Tasks : Guard(held, t) = less[t] + Guard(held \ {id}, t)
    BY <1>2 DEF Guard
  <1>4. NoStrayEdges(g, held \ {id})
    BY DEF GraphInv, NoStrayEdges
  <1>5. \A t \in Tasks : g.waiting_on[t] = less[t] + Guard(held \ {id}, t)
                                             + Cardinality(Into(g, t))
    BY <1>3 DEF GraphInv, CountsExact
  <1> HIDE DEF less
  <1>6. /\ CountDown(g, less) \in Graphs
        /\ GraphInv(CountDown(g, less), held \ {id})
    BY <1>1, <1>4, <1>5, CountDownKeeps DEF GraphInv
  <1> QED
    BY <1>6 DEF Release, less

\* complete (lib.rs:245-257) of a running task: its rows leave every Into.
LEMMA CompleteKeeps ==
  ASSUME NEW g \in Graphs, NEW held, GraphInv(g, held),
         NEW id \in Tasks, g.state[id] = "Running"
  PROVE  /\ Complete(g, id) \in Graphs
         /\ GraphInv(Complete(g, id), held)
  <1> DEFINE h == [g EXCEPT !.state[id]      = "Done",
                            !.successors[id] = NoEdges]
             less == g.successors[id]
  <1>1. h \in Graphs /\ less \in [Tasks -> Nat]
    BY DEF Graphs, States, NoEdges
  <1>2. /\ h.waiting_on = g.waiting_on
        /\ h.ready = g.ready
        /\ \A t \in Tasks : h.state[t] = IF t = id THEN "Done" ELSE g.state[t]
        /\ \A f \in Tasks : h.successors[f] = IF f = id THEN NoEdges ELSE g.successors[f]
    BY DEF Graphs
  <1> HIDE DEF h
  <1>3. ASSUME NEW t \in Tasks
        PROVE  g.waiting_on[t] = less[t] + Guard(held, t) + Cardinality(Into(h, t))
    <2>1. Into(h, t) = Into(g, t) \ Row(g, id, t)
      <3>1. \A f \in Tasks : h.successors[f][t] = IF f = id THEN 0 ELSE g.successors[f][t]
        BY <1>2 DEF NoEdges
      <3>2. \A e : e \in Into(h, t) <=> e \in Into(g, t) /\ e \notin Row(g, id, t)
        BY <1>1, <3>1, IntoMember DEF Row
      <3> QED
        BY <3>2
    <2>2. Row(g, id, t) \subseteq Into(g, t)
      BY DEF Row, Into
    <2>3. Into(g, t) \cap Row(g, id, t) = Row(g, id, t)
      BY <2>2
    <2>4. Cardinality(Into(h, t)) = Cardinality(Into(g, t)) - Cardinality(Row(g, id, t))
      BY <2>1, <2>3, IntoFinite, FS_Difference
    <2>5. Cardinality(Row(g, id, t)) = less[t] /\ less[t] \in Nat
      BY RowSize, <1>1
    <2>6. Cardinality(Into(g, t)) \in Nat /\ Guard(held, t) \in Nat
      BY IntoFinite DEF Guard
    <2>7. g.waiting_on[t] = Guard(held, t) + Cardinality(Into(g, t))
      BY DEF GraphInv, CountsExact
    <2> QED
      BY <2>4, <2>5, <2>6, <2>7
  <1>4. StatesFollowCounts(h) /\ QueueExact(h)
    BY <1>2 DEF GraphInv, StatesFollowCounts, QueueExact
  <1>5. NoStrayEdges(h, held)
    BY <1>2 DEF GraphInv, NoStrayEdges, NoEdges
  <1>6. \A t \in Tasks : h.waiting_on[t] = less[t] + Guard(held, t) + Cardinality(Into(h, t))
    BY <1>2, <1>3
  <1> HIDE DEF less
  <1>7. /\ CountDown(h, less) \in Graphs
        /\ GraphInv(CountDown(h, less), held)
    BY <1>1, <1>4, <1>5, <1>6, CountDownKeeps
  <1> QED
    BY <1>7 DEF Complete, h, less

\* edge (lib.rs:183-198) into a task that has not started, from one created:
\* one pending edge more, or none when `from` is finished.
LEMMA EdgeKeeps ==
  ASSUME NEW g \in Graphs, NEW held, GraphInv(g, held),
         NEW from \in Created(g), NEW to \in Tasks, MayTakeEdge(g, to)
  PROVE  /\ Edge(g, from, to) \in Graphs
         /\ GraphInv(Edge(g, from, to), held)
  <1> DEFINE h == Edge(g, from, to)
             n == g.successors[from][to]
  <1>1. CASE Finished(g, from)
    BY <1>1 DEF Edge
  <1>2. CASE ~ Finished(g, from)
    <2>0. from \in Tasks /\ n \in Nat
      BY DEF Created, Graphs
    <2>1. h \in Graphs
      BY <1>2, <2>0 DEF Edge, Graphs, States
    <2>2. /\ \A t \in Tasks : h.waiting_on[t] = IF t = to THEN g.waiting_on[t] + 1
                                                          ELSE g.waiting_on[t]
          /\ \A t \in Tasks : h.state[t] = IF t = to THEN "Waiting" ELSE g.state[t]
          /\ \A f, t \in Tasks : h.successors[f][t] =
                IF f = from /\ t = to THEN n + 1 ELSE g.successors[f][t]
          /\ \A f \in Tasks : f # from => h.successors[f] = g.successors[f]
      BY <1>2, <2>0 DEF Edge, Graphs
    <2>3. \A t \in Tasks : h.ready[t] = IF t = to THEN 0 ELSE g.ready[t]
      BY <1>2 DEF Edge, Graphs, GraphInv, QueueExact
    <2> HIDE DEF h
    <2>4. ASSUME NEW t \in Tasks
          PROVE  h.waiting_on[t] = Guard(held, t) + Cardinality(Into(h, t))
      <3>1. g.waiting_on[t] = Guard(held, t) + Cardinality(Into(g, t))
        BY DEF GraphInv, CountsExact
      <3>2. Cardinality(Into(g, t)) \in Nat /\ Guard(held, t) \in Nat
        BY IntoFinite DEF Guard
      <3>3. CASE t # to
        BY <2>2, <3>1, <3>3, SameColumn
      <3>4. CASE t = to
        <4>1. <<from, n + 1>> \notin Into(g, t)
          BY <2>0, <3>4, IntoMember
        <4>2. \A e : e \in Into(h, t) <=> e \in Into(g, t) \cup {<<from, n + 1>>}
          <5>1. ASSUME NEW e, e \in Into(h, t)
                PROVE  e \in Into(g, t) \cup {<<from, n + 1>>}
            <6>1. PICK f \in Tasks : \E k \in 1 .. h.successors[f][t] : e = <<f, k>>
              BY <2>1, <5>1, IntoMember
            <6>2. PICK k \in 1 .. h.successors[f][t] : e = <<f, k>>
              BY <6>1
            <6>3. k \in 1 .. g.successors[f][t] \/ (f = from /\ k = n + 1)
              BY <2>0, <2>2, <3>4, <6>2
            <6> QED
              BY <6>2, <6>3, IntoMember
          <5>2. Into(g, t) \subseteq Into(h, t)
            <6>1. \A f \in Tasks : 1 .. g.successors[f][t] \subseteq 1 .. h.successors[f][t]
              BY <2>0, <2>2, <3>4
            <6> QED
              BY <6>1, <2>1, IntoMember
          <5>3. <<from, n + 1>> \in Into(h, t)
            <6>1. n + 1 \in 1 .. h.successors[from][t]
              BY <2>0, <2>2, <3>4
            <6> QED
              BY <6>1, <2>0, <2>1, IntoMember
          <5> QED
            BY <5>1, <5>2, <5>3
        <4>3. Into(h, t) = Into(g, t) \cup {<<from, n + 1>>}
          BY <4>2
        <4>4. Cardinality(Into(h, t)) = Cardinality(Into(g, t)) + 1
          BY <4>1, <4>3, IntoFinite, FS_AddElement
        <4> QED
          BY <2>2, <3>1, <3>2, <3>4, <4>4
      <3> QED
        BY <3>3, <3>4
    <2>5. CountsExact(h, held)
      BY <2>4 DEF CountsExact
    <2>6. StatesFollowCounts(h)
      <3>1. g.waiting_on[to] \in Nat
        BY DEF Graphs
      <3> QED
        BY <2>2, <3>1 DEF GraphInv, StatesFollowCounts
    <2>7. QueueExact(h)
      BY <2>2, <2>3 DEF GraphInv, QueueExact
    <2>8. NoStrayEdges(h, held)
      <3>1. g.state[to] # "Absent" /\ g.state[to] # "Done"
        BY DEF MayTakeEdge
      <3>2. g.state[from] \notin {"Absent", "Done"}
        BY <1>2 DEF Created, Finished
      <3> QED
        BY <2>2, <3>1, <3>2 DEF GraphInv, NoStrayEdges
    <2> QED
      BY <2>1, <2>5, <2>6, <2>7, <2>8 DEF GraphInv, h
  <1> QED
    BY <1>1, <1>2

\* add_held (lib.rs:158-171): the new task waits for its guard and for one
\* edge from each dependency still open.
LEMMA AddHeldKeeps ==
  ASSUME NEW g \in Graphs, NEW held, GraphInv(g, held),
         NEW id \in Tasks \ Created(g), NEW deps \in SUBSET Created(g)
  PROVE  /\ AddHeld(g, id, deps) \in Graphs
         /\ GraphInv(AddHeld(g, id, deps), held \cup {id})
  <1> DEFINE h    == AddHeld(g, id, deps)
             open == {d \in deps : ~ Finished(g, d)}
  <1>1. /\ open \in SUBSET Tasks
        /\ IsFiniteSet(open)
        /\ Cardinality(open) \in Nat
        /\ id \notin open
    <2>1. open \in SUBSET Tasks /\ id \notin open
      BY DEF Created
    <2> QED
      BY <2>1, TasksFinite, FS_Subset, FS_CardinalityType
  <1>2. /\ id \notin held
        /\ g.state[id] = "Absent"
        /\ g.successors[id] = NoEdges
        /\ \A f \in Tasks : g.successors[f][id] = 0
    BY DEF Created, GraphInv, NoStrayEdges
  <1>3. /\ \A t \in Tasks : h.state[t] = IF t = id THEN "Waiting" ELSE g.state[t]
        /\ \A t \in Tasks : h.waiting_on[t] = IF t = id THEN 1 + Cardinality(open)
                                                        ELSE g.waiting_on[t]
        /\ \A f \in Tasks : f \notin open => h.successors[f] = g.successors[f]
        /\ \A f, t \in Tasks : h.successors[f][t] =
              IF t = id THEN (IF f \in open THEN 1 ELSE 0) ELSE g.successors[f][t]
        /\ h.ready = g.ready
    BY <1>2 DEF AddHeld, Graphs
  <1>4. h \in Graphs
    BY <1>1 DEF AddHeld, Graphs, States
  <1> HIDE DEF h, open
  <1>5. ASSUME NEW t \in Tasks
        PROVE  h.waiting_on[t] = Guard(held \cup {id}, t) + Cardinality(Into(h, t))
    <2>1. CASE t # id
      <3>1. Into(h, t) = Into(g, t)
        BY <1>3, <2>1, SameColumn
      <3> QED
        BY <1>3, <2>1, <3>1 DEF GraphInv, CountsExact, Guard
    <2>2. CASE t = id
      <3>1. \A f \in Tasks : h.successors[f][t] = IF f \in open THEN 1 ELSE 0
        BY <1>3, <2>2
      <3>2. \A e : e \in Into(h, t) <=> e \in open \X {1}
        <4>1. ASSUME NEW e, e \in Into(h, t)
              PROVE  e \in open \X {1}
          <5>1. PICK f \in Tasks : \E k \in 1 .. h.successors[f][t] : e = <<f, k>>
            BY <1>4, <4>1, IntoMember
          <5>2. PICK k \in 1 .. h.successors[f][t] : e = <<f, k>>
            BY <5>1
          <5>3. f \in open /\ k = 1
            BY <3>1, <5>2
          <5> QED
            BY <5>2, <5>3
        <4>2. ASSUME NEW f \in open
              PROVE  <<f, 1>> \in Into(h, t)
          <5>1. f \in Tasks /\ 1 \in 1 .. h.successors[f][t]
            BY <1>1, <3>1
          <5> QED
            BY <5>1, <1>4, IntoMember
        <4> QED
          BY <4>1, <4>2
      <3>3. Into(h, t) = open \X {1}
        BY <3>2
      <3>4. Cardinality(open \X {1}) = Cardinality(open) * Cardinality({1})
        BY <1>1, FS_Singleton, FS_Product
      <3>5. Cardinality({1}) = 1
        BY FS_Singleton
      <3>6. Cardinality(Into(h, t)) = Cardinality(open)
        BY <1>1, <3>3, <3>4, <3>5
      <3> QED
        BY <1>3, <2>2, <3>6 DEF Guard
    <2> QED
      BY <2>1, <2>2
  <1>6. CountsExact(h, held \cup {id})
    BY <1>5 DEF CountsExact
  <1>7. StatesFollowCounts(h)
    BY <1>1, <1>3 DEF GraphInv, StatesFollowCounts
  <1>8. QueueExact(h)
    BY <1>2, <1>3 DEF GraphInv, QueueExact
  <1>9. NoStrayEdges(h, held \cup {id})
    <2>1. \A f \in open : g.state[f] \notin {"Absent", "Done"}
      BY DEF open, Created, Finished
    <2> QED
      BY <1>3, <2>1 DEF GraphInv, NoStrayEdges
  <1> QED
    BY <1>4, <1>6, <1>7, <1>8, <1>9 DEF GraphInv, h

\* add (lib.rs:145-153): add_held, then release.
LEMMA AddKeeps ==
  ASSUME NEW g \in Graphs, NEW held, GraphInv(g, held),
         NEW id \in Tasks \ Created(g), NEW deps \in SUBSET Created(g)
  PROVE  /\ Add(g, id, deps) \in Graphs
         /\ GraphInv(Add(g, id, deps), held)
  <1>1. /\ AddHeld(g, id, deps) \in Graphs
        /\ GraphInv(AddHeld(g, id, deps), held \cup {id})
    BY AddHeldKeeps
  <1>2. (held \cup {id}) \ {id} = held
    BY DEF Created, GraphInv, NoStrayEdges
  <1>3. /\ Release(AddHeld(g, id, deps), id) \in Graphs
        /\ GraphInv(Release(AddHeld(g, id, deps), id), (held \cup {id}) \ {id})
    BY <1>1, ReleaseKeeps
  <1> QED
    BY <1>2, <1>3 DEF Add

\* drain (pool.rs:21-27): every ready task, and no other, becomes running.
LEMMA DrainKeeps ==
  ASSUME NEW g \in Graphs, NEW held, GraphInv(g, held)
  PROVE  /\ Drain(g) \in Graphs
         /\ GraphInv(Drain(g), held)
         /\ \A t \in Tasks : Drain(g).state[t] = IF g.state[t] = "Ready" THEN "Running"
                                                                         ELSE g.state[t]
         /\ Drain(g).successors = g.successors
         /\ \A t \in Tasks : g.ready[t] = IF g.state[t] = "Ready" THEN 1 ELSE 0
  <1> DEFINE h == Drain(g)
  <1>1. h \in Graphs
    BY DEF Drain, Graphs, States
  <1>2. \A t \in Tasks : g.ready[t] = IF g.state[t] = "Ready" THEN 1 ELSE 0
    BY DEF GraphInv, QueueExact
  <1>3. /\ h.successors = g.successors /\ h.waiting_on = g.waiting_on
        /\ \A t \in Tasks : h.state[t] = IF g.ready[t] > 0 THEN "Running" ELSE g.state[t]
        /\ \A t \in Tasks : h.ready[t] = 0
    BY DEF Drain, Graphs
  <1>4. \A t \in Tasks : h.state[t] = IF g.state[t] = "Ready" THEN "Running" ELSE g.state[t]
    BY <1>2, <1>3
  <1> HIDE DEF h
  <1>5. \A t \in Tasks : Into(h, t) = Into(g, t)
    BY <1>3 DEF Into
  <1>6. GraphInv(h, held)
    BY <1>3, <1>4, <1>5
       DEF GraphInv, CountsExact, StatesFollowCounts, QueueExact, NoStrayEdges
  <1> QED
    BY <1>1, <1>2, <1>3, <1>4, <1>6 DEF h

\* pop (lib.rs:217-243) of a ready task: its one queue entry goes with it.
LEMMA PopKeeps ==
  ASSUME NEW g \in Graphs, NEW held, GraphInv(g, held),
         NEW id \in Tasks, g.ready[id] > 0
  PROVE  /\ Pop(g, id) \in Graphs
         /\ GraphInv(Pop(g, id), held)
         /\ g.state[id] = "Ready"
         /\ Pop(g, id).successors = g.successors
         /\ \A t \in Tasks : Pop(g, id).state[t] = IF t = id THEN "Running" ELSE g.state[t]
  <1> DEFINE h == Pop(g, id)
  <1>1. g.state[id] = "Ready" /\ g.ready[id] = 1
    BY DEF GraphInv, QueueExact
  <1>2. h \in Graphs
    <2>1. [g.state EXCEPT ![id] = "Running"] \in [Tasks -> States]
      BY DEF Graphs, States
    <2>2. [g.ready EXCEPT ![id] = g.ready[id] - 1] \in [Tasks -> Nat]
      BY <1>1 DEF Graphs
    <2>3. h = [g EXCEPT !.state = [g.state EXCEPT ![id] = "Running"],
                        !.ready = [g.ready EXCEPT ![id] = g.ready[id] - 1]]
      BY DEF Pop, Graphs
    <2> QED
      BY <2>1, <2>2, <2>3 DEF Graphs
  <1>3. /\ h.successors = g.successors /\ h.waiting_on = g.waiting_on
        /\ \A t \in Tasks : h.state[t] = IF t = id THEN "Running" ELSE g.state[t]
        /\ \A t \in Tasks : h.ready[t] = IF t = id THEN 0 ELSE g.ready[t]
    BY <1>1 DEF Pop, Graphs
  <1> HIDE DEF h
  <1>4. \A t \in Tasks : Into(h, t) = Into(g, t)
    BY <1>3 DEF Into
  <1>5. GraphInv(h, held)
    BY <1>1, <1>3, <1>4
       DEF GraphInv, CountsExact, StatesFollowCounts, QueueExact, NoStrayEdges
  <1> QED
    BY <1>1, <1>2, <1>3, <1>5 DEF h

\* cancel_all (lib.rs:259-267): the counts and edges stay as they were.
LEMMA CancelAllKeeps ==
  ASSUME NEW g \in Graphs, NEW held, GraphInv(g, held)
  PROVE  /\ CancelAll(g) \in Graphs
         /\ GraphInv(CancelAll(g), held)
         /\ CancelAll(g).successors = g.successors
         /\ \A t \in Tasks : CancelAll(g).state[t] =
              IF g.state[t] \in {"Absent", "Done"} THEN g.state[t] ELSE "Cancelled"
  <1> DEFINE h == CancelAll(g)
  <1>1. h \in Graphs
    BY DEF CancelAll, Graphs, States
  <1>2. /\ h.successors = g.successors /\ h.waiting_on = g.waiting_on
        /\ \A t \in Tasks : h.state[t] = IF g.state[t] \in {"Absent", "Done"}
                                          THEN g.state[t] ELSE "Cancelled"
        /\ \A t \in Tasks : h.ready[t] = 0
    BY DEF CancelAll, Graphs
  <1> HIDE DEF h
  <1>3. \A t \in Tasks : Into(h, t) = Into(g, t)
    BY <1>2 DEF Into
  <1>4. GraphInv(h, held)
    BY <1>2, <1>3
       DEF GraphInv, CountsExact, StatesFollowCounts, QueueExact, NoStrayEdges
  <1> QED
    BY <1>1, <1>2, <1>4 DEF h

-----------------------------------------------------------------------------
(***************************************************************************)
(* What a method does to the states and edges of the other tasks.          *)
(***************************************************************************)

\* A count down readies waiting tasks and touches nothing else.
LEMMA CountDownEffect ==
  ASSUME NEW g \in Graphs, NEW less \in [Tasks -> Nat]
  PROVE  /\ CountDown(g, less).successors = g.successors
         /\ \A t \in Tasks :
              \/ CountDown(g, less).state[t] = g.state[t]
              \/ /\ less[t] > 0 /\ g.state[t] = "Waiting"
                 /\ CountDown(g, less).state[t] = "Ready"
  BY DEF CountDown

\* release readies at most the task it releases.
LEMMA ReleaseEffect ==
  ASSUME NEW g \in Graphs, NEW id \in Tasks
  PROVE  /\ Release(g, id).successors = g.successors
         /\ \A t \in Tasks :
              \/ Release(g, id).state[t] = g.state[t]
              \/ t = id /\ g.state[t] = "Waiting" /\ Release(g, id).state[t] = "Ready"
  <1> DEFINE less == [NoEdges EXCEPT ![id] = 1]
  <1>1. less \in [Tasks -> Nat] /\ \A t \in Tasks : less[t] > 0 => t = id
    BY DEF NoEdges
  <1> HIDE DEF less
  <1>2. /\ CountDown(g, less).successors = g.successors
        /\ \A t \in Tasks :
             \/ CountDown(g, less).state[t] = g.state[t]
             \/ /\ less[t] > 0 /\ g.state[t] = "Waiting"
                /\ CountDown(g, less).state[t] = "Ready"
    BY <1>1, CountDownEffect
  <1> QED
    BY <1>1, <1>2 DEF Release, less

\* add_held touches the new task's state and the edges into it.
LEMMA AddHeldEffect ==
  ASSUME NEW g \in Graphs, NEW held, GraphInv(g, held),
         NEW id \in Tasks \ Created(g), NEW deps \in SUBSET Created(g)
  PROVE  /\ \A t \in Tasks : AddHeld(g, id, deps).state[t] =
                               IF t = id THEN "Waiting" ELSE g.state[t]
         /\ \A f, t \in Tasks : AddHeld(g, id, deps).successors[f][t] =
              IF t = id THEN (IF f \in deps /\ ~ Finished(g, f) THEN 1 ELSE 0)
                        ELSE g.successors[f][t]
  <1>1. \A f \in Tasks : g.successors[f][id] = 0
    BY DEF GraphInv, NoStrayEdges, Created
  <1> QED
    BY <1>1 DEF AddHeld, Graphs

\* add is add_held, and the new task may be ready at once.
LEMMA AddEffect ==
  ASSUME NEW g \in Graphs, NEW held, GraphInv(g, held),
         NEW id \in Tasks \ Created(g), NEW deps \in SUBSET Created(g)
  PROVE  /\ \A t \in Tasks : IF t = id THEN Add(g, id, deps).state[t] \in {"Waiting", "Ready"}
                                       ELSE Add(g, id, deps).state[t] = g.state[t]
         /\ \A f, t \in Tasks : Add(g, id, deps).successors[f][t] =
              IF t = id THEN (IF f \in deps /\ ~ Finished(g, f) THEN 1 ELSE 0)
                        ELSE g.successors[f][t]
  <1> DEFINE h == AddHeld(g, id, deps)
  <1>1. h \in Graphs
    BY AddHeldKeeps
  <1>2. /\ \A t \in Tasks : h.state[t] = IF t = id THEN "Waiting" ELSE g.state[t]
        /\ \A f, t \in Tasks : h.successors[f][t] =
             IF t = id THEN (IF f \in deps /\ ~ Finished(g, f) THEN 1 ELSE 0)
                       ELSE g.successors[f][t]
    BY AddHeldEffect
  <1> HIDE DEF h
  <1>3. /\ Release(h, id).successors = h.successors
        /\ \A t \in Tasks :
             \/ Release(h, id).state[t] = h.state[t]
             \/ t = id /\ h.state[t] = "Waiting" /\ Release(h, id).state[t] = "Ready"
    BY <1>1, ReleaseEffect
  <1> QED
    BY <1>2, <1>3 DEF Add, h

\* edge puts its target back to Waiting and adds one edge.
LEMMA EdgeEffect ==
  ASSUME NEW g \in Graphs, NEW from \in Tasks, NEW to \in Tasks, ~ Finished(g, from)
  PROVE  /\ \A t \in Tasks : Edge(g, from, to).state[t] =
                               IF t = to THEN "Waiting" ELSE g.state[t]
         /\ \A f, t \in Tasks : Edge(g, from, to).successors[f][t] =
              IF f = from /\ t = to THEN g.successors[f][t] + 1 ELSE g.successors[f][t]
  BY DEF Edge, Graphs

\* complete ends its task, readies waiting ones and empties one row.
LEMMA CompleteEffect ==
  ASSUME NEW g \in Graphs, NEW id \in Tasks
  PROVE  /\ \A t \in Tasks :
              IF t = id THEN Complete(g, id).state[t] = "Done"
              ELSE \/ Complete(g, id).state[t] = g.state[t]
                   \/ g.state[t] = "Waiting" /\ Complete(g, id).state[t] = "Ready"
         /\ \A f \in Tasks : Complete(g, id).successors[f] =
                               IF f = id THEN NoEdges ELSE g.successors[f]
  <1> DEFINE h == [g EXCEPT !.state[id]      = "Done",
                            !.successors[id] = NoEdges]
             less == g.successors[id]
  <1>1. h \in Graphs /\ less \in [Tasks -> Nat]
    BY DEF Graphs, States, NoEdges
  <1>2. /\ \A t \in Tasks : h.state[t] = IF t = id THEN "Done" ELSE g.state[t]
        /\ \A f \in Tasks : h.successors[f] = IF f = id THEN NoEdges ELSE g.successors[f]
    BY DEF Graphs
  <1> HIDE DEF h, less
  <1>3. /\ CountDown(h, less).successors = h.successors
        /\ \A t \in Tasks :
             \/ CountDown(h, less).state[t] = h.state[t]
             \/ /\ less[t] > 0 /\ h.state[t] = "Waiting"
                /\ CountDown(h, less).state[t] = "Ready"
    BY <1>1, CountDownEffect
  <1>4. Complete(g, id) = CountDown(h, less)
    BY DEF Complete, h, less
  <1> QED
    BY <1>2, <1>3, <1>4
=============================================================================
