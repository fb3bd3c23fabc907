------------------------------ MODULE PoolProofs -----------------------------
(***************************************************************************)
(* The pool executor keeps PoolInv under every interleaving of its tasks,  *)
(* for every finite set of tasks; its safety properties follow.            *)
(***************************************************************************)
EXTENDS PoolExecutor, TaskGraphProofs

\* drain and spawn under one lock (pool.rs:56-66): from a graph g1 in which
\* the same tasks run as before, every ready task gets one closure.
LEMMA DrainStep ==
  ASSUME TypeOK, NEW g1 \in Graphs, NEW held, GraphInv(g1, held), DrainAndSpawn(g1)
  PROVE  /\ graph' \in Graphs
         /\ spawned' \in [Tasks -> Nat]
         /\ GraphInv(graph', held)
         /\ graph'.successors = g1.successors
         /\ \A t \in Tasks :
              /\ graph'.state[t] = IF g1.state[t] = "Ready" THEN "Running" ELSE g1.state[t]
              /\ spawned'[t] = IF g1.state[t] = "Ready" THEN spawned[t] + 1 ELSE spawned[t]
  <1>1. /\ graph' = Drain(g1)
        /\ spawned' = [t \in Tasks |-> spawned[t] + g1.ready[t]]
    BY DEF DrainAndSpawn
  <1>2. \A t \in Tasks : g1.ready[t] = IF g1.state[t] = "Ready" THEN 1 ELSE 0
    BY DrainKeeps
  <1>3. \A t \in Tasks : spawned[t] \in Nat
    BY DEF TypeOK
  <1>4. /\ graph' \in Graphs
        /\ GraphInv(graph', held)
        /\ graph'.successors = g1.successors
        /\ \A t \in Tasks : graph'.state[t] = IF g1.state[t] = "Ready" THEN "Running"
                                                                     ELSE g1.state[t]
    BY <1>1, DrainKeeps
  <1>5. \A t \in Tasks : spawned'[t] = IF g1.state[t] = "Ready" THEN spawned[t] + 1
                                                              ELSE spawned[t]
    BY <1>1, <1>2, <1>3
  <1>6. spawned' \in [Tasks -> Nat]
    BY <1>1, <1>2, <1>3
  <1> QED
    BY <1>4, <1>5, <1>6

\* A call of a running task that leaves every started task as it was keeps
\* the books of rayon's closures.
LEMMA CallKeepsClosures ==
  ASSUME TypeOK, PoolInv, phase = "run", NEW g1 \in Graphs,
         GraphInv(g1, Held'), DrainAndSpawn(g1),
         UNCHANGED <<phase, on, panicked, began>>,
         \A t \in Tasks : \/ g1.state[t] = graph.state[t]
                          \/ /\ g1.state[t] \in {"Waiting", "Ready"}
                             /\ graph.state[t] \in {"Absent", "Waiting", "Ready"}
  PROVE  /\ graph' \in Graphs
         /\ spawned' \in [Tasks -> Nat]
         /\ GraphInv(graph', Held')
         /\ graph'.successors = g1.successors
         /\ \A t \in Tasks : graph.state[t] = "Done" <=> graph'.state[t] = "Done"
         /\ SpawnedOnce'
         /\ ScopeOpen'
  <1>1. /\ graph' \in Graphs
        /\ spawned' \in [Tasks -> Nat]
        /\ GraphInv(graph', Held')
        /\ graph'.successors = g1.successors
        /\ \A t \in Tasks :
             /\ graph'.state[t] = IF g1.state[t] = "Ready" THEN "Running" ELSE g1.state[t]
             /\ spawned'[t] = IF g1.state[t] = "Ready" THEN spawned[t] + 1 ELSE spawned[t]
    BY DrainStep
  <1>2. \A t \in Tasks : graph.state[t] # "Ready" /\ graph.state[t] # "Cancelled"
    BY DEF PoolInv, ScopeOpen
  <1>3. \A t \in Tasks : graph.state[t] = "Done" <=> graph'.state[t] = "Done"
    BY <1>1
  <1>4. SpawnedOnce'
    <2> SUFFICES ASSUME NEW t \in Tasks
                 PROVE  /\ spawned'[t] + on[t] + (IF t \in panicked THEN 1 ELSE 0)
                             = IF graph'.state[t] = "Running" THEN 1 ELSE 0
                        /\ began[t] = IF graph'.state[t] = "Done" THEN 1
                                      ELSE on[t] + (IF t \in panicked THEN 1 ELSE 0)
      BY DEF SpawnedOnce
    <2>1. /\ spawned[t] + on[t] + (IF t \in panicked THEN 1 ELSE 0)
               = IF graph.state[t] = "Running" THEN 1 ELSE 0
          /\ began[t] = IF graph.state[t] = "Done" THEN 1
                        ELSE on[t] + (IF t \in panicked THEN 1 ELSE 0)
      BY DEF PoolInv, SpawnedOnce
    <2> DEFINE p == IF t \in panicked THEN 1 ELSE 0
    <2>2. spawned[t] \in Nat /\ on[t] \in Nat /\ p \in Nat
      BY DEF TypeOK
    <2> HIDE DEF p
    <2>3. CASE g1.state[t] = "Ready"
      <3>1. graph.state[t] \in {"Absent", "Waiting"}
        BY <1>2, <2>3
      <3>2. spawned[t] + on[t] + p = 0 /\ began[t] = on[t] + p
        BY <2>1, <3>1 DEF p
      <3>3. spawned'[t] = spawned[t] + 1 /\ graph'.state[t] = "Running"
        BY <1>1, <2>3
      <3> QED
        BY <2>2, <3>2, <3>3 DEF p
    <2>4. CASE g1.state[t] # "Ready"
      <3>1. /\ graph'.state[t] = "Running" <=> graph.state[t] = "Running"
            /\ spawned'[t] = spawned[t]
        BY <1>1, <1>2, <2>4
      <3> QED
        BY <1>3, <2>1, <3>1
    <2> QED
      BY <2>3, <2>4
  <1>5. ScopeOpen'
    BY <1>1, <1>2 DEF ScopeOpen
  <1> QED
    BY <1>1, <1>3, <1>4, <1>5

-----------------------------------------------------------------------------
(***************************************************************************)
(* One lemma per action.                                                   *)
(***************************************************************************)
Inv == TypeOK /\ PoolInv

\* A step that completes no task.
SameDone == \A u \in Tasks : graph.state[u] = "Done" <=> graph'.state[u] = "Done"

\* The empty graph of TaskGraph::default() satisfies the invariant.
LEMMA InitInv == Init => Inv
  <1> SUFFICES ASSUME Init PROVE Inv
    OBVIOUS
  <1>1. TypeOK
    BY DEF Init, TypeOK, EmptyGraph, Graphs, States, NoEdges, Zero
  <1>2. Held = {}
    BY DEF Init, Held
  <1>3. GraphInv(graph, Held)
    <2>1. \A t \in Tasks : Into(graph, t) = {}
      BY DEF Init, EmptyGraph, Into, NoEdges
    <2>2. CountsExact(graph, Held)
      BY <1>2, <2>1, FS_EmptySet DEF Init, EmptyGraph, CountsExact, Guard
    <2>3. StatesFollowCounts(graph) /\ QueueExact(graph) /\ NoStrayEdges(graph, Held)
      BY <1>2 DEF Init, EmptyGraph, StatesFollowCounts, QueueExact, NoStrayEdges, NoEdges
    <2> QED
      BY <2>2, <2>3 DEF GraphInv
  <1>4. SpawnedOnce /\ EdgesKept /\ EdgesDeclared /\ ScopeOpen
    BY <1>2 DEF Init, EmptyGraph, NoEdges, Zero, SpawnedOnce, EdgesKept, EdgesDeclared,
                ScopeOpen
  <1> QED
    BY <1>1, <1>3, <1>4 DEF Inv, PoolInv

\* What the invariant says of a graph's types and of a running task.
LEMMA InvFacts ==
  ASSUME Inv
  PROVE  /\ graph \in Graphs
         /\ GraphInv(graph, Held)
         /\ \A t \in Tasks : on[t] > 0 => graph.state[t] = "Running" /\ phase = "run"
         /\ \A t \in Tasks : spawned[t] > 0 => graph.state[t] = "Running" /\ phase = "run"
         /\ \A t \in Tasks : graph.state[t] # "Cancelled"
         /\ \A t \in Tasks : Finished(graph, t) <=> graph.state[t] = "Done"
         /\ \A t \in Tasks : \A d \in after[t] : d \in Tasks
  <1>1. ASSUME NEW t \in Tasks, on[t] > 0 \/ spawned[t] > 0
        PROVE  graph.state[t] = "Running" /\ phase = "run"
    <2> DEFINE p == IF t \in panicked THEN 1 ELSE 0
    <2>1. p \in Nat /\ on[t] \in Nat /\ spawned[t] \in Nat
      BY DEF Inv, TypeOK
    <2>2. spawned[t] + on[t] + p = IF graph.state[t] = "Running" THEN 1 ELSE 0
      BY DEF Inv, PoolInv, SpawnedOnce
    <2>3. phase # "build" /\ phase # "end"
      BY <1>1 DEF Inv, PoolInv, ScopeOpen, Zero
    <2>4. phase = "run"
      BY <2>3 DEF Inv, TypeOK
    <2> HIDE DEF p
    <2>5. spawned[t] + on[t] + p > 0
      BY <1>1, <2>1
    <2>6. graph.state[t] = "Running"
      BY <2>2, <2>5
    <2> QED
      BY <2>4, <2>6
  <1> QED
    BY <1>1 DEF Inv, PoolInv, TypeOK, ScopeOpen, Finished

\* What was declared for a task not created yet is done already.
LEMMA AbsentDeclared ==
  ASSUME Inv, NEW t \in Tasks \ Created(graph), NEW d \in after[t]
  PROVE  graph.state[d] = "Done"
  <1>1. d \in Tasks
    BY InvFacts
  <1>2. graph.successors[d][t] = 0
    BY <1>1, InvFacts DEF GraphInv, NoStrayEdges, Created
  <1>3. graph.state[d] = "Done" \/ graph.successors[d][t] > 0
    BY DEF Inv, PoolInv, EdgesKept
  <1> QED
    BY <1>2, <1>3

\* The edges into a new task are those declared with it.
LEMMA NewTaskDeclared ==
  ASSUME Inv, NEW t \in Tasks, NEW deps \in SUBSET Tasks,
         \A u \in Tasks : after'[u] = IF u = t THEN after[u] \cup deps ELSE after[u],
         \A f, u \in Tasks : graph'.successors[f][u] =
             IF u = t THEN (IF f \in deps /\ ~ Finished(graph, f) THEN 1 ELSE 0)
                      ELSE graph.successors[f][u]
  PROVE  EdgesDeclared'
  <1> SUFFICES ASSUME NEW f \in Tasks, NEW u \in Tasks, graph'.successors[f][u] > 0
               PROVE  f \in after'[u]
    BY DEF EdgesDeclared
  <1>1. CASE u = t /\ f \in deps
    BY <1>1
  <1>2. CASE u = t /\ f \notin deps
    BY <1>2
  <1>3. CASE u # t
    <2>1. graph.successors[f][u] > 0
      BY <1>3
    <2> QED
      BY <1>3, <2>1 DEF Inv, PoolInv, EdgesDeclared
  <1> QED
    BY <1>1, <1>2, <1>3

\* HostAdd (the driver's first tasks): no closure exists yet.
LEMMA HostAddKeeps ==
  ASSUME Inv, NEW t \in Tasks, NEW deps \in SUBSET Tasks, HostAdd(t, deps)
  PROVE  Inv' /\ SameDone
  <1>1. /\ t \in Tasks \ Created(graph) /\ deps \in SUBSET Created(graph)
        /\ graph' = Add(graph, t, deps) /\ Held' = Held /\ phase = "build"
        /\ after' = [after EXCEPT ![t] = @ \cup deps]
        /\ UNCHANGED <<phase, spawned, on, holder, panicked, began>>
    BY DEF HostAdd, Held
  <1>2. /\ graph' \in Graphs /\ GraphInv(graph', Held')
        /\ \A u \in Tasks : IF u = t THEN graph'.state[u] \in {"Waiting", "Ready"}
                                     ELSE graph'.state[u] = graph.state[u]
        /\ \A f, u \in Tasks : graph'.successors[f][u] =
             IF u = t THEN (IF f \in deps /\ ~ Finished(graph, f) THEN 1 ELSE 0)
                      ELSE graph.successors[f][u]
    BY <1>1, InvFacts, AddKeeps, AddEffect
  <1>3. TypeOK'
    BY <1>1, <1>2 DEF Inv, TypeOK
  <1>4. graph.state[t] = "Absent"
    BY <1>1 DEF Created
  <1>5. SpawnedOnce' /\ ScopeOpen'
    BY <1>1, <1>2, <1>4 DEF Inv, PoolInv, SpawnedOnce, ScopeOpen
  <1>6. \A u \in Tasks : after'[u] = IF u = t THEN after[u] \cup deps ELSE after[u]
    BY <1>1 DEF Inv, TypeOK
  <1>7. \A f \in Tasks : graph'.state[f] = "Done" <=> graph.state[f] = "Done"
    BY <1>2, <1>4
  <1>8. EdgesKept'
    BY <1>1, <1>2, <1>6, <1>7, InvFacts, AbsentDeclared DEF Inv, PoolInv, EdgesKept
  <1>9. EdgesDeclared'
    BY <1>2, <1>6, NewTaskDeclared
  <1> QED
    BY <1>2, <1>3, <1>5, <1>7, <1>8, <1>9 DEF Inv, PoolInv, SameDone

\* Start: the first drain turns every ready task into one closure.
LEMMA StartKeeps ==
  ASSUME Inv, Start
  PROVE  Inv' /\ SameDone
  <1>1. /\ phase = "build" /\ phase' = "run" /\ Held' = Held
        /\ DrainAndSpawn(graph)
        /\ UNCHANGED <<on, holder, panicked, after, began>>
    BY DEF Start, Held
  <1>2. /\ graph' \in Graphs /\ spawned' \in [Tasks -> Nat] /\ GraphInv(graph', Held')
        /\ graph'.successors = graph.successors
        /\ \A t \in Tasks :
             /\ graph'.state[t] = IF graph.state[t] = "Ready" THEN "Running"
                                                              ELSE graph.state[t]
             /\ spawned'[t] = IF graph.state[t] = "Ready" THEN spawned[t] + 1
                                                          ELSE spawned[t]
    BY <1>1, InvFacts, DrainStep DEF Inv
  <1>3. TypeOK'
    BY <1>1, <1>2 DEF Inv, TypeOK
  <1>4. \A t \in Tasks : /\ spawned[t] = 0 /\ on[t] = 0 /\ t \notin panicked
                         /\ graph.state[t] # "Running"
    BY <1>1 DEF Inv, PoolInv, ScopeOpen, SpawnedOnce, Zero
  <1>5. SpawnedOnce'
    BY <1>1, <1>2, <1>4 DEF Inv, PoolInv, SpawnedOnce
  <1>6. ScopeOpen'
    BY <1>1, <1>2 DEF Inv, PoolInv, ScopeOpen
  <1>7. EdgesKept' /\ EdgesDeclared'
    BY <1>1, <1>2, InvFacts DEF Inv, PoolInv, EdgesKept, EdgesDeclared
  <1> QED
    BY <1>2, <1>3, <1>5, <1>6, <1>7 DEF Inv, PoolInv, SameDone

\* Take: a closure moves from rayon's queues to a worker.
LEMMA TakeKeeps ==
  ASSUME Inv, NEW t \in Tasks, Take(t)
  PROVE  Inv'
  <1>1. /\ phase = "run" /\ spawned[t] > 0
        /\ spawned' = [spawned EXCEPT ![t] = @ - 1]
        /\ on' = [on EXCEPT ![t] = @ + 1]
        /\ began' = [began EXCEPT ![t] = @ + 1]
        /\ UNCHANGED <<phase, graph, holder, panicked, after>>
        /\ Held' = Held
    BY DEF Take, Held
  <1>2. graph.state[t] = "Running"
    BY <1>1, InvFacts
  <1>3. \A u \in Tasks : spawned[u] \in Nat /\ on[u] \in Nat /\ began[u] \in Nat
    BY DEF Inv, TypeOK
  <1>4. \A u \in Tasks : /\ spawned'[u] = IF u = t THEN spawned[u] - 1 ELSE spawned[u]
                         /\ on'[u] = IF u = t THEN on[u] + 1 ELSE on[u]
                         /\ began'[u] = IF u = t THEN began[u] + 1 ELSE began[u]
    BY <1>1 DEF Inv, TypeOK
  <1>5. TypeOK'
    BY <1>1, <1>3 DEF Inv, TypeOK
  <1>6. SpawnedOnce'
    <2> SUFFICES ASSUME NEW u \in Tasks
                 PROVE  /\ spawned'[u] + on'[u] + (IF u \in panicked THEN 1 ELSE 0)
                             = IF graph.state[u] = "Running" THEN 1 ELSE 0
                        /\ began'[u] = IF graph.state[u] = "Done" THEN 1
                                       ELSE on'[u] + (IF u \in panicked THEN 1 ELSE 0)
      BY <1>1 DEF SpawnedOnce
    <2> DEFINE p == IF u \in panicked THEN 1 ELSE 0
    <2>1. p \in Nat
      OBVIOUS
    <2>2. /\ spawned[u] + on[u] + p = IF graph.state[u] = "Running" THEN 1 ELSE 0
          /\ began[u] = IF graph.state[u] = "Done" THEN 1 ELSE on[u] + p
      BY DEF Inv, PoolInv, SpawnedOnce
    <2> HIDE DEF p
    <2>3. /\ spawned'[u] + on'[u] + p = IF graph.state[u] = "Running" THEN 1 ELSE 0
          /\ began'[u] = IF graph.state[u] = "Done" THEN 1 ELSE on'[u] + p
      <3>1. CASE u = t
        <4>1. /\ spawned'[u] = spawned[u] - 1
              /\ on'[u] = on[u] + 1
              /\ began'[u] = began[u] + 1
              /\ graph.state[u] = "Running"
          BY <1>2, <1>4, <3>1
        <4> QED
          BY <1>3, <2>1, <2>2, <4>1
      <3>2. CASE u # t
        BY <1>4, <2>2, <3>2
      <3> QED
        BY <3>1, <3>2
    <2> QED
      BY <2>3 DEF p
  <1>7. ScopeOpen'
    BY <1>1 DEF Inv, PoolInv, ScopeOpen
  <1>8. EdgesKept' /\ EdgesDeclared' /\ GraphInv(graph', Held')
    BY <1>1 DEF Inv, PoolInv, EdgesKept, EdgesDeclared
  <1> QED
    BY <1>5, <1>6, <1>7, <1>8 DEF Inv, PoolInv

\* SpawnAdd: a new task with its declared dependencies.
LEMMA SpawnAddKeeps ==
  ASSUME Inv, NEW me \in Tasks, NEW t \in Tasks, NEW deps \in SUBSET Tasks,
         SpawnAdd(me, t, deps)
  PROVE  Inv' /\ SameDone
  <1> DEFINE g1 == Add(graph, t, deps)
  <1>1. /\ t \in Tasks \ Created(graph) /\ deps \in SUBSET Created(graph)
        /\ DrainAndSpawn(g1) /\ Held' = Held /\ phase = "run"
        /\ after' = [after EXCEPT ![t] = @ \cup deps]
        /\ UNCHANGED <<phase, on, holder, panicked, began>>
    BY InvFacts DEF SpawnAdd, Held
  <1>2. /\ g1 \in Graphs /\ GraphInv(g1, Held')
        /\ \A u \in Tasks : IF u = t THEN g1.state[u] \in {"Waiting", "Ready"}
                                     ELSE g1.state[u] = graph.state[u]
        /\ \A f, u \in Tasks : g1.successors[f][u] =
             IF u = t THEN (IF f \in deps /\ ~ Finished(graph, f) THEN 1 ELSE 0)
                      ELSE graph.successors[f][u]
    BY <1>1, InvFacts, AddKeeps, AddEffect
  <1>3. graph.state[t] = "Absent"
    BY <1>1 DEF Created
  <1> HIDE DEF g1
  <1>4. \A u \in Tasks : \/ g1.state[u] = graph.state[u]
                         \/ /\ g1.state[u] \in {"Waiting", "Ready"}
                            /\ graph.state[u] \in {"Absent", "Waiting", "Ready"}
    BY <1>2, <1>3
  <1>5. /\ graph' \in Graphs /\ spawned' \in [Tasks -> Nat] /\ GraphInv(graph', Held')
        /\ graph'.successors = g1.successors
        /\ \A u \in Tasks : graph.state[u] = "Done" <=> graph'.state[u] = "Done"
        /\ SpawnedOnce' /\ ScopeOpen'
    BY <1>1, <1>2, <1>4, CallKeepsClosures DEF Inv
  <1>6. TypeOK'
    BY <1>1, <1>5 DEF Inv, TypeOK
  <1>7. \A u \in Tasks : after'[u] = IF u = t THEN after[u] \cup deps ELSE after[u]
    BY <1>1 DEF Inv, TypeOK
  <1>8. EdgesKept'
    BY <1>1, <1>2, <1>5, <1>7, InvFacts, AbsentDeclared DEF Inv, PoolInv, EdgesKept
  <1>9. EdgesDeclared'
    <2>1. \A f, u \in Tasks : graph'.successors[f][u] =
             IF u = t THEN (IF f \in deps /\ ~ Finished(graph, f) THEN 1 ELSE 0)
                      ELSE graph.successors[f][u]
      BY <1>2, <1>5
    <2> QED
      BY <2>1, <1>7, NewTaskDeclared
  <1> QED
    BY <1>5, <1>6, <1>8, <1>9 DEF Inv, PoolInv, SameDone

\* SpawnAddHeld: the same, and the caller holds the new task.
LEMMA SpawnAddHeldKeeps ==
  ASSUME Inv, NEW me \in Tasks, NEW t \in Tasks, NEW deps \in SUBSET Tasks,
         SpawnAddHeld(me, t, deps)
  PROVE  Inv' /\ SameDone
  <1> DEFINE g1 == AddHeld(graph, t, deps)
  <1>1. /\ t \in Tasks \ Created(graph) /\ deps \in SUBSET Created(graph)
        /\ DrainAndSpawn(g1) /\ phase = "run"
        /\ holder' = [holder EXCEPT ![t] = me]
        /\ after' = [after EXCEPT ![t] = @ \cup deps]
        /\ UNCHANGED <<phase, on, panicked, began>>
    BY InvFacts DEF SpawnAddHeld
  <1>2. Held' = Held \cup {t}
    BY <1>1, NobodyAssumption DEF Held, Inv, TypeOK
  <1>3. /\ g1 \in Graphs /\ GraphInv(g1, Held')
        /\ \A u \in Tasks : g1.state[u] = IF u = t THEN "Waiting" ELSE graph.state[u]
        /\ \A f, u \in Tasks : g1.successors[f][u] =
             IF u = t THEN (IF f \in deps /\ ~ Finished(graph, f) THEN 1 ELSE 0)
                      ELSE graph.successors[f][u]
    <2>1. g1 \in Graphs /\ GraphInv(g1, Held \cup {t})
      BY <1>1, InvFacts, AddHeldKeeps
    <2>2. /\ \A u \in Tasks : g1.state[u] = IF u = t THEN "Waiting" ELSE graph.state[u]
          /\ \A f, u \in Tasks : g1.successors[f][u] =
               IF u = t THEN (IF f \in deps /\ ~ Finished(graph, f) THEN 1 ELSE 0)
                        ELSE graph.successors[f][u]
      BY <1>1, InvFacts, AddHeldEffect
    <2> QED
      BY <1>2, <2>1, <2>2
  <1>4. graph.state[t] = "Absent"
    BY <1>1 DEF Created
  <1> HIDE DEF g1
  <1>5. \A u \in Tasks : \/ g1.state[u] = graph.state[u]
                         \/ /\ g1.state[u] \in {"Waiting", "Ready"}
                            /\ graph.state[u] \in {"Absent", "Waiting", "Ready"}
    BY <1>3, <1>4
  <1>6. /\ graph' \in Graphs /\ spawned' \in [Tasks -> Nat] /\ GraphInv(graph', Held')
        /\ graph'.successors = g1.successors
        /\ \A u \in Tasks : graph.state[u] = "Done" <=> graph'.state[u] = "Done"
        /\ SpawnedOnce' /\ ScopeOpen'
    BY <1>1, <1>3, <1>5, CallKeepsClosures DEF Inv
  <1>7. TypeOK'
    BY <1>1, <1>6 DEF Inv, TypeOK
  <1>8. \A u \in Tasks : after'[u] = IF u = t THEN after[u] \cup deps ELSE after[u]
    BY <1>1 DEF Inv, TypeOK
  <1>9. EdgesKept'
    BY <1>1, <1>3, <1>6, <1>8, InvFacts, AbsentDeclared DEF Inv, PoolInv, EdgesKept
  <1>10. EdgesDeclared'
    <2>1. \A f, u \in Tasks : graph'.successors[f][u] =
             IF u = t THEN (IF f \in deps /\ ~ Finished(graph, f) THEN 1 ELSE 0)
                      ELSE graph.successors[f][u]
      BY <1>3, <1>6
    <2> QED
      BY <2>1, <1>8, NewTaskDeclared
  <1> QED
    BY <1>6, <1>7, <1>9, <1>10 DEF Inv, PoolInv, SameDone

\* SpawnEdge: from an open task, one more pending edge; from a done one, none.
LEMMA SpawnEdgeKeeps ==
  ASSUME Inv, NEW me \in Tasks, NEW from \in Tasks, NEW to \in Tasks,
         SpawnEdge(me, from, to)
  PROVE  Inv' /\ SameDone
  <1> DEFINE g1 == Edge(graph, from, to)
  <1>1. /\ from \in Created(graph) /\ MayTakeEdge(graph, to)
        /\ DrainAndSpawn(g1) /\ Held' = Held /\ phase = "run"
        /\ after' = [after EXCEPT ![to] = @ \cup {from}]
        /\ UNCHANGED <<phase, on, holder, panicked, began>>
    BY InvFacts DEF SpawnEdge, MayRoute, Held
  <1>2. g1 \in Graphs /\ GraphInv(g1, Held')
    BY <1>1, InvFacts, EdgeKeeps
  <1>3. graph.state[to] = "Waiting"
    BY <1>1 DEF MayTakeEdge, Inv, PoolInv, ScopeOpen
  <1>4. IF graph.state[from] = "Done" THEN g1 = graph
        ELSE /\ \A u \in Tasks : g1.state[u] = IF u = to THEN "Waiting" ELSE graph.state[u]
             /\ \A f, u \in Tasks : g1.successors[f][u] =
                  IF f = from /\ u = to THEN graph.successors[f][u] + 1
                                        ELSE graph.successors[f][u]
    <2>1. CASE graph.state[from] = "Done"
      BY <2>1 DEF Edge, Finished
    <2>2. CASE graph.state[from] # "Done"
      BY <2>2, InvFacts, EdgeEffect
    <2> QED
      BY <2>1, <2>2
  <1> HIDE DEF g1
  <1>5. \A u \in Tasks : g1.state[u] = graph.state[u]
    BY <1>3, <1>4
  <1>6. \A f, u \in Tasks : /\ graph.successors[f][u] \in Nat
                            /\ \/ g1.successors[f][u] = graph.successors[f][u]
                               \/ /\ f = from /\ u = to
                                  /\ g1.successors[f][u] = graph.successors[f][u] + 1
    <2>1. \A f, u \in Tasks : graph.successors[f][u] \in Nat
      BY InvFacts DEF Graphs
    <2> QED
      BY <1>4, <2>1
  <1>7. /\ graph' \in Graphs /\ spawned' \in [Tasks -> Nat] /\ GraphInv(graph', Held')
        /\ graph'.successors = g1.successors
        /\ \A u \in Tasks : graph.state[u] = "Done" <=> graph'.state[u] = "Done"
        /\ SpawnedOnce' /\ ScopeOpen'
    BY <1>1, <1>2, <1>5, CallKeepsClosures DEF Inv
  <1>8. TypeOK'
    BY <1>1, <1>7 DEF Inv, TypeOK
  <1>9. \A u \in Tasks : after'[u] = IF u = to THEN after[u] \cup {from} ELSE after[u]
    BY <1>1 DEF Inv, TypeOK
  <1>10. EdgesKept'
    <2> SUFFICES ASSUME NEW u \in Tasks, NEW d \in after'[u]
                 PROVE  graph'.state[d] = "Done" \/ graph'.successors[d][u] > 0
      BY DEF EdgesKept
    <2>1. CASE d \in after[u]
      <3>1. d \in Tasks
        BY <2>1, InvFacts
      <3>2. graph.state[d] = "Done" \/ graph.successors[d][u] > 0
        BY <2>1 DEF Inv, PoolInv, EdgesKept
      <3> QED
        BY <1>6, <1>7, <3>1, <3>2
    <2>2. CASE d = from /\ u = to
      <3>1. CASE graph.state[from] = "Done"
        BY <1>7, <2>2, <3>1
      <3>2. CASE graph.state[from] # "Done"
        BY <1>4, <1>6, <1>7, <2>2, <3>2
      <3> QED
        BY <3>1, <3>2
    <2> QED
      BY <1>9, <2>1, <2>2
  <1>11. EdgesDeclared'
    <2> SUFFICES ASSUME NEW f \in Tasks, NEW u \in Tasks, graph'.successors[f][u] > 0
                 PROVE  f \in after'[u]
      BY DEF EdgesDeclared
    <2>1. CASE f = from /\ u = to
      BY <1>9, <2>1
    <2>2. CASE g1.successors[f][u] = graph.successors[f][u]
      <3>1. graph.successors[f][u] > 0
        BY <1>7, <2>2
      <3>2. f \in after[u]
        BY <3>1 DEF Inv, PoolInv, EdgesDeclared
      <3> QED
        BY <1>9, <3>2
    <2> QED
      BY <1>6, <2>1, <2>2
  <1> QED
    BY <1>7, <1>8, <1>10, <1>11 DEF Inv, PoolInv, SameDone

\* SpawnRelease: the guard drops; the task may start.
LEMMA SpawnReleaseKeeps ==
  ASSUME Inv, NEW me \in Tasks, NEW t \in Tasks, SpawnRelease(me, t)
  PROVE  Inv' /\ SameDone
  <1> DEFINE g1 == Release(graph, t)
  <1>1. /\ DrainAndSpawn(g1) /\ phase = "run" /\ holder[t] = me
        /\ holder' = [holder EXCEPT ![t] = Nobody]
        /\ UNCHANGED <<phase, on, panicked, after, began>>
    BY InvFacts DEF SpawnRelease
  <1>2. t \in Held /\ Held' = Held \ {t}
    BY <1>1, NobodyAssumption DEF Held, Inv, TypeOK
  <1>3. g1 \in Graphs /\ GraphInv(g1, Held')
    <2>1. g1 \in Graphs /\ GraphInv(g1, Held \ {t})
      BY <1>2, InvFacts, ReleaseKeeps
    <2> QED
      BY <1>2, <2>1
  <1>4. /\ g1.successors = graph.successors
        /\ \A u \in Tasks : \/ g1.state[u] = graph.state[u]
                            \/ graph.state[u] = "Waiting" /\ g1.state[u] = "Ready"
    BY InvFacts, ReleaseEffect
  <1> HIDE DEF g1
  <1>5. /\ graph' \in Graphs /\ spawned' \in [Tasks -> Nat] /\ GraphInv(graph', Held')
        /\ graph'.successors = g1.successors
        /\ \A u \in Tasks : graph.state[u] = "Done" <=> graph'.state[u] = "Done"
        /\ SpawnedOnce' /\ ScopeOpen'
    BY <1>1, <1>3, <1>4, CallKeepsClosures DEF Inv
  <1>6. TypeOK'
    BY <1>1, <1>5 DEF Inv, TypeOK
  <1>7. EdgesKept' /\ EdgesDeclared'
    BY <1>1, <1>4, <1>5, InvFacts DEF Inv, PoolInv, EdgesKept, EdgesDeclared
  <1> QED
    BY <1>5, <1>6, <1>7 DEF Inv, PoolInv, SameDone

\* Finish: complete and drain; the task's row of edges is gone because it is
\* done, so EdgesKept turns from counting to the result.
LEMMA FinishKeeps ==
  ASSUME Inv, NEW me \in Tasks, Finish(me)
  PROVE  /\ Inv'
         /\ \A t \in Tasks : graph'.state[t] = "Done" <=>
                              t = me \/ graph.state[t] = "Done"
  <1> DEFINE g1 == Complete(graph, me)
  <1>1. /\ DrainAndSpawn(g1) /\ Held' = Held /\ phase = "run" /\ on[me] > 0
        /\ on' = [on EXCEPT ![me] = @ - 1]
        /\ UNCHANGED <<phase, holder, panicked, after, began>>
    BY InvFacts DEF Finish, Held
  <1>2. graph.state[me] = "Running"
    BY <1>1, InvFacts
  <1>3. g1 \in Graphs /\ GraphInv(g1, Held')
    BY <1>1, <1>2, InvFacts, CompleteKeeps
  <1>4. /\ \A t \in Tasks :
             IF t = me THEN g1.state[t] = "Done"
             ELSE \/ g1.state[t] = graph.state[t]
                  \/ graph.state[t] = "Waiting" /\ g1.state[t] = "Ready"
        /\ \A f \in Tasks : g1.successors[f] = IF f = me THEN NoEdges
                                                         ELSE graph.successors[f]
    BY InvFacts, CompleteEffect
  <1> HIDE DEF g1
  <1>5. /\ graph' \in Graphs /\ spawned' \in [Tasks -> Nat] /\ GraphInv(graph', Held')
        /\ graph'.successors = g1.successors
        /\ \A t \in Tasks :
             /\ graph'.state[t] = IF g1.state[t] = "Ready" THEN "Running" ELSE g1.state[t]
             /\ spawned'[t] = IF g1.state[t] = "Ready" THEN spawned[t] + 1 ELSE spawned[t]
    BY <1>1, <1>3, DrainStep DEF Inv
  <1>6. \A t \in Tasks : graph.state[t] # "Ready" /\ graph.state[t] # "Cancelled"
    BY <1>1 DEF Inv, PoolInv, ScopeOpen
  <1>7. \A t \in Tasks : /\ spawned[t] \in Nat /\ on[t] \in Nat
                         /\ on'[t] = IF t = me THEN on[t] - 1 ELSE on[t]
    BY <1>1 DEF Inv, TypeOK
  <1>8. TypeOK'
    <2>1. on[me] - 1 \in Nat
      BY <1>1, <1>7
    <2>2. on' \in [Tasks -> Nat]
      BY <1>1, <2>1 DEF Inv, TypeOK
    <2> QED
      BY <1>1, <1>5, <2>2 DEF Inv, TypeOK
  <1>9. SpawnedOnce'
    <2> SUFFICES ASSUME NEW t \in Tasks
                 PROVE  /\ spawned'[t] + on'[t] + (IF t \in panicked THEN 1 ELSE 0)
                             = IF graph'.state[t] = "Running" THEN 1 ELSE 0
                        /\ began[t] = IF graph'.state[t] = "Done" THEN 1
                                      ELSE on'[t] + (IF t \in panicked THEN 1 ELSE 0)
      BY <1>1 DEF SpawnedOnce
    <2> DEFINE p == IF t \in panicked THEN 1 ELSE 0
    <2>1. p \in Nat
      OBVIOUS
    <2>2. /\ spawned[t] + on[t] + p = IF graph.state[t] = "Running" THEN 1 ELSE 0
          /\ began[t] = IF graph.state[t] = "Done" THEN 1 ELSE on[t] + p
      BY DEF Inv, PoolInv, SpawnedOnce
    <2> HIDE DEF p
    <2>3. /\ spawned'[t] + on'[t] + p = IF graph'.state[t] = "Running" THEN 1 ELSE 0
          /\ began[t] = IF graph'.state[t] = "Done" THEN 1 ELSE on'[t] + p
      <3>1. CASE t = me
        <4>1. spawned[t] + on[t] + p = 1 /\ began[t] = on[t] + p /\ on[t] > 0
          BY <1>1, <1>2, <2>2, <3>1
        <4>2. spawned[t] = 0 /\ on[t] = 1 /\ p = 0
          BY <1>7, <2>1, <4>1
        <4>3. /\ graph'.state[t] = "Done" /\ spawned'[t] = spawned[t] /\ on'[t] = on[t] - 1
          BY <1>4, <1>5, <1>7, <3>1
        <4> QED
          BY <4>1, <4>2, <4>3
      <3>2. CASE t # me /\ g1.state[t] = "Ready"
        <4>1. graph.state[t] = "Waiting"
          BY <1>4, <1>6, <3>2
        <4>2. spawned[t] + on[t] + p = 0 /\ began[t] = on[t] + p
          BY <2>2, <4>1
        <4>3. graph'.state[t] = "Running" /\ spawned'[t] = spawned[t] + 1 /\ on'[t] = on[t]
          BY <1>5, <1>7, <3>2
        <4> QED
          BY <1>7, <2>1, <4>2, <4>3
      <3>3. CASE t # me /\ g1.state[t] # "Ready"
        <4>1. g1.state[t] = graph.state[t]
          BY <1>4, <3>3
        <4>2. graph'.state[t] = graph.state[t] /\ spawned'[t] = spawned[t] /\ on'[t] = on[t]
          BY <1>5, <1>7, <3>3, <4>1
        <4> QED
          BY <2>2, <4>2
      <3> QED
        BY <3>1, <3>2, <3>3
    <2> QED
      BY <2>3 DEF p
  <1>10. ScopeOpen'
    BY <1>1, <1>4, <1>5, <1>6 DEF Inv, PoolInv, ScopeOpen
  <1>11. EdgesKept'
    <2> SUFFICES ASSUME NEW t \in Tasks, NEW d \in after[t]
                 PROVE  graph'.state[d] = "Done" \/ graph'.successors[d][t] > 0
      BY <1>1 DEF EdgesKept
    <2>1. d \in Tasks
      BY InvFacts
    <2>2. CASE d = me
      BY <1>4, <1>5, <2>2
    <2>3. CASE d # me
      <3>1. graph.state[d] = "Done" \/ graph.successors[d][t] > 0
        BY DEF Inv, PoolInv, EdgesKept
      <3> QED
        BY <1>4, <1>5, <2>1, <2>3, <3>1
    <2> QED
      BY <2>2, <2>3
  <1>12. EdgesDeclared'
    <2> SUFFICES ASSUME NEW f \in Tasks, NEW t \in Tasks, graph'.successors[f][t] > 0
                 PROVE  f \in after[t]
      BY <1>1 DEF EdgesDeclared
    <2>1. f # me
      BY <1>4, <1>5 DEF NoEdges
    <2> QED
      BY <1>4, <1>5, <2>1 DEF Inv, PoolInv, EdgesDeclared
  <1>13. Inv'
    BY <1>5, <1>8, <1>9, <1>10, <1>11, <1>12 DEF Inv, PoolInv
  <1> QED
    BY <1>4, <1>5, <1>13

\* Panic: the closure is gone and its task stays Running for ever.
LEMMA PanicKeeps ==
  ASSUME Inv, NEW me \in Tasks, Panic(me)
  PROVE  Inv'
  <1>1. /\ on[me] > 0 /\ phase = "run" /\ Held' = Held
        /\ on' = [on EXCEPT ![me] = @ - 1]
        /\ panicked' = panicked \cup {me}
        /\ UNCHANGED <<phase, graph, spawned, holder, after, began>>
    BY InvFacts DEF Panic, Held
  <1>2. graph.state[me] = "Running"
    BY <1>1, InvFacts
  <1>3. \A t \in Tasks : /\ spawned[t] \in Nat /\ on[t] \in Nat
                         /\ on'[t] = IF t = me THEN on[t] - 1 ELSE on[t]
    BY <1>1 DEF Inv, TypeOK
  <1>4. TypeOK'
    <2>1. on[me] - 1 \in Nat
      BY <1>1, <1>3
    <2>2. on' \in [Tasks -> Nat]
      BY <1>1, <2>1 DEF Inv, TypeOK
    <2> QED
      BY <1>1, <2>2 DEF Inv, TypeOK
  <1>5. SpawnedOnce'
    <2> SUFFICES ASSUME NEW t \in Tasks
                 PROVE  /\ spawned[t] + on'[t] + (IF t \in panicked' THEN 1 ELSE 0)
                             = IF graph.state[t] = "Running" THEN 1 ELSE 0
                        /\ began[t] = IF graph.state[t] = "Done" THEN 1
                                      ELSE on'[t] + (IF t \in panicked' THEN 1 ELSE 0)
      BY <1>1 DEF SpawnedOnce
    <2> DEFINE p == IF t \in panicked THEN 1 ELSE 0
    <2>1. p \in {0, 1}
      OBVIOUS
    <2>2. /\ spawned[t] + on[t] + p = IF graph.state[t] = "Running" THEN 1 ELSE 0
          /\ began[t] = IF graph.state[t] = "Done" THEN 1 ELSE on[t] + p
      BY DEF Inv, PoolInv, SpawnedOnce
    <2>3. CASE t # me
      <3>1. t \in panicked' <=> t \in panicked
        BY <1>1, <2>3
      <3> QED
        BY <1>3, <2>2, <2>3, <3>1
    <2>4. CASE t = me
      <3> HIDE DEF p
      <3>1. spawned[t] + on[t] + p = 1 /\ began[t] = on[t] + p /\ on[t] > 0
        BY <1>1, <1>2, <2>2, <2>4
      <3>2. spawned[t] = 0 /\ on[t] = 1 /\ p = 0
        BY <1>3, <2>1, <3>1
      <3>3. t \in panicked' /\ on'[t] = 0 /\ graph.state[t] = "Running"
        BY <1>1, <1>2, <1>3, <2>4, <3>2
      <3> QED
        BY <3>1, <3>2, <3>3
    <2> QED
      BY <2>3, <2>4
  <1>6. ScopeOpen'
    BY <1>1 DEF Inv, PoolInv, ScopeOpen
  <1>7. EdgesKept' /\ EdgesDeclared' /\ GraphInv(graph', Held')
    BY <1>1 DEF Inv, PoolInv, EdgesKept, EdgesDeclared
  <1> QED
    BY <1>4, <1>5, <1>6, <1>7 DEF Inv, PoolInv

\* Close: the scope returns; nothing of the graph changes.
LEMMA CloseKeeps ==
  ASSUME Inv, Close
  PROVE  Inv'
  BY DEF Close, Inv, PoolInv, TypeOK, Held, SpawnedOnce, EdgesKept, EdgesDeclared, ScopeOpen

-----------------------------------------------------------------------------
(***************************************************************************)
(* The theorems.                                                           *)
(***************************************************************************)

\* Type correctness and the inductive invariant, for every set of tasks: the
\* counts of the graph are exact and each started task has one closure,
\* whatever the running tasks add, complete or panic in between.
THEOREM PoolInvariance == Spec => [](TypeOK /\ PoolInv)
  <1>1. Inv /\ [Next]_vars => Inv'
    <2> SUFFICES ASSUME Inv, [Next]_vars
                 PROVE  Inv'
      OBVIOUS
    <2>1. ASSUME NEW t \in Tasks, NEW deps \in SUBSET Tasks, HostAdd(t, deps)
          PROVE  Inv'
      BY <2>1, HostAddKeeps
    <2>2. CASE Start
      BY <2>2, StartKeeps
    <2>3. ASSUME NEW t \in Tasks, Take(t)
          PROVE  Inv'
      BY <2>3, TakeKeeps
    <2>4. ASSUME NEW me \in Tasks, Step(me)
          PROVE  Inv'
      <3>1. ASSUME NEW t \in Tasks, SpawnRelease(me, t)
            PROVE  Inv'
        BY <3>1, SpawnReleaseKeeps
      <3>2. ASSUME NEW t \in Tasks, NEW from \in Tasks, SpawnEdge(me, from, t)
            PROVE  Inv'
        BY <3>2, SpawnEdgeKeeps
      <3>3. ASSUME NEW t \in Tasks, NEW deps \in SUBSET Tasks, SpawnAdd(me, t, deps)
            PROVE  Inv'
        BY <3>3, SpawnAddKeeps
      <3>4. ASSUME NEW t \in Tasks, NEW deps \in SUBSET Tasks, SpawnAddHeld(me, t, deps)
            PROVE  Inv'
        BY <3>4, SpawnAddHeldKeeps
      <3>5. CASE Finish(me)
        BY <3>5, FinishKeeps
      <3>6. CASE Panic(me)
        BY <3>6, PanicKeeps
      <3> QED
        BY <2>4, <3>1, <3>2, <3>3, <3>4, <3>5, <3>6 DEF Step
    <2>5. CASE Close
      BY <2>5, CloseKeeps
    <2>6. CASE UNCHANGED vars
      BY <2>6 DEF vars, Inv, PoolInv, TypeOK, Held, SpawnedOnce, EdgesKept,
                  EdgesDeclared, ScopeOpen
    <2> QED
      BY <2>1, <2>2, <2>3, <2>4, <2>5, <2>6 DEF Next, Ended
  <1> QED
    BY InitInv, <1>1, PTL DEF Spec, Inv

\* edge's assertion never fires for a task that follows the rule of pool.rs:
\* the guard or the caller's own pending edge keeps the target waiting.
THEOREM NeverIntoStarted == Spec => []TargetNotStarted
  <1>1. Inv => TargetNotStarted
    <2> SUFFICES ASSUME Inv, NEW me \in Tasks, NEW to \in Tasks, MayRoute(me, to)
                 PROVE  MayTakeEdge(graph, to)
      BY DEF TargetNotStarted
    <2>1. Guard(Held, to) \in Nat /\ Cardinality(Into(graph, to)) \in Nat
      BY InvFacts, IntoFinite DEF Guard
    <2>2. graph.waiting_on[to] = Guard(Held, to) + Cardinality(Into(graph, to))
      BY InvFacts DEF GraphInv, CountsExact
    <2>3. CASE holder[to] = me
      <3>1. Guard(Held, to) = 1 /\ to \in Held
        BY <2>3, NobodyAssumption DEF Held, Guard
      <3>2. graph.waiting_on[to] # 0
        BY <2>1, <2>2, <3>1
      <3>3. graph.state[to] \notin {"Absent", "Ready", "Running", "Done", "Cancelled"}
        BY <3>1, <3>2, InvFacts DEF GraphInv, StatesFollowCounts, NoStrayEdges
      <3> QED
        BY <3>3, InvFacts DEF Graphs, States, MayTakeEdge
    <2>4. CASE graph.successors[me][to] > 0
      <3>1. Cardinality(Into(graph, to)) # 0
        BY <2>4, InvFacts, NoneLeft DEF Graphs
      <3>2. graph.waiting_on[to] # 0
        BY <2>1, <2>2, <3>1
      <3>3. graph.state[to] \notin {"Absent", "Ready", "Running", "Done", "Cancelled"}
        BY <2>4, <3>2, InvFacts DEF GraphInv, StatesFollowCounts, NoStrayEdges
      <3> QED
        BY <3>3, InvFacts DEF Graphs, States, MayTakeEdge
    <2> QED
      BY <2>3, <2>4 DEF MayRoute
  <1> QED
    BY PoolInvariance, <1>1, PTL DEF Inv

\* No lost wakeup: a waiting task has its guard, or an edge from a task that
\* is neither done nor forgotten.
THEOREM NoLostWakeup == Spec => []WaitsForSomething
  <1>1. Inv => WaitsForSomething
    <2> SUFFICES ASSUME Inv, NEW t \in Tasks, graph.state[t] = "Waiting", t \notin Held
                 PROVE  \E f \in Tasks : /\ graph.state[f] \in {"Waiting", "Ready", "Running"}
                                         /\ graph.successors[f][t] > 0
      BY DEF WaitsForSomething
    <2>1. Cardinality(Into(graph, t)) # 0
      <3>1. graph.waiting_on[t] = Guard(Held, t) + Cardinality(Into(graph, t))
        BY InvFacts DEF GraphInv, CountsExact
      <3>2. graph.waiting_on[t] > 0 /\ Guard(Held, t) = 0
        BY InvFacts DEF GraphInv, StatesFollowCounts, Guard
      <3> QED
        BY <3>1, <3>2, InvFacts, IntoFinite
    <2>2. Into(graph, t) # {}
      BY <2>1, FS_EmptySet
    <2>3. PICK f \in Tasks : graph.successors[f][t] > 0
      <3>1. PICK f \in Tasks : \E k \in 1 .. graph.successors[f][t] : TRUE
        BY <2>2, InvFacts, IntoMember
      <3>2. graph.successors[f][t] \in Nat
        BY InvFacts DEF Graphs
      <3> QED
        BY <3>1, <3>2
    <2>4. graph.state[f] \notin {"Absent", "Done", "Cancelled"}
      BY <2>3, InvFacts DEF GraphInv, NoStrayEdges, NoEdges
    <2> QED
      BY <2>3, <2>4, InvFacts DEF Graphs, States
  <1> QED
    BY PoolInvariance, <1>1, PTL DEF Inv

\* run_pool leaves nothing behind when nothing panicked, every guard was
\* dropped and the declared edges have no cycle (pool.rs:90-91).
THEOREM LeavesNothing == Spec => []NothingLeft
  <1>1. Inv /\ WaitsForSomething => NothingLeft
    <2> SUFFICES ASSUME Inv, WaitsForSomething, phase = "end", panicked = {}, Held = {},
                        Acyclic
                 PROVE  Unfinished(graph) = {}
      BY DEF NothingLeft
    <2> DEFINE S == Unfinished(graph)
    <2>1. \A t \in S : t \in Tasks /\ graph.state[t] = "Waiting"
      <3> SUFFICES ASSUME NEW t \in S
                   PROVE  t \in Tasks /\ graph.state[t] = "Waiting"
        OBVIOUS
      <3>1. t \in Tasks /\ graph.state[t] \notin {"Absent", "Done", "Cancelled"}
        BY DEF Unfinished, Created, Finished
      <3>2. spawned[t] = 0 /\ on[t] = 0 /\ graph.state[t] # "Ready"
        BY <3>1 DEF Inv, PoolInv, ScopeOpen, Zero
      <3>3. graph.state[t] # "Running"
        BY <3>1, <3>2 DEF Inv, PoolInv, SpawnedOnce
      <3> QED
        BY <3>1, <3>2, <3>3, InvFacts DEF Graphs, States
    <2>2. \A t \in S : after[t] \cap S # {}
      <3> SUFFICES ASSUME NEW t \in S
                   PROVE  \E f \in S : f \in after[t]
        OBVIOUS
      <3>1. PICK f \in Tasks : /\ graph.state[f] \in {"Waiting", "Ready", "Running"}
                               /\ graph.successors[f][t] > 0
        BY <2>1 DEF WaitsForSomething
      <3>2. f \in S
        BY <3>1 DEF Unfinished, Created, Finished
      <3>3. f \in after[t]
        BY <2>1, <3>1 DEF Inv, PoolInv, EdgesDeclared
      <3> QED
        BY <3>2, <3>3
    <2>3. S \in SUBSET Tasks
      BY <2>1
    <2> QED
      BY <2>2, <2>3 DEF Acyclic
  <1> QED
    BY PoolInvariance, NoLostWakeup, <1>1, PTL DEF Inv

-----------------------------------------------------------------------------
(***************************************************************************)
(* The pool implements OrderedRun.                                         *)
(***************************************************************************)

\* What OrderedRun sees: the tasks entered and those ended.
Begun == {t \in Tasks : began[t] > 0}
Done  == {t \in Tasks : graph.state[t] = "Done"}

\* A task not created, waiting or ready has not begun.
LEMMA NotBegun ==
  ASSUME Inv, NEW t \in Tasks, graph.state[t] \notin {"Running", "Done"}
  PROVE  t \notin Begun
  <1> DEFINE p == IF t \in panicked THEN 1 ELSE 0
  <1>1. p \in Nat /\ on[t] \in Nat /\ spawned[t] \in Nat
    BY DEF Inv, TypeOK
  <1>2. spawned[t] + on[t] + p = 0 /\ began[t] = on[t] + p
    BY DEF Inv, PoolInv, SpawnedOnce
  <1> HIDE DEF p
  <1>3. began[t] = 0
    BY <1>1, <1>2
  <1> QED
    BY <1>3 DEF Begun

\* A closure in rayon's queues has not begun, and all its task was declared
\* to wait for is done: the count it started at was 0.
LEMMA SpawnedIsFree ==
  ASSUME Inv, NEW t \in Tasks, spawned[t] > 0
  PROVE  /\ t \notin Begun
         /\ after[t] \subseteq Done
  <1> DEFINE p == IF t \in panicked THEN 1 ELSE 0
  <1>1. p \in Nat /\ on[t] \in Nat /\ spawned[t] \in Nat
    BY DEF Inv, TypeOK
  <1>2. graph.state[t] = "Running"
    BY InvFacts
  <1>3. spawned[t] + on[t] + p = 1 /\ began[t] = on[t] + p
    BY <1>2 DEF Inv, PoolInv, SpawnedOnce
  <1> HIDE DEF p
  <1>4. began[t] = 0
    BY <1>1, <1>3
  <1>5. \A f \in Tasks : graph.successors[f][t] = 0
    <2>1. graph.waiting_on[t] = 0
      BY <1>2, InvFacts DEF GraphInv, StatesFollowCounts
    <2>2. graph.waiting_on[t] = Guard(Held, t) + Cardinality(Into(graph, t))
      BY InvFacts DEF GraphInv, CountsExact
    <2>3. Guard(Held, t) \in Nat /\ Cardinality(Into(graph, t)) \in Nat
      BY InvFacts, IntoFinite DEF Guard
    <2>4. Cardinality(Into(graph, t)) = 0
      BY <2>1, <2>2, <2>3
    <2> QED
      BY <2>4, InvFacts, NoneLeft
  <1>6. after[t] \subseteq Done
    BY <1>5, InvFacts DEF Inv, PoolInv, EdgesKept, Done
  <1> QED
    BY <1>4, <1>6 DEF Begun

\* A step that keeps what has begun and ended, and at most adds to the
\* declared dependencies of a task that has not begun, maps to Declare.
LEMMA DeclareStep ==
  ASSUME Inv, NEW t \in Tasks, NEW deps \in SUBSET Tasks, t \notin Begun,
         after' = [after EXCEPT ![t] = @ \cup deps],
         UNCHANGED began, SameDone
  PROVE  Ordered!Next
  <1>1. Done' = Done /\ Begun' = Begun
    BY DEF Done, Begun, SameDone
  <1>2. Ordered!Declare(t, deps)
    BY <1>1 DEF Ordered!Declare, Done, Begun
  <1> QED
    BY <1>2 DEF Ordered!Next

\* A step that OrderedRun does not see.
LEMMA Stutter ==
  ASSUME UNCHANGED <<after, began>>, SameDone
  PROVE  UNCHANGED Ordered!vars
  BY DEF Ordered!vars, SameDone

\* Every step of the pool is a step of OrderedRun, or none.
LEMMA StepImplements ==
  ASSUME Inv, [Next]_vars
  PROVE  [Ordered!Next]_Ordered!vars
  <1>1. ASSUME NEW t \in Tasks, NEW deps \in SUBSET Tasks, HostAdd(t, deps)
        PROVE  Ordered!Next
    <2>1. t \notin Begun
      BY <1>1, NotBegun DEF HostAdd, Created
    <2> QED
      BY <1>1, <2>1, HostAddKeeps, DeclareStep DEF HostAdd
  <1>2. CASE Start
    BY <1>2, StartKeeps, Stutter DEF Start
  <1>3. ASSUME NEW t \in Tasks, Take(t)
        PROVE  Ordered!Next
    <2>1. t \notin Begun /\ after[t] \subseteq Done
      BY <1>3, SpawnedIsFree DEF Take
    <2>2. Begun' = Begun \cup {t}
      <3>1. \A u \in Tasks : began'[u] = IF u = t THEN began[u] + 1 ELSE began[u]
        BY <1>3 DEF Take, Inv, TypeOK
      <3>2. began[t] + 1 > 0
        BY DEF Inv, TypeOK
      <3> QED
        BY <3>1, <3>2 DEF Begun
    <2>3. Ordered!Begin(t)
      BY <1>3, <2>1, <2>2 DEF Ordered!Begin, Take, Done, Begun
    <2> QED
      BY <2>3 DEF Ordered!Next
  <1>4. ASSUME NEW me \in Tasks, Step(me)
        PROVE  [Ordered!Next]_Ordered!vars
    <2>1. ASSUME NEW t \in Tasks, SpawnRelease(me, t)
          PROVE  UNCHANGED Ordered!vars
      BY <2>1, SpawnReleaseKeeps, Stutter DEF SpawnRelease
    <2>2. ASSUME NEW t \in Tasks, NEW from \in Tasks, SpawnEdge(me, from, t)
          PROVE  Ordered!Next
      <3>1. t \notin Begun
        BY <2>2, NotBegun DEF SpawnEdge, MayTakeEdge
      <3> QED
        BY <2>2, <3>1, SpawnEdgeKeeps, DeclareStep DEF SpawnEdge
    <2>3. ASSUME NEW t \in Tasks, NEW deps \in SUBSET Tasks, SpawnAdd(me, t, deps)
          PROVE  Ordered!Next
      <3>1. t \notin Begun
        BY <2>3, NotBegun DEF SpawnAdd, Created
      <3> QED
        BY <2>3, <3>1, SpawnAddKeeps, DeclareStep DEF SpawnAdd
    <2>4. ASSUME NEW t \in Tasks, NEW deps \in SUBSET Tasks, SpawnAddHeld(me, t, deps)
          PROVE  Ordered!Next
      <3>1. t \notin Begun
        BY <2>4, NotBegun DEF SpawnAddHeld, Created
      <3> QED
        BY <2>4, <3>1, SpawnAddHeldKeeps, DeclareStep DEF SpawnAddHeld
    <2>5. CASE Finish(me)
      <3>1. on[me] > 0
        BY <2>5 DEF Finish
      <3>2. me \in Begun \ Done
        <4> DEFINE p == IF me \in panicked THEN 1 ELSE 0
        <4>1. graph.state[me] = "Running"
          BY <3>1, InvFacts
        <4>2. began[me] = on[me] + p
          BY <4>1 DEF Inv, PoolInv, SpawnedOnce
        <4>3. on[me] \in Nat /\ p \in Nat
          BY DEF Inv, TypeOK
        <4> HIDE DEF p
        <4>4. began[me] > 0
          BY <3>1, <4>2, <4>3
        <4> QED
          BY <4>1, <4>4 DEF Begun, Done
      <3>3. Done' = Done \cup {me}
        BY <2>5, FinishKeeps DEF Done
      <3>4. Ordered!End(me)
        BY <2>5, <3>2, <3>3 DEF Ordered!End, Finish, Done, Begun
      <3> QED
        BY <3>4 DEF Ordered!Next
    <2>6. CASE Panic(me)
      BY <2>6, Stutter DEF Panic, SameDone
    <2> QED
      BY <1>4, <2>1, <2>2, <2>3, <2>4, <2>5, <2>6 DEF Step
  <1>5. CASE Close \/ Ended \/ UNCHANGED vars
    BY <1>5, Stutter DEF Close, Ended, vars, SameDone
  <1> QED
    BY <1>1, <1>2, <1>3, <1>4, <1>5 DEF Next

\* The pool implements OrderedRun: every task begins once, after all it was
\* declared to wait for, for every set of tasks and every interleaving.
THEOREM PoolImplementsOrderedRun == Spec => ImplementsOrderedRun
  <1>1. Init => Ordered!Init
    BY DEF Init, Ordered!Init, EmptyGraph, Zero
  <1>2. Inv /\ [Next]_vars => [Ordered!Next]_Ordered!vars
    BY StepImplements
  <1> QED
    BY <1>1, <1>2, PoolInvariance, PTL DEF Spec, Inv, ImplementsOrderedRun, Ordered!Spec
=============================================================================
