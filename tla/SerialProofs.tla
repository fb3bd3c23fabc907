----------------------------- MODULE SerialProofs ----------------------------
(***************************************************************************)
(* The serial and the stepping executor keep SerialInv, for every finite   *)
(* set of tasks, every slice length and every moment of a cancel; that one *)
(* late body is the most, and OrderedRun, follow.                          *)
(***************************************************************************)
EXTENDS SerialExecutor, TaskGraphProofs

\* A step that completes no task.
SameDone == \A u \in Tasks : graph.state[u] = "Done" <=> graph'.state[u] = "Done"

\* What the invariant says of the graph and of the declared edges.
LEMMA InvFacts ==
  ASSUME SerialInv
  PROVE  /\ graph \in Graphs
         /\ GraphInv(graph, held)
         /\ \A t \in Tasks : after[t] \in SUBSET Tasks
         /\ \A f, t \in Tasks : graph.successors[f][t] \in Nat
         /\ pc \in {"pop", "body"} => \A t \in Tasks : graph.state[t] # "Cancelled"
  BY DEF SerialInv, TypeOK, FlagStops, Graphs

\* The empty graph of TaskGraph::default() satisfies the invariant.
LEMMA InitInv == Init => SerialInv
  <1> SUFFICES ASSUME Init PROVE SerialInv
    OBVIOUS
  <1>1. TypeOK
    <2>1. graph \in Graphs
      BY DEF Init, EmptyGraph, Graphs, States, NoEdges
    <2>2. flag \in BOOLEAN
      BY DEF Init
    <2>3. budget \in Nat \cup {Unlimited}
      BY DEF Init
    <2>4. after \in [Tasks -> SUBSET Tasks]
      BY DEF Init
    <2> QED
      BY <2>1, <2>2, <2>3, <2>4 DEF Init, TypeOK
  <1>2. GraphInv(graph, held)
    <2>1. \A t \in Tasks : Into(graph, t) = {}
      BY DEF Init, EmptyGraph, Into, NoEdges
    <2>2. CountsExact(graph, held)
      BY <2>1, FS_EmptySet DEF Init, EmptyGraph, CountsExact, Guard
    <2>3. StatesFollowCounts(graph) /\ QueueExact(graph) /\ NoStrayEdges(graph, held)
      BY DEF Init, EmptyGraph, StatesFollowCounts, QueueExact, NoStrayEdges, NoEdges
    <2> QED
      BY <2>2, <2>3 DEF GraphInv
  <1>3. EdgesExact /\ LoopExact /\ FlagStops /\ DoneLeavesNothing
    BY DEF Init, EmptyGraph, NoEdges, EdgesExact, LoopExact, FlagStops, DoneLeavesNothing
  <1> QED
    BY <1>1, <1>2, <1>3 DEF SerialInv

-----------------------------------------------------------------------------
(***************************************************************************)
(* The steps of the loop: one lemma per action.                            *)
(***************************************************************************)

\* A step that leaves the graph and its edges alone keeps their invariants.
LEMMA SameGraph ==
  ASSUME SerialInv, UNCHANGED <<graph, held, after>>
  PROVE  GraphInv(graph', held') /\ EdgesExact' /\ SameDone
  BY DEF SerialInv, EdgesExact, SameDone

\* Cancel: the flag alone; a later slice sees it.
LEMMA CancelKeeps ==
  ASSUME SerialInv, Cancel
  PROVE  SerialInv' /\ SameDone
  <1>1. TypeOK' /\ LoopExact' /\ FlagStops' /\ DoneLeavesNothing'
    BY DEF Cancel, SerialInv, TypeOK, LoopExact, FlagStops, DoneLeavesNothing, Acyclic
  <1> QED
    BY <1>1, SameGraph DEF Cancel, SerialInv

\* Call: a caller without a limit never meets a flag.
LEMMA CallKeeps ==
  ASSUME SerialInv, NEW steps \in Slices \cup {Unlimited}, Call(steps)
  PROVE  SerialInv' /\ SameDone
  <1>1. steps \in Nat \cup {Unlimited}
    BY SlicesAssumption
  <1>2. TypeOK'
    BY <1>1 DEF Call, SerialInv, TypeOK
  <1>3. LoopExact' /\ FlagStops' /\ DoneLeavesNothing'
    BY DEF Call, SerialInv, LoopExact, FlagStops, DoneLeavesNothing
  <1> QED
    BY <1>2, <1>3, SameGraph DEF Call, SerialInv

\* SliceOver: Done is reported only of a graph with nothing unfinished.
LEMMA SliceOverKeeps ==
  ASSUME SerialInv, SliceOver
  PROVE  SerialInv' /\ SameDone
  <1>1. TypeOK' /\ LoopExact' /\ FlagStops' /\ DoneLeavesNothing'
    BY DEF SliceOver, Return, SerialInv, TypeOK, LoopExact, FlagStops, DoneLeavesNothing
  <1> QED
    BY <1>1, SameGraph DEF SliceOver, Return, SerialInv

\* SeeFlag: no task runs at the check, so none of the cancelled ones had begun.
LEMMA SeeFlagKeeps ==
  ASSUME SerialInv, SeeFlag
  PROVE  SerialInv' /\ SameDone
  <1>1. /\ graph' = CancelAll(graph) /\ pc = "check" /\ pc' = "host"
        /\ budget > 0 /\ flag /\ progress' = "Cancelled"
        /\ UNCHANGED <<budget, body, flag, held, after, began, late>>
    BY DEF SeeFlag, Return
  <1>2. /\ graph' \in Graphs /\ GraphInv(graph', held')
        /\ graph'.successors = graph.successors
        /\ \A t \in Tasks : graph'.state[t] =
             IF graph.state[t] \in {"Absent", "Done"} THEN graph.state[t] ELSE "Cancelled"
    BY <1>1, InvFacts, CancelAllKeeps
  <1>3. \A t \in Tasks : graph.state[t] # "Running"
    BY <1>1 DEF SerialInv, LoopExact
  <1>4. TypeOK'
    BY <1>1, <1>2 DEF SerialInv, TypeOK
  <1>5. EdgesExact'
    BY <1>1, <1>2, InvFacts DEF SerialInv, EdgesExact, Finished
  <1>6. LoopExact'
    BY <1>1, <1>2, <1>3 DEF SerialInv, LoopExact
  <1>7. FlagStops'
    BY <1>1 DEF SerialInv, FlagStops, Unlimited
  <1>8. DoneLeavesNothing'
    BY <1>1 DEF DoneLeavesNothing
  <1> QED
    BY <1>2, <1>4, <1>5, <1>6, <1>7, <1>8 DEF SerialInv, SameDone

\* PassFlag: past the check nothing is cancelled, and no body has been late.
LEMMA PassFlagKeeps ==
  ASSUME SerialInv, PassFlag
  PROVE  SerialInv' /\ SameDone
  <1>1. TypeOK' /\ LoopExact' /\ FlagStops' /\ DoneLeavesNothing'
    BY DEF PassFlag, SerialInv, TypeOK, LoopExact, FlagStops, DoneLeavesNothing
  <1> QED
    BY <1>1, SameGraph DEF PassFlag, SerialInv

\* Begin: the task was in the queue, so no other runs, and it may be late only
\* if none has been before it.
LEMMA BeginKeeps ==
  ASSUME SerialInv, NEW t \in Tasks, Begin(t)
  PROVE  SerialInv' /\ SameDone /\ graph.state[t] = "Ready"
  <1>1. /\ pc = "pop" /\ graph.ready[t] > 0 /\ graph' = Pop(graph, t)
        /\ body' = t /\ began' = began \cup {t} /\ pc' = "body"
        /\ late' = IF flag /\ budget # Unlimited THEN late + 1 ELSE late
        /\ UNCHANGED <<budget, progress, flag, held, after>>
    BY DEF Begin
  <1>2. /\ graph' \in Graphs /\ GraphInv(graph', held') /\ graph.state[t] = "Ready"
        /\ graph'.successors = graph.successors
        /\ \A u \in Tasks : graph'.state[u] = IF u = t THEN "Running" ELSE graph.state[u]
    BY <1>1, InvFacts, PopKeeps
  <1>3. late = 0
    BY <1>1 DEF SerialInv, FlagStops
  <1>4. TypeOK'
    BY <1>1, <1>2, <1>3 DEF SerialInv, TypeOK
  <1>5. EdgesExact'
    BY <1>1, <1>2, InvFacts DEF SerialInv, EdgesExact, Finished
  <1>6. LoopExact'
    <2>1. \A u \in Tasks : graph.state[u] # "Running"
      BY <1>1 DEF SerialInv, LoopExact
    <2> QED
      BY <1>1, <1>2, <2>1 DEF SerialInv, LoopExact
  <1>7. FlagStops'
    BY <1>1, <1>2, <1>3, InvFacts DEF FlagStops
  <1>8. DoneLeavesNothing'
    BY <1>1 DEF DoneLeavesNothing
  <1> QED
    BY <1>2, <1>4, <1>5, <1>6, <1>7, <1>8 DEF SerialInv, SameDone

\* NoneReady: with an empty queue every unfinished task waits for another one,
\* which only a cycle of declared edges allows.
LEMMA NoneReadyKeeps ==
  ASSUME SerialInv, NoneReady
  PROVE  SerialInv' /\ SameDone
  <1>1. /\ pc = "pop" /\ pc' = "host"
        /\ UNCHANGED <<budget, graph, body, flag, held, after, began, late>>
    BY DEF NoneReady, Return
  <1>2. TypeOK' /\ LoopExact' /\ FlagStops'
    BY DEF NoneReady, Return, SerialInv, TypeOK, LoopExact, FlagStops
  <1>3. Acyclic => Unfinished(graph) = {}
    <2> SUFFICES ASSUME Acyclic PROVE Unfinished(graph) = {}
      OBVIOUS
    <2> DEFINE S == Unfinished(graph)
    <2>1. \A t \in S : t \in Tasks /\ graph.state[t] = "Waiting"
      <3> SUFFICES ASSUME NEW t \in S
                   PROVE  t \in Tasks /\ graph.state[t] = "Waiting"
        OBVIOUS
      <3>1. t \in Tasks /\ graph.state[t] \notin {"Absent", "Done", "Cancelled"}
        BY DEF Unfinished, Created, Finished
      <3>2. graph.state[t] # "Running"
        BY <1>1, <3>1 DEF SerialInv, LoopExact
      <3>3. graph.state[t] # "Ready"
        BY <3>1, InvFacts DEF NoneReady, GraphInv, QueueExact
      <3> QED
        BY <3>1, <3>2, <3>3, InvFacts DEF Graphs, States
    <2>2. ASSUME NEW t \in S
          PROVE  after[t] \cap S # {}
      <3>1. t \in Tasks /\ t \notin held /\ graph.waiting_on[t] > 0
        BY <1>1, <2>1, InvFacts DEF SerialInv, LoopExact, GraphInv, StatesFollowCounts
      <3>2. Cardinality(Into(graph, t)) # 0
        BY <3>1, InvFacts DEF GraphInv, CountsExact, Guard
      <3>3. Into(graph, t) # {}
        BY <3>2, FS_EmptySet
      <3>4. PICK f \in Tasks : graph.successors[f][t] > 0
        <4>1. PICK f \in Tasks : \E k \in 1 .. graph.successors[f][t] : TRUE
          BY <3>1, <3>3, InvFacts, IntoMember
        <4> QED
          BY <3>1, <4>1, InvFacts
      <3>5. graph.state[f] \notin {"Absent", "Done", "Cancelled"}
        BY <1>1, <3>1, <3>4, InvFacts DEF GraphInv, NoStrayEdges, NoEdges
      <3>6. f \in S /\ f \in after[t]
        BY <3>1, <3>4, <3>5 DEF Unfinished, Created, Finished, SerialInv, EdgesExact
      <3> QED
        BY <3>6
    <2>3. S \in SUBSET Tasks
      BY <2>1
    <2> QED
      BY <2>2, <2>3 DEF Acyclic
  <1>4. DoneLeavesNothing'
    BY <1>1, <1>3 DEF DoneLeavesNothing, Acyclic
  <1> QED
    BY <1>1, <1>2, <1>4, SameGraph DEF SerialInv

\* BodyEnds: the task's row of edges turns into a result.
LEMMA BodyEndsKeeps ==
  ASSUME SerialInv, BodyEnds
  PROVE  /\ SerialInv'
         /\ body \in Tasks /\ graph.state[body] = "Running"
         /\ \A t \in Tasks : graph'.state[t] = "Done" <=> t = body \/ graph.state[t] = "Done"
  <1>1. /\ pc = "body" /\ held = {} /\ graph' = Complete(graph, body)
        /\ body' = Nobody /\ pc' = "check"
        /\ budget' = IF budget = Unlimited THEN budget ELSE budget - 1
        /\ UNCHANGED <<progress, flag, held, after, began, late>>
    BY DEF BodyEnds
  <1>2. body \in Tasks /\ graph.state[body] = "Running"
    BY <1>1 DEF SerialInv, LoopExact
  <1>3. graph' \in Graphs /\ GraphInv(graph', held')
    BY <1>1, <1>2, InvFacts, CompleteKeeps
  <1>4. /\ \A t \in Tasks : IF t = body THEN graph'.state[t] = "Done"
                            ELSE \/ graph'.state[t] = graph.state[t]
                                 \/ graph.state[t] = "Waiting" /\ graph'.state[t] = "Ready"
        /\ \A f \in Tasks : graph'.successors[f] = IF f = body THEN NoEdges
                                                              ELSE graph.successors[f]
    BY <1>1, <1>2, InvFacts, CompleteEffect
  <1>5. TypeOK'
    <2>1. budget \in Nat \cup {Unlimited} /\ budget # 0
      BY <1>1 DEF SerialInv, TypeOK, LoopExact
    <2>2. budget' \in Nat \cup {Unlimited}
      BY <1>1, <2>1
    <2> QED
      BY <1>1, <1>3, <2>2 DEF SerialInv, TypeOK
  <1>6. EdgesExact'
    <2>1. ASSUME NEW t \in Tasks, NEW d \in after[t]
          PROVE  Finished(graph', d) \/ graph'.successors[d][t] > 0
      <3>1. d \in Tasks /\ (Finished(graph, d) \/ graph.successors[d][t] > 0)
        BY InvFacts DEF SerialInv, EdgesExact
      <3> QED
        BY <1>4, <3>1 DEF Finished
    <2>2. ASSUME NEW f \in Tasks, NEW t \in Tasks, graph'.successors[f][t] > 0
          PROVE  f \in after[t]
      <3>1. f # body
        BY <1>4, <2>2 DEF NoEdges
      <3> QED
        BY <1>4, <2>2, <3>1 DEF SerialInv, EdgesExact
    <2> QED
      BY <1>1, <2>1, <2>2 DEF EdgesExact
  <1>7. LoopExact'
    BY <1>1, <1>2, <1>4 DEF SerialInv, LoopExact
  <1>8. FlagStops'
    <2>1. \A t \in Tasks : graph'.state[t] # "Cancelled"
      BY <1>1, <1>4, InvFacts
    <2>2. budget # Unlimited => budget' # Unlimited
      BY <1>1, <1>5 DEF SerialInv, TypeOK, LoopExact, Unlimited
    <2> QED
      BY <1>1, <2>1, <2>2 DEF SerialInv, FlagStops
  <1>9. DoneLeavesNothing'
    BY <1>1 DEF DoneLeavesNothing
  <1> QED
    BY <1>2, <1>3, <1>4, <1>5, <1>6, <1>7, <1>8, <1>9 DEF SerialInv

-----------------------------------------------------------------------------
(***************************************************************************)
(* The calls: a new task, an edge, a release.                              *)
(***************************************************************************)

\* A call of the running body that neither starts nor ends a task.
LEMMA CallInBodyKeeps ==
  ASSUME SerialInv, NEW g, NEW h, InBody(g, h),
         g \in Graphs, h \in SUBSET Tasks, GraphInv(g, h),
         after' \in [Tasks -> SUBSET Tasks], EdgesExact',
         \A t \in Tasks : \/ g.state[t] = graph.state[t]
                          \/ /\ g.state[t] \in {"Waiting", "Ready"}
                             /\ graph.state[t] \in {"Absent", "Waiting", "Ready"},
         \A t \in Tasks : g.state[t] = "Absent" => after'[t] = {}
  PROVE  SerialInv' /\ SameDone
  <1>1. /\ pc = "body" /\ graph' = g /\ held' = h
        /\ UNCHANGED <<pc, budget, progress, body, flag, began, late>>
    BY DEF InBody
  <1>2. TypeOK'
    BY <1>1 DEF SerialInv, TypeOK
  <1>3. LoopExact'
    BY <1>1 DEF SerialInv, LoopExact
  <1>4. FlagStops'
    BY <1>1, InvFacts DEF SerialInv, FlagStops
  <1>5. DoneLeavesNothing'
    BY <1>1 DEF DoneLeavesNothing
  <1>6. SameDone
    BY <1>1 DEF SameDone
  <1> QED
    BY <1>1, <1>2, <1>3, <1>4, <1>5, <1>6 DEF SerialInv

\* The edges into a new task are those declared with it.
LEMMA NewTaskEdges ==
  ASSUME SerialInv, NEW t \in Tasks, NEW deps \in SUBSET Tasks, New(t, deps),
         \A u \in Tasks : u # t => graph'.state[u] = graph.state[u],
         \A f, u \in Tasks : graph'.successors[f][u] =
             IF u = t THEN (IF f \in deps /\ ~ Finished(graph, f) THEN 1 ELSE 0)
                      ELSE graph.successors[f][u]
  PROVE  EdgesExact'
  <1>1. /\ graph.state[t] = "Absent" /\ t \notin deps
        /\ \A u \in Tasks : after'[u] = IF u = t THEN deps ELSE after[u]
    BY DEF New, Created, SerialInv, TypeOK
  <1>2. \A u \in Tasks : t \notin after[u]
    <2> SUFFICES ASSUME NEW u \in Tasks, t \in after[u]
                 PROVE  FALSE
      OBVIOUS
    <2>1. graph.successors[t][u] > 0
      BY <1>1 DEF SerialInv, EdgesExact, Finished
    <2>2. graph.successors[t] = NoEdges
      BY <1>1, InvFacts DEF GraphInv, NoStrayEdges
    <2> QED
      BY <2>1, <2>2 DEF NoEdges
  <1>3. ASSUME NEW u \in Tasks, NEW d \in after'[u]
        PROVE  Finished(graph', d) \/ graph'.successors[d][u] > 0
    <2>1. d \in Tasks /\ d # t
      BY <1>1, <1>2, InvFacts
    <2>2. Finished(graph', d) <=> Finished(graph, d)
      BY <2>1 DEF Finished
    <2>3. CASE u = t
      BY <1>1, <2>1, <2>2, <2>3
    <2>4. CASE u # t
      BY <1>1, <2>1, <2>2, <2>4 DEF SerialInv, EdgesExact
    <2> QED
      BY <2>3, <2>4
  <1>4. ASSUME NEW f \in Tasks, NEW u \in Tasks, graph'.successors[f][u] > 0
        PROVE  f \in after'[u]
    <2>1. CASE u = t
      BY <1>1, <1>4, <2>1
    <2>2. CASE u # t
      BY <1>1, <1>4, <2>2 DEF SerialInv, EdgesExact
    <2> QED
      BY <2>1, <2>2
  <1> QED
    BY <1>3, <1>4 DEF EdgesExact

\* What a new task leaves of the declared edges.
LEMMA NewTaskAfter ==
  ASSUME SerialInv, NEW t \in Tasks, NEW deps \in SUBSET Tasks, New(t, deps)
  PROVE  /\ t \in Tasks \ Created(graph) /\ deps \in SUBSET Created(graph)
         /\ graph.state[t] = "Absent" /\ after[t] = {} /\ t \notin began
         /\ after' \in [Tasks -> SUBSET Tasks]
         /\ \A u \in Tasks : u # t => after'[u] = after[u]
         /\ after' = [after EXCEPT ![t] = after[t] \cup deps]
  <1>1. graph.state[t] = "Absent"
    BY DEF New, Created
  <1>2. after[t] = {} /\ t \notin began
    BY <1>1 DEF SerialInv, LoopExact
  <1> QED
    BY <1>1, <1>2 DEF New, SerialInv, TypeOK

\* HostAdd: between two slices the tasks of a cancelled run may still be in
\* the graph; an edge from one of them is not counted.
LEMMA HostAddKeeps ==
  ASSUME SerialInv, NEW t \in Tasks, NEW deps \in SUBSET Tasks, HostAdd(t, deps)
  PROVE  SerialInv' /\ SameDone
  <1>1. /\ pc = "host" /\ New(t, deps) /\ graph' = Add(graph, t, deps)
        /\ progress' = "None"
        /\ UNCHANGED <<pc, budget, body, flag, held, began, late>>
    BY DEF HostAdd
  <1>2. /\ t \in Tasks \ Created(graph) /\ deps \in SUBSET Created(graph)
        /\ graph.state[t] = "Absent"
        /\ after' \in [Tasks -> SUBSET Tasks]
        /\ \A u \in Tasks : u # t => after'[u] = after[u]
    BY <1>1, NewTaskAfter
  <1>3. /\ graph' \in Graphs /\ GraphInv(graph', held')
        /\ \A u \in Tasks : IF u = t THEN graph'.state[u] \in {"Waiting", "Ready"}
                                     ELSE graph'.state[u] = graph.state[u]
        /\ \A f, u \in Tasks : graph'.successors[f][u] =
             IF u = t THEN (IF f \in deps /\ ~ Finished(graph, f) THEN 1 ELSE 0)
                      ELSE graph.successors[f][u]
    BY <1>1, <1>2, InvFacts, AddKeeps, AddEffect
  <1>4. EdgesExact'
    BY <1>1, <1>3, NewTaskEdges
  <1>5. TypeOK'
    BY <1>1, <1>2, <1>3 DEF SerialInv, TypeOK
  <1>6. LoopExact'
    BY <1>1, <1>2, <1>3 DEF SerialInv, LoopExact
  <1>7. FlagStops'
    BY <1>1, <1>3 DEF SerialInv, FlagStops
  <1>8. DoneLeavesNothing'
    BY <1>1 DEF DoneLeavesNothing
  <1>9. SameDone
    BY <1>2, <1>3 DEF SameDone
  <1> QED
    BY <1>3, <1>4, <1>5, <1>6, <1>7, <1>8, <1>9 DEF SerialInv

\* SpawnAdd: a new task with its declared dependencies.
LEMMA SpawnAddKeeps ==
  ASSUME SerialInv, NEW t \in Tasks, NEW deps \in SUBSET Tasks, SpawnAdd(t, deps)
  PROVE  SerialInv' /\ SameDone
  <1> DEFINE g == Add(graph, t, deps)
  <1>1. New(t, deps) /\ InBody(g, held)
    BY DEF SpawnAdd
  <1>2. /\ t \in Tasks \ Created(graph) /\ deps \in SUBSET Created(graph)
        /\ graph.state[t] = "Absent"
        /\ after' \in [Tasks -> SUBSET Tasks]
        /\ \A u \in Tasks : u # t => after'[u] = after[u]
    BY <1>1, NewTaskAfter
  <1>3. /\ g \in Graphs /\ GraphInv(g, held)
        /\ \A u \in Tasks : IF u = t THEN g.state[u] \in {"Waiting", "Ready"}
                                     ELSE g.state[u] = graph.state[u]
        /\ \A f, u \in Tasks : g.successors[f][u] =
             IF u = t THEN (IF f \in deps /\ ~ Finished(graph, f) THEN 1 ELSE 0)
                      ELSE graph.successors[f][u]
    BY <1>2, InvFacts, AddKeeps, AddEffect
  <1> HIDE DEF g
  <1>4. EdgesExact'
    BY <1>1, <1>3, NewTaskEdges DEF InBody
  <1>5. \A u \in Tasks : /\ \/ g.state[u] = graph.state[u]
                            \/ /\ g.state[u] \in {"Waiting", "Ready"}
                               /\ graph.state[u] \in {"Absent", "Waiting", "Ready"}
                         /\ g.state[u] = "Absent" => after'[u] = {}
    BY <1>2, <1>3 DEF SerialInv, LoopExact
  <1>6. held \in SUBSET Tasks
    BY DEF SerialInv, TypeOK
  <1> QED
    BY <1>1, <1>2, <1>3, <1>4, <1>5, <1>6, CallInBodyKeeps

\* SpawnAddHeld: the same, and the body holds the new task.
LEMMA SpawnAddHeldKeeps ==
  ASSUME SerialInv, NEW t \in Tasks, NEW deps \in SUBSET Tasks, SpawnAddHeld(t, deps)
  PROVE  SerialInv' /\ SameDone
  <1> DEFINE g == AddHeld(graph, t, deps)
             h == held \cup {t}
  <1>1. New(t, deps) /\ InBody(g, h)
    BY DEF SpawnAddHeld
  <1>2. /\ t \in Tasks \ Created(graph) /\ deps \in SUBSET Created(graph)
        /\ graph.state[t] = "Absent"
        /\ after' \in [Tasks -> SUBSET Tasks]
        /\ \A u \in Tasks : u # t => after'[u] = after[u]
    BY <1>1, NewTaskAfter
  <1>3. /\ g \in Graphs /\ GraphInv(g, h)
        /\ \A u \in Tasks : g.state[u] = IF u = t THEN "Waiting" ELSE graph.state[u]
        /\ \A f, u \in Tasks : g.successors[f][u] =
             IF u = t THEN (IF f \in deps /\ ~ Finished(graph, f) THEN 1 ELSE 0)
                      ELSE graph.successors[f][u]
    BY <1>2, InvFacts, AddHeldKeeps, AddHeldEffect
  <1>4. h \in SUBSET Tasks
    BY DEF SerialInv, TypeOK
  <1> HIDE DEF g, h
  <1>5. EdgesExact'
    BY <1>1, <1>3, NewTaskEdges DEF InBody
  <1>6. \A u \in Tasks : /\ \/ g.state[u] = graph.state[u]
                            \/ /\ g.state[u] \in {"Waiting", "Ready"}
                               /\ graph.state[u] \in {"Absent", "Waiting", "Ready"}
                         /\ g.state[u] = "Absent" => after'[u] = {}
    BY <1>2, <1>3 DEF SerialInv, LoopExact
  <1> QED
    BY <1>1, <1>2, <1>3, <1>4, <1>5, <1>6, CallInBodyKeeps

\* SpawnEdge: from an open task, one more pending edge; from a done one, none.
LEMMA SpawnEdgeKeeps ==
  ASSUME SerialInv, NEW from \in Tasks, NEW to \in Tasks, SpawnEdge(from, to)
  PROVE  SerialInv' /\ SameDone
  <1> DEFINE g == Edge(graph, from, to)
  <1>1. /\ from \in Created(graph) /\ MayTakeEdge(graph, to) /\ InBody(g, held)
        /\ after' = [after EXCEPT ![to] = after[to] \cup {from}]
    BY DEF SpawnEdge
  <1>2. g \in Graphs /\ GraphInv(g, held)
    BY <1>1, InvFacts, EdgeKeeps
  <1>3. /\ graph.state[to] \in {"Waiting", "Ready"}
        /\ Finished(graph, from) <=> graph.state[from] = "Done"
    BY <1>1, InvFacts DEF MayTakeEdge, InBody, Finished
  <1>4. IF graph.state[from] = "Done" THEN g = graph
        ELSE /\ \A u \in Tasks : g.state[u] = IF u = to THEN "Waiting" ELSE graph.state[u]
             /\ \A f, u \in Tasks : g.successors[f][u] =
                  IF f = from /\ u = to THEN graph.successors[f][u] + 1
                                        ELSE graph.successors[f][u]
    <2>1. CASE graph.state[from] = "Done"
      BY <1>3, <2>1 DEF Edge
    <2>2. CASE graph.state[from] # "Done"
      BY <1>3, <2>2, InvFacts, EdgeEffect
    <2> QED
      BY <2>1, <2>2
  <1> HIDE DEF g
  <1>5. \A u \in Tasks : \/ g.state[u] = graph.state[u]
                         \/ /\ g.state[u] = "Waiting"
                            /\ graph.state[u] \in {"Waiting", "Ready"}
    BY <1>3, <1>4
  <1>6. /\ after' \in [Tasks -> SUBSET Tasks]
        /\ \A u \in Tasks : after'[u] = IF u = to THEN after[u] \cup {from} ELSE after[u]
    BY <1>1 DEF SerialInv, TypeOK
  <1>7. \A u \in Tasks : g.state[u] = "Absent" => after'[u] = {}
    BY <1>3, <1>5, <1>6 DEF SerialInv, LoopExact
  <1>8. \A f, u \in Tasks :
          /\ graph.successors[f][u] \in Nat
          /\ \/ g.successors[f][u] = graph.successors[f][u]
             \/ /\ f = from /\ u = to
                /\ g.successors[f][u] = graph.successors[f][u] + 1
    <2>1. \A f, u \in Tasks : graph.successors[f][u] \in Nat
      BY InvFacts
    <2> QED
      BY <1>4, <2>1
  <1>9. ASSUME NEW u \in Tasks, NEW d \in after'[u]
        PROVE  Finished(g, d) \/ g.successors[d][u] > 0
    <2>1. CASE d \in after[u]
      <3>1. d \in Tasks /\ (Finished(graph, d) \/ graph.successors[d][u] > 0)
        BY <2>1, InvFacts DEF SerialInv, EdgesExact
      <3>2. CASE Finished(graph, d)
        BY <1>5, <3>1, <3>2 DEF Finished
      <3>3. CASE graph.successors[d][u] > 0
        BY <1>8, <3>1, <3>3
      <3> QED
        BY <3>1, <3>2, <3>3
    <2>2. CASE d = from /\ u = to
      <3>1. CASE graph.state[from] = "Done"
        BY <1>4, <2>2, <3>1 DEF Finished
      <3>2. CASE graph.state[from] # "Done"
        BY <1>4, <1>8, <2>2, <3>2
      <3> QED
        BY <3>1, <3>2
    <2> QED
      BY <1>6, <2>1, <2>2
  <1>10. ASSUME NEW f \in Tasks, NEW u \in Tasks, g.successors[f][u] > 0
         PROVE  f \in after'[u]
    <2>1. CASE f = from /\ u = to
      BY <1>6, <2>1
    <2>2. CASE g.successors[f][u] = graph.successors[f][u]
      <3>1. f \in after[u]
        BY <1>10, <2>2 DEF SerialInv, EdgesExact
      <3> QED
        BY <1>6, <3>1
    <2> QED
      BY <1>8, <2>1, <2>2
  <1>11. EdgesExact'
    BY <1>1, <1>9, <1>10 DEF EdgesExact, InBody
  <1>12. held \in SUBSET Tasks
    BY DEF SerialInv, TypeOK
  <1>13. \A u \in Tasks : \/ g.state[u] = graph.state[u]
                          \/ /\ g.state[u] \in {"Waiting", "Ready"}
                             /\ graph.state[u] \in {"Absent", "Waiting", "Ready"}
    BY <1>5
  <1> QED
    BY <1>1, <1>2, <1>6, <1>7, <1>11, <1>12, <1>13, CallInBodyKeeps

\* SpawnRelease: the guard drops; the task may be popped.
LEMMA SpawnReleaseKeeps ==
  ASSUME SerialInv, NEW t \in Tasks, SpawnRelease(t)
  PROVE  SerialInv' /\ SameDone
  <1> DEFINE g == Release(graph, t)
             h == held \ {t}
  <1>1. t \in held /\ InBody(g, h) /\ after' = after
    BY DEF SpawnRelease
  <1>2. g \in Graphs /\ GraphInv(g, h)
    BY <1>1, InvFacts, ReleaseKeeps
  <1>3. /\ g.successors = graph.successors
        /\ \A u \in Tasks : \/ g.state[u] = graph.state[u]
                            \/ graph.state[u] = "Waiting" /\ g.state[u] = "Ready"
    BY InvFacts, ReleaseEffect
  <1>4. h \in SUBSET Tasks /\ after' \in [Tasks -> SUBSET Tasks]
    BY <1>1 DEF SerialInv, TypeOK
  <1> HIDE DEF g, h
  <1>5. EdgesExact'
    BY <1>1, <1>3, InvFacts DEF InBody, SerialInv, EdgesExact, Finished
  <1>6. \A u \in Tasks : /\ \/ g.state[u] = graph.state[u]
                            \/ /\ g.state[u] \in {"Waiting", "Ready"}
                               /\ graph.state[u] \in {"Absent", "Waiting", "Ready"}
                         /\ g.state[u] = "Absent" => after'[u] = {}
    BY <1>1, <1>3 DEF SerialInv, LoopExact
  <1> QED
    BY <1>1, <1>2, <1>4, <1>5, <1>6, CallInBodyKeeps

-----------------------------------------------------------------------------
(***************************************************************************)
(* The theorems.                                                           *)
(***************************************************************************)

\* Every step of the executor keeps the invariant.
LEMMA StepKeeps == SerialInv /\ [Next]_vars => SerialInv'
  <1> SUFFICES ASSUME SerialInv, [Next]_vars
               PROVE  SerialInv'
    OBVIOUS
  <1>1. CASE Cancel
    BY <1>1, CancelKeeps
  <1>2. CASE SliceOver
    BY <1>2, SliceOverKeeps
  <1>3. CASE SeeFlag
    BY <1>3, SeeFlagKeeps
  <1>4. CASE PassFlag
    BY <1>4, PassFlagKeeps
  <1>5. CASE NoneReady
    BY <1>5, NoneReadyKeeps
  <1>6. CASE BodyEnds
    BY <1>6, BodyEndsKeeps
  <1>7. ASSUME NEW steps \in Slices \cup {Unlimited}, Call(steps)
        PROVE  SerialInv'
    BY <1>7, CallKeeps
  <1>8. ASSUME NEW t \in Tasks, Begin(t)
        PROVE  SerialInv'
    BY <1>8, BeginKeeps
  <1>9. ASSUME NEW t \in Tasks, SpawnRelease(t)
        PROVE  SerialInv'
    BY <1>9, SpawnReleaseKeeps
  <1>10. ASSUME NEW t \in Tasks, NEW from \in Tasks, SpawnEdge(from, t)
         PROVE  SerialInv'
    BY <1>10, SpawnEdgeKeeps
  <1>11. ASSUME NEW t \in Tasks, NEW deps \in SUBSET Tasks,
                HostAdd(t, deps) \/ SpawnAdd(t, deps) \/ SpawnAddHeld(t, deps)
         PROVE  SerialInv'
    BY <1>11, HostAddKeeps, SpawnAddKeeps, SpawnAddHeldKeeps
  <1>12. CASE UNCHANGED vars
    <2>1. TypeOK' /\ LoopExact' /\ FlagStops' /\ DoneLeavesNothing'
      BY <1>12 DEF vars, SerialInv, TypeOK, LoopExact, FlagStops, DoneLeavesNothing, Acyclic
    <2> QED
      BY <1>12, <2>1, SameGraph DEF vars, SerialInv
  <1> QED
    BY <1>1, <1>2, <1>3, <1>4, <1>5, <1>6, <1>7, <1>8, <1>9, <1>10, <1>11, <1>12 DEF Next

\* Type correctness, the graph's exact accounting, and the truth of what a
\* call reports: Done leaves no task unfinished unless the edges have a cycle.
THEOREM SerialInvariance == Spec => []SerialInv
  BY InitInv, StepKeeps, PTL DEF Spec

\* A cancel is late for one body at most, over all slices to come: the flag is
\* read before every pop (lib.rs:349-354).
THEOREM AtMostOneLate == Spec => []OneLateBody
  <1>1. SerialInv => OneLateBody
    BY DEF SerialInv, TypeOK, FlagStops, OneLateBody
  <1> QED
    BY SerialInvariance, <1>1, PTL

-----------------------------------------------------------------------------
(***************************************************************************)
(* The executor implements OrderedRun.                                     *)
(***************************************************************************)

\* What OrderedRun sees ended.
Done == {t \in Tasks : graph.state[t] = "Done"}

\* A popped task has not begun, and all it was declared to wait for is done:
\* its count is 0, and no task is cancelled at the pop.
LEMMA ReadyIsFree ==
  ASSUME SerialInv, NEW t \in Tasks, pc = "pop", graph.state[t] = "Ready"
  PROVE  t \notin began /\ after[t] \subseteq Done
  <1>1. t \notin began
    BY DEF SerialInv, LoopExact
  <1>2. Cardinality(Into(graph, t)) = 0
    <2>1. graph.waiting_on[t] = 0
      BY InvFacts DEF GraphInv, StatesFollowCounts
    <2>2. graph.waiting_on[t] = Guard(held, t) + Cardinality(Into(graph, t))
      BY InvFacts DEF GraphInv, CountsExact
    <2>3. Guard(held, t) \in Nat /\ Cardinality(Into(graph, t)) \in Nat
      BY InvFacts, IntoFinite DEF Guard
    <2> QED
      BY <2>1, <2>2, <2>3
  <1>3. \A f \in Tasks : graph.successors[f][t] = 0
    BY <1>2, InvFacts, NoneLeft
  <1>4. \A d \in after[t] : d \in Tasks /\ graph.state[d] # "Cancelled" /\ Finished(graph, d)
    BY <1>3, InvFacts DEF SerialInv, EdgesExact
  <1> QED
    BY <1>1, <1>4 DEF Done, Finished

\* A step that OrderedRun does not see.
LEMMA Stutter ==
  ASSUME UNCHANGED <<after, began>>, SameDone
  PROVE  UNCHANGED Ordered!vars
  BY DEF Ordered!vars, SameDone

\* A step that adds declared edges to a task that has not begun.
LEMMA DeclareStep ==
  ASSUME NEW t \in Tasks, NEW deps \in SUBSET Tasks, t \notin began,
         after' = [after EXCEPT ![t] = after[t] \cup deps],
         UNCHANGED began, SameDone
  PROVE  Ordered!Next
  <1>1. Done' = Done
    BY DEF Done, SameDone
  <1>2. Ordered!Declare(t, deps)
    BY <1>1 DEF Ordered!Declare, Done
  <1> QED
    BY <1>2 DEF Ordered!Next

\* Every step of the executor is a step of OrderedRun, or none.
LEMMA StepImplements ==
  ASSUME SerialInv, [Next]_vars
  PROVE  [Ordered!Next]_Ordered!vars
  <1>1. CASE Cancel \/ SliceOver \/ SeeFlag \/ PassFlag \/ NoneReady
    <2>1. SameDone
      BY <1>1, CancelKeeps, SliceOverKeeps, SeeFlagKeeps, PassFlagKeeps, NoneReadyKeeps
    <2>2. UNCHANGED <<after, began>>
      BY <1>1 DEF Cancel, SliceOver, SeeFlag, PassFlag, NoneReady
    <2> QED
      BY <2>1, <2>2, Stutter
  <1>2. ASSUME NEW steps \in Slices \cup {Unlimited}, Call(steps)
        PROVE  UNCHANGED Ordered!vars
    BY <1>2, CallKeeps, Stutter DEF Call
  <1>3. ASSUME BodyEnds
        PROVE  Ordered!Next
    <2>1. /\ body \in Tasks /\ graph.state[body] = "Running"
          /\ \A t \in Tasks : graph'.state[t] = "Done" <=> t = body \/ graph.state[t] = "Done"
      BY <1>3, BodyEndsKeeps
    <2>2. PICK t \in Tasks : t = body
      BY <2>1
    <2>3. t \in began \ Done
      BY <2>1, <2>2 DEF SerialInv, LoopExact, Done
    <2>4. Done' = Done \cup {t}
      BY <2>1, <2>2 DEF Done
    <2>5. Ordered!End(t)
      BY <1>3, <2>3, <2>4 DEF Ordered!End, BodyEnds, Done
    <2> QED
      BY <2>5 DEF Ordered!Next
  <1>4. ASSUME NEW t \in Tasks, Begin(t)
        PROVE  Ordered!Next
    <2>1. graph.state[t] = "Ready" /\ SameDone
      BY <1>4, BeginKeeps
    <2>2. t \notin began /\ after[t] \subseteq Done
      BY <1>4, <2>1, ReadyIsFree DEF Begin
    <2>3. Done' = Done
      BY <2>1 DEF Done, SameDone
    <2>4. Ordered!Begin(t)
      BY <1>4, <2>2, <2>3 DEF Ordered!Begin, Begin, Done
    <2> QED
      BY <2>4 DEF Ordered!Next
  <1>5. ASSUME NEW t \in Tasks, SpawnRelease(t)
        PROVE  UNCHANGED Ordered!vars
    BY <1>5, SpawnReleaseKeeps, Stutter DEF SpawnRelease, InBody
  <1>6. ASSUME NEW t \in Tasks, NEW from \in Tasks, SpawnEdge(from, t)
        PROVE  Ordered!Next
    <2>1. t \notin began
      BY <1>6 DEF SpawnEdge, MayTakeEdge, SerialInv, LoopExact
    <2> QED
      BY <1>6, <2>1, SpawnEdgeKeeps, DeclareStep DEF SpawnEdge, InBody
  <1>7. ASSUME NEW t \in Tasks, NEW deps \in SUBSET Tasks,
               HostAdd(t, deps) \/ SpawnAdd(t, deps) \/ SpawnAddHeld(t, deps)
        PROVE  Ordered!Next
    <2>1. New(t, deps) /\ UNCHANGED began
      BY <1>7 DEF HostAdd, SpawnAdd, SpawnAddHeld, InBody
    <2>2. SameDone
      BY <1>7, HostAddKeeps, SpawnAddKeeps, SpawnAddHeldKeeps
    <2> QED
      BY <2>1, <2>2, NewTaskAfter, DeclareStep
  <1>8. CASE UNCHANGED vars
    BY <1>8, Stutter DEF vars, SameDone
  <1> QED
    BY <1>1, <1>2, <1>3, <1>4, <1>5, <1>6, <1>7, <1>8 DEF Next

\* Both executors implement OrderedRun: every task begins once, after all it
\* was declared to wait for, in any order pop may choose and across cancels.
THEOREM SerialImplementsOrderedRun == Spec => ImplementsOrderedRun
  <1>1. Init => Ordered!Init
    BY DEF Init, Ordered!Init, EmptyGraph
  <1>2. SerialInv /\ [Next]_vars => [Ordered!Next]_Ordered!vars
    BY StepImplements
  <1> QED
    BY <1>1, <1>2, SerialInvariance, PTL DEF Spec, ImplementsOrderedRun, Ordered!Spec
=============================================================================
