----------------------------- MODULE PoolExecutor ----------------------------
(***************************************************************************)
(* crates/hd_sched/src/pool.rs: run_pool over the graph of TaskGraph.      *)
(*                                                                         *)
(* The graph is behind one mutex, so a call of a running task on Spawn and *)
(* a completion are each one action: the change, then the drain of the     *)
(* ready queue under the same lock, whose tasks are spawned into rayon's   *)
(* scope.  Rayon begins spawned closures in any order on any worker (a     *)
(* worker blocked in par_map may take one too), so `spawned` and `on` are  *)
(* bags of tasks and no worker is named.                                   *)
(*                                                                         *)
(* What a task does between two calls is the driver's; here a task calls   *)
(* Spawn as pool.rs asks it to: edges only into a task it holds            *)
(* (add_held, not released) or into one that still waits for the caller,   *)
(* as ModulePrep does for PackageResult (crates/hd_driver/src/lib.rs).     *)
(***************************************************************************)
EXTENDS TaskGraph

CONSTANTS Nobody,     \* not a task: no guard is held
          MaxCopies   \* bound: parallel copies of one edge

ASSUME NobodyAssumption == Nobody \notin Tasks
ASSUME MaxCopiesAssumption == MaxCopies \in Nat

VARIABLES phase,     \* "build": the driver adds tasks; "run": the scope is open; "end"
          graph,     \* the TaskGraph behind the mutex
          spawned,   \* closures in rayon's queues, per task
          on,        \* closures being executed, per task
          holder,    \* the running task that created t and has not released it
          panicked,  \* tasks whose body panicked: their completion never runs
          after,     \* history: the tasks t was declared to wait for
          began      \* history: how often the body of t was entered

vars == <<phase, graph, spawned, on, holder, panicked, after, began>>

Zero == [t \in Tasks |-> 0]

Held == {t \in Tasks : holder[t] # Nobody}

Init == /\ phase = "build"
        /\ graph = EmptyGraph
        /\ spawned = Zero
        /\ on = Zero
        /\ holder = [t \in Tasks |-> Nobody]
        /\ panicked = {}
        /\ after = [t \in Tasks |-> {}]
        /\ began = Zero

\* drain under the lock, then spawn: the queue of g moves into rayon's.
DrainAndSpawn(g) == /\ graph' = Drain(g)
                    /\ spawned' = [t \in Tasks |-> spawned[t] + g.ready[t]]

-----------------------------------------------------------------------------
\* The driver builds the first tasks with `add` before the run.
HostAdd(t, deps) ==
  /\ phase = "build"
  /\ t \notin Created(graph) /\ deps \subseteq Created(graph)
  /\ graph' = Add(graph, t, deps)
  /\ after' = [after EXCEPT ![t] = @ \cup deps]
  /\ UNCHANGED <<phase, spawned, on, holder, panicked, began>>

\* run_pool: the first drain, and the scope opens.
Start == /\ phase = "build"
         /\ phase' = "run"
         /\ DrainAndSpawn(graph)
         /\ UNCHANGED <<on, holder, panicked, after, began>>

\* A worker enters the closure of t.
Take(t) == /\ phase = "run"
           /\ spawned[t] > 0
           /\ spawned' = [spawned EXCEPT ![t] = @ - 1]
           /\ on' = [on EXCEPT ![t] = @ + 1]
           /\ began' = [began EXCEPT ![t] = @ + 1]
           /\ UNCHANGED <<phase, graph, holder, panicked, after>>

-----------------------------------------------------------------------------
\* Spawn::add.
SpawnAdd(me, t, deps) ==
  /\ on[me] > 0
  /\ t \notin Created(graph) /\ deps \subseteq Created(graph)
  /\ DrainAndSpawn(Add(graph, t, deps))
  /\ after' = [after EXCEPT ![t] = @ \cup deps]
  /\ UNCHANGED <<phase, on, holder, panicked, began>>

\* Spawn::add_held.
SpawnAddHeld(me, t, deps) ==
  /\ on[me] > 0
  /\ t \notin Created(graph) /\ deps \subseteq Created(graph)
  /\ DrainAndSpawn(AddHeld(graph, t, deps))
  /\ holder' = [holder EXCEPT ![t] = me]
  /\ after' = [after EXCEPT ![t] = @ \cup deps]
  /\ UNCHANGED <<phase, on, panicked, began>>

\* The edges a task may add (the rule of pool.rs:4-5).
MayRoute(me, to) == /\ on[me] > 0
                    /\ \/ holder[to] = me
                       \/ graph.successors[me][to] > 0

\* Spawn::edge; a started target would panic instead (TargetNotStarted).
SpawnEdge(me, from, to) ==
  /\ MayRoute(me, to) /\ MayTakeEdge(graph, to)
  /\ from \in Created(graph)
  /\ graph.successors[from][to] < MaxCopies
  /\ DrainAndSpawn(Edge(graph, from, to))
  /\ after' = [after EXCEPT ![to] = @ \cup {from}]
  /\ UNCHANGED <<phase, on, holder, panicked, began>>

\* Spawn::release.
SpawnRelease(me, t) ==
  /\ on[me] > 0 /\ holder[t] = me
  /\ holder' = [holder EXCEPT ![t] = Nobody]
  /\ DrainAndSpawn(Release(graph, t))
  /\ UNCHANGED <<phase, on, panicked, after, began>>

-----------------------------------------------------------------------------
\* The body returned: complete and drain under one lock, then spawn.
Finish(me) == /\ on[me] > 0
              /\ on' = [on EXCEPT ![me] = @ - 1]
              /\ DrainAndSpawn(Complete(graph, me))
              /\ UNCHANGED <<phase, holder, panicked, after, began>>

\* The body panicked: rayon keeps the panic and runs the other closures; the
\* lock is taken through PoisonError::into_inner, so the graph stays usable.
Panic(me) == /\ on[me] > 0
             /\ on' = [on EXCEPT ![me] = @ - 1]
             /\ panicked' = panicked \cup {me}
             /\ UNCHANGED <<phase, graph, spawned, holder, after, began>>

\* The scope returns when no closure is left (or raises the kept panic).
Close == /\ phase = "run"
         /\ spawned = Zero /\ on = Zero
         /\ phase' = "end"
         /\ UNCHANGED <<graph, spawned, on, holder, panicked, after, began>>

Ended == phase = "end" /\ UNCHANGED vars

Step(me) == \/ \E t \in Tasks : \/ SpawnRelease(me, t)
                                \/ \E from \in Tasks : SpawnEdge(me, from, t)
                                \/ \E deps \in SUBSET Tasks : \/ SpawnAdd(me, t, deps)
                                                              \/ SpawnAddHeld(me, t, deps)
            \/ Finish(me)
            \/ Panic(me)

Next == \/ \E t \in Tasks, deps \in SUBSET Tasks : HostAdd(t, deps)
        \/ Start
        \/ \E t \in Tasks : Take(t) \/ Step(t)
        \/ Close
        \/ Ended

Spec == Init /\ [][Next]_vars

\* The host calls run_pool, rayon begins every spawned closure, a task body
\* returns (its work is bounded by fuel), and the scope returns.
Fairness == /\ WF_vars(Start)
            /\ \A t \in Tasks : WF_vars(Take(t)) /\ WF_vars(Finish(t))
            /\ WF_vars(Close)

FairSpec == Spec /\ Fairness
-----------------------------------------------------------------------------
(***************************************************************************)
(* Properties.                                                             *)
(***************************************************************************)

\* Every variable has its type: the one type invariant of the pool.
TypeOK == /\ phase \in {"build", "run", "end"}
          /\ graph \in Graphs
          /\ spawned \in [Tasks -> Nat]
          /\ on \in [Tasks -> Nat]
          /\ holder \in [Tasks -> Tasks \cup {Nobody}]
          /\ panicked \in SUBSET Tasks
          /\ after \in [Tasks -> SUBSET Tasks]
          /\ began \in [Tasks -> Nat]

\* A closure in rayon's hands, or one that panicked, is a Running task, once:
\* no completion, edge or release spawns a second closure of a task.
SpawnedOnce ==
  \A t \in Tasks :
    /\ spawned[t] + on[t] + (IF t \in panicked THEN 1 ELSE 0)
         = IF graph.state[t] = "Running" THEN 1 ELSE 0
    /\ began[t] = IF graph.state[t] = "Done" THEN 1
                  ELSE on[t] + (IF t \in panicked THEN 1 ELSE 0)

\* A declared dependency is done or still counted: the edge a task relies on
\* is never dropped (edge's early return, complete's mem::take).
EdgesKept ==
  \A t \in Tasks : \A d \in after[t] : \/ graph.state[d] = "Done"
                                       \/ graph.successors[d][t] > 0

\* A call that follows the rule of pool.rs never meets edge's assertion
\* ("edge into a started task"), whatever the other workers have done since.
TargetNotStarted ==
  \A me, to \in Tasks : MayRoute(me, to) => MayTakeEdge(graph, to)

\* A task that waits has a reason: its guard is up, or a task that is not
\* done still counts it among its successors (no lost wakeup).
WaitsForSomething ==
  \A t \in Tasks : graph.state[t] = "Waiting" =>
     t \in Held \/ \E f \in Tasks : /\ graph.state[f] \in {"Waiting", "Ready", "Running"}
                                    /\ graph.successors[f][t] > 0

\* Closures exist only while the scope is open, and then the queue is drained
\* at every step; nothing is cancelled in the pool.
ScopeOpen ==
  /\ phase = "build" => spawned = Zero /\ on = Zero /\ panicked = {} /\ Held = {}
  /\ phase = "end" => spawned = Zero /\ on = Zero
  /\ phase # "build" => \A t \in Tasks : graph.state[t] # "Ready"
  /\ \A t \in Tasks : graph.state[t] # "Cancelled"

\* Every pending edge was declared.
EdgesDeclared ==
  \A f, t \in Tasks : graph.successors[f][t] > 0 => f \in after[t]

\* The inductive invariant of the pool: the graph's own accounting under every
\* interleaving, and how rayon's closures and the declared edges follow it.
PoolInv == /\ GraphInv(graph, Held)
           /\ SpawnedOnce
           /\ EdgesKept
           /\ EdgesDeclared
           /\ ScopeOpen

\* The edges in `after` have no cycle: a set each of whose members waits for
\* a member does not exist.
Acyclic == \A S \in SUBSET Tasks :
             (\A t \in S : after[t] \cap S # {}) => S = {}

\* run_pool returns 0 unless the graph has a bug (pool.rs:90-91): when nothing
\* panicked, every guard was dropped and the edges have no cycle, no created
\* task is left behind.
NothingLeft ==
  phase = "end" /\ panicked = {} /\ Held = {} /\ Acyclic => Unfinished(graph) = {}

\* The pool implements OrderedRun.
Ordered == INSTANCE OrderedRun WITH begun <- {t \in Tasks : began[t] > 0},
                                    ended <- {t \in Tasks : graph.state[t] = "Done"}

ImplementsOrderedRun == Ordered!Spec

\* A created task with its guard down and its declared dependencies done is
\* run to its end, unless its own body panics: whatever else panics or waits.
ReadyTasksRun ==
  \A t \in Tasks :
    (/\ phase = "run" /\ t \in Created(graph) \ Held
     /\ \A d \in after[t] : graph.state[d] = "Done")
      ~> (graph.state[t] = "Done" \/ t \in panicked)
=============================================================================
