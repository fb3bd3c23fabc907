---------------------------- MODULE SerialExecutor ---------------------------
(***************************************************************************)
(* crates/hd_sched/src/lib.rs: SerialScheduler::run and                    *)
(* SteppingScheduler::run_for over the graph of TaskGraph, with the cancel *)
(* flag another thread may set at any time.  `run` is a slice with no      *)
(* limit that does not look at the flag.                                   *)
(*                                                                         *)
(* One thread runs everything, so only the flag is concurrent: the check   *)
(* of the flag, the pop and the body are separate steps.  Pop takes any    *)
(* ready task, which covers Fifo, Priority and every seed of Shuffled.     *)
(***************************************************************************)
EXTENDS TaskGraph

CONSTANTS Nobody,     \* not a task
          Slices,     \* the max_steps a caller of run_for passes
          MaxCopies   \* bound: parallel copies of one edge

ASSUME NobodyAssumption == Nobody \notin Tasks
Unlimited == -1       \* SerialScheduler::run

ASSUME SlicesAssumption == Slices \subseteq Nat
ASSUME MaxCopiesAssumption == MaxCopies \in Nat

VARIABLES pc,        \* "host", or where the loop is: "check", "pop", "body"
          budget,    \* tasks the slice may still run, or Unlimited
          progress,  \* what the last slice returned; "None" before
          graph,
          body,      \* the task being executed, or Nobody
          flag,      \* the CancelFlag
          held,      \* the tasks the running body created and has not released
          after,     \* history: the tasks t was declared to wait for
          began,     \* history: the tasks whose body was entered
          late       \* history: bodies run_for entered after the flag was set

vars == <<pc, budget, progress, graph, body, flag, held, after, began, late>>

\* One graph is run by one scheduler: run_for's, or run.
Init == /\ pc = "host" /\ budget \in {0, Unlimited} /\ progress = "None"
        /\ graph = EmptyGraph
        /\ body = Nobody
        /\ flag = FALSE
        /\ held = {}
        /\ after = [t \in Tasks |-> {}]
        /\ began = {}
        /\ late = 0

\* A new task and what it was declared to wait for.
New(t, deps) == /\ t \notin Created(graph) /\ deps \subseteq Created(graph)
                /\ after' = [after EXCEPT ![t] = deps]

-----------------------------------------------------------------------------
\* The caller owns the graph between slices and adds tasks to it.
HostAdd(t, deps) == /\ pc = "host"
                    /\ New(t, deps)
                    /\ graph' = Add(graph, t, deps)
                    /\ progress' = "None"
                    /\ UNCHANGED <<pc, budget, body, flag, held, began, late>>

\* CancelFlag::cancel, from any thread.
Cancel == /\ ~ flag /\ flag' = TRUE
          /\ UNCHANGED <<pc, budget, progress, graph, body, held, after, began, late>>

\* run_for(max_steps), or run.
Call(steps) == /\ pc = "host"
               /\ steps = Unlimited <=> budget = Unlimited
               /\ budget' = steps
               /\ pc' = "check"
               /\ UNCHANGED <<progress, graph, body, flag, held, after, began, late>>

Return(p) == pc' = "host" /\ progress' = p

\* The slice used its steps: Done when nothing is unfinished, else Yielded.
SliceOver == /\ pc = "check" /\ budget = 0
             /\ Return(IF Unfinished(graph) = {} THEN "Done" ELSE "Yielded")
             /\ UNCHANGED <<budget, graph, body, flag, held, after, began, late>>

\* The flag is set: every unfinished task is cancelled.
SeeFlag == /\ pc = "check" /\ budget > 0 /\ flag
           /\ graph' = CancelAll(graph)
           /\ Return("Cancelled")
           /\ UNCHANGED <<budget, body, flag, held, after, began, late>>

\* Variant of the check: the flag is read at the start of a slice only.
PassFlagUnread == /\ pc = "check" /\ budget # 0
                  /\ pc' = "pop"
                  /\ UNCHANGED <<budget, progress, graph, body, flag, held, after, began, late>>

\* The flag is clear, or nobody reads it.
PassFlag == /\ pc = "check" /\ budget # 0
            /\ ~ flag \/ budget = Unlimited
            /\ pc' = "pop"
            /\ UNCHANGED <<budget, progress, graph, body, flag, held, after, began, late>>

\* pop finds a task: its body is entered.
Begin(t) == /\ pc = "pop" /\ graph.ready[t] > 0
            /\ graph' = Pop(graph, t)
            /\ body' = t
            /\ began' = began \cup {t}
            /\ late' = IF flag /\ budget # Unlimited THEN late + 1 ELSE late
            /\ pc' = "body"
            /\ UNCHANGED <<budget, progress, flag, held, after>>

\* pop finds none: Done, whatever is left unfinished.
NoneReady == /\ pc = "pop" /\ \A t \in Tasks : graph.ready[t] = 0
             /\ Return("Done")
             /\ UNCHANGED <<budget, graph, body, flag, held, after, began, late>>

-----------------------------------------------------------------------------
InBody(g, h) == /\ pc = "body"
                /\ graph' = g /\ held' = h
                /\ UNCHANGED <<pc, budget, progress, body, flag, began, late>>

\* SerialSpawn: the calls of Spawn on the `&mut` graph, without a drain.
SpawnAdd(t, deps) == New(t, deps) /\ InBody(Add(graph, t, deps), held)

SpawnAddHeld(t, deps) ==
  New(t, deps) /\ InBody(AddHeld(graph, t, deps), held \cup {t})

\* On one thread nothing starts during a body, so every target but a started
\* one is safe; a started one panics (edge's assertion).
SpawnEdge(from, to) ==
  /\ MayTakeEdge(graph, to) /\ from \in Created(graph)
  /\ graph.successors[from][to] < MaxCopies
  /\ InBody(Edge(graph, from, to), held)
  /\ after' = [after EXCEPT ![to] = @ \cup {from}]

SpawnRelease(t) == /\ t \in held
                   /\ InBody(Release(graph, t), held \ {t})
                   /\ UNCHANGED after

\* The body returned; it released what it held.
BodyEnds == /\ pc = "body" /\ held = {}
            /\ graph' = Complete(graph, body)
            /\ body' = Nobody
            /\ budget' = IF budget = Unlimited THEN budget ELSE budget - 1
            /\ pc' = "check"
            /\ UNCHANGED <<progress, flag, held, after, began, late>>

Next == \/ Cancel \/ SliceOver \/ SeeFlag \/ PassFlag \/ NoneReady \/ BodyEnds
        \/ \E steps \in Slices \cup {Unlimited} : Call(steps)
        \/ \E t \in Tasks :
             \/ Begin(t)
             \/ SpawnRelease(t)
             \/ \E from \in Tasks : SpawnEdge(from, t)
             \/ \E deps \in SUBSET Tasks : \/ HostAdd(t, deps)
                                           \/ SpawnAdd(t, deps)
                                           \/ SpawnAddHeld(t, deps)

Spec == Init /\ [][Next]_vars

\* The loop is one thread that keeps running; a body releases what it holds
\* and returns.  Nothing obliges the caller to call again.
Fairness == /\ WF_vars(SliceOver \/ SeeFlag \/ PassFlag \/ NoneReady)
            /\ WF_vars(\E t \in Tasks : Begin(t))
            /\ WF_vars(BodyEnds \/ \E t \in Tasks : SpawnRelease(t))

FairSpec == Spec /\ Fairness
-----------------------------------------------------------------------------
\* Every variable has its type: the one type invariant of the executor.
TypeOK == /\ pc \in {"host", "check", "pop", "body"}
          /\ budget \in Nat \cup {Unlimited}
          /\ progress \in {"None", "Done", "Yielded", "Cancelled"}
          /\ graph \in Graphs
          /\ body \in Tasks \cup {Nobody}
          /\ flag \in BOOLEAN
          /\ held \in SUBSET Tasks
          /\ after \in [Tasks -> SUBSET Tasks]
          /\ began \in SUBSET Tasks
          /\ late \in Nat

\* The edges in `after` have no cycle.
Acyclic == \A S \in SUBSET Tasks :
             (\A t \in S : after[t] \cap S # {}) => S = {}

\* run returns 0 and run_for Done only when every task is finished, unless
\* the edges have a cycle (lib.rs:317-318, "a compiler bug").
DoneLeavesNothing ==
  pc = "host" /\ progress = "Done" /\ Acyclic => Unfinished(graph) = {}

\* Every edge that was declared is counted, or its source is finished; and
\* every edge that is counted was declared.
EdgesExact ==
  /\ \A t \in Tasks : \A d \in after[t] : \/ Finished(graph, d)
                                          \/ graph.successors[d][t] > 0
  /\ \A f, t \in Tasks : graph.successors[f][t] > 0 => f \in after[t]

\* One body at a time, and a loop that enters one has a step left for it.
LoopExact ==
  /\ \A t \in Tasks : graph.state[t] = "Running" <=> pc = "body" /\ body = t
  /\ pc = "body" => body \in Tasks
  /\ pc # "body" => held = {}
  /\ pc \in {"pop", "body"} => budget # 0
  /\ began = {t \in Tasks : graph.state[t] \in {"Running", "Done"}}
  /\ \A t \in Tasks : graph.state[t] = "Absent" => after[t] = {}

\* Once run_for has seen the flag, or run a body past it, no later slice gets
\* as far as pop.
FlagStops ==
  /\ \A t \in Tasks : graph.state[t] = "Cancelled" =>
                      flag /\ budget # Unlimited /\ pc \in {"host", "check"}
  /\ late # 0 => late = 1 /\ flag /\ budget # Unlimited /\ pc # "pop"

\* The inductive invariant of the loop: the graph's accounting holds between
\* any two steps, and what a call reports is true.
SerialInv == /\ TypeOK
             /\ GraphInv(graph, held)
             /\ EdgesExact
             /\ LoopExact
             /\ FlagStops
             /\ DoneLeavesNothing

\* "Checked when a task starts" (lib.rs:130): the flag stops every body but
\* one, that whose check came just before; over all later slices too.
OneLateBody == late <= 1

\* The executor implements OrderedRun: `after`, once, and in order.
Ordered == INSTANCE OrderedRun WITH begun <- began,
                                    ended <- {t \in Tasks : graph.state[t] = "Done"}

ImplementsOrderedRun == Ordered!Spec

\* Every call returns: the tasks a run can add are finite, and each pop takes
\* one of them for good.
CallsReturn == pc # "host" ~> pc = "host"
=============================================================================
