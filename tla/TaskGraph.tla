------------------------------ MODULE TaskGraph ------------------------------
(***************************************************************************)
(* The task graph of crates/hd_sched/src/lib.rs (TaskNode and TaskGraph):  *)
(* one operator per method, from a graph to the graph the method leaves.   *)
(* The executors (PoolExecutor, SerialExecutor) apply them in actions.   *)
(*                                                                         *)
(* Two containers are bags here, because no executor's result depends on   *)
(* their order: `successors` (a Vec) is the number of times each task      *)
(* stands in it, and the `ready` queue is the number of entries each task  *)
(* has in it.  A second entry of one task stays visible, which a set would *)
(* hide.  Kinds and priorities are left out: a kind is a payload, and the  *)
(* driver gives every task priority 0.                                     *)
(***************************************************************************)
EXTENDS Integers, FiniteSets

CONSTANT Tasks      \* the TaskIds a run can allocate

ASSUME TasksFinite == IsFiniteSet(Tasks)

\* "Absent" is a TaskId not allocated yet; the others are enum State.
States == {"Absent", "Waiting", "Ready", "Running", "Done", "Cancelled"}

NoEdges == [t \in Tasks |-> 0]

Graphs == [state      : [Tasks -> States],
           waiting_on : [Tasks -> Nat],
           successors : [Tasks -> [Tasks -> Nat]],
           ready      : [Tasks -> Nat]]

\* TaskGraph::default().
EmptyGraph == [state      |-> [t \in Tasks |-> "Absent"],
               waiting_on |-> [t \in Tasks |-> 0],
               successors |-> [t \in Tasks |-> NoEdges],
               ready      |-> [t \in Tasks |-> 0]]

Created(g)     == {t \in Tasks : g.state[t] # "Absent"}
Finished(g, t) == g.state[t] \in {"Done", "Cancelled"}

\* TaskGraph::unfinished: what a run reports as never having become ready.
Unfinished(g) == {t \in Created(g) : ~ Finished(g, t)}

-----------------------------------------------------------------------------
\* Variant of CountDown: any arrival readies the task.
CountDownEager(g, less) ==
  LET readied == {t \in Tasks : less[t] > 0 /\ g.state[t] = "Waiting"}
  IN [state      |-> [t \in Tasks |-> IF t \in readied THEN "Ready" ELSE g.state[t]],
      waiting_on |-> [t \in Tasks |-> g.waiting_on[t] - less[t]],
      successors |-> g.successors,
      ready      |-> [t \in Tasks |-> IF t \in readied THEN g.ready[t] + 1
                                                       ELSE g.ready[t]]]

(***************************************************************************)
(* A decrement of `waiting_on` by less[t] for every task t, one unit at a  *)
(* time: the unit that reaches 0 readies the task, if it is Waiting.       *)
(***************************************************************************)
CountDown(g, less) ==
  LET count   == [t \in Tasks |-> g.waiting_on[t] - less[t]]
      readied == {t \in Tasks : /\ less[t] > 0
                                /\ count[t] = 0
                                /\ g.state[t] = "Waiting"}
  IN [state      |-> [t \in Tasks |-> IF t \in readied THEN "Ready" ELSE g.state[t]],
      waiting_on |-> count,
      successors |-> g.successors,
      ready      |-> [t \in Tasks |-> IF t \in readied THEN g.ready[t] + 1
                                                       ELSE g.ready[t]]]

\* Variants of add_held: without the guard, and not held at all.
AddHeldUnguarded(g, id, deps) ==
  LET open == {d \in deps : ~ Finished(g, d)}
  IN [state      |-> [g.state EXCEPT ![id] = "Waiting"],
      waiting_on |-> [g.waiting_on EXCEPT ![id] = Cardinality(open)],
      successors |-> [f \in Tasks |-> IF f \in open
                                      THEN [g.successors[f] EXCEPT ![id] = @ + 1]
                                      ELSE g.successors[f]],
      ready      |-> g.ready]

AddHeldReleased(g, id, deps) ==
  LET open == {d \in deps : ~ Finished(g, d)}
  IN CountDown([state      |-> [g.state EXCEPT ![id] = "Waiting"],
                waiting_on |-> [g.waiting_on EXCEPT ![id] = 1 + Cardinality(open)],
                successors |-> [f \in Tasks |-> IF f \in open
                                                THEN [g.successors[f] EXCEPT ![id] = @ + 1]
                                                ELSE g.successors[f]],
                ready      |-> g.ready],
               [NoEdges EXCEPT ![id] = 1])

(***************************************************************************)
(* add_held: a new task, its creation guard (the 1) and one edge from each *)
(* dependency that is not finished.                                        *)
(***************************************************************************)
AddHeld(g, id, deps) ==
  LET open == {d \in deps : ~ Finished(g, d)}
  IN [state      |-> [g.state EXCEPT ![id] = "Waiting"],
      waiting_on |-> [g.waiting_on EXCEPT ![id] = 1 + Cardinality(open)],
      successors |-> [f \in Tasks |-> IF f \in open
                                      THEN [g.successors[f] EXCEPT ![id] = @ + 1]
                                      ELSE g.successors[f]],
      ready      |-> g.ready]

\* Variant of release: the count drops, the task is never queued.
ReleaseSilent(g, id) == [g EXCEPT !.waiting_on[id] = @ - 1]

\* release: drops the creation guard.
Release(g, id) == CountDown(g, [NoEdges EXCEPT ![id] = 1])

\* add and add_with_priority: no step of another task comes between the two.
Add(g, id, deps) == Release(AddHeld(g, id, deps), id)

\* What edge asserts of its target.
MayTakeEdge(g, to) == g.state[to] \in {"Waiting", "Ready"}

\* Variants of edge: a ready target stays queued; a finished source counts.
EdgeKeepsQueued(g, from, to) ==
  IF Finished(g, from) THEN g
  ELSE [g EXCEPT !.waiting_on[to] = @ + 1,
                 !.successors[from][to] = @ + 1]

EdgeFromFinished(g, from, to) ==
  [state      |-> [g.state EXCEPT ![to] = "Waiting"],
   waiting_on |-> [g.waiting_on EXCEPT ![to] = @ + 1],
   successors |-> [g.successors EXCEPT ![from][to] = @ + 1],
   ready      |-> [g.ready EXCEPT ![to] = 0]]

(***************************************************************************)
(* edge, after its assertion: nothing when `from` is finished; else a      *)
(* target that was ready leaves the queue and waits again.                 *)
(***************************************************************************)
Edge(g, from, to) ==
  IF Finished(g, from) THEN g
  ELSE [state      |-> [g.state EXCEPT ![to] = "Waiting"],
        waiting_on |-> [g.waiting_on EXCEPT ![to] = @ + 1],
        successors |-> [g.successors EXCEPT ![from][to] = @ + 1],
        ready      |-> IF g.state[to] = "Ready" THEN [g.ready EXCEPT ![to] = 0]
                                                ELSE g.ready]

\* Variant of pop: the entry stays in the queue.
PopPeeks(g, id) == [g EXCEPT !.state[id] = "Running"]

\* pop: one entry of `id` leaves the queue; the order picks which task it is.
Pop(g, id) == [g EXCEPT !.state[id] = "Running",
                        !.ready[id] = @ - 1]

\* Variant of complete: a successor listed twice is counted down once.
CompleteOnce(g, id) ==
  CountDown([g EXCEPT !.state[id]      = "Done",
                      !.successors[id] = NoEdges],
            [t \in Tasks |-> IF g.successors[id][t] > 0 THEN 1 ELSE 0])

\* complete: takes the successors and counts each of them down.
Complete(g, id) ==
  CountDown([g EXCEPT !.state[id]      = "Done",
                      !.successors[id] = NoEdges],
            g.successors[id])

\* cancel_all: every task that is not Done, and the queue.
CancelAll(g) ==
  [g EXCEPT !.state = [t \in Tasks |-> IF g.state[t] \in {"Absent", "Done"}
                                       THEN g.state[t] ELSE "Cancelled"],
            !.ready = [t \in Tasks |-> 0]]

\* pool.rs drain: pops until the queue is empty; the caller spawns g.ready.
Drain(g) == [g EXCEPT !.state = [t \in Tasks |-> IF g.ready[t] > 0 THEN "Running"
                                                                   ELSE g.state[t]],
                      !.ready = [t \in Tasks |-> 0]]

-----------------------------------------------------------------------------
(***************************************************************************)
(* What the methods keep, of a graph g whose creation guards still up are  *)
(* those of the tasks in `held`.                                           *)
(***************************************************************************)

\* The pending edges into t, one member per unit of a successor count.
Into(g, t) == UNION {{<<f, k>> : k \in 1 .. g.successors[f][t]} : f \in Tasks}

Guard(held, t) == IF t \in held THEN 1 ELSE 0

\* waiting_on is the creation guard plus the pending edges, no more, no less.
CountsExact(g, held) ==
  \A t \in Tasks : g.waiting_on[t] = Guard(held, t) + Cardinality(Into(g, t))

\* A task waits exactly while its count is above 0: no start is early or lost.
StatesFollowCounts(g) ==
  \A t \in Tasks : /\ g.state[t] \in {"Ready", "Running", "Done"} => g.waiting_on[t] = 0
                   /\ g.state[t] = "Waiting" => g.waiting_on[t] > 0

\* The queue holds each ready task once, and no other task.
QueueExact(g) ==
  \A t \in Tasks : g.ready[t] = IF g.state[t] = "Ready" THEN 1 ELSE 0

\* A Done task keeps no successors; a TaskId not allocated is in no edge.
NoStrayEdges(g, held) ==
  /\ \A f \in Tasks : g.state[f] \in {"Absent", "Done"} => g.successors[f] = NoEdges
  /\ \A t \in Tasks : g.state[t] = "Absent" =>
        t \notin held /\ \A f \in Tasks : g.successors[f][t] = 0

GraphInv(g, held) ==
  /\ CountsExact(g, held)
  /\ StatesFollowCounts(g)
  /\ QueueExact(g)
  /\ NoStrayEdges(g, held)
=============================================================================
