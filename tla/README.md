# hd-lang: TLA+ models of its concurrent and stateful parts

The repository is the hd language: a compiler in Rust, a runtime for the
WebAssembly programs it makes, a host that runs them, and a server SDK in
TypeScript. Most of it is sequential text-to-code work. This project models the
parts whose difficulty is order: threads over a shared task graph, a cycle
collector among reference counts, processes over one disk cache, a supervisor
over worker threads and the requests inside one of them, the loop that runs a
program against the operations of its host, and the tasks inside a program. Each model is written from the source; the
`map` of PROJECT.json names the lines every definition stands for.

## 1. Inventory

| Component | Where | State it keeps | Operations | What is hard | What makes it correct | Modelled in |
|---|---|---|---|---|---|---|
| Task graph and executors | `crates/hd_sched` | tasks with states, counts of unfinished dependencies, successor lists, ready queues | add, add_held, edge, release, pop, complete, cancel_all; the rayon pool, the serial and the stepping loop | workers drain the ready queue while bodies add tasks and edges; panics; cancellation between slices | a body runs once, after all it depends on; no ready task is lost; the graph ends with nothing pending | TaskGraph, PoolExecutor, SerialExecutor, OrderedRun |
| Cycle collector | `lib/std/rt/cycle.hd` | a count and a colour in each block, the candidate buffer with its counters, a work list, a threshold | suspect, keep, take_box, due, and the sweep and three walks of collect | counts taken off and given back in any walk order; candidates whose last reference goes; stale slots of running frames; weak entries; rooms that outlive their holder | what is reachable stays, what is not is freed, no count is left wrong | CycleCollector, ManagedHeap |
| Packed disk cache | `crates/hd_cache/src/disk.rs` | an index file, pack files, a publication lock, a lock per pack; in memory a snapshot, handles, marks | publish, get, touch, maintain (evict, compact, prune) | several processes, death between any two file operations, failures, stale snapshots | batches appear whole, only a collection over its cap forgets, a reader gets whole frames or misses, garbage goes | PackStore, CacheMap |
| Worker supervision | `packages/server-sdk/adapters/supervisor.ts`, `worker.ts` | a slot for each worker, its active request, timers, the stages of a stop | start, dispatch, cancel, complete, fail, respawn, stop, close | messages that cross an exit, timers that race answers, restarts, a stop in the middle of everything | each request is told one outcome, runs at most once, nothing runs after the end | Supervisor, RequestPool |
| Request dispatch in a worker | `packages/server-sdk/adapters/dispatcher.ts`, `application.ts`, `fetch.ts`, `src/server.hd` | jobs with deadlines and cleanup timers, leases, an incoming queue, owners with native operations, the guest's worker loops | fetch, accept, respond, poison, cancel, stop | an abort that puts a request back, wake-ups between a drain and a park, two timers against the guest's answer | a request is neither lost nor accepted twice, native operations end with their owner, every fetch is answered | ServerApp |
| Host reactor and run loop | `crates/hd_run_wasmtime/src/runtime`, `instance.rs`, `cancel.rs`, `session.rs` | operations, timers, deliveries of other threads, the reads of standard input, a stop flag | start, abort, close, deliver, due, wait, stop request | lost wake-ups, late results of aborted operations, input kept across an abort, a count beside the operations | every delivery and request wakes the loop, an item reaches the program or its next read, a deadlock is real | HostRun |
| Task runtime | `crates/hd_wasm_linear/src/task.rs`, `lib/std/task.hd` | frame flags, the wake table, wait cells, channel queues | poll, cancel, abandon, race, all, timeout, map_join, channel | cancellation that suspends, abandonment, ties, deadlines | a cleanup ends by its deadline, no waiter sleeps past its wake | TimedChannel (channels, races and bounds) |
| Weak table and allocator | `lib/std/rt/weak.hd`, `lib/std/rt/alloc.hd` | 64 linked lists in counted entries; size classes, page table, freed lists | bind, lookup, forget, clear; alloc, free, reclaim | an address reused while a row names it; the table freed with its last row | a lookup never answers for a dead tenant; free memory is found again | planned |
| Journal and replay | `crates/hd_run/src/journal.rs`, `replay.rs` | rows of one run | append, read, replay | a torn tail, a cap | a valid prefix is what was written | planned |
| Dependency selection | `crates/hd_deps/src/select.rs` | a graph of manifests | select_graph | errors in the middle of a walk | the least versions that meet every requirement | planned |
| Compiler driver | `crates/hd_driver` | the script of bodies that builds the task graph | run, folder_graph | edges into tasks that may have started | no edge comes too late, every held task is released | planned; its contract is in PoolExecutor |
| Compiler passes, formatter, linter, CLI, project loading, website, editors, benchmarks | the other directories | inputs and outputs | pure functions and file handling | size, not order | the conformance corpus | not modelled |

How they meet: the driver hands bodies to the executors and publishes what they
computed to the cache at the end of a command; a compiled program links the
collector, the allocator and the task runtime, and calls the host reactor; the
server SDK runs such programs in worker threads, each with one fetch adapter,
application and dispatcher, under one supervisor.

## 2. Modules

`A -> B` reads "A extends B", `A => B` "A is shown to implement B".

    PoolExecutor -> TaskGraph     PoolExecutor => OrderedRun     MCPool -> PoolExecutor
    SerialExecutor -> TaskGraph   SerialExecutor => OrderedRun   MCSerial -> SerialExecutor
    TaskGraphProofs -> TaskGraph  PoolProofs -> PoolExecutor, TaskGraphProofs
    SerialProofs -> SerialExecutor, TaskGraphProofs
    CycleCollector => ManagedHeap  MCCollector -> CycleCollector  CollectorProofs -> CycleCollector
    PackStore => CacheMap          MCPackStore -> PackStore
    Supervisor => RequestPool      MCSupervisor -> Supervisor     SupervisorProofs -> Supervisor
    MCServerApp -> ServerApp       MCHostRun -> HostRun           MCTimedChannel -> TimedChannel
    PackStoreProofs -> PackStore   ServerAppProofs -> ServerApp
    RuntimeProofs -> HostRun, TimedChannel

Definitions marked `\* variant` are not part of a model: each is a plausible
mistake in the definition below it, and some property of some run fails when it
takes that definition's place. They keep the properties honest.

### 2.1 TaskGraph, PoolExecutor, SerialExecutor

`TaskGraph` is `TaskGraph` of `hd_sched/src/lib.rs`: a graph is a record of the
fields of the struct, and each method an operator from a graph to a graph.
Priorities and task kinds are data the order of which nothing depends on (the
driver gives every task the same priority); `pop` may take any ready task.

`PoolExecutor` is `run_pool`. The graph is behind one mutex, so one action is one
critical section: a running body adds a task, an edge or a held task, releases
one, returns, or panics, and what became ready is drained and spawned into rayon
in the same section; `Take` is rayon beginning a closure. A body may do what the
`Spawn` trait allows, within the rule that `pool.rs` states and the driver keeps
(`MayRoute`): an edge goes into a task that the body itself holds, or one that
still waits for the body. This is somewhat narrower than the rule: a target that
is kept back only through other tasks, or that another body holds, is left out.

`SerialExecutor` is `SteppingScheduler::run_for` and `SerialScheduler::run`: slices
of some number of tasks or without a limit (which never reads the flag), a host
that adds tasks between them, and a cancel flag that any thread may set. The test
of the flag, the pop and the body are separate steps.

`OrderedRun` is what both promise: a body runs at most once, after all it was
declared to wait for, and once it runs nothing more can be put before it.

### 2.2 CycleCollector

The heap is a graph of blocks with counts, colours and the bit that a block is in
the candidate buffer. The runtime has one thread, and neither a release nor a
collection runs the program's code, so the program's actions (new, store, load,
drop, clear, take_box, weak references, frames that begin and end to run) wait
until both are over; the steps of a release and of a collection are actions of
their own, because the work list of a walk is a set of which any entry may come
next. A collection begins at a poll that answered, or at an allocation that
finds one due. What the model takes from its surroundings:

- whoever polls a running frame holds it, so it keeps a local reference;
- the saved slots of a running frame may be seen by a trace as they are, or as
  none;
- array growth is not modelled: whether the buffer is full when a block is
  suspected is a choice, and with it the compaction of the buffer;
- `MayHold`, which references the program may make, is the type analysis of
  `hd_wasm_linear/src/cycle.rs`: no cycle through a block that takes no part;
- the threshold is a number below `Word`, as `usize` arithmetic wraps.

`ManagedHeap` is what the program sees: any step may lose objects, never one that
is reachable after it, and a weak reference to a lost object is cleared in the
same step.

### 2.3 PackStore

One process is one `Store` (DiskStore of one command) on a shared root. The
publication lock, the name of each pack (`.pending`, `.pack`, removed), the file
lock on it and the index are the shared state; the snapshot, the open handles and
the marks are the process's own. A step is what another process can see: the
publication lock taken, a frame written, a file lock released with the rename
it covers, the temporary index, its rename, one name looked at while pruning.
Reads happen at any time, in the middle of the same process's publish too.

- A frame stands for the bytes of an entry and is named by its key and the place
  it was first written at, so that a wrong offset shows. All have one length.
- `Crash` is a process that dies at work, or ends and starts anew: the system
  drops its locks, no destructor runs. `Fail` is an error of any file operation
  (the error paths of publish and compact differ in which lock goes first), and
  turns later puts off. `Damage` is a pack cut short or removed or an index that
  does not decode, done by something else; not while a writer holds the good
  copy in memory and would put it back.
- A deadline is a choice once it may have passed: a bounded collection may stop
  whenever the code tests the clock, and need not.
- The private native-code entries outside `pack-v1` are not modelled: `Caps` is
  what they may leave of the cap, another amount at each collection.
- Unlocking and removing a failed lease are two steps, because a collector may
  come between. Removal of a file that is locked open (Windows) is not modelled.

`CacheMap` is a map in which a batch appears in one step, which only a
collection that found more than the cap may shrink, and whose readers answer
from the map or miss. The refinement maps `store` to what a process that just
started would read from the files, so a pack removed too early, or a wrong
offset, is a step the map cannot make.

### 2.4 Supervisor

`Supervisor` is the event loop of `supervisor.ts` (an API call, a timer, a
message, the end of a `terminate()` are one action each) and the worker threads
of `worker.ts`, with a queue of messages each way. Time is abstract: a timer that
is set may fire at any moment, one that was cleared does not; that the 200 ms of
cleanup end before the stop timer is therefore not assumed. A request goes to
any free slot (the code takes the first). A worker's `failed` message stands for
`failed`, `error` and `exit`, of which the code acts on the first; messages
posted while a worker is terminated may still arrive, none arrives after its
exit. Restarts that fall out of the restart window are a choice (`Recent`). The
embedder's observers do not call back into the supervisor.

`RequestPool` is the promise to the platform: one outcome per request, at most
one run of an admitted and none of a refused request, an answer only to a request
that ran, and after the announced end no open request and no guest code.

### 2.5 ServerApp

One retained program with its adapters, all on one JavaScript event loop. A turn
of the guest runs until nothing wakes; the continuations of promises run before
the next event; events come from the platform and from timers (`Loop`, then
`Platform` and `Timers` when `Idle`). What is abstract:

- Continuations that are ready run in any order, which includes the order of the
  microtask queue; the end of an owner's `run` and the continuation of `fetch`
  behind it are one step.
- A handler has at most one native operation for its work and one for its
  cleanup, each of which may settle at any time or never.
- Once the program is poisoned or has ended no turn is taken. In the code the
  `stop()` of a poisoned application still enters `drive()` on the closed host;
  an error that it throws there is dropped, because a poison acts once.
- The model begins after `start()`; the limit of a thousand turns in a row is
  left out. Header and body conversion is data.
- `Healthy` says of the guest that it does not fail and acknowledges a
  cancellation in time whenever it knows of one; it is what the documentation's
  promise assumes, and only the run of the finding sets it.

### 2.6 HostRun

One run on the wasmtime host: the loop of `drive` and `step` around the
program's turns, the reactor's operations and inbox, the tasks and the reader
thread that deliver into it, and the thread that asks the run to stop. The
program is the environment: in its turn it starts, finishes and aborts what it
likes, and closes the socket. `session` is chosen at the start: an input of a
REPL session, whose stopper sets the flag and wakes the loop, or a run with a
cancellable host, which drives the program's own cleanup under a bound. The test
of the flag, the lock, the tests under it, and the sleep are steps of their own.
An operation of the code's `ready` list is one whose state is "taken". Left out:
`read_all`, limits of wall time, replay, fixtures, spurious wake-ups (which only
add tests), the order inside one batch of deliveries, the limit `max_polls` of
`drive`, and a wait inside a host call that blocks the program's thread. What went
back to the socket is a set, which the next read takes whole: the order in which
`unread` puts bytes back, and a read with room for only some of them, are not
modelled. A finished result counts as given to the program even if its turn traps
afterwards.

### 2.7 TimedChannel

Tasks that send and receive on one channel, each receive under `timeout!` with
or without a bound on its cleanup: wait cells, whose signal wakes every waiter,
a race that polls its children in list order, a cancelled child that unwinds
over several polls, and the deadline after which it is abandoned. Timers count
down and stop, as deadlines are only compared with the clock. A cleanup waits
for one host operation, which may never complete. A task may lose its turn
between any two calls of the channel, though the code gives it up only at an
await. An outer bound that abandons a timeout with its own bound is left out.

## 3. Runs

Every passing run checks the complete state graph of its instance.

| Run | Instance | Asks |
|---|---|---|
| `pool` | 3 tasks, doubled edges, fair workers | starts, edges and held tasks under the pool, lost wakeups, what a run leaves, `OrderedRun`; a task whose dependencies are done runs to its end, whatever panics |
| `stepping` | 3 tasks, slices of 0 to 2 tasks or one without a limit, a cancel flag at any moment | the graph's accounting, what `Done` leaves, how late a cancellation may be, that every call returns, `OrderedRun` |
| `collector` | 3 blocks: a frame and an object that take part, one that does not; a room, a weak reference; fair walks and polls | counts under stale slots, buffer, reachability, rooms, leaks, `ManagedHeap`; garbage is freed |
| `pack_store` | 2 processes, 2 keys, 2 packs, one fault (a process whose operations fail, or one damage), caps of one entry and of two | what every step of an operation has, what snapshots lead to, what a writer gathers and what a collection works towards (`CacheInv`), rows that lead to whole frames (`IndexedIsComplete`), leases, sweeps that pass over no orphan, crashes anywhere, error paths, eviction, `CacheMap` (lost updates among it) |
| `pack_live` | 1 key, 1 pack, 3 seconds, every deadline may have passed | marks of last use; garbage goes even so |
| `supervisor` | 1 slot, 2 requests, 3 generations | cancels, answers, restarts and stops that cross, `RequestPool`; every request is told, a stop ends, none is started after it began |
| `supervisor_stop` | violated | section 5 |
| `server_app` | 2 requests, 2 worker loops, an accept that is aborted | `ServerInv`: leases in one place, wake-ups of owners, the stages of a request in the three adapters; native operations; every fetch is answered, a stop reaches the program |
| `server_queue` | violated | section 5 |
| `host_run` | 2 operations, 2 items, 2 lines, 2 stop requests, 2 inputs | `ReactorInv`: the count of open operations, the reads that wait, the deliveries, the wake table; each item in one place, wake-ups, deadlocks; a stop request ends the run |
| `host_input` | violated | section 5 |
| `timed_channel` | 2 senders, 3 receivers, 1 item | wakes of the channel, cleanup deadlines; everyone ends |

### Why the bounds are enough to see the interesting cases

- Three tasks give a task added while another runs, a successor with two
  dependencies that complete in either order, and an edge into a task that
  another worker may drain meanwhile; `MaxCopies = 2` gives doubled edges.
- Two of three blocks make the smallest cycle; the third hangs from it, holds
  it, or is one of the references that wait for the end of a collection, and two
  blocks that refer to one make a count that goes off and back by more than one.
  `Word = 4` lets the threshold wrap.
- Two processes suffice for every race on the publication lock (a third would be
  another of the two roles), two packs for two publications, or a publication
  and the compaction of what it left, or one that replaces a key while a
  collector copies the pack it was in. The batch `<<1, 2, 1>>` has a dead frame
  from the start, so that compaction moves frames to other offsets; of the two
  caps one evicts and one does not. Three seconds are the least in which a newer
  mark can be followed by an older one. `MaxFaults` counts the damages and the
  processes that had a failure since they started: with one, a process fails as
  often as it likes beside one that does not, and the theorems of section 4 hold
  for any number of both.
- What the runs of the cache do not meet is a collection that stops between the
  compactions of two packs: it needs two new packs beside the two old ones, which
  two processes cannot have in the time of a run, so `pack_store` compacts one
  pack at a time. That the index is then complete, and the cache the same map, is
  what the theorems of section 4 say, for any number of packs; the `todo` of a
  collection and the deadline in `SweepsInv` are there for this case.
- One slot and two requests give a refusal beside an admission and a request
  that crosses the result of the one before; three generations give a restart
  that is counted, one that left the window, the exhaustion of the limit, and a
  stop that meets a termination in progress. What concerns several slots is
  proved (section 4).
- Two requests and two worker loops give an accept that is aborted while another
  takes, an operation of one request settled in the turn of the other, a stop
  that waits for the second of two. With one worker loop a request waits behind
  another: the instance of `server_queue`.
- Two operations give a late result beside a wait, and every pair of kinds: two
  reads of input, a read and a timer. Two inputs give a stop request that
  outlives its input. A third operation would exceed the time of a run.
- Two senders on one place give a full queue and a close beside a wait; of three
  receivers one is bounded, one bounded and cancelled from outside, one
  cancelled and unbounded.

### Fairness

- Pool: weak fairness of the host's call, of each spawned closure's begin and
  end, and of the close of the scope: rayon runs what it was given, and a body
  returns (its work is bounded). No body is assumed to add anything, nor to
  release what it holds.
- Serial: weak fairness of the loop's own steps, of a body's return and of the
  releases it owes; nothing of the host or the flag.
- Collector: weak fairness of the loops of a release and a collection, strong
  fairness of a poll that answers, which always collects: the host polls again
  and again.
- Cache: weak fairness of what a process began, strong fairness of the bounded
  collection with which commands end (`Drop for DiskStore`): the lock is free
  again and again, and file locks are granted to those who wait. The property
  asks for nothing while processes keep dying at work.
- Supervisor: weak fairness of the supervisor's event loop, of timers that are
  set and of `terminate()`. None of the workers or the platform: a worker may
  hang for ever, and the properties hold nevertheless.
- ServerApp: weak fairness of the event loop, of each deadline and of each
  cleanup timer. Nothing of the platform, of native operations, or of the guest
  but that a turn ends.
- HostRun: weak fairness of the loop (a turn of the program ends), of the thread
  that set the flag and has yet to wake the loop, and of time. Nothing of the
  peer, the input or the tasks: the run ends though no operation ever does.
- TimedChannel: weak fairness of each task's polls and of the clock. Nothing of
  the host operations that cleanups wait for, nor of cancels from outside.

`server_app`, `host_run` and `timed_channel` do not check deadlock: a run that
ended, tasks that ended, and requests that are used up (a bound) stop.

## 4. Proofs

`TaskGraphProofs` has one lemma per operator of the graph (what `AddHeld`,
`Edge`, `Release`, `Pop`, `Complete`, `CancelAll`, `Drain` do to the invariant),
`PoolProofs` the theorems of the pool, for every finite set of tasks and every script of the bodies:

| Theorem | Says |
|---|---|
| `PoolInvariance` | types and `PoolInv`, the invariant of graph and closures |
| `NeverIntoStarted` | the target of an edge has not started: `TargetNotStarted` |
| `NoLostWakeup` | a pending task that nothing holds waits for a task that will count it down: `WaitsForSomething` |
| `LeavesNothing` | a pool that returned left no unfinished task but those under a cycle, a hold or a panic: `NothingLeft` |
| `PoolImplementsOrderedRun` | every step of the pool is a step of `OrderedRun` or a stutter |

The argument: `WaitsForSomething` is not inductive. What is inductive says of
each task that its count of unfinished dependencies is the number of edges that
unfinished tasks still have into it (with multiplicity, since an edge may be
doubled), plus one for a hold; that a task is in the ready queue or among the
closures exactly when its count reached zero and it has not begun; and that
between critical sections the ready queue is empty, since whoever makes a task
ready drains it before it unlocks. The pending edges into a
task are a finite set of pairs of a source and a copy number, so that a count is
a cardinality and each operator adds or takes a known number of pairs. The
assumptions are the ones of the modules on their constants.

`SerialProofs` has, over the same lemmas, the theorems of the one-threaded
executors, for every finite set of tasks, every set of slice lengths, every order
of `pop` and every moment of a cancel:

| Theorem | Says |
|---|---|
| `SerialInvariance` | types, the graph's accounting, and that `Done` means nothing is left but a cycle: `SerialInv` |
| `AtMostOneLate` | a cancel is late for one body at most, over all later slices: `OneLateBody` |
| `SerialImplementsOrderedRun` | every step is a step of `OrderedRun` or a stutter |

`SerialInv` is inductive as it stands, since it carries the graph's accounting,
what the loop holds between its steps (`LoopExact`: one body at a time, a body has
a step of the budget left, guards are up only during a body) and `FlagStops`:
cancelled tasks, and a body that was late, exist only once the flag is set and
the loop has not passed its check again. The last part is what the other two
theorems rest on. The count of late bodies is 0 at every pop, so `Begin` makes it
at most 1; and at a pop nothing is cancelled, so that a task whose dependency was
cancelled, which the graph would let start, is never reached.

`SupervisorProofs` has the theorems of the supervisor, for every finite set of
slots, every number of requests and every restart limit:

| Theorem | Says |
|---|---|
| `JoinedCompletion` | when the promise of `stop()` or `close()` is resolved, no worker thread is left: `CompletionJoins` |
| `NoneStartedLate` | once a stop, a close or a failure began, no slot gets a new worker: `StopIsFinal` |
| `SlotsAndPortsAgree` | types, open requests against slots, one request per worker, cancellations under way: `SupervisorInv` |
| `ImplementsPool` | every step of the supervisor is a step of `RequestPool` or a stutter |

The inductive invariant `IndInv` has five parts. `Typed` says which records the
code makes (a slot without a worker has nothing else). `Joins` says that a thread
that is there has a slot with a worker or a termination, and that an announced
end leaves neither; with it goes the lemma `OnlyTerminated`, that nothing but the
end of a `terminate()` changes whether a slot has a thread. `Opens` says that a
request is open exactly while one slot has its job. `Ports` is why a healthy
worker is never killed by its own guard: of a request in its port, a request
that runs and a result in its outbox there is at most one in a slot; each makes a
slot that has a worker have a job; every stop is behind every request; and
behind a request that was cancelled there is its cancellation. None of this
holds of what is at the head of a port alone, which is all that
`OneRequestPerWorker` looks at. `Handed` says that no request is in two ports
and that those in a port have not run, from which "at most one run" follows. The
refinement takes each step to `Refuse`, `Admit`, `Run`, `Answer`, `Lose` or
`End`; the case that needs an argument is a `close()` that both retires and
announces, which cannot be, since a slot that was just retired is not joined
yet. The assumption is `Policy`, on the constants.

`PackStoreProofs` has the theorems of the packed cache, for every finite set of
processes and keys, every set of batches, every number of packs, handles and
caps, and every sequence of failures, crashes and damage:

| Theorem | Says |
|---|---|
| `KeepsCacheInv` | types, what an operation has at each of its steps, what a snapshot leads to, what a writer gathered, what a row finds, and what a collection works towards: `CacheInv` |
| `KeepsIndexedIsComplete` | a row of an undamaged index names a finished, unlocked pack with a frame of its key |
| `KeepsLiveLeaseStays` | no collector and no failure takes a pack from the process that writes it or has yet to index it |
| `KeepsMarksGrow` | a mark of last use never goes back while its entry is the same frame |
| `KeepsNoOrphanIsPassedOver` | a collection leaves no orphan behind it: the first half of `CollectionsSweep` |
| `KeepsCollectionsSweep` | a collection without a deadline that ends well went through every file and left what fits its cap: `CollectionsSweep` |
| `ImplementsMap` | every step of the store is a step of `CacheMap` or a stutter: `ImplementsCacheMap` |

The four after `KeepsCacheInv` in this table need only one part of it, `StoreInv`, which is
inductive alone (`KeepsStoreInv`). `IndexedIsComplete` is not inductive: the index is
replaced by entries that a process gathered many steps before. So `WholeInv` says the
same of the entries of whoever holds the publication lock; `BatchesInv` that a publication's new pack
holds its batch in order, so that the rows made from it are right; `LeasesInv`
that nobody else has a location in a pack that is not indexed yet and that a file
lock is that of a pack being written; `MadeInv` that no row names a pack whose ID
is still to be given out, since the next one to take it would find rows that lead
into its frames; and `JobsInv` who has the publication lock at which step.
`MarksGrow` needs `IndexInv`, that the entries of the lock's holder carry the
index's marks or later ones; `NoOrphanIsPassedOver` needs that the names to look at
are only added to under the lock.

For the refinement two more parts of `CacheInv` are needed. `SnapshotsInv` says that a snapshot
leads to `Settled` packs only, which nobody is making: of such a pack a step may
take the name or the last frame and nothing else (`SettledShrinks`), so an answer
from a snapshot, however old, stays the frame it was or becomes a miss
(`ViewSteps`). A process without a snapshot answers from the index.
`GatheredInv` says what the holder of the publication lock will save: a
publication has the rows of the index and its whole batch; a collection has rows
of the index, or copies of the frames they lead to, and all that lead to one
unless it found more than its cap. `JobSteps` sorts the steps by what they do to
the work of a process, and `StepMaps` gives each its step of the map: the lease
of a publication is `Ask`, since a fresh ID is in no row; the save of its index is
`Publish`, of the whole batch, where of two frames for one key the last counts
(`LastCounts`); a failure or death before that is `GiveUp`. A collection
over its cap is `Collect`, its saves are `Forget`, its end is `Collected`; within
its cap each of its saves leaves the map as it is, compaction included
(`CollectionTakes`). Damage is `Lose`. Everything else is `Read`, pruning
too: it removes no pack that the index names (`StoreStays`).

That what a collection leaves fits its cap compares the cap with a sum over packs.
The sums of the community modules are recursive functions; their laws (`SumStep`,
`SumOut`, `SumGrows`, `SumOfParts`) are proved here for finite sets from the least set
of those that would not obey them (`LeastSet`). The argument for the cap is
`SweepsInv`. When a collection starts, either its packs fit the cap already, or every
pack with a frame that no row leads to is one it will copy; compacting a pack makes
one that holds the frames of its rows alone, and takes no more room than the old one
did (`CompactSweeps`); nothing else lets a pack of its rows grow (`RowsShrink`), and
damage only shrinks one. So at the end either the sum is the one that fitted, or it
is at most the size of the rows, which fit since they were chosen (`KeptFits`). That a
copy is no longer than its pack needs `FramesInv`, that also in a damaged cache a row
that finds something finds a frame of its own key: then two rows never share a
frame, and a pack has as many frames as rows lead to it (`RowsFit`). The assumptions
are `Sizes`, `CorruptIsNoTable` and `MarksAreNoData` (a file that does not decode
is not a table, nor is a snapshot that was not read; a miss is not a frame).

`ServerAppProofs` has the theorems of the dispatch of requests, for every set of
requests and of worker loops, every limit, and a guest that fails or not:

| Theorem | Says |
|---|---|
| `KeepsServerInv` | types, worker loops, leases, owners and the stages of a request: `ServerInv` |
| `KeepsNativeReleased` | no native operation outlives the coroutine that started it: `NativeIsReleased` |

`LeasesHaveOnePlace` (a lease the guest may name is in the queue once or with one
worker loop, and not finished) is what the guest relies on. It is inductive only
together with `WorkersInv`, which says whose lease each loop has at each of its
steps, and with `RequestsInv`, which ties the stages of a request in the three
adapters together: a request that the fetch adapter holds as a lease is one the
application names; an owner exists for those stages alone. `OwnersInv` is about
the wake-ups: an owner that is parked has no task and no end before it, and
whoever gave it one unparked it; and for each native operation that still lives
after the owner was told to end, there is a task to close it. `NativeIsReleased`
follows from it. The assumption is `ServerAppAssumption`.

`RuntimeProofs` has the theorems of a run on the host, for all bounds:

| Theorem | Says |
|---|---|
| `KeepsReactorInv` | types, count, waiting reads, deliveries, wake table: `ReactorInv` |
| `KeepsItems` | until the socket is closed, an item read from it is in exactly one place: with the program, kept for the next read, or with one operation or its delivery: `ItemsAreKept` |
| `KeepsWakes` | a loop that sleeps has nothing to do, or a wake is on its way: `NoWakeIsLost` |
| `OnlyRealDeadlocks` | a run is given up only when each operation left has completed and woken the program: `DeadlocksAreReal` |

`ReactorInv` is inductive. `OpenCounts` says that `open` is the number of
operations that have not completed: each of an abort, a delivery, a timer, a
close and the end of a run takes an operation out of that set at most once.
`ReadsWait` (the reads that wait are the pending ones, in the order they were
started) is what makes it right for `serve` to answer a prefix, and for an abort
to remove one entry; the lemma `ServedIs` says what `serve` gives, and `TakenIs`
and `CollectIs` what a batch does to every operation. `DeliveriesInv` says that a
delivery is the only result of an operation whose task ran until then, from which
`KeepsItems` follows: a completion, an abort and a close find one result or none.
Its invariant `Kept` has two parts, which a step keeps together: `NoneLost` (the
items are those of the places) and `NoneTwice` (the places have none in common).
A new item is in no place yet because the places hold the items up to now; what
an operation had moves, when it is removed, to the program or to the next read,
and to one of them.
`ToldInv` says that what completed is in the wake table, and that a run that
ended left nothing, so that a session's next input begins with an empty one; with
`OpenCounts` it gives `OnlyRealDeadlocks`. `KeepsWakes` is inductive: whoever puts
something in the inbox wakes a loop that is parked in the same step, a request
counts its own wake before it is made, and the last tests before the sleep are
under the lock. The assumption is that the bounds are numbers.

It also has those of the channel between two tasks of a compiled program, for every
capacity, every number of messages, every bound of a cleanup and every moment of a
cancel or a tick:

| Theorem | Says |
|---|---|
| `KeepsSleepers` | no task sleeps on the channel while it could go on: `NoSleeperCouldGoOn` |
| `KeepsDeadlines` | a cleanup ends at the moment that its first cancel fixed, however often it is cancelled again: `DeadlineIsFixed` |

Both are inductive, the second with the types. A put wakes every receiver
that is linked, a take every sender, a close all of them, and a task links itself in
the same step as it finds nothing to do; a put needs room, so no sender slept then. A
tick moves the time that is left and the time since the first cancel together; a
cleanup starts with the whole bound; a later cancel keeps what is left. The
assumption is `TimedChannelAssumption`.

`CollectorProofs` has the theorems of the counted heap and its collector, for every
finite set of objects of any kinds (frames, holders of a room, weak targets, those
that take no part), all bounds and every order of a walk:

| Theorem | Says |
|---|---|
| `HeapIsKept` | counts, buffer, work lists and colours are right between any two steps, and what the program reaches is kept: `HeapInv` |
| `RoomsAreKept` | a room lives as long as its holder's contents or a deferred reference into it: `RoomsFollowHolders` |
| `HeapIsManaged` | every step is a step of `ManagedHeap` or a stutter: `ImplementsManagedHeap` |
| `NothingLeaks` | a candidate reaches whatever is garbage between releases and collections: `NoLeak` |

The inductive invariant `Core` is all of both but `ReachableIsKept`, which follows
from it in any state (`KeptFollows`): what the program reaches is named by a local
or by an object that is not gone, and `NothingDangles` says that what is named is
allocated. A count is the number of references to an object from a set of
objects, as the cardinality of a set of pairs (`From`), so that it splits over
disjoint sets (`FromUnion`) and changes by what one object holds. `CountsExact`
says whose references a count counts: those of all objects, but during a walk not
of those it took them off and has not given them back (`TakenOff`). A walk takes the references of one object off at a time
(`LeftStep`), and the objects it takes no count off are the same at each of its
steps: the running frames and the objects of the other kinds stay as they are until
the collection ends. `WalksInv` is why a walk may end when its roots and its work list do: the
coloured objects are reached through coloured ones from the roots that were marked;
in a scan the gray ones, and in a collection the white ones, from a root the walk has
not come to or from an entry of the list. So none is left gray when the scan ends,
none is left white when the collection does, and nothing outside the garbage refers
to it, since a white object has no count. `BufferExact` says that the buffer lists
the blocks with the bit, each once, and that its counters count them and those whose
last reference went; the lemmas about `Without` say what a compaction leaves.

The refinement rests on `NothingDangles`: what is named after a step was not
taken by it, so a step of a release or of a collection can only lose whole
blocks that nothing names (`LoseIs`), and a step of the program is the abstract
heap's own action of that name.

For `NoLeak`, an island is a set of live blocks that have no references but each
other's. `LeakInv` says that each island has a candidate while no walk is under
way. Most steps make no island (`NoNewIsland`); the release that could, leaves a
count above zero on the block it released, which so is suspected or, if its kind
takes no part, lies on no cycle (`NoPlainCycle`), so that what refers to it was
an island without it (`CutOff`, `ReleaseMeets`). During a collection the
candidates give way to colours: the mark turns all of an island gray, because it
follows every reference from a candidate in it; the scan finds no count left on
it and paints it white; the collection takes what is white. The blocks that take
no part are never coloured, and for them the argument is at the collection's
end: of the islands left, a least one (`LeastApart`) holds no such block, since
`CutOff` would find a smaller one; so with the garbage it is an island of blocks
that take part, and all of that is garbage (`EndCollectNoLeak`). What neither
the program nor a candidate reaches would be an island without a candidate
(`LeakFollows`). The assumptions are `Kinds` and `Sizes`.

Only model-checked:

- liveness, in every model: it is out of the provers' reach;
- `AbortedReadsLoseNoInput` and the other properties of the violated runs, which
  do not hold.

## 5. Findings

**A stop that is never told** (`supervisor_stop`). `supervisor.ts:403`: a fault
during a stop or a close ends the supervisor as failed, and the promise that
`stop()` returned is not resolved. The README of the SDK (lines 124-125)
describes the stop as something that completes.

**A cancellation that ends the application** (`server_queue`). `fetch.ts:287` arms
the cleanup timer for every cancelled request, one that no worker loop has
accepted yet among them; such a request is closed by the loop that accepts it
next. If every loop is busy for 200 ms with other requests, the timer poisons the
application, and the requests that were being served are lost with it.
`spec/std/server-sdk.md:73` and `:105` say that a cancellation cancels neither the
worker group nor other leases.

**A line that an aborted read takes along** (`host_input`). `reactor.rs:582`: a read
of standard input whose line was delivered to its operation, but not yet taken by
the program, loses the line when the operation is aborted. The comment at
`reactor.rs:199` says of the buffer "so an aborted read loses no input", which
holds for lines that no read was given yet; the test at `reactor.rs:888` covers
that case alone.

## 6. Not modelled, and why

See the components with status `not_modelled`. Three reasons occur: planned (next
section); a pure function of large inputs, for which the conformance corpus is
the right tool (parser, checker, optimiser, code generator, formatter, linter,
documentation); or input and output with no state of its own (git, network,
command line, website, editors). In the modelled components the formats are
left out: messages, index bytes, checksums. Liveness of the cache under a writer
that holds the publication lock for ever is the operating system's affair.

## 7. Plan

In this order:

1. `ServerApp` below `Supervisor`: the worker's thread of the one is the program
   of the other, and "a worker may hang" becomes what a guest may do to its own
   application.
2. The rest of the task runtime: the flags of a frame under poll, cancel and
   abandon, `map_join!`, and the order of retries.
3. `WeakTable` (bucket lists over reused addresses) composed with the frees of
   `CycleCollector`; `Allocator` with an abstract set of free blocks.
4. `Journal` (append, torn tail, resume) and `Selection` (minimal versions
   against a fixpoint) as pure definitions over bounded inputs.
5. `DriverTasks`: the driver's own script against the contract in `MayRoute`.
