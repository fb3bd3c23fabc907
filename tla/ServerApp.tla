------------------------------ MODULE ServerApp ------------------------------
(* Requests in one retained program of the server SDK: the fetch adapter      *)
(* (fetch.ts) with its jobs, deadlines and cleanup timers, the application    *)
(* (application.ts) with its leases and its queue, the dispatcher             *)
(* (dispatcher.ts) whose owners run native operations, and the workers of     *)
(* server.hd.  All of it is one JavaScript event loop: a turn of the guest    *)
(* runs until nothing wakes, the continuations of promises run before the     *)
(* next event, and events come from the platform and from timers.             *)
EXTENDS Integers, Sequences, FiniteSets, SequencesExt

CONSTANTS Requests,      \* what the platform may hand to fetch()
          Workers,       \* the width of serve!
          Nobody,        \* no request
          ActiveLimit,   \* ACTIVE_LIMIT: admitted requests at one time
          MaxAborts,     \* bound: accepts the guest aborts after they took one
          Healthy        \* the guest never fails, and cleanup is told in time

ASSUME ServerAppAssumption == /\ ActiveLimit \in Nat \ {0} /\ MaxAborts \in Nat
                              /\ Healthy \in BOOLEAN /\ Nobody \notin Requests

VARIABLES job,       \* fetch.ts: the job of each request
          lease,     \* dispatcher.ts: the job of each lease
          leases,    \* application.ts: the leases the guest may name
          incoming,  \* application.ts: the leases no worker has accepted
          worker,    \* server.hd: what each worker loop is doing
          app,       \* the flags of the three adapters
          cancelling,\* a loop of fail() or stop() that cancels job after job
          driving,   \* a guest turn is running
          aborts     \* how often an accept was aborted (bound)

vars == <<job, lease, leases, incoming, worker, app, cancelling, driving, aborts>>

Ops == {"work", "cleanup"}     \* one native operation of a handler, one of its cleanup

\* Of a native operation: "queued" until its owner starts it, "open" and then
\* "ready" until it is disposed of, "closing" until its owner cleans it up.
OpStates == {"none", "queued", "open", "ready", "dropped", "closing", "closed"}

Reasons == {"none", "Deadline", "Disconnected", "Stopping", "Failed", "Rejected"}

Job == [stage : {"new", "body", "lease", "closing", "done"}, reason : Reasons,
        reader : {"none", "cancelled", "released"},
        answer : {"none", "ok", "400", "500", "503", "504", "aborted"}]

NewJob == [stage |-> "new", reason |-> "none", reader |-> "none", answer |-> "none"]

Lease == [owner : {"none", "parked", "running", "ended"}, op : [Ops -> OpStates],
          tasks : Seq({"start", "clean"} \X Ops),
          finished : BOOLEAN, cancelled : BOOLEAN, response : BOOLEAN]

NewLease == [owner |-> "none", op |-> [o \in Ops |-> "none"], tasks |-> <<>>,
             finished |-> FALSE, cancelled |-> FALSE, response |-> FALSE]

Serving == {"run", "wait", "clean", "cleaning"}

Worker == [at : Serving \cup {"accept", "held", "ended"}, req : Requests \cup {Nobody}]

App == [stops : 0 .. 2, failed : BOOLEAN, stopping : BOOLEAN,
        ended : BOOLEAN, poisoned : BOOLEAN]

CancelLoop == [todo : SUBSET Requests, reason : Reasons, on : BOOLEAN, poison : BOOLEAN]

NoLoop == [todo |-> {}, reason |-> "none", on |-> FALSE, poison |-> FALSE]

Init == /\ job = [r \in Requests |-> NewJob]
        /\ lease = [r \in Requests |-> NewLease]
        /\ leases = {} /\ incoming = <<>>
        /\ worker = [w \in Workers |-> [at |-> "accept", req |-> Nobody]]
        /\ app = [stops |-> 0, failed |-> FALSE, stopping |-> FALSE,
                  ended |-> FALSE, poisoned |-> FALSE]
        /\ cancelling = NoLoop /\ driving = FALSE /\ aborts = 0

Jobs == {r \in Requests : job[r].stage \in {"body", "lease", "closing"}}
-----------------------------------------------------------------------------
(* The dispatcher: leases as values.                                          *)

Signal(l) == IF l.owner = "parked" THEN [l EXCEPT !.owner = "running"] ELSE l

Enqueue(l, task) == Signal([l EXCEPT !.tasks = Append(@, task)])

Live(l, o) == l.op[o] \in {"queued", "open", "ready"}

\* Disposal is queued for the owner, also when the start still is.
Dispose(l, o) ==
  IF ~ Live(l, o) THEN l
  ELSE Enqueue([l EXCEPT !.op[o] = IF @ = "queued" THEN "dropped" ELSE "closing"],
               <<"clean", o>>)

FinishedLease(l) ==
  IF l.finished THEN l
  ELSE Signal([Dispose(Dispose(l, "work"), "cleanup") EXCEPT !.finished = TRUE])

\* poison: every lease is finished, then the host closes: its accepts are
\* aborted, the queue and the map are emptied.
Poisoned == [r \in Requests |-> IF lease[r].owner \in {"none", "ended"} THEN lease[r]
                                ELSE FinishedLease(lease[r])]

Poison == /\ app' = [app EXCEPT !.poisoned = TRUE]
          /\ lease' = Poisoned
          /\ leases' = {} /\ incoming' = <<>> /\ driving' = FALSE
          /\ worker' = [w \in Workers |-> [at |-> "ended", req |-> Nobody]]

Drives == ~ app.poisoned /\ ~ app.ended
-----------------------------------------------------------------------------
(* A turn of the guest: its workers go on until none of them can.             *)

\* The place of the first request in the queue whose lease lives, or 0.
FirstLive == SelectInSeq(incoming, LAMBDA r : r \in leases)

\* accept's poll: dead candidates are dropped, the first live one is held.
Accept(w) ==
  /\ worker[w].at = "accept" /\ (FirstLive # 0 \/ app.stopping)
  /\ worker' = [worker EXCEPT ![w] =
       [at |-> "held", req |-> IF FirstLive = 0 THEN Nobody ELSE incoming[FirstLive]]]
  /\ incoming' = IF FirstLive = 0 THEN <<>>
                 ELSE SubSeq(incoming, FirstLive + 1, Len(incoming))
  /\ UNCHANGED <<lease, leases, app, driving, aborts>>

\* The worker takes what its accept holds: a request, or the end.
Take(w) ==
  /\ worker[w].at = "held"
  /\ worker' = [worker EXCEPT ![w].at = IF worker[w].req = Nobody THEN "ended" ELSE "run"]
  /\ UNCHANGED <<lease, leases, incoming, app, driving, aborts>>

PutBackNone(r) == incoming                                           \* variant
PutBack(r) == IF r \in leases THEN <<r>> \o incoming ELSE incoming

\* The guest lost interest in its accept and accepts anew.
AbortAccept(w) ==
  /\ worker[w].at = "held" /\ worker[w].req # Nobody /\ aborts < MaxAborts
  /\ incoming' = PutBack(worker[w].req)
  /\ worker' = [worker EXCEPT ![w] = [at |-> "accept", req |-> Nobody]]
  /\ aborts' = aborts + 1
  /\ UNCHANGED <<lease, leases, app, driving>>

Goes(w, at, l) == /\ worker' = [worker EXCEPT ![w].at = at]
                  /\ lease' = [lease EXCEPT ![worker[w].req] = l]
                  /\ UNCHANGED <<leases, incoming, app, driving, aborts>>

\* finish(id): the lease ends, and the worker accepts again or, when the
\* request or the response could not be converted, ends with an error.
Finishes(w, l) ==
  /\ lease' = [lease EXCEPT ![worker[w].req] = FinishedLease(l)]
  /\ leases' = leases \ {worker[w].req}
  /\ \E at \in IF Healthy THEN {"accept"} ELSE {"accept", "ended"} :
       worker' = [worker EXCEPT ![w] = [at |-> at, req |-> Nobody]]
  /\ UNCHANGED <<incoming, app, driving, aborts>>

StartOp(l, o) == Enqueue([l EXCEPT !.op[o] = "queued"], <<"start", o>>)

\* One step of the worker that serves a request.  The race polls the
\* cancellation first, but knows of it only after a first turn of the handler.
Serve(w) ==
  LET l == lease[worker[w].req]
  IN \/ /\ worker[w].at = "run"
        /\ \/ l.op["work"] = "none" /\ Goes(w, "wait", StartOp(l, "work"))
           \/ Finishes(w, [l EXCEPT !.response = ~ l.cancelled])
     \/ /\ worker[w].at = "wait" /\ l.cancelled
        /\ Goes(w, "clean", Dispose(l, "work"))
     \/ /\ worker[w].at = "wait" /\ ~ l.cancelled /\ l.op["work"] = "ready"
        /\ Goes(w, "run", Dispose(l, "work"))
     \/ /\ worker[w].at = "clean"
        /\ (Goes(w, "cleaning", StartOp(l, "cleanup")) \/ Finishes(w, l))
     \/ /\ worker[w].at = "cleaning" /\ l.op["cleanup"] = "ready"
        /\ Finishes(w, Dispose(l, "cleanup"))

\* Any guest code may panic, and then the instance is poisoned.
Trap == /\ ~ Healthy /\ \E w \in Workers : worker[w].at \in {"run", "clean"}
        /\ Poison /\ UNCHANGED aborts

\* Main joined its workers.
MainEnds ==
  /\ \A w \in Workers : worker[w].at = "ended"
  /\ \/ /\ app.stopping /\ leases = {}
        /\ app' = [app EXCEPT !.ended = TRUE] /\ driving' = FALSE
        /\ UNCHANGED <<lease, leases, incoming, worker>>
     \/ ~ (app.stopping /\ leases = {}) /\ Poison
  /\ UNCHANGED aborts

Blocked(w) ==
  \/ worker[w].at = "ended"
  \/ worker[w].at = "accept" /\ FirstLive = 0 /\ ~ app.stopping
  \/ /\ worker[w].at = "wait" /\ ~ lease[worker[w].req].cancelled
     /\ lease[worker[w].req].op["work"] # "ready"
  \/ worker[w].at = "cleaning" /\ lease[worker[w].req].op["cleanup"] # "ready"

\* Nothing wakes: the turn is over.
Park == /\ \A w \in Workers : Blocked(w)
        /\ \E w \in Workers : worker[w].at # "ended"
        /\ driving' = FALSE
        /\ UNCHANGED <<lease, leases, incoming, worker, app, aborts>>

Guest == /\ driving
         /\ \/ Trap \/ MainEnds \/ Park
            \/ \E w \in Workers : Accept(w) \/ Take(w) \/ AbortAccept(w) \/ Serve(w)
         /\ UNCHANGED <<job, cancelling>>
-----------------------------------------------------------------------------
(* The owner of a lease: run() in the coroutine of its request.               *)

\* The first task: a start does nothing when its operation was dropped, and
\* may settle at once; a settled operation turns the guest.
RunTask(r) ==
  LET l == lease[r]
      o == Head(l.tasks)[2]
      To(state) == [l EXCEPT !.tasks = Tail(@), !.op[o] = state]
  IN /\ l.owner = "running" /\ l.tasks # <<>>
     /\ \/ /\ Head(l.tasks)[1] = "start" /\ l.op[o] = "queued"
           /\ \/ lease' = [lease EXCEPT ![r] = To("open")] /\ UNCHANGED driving
              \/ lease' = [lease EXCEPT ![r] = To("ready")] /\ driving' = Drives
        \/ /\ Head(l.tasks)[1] = "start" /\ l.op[o] # "queued"
           /\ lease' = [lease EXCEPT ![r] = To(l.op[o])] /\ UNCHANGED driving
        \/ /\ Head(l.tasks)[1] = "clean"
           /\ lease' = [lease EXCEPT ![r] = To(IF l.op[o] = "closing" THEN "closed"
                                               ELSE l.op[o])]
           /\ UNCHANGED driving
     /\ UNCHANGED <<job, leases, incoming, worker, app, cancelling, aborts>>

RunParks(r) ==
  /\ lease[r].owner = "running" /\ lease[r].tasks = <<>> /\ ~ lease[r].finished
  /\ lease' = [lease EXCEPT ![r].owner = "parked"]
  /\ UNCHANGED <<job, leases, incoming, worker, app, cancelling, driving, aborts>>

\* interruptionResponse: what a cancelled request is told.
Interruption(reason) == CASE reason = "Deadline" -> "504"
                          [] reason = "Disconnected" -> "aborted"
                          [] reason = "Stopping" -> "503"
                          [] OTHER -> "none"

AnswerOr(r, other) == IF Interruption(job[r].reason) = "none" THEN other
                      ELSE Interruption(job[r].reason)

\* fail(error, current): the other jobs are cancelled, then the application
\* is poisoned.
Fails(r) == IF app.failed THEN UNCHANGED <<app, cancelling>>
            ELSE /\ app' = [app EXCEPT !.failed = TRUE]
                 /\ cancelling' = [todo |-> Jobs \ {r}, reason |-> "Failed",
                                   on |-> TRUE, poison |-> TRUE]

\* finish(): the body that was not read is cancelled, and awaited.
Closes(r, answer, reader) ==
  job' = [job EXCEPT ![r].stage = "closing", ![r].answer = answer, ![r].reader = reader]

DrainedFirst(l) == TRUE                                              \* variant
Drained(l) == l.tasks = <<>>

\* run() returns or throws, and the fetch that waits for it goes on, unless
\* its cleanup was escalated.
RunEnds(r) ==
  /\ lease[r].owner = "running" /\ Drained(lease[r]) /\ lease[r].finished
  /\ lease' = [lease EXCEPT ![r].owner = "ended"]
  /\ leases' = leases \ {r}
  /\ IF job[r].stage = "lease"
     THEN /\ Closes(r, AnswerOr(r, IF app.poisoned \/ lease[r].cancelled \/ ~ lease[r].response
                                   THEN "500" ELSE "ok"), "released")
          /\ IF app.poisoned /\ Interruption(job[r].reason) = "none" THEN Fails(r)
             ELSE UNCHANGED <<app, cancelling>>
     ELSE UNCHANGED <<job, app, cancelling>>
  /\ UNCHANGED <<incoming, worker, driving, aborts>>

Settle(r, o) ==
  /\ lease[r].op[o] = "open" /\ ~ lease[r].finished
  /\ lease' = [lease EXCEPT ![r].op[o] = "ready"]
  /\ driving' = Drives
  /\ UNCHANGED <<job, leases, incoming, worker, app, cancelling, aborts>>
-----------------------------------------------------------------------------
(* The fetch adapter.                                                         *)

Fetch(r) ==
  /\ job[r].stage = "new"
  /\ IF app.stops > 0 \/ app.failed \/ Cardinality(Jobs) = ActiveLimit
     THEN job' = [job EXCEPT ![r].stage = "done", ![r].answer = "503"]
     ELSE job' = [job EXCEPT ![r].stage = "body"]
  /\ UNCHANGED <<lease, leases, incoming, worker, app, cancelling, driving, aborts>>

\* The body is read: the application opens a lease and turns, or throws.
BodyEnds(r) ==
  /\ job[r].stage = "body" /\ job[r].reason = "none"
  /\ IF app.poisoned
     THEN /\ Closes(r, "500", "released") /\ Fails(r)
          /\ UNCHANGED <<lease, leases, incoming, driving>>
     ELSE /\ job' = [job EXCEPT ![r].stage = "lease", ![r].reader = "released"]
          /\ leases' = leases \cup {r} /\ incoming' = Append(incoming, r)
          /\ lease' = [lease EXCEPT ![r].owner = "running"]
          /\ driving' = Drives
          /\ UNCHANGED <<app, cancelling>>
  /\ UNCHANGED <<worker, aborts>>

\* A body that is malformed or too long.
BodyRejects(r) ==
  /\ job[r].stage = "body" /\ job[r].reason = "none"
  /\ job' = [job EXCEPT ![r] = [stage |-> "closing", reason |-> "Rejected",
                                reader |-> "cancelled", answer |-> "400"]]
  /\ UNCHANGED <<lease, leases, incoming, worker, app, cancelling, driving, aborts>>

\* The reader was woken by a cancellation.
BodyStops(r) ==
  /\ job[r].stage = "body" /\ job[r].reason # "none"
  /\ Closes(r, AnswerOr(r, "500"), "cancelled")
  /\ UNCHANGED <<lease, leases, incoming, worker, app, cancelling, driving, aborts>>

\* The platform ends a cancelled body.
ReaderEnds(r) ==
  /\ job[r].stage = "closing" /\ job[r].reader = "cancelled"
  /\ job' = [job EXCEPT ![r].reader = "released"]
  /\ UNCHANGED <<lease, leases, incoming, worker, app, cancelling, driving, aborts>>

\* application.stop()
StopsProgram == /\ app' = [app EXCEPT !.stopping = TRUE] /\ driving' = Drives

LastForgets(r) == FALSE                                              \* variant
LastOfStopping(r) == app.stops > 0 /\ Jobs = {r} /\ ~ app.failed

\* finish() ends: the caller of fetch() gets its answer.
Answer(r) ==
  /\ job[r].stage = "closing" /\ job[r].reader = "released"
  /\ job' = [job EXCEPT ![r].stage = "done"]
  /\ IF LastOfStopping(r) THEN StopsProgram ELSE UNCHANGED <<app, driving>>
  /\ UNCHANGED <<lease, leases, incoming, worker, cancelling, aborts>>

\* cancel(job, reason), once, which reaches the lease through its signal.
Cancel(r, reason) ==
  /\ job' = [job EXCEPT ![r].reason = reason]
  /\ IF job[r].stage = "lease" /\ ~ lease[r].finished
     THEN /\ lease' = [lease EXCEPT ![r] = Signal([@ EXCEPT !.cancelled = TRUE])]
          /\ driving' = Drives
     ELSE UNCHANGED <<lease, driving>>

Deadline(r) == /\ job[r].stage \in {"body", "lease"} /\ job[r].reason = "none"
               /\ Cancel(r, "Deadline")
               /\ UNCHANGED <<leases, incoming, worker, app, cancelling, aborts>>

Disconnect(r) == /\ job[r].stage \in {"body", "lease"} /\ job[r].reason = "none"
                 /\ Cancel(r, "Disconnected")
                 /\ UNCHANGED <<leases, incoming, worker, app, cancelling, aborts>>

CancelNext(r) ==
  /\ r \in cancelling.todo
  /\ cancelling' = [cancelling EXCEPT !.todo = @ \ {r}]
  /\ IF job[r].reason = "none" THEN Cancel(r, cancelling.reason)
     ELSE UNCHANGED <<job, lease, driving>>
  /\ UNCHANGED <<leases, incoming, worker, app, aborts>>

\* The loop is over; fail() goes on to application.fail().
CancelledAll ==
  /\ cancelling.todo = {} /\ cancelling' = NoLoop
  /\ IF cancelling.poison /\ ~ app.poisoned THEN Poison
     ELSE UNCHANGED <<lease, leases, incoming, worker, app, driving>>
  /\ UNCHANGED <<job, aborts>>

ArmedByReader(r) == job[r].reader = "cancelled"                      \* variant
Armed(r) == job[r].reason # "none" \/ job[r].reader = "cancelled"

\* A healthy guest acknowledges in 100 ms what it knows of, a healthy
\* platform ends a reader; the timer fires after 200 ms.
InTime(r) == \/ job[r].stage = "closing"
             \/ \E w \in Workers : worker[w].req = r

\* The cleanup timer: the application fails, and this job waits no longer.
CleanupFires(r) ==
  /\ r \in Jobs /\ Armed(r) /\ ~ (Healthy /\ InTime(r))
  /\ Fails(r)
  /\ Closes(r, IF job[r].stage = "closing" THEN job[r].answer ELSE AnswerOr(r, "500"), "released")
  /\ UNCHANGED <<lease, leases, incoming, worker, driving, aborts>>

\* stop(): the second one cancels what the first lets drain.
Stop ==
  /\ app.stops < 2
  /\ app' = [app EXCEPT !.stops = @ + 1, !.stopping = @ \/ Jobs = {}]
  /\ driving' = (Jobs = {} /\ Drives)
  /\ cancelling' = IF app.stops = 0 THEN cancelling
                   ELSE [todo |-> Jobs, reason |-> "Stopping", on |-> TRUE, poison |-> FALSE]
  /\ UNCHANGED <<job, lease, leases, incoming, worker, aborts>>
-----------------------------------------------------------------------------
Continues(r) == \/ lease[r].owner = "running"
                \/ job[r].stage = "body" /\ job[r].reason # "none"
                \/ job[r].stage = "closing" /\ job[r].reader = "released"

Continue == \E r \in Requests : \/ RunTask(r) \/ RunParks(r) \/ RunEnds(r)
                                \/ BodyStops(r) \/ Answer(r)

Timers == \E r \in Requests : Deadline(r) \/ CleanupFires(r)

Platform == \/ Stop
            \/ \E r \in Requests : \/ Fetch(r) \/ BodyEnds(r) \/ BodyRejects(r) \/ ReaderEnds(r)
                                   \/ Disconnect(r) \/ \E o \in Ops : Settle(r, o)

\* Code that runs comes first, then the continuations, then events.
Loop == IF driving THEN Guest
        ELSE IF cancelling.on THEN CancelledAll \/ \E r \in Requests : CancelNext(r)
        ELSE (\E r \in Requests : Continues(r)) /\ Continue

Idle == ~ driving /\ ~ cancelling.on /\ \A r \in Requests : ~ Continues(r)

Next == Loop \/ (Idle /\ (Platform \/ Timers))

Spec == Init /\ [][Next]_vars

\* The loop turns and timers fire; nothing is assumed of the platform or of
\* native operations.
FairSpec == /\ Spec /\ WF_vars(Loop)
            /\ \A r \in Requests : /\ WF_vars(Idle /\ Deadline(r))
                                  /\ WF_vars(Idle /\ CleanupFires(r))
-----------------------------------------------------------------------------
TypeOK ==
  /\ job \in [Requests -> Job] /\ lease \in [Requests -> Lease]
  /\ leases \subseteq Requests /\ incoming \in Seq(Requests)
  /\ worker \in [Workers -> Worker]
  /\ app \in App /\ cancelling \in CancelLoop
  /\ driving \in BOOLEAN /\ aborts \in Nat

\* A worker has a request exactly while it serves one or its accept holds one.
WorkersInv ==
  \A w \in Workers : /\ worker[w].at \in {"accept", "ended"} => worker[w].req = Nobody
                     /\ worker[w].at \in Serving => worker[w].req # Nobody

\* A lease the guest may name is in one place: once in the queue, or with one
\* worker; the worker names no lease that is gone (the guest would be killed
\* by an "expired request lease").
LeasesHaveOnePlace ==
  /\ IsInjective(incoming)
  /\ \A w \in Workers : worker[w].req # Nobody =>
       /\ worker[w].req \in leases \ Range(incoming)
       /\ \A v \in Workers : worker[v].req = worker[w].req => v = w
  /\ \A r \in leases : r \in Range(incoming) \/ \E w \in Workers : worker[w].req = r

\* An owner sleeps only when it has nothing to do: no task and no end that came
\* between its last look and its sleep is left behind.  What it must clean up
\* is among its tasks, and when it ends it has done them all.
OwnerInv(l) ==
  /\ l.owner = "none" => l = NewLease
  /\ l.owner = "parked" => l.tasks = <<>> /\ ~ l.finished
  /\ l.owner = "ended" => l.tasks = <<>> /\ l.finished
  /\ \A o \in Ops : /\ l.op[o] = "closing" => <<"clean", o>> \in Range(l.tasks)
                    /\ l.finished => ~ Live(l, o)

OwnersInv == \A r \in Requests : OwnerInv(lease[r])

Waits(r) == lease[r].owner \in {"running", "parked"}

\* The job of a request in fetch.ts, its lease in application.ts and its owner
\* in dispatcher.ts agree: a lease the guest may name has an owner and is not
\* finished, a fetch that waits for its owner has one, and one that does not
\* has none, unless its cleanup was abandoned with the application.
RequestsInv ==
  \A r \in Requests :
    /\ r \in leases => Waits(r) /\ ~ lease[r].finished
    /\ r \in Range(incoming) => lease[r].owner # "none"
    /\ job[r].stage \in {"new", "body"} => lease[r].owner = "none"
    /\ job[r].stage = "lease" => Waits(r)
    /\ job[r].stage \in {"closing", "done"} /\ ~ app.failed => ~ Waits(r)

\* The adapters, the dispatcher and the workers between any two turns: no
\* request is lost, served twice, or left with an owner that sleeps through
\* its end.
ServerInv == /\ TypeOK /\ WorkersInv /\ LeasesHaveOnePlace /\ OwnersInv /\ RequestsInv

\* No native operation outlives the coroutine that started it, and none is
\* started for an operation the guest gave up; an answered request has no
\* owner left, unless its cleanup was abandoned with the application.
NativeIsReleased ==
  \A r \in Requests :
    /\ lease[r].owner = "ended" => \A o \in Ops : lease[r].op[o] \in {"none", "dropped", "closed"}
    /\ job[r].stage = "done" /\ ~ app.failed => lease[r].owner \in {"none", "ended"}

\* Every admitted request is answered, whatever hangs.
EveryFetchIsTold == \A r \in Requests : r \in Jobs ~> job[r].stage = "done"

\* A stop reaches the program: its main ends, or it failed.
StopReachesTheProgram == app.stops > 0 ~> (app.ended \/ app.poisoned)

\* A cancellation is the affair of its own request: no other one is cancelled
\* and the program is not poisoned, when the guest acknowledges what it knows of
\* and never fails (spec/std/server-sdk.md, lease-cancel and dispatch.cancel).
CancelIsLocal == Healthy => ~ app.poisoned
=============================================================================
