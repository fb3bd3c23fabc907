------------------------------ MODULE Supervisor ------------------------------
(***************************************************************************)
(* packages/server-sdk/adapters/supervisor.ts and the worker threads it    *)
(* owns (worker.ts): one slot for each worker, one active request in a     *)
(* slot, deadlines, restarts, and the stages of a stop.                    *)
(*                                                                         *)
(* The supervisor is one event loop: an API call, a timer, a message and   *)
(* the end of a terminate() are one action each.  A worker is a thread of  *)
(* its own; the two message ports are queues, and what a worker still      *)
(* posts while it is being terminated may arrive before its exit.  Time is *)
(* abstract: a timer that is set may fire at any moment, and one that is   *)
(* cleared does not.  The embedder's observers do not call back into the   *)
(* supervisor.                                                             *)
(***************************************************************************)
EXTENDS Integers, Sequences, FiniteSets

CONSTANTS
  Slots,
  RestartLimit,    \* policy.restartLimit
  MaxRequests,     \* bound: requests the platform makes
  MaxGenerations   \* bound: at its last generation a slot's restarts are exhausted

ASSUME Policy == /\ IsFiniteSet(Slots)
                 /\ {RestartLimit, MaxRequests} \subseteq Nat
                 /\ MaxGenerations \in Nat \ {0}

VARIABLES
  lifecycle,
  timers,      \* the supervisor's own timers that are set: "drain", "stop"
  stopped,     \* the promise of stop() and close() is resolved
  slots,       \* the records of workerSlots
  outcome,     \* what each request was told; "none" before, "pending" meanwhile
  thread,      \* the worker thread of each slot
  inbox,       \* the messages posted to it
  outbox,      \* the messages it posted, then its exit
  sent,        \* history: the requests posted to a worker
  ran          \* history: the requests whose handler a worker has entered

pool   == <<lifecycle, timers, stopped>>
ports  == <<inbox, outbox>>
history == <<sent, ran>>
vars   == <<pool, slots, outcome, thread, ports, history>>

Requests == 1 .. MaxRequests
Reasons  == {"Deadline", "Stopping", "Disconnected"}

Job(i) == [id |-> i, reason |-> "none", deadline |-> i > 0]
NoJob  == Job(0)

\* The globals of worker.ts: `stopping` is the application's, `stopped` says
\* that its main has ended.
Thread(p) == [phase |-> p, job |-> 0, aborted |-> FALSE,
              stopping |-> FALSE, stopped |-> FALSE]

Msg(type, i) == [type |-> type, id |-> i]

\* A slot with a fresh worker: the result of spawn.
Spawned(slot) == [slot EXCEPT !.generation = @ + 1, !.worker = TRUE, !.startup = TRUE]

Init ==
  /\ lifecycle = "Starting"
  /\ timers = {}
  /\ stopped = FALSE
  /\ slots = [s \in Slots |->
                Spawned([generation |-> 0, worker |-> FALSE, ready |-> FALSE,
                         active |-> NoJob, restarts |-> 0, startup |-> FALSE,
                         terminating |-> FALSE])]
  /\ outcome = [i \in Requests |-> "none"]
  /\ thread = [s \in Slots |-> Thread("starting")]
  /\ inbox = [s \in Slots |-> <<>>]
  /\ outbox = [s \in Slots |-> <<>>]
  /\ sent = {}
  /\ ran = {}

-----------------------------------------------------------------------------
(***************************************************************************)
(* The supervisor's helpers.                                               *)
(***************************************************************************)
Running == {"Starting", "Ready"}
Halting == {"Draining", "Cancelling"}

\* changed(), after the slots' new values: all ready, or all joined.
AllReady    == \A s \in Slots : slots'[s].ready
JoinedEarly == \A s \in Slots : ~ slots'[s].worker              \* variant
Joined      == \A s \in Slots : ~ slots'[s].worker /\ ~ slots'[s].terminating

Changed(stage, set) ==
  /\ lifecycle' = CASE stage = "Starting" /\ AllReady -> "Ready"
                    [] stage \in Halting /\ Joined -> "Stopped"
                    [] OTHER -> stage
  /\ timers' = IF stage \in Halting /\ Joined THEN {} ELSE set
  /\ stopped' = (stopped \/ (stage \in Halting /\ Joined))

Posted(S, type, id) ==
  inbox' = [s \in Slots |-> IF s \in S THEN Append(inbox[s], Msg(type, id[s]))
                                       ELSE inbox[s]]

\* settle: the job of each slot s of S is told what[s].
Told(S, what) ==
  outcome' = [i \in Requests |-> IF \E s \in S : slots[s].active.id = i
                                 THEN what[CHOOSE s \in S : slots[s].active.id = i]
                                 ELSE outcome[i]]

ReasonOr(other) == [s \in Slots |-> IF slots[s].active.reason = "none" THEN other
                                                                      ELSE slots[s].active.reason]

Generic   == [s \in Slots |-> "500"]
Cancelled == ReasonOr("Stopping")
Answered  == ReasonOr("answered")

\* cancel, for the jobs of S: once each, the worker is told (the cleanup
\* timer is set exactly while a job has a reason).
Cancellable(S) == {s \in S : slots[s].active # NoJob /\ slots[s].active.reason = "none"}

CancelSilently(S, reason) ==                                        \* variant
  /\ slots' = [s \in Slots |-> IF s \in Cancellable(S) THEN [slots[s] EXCEPT !.active.reason = reason]
                                                        ELSE slots[s]]
  /\ UNCHANGED inbox

Cancel(S, reason) ==
  LET told == Cancellable(S)
  IN /\ slots' = [s \in Slots |-> IF s \in told THEN [slots[s] EXCEPT !.active.reason = reason]
                                                ELSE slots[s]]
     /\ Posted(told, "cancel", [s \in Slots |-> slots[s].active.id])

\* retire, for the slots of S that have a worker: each loses it at once, and
\* its job with it; terminate() ends the thread later.
Retired(slot) ==
  [slot EXCEPT !.worker = FALSE, !.startup = FALSE, !.active = NoJob, !.terminating = TRUE,
               !.ready = FALSE]

Retire(S, what) ==
  LET gone == {s \in S : slots[s].worker}
  IN /\ slots' = [s \in Slots |-> IF s \in gone THEN Retired(slots[s]) ELSE slots[s]]
     /\ Told(gone, what)

-----------------------------------------------------------------------------
(***************************************************************************)
(* dispatch.  The code takes the first free slot; here it may be any.      *)
(***************************************************************************)
Free(s) == slots[s].ready /\ slots[s].active = NoJob

NextRequest(i) == outcome[i] = "none" /\ \A j \in 1 .. i - 1 : outcome[j] # "none"

Dispatch(i, s) ==
  /\ NextRequest(i)
  /\ lifecycle = "Ready" /\ Free(s)
  /\ slots' = [slots EXCEPT ![s].active = Job(i)]
  /\ outcome' = [outcome EXCEPT ![i] = "pending"]
  /\ Posted({s}, "request", [x \in Slots |-> i])
  /\ sent' = sent \union {i}
  /\ UNCHANGED <<pool, thread, outbox, ran>>

\* The signal is aborted already, the time is used up, or no worker is free.
Refuse(i) ==
  /\ NextRequest(i)
  /\ \E o \in {"503", "Deadline", "Disconnected"} :
       /\ o = "503" => lifecycle # "Ready" \/ \A s \in Slots : ~ Free(s)
       /\ outcome' = [outcome EXCEPT ![i] = o]
  /\ UNCHANGED <<pool, slots, thread, ports, history>>

\* The request's signal aborts; settle removes the listener.
Abort(s) ==
  /\ slots[s].active # NoJob
  /\ Cancel({s}, "Disconnected")
  /\ UNCHANGED <<pool, outcome, thread, outbox, history>>

DeadlineUntold(s) == slots[s].active.reason                         \* variant
DeadlineReason(s) == IF s \in Cancellable({s}) THEN "Deadline" ELSE slots[s].active.reason

DeadlineFires(s) ==
  /\ slots[s].active.deadline
  /\ slots' = [slots EXCEPT ![s].active.deadline = FALSE,
                            ![s].active.reason = DeadlineReason(s)]
  /\ Posted(Cancellable({s}), "cancel", [x \in Slots |-> slots[x].active.id])
  /\ UNCHANGED <<pool, outcome, thread, outbox, history>>

\* The cleanup timer: 200 ms after the cancellation.
CleanupFires(s) ==
  /\ slots[s].active.reason # "none"
  /\ Retire({s}, Cancelled)
  /\ UNCHANGED <<pool, thread, ports, history>>

StartupFires(s) ==
  /\ slots[s].startup
  /\ Retire({s}, Generic)
  /\ UNCHANGED <<pool, thread, ports, history>>

-----------------------------------------------------------------------------
(***************************************************************************)
(* Messages.  A slot that has no worker any more takes none.               *)
(***************************************************************************)
Heard(s) == outbox[s] # <<>> /\ slots[s].worker

Received(s) == outbox' = [outbox EXCEPT ![s] = Tail(@)]

Ignored(s) ==
  /\ outbox[s] # <<>> /\ ~ Heard(s)
  /\ Received(s)
  /\ UNCHANGED <<pool, slots, outcome, thread, inbox, history>>

WorkerReady(s) ==
  /\ Heard(s) /\ Head(outbox[s]).type = "ready"
  /\ Received(s)
  /\ slots' = [slots EXCEPT ![s].startup = FALSE, ![s].ready = TRUE]
  /\ Changed(lifecycle, timers)
  /\ UNCHANGED <<outcome, thread, inbox, history>>

\* worker.ts posts a result only after the request is released.
WorkerResult(s) ==
  /\ Heard(s) /\ Head(outbox[s]).type = "result"
  /\ Received(s)
  /\ IF slots[s].active # NoJob /\ Head(outbox[s]).id = slots[s].active.id
     THEN /\ Told({s}, Answered)
          /\ slots' = [slots EXCEPT ![s].active = NoJob]
     ELSE UNCHANGED <<outcome, slots>>
  /\ UNCHANGED <<pool, thread, inbox, history>>

\* "failed", and the worker's error and exit events.
WorkerLost(s) ==
  /\ Heard(s) /\ Head(outbox[s]).type = "failed"
  /\ Received(s)
  /\ Retire({s}, Generic)
  /\ UNCHANGED <<pool, thread, inbox, history>>

WorkerStopped(s) ==
  /\ Heard(s) /\ Head(outbox[s]).type = "stopped"
  /\ Received(s)
  /\ IF lifecycle \in Running THEN Retire({s}, Generic) ELSE Retire({s}, Cancelled)
  /\ UNCHANGED <<pool, thread, inbox, history>>

\* terminate() resolves: the thread is gone, with all it had not yet said.
MayRespawnAlways == TRUE                                            \* variant
MayRespawn == lifecycle \in Running

\* The restarts that are still inside the window.
Recent(s) == IF slots[s].generation < MaxGenerations THEN 0 .. slots[s].restarts
                                                     ELSE {RestartLimit}

Terminated(s) ==
  /\ slots[s].terminating
  /\ \E kept \in Recent(s) :
       LET ended == [slots[s] EXCEPT !.terminating = FALSE]
           again == MayRespawn /\ kept < RestartLimit
       IN /\ slots' = [slots EXCEPT ![s] =
                         IF ~ MayRespawn THEN ended
                         ELSE IF again THEN Spawned([ended EXCEPT !.restarts = kept + 1])
                         ELSE [ended EXCEPT !.restarts = kept]]
          /\ thread' = [thread EXCEPT ![s] = Thread(IF again THEN "starting" ELSE "gone")]
  /\ inbox' = [inbox EXCEPT ![s] = <<>>]
  /\ outbox' = [outbox EXCEPT ![s] = <<>>]
  /\ Changed(lifecycle, timers)
  /\ UNCHANGED <<outcome, history>>

-----------------------------------------------------------------------------
(***************************************************************************)
(* stop, its two timers, fail and close.                                   *)
(***************************************************************************)
FirstStop ==
  /\ lifecycle \notin Halting \union {"Stopped"}
  /\ UNCHANGED slots
  /\ Posted({s \in Slots : slots[s].worker}, "stop", [s \in Slots |-> 0])
  /\ Changed("Draining", timers \union {"drain"})
  /\ UNCHANGED <<outcome, thread, outbox, history>>

EscalateWaits(set) == set                                           \* variant
StopTimer(set)     == {"stop"}

Escalate ==
  /\ lifecycle = "Draining"
  /\ lifecycle' = "Cancelling"
  /\ timers' = StopTimer({})
  /\ Cancel(Slots, "Stopping")
  /\ UNCHANGED <<stopped, outcome, thread, outbox, history>>

\* A second stop() escalates, or the drain timer does.
SecondStop  == Escalate
DrainFires  == "drain" \in timers /\ Escalate

StopFires ==
  /\ "stop" \in timers
  /\ Retire(Slots, Cancelled)
  /\ Changed(lifecycle, timers \ {"stop"})
  /\ UNCHANGED <<thread, ports, history>>

Fail ==
  /\ lifecycle' = "Failed"
  /\ timers' = {}
  /\ Retire(Slots, Generic)
  /\ UNCHANGED <<stopped, thread, ports, history>>

Close ==
  /\ lifecycle # "Stopped"
  /\ Retire(Slots, Cancelled)
  /\ Changed("Cancelling", timers \ {"drain"})
  /\ UNCHANGED <<thread, ports, history>>

-----------------------------------------------------------------------------
(***************************************************************************)
(* A worker thread.                                                        *)
(***************************************************************************)
Alive(s) == thread[s].phase \in {"starting", "serving"}

\* What a thread posts before its next step.
Posts(s, t, messages) ==
  /\ thread' = [thread EXCEPT ![s] = t]
  /\ outbox' = [outbox EXCEPT ![s] = @ \o messages]

\* It posts "failed" and exits, or only exits: the first of the two counts.
Failing(s) == Posts(s, Thread("failed"), <<Msg("failed", 0)>>)

\* app.start() returned and the guest is parked on accept.
ThreadReady(s) ==
  /\ thread[s].phase = "starting"
  /\ Posts(s, [thread[s] EXCEPT !.phase = "serving"], <<Msg("ready", 0)>>)
  /\ UNCHANGED <<pool, slots, outcome, inbox, history>>

ThreadFails(s) ==
  /\ Alive(s)
  /\ Failing(s)
  /\ UNCHANGED <<pool, slots, outcome, inbox, history>>

\* The next message of its port, whose listener waits for the startup.
Taken(s, type) == /\ thread[s].phase = "serving"
                  /\ inbox[s] # <<>> /\ Head(inbox[s]).type = type
                  /\ inbox' = [inbox EXCEPT ![s] = Tail(@)]

TakeRequest(s) ==
  /\ Taken(s, "request")
  /\ LET i == Head(inbox[s]).id
     IN IF thread[s].job # 0 \/ thread[s].stopping
        THEN Failing(s) /\ UNCHANGED ran
        ELSE /\ Posts(s, [thread[s] EXCEPT !.job = i, !.aborted = FALSE], <<>>)
             /\ ran' = ran \union {i}
  /\ UNCHANGED <<pool, slots, outcome, sent>>

TakeCancel(s) ==
  /\ Taken(s, "cancel")
  /\ Posts(s, IF thread[s].job = Head(inbox[s]).id THEN [thread[s] EXCEPT !.aborted = TRUE]
                                                   ELSE thread[s], <<>>)
  /\ UNCHANGED <<pool, slots, outcome, history>>

TakeStop(s) ==
  /\ Taken(s, "stop")
  /\ Posts(s, [thread[s] EXCEPT !.stopping = TRUE], <<>>)
  /\ UNCHANGED <<pool, slots, outcome, history>>

\* dispatch resolved: the request is released, and its result is posted.
Answer(s) ==
  /\ thread[s].phase = "serving" /\ thread[s].job # 0
  /\ Posts(s, [thread[s] EXCEPT !.job = 0],
           <<Msg("result", thread[s].job)>>
             \o (IF thread[s].stopped THEN <<Msg("stopped", 0)>> ELSE <<>>))
  /\ UNCHANGED <<pool, slots, outcome, inbox, history>>

\* onStopped: the guest's main ended.
MainEnds(s) ==
  /\ thread[s].phase = "serving" /\ thread[s].stopping /\ ~ thread[s].stopped
  /\ Posts(s, [thread[s] EXCEPT !.stopped = TRUE],
           IF thread[s].job = 0 THEN <<Msg("stopped", 0)>> ELSE <<>>)
  /\ UNCHANGED <<pool, slots, outcome, inbox, history>>

-----------------------------------------------------------------------------
Message(s) == Ignored(s) \/ WorkerReady(s) \/ WorkerResult(s) \/ WorkerLost(s) \/ WorkerStopped(s)

Timer(s) == DeadlineFires(s) \/ CleanupFires(s) \/ StartupFires(s)

Worker(s) == \/ ThreadReady(s) \/ ThreadFails(s) \/ TakeRequest(s) \/ TakeCancel(s)
             \/ TakeStop(s) \/ Answer(s) \/ MainEnds(s)

Api == \/ \E i \in Requests : Refuse(i) \/ \E s \in Slots : Dispatch(i, s)
       \/ \E s \in Slots : Abort(s)
       \/ FirstStop \/ SecondStop \/ Fail \/ Close

Next == \/ Api \/ DrainFires \/ StopFires
        \/ \E s \in Slots : Message(s) \/ Timer(s) \/ Terminated(s) \/ Worker(s)

Spec == Init /\ [][Next]_vars

(***************************************************************************)
(* The event loop runs its timers, messages and promises.  Nothing is      *)
(* assumed of the platform's calls, nor of a worker: it may hang for ever. *)
(***************************************************************************)
Fairness == /\ WF_vars(DrainFires) /\ WF_vars(StopFires)
            /\ \A s \in Slots : /\ WF_vars(Message(s)) /\ WF_vars(Terminated(s))
                                /\ WF_vars(DeadlineFires(s)) /\ WF_vars(CleanupFires(s))
                                /\ WF_vars(StartupFires(s))

FairSpec == Spec /\ Fairness

-----------------------------------------------------------------------------
(***************************************************************************)
(* Every variable has its type, and a slot without a worker has nothing    *)
(* else: no readiness, no job and no startup timer.                        *)
(***************************************************************************)
TypeOK ==
  /\ lifecycle \in Running \union Halting \union {"Stopped", "Failed"}
  /\ timers \subseteq {"drain", "stop"}
  /\ stopped \in BOOLEAN
  /\ \A s \in Slots :
       LET slot == slots[s]
       IN /\ slot.generation \in 1 .. MaxGenerations
          /\ slot.restarts \in 0 .. RestartLimit
          /\ slot.active.id \in {0} \union Requests
          /\ slot.active.reason \in Reasons \union {"none"}
          /\ ~ slot.worker => ~ slot.ready /\ slot.active = NoJob /\ ~ slot.startup
          /\ slot.terminating => ~ slot.worker
  /\ outcome \in [Requests -> Reasons \union {"none", "pending", "answered", "500", "503"}]
  /\ \A s \in Slots : thread[s].phase \in {"starting", "serving", "failed", "gone"}
  /\ ran \subseteq sent /\ sent \subseteq Requests

(***************************************************************************)
(* settle: a request is unanswered exactly while one slot has its job, so  *)
(* none is forgotten and none is told twice, whatever retires the slot.    *)
(***************************************************************************)
OpenRequestsHaveASlot ==
  \A i \in Requests :
    Cardinality({s \in Slots : slots[s].active.id = i}) = IF outcome[i] = "pending" THEN 1 ELSE 0

(***************************************************************************)
(* worker.ts:72: a worker is never handed a request while it has one, nor  *)
(* after its stop, so a healthy worker is not lost to the guard there.     *)
(***************************************************************************)
OneRequestPerWorker ==
  \A s \in Slots :
    thread[s].phase = "serving" /\ inbox[s] # <<>> /\ Head(inbox[s]).type = "request"
      => thread[s].job = 0 /\ ~ thread[s].stopping

(***************************************************************************)
(* README.md:124: the completion of stop and close joins the termination   *)
(* of every worker thread, and none is started after it.                   *)
(***************************************************************************)
CompletionJoins == stopped => \A s \in Slots : thread[s].phase = "gone"

(***************************************************************************)
(* cancel: a worker that still runs the job of its slot knows of the       *)
(* cancellation, or will find it in its port behind the request.           *)
(***************************************************************************)
CancelIsOnItsWay ==
  \A s \in Slots :
    slots[s].active.reason # "none" /\ thread[s].job = slots[s].active.id =>
      \/ thread[s].aborted
      \/ \E k \in 1 .. Len(inbox[s]) : inbox[s][k] = Msg("cancel", thread[s].job)

(***************************************************************************)
(* The slots, their requests and the ports agree between any two steps of  *)
(* the event loop and of the workers.                                      *)
(***************************************************************************)
SupervisorInv == /\ TypeOK /\ OpenRequestsHaveASlot
                 /\ OneRequestPerWorker /\ CancelIsOnItsWay

(***************************************************************************)
(* retire restarts a worker when its thread is gone, and a stop may come   *)
(* between the two: no worker is started once a stop, a close or a failure *)
(* has begun.                                                              *)
(***************************************************************************)
StopIsFinal ==
  [][lifecycle \notin Running =>
       \A s \in Slots : slots'[s].generation = slots[s].generation]_vars

(***************************************************************************)
(* The supervisor implements RequestPool: one outcome for each request, at *)
(* most one run of it, and nothing runs after the announced end.           *)
(***************************************************************************)
Pool == INSTANCE RequestPool
          WITH Refusals <- {"503", "Deadline", "Disconnected"},
               Losses <- Reasons \union {"500"},
               admitted <- sent,
               ended <- stopped

ImplementsRequestPool == Pool!Spec

(***************************************************************************)
(* Every admitted request is told something, though a worker hangs in the  *)
(* guest's code or in its cleanup; and a stop comes to its end, unless the *)
(* adapter failed meanwhile.                                               *)
(***************************************************************************)
EveryRequestIsTold ==
  \A i \in Requests : outcome[i] = "pending" ~> outcome[i] \notin {"none", "pending"}

StopEnds == lifecycle \in Halting ~> (stopped \/ lifecycle = "Failed")

(***************************************************************************)
(* README.md:124 read as a promise to whoever awaits stop() or close().    *)
(***************************************************************************)
StopCompletes == lifecycle \in Halting ~> stopped
=============================================================================
