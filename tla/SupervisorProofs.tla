-------------------------- MODULE SupervisorProofs --------------------------
(***************************************************************************)
(* For every set of slots, every number of requests and every restart      *)
(* policy: the supervisor and its workers keep their slots, requests and   *)
(* ports in agreement, and what they announce is so.                       *)
(***************************************************************************)
EXTENDS Supervisor, FiniteSetTheorems, TLAPS

Lifecycles == Running \union Halting \union {"Stopped", "Failed"}
Outcomes   == Reasons \union {"none", "pending", "answered", "500", "503"}
Lost       == Reasons \union {"500", "answered"}

Ids      == {0} \union Requests
Jobs     == [id : Ids, reason : Reasons \union {"none"}, deadline : BOOLEAN]
SlotRecs == [generation : Nat, worker : BOOLEAN, ready : BOOLEAN, active : Jobs,
             restarts : Nat, startup : BOOLEAN, terminating : BOOLEAN]
Threads  == [phase : {"starting", "serving", "failed", "gone"}, job : Ids,
             aborted : BOOLEAN, stopping : BOOLEAN, stopped : BOOLEAN]
Messages == {m \in [type : {"request", "cancel", "stop", "ready", "result", "failed", "stopped"},
                    id : Ids] : m.type = "request" => m.id \in Requests}

\* The records of a slot that the code may make.
Shape(slot) ==
  /\ slot.generation \in 1 .. MaxGenerations
  /\ slot.restarts \in 0 .. RestartLimit
  /\ slot.active.id = 0 => slot.active = NoJob
  /\ ~ slot.worker => ~ slot.ready /\ slot.active = NoJob /\ ~ slot.startup
  /\ slot.terminating => ~ slot.worker

GoodSlots == {slot \in SlotRecs : Shape(slot)}

Typed ==
  /\ lifecycle \in Lifecycles /\ timers \subseteq {"drain", "stop"} /\ stopped \in BOOLEAN
  /\ slots \in [Slots -> GoodSlots]
  /\ outcome \in [Requests -> Outcomes]
  /\ thread \in [Slots -> Threads]
  /\ inbox \in [Slots -> Seq(Messages)]
  /\ outbox \in [Slots -> Seq(Messages)]
  /\ sent \subseteq Requests /\ ran \subseteq Requests

-----------------------------------------------------------------------------
(* The helpers of the supervisor keep the types.                           *)

\* The constants' assumption, as the proofs use it.
LEMMA ConstantsFit == /\ MaxGenerations \in Nat \ {0} /\ RestartLimit \in Nat
                      /\ MaxRequests \in Nat /\ IsFiniteSet(Slots)
                      /\ 0 \notin Requests /\ Requests \subseteq Nat
  BY Policy DEF Requests

\* A slot without a job has a record that says so.
LEMMA NoJobFits == NoJob \in Jobs /\ NoJob = [id |-> 0, reason |-> "none", deadline |-> FALSE]
  <1>1. (0 > 0) = FALSE
    OBVIOUS
  <1>2. NoJob = [id |-> 0, reason |-> "none", deadline |-> FALSE]
    BY <1>1, Zenon DEF NoJob, Job
  <1> QED
    BY <1>2 DEF Jobs, Ids, Reasons

\* retire leaves a slot that waits for the end of its thread.
LEMMA RetiredFits ==
  ASSUME NEW slot \in GoodSlots
  PROVE  /\ Retired(slot) \in GoodSlots
         /\ Retired(slot).active = NoJob /\ ~ Retired(slot).worker /\ Retired(slot).terminating
         /\ Retired(slot).generation = slot.generation
  BY NoJobFits DEF GoodSlots, SlotRecs, Shape, Retired

\* spawn leaves a slot with a worker.
LEMMA SpawnedFits ==
  ASSUME NEW slot \in SlotRecs, slot.restarts \in 0 .. RestartLimit, slot.active = NoJob,
         slot.generation + 1 \in 1 .. MaxGenerations, ~ slot.terminating
  PROVE  /\ Spawned(slot) \in GoodSlots
         /\ Spawned(slot).worker /\ Spawned(slot).active = NoJob /\ ~ Spawned(slot).terminating
  <1> DEFINE next == slot.generation + 1
  <1>1. next \in Nat /\ next \in 1 .. MaxGenerations
    BY DEF SlotRecs
  <1>2. Spawned(slot) = [slot EXCEPT !.generation = next, !.worker = TRUE, !.startup = TRUE]
    BY DEF Spawned
  <1> HIDE DEF next
  <1>3. Spawned(slot) \in SlotRecs
    BY <1>1, <1>2 DEF SlotRecs
  <1>4. /\ Spawned(slot).generation = next /\ Spawned(slot).worker /\ Spawned(slot).startup
        /\ Spawned(slot).restarts = slot.restarts /\ Spawned(slot).active = NoJob
        /\ ~ Spawned(slot).terminating
    BY <1>2 DEF SlotRecs
  <1> QED
    BY <1>1, <1>3, <1>4 DEF GoodSlots, Shape

\* cancel keeps the records and the ports well formed.
LEMMA CancelFits ==
  ASSUME Typed, NEW S \in SUBSET Slots, NEW reason \in Reasons, Cancel(S, reason)
  PROVE  slots' \in [Slots -> GoodSlots] /\ inbox' \in [Slots -> Seq(Messages)]
  <1>1. ASSUME NEW s \in Slots PROVE slots'[s] \in GoodSlots
    <2>1. CASE s \in Cancellable(S)
      <3>1. slots'[s] = [slots[s] EXCEPT !.active.reason = reason]
        BY <2>1 DEF Cancel
      <3>2. slots[s] \in GoodSlots /\ slots[s].active # NoJob
        BY <2>1 DEF Typed, Cancellable
      <3> QED
        BY <3>1, <3>2 DEF GoodSlots, SlotRecs, Shape, Jobs
    <2>2. CASE s \notin Cancellable(S)
      BY <2>2 DEF Cancel, Typed
    <2> QED
      BY <2>1, <2>2
  <1>2. ASSUME NEW s \in Slots PROVE inbox'[s] \in Seq(Messages)
    <2>1. Msg("cancel", slots[s].active.id) \in Messages
      BY DEF Msg, Messages, Typed, GoodSlots, SlotRecs, Jobs
    <2>2. inbox'[s] = IF s \in Cancellable(S) THEN Append(inbox[s], Msg("cancel", slots[s].active.id))
                      ELSE inbox[s]
      BY DEF Cancel, Posted
    <2> QED
      BY <2>1, <2>2 DEF Typed
  <1> QED
    BY <1>1, <1>2 DEF Cancel, Posted

\* settle tells outcomes and nothing else.
LEMMA ToldFits ==
  ASSUME Typed, NEW S \in SUBSET Slots, NEW what \in [Slots -> Lost], Told(S, what)
  PROVE  outcome' \in [Requests -> Outcomes]
  BY DEF Told, Typed, Lost, Outcomes

\* What a lost or a finished job may be told.
LEMMA WhatFits ==
  ASSUME Typed
  PROVE  Generic \in [Slots -> Lost] /\ Cancelled \in [Slots -> Lost] /\ Answered \in [Slots -> Lost]
  BY DEF Generic, Cancelled, Answered, ReasonOr, Lost, Reasons, Typed, GoodSlots, SlotRecs, Jobs

\* retire keeps the records well formed.
LEMMA RetireFits ==
  ASSUME Typed, NEW S \in SUBSET Slots, NEW what \in [Slots -> Lost], Retire(S, what)
  PROVE  slots' \in [Slots -> GoodSlots] /\ outcome' \in [Requests -> Outcomes]
  <1>1. slots' = [s \in Slots |-> IF s \in S /\ slots[s].worker THEN Retired(slots[s]) ELSE slots[s]]
    BY DEF Retire
  <1>2. slots' \in [Slots -> GoodSlots]
    BY <1>1, RetiredFits DEF Typed
  <1>3. outcome' \in [Requests -> Outcomes]
    BY ToldFits DEF Retire
  <1> QED
    BY <1>2, <1>3

\* changed() moves between the stages that are named.
LEMMA ChangedFits ==
  ASSUME Typed, NEW stage \in Lifecycles, NEW set \in SUBSET {"drain", "stop"}, Changed(stage, set)
  PROVE  lifecycle' \in Lifecycles /\ timers' \in SUBSET {"drain", "stop"} /\ stopped' \in BOOLEAN
  BY DEF Changed, Typed, Lifecycles, Running, Halting

\* A thread that starts or ends has no job and no stop.
LEMMA ThreadFits == \A p \in {"starting", "serving", "failed", "gone"} :
                      Thread(p) \in Threads /\ Thread(p).job = 0 /\ Thread(p).phase = p
                        /\ ~ Thread(p).stopping
  BY DEF Thread, Threads, Ids

\* A worker's step changes its own thread and port alone.
LEMMA PostsFits ==
  ASSUME Typed, NEW s \in Slots, NEW t \in Threads, NEW q \in Seq(Messages), Posts(s, t, q)
  PROVE  /\ thread' \in [Slots -> Threads] /\ outbox' \in [Slots -> Seq(Messages)]
         /\ thread'[s] = t /\ outbox'[s] = outbox[s] \o q
         /\ \A r \in Slots \ {s} : thread'[r] = thread[r] /\ outbox'[r] = outbox[r]
  <1>1. outbox[s] \o q \in Seq(Messages)
    BY DEF Typed
  <1>2. outbox' = [outbox EXCEPT ![s] = outbox[s] \o q]
    BY DEF Posts
  <1> QED
    BY <1>1, <1>2 DEF Posts, Typed

\* A message that is taken from a port is one of its messages.
LEMMA HeadFits ==
  ASSUME NEW q \in Seq(Messages), q # <<>>
  PROVE  /\ Head(q) \in Messages /\ Tail(q) \in Seq(Messages) /\ Head(q).id \in Ids
         /\ Len(q) \in Nat \ {0} /\ Head(q) = q[1] /\ Len(Tail(q)) = Len(q) - 1
         /\ \A k \in 1 .. Len(Tail(q)) : k + 1 \in 1 .. Len(q) /\ Tail(q)[k] = q[k + 1]
  <1>1. Head(q) \in Messages /\ Tail(q) \in Seq(Messages)
    OBVIOUS
  <1>2. Head(q).id \in Ids
    BY <1>1 DEF Messages
  <1> QED
    BY <1>1, <1>2

\* Receiving takes one message.
LEMMA ReceivedFits ==
  ASSUME Typed, NEW s \in Slots, outbox[s] # <<>>, Received(s)
  PROVE  outbox' \in [Slots -> Seq(Messages)]
  BY HeadFits DEF Received, Typed

\* Posting adds one message to each port it names.
LEMMA PostedFits ==
  ASSUME Typed, NEW S \in SUBSET Slots, NEW type \in {"request", "cancel", "stop"},
         NEW id \in [Slots -> Ids], Posted(S, type, id),
         type = "request" => id \in [Slots -> Requests]
  PROVE  inbox' \in [Slots -> Seq(Messages)]
  <1>1. ASSUME NEW s \in Slots PROVE Msg(type, id[s]) \in Messages
    BY DEF Msg, Messages
  <1>2. ASSUME NEW s \in Slots PROVE Append(inbox[s], Msg(type, id[s])) \in Seq(Messages)
    BY <1>1 DEF Typed
  <1> QED
    BY <1>2 DEF Posted, Typed

\* Every worker is spawned, and nothing is asked or said.
LEMMA TypedInit == Init => Typed
  <1> SUFFICES ASSUME Init PROVE Typed
    OBVIOUS
  <1> DEFINE blank == [generation |-> 0, worker |-> FALSE, ready |-> FALSE,
                       active |-> NoJob, restarts |-> 0, startup |-> FALSE,
                       terminating |-> FALSE]
  <1>1. blank \in SlotRecs
    BY NoJobFits DEF SlotRecs
  <1>2. Spawned(blank) \in GoodSlots
    BY <1>1, SpawnedFits, ConstantsFit
  <1>3. slots \in [Slots -> GoodSlots]
    BY <1>2 DEF Init
  <1>4. outcome \in [Requests -> Outcomes]
    BY DEF Init, Outcomes
  <1>5. thread \in [Slots -> Threads]
    BY ThreadFits DEF Init
  <1>6. inbox \in [Slots -> Seq(Messages)] /\ outbox \in [Slots -> Seq(Messages)]
    BY DEF Init
  <1> QED
    BY <1>3, <1>4, <1>5, <1>6 DEF Init, Typed, Lifecycles, Running

\* Every action of the supervisor and of its workers keeps the types.
LEMMA TypedNext == Typed /\ [Next]_vars => Typed'
  <1> SUFFICES ASSUME Typed, [Next]_vars PROVE Typed'
    OBVIOUS
  <1>1. ASSUME NEW i \in Requests, Refuse(i) PROVE Typed'
    BY <1>1 DEF Typed, Refuse, Outcomes, Reasons, pool, ports, history
  <1>2. ASSUME NEW i \in Requests, NEW s \in Slots, Dispatch(i, s) PROVE Typed'
    <2>1. Job(i) \in Jobs /\ Job(i).id = i /\ i # 0
      BY ConstantsFit DEF Job, Jobs, Ids
    <2>2. slots[s] \in GoodSlots /\ slots[s].worker
      BY <1>2 DEF Dispatch, Free, Typed, GoodSlots, Shape
    <2>3. [slots[s] EXCEPT !.active = Job(i)] \in GoodSlots
      BY <2>1, <2>2 DEF GoodSlots, SlotRecs, Shape
    <2>4. slots' \in [Slots -> GoodSlots]
      BY <1>2, <2>3 DEF Dispatch, Typed
    <2>5. inbox' \in [Slots -> Seq(Messages)]
      BY <1>2, PostedFits DEF Dispatch, Ids
    <2> QED
      BY <1>2, <2>4, <2>5 DEF Typed, Dispatch, Outcomes, pool
  <1>3. ASSUME NEW s \in Slots, Abort(s) PROVE Typed'
    BY <1>3, CancelFits DEF Typed, Abort, Reasons, pool, history
  <1>4. ASSUME FirstStop PROVE Typed'
    <2>1. inbox' \in [Slots -> Seq(Messages)]
      BY <1>4, PostedFits DEF FirstStop, Ids
    <2>2. timers \union {"drain"} \in SUBSET {"drain", "stop"} /\ "Draining" \in Lifecycles
      BY DEF Typed, Lifecycles, Halting
    <2>3. lifecycle' \in Lifecycles /\ timers' \in SUBSET {"drain", "stop"} /\ stopped' \in BOOLEAN
      BY <1>4, <2>2, ChangedFits DEF FirstStop
    <2> QED
      BY <1>4, <2>1, <2>3 DEF Typed, FirstStop, history
  <1>5. ASSUME Escalate PROVE Typed'
    BY <1>5, CancelFits DEF Typed, Escalate, StopTimer, Reasons, Lifecycles, Halting, history
  <1>6. ASSUME Fail PROVE Typed'
    BY <1>6, RetireFits, WhatFits DEF Typed, Fail, Lifecycles, ports, history
  <1>7. ASSUME Close PROVE Typed'
    <2>1. timers \ {"drain"} \in SUBSET {"drain", "stop"} /\ "Cancelling" \in Lifecycles
      BY DEF Typed, Lifecycles, Halting
    <2>2. lifecycle' \in Lifecycles /\ timers' \in SUBSET {"drain", "stop"} /\ stopped' \in BOOLEAN
      BY <1>7, <2>1, ChangedFits DEF Close
    <2> QED
      BY <1>7, <2>2, RetireFits, WhatFits DEF Typed, Close, ports, history
  <1>8. ASSUME StopFires PROVE Typed'
    <2>1. timers \ {"stop"} \in SUBSET {"drain", "stop"} /\ lifecycle \in Lifecycles
      BY DEF Typed
    <2>2. lifecycle' \in Lifecycles /\ timers' \in SUBSET {"drain", "stop"} /\ stopped' \in BOOLEAN
      BY <1>8, <2>1, ChangedFits DEF StopFires
    <2> QED
      BY <1>8, <2>2, RetireFits, WhatFits DEF Typed, StopFires, ports, history
  <1>9. ASSUME NEW s \in Slots, Message(s) PROVE Typed'
    <2>1. CASE Ignored(s)
      BY <2>1, ReceivedFits DEF Typed, Ignored, pool, history
    <2>2. CASE WorkerReady(s)
      <3>1. slots[s] \in GoodSlots /\ slots[s].worker
        BY <2>2 DEF WorkerReady, Heard, Typed
      <3>2. [slots[s] EXCEPT !.startup = FALSE, !.ready = TRUE] \in GoodSlots
        BY <3>1 DEF GoodSlots, SlotRecs, Shape
      <3>3. slots' = [slots EXCEPT ![s] = [slots[s] EXCEPT !.startup = FALSE, !.ready = TRUE]]
        BY <2>2 DEF WorkerReady, Typed, GoodSlots
      <3>4. slots' \in [Slots -> GoodSlots]
        BY <3>2, <3>3 DEF Typed
      <3>5. lifecycle' \in Lifecycles /\ timers' \in SUBSET {"drain", "stop"} /\ stopped' \in BOOLEAN
        BY <2>2, ChangedFits DEF WorkerReady, Typed
      <3> QED
        BY <2>2, <3>4, <3>5, ReceivedFits DEF WorkerReady, Heard, Typed, history
    <2>3. CASE WorkerResult(s)
      <3>1. [slots[s] EXCEPT !.active = NoJob] \in GoodSlots
        BY NoJobFits DEF Typed, GoodSlots, SlotRecs, Shape
      <3>2. slots' \in [Slots -> GoodSlots] /\ outcome' \in [Requests -> Outcomes]
        BY <2>3, <3>1, ToldFits, WhatFits DEF WorkerResult, Typed
      <3> QED
        BY <2>3, <3>2, ReceivedFits DEF WorkerResult, Heard, Typed, pool, history
    <2>4. CASE WorkerLost(s)
      BY <2>4, ReceivedFits, RetireFits, WhatFits DEF Typed, WorkerLost, Heard, pool, history
    <2>5. CASE WorkerStopped(s)
      BY <2>5, ReceivedFits, RetireFits, WhatFits DEF Typed, WorkerStopped, Heard, pool, history
    <2> QED
      BY <1>9, <2>1, <2>2, <2>3, <2>4, <2>5 DEF Message
  <1>10. ASSUME NEW s \in Slots, Timer(s) PROVE Typed'
    <2>1. CASE DeadlineFires(s)
      <3>1. slots[s] \in GoodSlots /\ DeadlineReason(s) \in Reasons \union {"none"}
        BY DEF Typed, GoodSlots, SlotRecs, Jobs, DeadlineReason, Reasons
      <3>2. slots[s].active.id # 0
        BY <2>1, <3>1, NoJobFits DEF GoodSlots, Shape, DeadlineFires
      <3>3. [slots[s] EXCEPT !.active.deadline = FALSE, !.active.reason = DeadlineReason(s)] \in GoodSlots
        <4> DEFINE why == DeadlineReason(s)
        <4>1. why \in Reasons \union {"none"}
          BY <3>1
        <4> HIDE DEF why
        <4>2. slots[s].active \in Jobs /\ slots[s].worker
          BY <3>1, <3>2, NoJobFits DEF GoodSlots, SlotRecs, Shape
        <4>3. [slots[s] EXCEPT !.active.deadline = FALSE, !.active.reason = why] \in SlotRecs
          BY <3>1, <4>1, <4>2 DEF GoodSlots, SlotRecs, Jobs
        <4>4. [slots[s] EXCEPT !.active.deadline = FALSE, !.active.reason = why] \in GoodSlots
          BY <3>1, <3>2, <4>2, <4>3 DEF GoodSlots, SlotRecs, Shape, Jobs
        <4> QED
          BY <4>4 DEF why
      <3>4. slots' = [slots EXCEPT ![s] =
               [slots[s] EXCEPT !.active.deadline = FALSE, !.active.reason = DeadlineReason(s)]]
        BY <2>1 DEF DeadlineFires, Typed
      <3>5. slots' \in [Slots -> GoodSlots]
        BY <3>3, <3>4 DEF Typed
      <3>6. [x \in Slots |-> slots[x].active.id] \in [Slots -> Ids] /\ Cancellable({s}) \in SUBSET Slots
        BY DEF Typed, GoodSlots, SlotRecs, Jobs, Cancellable
      <3>7. inbox' \in [Slots -> Seq(Messages)]
        BY <2>1, <3>6, PostedFits DEF DeadlineFires
      <3> QED
        BY <2>1, <3>5, <3>7 DEF Typed, DeadlineFires, pool, history
    <2>2. CASE CleanupFires(s)
      BY <2>2, RetireFits, WhatFits DEF Typed, CleanupFires, pool, ports, history
    <2>3. CASE StartupFires(s)
      BY <2>3, RetireFits, WhatFits DEF Typed, StartupFires, pool, ports, history
    <2> QED
      BY <1>10, <2>1, <2>2, <2>3 DEF Timer
  <1>11. ASSUME NEW s \in Slots, Terminated(s) PROVE Typed'
    <2>1. PICK kept \in Recent(s) :
            LET ended == [slots[s] EXCEPT !.terminating = FALSE]
                again == MayRespawn /\ kept < RestartLimit
            IN /\ slots' = [slots EXCEPT ![s] =
                              IF ~ MayRespawn THEN ended
                              ELSE IF again THEN Spawned([ended EXCEPT !.restarts = kept + 1])
                              ELSE [ended EXCEPT !.restarts = kept]]
               /\ thread' = [thread EXCEPT ![s] = Thread(IF again THEN "starting" ELSE "gone")]
      BY <1>11 DEF Terminated
    <2> DEFINE ended == [slots[s] EXCEPT !.terminating = FALSE]
    <2>2. slots[s] \in GoodSlots /\ ~ slots[s].worker /\ slots[s].active = NoJob
      BY <1>11 DEF Typed, GoodSlots, Shape, Terminated
    <2>3. kept \in 0 .. RestartLimit /\ (kept < RestartLimit => slots[s].generation < MaxGenerations)
      BY <2>2, ConstantsFit DEF Recent, GoodSlots, SlotRecs, Shape
    <2>4. ended \in GoodSlots /\ ended.active = NoJob /\ ~ ended.terminating
            /\ ended.generation = slots[s].generation
      BY <2>2 DEF GoodSlots, SlotRecs, Shape
    <2> HIDE DEF ended
    <2>5. kept < RestartLimit => Spawned([ended EXCEPT !.restarts = kept + 1]) \in GoodSlots
      <3> SUFFICES ASSUME kept < RestartLimit PROVE Spawned([ended EXCEPT !.restarts = kept + 1]) \in GoodSlots
        OBVIOUS
      <3>1. kept + 1 \in 0 .. RestartLimit /\ kept + 1 \in Nat
        BY <2>3, ConstantsFit
      <3>2. ended.generation + 1 \in 1 .. MaxGenerations
        BY <2>2, <2>3, <2>4, ConstantsFit DEF GoodSlots, SlotRecs, Shape
      <3> DEFINE next == [ended EXCEPT !.restarts = kept + 1]
      <3>3. next \in SlotRecs /\ next.restarts = kept + 1 /\ next.active = NoJob
              /\ next.generation = ended.generation /\ ~ next.terminating
        BY <3>1, <2>4 DEF GoodSlots, SlotRecs
      <3> HIDE DEF next
      <3>4. Spawned(next) \in GoodSlots
        BY <3>1, <3>2, <3>3, SpawnedFits
      <3> QED
        BY <3>4 DEF next
    <2>6. [ended EXCEPT !.restarts = kept] \in GoodSlots
      BY <2>3, <2>4, ConstantsFit DEF GoodSlots, SlotRecs, Shape
    <2>7. slots' \in [Slots -> GoodSlots]
      BY <2>1, <2>4, <2>5, <2>6 DEF Typed, ended
    <2>8. thread' \in [Slots -> Threads]
      BY <2>1, ThreadFits DEF Typed
    <2>9. lifecycle' \in Lifecycles /\ timers' \in SUBSET {"drain", "stop"} /\ stopped' \in BOOLEAN
      BY <1>11, ChangedFits DEF Terminated, Typed
    <2>10. <<>> \in Seq(Messages)
      OBVIOUS
    <2> QED
      BY <1>11, <2>7, <2>8, <2>9, <2>10 DEF Terminated, Typed, history
  <1>12. ASSUME NEW s \in Slots, Worker(s) PROVE Typed'
    <2>1. CASE ThreadReady(s)
      <3>1. [thread[s] EXCEPT !.phase = "serving"] \in Threads
        BY DEF Typed, Threads
      <3>2. <<Msg("ready", 0)>> \in Seq(Messages)
        BY DEF Msg, Messages, Ids
      <3> QED
        BY <2>1, <3>1, <3>2, PostsFits DEF ThreadReady, Typed, pool, history
    <2>2. CASE ThreadFails(s)
      <3>1. Thread("failed") \in Threads /\ <<Msg("failed", 0)>> \in Seq(Messages)
        BY ThreadFits DEF Msg, Messages, Ids
      <3> QED
        BY <2>2, <3>1, PostsFits DEF ThreadFails, Failing, Typed, pool, history
    <2>3. CASE TakeRequest(s)
      <3>1. Thread("failed") \in Threads /\ <<Msg("failed", 0)>> \in Seq(Messages) /\ <<>> \in Seq(Messages)
        BY ThreadFits DEF Msg, Messages, Ids
      <3>2. inbox[s] \in Seq(Messages) /\ inbox[s] # <<>>
        BY <2>3 DEF TakeRequest, Taken, Typed
      <3>3. inbox' \in [Slots -> Seq(Messages)]
        BY <2>3, <3>2, HeadFits DEF TakeRequest, Taken, Typed
      <3>4. [thread[s] EXCEPT !.job = Head(inbox[s]).id, !.aborted = FALSE] \in Threads
        <4>1. Head(inbox[s]).id \in Ids /\ thread[s] \in Threads
          BY <3>2, HeadFits DEF Typed
        <4> QED
          BY <4>1 DEF Threads
      <3>5. thread' \in [Slots -> Threads] /\ outbox' \in [Slots -> Seq(Messages)]
        BY <2>3, <3>1, <3>4, PostsFits DEF TakeRequest, Failing
      <3>6. ran' \subseteq Requests
        <4>1. ran' = ran \/ ran' = ran \union {Head(inbox[s]).id}
          BY <2>3 DEF TakeRequest
        <4>2. Head(inbox[s]).id \in Requests
          BY <2>3, <3>2, HeadFits DEF TakeRequest, Taken, Messages
        <4> QED
          BY <4>1, <4>2 DEF Typed
      <3> QED
        BY <2>3, <3>3, <3>5, <3>6 DEF TakeRequest, Typed, pool
    <2>4. CASE TakeCancel(s)
      <3>1. inbox[s] \in Seq(Messages) /\ inbox[s] # <<>> /\ <<>> \in Seq(Messages)
        BY <2>4 DEF TakeCancel, Taken, Typed
      <3>2. inbox' \in [Slots -> Seq(Messages)]
        BY <2>4, <3>1, HeadFits DEF TakeCancel, Taken, Typed
      <3>3. thread[s] \in Threads /\ [thread[s] EXCEPT !.aborted = TRUE] \in Threads
        BY DEF Typed, Threads
      <3> QED
        BY <2>4, <3>1, <3>2, <3>3, PostsFits DEF TakeCancel, Typed, pool, history
    <2>5. CASE TakeStop(s)
      <3>1. inbox[s] \in Seq(Messages) /\ inbox[s] # <<>> /\ <<>> \in Seq(Messages)
        BY <2>5 DEF TakeStop, Taken, Typed
      <3>2. inbox' \in [Slots -> Seq(Messages)]
        BY <2>5, <3>1, HeadFits DEF TakeStop, Taken, Typed
      <3>3. [thread[s] EXCEPT !.stopping = TRUE] \in Threads
        BY DEF Typed, Threads
      <3> QED
        BY <2>5, <3>1, <3>2, <3>3, PostsFits DEF TakeStop, Typed, pool, history
    <2>6. CASE Answer(s)
      <3>1. [thread[s] EXCEPT !.job = 0] \in Threads /\ Msg("stopped", 0) \in Messages
              /\ Msg("result", thread[s].job) \in Messages
        BY DEF Typed, Threads, Ids, Msg, Messages
      <3>2. <<Msg("result", thread[s].job)>>
              \o (IF thread[s].stopped THEN <<Msg("stopped", 0)>> ELSE <<>>) \in Seq(Messages)
        BY <3>1
      <3> QED
        BY <2>6, <3>1, <3>2, PostsFits DEF Answer, Typed, pool, history
    <2>7. CASE MainEnds(s)
      <3>1. [thread[s] EXCEPT !.stopped = TRUE] \in Threads /\ Msg("stopped", 0) \in Messages
        BY DEF Typed, Threads, Ids, Msg, Messages
      <3>2. (IF thread[s].job = 0 THEN <<Msg("stopped", 0)>> ELSE <<>>) \in Seq(Messages)
        BY <3>1
      <3> QED
        BY <2>7, <3>1, <3>2, PostsFits DEF MainEnds, Typed, pool, history
    <2> QED
      BY <1>12, <2>1, <2>2, <2>3, <2>4, <2>5, <2>6, <2>7 DEF Worker
  <1>13. CASE UNCHANGED vars
    BY <1>13 DEF Typed, vars, pool, ports, history
  <1> QED
    BY <1>1, <1>2, <1>3, <1>4, <1>5, <1>6, <1>7, <1>8, <1>9, <1>10, <1>11, <1>12, <1>13
    DEF Next, Api, SecondStop, DrainFires
-----------------------------------------------------------------------------
(* What the announced end means.                                           *)

Occupied(s) == slots[s].worker \/ slots[s].terminating

\* A thread that is there has a slot that knows of it, and an announced end
\* leaves no slot that does.
Joins ==
  /\ \A s \in Slots : thread[s].phase # "gone" => Occupied(s)
  /\ stopped => lifecycle \in {"Stopped", "Failed"} /\ \A s \in Slots : ~ Occupied(s)

\* retire trades a worker for a termination: the slot stays occupied.
LEMMA RetireOccupies ==
  ASSUME Typed, NEW S \in SUBSET Slots, NEW what, Retire(S, what)
  PROVE  \A s \in Slots : /\ Occupied(s)' <=> Occupied(s)
                          /\ slots'[s].generation = slots[s].generation
  <1> TAKE s \in Slots
  <1>1. slots'[s] = IF s \in S /\ slots[s].worker THEN Retired(slots[s]) ELSE slots[s]
    BY DEF Retire
  <1>2. slots[s] \in GoodSlots
    BY DEF Typed
  <1> QED
    BY <1>1, <1>2, RetiredFits DEF Occupied

\* cancel leaves workers and terminations alone.
LEMMA CancelOccupies ==
  ASSUME Typed, NEW S \in SUBSET Slots, NEW reason, Cancel(S, reason)
  PROVE  \A s \in Slots : /\ Occupied(s)' <=> Occupied(s)
                          /\ slots'[s].generation = slots[s].generation
  <1> TAKE s \in Slots
  <1>1. slots'[s] = IF s \in Cancellable(S) THEN [slots[s] EXCEPT !.active.reason = reason] ELSE slots[s]
    BY DEF Cancel
  <1>2. slots[s] \in GoodSlots
    BY DEF Typed
  <1> QED
    BY <1>1, <1>2 DEF Occupied, GoodSlots, SlotRecs

\* Only the end of a terminate() changes whether a slot has a thread, and which.
LEMMA OnlyTerminated ==
  ASSUME Typed, Next, \A s \in Slots : ~ Terminated(s)
  PROVE  \A s \in Slots : /\ Occupied(s)' <=> Occupied(s)
                          /\ slots'[s].generation = slots[s].generation
                          /\ thread'[s].phase # "gone" => thread[s].phase # "gone"
  <1> DEFINE Same == \A s \in Slots : /\ Occupied(s)' <=> Occupied(s)
                                      /\ slots'[s].generation = slots[s].generation
             Kept == \A s \in Slots : thread'[s].phase # "gone" => thread[s].phase # "gone"
  <1>1. ASSUME UNCHANGED slots PROVE Same
    BY <1>1 DEF Occupied
  <1>2. ASSUME UNCHANGED thread PROVE Kept
    BY <1>2
  <1>3. ASSUME NEW s \in Slots, NEW t, NEW q, thread[s].phase # "gone", Posts(s, t, q) PROVE Kept
    BY <1>3 DEF Posts, Typed
  <1> HIDE DEF Same, Kept
  <1>4. ASSUME NEW i \in Requests, Refuse(i) PROVE Same /\ Kept
    BY <1>4, <1>1, <1>2 DEF Refuse
  <1>5. ASSUME NEW i \in Requests, NEW s \in Slots, Dispatch(i, s) PROVE Same /\ Kept
    <2>1. Same
      BY <1>5 DEF Dispatch, Same, Occupied, Typed, GoodSlots, SlotRecs
    <2> QED
      BY <1>2, <1>5, <2>1 DEF Dispatch
  <1>6. ASSUME NEW s \in Slots, Abort(s) PROVE Same /\ Kept
    BY <1>6, <1>2, CancelOccupies DEF Abort, Same
  <1>7. ASSUME FirstStop PROVE Same /\ Kept
    BY <1>7, <1>1, <1>2 DEF FirstStop
  <1>8. ASSUME Escalate PROVE Same /\ Kept
    BY <1>8, <1>2, CancelOccupies DEF Escalate, Same
  <1>9. ASSUME Fail \/ Close \/ StopFires PROVE Same /\ Kept
    BY <1>9, <1>2, RetireOccupies DEF Fail, Close, StopFires, Same
  <1>10. ASSUME NEW s \in Slots, Message(s) PROVE Same /\ Kept
    <2>1. CASE Ignored(s)
      BY <2>1, <1>1, <1>2 DEF Ignored
    <2>2. CASE WorkerReady(s)
      <3>1. Same
        BY <2>2 DEF WorkerReady, Same, Occupied, Typed, GoodSlots, SlotRecs
      <3> QED
        BY <1>2, <2>2, <3>1 DEF WorkerReady
    <2>3. CASE WorkerResult(s)
      <3>1. Same
        <4>1. CASE UNCHANGED slots
          BY <4>1, <1>1
        <4>2. CASE slots' = [slots EXCEPT ![s].active = NoJob]
          <5>1. \A r \in Slots : slots[r] \in SlotRecs
            BY DEF Typed, GoodSlots
          <5>2. slots'[s] = [slots[s] EXCEPT !.active = NoJob] /\ \A r \in Slots \ {s} : slots'[r] = slots[r]
            BY <4>2 DEF Typed
          <5> QED
            BY <5>1, <5>2 DEF Same, Occupied, SlotRecs
        <4>3. UNCHANGED slots \/ slots' = [slots EXCEPT ![s].active = NoJob]
          BY <2>3 DEF WorkerResult
        <4> QED
          BY <4>1, <4>2, <4>3
      <3> QED
        BY <1>2, <2>3, <3>1 DEF WorkerResult
    <2>4. CASE WorkerLost(s) \/ WorkerStopped(s)
      BY <2>4, <1>2, RetireOccupies DEF WorkerLost, WorkerStopped, Same
    <2> QED
      BY <1>10, <2>1, <2>2, <2>3, <2>4 DEF Message
  <1>11. ASSUME NEW s \in Slots, Timer(s) PROVE Same /\ Kept
    <2>1. CASE DeadlineFires(s)
      <3>1. Same
        BY <2>1 DEF DeadlineFires, Same, Occupied, Typed, GoodSlots, SlotRecs
      <3> QED
        BY <1>2, <2>1, <3>1 DEF DeadlineFires
    <2>2. CASE CleanupFires(s) \/ StartupFires(s)
      BY <2>2, <1>2, RetireOccupies DEF CleanupFires, StartupFires, Same
    <2> QED
      BY <1>11, <2>1, <2>2 DEF Timer
  <1>12. ASSUME NEW s \in Slots, Worker(s) PROVE Same /\ Kept
    <2>1. Same
      BY <1>12, <1>1 DEF Worker, ThreadReady, ThreadFails, TakeRequest, TakeCancel, TakeStop, Answer, MainEnds
    <2>2. thread[s].phase # "gone"
      BY <1>12 DEF Worker, ThreadReady, ThreadFails, TakeRequest, TakeCancel, TakeStop, Answer, MainEnds,
                   Taken, Alive
    <2>3. Kept
      BY <1>12, <1>3, <2>2 DEF Worker, ThreadReady, ThreadFails, TakeRequest, TakeCancel, TakeStop,
                              Answer, MainEnds, Failing
    <2> QED
      BY <2>1, <2>3
  <1>13. Same /\ Kept
    BY <1>4, <1>5, <1>6, <1>7, <1>8, <1>9, <1>10, <1>11, <1>12
    DEF Next, Api, SecondStop, DrainFires
  <1> QED
    BY <1>13 DEF Same, Kept

\* What is announced: the lifecycle after each kind of step.
LEMMA Announced ==
  ASSUME Typed, Next
  PROVE  /\ stopped' => stopped \/ \A s \in Slots : ~ Occupied(s)'
         /\ stopped' /\ ~ stopped => lifecycle' = "Stopped"
         /\ \/ lifecycle' = lifecycle
            \/ lifecycle' = "Ready" /\ lifecycle = "Starting"
            \/ lifecycle' = "Stopped" /\ \A s \in Slots : ~ Occupied(s)'
            \/ lifecycle' = "Draining" /\ lifecycle \notin Halting \union {"Stopped"}
                 /\ UNCHANGED slots /\ ~ \A s \in Slots : ~ Occupied(s)'
            \/ lifecycle' = "Cancelling" /\ lifecycle = "Draining"
            \/ lifecycle' = "Cancelling" /\ lifecycle # "Stopped" /\ ~ \A s \in Slots : ~ Occupied(s)'
            \/ lifecycle' = "Failed" /\ UNCHANGED stopped
  <1> DEFINE joined == \A s \in Slots : ~ Occupied(s)'
  <1>1. ASSUME NEW stage, NEW set, Changed(stage, set)
        PROVE  /\ \/ lifecycle' = stage
                  \/ stage = "Starting" /\ lifecycle' = "Ready"
                  \/ stage \in Halting /\ joined /\ lifecycle' = "Stopped"
               /\ stage \in Halting /\ joined => lifecycle' = "Stopped"
               /\ stopped' = (stopped \/ (stage \in Halting /\ joined))
    BY <1>1 DEF Changed, Joined, Occupied, Halting
  <1> HIDE DEF joined
  <1>2. CASE UNCHANGED <<lifecycle, stopped>>
    BY <1>2
  <1>3. CASE \E s \in Slots : WorkerReady(s) \/ Terminated(s)
    BY <1>1, <1>3 DEF WorkerReady, Terminated, joined
  <1>4. CASE StopFires
    BY <1>1, <1>4 DEF StopFires, joined
  <1>5. CASE FirstStop
    <2>1. Changed("Draining", timers \union {"drain"}) /\ "Draining" \in Halting
      BY <1>5 DEF FirstStop, Halting
    <2>2. \/ lifecycle' = "Draining" /\ ~ joined
          \/ lifecycle' = "Stopped" /\ joined
      BY <2>1, <1>1
    <2>3. stopped' = (stopped \/ joined)
      BY <2>1, <1>1
    <2> QED
      BY <1>5, <2>2, <2>3 DEF FirstStop, joined
  <1>6. CASE Close
    <2>1. Changed("Cancelling", timers \ {"drain"}) /\ "Cancelling" \in Halting
      BY <1>6 DEF Close, Halting
    <2>2. \/ lifecycle' = "Cancelling" /\ ~ joined
          \/ lifecycle' = "Stopped" /\ joined
      BY <2>1, <1>1
    <2>3. stopped' = (stopped \/ joined)
      BY <2>1, <1>1
    <2> QED
      BY <1>6, <2>2, <2>3 DEF Close, joined
  <1>7. CASE Escalate
    BY <1>7 DEF Escalate
  <1>8. CASE Fail
    BY <1>8 DEF Fail
  <1>9. \/ UNCHANGED <<lifecycle, stopped>> \/ StopFires \/ FirstStop \/ Close \/ Escalate \/ Fail
        \/ \E s \in Slots : WorkerReady(s) \/ Terminated(s)
    BY DEF Next, Api, SecondStop, DrainFires, Refuse, Dispatch, Abort, Message, Ignored, WorkerResult,
           WorkerLost, WorkerStopped, Timer, DeadlineFires, CleanupFires, StartupFires, Worker, ThreadReady,
           ThreadFails, TakeRequest, TakeCancel, TakeStop, Answer, MainEnds, pool
  <1> QED
    BY <1>2, <1>3, <1>4, <1>5, <1>6, <1>7, <1>8, <1>9

\* At the start every slot has its worker.
LEMMA JoinsInit == Init => Joins
  <1> SUFFICES ASSUME Init PROVE Joins
    OBVIOUS
  <1>1. \A s \in Slots : slots[s].worker
    BY DEF Init, Spawned
  <1> QED
    BY <1>1 DEF Init, Joins, Occupied

\* A thread ends only when terminate() does, and the end is announced last.
LEMMA JoinsNext == Typed /\ Joins /\ [Next]_vars => Joins'
  <1> SUFFICES ASSUME Typed, Joins, [Next]_vars PROVE Joins'
    OBVIOUS
  <1>1. CASE UNCHANGED vars
    BY <1>1 DEF Joins, Occupied, vars, pool
  <1>2. CASE Next /\ \A s \in Slots : ~ Terminated(s)
    <2>1. \A s \in Slots : thread'[s].phase # "gone" => Occupied(s)'
      BY <1>2, OnlyTerminated DEF Joins
    <2>2. ASSUME stopped' PROVE lifecycle' \in {"Stopped", "Failed"} /\ \A s \in Slots : ~ Occupied(s)'
      <3>1. \A s \in Slots : ~ Occupied(s)'
        BY <1>2, <2>2, OnlyTerminated, Announced DEF Joins
      <3> QED
        BY <1>2, <2>2, <3>1, Announced DEF Joins, Halting
    <2> QED
      BY <2>1, <2>2 DEF Joins
  <1>3. ASSUME NEW s \in Slots, Next, Terminated(s) PROVE Joins'
    <2>1. slots[s].terminating /\ Occupied(s)
      BY <1>3 DEF Terminated, Occupied
    <2>2. ~ stopped
      BY <2>1 DEF Joins
    <2>3. \A r \in Slots \ {s} : slots'[r] = slots[r] /\ thread'[r] = thread[r]
      BY <1>3 DEF Terminated, Typed
    <2>4. thread'[s].phase # "gone" => Occupied(s)'
      BY <1>3 DEF Terminated, Typed, GoodSlots, SlotRecs, Spawned, Thread, Occupied
    <2> QED
      BY <1>3, <2>2, <2>3, <2>4, Announced DEF Joins, Occupied
  <1> QED
    BY <1>1, <1>2, <1>3

-----------------------------------------------------------------------------
(***************************************************************************)
(* README.md:124: when stop() and close() complete, no worker thread is    *)
(* left, for any number of slots, requests and restarts.                   *)
(***************************************************************************)
THEOREM JoinedCompletion == Spec => []CompletionJoins
  <1>1. Init => Typed /\ Joins
    BY TypedInit, JoinsInit
  <1>2. Typed /\ Joins /\ [Next]_vars => (Typed /\ Joins)'
    BY TypedNext, JoinsNext
  <1>3. Typed /\ Joins => CompletionJoins
    BY DEF Joins, CompletionJoins, Occupied
  <1> QED
    BY <1>1, <1>2, <1>3, PTL DEF Spec

(***************************************************************************)
(* terminate() may end after a stop, a close or a failure began: no worker *)
(* is started then, in any slot.                                           *)
(***************************************************************************)
THEOREM NoneStartedLate == Spec => StopIsFinal
  <1> DEFINE Final == lifecycle \notin Running =>
                        \A s \in Slots : slots'[s].generation = slots[s].generation
  <1>1. Typed /\ [Next]_vars => [Final]_vars
    <2> SUFFICES ASSUME Typed, [Next]_vars PROVE [Final]_vars
      OBVIOUS
    <2>1. CASE UNCHANGED vars
      BY <2>1
    <2>2. CASE Next /\ \A s \in Slots : ~ Terminated(s)
      BY <2>2, OnlyTerminated
    <2>3. ASSUME NEW s \in Slots, Terminated(s), lifecycle \notin Running
          PROVE  \A r \in Slots : slots'[r].generation = slots[r].generation
      <3>1. slots' = [slots EXCEPT ![s] = [slots[s] EXCEPT !.terminating = FALSE]]
        BY <2>3 DEF Terminated, MayRespawn
      <3>2. /\ slots'[s] = [slots[s] EXCEPT !.terminating = FALSE]
            /\ \A r \in Slots \ {s} : slots'[r] = slots[r]
        BY <3>1 DEF Typed
      <3>3. slots[s] \in SlotRecs
        BY DEF Typed, GoodSlots
      <3> QED
        BY <3>2, <3>3 DEF SlotRecs
    <2> QED
      BY <2>1, <2>2, <2>3
  <1> HIDE DEF Final
  <1>2. Init => Typed
    BY TypedInit
  <1>3. Typed /\ [Next]_vars => Typed'
    BY TypedNext
  <1>4. Spec => [][Final]_vars
    BY <1>1, <1>2, <1>3, PTL DEF Spec
  <1> QED
    BY <1>4 DEF StopIsFinal, Final

-----------------------------------------------------------------------------
(* Requests and slots.                                                     *)

\* A job is of one slot, and its request is the one that is not told yet.
Opens ==
  /\ \A s, r \in Slots : slots[s].active.id # 0 /\ slots[s].active.id = slots[r].active.id => s = r
  /\ \A s \in Slots : slots[s].active.id # 0 => outcome[slots[s].active.id] = "pending"
  /\ \A i \in Requests : outcome[i] = "pending" => \E s \in Slots : slots[s].active.id = i

\* Steps that touch neither a job nor an outcome.
LEMMA OpensKept ==
  ASSUME Opens, UNCHANGED outcome, \A s \in Slots : slots'[s].active.id = slots[s].active.id
  PROVE  Opens'
  BY DEF Opens

\* settle: the slots that lose their jobs are those whose requests are told.
LEMMA OpensTold ==
  ASSUME Typed, Opens, NEW S \in SUBSET Slots, NEW what \in [Slots -> Lost], Told(S, what),
         \A s \in Slots : slots'[s].active.id = IF s \in S THEN 0 ELSE slots[s].active.id
  PROVE  Opens'
  <1> DEFINE told(i) == \E s \in S : slots[s].active.id = i
             teller(i) == CHOOSE s \in S : slots[s].active.id = i
  <1>1. \A i \in Requests : told(i) => outcome'[i] # "pending"
    <2> SUFFICES ASSUME NEW i \in Requests, told(i) PROVE outcome'[i] # "pending"
      OBVIOUS
    <2>1. outcome'[i] = what[teller(i)]
      BY DEF Told
    <2>2. teller(i) \in S
      OBVIOUS
    <2> HIDE DEF teller
    <2> QED
      BY <2>1, <2>2 DEF Lost, Reasons
  <1>2. \A i \in Requests : ~ told(i) => outcome'[i] = outcome[i]
    BY DEF Told
  <1>3. \A s \in Slots : slots[s].active.id # 0 => slots[s].active.id \in Requests
    BY DEF Typed, GoodSlots, SlotRecs, Jobs, Ids
  <1> HIDE DEF teller
  <1>4. ASSUME NEW s \in Slots, slots'[s].active.id # 0 PROVE outcome'[slots'[s].active.id] = "pending"
    <2>1. s \notin S /\ slots'[s].active.id = slots[s].active.id /\ slots[s].active.id \in Requests
      BY <1>3, <1>4
    <2>2. ~ told(slots[s].active.id)
      BY <2>1, <1>4 DEF Opens
    <2> QED
      BY <1>2, <1>4, <2>1, <2>2 DEF Opens
  <1>5. ASSUME NEW i \in Requests, outcome'[i] = "pending" PROVE \E s \in Slots : slots'[s].active.id = i
    <2>1. ~ told(i) /\ outcome[i] = "pending"
      BY <1>1, <1>2, <1>5
    <2> QED
      BY <2>1 DEF Opens
  <1>6. ASSUME NEW s \in Slots, NEW r \in Slots, slots'[s].active.id # 0,
               slots'[s].active.id = slots'[r].active.id
        PROVE  s = r
    BY <1>6 DEF Opens
  <1> QED
    BY <1>4, <1>5, <1>6 DEF Opens

\* retire tells the requests of the slots whose jobs it drops.
LEMMA OpensRetire ==
  ASSUME Typed, Opens, NEW S \in SUBSET Slots, NEW what \in [Slots -> Lost], Retire(S, what)
  PROVE  Opens'
  <1> DEFINE gone == {s \in S : slots[s].worker}
  <1>1. gone \in SUBSET Slots /\ Told(gone, what)
    BY DEF Retire
  <1>2. ASSUME NEW s \in Slots PROVE slots'[s].active.id = IF s \in gone THEN 0 ELSE slots[s].active.id
    <2>1. slots'[s] = IF s \in gone THEN Retired(slots[s]) ELSE slots[s]
      BY DEF Retire
    <2>2. Retired(slots[s]).active.id = 0
      BY RetiredFits, NoJobFits DEF Typed
    <2> QED
      BY <2>1, <2>2
  <1> HIDE DEF gone
  <1> QED
    BY <1>1, <1>2, OpensTold

\* A cancelled job keeps its slot.
LEMMA CancelKeepsJobs ==
  ASSUME Typed, NEW S \in SUBSET Slots, NEW reason, Cancel(S, reason)
  PROVE  \A s \in Slots : slots'[s].active.id = slots[s].active.id
  <1> TAKE s \in Slots
  <1>1. slots'[s] = IF s \in Cancellable(S) THEN [slots[s] EXCEPT !.active.reason = reason] ELSE slots[s]
    BY DEF Cancel
  <1>2. slots[s] \in SlotRecs
    BY DEF Typed, GoodSlots
  <1> QED
    BY <1>1, <1>2 DEF SlotRecs, Jobs

\* At the start no request is open and no slot has a job.
LEMMA OpensInit == Init => Opens
  <1> SUFFICES ASSUME Init PROVE Opens
    OBVIOUS
  <1> DEFINE blank == [generation |-> 0, worker |-> FALSE, ready |-> FALSE,
                       active |-> NoJob, restarts |-> 0, startup |-> FALSE,
                       terminating |-> FALSE]
  <1>1. Spawned(blank).active = NoJob
    BY DEF Spawned
  <1>2. \A s \in Slots : slots[s].active.id = 0
    BY <1>1, NoJobFits DEF Init
  <1>3. \A i \in Requests : outcome[i] = "none"
    BY DEF Init
  <1> QED
    BY <1>2, <1>3, ConstantsFit DEF Opens

\* Every step keeps jobs and open requests in agreement.
LEMMA OpensNext == Typed /\ Opens /\ [Next]_vars => Opens'
  <1> SUFFICES ASSUME Typed, Opens, [Next]_vars PROVE Opens'
    OBVIOUS
  <1>0. \A s \in Slots : slots[s] \in GoodSlots /\ slots[s] \in SlotRecs /\ slots[s].active \in Jobs
    BY DEF Typed, GoodSlots, SlotRecs
  <1>1. CASE UNCHANGED <<slots, outcome>>
    BY <1>1, OpensKept
  <1>2. ASSUME NEW i \in Requests, Refuse(i) PROVE Opens'
    <2>1. outcome[i] = "none" /\ UNCHANGED slots
      BY <1>2 DEF Refuse, NextRequest
    <2>2. outcome'[i] # "pending" /\ \A j \in Requests \ {i} : outcome'[j] = outcome[j]
      BY <1>2 DEF Refuse, Typed
    <2>3. \A s \in Slots : slots[s].active.id # 0 => slots[s].active.id \in Requests \ {i}
      BY <1>0, <2>1 DEF Jobs, Ids, Opens
    <2> QED
      BY <2>1, <2>2, <2>3 DEF Opens
  <1>3. ASSUME NEW i \in Requests, NEW s \in Slots, Dispatch(i, s) PROVE Opens'
    <2>1. outcome[i] = "none" /\ slots[s].active = NoJob /\ slots[s].active.id = 0
      BY <1>3, NoJobFits DEF Dispatch, NextRequest, Free
    <2>2. outcome'[i] = "pending" /\ \A j \in Requests \ {i} : outcome'[j] = outcome[j]
      BY <1>3 DEF Dispatch, Typed
    <2>3. slots'[s].active.id = i /\ \A r \in Slots \ {s} : slots'[r] = slots[r]
      BY <1>0, <1>3 DEF Dispatch, Typed, SlotRecs, Job
    <2>4. \A r \in Slots : slots[r].active.id # 0 => slots[r].active.id \in Requests \ {i}
      BY <1>0, <2>1 DEF Jobs, Ids, Opens
    <2>5. \A r \in Slots : slots'[r].active.id # 0 => outcome'[slots'[r].active.id] = "pending"
      BY <2>2, <2>3, <2>4 DEF Opens
    <2>6. \A j \in Requests : outcome'[j] = "pending" => \E r \in Slots : slots'[r].active.id = j
      <3> SUFFICES ASSUME NEW j \in Requests, outcome'[j] = "pending", j # i
                   PROVE  \E r \in Slots : slots'[r].active.id = j
        BY <2>3
      <3>1. PICK r \in Slots : slots[r].active.id = j
        BY <2>2 DEF Opens
      <3>2. r # s
        BY <2>1, <3>1, ConstantsFit
      <3> QED
        BY <2>3, <3>1, <3>2
    <2>7. \A r, x \in Slots : slots'[r].active.id # 0 /\ slots'[r].active.id = slots'[x].active.id => r = x
      BY <2>3, <2>4 DEF Opens
    <2> QED
      BY <2>5, <2>6, <2>7 DEF Opens
  <1>4. ASSUME NEW s \in Slots, Abort(s) PROVE Opens'
    BY <1>4, CancelKeepsJobs, OpensKept DEF Abort
  <1>5. ASSUME Escalate PROVE Opens'
    BY <1>5, CancelKeepsJobs, OpensKept DEF Escalate
  <1>6. ASSUME Fail \/ Close \/ StopFires PROVE Opens'
    BY <1>6, WhatFits, OpensRetire DEF Fail, Close, StopFires
  <1>7. ASSUME NEW s \in Slots, Message(s) PROVE Opens'
    <2>1. CASE Ignored(s)
      BY <2>1, <1>1 DEF Ignored
    <2>2. CASE WorkerReady(s)
      <3>1. \A r \in Slots : slots'[r].active = slots[r].active
        BY <1>0, <2>2 DEF WorkerReady, Typed, SlotRecs
      <3> QED
        BY <2>2, <3>1, OpensKept DEF WorkerReady
    <2>3. CASE WorkerResult(s) /\ ~ UNCHANGED <<slots, outcome>>
      <3>1. Told({s}, Answered) /\ slots' = [slots EXCEPT ![s].active = NoJob]
        BY <2>3 DEF WorkerResult
      <3>2. slots'[s].active.id = 0 /\ \A r \in Slots \ {s} : slots'[r] = slots[r]
        BY <1>0, <3>1, NoJobFits DEF Typed, SlotRecs
      <3> QED
        BY <3>1, <3>2, WhatFits, OpensTold
    <2>4. CASE WorkerLost(s) \/ WorkerStopped(s)
      BY <2>4, WhatFits, OpensRetire DEF WorkerLost, WorkerStopped
    <2> QED
      BY <1>1, <1>7, <2>1, <2>2, <2>3, <2>4 DEF Message
  <1>8. ASSUME NEW s \in Slots, Timer(s) PROVE Opens'
    <2>1. CASE DeadlineFires(s)
      <3>1. \A r \in Slots : slots'[r].active.id = slots[r].active.id
        BY <1>0, <2>1 DEF DeadlineFires, Typed, SlotRecs, Jobs
      <3> QED
        BY <2>1, <3>1, OpensKept DEF DeadlineFires
    <2>2. CASE CleanupFires(s) \/ StartupFires(s)
      BY <2>2, WhatFits, OpensRetire DEF CleanupFires, StartupFires
    <2> QED
      BY <1>8, <2>1, <2>2 DEF Timer
  <1>9. ASSUME NEW s \in Slots, Terminated(s) PROVE Opens'
    <2>1. \A r \in Slots : slots'[r].active = slots[r].active
      BY <1>0, <1>9 DEF Terminated, Typed, SlotRecs, Spawned
    <2> QED
      BY <1>9, <2>1, OpensKept DEF Terminated
  <1>10. ASSUME NEW s \in Slots, Worker(s) PROVE Opens'
    BY <1>1, <1>10 DEF Worker, ThreadReady, ThreadFails, TakeRequest, TakeCancel, TakeStop, Answer, MainEnds
  <1>11. ASSUME FirstStop PROVE Opens'
    BY <1>1, <1>11 DEF FirstStop
  <1> QED
    BY <1>1, <1>2, <1>3, <1>4, <1>5, <1>6, <1>7, <1>8, <1>9, <1>10, <1>11
    DEF Next, Api, SecondStop, DrainFires, vars

\* The agreement, counted.
LEMMA OpensMeans == Typed /\ Opens => OpenRequestsHaveASlot
  <1> SUFFICES ASSUME Typed, Opens, NEW i \in Requests
               PROVE  Cardinality({s \in Slots : slots[s].active.id = i})
                        = IF outcome[i] = "pending" THEN 1 ELSE 0
    BY DEF OpenRequestsHaveASlot
  <1> DEFINE holders == {s \in Slots : slots[s].active.id = i}
  <1>1. i # 0
    BY ConstantsFit
  <1>2. CASE outcome[i] = "pending"
    <2>1. PICK s \in Slots : slots[s].active.id = i
      BY <1>2 DEF Opens
    <2>2. holders = {s}
      BY <1>1, <2>1 DEF Opens
    <2> QED
      BY <1>2, <2>2, FS_Singleton
  <1>3. CASE outcome[i] # "pending"
    <2>1. holders = {}
      BY <1>1, <1>3 DEF Opens
    <2> QED
      BY <1>3, <2>1, FS_EmptySet
  <1> QED
    BY <1>2, <1>3

-----------------------------------------------------------------------------
(* Messages in a port.                                                     *)

Has(q, type)  == \E k \in 1 .. Len(q) : q[k].type = type
Once(q, type) == \A k, l \in 1 .. Len(q) : q[k].type = type /\ q[l].type = type => k = l

\* Every "stop" is behind the requests, and so is the cancellation of i.
StopsBehind(q)     == \A k, l \in 1 .. Len(q) : q[k].type = "request" /\ q[l].type = "stop" => k < l
CancelBehind(q, i) == \A k \in 1 .. Len(q) : q[k].type = "request" =>
                        \E l \in 1 .. Len(q) : k < l /\ q[l] = Msg("cancel", i)
Cancels(q, i)      == \E k \in 1 .. Len(q) : q[k] = Msg("cancel", i)

\* A message that is posted last.
LEMMA AppendHas ==
  ASSUME NEW q \in Seq(Messages), NEW m \in Messages
  PROVE  /\ \A type : Has(Append(q, m), type) <=> Has(q, type) \/ m.type = type
         /\ \A type : Once(q, type) /\ (m.type = type => ~ Has(q, type)) => Once(Append(q, m), type)
         /\ StopsBehind(q) /\ (m.type = "request" => ~ Has(q, "stop")) => StopsBehind(Append(q, m))
         /\ \A i : Cancels(q, i) \/ m = Msg("cancel", i) => Cancels(Append(q, m), i)
         /\ \A i : m.type # "request" /\ CancelBehind(q, i) => CancelBehind(Append(q, m), i)
         /\ \A i : m = Msg("cancel", i) => CancelBehind(Append(q, m), i)
  <1> DEFINE p == Append(q, m)
             n == Len(q)
  <1>1. /\ n \in Nat /\ Len(p) = n + 1 /\ p[n + 1] = m
        /\ \A k \in 1 .. n : p[k] = q[k] /\ k \in 1 .. n + 1
        /\ \A k \in 1 .. n + 1 : k = n + 1 \/ k \in 1 .. n
        /\ n + 1 \in 1 .. n + 1 /\ \A k \in 1 .. n : k < n + 1
    OBVIOUS
  <1> HIDE DEF p, n
  <1>2. \A type : Has(p, type) <=> Has(q, type) \/ m.type = type
    BY <1>1 DEF Has, n
  <1>3. \A type : Once(q, type) /\ (m.type = type => ~ Has(q, type)) => Once(p, type)
    BY <1>1 DEF Has, Once, n
  <1>4. StopsBehind(q) /\ (m.type = "request" => ~ Has(q, "stop")) => StopsBehind(p)
    BY <1>1 DEF Has, StopsBehind, n
  <1>5. \A i : Cancels(q, i) \/ m = Msg("cancel", i) => Cancels(p, i)
    BY <1>1 DEF Cancels, n
  <1>6. \A i : m.type # "request" /\ CancelBehind(q, i) => CancelBehind(p, i)
    BY <1>1 DEF CancelBehind, n
  <1>7. \A i : m = Msg("cancel", i) => CancelBehind(p, i)
    <2> SUFFICES ASSUME NEW i, m = Msg("cancel", i), NEW k \in 1 .. n + 1, p[k].type = "request"
                 PROVE  k < n + 1
      BY <1>1 DEF CancelBehind
    <2>1. m.type = "cancel"
      BY DEF Msg
    <2> QED
      BY <1>1, <2>1
  <1> QED
    BY <1>2, <1>3, <1>4, <1>5, <1>6, <1>7 DEF p

\* The first message is taken.
LEMMA TailHas ==
  ASSUME NEW q \in Seq(Messages), q # <<>>
  PROVE  /\ \A type : Has(Tail(q), type) => Has(q, type)
         /\ Has(q, Head(q).type)
         /\ \A type : Once(q, type) => Once(Tail(q), type)
         /\ Once(q, Head(q).type) => ~ Has(Tail(q), Head(q).type)
         /\ StopsBehind(q) => StopsBehind(Tail(q))
         /\ StopsBehind(q) /\ Head(q).type = "stop" => ~ Has(Tail(q), "request")
         /\ \A i : Cancels(q, i) => Head(q) = Msg("cancel", i) \/ Cancels(Tail(q), i)
         /\ \A i : CancelBehind(q, i) => CancelBehind(Tail(q), i)
         /\ \A i : CancelBehind(q, i) /\ Head(q).type = "request" => Cancels(Tail(q), i)
  <1> DEFINE p == Tail(q)
             n == Len(p)
  <1>1. /\ n \in Nat /\ Len(q) = n + 1 /\ Head(q) = q[1]
        /\ \A k \in 1 .. n : p[k] = q[k + 1]
    BY HeadFits
  <1> HIDE DEF p, n
  <1>2. /\ 1 \in 1 .. n + 1
        /\ \A k \in 1 .. n : k + 1 \in 1 .. n + 1 /\ 1 < k + 1 /\ ~ (k + 1 < 1)
        /\ \A k \in 1 .. n + 1 : k = 1 \/ (k - 1 \in 1 .. n /\ (k - 1) + 1 = k)
        /\ \A k, l \in 1 .. n : (k + 1 < l + 1 <=> k < l) /\ (k + 1 = l + 1 => k = l)
    BY <1>1
  <1>3. \A type : Has(p, type) => Has(q, type)
    BY <1>1, <1>2 DEF Has, n
  <1>4. Has(q, Head(q).type)
    BY <1>1, <1>2 DEF Has
  <1>5. \A type : Once(q, type) => Once(p, type)
    BY <1>1, <1>2 DEF Once, n
  <1>6. Once(q, Head(q).type) => ~ Has(p, Head(q).type)
    BY <1>1, <1>2 DEF Once, Has, n
  <1>7. StopsBehind(q) => StopsBehind(p)
    BY <1>1, <1>2 DEF StopsBehind, n
  <1>8. StopsBehind(q) /\ Head(q).type = "stop" => ~ Has(p, "request")
    BY <1>1, <1>2 DEF StopsBehind, Has, n
  <1>9. \A i : Cancels(q, i) => Head(q) = Msg("cancel", i) \/ Cancels(p, i)
    <2> SUFFICES ASSUME NEW i, Cancels(q, i), q[1] # Msg("cancel", i)
                 PROVE  \E l \in 1 .. n : p[l] = Msg("cancel", i)
      BY <1>1 DEF Cancels, n
    <2>1. PICK l \in 1 .. n + 1 : l # 1 /\ q[l] = Msg("cancel", i)
      BY <1>1 DEF Cancels
    <2>2. l - 1 \in 1 .. n /\ (l - 1) + 1 = l
      BY <1>1, <2>1
    <2> QED
      BY <1>1, <2>1, <2>2
  <1>10. \A i : CancelBehind(q, i) => CancelBehind(p, i)
    <2> SUFFICES ASSUME NEW i, CancelBehind(q, i), NEW k \in 1 .. n, p[k].type = "request"
                 PROVE  \E l \in 1 .. n : k < l /\ p[l] = Msg("cancel", i)
      BY DEF CancelBehind, n
    <2>1. PICK l \in 1 .. n + 1 : k + 1 < l /\ q[l] = Msg("cancel", i)
      BY <1>1, <1>2 DEF CancelBehind
    <2>2. l - 1 \in 1 .. n /\ k < l - 1 /\ (l - 1) + 1 = l
      BY <1>1, <2>1
    <2> QED
      BY <1>1, <2>1, <2>2
  <1>11. \A i : CancelBehind(q, i) /\ Head(q).type = "request" => Cancels(p, i)
    <2> SUFFICES ASSUME NEW i, CancelBehind(q, i), q[1].type = "request"
                 PROVE  \E l \in 1 .. n : p[l] = Msg("cancel", i)
      BY <1>1 DEF Cancels, n
    <2>1. PICK l \in 1 .. n + 1 : 1 < l /\ q[l] = Msg("cancel", i)
      BY <1>1, <1>2 DEF CancelBehind
    <2>2. l - 1 \in 1 .. n /\ (l - 1) + 1 = l
      BY <1>1, <2>1
    <2> QED
      BY <1>1, <2>1, <2>2
  <1> QED
    BY <1>3, <1>4, <1>5, <1>6, <1>7, <1>8, <1>9, <1>10, <1>11 DEF p

\* An empty port.
LEMMA EmptyHas ==
  ASSUME NEW q, q = <<>>
  PROVE  /\ \A type : ~ Has(q, type) /\ Once(q, type)
         /\ StopsBehind(q) /\ \A i : CancelBehind(q, i)
  BY DEF Has, Once, StopsBehind, CancelBehind

-----------------------------------------------------------------------------
(* What a worker has been sent, what it does and what it says.             *)

\* At most one of: a request in the port, a running one, a result.
Quiet(q, p, t) ==
  /\ Once(q, "request") /\ Once(p, "result") /\ StopsBehind(q)
  /\ Has(q, "request") => t.job = 0 /\ ~ t.stopping /\ ~ Has(p, "result")
  /\ Has(p, "result") => t.job = 0

Idle(q, p, t)  == ~ Has(q, "request") /\ ~ Has(p, "result") /\ t.job = 0
Unhalted(q, t) == ~ Has(q, "stop") /\ ~ t.stopping

\* A cancelled job: its thread knows, or will read of it after the request.
Knows(job, q, t) ==
  job.reason # "none" => /\ t.job = job.id => t.aborted \/ Cancels(q, job.id)
                         /\ CancelBehind(q, job.id)

Port(s) == /\ Quiet(inbox[s], outbox[s], thread[s])
           /\ slots[s].worker /\ slots[s].active.id = 0 => Idle(inbox[s], outbox[s], thread[s])
           /\ lifecycle \in Running => Unhalted(inbox[s], thread[s])
           /\ Knows(slots[s].active, inbox[s], thread[s])

Ports == \A s \in Slots : Port(s)

\* No step goes back to a stage in which workers are restarted.
LEMMA StaysHalted == Typed /\ Next => (lifecycle' \in Running => lifecycle \in Running)
  BY Announced DEF Running

\* The ports are as they were, and the slot keeps its worker's job or loses both.
LEMMA PortKept ==
  ASSUME NEW s \in Slots, Port(s),
         inbox'[s] = inbox[s], outbox'[s] = outbox[s], thread'[s] = thread[s],
         lifecycle' \in Running => lifecycle \in Running,
         slots'[s].worker => slots[s].worker /\ slots'[s].active.id = slots[s].active.id,
         slots'[s].active = slots[s].active \/ slots'[s].active.reason = "none"
  PROVE  Port(s)'
  BY DEF Port, Knows

\* retire touches no port, and a retired slot promises nothing of its own.
LEMMA PortRetire ==
  ASSUME Typed, Ports, NEW S \in SUBSET Slots, NEW what, Retire(S, what), UNCHANGED <<thread, ports>>,
         lifecycle' \in Running => lifecycle \in Running
  PROVE  Ports'
  <1> SUFFICES ASSUME NEW s \in Slots PROVE Port(s)'
    BY DEF Ports
  <1>1. slots'[s] = slots[s] \/ slots'[s] = Retired(slots[s])
    BY DEF Retire
  <1>2. ~ Retired(slots[s]).worker /\ Retired(slots[s]).active.reason = "none"
    BY RetiredFits, NoJobFits DEF Typed
  <1> QED
    BY <1>1, <1>2, PortKept DEF Ports, ports

\* A job is cancelled: the worker is posted that.
LEMMA PortCancelled ==
  ASSUME Typed, NEW s \in Slots, Port(s),
         slots[s].active.id # 0, slots'[s].active.id = slots[s].active.id,
         inbox'[s] = Append(inbox[s], Msg("cancel", slots[s].active.id)),
         outbox'[s] = outbox[s], thread'[s] = thread[s],
         lifecycle' \in Running => lifecycle \in Running
  PROVE  Port(s)'
  <1> DEFINE q == inbox[s]
             m == Msg("cancel", slots[s].active.id)
  <1>1. q \in Seq(Messages) /\ m \in Messages /\ m.type = "cancel"
    BY DEF Typed, GoodSlots, SlotRecs, Jobs, Messages, Msg
  <1> HIDE DEF q
  <1>2. /\ \A type : Has(Append(q, m), type) <=> Has(q, type) \/ m.type = type
        /\ Once(q, "request") => Once(Append(q, m), "request")
        /\ StopsBehind(q) => StopsBehind(Append(q, m))
        /\ Cancels(Append(q, m), slots[s].active.id) /\ CancelBehind(Append(q, m), slots[s].active.id)
    BY <1>1, AppendHas
  <1>3. inbox'[s] = Append(q, m)
    BY DEF q
  <1> HIDE DEF m
  <1>4. Quiet(inbox[s], outbox[s], thread[s])' /\ (lifecycle \in Running => Unhalted(inbox[s], thread[s]))'
    BY <1>1, <1>2, <1>3 DEF Port, Quiet, Unhalted, q
  <1>5. Knows(slots[s].active, inbox[s], thread[s])'
    BY <1>2, <1>3 DEF Knows
  <1> QED
    BY <1>4, <1>5 DEF Port

\* cancel posts to the workers of the jobs it marks, and only to them.
LEMMA PortCancel ==
  ASSUME Typed, Ports, NEW S \in SUBSET Slots, NEW reason \in Reasons, Cancel(S, reason),
         UNCHANGED <<thread, outbox>>, lifecycle' \in Running => lifecycle \in Running
  PROVE  Ports'
  <1> SUFFICES ASSUME NEW s \in Slots PROVE Port(s)'
    BY DEF Ports
  <1>1. CASE s \in Cancellable(S)
    <2>1. slots[s].active # NoJob /\ slots[s] \in GoodSlots
      BY <1>1 DEF Cancellable, Typed
    <2>2. slots[s].active.id # 0
      BY <2>1 DEF GoodSlots, Shape
    <2>3. inbox'[s] = Append(inbox[s], Msg("cancel", slots[s].active.id))
      BY <1>1 DEF Cancel, Posted
    <2>4. slots'[s].active.id = slots[s].active.id
      BY CancelKeepsJobs
    <2> QED
      BY <2>2, <2>3, <2>4, PortCancelled DEF Ports
  <1>2. CASE s \notin Cancellable(S)
    <2>1. slots'[s] = slots[s] /\ inbox'[s] = inbox[s]
      BY <1>2 DEF Cancel, Posted
    <2> QED
      BY <2>1, PortKept DEF Ports
  <1> QED
    BY <1>1, <1>2

\* dispatch: the worker has nothing to do and was not stopped.
LEMMA PortDispatch ==
  ASSUME Typed, Ports, NEW i \in Requests, NEW s \in Slots, Dispatch(i, s)
  PROVE  Ports'
  <1>1. slots[s].worker /\ slots[s].active.id = 0 /\ lifecycle \in Running
    BY NoJobFits DEF Dispatch, Free, Typed, GoodSlots, Shape, Running
  <1>2. Idle(inbox[s], outbox[s], thread[s]) /\ Unhalted(inbox[s], thread[s])
          /\ Quiet(inbox[s], outbox[s], thread[s])
    BY <1>1 DEF Ports, Port
  <1> DEFINE q == inbox[s]
             m == Msg("request", i)
  <1>3. q \in Seq(Messages) /\ m \in Messages /\ m.type = "request"
    BY ConstantsFit DEF Typed, Messages, Msg, Ids
  <1> HIDE DEF q
  <1>4. /\ \A type : Has(Append(q, m), type) <=> Has(q, type) \/ m.type = type
        /\ Once(Append(q, m), "request") /\ StopsBehind(Append(q, m))
    BY <1>2, <1>3, AppendHas DEF Idle, Quiet, Unhalted, q
  <1>5. inbox'[s] = Append(q, m) /\ outbox'[s] = outbox[s] /\ thread'[s] = thread[s]
    BY DEF q, Dispatch, Posted
  <1>6. slots'[s].active = Job(i) /\ slots'[s].active.id # 0 /\ slots'[s].active.reason = "none"
    <2>1. slots' = [slots EXCEPT ![s].active = Job(i)]
      BY DEF Dispatch
    <2>2. slots'[s].active = Job(i)
      BY <2>1 DEF Typed, GoodSlots, SlotRecs
    <2>3. Job(i).id = i /\ Job(i).reason = "none" /\ i # 0
      BY ConstantsFit DEF Job
    <2> QED
      BY <2>2, <2>3
  <1> HIDE DEF m
  <1>7. Port(s)'
    <2>1. Quiet(inbox[s], outbox[s], thread[s])'
      BY <1>2, <1>3, <1>4, <1>5 DEF Idle, Unhalted, Quiet, q
    <2>2. Unhalted(inbox[s], thread[s])'
      BY <1>2, <1>3, <1>4, <1>5 DEF Unhalted, q
    <2> QED
      BY <1>6, <2>1, <2>2 DEF Port, Knows
  <1>8. ASSUME NEW r \in Slots \ {s} PROVE Port(r)'
    <2>1. slots'[r] = slots[r] /\ inbox'[r] = inbox[r] /\ UNCHANGED <<lifecycle, outbox, thread>>
      BY DEF Dispatch, Posted, Typed, pool
    <2> QED
      BY <2>1, PortKept DEF Ports
  <1> QED
    BY <1>7, <1>8 DEF Ports

\* The stop is posted behind whatever is in the ports already.
LEMMA PortFirstStop ==
  ASSUME Typed, Ports, FirstStop
  PROVE  Ports'
  <1>1. lifecycle' \notin Running
    BY DEF FirstStop, Changed, Running, Halting
  <1> SUFFICES ASSUME NEW s \in Slots PROVE Port(s)'
    BY DEF Ports
  <1>2. CASE ~ slots[s].worker
    <2>1. slots'[s] = slots[s] /\ inbox'[s] = inbox[s] /\ UNCHANGED <<outbox, thread>>
      BY <1>2 DEF FirstStop, Posted
    <2> QED
      BY <1>1, <2>1, PortKept DEF Ports
  <1>3. CASE slots[s].worker
    <2> DEFINE q == inbox[s]
               m == Msg("stop", 0)
    <2>1. q \in Seq(Messages) /\ m \in Messages /\ m.type = "stop"
      BY DEF Typed, Messages, Msg, Ids
    <2> HIDE DEF q
    <2>2. /\ \A type : Has(Append(q, m), type) <=> Has(q, type) \/ m.type = type
          /\ Once(q, "request") => Once(Append(q, m), "request")
          /\ StopsBehind(q) => StopsBehind(Append(q, m))
          /\ \A i : Cancels(q, i) => Cancels(Append(q, m), i)
          /\ \A i : CancelBehind(q, i) => CancelBehind(Append(q, m), i)
      BY <2>1, AppendHas
    <2>3. inbox'[s] = Append(q, m) /\ slots' = slots /\ UNCHANGED <<outbox, thread>>
      BY <1>3 DEF q, FirstStop, Posted
    <2> HIDE DEF m
    <2>4. Port(s)
      BY DEF Ports
    <2>5. Quiet(inbox[s], outbox[s], thread[s])'
      BY <2>1, <2>2, <2>3, <2>4 DEF Port, Quiet, q
    <2>6. (slots[s].worker /\ slots[s].active.id = 0 => Idle(inbox[s], outbox[s], thread[s]))'
      BY <2>1, <2>2, <2>3, <2>4 DEF Port, Idle, q
    <2>7. Knows(slots[s].active, inbox[s], thread[s])'
      BY <2>2, <2>3, <2>4 DEF Port, Knows, q
    <2> QED
      BY <1>1, <2>5, <2>6, <2>7 DEF Port
  <1> QED
    BY <1>2, <1>3

\* A deadline cancels once, and is told to the worker when it does.
LEMMA PortDeadline ==
  ASSUME Typed, Ports, NEW s \in Slots, DeadlineFires(s)
  PROVE  Ports'
  <1>1. slots[s] \in SlotRecs /\ slots[s].active \in Jobs /\ slots[s] \in GoodSlots
    BY DEF Typed, GoodSlots, SlotRecs
  <1> DEFINE why == DeadlineReason(s)
  <1> HIDE DEF why
  <1>2. /\ slots'[s] = [slots[s] EXCEPT !.active.deadline = FALSE, !.active.reason = why]
        /\ \A r \in Slots \ {s} : slots'[r] = slots[r]
    BY DEF DeadlineFires, Typed, why
  <1>3. /\ slots'[s].active.id = slots[s].active.id /\ slots'[s].active.reason = why
        /\ slots'[s].worker = slots[s].worker
    <2> DEFINE old == slots[s]
               now == slots'[s]
    <2>1. /\ old \in SlotRecs /\ old.active \in Jobs
          /\ now = [old EXCEPT !.active.deadline = FALSE, !.active.reason = why]
      BY <1>1, <1>2
    <2> HIDE DEF old, now
    <2>2. now.active = [old.active EXCEPT !.deadline = FALSE, !.reason = why] /\ now.worker = old.worker
      BY <2>1 DEF SlotRecs
    <2> DEFINE job == old.active
    <2>3. job \in Jobs /\ now.active = [job EXCEPT !.deadline = FALSE, !.reason = why]
      BY <2>1, <2>2
    <2> HIDE DEF job
    <2>4. now.active.id = job.id
      BY <2>3 DEF Jobs
    <2>5. now.active.reason = why
      BY <2>3 DEF Jobs
    <2> QED
      BY <2>2, <2>4, <2>5 DEF old, now, job
  <1>4. /\ lifecycle' = lifecycle /\ outbox'[s] = outbox[s] /\ thread'[s] = thread[s] /\ Port(s)
        /\ UNCHANGED <<outbox, thread>>
    BY DEF DeadlineFires, pool, Ports
  <1>5. Port(s)'
    <2>1. CASE s \in Cancellable({s})
      <3>1. slots[s].active.id # 0
        BY <1>1, <2>1 DEF Cancellable, GoodSlots, Shape
      <3>2. inbox'[s] = Append(inbox[s], Msg("cancel", slots[s].active.id))
        BY <2>1 DEF DeadlineFires, Posted
      <3> QED
        BY <1>3, <1>4, <3>1, <3>2, PortCancelled
    <2>2. CASE s \notin Cancellable({s})
      <3>1. why = slots[s].active.reason /\ inbox'[s] = inbox[s]
        BY <2>2 DEF why, DeadlineReason, DeadlineFires, Posted
      <3>2. Knows(slots[s].active, inbox[s], thread[s])'
        BY <1>3, <1>4, <3>1 DEF Port, Knows
      <3> QED
        BY <1>3, <1>4, <3>1, <3>2 DEF Port
    <2> QED
      BY <2>1, <2>2
  <1>6. ASSUME NEW r \in Slots \ {s} PROVE Port(r)'
    <2>1. inbox'[r] = inbox[r]
      BY DEF DeadlineFires, Posted, Cancellable
    <2> QED
      BY <1>2, <1>4, <2>1, PortKept DEF Ports
  <1> QED
    BY <1>5, <1>6 DEF Ports

\* The supervisor takes the first message of a worker.
LEMMA PortHeard ==
  ASSUME Typed, NEW s \in Slots, Port(s), outbox[s] # <<>>, outbox'[s] = Tail(outbox[s]),
         inbox'[s] = inbox[s], thread'[s] = thread[s], lifecycle' \in Running => lifecycle \in Running,
         slots'[s].worker => slots[s].worker,
         \/ slots'[s].active = slots[s].active
         \/ ~ slots'[s].worker /\ slots'[s].active.reason = "none"
         \/ Head(outbox[s]).type = "result" /\ slots'[s].active.reason = "none"
  PROVE  Port(s)'
  <1> DEFINE p == outbox[s]
  <1>1. p \in Seq(Messages) /\ p # <<>> /\ outbox'[s] = Tail(p)
    BY DEF Typed
  <1> HIDE DEF p
  <1>2. /\ Has(Tail(p), "result") => Has(p, "result")
        /\ Once(p, "result") => Once(Tail(p), "result")
        /\ Head(p).type = "result" => Has(p, "result")
        /\ Once(p, "result") /\ Head(p).type = "result" => ~ Has(Tail(p), "result")
    <2>1. Has(p, Head(p).type)
      BY <1>1, TailHas
    <2>2. Once(p, Head(p).type) => ~ Has(Tail(p), Head(p).type)
      BY <1>1, TailHas
    <2>3. (Has(Tail(p), "result") => Has(p, "result")) /\ (Once(p, "result") => Once(Tail(p), "result"))
      BY <1>1, TailHas
    <2> QED
      BY <2>1, <2>2, <2>3
  <1>3. Quiet(inbox[s], p, thread[s]) /\ (slots[s].worker /\ slots[s].active.id = 0 => Idle(inbox[s], p, thread[s]))
    BY DEF Port, p
  <1>4. Quiet(inbox[s], outbox[s], thread[s])'
    BY <1>1, <1>2, <1>3 DEF Quiet
  <1>5. (slots[s].worker /\ slots[s].active.id = 0 => Idle(inbox[s], outbox[s], thread[s]))'
    BY <1>1, <1>2, <1>3 DEF Quiet, Idle, p
  <1>6. Knows(slots[s].active, inbox[s], thread[s])'
    BY DEF Port, Knows
  <1> QED
    BY <1>4, <1>5, <1>6 DEF Port

\* Each message leaves the slot and its ports in agreement.
LEMMA PortMessage ==
  ASSUME Typed, Ports, NEW s \in Slots, Message(s), lifecycle' \in Running => lifecycle \in Running
  PROVE  Ports'
  <1>0. \A r \in Slots : slots[r] \in GoodSlots /\ slots[r] \in SlotRecs
    BY DEF Typed, GoodSlots
  <1>1. Received(s) /\ UNCHANGED <<inbox, thread>> /\ outbox[s] # <<>>
    BY DEF Message, Ignored, WorkerReady, WorkerResult, WorkerLost, WorkerStopped, Heard
  <1>2. outbox'[s] = Tail(outbox[s]) /\ \A r \in Slots \ {s} : outbox'[r] = outbox[r]
    BY <1>1 DEF Received, Typed
  <1> DEFINE Fits == /\ \A r \in Slots \ {s} : slots'[r] = slots[r]
                     /\ slots'[s].worker => slots[s].worker
                     /\ \/ slots'[s].active = slots[s].active
                        \/ ~ slots'[s].worker /\ slots'[s].active.reason = "none"
                        \/ Head(outbox[s]).type = "result" /\ slots'[s].active.reason = "none"
  <1>3. Fits
    <2>1. CASE UNCHANGED slots
      BY <2>1
    <2>2. CASE WorkerReady(s)
      BY <2>2, <1>0 DEF WorkerReady, Typed, SlotRecs
    <2>3. CASE WorkerResult(s) /\ slots' = [slots EXCEPT ![s].active = NoJob]
      <3>1. Head(outbox[s]).type = "result"
        BY <2>3 DEF WorkerResult
      <3>2. slots'[s] = [slots[s] EXCEPT !.active = NoJob] /\ \A r \in Slots \ {s} : slots'[r] = slots[r]
        BY <2>3 DEF Typed
      <3>3. slots'[s].active = NoJob /\ slots'[s].worker = slots[s].worker
        BY <1>0, <3>2 DEF SlotRecs
      <3> QED
        BY <3>1, <3>2, <3>3, NoJobFits
    <2>4. ASSUME NEW what, Retire({s}, what), slots[s].worker PROVE Fits
      <3>1. slots'[s] = Retired(slots[s]) /\ \A r \in Slots \ {s} : slots'[r] = slots[r]
        BY <2>4 DEF Retire
      <3>2. ~ Retired(slots[s]).worker /\ Retired(slots[s]).active.reason = "none"
        BY <1>0, RetiredFits, NoJobFits
      <3> QED
        BY <3>1, <3>2
    <2>5. CASE Ignored(s)
      BY <2>1, <2>5 DEF Ignored
    <2>6. CASE WorkerResult(s)
      BY <2>1, <2>3, <2>6 DEF WorkerResult
    <2>7. CASE WorkerLost(s) \/ WorkerStopped(s)
      BY <2>4, <2>7 DEF WorkerLost, WorkerStopped, Heard
    <2> HIDE DEF Fits
    <2> QED
      BY <2>2, <2>5, <2>6, <2>7 DEF Message
  <1>4. Port(s)'
    BY <1>1, <1>2, <1>3, PortHeard DEF Ports
  <1>5. ASSUME NEW r \in Slots \ {s} PROVE Port(r)'
    BY <1>1, <1>2, <1>3, PortKept DEF Ports
  <1> QED
    BY <1>4, <1>5 DEF Ports

\* The end of a terminate() empties both ports.
LEMMA PortTerminated ==
  ASSUME Typed, Ports, NEW s \in Slots, Terminated(s), lifecycle' \in Running => lifecycle \in Running
  PROVE  Ports'
  <1>1. slots[s] \in SlotRecs /\ slots[s].active = NoJob
    BY DEF Typed, GoodSlots, Shape, Terminated
  <1>2. slots'[s].active = slots[s].active
    BY <1>1 DEF Terminated, Typed, SlotRecs, Spawned
  <1>3. thread'[s].job = 0 /\ ~ thread'[s].stopping
    BY DEF Terminated, Typed, Thread
  <1>4. inbox'[s] = <<>> /\ outbox'[s] = <<>>
    BY DEF Terminated, Typed
  <1>5. Port(s)'
    BY <1>1, <1>2, <1>3, <1>4, EmptyHas, NoJobFits DEF Port, Quiet, Idle, Unhalted, Knows
  <1>6. ASSUME NEW r \in Slots \ {s} PROVE Port(r)'
    <2>1. slots'[r] = slots[r] /\ inbox'[r] = inbox[r] /\ outbox'[r] = outbox[r] /\ thread'[r] = thread[r]
      BY DEF Terminated, Typed
    <2> QED
      BY <2>1, PortKept DEF Ports
  <1> QED
    BY <1>5, <1>6 DEF Ports

\* A worker's step that posts no result.
LEMMA PostsNoResult ==
  ASSUME NEW p \in Seq(Messages), NEW q, q = <<>> \/ \E m \in Messages : q = <<m>> /\ m.type # "result"
  PROVE  /\ Has(p \o q, "result") <=> Has(p, "result")
         /\ Once(p, "result") => Once(p \o q, "result")
  <1>1. CASE q = <<>>
    BY <1>1
  <1>2. ASSUME NEW m \in Messages, q = <<m>>, m.type # "result"
        PROVE  /\ Has(p \o q, "result") <=> Has(p, "result")
               /\ Once(p, "result") => Once(p \o q, "result")
    <2>1. p \o q = Append(p, m)
      BY <1>2
    <2> QED
      BY <1>2, <2>1, AppendHas
  <1> QED
    BY <1>1, <1>2

\* The first result of a worker is its only one.
LEMMA PostsResult ==
  ASSUME NEW p \in Seq(Messages), NEW m \in Messages, m.type = "result", ~ Has(p, "result"),
         NEW q, q = <<>> \/ q = <<Msg("stopped", 0)>>
  PROVE  Once(p \o (<<m>> \o q), "result")
  <1>1. Append(p, m) \in Seq(Messages) /\ Once(Append(p, m), "result")
    <2>1. Once(p, "result")
      BY DEF Once, Has
    <2> QED
      BY <2>1, AppendHas
  <1>2. p \o (<<m>> \o q) = Append(p, m) \o q
    OBVIOUS
  <1>3. Msg("stopped", 0) \in Messages /\ Msg("stopped", 0).type # "result"
    BY DEF Msg, Messages, Ids
  <1> QED
    BY <1>1, <1>2, <1>3, PostsNoResult

\* A worker's step is its own.
LEMMA WorkerAlone ==
  ASSUME Typed, Ports, NEW s \in Slots, Worker(s), Port(s)'
  PROVE  Ports'
  <1>1. UNCHANGED <<lifecycle, slots>>
    BY DEF Worker, ThreadReady, ThreadFails, TakeRequest, TakeCancel, TakeStop, Answer, MainEnds, pool
  <1>2. ASSUME NEW t, NEW q, Posts(s, t, q) PROVE \A r \in Slots \ {s} : thread'[r] = thread[r] /\ outbox'[r] = outbox[r]
    BY <1>2 DEF Posts, Typed
  <1>3. \A r \in Slots \ {s} : thread'[r] = thread[r] /\ outbox'[r] = outbox[r]
    BY <1>2 DEF Worker, ThreadReady, ThreadFails, TakeRequest, TakeCancel, TakeStop, Answer, MainEnds, Failing
  <1>4. \A r \in Slots \ {s} : inbox'[r] = inbox[r]
    BY DEF Worker, ThreadReady, ThreadFails, TakeRequest, TakeCancel, TakeStop, Answer, MainEnds, Taken, Typed
  <1>5. ASSUME NEW r \in Slots \ {s} PROVE Port(r)'
    BY <1>1, <1>3, <1>4, PortKept DEF Ports
  <1> QED
    BY <1>5 DEF Ports

\* A job that is cancelled is a request's.
LEMMA ReasonHasJob ==
  ASSUME Typed, NEW s \in Slots, slots[s].active.reason # "none"
  PROVE  slots[s].active.id # 0
  BY NoJobFits DEF Typed, GoodSlots, Shape

\* It posts no result and reads nothing.
LEMMA PortPosts ==
  ASSUME Typed, NEW s \in Slots, Port(s), NEW t \in Threads, NEW q,
         q = <<>> \/ \E m \in Messages : q = <<m>> /\ m.type # "result",
         Posts(s, t, q), UNCHANGED <<lifecycle, slots>>, inbox'[s] = inbox[s],
         t.job \in {0, thread[s].job}, t.stopping => thread[s].stopping,
         t.job # 0 => t.aborted = thread[s].aborted
  PROVE  Port(s)'
  <1>1. outbox'[s] = outbox[s] \o q /\ thread'[s] = t
    BY DEF Posts, Typed
  <1>2. /\ Has(outbox[s] \o q, "result") <=> Has(outbox[s], "result")
        /\ Once(outbox[s], "result") => Once(outbox[s] \o q, "result")
    BY PostsNoResult DEF Typed
  <1>3. Quiet(inbox[s], outbox[s], thread[s])'
    BY <1>1, <1>2 DEF Port, Quiet
  <1>4. (slots[s].worker /\ slots[s].active.id = 0 => Idle(inbox[s], outbox[s], thread[s]))'
    BY <1>1, <1>2 DEF Port, Idle
  <1>5. (lifecycle \in Running => Unhalted(inbox[s], thread[s]))'
    BY <1>1 DEF Port, Unhalted
  <1>6. Knows(slots[s].active, inbox[s], thread[s])'
    BY <1>1, ReasonHasJob DEF Port, Knows
  <1> QED
    BY <1>3, <1>4, <1>5, <1>6 DEF Port

\* Reading: what the rest of the port is, and what the thread makes of it.
LEMMA PortTakes ==
  ASSUME Typed, NEW s \in Slots, Port(s), NEW type \in {"request", "cancel", "stop"}, Taken(s, type),
         NEW t \in Threads, Posts(s, t, <<>>), UNCHANGED <<lifecycle, slots>>,
         type = "request" => t.job = Head(inbox[s]).id /\ ~ t.aborted /\ t.stopping = thread[s].stopping,
         type # "request" => t.job = thread[s].job,
         type = "cancel" => /\ t.stopping = thread[s].stopping
                            /\ t.aborted = (thread[s].aborted \/ thread[s].job = Head(inbox[s]).id),
         type = "stop" => t.aborted = thread[s].aborted
  PROVE  Port(s)'
  <1> DEFINE q == inbox[s]
             rest == Tail(q)
  <1>1. q \in Seq(Messages) /\ q # <<>> /\ Head(q).type = type /\ inbox'[s] = rest
    BY DEF Taken, Typed
  <1>2. outbox'[s] = outbox[s] /\ thread'[s] = t
    <2>1. outbox[s] \o <<>> = outbox[s]
      BY DEF Typed
    <2> QED
      BY <2>1 DEF Posts, Typed
  <1> HIDE DEF q
  <1>3. /\ \A x : Has(rest, x) => Has(q, x)
        /\ Has(q, type)
        /\ Once(q, "request") => Once(rest, "request")
        /\ Once(q, "request") /\ type = "request" => ~ Has(rest, "request")
        /\ StopsBehind(q) => StopsBehind(rest)
        /\ StopsBehind(q) /\ type = "stop" => ~ Has(rest, "request")
        /\ \A i : CancelBehind(q, i) => CancelBehind(rest, i)
        /\ \A i : CancelBehind(q, i) /\ type = "request" => Cancels(rest, i)
    BY <1>1, TailHas
  <1>4. \A i : Cancels(q, i) => Head(q) = Msg("cancel", i) \/ Cancels(rest, i)
    BY <1>1, TailHas
  <1> HIDE DEF rest
  <1>5. /\ Quiet(q, outbox[s], thread[s]) /\ Knows(slots[s].active, q, thread[s])
        /\ slots[s].worker /\ slots[s].active.id = 0 => Idle(q, outbox[s], thread[s])
        /\ lifecycle \in Running => Unhalted(q, thread[s])
    BY DEF Port, q
  <1>6. Quiet(inbox[s], outbox[s], thread[s])'
    BY <1>1, <1>2, <1>3, <1>5 DEF Quiet
  <1>7. (slots[s].worker /\ slots[s].active.id = 0 => Idle(inbox[s], outbox[s], thread[s]))'
    BY <1>1, <1>2, <1>3, <1>5 DEF Idle
  <1>8. (lifecycle \in Running => Unhalted(inbox[s], thread[s]))'
    BY <1>1, <1>2, <1>3, <1>5 DEF Unhalted
  <1>9. Knows(slots[s].active, inbox[s], thread[s])'
    <2> SUFFICES ASSUME slots[s].active.reason # "none"
                 PROVE  /\ t.job = slots[s].active.id => t.aborted \/ Cancels(rest, slots[s].active.id)
                        /\ CancelBehind(rest, slots[s].active.id)
      BY <1>1, <1>2 DEF Knows
    <2> DEFINE i == slots[s].active.id
    <2> HIDE DEF i
    <2>1. CancelBehind(q, i) /\ CancelBehind(rest, i)
      BY <1>3, <1>5 DEF Knows, i
    <2>2. type # "request" /\ thread[s].job = i => thread[s].aborted \/ Cancels(q, i)
      BY <1>5 DEF Knows, i
    <2>3. CASE type = "request"
      BY <1>3, <2>1, <2>3 DEF i
    <2>4. CASE type = "stop"
      <3>1. Head(q) # Msg("cancel", i)
        BY <1>1, <2>4 DEF Msg
      <3> QED
        BY <1>4, <2>1, <2>2, <2>4, <3>1 DEF i
    <2>5. CASE type = "cancel"
      <3>1. Head(q) = Msg("cancel", i) => Head(inbox[s]).id = i
        BY DEF Msg, q
      <3> QED
        BY <1>4, <2>1, <2>2, <2>5, <3>1 DEF i
    <2> QED
      BY <2>3, <2>4, <2>5
  <1> QED
    BY <1>6, <1>7, <1>8, <1>9 DEF Port

\* An answer takes the place of the running request.
LEMMA PortAnswer ==
  ASSUME Typed, NEW s \in Slots, Port(s), Answer(s)
  PROVE  Port(s)'
  <1> DEFINE m == Msg("result", thread[s].job)
             q == IF thread[s].stopped THEN <<Msg("stopped", 0)>> ELSE <<>>
             t == [thread[s] EXCEPT !.job = 0]
  <1>1. /\ thread[s] \in Threads /\ outbox[s] \in Seq(Messages) /\ m \in Messages /\ m.type = "result"
        /\ q = <<>> \/ q = <<Msg("stopped", 0)>>
    BY DEF Typed, Threads, Msg, Messages
  <1>2. t.job = 0 /\ t.stopping = thread[s].stopping /\ t.aborted = thread[s].aborted
    BY <1>1 DEF Threads
  <1>3. /\ thread'[s] = t /\ outbox'[s] = outbox[s] \o (<<m>> \o q) /\ inbox'[s] = inbox[s]
        /\ UNCHANGED <<lifecycle, slots>> /\ thread[s].job # 0
    BY DEF Answer, Posts, Typed, pool
  <1> HIDE DEF m, q, t
  <1>4. ~ Has(inbox[s], "request") /\ ~ Has(outbox[s], "result")
    BY <1>3 DEF Port, Quiet
  <1>5. Once(outbox[s] \o (<<m>> \o q), "result")
    BY <1>1, <1>4, PostsResult
  <1>6. Quiet(inbox[s], outbox[s], thread[s])'
    BY <1>2, <1>3, <1>4, <1>5 DEF Port, Quiet
  <1>7. ~ (slots[s].worker /\ slots[s].active.id = 0)
    BY <1>3 DEF Port, Idle
  <1>8. (lifecycle \in Running => Unhalted(inbox[s], thread[s]))'
    BY <1>2, <1>3 DEF Port, Unhalted
  <1>9. Knows(slots[s].active, inbox[s], thread[s])'
    BY <1>2, <1>3, ReasonHasJob DEF Port, Knows
  <1> QED
    BY <1>3, <1>6, <1>7, <1>8, <1>9 DEF Port

\* Each step of a worker leaves its slot and ports in agreement.
LEMMA PortWorker ==
  ASSUME Typed, Ports, NEW s \in Slots, Worker(s)
  PROVE  Ports'
  <1>1. Port(s) /\ thread[s] \in Threads
    BY DEF Ports, Typed
  <1>2. \A type \in {"ready", "failed", "stopped"} :
          Msg(type, 0) \in Messages /\ Msg(type, 0).type # "result"
    BY DEF Msg, Messages, Ids
  <1>3. Port(s)'
    <2>1. CASE ThreadReady(s)
      <3> DEFINE t == [thread[s] EXCEPT !.phase = "serving"]
      <3>1. t \in Threads /\ t.job = thread[s].job /\ t.stopping = thread[s].stopping
              /\ t.aborted = thread[s].aborted
        BY <1>1 DEF Threads
      <3>2. Posts(s, t, <<Msg("ready", 0)>>) /\ UNCHANGED <<lifecycle, slots>> /\ inbox'[s] = inbox[s]
        BY <2>1 DEF ThreadReady, pool
      <3> HIDE DEF t
      <3> QED
        BY <1>1, <1>2, <3>1, <3>2, PortPosts
    <2>2. CASE ThreadFails(s)
      <3>1. Posts(s, Thread("failed"), <<Msg("failed", 0)>>) /\ UNCHANGED <<lifecycle, slots>>
              /\ inbox'[s] = inbox[s]
        BY <2>2 DEF ThreadFails, Failing, pool
      <3>2. Thread("failed") \in Threads /\ Thread("failed").job = 0 /\ ~ Thread("failed").stopping
        BY ThreadFits
      <3> QED
        BY <1>1, <1>2, <3>1, <3>2, PortPosts
    <2>3. CASE TakeRequest(s)
      <3> DEFINE t == [thread[s] EXCEPT !.job = Head(inbox[s]).id, !.aborted = FALSE]
      <3>1. Taken(s, "request") /\ inbox[s] \in Seq(Messages) /\ inbox[s] # <<>> /\ UNCHANGED <<lifecycle, slots>>
        BY <2>3 DEF TakeRequest, Taken, Typed, pool
      <3>2. Has(inbox[s], "request")
        <4>1. Has(inbox[s], Head(inbox[s]).type)
          BY <3>1, TailHas
        <4> QED
          BY <3>1, <4>1 DEF Taken
      <3>3. thread[s].job = 0 /\ ~ thread[s].stopping
        BY <1>1, <3>2 DEF Port, Quiet
      <3>4. Posts(s, t, <<>>)
        BY <2>3, <3>3 DEF TakeRequest
      <3>5. Head(inbox[s]).id \in Ids
        BY <3>1, HeadFits
      <3>6. t \in Threads /\ t.job = Head(inbox[s]).id /\ ~ t.aborted /\ t.stopping = thread[s].stopping
        BY <1>1, <3>5 DEF Threads
      <3> HIDE DEF t
      <3> QED
        BY <1>1, <3>1, <3>4, <3>6, PortTakes
    <2>4. CASE TakeCancel(s)
      <3> DEFINE t == IF thread[s].job = Head(inbox[s]).id THEN [thread[s] EXCEPT !.aborted = TRUE] ELSE thread[s]
      <3>1. Taken(s, "cancel") /\ Posts(s, t, <<>>) /\ UNCHANGED <<lifecycle, slots>>
        BY <2>4 DEF TakeCancel, pool
      <3>2. t \in Threads /\ t.job = thread[s].job /\ t.stopping = thread[s].stopping
        BY <1>1 DEF Threads
      <3>3. t.aborted = (thread[s].aborted \/ thread[s].job = Head(inbox[s]).id)
        <4>1. CASE thread[s].job = Head(inbox[s]).id
          BY <1>1, <4>1 DEF Threads
        <4>2. CASE thread[s].job # Head(inbox[s]).id
          <5>1. t = thread[s] /\ thread[s].aborted \in BOOLEAN
            BY <1>1, <4>2 DEF Threads
          <5> QED
            BY <4>2, <5>1
        <4> QED
          BY <4>1, <4>2
      <3> HIDE DEF t
      <3> QED
        BY <1>1, <3>1, <3>2, <3>3, PortTakes
    <2>5. CASE TakeStop(s)
      <3> DEFINE t == [thread[s] EXCEPT !.stopping = TRUE]
      <3>1. Taken(s, "stop") /\ Posts(s, t, <<>>) /\ UNCHANGED <<lifecycle, slots>>
        BY <2>5 DEF TakeStop, pool
      <3>2. t \in Threads /\ t.job = thread[s].job /\ t.aborted = thread[s].aborted
        BY <1>1 DEF Threads
      <3> HIDE DEF t
      <3> QED
        BY <1>1, <3>1, <3>2, PortTakes
    <2>6. CASE Answer(s)
      BY <1>1, <2>6, PortAnswer
    <2>7. CASE MainEnds(s)
      <3> DEFINE t == [thread[s] EXCEPT !.stopped = TRUE]
                 q == IF thread[s].job = 0 THEN <<Msg("stopped", 0)>> ELSE <<>>
      <3>1. Posts(s, t, q) /\ UNCHANGED <<lifecycle, slots>> /\ inbox'[s] = inbox[s]
        BY <2>7 DEF MainEnds, pool
      <3>2. t \in Threads /\ t.job = thread[s].job /\ t.stopping = thread[s].stopping
              /\ t.aborted = thread[s].aborted
        BY <1>1 DEF Threads
      <3>3. q = <<>> \/ \E m \in Messages : q = <<m>> /\ m.type # "result"
        BY <1>2
      <3> HIDE DEF t, q
      <3> QED
        BY <1>1, <3>1, <3>2, <3>3, PortPosts
    <2> QED
      BY <2>1, <2>2, <2>3, <2>4, <2>5, <2>6, <2>7 DEF Worker
  <1> QED
    BY <1>3, WorkerAlone

\* At the start the ports are empty.
LEMMA PortsInit == Init => Ports
  <1> SUFFICES ASSUME Init, NEW s \in Slots PROVE Port(s)
    BY DEF Ports
  <1>1. inbox[s] = <<>> /\ outbox[s] = <<>>
    BY DEF Init
  <1>2. thread[s].job = 0 /\ ~ thread[s].stopping
    BY ThreadFits DEF Init
  <1>3. slots[s].active = NoJob
    BY DEF Init, Spawned
  <1> QED
    BY <1>1, <1>2, <1>3, EmptyHas, NoJobFits DEF Port, Quiet, Idle, Unhalted, Knows

\* Every step keeps slots, ports and threads in agreement.
LEMMA PortsNext == Typed /\ Ports /\ [Next]_vars => Ports'
  <1> SUFFICES ASSUME Typed, Ports, [Next]_vars PROVE Ports'
    OBVIOUS
  <1>1. CASE UNCHANGED vars
    BY <1>1 DEF vars, pool, ports, Ports, Port
  <1>2. CASE Next
    <2>0. lifecycle' \in Running => lifecycle \in Running
      BY <1>2, StaysHalted
    <2>1. ASSUME NEW i \in Requests, Refuse(i) PROVE Ports'
      BY <2>1 DEF Refuse, pool, ports, Ports, Port
    <2>2. ASSUME NEW s \in Slots, Abort(s) PROVE Ports'
      BY <2>0, <2>2, PortCancel DEF Abort, Reasons
    <2>3. CASE Escalate
      BY <2>0, <2>3, PortCancel DEF Escalate, Reasons
    <2>4. CASE Fail \/ Close \/ StopFires
      BY <2>0, <2>4, PortRetire DEF Fail, Close, StopFires
    <2>5. ASSUME NEW s \in Slots, CleanupFires(s) \/ StartupFires(s) PROVE Ports'
      BY <2>0, <2>5, PortRetire DEF CleanupFires, StartupFires
    <2> QED
      BY <1>2, <2>0, <2>1, <2>2, <2>3, <2>4, <2>5, PortDispatch, PortFirstStop, PortDeadline, PortMessage,
         PortTerminated, PortWorker
      DEF Next, Api, SecondStop, DrainFires, Timer
  <1> QED
    BY <1>1, <1>2

\* What is at the head of a port is in it.
LEMMA PortsMean == Typed /\ Ports => OneRequestPerWorker /\ CancelIsOnItsWay
  <1> SUFFICES ASSUME Typed, Ports PROVE OneRequestPerWorker /\ CancelIsOnItsWay
    OBVIOUS
  <1>1. OneRequestPerWorker
    <2> SUFFICES ASSUME NEW s \in Slots, inbox[s] # <<>>, Head(inbox[s]).type = "request"
                 PROVE  thread[s].job = 0 /\ ~ thread[s].stopping
      BY DEF OneRequestPerWorker
    <2>1. Has(inbox[s], Head(inbox[s]).type)
      BY TailHas DEF Typed
    <2> QED
      BY <2>1 DEF Ports, Port, Quiet
  <1>2. CancelIsOnItsWay
    BY DEF CancelIsOnItsWay, Ports, Port, Knows, Cancels
  <1> QED
    BY <1>1, <1>2

-----------------------------------------------------------------------------
(* Which requests a worker was handed, and which it ran.                   *)

Carried(q, type) == {q[k].id : k \in {l \in 1 .. Len(q) : q[l].type = type}}
Asked(s) == Carried(inbox[s], "request")
Said(s)  == Carried(outbox[s], "result")

\* What a port carries when one more message is posted.
LEMMA AppendCarries ==
  ASSUME NEW q \in Seq(Messages), NEW m \in Messages, NEW type
  PROVE  /\ m.type # type => Carried(Append(q, m), type) = Carried(q, type)
         /\ m.type = type => Carried(Append(q, m), type) = Carried(q, type) \union {m.id}
  <1> DEFINE p == Append(q, m)
             n == Len(q)
  <1>1. /\ n \in Nat /\ Len(p) = n + 1 /\ p[n + 1] = m
        /\ \A k \in 1 .. n : p[k] = q[k] /\ k \in 1 .. n + 1
        /\ \A k \in 1 .. n + 1 : k = n + 1 \/ k \in 1 .. n
        /\ n + 1 \in 1 .. n + 1
    OBVIOUS
  <1> HIDE DEF p, n
  <1>2. \A i : i \in Carried(p, type) <=> \E k \in 1 .. n + 1 : p[k].type = type /\ p[k].id = i
    BY <1>1 DEF Carried
  <1>3. \A i : i \in Carried(q, type) <=> \E k \in 1 .. n : q[k].type = type /\ q[k].id = i
    BY DEF Carried, n
  <1>4. \A i : i \in Carried(p, type) <=> i \in Carried(q, type) \/ (m.type = type /\ i = m.id)
    BY <1>1, <1>2, <1>3
  <1> QED
    BY <1>4 DEF p

\* What a port carries when its first message is taken.
LEMMA TailCarries ==
  ASSUME NEW q \in Seq(Messages), q # <<>>
  PROVE  /\ \A type : Carried(Tail(q), type) \subseteq Carried(q, type)
         /\ Head(q).id \in Carried(q, Head(q).type)
         /\ Once(q, Head(q).type) => Carried(Tail(q), Head(q).type) = {}
  <1> DEFINE p == Tail(q)
             n == Len(p)
  <1>1. /\ n \in Nat /\ Len(q) = n + 1 /\ Head(q) = q[1] /\ 1 \in 1 .. n + 1
        /\ \A k \in 1 .. n : p[k] = q[k + 1] /\ k + 1 \in 1 .. n + 1
    BY HeadFits
  <1>2. Once(q, Head(q).type) => ~ Has(p, Head(q).type)
    BY TailHas
  <1> HIDE DEF p, n
  <1>3. \A type : Carried(p, type) \subseteq Carried(q, type)
    <2> SUFFICES ASSUME NEW type, NEW k \in 1 .. n, p[k].type = type
                 PROVE  p[k].id \in Carried(q, type)
      BY DEF Carried, n
    <2> QED
      BY <1>1 DEF Carried
  <1>4. Head(q).id \in Carried(q, Head(q).type)
    BY <1>1 DEF Carried
  <1>5. Once(q, Head(q).type) => Carried(p, Head(q).type) = {}
    BY <1>2 DEF Carried, Has
  <1> QED
    BY <1>3, <1>4, <1>5 DEF p

Handed ==
  /\ \A i \in Requests : outcome[i] = "none" => i \notin sent
  /\ ran \subseteq sent
  /\ \A s \in Slots : /\ Asked(s) \subseteq sent \ ran
                      /\ Said(s) \subseteq ran
                      /\ thread[s].job # 0 => thread[s].job \in ran
  /\ \A s, r \in Slots : s # r => Asked(s) \cap Asked(r) = {}

\* Nothing is handed out or begun.
LEMMA HandedKept ==
  ASSUME Handed, UNCHANGED history,
         \A i \in Requests : outcome'[i] = "none" => outcome[i] = "none",
         \A s \in Slots : /\ Asked(s)' \subseteq Asked(s)
                          /\ Said(s)' \subseteq ran
                          /\ thread'[s].job \in {0, thread[s].job}
  PROVE  Handed'
  BY DEF Handed, history

\* Messages of other types.
LEMMA AskedKept ==
  ASSUME Typed, NEW S \in SUBSET Slots, NEW type \in {"cancel", "stop"}, NEW id \in [Slots -> Ids],
         Posted(S, type, id)
  PROVE  \A s \in Slots : Asked(s)' = Asked(s)
  <1> TAKE s \in Slots
  <1>1. inbox'[s] = IF s \in S THEN Append(inbox[s], Msg(type, id[s])) ELSE inbox[s]
    BY DEF Posted
  <1>2. inbox[s] \in Seq(Messages) /\ Msg(type, id[s]) \in Messages /\ Msg(type, id[s]).type # "request"
    BY DEF Typed, Msg, Messages
  <1>3. Carried(Append(inbox[s], Msg(type, id[s])), "request") = Carried(inbox[s], "request")
    BY <1>2, AppendCarries
  <1> QED
    BY <1>1, <1>3 DEF Asked

\* The requests of the slots.
LEMMA ActiveIds == Typed => [s \in Slots |-> slots[s].active.id] \in [Slots -> Ids]
  BY DEF Typed, GoodSlots, SlotRecs, Jobs

\* What was told is never untold.
LEMMA ToldStays ==
  ASSUME Typed, NEW S \in SUBSET Slots, NEW what \in [Slots -> Lost], Told(S, what)
  PROVE  \A i \in Requests : outcome'[i] = "none" => outcome[i] = "none"
  <1> TAKE i \in Requests
  <1> DEFINE teller == CHOOSE s \in S : slots[s].active.id = i
  <1>1. outcome'[i] = IF \E s \in S : slots[s].active.id = i THEN what[teller] ELSE outcome[i]
    BY DEF Told
  <1>2. (\E s \in S : slots[s].active.id = i) => teller \in S
    OBVIOUS
  <1> HIDE DEF teller
  <1> QED
    BY <1>1, <1>2 DEF Lost, Reasons

\* A worker's step that neither begins a request nor answers one.
LEMMA HandedPosts ==
  ASSUME Typed, Handed, NEW s \in Slots, NEW t \in Threads, NEW q, Posts(s, t, q),
         q = <<>> \/ \E m \in Messages : q = <<m>> /\ m.type # "result",
         t.job \in {0, thread[s].job}, UNCHANGED <<outcome, history>>,
         \A r \in Slots : Asked(r)' \subseteq Asked(r)
  PROVE  Handed'
  <1>1. /\ thread'[s] = t /\ outbox'[s] = outbox[s] \o q
        /\ \A r \in Slots \ {s} : thread'[r] = thread[r] /\ outbox'[r] = outbox[r]
    BY DEF Posts, Typed
  <1>2. outbox[s] \in Seq(Messages)
    BY DEF Typed
  <1>3. Carried(outbox[s] \o q, "result") = Carried(outbox[s], "result")
    <2>1. CASE q = <<>>
      BY <1>2, <2>1
    <2>2. ASSUME NEW m \in Messages, q = <<m>>, m.type # "result"
          PROVE  Carried(outbox[s] \o q, "result") = Carried(outbox[s], "result")
      <3>1. outbox[s] \o q = Append(outbox[s], m)
        BY <1>2, <2>2
      <3>2. Carried(Append(outbox[s], m), "result") = Carried(outbox[s], "result")
        BY <1>2, <2>2, AppendCarries
      <3> QED
        BY <3>1, <3>2
    <2> QED
      BY <2>1, <2>2
  <1>4. \A r \in Slots : Said(r)' = Said(r) /\ thread'[r].job \in {0, thread[r].job}
    BY <1>1, <1>3 DEF Said
  <1>5. \A r \in Slots : Said(r)' \subseteq ran
    BY <1>4 DEF Handed
  <1> QED
    BY <1>4, <1>5, HandedKept

\* A step of the supervisor that tells some slots' requests and touches no port.
LEMMA HandedRetire ==
  ASSUME Typed, Handed, NEW S \in SUBSET Slots, NEW what \in [Slots -> Lost], Retire(S, what),
         UNCHANGED <<thread, inbox, history>>, \A s \in Slots : Said(s)' \subseteq Said(s)
  PROVE  Handed'
  <1>1. \A i \in Requests : outcome'[i] = "none" => outcome[i] = "none"
    BY ToldStays DEF Retire
  <1>2. \A s \in Slots : Asked(s)' = Asked(s) /\ Said(s)' \subseteq ran
    BY DEF Asked, Handed
  <1> QED
    BY <1>1, <1>2, HandedKept

\* dispatch hands out a request that was not handed out before.
LEMMA HandedDispatch ==
  ASSUME Typed, Handed, NEW i \in Requests, NEW s \in Slots, Dispatch(i, s)
  PROVE  Handed'
  <1>1. outcome[i] = "none" /\ i \notin sent
    BY DEF Dispatch, NextRequest, Handed
  <1>2. inbox[s] \in Seq(Messages) /\ Msg("request", i) \in Messages
    BY ConstantsFit DEF Typed, Msg, Messages, Ids
  <1>3. inbox'[s] = Append(inbox[s], Msg("request", i)) /\ \A r \in Slots \ {s} : inbox'[r] = inbox[r]
    BY DEF Dispatch, Posted
  <1>4. Carried(Append(inbox[s], Msg("request", i)), "request") = Carried(inbox[s], "request") \union {i}
    BY <1>2, AppendCarries DEF Msg
  <1>5. Asked(s)' = Asked(s) \union {i} /\ \A r \in Slots \ {s} : Asked(r)' = Asked(r)
    BY <1>3, <1>4 DEF Asked
  <1>6. sent' = sent \union {i} /\ UNCHANGED <<ran, thread, outbox>>
    BY DEF Dispatch
  <1>7. outcome'[i] = "pending" /\ \A j \in Requests \ {i} : outcome'[j] = outcome[j]
    BY DEF Dispatch, Typed
  <1>8. \A r \in Slots : i \notin Asked(r) /\ Said(r)' = Said(r)
    BY <1>1, <1>6 DEF Handed, Said
  <1> QED
    BY <1>1, <1>5, <1>6, <1>7, <1>8 DEF Handed

\* A worker begins a request once: it was sent, and no worker ran it.
LEMMA HandedRequest ==
  ASSUME Typed, Ports, Handed, NEW s \in Slots, TakeRequest(s)
  PROVE  /\ Handed'
         /\ Head(inbox[s]).id \in sent \ ran /\ ran' = ran \union {Head(inbox[s]).id}
  <1> DEFINE i == Head(inbox[s]).id
             t == [thread[s] EXCEPT !.job = i, !.aborted = FALSE]
  <1>1. inbox[s] \in Seq(Messages) /\ inbox[s] # <<>> /\ Head(inbox[s]).type = "request"
    BY DEF TakeRequest, Taken, Typed
  <1>2. i \in Asked(s) /\ (Once(inbox[s], "request") => Carried(Tail(inbox[s]), "request") = {})
    <2>1. Head(inbox[s]).id \in Carried(inbox[s], Head(inbox[s]).type)
      BY <1>1, TailCarries
    <2>2. Once(inbox[s], Head(inbox[s]).type) => Carried(Tail(inbox[s]), Head(inbox[s]).type) = {}
      BY <1>1, TailCarries
    <2> QED
      BY <1>1, <2>1, <2>2 DEF Asked
  <1>3. Once(inbox[s], "request") /\ thread[s].job = 0 /\ ~ thread[s].stopping
    <2>1. Has(inbox[s], Head(inbox[s]).type)
      BY <1>1, TailHas
    <2> QED
      BY <1>1, <2>1 DEF Ports, Port, Quiet
  <1>4. Posts(s, t, <<>>) /\ ran' = ran \union {i} /\ sent' = sent /\ outcome' = outcome
          /\ inbox'[s] = Tail(inbox[s]) /\ \A r \in Slots \ {s} : inbox'[r] = inbox[r]
    BY <1>3 DEF TakeRequest, Taken, Typed
  <1>5. thread[s] \in Threads /\ t.job = i
    BY DEF Typed, Threads
  <1> HIDE DEF i, t
  <1>6. Asked(s)' = {} /\ \A r \in Slots \ {s} : Asked(r)' = Asked(r)
    BY <1>2, <1>3, <1>4 DEF Asked
  <1>7. thread'[s].job = i /\ \A r \in Slots \ {s} : thread'[r] = thread[r]
    BY <1>4, <1>5 DEF Posts, Typed
  <1>8. \A r \in Slots : Said(r)' = Said(r)
    <2> TAKE r \in Slots
    <2>1. outbox'[r] = outbox[r] \/ outbox'[r] = outbox[r] \o <<>>
      BY <1>4 DEF Posts, Typed
    <2>2. outbox'[r] = outbox[r]
      BY <2>1 DEF Typed
    <2> QED
      BY <2>2 DEF Said
  <1>9. i \in sent \ ran /\ \A r \in Slots \ {s} : i \notin Asked(r)
    BY <1>2 DEF Handed
  <1>10. /\ \A j \in Requests : outcome'[j] = "none" => j \notin sent'
         /\ ran' \subseteq sent'
    BY <1>4, <1>9 DEF Handed
  <1>11. \A r \in Slots : /\ Asked(r)' \subseteq sent' \ ran' /\ Said(r)' \subseteq ran'
                          /\ thread'[r].job # 0 => thread'[r].job \in ran'
    BY <1>4, <1>6, <1>7, <1>8, <1>9 DEF Handed
  <1>12. \A x, r \in Slots : x # r => Asked(x)' \cap Asked(r)' = {}
    BY <1>6 DEF Handed
  <1>13. Handed'
    BY <1>10, <1>11, <1>12 DEF Handed
  <1> QED
    BY <1>4, <1>9, <1>13 DEF i

\* A worker answers the request it ran.
LEMMA HandedAnswer ==
  ASSUME Typed, Handed, NEW s \in Slots, Answer(s)
  PROVE  Handed'
  <1> DEFINE m == Msg("result", thread[s].job)
             q == IF thread[s].stopped THEN <<Msg("stopped", 0)>> ELSE <<>>
             t == [thread[s] EXCEPT !.job = 0]
             p == Append(outbox[s], m)
  <1>1. /\ thread[s] \in Threads /\ outbox[s] \in Seq(Messages) /\ m \in Messages /\ m.type = "result"
        /\ m.id = thread[s].job /\ p \in Seq(Messages)
        /\ Msg("stopped", 0) \in Messages /\ Msg("stopped", 0).type # "result"
    BY DEF Typed, Threads, Msg, Messages, Ids
  <1>2. outbox'[s] = outbox[s] \o (<<m>> \o q) /\ thread'[s].job = 0
          /\ \A r \in Slots \ {s} : outbox'[r] = outbox[r] /\ thread'[r] = thread[r]
    BY <1>1 DEF Answer, Posts, Typed, Threads
  <1>3. Carried(outbox'[s], "result") = Carried(outbox[s], "result") \union {thread[s].job}
    <2>1. Carried(p, "result") = Carried(outbox[s], "result") \union {thread[s].job}
      <3>1. outbox[s] \in Seq(Messages) /\ m \in Messages /\ m.type = "result" /\ m.id = thread[s].job
              /\ p = Append(outbox[s], m)
        BY <1>1
      <3> HIDE DEF m, p
      <3>2. Carried(Append(outbox[s], m), "result") = Carried(outbox[s], "result") \union {m.id}
        BY <3>1, AppendCarries
      <3> QED
        BY <3>1, <3>2
    <2>2. outbox'[s] = p \/ outbox'[s] = Append(p, Msg("stopped", 0))
      <3>1. outbox[s] \o <<m>> = p /\ p \o <<Msg("stopped", 0)>> = Append(p, Msg("stopped", 0))
              /\ outbox[s] \o (<<m>> \o <<Msg("stopped", 0)>>) = p \o <<Msg("stopped", 0)>>
              /\ outbox[s] \o (<<m>> \o <<>>) = p
        BY <1>1
      <3>2. q = <<>> \/ q = <<Msg("stopped", 0)>>
        OBVIOUS
      <3> HIDE DEF m, p, q
      <3> QED
        BY <1>2, <3>1, <3>2
    <2>3. Carried(Append(p, Msg("stopped", 0)), "result") = Carried(p, "result")
      BY <1>1, AppendCarries
    <2> QED
      BY <2>1, <2>2, <2>3
  <1>4. thread[s].job \in ran /\ UNCHANGED <<outcome, inbox, history>>
    BY DEF Answer, Handed
  <1>5. \A r \in Slots : Said(r)' \subseteq ran /\ Asked(r)' = Asked(r) /\ thread'[r].job \in {0, thread[r].job}
    BY <1>2, <1>3, <1>4 DEF Said, Asked, Handed
  <1> QED
    BY <1>4, <1>5, HandedKept

\* The other steps of a worker hand nothing out.
LEMMA HandedWorker ==
  ASSUME Typed, Ports, Handed, NEW s \in Slots, Worker(s), ~ TakeRequest(s), ~ Answer(s)
  PROVE  Handed'
  <1>1. thread[s] \in Threads /\ \A r \in Slots : inbox[r] \in Seq(Messages)
    BY DEF Typed
  <1>2. \A type \in {"ready", "failed", "stopped"} :
          Msg(type, 0) \in Messages /\ Msg(type, 0).type # "result"
    BY DEF Msg, Messages, Ids
  <1>3. UNCHANGED <<outcome, history>>
    BY DEF Worker, ThreadReady, ThreadFails, TakeCancel, TakeStop, MainEnds
  <1>4. \A r \in Slots : Asked(r)' \subseteq Asked(r)
    <2> TAKE r \in Slots
    <2>1. inbox'[r] = inbox[r] \/ (inbox[r] # <<>> /\ inbox'[r] = Tail(inbox[r]))
      BY DEF Worker, ThreadReady, ThreadFails, TakeCancel, TakeStop, MainEnds, Taken, Typed
    <2>2. inbox[r] # <<>> => Carried(Tail(inbox[r]), "request") \subseteq Carried(inbox[r], "request")
      BY <1>1, TailCarries
    <2> QED
      BY <2>1, <2>2 DEF Asked
  <1>5. PICK t \in Threads, q \in {<<>>, <<Msg("ready", 0)>>, <<Msg("failed", 0)>>, <<Msg("stopped", 0)>>} :
          Posts(s, t, q) /\ t.job \in {0, thread[s].job}
    <2> DEFINE Q == {<<>>, <<Msg("ready", 0)>>, <<Msg("failed", 0)>>, <<Msg("stopped", 0)>>}
               Found == \E t \in Threads, q \in Q : Posts(s, t, q) /\ t.job \in {0, thread[s].job}
    <2>1. ASSUME NEW t \in Threads, NEW q \in Q, Posts(s, t, q), t.job \in {0, thread[s].job} PROVE Found
      BY <2>1
    <2>2. \A m \in {"ready", "failed", "stopped"} : <<Msg(m, 0)>> \in Q
      OBVIOUS
    <2>3. <<>> \in Q
      OBVIOUS
    <2> HIDE DEF Q, Found
    <2>4. ASSUME ThreadReady(s) PROVE Found
      <3>1. /\ [thread[s] EXCEPT !.phase = "serving"] \in Threads
            /\ [thread[s] EXCEPT !.phase = "serving"].job = thread[s].job
        BY <1>1 DEF Threads
      <3> QED
        BY <2>1, <2>2, <2>4, <3>1 DEF ThreadReady
    <2>5. ASSUME ThreadFails(s) PROVE Found
      BY <2>1, <2>2, <2>5, ThreadFits DEF ThreadFails, Failing
    <2>6. ASSUME TakeCancel(s) PROVE Found
      <3>1. /\ [thread[s] EXCEPT !.aborted = TRUE] \in Threads
            /\ [thread[s] EXCEPT !.aborted = TRUE].job = thread[s].job
        BY <1>1 DEF Threads
      <3>2. Posts(s, [thread[s] EXCEPT !.aborted = TRUE], <<>>) \/ Posts(s, thread[s], <<>>)
        BY <2>6 DEF TakeCancel
      <3> QED
        BY <1>1, <2>1, <2>3, <3>1, <3>2
    <2>7. ASSUME TakeStop(s) PROVE Found
      <3>1. /\ [thread[s] EXCEPT !.stopping = TRUE] \in Threads
            /\ [thread[s] EXCEPT !.stopping = TRUE].job = thread[s].job
        BY <1>1 DEF Threads
      <3> QED
        BY <2>1, <2>3, <2>7, <3>1 DEF TakeStop
    <2>8. ASSUME MainEnds(s) PROVE Found
      <3>1. /\ [thread[s] EXCEPT !.stopped = TRUE] \in Threads
            /\ [thread[s] EXCEPT !.stopped = TRUE].job = thread[s].job
        BY <1>1 DEF Threads
      <3>2. \/ Posts(s, [thread[s] EXCEPT !.stopped = TRUE], <<Msg("stopped", 0)>>)
            \/ Posts(s, [thread[s] EXCEPT !.stopped = TRUE], <<>>)
        BY <2>8 DEF MainEnds
      <3> QED
        BY <2>1, <2>2, <2>3, <3>1, <3>2
    <2>9. Found
      BY <2>4, <2>5, <2>6, <2>7, <2>8 DEF Worker
    <2> QED
      BY <2>9 DEF Found, Q
  <1>6. q = <<>> \/ \E m \in Messages : q = <<m>> /\ m.type # "result"
    BY <1>2, <1>5
  <1> QED
    BY <1>3, <1>4, <1>5, <1>6, HandedPosts

\* At the start nothing is handed out.
LEMMA HandedInit == Init => Handed
  <1> SUFFICES ASSUME Init PROVE Handed
    OBVIOUS
  <1>1. \A s \in Slots : Asked(s) = {} /\ Said(s) = {}
    BY DEF Init, Asked, Said, Carried
  <1>2. \A s \in Slots : thread[s].job = 0
    BY ThreadFits DEF Init
  <1> QED
    BY <1>1, <1>2 DEF Init, Handed

\* A message hands nothing out.
LEMMA HandedMessage ==
  ASSUME Typed, Handed, NEW s \in Slots, Message(s)
  PROVE  Handed'
  <1>1. Received(s) /\ UNCHANGED <<inbox, thread, history>> /\ outbox[s] # <<>>
    BY DEF Message, Ignored, WorkerReady, WorkerResult, WorkerLost, WorkerStopped, Heard
  <1>2. \A r \in Slots : Said(r)' \subseteq Said(r) /\ Asked(r)' = Asked(r)
    <2> TAKE r \in Slots
    <2>1. outbox'[r] = outbox[r] \/ (outbox[r] # <<>> /\ outbox'[r] = Tail(outbox[r]))
      BY <1>1 DEF Received, Typed
    <2>2. outbox[r] # <<>> => Carried(Tail(outbox[r]), "result") \subseteq Carried(outbox[r], "result")
      BY TailCarries DEF Typed
    <2> QED
      BY <1>1, <2>1, <2>2 DEF Asked, Said
  <1>3. \A i \in Requests : outcome'[i] = "none" => outcome[i] = "none"
    <2>1. \/ UNCHANGED outcome \/ Told({s}, Answered)
          \/ \E what \in {Generic, Cancelled} : Retire({s}, what)
      <3>1. CASE Ignored(s) \/ WorkerReady(s)
        BY <3>1 DEF Ignored, WorkerReady
      <3>2. CASE WorkerResult(s)
        BY <3>2 DEF WorkerResult
      <3>3. CASE WorkerLost(s) \/ WorkerStopped(s)
        BY <3>3 DEF WorkerLost, WorkerStopped
      <3> QED
        BY <3>1, <3>2, <3>3 DEF Message
    <2> QED
      BY <2>1, WhatFits, ToldStays DEF Retire
  <1>4. \A r \in Slots : Said(r)' \subseteq ran
    BY <1>2 DEF Handed
  <1> QED
    BY <1>1, <1>2, <1>3, <1>4, HandedKept

\* Every step keeps what was handed out and what ran in agreement.
LEMMA HandedNext == Typed /\ Ports /\ Handed /\ [Next]_vars => Handed'
  <1> SUFFICES ASSUME Typed, Ports, Handed, [Next]_vars PROVE Handed'
    OBVIOUS
  <1>1. ASSUME UNCHANGED <<thread, inbox, outbox, history>>,
               \A i \in Requests : outcome'[i] = "none" => outcome[i] = "none"
        PROVE  Handed'
    <2>1. \A s \in Slots : Asked(s)' = Asked(s) /\ Said(s)' \subseteq ran
      BY <1>1 DEF Asked, Said, Handed
    <2> QED
      BY <1>1, <2>1, HandedKept
  <1>2. ASSUME UNCHANGED <<thread, outbox, outcome, history>>, \A s \in Slots : Asked(s)' = Asked(s)
        PROVE  Handed'
    <2>1. \A s \in Slots : Said(s)' \subseteq ran
      BY <1>2 DEF Said, Handed
    <2> QED
      BY <1>2, <2>1, HandedKept
  <1>3. CASE UNCHANGED vars
    BY <1>1, <1>3 DEF vars, ports
  <1>4. ASSUME NEW i \in Requests, Refuse(i) PROVE Handed'
    <2>1. \A j \in Requests : outcome'[j] = "none" => outcome[j] = "none"
      BY <1>4 DEF Refuse, NextRequest, Typed
    <2> QED
      BY <1>1, <1>4, <2>1 DEF Refuse, ports
  <1>5. ASSUME NEW S \in SUBSET Slots, NEW reason, Cancel(S, reason), UNCHANGED <<thread, outbox, outcome, history>>
        PROVE  Handed'
    <2>1. Cancellable(S) \in SUBSET Slots
            /\ Posted(Cancellable(S), "cancel", [s \in Slots |-> slots[s].active.id])
      BY <1>5 DEF Cancel, Cancellable
    <2> QED
      BY <1>2, <1>5, <2>1, ActiveIds, AskedKept
  <1>6. ASSUME FirstStop PROVE Handed'
    <2>1. {s \in Slots : slots[s].worker} \in SUBSET Slots /\ [s \in Slots |-> 0] \in [Slots -> Ids]
      BY DEF Ids
    <2> QED
      BY <1>2, <1>6, <2>1, AskedKept DEF FirstStop
  <1>7. ASSUME NEW s \in Slots, DeadlineFires(s) PROVE Handed'
    <2>1. Cancellable({s}) \in SUBSET Slots
      BY DEF Cancellable
    <2> QED
      BY <1>2, <1>7, <2>1, ActiveIds, AskedKept DEF DeadlineFires
  <1>8. ASSUME NEW S \in SUBSET Slots, NEW what \in [Slots -> Lost], Retire(S, what),
               UNCHANGED <<thread, ports, history>>
        PROVE  Handed'
    BY <1>8, HandedRetire DEF ports, Said
  <1>9. ASSUME NEW s \in Slots, Terminated(s) PROVE Handed'
    <2>1. inbox'[s] = <<>> /\ outbox'[s] = <<>> /\ thread'[s].job = 0
      BY <1>9 DEF Terminated, Typed, Thread
    <2>2. \A r \in Slots \ {s} : inbox'[r] = inbox[r] /\ outbox'[r] = outbox[r] /\ thread'[r] = thread[r]
      BY <1>9 DEF Terminated, Typed
    <2>3. Asked(s)' = {} /\ Said(s)' = {}
      BY <2>1 DEF Asked, Said, Carried
    <2>4. \A r \in Slots : Asked(r)' \subseteq Asked(r) /\ Said(r)' \subseteq ran /\ thread'[r].job \in {0, thread[r].job}
      BY <2>1, <2>2, <2>3 DEF Asked, Said, Handed
    <2> QED
      BY <1>9, <2>4, HandedKept DEF Terminated
  <1>10. CASE Escalate
    BY <1>5, <1>10 DEF Escalate
  <1>11. ASSUME NEW s \in Slots, Abort(s) PROVE Handed'
    BY <1>5, <1>11 DEF Abort
  <1>12. CASE Fail \/ Close \/ StopFires
    BY <1>8, <1>12, WhatFits DEF Fail, Close, StopFires
  <1>13. ASSUME NEW s \in Slots, CleanupFires(s) \/ StartupFires(s) PROVE Handed'
    BY <1>8, <1>13, WhatFits DEF CleanupFires, StartupFires
  <1> QED
    BY <1>3, <1>4, <1>6, <1>7, <1>9, <1>10, <1>11, <1>12, <1>13,
       HandedDispatch, HandedMessage, HandedRequest, HandedAnswer, HandedWorker
    DEF Next, Api, SecondStop, DrainFires, Timer

-----------------------------------------------------------------------------
\* The inductive invariant: each part rests on the types, the last on the ports too.
IndInv == Typed /\ Joins /\ Opens /\ Ports /\ Handed

\* The inductive invariant, from its five parts.
LEMMA IndInvHolds == Spec => []IndInv
  <1>1. Init => IndInv
    BY TypedInit, JoinsInit, OpensInit, PortsInit, HandedInit DEF IndInv
  <1>2. IndInv /\ [Next]_vars => IndInv'
    BY TypedNext, JoinsNext, OpensNext, PortsNext, HandedNext DEF IndInv
  <1> QED
    BY <1>1, <1>2, PTL DEF Spec

\* The types that the runs check.
LEMMA TypedMeans == Typed /\ Handed => TypeOK
  <1> SUFFICES ASSUME Typed, Handed PROVE TypeOK
    OBVIOUS
  <1>1. \A s \in Slots : slots[s] \in GoodSlots /\ slots[s] \in SlotRecs /\ slots[s].active \in Jobs
                           /\ thread[s] \in Threads
    BY DEF Typed, GoodSlots, SlotRecs
  <1>2. ASSUME NEW s \in Slots
        PROVE  /\ slots[s].generation \in 1 .. MaxGenerations
               /\ slots[s].restarts \in 0 .. RestartLimit
               /\ slots[s].active.id \in {0} \union Requests
               /\ slots[s].active.reason \in Reasons \union {"none"}
               /\ ~ slots[s].worker => ~ slots[s].ready /\ slots[s].active = NoJob /\ ~ slots[s].startup
               /\ slots[s].terminating => ~ slots[s].worker
               /\ thread[s].phase \in {"starting", "serving", "failed", "gone"}
    BY <1>1 DEF GoodSlots, Shape, Jobs, Ids, Threads
  <1>3. ran \subseteq sent /\ sent \subseteq Requests
    BY DEF Typed, Handed
  <1>4. outcome \in [Requests -> Reasons \union {"none", "pending", "answered", "500", "503"}]
    BY DEF Typed, Outcomes
  <1>5. lifecycle \in Running \union Halting \union {"Stopped", "Failed"} /\ timers \subseteq {"drain", "stop"}
          /\ stopped \in BOOLEAN
    BY DEF Typed, Lifecycles
  <1> QED
    BY <1>2, <1>3, <1>4, <1>5 DEF TypeOK

(***************************************************************************)
(* For any number of slots and requests, between any two steps of the      *)
(* event loop and of the workers: a request is open exactly while one slot *)
(* has its job, a worker gets one request at a time and none after its     *)
(* stop, and a cancelled worker knows or will read of it.                  *)
(***************************************************************************)
THEOREM SlotsAndPortsAgree == Spec => []SupervisorInv
  <1>1. IndInv => SupervisorInv
    BY TypedMeans, OpensMeans, PortsMean DEF IndInv, SupervisorInv
  <1> QED
    BY <1>1, IndInvHolds, PTL

-----------------------------------------------------------------------------
(* Each step of the supervisor is one of the abstract pool, or a stutter.  *)

pvars == <<outcome, sent, ran, stopped>>

\* Where nothing is occupied, no request is open.
NoneOccupied == \A s \in Slots : ~ Occupied(s)
NoneOpen     == \A i \in Requests : outcome[i] # "pending"

\* Once no slot has a worker or a termination, no request is open.
LEMMA JoinedIsSettled == Typed /\ Opens /\ NoneOccupied => NoneOpen
  <1> SUFFICES ASSUME Typed, Opens, NoneOccupied PROVE NoneOpen
    OBVIOUS
  <1>1. \A s \in Slots : slots[s].active.id = 0
    <2> TAKE s \in Slots
    <2>1. slots[s] \in GoodSlots /\ ~ slots[s].worker
      BY DEF Typed, NoneOccupied, Occupied
    <2>2. slots[s].active = NoJob
      BY <2>1 DEF GoodSlots, Shape
    <2> QED
      BY <2>2, NoJobFits
  <1> QED
    BY <1>1, ConstantsFit DEF Opens, NoneOpen

\* The announcement, when no request is told in the same step.
LEMMA EndSimulated ==
  ASSUME IndInv, IndInv', Next, UNCHANGED <<outcome, history>>
  PROVE  [Pool!Next]_pvars
  <1>1. CASE stopped' = stopped
    BY <1>1 DEF pvars, history
  <1>2. CASE stopped' # stopped
    <2>1. stopped' = TRUE /\ \A s \in Slots : ~ Occupied(s)'
      <3>1. stopped \in BOOLEAN /\ stopped' \in BOOLEAN
        BY DEF IndInv, Typed
      <3>2. stopped => stopped'
        <4>1. stopped' = stopped \/ \E stage, set : Changed(stage, set)
          BY DEF Next, Api, SecondStop, DrainFires, Escalate, Refuse, Dispatch, Abort, FirstStop, Fail, Close,
                 StopFires, Message, Ignored, WorkerReady, WorkerResult, WorkerLost, WorkerStopped, Timer,
                 DeadlineFires, CleanupFires, StartupFires, Terminated, Worker, ThreadReady, ThreadFails,
                 TakeRequest, TakeCancel, TakeStop, Answer, MainEnds, pool
        <4> QED
          BY <4>1 DEF Changed
      <3> QED
        BY <1>2, <3>1, <3>2, Announced DEF IndInv
    <2>2. \A i \in Requests : outcome'[i] # "pending"
      <3>1. Typed' /\ Opens' /\ NoneOccupied'
        BY <2>1 DEF IndInv, NoneOccupied
      <3>2. NoneOpen'
        BY <3>1, JoinedIsSettled, PTL
      <3> QED
        BY <3>2 DEF NoneOpen
    <2>3. Pool!End
      BY <2>1, <2>2 DEF Pool!End, history
    <2> QED
      BY <2>3 DEF Pool!Next
  <1> QED
    BY <1>1, <1>2

\* A retirement tells the requests of the slots that it takes.
LEMMA RetireSimulated ==
  ASSUME IndInv, IndInv', Next, NEW S \in SUBSET Slots, NEW what \in [Slots -> Lost],
         \A s \in S : slots[s].worker => what[s] \in Reasons \union {"500"},
         Retire(S, what), UNCHANGED history
  PROVE  [Pool!Next]_pvars
  <1> DEFINE gone == {s \in S : slots[s].worker}
             told == {i \in Requests : \E s \in gone : slots[s].active.id = i}
  <1>1. outcome' = [i \in Requests |-> IF \E s \in gone : slots[s].active.id = i
                                      THEN what[CHOOSE s \in gone : slots[s].active.id = i]
                                      ELSE outcome[i]]
    BY DEF Retire, Told
  <1>2. CASE gone = {}
    <2>1. outcome' = outcome
      BY <1>1, <1>2 DEF IndInv, Typed
    <2> QED
      BY <2>1, EndSimulated
  <1>3. CASE gone # {}
    <2>1. stopped' = stopped
      <3>1. PICK s \in gone : slots[s].worker
        BY <1>3
      <3>2. Occupied(s)'
        BY <3>1, RetireOccupies DEF Occupied, IndInv
      <3>3. ~ stopped
        BY <3>1 DEF IndInv, Joins, Occupied
      <3>4. stopped' \in BOOLEAN /\ stopped \in BOOLEAN
        BY DEF IndInv, Typed
      <3> QED
        BY <3>2, <3>3, <3>4, Announced DEF IndInv
    <2>2. \A i \in told : outcome[i] = "pending" /\ outcome'[i] \in Reasons \union {"500"}
      <3> TAKE i \in told
      <3> DEFINE teller == CHOOSE s \in gone : slots[s].active.id = i
      <3>1. teller \in gone /\ slots[teller].active.id = i
        OBVIOUS
      <3>2. outcome'[i] = what[teller]
        BY <1>1
      <3>3. i # 0
        BY ConstantsFit
      <3> HIDE DEF teller
      <3> QED
        BY <3>1, <3>2, <3>3 DEF IndInv, Opens
    <2>3. \A i \in Requests \ told : outcome'[i] = outcome[i]
      BY <1>1
    <2> HIDE DEF told, gone
    <2>4. told \in SUBSET Requests
      BY DEF told
    <2>5. outcome' \in [Requests -> (Reasons \union {"500"}) \union {outcome[i] : i \in Requests}]
      <3>1. outcome' \in [Requests -> Outcomes]
        BY DEF IndInv, Typed
      <3>2. \A i \in Requests : outcome'[i] \in (Reasons \union {"500"}) \union {outcome[j] : j \in Requests}
        BY <2>2, <2>3
      <3> QED
        BY <3>1, <3>2
    <2>6. \A i \in Requests : IF i \in told THEN outcome'[i] \in Reasons \union {"500"}
                                           ELSE outcome'[i] = outcome[i]
      BY <2>2, <2>3
    <2>7. Pool!Lose(told)
      BY <2>1, <2>2, <2>5, <2>6 DEF Pool!Lose, history
    <2> QED
      BY <2>4, <2>7 DEF Pool!Next
  <1> QED
    BY <1>2, <1>3

\* A result is an answer, or the loss of a job that was cancelled before.
LEMMA ResultSimulated ==
  ASSUME IndInv, IndInv', Next, NEW s \in Slots, WorkerResult(s)
  PROVE  [Pool!Next]_pvars
  <1>1. UNCHANGED <<sent, ran, stopped>> /\ outbox[s] \in Seq(Messages) /\ outbox[s] # <<>>
          /\ Head(outbox[s]).type = "result"
    BY DEF WorkerResult, Heard, IndInv, Typed, history, pool
  <1>2. CASE UNCHANGED outcome
    BY <1>1, <1>2 DEF pvars
  <1>3. CASE slots[s].active # NoJob /\ Head(outbox[s]).id = slots[s].active.id /\ Told({s}, Answered)
    <2> DEFINE i == slots[s].active.id
    <2>1. i \in Requests /\ outcome[i] = "pending"
      <3>1. slots[s] \in GoodSlots /\ slots[s].active \in Jobs
        BY DEF IndInv, Typed, GoodSlots, SlotRecs
      <3>2. i \in Requests
        BY <1>3, <3>1 DEF GoodSlots, Shape, Jobs, Ids
      <3> QED
        BY <3>2, ConstantsFit DEF IndInv, Opens
    <2>2. i \in ran
      <3>1. Head(outbox[s]).id \in Carried(outbox[s], Head(outbox[s]).type)
        BY <1>1, TailCarries
      <3> QED
        BY <1>1, <1>3, <3>1 DEF IndInv, Handed, Said
    <2>3. outcome' = [outcome EXCEPT ![i] = Answered[s]]
      <3>1. \A j \in Requests : outcome'[j] = IF slots[s].active.id = j THEN Answered[s] ELSE outcome[j]
        BY <1>3 DEF Told
      <3>2. outcome' \in [Requests -> Outcomes] /\ outcome \in [Requests -> Outcomes]
        BY DEF IndInv, Typed
      <3>3. outcome' = [j \in Requests |-> outcome'[j]]
        BY <3>2
      <3> QED
        BY <3>1, <3>2, <3>3
    <2>4. Answered[s] = IF slots[s].active.reason = "none" THEN "answered" ELSE slots[s].active.reason
      BY DEF Answered, ReasonOr
    <2> HIDE DEF i
    <2>5. CASE slots[s].active.reason = "none"
      <3>1. Pool!Answer(i)
        BY <1>1, <2>1, <2>2, <2>3, <2>4, <2>5 DEF Pool!Answer, Pool!Tell
      <3> QED
        BY <2>1, <3>1 DEF Pool!Next
    <2>6. CASE slots[s].active.reason # "none"
      <3>1. slots[s].active.reason \in Reasons
        BY <2>6 DEF IndInv, Typed, GoodSlots, SlotRecs, Jobs
      <3>2. outcome'[i] \in Reasons \union {"500"} /\ \A j \in Requests \ {i} : outcome'[j] = outcome[j]
        BY <2>1, <2>3, <2>4, <2>6, <3>1 DEF IndInv, Typed
      <3>3. outcome' \in [Requests -> (Reasons \union {"500"}) \union {outcome[j] : j \in Requests}]
        <4>1. outcome' \in [Requests -> Outcomes]
          BY DEF IndInv, Typed
        <4>2. \A x \in Requests : outcome'[x] \in (Reasons \union {"500"}) \union {outcome[j] : j \in Requests}
          BY <3>2
        <4> QED
          BY <4>1, <4>2
      <3>4. Pool!Lose({i})
        BY <1>1, <2>1, <3>2, <3>3 DEF Pool!Lose
      <3>5. {i} \in SUBSET Requests
        BY <2>1
      <3> QED
        BY <3>4, <3>5 DEF Pool!Next
    <2> QED
      BY <2>5, <2>6
  <1>4. UNCHANGED outcome \/ (slots[s].active # NoJob /\ Head(outbox[s]).id = slots[s].active.id /\ Told({s}, Answered))
    BY DEF WorkerResult
  <1> QED
    BY <1>2, <1>3, <1>4

\* Every step is one of the abstract pool's, or a stutter.
LEMMA StepSimulated == IndInv /\ IndInv' /\ [Next]_vars => [Pool!Next]_pvars
  <1> SUFFICES ASSUME IndInv, IndInv', [Next]_vars PROVE [Pool!Next]_pvars
    OBVIOUS
  <1>1. CASE UNCHANGED vars
    BY <1>1 DEF vars, pool, history, pvars
  <1>2. CASE Next
    <2>1. ASSUME UNCHANGED <<outcome, history>> PROVE [Pool!Next]_pvars
      BY <1>2, <2>1, EndSimulated
    <2>2. ASSUME NEW S \in SUBSET Slots, NEW what \in {Generic, Cancelled}, Retire(S, what), UNCHANGED history
          PROVE  [Pool!Next]_pvars
      <3>1. what \in [Slots -> Lost]
        BY WhatFits DEF IndInv
      <3>2. \A s \in S : what[s] \in Reasons \union {"500"}
        BY DEF Generic, Cancelled, ReasonOr, Reasons, IndInv, Typed, GoodSlots, SlotRecs, Jobs
      <3> QED
        BY <1>2, <2>2, <3>1, <3>2, RetireSimulated
    <2>3. ASSUME NEW i \in Requests, Refuse(i) PROVE [Pool!Next]_pvars
      <3>1. PICK o \in {"503", "Deadline", "Disconnected"} : outcome' = [outcome EXCEPT ![i] = o]
        BY <2>3 DEF Refuse
      <3>2. Pool!Refuse(i)
        BY <2>3, <3>1 DEF Refuse, NextRequest, Pool!Refuse, Pool!Tell, history, pool
      <3> QED
        BY <3>2 DEF Pool!Next
    <2>4. ASSUME NEW i \in Requests, NEW s \in Slots, Dispatch(i, s) PROVE [Pool!Next]_pvars
      <3>1. ~ stopped
        BY <2>4 DEF Dispatch, IndInv, Joins
      <3>2. Pool!Admit(i)
        BY <2>4, <3>1 DEF Dispatch, NextRequest, Pool!Admit, Pool!Tell, pool
      <3> QED
        BY <3>2 DEF Pool!Next
    <2>5. ASSUME NEW s \in Slots, TakeRequest(s) PROVE [Pool!Next]_pvars
      <3> DEFINE i == Head(inbox[s]).id
      <3>1. i \in sent \ ran /\ ran' = ran \union {i} /\ i \in Requests
        BY <2>5, HandedRequest DEF IndInv, Typed
      <3>2. ~ stopped
        BY <2>5 DEF TakeRequest, Taken, IndInv, Joins
      <3>3. UNCHANGED <<outcome, sent, stopped>>
        BY <2>5 DEF TakeRequest, pool
      <3> HIDE DEF i
      <3>4. Pool!Run(i)
        BY <3>1, <3>2, <3>3 DEF Pool!Run
      <3> QED
        BY <3>1, <3>4 DEF Pool!Next
    <2>6. ASSUME NEW s \in Slots, Message(s) PROVE [Pool!Next]_pvars
      <3>1. CASE Ignored(s) \/ WorkerReady(s)
        BY <2>1, <3>1 DEF Ignored, WorkerReady
      <3>2. CASE WorkerResult(s)
        BY <1>2, <3>2, ResultSimulated
      <3>3. CASE WorkerLost(s) \/ WorkerStopped(s)
        BY <2>2, <3>3 DEF WorkerLost, WorkerStopped
      <3> QED
        BY <2>6, <3>1, <3>2, <3>3 DEF Message
    <2>7. ASSUME NEW s \in Slots, Timer(s) PROVE [Pool!Next]_pvars
      <3>1. CASE DeadlineFires(s)
        BY <2>1, <3>1 DEF DeadlineFires
      <3>2. CASE CleanupFires(s) \/ StartupFires(s)
        BY <2>2, <3>2 DEF CleanupFires, StartupFires
      <3> QED
        BY <2>7, <3>1, <3>2 DEF Timer
    <2>8. CASE Fail \/ Close \/ StopFires
      BY <2>2, <2>8 DEF Fail, Close, StopFires
    <2>9. ASSUME NEW s \in Slots, Abort(s) \/ Terminated(s) PROVE [Pool!Next]_pvars
      BY <2>1, <2>9 DEF Abort, Terminated
    <2>10. CASE FirstStop \/ Escalate
      BY <2>1, <2>10 DEF FirstStop, Escalate
    <2>11. ASSUME NEW s \in Slots, Worker(s), ~ TakeRequest(s) PROVE [Pool!Next]_pvars
      BY <2>1, <2>11 DEF Worker, ThreadReady, ThreadFails, TakeCancel, TakeStop, Answer, MainEnds
    <2> QED
      BY <1>2, <2>3, <2>4, <2>5, <2>6, <2>7, <2>8, <2>9, <2>10, <2>11 DEF Next, Api, SecondStop, DrainFires
  <1> QED
    BY <1>1, <1>2

(***************************************************************************)
(* The supervisor implements the abstract pool, for any number of slots,   *)
(* requests and restarts: a request is told one outcome for good, a worker *)
(* runs an admitted request at most once and a refused one never, only a   *)
(* request that ran is answered, and after the announced end nothing is    *)
(* open and nothing runs.                                                  *)
(***************************************************************************)
THEOREM ImplementsPool == Spec => ImplementsRequestPool
  <1>1. Init => Pool!Init
    BY DEF Init, Pool!Init
  <1>2. IndInv /\ IndInv' /\ [Next]_vars => [Pool!Next]_pvars
    BY StepSimulated
  <1>3. Spec => Pool!Init /\ [][Pool!Next]_pvars
    BY <1>1, <1>2, IndInvHolds, PTL DEF Spec
  <1> QED
    BY <1>3 DEF ImplementsRequestPool, Pool!Spec, pvars
=============================================================================
