------------------------------- MODULE HostRun -------------------------------
(* One run on the wasmtime host: the loop that polls the program and waits    *)
(* for it (hd_run's drive, instance.rs), the reactor with its operations      *)
(* (reactor.rs), the tasks of the hd-io runtime and the input's reader thread *)
(* that deliver into its inbox, and the thread that asks the run to stop      *)
(* (session.rs, cancel.rs).  The program is the environment: in its turn it   *)
(* starts, finishes and aborts operations as it likes.                        *)
EXTENDS Integers, Sequences, FiniteSets, SequencesExt, FiniteSetsExt

CONSTANTS MaxOps,       \* bound: operations started
          MaxItems,     \* bound: what the peer of the socket sends
          MaxLines,     \* bound: lines of standard input
          MaxRequests,  \* bound: stop requests
          MaxInputs     \* bound: inputs of a session

ASSUME HostRunAssumption ==
  {MaxOps, MaxItems, MaxLines, MaxRequests, MaxInputs} \subseteq Nat

\* Results: a positive number is an item or a line.
None == 0
Disposed == -1
EndOfInput == -2
Failed == -3

VARIABLES session,   \* a session's input, else a run the host may cancel
          pc,        \* what the loop's thread is doing
          pending,   \* instance.rs: root_pending
          cancel,    \* cancel.rs: the HostCancel
          guest,     \* how far the program was cancelled
          ops,       \* reactor.rs: the operation of each handle
          open,      \* reactor.rs: the operations not completed yet
          reads,     \* reactor.rs: the reads waiting for input
          input,     \* reactor.rs: the standard input
          inbox,     \* reactor.rs: the deliveries
          woken,     \* the program's wake table
          socket,    \* client.rs: the one socket
          got,       \* the items and the lines the program was given
          stop,      \* the flag, and requests that have not woken the loop yet
          inputs     \* inputs started (bound)

reactor == <<ops, open, reads, input, inbox, socket, got>>
vars == <<session, pc, pending, cancel, guest, reactor, woken, stop, inputs>>

Gone == [kind |-> "gone", at |-> "completed", val |-> None]

\* "due" is a timer past its deadline; "taken" an operation of `ready`.
OpStates == {"pending", "due", "taken", "completed"}
Op == [kind : {"gone", "sleep", "io", "read"}, at : OpStates, val : Int]
Outcomes == {"status", "stopped", "cancelled", "abandoned", "deadlock"}
Points == Outcomes \cup {"poll", "turn", "collect", "wait", "lock", "parked", "woken"}
Ended == pc \in Outcomes

NoInput == [buffered |-> <<>>, ended |-> FALSE, asked |-> FALSE, lines |-> 0]
NotCancelled == [cancelled |-> FALSE, abandoned |-> FALSE, due |-> FALSE]

Init == /\ session \in BOOLEAN /\ pc = "poll" /\ pending = FALSE
        /\ cancel = NotCancelled /\ guest = "runs"
        /\ ops = <<>> /\ open = 0 /\ reads = <<>> /\ input = NoInput
        /\ inbox = [chunks |-> <<>>, done |-> {}] /\ woken = {}
        /\ socket = [closed |-> FALSE, unread |-> {}, items |-> 0]
        /\ got = [items |-> {}, lines |-> {}]
        /\ stop = [flag |-> FALSE, waking |-> 0, asked |-> 0] /\ inputs = 1

Handles == DOMAIN ops
Here(h) == ops[h].kind # "gone"
Bound == cancel.cancelled /\ ~ cancel.abandoned        \* a cleanup deadline is set
-----------------------------------------------------------------------------
(* The inbox, which other threads fill.                                       *)

WakeIf(condition) == pc' = IF pc = "parked" /\ condition THEN "woken" ELSE pc

Delivered(h) == \E d \in inbox.done : d[1] = h
TaskRuns(h) == ops[h].kind = "io" /\ ops[h].at = "pending" /\ ~ Delivered(h)

\* A task read from the socket: it pushes its result and notifies.
TaskEnds(h) ==
  /\ TaskRuns(h) /\ socket.items < MaxItems /\ ~ Ended
  /\ socket' = [socket EXCEPT !.items = @ + 1]
  /\ inbox' = [inbox EXCEPT !.done = @ \cup {<<h, socket.items + 1>>}]
  /\ WakeIf(TRUE)
  /\ UNCHANGED <<session, pending, cancel, guest, ops, open, reads, input, woken, got, stop, inputs>>

\* The reader thread answers a request with a line, the end or an error.
ReaderReads ==
  /\ input.asked /\ inbox.chunks = <<>>
  /\ \E chunk \in {EndOfInput, Failed} \cup ((input.lines + 1) .. MaxLines) :
       /\ chunk <= input.lines + 1
       /\ inbox' = [inbox EXCEPT !.chunks = <<chunk>>]
       /\ input' = [input EXCEPT !.lines = IF chunk > 0 THEN chunk ELSE @]
  /\ WakeIf(TRUE)
  /\ UNCHANGED <<session, pending, cancel, guest, ops, open, reads, woken, socket, got, stop, inputs>>

\* Stopper.stop and HostInterrupt.request: the flag first, then the wake.
Request ==
  /\ stop.asked < MaxRequests
  /\ stop' = [flag |-> TRUE, waking |-> stop.waking + 1, asked |-> stop.asked + 1]
  /\ UNCHANGED <<session, pc, pending, cancel, guest, reactor, woken, inputs>>

Wake ==
  /\ stop.waking > 0
  /\ stop' = [stop EXCEPT !.waking = @ - 1]
  /\ WakeIf(TRUE)
  /\ UNCHANGED <<session, pending, cancel, guest, reactor, woken, inputs>>

\* Time: a timer's deadline, or the cleanup bound, passes; a sleep wakes by it.
TimerPasses(h) ==
  /\ Here(h) /\ ops[h].kind = "sleep" /\ ops[h].at = "pending"
  /\ ops' = [ops EXCEPT ![h].at = "due"]
  /\ UNCHANGED <<session, pc, pending, cancel, guest, open, reads, input, inbox, woken, socket, got, stop, inputs>>

BoundPasses ==
  /\ Bound /\ ~ cancel.due
  /\ cancel' = [cancel EXCEPT !.due = TRUE]
  /\ UNCHANGED <<session, pc, pending, guest, reactor, woken, stop, inputs>>

TimedOut ==
  /\ pc = "parked" /\ ((Bound /\ cancel.due) \/ \E h \in Handles : ops[h].at = "due")
  /\ pc' = "woken"
  /\ UNCHANGED <<session, pending, cancel, guest, reactor, woken, stop, inputs>>
-----------------------------------------------------------------------------
(* The reactor.                                                               *)

Place(rs, h) == SelectInSeq(rs, LAMBDA r : r = h)

\* serve: the oldest reads get the buffered lines, or the end, and one more
\* chunk is asked for when a read still waits.
Served(os, rs, in) ==
  LET n == IF in.ended THEN Len(rs) ELSE Min({Len(rs), Len(in.buffered)})
      answer(i) == IF i <= Len(in.buffered) THEN in.buffered[i] ELSE EndOfInput
  IN  [ops |-> [h \in DOMAIN os |-> IF Place(rs, h) \in 1 .. n
                  THEN [os[h] EXCEPT !.at = "taken", !.val = answer(Place(rs, h))] ELSE os[h]],
       reads |-> SubSeq(rs, n + 1, Len(rs)),
       input |-> [in EXCEPT !.buffered = SubSeq(in.buffered, n + 1, Len(in.buffered)),
                            !.asked = in.asked \/ (n < Len(rs) /\ ~ in.ended)]]

Started(kind) == Append(ops, [kind |-> kind, at |-> "pending", val |-> None])

Sleep == /\ ops' = Started("sleep") /\ open' = open + 1
         /\ UNCHANGED <<reads, input, inbox, socket, got>>

UnreadCopied == socket.unread                                       \* variant
\* drain: what a read takes is not kept for another.
UnreadDrained == {}

\* A read of the socket; what an aborted one gave back is there at once.
ReadSocket ==
  /\ ~ socket.closed
  /\ IF socket.unread # {}
     THEN /\ got' = [got EXCEPT !.items = @ \cup socket.unread]
          /\ socket' = [socket EXCEPT !.unread = UnreadDrained]
          /\ UNCHANGED <<ops, open>>
     ELSE ops' = Started("io") /\ open' = open + 1 /\ UNCHANGED <<socket, got>>
  /\ UNCHANGED <<reads, input, inbox>>

ReadLine ==
  LET s == Served(Started("read"), Append(reads, Len(ops) + 1), input)
  IN  /\ ops' = s.ops /\ reads' = s.reads /\ input' = s.input /\ open' = open + 1
      /\ UNCHANGED <<inbox, socket, got>>

\* The result an operation has, or has in the inbox.
Held(h) == {ops[h].val} \cup {d[2] : d \in {e \in inbox.done : e[1] = h}}

OnTime(h) == {ops[h].val}                                           \* variant
\* What remove hands back: a late delivery too.
Returned(h) == Held(h)

ReadsOf(h) == reads                                                 \* variant
\* A read waits at most once (ReadsWait), so retain drops at most one.
ReadsWithout(h) == RemoveFirst(reads, h)

OpenLess(h) == open - 1                                             \* variant
OpenWithout(h) == IF ops[h].at = "completed" THEN open ELSE open - 1

RemoveOp(h) == /\ Here(h)
             /\ ops' = [ops EXCEPT ![h] = Gone]
             /\ reads' = ReadsWithout(h)
             /\ open' = OpenWithout(h)
             /\ inbox' = [inbox EXCEPT !.done = {d \in @ : d[1] # h}]

\* The items of operations that ended unfinished go back, unless it is closed.
Unread(values) ==
  IF socket.closed THEN socket
  ELSE [socket EXCEPT !.unread = @ \cup {v \in values : v > 0}]

Abort(h) == /\ RemoveOp(h)
            /\ socket' = IF ops[h].kind = "io" THEN Unread(Returned(h)) ELSE socket
            /\ UNCHANGED <<input, got>>

Finish(h) ==
  LET value == {ops[h].val} \ {None, Disposed, EndOfInput, Failed}
  IN  /\ h \in woken /\ RemoveOp(h)
      /\ got' = [items |-> IF ops[h].kind = "io" THEN got.items \cup value ELSE got.items,
                 lines |-> IF ops[h].kind = "read" THEN got.lines \cup value ELSE got.lines]
      /\ UNCHANGED <<input, socket>>

\* close: every operation on the socket completes with Disposed.
Close ==
  /\ ~ socket.closed
  /\ socket' = [socket EXCEPT !.closed = TRUE, !.unread = {}]
  /\ ops' = [h \in Handles |-> IF ops[h].kind # "io" THEN ops[h]
               ELSE [ops[h] EXCEPT !.val = Disposed,
                                   !.at = IF @ = "completed" THEN @ ELSE "taken"]]
  /\ inbox' = [inbox EXCEPT !.done = {}]
  /\ UNCHANGED <<open, reads, input, got>>

\* take_delivered: the chunk, then the results.
TakeDelivered ==
  LET chunk == IF inbox.chunks = <<>> THEN None ELSE Head(inbox.chunks)
      in == [input EXCEPT !.asked = @ /\ chunk = None, !.ended = @ \/ chunk = EndOfInput,
                          !.buffered = IF chunk > 0 THEN Append(@, chunk) ELSE @]
      os == [h \in Handles |-> IF ~ (Delivered(h) /\ ops[h].kind = "io") THEN ops[h]
               ELSE [ops[h] EXCEPT !.at = "taken", !.val = CHOOSE v \in Held(h) : v # None]]
  IN  IF chunk = Failed /\ reads # <<>>
      THEN Served([os EXCEPT ![Head(reads)] = [kind |-> "read", at |-> "taken", val |-> Failed]],
                  Tail(reads), in)
      ELSE Served(os, reads, in)
-----------------------------------------------------------------------------
(* The loop: drive, step, completed and wait_bounded.                         *)

\* The run ends with every operation.
Ends(outcome) ==
  /\ pc' = outcome
  /\ ops' = [h \in Handles |-> Gone] /\ open' = 0 /\ reads' = <<>>
  /\ inbox' = [inbox EXCEPT !.done = {}]
  /\ socket' = Unread(UNION {Held(h) : h \in {i \in Handles : ops[i].kind = "io"}})
  /\ UNCHANGED <<session, pending, cancel, guest, input, woken, got, stop, inputs>>

CancelStepUnbounded(asked) ==                                       \* variant
  CASE ~ cancel.cancelled /\ asked -> "cleanup"
    [] Bound /\ asked -> "abandoned"
    [] OTHER -> guest

\* HostCancel.next: the first request cancels, the next or the bound abandons.
CancelStep(asked) ==
  CASE ~ cancel.cancelled /\ asked -> "cleanup"
    [] Bound /\ (asked \/ cancel.due) -> "abandoned"
    [] OTHER -> guest

\* step, up to hd.poll: a request that finds the root pending is spent here.
Poll ==
  /\ pc = "poll" /\ ~ session /\ pending
  /\ guest' = CancelStep(stop.flag)
  /\ cancel' = [cancel EXCEPT !.cancelled = @ \/ stop.flag,
                              !.abandoned = @ \/ CancelStep(stop.flag) = "abandoned"]
  /\ stop' = [stop EXCEPT !.flag = FALSE]
  /\ pc' = "turn"
  /\ UNCHANGED <<session, pending, reactor, woken, inputs>>

PollOther ==
  /\ pc = "poll" /\ (session \/ ~ pending)
  /\ ~ stop.flag /\ pc' = "turn"
  /\ UNCHANGED <<session, pending, cancel, guest, reactor, woken, stop, inputs>>

\* The flag is read at every host call, epoch tick and poll, and after the root.
Trapped == /\ stop.flag
           /\ pc = "turn" \/ (pc = "poll" /\ (session \/ ~ pending))
           /\ Ends("stopped")

\* A host call of the program.
Call(operation) ==
  /\ pc = "turn" /\ ~ stop.flag /\ guest # "abandoned" /\ operation
  /\ woken' = {h \in woken : ops'[h].kind # "gone"}
  /\ UNCHANGED <<session, pc, pending, cancel, guest, stop, inputs>>

Program == \/ Len(ops) < MaxOps /\ (Call(Sleep) \/ Call(ReadSocket) \/ Call(ReadLine))
           \/ \E h \in Handles : Call(Finish(h)) \/ Call(Abort(h))
           \/ Call(Close)

\* The root answers Pending: something must be able to wake it.
Pends ==
  /\ pc = "turn" /\ guest \in {"runs", "cleanup"} /\ (open > 0 \/ Bound)
  /\ pc' = "collect" /\ pending' = TRUE
  /\ UNCHANGED <<session, cancel, guest, reactor, woken, stop, inputs>>

Deadlocks == pc = "turn" /\ guest \in {"runs", "cleanup"} /\ ~ (open > 0 \/ Bound) /\ Ends("deadlock")

Returns == /\ pc = "turn" /\ ~ stop.flag
           /\ Ends(CASE guest = "runs" -> "status" [] guest = "abandoned" -> "abandoned"
                     [] OTHER -> "cancelled")

\* A request that finds the root waiting: a run polls it again, a session's
\* input spends the request and cancels the root, which then ends.
Interrupted ==
  /\ pc \in {"collect", "wait", "woken"} /\ stop.flag
  /\ IF session THEN pc' = "turn" /\ guest' = "last" /\ stop' = [stop EXCEPT !.flag = FALSE]
     ELSE pc' = "poll" /\ UNCHANGED <<guest, stop>>
  /\ UNCHANGED <<session, pending, cancel, reactor, woken, inputs>>

\* complete, and the wake of the program with the batch.
Collect ==
  LET t == TakeDelivered
      due == {h \in Handles : t.ops[h].at \in {"due", "taken"}}
  IN  /\ pc = "collect" /\ ~ stop.flag
      /\ ops' = [h \in Handles |-> IF h \in due THEN [t.ops[h] EXCEPT !.at = "completed"]
                                   ELSE t.ops[h]]
      /\ reads' = t.reads /\ input' = t.input /\ inbox' = [chunks |-> <<>>, done |-> {}]
      /\ open' = open - Cardinality(due)
      /\ woken' = woken \cup due
      /\ pc' = IF due # {} \/ (Bound /\ cancel.due) THEN "poll" ELSE "wait"
      /\ UNCHANGED <<session, pending, cancel, guest, socket, got, stop, inputs>>

\* wait_bounded reads the flag, then goes to wait under the lock.
Wait == /\ pc = "wait" /\ ~ stop.flag /\ pc' = "lock"
        /\ UNCHANGED <<session, pending, cancel, guest, reactor, woken, stop, inputs>>

MayParkUnlessDelivered == inbox.chunks = <<>> /\ inbox.done = {}     \* variant
\* The tests under the lock: wait_until's, and park_until's when nothing is open.
MayPark == ~ stop.flag /\ (open = 0 \/ (inbox.chunks = <<>> /\ inbox.done = {}))

Park == /\ pc = "lock" /\ pc' = IF MayPark THEN "parked" ELSE "woken"
        /\ UNCHANGED <<session, pending, cancel, guest, reactor, woken, stop, inputs>>

Woken == /\ pc = "woken" /\ ~ stop.flag /\ pc' = "collect"
         /\ UNCHANGED <<session, pending, cancel, guest, reactor, woken, stop, inputs>>

\* The next input of a session: an earlier request is void.
NextInput ==
  /\ session /\ Ended /\ inputs < MaxInputs
  /\ pc' = "poll" /\ guest' = "runs" /\ woken' = {} /\ inputs' = inputs + 1
  /\ stop' = [stop EXCEPT !.flag = FALSE]
  /\ UNCHANGED <<session, pending, cancel, reactor>>

Loop == \/ Poll \/ PollOther \/ Trapped \/ Pends \/ Deadlocks \/ Returns \/ Interrupted
        \/ Collect \/ Wait \/ Park \/ Woken

Others == \/ \E h \in Handles : TaskEnds(h) \/ TimerPasses(h)
          \/ ReaderReads \/ Request \/ Wake \/ BoundPasses \/ TimedOut

Next == Loop \/ Program \/ Others \/ NextInput

Spec == Init /\ [][Next]_vars

\* A turn of the program ends, a thread that set the flag wakes, the bound passes.
FairSpec == Spec /\ WF_vars(Loop) /\ WF_vars(Wake) /\ WF_vars(BoundPasses) /\ WF_vars(TimedOut)
-----------------------------------------------------------------------------
(* Properties.                                                                *)

TypeOK ==
  /\ session \in BOOLEAN /\ pc \in Points /\ guest \in {"runs", "cleanup", "abandoned", "last"}
  /\ ops \in Seq(Op) /\ reads \in Seq(Nat) /\ woken \subseteq Handles
  /\ input \in [buffered : Seq(Int), ended : BOOLEAN, asked : BOOLEAN, lines : Nat]
  /\ inbox \in [chunks : Seq(Int), done : SUBSET (Handles \X Nat)]
  /\ socket \in [closed : BOOLEAN, unread : SUBSET Nat, items : Nat]
  /\ got \in [items : SUBSET Int, lines : SUBSET Int]
  /\ stop \in [flag : BOOLEAN, waking : Nat, asked : Nat]

\* `open` counts the operations that have not completed.
Uncompleted == {h \in Handles : Here(h) /\ ops[h].at # "completed"}
OpenCounts == open = Cardinality(Uncompleted)

\* Every read that waits is an operation that is pending, and they are in order.
ReadsWait ==
  /\ Range(reads) = {h \in Handles : ops[h].kind = "read" /\ ops[h].at = "pending"}
  /\ \A i, j \in DOMAIN reads : i < j => reads[i] < reads[j]

\* A delivery is for an operation whose task ran until then, and which has no
\* other result; a result of the socket is an item, or that it was closed.
DeliveriesInv ==
  /\ \A h \in Handles : ops[h].kind = "io" => ops[h].val >= Disposed
  /\ \A h \in Handles : ops[h].kind = "io" /\ ops[h].at = "pending" => ops[h].val = None
  /\ \A d \in inbox.done : /\ ops[d[1]].kind = "io" /\ ops[d[1]].at = "pending" /\ d[2] # None
                           /\ \A e \in inbox.done : e[1] = d[1] => e = d

\* The program was told of the operations that completed, and a run that ended
\* left none behind.
ToldInv ==
  /\ \A h \in Handles : ops[h].kind = "gone" => ops[h].at = "completed"
  /\ \A h \in Handles : Here(h) /\ ops[h].at = "completed" => h \in woken
  /\ \A h \in woken : ops[h].at = "completed"
  /\ Ended => \A h \in Handles : ~ Here(h)

\* The states the reactor, its inbox and the program's wake table can be in.
ReactorInv == TypeOK /\ OpenCounts /\ ReadsWait /\ DeliveriesInv /\ ToldInv

ItemsOf(h) == IF ops[h].kind = "io" THEN {v \in Held(h) : v > 0} ELSE {}

\* std-net.cancel.read: what a task read from the socket reaches the program, or
\* waits for its next read, however the operation that read it ended.  Until the
\* socket is closed, each item is in exactly one place: with the program, kept
\* for the next read, or with one operation (or its delivery).  So none is lost,
\* and none that the program has, or that went back, is there to be given again.
ItemsAreKept ==
  socket.closed \/
    /\ 1 .. socket.items = got.items \cup socket.unread \cup UNION {ItemsOf(h) : h \in Handles}
    /\ got.items \cap socket.unread = {}
    /\ \A h \in Handles : /\ ItemsOf(h) \cap (got.items \cup socket.unread) = {}
                          /\ \A i \in Handles \ {h} : ItemsOf(h) \cap ItemsOf(i) = {}

Lines == got.lines \cup Range(input.buffered) \cup Range(inbox.chunks)
         \cup {ops[h].val : h \in {i \in Handles : ops[i].kind = "read"}}

\* reactor.rs:201: an aborted read loses no input; nothing the program does in
\* its turn loses a line that the reader thread delivered.
AbortedReadsLoseNoInput ==
  [][pc = "turn" /\ pc' = "turn" => {l \in Lines : l > 0} \subseteq Lines']_vars

\* The loop never sleeps on a delivery or a request unless a wake is on its way.
NoWakeIsLost ==
  pc = "parked" =>
    /\ stop.flag => stop.waking > 0
    /\ open > 0 => inbox.chunks = <<>> /\ inbox.done = {}

\* A run is a deadlock only when each operation left completed and was told.
DeadlocksAreReal ==
  [][pc' = "deadlock" /\ pc # "deadlock" => \A h \in Handles : Here(h) => h \in woken]_vars

\* A stop request ends the run or the input, whatever the program waits for and
\* however long its cleanup would take.
StopEndsTheRun == (stop.flag /\ ~ Ended) ~> Ended
=============================================================================
