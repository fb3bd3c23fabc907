---------------------------- MODULE TimedChannel ----------------------------
(* Tasks of a compiled program that send and receive on one channel, each     *)
(* receive under timeout! with a bound on the cleanup (task.hd), over the     *)
(* frames of the emitted runtime (task.rs): wait cells whose signal wakes     *)
(* every waiter, races that poll and cancel their children in list order, a   *)
(* cleanup that unwinds over several polls and may be abandoned.  One thread  *)
(* runs the tasks; a poll goes on until its frames wait.                      *)
EXTENDS Integers, Sequences, FiniteSets

CONSTANTS Senders, Receivers,
          Bounded,       \* the receivers whose timeout! has a cleanup bound
          Cancelled,     \* the receivers that something outside may cancel
          Capacity, Limit, CleanupBound,
          MaxSends       \* bound: what each sender sends before it closes

ASSUME TimedChannelAssumption ==
  /\ Bounded \subseteq Receivers /\ Cancelled \subseteq Receivers
  /\ Capacity \in Nat \ {0} /\ Limit \in Nat \ {0} /\ CleanupBound \in Nat /\ MaxSends \in Nat

VARIABLES items, closed,   \* the ChannelState
          sender, receiver,
          panicked         \* a send on the closed channel ended the program

channelVars == <<items, closed, sender, receiver, panicked>>

\* "linked" is a frame that waits on its cell, "signalled" one whose cell moved on.
Sender == [at : {"go", "linked", "signalled", "done"}, left : 0 .. MaxSends]

\* limit and left count down to the timeout's limit and its cleanup deadline;
\* host is the host operation that the work's cleanup waits for; since is the
\* time since the work was first cancelled, up to the bound.
Receiver == [at : {"idle", "linked", "signalled", "settling", "cancelling", "done"},
             limit : 0 .. Limit, left : 0 .. CleanupBound, since : 0 .. CleanupBound,
             host : {"none", "waits", "ready"}]

Idle == [at |-> "idle", limit |-> 0, left |-> 0, since |-> 0, host |-> "none"]

ChannelInit ==
  /\ items = <<>> /\ closed = FALSE /\ panicked = FALSE
  /\ sender = [s \in Senders |-> [at |-> "go", left |-> MaxSends]]
  /\ receiver = [c \in Receivers |-> Idle]
-----------------------------------------------------------------------------
(* The channel.                                                               *)

SignalOne(tasks) ==                                                 \* variant
  LET waiting == {t \in DOMAIN tasks : tasks[t].at = "linked"}
  IN  IF waiting = {} THEN tasks
      ELSE [tasks EXCEPT ![CHOOSE t \in waiting : TRUE].at = "signalled"]

\* wait_signal: the epoch moves on for every frame that waits on the cell.
Signal(tasks) ==
  [t \in DOMAIN tasks |-> IF tasks[t].at = "linked" THEN [tasks[t] EXCEPT !.at = "signalled"]
                          ELSE tasks[t]]

Sends(s) == ~ panicked /\ sender[s].at \in {"go", "signalled"} /\ sender[s].left > 0

\* send!: each wake tests the channel again.
SendWaits(s) ==
  /\ Sends(s) /\ ~ closed /\ Len(items) >= Capacity
  /\ sender' = [sender EXCEPT ![s].at = "linked"]
  /\ UNCHANGED <<items, closed, receiver, panicked>>

SendPuts(s) ==
  /\ Sends(s) /\ ~ closed /\ Len(items) < Capacity
  /\ items' = Append(items, s)
  /\ sender' = [sender EXCEPT ![s] = [at |-> "go", left |-> @.left - 1]]
  /\ receiver' = Signal(receiver)
  /\ UNCHANGED <<closed, panicked>>

SendPanics(s) == /\ Sends(s) /\ closed /\ panicked' = TRUE
                 /\ UNCHANGED <<items, closed, sender, receiver>>

SendCloses(s) ==
  /\ ~ panicked /\ sender[s].at = "go" /\ sender[s].left = 0
  /\ closed' = TRUE
  /\ receiver' = IF closed THEN receiver ELSE Signal(receiver)
  /\ sender' = [IF closed THEN sender ELSE Signal(sender) EXCEPT ![s].at = "done"]
  /\ UNCHANGED <<items, panicked>>

\* recv!, the work of the timeout: it completes in one poll or it waits.
Receives(c) == ~ panicked /\ receiver[c].at \in {"idle", "signalled"}
CanReceive == items # <<>> \/ closed

\* The work won the race: the bound's dispose finds it done, the sleep is dropped.
RecvTakes(c) ==
  /\ Receives(c) /\ items # <<>>
  /\ items' = Tail(items)
  /\ sender' = Signal(sender)
  /\ receiver' = [receiver EXCEPT ![c] = Idle]
  /\ UNCHANGED <<closed, panicked>>

RecvEnds(c) ==
  /\ Receives(c) /\ items = <<>> /\ closed
  /\ receiver' = [receiver EXCEPT ![c] = [Idle EXCEPT !.at = "done"]]
  /\ UNCHANGED <<items, closed, sender, panicked>>

\* A new timeout!, or a wake that another receiver was faster to use.
RecvWaits(c) ==
  /\ Receives(c) /\ ~ CanReceive /\ (receiver[c].at = "idle" \/ receiver[c].limit > 0)
  /\ receiver' = [receiver EXCEPT ![c].at = "linked",
                                  ![c].limit = IF receiver[c].at = "idle" THEN Limit ELSE @]
  /\ UNCHANGED <<items, closed, sender, panicked>>
-----------------------------------------------------------------------------
(* The limit, the cancel and the cleanup.                                     *)

\* What is left of the race once nothing of it unwinds: timeout! returns
\* TimedOut and its caller receives again, or a cancelled one is done.
Settled(at) == IF at = "settling" THEN Idle ELSE [Idle EXCEPT !.at = "done"]

\* The race cancels its children in list order: the bound's child first, whose
\* dispose takes the time, then the work, whose cleanup may wait for the host.
StartCleanup(c, at) ==
  \E host \in {"none", "waits"} :
    receiver' = [receiver EXCEPT ![c] =
      IF host = "none" \/ (c \in Bounded /\ CleanupBound = 0) THEN Settled(at)
      ELSE [Idle EXCEPT !.at = at, !.left = IF c \in Bounded THEN CleanupBound ELSE 0,
                        !.host = host]]

\* The limit passed, and the work, which the race polls first, did not complete.
Expire(c) ==
  /\ ~ panicked /\ receiver[c].at \in {"linked", "signalled"} /\ receiver[c].limit = 0
  /\ ~ (receiver[c].at = "signalled" /\ CanReceive)
  /\ StartCleanup(c, "settling")
  /\ UNCHANGED <<items, closed, sender, panicked>>

ContinuedAnew(c) == IF c \in Bounded THEN CleanupBound ELSE 0        \* variant
\* A later cancel of a frame that unwinds continues its dispose.
Continued(c) == receiver[c].left

CancelOutside(c) ==
  /\ ~ panicked /\ c \in Cancelled
  /\ \/ receiver[c].at \in {"idle", "linked", "signalled"} /\ StartCleanup(c, "cancelling")
     \/ /\ receiver[c].at \in {"settling", "cancelling"}
        /\ receiver' = [receiver EXCEPT ![c].at = "cancelling", ![c].left = Continued(c)]
  /\ UNCHANGED <<items, closed, sender, panicked>>

Unwinds(c) == receiver[c].at \in {"settling", "cancelling"}

HostCompletes(c) ==
  /\ ~ panicked /\ Unwinds(c) /\ receiver[c].host = "waits"
  /\ receiver' = [receiver EXCEPT ![c].host = "ready"]
  /\ UNCHANGED <<items, closed, sender, panicked>>

MayAbandonCancelled(c) == c \in Bounded /\ receiver[c].left = 0      \* variant
                          /\ receiver[c].at = "cancelling"
\* cleanup_deadline is the second child: it abandons what has not ended by then.
MayAbandon(c) == c \in Bounded /\ receiver[c].left = 0

Settle(c) ==
  /\ ~ panicked /\ Unwinds(c)
  /\ receiver[c].host = "ready" \/ MayAbandon(c)
  /\ receiver' = [receiver EXCEPT ![c] = Settled(receiver[c].at)]
  /\ UNCHANGED <<items, closed, sender, panicked>>

Less(n) == IF n > 0 THEN n - 1 ELSE 0

\* Time passes for every timer.
Tick ==
  /\ ~ panicked
  /\ \E c \in Receivers : receiver[c].limit > 0 \/ receiver[c].left > 0
  /\ receiver' = [c \in Receivers |->
       [receiver[c] EXCEPT !.limit = Less(@), !.left = Less(@),
          !.since = IF Unwinds(c) /\ @ < CleanupBound THEN @ + 1 ELSE @]]
  /\ UNCHANGED <<items, closed, sender, panicked>>

SenderStep(s) == SendWaits(s) \/ SendPuts(s) \/ SendPanics(s) \/ SendCloses(s)

ReceiverStep(c) == RecvTakes(c) \/ RecvEnds(c) \/ RecvWaits(c) \/ Expire(c) \/ Settle(c)

ChannelNext ==
  \/ \E s \in Senders : SenderStep(s)
  \/ \E c \in Receivers : ReceiverStep(c) \/ CancelOutside(c) \/ HostCompletes(c)
  \/ Tick

ChannelSpec == ChannelInit /\ [][ChannelNext]_channelVars

\* The driver polls what was woken, and timers of the host fire; a host
\* operation of a cleanup need never complete.
FairChannelSpec ==
  /\ ChannelSpec /\ WF_channelVars(Tick)
  /\ \A s \in Senders : WF_channelVars(SenderStep(s))
  /\ \A c \in Receivers : WF_channelVars(ReceiverStep(c))
-----------------------------------------------------------------------------
(* Properties.                                                                *)

ChannelTypeOK ==
  /\ items \in Seq(Senders) /\ Len(items) <= Capacity
  /\ sender \in [Senders -> Sender] /\ receiver \in [Receivers -> Receiver]
  /\ closed \in BOOLEAN /\ panicked \in BOOLEAN

\* A frame that waits on a cell could not go on if it were polled: no wake of
\* a channel is lost, whoever was faster, was cancelled or closed it.
NoSleeperCouldGoOn ==
  /\ ChannelTypeOK
  /\ \A c \in Receivers : receiver[c].at = "linked" => ~ CanReceive
  /\ \A s \in Senders : sender[s].at = "linked" => Len(items) >= Capacity /\ ~ closed

\* The cleanup deadline is fixed when the work is first cancelled, by the limit
\* or from outside, and no later cancel moves it.
DeadlineIsFixed ==
  \A c \in Bounded : Unwinds(c) => receiver[c].left = CleanupBound - receiver[c].since

\* Whatever cleanup hangs, a bounded receiver that nobody cancels, and the
\* senders, all come to their end.
EveryoneEnds ==
  <>(panicked \/ /\ \A s \in Senders : sender[s].at = "done"
                 /\ \A c \in Bounded \ Cancelled : receiver[c].at = "done")
=============================================================================
