-------------------------------- MODULE Mpsc --------------------------------
(***************************************************************************)
(* The bounded multi-producer, single-consumer channel of                  *)
(* ringline/src/runtime/channel.rs (module mpsc), with the part of the     *)
(* executor it relies on: a task is Running user code, Parked on a future  *)
(* that returned Pending, or Ready, that is woken and due to be polled.    *)
(* Every poll and every drop is atomic: the channel is !Send and lives on  *)
(* one worker thread.  A task is Dropped once its connection was torn      *)
(* down.                                                                   *)
(*                                                                         *)
(* Each task of Senders owns one clone of the Sender, and awaits at most   *)
(* one SendFuture at a time.  A task of ConnTasks is a connection task:    *)
(* the event loop drops its future when its connection is torn down,       *)
(* outside the driver-state guard, where wake_waiter does nothing.         *)
(***************************************************************************)
EXTENDS Naturals, Sequences, SequencesExt, FiniteSets

CONSTANTS Senders,    \* the tasks that own a Sender
          Rx,         \* the task that owns the Receiver
          ConnTasks,  \* the senders whose task a connection close may drop
          ChannelCapacity,   \* the capacity given to mpsc::channel
          MaxSends    \* bound: values each sender may have accepted

ASSUME ChannelAssumption ==
  /\ ChannelCapacity \in Nat \ {0}
  /\ MaxSends \in Nat
  /\ Rx \notin Senders
  /\ ConnTasks \subseteq Senders

VARIABLES
  queue,         \* State.queue
  recv_waiter,   \* State.recv_waiter is Some(Rx)
  send_waiters,  \* State.send_waiters, oldest first
  senders,       \* the Sender clones alive: sender_count is its cardinality
  rx_alive,      \* the Receiver's Rc is alive
  registered,    \* SendFuture.registered is Some, by sending task
  task,          \* what the executor knows of each task
  accepted,      \* ghost: how many values of each sender were queued
  received       \* ghost: the values recv and try_recv returned, in order

channelVars == <<queue, recv_waiter, send_waiters, senders, rx_alive, registered,
          task, accepted, received>>

ChannelTasks == Senders \union {Rx}

TaskStates == {"Running", "Parked", "Ready", "Dropped"}

InitChannel ==
  /\ queue = <<>>
  /\ recv_waiter = FALSE
  /\ send_waiters = <<>>
  /\ senders = Senders
  /\ rx_alive = TRUE
  /\ registered = [s \in Senders |-> FALSE]
  /\ task = [t \in ChannelTasks |-> "Running"]
  /\ accepted = [s \in Senders |-> 0]
  /\ received = <<>>

-----------------------------------------------------------------------------
(* wake_waiter: Executor::wake_task on each task of W moves a parked one. *)
WakeWaiter(tasks, W) ==
  [t \in ChannelTasks |-> IF t \in W /\ tasks[t] = "Parked" THEN "Ready" ELSE tasks[t]]

RecvWaiter == IF recv_waiter THEN {Rx} ELSE {}

FirstSendWaiter == IF send_waiters = <<>> THEN {} ELSE {Head(send_waiters)}

PopSendWaiter == IF send_waiters = <<>> THEN <<>> ELSE Tail(send_waiters)

(* Mutant: the value is queued and nobody is told. *)
PushNoWake(s) ==
  /\ accepted[s] < MaxSends
  /\ queue' = Append(queue, <<s, accepted[s] + 1>>)
  /\ accepted' = [accepted EXCEPT ![s] = @ + 1]
  /\ task' = [task EXCEPT ![s] = "Running"]
  /\ UNCHANGED recv_waiter

(* Queue the next value of s and wake the receiver; s goes back to its code. *)
Push(s) ==
  /\ accepted[s] < MaxSends
  /\ queue' = Append(queue, <<s, accepted[s] + 1>>)
  /\ accepted' = [accepted EXCEPT ![s] = @ + 1]
  /\ recv_waiter' = FALSE
  /\ task' = WakeWaiter([task EXCEPT ![s] = "Running"], RecvWaiter)

(* Mutant: try_send without its capacity test. *)
TrySendUnbounded(s) ==
  /\ s \in senders
  /\ task[s] = "Running"
  /\ rx_alive
  /\ Push(s)
  /\ UNCHANGED <<send_waiters, senders, rx_alive, registered, received>>

(* Sender::try_send, or the first poll of a SendFuture, with room: only the  *)
(* call that queues the value changes anything.                             *)
TrySend(s) ==
  /\ s \in senders
  /\ task[s] = "Running"
  /\ rx_alive
  /\ Len(queue) < ChannelCapacity
  /\ Push(s)
  /\ UNCHANGED <<send_waiters, senders, rx_alive, registered, received>>

(* SendFuture::poll, receiver gone: Err(SendError), and the future is dropped. *)
SendPollClosed(s) ==
  /\ s \in senders
  /\ task[s] = "Ready"
  /\ ~rx_alive
  /\ task' = [task EXCEPT ![s] = "Running"]
  /\ registered' = [registered EXCEPT ![s] = FALSE]
  /\ UNCHANGED <<queue, recv_waiter, send_waiters, senders, rx_alive, accepted,
                 received>>

(* SendFuture::poll with room: the registration is assumed consumed. *)
SendPollQueued(s) ==
  /\ s \in senders
  /\ task[s] = "Ready"
  /\ rx_alive
  /\ Len(queue) < ChannelCapacity
  /\ Push(s)
  /\ registered' = [registered EXCEPT ![s] = FALSE]
  /\ UNCHANGED <<send_waiters, senders, rx_alive, received>>

(* SendFuture::poll on a full queue, by a first poll or a woken one: park, *)
(* and join send_waiters unless this future registered before.             *)
SendPollFull(s) ==
  /\ s \in senders
  /\ task[s] \in {"Running", "Ready"}
  /\ rx_alive
  /\ Len(queue) >= ChannelCapacity
  /\ accepted[s] < MaxSends
  /\ send_waiters' = IF registered[s] THEN send_waiters ELSE Append(send_waiters, s)
  /\ registered' = [registered EXCEPT ![s] = TRUE]
  /\ task' = [task EXCEPT ![s] = "Parked"]
  /\ UNCHANGED <<queue, recv_waiter, senders, rx_alive, accepted, received>>

(* SendFuture::drop on s's behalf: the waiters it leaves, and whom it wakes. *)
DropLeaves(s) ==
  IF ~registered[s] THEN send_waiters
  ELSE IF Contains(send_waiters, s) THEN RemoveFirst(send_waiters, s)
  ELSE PopSendWaiter

DropWakes(s) ==
  IF registered[s] /\ ~Contains(send_waiters, s) THEN FirstSendWaiter ELSE {}

(* A select or a timeout around the SendFuture finishes first and drops it. *)
CancelSend(s) ==
  /\ s \in senders
  /\ task[s] \in {"Parked", "Ready"}
  /\ send_waiters' = DropLeaves(s)
  /\ registered' = [registered EXCEPT ![s] = FALSE]
  /\ task' = WakeWaiter([task EXCEPT ![s] = "Running"], DropWakes(s))
  /\ UNCHANGED <<queue, recv_waiter, senders, rx_alive, accepted, received>>

(* Mutant: the last one to go tells nobody. *)
DropSenderSilent(s) ==
  /\ s \in senders
  /\ task[s] = "Running"
  /\ senders' = senders \ {s}
  /\ UNCHANGED <<queue, recv_waiter, send_waiters, rx_alive, registered, task, accepted, received>>

(* Sender::drop inside the executor: the last one wakes the receiver. *)
DropSender(s) ==
  /\ s \in senders
  /\ task[s] = "Running"
  /\ senders' = senders \ {s}
  /\ IF senders' = {}
     THEN /\ recv_waiter' = FALSE
          /\ task' = WakeWaiter(task, RecvWaiter)
     ELSE UNCHANGED <<recv_waiter, task>>
  /\ UNCHANGED <<queue, send_waiters, rx_alive, registered, accepted, received>>

(* Executor::remove_connection, from drain_pending_closes or handle_close,   *)
(* drops the connection task with its SendFuture and its Sender.  There is   *)
(* no driver state there, so both drops take the waiter and wake nobody.     *)
TeardownTask(s) ==
  /\ s \in senders \intersect ConnTasks
  /\ send_waiters' = DropLeaves(s)
  /\ registered' = [registered EXCEPT ![s] = FALSE]
  /\ senders' = senders \ {s}
  /\ recv_waiter' = (recv_waiter /\ senders' # {})
  /\ task' = [task EXCEPT ![s] = "Dropped"]
  /\ UNCHANGED <<queue, rx_alive, accepted, received>>

(* Another event wakes a task that awaits this channel among other things. *)
OtherWake(t) ==
  /\ task[t] = "Parked"
  /\ task' = WakeWaiter(task, {t})
  /\ UNCHANGED <<queue, recv_waiter, send_waiters, senders, rx_alive,
                 registered, accepted, received>>

(* Mutant: the newest value is taken first. *)
RecvNewest ==
  /\ rx_alive
  /\ task[Rx] \in {"Running", "Ready"}
  /\ queue # <<>>
  /\ received' = Append(received, Last(queue))
  /\ queue' = Front(queue)
  /\ send_waiters' = PopSendWaiter
  /\ task' = WakeWaiter([task EXCEPT ![Rx] = "Running"], FirstSendWaiter)
  /\ UNCHANGED <<recv_waiter, senders, rx_alive, registered, accepted>>

(* Mutant: the senders are tested before the queue. *)
RecvValueWhileOpen ==
  /\ rx_alive
  /\ task[Rx] \in {"Running", "Ready"}
  /\ senders # {}
  /\ queue # <<>>
  /\ received' = Append(received, Head(queue))
  /\ queue' = Tail(queue)
  /\ send_waiters' = PopSendWaiter
  /\ task' = WakeWaiter([task EXCEPT ![Rx] = "Running"], FirstSendWaiter)
  /\ UNCHANGED <<recv_waiter, senders, rx_alive, registered, accepted>>

(* RecvFuture::poll or try_recv with a value queued. *)
RecvValue ==
  /\ rx_alive
  /\ task[Rx] \in {"Running", "Ready"}
  /\ queue # <<>>
  /\ received' = Append(received, Head(queue))
  /\ queue' = Tail(queue)
  /\ send_waiters' = PopSendWaiter
  /\ task' = WakeWaiter([task EXCEPT ![Rx] = "Running"], FirstSendWaiter)
  /\ UNCHANGED <<recv_waiter, senders, rx_alive, registered, accepted>>

(* RecvFuture::poll with nothing queued and a sender alive: park. *)
RecvPark ==
  /\ rx_alive
  /\ task[Rx] \in {"Running", "Ready"}
  /\ queue = <<>>
  /\ senders # {}
  /\ recv_waiter' = TRUE
  /\ task' = [task EXCEPT ![Rx] = "Parked"]
  /\ UNCHANGED <<queue, send_waiters, senders, rx_alive, registered, accepted,
                 received>>

(* RecvFuture::poll with nothing queued and every sender dropped: None. *)
RecvNone ==
  /\ rx_alive
  /\ task[Rx] = "Ready"
  /\ queue = <<>>
  /\ senders = {}
  /\ task' = [task EXCEPT ![Rx] = "Running"]
  /\ UNCHANGED <<queue, recv_waiter, send_waiters, senders, rx_alive,
                 registered, accepted, received>>

(* A select drops the RecvFuture, which has no Drop: the waiter stays. *)
CancelRecv ==
  /\ rx_alive
  /\ task[Rx] \in {"Parked", "Ready"}
  /\ task' = [task EXCEPT ![Rx] = "Running"]
  /\ UNCHANGED <<queue, recv_waiter, send_waiters, senders, rx_alive,
                 registered, accepted, received>>

(* Receiver::drop: wake every registered sender. *)
DropReceiver ==
  /\ rx_alive
  /\ task[Rx] = "Running"
  /\ rx_alive' = FALSE
  /\ send_waiters' = <<>>
  /\ task' = WakeWaiter(task, ToSet(send_waiters))
  /\ UNCHANGED <<queue, recv_waiter, senders, registered, accepted, received>>

Recv == RecvValue \/ RecvPark \/ RecvNone

SendPoll(s) == SendPollClosed(s) \/ SendPollQueued(s) \/ SendPollFull(s)

ChannelNext ==
  \/ \E s \in Senders :
       \/ TrySend(s)
       \/ SendPollClosed(s)
       \/ SendPollQueued(s)
       \/ SendPollFull(s)
       \/ CancelSend(s)
       \/ DropSender(s)
       \/ TeardownTask(s)
  \/ \E t \in ChannelTasks : OtherWake(t)
  \/ RecvValue
  \/ RecvPark
  \/ RecvNone
  \/ CancelRecv
  \/ DropReceiver

MpscSpec == InitChannel /\ [][ChannelNext]_channelVars

-----------------------------------------------------------------------------
(* The executor polls every woken task: a Ready sender or receiver is polled. *)
PolledFairly ==
  /\ \A s \in Senders : WF_channelVars(task[s] = "Ready" /\ SendPoll(s))
  /\ WF_channelVars(task[Rx] = "Ready" /\ Recv)

(* The receiving task keeps calling recv. *)
ReceiverLoops == WF_channelVars(Recv)

MpscFairSpec == MpscSpec /\ PolledFairly

DrainingSpec == MpscFairSpec /\ ReceiverLoops

-----------------------------------------------------------------------------
(* The type of the channel's state; the queue never exceeds the capacity     *)
(* that try_send and SendFuture::poll test before they push.                 *)
ChannelTypeOK ==
  /\ queue \in Seq(Senders \X (1..MaxSends))
  /\ Len(queue) <= ChannelCapacity
  /\ recv_waiter \in BOOLEAN
  /\ send_waiters \in Seq(Senders)
  /\ senders \subseteq Senders
  /\ rx_alive \in BOOLEAN
  /\ registered \in [Senders -> BOOLEAN]
  /\ task \in [ChannelTasks -> TaskStates]
  /\ accepted \in [Senders -> 0..MaxSends]
  /\ received \in Seq(Senders \X (1..MaxSends))

(* No value is lost, duplicated or overtaken by a later one of its sender,   *)
(* through blocked sends, cancelled futures and dropped tasks: in what was   *)
(* received followed by what is queued, the values of a sender are exactly   *)
(* the accepted ones, in the order it sent them.                             *)
NothingLostOrReordered ==
  LET all == received \o queue IN
  /\ \A i \in 1..Len(all) : all[i][2] \in 1..accepted[all[i][1]]
  /\ \A i, j \in 1..Len(all) : i < j /\ all[i][1] = all[j][1] => all[i][2] < all[j][2]
  /\ \A s \in Senders : \A n \in 1..accepted[s] : \E i \in 1..Len(all) : all[i] = <<s, n>>

(* A receiver parked in recv().await never sleeps over a queued value.  As    *)
(* long as a sender is alive it is registered to be woken, and when the last  *)
(* one has gone it has been woken to see None; except where a connection's    *)
(* teardown dropped a sender's task outside the driver state, where           *)
(* Sender::drop takes the waiter and wakes nobody (channel.rs:317).           *)
ReceiverNotForgotten ==
  rx_alive /\ task[Rx] = "Parked" =>
    /\ queue = <<>>
    /\ IF senders # {} THEN recv_waiter ELSE \E s \in ConnTasks : task[s] = "Dropped"

(* What the channel is to its users: the queue, who is left on both sides,   *)
(* and what went through.                                                    *)
C == INSTANCE BoundedChannel WITH
       Producers <- Senders, Bound <- ChannelCapacity, MaxValues <- MaxSends, chan <- queue,
       open <- senders, reading <- rx_alive, count <- accepted, taken <- received

(* The channel implements the abstract one: with all its waiters, wake-ups,  *)
(* cancelled futures and dropped tasks, each poll and drop either changes    *)
(* nothing its users see or is one step of a bounded queue; and a receiver   *)
(* that keeps calling recv takes every value that was accepted.              *)
ImplementsChannel == C!FairSpec

(* Sender::send: "If the channel is full, the future parks until the         *)
(* receiver drains a slot": with a receiver that keeps draining, it ends.    *)
SendResolves ==
  \A s \in Senders : task[s] = "Parked" ~> task[s] = "Running"
=============================================================================
