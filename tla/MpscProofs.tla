----------------------------- MODULE MpscProofs -----------------------------
(***************************************************************************)
(* Proofs about Mpsc, for any set of senders, any capacity and any number  *)
(* of values: it implements BoundedChannel, it loses and reorders nothing, *)
(* and it does not forget its receiver.                                    *)
(***************************************************************************)
EXTENDS Mpsc, SequenceTheorems, TLAPS

Values == Senders \X Nat

(* The types the arguments need: what the users of the channel see, the    *)
(* receiver's waiter and the tasks.  The senders' waiters do not matter.   *)
SeenOK ==
  /\ queue \in Seq(Values)
  /\ received \in Seq(Values)
  /\ accepted \in [Senders -> Nat]
  /\ senders \subseteq Senders
  /\ recv_waiter \in BOOLEAN
  /\ rx_alive \in BOOLEAN
  /\ task \in [ChannelTasks -> TaskStates]

(* The inductive invariant. *)
ChannelInv == SeenOK /\ ReceiverNotForgotten

-----------------------------------------------------------------------------
(* A wake-up leaves every task a task. *)
LEMMA WakeWaiterType ==
  ASSUME NEW tasks \in [ChannelTasks -> TaskStates], NEW W
  PROVE  WakeWaiter(tasks, W) \in [ChannelTasks -> TaskStates]
BY DEF WakeWaiter, TaskStates

(* The receiver's task is none of the senders'. *)
LEMMA RxIsNoSender == Rx \in ChannelTasks /\ Rx \notin Senders /\ Senders \subseteq ChannelTasks
BY ChannelAssumption DEF ChannelTasks

(* Push queues the next value of its sender and wakes a parked receiver:   *)
(* one that is registered, as every parked one is while a sender is alive. *)
LEMMA PushStep ==
  ASSUME ChannelInv, NEW s \in senders, Push(s),
         UNCHANGED <<senders, rx_alive, received>>
  PROVE  ChannelInv'
<1>1. s \in Senders /\ s \in ChannelTasks /\ s # Rx
  BY RxIsNoSender DEF ChannelInv, SeenOK
<1>2. SeenOK'
  <2>1. <<s, accepted[s] + 1>> \in Values /\ accepted' \in [Senders -> Nat]
    BY <1>1 DEF ChannelInv, SeenOK, Push, Values
  <2>2. queue' \in Seq(Values)
    BY <2>1, AppendProperties DEF ChannelInv, SeenOK, Push
  <2>3. [task EXCEPT ![s] = "Running"] \in [ChannelTasks -> TaskStates]
    BY <1>1 DEF ChannelInv, SeenOK, TaskStates
  <2>4. task' \in [ChannelTasks -> TaskStates]
    BY <2>3, WakeWaiterType DEF Push
  <2>5. QED
    BY <2>1, <2>2, <2>4 DEF ChannelInv, SeenOK, Push
<1>3. rx_alive => task'[Rx] # "Parked"
  <2>1. rx_alive /\ task[Rx] = "Parked" => recv_waiter
    BY DEF ChannelInv, ReceiverNotForgotten
  <2>2. task'[Rx] = IF recv_waiter /\ task[Rx] = "Parked" THEN "Ready" ELSE task[Rx]
    BY <1>1, RxIsNoSender DEF Push, WakeWaiter, RecvWaiter, ChannelInv, SeenOK
  <2>3. QED
    BY <2>1, <2>2
<1>4. QED
  BY <1>2, <1>3 DEF ChannelInv, ReceiverNotForgotten

(* The invariant holds initially. *)
LEMMA InitInv == InitChannel => ChannelInv
<1> SUFFICES ASSUME InitChannel PROVE ChannelInv
  OBVIOUS
<1>1. <<>> \in Seq(Values)
  OBVIOUS
<1>2. SeenOK
  BY <1>1 DEF InitChannel, SeenOK, TaskStates
<1>3. task[Rx] # "Parked"
  BY RxIsNoSender DEF InitChannel
<1>4. QED
  BY <1>2, <1>3 DEF ChannelInv, ReceiverNotForgotten

(* Every step keeps it. *)
LEMMA StepInv == ChannelInv /\ [ChannelNext]_channelVars => ChannelInv'
<1> SUFFICES ASSUME ChannelInv, [ChannelNext]_channelVars PROVE ChannelInv'
  OBVIOUS
<1> USE RxIsNoSender
<1>1. ASSUME NEW s \in Senders, TrySend(s) PROVE ChannelInv'
  BY <1>1, PushStep DEF TrySend
<1>2. ASSUME NEW s \in Senders, SendPollClosed(s) PROVE ChannelInv'
  BY <1>2 DEF SendPollClosed, ChannelInv, SeenOK, TaskStates, ReceiverNotForgotten
<1>3. ASSUME NEW s \in Senders, SendPollQueued(s) PROVE ChannelInv'
  BY <1>3, PushStep DEF SendPollQueued
<1>4. ASSUME NEW s \in Senders, SendPollFull(s) PROVE ChannelInv'
  BY <1>4 DEF SendPollFull, ChannelInv, SeenOK, TaskStates, ReceiverNotForgotten
<1>5. ASSUME NEW s \in Senders, CancelSend(s) PROVE ChannelInv'
  <2>1. [task EXCEPT ![s] = "Running"] \in [ChannelTasks -> TaskStates]
    BY <1>5 DEF ChannelInv, SeenOK, TaskStates
  <2>2. SeenOK'
    BY <1>5, <2>1, WakeWaiterType DEF CancelSend, ChannelInv, SeenOK
  <2>3. task'[Rx] = "Parked" => task[Rx] = "Parked"
    BY <1>5 DEF CancelSend, WakeWaiter, ChannelInv, SeenOK
  <2>4. QED
    <3>1. s \in senders /\ UNCHANGED <<queue, recv_waiter, senders, rx_alive>>
      BY <1>5 DEF CancelSend
    <3>2. rx_alive /\ task[Rx] = "Parked" => queue = <<>> /\ recv_waiter
      BY <3>1 DEF ChannelInv, ReceiverNotForgotten
    <3>3. QED
      BY <2>2, <2>3, <3>1, <3>2 DEF ChannelInv, ReceiverNotForgotten
<1>6. ASSUME NEW s \in Senders, DropSender(s) PROVE ChannelInv'
  <2>1. task' \in [ChannelTasks -> TaskStates]
    BY <1>6, WakeWaiterType DEF DropSender, ChannelInv, SeenOK
  <2>2. SeenOK'
    BY <1>6, <2>1 DEF DropSender, ChannelInv, SeenOK
  <2>3. task'[Rx] = "Parked" => task[Rx] = "Parked"
    BY <1>6 DEF DropSender, WakeWaiter, ChannelInv, SeenOK
  <2>4. senders' # {} => senders # {} /\ recv_waiter' = recv_waiter
    BY <1>6 DEF DropSender
  <2>5. rx_alive /\ task[Rx] = "Parked" => recv_waiter
    BY <1>6 DEF DropSender, ChannelInv, ReceiverNotForgotten
  <2>6. rx_alive /\ senders' = {} => task'[Rx] # "Parked"
    BY <1>6, <2>5 DEF DropSender, WakeWaiter, RecvWaiter, ChannelInv, SeenOK
  <2>7. QED
    BY <1>6, <2>2, <2>3, <2>4, <2>5, <2>6 DEF DropSender, ChannelInv, ReceiverNotForgotten
<1>7. ASSUME NEW s \in Senders, TeardownTask(s) PROVE ChannelInv'
  <2>1. SeenOK'
    BY <1>7 DEF TeardownTask, ChannelInv, SeenOK, TaskStates
  <2>2. s \in ConnTasks /\ task'[s] = "Dropped" /\ task'[Rx] = task[Rx]
    BY <1>7 DEF TeardownTask, ChannelInv, SeenOK
  <2>3. rx_alive /\ task[Rx] = "Parked" => queue = <<>> /\ recv_waiter
    BY <1>7 DEF TeardownTask, ChannelInv, ReceiverNotForgotten
  <2>4. QED
    BY <1>7, <2>1, <2>2, <2>3 DEF TeardownTask, ChannelInv, ReceiverNotForgotten
<1>8. ASSUME NEW t \in ChannelTasks, OtherWake(t) PROVE ChannelInv'
  <2>1. SeenOK'
    BY <1>8, WakeWaiterType DEF OtherWake, ChannelInv, SeenOK
  <2>2. task'[Rx] = "Parked" => task[Rx] = "Parked"
    BY <1>8 DEF OtherWake, WakeWaiter, ChannelInv, SeenOK
  <2>3. \A s \in ConnTasks : task[s] = "Dropped" => task'[s] = "Dropped"
    BY <1>8, ChannelAssumption DEF OtherWake, WakeWaiter, ChannelInv, SeenOK
  <2>4. QED
    BY <1>8, <2>1, <2>2, <2>3 DEF OtherWake, ChannelInv, ReceiverNotForgotten
<1>9. CASE RecvValue
  <2>1. Head(queue) \in Values /\ queue' \in Seq(Values)
    BY <1>9, HeadTailProperties DEF RecvValue, ChannelInv, SeenOK
  <2>2. received' \in Seq(Values)
    BY <1>9, <2>1, AppendProperties DEF RecvValue, ChannelInv, SeenOK
  <2>3. [task EXCEPT ![Rx] = "Running"] \in [ChannelTasks -> TaskStates]
    BY DEF ChannelInv, SeenOK, TaskStates
  <2>4. SeenOK'
    BY <1>9, <2>1, <2>2, <2>3, WakeWaiterType DEF RecvValue, ChannelInv, SeenOK
  <2>5. task'[Rx] # "Parked"
    BY <1>9 DEF RecvValue, WakeWaiter, ChannelInv, SeenOK
  <2>6. QED
    BY <2>4, <2>5 DEF ChannelInv, ReceiverNotForgotten
<1>10. CASE RecvPark
  <2>1. SeenOK'
    BY <1>10 DEF RecvPark, ChannelInv, SeenOK, TaskStates
  <2>2. queue' = <<>> /\ senders' # {} /\ recv_waiter' = TRUE
    BY <1>10 DEF RecvPark
  <2>3. QED
    BY <2>1, <2>2 DEF ChannelInv, ReceiverNotForgotten
<1>11. CASE RecvNone
  BY <1>11 DEF RecvNone, ChannelInv, SeenOK, TaskStates, ReceiverNotForgotten
<1>12. CASE CancelRecv
  BY <1>12 DEF CancelRecv, ChannelInv, SeenOK, TaskStates, ReceiverNotForgotten
<1>13. CASE DropReceiver
  BY <1>13, WakeWaiterType DEF DropReceiver, ChannelInv, SeenOK, ReceiverNotForgotten
<1>14. CASE UNCHANGED channelVars
  BY <1>14 DEF channelVars, ChannelInv, SeenOK, ReceiverNotForgotten
<1>15. QED
  BY <1>1, <1>2, <1>3, <1>4, <1>5, <1>6, <1>7, <1>8, <1>9, <1>10, <1>11, <1>12, <1>13, <1>14 DEF ChannelNext

(* The invariant holds in every state. *)
LEMMA Invariance == MpscSpec => []ChannelInv
BY InitInv, StepInv, PTL DEF MpscSpec

(* A receiver parked in recv().await is never left with a value queued, is *)
(* registered while a sender is alive, and is not parked any more once the *)
(* last one has gone, unless a connection's teardown dropped a sender      *)
(* (RecvFuture::poll, try_send, Sender::drop), for every set of senders    *)
(* and every capacity.                                                     *)
THEOREM ReceiverKnown == MpscSpec => []ReceiverNotForgotten
<1>1. ChannelInv => ReceiverNotForgotten
  BY DEF ChannelInv
<1>2. QED
  BY <1>1, Invariance, PTL

-----------------------------------------------------------------------------
(* Every step is a step of the abstract channel or changes nothing of it.  *)
LEMMA StepImplements == ChannelInv /\ [ChannelNext]_channelVars => [C!Next]_(C!chanVars)
<1> SUFFICES ASSUME ChannelInv, [ChannelNext]_channelVars PROVE [C!Next]_(C!chanVars)
  OBVIOUS
<1>1. ASSUME NEW s \in Senders, TrySend(s) \/ SendPollQueued(s) PROVE C!Accept(s)
  BY <1>1 DEF TrySend, SendPollQueued, Push, C!Accept
<1>2. ASSUME NEW s \in Senders, DropSender(s) \/ TeardownTask(s) PROVE C!Leave(s)
  BY <1>2 DEF DropSender, TeardownTask, C!Leave
<1>3. ASSUME NEW s \in Senders, SendPollClosed(s) \/ SendPollFull(s) \/ CancelSend(s)
      PROVE  UNCHANGED C!chanVars
  BY <1>3 DEF SendPollClosed, SendPollFull, CancelSend, C!chanVars
<1>4. ASSUME NEW t \in ChannelTasks, OtherWake(t) PROVE UNCHANGED C!chanVars
  BY <1>4 DEF OtherWake, C!chanVars
<1>5. ASSUME RecvValue PROVE C!Take
  BY <1>5 DEF RecvValue, C!Take
<1>6. ASSUME RecvPark \/ RecvNone \/ CancelRecv PROVE UNCHANGED C!chanVars
  BY <1>6 DEF RecvPark, RecvNone, CancelRecv, C!chanVars
<1>7. ASSUME DropReceiver PROVE C!StopReading
  BY <1>7 DEF DropReceiver, C!StopReading
<1>8. ASSUME UNCHANGED channelVars PROVE UNCHANGED C!chanVars
  BY <1>8 DEF channelVars, C!chanVars
<1>9. QED
  BY <1>1, <1>2, <1>3, <1>4, <1>5, <1>6, <1>7, <1>8 DEF ChannelNext, C!Next

(* The channel of channel.rs, with its waiters and wake-ups, cancelled     *)
(* futures and dropped tasks, is a bounded first-in, first-out queue: the  *)
(* safety part of ImplementsChannel, for every value of the constants.     *)
THEOREM Refinement == MpscSpec => C!Spec
<1>1. InitChannel => C!Init
  BY DEF InitChannel, C!Init
<1>2. QED
  BY <1>1, StepImplements, Invariance, PTL DEF MpscSpec, C!Spec

-----------------------------------------------------------------------------
(* What went through the channel, oldest first. *)
Through == received \o queue

(* The order of a sequence of values: the values of a sender are those     *)
(* numbered up to n[s], each once, in increasing order.                    *)
InOrder(all, n) ==
  /\ \A i \in 1..Len(all) : all[i][2] \in 1..n[all[i][1]]
  /\ \A i, j \in 1..Len(all) : i < j /\ all[i][1] = all[j][1] => all[i][2] < all[j][2]
  /\ \A s \in Senders : \A k \in 1..n[s] : \E i \in 1..Len(all) : all[i] = <<s, k>>

(* Accepting a value appends it to what went through. *)
LEMMA ThroughAccept ==
  ASSUME NEW q \in Seq(Values), NEW r \in Seq(Values), NEW v \in Values
  PROVE  r \o Append(q, v) = Append(r \o q, v)
OBVIOUS

(* Taking the oldest value changes nothing of it. *)
LEMMA ThroughTake ==
  ASSUME NEW q \in Seq(Values), NEW r \in Seq(Values), q # <<>>
  PROVE  Append(r, Head(q)) \o Tail(q) = r \o q
OBVIOUS

(* A sender's next value at the end keeps the order. *)
LEMMA OrderAppend ==
  ASSUME NEW all \in Seq(Values), NEW n \in [Senders -> Nat], NEW s \in Senders, InOrder(all, n)
  PROVE  InOrder(Append(all, <<s, n[s] + 1>>), [n EXCEPT ![s] = @ + 1])
<1> DEFINE v == <<s, n[s] + 1>>
           more == Append(all, v)
           m == [n EXCEPT ![s] = @ + 1]
<1>1. /\ Len(more) = Len(all) + 1
      /\ \A i \in 1..Len(all) : more[i] = all[i]
      /\ more[Len(all) + 1] = v
      /\ Len(all) \in Nat
  OBVIOUS
<1>2. /\ m \in [Senders -> Nat]
      /\ m[s] = n[s] + 1
      /\ \A t \in Senders : t # s => m[t] = n[t]
  OBVIOUS
<1>3. \A i \in 1..Len(all) : all[i] \in Values /\ all[i][1] \in Senders /\ all[i][2] \in Nat
  BY DEF Values
<1> HIDE DEF more, m
<1>4. ASSUME NEW i \in 1..Len(more) PROVE more[i][2] \in 1..m[more[i][1]]
  <2>1. CASE i = Len(all) + 1
    BY <1>1, <1>2, <2>1
  <2>2. CASE i # Len(all) + 1
    <3>1. i \in 1..Len(all) /\ more[i] = all[i]
      BY <1>1, <2>2
    <3>2. all[i][2] \in 1..n[all[i][1]] /\ all[i][1] \in Senders
      BY <1>3, <3>1 DEF InOrder
    <3>3. \A t \in Senders : n[t] \in Nat /\ m[t] \in Nat /\ m[t] >= n[t]
      <4>1. n[s] \in Nat /\ m[s] = n[s] + 1
        BY <1>2
      <4>2. QED
        BY <1>2, <4>1
    <3>4. QED
      BY <3>1, <3>2, <3>3
  <2>3. QED
    BY <2>1, <2>2
<1>5. ASSUME NEW i \in 1..Len(more), NEW j \in 1..Len(more), i < j, more[i][1] = more[j][1]
      PROVE  more[i][2] < more[j][2]
  <2>1. i \in 1..Len(all) /\ more[i] = all[i]
    BY <1>1, <1>5
  <2>2. CASE j = Len(all) + 1
    <3>1. more[j] = v /\ all[i][1] = s
      BY <1>1, <1>5, <2>1, <2>2
    <3>2. all[i][2] \in 1..n[s]
      BY <2>1, <3>1 DEF InOrder
    <3>3. QED
      BY <2>1, <3>1, <3>2
  <2>3. CASE j # Len(all) + 1
    <3>1. j \in 1..Len(all) /\ more[j] = all[j]
      BY <1>1, <2>3
    <3>2. QED
      BY <1>5, <2>1, <3>1 DEF InOrder
  <2>4. QED
    BY <2>2, <2>3
<1>6. ASSUME NEW t \in Senders, NEW k \in 1..m[t] PROVE \E i \in 1..Len(more) : more[i] = <<t, k>>
  <2>1. CASE t = s /\ k = n[s] + 1
    BY <1>1, <2>1
  <2>2. CASE ~(t = s /\ k = n[s] + 1)
    <3>1. k \in 1..n[t]
      BY <1>2, <2>2
    <3>2. PICK i \in 1..Len(all) : all[i] = <<t, k>>
      BY <3>1 DEF InOrder
    <3>3. QED
      BY <1>1, <3>2
  <2>3. QED
    BY <2>1, <2>2
<1>7. QED
  BY <1>4, <1>5, <1>6 DEF InOrder, more, m

(* A step of the abstract channel keeps the order of what went through. *)
LEMMA StepKeepsOrder ==
  ASSUME SeenOK, InOrder(Through, accepted), [C!Next]_(C!chanVars)
  PROVE  InOrder(Through', accepted')
<1>1. ASSUME NEW s \in Senders, C!Accept(s) PROVE InOrder(Through', accepted')
  <2>1. <<s, accepted[s] + 1>> \in Values
    BY DEF SeenOK, Values
  <2>2. Through' = Append(Through, <<s, accepted[s] + 1>>)
    BY <1>1, <2>1, ThroughAccept DEF C!Accept, Through, SeenOK
  <2>3. accepted' = [accepted EXCEPT ![s] = @ + 1]
    BY <1>1 DEF C!Accept
  <2>4. Through \in Seq(Values)
    BY ConcatProperties DEF Through, SeenOK
  <2>5. QED
    BY <2>2, <2>3, <2>4, OrderAppend DEF SeenOK
<1>2. CASE C!Take
  <2>1. Through' = Through
    BY <1>2, ThroughTake DEF C!Take, Through, SeenOK
  <2>2. QED
    BY <1>2, <2>1 DEF C!Take
<1>3. ASSUME NEW s \in Senders, C!Leave(s) PROVE InOrder(Through', accepted')
  BY <1>3 DEF C!Leave, Through
<1>4. CASE C!StopReading
  BY <1>4 DEF C!StopReading, Through
<1>5. CASE UNCHANGED C!chanVars
  BY <1>5 DEF C!chanVars, Through
<1>6. QED
  BY <1>1, <1>2, <1>3, <1>4, <1>5 DEF C!Next

(* No value is lost, duplicated or overtaken by a later one of its sender  *)
(* (try_send, SendFuture::poll, try_recv), for every set of senders and    *)
(* every capacity: the refinement reduces it to the two steps of the       *)
(* abstract channel that move a value.                                     *)
THEOREM InOrderAndWhole == MpscSpec => []NothingLostOrReordered
<1>1. InitChannel => InOrder(Through, accepted)
  BY DEF InitChannel, InOrder, Through
<1>2. ChannelInv /\ [ChannelNext]_channelVars /\ InOrder(Through, accepted) => InOrder(Through, accepted)'
  <2> SUFFICES ASSUME ChannelInv, [ChannelNext]_channelVars, InOrder(Through, accepted)
               PROVE  InOrder(Through, accepted)'
    OBVIOUS
  <2>1. InOrder(Through', accepted')
    BY StepImplements, StepKeepsOrder DEF ChannelInv
  <2>2. QED
    BY <2>1 DEF InOrder
<1>3. InOrder(Through, accepted) => NothingLostOrReordered
  BY DEF InOrder, Through, NothingLostOrReordered
<1>4. QED
  BY <1>1, <1>2, <1>3, Invariance, PTL DEF MpscSpec
=============================================================================
