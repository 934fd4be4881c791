--------------------------- MODULE BoundedChannel ---------------------------
(***************************************************************************)
(* What a bounded channel with several producers and one consumer promises *)
(* to the tasks that use it (ringline/src/runtime/channel.rs, mpsc): a     *)
(* queue of at most Bound values, without wakers, waiters or futures.      *)
(* Mpsc implements it.                                                     *)
(***************************************************************************)
EXTENDS Naturals, Sequences

CONSTANTS Producers,  \* who may send
          Bound,      \* the capacity of the channel
          MaxValues   \* bound: values of each producer

VARIABLES chan,       \* the values accepted and not yet taken
          open,       \* the producers that are still there
          reading,    \* the consumer is still there
          count,      \* how many values of each producer were accepted
          taken       \* the values the consumer took

chanVars == <<chan, open, reading, count, taken>>

Init ==
  /\ chan = <<>>
  /\ open = Producers
  /\ reading = TRUE
  /\ count = [p \in Producers |-> 0]
  /\ taken = <<>>

(* A value is accepted: there is room, and somebody to take it. *)
Accept(p) ==
  /\ p \in open
  /\ reading
  /\ Len(chan) < Bound
  /\ count[p] < MaxValues
  /\ chan' = Append(chan, <<p, count[p] + 1>>)
  /\ count' = [count EXCEPT ![p] = @ + 1]
  /\ UNCHANGED <<open, reading, taken>>

(* The oldest value is taken. *)
Take ==
  /\ reading
  /\ chan # <<>>
  /\ taken' = Append(taken, Head(chan))
  /\ chan' = Tail(chan)
  /\ UNCHANGED <<open, reading, count>>

Leave(p) ==
  /\ p \in open
  /\ open' = open \ {p}
  /\ UNCHANGED <<chan, reading, count, taken>>

StopReading ==
  /\ reading
  /\ reading' = FALSE
  /\ UNCHANGED <<chan, open, count, taken>>

Next == (\E p \in Producers : Accept(p) \/ Leave(p)) \/ Take \/ StopReading

Spec == Init /\ [][Next]_chanVars

(* A consumer that keeps asking takes what was accepted. *)
FairSpec == Spec /\ WF_chanVars(Take)
=============================================================================
