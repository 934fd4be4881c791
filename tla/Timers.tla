------------------------------- MODULE Timers -------------------------------
(***************************************************************************)
(* Sleeps and timeouts (ringline/src/runtime/io.rs) over the pool of timer *)
(* slots (runtime/mod.rs): a slot is armed with a timeout of the ring, or  *)
(* on the mio backend with an entry of a heap that is never removed before *)
(* it is at the top, and is released when the sleep returns or is dropped, *)
(* with the timeout perhaps still to come.                                 *)
(*                                                                         *)
(* m.sleeps[i] is the i-th sleep: due is when it should return, slot and   *)
(* gen what it holds while it is armed, inner the future of a timeout.     *)
(* m.kernel holds the timeouts of the ring, m.cq their completions, m.heap *)
(* the entries of the mio backend.  Time is m.now.                         *)
(***************************************************************************)
EXTENDS Naturals, Sequences, FiniteSets, SequencesExt, FiniteSetsExt

CONSTANTS TimerSetups, MaxTime

(* A setup: the backend, the slots, the durations of the sleeps, and what  *)
(* may happen besides: "ring", the submission queue is full; "moved", a    *)
(* sleep is given to another task before it is armed; "handed", after.     *)
ASSUME TimersAssumption ==
  /\ MaxTime \in Nat
  /\ \A s \in TimerSetups :
       /\ DOMAIN s = {"backend", "slots", "durations", "faults"}
       /\ s.faults \subseteq {"ring", "moved", "handed"}

VARIABLES tsetup, m

timerVars == <<tsetup, m>>

TimerSlots == 0 .. (tsetup.slots - 1)
NoTimer == tsetup.slots
NoDeadline == 0
Ringed == tsetup.backend = "uring"

InitTimers ==
  /\ tsetup \in TimerSetups
  /\ m = [now |-> 1, waker |-> [s \in TimerSlots |-> 0], fired |-> [s \in TimerSlots |-> FALSE],
          gen |-> [s \in TimerSlots |-> 0], deadline |-> [s \in TimerSlots |-> NoDeadline],
          free |-> [i \in 1 .. tsetup.slots |-> i - 1],
          kernel |-> {}, cq |-> <<>>, heap |-> {}, sleeps |-> <<>>, ready |-> {}]

-----------------------------------------------------------------------------
(* The pool. *)

Allocate(x, t) ==
  LET s == Last(x.free) IN [x EXCEPT !.free = Front(@), !.waker[s] = t, !.fired[s] = FALSE]

ReleaseTimerKeeps(x, s) == [x EXCEPT !.deadline[s] = NoDeadline, !.free = Append(@, s)]

ReleaseTimer(x, s) ==
  [x EXCEPT !.gen[s] = (@ + 1) % 2^16, !.deadline[s] = NoDeadline, !.free = Append(@, s)]

(* A completion of an earlier use of the slot is stale. *)
Fire(x, s, gen) ==
  IF x.gen[s] # gen THEN x
  ELSE [x EXCEPT !.fired[s] = TRUE, !.ready = @ \union {x.waker[s]}]

(* Arming a slot: the payload of the completion names slot and generation. *)
Armed(x, i, s) ==
  LET e == [slot |-> s, gen |-> x.gen[s], due |-> x.sleeps[i].due]
      held == [x EXCEPT !.sleeps[i] = [@ EXCEPT !.slot = s, !.gen = x.gen[s], !.st = "armed"]]
  IN IF Ringed THEN [held EXCEPT !.kernel = @ \union {e}]
     ELSE [held EXCEPT !.deadline[s] = e.due, !.heap = @ \union {e}]

-----------------------------------------------------------------------------
(* Sleeps. *)

(* sleep arms when it is first polled.  That it panics when no slot is     *)
(* free, or the ring has no room, is left out: PollSleeps waits for a slot.*)
SleepPoll(x, i) ==
  LET z == x.sleeps[i] IN
  IF z.st = "new" THEN Armed(Allocate(x, z.task), i, Last(x.free))
  ELSE IF x.fired[z.slot]
  THEN [ReleaseTimer(x, z.slot) EXCEPT !.sleeps[i] = [@ EXCEPT !.st = "returned", !.slot = NoTimer]]
  ELSE x

(* A slot is released whether its timeout came or not. *)
SleepDrop(x, i) ==
  LET z == x.sleeps[i]
      gone == [x EXCEPT !.sleeps[i] = [@ EXCEPT !.st = "dropped", !.slot = NoTimer]]
  IN IF z.st = "armed" THEN ReleaseTimer(gone, z.slot) ELSE gone

(* try_sleep arms at once; without room in the ring it leaves that to the  *)
(* first poll.                                                             *)
TrySleep(x, i) ==
  {Armed(Allocate(x, 1), i, Last(x.free))}
    \union (IF Ringed /\ "ring" \in tsetup.faults THEN {ReleaseTimer(Allocate(x, 1), Last(x.free))} ELSE {})

NewSleep(x, inner) ==
  [x EXCEPT !.sleeps = Append(@, [due |-> x.now + tsetup.durations[Len(x.sleeps) + 1], task |-> 1, slot |-> NoTimer,
                                  gen |-> 0, st |-> "new", inner |-> inner]),
            !.ready = @ \union {1}]

(* A timeout polls its future first, and its sleep when that is pending. *)
TimeoutPoll(x, i) ==
  IF x.sleeps[i].inner = "done" THEN SleepDrop(x, i) ELSE SleepPoll(x, i)

-----------------------------------------------------------------------------
(* Expiry. *)

(* The completion of a timeout that expired; a cancelled one is ignored. *)
HandleTimer(x) ==
  LET e == Head(x.cq)
      rest == [x EXCEPT !.cq = Tail(@)]
  IN IF e.expired THEN Fire(rest, e.slot, e.gen) ELSE rest

HeapEntryLive(x, e) ==
  x.gen[e.slot] = e.gen /\ ~x.fired[e.slot] /\ x.deadline[e.slot] = e.due

(* Everything due is popped in order, stale entries are dropped on the way *)
(* and may stay behind a live one that is not due.                         *)
FireExpiredTimers(x) ==
  LET live == {e \in x.heap : HeapEntryLive(x, e)}
      due == {e \in live : e.due <= x.now}
      later == live \ due
      keep == {e \in x.heap : \E l \in later : e.due >= l.due}
  IN FoldSet(LAMBDA e, y : Fire(y, e.slot, e.gen), [x EXCEPT !.heap = keep], due)

-----------------------------------------------------------------------------
TimerBecomes(S) == /\ m' \in S
                   /\ UNCHANGED tsetup

StartSleep ==
  /\ Len(m.sleeps) < Len(tsetup.durations)
  /\ LET i == Len(m.sleeps) + 1 IN
     \/ m.free # <<>> /\ TimerBecomes(TrySleep(NewSleep(m, "none"), i))
     \/ TimerBecomes({NewSleep(m, inner) : inner \in {"none", "pending"}})

PollSleeps(t) ==
  LET S == {i \in DOMAIN m.sleeps : m.sleeps[i].st \in {"new", "armed"} /\ m.sleeps[i].task = t} IN
  /\ S # {}
  /\ Cardinality({i \in S : m.sleeps[i].st = "new"}) <= Len(m.free)
  /\ TimerBecomes({FoldSet(LAMBDA i, x : TimeoutPoll(x, i), [m EXCEPT !.ready = @ \ {t}], S)})

DropSleep(i) == m.sleeps[i].st \in {"new", "armed"} /\ TimerBecomes({SleepDrop(m, i)})

MoveSleep(i) ==
  /\ (m.sleeps[i].st = "new" /\ "moved" \in tsetup.faults) \/ (m.sleeps[i].st = "armed" /\ "handed" \in tsetup.faults)
  /\ m.sleeps[i].task = 1
  /\ TimerBecomes({[m EXCEPT !.sleeps[i].task = 2, !.ready = @ \union {2}]})

(* The future of a timeout completes and wakes its task. *)
InnerDone(i) ==
  /\ m.sleeps[i].inner = "pending" /\ m.sleeps[i].st \in {"new", "armed"}
  /\ TimerBecomes({[m EXCEPT !.sleeps[i].inner = "done", !.ready = @ \union {m.sleeps[i].task}]})

Tick == m.now < MaxTime /\ TimerBecomes({[m EXCEPT !.now = @ + 1]})

(* The kernel completes a timeout that is due, and one that is cancelled   *)
(* because its sleep was dropped, whether or not it is.                    *)
KernelTimeout == \E e \in m.kernel :
  \E expired \in BOOLEAN :
    /\ expired => e.due <= m.now
    /\ ~expired => m.gen[e.slot] # e.gen
    /\ TimerBecomes({[m EXCEPT !.kernel = @ \ {e},
                               !.cq = Append(@, [slot |-> e.slot, gen |-> e.gen, expired |-> expired])]})

TimerCompletion == m.cq # <<>> /\ TimerBecomes({HandleTimer(m)})

ExpireTimers == ~Ringed /\ TimerBecomes({FireExpiredTimers(m)})

TimerNext ==
  \/ StartSleep
  \/ \E t \in {1, 2} : PollSleeps(t)
  \/ \E i \in DOMAIN m.sleeps : DropSleep(i) \/ MoveSleep(i) \/ InnerDone(i)
  \/ Tick \/ KernelTimeout \/ TimerCompletion \/ ExpireTimers

TimerSpec == InitTimers /\ [][TimerNext]_timerVars

-----------------------------------------------------------------------------
(* The slots are exactly shared out between the free list and the armed    *)
(* sleeps, each in one place (release, Drop of SleepFuture).               *)
TimerSlotsExact ==
  /\ IsInjective(m.free)
  /\ \A s \in TimerSlots :
       Cardinality({i \in DOMAIN m.sleeps : m.sleeps[i].slot = s}) = IF s \in Range(m.free) THEN 0 ELSE 1

(* A sleep never returns before it is due, whatever completions of earlier *)
(* uses of its slot arrive late, and one that is armed will return: its    *)
(* timeout or heap entry is there, or it fired and its task runs           *)
(* (TimerSlotPool, SleepFuture, handle_timer, pop_expired).  The slots are  *)
(* exactly shared out.                                                     *)
SleepsOnTime ==
  /\ TimerSlotsExact
  /\ \A i \in DOMAIN m.sleeps : LET z == m.sleeps[i] IN
       /\ z.st = "returned" => m.now >= z.due
       /\ z.st = "armed" =>
            /\ m.gen[z.slot] = z.gen
            /\ m.fired[z.slot] => m.now >= z.due /\ z.task \in m.ready
            /\ m.fired[z.slot] \/ \E e \in m.kernel \union m.heap \union Range(m.cq) : e.slot = z.slot /\ e.gen = z.gen
=============================================================================
