------------------------------ MODULE Executor ------------------------------
(***************************************************************************)
(* The single-threaded executor of a worker: the two task slabs            *)
(* (runtime/task.rs), the waker queue (runtime/waker.rs), wake_task and    *)
(* collect_wakeups (runtime/mod.rs), spawn and TaskId::cancel              *)
(* (runtime/io.rs), and poll_ready_tasks, which both backends share word   *)
(* for word (backend/mio/event_loop.rs, backend/uring/event_loop.rs).      *)
(*                                                                         *)
(* A task id is a connection index or, for a standalone task, an index     *)
(* plus StandaloneBit.  What a poll does is any sequence of wakes, spawns  *)
(* and cancellations; then it returns.                                     *)
(***************************************************************************)
EXTENDS Integers, Sequences, FiniteSets, FreeList

CONSTANTS MaxConns,       \* connection slots
          Capacity,       \* standalone slots
          StandaloneBit,
          SelfCancel,     \* tasks may cancel themselves
          StaleCancel,    \* tasks may cancel what a finished task's id now names
          MaxSpawns,      \* bound: futures a slot holds, one after the other
          MaxWakers,      \* bound: length of the waker queue
          MaxWakes        \* bound: wake_task calls in one pass

ASSUME ExecutorAssumption ==
  /\ MaxConns \in Nat /\ Capacity \in Nat
  /\ StandaloneBit \in Nat /\ MaxConns <= StandaloneBit
  /\ SelfCancel \in BOOLEAN /\ StaleCancel \in BOOLEAN
  /\ MaxSpawns \in Nat /\ MaxWakers \in Nat /\ MaxWakes \in Nat

NoTask == -1   \* currently_polling is None

Conns == 0..(MaxConns - 1)
Standalone == StandaloneBit..(StandaloneBit + Capacity - 1)
Tasks == Conns \union Standalone

VARIABLES
  slot,         \* TaskSlot of each task id
  free_list,    \* StandaloneTaskSlab.free_list, a stack
  ready_queue,  \* Executor.ready_queue
  wakers,       \* READY_QUEUE, what std Wakers pushed
  pc,           \* "events", "pass", "teardown" (of a finished task) or "collect"
  next,         \* entries of ready_queue this pass has visited
  initial_len,
  dedup,        \* ids whose poll_dedup bit is set
  polling,      \* currently_polling
  woken,        \* woken_while_polling
  spent,        \* wake_task calls in this pass
  inc,          \* ghost: how many futures each slot has held
  current,      \* ghost: which of them is being polled
  wanted,       \* ghost: tasks woken since their last poll began
  lost          \* ghost: a future was dropped that nobody finished or cancelled

passVars == <<next, initial_len, dedup>>
ghosts == <<inc, current, wanted, lost>>
vars == <<slot, free_list, ready_queue, wakers, pc, next, initial_len, dedup, polling,
          woken, spent, inc, current, wanted, lost>>

Init ==
  /\ slot = [t \in Tasks |-> "Empty"]
  /\ free_list = [k \in 1..Capacity |-> StandaloneBit + k - 1]
  /\ ready_queue = <<>>
  /\ wakers = <<>>
  /\ pc = "events"
  /\ next = 0
  /\ initial_len = 0
  /\ dedup = {}
  /\ polling = NoTask
  /\ woken = FALSE
  /\ spent = 0
  /\ inc = [t \in Tasks |-> 0]
  /\ current = 0
  /\ wanted = {}
  /\ lost = FALSE

-----------------------------------------------------------------------------
(* Mutant: the wake of the task being polled meets no parked future. *)
wake_task_misses_self(t) ==
  /\ UNCHANGED woken
  /\ IF slot[t] = "Parked"
     THEN /\ slot' = [slot EXCEPT ![t] = "Ready"]
          /\ ready_queue' = Append(ready_queue, t)
     ELSE UNCHANGED <<slot, ready_queue>>

(* wake_task: the task being polled is only remembered; of the others, a    *)
(* parked one becomes ready and is queued.                                  *)
wake_task(t) ==
  IF t = polling
  THEN woken' = TRUE /\ UNCHANGED <<slot, ready_queue>>
  ELSE IF slot[t] = "Parked"
  THEN /\ slot' = [slot EXCEPT ![t] = "Ready"]
       /\ ready_queue' = Append(ready_queue, t)
       /\ UNCHANGED woken
  ELSE UNCHANGED <<slot, ready_queue, woken>>

Wants(t) == wanted' = IF slot[t] = "Empty" THEN wanted ELSE wanted \union {t}

(* An event of the driver, a channel, a token or the teardown of a finished *)
(* connection task wakes t.                                                 *)
Wake(t) ==
  /\ pc \in {"events", "teardown"} \/ polling # NoTask
  /\ IF pc = "events" THEN UNCHANGED spent ELSE spent < MaxWakes /\ spent' = spent + 1
  /\ wake_task(t)
  /\ Wants(t)
  /\ UNCHANGED <<free_list, wakers, pc, passVars, polling, inc, current, lost>>

(* A std Waker of t is woken, in a poll or in on_tick. *)
WakerWakes(t) ==
  /\ pc = "events" \/ polling # NoTask
  /\ Len(wakers) < MaxWakers
  /\ wakers' = Append(wakers, t)
  /\ Wants(t)
  /\ UNCHANGED <<slot, free_list, ready_queue, pc, passVars, polling, woken, spent, inc,
                 current, lost>>

(* One turn of collect_wakeups, which the loop calls before a pass and which *)
(* ends one.                                                                 *)
CollectOne ==
  /\ pc \in {"events", "collect"}
  /\ wakers # <<>>
  /\ wakers' = Tail(wakers)
  /\ wake_task(Head(wakers))
  /\ UNCHANGED <<free_list, pc, passVars, polling, spent, ghosts>>

EndCollect ==
  /\ pc = "collect"
  /\ wakers = <<>>
  /\ pc' = "events"
  /\ UNCHANGED <<slot, free_list, ready_queue, wakers, passVars, polling, woken, spent,
                 ghosts>>

-----------------------------------------------------------------------------
(* spawn_accept_task on a slot teardown has emptied. *)
SpawnConn(c) ==
  /\ pc = "events"
  /\ slot[c] = "Empty"
  /\ inc[c] < MaxSpawns
  /\ slot' = [slot EXCEPT ![c] = "Ready"]
  /\ ready_queue' = Append(ready_queue, c)
  /\ inc' = [inc EXCEPT ![c] = @ + 1]
  /\ wanted' = wanted \union {c}
  /\ UNCHANGED <<free_list, wakers, pc, passVars, polling, woken, spent, current, lost>>

(* remove_connection when a close finishes: the task is dropped. *)
RemoveConn(c) ==
  /\ pc = "events"
  /\ slot[c] # "Empty"
  /\ slot' = [slot EXCEPT ![c] = "Empty"]
  /\ wanted' = wanted \ {c}
  /\ UNCHANGED <<free_list, ready_queue, wakers, pc, passVars, polling, woken, spent, inc,
                 current, lost>>

(* spawn: before the loop starts, in on_tick, or in a poll. *)
Spawn ==
  LET t == Top(free_list)
  IN  /\ pc = "events" \/ polling # NoTask
      /\ free_list # <<>>
      /\ inc[t] < MaxSpawns
      /\ free_list' = Pop(free_list)
      /\ slot' = [slot EXCEPT ![t] = "Ready"]
      /\ ready_queue' = Append(ready_queue, t)
      /\ inc' = [inc EXCEPT ![t] = @ + 1]
      /\ wanted' = wanted \union {t}
      /\ lost' = (lost \/ slot[t] \in {"Parked", "Ready"})
      /\ UNCHANGED <<wakers, pc, passVars, polling, woken, spent, current>>

(* Mutant: the index of an empty slot is pushed again. *)
remove_always_pushes(t) ==
  /\ slot' = [slot EXCEPT ![t] = "Empty"]
  /\ free_list' = Append(free_list, t)
  /\ wanted' = wanted \ {t}

(* StandaloneTaskSlab::remove pushes the index unless the slot is Empty. *)
remove(t) ==
  /\ slot' = [slot EXCEPT ![t] = "Empty"]
  /\ free_list' = IF slot[t] = "Empty" THEN free_list ELSE Append(free_list, t)
  /\ wanted' = wanted \ {t}

(* TaskId::cancel, by a task that got the id when the slot held its k-th    *)
(* future.  The id does not record k.                                       *)
Cancel(t, k) ==
  /\ polling # NoTask
  /\ k \in 1..inc[t]
  /\ t = polling => SelfCancel
  /\ k # inc[t] => StaleCancel
  /\ remove(t)
  /\ lost' = (lost \/ (slot[t] # "Empty" /\ k # inc[t]))
  /\ UNCHANGED <<ready_queue, wakers, pc, passVars, polling, woken, spent, inc, current>>

-----------------------------------------------------------------------------
(* poll_ready_tasks. *)

(* Mutant: the batch is taken to be one entry longer than it is. *)
BeginPassOffByOne ==
  /\ pc = "events"
  /\ pc' = "pass"
  /\ next' = 0
  /\ initial_len' = Len(ready_queue) + 1
  /\ UNCHANGED <<slot, free_list, ready_queue, wakers, dedup, polling, woken, spent, ghosts>>

(* Mutant: no pass begins while a Waker is queued. *)
BeginPassWhenQuiet ==
  /\ pc = "events"
  /\ wakers = <<>>
  /\ pc' = "pass"
  /\ next' = 0
  /\ initial_len' = Len(ready_queue)
  /\ UNCHANGED <<slot, free_list, ready_queue, wakers, dedup, polling, woken, spent, ghosts>>

BeginPass ==
  /\ pc = "events"
  /\ pc' = "pass"
  /\ next' = 0
  /\ initial_len' = Len(ready_queue)
  /\ UNCHANGED <<slot, free_list, ready_queue, wakers, dedup, polling, woken, spent, ghosts>>

InBatch == next < initial_len

(* The next entry, when no poll is in progress. *)
Entry(t) ==
  /\ pc = "pass"
  /\ polling = NoTask
  /\ next < Len(ready_queue)
  /\ t = ready_queue[next + 1]

Visited(t) ==
  /\ next' = next + 1
  /\ dedup' = IF InBatch THEN dedup \union {t} ELSE dedup

(* Mutant: the index does not move past a duplicate. *)
SkipDuplicateInPlace(t) ==
  /\ Entry(t)
  /\ InBatch /\ t \in dedup
  /\ UNCHANGED vars

(* A second occurrence in the initial batch is skipped, ... *)
SkipDuplicate(t) ==
  /\ Entry(t)
  /\ InBatch /\ t \in dedup
  /\ next' = next + 1
  /\ UNCHANGED <<slot, free_list, ready_queue, wakers, pc, initial_len, dedup, polling,
                 woken, spent, ghosts>>

(* ... take_ready gives None for a task that is gone or was polled, ... *)
SkipStale(t) ==
  /\ Entry(t)
  /\ ~(InBatch /\ t \in dedup)
  /\ slot[t] # "Ready"
  /\ Visited(t)
  /\ UNCHANGED <<slot, free_list, ready_queue, wakers, pc, initial_len, polling, woken,
                 spent, ghosts>>

(* ... and otherwise the task is polled. *)
BeginPoll(t) ==
  /\ Entry(t)
  /\ ~(InBatch /\ t \in dedup)
  /\ slot[t] = "Ready"
  /\ slot' = [slot EXCEPT ![t] = "Polling"]
  /\ Visited(t)
  /\ polling' = t
  /\ woken' = FALSE
  /\ current' = inc[t]
  /\ wanted' = wanted \ {t}
  /\ UNCHANGED <<free_list, ready_queue, wakers, pc, initial_len, spent, inc, lost>>

(* The poll returns Pending: park, then requeue a task woken meanwhile. *)
PollPending(t) ==
  /\ polling = t
  /\ polling' = NoTask
  /\ IF woken
     THEN /\ slot' = [slot EXCEPT ![t] = "Ready"]
          /\ ready_queue' = Append(ready_queue, t)
     ELSE /\ slot' = [slot EXCEPT ![t] = "Parked"]
          /\ UNCHANGED ready_queue
  /\ lost' = (lost \/ (slot[t] # "Empty" /\ current # inc[t]))
  /\ UNCHANGED <<free_list, wakers, pc, passVars, woken, spent, inc, current, wanted>>

(* The poll of a standalone task returns Ready, or panics. *)
FinishStandalone(t) ==
  /\ polling = t
  /\ t \in Standalone
  /\ polling' = NoTask
  /\ remove(t)
  /\ lost' = (lost \/ (slot[t] # "Empty" /\ current # inc[t]))
  /\ UNCHANGED <<ready_queue, wakers, pc, passVars, woken, spent, inc, current>>

(* That of a connection task: close_connection, then remove_connection,     *)
(* which drops the slot and wakes whoever waited for the connection.        *)
FinishConn(c) ==
  /\ polling = c
  /\ c \in Conns
  /\ polling' = NoTask
  /\ slot' = [slot EXCEPT ![c] = "Empty"]
  /\ wanted' = wanted \ {c}
  /\ pc' = "teardown"
  /\ UNCHANGED <<free_list, ready_queue, wakers, passVars, woken, spent, inc, current, lost>>

EndTeardown ==
  /\ pc = "teardown"
  /\ pc' = "pass"
  /\ UNCHANGED <<slot, free_list, ready_queue, wakers, passVars, polling, woken, spent,
                 ghosts>>

(* The pass ends: the dedup bits of the initial batch are reset, the queue  *)
(* is cleared, and what std Wakers pushed meanwhile is collected.           *)
EndPass ==
  /\ pc = "pass"
  /\ polling = NoTask
  /\ next = Len(ready_queue)
  /\ dedup' = {t \in dedup : \A k \in 1..initial_len : ready_queue[k] # t}
  /\ ready_queue' = <<>>
  /\ next' = 0
  /\ initial_len' = 0
  /\ spent' = 0
  /\ pc' = "collect"
  /\ UNCHANGED <<slot, free_list, wakers, polling, woken, ghosts>>

-----------------------------------------------------------------------------
Visit == \E t \in Tasks : SkipDuplicate(t) \/ SkipStale(t) \/ BeginPoll(t)

Return == \E t \in Tasks : PollPending(t) \/ FinishStandalone(t) \/ FinishConn(t)

Next ==
  \/ \E t \in Tasks : Wake(t) \/ WakerWakes(t)
  \/ \E c \in Conns : SpawnConn(c) \/ RemoveConn(c)
  \/ Spawn
  \/ \E t \in Standalone, k \in 1..MaxSpawns : Cancel(t, k)
  \/ CollectOne \/ EndCollect
  \/ BeginPass \/ Visit \/ Return \/ EndTeardown \/ EndPass

Spec == Init /\ [][Next]_vars

(* The loop goes round for ever (poll and submit_and_wait return), and      *)
(* every poll returns.                                                      *)
FairSpec ==
  /\ Spec
  /\ WF_vars(CollectOne)
  /\ WF_vars(EndCollect)
  /\ WF_vars(BeginPass)
  /\ WF_vars(Visit)
  /\ WF_vars(Return)
  /\ WF_vars(EndTeardown)
  /\ WF_vars(EndPass)

-----------------------------------------------------------------------------
(* The type of the executor's state. *)
TypeOK ==
  /\ slot \in [Tasks -> {"Empty", "Polling", "Parked", "Ready"}]
  /\ free_list \in Seq(Standalone)
  /\ ready_queue \in Seq(Tasks)
  /\ wakers \in Seq(Tasks)
  /\ pc \in {"events", "pass", "teardown", "collect"}
  /\ next \in 0..Len(ready_queue)
  /\ initial_len \in 0..Len(ready_queue)
  /\ dedup \subseteq Tasks
  /\ polling \in Tasks \union {NoTask}
  /\ woken \in BOOLEAN
  /\ spent \in Nat
  /\ inc \in [Tasks -> Nat]
  /\ current \in Nat
  /\ wanted \subseteq Tasks
  /\ lost \in BOOLEAN

(* Entry k of the ready queue will be visited and not skipped. *)
Live(k) == next < k /\ (k <= initial_len => ready_queue[k] \notin dedup)

Queued(t) == \E k \in 1..Len(ready_queue) : ready_queue[k] = t /\ Live(k)

(* t is in the waker queue, or is ready with an entry of the ready queue    *)
(* that the pass will honour, or is being polled and noted as woken.        *)
Noted(t) ==
  \/ \E k \in 1..Len(wakers) : wakers[k] = t
  \/ slot[t] = "Ready" /\ Queued(t)
  \/ polling = t /\ woken

(* No wake-up is lost: a task woken since its last poll began is on its way *)
(* to the next one, wherever the wake came from: an event, another task, or *)
(* a Waker that ran in the middle of the task's own poll.                   *)
NoLostWake == \A t \in wanted : Noted(t)

(* The free list holds each empty standalone slot once and no other: two    *)
(* spawns never get the same slot.                                          *)
SlabExact == Exact(free_list, {t \in Standalone : slot[t] = "Empty"})

(* A future leaves its slot only when its poll finishes, its connection is  *)
(* torn down, or its own id is cancelled ("No-op if the task already        *)
(* completed", TaskId::cancel).                                             *)
NoFutureLost == ~lost

(* A woken task is polled, or dropped. *)
WakeLeadsToPoll == \A t \in Tasks : t \in wanted ~> t \notin wanted

(* A pass ends however often tasks wake themselves through their Context:   *)
(* they resume in the next iteration, and the driver gets its turn.         *)
PassEnds == pc = "pass" ~> pc = "events"

(* Tasks run: a wake is followed by a poll, in passes that end. *)
TasksRun == WakeLeadsToPoll /\ PassEnds
=============================================================================
