--------------------------- MODULE MioBoundedSend ---------------------------
(***************************************************************************)
(* Bounded sends (send_backpressured) on one worker of the mio backend:    *)
(* the futures of its tasks (runtime/io.rs), the admission FIFO            *)
(* (runtime/send_capacity.rs), the permits of the copy pool and the        *)
(* per-connection send queues (handler.rs, backend/mio/driver.rs), and the *)
(* run loop that polls tasks, flushes sockets, delivers completions and    *)
(* tears connections down (backend/mio/event_loop.rs).                     *)
(*                                                                         *)
(* The worker is one thread; what interleaves is what sockets and tasks do *)
(* in each step of an iteration.  A byte of data costs one pool slot.  The *)
(* ready queue is abstracted to the set of Ready tasks.  Plain sends,      *)
(* forwarding and outbound connects are left out.                          *)
(***************************************************************************)
EXTENDS SendCapacity, FiniteSets

CONSTANTS Conns,       \* connection indices; also the ids of their tasks
          Standalone,  \* standalone tasks
          TlsConns,    \* the connections that speak TLS
          Slots,       \* slots of the send copy pool
          Lens,        \* lengths of the messages tasks send
          TlsSlack,    \* ciphertext bound minus plaintext length
          Movers,      \* the tasks that may hand their future to a new task
          NoTask,      \* currently_polling is None
          MaxSends,    \* bound: bounded sends enqueued
          MaxGen       \* bound: generation of a connection slot

Tasks == Conns \union Standalone

ASSUME MioAssumption ==
  /\ TlsConns \subseteq Conns
  /\ Movers \subseteq Tasks
  /\ NoTask \notin Tasks
  /\ Conns \intersect Standalone = {}
  /\ Slots \in Nat \ {0} /\ TlsSlack \in Nat \ {0}
  /\ Lens \subseteq Nat
  /\ MaxSends \in Nat /\ MaxGen \in Nat

VARIABLES
  cap,          \* Executor.send_capacity
  fut,          \* the BackpressuredSendFuture each task awaits
  task,         \* state of each task's slab slot
  polling,      \* currently_polling
  woken,        \* woken_while_polling
  polled,       \* the task being polled has polled its future
  conn,         \* the connection slots: lifecycle, generation, write, writable
  pending,      \* pending_sends
  reserved,     \* SendCopyPool.reserved
  completions,  \* bounded_send_completions
  released,     \* capacity_released
  dirty,        \* sends_dirty and its flags
  flushing,     \* what flush_all_pending_sends still has to visit
  pc,           \* the step of the run loop, its round, and delivered
  aborted       \* ghost: ids whose future resolved ConnectionAborted

queueVars == <<cap, fut>>
taskVars == <<task, polling, woken, polled>>
sendVars == <<pending, reserved, completions, released, dirty>>
vars == <<cap, fut, task, polling, woken, polled, conn, pending, reserved,
          completions, released, dirty, flushing, pc, aborted>>

NoFuture == [st |-> "None", id |-> 0, conn |-> NoTask, gen |-> 0, len |-> 0]

Future(st, id, c, g, len) == [st |-> st, id |-> id, conn |-> c, gen |-> g, len |-> len]

(* A slot as ConnectionTable and Driver::new leave it. *)
Vacant == [life |-> "Inactive", gen |-> 0, write |-> "Open", writable |-> FALSE]

At(step, round, delivered) == [step |-> step, round |-> round, delivered |-> delivered]

Init ==
  /\ cap = NewQueue
  /\ fut = [t \in Tasks |-> NoFuture]
  /\ task = [t \in Tasks |-> IF t \in Standalone THEN "Ready" ELSE "None"]
  /\ polling = NoTask
  /\ woken = FALSE
  /\ polled = FALSE
  /\ conn = [c \in Conns |-> Vacant]
  /\ pending = [c \in Conns |-> <<>>]
  /\ reserved = 0
  /\ completions = <<>>
  /\ released = FALSE
  /\ dirty = {}
  /\ flushing = {}
  /\ pc = At("events", 1, FALSE)
  /\ aborted = {}

-----------------------------------------------------------------------------
free_count == Slots - reserved

(* bounded_send_slots: a TLS message is admitted against its ciphertext bound. *)
bounded_send_slots(c, len) == IF c \in TlsConns THEN len + TlsSlack ELSE len

(* Executor::wake_task on each task of W: a parked task becomes ready; the *)
(* task being polled is remembered.                                        *)
Woken(tasks, W) ==
  [t \in Tasks |-> IF t \in W /\ tasks[t] = "Parked" THEN "Ready" ELSE tasks[t]]

WakeTasks(W) ==
  /\ task' = Woken(task, W)
  /\ woken' = (woken \/ polling \in W)

(* close_connection and DriverCtx::close. *)
CloseConn(c, conns) ==
  IF conns[c].life = "Open" THEN [conns EXCEPT ![c].life = "Closing"] ELSE conns

(* pending_closes: a connection is on it from the request to finish_close. *)
pending_closes == {c \in Conns : conn[c].life = "Closing"}

Stale(f) == conn[f.conn].gen # f.gen

-----------------------------------------------------------------------------
(* One task is polled at a time; these are the steps of its poll. *)

(* take_ready, and the loop's bookkeeping around the poll. *)
BeginPoll(t) ==
  /\ pc.step \in {"poll", "repoll"}
  /\ polling = NoTask
  /\ task[t] = "Ready"
  /\ task' = [task EXCEPT ![t] = "Polling"]
  /\ polling' = t
  /\ woken' = FALSE
  /\ polled' = FALSE
  /\ UNCHANGED <<queueVars, conn, sendVars, flushing, pc, aborted>>

(* finish: future f of task t resolves with res and leaves queue q behind. *)
Resolve(t, f, q, res, W) ==
  /\ cap' = q
  /\ fut' = [fut EXCEPT ![t] = NoFuture]
  /\ aborted' = IF res = Aborted THEN aborted \union {f.id} ELSE aborted
  /\ WakeTasks(W)

(* The future returns Pending, in state f over queue q. *)
StayPending(t, f, q, W) ==
  /\ cap' = q
  /\ fut' = [fut EXCEPT ![t] = f]
  /\ UNCHANGED aborted
  /\ WakeTasks(W)

Admitted(f) == [f EXCEPT !.st = "Submitted"]

(* send_bounded queues wire bytes under a permit for keep slots, and the    *)
(* operation moves to submitted.  A permit shrunk to the ciphertext's size  *)
(* releases capacity.                                                       *)
Queued(t, f, q, wire) ==
  LET needed == bounded_send_slots(f.conn, f.len)
  IN  /\ wire > 0
      /\ reserved' = reserved + wire
      /\ released' = (released \/ wire < needed)
      /\ pending' = [pending EXCEPT ![f.conn] =
                       Append(@, [id |-> f.id, permit |-> wire, left |-> wire,
                                  wire |-> wire, gen |-> f.gen])]
      /\ dirty' = dirty \union {f.conn}
      /\ StayPending(t, Admitted(f), MarkSubmitted(q, f.id), MarkSubmittedWakes(q, f.id))
      /\ UNCHANGED completions

(* send_bounded has nothing to write: the permit goes back and the id is    *)
(* settled at once, on the driver's queue.                                  *)
SettledEmpty(t, f, q) ==
  /\ released' = TRUE
  /\ completions' = Append(completions, <<f.id, f.len>>)
  /\ StayPending(t, Admitted(f), MarkSubmitted(q, f.id), MarkSubmittedWakes(q, f.id))
  /\ UNCHANGED <<pending, reserved, dirty>>

(* rustls fails: the permit goes back and the future reports the error. *)
EncryptFailed(t, f, q) ==
  /\ released' = TRUE
  /\ Resolve(t, f, Cancel(q, f.id), Failed, CancelWakes(q, f.id))
  /\ UNCHANGED <<pending, reserved, completions, dirty>>

(* poll_waiting: future f has its entry in queue q. *)
PollWaiting(t, f, q) ==
  \/ /\ ~Turn(q, f.id, free_count)
     /\ StayPending(t, f, q, {})
     /\ UNCHANGED sendVars
  \/ /\ Turn(q, f.id, free_count)
     /\ f.conn \notin TlsConns
     /\ IF f.len = 0 THEN SettledEmpty(t, f, q) ELSE Queued(t, f, q, f.len)
  \/ /\ Turn(q, f.id, free_count)
     /\ f.conn \in TlsConns
     /\ \/ EncryptFailed(t, f, q)
        \/ SettledEmpty(t, f, q)
        \/ \E wire \in (f.len + 1)..(f.len + TlsSlack) : Queued(t, f, q, wire)

(* First poll of a future on a connection whose write half is open, for a   *)
(* message that can fit: enqueue, then try at once.  A stale connection, a  *)
(* half-closed one and a message over the pool's size resolve without       *)
(* touching the queue.                                                      *)
StartSend(t, c, len) ==
  LET f == Future("Waiting", cap.next_id, c, conn[c].gen, len)
      needed == bounded_send_slots(c, len)
  IN  /\ polling = t
      /\ fut[t].st = "None"
      /\ conn[c].life # "Inactive"
      /\ conn[c].write = "Open"
      /\ needed <= Slots
      /\ cap.next_id < MaxSends
      /\ PollWaiting(t, f, Enqueue(cap, c, conn[c].gen, needed, t))
      /\ polled' = TRUE
      /\ UNCHANGED <<polling, conn, flushing, pc>>

(* A later poll, in state Waiting or Submitted: take a parked result, else  *)
(* give up on a recycled connection, else wait (for a turn, or for the      *)
(* driver).                                                                 *)
PollFuture(t) ==
  LET f == fut[t]
      q == SetOwner(cap, f.id, t)
  IN  /\ polling = t
      /\ f.st # "None"
      /\ ~polled
      /\ \/ /\ Results(q, f.id) # {}
            /\ Resolve(t, f, TakeResult(q, f.id), ResultOf(q, f.id), {})
            /\ UNCHANGED sendVars
         \/ /\ Results(q, f.id) = {}
            /\ Stale(f)
            /\ Resolve(t, f, Cancel(q, f.id), Aborted, CancelWakes(q, f.id))
            /\ UNCHANGED sendVars
         \/ /\ Results(q, f.id) = {}
            /\ ~Stale(f)
            /\ f.st = "Waiting"
            /\ PollWaiting(t, f, q)
         \/ /\ Results(q, f.id) = {}
            /\ ~Stale(f)
            /\ f.st = "Submitted"
            /\ StayPending(t, f, q, {})
            /\ UNCHANGED sendVars
      /\ polled' = TRUE
      /\ UNCHANGED <<polling, conn, flushing, pc>>

(* A select or a timeout drops the future inside the task's poll. *)
DropFuture(t) ==
  /\ polling = t
  /\ fut[t].st # "None"
  /\ cap' = Cancel(cap, fut[t].id)
  /\ fut' = [fut EXCEPT ![t] = NoFuture]
  /\ WakeTasks(CancelWakes(cap, fut[t].id))
  /\ UNCHANGED <<polling, polled, conn, sendVars, flushing, pc, aborted>>

(* The task spawns u and moves its future there; u is polled later. *)
HandOver(t, u) ==
  /\ polling = t
  /\ t \in Movers
  /\ fut[t].st # "None"
  /\ u \in Standalone
  /\ task[u] = "None"
  /\ fut' = [fut EXCEPT ![t] = NoFuture, ![u] = fut[t]]
  /\ task' = [task EXCEPT ![u] = "Ready"]
  /\ UNCHANGED <<cap, polling, woken, polled, conn, sendVars, flushing, pc,
                 aborted>>

(* The task closes connection c: ConnCtx::close. *)
CloseByTask(t, c) ==
  /\ polling = t
  /\ conn[c].life = "Open"
  /\ conn' = CloseConn(c, conn)
  /\ UNCHANGED <<queueVars, taskVars, sendVars, flushing, pc, aborted>>

(* shutdown_write: the FIN waits for queued sends, and is left to a close   *)
(* already requested; sends that wait for capacity fail in either case.     *)
ShutdownWrite(t, c) ==
  LET g == conn[c].gen
  IN  /\ polling = t
      /\ conn[c].life # "Inactive"
      /\ conn[c].write = "Open"
      /\ CASE conn[c].life = "Closing" -> UNCHANGED <<conn, dirty>>
           [] conn[c].life = "Open" /\ pending[c] = <<>> ->
                /\ conn' = [conn EXCEPT ![c].write = "Shutdown"]
                /\ UNCHANGED dirty
           [] OTHER ->
                /\ conn' = [conn EXCEPT ![c].write = "ShutdownPending"]
                /\ dirty' = dirty \union {c}
      /\ cap' = FailWaiting(cap, c, g)
      /\ WakeTasks(FailWaitingWakes(cap, c, g))
      /\ UNCHANGED <<fut, polling, polled, pending, reserved, completions, released,
                     flushing, pc, aborted>>

(* The poll is over; what is kept about it has no further use. *)
EndPoll ==
  /\ polling' = NoTask
  /\ woken' = FALSE
  /\ polled' = FALSE

(* The poll returns Pending: park, and requeue a task woken meanwhile. *)
PollPending(t) ==
  /\ polling = t
  /\ fut[t].st # "None" => polled
  /\ task' = [task EXCEPT ![t] = IF woken THEN "Ready" ELSE "Parked"]
  /\ EndPoll
  /\ UNCHANGED <<queueVars, conn, sendVars, flushing, pc, aborted>>

(* The poll of a standalone task returns Ready; its locals are gone. *)
FinishStandalone(t) ==
  /\ polling = t
  /\ t \in Standalone
  /\ fut[t].st = "None"
  /\ task' = [task EXCEPT ![t] = "None"]
  /\ EndPoll
  /\ UNCHANGED <<queueVars, conn, sendVars, flushing, pc, aborted>>

(* The poll of a connection's task returns Ready or panics: close_connection *)
(* and remove_connection at once, before the flush.                          *)
FinishConnTask(c) ==
  /\ polling = c
  /\ c \in Conns
  /\ fut[c].st = "None"
  /\ EndPoll
  /\ conn' = CloseConn(c, conn)
  /\ cap' = RemoveConnection(cap, c)
  /\ task' = Woken([task EXCEPT ![c] = "None"], RemoveConnectionWakes(cap, c))
  /\ UNCHANGED <<fut, sendVars, flushing, pc, aborted>>

-----------------------------------------------------------------------------
(* What the sockets do, in the events step of an iteration. *)

(* drain_channels takes a connection from the acceptor; spawn_accept_task. *)
Accept(c) ==
  /\ pc.step = "events"
  /\ conn[c].life = "Inactive"
  /\ conn[c].gen < MaxGen
  /\ conn' = [conn EXCEPT ![c].life = "Open", ![c].write = "Open", ![c].writable = FALSE]
  /\ task' = [task EXCEPT ![c] = "Ready"]
  /\ UNCHANGED <<queueVars, polling, woken, polled, sendVars, flushing, pc, aborted>>

(* A timer fires, data arrives, a read or a connection ends: whatever else  *)
(* a parked task awaits.                                                    *)
OtherWake(t) ==
  /\ pc.step = "events"
  /\ task[t] = "Parked"
  /\ WakeTasks({t})
  /\ UNCHANGED <<queueVars, polling, polled, conn, sendVars, flushing, pc, aborted>>

(* handle_readable reads EOF or an error: the reader is woken (OtherWake)   *)
(* and the connection closed.                                               *)
PeerCloses(c) ==
  /\ pc.step = "events"
  /\ conn[c].life = "Open"
  /\ conn' = CloseConn(c, conn)
  /\ UNCHANGED <<queueVars, taskVars, sendVars, flushing, pc, aborted>>

Permits(entries) == FoldLeft(LAMBDA sum, e : sum + e.permit, 0, entries)

Settle(entries, Res(_)) == [i \in DOMAIN entries |-> <<entries[i].id, Res(entries[i])>>]

(* flush_sends on connection c: writev takes the first n entries whole and  *)
(* part bytes of the next, and then the queue is empty, the socket would    *)
(* block, or the write fails.                                               *)
FlushAll(c) ==
  /\ pending' = [pending EXCEPT ![c] = <<>>]
  /\ reserved' = reserved - Permits(pending[c])
  /\ released' = (released \/ pending[c] # <<>>)
  /\ completions' = completions \o Settle(pending[c], LAMBDA e : e.wire)

FlushBlocks(c, n, part) ==
  LET sent == SubSeq(pending[c], 1, n)
      rest == SubSeq(pending[c], n + 1, Len(pending[c]))
  IN  /\ n < Len(pending[c])
      /\ part < rest[1].left
      /\ pending' = [pending EXCEPT ![c] = [rest EXCEPT ![1].left = @ - part]]
      /\ reserved' = reserved - Permits(sent)
      /\ released' = (released \/ n > 0)
      /\ completions' = completions \o Settle(sent, LAMBDA e : e.wire)

(* Mutant: the discarded sends are not settled. *)
FlushFailsSilently(c, n) ==
  LET sent == SubSeq(pending[c], 1, n)
  IN  /\ n < Len(pending[c])
      /\ pending' = [pending EXCEPT ![c] = <<>>]
      /\ reserved' = reserved - Permits(pending[c])
      /\ released' = TRUE
      /\ completions' = completions \o Settle(sent, LAMBDA e : e.wire)

(* Mutant: the discarded sends keep their permits. *)
FlushFailsLeaks(c, n) ==
  LET sent == SubSeq(pending[c], 1, n)
      rest == SubSeq(pending[c], n + 1, Len(pending[c]))
  IN  /\ n < Len(pending[c])
      /\ pending' = [pending EXCEPT ![c] = <<>>]
      /\ reserved' = reserved - Permits(sent)
      /\ released' = TRUE
      /\ completions' = completions \o Settle(sent, LAMBDA e : e.wire)
                                  \o Settle(rest, LAMBDA e : Failed)

(* ... and fail_connection_on_send_error discards what is left. *)
FlushFails(c, n) ==
  LET sent == SubSeq(pending[c], 1, n)
      rest == SubSeq(pending[c], n + 1, Len(pending[c]))
  IN  /\ n < Len(pending[c])
      /\ pending' = [pending EXCEPT ![c] = <<>>]
      /\ reserved' = reserved - Permits(pending[c])
      /\ released' = TRUE
      /\ completions' = completions \o Settle(sent, LAMBDA e : e.wire)
                                  \o Settle(rest, LAMBDA e : Failed)

(* Mutant: a queue that survives the flush is not marked again. *)
FlushUnmarked(c, d) ==
  \/ /\ FlushAll(c)
     /\ conn' = [conn EXCEPT ![c].writable = TRUE]
     /\ dirty' = d
  \/ \E n \in 0..Len(pending[c]), part \in 0..Slots :
       /\ FlushBlocks(c, n, part)
       /\ conn' = [conn EXCEPT ![c].writable = FALSE]
       /\ dirty' = d

(* The outcomes of a flush, with what becomes of the connection and of the  *)
(* dirty flags d.                                                           *)
Flush(c, d) ==
  \/ /\ FlushAll(c)
     /\ conn' = [conn EXCEPT ![c].writable = TRUE,
                             ![c].write = IF @ = "ShutdownPending" THEN "Shutdown" ELSE @]
     /\ dirty' = d
  \/ \E n \in 0..Len(pending[c]), part \in 0..Slots :
       /\ FlushBlocks(c, n, part)
       /\ conn' = [conn EXCEPT ![c].writable = FALSE]
       /\ dirty' = d \union {c}
  \/ \E n \in 0..Len(pending[c]) :
       /\ FlushFails(c, n)
       /\ conn' = [CloseConn(c, conn) EXCEPT ![c].writable = TRUE]
       /\ dirty' = d

(* handle_writable: an edge-triggered event sets writable and flushes. *)
Writable(c) ==
  /\ pc.step = "events"
  /\ conn[c].life # "Inactive"
  /\ ~conn[c].writable
  /\ Flush(c, dirty)
  /\ UNCHANGED <<queueVars, taskVars, flushing, pc, aborted>>

-----------------------------------------------------------------------------
(* The run loop: events, a poll pass, then twice (flush, deliver            *)
(* completions and poll whom they woke, finish closes), then the capacity   *)
(* wake.                                                                    *)

EndEvents ==
  /\ pc.step = "events"
  /\ pc' = At("poll", 1, FALSE)
  /\ UNCHANGED <<queueVars, taskVars, conn, sendVars, flushing, aborted>>

(* poll_ready_tasks runs until its queue is exhausted, mid-pass wakes       *)
(* included; after the first pass comes the flush, after a later one the    *)
(* rest of drain_send_completions.                                          *)
EndPolls ==
  /\ pc.step \in {"poll", "repoll"}
  /\ polling = NoTask
  /\ \A t \in Tasks : task[t] # "Ready"
  /\ IF pc.step = "poll"
     THEN pc' = At("flush", pc.round, FALSE) /\ flushing' = dirty
     ELSE pc' = At("drain", pc.round, FALSE) /\ UNCHANGED flushing
  /\ UNCHANGED <<queueVars, taskVars, conn, sendVars, aborted>>

(* flush_all_pending_sends visits c. *)
FlushOne(c) ==
  /\ pc.step = "flush"
  /\ c \in flushing
  /\ flushing' = flushing \ {c}
  /\ CASE pending[c] = <<>> ->
            /\ dirty' = dirty \ {c}
            /\ UNCHANGED <<conn, pending, reserved, completions, released>>
       [] pending[c] # <<>> /\ ~conn[c].writable ->
            UNCHANGED <<conn, sendVars>>
       [] OTHER -> Flush(c, dirty \ {c})
  /\ UNCHANGED <<queueVars, taskVars, pc, aborted>>

EndFlush ==
  /\ pc.step = "flush"
  /\ flushing = {}
  /\ pc' = At("drain", pc.round, FALSE)
  /\ UNCHANGED <<queueVars, taskVars, conn, sendVars, flushing, aborted>>

(* drain_send_completions: complete_bounded_send for each, in order, ... *)
Deliver ==
  LET id == Head(completions)[1]
  IN  /\ pc.step = "drain"
      /\ completions # <<>>
      /\ completions' = Tail(completions)
      /\ cap' = Complete(cap, id, Head(completions)[2])
      /\ WakeTasks(CompleteWakes(cap, id))
      /\ pc' = At("drain", pc.round, TRUE)
      /\ UNCHANGED <<fut, polling, polled, conn, pending, reserved, released, dirty,
                     flushing, aborted>>

(* ... and, if there was any, a poll pass and another look. *)
EndDrain ==
  /\ pc.step = "drain"
  /\ completions = <<>>
  /\ pc' = At(IF pc.delivered THEN "repoll" ELSE "closes", pc.round, FALSE)
  /\ UNCHANGED <<queueVars, taskVars, conn, sendVars, flushing, aborted>>

(* Mutant: the slot is freed with sends still queued. *)
FinishCloseEarly(c) ==
  /\ pc.step = "closes"
  /\ c \in pending_closes
  /\ cap' = RemoveConnection(cap, c)
  /\ fut' = [fut EXCEPT ![c] = NoFuture]
  /\ task' = Woken([task EXCEPT ![c] = "None"], RemoveConnectionWakes(cap, c))
  /\ conn' = [conn EXCEPT ![c] = [life |-> "Inactive", gen |-> @.gen + 1,
                                  write |-> "Open", writable |-> FALSE]]
  /\ UNCHANGED <<polling, woken, polled, sendVars, flushing, pc, aborted>>

(* drain_pending_closes, for a close whose sends have drained: the executor *)
(* forgets the connection, dropping its task's future without its Drop      *)
(* reaching the queue, and finish_close frees the slot.                     *)
FinishClose(c) ==
  /\ pc.step = "closes"
  /\ c \in pending_closes
  /\ pending[c] = <<>>
  /\ cap' = RemoveConnection(cap, c)
  /\ fut' = [fut EXCEPT ![c] = NoFuture]
  /\ task' = Woken([task EXCEPT ![c] = "None"], RemoveConnectionWakes(cap, c))
  /\ conn' = [conn EXCEPT ![c] = [life |-> "Inactive", gen |-> @.gen + 1,
                                  write |-> "Open", writable |-> FALSE]]
  /\ UNCHANGED <<polling, woken, polled, sendVars, flushing, pc, aborted>>

(* The others are retained and marked for the next flush.  After the first  *)
(* round comes the second flush, after the second one the capacity wake.    *)
EndCloses ==
  /\ pc.step = "closes"
  /\ \A c \in pending_closes : pending[c] # <<>>
  /\ dirty' = dirty \union pending_closes
  /\ IF pc.round = 1
     THEN pc' = At("flush", 2, FALSE) /\ flushing' = dirty'
     ELSE pc' = At("wake", 2, FALSE) /\ UNCHANGED flushing
  /\ UNCHANGED <<queueVars, taskVars, conn, pending, reserved, completions, released,
                 aborted>>

(* Mutant: the flag is cleared and the head is not told. *)
ForgetReleased ==
  /\ pc.step = "wake"
  /\ released' = FALSE
  /\ pc' = At("events", 1, FALSE)
  /\ UNCHANGED <<queueVars, taskVars, conn, pending, reserved, completions, dirty,
                 flushing, aborted>>

(* wake_capacity_if_released, the last step of the iteration. *)
WakeCapacity ==
  /\ pc.step = "wake"
  /\ released' = FALSE
  /\ IF released
     THEN WakeTasks(HeadReady(cap, free_count))
     ELSE UNCHANGED <<task, woken>>
  /\ pc' = At("events", 1, FALSE)
  /\ UNCHANGED <<queueVars, polling, polled, conn, pending, reserved, completions, dirty,
                 flushing, aborted>>

PollStep(t) ==
  \/ BeginPoll(t)
  \/ \E c \in Conns, len \in Lens : StartSend(t, c, len)
  \/ PollFuture(t)
  \/ DropFuture(t)
  \/ \E u \in Standalone : HandOver(t, u)
  \/ \E c \in Conns : CloseByTask(t, c) \/ ShutdownWrite(t, c)
  \/ PollPending(t)
  \/ FinishStandalone(t)
  \/ FinishConnTask(t)

Event ==
  \/ \E c \in Conns : Accept(c) \/ PeerCloses(c) \/ Writable(c)
  \/ \E t \in Tasks : OtherWake(t)

LoopStep ==
  \/ EndEvents
  \/ EndPolls
  \/ \E c \in Conns : FlushOne(c)
  \/ EndFlush
  \/ Deliver
  \/ EndDrain
  \/ \E c \in Conns : FinishClose(c)
  \/ EndCloses
  \/ WakeCapacity

Next == (\E t \in Tasks : PollStep(t)) \/ Event \/ LoopStep

Spec == Init /\ [][Next]_vars

(* A step in which the socket of c takes at least one queued send. *)
SocketProgress(c) == Writable(c) /\ Len(pending'[c]) < Len(pending[c])

(* The loop keeps running; the ready queue is a FIFO, so a ready task is    *)
(* polled; a task polls the future it awaits and returns; and the peer of a *)
(* connection keeps reading, or its socket fails.                           *)
FairSpec ==
  /\ Spec
  /\ WF_vars(LoopStep)
  /\ \A t \in Tasks : /\ SF_vars(BeginPoll(t))
                      /\ WF_vars(PollFuture(t))
                      /\ WF_vars(PollPending(t))
  /\ \A c \in Conns : SF_vars(SocketProgress(c))

-----------------------------------------------------------------------------
Ids == 0..(MaxSends - 1)

(* The type of the worker's state. *)
TypeOK ==
  /\ cap.next_id \in 0..MaxSends
  /\ \A e \in ToSet(cap.waiting) : /\ e.id \in Ids /\ e.conn \in Conns
                                   /\ e.task \in Tasks /\ e.need \in 0..Slots
  /\ \A s \in cap.submitted : /\ s.id \in Ids /\ s.conn \in Conns /\ s.task \in Tasks
                              /\ s.state \in {"InFlight", "Done", "Aborted", "Abandoned"}
  /\ \A t \in Tasks : fut[t].st \in {"None", "Waiting", "Submitted"}
  /\ task \in [Tasks -> {"None", "Parked", "Ready", "Polling"}]
  /\ polling \in Tasks \union {NoTask}
  /\ \A c \in Conns : /\ conn[c].life \in {"Inactive", "Open", "Closing"}
                      /\ conn[c].write \in {"Open", "ShutdownPending", "Shutdown"}
  /\ reserved \in 0..Slots
  /\ \A i \in DOMAIN completions : completions[i][1] \in Ids

(* Each id the driver still has to settle: queued to write, or completed.   *)
QueuedEntries(id) == {<<c, i>> \in Conns \X (1..MaxSends) :
                        i <= Len(pending[c]) /\ pending[c][i].id = id}

QueuedResults(id) == {i \in DOMAIN completions : completions[i][1] = id}

(* send_bounded: "exactly one completion for id will reach                  *)
(* bounded_send_completions": an operation in flight has exactly one queued *)
(* entry or queued result, through short writes, write errors, closes and   *)
(* dropped futures; a parked result has none left; nothing is settled twice. *)
SettledOnce ==
  \A id \in Ids :
    LET n == Cardinality(QueuedEntries(id)) + Cardinality(QueuedResults(id))
    IN  /\ n <= 1
        /\ \A s \in cap.submitted :
             s.id = id => /\ s.state = "InFlight" => n = 1
                          /\ s.state = "Done" => n = 0

(* Every slot the pool has promised is the permit of a queued send: no      *)
(* path, the error and teardown paths included, leaks a permit or returns   *)
(* one twice.                                                               *)
PermitsConserved ==
  reserved = FoldLeft(LAMBDA sum, c : sum + Permits(pending[c]), 0, SetToSeq(Conns))

(* Task t holds the future of operation id. *)
HeldBy(t, id) == fut[t].st # "None" /\ fut[t].id = id

(* An entry of the FIFO belongs to a live task whose future waits for it,   *)
(* and which is its owner or is about to be polled: no order of polls,      *)
(* moves, cancellations and teardowns leaves a head nobody will advance.    *)
WaitersOwned ==
  \A e \in ToSet(cap.waiting) : \E t \in Tasks :
    /\ HeldBy(t, e.id) /\ fut[t].st = "Waiting"
    /\ task[t] # "None"
    /\ t = e.task \/ task[t] \in {"Ready", "Polling"}

(* A future that awaits its send is known to the queue, as a waiter, an     *)
(* operation in flight or a parked result: it can still be resolved.        *)
FuturesKnown ==
  \A t \in Tasks : fut[t].st # "None" =>
    \/ fut[t].st = "Waiting" /\ fut[t].id \in WaitingIds(cap)
    \/ \E s \in cap.submitted :
         /\ HeldBy(t, s.id) /\ s.state # "Abandoned"
         /\ s.task = t \/ task[t] \in {"Ready", "Polling"}

(* No lost capacity wake: while the loop waits for events, a head that fits *)
(* is about to be polled or capacity is noted to have come back.            *)
HeadNotForgotten ==
  pc.step = "events" /\ ~released => \A t \in HeadReady(cap, free_count) : task[t] = "Ready"

(* No lost completion wake: a parked result has its owner about to take it. *)
ResultNotForgotten ==
  pc.step = "events" =>
    \A s \in cap.submitted : s.state \in {"Done", "Aborted"} => task[s.task] = "Ready"

(* mark_send_dirty: "non-empty pending_sends[idx] => flag set", or the      *)
(* flush pass never visits the queue.                                       *)
QueuedIsDirty == \A c \in Conns : pending[c] # <<>> => c \in dirty

(* A queue only ever holds sends of the connection that now has the slot:   *)
(* bytes meant for a closed connection never reach its successor.           *)
QueuedForThisConnection ==
  \A c \in Conns : \A i \in DOMAIN pending[c] :
    conn[c].life # "Inactive" /\ pending[c][i].gen = conn[c].gen

(* Admission is first come, first served: a send is queued only when none   *)
(* that was enqueued before it still waits.                                 *)
AdmittedInOrder ==
  [][\A s \in cap'.submitted :
       s.state = "InFlight" /\ s.id \in WaitingIds(cap) \union {cap.next_id}
         => \A e \in ToSet(cap'.waiting) : e.id > s.id]_vars

(* A bounded send resolves: a future that is awaited and not dropped gets   *)
(* its turn and its result, or the error of its connection's end.           *)
SendResolves ==
  \A t \in Tasks : \A id \in Ids : HeldBy(t, id) ~> ~HeldBy(t, id)

(* send_capacity.rs: "a message that was fully delivered must never be      *)
(* reported to its caller as aborted": no Ok arrives for such an id.        *)
DeliveredNotAborted ==
  \A i \in DOMAIN completions :
    completions[i][2] >= 0 => completions[i][1] \notin aborted

(* Every bounded send is accounted for, through polls, moves, drops,        *)
(* flushes that fail and connections that end: it is settled once, its      *)
(* permit is conserved, its waiter has an owner, its future can be          *)
(* resolved, and what is queued is visited by the flush.                    *)
SendsAccounted ==
  /\ TypeOK
  /\ SettledOnce /\ PermitsConserved
  /\ WaitersOwned /\ FuturesKnown /\ QueuedIsDirty

(* No wake is lost and none goes to a stranger: the FIFO head that fits and *)
(* the task whose result is parked are about to run, and a queue never      *)
(* holds a send of an earlier occupant (wake_capacity, complete, close).    *)
NobodyForgotten == HeadNotForgotten /\ ResultNotForgotten /\ QueuedForThisConnection
=============================================================================
