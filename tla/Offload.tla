------------------------------ MODULE Offload ------------------------------
(***************************************************************************)
(* Work a task hands to somebody else and awaits: a name to resolve        *)
(* (ringline/src/resolver.rs), a closure that blocks (blocking.rs), a      *)
(* process to spawn (spawner.rs) and to wait for (process.rs), and a task  *)
(* to join (runtime/io.rs).  The first three go to a pool of threads,      *)
(* which send the response to the worker's channel and then write to its   *)
(* eventfd; the worker drains the channels when the read of the eventfd    *)
(* completes.                                                              *)
(*                                                                         *)
(* o.reqs[i] is the i-th request: fut is its future, at where the work is  *)
(* ("queue", "thread", "sent", "delivered", or "lost" with the thread), fd *)
(* the descriptor of a spawned process and child the process.  o.waits[n]  *)
(* is the n-th wait for a process.                                         *)
(***************************************************************************)
EXTENDS Naturals, Sequences, FiniteSets, SequencesExt, FiniteSetsExt, TLC

CONSTANT OffloadSetups

(* A setup: the threads of a pool, the requests by kind, the waits, and    *)
(* what may happen besides: "fail", the work fails; "ring", the submission *)
(* queue is full; "moved", a future is polled by another task than the one *)
(* that made the call; "panic", a closure panics.                          *)
ASSUME OffloadAssumption ==
  \A s \in OffloadSetups :
    /\ DOMAIN s = {"threads", "kinds", "waits", "faults"}
    /\ \A i \in DOMAIN s.kinds : s.kinds[i] \in {"resolve", "spawn", "blocking", "join"}
    /\ s.faults \subseteq {"fail", "ring", "moved", "panic"}

VARIABLES osetup, o

offloadVars == <<osetup, o>>

Kinds == {"resolve", "spawn", "blocking"}
OffloadTasks == {1, 2}
May(f) == f \in osetup.faults

InitOffload ==
  /\ osetup \in OffloadSetups
  /\ o = [reqs |-> <<>>, waits |-> <<>>, queue |-> [k \in Kinds |-> <<>>], threads |-> [k \in Kinds |-> osetup.threads],
          waking |-> [k \in Kinds |-> 0], responses |-> [k \in Kinds |-> <<>>], pending |-> <<>>, joins |-> <<>>,
          pidfd_waiters |-> <<>>, pidfd_results |-> {}, ready |-> {},
          eventfd |-> FALSE, armed |-> TRUE, cqe |-> FALSE]

Drop(f, k) == [j \in DOMAIN f \ {k} |-> f[j]]

-----------------------------------------------------------------------------
(* The calls. *)

NewRequest(kind) ==
  [kind |-> kind, task |-> 1, fut |-> "live", at |-> "queue", res |-> "none", fd |-> "none", child |-> "none",
   held |-> FALSE]

(* The entry names the task that makes the call; the request goes to the   *)
(* queue of the pool.                                                      *)
Submitted(x, kind) ==
  LET i == Len(x.reqs) + 1 IN
  [x EXCEPT !.reqs = Append(@, NewRequest(kind)), !.queue[kind] = Append(@, i),
            !.pending = (i :> [task |-> 1, slot |-> "none"]) @@ @]

Resolve(x) == Submitted(x, "resolve")

SpawnBlocking(x) == Submitted(x, "blocking")

CommandSpawn(x) == Submitted(x, "spawn")

(* The child is a task of this worker; it is polled from the ready queue. *)
SpawnWithHandle(x) ==
  [x EXCEPT !.reqs = Append(@, [NewRequest("join") EXCEPT !.at = "thread"]),
            !.joins = ((Len(x.reqs) + 1) :> [waiter |-> 0, result |-> FALSE, aborted |-> FALSE]) @@ @]

-----------------------------------------------------------------------------
(* The threads of the pools. *)

Took(x, k) == [x EXCEPT !.queue[k] = Tail(@), !.threads[k] = @ - 1, !.reqs[Head(x.queue[k])].at = "thread"]

(* A process that could not be given a descriptor is killed and reaped. *)
DoSpawn(x, i, how) ==
  CASE how = "ok" -> [x EXCEPT !.reqs[i] = [@ EXCEPT !.res = "ok", !.fd = "open", !.child = "running"]]
    [] how = "pidfd" -> [x EXCEPT !.reqs[i] = [@ EXCEPT !.res = "err", !.child = "reaped"]]
    [] how = "spawn" -> [x EXCEPT !.reqs[i].res = "err"]

(* The work is done and its response is in the channel; the eventfd is     *)
(* written after.                                                          *)
Responded(x, i) ==
  [x EXCEPT !.reqs[i].at = "sent", !.responses[x.reqs[i].kind] = Append(@, i),
            !.waking[x.reqs[i].kind] = @ + 1]

Worked(x, i) ==
  CASE x.reqs[i].kind = "spawn" ->
         {Responded(DoSpawn(x, i, how), i) : how \in {"ok"} \union (IF May("fail") THEN {"pidfd", "spawn"} ELSE {})}
    [] x.reqs[i].kind = "resolve" ->
         {Responded([x EXCEPT !.reqs[i].res = r], i) : r \in {"ok"} \union (IF May("fail") THEN {"err"} ELSE {})}
    [] x.reqs[i].kind = "blocking" ->
         {Responded([x EXCEPT !.reqs[i].res = "ok"], i)}
           \union (IF May("panic") THEN {[x EXCEPT !.reqs[i].at = "lost"]} ELSE {})

(* The thread wakes the worker and is back for the next request. *)
WakeFd(x, k) == [x EXCEPT !.eventfd = TRUE, !.waking[k] = @ - 1, !.threads[k] = @ + 1]

-----------------------------------------------------------------------------
(* The worker. *)

Deliver(x, i) ==
  [x EXCEPT !.pending[i].slot = x.reqs[i].res, !.ready = @ \union {x.pending[i].task}]

DeliverResolve(x, i) == IF i \in DOMAIN x.pending THEN Deliver(x, i) ELSE x

DeliverBlocking(x, i) == IF i \in DOMAIN x.pending THEN Deliver(x, i) ELSE x

DeliverSpawnLeaks(x, i) == IF i \in DOMAIN x.pending THEN Deliver(x, i) ELSE x

(* Nobody awaits the process any more: its descriptor is closed. *)
DeliverSpawn(x, i) ==
  IF i \in DOMAIN x.pending THEN Deliver(x, i)
  ELSE [x EXCEPT !.reqs[i].fd = IF @ = "open" THEN "closed" ELSE @]

Delivered(x, i) ==
  LET y == [x EXCEPT !.reqs[i].at = "delivered"] IN
  CASE x.reqs[i].kind = "resolve" -> DeliverResolve(y, i)
    [] x.reqs[i].kind = "spawn" -> DeliverSpawn(y, i)
    [] x.reqs[i].kind = "blocking" -> DeliverBlocking(y, i)

DrainFirst(x, k) ==
  IF x.responses[k] = <<>> THEN x ELSE [Delivered(x, Head(x.responses[k])) EXCEPT !.responses[k] = Tail(@)]

Drain(x, k) == [FoldLeft(Delivered, x, x.responses[k]) EXCEPT !.responses[k] = <<>>]

(* The read of the eventfd completed: drain the channels and read again.   *)
(* The event loop tries later when the ring has no room for that.          *)
HandleResponses(x, armed) ==
  [Drain(Drain(Drain(x, "resolve"), "spawn"), "blocking") EXCEPT !.cqe = FALSE, !.armed = armed]

-----------------------------------------------------------------------------
(* Futures. *)

PollPending(x, i) ==
  IF i \in DOMAIN x.pending /\ x.pending[i].slot # "none"
  THEN [x EXCEPT !.pending = Drop(@, i),
                 !.reqs[i] = [@ EXCEPT !.fut = "ready", !.held = x.reqs[i].kind = "spawn" /\ x.reqs[i].res = "ok"]]
  ELSE x

PollJoin(x, i) ==
  IF x.joins[i].aborted THEN x
  ELSE IF x.joins[i].result THEN [x EXCEPT !.reqs[i].fut = "ready", !.joins[i].result = FALSE]
  ELSE [x EXCEPT !.joins[i].waiter = x.reqs[i].task]

(* The wrapper stores the value and wakes the task that awaits it. *)
JoinDone(x, i) ==
  [x EXCEPT !.joins[i] = [@ EXCEPT !.result = TRUE, !.waiter = 0], !.reqs[i].at = "delivered",
            !.ready = IF x.joins[i].waiter # 0 THEN @ \union {x.joins[i].waiter} ELSE @]

JoinAbort(x, i) == [x EXCEPT !.joins[i].aborted = TRUE, !.reqs[i].at = "lost"]

(* Only a dropped SpawnFuture removes its entry, with the descriptor. *)
DropRequest(x, i) ==
  IF x.reqs[i].kind # "spawn" THEN [x EXCEPT !.reqs[i].fut = "dropped"]
  ELSE [x EXCEPT !.pending = Drop(@, i), !.reqs[i].fut = "dropped",
                 !.reqs[i].fd = IF i \in DOMAIN x.pending /\ x.pending[i].slot = "ok" THEN "closed" ELSE @]

(* Waiting for a process. *)
ChildWait(x, i) ==
  [x EXCEPT !.waits = Append(@, [req |-> i, task |-> 1, fut |-> "live", at |-> "kernel", res |-> "none"]),
            !.pidfd_waiters = ((Len(x.waits) + 1) :> 1) @@ @]

WakePidfd(x, n) ==
  [x EXCEPT !.waits[n].at = "done", !.pidfd_results = @ \union {n}, !.pidfd_waiters = Drop(@, n),
            !.ready = IF n \in DOMAIN x.pidfd_waiters THEN @ \union {x.pidfd_waiters[n]} ELSE @]

(* A wait that finds its result reaps the process. *)
PollWait(x, n) ==
  LET i == x.waits[n].req IN
  IF n \notin x.pidfd_results THEN [x EXCEPT !.pidfd_waiters = (n :> x.waits[n].task) @@ @]
  ELSE [x EXCEPT !.pidfd_results = @ \ {n}, !.reqs[i].child = "reaped",
                 !.waits[n] = [@ EXCEPT !.fut = "ready", !.res = IF x.reqs[i].child = "exited" THEN "ok" ELSE "echild"]]

DropWait(x, n) ==
  [x EXCEPT !.waits[n].fut = "dropped", !.pidfd_waiters = Drop(@, n), !.pidfd_results = @ \ {n}]

-----------------------------------------------------------------------------
OffloadBecomes(S) == /\ o' \in S
                     /\ UNCHANGED osetup

(* Task 1 makes a call while it is polled, and will poll the future. *)
Call ==
  /\ Len(o.reqs) < Len(osetup.kinds)
  /\ LET kind == osetup.kinds[Len(o.reqs) + 1]
         x == [o EXCEPT !.ready = @ \union {1}]
     IN OffloadBecomes({CASE kind = "resolve" -> Resolve(x)
                          [] kind = "blocking" -> SpawnBlocking(x)
                          [] kind = "spawn" -> CommandSpawn(x)
                          [] kind = "join" -> SpawnWithHandle(x)})

CallWait(i) ==
  /\ o.reqs[i].held /\ Len(o.waits) < osetup.waits
  /\ OffloadBecomes({ChildWait(o, i)} \union
       (IF May("ring") THEN {[ChildWait(o, i) EXCEPT !.waits[Len(o.waits) + 1] = [@ EXCEPT !.fut = "dropped", !.at = "done"]]}
        ELSE {}))

PollOne(x, i) == IF x.reqs[i].kind = "join" THEN PollJoin(x, i) ELSE PollPending(x, i)

PollTask(t) ==
  LET R == {i \in DOMAIN o.reqs : o.reqs[i].fut = "live" /\ o.reqs[i].task = t}
      W == {n \in DOMAIN o.waits : o.waits[n].fut = "live" /\ o.waits[n].task = t}
      polled == FoldSet(LAMBDA i, x : PollOne(x, i), [o EXCEPT !.ready = @ \ {t}], R)
  IN /\ R \union W # {}
     /\ OffloadBecomes({FoldSet(LAMBDA n, x : PollWait(x, n), polled, W)})

(* A future that looks its task up when it is polled may change hands. *)
HandOver(i) ==
  /\ o.reqs[i].fut = "live" /\ o.reqs[i].task = 1
  /\ o.reqs[i].kind = "join" \/ May("moved")
  /\ OffloadBecomes({[o EXCEPT !.reqs[i].task = 2, !.ready = @ \union {2}]})

HandOverWait(n) ==
  /\ o.waits[n].fut = "live" /\ o.waits[n].task = 1
  /\ OffloadBecomes({[o EXCEPT !.waits[n].task = 2, !.ready = @ \union {2}]})

Abandon(i) == o.reqs[i].fut = "live" /\ OffloadBecomes({DropRequest(o, i)})

AbandonWait(n) == o.waits[n].fut = "live" /\ OffloadBecomes({DropWait(o, n)})

Abort(i) == o.reqs[i].kind = "join" /\ o.reqs[i].at = "thread" /\ OffloadBecomes({JoinAbort(o, i)})

ChildDone(i) == o.reqs[i].kind = "join" /\ o.reqs[i].at = "thread" /\ OffloadBecomes({JoinDone(o, i)})

DropChild(i) == o.reqs[i].held /\ OffloadBecomes({[o EXCEPT !.reqs[i] = [@ EXCEPT !.held = FALSE, !.fd = "closed"]]})

(* Threads. *)
ThreadTakes(k) == o.queue[k] # <<>> /\ o.threads[k] > 0 /\ OffloadBecomes({Took(o, k)})

ThreadWorks(i) == o.reqs[i].kind # "join" /\ o.reqs[i].at = "thread" /\ OffloadBecomes(Worked(o, i))

ThreadWakes(k) == o.waking[k] > 0 /\ OffloadBecomes({WakeFd(o, k)})

(* The kernel and the event loop. *)
EventfdReadable == o.armed /\ o.eventfd
  /\ OffloadBecomes({[o EXCEPT !.eventfd = FALSE, !.armed = FALSE, !.cqe = TRUE]})

EventfdRead == o.cqe /\ OffloadBecomes({HandleResponses(o, a) : a \in {TRUE} \union (IF May("ring") THEN {FALSE} ELSE {})})

RearmEventfd == ~o.armed /\ ~o.cqe /\ OffloadBecomes({[o EXCEPT !.armed = TRUE]})

ProcessExits(i) == o.reqs[i].child = "running" /\ OffloadBecomes({[o EXCEPT !.reqs[i].child = "exited"]})

PidfdReadable(n) ==
  /\ o.waits[n].at = "kernel" /\ o.reqs[o.waits[n].req].child # "running"
  /\ OffloadBecomes({WakePidfd(o, n)})

OffloadNext ==
  \/ Call
  \/ \E t \in OffloadTasks : PollTask(t)
  \/ \E i \in DOMAIN o.reqs :
       \/ CallWait(i) \/ HandOver(i) \/ Abandon(i) \/ Abort(i) \/ ChildDone(i) \/ DropChild(i)
       \/ ThreadWorks(i) \/ ProcessExits(i)
  \/ \E n \in DOMAIN o.waits : HandOverWait(n) \/ AbandonWait(n) \/ PidfdReadable(n)
  \/ \E k \in Kinds : ThreadTakes(k) \/ ThreadWakes(k)
  \/ EventfdReadable \/ EventfdRead \/ RearmEventfd

OffloadSpec == InitOffload /\ [][OffloadNext]_offloadVars

-----------------------------------------------------------------------------
(* The descriptor of a spawned process has one owner, the thread, the      *)
(* response, the entry or the Child, and is closed when it has none        *)
(* (deliver_spawn, Drop of SpawnFuture and of Child).                      *)
PidfdOwned ==
  \A i \in DOMAIN o.reqs : LET r == o.reqs[i] IN
    r.fd # "none" =>
      (r.fd = "open" <=> \/ r.at \in {"thread", "sent"}
                         \/ i \in DOMAIN o.pending /\ o.pending[i].slot = "ok"
                         \/ r.held)

(* Nobody waits for nothing: a response in a channel has its wake on the   *)
(* way, and a live future has its work under way, or its result in place   *)
(* and its task about to run (the threads' loops, handle_eventfd_read,     *)
(* deliver_*, wake_pidfd).  An aborted join is documented to wait for ever.*)
(* The descriptor of a process has its owner.                              *)
OffloadServed ==
  /\ PidfdOwned
  /\ \A k \in Kinds : o.responses[k] # <<>> => o.eventfd \/ o.cqe \/ o.waking[k] > 0
  /\ \A i \in DOMAIN o.reqs : LET r == o.reqs[i] IN
       r.fut = "live" /\ ~(r.kind = "join" /\ o.joins[i].aborted) =>
         \/ r.at \in {"queue", "thread", "sent"}
         \/ r.at = "delivered" /\ r.task \in o.ready
  /\ \A n \in DOMAIN o.waits : LET w == o.waits[n] IN
       w.fut = "live" => \/ w.task \in o.ready
                         \/ w.at = "kernel" /\ n \in DOMAIN o.pidfd_waiters /\ o.pidfd_waiters[n] = w.task
=============================================================================
