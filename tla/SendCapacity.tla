---------------------------- MODULE SendCapacity ----------------------------
(***************************************************************************)
(* The per-worker admission FIFO of bounded sends, SendCapacityQueue       *)
(* (ringline/src/runtime/send_capacity.rs), as operators on its state.     *)
(*                                                                         *)
(* A queue is a record: waiting is the FIFO, submitted the set of admitted *)
(* operations and parked results, next_id the id counter.  An operator     *)
(* that may return task ids to wake has a companion, ...Wakes, that gives  *)
(* them.  A connection's own task has the connection's index as its id; a  *)
(* standalone task's id is no connection's index.                          *)
(***************************************************************************)
EXTENDS Integers, Sequences, SequencesExt

(* A result is the number of bytes of an Ok, or one of these errors. *)
Aborted == -1   \* ConnectionAborted, made up by teardown
Failed == -2    \* any other error

NewQueue == [waiting |-> <<>>, submitted |-> {}, next_id |-> 0]

Waiter(id, c, g, need, t) ==
  [id |-> id, conn |-> c, gen |-> g, need |-> need, task |-> t]

Submitted(id, c, t, state, res) ==
  [id |-> id, conn |-> c, task |-> t, state |-> state, res |-> res]

WaitingIds(q) == {e.id : e \in ToSet(q.waiting)}

(* The FIFO without some ids, and the owner of the new head if the head is  *)
(* one of them.                                                             *)
Without(w, ids) == SelectSeq(w, LAMBDA e : e.id \notin ids)

NewHeadOwner(w, ids) ==
  IF w # <<>> /\ Head(w).id \in ids /\ Without(w, ids) # <<>>
  THEN {Head(Without(w, ids)).task}
  ELSE {}

-----------------------------------------------------------------------------
(* enqueue; the new id is q.next_id. *)
Enqueue(q, c, g, need, t) ==
  [q EXCEPT !.waiting = Append(@, Waiter(q.next_id, c, g, need, t)),
            !.next_id = @ + 1]

(* set_owner: the task that polled the future last. *)
SetOwner(q, id, t) ==
  [q EXCEPT !.waiting = [i \in DOMAIN @ |-> IF @[i].id = id
                                            THEN [@[i] EXCEPT !.task = t]
                                            ELSE @[i]],
            !.submitted = {IF s.id = id THEN [s EXCEPT !.task = t] ELSE s : s \in @}]

(* Mutant: any waiter that fits is admitted, not only the head. *)
TurnOutOfOrder(q, id, free) ==
  \E e \in ToSet(q.waiting) : e.id = id /\ free >= e.need

(* Mutant: the head is admitted without looking at the pool. *)
TurnIgnoresFree(q, id, free) == q.waiting # <<>> /\ Head(q.waiting).id = id

(* turn: only the head, and only when it fits. *)
Turn(q, id, free) ==
  q.waiting # <<>> /\ Head(q.waiting).id = id /\ free >= Head(q.waiting).need

(* mark_submitted. *)
MarkSubmitted(q, id) ==
  LET e == CHOOSE x \in ToSet(q.waiting) : x.id = id
  IN  [q EXCEPT !.waiting = Without(@, {id}),
                !.submitted = @ \union {Submitted(id, e.conn, e.task, "InFlight", 0)}]

MarkSubmittedWakes(q, id) == NewHeadOwner(q.waiting, {id})

(* complete: the driver's result replaces InFlight and a provisional abort; *)
(* it removes an abandoned entry; between two driver results the first wins. *)
Complete(q, id, res) ==
  [q EXCEPT !.submitted =
     {s \in @ : ~(s.id = id /\ s.state # "Done")} \union
     {[s EXCEPT !.state = "Done", !.res = res] :
        s \in {s \in @ : s.id = id /\ s.state \in {"InFlight", "Aborted"}}}]

(* Mutant: the result is parked and its owner is not told. *)
CompleteWakesNobody(q, id) == {}

CompleteWakes(q, id) ==
  {s.task : s \in {s \in q.submitted : s.id = id /\ s.state \in {"InFlight", "Aborted"}}}

(* take_result: the parked result of id, if any, and the queue without it. *)
Results(q, id) == {s \in q.submitted : s.id = id /\ s.state \in {"Done", "Aborted"}}

ResultOf(q, id) ==
  LET s == CHOOSE s \in Results(q, id) : TRUE
  IN  IF s.state = "Done" THEN s.res ELSE Aborted

TakeResult(q, id) == [q EXCEPT !.submitted = @ \ Results(q, id)]

(* cancel. *)
Cancel(q, id) ==
  IF id \in WaitingIds(q)
  THEN [q EXCEPT !.waiting = Without(@, {id})]
  ELSE [q EXCEPT !.submitted =
          {s \in @ : s.id # id \/ s.state = "Abandoned"} \union
          {[s EXCEPT !.state = "Abandoned"] :
             s \in {s \in @ : s.id = id /\ s.state = "InFlight"}}]

(* Mutant: a cancelled head leaves without a successor being woken. *)
CancelWakesNobody(q, id) == {}

CancelWakes(q, id) == NewHeadOwner(q.waiting, {id})

(* head_ready: the head's owner, when the head fits. *)
HeadReady(q, free) ==
  IF q.waiting # <<>> /\ free >= Head(q.waiting).need
  THEN {Head(q.waiting).task}
  ELSE {}

-----------------------------------------------------------------------------
(* Entries that die with connection c: they target it, or its own task owns *)
(* them.                                                                    *)
Dead(e, c) == e.conn = c \/ e.task = c

DeadWaiting(q, c) == {e \in ToSet(q.waiting) : Dead(e, c)}

DeadInFlight(q, c) == {s \in q.submitted : Dead(s, c) /\ s.state = "InFlight"}

(* Mutant: what c's own task queued to write elsewhere stays in the FIFO. *)
RemoveConnectionKeepsOwned(q, c) ==
  LET dead == {e \in ToSet(q.waiting) : e.conn = c}
  IN  [q EXCEPT !.waiting = Without(@, {e.id : e \in dead}),
                !.submitted =
                  {s \in @ : ~Dead(s, c)
                             \/ (s.task # c /\ s.state \in {"Done", "Aborted"})} \union
                  {Submitted(e.id, e.conn, e.task, "Aborted", 0) :
                     e \in {e \in dead : e.task # c}} \union
                  {[s EXCEPT !.state = IF s.task = c THEN "Abandoned" ELSE "Aborted"] :
                     s \in DeadInFlight(q, c)}]

(* Mutant: what waits to write to c is dropped, whoever owns it. *)
RemoveConnectionDropsWaiting(q, c) ==
  [q EXCEPT !.waiting = Without(@, {e.id : e \in DeadWaiting(q, c)}),
            !.submitted =
              {s \in @ : ~Dead(s, c)
                         \/ (s.task # c /\ s.state \in {"Done", "Aborted"})} \union
              {[s EXCEPT !.state = IF s.task = c THEN "Abandoned" ELSE "Aborted"] :
                 s \in DeadInFlight(q, c)}]

(* remove_connection: what a live task owns is aborted, provisionally if it *)
(* is in flight; what c's own task owns is dropped, or left for the driver  *)
(* to complete.                                                             *)
RemoveConnection(q, c) ==
  [q EXCEPT !.waiting = Without(@, {e.id : e \in DeadWaiting(q, c)}),
            !.submitted =
              {s \in @ : ~Dead(s, c)
                         \/ (s.task # c /\ s.state \in {"Done", "Aborted"})} \union
              {Submitted(e.id, e.conn, e.task, "Aborted", 0) :
                 e \in {e \in DeadWaiting(q, c) : e.task # c}} \union
              {[s EXCEPT !.state = IF s.task = c THEN "Abandoned" ELSE "Aborted"] :
                 s \in DeadInFlight(q, c)}]

RemoveConnectionWakes(q, c) ==
  ({e.task : e \in DeadWaiting(q, c) \union DeadInFlight(q, c)} \ {c})
    \union NewHeadOwner(q.waiting, {e.id : e \in DeadWaiting(q, c)})

(* fail_waiting: shutdown_write fails what still waits to write to c. *)
Failing(q, c, g) == {e \in ToSet(q.waiting) : e.conn = c /\ e.gen = g}

FailWaiting(q, c, g) ==
  [q EXCEPT !.waiting = Without(@, {e.id : e \in Failing(q, c, g)}),
            !.submitted = @ \union {Submitted(e.id, e.conn, e.task, "Done", Failed) :
                                      e \in Failing(q, c, g)}]

FailWaitingWakes(q, c, g) ==
  {e.task : e \in Failing(q, c, g)}
    \union NewHeadOwner(q.waiting, {e.id : e \in Failing(q, c, g)})
=============================================================================
