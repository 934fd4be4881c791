--------------------------- MODULE ExecutorProofs ---------------------------
(***************************************************************************)
(* Proofs about Executor, for any number of connections and any standalone *)
(* capacity: no wake-up is lost, and the standalone slab hands a slot to   *)
(* one task at a time, as long as no task cancels itself.                  *)
(*                                                                         *)
(* NoLostWake is not inductive.  It rests on every ready task having an    *)
(* entry of the queue that the pass will honour (ReadyInv), which in turn  *)
(* rests on a dedup bit being set only for a task of the initial batch and *)
(* on none surviving the pass (DedupInv).                                  *)
(***************************************************************************)
EXTENDS Executor, TLAPS, SequenceTheorems

(* The task being polled is the one that is out of its slot. *)
PollInv ==
  /\ \A t \in Tasks : slot[t] = "Polling" <=> polling = t
  /\ polling # NoTask => pc = "pass"

(* A ready task has an entry that will be visited and not skipped. *)
ReadyInv == \A t \in Tasks : slot[t] = "Ready" => Queued(t)

(* Dedup bits are those of the initial batch, and none is set between passes. *)
DedupInv ==
  /\ \A t \in dedup : \E k \in 1..initial_len : ready_queue[k] = t
  /\ pc \in {"events", "collect"} => dedup = {} /\ next = 0 /\ initial_len = 0

(* Only a task that exists is wanted. *)
WantedInv == \A t \in wanted : slot[t] # "Empty"

(* The future being polled is the last one its slot was given. *)
CurrentInv == polling # NoTask => current = inc[polling]

-----------------------------------------------------------------------------
(* NoTask is no task. *)
LEMMA TasksAreNat == Tasks \subseteq Nat /\ NoTask \notin Tasks /\ Standalone \subseteq Tasks
                     /\ Conns \subseteq Tasks /\ Conns \intersect Standalone = {}
BY ExecutorAssumption, SMT DEF Tasks, Conns, Standalone, NoTask

(* ready_queue.push_back: entries keep their place, and the new one, past   *)
(* the initial batch, will be honoured.                                     *)
LEMMA PushKeepsQueued ==
  ASSUME TypeOK, NEW t \in Tasks, ready_queue' = Append(ready_queue, t),
         UNCHANGED passVars
  PROVE  /\ ready_queue' \in Seq(Tasks)
         /\ next' \in 0..Len(ready_queue') /\ initial_len' \in 0..Len(ready_queue')
         /\ \A k \in 1..initial_len : ready_queue'[k] = ready_queue[k]
         /\ Queued(t)'
         /\ \A u \in Tasks : Queued(u) => Queued(u)'
<1>. DEFINE n == Len(ready_queue)
<1>1. /\ ready_queue \in Seq(Tasks) /\ n \in Nat /\ next \in 0..n /\ initial_len \in 0..n
  BY DEF TypeOK
<1>2. /\ ready_queue' \in Seq(Tasks) /\ Len(ready_queue') = n + 1
      /\ ready_queue'[n + 1] = t
      /\ \A k \in 1..n : ready_queue'[k] = ready_queue[k]
  BY <1>1
<1>3. next' = next /\ initial_len' = initial_len /\ dedup' = dedup
  BY DEF passVars
<1>4. Queued(t)'
  <2>1. n + 1 \in 1..Len(ready_queue') /\ next' < n + 1 /\ ~(n + 1 <= initial_len')
    BY <1>1, <1>2, <1>3
  <2>. QED BY <1>2, <2>1 DEF Queued, Live
<1>5. ASSUME NEW u \in Tasks, Queued(u) PROVE Queued(u)'
  <2>1. PICK k \in 1..n : ready_queue[k] = u /\ Live(k)
    BY <1>5 DEF Queued
  <2>2. k \in 1..Len(ready_queue') /\ ready_queue'[k] = u
    BY <1>1, <1>2, <2>1
  <2>3. Live(k)'
    BY <1>2, <1>3, <2>1, <2>2 DEF Live
  <2>. QED BY <2>2, <2>3 DEF Queued
<1>. QED BY <1>1, <1>2, <1>3, <1>4, <1>5

(* The pass moves past an entry of t, setting its bit or not: the other     *)
(* tasks keep their entries.                                                *)
LEMMA AdvanceKeepsOthers ==
  ASSUME TypeOK, NEW t \in Tasks, Entry(t), next' = next + 1,
         dedup' = dedup \/ dedup' = dedup \union {t},
         UNCHANGED <<ready_queue, initial_len>>
  PROVE  \A u \in Tasks \ {t} : Queued(u) => Queued(u)'
<1>. SUFFICES ASSUME NEW u \in Tasks \ {t}, Queued(u) PROVE Queued(u)'
  OBVIOUS
<1>1. PICK k \in 1..Len(ready_queue) : ready_queue[k] = u /\ Live(k)
  BY DEF Queued
<1>2. next \in Nat /\ k # next + 1
  BY <1>1 DEF Entry, TypeOK
<1>3. next' < k
  BY <1>1, <1>2 DEF Live
<1>4. Live(k)'
  BY <1>1, <1>3 DEF Live
<1>. QED BY <1>1, <1>4 DEF Queued

-----------------------------------------------------------------------------
(* wake_task keeps the types: it may append to the queue, no more. *)
LEMMA WakeTaskType ==
  ASSUME TypeOK, NEW t \in Tasks, wake_task(t), UNCHANGED passVars
  PROVE  /\ slot' \in [Tasks -> {"Empty", "Polling", "Parked", "Ready"}]
         /\ ready_queue' \in Seq(Tasks)
         /\ next' \in 0..Len(ready_queue') /\ initial_len' \in 0..Len(ready_queue')
         /\ dedup' \subseteq Tasks
         /\ woken' \in BOOLEAN
<1>1. CASE t = polling
  BY <1>1 DEF wake_task, TypeOK, passVars
<1>2. CASE t # polling /\ slot[t] = "Parked"
  <2>1. ready_queue' = Append(ready_queue, t) /\ slot' = [slot EXCEPT ![t] = "Ready"]
        /\ UNCHANGED woken
    BY <1>2 DEF wake_task
  <2>. QED BY <2>1, PushKeepsQueued DEF TypeOK, passVars
<1>3. CASE t # polling /\ slot[t] # "Parked"
  BY <1>3 DEF wake_task, TypeOK, passVars
<1>. QED BY <1>1, <1>2, <1>3

(* The type invariant is inductive by itself: indices into the ready queue  *)
(* stay within it, because nothing but the end of a pass shortens it.       *)
LEMMA TypeInductive == TypeOK /\ [Next]_vars => TypeOK'
<1>. SUFFICES ASSUME TypeOK, [Next]_vars PROVE TypeOK'
  OBVIOUS
<1>. USE TasksAreNat
<1>1. ASSUME NEW t \in Tasks, Wake(t) PROVE TypeOK'
  <2>1. spent' \in Nat
    BY <1>1 DEF Wake, TypeOK
  <2>2. wanted' \subseteq Tasks
    BY <1>1 DEF Wake, Wants, TypeOK
  <2>. QED BY <1>1, <2>1, <2>2, WakeTaskType DEF Wake, TypeOK
<1>2. ASSUME NEW t \in Tasks, WakerWakes(t) PROVE TypeOK'
  <2>1. wakers' \in Seq(Tasks)
    BY <1>2, AppendProperties DEF WakerWakes, TypeOK
  <2>2. wanted' \subseteq Tasks
    BY <1>2 DEF WakerWakes, Wants, TypeOK
  <2>. QED BY <1>2, <2>1, <2>2 DEF WakerWakes, TypeOK, passVars
<1>3. ASSUME NEW c \in Conns, SpawnConn(c) PROVE TypeOK'
  <2>1. inc' \in [Tasks -> Nat]
    BY <1>3 DEF SpawnConn, TypeOK
  <2>2. slot' \in [Tasks -> {"Empty", "Polling", "Parked", "Ready"}]
    BY <1>3 DEF SpawnConn, TypeOK
  <2>3. /\ ready_queue' \in Seq(Tasks)
        /\ next' \in 0..Len(ready_queue') /\ initial_len' \in 0..Len(ready_queue')
    BY <1>3, PushKeepsQueued DEF SpawnConn
  <2>. QED BY <1>3, <2>1, <2>2, <2>3 DEF SpawnConn, TypeOK, passVars
<1>4. ASSUME NEW c \in Conns, RemoveConn(c) PROVE TypeOK'
  BY <1>4 DEF RemoveConn, TypeOK, passVars
<1>5. CASE Spawn
  <2>. DEFINE t == Top(free_list)
  <2>1. t \in Standalone /\ t \in Tasks /\ free_list' \in Seq(Standalone)
    BY <1>5, PopType DEF Spawn, TypeOK
  <2>. HIDE DEF t
  <2>2. /\ ready_queue' = Append(ready_queue, t) /\ slot' = [slot EXCEPT ![t] = "Ready"]
        /\ inc' = [inc EXCEPT ![t] = @ + 1] /\ wanted' = wanted \union {t}
        /\ lost' \in BOOLEAN
        /\ UNCHANGED <<wakers, pc, passVars, polling, woken, spent, current>>
    BY <1>5 DEF Spawn, t
  <2>3. inc' \in [Tasks -> Nat] /\ inc'[t] \in Nat
    BY <2>1, <2>2 DEF TypeOK
  <2>4. slot' \in [Tasks -> {"Empty", "Polling", "Parked", "Ready"}]
    BY <2>1, <2>2 DEF TypeOK
  <2>5. /\ ready_queue' \in Seq(Tasks)
        /\ next' \in 0..Len(ready_queue') /\ initial_len' \in 0..Len(ready_queue')
    BY <2>1, <2>2, PushKeepsQueued
  <2>. QED BY <2>1, <2>2, <2>3, <2>4, <2>5 DEF TypeOK, passVars
<1>6. ASSUME NEW t \in Standalone, remove(t), lost' \in BOOLEAN,
             polling' = polling \/ polling' = NoTask,
             UNCHANGED <<ready_queue, wakers, pc, passVars, woken, spent, inc, current>>
      PROVE  TypeOK'
  <2>1. free_list' \in Seq(Standalone)
    BY <1>6, AppendProperties DEF remove, TypeOK
  <2>. QED BY <1>6, <2>1 DEF remove, TypeOK, passVars
<1>7. ASSUME NEW t \in Standalone, NEW k \in 1..MaxSpawns, Cancel(t, k) PROVE TypeOK'
  BY <1>6, <1>7 DEF Cancel
<1>8. CASE CollectOne
  <2>1. Head(wakers) \in Tasks /\ wakers' \in Seq(Tasks)
    BY <1>8 DEF CollectOne, TypeOK
  <2>2. wake_task(Head(wakers)) /\ UNCHANGED passVars
    BY <1>8 DEF CollectOne
  <2>. QED BY <1>8, <2>1, <2>2, WakeTaskType DEF CollectOne, TypeOK, ghosts
<1>9. CASE EndCollect
  BY <1>9 DEF EndCollect, TypeOK, passVars, ghosts
<1>10. CASE BeginPass
  BY <1>10 DEF BeginPass, TypeOK, ghosts
<1>11. ASSUME NEW t \in Tasks, SkipDuplicate(t) PROVE TypeOK'
  BY <1>11 DEF SkipDuplicate, Entry, TypeOK, ghosts
<1>a. ASSUME NEW t \in Tasks, Entry(t), Visited(t)
      PROVE  next' \in 0..Len(ready_queue) /\ dedup' \subseteq Tasks
  <2>1. next' = next + 1 /\ next < Len(ready_queue)
    BY <1>a DEF Entry, Visited
  <2>2. dedup' = dedup \/ dedup' = dedup \union {t}
    BY <1>a DEF Visited
  <2>3. next' \in 0..Len(ready_queue)
    BY <2>1 DEF TypeOK
  <2>. QED BY <2>2, <2>3 DEF TypeOK
<1>12. ASSUME NEW t \in Tasks, SkipStale(t) PROVE TypeOK'
  BY <1>12, <1>a DEF SkipStale, TypeOK, ghosts
<1>13. ASSUME NEW t \in Tasks, BeginPoll(t) PROVE TypeOK'
  BY <1>13, <1>a DEF BeginPoll, TypeOK
<1>14. ASSUME NEW t \in Tasks, PollPending(t) PROVE TypeOK'
  <2>1. /\ ready_queue' \in Seq(Tasks)
        /\ next' \in 0..Len(ready_queue') /\ initial_len' \in 0..Len(ready_queue')
    <3>1. CASE woken
      BY <1>14, <3>1, PushKeepsQueued DEF PollPending
    <3>2. CASE ~woken
      BY <1>14, <3>2 DEF PollPending, TypeOK, passVars
    <3>. QED BY <3>1, <3>2
  <2>2. slot' \in [Tasks -> {"Empty", "Polling", "Parked", "Ready"}]
    BY <1>14 DEF PollPending, TypeOK
  <2>. QED BY <1>14, <2>1, <2>2 DEF PollPending, TypeOK, passVars
<1>15. ASSUME NEW t \in Tasks, FinishStandalone(t) PROVE TypeOK'
  BY <1>6, <1>15 DEF FinishStandalone
<1>16. ASSUME NEW t \in Tasks, FinishConn(t) PROVE TypeOK'
  BY <1>16 DEF FinishConn, TypeOK, passVars
<1>17. CASE EndTeardown
  BY <1>17 DEF EndTeardown, TypeOK, passVars, ghosts
<1>18. CASE EndPass
  <2>1. ready_queue' \in Seq(Tasks) /\ Len(ready_queue') = 0
    BY <1>18, EmptySeq DEF EndPass
  <2>2. dedup' \subseteq Tasks
    BY <1>18 DEF EndPass, TypeOK
  <2>3. next' \in 0..0 /\ initial_len' \in 0..0 /\ spent' \in Nat
    BY <1>18 DEF EndPass
  <2>4. pc' = "collect" /\ UNCHANGED <<slot, free_list, wakers, polling, woken, ghosts>>
    BY <1>18 DEF EndPass
  <2>. QED BY <2>1, <2>2, <2>3, <2>4 DEF TypeOK, ghosts
<1>19. CASE UNCHANGED vars
  BY <1>19 DEF vars, TypeOK
<1>. QED BY <1>1, <1>2, <1>3, <1>4, <1>5, <1>7, <1>8, <1>9, <1>10, <1>11, <1>12, <1>13,
             <1>14, <1>15, <1>16, <1>17, <1>18, <1>19 DEF Next, Visit, Return

-----------------------------------------------------------------------------
(* The slab.  A slot changes hands only through Spawn, remove and the two   *)
(* connection operations; that the task being polled is the only one out of *)
(* its slot is what keeps the free list from listing a slot in use.         *)
Empties == {t \in Standalone : slot[t] = "Empty"}

SlabInv == TypeOK /\ PollInv /\ CurrentInv /\ SlabExact

(* wake_task moves a task between Parked and Ready only. *)
LEMMA WakeTaskSlots ==
  ASSUME TypeOK, PollInv, NEW t \in Tasks, wake_task(t), UNCHANGED polling
  PROVE  /\ \A u \in Tasks : slot'[u] = "Polling" <=> slot[u] = "Polling"
         /\ \A u \in Tasks : slot'[u] = "Empty" <=> slot[u] = "Empty"
<1>1. CASE slot' = slot
  BY <1>1
<1>2. CASE slot[t] = "Parked" /\ slot' = [slot EXCEPT ![t] = "Ready"]
  BY <1>2 DEF TypeOK
<1>. QED BY <1>1, <1>2 DEF wake_task

(* What a step that leaves the empty and the polled slots alone keeps. *)
LEMMA SlabUndisturbed ==
  ASSUME SlabInv, UNCHANGED <<free_list, polling, inc, current>>,
         polling # NoTask => pc' = "pass",
         \A u \in Tasks : slot'[u] = "Polling" <=> slot[u] = "Polling",
         \A u \in Tasks : slot'[u] = "Empty" <=> slot[u] = "Empty"
  PROVE  PollInv' /\ CurrentInv' /\ SlabExact'
<1>1. PollInv'
  BY DEF SlabInv, PollInv
<1>2. CurrentInv'
  BY DEF SlabInv, CurrentInv
<1>3. Empties' = Empties
  BY TasksAreNat DEF Empties
<1>4. SlabExact'
  BY <1>3 DEF SlabInv, SlabExact, Empties
<1>. QED BY <1>1, <1>2, <1>4

(* remove of a task that is not being polled, or that just was. *)
LEMMA RemoveKeepsSlab ==
  ASSUME SlabInv, TypeOK', NEW t \in Standalone, remove(t),
         UNCHANGED <<pc, inc, current>>,
         \/ polling # t /\ polling' = polling
         \/ polling = t /\ polling' = NoTask
  PROVE  PollInv' /\ CurrentInv' /\ SlabExact'
<1>. USE TasksAreNat
<1>1. slot' = [slot EXCEPT ![t] = "Empty"] /\ t \in Tasks
  BY DEF remove
<1>2. PollInv'
  <2>1. \A u \in Tasks : slot'[u] = IF u = t THEN "Empty" ELSE slot[u]
    BY <1>1 DEF SlabInv, TypeOK
  <2>. QED BY <1>1, <2>1 DEF SlabInv, PollInv
<1>3. CurrentInv'
  BY DEF SlabInv, CurrentInv
<1>4. Empties' = Empties \union {t}
  BY <1>1 DEF Empties, SlabInv, TypeOK
<1>5. SlabExact'
  <2>1. CASE slot[t] = "Empty"
    <3>1. free_list' = free_list /\ Empties' = Empties
      BY <1>4, <2>1 DEF remove, Empties
    <3>. QED BY <3>1 DEF SlabInv, SlabExact, Empties
  <2>2. CASE slot[t] # "Empty"
    <3>1. free_list' = Append(free_list, t) /\ t \notin Empties
      BY <2>2 DEF remove, Empties
    <3>2. free_list \in Seq(Standalone) /\ Exact(free_list, Empties)
      BY DEF SlabInv, TypeOK, SlabExact, Empties
    <3>3. Exact(free_list', Empties')
      BY <1>4, <3>1, <3>2, PushExact
    <3>. QED BY <3>3 DEF SlabExact, Empties
  <2>. QED BY <2>1, <2>2
<1>. QED BY <1>2, <1>3, <1>5

(* The slab's invariant is inductive when tasks do not cancel themselves. *)
LEMMA SlabInductive ==
  ASSUME ~SelfCancel
  PROVE  SlabInv /\ [Next]_vars => SlabInv'
<1>. SUFFICES ASSUME SlabInv, [Next]_vars PROVE PollInv' /\ CurrentInv' /\ SlabExact'
  BY TypeInductive DEF SlabInv
<1>. USE TasksAreNat
<1>0. TypeOK /\ TypeOK'
  BY TypeInductive DEF SlabInv
<1>1. ASSUME NEW t \in Tasks, Wake(t) PROVE PollInv' /\ CurrentInv' /\ SlabExact'
  <2>1. wake_task(t) /\ UNCHANGED <<free_list, polling, inc, current, pc>>
    BY <1>1 DEF Wake
  <2>. QED BY <1>0, <2>1, WakeTaskSlots, SlabUndisturbed DEF SlabInv, PollInv
<1>2. ASSUME NEW t \in Tasks, WakerWakes(t) PROVE PollInv' /\ CurrentInv' /\ SlabExact'
  BY <1>2, SlabUndisturbed DEF WakerWakes, SlabInv, PollInv
<1>3. ASSUME NEW c \in Conns, SpawnConn(c) PROVE PollInv' /\ CurrentInv' /\ SlabExact'
  <2>1. /\ polling = NoTask /\ slot[c] = "Empty" /\ slot' = [slot EXCEPT ![c] = "Ready"]
        /\ UNCHANGED <<free_list, polling, pc, current>>
    BY <1>3 DEF SpawnConn, SlabInv, PollInv
  <2>2. PollInv' /\ CurrentInv'
    BY <1>0, <2>1 DEF SlabInv, PollInv, CurrentInv, TypeOK
  <2>a. \A u \in Standalone : slot'[u] = slot[u]
    BY <1>0, <2>1 DEF TypeOK
  <2>3. Empties' = Empties
    BY <2>a DEF Empties
  <2>4. SlabExact'
    BY <2>1, <2>3 DEF SlabInv, SlabExact, Empties
  <2>. QED BY <2>2, <2>4
<1>4. ASSUME NEW c \in Conns, polling' = NoTask, polling = NoTask \/ polling = c,
             slot' = [slot EXCEPT ![c] = "Empty"], UNCHANGED free_list
      PROVE  PollInv' /\ CurrentInv' /\ SlabExact'
  <2>1. PollInv' /\ CurrentInv'
    BY <1>0, <1>4 DEF SlabInv, PollInv, CurrentInv, TypeOK
  <2>2. Empties' = Empties
    BY <1>0, <1>4 DEF Empties, TypeOK
  <2>. QED BY <1>4, <2>1, <2>2 DEF SlabInv, SlabExact, Empties
<1>5. ASSUME NEW c \in Conns, RemoveConn(c) PROVE PollInv' /\ CurrentInv' /\ SlabExact'
  BY <1>4, <1>5 DEF RemoveConn, SlabInv, PollInv
<1>6. CASE Spawn
  <2>. DEFINE t == Top(free_list)
  <2>1. free_list \in Seq(Standalone) /\ free_list # <<>> /\ Exact(free_list, Empties)
    BY <1>0, <1>6 DEF Spawn, SlabInv, SlabExact, TypeOK, Empties
  <2>2. /\ t \in Empties /\ t \in Standalone /\ t \in Tasks
        /\ Exact(Pop(free_list), Empties \ {t})
    BY <2>1, PopExact
  <2>3. /\ free_list' = Pop(free_list) /\ slot' = [slot EXCEPT ![t] = "Ready"]
        /\ inc' = [inc EXCEPT ![t] = @ + 1]
        /\ UNCHANGED <<pc, polling, current>>
    BY <1>6 DEF Spawn
  <2>. HIDE DEF t
  <2>4. slot[t] = "Empty" /\ polling # t
    BY <2>2 DEF Empties, SlabInv, PollInv
  <2>5. PollInv' /\ CurrentInv'
    BY <1>0, <2>2, <2>3, <2>4 DEF SlabInv, PollInv, CurrentInv, TypeOK
  <2>6. Empties' = Empties \ {t}
    BY <1>0, <2>2, <2>3 DEF Empties, TypeOK
  <2>7. SlabExact'
    BY <2>2, <2>3, <2>6 DEF SlabExact, Empties
  <2>. QED BY <2>5, <2>7
<1>7. ASSUME NEW t \in Standalone, NEW k \in 1..MaxSpawns, Cancel(t, k)
      PROVE  PollInv' /\ CurrentInv' /\ SlabExact'
  BY <1>0, <1>7, RemoveKeepsSlab DEF Cancel
<1>8. CASE CollectOne
  <2>1. Head(wakers) \in Tasks
    BY <1>0, <1>8 DEF CollectOne, TypeOK
  <2>2. wake_task(Head(wakers)) /\ UNCHANGED <<free_list, polling, inc, current, pc>>
    BY <1>8 DEF CollectOne, ghosts
  <2>. QED BY <1>0, <2>1, <2>2, WakeTaskSlots, SlabUndisturbed DEF SlabInv, PollInv
<1>9. CASE EndCollect
  BY <1>9, SlabUndisturbed DEF EndCollect, ghosts, SlabInv, PollInv
<1>10. CASE BeginPass
  BY <1>10, SlabUndisturbed DEF BeginPass, ghosts, SlabInv, PollInv
<1>11. ASSUME NEW t \in Tasks, SkipDuplicate(t) PROVE PollInv' /\ CurrentInv' /\ SlabExact'
  BY <1>11, SlabUndisturbed DEF SkipDuplicate, ghosts, SlabInv, PollInv
<1>12. ASSUME NEW t \in Tasks, SkipStale(t) PROVE PollInv' /\ CurrentInv' /\ SlabExact'
  BY <1>12, SlabUndisturbed DEF SkipStale, ghosts, SlabInv, PollInv
<1>13. ASSUME NEW t \in Tasks, BeginPoll(t) PROVE PollInv' /\ CurrentInv' /\ SlabExact'
  <2>1. /\ slot[t] = "Ready" /\ slot' = [slot EXCEPT ![t] = "Polling"]
        /\ polling = NoTask /\ polling' = t /\ pc' = "pass" /\ current' = inc[t]
        /\ UNCHANGED <<free_list, inc>>
    BY <1>13 DEF BeginPoll, Entry
  <2>2. PollInv' /\ CurrentInv'
    BY <1>0, <2>1 DEF SlabInv, PollInv, CurrentInv, TypeOK
  <2>3. Empties' = Empties
    BY <1>0, <2>1 DEF Empties, TypeOK
  <2>. QED BY <2>1, <2>2, <2>3 DEF SlabInv, SlabExact, Empties
<1>14. ASSUME NEW t \in Tasks, PollPending(t) PROVE PollInv' /\ CurrentInv' /\ SlabExact'
  <2>1. /\ slot[t] = "Polling" /\ polling = t /\ polling' = NoTask
        /\ UNCHANGED free_list
        /\ \E r \in {"Ready", "Parked"} : slot' = [slot EXCEPT ![t] = r]
    BY <1>14 DEF PollPending, SlabInv, PollInv
  <2>2. PollInv' /\ CurrentInv'
    BY <1>0, <2>1 DEF SlabInv, PollInv, CurrentInv, TypeOK
  <2>3. Empties' = Empties
    BY <1>0, <2>1 DEF Empties, TypeOK
  <2>. QED BY <2>1, <2>2, <2>3 DEF SlabInv, SlabExact, Empties
<1>15. ASSUME NEW t \in Tasks, FinishStandalone(t)
       PROVE  PollInv' /\ CurrentInv' /\ SlabExact'
  BY <1>0, <1>15, RemoveKeepsSlab DEF FinishStandalone
<1>16. ASSUME NEW t \in Tasks, FinishConn(t) PROVE PollInv' /\ CurrentInv' /\ SlabExact'
  BY <1>4, <1>16 DEF FinishConn
<1>17. CASE EndTeardown
  BY <1>17, SlabUndisturbed DEF EndTeardown, ghosts
<1>18. CASE EndPass
  BY <1>18, SlabUndisturbed DEF EndPass, ghosts
<1>19. CASE UNCHANGED vars
  BY <1>19, SlabUndisturbed DEF vars, SlabInv, PollInv
<1>. QED BY <1>1, <1>2, <1>3, <1>5, <1>6, <1>7, <1>8, <1>9, <1>10, <1>11, <1>12, <1>13,
            <1>14, <1>15, <1>16, <1>17, <1>18, <1>19 DEF Next, Visit, Return

-----------------------------------------------------------------------------
(* The wake-ups. *)
WakeInv == SlabInv /\ ReadyInv /\ DedupInv /\ WantedInv /\ NoLostWake

(* wake_task(t) on a task that exists leaves it noted, and disturbs no      *)
(* other: its future is parked, or already queued, or being polled.         *)
LEMMA WakeTaskNotes ==
  ASSUME WakeInv, NEW t \in Tasks, wake_task(t), UNCHANGED <<passVars, polling, pc>>
  PROVE  /\ ReadyInv' /\ DedupInv'
         /\ \A u \in Tasks : slot[u] = "Ready" /\ Queued(u) => slot'[u] = "Ready" /\ Queued(u)'
         /\ woken => woken'
         /\ slot[t] # "Empty" => Noted(t)'
<1>. USE DEF WakeInv, SlabInv
<1>1. CASE t = polling
  <2>1. woken' = TRUE /\ UNCHANGED <<slot, ready_queue, passVars, polling, pc>>
    BY <1>1 DEF wake_task
  <2>2. \A u : Queued(u)' <=> Queued(u)
    BY <2>1 DEF Queued, Live, passVars
  <2>3. DedupInv'
    BY <2>1 DEF DedupInv, passVars
  <2>. QED BY <1>1, <2>1, <2>2, <2>3 DEF ReadyInv, Noted
<1>2. CASE t # polling /\ slot[t] = "Parked"
  <2>1. /\ slot' = [slot EXCEPT ![t] = "Ready"] /\ ready_queue' = Append(ready_queue, t)
        /\ UNCHANGED woken
    BY <1>2 DEF wake_task
  <2>2. /\ Queued(t)' /\ \A u \in Tasks : Queued(u) => Queued(u)'
        /\ \A k \in 1..initial_len : ready_queue'[k] = ready_queue[k]
    BY <2>1, PushKeepsQueued
  <2>3. \A u \in Tasks : slot'[u] = IF u = t THEN "Ready" ELSE slot[u]
    BY <2>1 DEF TypeOK
  <2>4. DedupInv'
    BY <2>2 DEF DedupInv, passVars
  <2>. QED BY <2>1, <2>2, <2>3, <2>4 DEF ReadyInv, Noted
<1>3. CASE t # polling /\ slot[t] # "Parked"
  <2>1. UNCHANGED <<slot, ready_queue, woken, passVars, polling, pc>>
    BY <1>3 DEF wake_task
  <2>2. \A u : Queued(u)' <=> Queued(u)
    BY <2>1 DEF Queued, Live, passVars
  <2>3. DedupInv'
    BY <2>1 DEF DedupInv, passVars
  <2>4. slot[t] # "Empty" => slot[t] = "Ready"
    BY <1>3 DEF TypeOK, PollInv
  <2>. QED BY <2>1, <2>2, <2>3, <2>4 DEF ReadyInv, Noted
<1>. QED BY <1>1, <1>2, <1>3

(* A future put into an empty slot is queued and noted. *)
LEMMA SpawnNotes ==
  ASSUME WakeInv, NEW t \in Tasks, slot[t] = "Empty", slot' = [slot EXCEPT ![t] = "Ready"],
         ready_queue' = Append(ready_queue, t), wanted' = wanted \union {t},
         UNCHANGED <<passVars, polling, pc, wakers, woken>>
  PROVE  ReadyInv' /\ DedupInv' /\ WantedInv' /\ NoLostWake'
<1>. USE DEF WakeInv, SlabInv
<1>1. /\ Queued(t)' /\ \A u \in Tasks : Queued(u) => Queued(u)'
      /\ \A k \in 1..initial_len : ready_queue'[k] = ready_queue[k]
  BY PushKeepsQueued
<1>2. \A u \in Tasks : slot'[u] = IF u = t THEN "Ready" ELSE slot[u]
  BY DEF TypeOK
<1>3. ReadyInv'
  BY <1>1, <1>2 DEF ReadyInv
<1>4. DedupInv'
  BY <1>1 DEF DedupInv, passVars
<1>5. WantedInv'
  BY <1>2 DEF WantedInv, TypeOK
<1>6. ASSUME NEW u \in wanted' PROVE Noted(u)'
  <2>1. CASE u = t
    BY <1>1, <1>2, <2>1 DEF Noted
  <2>2. CASE u # t
    <3>1. u \in Tasks /\ Noted(u)
      BY <2>2 DEF NoLostWake, TypeOK
    <3>. QED BY <1>1, <1>2, <2>2, <3>1 DEF Noted
  <2>. QED BY <2>1, <2>2
<1>. QED BY <1>3, <1>4, <1>5, <1>6 DEF NoLostWake

(* Dropping a future that is not being polled, or whose poll just ended,    *)
(* leaves the others noted.  Its entries stay in the queue, stale.          *)
LEMMA DropNotes ==
  ASSUME WakeInv, NEW t \in Tasks, slot' = [slot EXCEPT ![t] = "Empty"],
         wanted' = wanted \ {t}, polling' = polling \/ polling = t,
         pc' = pc \/ pc' = "teardown", UNCHANGED <<ready_queue, passVars, wakers, woken>>
  PROVE  ReadyInv' /\ DedupInv' /\ WantedInv' /\ NoLostWake'
<1>. USE DEF WakeInv, SlabInv
<1>1. \A u : Queued(u)' <=> Queued(u)
  BY DEF Queued, Live, passVars
<1>2. \A u \in Tasks : slot'[u] = IF u = t THEN "Empty" ELSE slot[u]
  BY DEF TypeOK
<1>3. ReadyInv'
  BY <1>1, <1>2 DEF ReadyInv
<1>4. DedupInv'
  BY DEF DedupInv, passVars
<1>5. WantedInv'
  BY <1>2 DEF WantedInv, TypeOK
<1>6. ASSUME NEW u \in wanted' PROVE Noted(u)'
  <2>1. u \in Tasks /\ u # t /\ Noted(u)
    BY DEF NoLostWake, TypeOK
  <2>. QED BY <1>1, <1>2, <2>1 DEF Noted
<1>. QED BY <1>3, <1>4, <1>5, <1>6 DEF NoLostWake

(* What a step that leaves the slots and the wake flags alone, and keeps    *)
(* the entries of ready tasks, keeps.                                       *)
LEMMA WakeUndisturbed ==
  ASSUME WakeInv, UNCHANGED <<slot, polling, woken, wanted, wakers>>,
         \A u \in Tasks : slot[u] = "Ready" => Queued(u)'
  PROVE  ReadyInv' /\ WantedInv' /\ NoLostWake'
<1>. USE DEF WakeInv, SlabInv
<1>1. ReadyInv' /\ WantedInv'
  BY DEF ReadyInv, WantedInv
<1>2. ASSUME NEW u \in wanted' PROVE Noted(u)'
  <2>1. u \in Tasks /\ Noted(u)
    BY DEF NoLostWake, TypeOK
  <2>. QED BY <2>1 DEF Noted
<1>. QED BY <1>1, <1>2 DEF NoLostWake

(* The pass moves past an entry: the bits stay those of the initial batch. *)
LEMMA AdvanceKeepsDedup ==
  ASSUME TypeOK, DedupInv, NEW t \in Tasks, Entry(t), Visited(t),
         UNCHANGED <<ready_queue, initial_len, pc>>
  PROVE  DedupInv'
<1>1. pc = "pass" /\ next \in Nat /\ initial_len \in Nat /\ ready_queue[next + 1] = t
  BY DEF Entry, TypeOK
<1>2. CASE InBatch
  <2>1. next + 1 \in 1..initial_len /\ dedup' = dedup \union {t}
    BY <1>1, <1>2 DEF InBatch, Visited
  <2>. QED BY <1>1, <2>1 DEF DedupInv
<1>3. CASE ~InBatch
  <2>1. dedup' = dedup
    BY <1>3 DEF Visited
  <2>. QED BY <1>1, <2>1 DEF DedupInv
<1>. QED BY <1>2, <1>3

(* The invariant of the wake-ups is inductive. *)
LEMMA WakeInductive ==
  ASSUME ~SelfCancel
  PROVE  WakeInv /\ [Next]_vars => WakeInv'
<1>. SUFFICES ASSUME WakeInv, [Next]_vars
              PROVE  ReadyInv' /\ DedupInv' /\ WantedInv' /\ NoLostWake'
  BY SlabInductive DEF WakeInv
<1>. USE TasksAreNat
<1>0. TypeOK /\ PollInv /\ SlabInv'
  BY SlabInductive DEF WakeInv, SlabInv
<1>1. ASSUME NEW t \in Tasks, Wake(t)
      PROVE  ReadyInv' /\ DedupInv' /\ WantedInv' /\ NoLostWake'
  <2>1. wake_task(t) /\ Wants(t) /\ UNCHANGED <<passVars, polling, pc, wakers>>
    BY <1>1 DEF Wake
  <2>2. /\ ReadyInv' /\ DedupInv' /\ (woken => woken')
        /\ \A u \in Tasks : slot[u] = "Ready" /\ Queued(u) => slot'[u] = "Ready" /\ Queued(u)'
        /\ slot[t] # "Empty" => Noted(t)'
    BY <2>1, WakeTaskNotes
  <2>3. \A u \in Tasks : slot'[u] = "Empty" <=> slot[u] = "Empty"
    BY <1>0, <2>1, WakeTaskSlots
  <2>4. WantedInv'
    BY <1>0, <2>1, <2>3 DEF WakeInv, WantedInv, Wants, TypeOK
  <2>5. ASSUME NEW u \in wanted' PROVE Noted(u)'
    <3>1. u \in Tasks /\ (u \in wanted \/ (u = t /\ slot[t] # "Empty"))
      BY <1>0, <2>1 DEF Wants, TypeOK
    <3>2. CASE u = t /\ slot[t] # "Empty"
      BY <2>2, <3>2
    <3>3. CASE u \in wanted
      <4>1. Noted(u)
        BY <3>3 DEF WakeInv, NoLostWake
      <4>. QED BY <2>1, <2>2, <3>1, <4>1 DEF Noted
    <3>. QED BY <3>1, <3>2, <3>3
  <2>. QED BY <2>2, <2>4, <2>5 DEF NoLostWake
<1>2. ASSUME NEW t \in Tasks, WakerWakes(t)
      PROVE  ReadyInv' /\ DedupInv' /\ WantedInv' /\ NoLostWake'
  <2>1. /\ wakers' = Append(wakers, t) /\ Wants(t)
        /\ UNCHANGED <<slot, ready_queue, passVars, polling, pc, woken>>
    BY <1>2 DEF WakerWakes
  <2>2. /\ Len(wakers') = Len(wakers) + 1 /\ wakers'[Len(wakers) + 1] = t
        /\ \A k \in 1..Len(wakers) : wakers'[k] = wakers[k]
        /\ Len(wakers) \in Nat
    BY <1>0, <2>1, AppendProperties DEF TypeOK
  <2>3. \A u : Queued(u)' <=> Queued(u)
    BY <2>1 DEF Queued, Live, passVars
  <2>4. ReadyInv' /\ DedupInv'
    BY <2>1, <2>3 DEF WakeInv, ReadyInv, DedupInv, passVars
  <2>5. WantedInv'
    BY <2>1 DEF WakeInv, WantedInv, Wants
  <2>6. \A u : (\E k \in 1..Len(wakers) : wakers[k] = u) \/ u = t
          => \E k \in 1..Len(wakers') : wakers'[k] = u
    BY <2>2
  <2>7. ASSUME NEW u \in wanted' PROVE Noted(u)'
    BY <2>1, <2>3, <2>6 DEF WakeInv, NoLostWake, Noted, Wants
  <2>. QED BY <2>4, <2>5, <2>7 DEF NoLostWake
<1>3. ASSUME NEW c \in Conns, SpawnConn(c)
      PROVE  ReadyInv' /\ DedupInv' /\ WantedInv' /\ NoLostWake'
  BY <1>3, SpawnNotes DEF SpawnConn
<1>4. ASSUME NEW c \in Conns, RemoveConn(c)
      PROVE  ReadyInv' /\ DedupInv' /\ WantedInv' /\ NoLostWake'
  BY <1>4, DropNotes DEF RemoveConn
<1>5. CASE Spawn
  <2>. DEFINE t == Top(free_list)
  <2>1. free_list \in Seq(Standalone) /\ free_list # <<>> /\ Exact(free_list, Empties)
    BY <1>0, <1>5 DEF Spawn, WakeInv, SlabInv, SlabExact, TypeOK, Empties
  <2>2. t \in Empties /\ t \in Tasks
    BY <2>1, PopExact
  <2>3. /\ slot' = [slot EXCEPT ![t] = "Ready"] /\ ready_queue' = Append(ready_queue, t)
        /\ wanted' = wanted \union {t} /\ UNCHANGED <<passVars, polling, pc, wakers, woken>>
    BY <1>5 DEF Spawn
  <2>. HIDE DEF t
  <2>4. slot[t] = "Empty"
    BY <2>2 DEF Empties
  <2>. QED BY <2>2, <2>3, <2>4, SpawnNotes
<1>6. ASSUME NEW t \in Standalone, NEW k \in 1..MaxSpawns, Cancel(t, k)
      PROVE  ReadyInv' /\ DedupInv' /\ WantedInv' /\ NoLostWake'
  BY <1>6, DropNotes DEF Cancel, remove
<1>7. CASE CollectOne
  <2>. DEFINE n == Len(wakers)
  <2>0. Head(wakers) \in Tasks /\ n \in Nat \ {0} /\ Head(wakers) = wakers[1]
    BY <1>0, <1>7 DEF CollectOne, TypeOK
  <2>1. PICK t \in Tasks : t = Head(wakers) /\ n \in Nat \ {0} /\ t = wakers[1]
    BY <2>0
  <2>2. /\ wake_task(t) /\ wakers' = Tail(wakers)
        /\ UNCHANGED <<passVars, polling, pc, wanted>>
    BY <1>7, <2>1 DEF CollectOne, ghosts
  <2>3. Len(wakers') = n - 1 /\ \A j \in 1..(n - 1) : wakers'[j] = wakers[j + 1]
    BY <1>0, <1>7, <2>2 DEF TypeOK, CollectOne
  <2>. HIDE DEF n
  <2>4. /\ ReadyInv' /\ DedupInv' /\ (woken => woken')
        /\ \A u \in Tasks : slot[u] = "Ready" /\ Queued(u) => slot'[u] = "Ready" /\ Queued(u)'
        /\ slot[t] # "Empty" => Noted(t)'
    BY <2>1, <2>2, WakeTaskNotes
  <2>5. \A u \in Tasks : slot'[u] = "Empty" <=> slot[u] = "Empty"
    BY <1>0, <2>1, <2>2, WakeTaskSlots
  <2>6. WantedInv'
    BY <1>0, <2>2, <2>5 DEF WakeInv, WantedInv, TypeOK
  <2>7. ASSUME NEW u \in wanted' PROVE Noted(u)'
    <3>1. u \in Tasks /\ slot[u] # "Empty" /\ Noted(u)
      BY <1>0, <2>2 DEF WakeInv, WantedInv, NoLostWake, TypeOK
    <3>2. CASE u = t
      BY <2>4, <3>1, <3>2
    <3>3. CASE u # t
      <4>1. (\E k \in 1..n : wakers[k] = u) => \E j \in 1..Len(wakers') : wakers'[j] = u
        <5>. SUFFICES ASSUME NEW k \in 1..n, wakers[k] = u
                      PROVE  \E j \in 1..Len(wakers') : wakers'[j] = u
          OBVIOUS
        <5>1. k - 1 \in 1..(n - 1)
          BY <2>1, <3>3
        <5>. QED BY <2>3, <5>1
      <4>. QED BY <2>2, <2>4, <3>1, <4>1 DEF Noted, n
    <3>. QED BY <3>2, <3>3
  <2>. QED BY <2>4, <2>6, <2>7 DEF NoLostWake
<1>8. CASE EndCollect
  <2>1. UNCHANGED <<slot, polling, woken, wanted, wakers, ready_queue, passVars>>
    BY <1>8 DEF EndCollect, ghosts
  <2>2. \A u : Queued(u)' <=> Queued(u)
    BY <2>1 DEF Queued, Live, passVars
  <2>3. DedupInv'
    BY <1>8, <2>1 DEF EndCollect, WakeInv, DedupInv, passVars
  <2>. QED BY <2>1, <2>2, <2>3, WakeUndisturbed DEF WakeInv, ReadyInv
<1>9. CASE BeginPass
  <2>1. /\ UNCHANGED <<slot, polling, woken, wanted, wakers, ready_queue, dedup>>
        /\ next' = next /\ dedup = {} /\ pc' = "pass"
    BY <1>9 DEF BeginPass, ghosts, WakeInv, DedupInv
  <2>2. \A u : Queued(u) => Queued(u)'
    BY <2>1 DEF Queued, Live
  <2>3. DedupInv'
    BY <2>1 DEF DedupInv
  <2>. QED BY <2>1, <2>2, <2>3, WakeUndisturbed DEF WakeInv, ReadyInv
<1>10. ASSUME NEW t \in Tasks, SkipDuplicate(t)
       PROVE  ReadyInv' /\ DedupInv' /\ WantedInv' /\ NoLostWake'
  <2>1. /\ Entry(t) /\ next < initial_len /\ t \in dedup /\ next' = next + 1
        /\ UNCHANGED <<slot, polling, woken, wanted, wakers, ready_queue, initial_len, dedup, pc>>
    BY <1>10 DEF SkipDuplicate, InBatch, ghosts
  <2>2. ASSUME NEW u \in Tasks, Queued(u) PROVE Queued(u)'
    <3>1. PICK k \in 1..Len(ready_queue) : ready_queue[k] = u /\ Live(k)
      BY <2>2 DEF Queued
    <3>2. next \in Nat /\ initial_len \in Nat /\ ready_queue[next + 1] = t /\ pc = "pass"
      BY <1>0, <2>1 DEF TypeOK, Entry
    <3>3. k # next + 1
      BY <2>1, <3>1, <3>2 DEF Live
    <3>4. Live(k)'
      BY <2>1, <3>1, <3>2, <3>3 DEF Live
    <3>. QED BY <2>1, <3>1, <3>4 DEF Queued
  <2>3. DedupInv'
    BY <2>1 DEF WakeInv, DedupInv, Entry
  <2>. QED BY <2>1, <2>2, <2>3, WakeUndisturbed DEF WakeInv, ReadyInv
<1>11. ASSUME NEW t \in Tasks, SkipStale(t)
       PROVE  ReadyInv' /\ DedupInv' /\ WantedInv' /\ NoLostWake'
  <2>1. /\ Entry(t) /\ Visited(t) /\ slot[t] # "Ready"
        /\ UNCHANGED <<slot, polling, woken, wanted, wakers, ready_queue, initial_len, pc>>
    BY <1>11 DEF SkipStale, ghosts
  <2>2. \A u \in Tasks \ {t} : Queued(u) => Queued(u)'
    BY <1>0, <2>1, AdvanceKeepsOthers DEF Visited
  <2>3. DedupInv'
    BY <1>0, <2>1, AdvanceKeepsDedup DEF WakeInv
  <2>. QED BY <2>1, <2>2, <2>3, WakeUndisturbed DEF WakeInv, ReadyInv
<1>12. ASSUME NEW t \in Tasks, BeginPoll(t)
       PROVE  ReadyInv' /\ DedupInv' /\ WantedInv' /\ NoLostWake'
  <2>1. /\ Entry(t) /\ Visited(t) /\ slot' = [slot EXCEPT ![t] = "Polling"]
        /\ polling = NoTask /\ wanted' = wanted \ {t}
        /\ UNCHANGED <<wakers, ready_queue, initial_len, pc>>
    BY <1>12 DEF BeginPoll, Entry
  <2>2. \A u \in Tasks \ {t} : Queued(u) => Queued(u)'
    BY <1>0, <2>1, AdvanceKeepsOthers DEF Visited
  <2>3. \A u \in Tasks : slot'[u] = IF u = t THEN "Polling" ELSE slot[u]
    BY <1>0, <2>1 DEF TypeOK
  <2>4. DedupInv'
    BY <1>0, <2>1, AdvanceKeepsDedup DEF WakeInv
  <2>5. ReadyInv'
    BY <2>2, <2>3 DEF WakeInv, ReadyInv
  <2>6. WantedInv'
    BY <1>0, <2>1, <2>3 DEF WakeInv, WantedInv, TypeOK
  <2>7. ASSUME NEW u \in wanted' PROVE Noted(u)'
    <3>1. u \in Tasks \ {t} /\ Noted(u)
      BY <1>0, <2>1 DEF WakeInv, NoLostWake, TypeOK
    <3>. QED BY <2>1, <2>2, <2>3, <3>1 DEF Noted
  <2>. QED BY <2>4, <2>5, <2>6, <2>7 DEF NoLostWake
<1>13. ASSUME NEW t \in Tasks, PollPending(t)
       PROVE  ReadyInv' /\ DedupInv' /\ WantedInv' /\ NoLostWake'
  <2>1. slot[t] = "Polling" /\ polling = t /\ polling' = NoTask
        /\ UNCHANGED <<wakers, pc, passVars, woken, wanted>>
    BY <1>0, <1>13 DEF PollPending, PollInv
  <2>2. CASE woken
    <3>1. slot' = [slot EXCEPT ![t] = "Ready"] /\ ready_queue' = Append(ready_queue, t)
      BY <1>13, <2>2 DEF PollPending
    <3>2. /\ Queued(t)' /\ \A u \in Tasks : Queued(u) => Queued(u)'
          /\ \A k \in 1..initial_len : ready_queue'[k] = ready_queue[k]
      BY <1>0, <2>1, <3>1, PushKeepsQueued
    <3>3. \A u \in Tasks : slot'[u] = IF u = t THEN "Ready" ELSE slot[u]
      BY <1>0, <3>1 DEF TypeOK
    <3>4. ReadyInv'
      BY <3>2, <3>3 DEF WakeInv, ReadyInv
    <3>5. DedupInv'
      BY <2>1, <3>2 DEF WakeInv, DedupInv, passVars
    <3>6. WantedInv'
      BY <1>0, <2>1, <3>3 DEF WakeInv, WantedInv, TypeOK
    <3>7. ASSUME NEW u \in wanted' PROVE Noted(u)'
      <4>1. u \in Tasks /\ Noted(u)
        BY <1>0, <2>1 DEF WakeInv, NoLostWake, TypeOK
      <4>. QED BY <2>1, <3>2, <3>3, <4>1 DEF Noted
    <3>. QED BY <3>4, <3>5, <3>6, <3>7 DEF NoLostWake
  <2>3. CASE ~woken
    <3>1. slot' = [slot EXCEPT ![t] = "Parked"] /\ UNCHANGED ready_queue
      BY <1>13, <2>3 DEF PollPending
    <3>2. \A u : Queued(u)' <=> Queued(u)
      BY <2>1, <3>1 DEF Queued, Live, passVars
    <3>3. \A u \in Tasks : slot'[u] = IF u = t THEN "Parked" ELSE slot[u]
      BY <1>0, <3>1 DEF TypeOK
    <3>4. ReadyInv'
      BY <3>2, <3>3 DEF WakeInv, ReadyInv
    <3>5. DedupInv'
      BY <2>1, <3>1 DEF WakeInv, DedupInv, passVars
    <3>6. WantedInv'
      BY <1>0, <2>1, <3>3 DEF WakeInv, WantedInv, TypeOK
    <3>7. ASSUME NEW u \in wanted' PROVE Noted(u)'
      <4>1. u \in Tasks /\ Noted(u)
        BY <1>0, <2>1 DEF WakeInv, NoLostWake, TypeOK
      <4>. QED BY <2>1, <2>3, <3>2, <3>3, <4>1 DEF Noted
    <3>. QED BY <3>4, <3>5, <3>6, <3>7 DEF NoLostWake
  <2>. QED BY <2>2, <2>3
<1>14. ASSUME NEW t \in Tasks, FinishStandalone(t)
       PROVE  ReadyInv' /\ DedupInv' /\ WantedInv' /\ NoLostWake'
  BY <1>14, DropNotes DEF FinishStandalone, remove
<1>15. ASSUME NEW t \in Tasks, FinishConn(t)
       PROVE  ReadyInv' /\ DedupInv' /\ WantedInv' /\ NoLostWake'
  BY <1>15, DropNotes DEF FinishConn
<1>16. CASE EndTeardown
  <2>1. /\ UNCHANGED <<slot, polling, woken, wanted, wakers, ready_queue, passVars>>
        /\ pc' = "pass"
    BY <1>16 DEF EndTeardown, ghosts
  <2>2. \A u : Queued(u)' <=> Queued(u)
    BY <2>1 DEF Queued, Live, passVars
  <2>3. DedupInv'
    BY <2>1 DEF WakeInv, DedupInv, passVars
  <2>. QED BY <2>1, <2>2, <2>3, WakeUndisturbed DEF WakeInv, ReadyInv
<1>17. CASE EndPass
  <2>1. /\ UNCHANGED <<slot, polling, woken, wanted, wakers>>
        /\ next = Len(ready_queue) /\ next' = 0 /\ initial_len' = 0
        /\ dedup' = {t \in dedup : \A k \in 1..initial_len : ready_queue[k] # t}
    BY <1>17 DEF EndPass, ghosts
  <2>2. \A u \in Tasks : ~Queued(u)
    BY <1>0, <2>1 DEF Queued, Live, TypeOK
  <2>3. dedup' = {}
    BY <2>1 DEF WakeInv, DedupInv
  <2>4. DedupInv'
    BY <2>1, <2>3 DEF DedupInv
  <2>. QED BY <2>1, <2>2, <2>4, WakeUndisturbed DEF WakeInv, ReadyInv
<1>18. CASE UNCHANGED vars
  <2>1. /\ UNCHANGED <<slot, polling, woken, wanted, wakers, ready_queue, passVars, pc>>
    BY <1>18 DEF vars, passVars
  <2>2. \A u : Queued(u)' <=> Queued(u)
    BY <2>1 DEF Queued, Live, passVars
  <2>3. DedupInv'
    BY <2>1 DEF WakeInv, DedupInv, passVars
  <2>. QED BY <2>1, <2>2, <2>3, WakeUndisturbed DEF WakeInv, ReadyInv
<1>. QED BY <1>1, <1>2, <1>3, <1>4, <1>5, <1>6, <1>7, <1>8, <1>9, <1>10, <1>11, <1>12,
            <1>13, <1>14, <1>15, <1>16, <1>17, <1>18 DEF Next, Visit, Return

-----------------------------------------------------------------------------
(* Init fills the free list with every standalone slot, once. *)
LEMMA InitSlab == Init => SlabInv
<1>. SUFFICES ASSUME Init PROVE SlabInv
  OBVIOUS
<1>. USE TasksAreNat
<1>1. Len(free_list) = Capacity /\ free_list \in Seq(Standalone)
  BY ExecutorAssumption DEF Init, Standalone
<1>2. \A i \in 1..Capacity : free_list[i] = StandaloneBit + i - 1
  BY DEF Init
<1>3. TypeOK
  <2>1. ready_queue \in Seq(Tasks) /\ wakers \in Seq(Tasks) /\ Len(ready_queue) = 0
    BY EmptySeq DEF Init
  <2>2. /\ slot \in [Tasks -> {"Empty", "Polling", "Parked", "Ready"}]
        /\ inc \in [Tasks -> Nat]
    BY DEF Init
  <2>3. /\ next \in 0..Len(ready_queue) /\ initial_len \in 0..Len(ready_queue)
        /\ spent \in Nat /\ current \in Nat
    BY <2>1 DEF Init
  <2>4. /\ pc \in {"events", "pass", "teardown", "collect"}
        /\ dedup \subseteq Tasks /\ polling \in Tasks \union {NoTask} /\ wanted \subseteq Tasks
        /\ woken \in BOOLEAN /\ lost \in BOOLEAN
    BY DEF Init
  <2>. QED BY <1>1, <2>1, <2>2, <2>3, <2>4 DEF TypeOK
<1>4. Empties = Standalone
  BY DEF Init, Empties
<1>5. \A i, j \in 1..Capacity : free_list[i] = free_list[j] => i = j
  BY <1>2, ExecutorAssumption
<1>6. \A t \in Standalone : t - StandaloneBit + 1 \in 1..Capacity
                          /\ free_list[t - StandaloneBit + 1] = t
  BY <1>2, ExecutorAssumption DEF Standalone
<1>7. Standalone = {free_list[i] : i \in 1..Capacity}
  <2>1. \A i \in 1..Capacity : free_list[i] \in Standalone
    BY <1>2, ExecutorAssumption DEF Standalone
  <2>. QED BY <1>6, <2>1
<1>8. SlabExact
  BY <1>1, <1>4, <1>5, <1>7 DEF SlabExact, Exact, Empties
<1>9. PollInv /\ CurrentInv
  BY DEF Init, PollInv, CurrentInv
<1>. QED BY <1>3, <1>8, <1>9 DEF SlabInv

(* Nothing is wanted or ready at first. *)
LEMMA InitWake == Init => WakeInv
<1>. SUFFICES ASSUME Init PROVE WakeInv
  OBVIOUS
<1>1. ReadyInv /\ WantedInv /\ NoLostWake /\ DedupInv
  BY DEF Init, ReadyInv, WantedInv, NoLostWake, DedupInv
<1>. QED BY <1>1, InitSlab DEF WakeInv

(* The executor's state is well typed; in particular the pass never indexes *)
(* past the ready queue, whatever the polls append to it.                   *)
THEOREM ExecutorTypeCorrect == Spec => []TypeOK
<1>1. Init => TypeOK
  BY InitSlab DEF SlabInv
<1>. QED BY <1>1, TypeInductive, PTL DEF Spec

(* When no task cancels itself, the standalone slab's free list is exact in *)
(* every state: poll_ready_tasks, spawn and TaskId::cancel never free a     *)
(* slot twice and never hand out one that is in use.                        *)
THEOREM SlabSafe ==
  ASSUME ~SelfCancel
  PROVE  Spec => []SlabExact
<1>1. SlabInv /\ [Next]_vars => SlabInv'
  BY SlabInductive
<1>2. SlabInv => SlabExact
  BY DEF SlabInv
<1>. QED BY <1>1, <1>2, InitSlab, PTL DEF Spec

(* Under the same assumption no wake-up is lost, for any interleaving of    *)
(* events, Waker calls, spawns, cancellations and polls.                    *)
THEOREM WakesSafe ==
  ASSUME ~SelfCancel
  PROVE  Spec => []NoLostWake
<1>1. WakeInv /\ [Next]_vars => WakeInv'
  BY WakeInductive
<1>2. WakeInv => NoLostWake
  BY DEF WakeInv
<1>. QED BY <1>1, <1>2, InitWake, PTL DEF Spec

(* If moreover no id of a finished task is cancelled, a future leaves its   *)
(* slot only when it is done with.                                          *)
THEOREM FuturesSafe ==
  ASSUME ~SelfCancel, ~StaleCancel
  PROVE  Spec => []NoFutureLost
<1>. DEFINE Inv == SlabInv /\ NoFutureLost
<1>0. Init => NoFutureLost
  BY Zenon DEF Init, NoFutureLost
<1>1. Init => Inv
  BY <1>0, InitSlab
<1>2. Inv /\ [Next]_vars => Inv'
  <2>. SUFFICES ASSUME SlabInv, ~lost, [Next]_vars PROVE ~lost'
    BY SlabInductive DEF NoFutureLost
  <2>1. CASE Spawn
    <3>1. free_list \in Seq(Standalone) /\ free_list # <<>> /\ Exact(free_list, Empties)
      BY <2>1 DEF Spawn, SlabInv, SlabExact, TypeOK, Empties
    <3>2. Top(free_list) \in Empties
      BY <3>1, PopExact
    <3>. QED BY <2>1, <3>2 DEF Spawn, Empties
  <2>2. ASSUME NEW t \in Standalone, NEW k \in 1..MaxSpawns, Cancel(t, k) PROVE ~lost'
    BY <2>2 DEF Cancel
  <2>3. ASSUME NEW t \in Tasks, PollPending(t) \/ FinishStandalone(t) PROVE ~lost'
    BY <2>3, TasksAreNat DEF PollPending, FinishStandalone, SlabInv, CurrentInv
  <2>4. CASE UNCHANGED lost
    BY <2>4
  <2>. QED
    BY <2>1, <2>2, <2>3, <2>4
    DEF Next, Visit, Return, Wake, WakerWakes, SpawnConn, RemoveConn, CollectOne, EndCollect,
        BeginPass, SkipDuplicate, SkipStale, BeginPoll, FinishConn, EndTeardown, EndPass,
        ghosts, vars
<1>3. Inv => NoFutureLost
  OBVIOUS
<1>. QED BY <1>1, <1>2, <1>3, PTL DEF Spec
=============================================================================
