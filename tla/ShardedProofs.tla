---------------------------- MODULE ShardedProofs ----------------------------
(***************************************************************************)
(* Proofs about Sharded, for any rings, hashes and number of shards, any   *)
(* pool width and any number of commands and lost connections.             *)
(*                                                                         *)
(* The inductive invariant follows the command in progress: the slots it   *)
(* has tried are the ones from the cursor up to the current attempt, and   *)
(* every attempt the server has run, but the current one, was lost.        *)
(***************************************************************************)
EXTENDS Sharded, FiniteSetTheorems, WellFoundedInduction, TLAPS

PoolSlots == 0 .. Width - 1
ShardRecs == [conns : [PoolSlots -> SlotStates], next : PoolSlots]
Pools == [1 .. Shards -> ShardRecs]
Points == [point : Nat, shard : 1 .. Shards]

TaskRecs ==
  [op : {"none", "route", "admin"}, shard : 0 .. Shards, attempt : PoolSlots,
   at : {"idle", "slot", "send", "read"}, lost : Nat, ran : SUBSET PoolSlots,
   tried : SUBSET PoolSlots]

(* The slots of the first k attempts of a scan from the cursor. *)
Scanned(next, k) == {(next + j) % Width : j \in 0 .. k - 1}

(* The command t in progress, over the pools sh. *)
TaskOK(t, sh) ==
  /\ t \in TaskRecs
  /\ t.ran \subseteq 0 .. t.attempt
  /\ Cardinality(t.ran \ {t.attempt}) <= t.lost
  /\ t.at \in {"slot", "send"} => t.attempt \notin t.ran
  /\ t.at # "idle" => t.shard \in 1 .. Shards /\ t.tried = Scanned(sh[t.shard].next, t.attempt)

ShardIInv ==
  /\ ring \in Rings /\ shards \in Pools /\ TaskOK(task, shards)
  /\ AtLeastOncePerLoss /\ FailsOnlyAfterEverySlot

-----------------------------------------------------------------------------
(* The ring. *)

(* Some point of a set of them comes first. *)
LEMMA FirstIs ==
  ASSUME NEW S \in SUBSET Points, S # {}
  PROVE  First(S) \in S /\ \A q \in S : First(S).point <= q.point
<1> DEFINE R == OpToRel(<, Nat)
           N == {p.point : p \in S}
<1>1. N \in SUBSET Nat /\ N # {}
  BY DEF Points
<1>2. PICK x \in N : \A y \in N : ~(<<y, x>> \in R)
  <2>1. IsWellFoundedOn(R, Nat)
    BY NatLessThanWellFounded
  <2> HIDE DEF R, N
  <2> QED BY <1>1, <2>1, WFMin
<1>3. \A y \in N : x <= y
  <2>1. R = {ss \in Nat \X Nat : ss[1] < ss[2]}
    BY Zenon DEF OpToRel
  <2>2. \A y \in N : y < x => <<y, x>> \in {ss \in Nat \X Nat : ss[1] < ss[2]}
    BY <1>1
  <2>3. \A y \in N : ~(y < x)
    <3> HIDE DEF R, N
    <3> QED BY <1>2, <2>1, <2>2, Zenon
  <2> HIDE DEF N
  <2> QED BY <1>1, <2>3
<1>4. PICK p \in S : p.point = x
  OBVIOUS
<1>5. \A q \in S : p.point <= q.point
  BY <1>3, <1>4
<1> QED BY <1>4, <1>5, Zenon DEF First

(* A key is routed to the shard of one of the ring's points. *)
LEMMA RouteType ==
  ASSUME NEW points \in SUBSET Points, points # {}, NEW hash \in Nat
  PROVE  Route(points, hash) \in 1 .. Shards
<1> DEFINE past == {p \in points : p.point >= hash}
           S == IF past = {} THEN points ELSE past
<1>1. S \in SUBSET Points /\ S # {}
  OBVIOUS
<1>2. First(S) \in Points
  <2> HIDE DEF S
  <2> QED BY <1>1, FirstIs
<1>3. Route(points, hash) = First(S).shard
  BY Zenon DEF Route
<1> HIDE DEF S
<1> QED BY <1>2, <1>3 DEF Points

(* If the first of a set of points is still there among some of them, it is  *)
(* still the first.                                                          *)
LEMMA FirstStays ==
  ASSUME NEW S \in SUBSET Points, S # {}, NEW T \in SUBSET S, First(S) \in T,
         \A p \in S, q \in S : p.point = q.point => p = q
  PROVE  First(T) = First(S)
<1>1. First(S) \in S /\ \A q \in S : First(S).point <= q.point
  BY FirstIs
<1>2. First(T) \in T /\ \A q \in T : First(T).point <= q.point
  BY FirstIs
<1>3. First(S).point \in Nat /\ First(T).point \in Nat
  BY <1>1, <1>2 DEF Points
<1>4. First(S).point <= First(T).point /\ First(T).point <= First(S).point
  BY <1>1, <1>2
<1>5. First(S).point = First(T).point
  BY <1>3, <1>4
<1> QED BY <1>1, <1>2, <1>5

(* Consistent hashing, of any ring whose points have hashes of their own. *)
LEMMA RouteStays ==
  ASSUME NEW points \in SUBSET Points, points # {}, NEW hash \in Nat,
         \A p \in points, q \in points : p.point = q.point => p = q,
         NEW gone, Route(points, hash) # gone
  PROVE  Route(Build(points, (1 .. Shards) \ {gone}), hash) = Route(points, hash)
<1> DEFINE rest == Build(points, (1 .. Shards) \ {gone})
           past == {p \in points : p.point >= hash}
           left == {p \in rest : p.point >= hash}
           S == IF past = {} THEN points ELSE past
           T == IF left = {} THEN rest ELSE left
<1>1. rest = {p \in points : p.shard # gone}
  BY DEF Build, Points
<1>2. left = {p \in past : p.shard # gone}
  BY <1>1
<1>3. S \in SUBSET points /\ S \in SUBSET Points /\ S # {}
  OBVIOUS
<1>4. Route(points, hash) = First(S).shard /\ Route(rest, hash) = First(T).shard
  BY Zenon DEF Route
<1>5. First(S) \in S
  <2> HIDE DEF S
  <2> QED BY <1>3, FirstIs
<1>6. T = {p \in S : p.shard # gone}
  <2>1. CASE past = {}
    BY <1>1, <1>2, <2>1
  <2>2. CASE past # {}
    <3>1. First(S) \in left
      <4>1. S = past
        BY <2>2
      <4> HIDE DEF S, past, left, T
      <4> QED BY <1>2, <1>4, <1>5, <4>1
    <3> QED BY <1>2, <2>2, <3>1
  <2> QED BY <2>1, <2>2
<1> HIDE DEF S, T, past, left, rest
<1>7. First(S) \in T /\ T \in SUBSET S
  BY <1>4, <1>5, <1>6
<1>8. First(T) = First(S)
  BY <1>3, <1>7, FirstStays
<1> QED BY <1>4, <1>8 DEF rest

-----------------------------------------------------------------------------
(* The scan of a shard's slots. *)

LEMMA ModWidth ==
  ASSUME NEW n \in Nat, n < 2 * Width
  PROVE  n % Width = IF n < Width THEN n ELSE n - Width
BY ShardAssumption

LEMMA SlotType ==
  ASSUME NEW n \in Nat
  PROVE  n % Width \in PoolSlots
BY ShardAssumption DEF PoolSlots

LEMMA ScanStep ==
  ASSUME NEW n \in PoolSlots, NEW k \in Nat
  PROVE  Scanned(n, k + 1) = Scanned(n, k) \union {(n + k) % Width}
<1>1. 0 .. (k + 1) - 1 = (0 .. k - 1) \union {k}
  OBVIOUS
<1> QED BY <1>1 DEF Scanned

(* Width attempts from any cursor look at every slot. *)
LEMMA ScanAll ==
  ASSUME NEW n \in PoolSlots
  PROVE  Scanned(n, Width) = PoolSlots
<1>1. Scanned(n, Width) \subseteq PoolSlots
  <2>1. \A j \in 0 .. Width - 1 : n + j \in Nat
    BY DEF PoolSlots
  <2> QED BY <2>1, SlotType DEF Scanned
<1>2. ASSUME NEW i \in PoolSlots
      PROVE  i \in Scanned(n, Width)
  <2> DEFINE j == IF i < n THEN i + Width - n ELSE i - n
  <2>1. j \in 0 .. Width - 1 /\ n + j \in Nat /\ n + j < 2 * Width
    BY ShardAssumption DEF PoolSlots
  <2>2. (n + j) % Width = i
    BY <2>1, ModWidth, ShardAssumption DEF PoolSlots
  <2> HIDE DEF j
  <2> QED BY <2>1, <2>2 DEF Scanned
<1> QED BY <1>1, <1>2

(* What the server has run of a command, counted. *)
LEMMA RanBound ==
  ASSUME NEW t, NEW sh, TaskOK(t, sh)
  PROVE  /\ IsFiniteSet(t.ran) /\ Cardinality(t.ran) \in Nat /\ t.lost \in Nat
         /\ Cardinality(t.ran) <= t.lost + 1
         /\ t.attempt \notin t.ran => Cardinality(t.ran) <= t.lost
<1>1. t.ran \subseteq 0 .. t.attempt /\ t.attempt \in Nat /\ t.lost \in Nat
  BY ShardAssumption DEF TaskOK, TaskRecs, PoolSlots
<1>2. IsFiniteSet(t.ran)
  <2>1. t.ran \in SUBSET Nat /\ \A k \in t.ran : k <= t.attempt
    BY <1>1
  <2> QED BY <1>1, <2>1, FS_BoundedSetOfNaturals
<1>3. Cardinality(t.ran) \in Nat
  BY <1>2, FS_CardinalityType
<1>4. Cardinality(t.ran \ {t.attempt}) <= t.lost
  BY DEF TaskOK
<1>5. Cardinality(t.ran \ {t.attempt})
        = IF t.attempt \in t.ran THEN Cardinality(t.ran) - 1 ELSE Cardinality(t.ran)
  BY <1>2, FS_RemoveElement
<1> QED BY <1>1, <1>2, <1>3, <1>4, <1>5

LEMMA NothingRan == Cardinality({} \ {0}) = 0
<1>1. {} \ {0} = {}
  OBVIOUS
<1> QED BY <1>1, FS_EmptySet

LEMMA NoTaskType ==
  /\ NoTask \in TaskRecs /\ NoTask.ran = {} /\ NoTask.lost = 0 /\ NoTask.attempt = 0
  /\ NoTask.at = "idle" /\ NoTask.tried = {}
BY ShardAssumption DEF NoTask, TaskRecs, PoolSlots

LEMMA NoTaskOK ==
  ASSUME NEW sh
  PROVE  TaskOK(NoTask, sh)
BY NoTaskType, NothingRan DEF TaskOK

(* Only the cursor of its shard matters to a command in progress. *)
LEMMA TaskStays ==
  ASSUME NEW t, NEW sh, NEW sh2, TaskOK(t, sh),
         t.at = "idle" \/ sh2[t.shard].next = sh[t.shard].next
  PROVE  TaskOK(t, sh2)
BY DEF TaskOK

(* Where the command in progress is. *)
LEMMA AtSlot ==
  ASSUME ShardIInv, task.at # "idle"
  PROVE  /\ task \in TaskRecs /\ task.shard \in 1 .. Shards /\ task.attempt \in PoolSlots
         /\ TaskShard \in ShardRecs /\ TaskShard.next \in PoolSlots
         /\ Slot \in PoolSlots /\ task.tried = Scanned(TaskShard.next, task.attempt)
         /\ task.attempt \in Nat /\ TaskShard.next \in Nat
<1>1. task \in TaskRecs /\ task.shard \in 1 .. Shards /\ task.attempt \in PoolSlots
      /\ task.tried = Scanned(TaskShard.next, task.attempt)
  BY DEF ShardIInv, TaskOK, TaskRecs, TaskShard
<1>2. TaskShard \in ShardRecs /\ TaskShard.next \in PoolSlots
  BY <1>1 DEF ShardIInv, Pools, TaskShard, ShardRecs
<1>3. task.attempt \in Nat /\ TaskShard.next \in Nat
  BY <1>1, <1>2 DEF PoolSlots
<1>4. Slot \in PoolSlots
  BY <1>3, SlotType DEF Slot
<1> QED BY <1>1, <1>2, <1>3, <1>4

LEMMA DoneStays ==
  ASSUME AtLeastOncePerLoss, FailsOnlyAfterEverySlot, UNCHANGED done
  PROVE  AtLeastOncePerLoss' /\ FailsOnlyAfterEverySlot'
BY DEF AtLeastOncePerLoss, FailsOnlyAfterEverySlot

-----------------------------------------------------------------------------
(* The changes a step makes. *)

LEMMA WithSlotType ==
  ASSUME ShardIInv, task.at # "idle", NEW v \in SlotStates
  PROVE  WithSlot(v) \in Pools /\ WithSlot(v)[task.shard].next = TaskShard.next
<1>1. /\ task.shard \in 1 .. Shards /\ Slot \in PoolSlots /\ TaskShard \in ShardRecs
      /\ shards \in Pools
  BY AtSlot DEF ShardIInv
<1> DEFINE i == Slot
           q == [TaskShard EXCEPT !.conns[i] = v]
<1> HIDE DEF i
<1>2. q \in ShardRecs /\ q.next = TaskShard.next
  BY <1>1 DEF ShardRecs, i
<1>3. WithSlot(v) = [shards EXCEPT ![task.shard] = q]
  BY <1>1 DEF WithSlot, TaskShard, Pools, i
<1> HIDE DEF q
<1> QED BY <1>1, <1>2, <1>3 DEF Pools

(* A command is over, with result res and the pools sh. *)
LEMMA FinishKeeps ==
  ASSUME ShardIInv, task.at # "idle", NEW res, NEW sh \in Pools, Finish(res, sh), UNCHANGED ring,
         res \in {"ok", "server_error", "unexpected"} => task.ran # {},
         res = "all_failed" => task.attempt + 1 = Width
  PROVE  ShardIInv'
<1>1. /\ task.shard \in 1 .. Shards /\ Slot \in PoolSlots /\ TaskShard.next \in PoolSlots
      /\ task.attempt \in Nat /\ task.tried = Scanned(TaskShard.next, task.attempt)
  BY AtSlot
<1>2. done'.result = res /\ done'.ran = task.ran /\ done'.lost = task.lost
      /\ done'.tried = task.tried \union {Slot}
  BY DEF Finish
<1>3. AtLeastOncePerLoss'
  BY <1>2, RanBound DEF AtLeastOncePerLoss, ShardIInv
<1>4. FailsOnlyAfterEverySlot'
  <2>1. task.tried \union {Slot} = Scanned(TaskShard.next, task.attempt + 1)
    BY <1>1, ScanStep DEF Slot
  <2> QED BY <1>1, <1>2, <2>1, ScanAll DEF FailsOnlyAfterEverySlot, PoolSlots
<1>5. shards' \in Pools
  <2>1. Slot + 1 \in Nat
    BY <1>1 DEF PoolSlots
  <2>2. (Slot + 1) % Width \in PoolSlots
    BY <2>1, SlotType
  <2> DEFINE n == (Slot + 1) % Width
             q == [sh[task.shard] EXCEPT !.next = n]
  <2>3. q \in ShardRecs
    <3> HIDE DEF n
    <3> QED BY <1>1, <2>2 DEF Pools, ShardRecs, n
  <2>4. shards' = sh \/ shards' = [sh EXCEPT ![task.shard] = q]
    BY <1>1 DEF Finish, Cursor, Pools
  <2> HIDE DEF q
  <2> QED BY <1>1, <2>3, <2>4 DEF Pools
<1>6. TaskOK(task', shards')
  BY NoTaskOK DEF Finish
<1> QED BY <1>3, <1>4, <1>5, <1>6 DEF ShardIInv

(* The next slot is tried, or the command has failed. *)
LEMMA NextAttemptKeeps ==
  ASSUME ShardIInv, task.at # "idle", NEW sh \in Pools, sh[task.shard].next = TaskShard.next,
         NEW l \in {0, 1}, l = 0 => task.attempt \notin task.ran, NextAttempt(sh, l), UNCHANGED ring
  PROVE  ShardIInv'
<1>1. CASE task.attempt + 1 = Width
  BY <1>1, FinishKeeps DEF NextAttempt
<1>2. CASE task.attempt + 1 # Width
  <2>1. /\ task \in TaskRecs /\ task.shard \in 1 .. Shards /\ Slot \in PoolSlots
        /\ task.attempt \in PoolSlots /\ task.attempt \in Nat /\ TaskShard.next \in PoolSlots
        /\ task.tried = Scanned(TaskShard.next, task.attempt) /\ task.ran \subseteq 0 .. task.attempt
    BY AtSlot DEF ShardIInv, TaskOK
  <2>2. task.attempt + 1 \in PoolSlots /\ task.attempt + 1 \notin task.ran
    BY <1>2, <2>1, ShardAssumption DEF PoolSlots
  <2> DEFINE q == [task EXCEPT !.attempt = task.attempt + 1, !.at = "slot", !.lost = task.lost + l,
                               !.tried = task.tried \union {Slot}]
             i == Slot
  <2>3. shards' = sh /\ task' = q /\ UNCHANGED done
    BY <1>2 DEF NextAttempt
  <2>4. /\ q \in TaskRecs /\ q.attempt = task.attempt + 1 /\ q.at = "slot" /\ q.lost = task.lost + l
        /\ q.tried = task.tried \union {i} /\ q.ran = task.ran /\ q.shard = task.shard
    <3>1. i \in PoolSlots /\ task.lost + l \in Nat
      BY <2>1 DEF TaskRecs
    <3> HIDE DEF i
    <3> QED BY <2>1, <2>2, <3>1 DEF TaskRecs, i
  <2> HIDE DEF q, i
  <2>5. q.tried = Scanned(sh[q.shard].next, q.attempt)
    BY <2>1, <2>4, ScanStep DEF i, Slot
  <2>6. Cardinality(q.ran \ {q.attempt}) <= q.lost
    <3>1. q.ran \ {q.attempt} = task.ran
      BY <2>2, <2>4
    <3>2. TaskOK(task, shards)
      BY DEF ShardIInv
    <3> QED BY <2>4, <3>1, <3>2, RanBound
  <2>7. q.ran \subseteq 0 .. q.attempt /\ q.attempt \notin q.ran
    BY <2>1, <2>2, <2>4
  <2>8. TaskOK(q, sh)
    BY <2>1, <2>4, <2>5, <2>6, <2>7 DEF TaskOK
  <2> QED BY <2>3, <2>8, DoneStays DEF ShardIInv
<1> QED BY <1>1, <1>2

(* The command goes on to step a with the pools sh. *)
LEMMA GoesOn ==
  ASSUME ShardIInv, task.at # "idle", NEW sh \in Pools, sh[task.shard].next = TaskShard.next,
         NEW a \in {"send", "read"}, a = "send" => task.at = "slot",
         task' = [task EXCEPT !.at = a], shards' = sh, UNCHANGED <<ring, done>>
  PROVE  ShardIInv'
<1> DEFINE q == [task EXCEPT !.at = a]
<1>1. TaskOK(task, shards) /\ task \in TaskRecs
  BY DEF ShardIInv, TaskOK
<1>2. /\ q \in TaskRecs /\ q.attempt = task.attempt /\ q.at = a /\ q.lost = task.lost
      /\ q.tried = task.tried /\ q.ran = task.ran /\ q.shard = task.shard
  BY <1>1 DEF TaskRecs
<1> HIDE DEF q
<1>3. TaskOK(q, sh)
  BY <1>1, <1>2 DEF TaskOK, TaskShard
<1> QED BY <1>3, DoneStays DEF ShardIInv, q

-----------------------------------------------------------------------------
(* The operations. *)

LEMMA BeginsKeeps ==
  ASSUME ShardIInv, NEW s \in 1 .. Shards, NEW op \in {"route", "admin"},
         task' = [NoTask EXCEPT !.op = op, !.shard = s, !.at = "slot"],
         UNCHANGED <<ring, shards, done>>
  PROVE  ShardIInv'
<1> DEFINE q == [NoTask EXCEPT !.op = op, !.shard = s, !.at = "slot"]
<1>1. /\ q \in TaskRecs /\ q.attempt = 0 /\ q.at = "slot" /\ q.lost = 0 /\ q.tried = {}
      /\ q.ran = {} /\ q.shard = s
  <2>1. s \in 0 .. Shards /\ op \in {"none", "route", "admin"}
    BY ShardAssumption
  <2> QED BY <2>1, NoTaskType DEF TaskRecs
<1>2. Scanned(shards[s].next, 0) = {}
  <2>1. 0 .. 0 - 1 = {}
    OBVIOUS
  <2> QED BY <2>1 DEF Scanned
<1>3. TaskOK(q, shards)
  <2> HIDE DEF q
  <2> QED BY <1>1, <1>2, NothingRan DEF TaskOK
<1> QED BY <1>3, DoneStays DEF ShardIInv

LEMMA RouteCommandKeeps ==
  ASSUME ShardIInv, RouteCommand
  PROVE  ShardIInv'
<1>1. PICK hash \in Hashes :
        task' = [NoTask EXCEPT !.op = "route", !.shard = Route(ring, hash), !.at = "slot"]
  BY DEF RouteCommand
<1>2. Route(ring, hash) \in 1 .. Shards
  BY RouteType, ShardAssumption DEF ShardIInv, Points
<1> QED BY <1>1, <1>2, BeginsKeeps DEF RouteCommand

LEMMA AdminCommandKeeps ==
  ASSUME ShardIInv, NEW s \in 1 .. Shards, AdminCommand(s)
  PROVE  ShardIInv'
BY BeginsKeeps DEF AdminCommand

LEMMA DoConnectKeeps ==
  ASSUME ShardIInv, DoConnect
  PROVE  ShardIInv'
<1>1. task.at = "slot" /\ task.at # "idle" /\ ring' = ring
  BY DEF DoConnect
<1>2. CASE shards' = WithSlot("live") /\ task' = [task EXCEPT !.at = "send"] /\ UNCHANGED done
  <2>1. "live" \in SlotStates
    BY DEF SlotStates
  <2>2. WithSlot("live") \in Pools /\ WithSlot("live")[task.shard].next = TaskShard.next
    BY <1>1, <2>1, WithSlotType
  <2> QED BY <1>1, <1>2, <2>2, GoesOn
<1>3. CASE NextAttempt(shards, 0)
  <2>1. shards \in Pools /\ shards[task.shard].next = TaskShard.next /\ task.attempt \notin task.ran
    BY <1>1 DEF ShardIInv, TaskShard, TaskOK
  <2> QED BY <1>1, <1>3, <2>1, NextAttemptKeeps
<1> QED BY <1>2, <1>3 DEF DoConnect

LEMMA SlotConnectedKeeps ==
  ASSUME ShardIInv, SlotConnected
  PROVE  ShardIInv'
BY GoesOn DEF SlotConnected, ShardIInv, TaskShard

LEMMA SendKeeps ==
  ASSUME ShardIInv, Send
  PROVE  ShardIInv'
BY GoesOn DEF Send, ShardIInv, TaskShard

LEMMA SendFailsKeeps ==
  ASSUME ShardIInv, SendFails
  PROVE  ShardIInv'
<1>1. task.at = "send" /\ task.at # "idle" /\ ring' = ring /\ shards \in Pools
      /\ task.attempt \notin task.ran
  BY DEF SendFails, ShardIInv, TaskOK
<1>2. CASE NextAttempt(WithSlot("none"), 0)
  <2>1. "none" \in SlotStates
    BY DEF SlotStates
  <2>2. WithSlot("none") \in Pools /\ WithSlot("none")[task.shard].next = TaskShard.next
    BY <1>1, <2>1, WithSlotType
  <2> QED BY <1>1, <1>2, <2>2, NextAttemptKeeps
<1>3. CASE Finish("io", shards)
  BY <1>1, <1>3, FinishKeeps
<1> QED BY <1>2, <1>3 DEF SendFails

LEMMA ServerRunsKeeps ==
  ASSUME ShardIInv, ServerRuns
  PROVE  ShardIInv'
<1>1. TaskOK(task, shards) /\ task \in TaskRecs /\ task.at = "read"
  BY DEF ShardIInv, TaskOK, ServerRuns
<1> DEFINE q == [task EXCEPT !.ran = task.ran \union {task.attempt}]
<1>2. task.attempt \in PoolSlots /\ task.attempt \in 0 .. task.attempt
  BY <1>1 DEF TaskRecs, PoolSlots
<1>3. /\ q \in TaskRecs /\ q.attempt = task.attempt /\ q.at = "read" /\ q.lost = task.lost
      /\ q.tried = task.tried /\ q.shard = task.shard
      /\ q.ran = task.ran \union {task.attempt}
  BY <1>1, <1>2 DEF TaskRecs
<1> HIDE DEF q
<1>4. q.ran \ {q.attempt} = task.ran \ {task.attempt}
  BY <1>3
<1>5. TaskOK(q, shards)
  BY <1>1, <1>2, <1>3, <1>4 DEF TaskOK
<1> QED BY <1>5, DoneStays DEF ShardIInv, ServerRuns, q

LEMMA ResponseKeeps ==
  ASSUME ShardIInv, Response
  PROVE  ShardIInv'
<1>1. task.at # "idle" /\ task.attempt \in task.ran /\ ring' = ring
  BY DEF Response
<1>2. PICK c \in Routed(proto), reply \in Replies(proto) :
        Finish(Outcome(c, reply), [shards EXCEPT ![task.shard].next = (Slot + 1) % Width])
  BY DEF Response
<1>3. Outcome(c, reply) # "all_failed"
  BY DEF Outcome
<1> DEFINE n == (Slot + 1) % Width
           q == [TaskShard EXCEPT !.next = n]
           sh == [shards EXCEPT ![task.shard].next = n]
<1>4. sh \in Pools
  <2>1. task.shard \in 1 .. Shards /\ Slot + 1 \in Nat /\ TaskShard \in ShardRecs /\ shards \in Pools
    BY <1>1, AtSlot DEF PoolSlots, ShardIInv
  <2>2. n \in PoolSlots
    BY <2>1, SlotType
  <2> HIDE DEF n
  <2>3. q \in ShardRecs
    BY <2>1, <2>2 DEF ShardRecs
  <2>4. sh = [shards EXCEPT ![task.shard] = q]
    BY <2>1 DEF Pools, TaskShard
  <2> HIDE DEF q, sh
  <2> QED BY <2>1, <2>3, <2>4 DEF Pools
<1> HIDE DEF sh
<1> QED BY <1>1, <1>2, <1>3, <1>4, FinishKeeps DEF sh

LEMMA ProtocolErrorKeeps ==
  ASSUME ShardIInv, ProtocolError
  PROVE  ShardIInv'
<1>1. task.at # "idle" /\ ring' = ring /\ Finish("protocol", WithSlot("dead"))
  BY DEF ProtocolError
<1>2. "dead" \in SlotStates
  BY DEF SlotStates
<1>3. WithSlot("dead") \in Pools
  BY <1>1, <1>2, WithSlotType
<1> QED BY <1>1, <1>3, FinishKeeps

LEMMA ReadClosedKeeps ==
  ASSUME ShardIInv, ReadClosedByPeer
  PROVE  ShardIInv'
<1>1. task.at # "idle" /\ ring' = ring /\ NextAttempt(WithSlot("none"), 1)
  BY DEF ReadClosedByPeer
<1>2. "none" \in SlotStates
  BY DEF SlotStates
<1>3. WithSlot("none") \in Pools /\ WithSlot("none")[task.shard].next = TaskShard.next
  BY <1>1, <1>2, WithSlotType
<1> QED BY <1>1, <1>3, NextAttemptKeeps

(* The pools change while no command runs. *)
LEMMA PoolsChange ==
  ASSUME ShardIInv, task = NoTask, shards' \in Pools, UNCHANGED <<ring, task, done>>
  PROVE  ShardIInv'
BY NoTaskOK, DoneStays DEF ShardIInv

LEMMA ConnectAllKeeps ==
  ASSUME ShardIInv, ConnectAllShards
  PROVE  ShardIInv'
<1>1. PICK upto \in 0 .. Shards * Width :
        shards' = [s \in 1 .. Shards |->
                     [shards[s] EXCEPT !.conns = [i \in PoolSlots |->
                        IF (s - 1) * Width + i < upto THEN "live" ELSE shards[s].conns[i]]]]
  BY DEF ConnectAllShards, PoolSlots
<1>2. ASSUME NEW s \in 1 .. Shards
      PROVE  shards'[s] \in ShardRecs
  <2> DEFINE c == [i \in PoolSlots |->
                     IF (s - 1) * Width + i < upto THEN "live" ELSE shards[s].conns[i]]
  <2>1. shards[s] \in ShardRecs
    BY DEF ShardIInv, Pools
  <2>2. \A i \in PoolSlots : shards[s].conns[i] \in SlotStates /\ "live" \in SlotStates
    BY <2>1 DEF ShardRecs, SlotStates
  <2>3. c \in [PoolSlots -> SlotStates]
    BY <2>2
  <2>4. shards'[s] = [shards[s] EXCEPT !.conns = c]
    BY <1>1
  <2> HIDE DEF c
  <2> QED BY <2>1, <2>3, <2>4 DEF ShardRecs
<1>3. shards' \in Pools
  BY <1>1, <1>2 DEF Pools
<1> QED BY <1>3, PoolsChange DEF ConnectAllShards

LEMMA CloseAllKeeps ==
  ASSUME ShardIInv, CloseAllShards
  PROVE  ShardIInv'
<1>1. shards' = [s \in 1 .. Shards |->
                   [shards[s] EXCEPT !.conns = [i \in PoolSlots |-> "none"]]]
  BY DEF CloseAllShards, PoolSlots
<1>2. [i \in PoolSlots |-> "none"] \in [PoolSlots -> SlotStates]
  BY DEF SlotStates
<1>3. shards' \in Pools
  BY <1>1, <1>2 DEF ShardIInv, Pools, ShardRecs
<1> QED BY <1>3, PoolsChange DEF CloseAllShards

LEMMA ShardClientKeeps ==
  ASSUME ShardIInv, NEW s \in 1 .. Shards, ShardClient(s)
  PROVE  ShardIInv'
<1>1. shards \in Pools /\ shards[s] \in ShardRecs /\ shards[s].next \in PoolSlots
      /\ shards[s].next \in Nat /\ shards[s].conns \in [PoolSlots -> SlotStates]
  BY DEF ShardIInv, Pools, ShardRecs, PoolSlots
<1>2. PICK tried \in 1 .. Width :
        LET At(k) == (shards[s].next + k - 1) % Width
        IN  \/ shards' = [shards EXCEPT ![s].next = (@ + tried) % Width,
                                        ![s].conns[At(tried)] = IF @ = "none" THEN "live" ELSE @]
            \/ shards' = [shards EXCEPT ![s].next = (@ + tried) % Width]
  BY DEF ShardClient
<1> DEFINE i == (shards[s].next + tried - 1) % Width
           n == (shards[s].next + tried) % Width
           v == IF shards[s].conns[i] = "none" THEN "live" ELSE shards[s].conns[i]
           q == [shards[s] EXCEPT !.next = n]
           r == [shards[s] EXCEPT !.next = n, !.conns[i] = v]
<1>3. i \in PoolSlots /\ n \in PoolSlots
  <2>1. shards[s].next + tried - 1 \in Nat /\ shards[s].next + tried \in Nat
    BY <1>1
  <2> QED BY <2>1, SlotType
<1>4. v \in SlotStates
  <2> HIDE DEF i
  <2> QED BY <1>1, <1>3 DEF SlotStates
<1>5. shards' = [shards EXCEPT ![s] = q] \/ shards' = [shards EXCEPT ![s] = r]
  BY <1>1, <1>2 DEF Pools, ShardRecs
<1> HIDE DEF i, n, v
<1>6. q \in ShardRecs /\ r \in ShardRecs
  BY <1>1, <1>3, <1>4 DEF ShardRecs
<1> HIDE DEF q, r
<1>7. shards' \in Pools
  BY <1>1, <1>5, <1>6 DEF Pools
<1> QED BY <1>7, PoolsChange DEF ShardClient

LEMMA PeerDropsKeeps ==
  ASSUME ShardIInv, NEW s \in 1 .. Shards, NEW i \in 0 .. Width - 1, PeerDrops(s, i)
  PROVE  ShardIInv'
<1> DEFINE q == [shards[s] EXCEPT !.conns[i] = "dead"]
<1>1. shards \in Pools /\ shards[s] \in ShardRecs /\ i \in PoolSlots
  BY DEF ShardIInv, Pools, PoolSlots
<1>2. q \in ShardRecs /\ q.next = shards[s].next
  BY <1>1 DEF ShardRecs, SlotStates
<1>3. shards' = [shards EXCEPT ![s] = q]
  BY <1>1 DEF PeerDrops, Pools
<1> HIDE DEF q
<1>4. shards' \in Pools /\ \A u \in 1 .. Shards : shards'[u].next = shards[u].next
  BY <1>1, <1>2, <1>3 DEF Pools
<1>5. task.at = "idle" \/ task.shard \in 1 .. Shards
  BY DEF ShardIInv, TaskOK
<1>6. TaskOK(task, shards')
  BY <1>4, <1>5, TaskStays DEF ShardIInv
<1> QED BY <1>4, <1>6, DoneStays DEF ShardIInv, PeerDrops

-----------------------------------------------------------------------------
LEMMA ShardInitInv == ShardInit => ShardIInv
<1> SUFFICES ASSUME ShardInit PROVE ShardIInv
  OBVIOUS
<1>1. shards \in Pools
  BY ShardAssumption DEF ShardInit, Pools, ShardRecs, PoolSlots, SlotStates
<1>2. AtLeastOncePerLoss
  <2>1. Cardinality({}) = 0
    BY FS_EmptySet
  <2> QED BY <2>1 DEF ShardInit, AtLeastOncePerLoss
<1> QED BY <1>1, <1>2, NoTaskOK DEF ShardInit, ShardIInv, FailsOnlyAfterEverySlot

LEMMA ShardStepInv == ShardIInv /\ [ShardNext]_shardVars => ShardIInv'
<1> SUFFICES ASSUME ShardIInv, [ShardNext]_shardVars PROVE ShardIInv'
  OBVIOUS
<1>1. CASE UNCHANGED shardVars
  BY <1>1, DoneStays DEF shardVars, ShardIInv
<1>2. CASE RouteCommand
  BY <1>2, RouteCommandKeeps
<1>3. CASE DoConnect \/ SlotConnected
  BY <1>3, DoConnectKeeps, SlotConnectedKeeps
<1>4. CASE Send \/ SendFails
  BY <1>4, SendKeeps, SendFailsKeeps
<1>5. CASE ServerRuns
  BY <1>5, ServerRunsKeeps
<1>6. CASE Response \/ ProtocolError
  BY <1>6, ResponseKeeps, ProtocolErrorKeeps
<1>7. CASE ReadClosedByPeer
  BY <1>7, ReadClosedKeeps
<1>8. CASE ConnectAllShards \/ CloseAllShards
  BY <1>8, ConnectAllKeeps, CloseAllKeeps
<1>9. ASSUME NEW s \in 1 .. Shards, AdminCommand(s) \/ ShardClient(s) PROVE ShardIInv'
  BY <1>9, AdminCommandKeeps, ShardClientKeeps
<1>10. ASSUME NEW s \in 1 .. Shards, NEW i \in 0 .. Width - 1, PeerDrops(s, i) PROVE ShardIInv'
  BY <1>10, PeerDropsKeeps
<1> QED BY <1>1, <1>2, <1>3, <1>4, <1>5, <1>6, <1>7, <1>8, <1>9, <1>10 DEF ShardNext

(* However connections are lost, reopened and shared by the commands of a    *)
(* shard: a command is run at most once per loss and once more, it fails     *)
(* only after every slot was tried, and the ring moves only the keys of a    *)
(* server that left.                                                         *)
THEOREM CommandsSafe == ShardSpec => []CommandsRouted
<1>1. ShardInit => ShardIInv
  BY ShardInitInv
<1>2. ShardIInv /\ [ShardNext]_shardVars => ShardIInv'
  BY ShardStepInv
<1>3. ShardIInv => CommandsRouted
  <2> SUFFICES ASSUME ShardIInv PROVE CommandsRouted
    OBVIOUS
  <2>1. ShardTypeOK
    BY DEF ShardTypeOK, ShardIInv, Pools, ShardRecs, PoolSlots, TaskOK, TaskRecs
  <2>2. ring \in SUBSET Points /\ ring # {}
    BY ShardAssumption DEF ShardIInv, Points
  <2>3. OnlyLostKeysMove
    BY <2>2, RouteStays, ShardAssumption DEF OnlyLostKeysMove
  <2> QED BY <2>1, <2>3 DEF CommandsRouted, ShardIInv
<1> QED BY <1>1, <1>2, <1>3, PTL DEF ShardSpec

-----------------------------------------------------------------------------
(* The slots a command has moved past stay Disconnected while it goes on: it *)
(* connects and retires only its own slot, which is not among them.          *)
Passed(t, sh) == t.at # "idle" => \A i \in t.tried : sh[t.shard].conns[i] = "none"

LEMMA SlotIsNew ==
  ASSUME NEW n \in PoolSlots, NEW k \in PoolSlots
  PROVE  (n + k) % Width \notin Scanned(n, k)
<1> SUFFICES ASSUME NEW j \in 0 .. k - 1 PROVE (n + k) % Width # (n + j) % Width
  BY Zenon DEF Scanned
<1>1. /\ n \in Nat /\ k \in Nat /\ j \in Nat /\ j < k /\ k < Width /\ n < Width /\ Width \in Nat
      /\ n + k \in Nat /\ n + j \in Nat /\ n + k < 2 * Width /\ n + j < 2 * Width
  BY ShardAssumption DEF PoolSlots
<1>2. /\ (n + k) % Width = IF n + k < Width THEN n + k ELSE n + k - Width
      /\ (n + j) % Width = IF n + j < Width THEN n + j ELSE n + j - Width
  BY <1>1, ModWidth
<1> QED BY <1>1, <1>2

(* A slot's new state, and the slots passed are as they were. *)
LEMMA WithSlotPassed ==
  ASSUME ShardIInv, Passed(task, shards), task.at # "idle", NEW v \in SlotStates
  PROVE  /\ WithSlot(v)[task.shard].conns[Slot] = v
         /\ \A i \in task.tried : WithSlot(v)[task.shard].conns[i] = "none"
<1>1. /\ task.shard \in 1 .. Shards /\ Slot \in PoolSlots /\ shards \in Pools
      /\ task.tried = Scanned(TaskShard.next, task.attempt)
      /\ TaskShard.next \in PoolSlots /\ task.attempt \in PoolSlots /\ task.tried \subseteq PoolSlots
  BY AtSlot DEF ShardIInv, TaskRecs
<1>2. Slot \notin task.tried
  BY <1>1, SlotIsNew DEF Slot
<1> DEFINE i == Slot
<1>3. WithSlot(v) = [shards EXCEPT ![task.shard].conns[i] = v]
  BY DEF WithSlot
<1> HIDE DEF i
<1>4. /\ WithSlot(v)[task.shard].conns[i] = v
      /\ \A j \in PoolSlots \ {i} : WithSlot(v)[task.shard].conns[j] = shards[task.shard].conns[j]
  BY <1>1, <1>3 DEF Pools, ShardRecs, i
<1> QED BY <1>1, <1>2, <1>4 DEF Passed, i

(* The next attempt passes a slot that is Disconnected. *)
LEMMA NextAttemptPasses ==
  ASSUME ShardIInv, task.at # "idle", NEW sh, NEW lost, NextAttempt(sh, lost),
         sh[task.shard].conns[Slot] = "none", \A i \in task.tried : sh[task.shard].conns[i] = "none",
         sh \in Pools
  PROVE  /\ Passed(task', shards')
         /\ \A i \in task.tried \union {Slot} : shards'[task.shard].conns[i] = "none"
<1>1. /\ task \in TaskRecs /\ task.shard \in 1 .. Shards /\ Slot \in PoolSlots
  BY AtSlot
<1>2. CASE task.attempt + 1 = Width
  <2>1. task' = NoTask /\ shards' = Cursor(sh)
    BY <1>2 DEF NextAttempt, Finish
  <2>2. Cursor(sh)[task.shard].conns = sh[task.shard].conns
    BY <1>1 DEF Cursor, Pools, ShardRecs
  <2> QED BY <2>1, <2>2, NoTaskType DEF Passed
<1>3. CASE task.attempt + 1 # Width
  <2> DEFINE i == Slot
             a == task.attempt + 1
             l == task.lost + lost
  <2>1. shards' = sh /\ task' = [task EXCEPT !.attempt = a, !.at = "slot", !.lost = l,
                                             !.tried = task.tried \union {i}]
    BY <1>3 DEF NextAttempt
  <2> HIDE DEF i, a, l
  <2>2. task'.tried = task.tried \union {i} /\ task'.shard = task.shard
    BY <1>1, <2>1 DEF TaskRecs
  <2> QED BY <2>1, <2>2 DEF Passed, i
<1> QED BY <1>2, <1>3

Ends ==
  task # NoTask /\ task' = NoTask =>
    \A i \in IF done'.result = "all_failed" THEN 0 .. Width - 1 ELSE task.tried :
      shards'[task.shard].conns[i] = "none"

LEMMA PassedStep ==
  ASSUME ShardIInv, Passed(task, shards), ShardNext
  PROVE  Passed(task', shards') /\ Ends
<1>1. task.at # "idle" =>
        /\ task \in TaskRecs /\ task.shard \in 1 .. Shards /\ Slot \in PoolSlots
        /\ task.tried = Scanned(TaskShard.next, task.attempt)
        /\ TaskShard.next \in PoolSlots /\ task.attempt \in Nat /\ task.tried \subseteq PoolSlots
  BY AtSlot DEF TaskRecs
<1>2. shards \in Pools /\ NoTask.at = "idle" /\ {"none", "live", "dead"} = SlotStates
  BY NoTaskType DEF ShardIInv, SlotStates
(* The scan goes on past a Disconnected slot, or has passed them all. *)
<1>3. ASSUME NEW sh \in Pools, NEW l, NextAttempt(sh, l), task.at # "idle",
             sh[task.shard].conns[Slot] = "none",
             \A i \in task.tried : sh[task.shard].conns[i] = "none"
      PROVE  Passed(task', shards') /\ Ends
  <2>1. Passed(task', shards') /\ \A i \in task.tried \union {Slot} : shards'[task.shard].conns[i] = "none"
    BY <1>3, NextAttemptPasses
  <2>2. CASE task.attempt + 1 = Width
    <3>1. task.tried \union {Slot} = 0 .. Width - 1
      <4>1. task.tried \union {Slot} = Scanned(TaskShard.next, task.attempt + 1)
        BY <1>1, <1>3, ScanStep DEF Slot
      <4> QED BY <1>1, <1>3, <2>2, <4>1, ScanAll DEF PoolSlots
    <3> QED BY <2>1, <3>1, Zenon DEF Ends
  <2>3. CASE task.attempt + 1 # Width
    <3>1. task' # NoTask
      <4> DEFINE i == Slot
                 a == task.attempt + 1
                 lo == task.lost + l
      <4>1. task' = [task EXCEPT !.attempt = a, !.at = "slot", !.lost = lo,
                                 !.tried = task.tried \union {i}]
        BY <1>3, <2>3 DEF NextAttempt
      <4> HIDE DEF i, a, lo
      <4>2. task'.at = "slot"
        BY <1>1, <1>3, <4>1 DEF TaskRecs
      <4> QED BY <1>2, <4>2
    <3> QED BY <2>1, <3>1 DEF Ends
  <2> QED BY <2>2, <2>3
(* The command ends at its slot, with another result. *)
<1>4. ASSUME NEW sh, NEW res, Finish(res, sh), task.at # "idle", res # "all_failed", sh \in Pools,
             \A i \in task.tried : sh[task.shard].conns[i] = "none"
      PROVE  Passed(task', shards') /\ Ends
  <2>1. task' = NoTask /\ done'.result = res /\ shards' = Cursor(sh)
    BY <1>4 DEF Finish
  <2>2. Cursor(sh)[task.shard].conns = sh[task.shard].conns
    BY <1>1, <1>4 DEF Cursor, Pools, ShardRecs
  <2> QED BY <1>2, <1>4, <2>1, <2>2 DEF Passed, Ends
(* The command goes on at its slot. *)
<1>5. ASSUME task.at # "idle", task'.at # "idle", task'.tried = task.tried, task'.shard = task.shard,
             \A i \in task.tried : shards'[task.shard].conns[i] = "none"
      PROVE  Passed(task', shards') /\ Ends
  BY <1>2, <1>5 DEF Passed, Ends
<1>6. task.at # "idle" =>
        /\ \A i \in task.tried : shards[task.shard].conns[i] = "none"
        /\ \A v \in SlotStates : WithSlot(v) \in Pools /\ WithSlot(v)[task.shard].conns[Slot] = v
                                 /\ \A i \in task.tried : WithSlot(v)[task.shard].conns[i] = "none"
  BY WithSlotPassed, WithSlotType DEF Passed
<1>7. CASE DoConnect
  <2>1. CASE NextAttempt(shards, 0)
    <3>1. task.at # "idle" /\ shards[task.shard].conns[Slot] = "none"
      BY <1>7 DEF DoConnect, TaskShard
    <3>2. \A i \in task.tried : shards[task.shard].conns[i] = "none"
      BY <1>6, <3>1
    <3> QED BY <1>2, <1>3, <2>1, <3>1, <3>2
  <2>2. CASE shards' = WithSlot("live") /\ task' = [task EXCEPT !.at = "send"]
    <3>1. task.at # "idle"
      BY <1>7 DEF DoConnect
    <3>2. task'.at # "idle" /\ task'.tried = task.tried /\ task'.shard = task.shard
      BY <1>1, <2>2, <3>1 DEF TaskRecs
    <3>3. \A i \in task.tried : shards'[task.shard].conns[i] = "none"
      BY <1>2, <1>6, <2>2, <3>1
    <3> QED BY <1>5, <3>1, <3>2, <3>3
  <2> QED BY <1>7, <2>1, <2>2 DEF DoConnect
<1>8. CASE SlotConnected \/ Send \/ ServerRuns
  <2>1. shards' = shards /\ task.at # "idle"
    BY <1>8 DEF SlotConnected, Send, ServerRuns
  <2>2. task'.at # "idle" /\ task'.tried = task.tried /\ task'.shard = task.shard
    BY <1>1, <1>8, <2>1 DEF SlotConnected, Send, ServerRuns, TaskRecs
  <2>3. \A i \in task.tried : shards'[task.shard].conns[i] = "none"
    BY <1>6, <2>1
  <2> QED BY <1>5, <2>1, <2>2, <2>3
<1>9. CASE SendFails \/ ProtocolError \/ ReadClosedByPeer
  <2>1. task.at # "idle"
    BY <1>9 DEF SendFails, ProtocolError, ReadClosedByPeer
  <2>2. CASE NextAttempt(WithSlot("none"), 0) \/ NextAttempt(WithSlot("none"), 1)
    <3>1. WithSlot("none") \in Pools /\ WithSlot("none")[task.shard].conns[Slot] = "none"
          /\ \A i \in task.tried : WithSlot("none")[task.shard].conns[i] = "none"
      BY <1>2, <1>6, <2>1
    <3> QED BY <1>3, <2>1, <2>2, <3>1
  <2>3. CASE Finish("io", shards)
    BY <1>2, <1>4, <1>6, <2>1, <2>3
  <2>4. CASE Finish("protocol", WithSlot("dead"))
    <3>1. WithSlot("dead") \in Pools
          /\ \A i \in task.tried : WithSlot("dead")[task.shard].conns[i] = "none"
      BY <1>2, <1>6, <2>1
    <3> QED BY <1>4, <2>1, <2>4, <3>1
  <2> QED BY <1>9, <2>2, <2>3, <2>4, Zenon DEF SendFails, ProtocolError, ReadClosedByPeer
<1>10. CASE Response
  <2>1. PICK c \in Routed(proto), reply \in Replies(proto) :
          Finish(Outcome(c, reply), [shards EXCEPT ![task.shard].next = (Slot + 1) % Width])
    BY <1>10 DEF Response
  <2>2. task.at # "idle"
    BY <1>10 DEF Response
  <2> DEFINE n == (Slot + 1) % Width
             sh == [shards EXCEPT ![task.shard].next = n]
  <2>3. n \in PoolSlots
    BY <1>1, <2>2, SlotType DEF PoolSlots
  <2> HIDE DEF n
  <2>4. sh \in Pools /\ sh[task.shard].conns = shards[task.shard].conns
    BY <1>1, <1>2, <2>2, <2>3 DEF Pools, ShardRecs
  <2>5. Finish(Outcome(c, reply), sh) /\ Outcome(c, reply) # "all_failed"
    BY <2>1 DEF n, Outcome
  <2> HIDE DEF sh
  <2>6. \A i \in task.tried : sh[task.shard].conns[i] = "none"
    BY <1>6, <2>2, <2>4
  <2> QED BY <1>4, <2>2, <2>4, <2>5, <2>6
<1>11. CASE RouteCommand \/ \E s \in 1 .. Shards : AdminCommand(s)
  <2>1. task = NoTask /\ task'.tried = {}
    BY <1>11 DEF RouteCommand, AdminCommand, NoTask
  <2> QED BY <2>1 DEF Passed, Ends
<1>12. CASE ConnectAllShards \/ CloseAllShards \/ \E s \in 1 .. Shards : ShardClient(s)
  <2>1. task = NoTask /\ task' = NoTask
    BY <1>12 DEF ConnectAllShards, CloseAllShards, ShardClient
  <2> QED BY <1>2, <2>1 DEF Passed, Ends
<1>13. ASSUME NEW s \in 1 .. Shards, NEW i \in 0 .. Width - 1, PeerDrops(s, i)
       PROVE  Passed(task', shards') /\ Ends
  <2>1. task' = task /\ shards' = [shards EXCEPT ![s].conns[i] = "dead"] /\ shards[s].conns[i] = "live"
    BY <1>13 DEF PeerDrops
  <2>2. \A u \in 1 .. Shards, j \in PoolSlots :
          shards[u].conns[j] = "none" => shards'[u].conns[j] = "none"
    BY <1>2, <2>1 DEF Pools, ShardRecs, PoolSlots
  <2>3. Passed(task, shards')
    BY <1>1, <2>2 DEF Passed
  <2> QED BY <2>1, <2>3 DEF Ends
<1> QED BY <1>7, <1>8, <1>9, <1>10, <1>11, <1>12, <1>13 DEF ShardNext

(* For any rings, pool width and losses, redis and memcache, routed commands *)
(* and flush_all and version: when a command returns, every slot it moved    *)
(* past is Disconnected, and after AllConnectionsFailed every slot of its    *)
(* shard, so that no later command meets a client this one found dead.       *)
THEOREM FailedSlotsReconnect == ShardSpec => PassedSlotsDisconnected
<1> DEFINE Inv == ShardIInv /\ Passed(task, shards)
<1>1. ShardInit => Inv
  BY ShardInitInv, NoTaskType DEF ShardInit, Passed
<1>2. Inv /\ [ShardNext]_shardVars => Inv'
  <2>1. CASE UNCHANGED shardVars
    BY <2>1, ShardStepInv DEF shardVars
  <2>2. CASE ShardNext
    BY <2>2, ShardStepInv, PassedStep
  <2> QED BY <2>1, <2>2
<1>3. Inv /\ [ShardNext]_shardVars => [Ends]_shardVars
  BY PassedStep
<1> QED BY <1>1, <1>2, <1>3, PTL DEF ShardSpec, PassedSlotsDisconnected, Ends
=============================================================================
