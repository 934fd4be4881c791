-------------------------- MODULE ClientPoolProofs --------------------------
(***************************************************************************)
(* Proofs about ClientPool, for every number of callers, slots, connection *)
(* slots and generations, and every set of faults.                         *)
(*                                                                         *)
(* The inductive invariant is stated of slots sl, callers cl and a         *)
(* connection table cs rather than of the variables: a step of the pool is *)
(* up to two changes of them (a reservation released, then the scan goes   *)
(* on), and a lemma says of each change that it keeps the invariant.       *)
(***************************************************************************)
EXTENDS ClientPool, FiniteSetTheorems, WellFoundedInduction, TLAPS

CallerRecs ==
  [op : {"none", "client", "connect_all"}, pc : {"idle", "connecting", "auth", "guard"},
   start : Indices, step : Indices, idx : Indices, attempted : BOOLEAN,
   visited : SUBSET Indices, h : Handles \union {NoHandle},
   result : {"none", "AllConnectionsFailed", "PoolExhausted"}]

ConnRecs ==
  [gen : 0 .. MaxGen, st : {"free", "connecting", "open", "failed", "closing"}, mine : BOOLEAN]

Typed(sl, cl, cs) ==
  /\ sl \in [Indices -> {Disconnected, Lent} \union Handles]
  /\ cl \in [Callers -> CallerRecs]
  /\ cs \in [ConnSlots -> ConnRecs]

(* A caller's record: the handle goes with the pc, the scan has looked at    *)
(* the slots of its iterations so far, and a result means it saw them all.   *)
CallerSane(r, f) ==
  /\ r.pc = "idle" => r.h = NoHandle
  /\ r.pc \in {"auth", "guard"} => r.h # NoHandle
  /\ r.pc = "auth" => "auth" \in f
  /\ r.pc # "idle" => r.result = "none"
  /\ r.pc \in {"connecting", "auth"} =>
       /\ r.op \in {"client", "connect_all"}
       /\ r.op = "client" => r.visited = {SlotAt(r, j) : j \in 0 .. r.step}
  /\ r.result # "none" => r.visited = Indices

(* A free slot of the table is nobody's, and one in use can still be reused. *)
ConnSane(c) ==
  /\ c.st = "free" => ~c.mine
  /\ c.st # "free" => c.gen < MaxGen

(* A handle is of an earlier generation of its slot, or of the current one:  *)
(* then the connection is in use, and the pool opened it.                    *)
Known(h, cs) ==
  \/ h.gen < cs[h.conn].gen
  \/ h.gen = cs[h.conn].gen /\ cs[h.conn].st # "free" /\ cs[h.conn].mine

AllKnown(sl, cl, cs) ==
  /\ \A i \in Indices : sl[i] \in Handles => Known(sl[i], cs)
  /\ \A t \in Callers : cl[t].h \in Handles => Known(cl[t].h, cs)

(* No handle is in two places. *)
Unique(sl, cl) ==
  /\ \A i, j \in Indices : i # j /\ sl[i] \in Handles => sl[i] # sl[j]
  /\ \A t \in Callers : cl[t].h \in Handles =>
       /\ \A u \in Callers \ {t} : cl[u].h # cl[t].h
       /\ \A i \in Indices : sl[i] # cl[t].h

(* A lent slot has a holder; without close_all, a holder's slot is lent and  *)
(* its own.                                                                  *)
LentHeld(sl, cl, alive) ==
  alive => \A i \in Indices :
    sl[i] = Lent => \E t \in Callers : cl[t].pc # "idle" /\ cl[t].idx = i

Exclusive(sl, cl, f) ==
  "close_all" \notin f =>
    \A t \in Callers : cl[t].pc # "idle" =>
      /\ sl[cl[t].idx] = Lent
      /\ \A u \in Callers \ {t} : cl[u].pc # "idle" => cl[u].idx # cl[t].idx

HandleOf(c, cs) == [conn |-> c, gen |-> cs[c].gen]

(* Without faults the pool outlives its calls and owns what it has open. *)
Kept(sl, cl, cs, alive, f) ==
  f = {} =>
    /\ alive
    /\ \A c \in ConnSlots : cs[c].st = "open" /\ cs[c].mine =>
         \/ \E i \in Indices : sl[i] = HandleOf(c, cs)
         \/ \E t \in Callers : cl[t].h = HandleOf(c, cs)

PoolInvOf(sl, cl, cs, alive, f) ==
  /\ Typed(sl, cl, cs)
  /\ \A t \in Callers : CallerSane(cl[t], f)
  /\ \A c \in ConnSlots : ConnSane(cs[c])
  /\ AllKnown(sl, cl, cs)
  /\ Unique(sl, cl)
  /\ LentHeld(sl, cl, alive)
  /\ Exclusive(sl, cl, f)
  /\ Kept(sl, cl, cs, alive, f)

PoolIInv ==
  /\ cursor \in Indices
  /\ PoolInvOf(slots, callers, conns, pool_alive, faults)
-----------------------------------------------------------------------------
(* Lemmas about the operators. *)

(* The least element the scan stops at (Min) exists: sets of naturals have one. *)
LEMMA MinNat ==
  ASSUME NEW S \in SUBSET Nat, S # {}
  PROVE  Min(S) \in S /\ \A y \in S : Min(S) <= y
<1> DEFINE R == OpToRel(<, Nat)
<1>1. IsWellFoundedOn(R, Nat)
  BY NatLessThanWellFounded
<1>2. PICK x \in S : \A y \in S : ~(<<y, x>> \in R)
  <2> HIDE DEF R
  <2> QED BY <1>1, WFMin
<1>3. \A y \in S : x <= y
  <2>1. R = {ss \in Nat \X Nat : ss[1] < ss[2]}
    BY Zenon DEF OpToRel
  <2>2. \A y \in S : y < x => <<y, x>> \in {ss \in Nat \X Nat : ss[1] < ss[2]}
    OBVIOUS
  <2> HIDE DEF R
  <2>3. \A y \in S : ~(y < x)
    BY <1>2, <2>1, <2>2, Zenon
  <2> QED BY <2>3
<1> QED  BY <1>3, Zenon DEF Min
(* The slot of an iteration: one wrap around the pool is all checkout needs. *)
LEMMA ModSize ==
  ASSUME NEW n \in Nat, n < 2 * Size
  PROVE n % Size = IF n < Size THEN n ELSE n - Size
 BY ClientPoolAssumption

LEMMA SlotAtType ==
  ASSUME NEW r, r.start \in Indices, NEW k \in Indices
  PROVE  SlotAt(r, k) \in Indices
BY ClientPoolAssumption DEF SlotAt, Indices

(* Size iterations from a snapshot of the cursor look at every slot. *)
LEMMA RoundTrip ==
  ASSUME NEW r, r.start \in Indices, r.op = "client"
  PROVE  {SlotAt(r, j) : j \in 0 .. Size - 1} = Indices
<1>1. {SlotAt(r, j) : j \in 0 .. Size - 1} \subseteq Indices
  BY SlotAtType DEF Indices
<1>2. ASSUME NEW i \in Indices
      PROVE  \E j \in 0 .. Size - 1 : SlotAt(r, j) = i
  <2> DEFINE j == IF i < r.start THEN i + Size - r.start ELSE i - r.start
  <2>1. j \in 0 .. Size - 1 /\ r.start + j \in Nat /\ r.start + j < 2 * Size
    BY ClientPoolAssumption DEF Indices
  <2>2. (r.start + j) % Size = i
    BY <2>1, ModSize, ClientPoolAssumption DEF Indices
  <2> QED BY <2>1, <2>2 DEF SlotAt
<1> QED BY <1>1, <1>2

(* The marks are not handles. *)
LEMMA Marks ==
  /\ Disconnected \notin Handles /\ Lent \notin Handles /\ NoHandle \notin Handles
  /\ Disconnected # Lent /\ NoHandle # Lent /\ NoHandle # Disconnected
BY ClientPoolAssumption DEF Disconnected, Lent, NoHandle, Handles

LEMMA IdleType == Idle \in CallerRecs
BY ClientPoolAssumption DEF Idle, CallerRecs, Indices

(* What the types of the state give of its parts. *)
LEMMA Parts ==
  ASSUME NEW sl, NEW cl, NEW cs, Typed(sl, cl, cs)
  PROVE  /\ \A u \in Callers : cl[u].idx \in Indices /\ cl[u].h \in Handles \union {NoHandle}
         /\ \A i \in Indices : sl[i] \in {Disconnected, Lent} \union Handles
         /\ \A c \in ConnSlots : HandleOf(c, cs) \in Handles
         /\ \A c \in ConnSlots : HandleOf(c, cs).conn = c /\ HandleOf(c, cs).gen = cs[c].gen
         /\ \A h \in Handles : h.conn \in ConnSlots /\ h.gen \in 0 .. MaxGen
         /\ \A h \in Handles : h.gen = cs[h.conn].gen => h = HandleOf(h.conn, cs)
BY DEF Typed, CallerRecs, ConnRecs, HandleOf, Handles

(* A caller that authenticates or was lent a client has a handle. *)
LEMMA HasHandle ==
  ASSUME Typed(slots, callers, conns), NEW t \in Callers, CallerSane(callers[t], faults),
         callers[t].pc \in {"auth", "guard"}
  PROVE  callers[t].h \in Handles
<1>1. callers[t].h # NoHandle
  BY Zenon DEF CallerSane
<1>2. callers[t].h \in Handles \union {NoHandle}
  BY Zenon, Parts
<1> QED BY Zenon, <1>1, <1>2

-----------------------------------------------------------------------------
(* The changes a step makes, each with the invariant it keeps. *)

(* checkout lends the client of slot i to caller t. *)
LEMMA LendKeeps ==
  ASSUME NEW sl, NEW cl, NEW cs, NEW alive, NEW f, PoolInvOf(sl, cl, cs, alive, f),
         NEW t \in Callers, cl[t].pc = "idle", NEW i \in Indices, sl[i] \in Handles
  PROVE  PoolInvOf(Take(sl, i), [cl EXCEPT ![t] = GuardOf(i, sl[i])], cs, alive, f)
<1> DEFINE g == GuardOf(i, sl[i])
           sl1 == Take(sl, i)
           cl1 == [cl EXCEPT ![t] = g]
<1>1. /\ g \in CallerRecs /\ g.pc = "guard" /\ g.idx = i /\ g.h = sl[i] /\ g.result = "none"
  BY IdleType DEF GuardOf, Idle, CallerRecs
<1>2. Typed(sl, cl, cs) /\ Typed(sl1, cl1, cs)
  BY <1>1 DEF PoolInvOf, Typed, Take
<1>3. /\ sl1[i] = Lent /\ \A j \in Indices \ {i} : sl1[j] = sl[j]
      /\ cl1[t] = g /\ \A u \in Callers \ {t} : cl1[u] = cl[u]
  BY <1>2 DEF Typed, Take
<1>4. cl[t].h = NoHandle
  BY DEF PoolInvOf, CallerSane
<1> HIDE DEF g, sl1, cl1
<1>5. \A u \in Callers : CallerSane(cl1[u], f)
  BY <1>1, <1>3, Marks DEF PoolInvOf, CallerSane
<1>6. AllKnown(sl1, cl1, cs)
  BY <1>1, <1>3, Marks DEF PoolInvOf, AllKnown
<1>7. Unique(sl1, cl1)
  BY <1>1, <1>3, Marks DEF PoolInvOf, Unique
<1>8. LentHeld(sl1, cl1, alive)
  BY <1>1, <1>3 DEF PoolInvOf, LentHeld
<1>9. Exclusive(sl1, cl1, f)
  BY <1>1, <1>2, <1>3, Marks, Parts DEF PoolInvOf, Exclusive
<1>10. Kept(sl1, cl1, cs, alive, f)
  BY <1>1, <1>2, <1>3, <1>4, Marks, Parts DEF PoolInvOf, Kept
<1> QED  BY <1>2, <1>5, <1>6, <1>7, <1>8, <1>9, <1>10 DEF PoolInvOf, g, sl1, cl1

(* checkout and connect_all reserve the disconnected slot i for caller t and *)
(* submit a connect, on the free connection slot c, or fail to (h is none).  *)
LEMMA ReserveKeeps ==
  ASSUME NEW sl, NEW cl, NEW cs, NEW alive, NEW f, PoolInvOf(sl, cl, cs, alive, f),
         NEW t \in Callers, cl[t].pc = "idle", NEW i \in Indices, sl[i] = Disconnected,
         NEW q \in CallerRecs, q.pc = "connecting", q.idx = i, CallerSane(q, f), NEW cs1,
         \/ q.h = NoHandle /\ cs1 = cs
         \/ \E c \in ConnSlots :
              /\ cs[c].st = "free" /\ cs[c].gen < MaxGen /\ q.h = HandleOf(c, cs)
              /\ cs1 = [cs EXCEPT ![c].st = "connecting", ![c].mine = TRUE]
  PROVE  PoolInvOf(Take(sl, i), [cl EXCEPT ![t] = q], cs1, alive, f)
<1> DEFINE sl1 == Take(sl, i)
           cl1 == [cl EXCEPT ![t] = q]
<1>1. Typed(sl, cl, cs)
  BY DEF PoolInvOf
<1>2. /\ sl1 \in [Indices -> {Disconnected, Lent} \union Handles]
      /\ cl1 \in [Callers -> CallerRecs]
      /\ sl1[i] = Lent /\ \A j \in Indices \ {i} : sl1[j] = sl[j]
      /\ cl1[t] = q /\ \A u \in Callers \ {t} : cl1[u] = cl[u]
  BY <1>1 DEF Typed, Take
<1>3. cl[t].h = NoHandle
  BY DEF PoolInvOf, CallerSane
<1> HIDE DEF sl1, cl1
<1>4. ASSUME q.h = NoHandle, cs1 = cs
      PROVE  /\ Typed(sl1, cl1, cs1) /\ \A d \in ConnSlots : ConnSane(cs1[d])
             /\ AllKnown(sl1, cl1, cs1) /\ Unique(sl1, cl1)
             /\ Kept(sl1, cl1, cs1, alive, f)
  <2>1. Typed(sl1, cl1, cs1) /\ \A c \in ConnSlots : ConnSane(cs1[c])
    BY <1>1, <1>2, <1>4 DEF PoolInvOf, Typed
  <2>2. AllKnown(sl1, cl1, cs1) /\ Unique(sl1, cl1)
    BY <1>2, <1>4, Marks DEF PoolInvOf, AllKnown, Unique
  <2>3. Kept(sl1, cl1, cs1, alive, f)
    BY <1>1, <1>2, <1>3, <1>4, Marks, Parts DEF PoolInvOf, Kept
  <2> QED BY <2>1, <2>2, <2>3
<1>5. ASSUME NEW c \in ConnSlots, cs[c].st = "free", cs[c].gen < MaxGen, q.h = HandleOf(c, cs),
             cs1 = [cs EXCEPT ![c].st = "connecting", ![c].mine = TRUE]
      PROVE  /\ Typed(sl1, cl1, cs1) /\ \A d \in ConnSlots : ConnSane(cs1[d])
             /\ AllKnown(sl1, cl1, cs1) /\ Unique(sl1, cl1)
             /\ Kept(sl1, cl1, cs1, alive, f)
  <2>1. /\ cs1 \in [ConnSlots -> ConnRecs]
        /\ cs1[c].gen = cs[c].gen /\ cs1[c].st = "connecting" /\ cs1[c].mine
        /\ \A d \in ConnSlots \ {c} : cs1[d] = cs[d]
    BY <1>1, <1>5 DEF Typed, ConnRecs
  <2>2. Typed(sl1, cl1, cs1) /\ \A d \in ConnSlots : ConnSane(cs1[d])
    BY <1>2, <1>5, <2>1 DEF PoolInvOf, Typed, ConnSane
  <2>3. \A h \in Handles : Known(h, cs) => Known(h, cs1) /\ h # q.h
    BY <1>1, <1>5, <2>1, Parts DEF Known
  <2>4. q.h \in Handles /\ Known(q.h, cs1)
    BY <1>1, <1>5, <2>1, Parts DEF Known
  <2>5. AllKnown(sl1, cl1, cs1)
    BY <1>2, <2>3, <2>4, Marks DEF PoolInvOf, AllKnown
  <2>6. /\ \A j \in Indices : sl[j] # q.h
        /\ \A u \in Callers : cl[u].h # q.h
    BY <2>3, <2>4 DEF PoolInvOf, AllKnown
  <2>7. Unique(sl1, cl1)
    BY <1>2, <2>4, <2>6, Marks DEF PoolInvOf, Unique
  <2>8. \A d \in ConnSlots \ {c} : HandleOf(d, cs1) = HandleOf(d, cs)
    BY <2>1 DEF HandleOf
  <2>9. Kept(sl1, cl1, cs1, alive, f)
    BY <1>1, <1>2, <1>3, <2>1, <2>8, Marks, Parts DEF PoolInvOf, Kept
  <2> QED BY <2>2, <2>5, <2>7, <2>9
<1>6. \A u \in Callers : CallerSane(cl1[u], f)
  BY <1>2 DEF PoolInvOf
<1>7. LentHeld(sl1, cl1, alive)
  BY <1>2 DEF PoolInvOf, LentHeld
<1>8. Exclusive(sl1, cl1, f)
  BY <1>1, <1>2, Marks, Parts DEF PoolInvOf, Exclusive
<1> QED  BY <1>4, <1>5, <1>6, <1>7, <1>8 DEF PoolInvOf, sl1, cl1

(* A caller with nothing in hand returns: with a result, or without. *)
LEMMA ReturnKeeps ==
  ASSUME NEW sl, NEW cl, NEW cs, NEW alive, NEW f, PoolInvOf(sl, cl, cs, alive, f),
         NEW t \in Callers, cl[t].pc = "idle",
         NEW q \in CallerRecs, q.pc = "idle", q.h = NoHandle, q.result # "none" => q.visited = Indices
  PROVE  PoolInvOf(sl, [cl EXCEPT ![t] = q], cs, alive, f)
<1> DEFINE cl1 == [cl EXCEPT ![t] = q]
<1>1. Typed(sl, cl, cs)
  BY DEF PoolInvOf
<1>2. Typed(sl, cl1, cs) /\ cl1[t] = q /\ \A u \in Callers \ {t} : cl1[u] = cl[u]
  BY <1>1 DEF Typed
<1>3. cl[t].h = NoHandle
  BY DEF PoolInvOf, CallerSane
<1> HIDE DEF cl1
<1>4. \A u \in Callers : CallerSane(cl1[u], f)
  BY <1>2 DEF PoolInvOf, CallerSane
<1>5. AllKnown(sl, cl1, cs) /\ Unique(sl, cl1)
  BY <1>2, Marks DEF PoolInvOf, AllKnown, Unique
<1>6. LentHeld(sl, cl1, alive) /\ Exclusive(sl, cl1, f)
  BY <1>2 DEF PoolInvOf, LentHeld, Exclusive
<1>7. Kept(sl, cl1, cs, alive, f)
  BY <1>1, <1>2, <1>3, Marks, Parts DEF PoolInvOf, Kept
<1> QED  BY <1>2, <1>4, <1>5, <1>6, <1>7 DEF PoolInvOf, cl1

(* Caller t lets go of its slot: Reservation::drop and a dead client make it *)
(* disconnected, PooledClient::drop and connect_all put the client there.    *)
LEMMA PutBackKeeps ==
  ASSUME NEW sl, NEW cl, NEW cs, NEW alive, NEW f, PoolInvOf(sl, cl, cs, alive, f),
         NEW t \in Callers, cl[t].pc # "idle", NEW v,
         \/ v = Disconnected /\ (f = {} /\ cl[t].h # NoHandle =>
              ~(cs[cl[t].h.conn].gen = cl[t].h.gen /\ cs[cl[t].h.conn].st = "open"))
         \/ v = cl[t].h /\ v # NoHandle
  PROVE  PoolInvOf([sl EXCEPT ![cl[t].idx] = v], [cl EXCEPT ![t] = Idle], cs, alive, f)
<1> DEFINE i == cl[t].idx
           sl1 == [sl EXCEPT ![i] = v]
           cl1 == [cl EXCEPT ![t] = Idle]
<1>1. Typed(sl, cl, cs) /\ i \in Indices
  BY Parts DEF PoolInvOf
<1>2. v \in {Disconnected} \union Handles /\ (v \in Handles => v = cl[t].h)
  BY <1>1, Parts, Marks
<1>3. /\ Typed(sl1, cl1, cs)
      /\ sl1[i] = v /\ \A j \in Indices \ {i} : sl1[j] = sl[j]
      /\ cl1[t] = Idle /\ \A u \in Callers \ {t} : cl1[u] = cl[u]
  BY <1>1, <1>2, IdleType DEF Typed
<1>4. Idle.pc = "idle" /\ Idle.h = NoHandle /\ Idle.result = "none"
  BY DEF Idle
<1> HIDE DEF i, sl1, cl1
<1>5. \A u \in Callers : CallerSane(cl1[u], f)
  BY <1>3, <1>4 DEF PoolInvOf, CallerSane
<1>6. AllKnown(sl1, cl1, cs)
  BY <1>2, <1>3, <1>4, Marks DEF PoolInvOf, AllKnown
<1>7. Unique(sl1, cl1)
  BY <1>2, <1>3, <1>4, Marks DEF PoolInvOf, Unique
<1>8. LentHeld(sl1, cl1, alive)
  BY <1>1, <1>2, <1>3, <1>4, Marks DEF PoolInvOf, LentHeld, i
<1>9. Exclusive(sl1, cl1, f)
  BY <1>1, <1>3, <1>4, Parts DEF PoolInvOf, Exclusive, i
<1>10. Kept(sl1, cl1, cs, alive, f)
  <2> SUFFICES ASSUME f = {}, NEW c \in ConnSlots, cs[c].st = "open", cs[c].mine
               PROVE  \/ \E j \in Indices : sl1[j] = HandleOf(c, cs)
                      \/ \E u \in Callers : cl1[u].h = HandleOf(c, cs)
    BY DEF PoolInvOf, Kept
  <2>1. HandleOf(c, cs) \in Handles /\ HandleOf(c, cs).conn = c /\ HandleOf(c, cs).gen = cs[c].gen
    BY <1>1, Parts
  <2>2. CASE \E j \in Indices : sl[j] = HandleOf(c, cs)
    <3>1. sl[i] = Lent
      BY DEF PoolInvOf, Exclusive, i
    <3> QED BY <1>3, <2>1, <2>2, <3>1, Marks
  <2>3. CASE \E u \in Callers : cl[u].h = HandleOf(c, cs)
    <3>1. cl[t].h = HandleOf(c, cs) => v = cl[t].h
      BY <2>1, Marks
    <3> QED BY <1>1, <1>3, <2>3, <3>1
  <2> QED BY <2>2, <2>3 DEF PoolInvOf, Kept
<1> QED  BY <1>3, <1>5, <1>6, <1>7, <1>8, <1>9, <1>10 DEF PoolInvOf, i, sl1, cl1

(* The call of caller t goes on with the client it connected. *)
LEMMA AdvanceKeeps ==
  ASSUME NEW sl, NEW cl, NEW cs, NEW alive, NEW f, PoolInvOf(sl, cl, cs, alive, f),
         NEW t \in Callers, cl[t].pc # "idle",
         NEW q \in CallerRecs, q.pc # "idle", q.idx = cl[t].idx, q.h = cl[t].h, CallerSane(q, f)
  PROVE  PoolInvOf(sl, [cl EXCEPT ![t] = q], cs, alive, f)
<1> DEFINE cl1 == [cl EXCEPT ![t] = q]
<1>1. Typed(sl, cl1, cs) /\ cl1[t] = q /\ \A u \in Callers \ {t} : cl1[u] = cl[u]
  BY DEF PoolInvOf, Typed
<1> HIDE DEF cl1
<1>2. \A u \in Callers : CallerSane(cl1[u], f)
  BY <1>1 DEF PoolInvOf
<1>3. \A u \in Callers : cl1[u].h = cl[u].h /\ cl1[u].idx = cl[u].idx
                         /\ (cl1[u].pc = "idle" <=> cl[u].pc = "idle")
  BY <1>1
<1>4. AllKnown(sl, cl1, cs) /\ Unique(sl, cl1)
  BY <1>3 DEF PoolInvOf, AllKnown, Unique
<1>5. LentHeld(sl, cl1, alive) /\ Exclusive(sl, cl1, f) /\ Kept(sl, cl1, cs, alive, f)
  BY <1>3 DEF PoolInvOf, LentHeld, Exclusive, Kept
<1> QED  BY <1>1, <1>2, <1>4, <1>5 DEF PoolInvOf, cl1

(* The connection table changes: a connection in use stays the pool's or not *)
(* until its slot is recycled, and one that opens for the pool has an owner. *)
LEMMA TableKeeps ==
  ASSUME NEW sl, NEW cl, NEW cs, NEW alive, NEW f, PoolInvOf(sl, cl, cs, alive, f),
         NEW cs1 \in [ConnSlots -> ConnRecs],
         \A c \in ConnSlots :
           /\ ConnSane(cs1[c])
           /\ \/ cs1[c].gen > cs[c].gen
              \/ /\ cs1[c].gen = cs[c].gen /\ cs1[c].mine = cs[c].mine
                 /\ cs[c].st # "free" => cs1[c].st # "free"
           /\ cs1[c].st = "open" /\ cs1[c].mine =>
                /\ cs1[c].gen = cs[c].gen
                /\ \/ cs[c].st = "open" /\ cs[c].mine
                   \/ \E t \in Callers : cl[t].h = HandleOf(c, cs)
  PROVE  PoolInvOf(sl, cl, cs1, alive, f)
<1>1. Typed(sl, cl, cs) /\ Typed(sl, cl, cs1)
  BY DEF PoolInvOf, Typed
<1>2. \A h \in Handles : Known(h, cs) => Known(h, cs1)
  <2> SUFFICES ASSUME NEW h \in Handles, Known(h, cs) PROVE Known(h, cs1)
    OBVIOUS
  <2>1. h.conn \in ConnSlots /\ h.gen \in Nat /\ cs[h.conn].gen \in Nat /\ cs1[h.conn].gen \in Nat
    BY <1>1, ClientPoolAssumption DEF Handles, Typed, ConnRecs
  <2> QED BY <2>1 DEF Known
<1>3. AllKnown(sl, cl, cs1)
  BY <1>2 DEF PoolInvOf, AllKnown
<1>4. \A c \in ConnSlots : cs1[c].gen = cs[c].gen => HandleOf(c, cs1) = HandleOf(c, cs)
  BY DEF HandleOf
<1>5. Kept(sl, cl, cs1, alive, f)
  BY <1>4 DEF PoolInvOf, Kept
<1> QED BY <1>1, <1>3, <1>5 DEF PoolInvOf

(* close() of one connection. *)
LEMMA CloseKeeps ==
  ASSUME NEW sl, NEW cl, NEW cs, NEW alive, NEW f, PoolInvOf(sl, cl, cs, alive, f),
         NEW c \in ConnSlots
  PROVE  PoolInvOf(sl, cl, CloseIndex(cs, c), alive, f)
<1> DEFINE cs1 == CloseIndex(cs, c)
<1>1. cs \in [ConnSlots -> ConnRecs]
  BY DEF PoolInvOf, Typed
<1>2. /\ cs1 \in [ConnSlots -> ConnRecs]
      /\ cs1[c].gen = cs[c].gen /\ cs1[c].mine = cs[c].mine
      /\ cs1[c].st = IF cs[c].st \in {"open", "connecting"} THEN "closing" ELSE cs[c].st
      /\ \A d \in ConnSlots \ {c} : cs1[d] = cs[d]
  BY <1>1 DEF CloseIndex, ConnRecs
<1>3. \A d \in ConnSlots : ConnSane(cs[d])
  BY DEF PoolInvOf
<1> HIDE DEF cs1
<1>4. PoolInvOf(sl, cl, cs1, alive, f)
  BY <1>2, <1>3, TableKeeps DEF ConnSane
<1> QED BY <1>4 DEF cs1

(* A client leaves its slot, or the slot is reset: what is lost was not open, *)
(* or some fault is at work.                                                 *)
LEMMA ResetKeeps ==
  ASSUME NEW sl, NEW cl, NEW cs, NEW alive, NEW f, PoolInvOf(sl, cl, cs, alive, f),
         NEW S \in SUBSET Indices,
         "close_all" \in f \/ \A i \in S : sl[i] # Lent,
         f = {} => \A i \in S : sl[i] \in Handles => cs[sl[i].conn].st # "open"
  PROVE  PoolInvOf([i \in Indices |-> IF i \in S THEN Disconnected ELSE sl[i]], cl, cs, alive, f)
<1> DEFINE sl1 == [i \in Indices |-> IF i \in S THEN Disconnected ELSE sl[i]]
<1>1. Typed(sl, cl, cs)
  BY DEF PoolInvOf
<1>2. /\ Typed(sl1, cl, cs)
      /\ \A i \in S : sl1[i] = Disconnected
      /\ \A i \in Indices \ S : sl1[i] = sl[i]
  BY <1>1 DEF Typed
<1> HIDE DEF sl1
<1>3. AllKnown(sl1, cl, cs) /\ Unique(sl1, cl)
  BY <1>2, Marks DEF PoolInvOf, AllKnown, Unique
<1>4. LentHeld(sl1, cl, alive)
  BY <1>2, Marks DEF PoolInvOf, LentHeld
<1>5. Exclusive(sl1, cl, f)
  BY <1>1, <1>2, Parts DEF PoolInvOf, Exclusive
<1>6. Kept(sl1, cl, cs, alive, f)
  BY <1>1, <1>2, Parts DEF PoolInvOf, Kept
<1> QED BY <1>2, <1>3, <1>4, <1>5, <1>6 DEF PoolInvOf, sl1

(* With the pool dropped, the last guard does not go back to a slot. *)
LEMMA ForgetKeeps ==
  ASSUME NEW sl, NEW cl, NEW cs, NEW alive, NEW f, PoolInvOf(sl, cl, cs, alive, f), ~alive,
         NEW t \in Callers
  PROVE  PoolInvOf(sl, [cl EXCEPT ![t] = Idle], cs, alive, f)
<1> DEFINE cl1 == [cl EXCEPT ![t] = Idle]
<1>1. Typed(sl, cl1, cs) /\ cl1[t] = Idle /\ \A u \in Callers \ {t} : cl1[u] = cl[u]
  BY IdleType DEF PoolInvOf, Typed
<1>2. Idle.pc = "idle" /\ Idle.h = NoHandle /\ Idle.result = "none"
  BY DEF Idle
<1> HIDE DEF cl1
<1>3. \A u \in Callers : CallerSane(cl1[u], f)
  BY <1>1, <1>2 DEF PoolInvOf, CallerSane
<1>4. AllKnown(sl, cl1, cs) /\ Unique(sl, cl1)
  BY <1>1, <1>2, Marks DEF PoolInvOf, AllKnown, Unique
<1>5. LentHeld(sl, cl1, alive) /\ Exclusive(sl, cl1, f) /\ Kept(sl, cl1, cs, alive, f)
  BY <1>1, <1>2 DEF PoolInvOf, LentHeld, Exclusive, Kept
<1> QED BY <1>1, <1>3, <1>4, <1>5 DEF PoolInvOf, cl1

-----------------------------------------------------------------------------
(* A scan about to look at iteration r.step, which may be past the last. *)
ScanReady(r) ==
  /\ r \in [op : {"client", "connect_all"}, pc : {"idle", "connecting", "auth", "guard"},
            start : Indices, step : 0 .. Size, idx : Indices, attempted : BOOLEAN,
            visited : SUBSET Indices, h : {NoHandle}, result : {"none"}]
  /\ r.op = "client" => r.visited = {SlotAt(r, j) : j \in 0 .. r.step - 1}

(* The rest of a scan keeps the invariant: caller t, counted as idle, is     *)
(* lent a client, reserves a slot or gives up, having seen every slot.       *)
LEMMA ScanKeeps ==
  ASSUME NEW t \in Callers, NEW r, NEW sl, ScanReady(r), callers \in [Callers -> CallerRecs],
         PoolInvOf(sl, [callers EXCEPT ![t] = Idle], conns, pool_alive, faults),
         Scan(t, r, sl)
  PROVE  PoolInvOf(slots', callers', conns', pool_alive, faults)
<1> DEFINE stops == {k \in r.step .. Size - 1 : Stops(r, sl[SlotAt(r, k)])}
           last == IF stops = {} THEN Size - 1 ELSE Min(stops)
           i == SlotAt(r, last)
           visited == r.visited \union {SlotAt(r, j) : j \in r.step .. last}
           at == [r EXCEPT !.step = last, !.idx = i, !.visited = visited]
           cl == [callers EXCEPT ![t] = Idle]
<1>1. /\ cl[t].pc = "idle"
      /\ \A q : [cl EXCEPT ![t] = q] = [callers EXCEPT ![t] = q]
  BY DEF Idle
<1>2. r.step \in Nat /\ r.start \in Indices /\ stops \subseteq Nat
  BY ClientPoolAssumption DEF ScanReady
<1>3. stops # {} => last \in stops
  <2> HIDE DEF stops
  <2> QED BY <1>2, MinNat
<1>4. /\ last \in Indices /\ (stops # {} => r.step <= last)
      /\ stops = {} => last = Size - 1
  BY <1>2, <1>3, ClientPoolAssumption DEF Indices
<1>5. i \in Indices /\ (stops # {} => Stops(r, sl[i]))
  BY <1>2, <1>3, <1>4, SlotAtType
<1> HIDE DEF stops, last, i
<1>6. visited \subseteq Indices
  <2>1. \A j \in r.step .. last : j \in Indices
    BY <1>2, <1>4, ClientPoolAssumption DEF Indices
  <2> QED BY <1>2, <2>1, SlotAtType DEF ScanReady
<1>7. r.op = "client" /\ (stops # {} \/ r.step <= Size) => visited = {SlotAt(r, j) : j \in 0 .. last}
  <2>1. r.step <= last + 1
    BY <1>2, <1>4, ClientPoolAssumption DEF ScanReady, Indices
  <2>2. 0 .. last = (0 .. r.step - 1) \union (r.step .. last)
    BY <1>2, <1>4, <2>1, ClientPoolAssumption DEF Indices
  <2> QED BY <2>2 DEF ScanReady
<1>8. sl[i] \in {Disconnected, Lent} \union Handles
  BY <1>5, Parts DEF PoolInvOf
<1> HIDE DEF visited, cl
<1>9. CASE /\ stops = {} /\ slots' = sl /\ conns' = conns
           /\ callers' = [callers EXCEPT ![t] =
                IF r.op = "client" THEN GaveUp(visited, r.attempted) ELSE Idle]
  <2> DEFINE q == IF r.op = "client" THEN GaveUp(visited, r.attempted) ELSE Idle
  <2>1. q \in CallerRecs /\ q.pc = "idle" /\ q.h = NoHandle
    BY <1>6, IdleType DEF GaveUp, Idle, CallerRecs
  <2>2. r.op = "client" => visited = Indices
    <3>1. r.step <= Size /\ last = Size - 1
      BY <1>4, <1>9, ClientPoolAssumption DEF ScanReady
    <3> QED BY <1>2, <1>7, <3>1, RoundTrip
  <2>3. q.result # "none" => q.visited = Indices
    BY <2>2 DEF GaveUp, Idle
  <2> HIDE DEF q
  <2>4. PoolInvOf(sl, [cl EXCEPT ![t] = q], conns, pool_alive, faults)
    BY <1>1, <2>1, <2>3, ReturnKeeps DEF cl
  <2> QED BY <1>1, <1>9, <2>4 DEF q
<1>10. CASE /\ stops # {} /\ sl[i] # Disconnected /\ slots' = Take(sl, i) /\ conns' = conns
            /\ callers' = [callers EXCEPT ![t] = GuardOf(i, sl[i])]
  <2>1. sl[i] \in Handles
    BY <1>5, <1>8, <1>10, Marks DEF Stops, ScanReady
  <2>2. PoolInvOf(Take(sl, i), [cl EXCEPT ![t] = GuardOf(i, sl[i])], conns, pool_alive, faults)
    BY <1>1, <1>5, <2>1, LendKeeps DEF cl
  <2> QED BY <1>1, <1>10, <2>2
<1>11. CASE /\ stops # {} /\ sl[i] = Disconnected /\ slots' = Take(sl, i)
            /\ \/ \E c \in FreeConns :
                    /\ callers' = [callers EXCEPT ![t] = [at EXCEPT
                         !.pc = "connecting", !.h = [conn |-> c, gen |-> conns[c].gen]]]
                    /\ conns' = [conns EXCEPT ![c].st = "connecting", ![c].mine = TRUE]
               \/ /\ callers' = [callers EXCEPT ![t] = [at EXCEPT !.pc = "connecting"]]
                  /\ conns' = conns
  <2>1. ASSUME NEW h \in Handles \union {NoHandle}, NEW q, q = [at EXCEPT !.pc = "connecting", !.h = h]
        PROVE  q \in CallerRecs /\ q.pc = "connecting" /\ q.idx = i /\ q.h = h /\ CallerSane(q, faults)
    <3>1. q \in CallerRecs /\ q.pc = "connecting" /\ q.idx = i /\ q.h = h /\ q.result = "none"
          /\ q.op = r.op /\ q.visited = visited /\ q.step = last /\ q.start = r.start
      BY <1>4, <1>5, <1>6, <2>1 DEF ScanReady, CallerRecs
    <3>2. q.op = "client" => q.visited = {SlotAt(q, j) : j \in 0 .. q.step}
      <4>1. \A j : SlotAt(q, j) = SlotAt(r, j)
        BY <3>1 DEF SlotAt
      <4>2. {SlotAt(q, j) : j \in 0 .. last} = {SlotAt(r, j) : j \in 0 .. last}
        BY <4>1
      <4>3. r.op = "client" => visited = {SlotAt(r, j) : j \in 0 .. last}
        BY <1>7, <1>11
      <4> QED BY <3>1, <4>2, <4>3
    <3> QED BY <3>1, <3>2 DEF CallerSane, ScanReady
  <2>2. CASE \E c \in FreeConns :
               /\ callers' = [callers EXCEPT ![t] = [at EXCEPT
                    !.pc = "connecting", !.h = [conn |-> c, gen |-> conns[c].gen]]]
               /\ conns' = [conns EXCEPT ![c].st = "connecting", ![c].mine = TRUE]
    <3>1. PICK c \in FreeConns :
               /\ callers' = [callers EXCEPT ![t] = [at EXCEPT
                    !.pc = "connecting", !.h = [conn |-> c, gen |-> conns[c].gen]]]
               /\ conns' = [conns EXCEPT ![c].st = "connecting", ![c].mine = TRUE]
      BY <2>2
    <3> DEFINE q == [at EXCEPT !.pc = "connecting", !.h = HandleOf(c, conns)]
    <3>2. c \in ConnSlots /\ conns[c].st = "free" /\ conns[c].gen < MaxGen
      BY DEF FreeConns
    <3>3. HandleOf(c, conns) \in Handles
      BY <3>2, Parts DEF PoolInvOf
    <3>4. q \in CallerRecs /\ q.pc = "connecting" /\ q.idx = i /\ q.h = HandleOf(c, conns)
          /\ CallerSane(q, faults)
      BY <2>1, <3>3
    <3>5. callers' = [callers EXCEPT ![t] = q]
      BY <3>1 DEF HandleOf
    <3> HIDE DEF q, at
    <3>6. PoolInvOf(Take(sl, i), [cl EXCEPT ![t] = q], conns', pool_alive, faults)
      BY <1>1, <1>5, <1>11, <3>1, <3>2, <3>4, ReserveKeeps DEF cl
    <3> QED BY <1>1, <1>11, <3>5, <3>6
  <2>3. CASE /\ callers' = [callers EXCEPT ![t] = [at EXCEPT !.pc = "connecting"]]
             /\ conns' = conns
    <3> DEFINE q == [at EXCEPT !.pc = "connecting"]
    <3>1. q = [at EXCEPT !.pc = "connecting", !.h = NoHandle]
      BY DEF ScanReady
    <3>2. q \in CallerRecs /\ q.pc = "connecting" /\ q.idx = i /\ q.h = NoHandle
          /\ CallerSane(q, faults)
      BY <2>1, <3>1
    <3> HIDE DEF q, at
    <3>3. PoolInvOf(Take(sl, i), [cl EXCEPT ![t] = q], conns', pool_alive, faults)
      BY <1>1, <1>5, <1>11, <2>3, <3>2, ReserveKeeps DEF cl
    <3> QED BY <1>1, <1>11, <2>3, <3>3 DEF q
  <2> QED BY <1>11, <2>2, <2>3
<1> QED
  BY <1>9, <1>10, <1>11 DEF Scan, stops, last, i, visited

-----------------------------------------------------------------------------
LEMMA PoolInitInv == PoolInit => PoolIInv
<1> SUFFICES ASSUME PoolInit PROVE PoolIInv
  OBVIOUS
<1>1. /\ Idle \in CallerRecs /\ Idle.pc = "idle" /\ Idle.h = NoHandle /\ Idle.result = "none"
      /\ cursor \in Indices
  BY IdleType, ClientPoolAssumption DEF Idle, Indices, PoolInit
<1>2. Typed(slots, callers, conns)
  BY <1>1, ClientPoolAssumption DEF PoolInit, Typed, ConnRecs
<1>3. /\ \A t \in Callers : callers[t] = Idle
      /\ \A i \in Indices : slots[i] = Disconnected
      /\ \A c \in ConnSlots : conns[c].st = "free" /\ ~conns[c].mine
  BY DEF PoolInit
<1>4. \A t \in Callers : CallerSane(callers[t], faults)
  BY <1>1, <1>3 DEF CallerSane
<1>5. \A c \in ConnSlots : ConnSane(conns[c])
  BY <1>3 DEF ConnSane
<1>6. AllKnown(slots, callers, conns) /\ Unique(slots, callers)
  BY <1>1, <1>3, Marks DEF AllKnown, Unique
<1>7. /\ LentHeld(slots, callers, pool_alive) /\ Exclusive(slots, callers, faults)
      /\ Kept(slots, callers, conns, pool_alive, faults)
  BY <1>1, <1>3, Marks DEF LentHeld, Exclusive, Kept, PoolInit
<1> QED BY <1>1, <1>2, <1>4, <1>5, <1>6, <1>7 DEF PoolIInv, PoolInvOf

(* A call that begins: its caller had nothing in hand. *)
LEMMA CallKeeps ==
  ASSUME PoolIInv, NEW t \in Callers, callers[t].pc = "idle", NEW r, ScanReady(r), Scan(t, r, slots)
  PROVE  PoolInvOf(slots', callers', conns', pool_alive, faults)
<1>1. callers \in [Callers -> CallerRecs]
  BY DEF PoolIInv, PoolInvOf, Typed
<1>2. Idle.pc = "idle" /\ Idle.h = NoHandle /\ Idle.result = "none"
  BY DEF Idle
<1>3. PoolInvOf(slots, [callers EXCEPT ![t] = Idle], conns, pool_alive, faults)
  BY <1>2, IdleType, ReturnKeeps DEF PoolIInv
<1> QED BY <1>1, <1>3, ScanKeeps

(* A call that goes on after its connect: what it leaves in its slot, and    *)
(* then the rest of its scan.                                                *)
LEMMA ResumeKeeps ==
  ASSUME PoolIInv, NEW t \in Callers, callers[t].pc \in {"connecting", "auth"}, NEW v,
         PoolInvOf([slots EXCEPT ![callers[t].idx] = v], [callers EXCEPT ![t] = Idle], conns,
                   pool_alive, faults),
         NEW a \in BOOLEAN,
         Scan(t, [callers[t] EXCEPT !.step = @ + 1, !.attempted = a, !.h = NoHandle],
              [slots EXCEPT ![callers[t].idx] = v])
  PROVE  PoolInvOf(slots', callers', conns', pool_alive, faults)
<1> DEFINE r == callers[t]
           q == [r EXCEPT !.step = @ + 1, !.attempted = a, !.h = NoHandle]
<1>1. callers \in [Callers -> CallerRecs] /\ r \in CallerRecs /\ CallerSane(r, faults)
  BY DEF PoolIInv, PoolInvOf, Typed
<1>2. /\ r.result = "none" /\ r.op \in {"client", "connect_all"}
      /\ r.op = "client" => r.visited = {SlotAt(r, j) : j \in 0 .. r.step}
  BY <1>1 DEF CallerSane
<1>3. /\ r.step \in Nat /\ r.step < Size
      /\ q.op = r.op /\ q.start = r.start /\ q.step = r.step + 1 /\ q.visited = r.visited
  BY <1>1, ClientPoolAssumption DEF CallerRecs, Indices
<1>4. q \in [op : {"client", "connect_all"}, pc : {"idle", "connecting", "auth", "guard"},
            start : Indices, step : 0 .. Size, idx : Indices, attempted : BOOLEAN,
            visited : SUBSET Indices, h : {NoHandle}, result : {"none"}]
  <2>1. r.step + 1 \in 0 .. Size
    BY <1>3, ClientPoolAssumption
  <2> HIDE DEF r
  <2> QED BY <1>1, <1>2, <2>1 DEF CallerRecs
<1> HIDE DEF r, q
<1>5. r.op = "client" => q.visited = {SlotAt(q, j) : j \in 0 .. q.step - 1}
  <2>1. \A j : SlotAt(q, j) = SlotAt(r, j)
    BY <1>3 DEF SlotAt
  <2>2. {SlotAt(q, j) : j \in 0 .. r.step} = {SlotAt(r, j) : j \in 0 .. r.step}
    BY <2>1
  <2>3. q.step - 1 = r.step
    BY <1>3
  <2> QED BY <1>2, <1>3, <2>2, <2>3
<1>6. ScanReady(q)
  BY <1>3, <1>4, <1>5 DEF ScanReady
<1> QED BY <1>1, <1>6, ScanKeeps DEF r, q

-----------------------------------------------------------------------------
(* One lemma per operation. *)

LEMMA ClientKeeps ==
  ASSUME PoolIInv, NEW t \in Callers, Client(t) \/ ConnectAll(t)
  PROVE  PoolIInv'
<1>0. /\ Idle.pc = "idle" /\ Idle.step \in 0 .. Size /\ Idle.h = NoHandle /\ Idle.result = "none"
      /\ cursor \in Indices
  BY ClientPoolAssumption DEF Idle, PoolIInv
<1>1. CASE Client(t)
  <2> DEFINE r == [Idle EXCEPT !.op = "client", !.start = cursor]
  <2>1. r \in [op : {"client", "connect_all"}, pc : {"idle", "connecting", "auth", "guard"},
               start : Indices, step : 0 .. Size, idx : Indices, attempted : BOOLEAN,
               visited : SUBSET Indices, h : {NoHandle}, result : {"none"}]
    BY <1>0, IdleType DEF CallerRecs
  <2>2. r.visited = {} /\ r.step = 0
    BY DEF Idle
  <2>3. {SlotAt(r, j) : j \in 0 .. 0 - 1} = {}
    OBVIOUS
  <2> HIDE DEF r
  <2>4. ScanReady(r)
    BY <2>1, <2>2, <2>3 DEF ScanReady
  <2>5. callers[t].pc = "idle" /\ Scan(t, r, slots)
    BY <1>1 DEF Client, r
  <2>6. PoolInvOf(slots', callers', conns', pool_alive, faults)
    BY <2>4, <2>5, CallKeeps
  <2>7. cursor' \in Indices
    BY <1>1, ClientPoolAssumption DEF Client, Advanced, PoolIInv, Indices
  <2> QED BY <1>1, <2>6, <2>7 DEF Client, PoolIInv
<1>2. CASE ConnectAll(t)
  <2> DEFINE r == [Idle EXCEPT !.op = "connect_all"]
  <2>1. ScanReady(r)
    BY <1>0, IdleType DEF CallerRecs, ScanReady
  <2>2. callers[t].pc = "idle" /\ Scan(t, r, slots)
    BY <1>2 DEF ConnectAll
  <2> HIDE DEF r
  <2>3. PoolInvOf(slots', callers', conns', pool_alive, faults)
    BY <2>1, <2>2, CallKeeps
  <2> QED BY <1>2, <2>3 DEF ConnectAll, PoolIInv
<1> QED BY <1>1, <1>2

(* do_connect returned a client. *)
LEMMA ConnectedKeeps ==
  ASSUME PoolIInv, NEW t \in Callers, callers[t].pc \in {"connecting", "auth"},
         callers[t].h # NoHandle, Connected(t, callers[t])
  PROVE  PoolInvOf(slots', callers', conns', pool_alive, faults)
<1> DEFINE r == callers[t]
<1>1. r \in CallerRecs /\ PoolInvOf(slots, callers, conns, pool_alive, faults)
  BY DEF PoolIInv, PoolInvOf, Typed
<1>2. CASE r.op = "client" /\ callers' = [callers EXCEPT ![t] = GuardOf(r.idx, r.h)]
           /\ slots' = slots /\ conns' = conns
  <2> DEFINE g == GuardOf(r.idx, r.h)
  <2>1. g \in CallerRecs /\ g.pc = "guard" /\ g.idx = r.idx /\ g.h = r.h /\ g.result = "none"
    BY <1>1, IdleType DEF GuardOf, Idle, CallerRecs
  <2> HIDE DEF g
  <2>2. CallerSane(g, faults)
    BY <2>1 DEF CallerSane
  <2>3. PoolInvOf(slots, [callers EXCEPT ![t] = g], conns, pool_alive, faults)
    BY <1>1, <2>1, <2>2, AdvanceKeeps
  <2> QED BY <1>2, <2>3 DEF g
<1>3. CASE r.op = "connect_all"
           /\ Scan(t, [r EXCEPT !.step = @ + 1, !.h = NoHandle], [slots EXCEPT ![r.idx] = r.h])
  <2>1. [r EXCEPT !.step = @ + 1, !.h = NoHandle]
          = [r EXCEPT !.step = @ + 1, !.attempted = r.attempted, !.h = NoHandle]
    BY <1>1 DEF CallerRecs
  <2>2. r.attempted \in BOOLEAN
    BY <1>1 DEF CallerRecs
  <2>3. PoolInvOf([slots EXCEPT ![r.idx] = r.h], [callers EXCEPT ![t] = Idle], conns,
                  pool_alive, faults)
    BY <1>1, PutBackKeeps
  <2> QED BY <1>3, <2>1, <2>2, <2>3, ResumeKeeps
<1> QED BY <1>2, <1>3 DEF Connected

(* do_connect failed, on a connection that is not open or after an AUTH fault. *)
LEMMA ConnectFailedKeeps ==
  ASSUME PoolIInv, NEW t \in Callers, callers[t].pc \in {"connecting", "auth"},
         faults = {} => ~ConnectOk(callers[t]), ConnectFailed(t, callers[t])
  PROVE  PoolInvOf(slots', callers', conns', pool_alive, faults)
<1> DEFINE r == callers[t]
           sl == [slots EXCEPT ![r.idx] = Disconnected]
<1>1. PoolInvOf(sl, [callers EXCEPT ![t] = Idle], conns, pool_alive, faults)
  BY PutBackKeeps DEF PoolIInv, ConnectOk
<1>2. CASE r.op = "client"
           /\ Scan(t, [r EXCEPT !.step = @ + 1, !.attempted = TRUE, !.h = NoHandle], sl)
  BY <1>1, <1>2, ResumeKeeps
<1>3. CASE slots' = sl /\ callers' = [callers EXCEPT ![t] = Idle] /\ conns' = conns
  BY <1>1, <1>3
<1> QED BY <1>2, <1>3 DEF ConnectFailed

LEMMA PollConnectKeeps ==
  ASSUME PoolIInv, NEW t \in Callers, PollConnect(t)
  PROVE  PoolIInv'
<1> DEFINE r == callers[t]
<1>1. r.pc = "connecting" /\ r \in CallerRecs /\ CallerSane(r, faults)
      /\ PoolInvOf(slots, callers, conns, pool_alive, faults)
  BY DEF PoolIInv, PoolInvOf, Typed, PollConnect
<1>2. CASE ~ConnectOk(r) /\ ConnectFailed(t, r)
  BY <1>1, <1>2, ConnectFailedKeeps DEF PollConnect, PoolIInv
<1>3. CASE ConnectOk(r) /\ Connected(t, r)
  <2>1. r.h # NoHandle
    BY <1>3 DEF ConnectOk
  <2> QED BY <1>1, <1>3, <2>1, ConnectedKeeps DEF PollConnect, PoolIInv
<1>4. CASE ConnectOk(r) /\ "auth" \in faults /\ callers' = [callers EXCEPT ![t].pc = "auth"]
           /\ slots' = slots /\ conns' = conns
  <2> DEFINE q == [r EXCEPT !.pc = "auth"]
  <2>1. q \in CallerRecs /\ q.pc = "auth" /\ q.idx = r.idx /\ q.h = r.h /\ q.result = r.result
        /\ q.op = r.op /\ q.visited = r.visited /\ q.step = r.step /\ q.start = r.start
    BY <1>1 DEF CallerRecs
  <2>2. callers' = [callers EXCEPT ![t] = q]
    BY <1>4
  <2>3. r.h # NoHandle
    BY <1>4 DEF ConnectOk
  <2> HIDE DEF q, r
  <2>4. {SlotAt(q, j) : j \in 0 .. q.step} = {SlotAt(r, j) : j \in 0 .. r.step}
    BY <2>1 DEF SlotAt
  <2>5. CallerSane(q, faults)
    BY <1>1, <1>4, <2>1, <2>3, <2>4 DEF CallerSane
  <2>6. PoolInvOf(slots, [callers EXCEPT ![t] = q], conns, pool_alive, faults)
    BY <1>1, <2>1, <2>5, AdvanceKeeps DEF r
  <2> QED BY <1>4, <2>2, <2>6 DEF PollConnect, PoolIInv
<1> QED BY <1>2, <1>3, <1>4 DEF PollConnect

(* maybe_auth returned, or the pending call was dropped. *)
LEMMA PollAuthKeeps ==
  ASSUME PoolIInv, NEW t \in Callers, PollAuth(t) \/ Cancel(t)
  PROVE  PoolIInv'
<1> DEFINE r == callers[t]
<1>1. r \in CallerRecs /\ CallerSane(r, faults)
      /\ PoolInvOf(slots, callers, conns, pool_alive, faults)
  BY DEF PoolIInv, PoolInvOf, Typed
<1>2. CASE PollAuth(t)
  <2>1. r.pc = "auth" /\ r.h # NoHandle /\ "auth" \in faults
    BY <1>1, <1>2 DEF PollAuth, CallerSane
  <2>2. faults # {}
    BY <2>1
  <2>3. PoolInvOf(slots', callers', conns', pool_alive, faults)
    BY <1>2, <2>1, <2>2, ConnectedKeeps, ConnectFailedKeeps DEF PollAuth
  <2> QED BY <1>2, <2>3 DEF PollAuth, PoolIInv
<1>3. CASE Cancel(t)
  <2>1. r.pc # "idle" /\ (faults = {} => ~ConnectResolved(r))
    BY <1>3 DEF Cancel
  <2>2. PoolInvOf([slots EXCEPT ![r.idx] = Disconnected], [callers EXCEPT ![t] = Idle], conns,
                  pool_alive, faults)
    BY <1>1, <2>1, PutBackKeeps DEF ConnectResolved
  <2> QED BY <1>3, <2>2 DEF Cancel, PoolIInv
<1> QED BY <1>2, <1>3

LEMMA DropGuardKeeps ==
  ASSUME PoolIInv, NEW t \in Callers, NEW e \in BOOLEAN, e \/ "teardown" \in faults, DropGuard(t, e)
  PROVE  PoolIInv'
<1> DEFINE r == callers[t]
           alive == e /\ IsAlive(r.h)
<1>1. r.pc = "guard" /\ r.h \in Handles /\ r.h.conn \in ConnSlots
      /\ PoolInvOf(slots, callers, conns, pool_alive, faults)
  <2>1. CallerSane(r, faults) /\ Typed(slots, callers, conns)
    BY DEF PoolIInv, PoolInvOf
  <2> QED BY <2>1, Parts DEF PoolIInv, DropGuard, CallerSane
<1>2. CASE ~pool_alive /\ Guards = {t}
  <2>1. PoolInvOf(slots, callers', conns, pool_alive, faults)
    BY <1>1, <1>2, ForgetKeeps DEF DropGuard
  <2>2. PoolInvOf(slots, callers', CloseIndex(conns, r.h.conn), pool_alive, faults)
    BY <1>1, <2>1, CloseKeeps
  <2>3. conns' = CloseIndex(conns, r.h.conn) \/ conns' = conns
    BY <1>2 DEF DropGuard
  <2> QED BY <1>2, <2>1, <2>2, <2>3 DEF DropGuard, PoolIInv
<1>3. CASE ~(~pool_alive /\ Guards = {t})
  <2>1. slots' = [slots EXCEPT ![r.idx] = IF alive THEN r.h ELSE Disconnected]
        /\ conns' = conns /\ callers' = [callers EXCEPT ![t] = Idle]
        /\ pool_alive' = pool_alive /\ faults' = faults /\ cursor' = cursor
    BY <1>3 DEF DropGuard
  <2>2. faults = {} => e
    OBVIOUS
  <2>3. CASE alive
    BY <1>1, <2>1, <2>3, PutBackKeeps, Marks DEF PoolIInv
  <2>4. CASE ~alive
    <3>1. PoolInvOf([slots EXCEPT ![r.idx] = Disconnected], [callers EXCEPT ![t] = Idle], conns,
                    pool_alive, faults)
      BY <1>1, <2>2, <2>4, PutBackKeeps DEF IsAlive
    <3> QED BY <2>1, <2>4, <3>1 DEF PoolIInv
  <2> QED BY <2>3, <2>4
<1> QED BY <1>2, <1>3

LEMMA EvictKeeps ==
  ASSUME PoolIInv, NEW t \in Callers, Evict(t)
  PROVE  PoolIInv'
<1>1. callers[t].h.conn \in ConnSlots
  <2>1. CallerSane(callers[t], faults) /\ Typed(slots, callers, conns)
    BY DEF PoolIInv, PoolInvOf
  <2>2. callers[t].pc = "guard"
    BY Zenon DEF Evict
  <2>3. callers[t].h \in Handles
    BY Zenon, <2>1, <2>2, HasHandle
  <2> QED BY Zenon, <2>1, <2>3, Parts
<1>2. PoolInvOf(slots, callers, CloseIndex(conns, callers[t].h.conn), pool_alive, faults)
  BY <1>1, CloseKeeps DEF PoolIInv
<1> QED BY <1>2 DEF Evict, PoolIInv

LEMMA MarkDisconnectedKeeps ==
  ASSUME PoolIInv, NEW i \in Indices, MarkDisconnected(i)
  PROVE  PoolIInv'
<1> DEFINE cs == CloseIndex(conns, slots[i].conn)
           S == {i}
           sl == [j \in Indices |-> IF j \in S THEN Disconnected ELSE slots[j]]
<1>1. Typed(slots, callers, conns)
  BY DEF PoolIInv, PoolInvOf
<1>2. slots[i] \in Handles /\ slots[i].conn \in ConnSlots
  BY <1>1, Parts DEF MarkDisconnected
<1>3. PoolInvOf(slots, callers, cs, pool_alive, faults)
  BY <1>2, CloseKeeps DEF PoolIInv
<1>4. cs[slots[i].conn].st # "open"
  BY <1>1, <1>2 DEF CloseIndex, Typed, ConnRecs
<1>5. slots' = sl /\ conns' = cs
  BY <1>1 DEF MarkDisconnected, Typed
<1>6. /\ S \in SUBSET Indices
      /\ \A j \in S : slots[j] # Lent
      /\ \A j \in S : cs[slots[j].conn].st # "open"
  BY <1>2, <1>4, Marks
<1> HIDE DEF cs, S
<1>7. PoolInvOf(sl, callers, cs, pool_alive, faults)
  BY <1>3, <1>6, ResetKeeps
<1> QED BY <1>5, <1>7 DEF MarkDisconnected, PoolIInv

LEMMA CloseAllKeeps ==
  ASSUME PoolIInv, CloseAll
  PROVE  PoolIInv'
<1>1. PoolInvOf(slots, callers, conns, pool_alive, faults) /\ Typed(slots, callers, conns)
      /\ \A c \in ConnSlots : ConnSane(conns[c])
  BY DEF PoolIInv, PoolInvOf
<1>2. /\ conns' \in [ConnSlots -> ConnRecs]
      /\ \A c \in ConnSlots : conns'[c] = conns[c] \/ conns'[c] = CloseIndex(conns, c)[c]
  <2>1. \A c \in ConnSlots : CloseIndex(conns, c)[c] \in ConnRecs /\ conns[c] \in ConnRecs
    BY <1>1 DEF CloseIndex, Typed, ConnRecs
  <2> QED BY <2>1 DEF CloseAll
<1>3. \A c \in ConnSlots : /\ CloseIndex(conns, c)[c].gen = conns[c].gen
                           /\ CloseIndex(conns, c)[c].mine = conns[c].mine
                           /\ CloseIndex(conns, c)[c].st =
                                IF conns[c].st \in {"open", "connecting"} THEN "closing" ELSE conns[c].st
  BY <1>1 DEF CloseIndex, Typed, ConnRecs
<1>4. PoolInvOf(slots, callers, conns', pool_alive, faults)
  <2>1. ASSUME NEW c \in ConnSlots
        PROVE  /\ ConnSane(conns'[c])
               /\ conns'[c].gen = conns[c].gen /\ conns'[c].mine = conns[c].mine
               /\ conns[c].st # "free" => conns'[c].st # "free"
               /\ conns'[c].st = "open" => conns[c].st = "open"
    <3>1. ConnSane(conns[c])
      BY Zenon, <1>1
    <3>2. CASE conns'[c] = conns[c]
      BY Zenon, <3>1, <3>2
    <3>3. CASE conns'[c] = CloseIndex(conns, c)[c]
      <4>1. /\ conns'[c].gen = conns[c].gen /\ conns'[c].mine = conns[c].mine
            /\ conns'[c].st = IF conns[c].st \in {"open", "connecting"} THEN "closing" ELSE conns[c].st
        BY Zenon, <1>3, <3>3
      <4> QED BY <3>1, <4>1 DEF ConnSane
    <3> QED BY Zenon, <1>2, <3>2, <3>3
  <2> QED BY Zenon, <1>1, <1>2, <2>1, TableKeeps
<1>5. slots' = [i \in Indices |-> IF i \in Indices THEN Disconnected ELSE slots[i]]
      /\ "close_all" \in faults /\ faults # {}
  BY DEF CloseAll
<1>6. PoolInvOf(slots', callers, conns', pool_alive, faults)
  BY <1>4, <1>5, ResetKeeps
<1> QED BY <1>6 DEF CloseAll, PoolIInv

LEMMA DropPoolKeeps ==
  ASSUME PoolIInv, DropPool
  PROVE  PoolIInv'
<1>1. /\ slots' = slots /\ callers' = callers /\ conns' = conns /\ faults' = faults
      /\ cursor' = cursor /\ ~pool_alive' /\ faults # {}
  BY DEF DropPool
<1>2. LentHeld(slots, callers, pool_alive') /\ Kept(slots, callers, conns, pool_alive', faults)
  BY <1>1 DEF LentHeld, Kept
<1> QED BY <1>1, <1>2 DEF PoolIInv, PoolInvOf

(* The worker's table: connects that complete, connections that close, slots *)
(* recycled and taken by others.                                             *)
LEMMA TableStepKeeps ==
  ASSUME PoolIInv, NEW c \in ConnSlots,
         HandleConnect(c) \/ PeerCloses(c) \/ HandleClose(c) \/ OtherOpens(c)
  PROVE  PoolIInv'
<1>1. PoolInvOf(slots, callers, conns, pool_alive, faults) /\ conns \in [ConnSlots -> ConnRecs]
      /\ \A d \in ConnSlots : ConnSane(conns[d])
  BY DEF PoolIInv, PoolInvOf, Typed
<1>2. \A d \in ConnSlots : conns[d].gen \in 0 .. MaxGen /\ conns[d].mine \in BOOLEAN
  BY <1>1 DEF ConnRecs
<1>3. ASSUME PoolInvOf(slots, callers, conns', pool_alive, faults) PROVE PoolIInv'
  BY <1>3 DEF PoolIInv, HandleConnect, PeerCloses, HandleClose, OtherOpens
<1>4. CASE HandleConnect(c)
  <2>1. PICK st \in {"open", "closing", "failed"} :
          conns' = [conns EXCEPT ![c].st = st] /\ (st = "open" => Waited(c))
    BY <1>4 DEF HandleConnect
  <2>2. /\ conns' \in [ConnSlots -> ConnRecs]
        /\ conns'[c].gen = conns[c].gen /\ conns'[c].mine = conns[c].mine /\ conns'[c].st = st
        /\ \A d \in ConnSlots \ {c} : conns'[d] = conns[d]
    BY <1>1, <2>1 DEF ConnRecs
  <2>3. st = "open" => \E t \in Callers : callers[t].h = HandleOf(c, conns)
    BY <2>1 DEF Waited, HandleOf
  <2>4. conns[c].st = "connecting"
    BY <1>4 DEF HandleConnect
  <2>5. \A d \in ConnSlots : ConnSane(conns'[d])
    BY <1>1, <2>2, <2>4 DEF ConnSane
  <2>6. PoolInvOf(slots, callers, conns', pool_alive, faults)
    BY <1>1, <2>2, <2>3, <2>4, <2>5, TableKeeps
  <2> QED BY <1>3, <2>6
<1>5. CASE PeerCloses(c)
  BY <1>1, <1>3, <1>5, CloseKeeps DEF PeerCloses
<1>6. CASE HandleClose(c)
  <2>1. conns[c].gen < MaxGen /\ conns[c].gen \in Nat /\ MaxGen \in Nat
    BY <1>1, <1>2, <1>6, ClientPoolAssumption DEF HandleClose, ConnSane
  <2>2. /\ conns' \in [ConnSlots -> ConnRecs]
        /\ conns'[c].gen = conns[c].gen + 1 /\ ~conns'[c].mine /\ conns'[c].st = "free"
        /\ \A d \in ConnSlots \ {c} : conns'[d] = conns[d]
    BY <1>1, <1>6, <2>1 DEF HandleClose, ConnRecs
  <2>3. \A d \in ConnSlots : ConnSane(conns'[d])
    BY <1>1, <2>2 DEF ConnSane
  <2>4. conns'[c].gen > conns[c].gen
    BY <2>1, <2>2
  <2>5. PoolInvOf(slots, callers, conns', pool_alive, faults)
    BY <1>1, <2>2, <2>3, <2>4, TableKeeps
  <2> QED BY <1>3, <2>5
<1>7. CASE OtherOpens(c)
  <2>1. conns[c].st = "free" /\ conns[c].gen < MaxGen /\ ~conns[c].mine
    BY <1>1, <1>7 DEF OtherOpens, FreeConns, ConnSane
  <2>2. /\ conns' \in [ConnSlots -> ConnRecs]
        /\ conns'[c].gen = conns[c].gen /\ conns'[c].mine = conns[c].mine /\ conns'[c].st = "open"
        /\ \A d \in ConnSlots \ {c} : conns'[d] = conns[d]
    BY <1>1, <1>7 DEF OtherOpens, ConnRecs
  <2>3. \A d \in ConnSlots : ConnSane(conns'[d])
    BY <1>1, <2>1, <2>2 DEF ConnSane
  <2>4. PoolInvOf(slots, callers, conns', pool_alive, faults)
    BY <1>1, <2>1, <2>2, <2>3, TableKeeps
  <2> QED BY <1>3, <2>4
<1> QED BY <1>4, <1>5, <1>6, <1>7

-----------------------------------------------------------------------------
LEMMA PoolStepInv == PoolIInv /\ [PoolNext]_poolVars => PoolIInv'
<1> SUFFICES ASSUME PoolIInv, [PoolNext]_poolVars PROVE PoolIInv'
  OBVIOUS
<1>1. CASE UNCHANGED poolVars
  BY <1>1 DEF poolVars, PoolIInv
<1>2. ASSUME NEW t \in Callers, Client(t) \/ ConnectAll(t)
      PROVE  PoolIInv'
  BY <1>2, ClientKeeps
<1>3. ASSUME NEW t \in Callers, PollConnect(t) PROVE PoolIInv'
  BY <1>3, PollConnectKeeps
<1>4. ASSUME NEW t \in Callers, PollAuth(t) \/ Cancel(t) PROVE PoolIInv'
  BY <1>4, PollAuthKeeps
<1>5. ASSUME NEW t \in Callers, DropGuard(t, TRUE) \/ ("teardown" \in faults /\ DropGuard(t, FALSE))
      PROVE  PoolIInv'
  BY <1>5, DropGuardKeeps
<1>6. ASSUME NEW t \in Callers, Evict(t) PROVE PoolIInv'
  BY <1>6, EvictKeeps
<1>7. ASSUME NEW i \in Indices, MarkDisconnected(i) PROVE PoolIInv'
  BY <1>7, MarkDisconnectedKeeps
<1>8. CASE CloseAll
  BY <1>8, CloseAllKeeps
<1>9. CASE DropPool
  BY <1>9, DropPoolKeeps
<1>10. ASSUME NEW c \in ConnSlots, HandleConnect(c) \/ PeerCloses(c) \/ HandleClose(c) \/ OtherOpens(c)
       PROVE  PoolIInv'
  BY <1>10, TableStepKeeps
<1> QED BY <1>1, <1>2, <1>3, <1>4, <1>5, <1>6, <1>7, <1>8, <1>9, <1>10 DEF PoolNext

LEMMA PoolInvGives == PoolIInv => ClientsOwned
<1> SUFFICES ASSUME PoolIInv PROVE ClientsOwned
  OBVIOUS
<1>1. /\ Typed(slots, callers, conns) /\ cursor \in Indices
      /\ \A t \in Callers : CallerSane(callers[t], faults)
      /\ Unique(slots, callers)
  BY DEF PoolIInv, PoolInvOf
<1>2. PoolTypeOK
  BY <1>1 DEF PoolTypeOK, Typed, CallerRecs, ConnRecs, CallerSane
<1>3. OneOwner
  <2>1. \A t \in Guards : t \in Callers /\ callers[t].h \in Handles
    BY Zenon, <1>1, HasHandle DEF Guards
  <2>2. \A u \in Guards : u \in Callers
    BY DEF Guards
  <2> QED BY <1>1, <2>1, <2>2 DEF OneOwner, Unique
<1>4. LentSlotIsHeld
  <2> SUFFICES ASSUME NEW i \in Indices, pool_alive, slots[i] = Lent
               PROVE  /\ Holders(i) # {}
                      /\ "close_all" \notin faults => Cardinality(Holders(i)) = 1
    BY DEF LentSlotIsHeld
  <2>1. \A t \in Callers : callers[t].pc # "idle" <=> callers[t].pc \in {"connecting", "auth", "guard"}
    BY <1>1 DEF Typed, CallerRecs
  <2>2. PICK t \in Callers : callers[t].pc # "idle" /\ callers[t].idx = i
    BY DEF PoolIInv, PoolInvOf, LentHeld
  <2>3. t \in Holders(i)
    BY <2>1, <2>2 DEF Holders
  <2>4. "close_all" \notin faults => Holders(i) = {t}
    BY <2>1, <2>2, <2>3 DEF PoolIInv, PoolInvOf, Exclusive, Holders
  <2> QED BY <2>3, <2>4, FS_Singleton
<1>5. NoOpenConnectionUnowned
  <2> SUFFICES ASSUME faults = {}, NEW c \in ConnSlots, conns[c].st = "open", conns[c].mine
               PROVE  HandleOf(c, conns) \in Owned
    BY DEF NoOpenConnectionUnowned, HandleOf
  <2>1. \/ \E i \in Indices : slots[i] = HandleOf(c, conns)
        \/ \E t \in Callers : callers[t].h = HandleOf(c, conns)
    BY DEF PoolIInv, PoolInvOf, Kept
  <2>2. HandleOf(c, conns) \in Handles
    BY <1>1, Parts
  <2> QED BY <2>1, <2>2, Marks DEF Owned
<1>6. GivesUpAfterEverySlot
  BY <1>1 DEF GivesUpAfterEverySlot, CallerSane
<1> QED BY <1>2, <1>3, <1>4, <1>5, <1>6 DEF ClientsOwned

(* In a pool of any size, with any number of callers and of connection       *)
(* slots: whatever calls, cancellations, drops and closes interleave, a      *)
(* client has one owner, a lent slot has a holder, no open connection is     *)
(* lost without a fault, and client() gives up only after every slot.        *)
THEOREM ClientsKept == PoolSpec => []ClientsOwned
<1>1. PoolInit => PoolIInv
  BY PoolInitInv
<1>2. PoolIInv /\ [PoolNext]_poolVars => PoolIInv'
  BY PoolStepInv
<1>3. PoolIInv => ClientsOwned
  BY PoolInvGives
<1> QED BY <1>1, <1>2, <1>3, PTL DEF PoolSpec

-----------------------------------------------------------------------------
(* What a step of the pool or of the table may do to a connection that is    *)
(* open and not the pool's.                                                  *)
OthersKept ==
  \A c \in ConnSlots :
    (conns[c].st = "open" /\ conns'[c].st = "closing" /\ ~conns[c].mine)
      => \/ PeerCloses(c)
         \/ \E i \in Indices : MarkDisconnected(i)
         \/ \E t \in Callers : Evict(t)

(* A live handle of the pool names a connection the pool opened. *)
LEMMA LiveIsMine ==
  ASSUME PoolIInv, NEW h \in Handles, IsAlive(h),
         \/ \E i \in Indices : slots[i] = h
         \/ \E t \in Callers : callers[t].h = h
  PROVE  h.conn \in ConnSlots /\ conns[h.conn].mine
<1>1. h.conn \in ConnSlots /\ h.gen \in Nat
  BY ClientPoolAssumption DEF Handles
<1>2. Known(h, conns)
  BY DEF PoolIInv, PoolInvOf, AllKnown
<1> QED BY <1>1, <1>2 DEF Known, IsAlive

(* close() of such a connection touches no other. *)
LEMMA CloseOne ==
  ASSUME PoolIInv, NEW d \in ConnSlots, conns[d].mine, conns' = CloseIndex(conns, d)
  PROVE  OthersKept
<1>1. \A c \in ConnSlots \ {d} : conns'[c] = conns[c]
  BY DEF CloseIndex, PoolIInv, PoolInvOf, Typed
<1> QED BY <1>1 DEF OthersKept

(* A scan opens connections and closes none. *)
LEMMA ScanOpens ==
  ASSUME PoolIInv, NEW t \in Callers, NEW r, NEW sl, Scan(t, r, sl)
  PROVE  OthersKept
<1>1. \/ conns' = conns
      \/ \E c \in FreeConns : conns' = [conns EXCEPT ![c].st = "connecting", ![c].mine = TRUE]
  BY DEF Scan
<1>2. conns \in [ConnSlots -> ConnRecs] /\ FreeConns \subseteq ConnSlots
  BY DEF PoolIInv, PoolInvOf, Typed, FreeConns
<1>3. ASSUME NEW c \in FreeConns, conns' = [conns EXCEPT ![c].st = "connecting", ![c].mine = TRUE]
      PROVE  OthersKept
  <2>1. conns'[c].st = "connecting" /\ \A d \in ConnSlots \ {c} : conns'[d] = conns[d]
    BY <1>2, <1>3 DEF ConnRecs
  <2> QED BY <2>1 DEF OthersKept
<1>4. CASE conns' = conns
  BY <1>4 DEF OthersKept
<1> QED BY <1>1, <1>3, <1>4

LEMMA OthersKeptStep == PoolIInv /\ [PoolNext]_poolVars => OthersKept
<1> SUFFICES ASSUME PoolIInv, [PoolNext]_poolVars PROVE OthersKept
  OBVIOUS
<1>0. ASSUME conns' = conns PROVE OthersKept
  BY <1>0 DEF OthersKept
<1>1. Typed(slots, callers, conns) /\ \A t \in Callers : CallerSane(callers[t], faults)
  BY DEF PoolIInv, PoolInvOf
<1>2. \A t \in Guards : t \in Callers /\ callers[t].h \in Handles
  BY Zenon, <1>1, HasHandle DEF Guards
<1>3. CASE UNCHANGED poolVars
  BY <1>0, <1>3 DEF poolVars
<1>4. ASSUME NEW t \in Callers, Client(t) \/ ConnectAll(t) PROVE OthersKept
  BY <1>4, ScanOpens DEF Client, ConnectAll
<1>5. ASSUME NEW t \in Callers, PollConnect(t) \/ PollAuth(t) PROVE OthersKept
  BY <1>0, <1>5, ScanOpens DEF PollConnect, PollAuth, Connected, ConnectFailed
<1>6. ASSUME NEW t \in Callers, Cancel(t) PROVE OthersKept
  BY <1>0, <1>6 DEF Cancel
<1>7. ASSUME NEW t \in Callers, NEW e \in BOOLEAN, DropGuard(t, e) PROVE OthersKept
  <2>1. callers[t].h \in Handles
    BY <1>2, <1>7 DEF DropGuard, Guards
  <2>2. conns' = conns \/ (IsAlive(callers[t].h) /\ conns' = CloseIndex(conns, callers[t].h.conn))
    BY <1>7 DEF DropGuard
  <2> QED BY <1>0, <2>1, <2>2, LiveIsMine, CloseOne
<1>8. ASSUME NEW t \in Callers, Evict(t) PROVE OthersKept
  BY <1>8 DEF OthersKept
<1>9. ASSUME NEW i \in Indices, MarkDisconnected(i) PROVE OthersKept
  BY <1>9 DEF OthersKept
<1>10. CASE CloseAll
  <2> SUFFICES ASSUME NEW c \in ConnSlots, conns[c].st = "open", conns'[c].st = "closing", ~conns[c].mine
               PROVE  FALSE
    BY DEF OthersKept
  <2>1. PICK j \in Indices : /\ slots[j] \notin {Disconnected, Lent} /\ IsAlive(slots[j])
                             /\ slots[j].conn = c
    BY <1>10 DEF CloseAll
  <2>2. slots[j] \in Handles
    BY <1>1, <2>1, Parts
  <2> QED BY <2>1, <2>2, LiveIsMine
<1>11. CASE DropPool
  BY <1>0, <1>11 DEF DropPool
<1>12. ASSUME NEW c \in ConnSlots, HandleConnect(c) \/ HandleClose(c) \/ OtherOpens(c)
       PROVE  OthersKept
  <2>1. conns \in [ConnSlots -> ConnRecs] /\ conns[c].st # "open"
    BY <1>1, <1>12 DEF Typed, HandleConnect, HandleClose, OtherOpens, FreeConns
  <2>2. \A d \in ConnSlots \ {c} : conns'[d] = conns[d]
    BY <1>12, <2>1 DEF HandleConnect, HandleClose, OtherOpens
  <2> QED BY <2>1, <2>2 DEF OthersKept
<1>13. ASSUME NEW c \in ConnSlots, PeerCloses(c) PROVE OthersKept
  <2>1. \A d \in ConnSlots \ {c} : conns'[d] = conns[d]
    BY <1>1, <1>13 DEF PeerCloses, CloseIndex, Typed
  <2> QED BY <1>13, <2>1 DEF OthersKept
<1> QED BY <1>3, <1>4, <1>5, <1>6, <1>7, <1>8, <1>9, <1>10, <1>11, <1>12, <1>13 DEF PoolNext

(* close() goes by index, yet no operation of the pool but mark_disconnected *)
(* (and its user calling Client::close) closes a connection that took over   *)
(* the slot of one of its own: is_alive is asked first, and a live handle's  *)
(* connection is the pool's.                                                 *)
THEOREM ClosesItsOwn == PoolSpec => ClosesOnlyItsOwn
<1>1. PoolInit => PoolIInv
  BY PoolInitInv
<1>2. PoolIInv /\ [PoolNext]_poolVars => PoolIInv'
  BY PoolStepInv
<1>3. PoolIInv /\ [PoolNext]_poolVars => OthersKept
  BY OthersKeptStep
<1>4. OthersKept => [\A c \in ConnSlots :
       (conns[c].st = "open" /\ conns'[c].st = "closing" /\ ~conns[c].mine)
         => \/ PeerCloses(c)
            \/ \E i \in Indices : MarkDisconnected(i)
            \/ \E t \in Callers : Evict(t)]_poolVars
  BY DEF OthersKept
<1> QED BY <1>1, <1>2, <1>3, <1>4, PTL DEF PoolSpec, ClosesOnlyItsOwn
=============================================================================
