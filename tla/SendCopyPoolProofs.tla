------------------------- MODULE SendCopyPoolProofs -------------------------
(***************************************************************************)
(* Proofs about SendCopyPool, for any number of slots, slot size, set of   *)
(* reservation holders and set of ids.                                     *)
(***************************************************************************)
EXTENDS SendCopyPool, SequenceTheorems, FiniteSetTheorems, TLAPS

(* What a pop or a release relies on. *)
SlotInv == PoolTypeOK /\ FreeListExact

(* The inductive invariant.  That reserved stays a natural number needs the *)
(* exact count of the promises; that promises are backed needs the exact    *)
(* free list.                                                               *)
PoolInv == SlotInv /\ ReservationsBacked /\ CarriedByLiveFinalSlot

-----------------------------------------------------------------------------
(* A pop removes one free slot and leaves the free list exact. *)
LEMMA PopKeepsFreeListExact ==
  ASSUME SlotInv, NEW len \in 0..SlotSize, PopAndFill(len)
  PROVE  /\ Top \in Slots
         /\ ~in_use[Top]
         /\ free_list' \in Seq(Slots)
         /\ Len(free_list') = Len(free_list) - 1
         /\ FreeListExact'
<1> DEFINE n == Len(free_list)
<1>1. n \in Nat \ {0} /\ free_list \in [1..n -> Slots]
  BY DEF SlotInv, PoolTypeOK, PopAndFill
<1>2. Top \in Slots /\ Top = free_list[n]
  BY <1>1 DEF Top
<1>3. ~in_use[Top]
  BY <1>1, <1>2 DEF SlotInv, FreeListExact
<1>4. /\ free_list' \in Seq(Slots)
      /\ Len(free_list') = n - 1
      /\ \A i \in 1..(n - 1) : free_list'[i] = free_list[i]
  <2>1. \A i \in 1..(n - 1) : free_list[i] \in Slots
    BY <1>1
  <2>2. free_list' = SubSeq(free_list, 1, n - 1)
    BY DEF PopAndFill
  <2>3. QED
    BY <1>1, <2>1, <2>2, SubSeqProperties
<1>5. in_use' = [in_use EXCEPT ![Top] = TRUE]
  BY DEF PopAndFill
<1>6. \A i, j \in 1..Len(free_list') : free_list'[i] = free_list'[j] => i = j
  BY <1>1, <1>4 DEF SlotInv, FreeListExact
<1>7. ASSUME NEW s \in Slots
      PROVE  ~in_use'[s] <=> \E i \in 1..Len(free_list') : free_list'[i] = s
  <2>1. CASE s = Top
    <3>1. \A i \in 1..(n - 1) : free_list[i] # Top
      BY <1>1, <1>2 DEF SlotInv, FreeListExact
    <3>2. QED
      BY <1>2, <1>4, <1>5, <2>1, <3>1 DEF SlotInv, PoolTypeOK
  <2>2. CASE s # Top
    <3>1. in_use'[s] = in_use[s]
      BY <1>5, <2>2 DEF SlotInv, PoolTypeOK
    <3>2. (\E i \in 1..n : free_list[i] = s) <=> \E i \in 1..(n - 1) : free_list[i] = s
      BY <1>1, <1>2, <2>2
    <3>3. QED
      BY <1>1, <1>4, <3>1, <3>2 DEF SlotInv, FreeListExact
  <2>3. QED
    BY <2>1, <2>2
<1>8. QED
  BY <1>1, <1>2, <1>3, <1>4, <1>6, <1>7 DEF FreeListExact

(* Freeing a slot in use leaves the free list exact. *)
LEMMA ReleaseKeepsFreeListExact ==
  ASSUME SlotInv, NEW s \in Slots, Release(s)
  PROVE  /\ free_list' \in Seq(Slots)
         /\ Len(free_list') = Len(free_list) + 1
         /\ FreeListExact'
<1> DEFINE n == Len(free_list)
<1>1. n \in Nat /\ free_list \in [1..n -> Slots]
  BY DEF SlotInv, PoolTypeOK
<1>2. /\ free_list' \in Seq(Slots)
      /\ Len(free_list') = n + 1
      /\ \A i \in 1..n : free_list'[i] = free_list[i]
      /\ free_list'[n + 1] = s
  BY AppendProperties DEF SlotInv, PoolTypeOK, Release
<1>3. \A i \in 1..n : free_list[i] # s
  BY DEF Release, SlotInv, FreeListExact
<1>4. in_use' = [in_use EXCEPT ![s] = FALSE]
  BY DEF Release
<1>5. \A i, j \in 1..Len(free_list') : free_list'[i] = free_list'[j] => i = j
  BY <1>1, <1>2, <1>3 DEF SlotInv, FreeListExact
<1>6. ASSUME NEW t \in Slots
      PROVE  ~in_use'[t] <=> \E i \in 1..Len(free_list') : free_list'[i] = t
  <2>1. CASE t = s
    <3>1. ~in_use'[t]
      BY <1>4, <2>1 DEF SlotInv, PoolTypeOK
    <3>2. n + 1 \in 1..Len(free_list')
      BY <1>1, <1>2
    <3>3. QED
      BY <1>2, <2>1, <3>1, <3>2
  <2>2. CASE t # s
    <3>1. in_use'[t] = in_use[t]
      BY <1>4, <2>2 DEF SlotInv, PoolTypeOK
    <3>2. (\E i \in 1..n : free_list[i] = t) <=> \E i \in 1..(n + 1) : free_list'[i] = t
      BY <1>1, <1>2, <2>2
    <3>3. QED
      BY <1>2, <3>1, <3>2 DEF SlotInv, FreeListExact
  <2>3. QED
    BY <2>1, <2>2
<1>7. QED
  BY <1>2, <1>5, <1>6 DEF FreeListExact

(* Changing one holder's reservation changes the number of promises by as    *)
(* much.  Whole stands for the count a holder's reservation promises.        *)
Whole(n) == IF n = NoReservation THEN 0 ELSE n

LEMMA PromisesCounted ==
  ASSUME PoolTypeOK, NEW h \in Holders, NEW v \in (0..Count) \union {NoReservation},
         reservation' = [reservation EXCEPT ![h] = v]
  PROVE  /\ Cardinality(Promises) \in Nat
         /\ Cardinality(Promises')
              = Cardinality(Promises) - Whole(reservation[h]) + Whole(v)
         /\ Whole(reservation[h]) <= Cardinality(Promises)
<1> DEFINE old == reservation[h]
           Rest == {p \in Holders \X (1..Count) : p[1] # h /\ p[2] <= reservation[p[1]]}
           Mine(n) == {h} \X (1..Whole(n))
<1>1. Count \in Nat /\ IsFiniteSet(Holders)
  BY PoolAssumption
<1>2. old \in (0..Count) \union {NoReservation}
  BY DEF PoolTypeOK
<1>3. ASSUME NEW n \in (0..Count) \union {NoReservation}
      PROVE  /\ Whole(n) \in 0..Count
             /\ IsFiniteSet(Mine(n)) /\ Cardinality(Mine(n)) = Whole(n)
  <2>1. Whole(n) \in 0..Count
    BY <1>1 DEF Whole, NoReservation
  <2>2. IsFiniteSet(1..Whole(n)) /\ Cardinality(1..Whole(n)) = Whole(n)
    BY <1>1, <2>1, FS_Interval
  <2>3. IsFiniteSet({h}) /\ Cardinality({h}) = 1
    BY FS_Singleton
  <2>4. IsFiniteSet(Mine(n)) /\ Cardinality(Mine(n)) = 1 * Whole(n)
    <3> DEFINE T == 1..Whole(n)
    <3>1. IsFiniteSet(T) /\ Cardinality(T) = Whole(n)
      BY <2>2
    <3> HIDE DEF T
    <3>2. IsFiniteSet({h} \X T) /\ Cardinality({h} \X T) = Cardinality({h}) * Cardinality(T)
      BY <2>3, <3>1, FS_Product
    <3>3. QED
      BY <2>3, <3>1, <3>2 DEF T
  <2>5. QED
    BY <1>1, <2>1, <2>4
<1>4. IsFiniteSet(Rest) /\ Cardinality(Rest) \in Nat
  <2>1. IsFiniteSet(1..Count)
    BY <1>1, FS_Interval
  <2>2. IsFiniteSet(Holders \X (1..Count))
    BY <1>1, <2>1, FS_Product
  <2>3. Rest \in SUBSET (Holders \X (1..Count))
    OBVIOUS
  <2>4. IsFiniteSet(Rest)
    BY <2>2, <2>3, FS_Subset
  <2>5. QED
    BY <2>4, FS_CardinalityType
<1>5. Promises = Rest \union Mine(old)
  <2>1. \A k \in 1..Count : k <= old <=> k \in 1..Whole(old)
    BY <1>1, <1>2 DEF Whole, NoReservation
  <2>2. Whole(old) \in 0..Count
    BY <1>2, <1>3
  <2>3. QED
    BY <1>1, <2>1, <2>2 DEF Promises
<1>6. Promises' = Rest \union Mine(v)
  <2>1. \A k \in 1..Count : k <= v <=> k \in 1..Whole(v)
    BY <1>1 DEF Whole, NoReservation
  <2>2. Whole(v) \in 0..Count
    BY <1>3
  <2>3. \A g \in Holders : reservation'[g] = IF g = h THEN v ELSE reservation[g]
    BY DEF PoolTypeOK
  <2>4. QED
    BY <1>1, <2>1, <2>2, <2>3 DEF Promises
<1>7. ASSUME NEW n \in (0..Count) \union {NoReservation}
      PROVE  Cardinality(Rest \union Mine(n)) = Cardinality(Rest) + Whole(n)
  <2>1. Rest \intersect Mine(n) = {}
    OBVIOUS
  <2>2. Cardinality(Rest \union Mine(n))
          = Cardinality(Rest) + Cardinality(Mine(n)) - Cardinality(Rest \intersect Mine(n))
    BY <1>3, <1>4, FS_Union
  <2>3. Cardinality(Rest \intersect Mine(n)) = 0
    BY <2>1, FS_EmptySet
  <2>4. Cardinality(Mine(n)) = Whole(n)
    BY <1>3
  <2>5. Whole(n) \in Nat
    BY <1>1 DEF Whole, NoReservation
  <2> HIDE DEF Rest, Mine
  <2>6. QED
    BY <1>4, <2>2, <2>3, <2>4, <2>5
<1>8. QED
  <2>1. Cardinality(Promises) = Cardinality(Rest) + Whole(old)
    BY <1>2, <1>5, <1>7
  <2>2. Cardinality(Promises') = Cardinality(Rest) + Whole(v)
    BY <1>6, <1>7
  <2>3. Whole(old) \in Nat /\ Whole(v) \in Nat
    BY <1>1, <1>2 DEF Whole, NoReservation
  <2>4. QED
    BY <1>4, <2>1, <2>2, <2>3

-----------------------------------------------------------------------------
(* PoolInv holds initially and is preserved by every method. *)
LEMMA PoolInvInit == InitPool => PoolInv
<1> SUFFICES ASSUME InitPool PROVE PoolInv
  OBVIOUS
<1>1. Count \in Nat /\ SlotSize \in Nat
  BY PoolAssumption
<1>2. free_list \in Seq(Slots) /\ Len(free_list) = Count
  <2>1. free_list \in [1..Count -> Slots]
    BY <1>1 DEF InitPool, Slots
  <2>2. QED
    BY <1>1, <2>1, SeqDef, LenProperties
<1>3. PoolTypeOK
  BY <1>1, <1>2 DEF InitPool, PoolTypeOK, NoReservation
<1>4. FreeListExact
  <2>1. \A i, j \in 1..Count : free_list[i] = free_list[j] => i = j
    BY <1>1 DEF InitPool
  <2>2. ASSUME NEW s \in Slots
        PROVE  \E i \in 1..Count : free_list[i] = s
    <3>1. Count - s \in 1..Count /\ free_list[Count - s] = s
      BY <1>1 DEF InitPool, Slots
    <3>2. QED
      BY <3>1
  <2>3. QED
    BY <1>2, <2>1, <2>2 DEF InitPool, FreeListExact
<1>5. ReservationsBacked
  <2>1. Promises = {}
    BY <1>1 DEF InitPool, Promises, NoReservation
  <2>2. QED
    BY <1>1, <1>2, <2>1, FS_EmptySet DEF InitPool, ReservationsBacked
<1>6. CarriedByLiveFinalSlot
  BY DEF InitPool, CarriedByLiveFinalSlot
<1>7. QED
  BY <1>3, <1>4, <1>5, <1>6 DEF PoolInv, SlotInv

(* The slots are well typed after a pop, and a carried id stays on a live    *)
(* final slot: the popped slot carries none.                                 *)
LEMMA PopKeepsSlots ==
  ASSUME PoolInv, NEW len \in 0..SlotSize, PopAndFill(len),
         reserved' \in Nat,
         reservation' \in [Holders -> (0..Count) \union {NoReservation}]
  PROVE  SlotInv' /\ CarriedByLiveFinalSlot'
<1>1. SlotSize \in Nat
  BY PoolAssumption
<1>2. Top \in Slots /\ free_list' \in Seq(Slots) /\ FreeListExact'
  BY PopKeepsFreeListExact DEF PoolInv
<1>3. /\ in_use' = [in_use EXCEPT ![Top] = TRUE]
      /\ offset' = [offset EXCEPT ![Top] = 0]
      /\ remaining' = [remaining EXCEPT ![Top] = len]
      /\ end_of_send' = [end_of_send EXCEPT ![Top] = TRUE]
      /\ bounded' = [bounded EXCEPT ![Top] = NoId]
  BY DEF PopAndFill
<1>4. /\ offset' \in [Slots -> Nat]
      /\ remaining' \in [Slots -> Nat]
      /\ \A s \in Slots : offset'[s] + remaining'[s] <= SlotSize
  BY <1>1, <1>2, <1>3 DEF PoolInv, SlotInv, PoolTypeOK
<1>5. /\ in_use' \in [Slots -> BOOLEAN]
      /\ end_of_send' \in [Slots -> BOOLEAN]
      /\ bounded' \in [Slots -> Ids \union {NoId}]
  BY <1>2, <1>3 DEF PoolInv, SlotInv, PoolTypeOK
<1>6. CarriedByLiveFinalSlot'
  BY <1>2, <1>3 DEF PoolInv, SlotInv, PoolTypeOK, CarriedByLiveFinalSlot
<1>7. QED
  BY <1>2, <1>4, <1>5, <1>6 DEF SlotInv, PoolTypeOK

LEMMA PoolInvNext == PoolInv /\ [PoolNext]_poolVars => PoolInv'
<1> SUFFICES ASSUME PoolInv, [PoolNext]_poolVars PROVE PoolInv'
  OBVIOUS
<1>1. Count \in Nat /\ SlotSize \in Nat
  BY PoolAssumption
<1>2. PoolTypeOK /\ FreeListExact /\ ReservationsBacked /\ CarriedByLiveFinalSlot
  BY DEF PoolInv, SlotInv
<1>3. reserved \in Nat /\ Len(free_list) \in Nat /\ reserved <= Len(free_list)
  BY <1>2 DEF PoolTypeOK, ReservationsBacked
<1>4. ASSUME NEW len \in 0..SlotSize, CopyIn(len)
      PROVE  PoolInv'
  <2>1. SlotInv' /\ CarriedByLiveFinalSlot'
    BY <1>2, <1>4, PopKeepsSlots DEF CopyIn, PoolTypeOK
  <2>2. Len(free_list') = Len(free_list) - 1
    BY <1>2, <1>4, PopKeepsFreeListExact DEF CopyIn, SlotInv
  <2>3. reserved' <= Len(free_list')
    BY <1>3, <1>4, <2>2 DEF CopyIn, free_count
  <2>4. ReservationsBacked'
    BY <1>2, <1>4, <2>3 DEF CopyIn, ReservationsBacked, Promises
  <2>5. QED
    BY <2>1, <2>4 DEF PoolInv
<1>5. ASSUME NEW h \in Holders, NEW len \in 1..SlotSize, CopyInReserved(h, len)
      PROVE  PoolInv'
  <2>1. reservation[h] \in 1..Count
    BY <1>1, <1>2, <1>5 DEF CopyInReserved, PoolTypeOK, NoReservation
  <2>2. reservation' = [reservation EXCEPT ![h] = reservation[h] - 1]
    BY <1>5 DEF CopyInReserved
  <2>3. /\ Cardinality(Promises') = Cardinality(Promises) - 1
        /\ 1 <= Cardinality(Promises)
    <3>1. reservation[h] - 1 \in (0..Count) \union {NoReservation}
      BY <1>1, <2>1
    <3>2. /\ Cardinality(Promises) \in Nat
          /\ Cardinality(Promises')
               = Cardinality(Promises) - Whole(reservation[h]) + Whole(reservation[h] - 1)
          /\ Whole(reservation[h]) <= Cardinality(Promises)
      BY <1>2, <2>2, <3>1, PromisesCounted
    <3>3. QED
      BY <1>1, <2>1, <3>2 DEF Whole, NoReservation
  <2>4. reserved' = reserved - 1 /\ reserved' \in Nat
    BY <1>2, <1>3, <1>5, <2>3 DEF CopyInReserved, ReservationsBacked
  <2>5. reservation' \in [Holders -> (0..Count) \union {NoReservation}]
    BY <1>1, <1>2, <2>1, <2>2 DEF PoolTypeOK
  <2>6. SlotInv' /\ CarriedByLiveFinalSlot'
    BY <1>1, <1>5, <2>4, <2>5, PopKeepsSlots DEF CopyInReserved
  <2>7. Len(free_list') = Len(free_list) - 1
    BY <1>1, <1>2, <1>5, PopKeepsFreeListExact DEF CopyInReserved, SlotInv
  <2>8. ReservationsBacked'
    BY <1>2, <1>3, <2>3, <2>4, <2>7 DEF ReservationsBacked
  <2>9. QED
    BY <2>6, <2>8 DEF PoolInv
(* The methods that only change promises. *)
<1>6. ASSUME NEW h \in Holders, NEW v \in (0..Count) \union {NoReservation},
             reservation' = [reservation EXCEPT ![h] = v],
             reserved' = reserved - Whole(reservation[h]) + Whole(v),
             reserved' <= Len(free_list),
             UNCHANGED <<free_list, in_use, offset, remaining, end_of_send, bounded>>
      PROVE  PoolInv'
  <2>1. /\ Cardinality(Promises) \in Nat
        /\ Cardinality(Promises')
             = Cardinality(Promises) - Whole(reservation[h]) + Whole(v)
        /\ Whole(reservation[h]) <= Cardinality(Promises)
    BY <1>2, <1>6, PromisesCounted
  <2>2. Whole(reservation[h]) \in Nat /\ Whole(v) \in Nat
    BY <1>1, <1>2 DEF Whole, PoolTypeOK, NoReservation
  <2>3. reserved = Cardinality(Promises)
    BY <1>2 DEF ReservationsBacked
  <2>4. reserved' \in Nat /\ reserved' = Cardinality(Promises')
    BY <1>3, <1>6, <2>1, <2>2, <2>3
  <2>5. reservation' \in [Holders -> (0..Count) \union {NoReservation}]
    BY <1>2, <1>6 DEF PoolTypeOK
  <2>6. PoolTypeOK'
    BY <1>2, <1>6, <2>4, <2>5 DEF PoolTypeOK
  <2>7. FreeListExact' /\ CarriedByLiveFinalSlot'
    BY <1>2, <1>6 DEF FreeListExact, CarriedByLiveFinalSlot
  <2>8. ReservationsBacked'
    BY <1>6, <2>4 DEF ReservationsBacked
  <2>9. QED
    BY <2>6, <2>7, <2>8 DEF PoolInv, SlotInv
<1>7. ASSUME NEW h \in Holders, NEW n \in 0..Count, ReserveSlots(h, n)
      PROVE  PoolInv'
  <2>1. Whole(reservation[h]) = 0 /\ Whole(n) = n /\ n \in Nat
    BY <1>1, <1>7 DEF ReserveSlots, Whole, NoReservation
  <2>2. reserved' = reserved + n /\ reserved' <= Len(free_list)
    BY <1>3, <1>7, <2>1 DEF ReserveSlots, free_count
  <2>3. reserved' = reserved - Whole(reservation[h]) + Whole(n)
    BY <1>3, <2>1, <2>2
  <2>4. QED
    BY <1>6, <1>7, <2>2, <2>3 DEF ReserveSlots
<1>8. ASSUME NEW h \in Holders, NEW keep \in 0..Count, ShrinkReservation(h, keep)
      PROVE  PoolInv'
  <2>1. /\ reservation[h] \in Nat /\ keep \in Nat /\ keep <= reservation[h]
        /\ Whole(reservation[h]) = reservation[h] /\ Whole(keep) = keep
    BY <1>1, <1>2, <1>8 DEF ShrinkReservation, Whole, NoReservation, PoolTypeOK
  <2>2. reserved' = reserved - (reservation[h] - keep)
    BY <1>8 DEF ShrinkReservation
  <2>3. /\ reserved' = reserved - Whole(reservation[h]) + Whole(keep)
        /\ reserved' <= Len(free_list)
    BY <1>3, <2>1, <2>2
  <2>4. QED
    BY <1>6, <1>8, <2>3 DEF ShrinkReservation
<1>9. ASSUME NEW h \in Holders, ReleaseReservation(h)
      PROVE  PoolInv'
  <2>1. /\ reservation[h] \in Nat
        /\ Whole(reservation[h]) = reservation[h] /\ Whole(NoReservation) = 0
    BY <1>1, <1>2, <1>9 DEF ReleaseReservation, Whole, NoReservation, PoolTypeOK
  <2>2. /\ reserved' = reserved - Whole(reservation[h]) + Whole(NoReservation)
        /\ reserved' <= Len(free_list)
    BY <1>3, <1>9, <2>1 DEF ReleaseReservation
  <2>3. QED
    BY <1>6, <1>9, <2>2 DEF ReleaseReservation
<1>10. ASSUME NEW s \in Slots, Release(s)
       PROVE  PoolInv'
  <2>1. /\ free_list' \in Seq(Slots)
        /\ Len(free_list') = Len(free_list) + 1
        /\ FreeListExact'
    BY <1>2, <1>10, ReleaseKeepsFreeListExact DEF SlotInv
  <2>2. /\ offset' \in [Slots -> Nat]
        /\ remaining' \in [Slots -> Nat]
        /\ \A t \in Slots : offset'[t] + remaining'[t] <= SlotSize
    BY <1>1, <1>2, <1>10 DEF Release, PoolTypeOK
  <2>3. in_use' \in [Slots -> BOOLEAN] /\ bounded' \in [Slots -> Ids \union {NoId}]
    BY <1>2, <1>10 DEF Release, PoolTypeOK
  <2>4. PoolTypeOK'
    BY <1>2, <1>10, <2>1, <2>2, <2>3 DEF Release, PoolTypeOK
  <2>5. ReservationsBacked'
    BY <1>2, <1>3, <1>10, <2>1 DEF Release, ReservationsBacked, Promises
  <2>6. CarriedByLiveFinalSlot'
    BY <1>2, <1>10 DEF Release, CarriedByLiveFinalSlot, PoolTypeOK
  <2>7. QED
    BY <2>1, <2>4, <2>5, <2>6 DEF PoolInv, SlotInv
(* The methods that only change a slot's progress. *)
<1>11. ASSUME UNCHANGED <<free_list, in_use, end_of_send, bounded, reserved, reservation>>,
              offset' \in [Slots -> Nat],
              remaining' \in [Slots -> Nat],
              \A t \in Slots : offset'[t] + remaining'[t] <= SlotSize
       PROVE  PoolInv'
  BY <1>2, <1>11
  DEF PoolTypeOK, FreeListExact, ReservationsBacked, Promises, CarriedByLiveFinalSlot,
      PoolInv, SlotInv
<1>12. ASSUME NEW s \in Slots, NEW len \in 1..SlotSize, SetFilled(s, len)
       PROVE  PoolInv'
  <2>1. /\ offset' = offset /\ offset[s] = 0
        /\ remaining' = [remaining EXCEPT ![s] = len]
    BY <1>12 DEF SetFilled
  <2>2. len \in Nat /\ len <= SlotSize /\ 0 + len <= SlotSize
    BY <1>1
  <2>3. offset' \in [Slots -> Nat] /\ remaining' \in [Slots -> Nat]
    BY <1>2, <2>1, <2>2 DEF PoolTypeOK
  <2>4. \A t \in Slots : offset'[t] + remaining'[t] <= SlotSize
    BY <1>2, <2>1, <2>2 DEF PoolTypeOK
  <2>5. QED
    BY <1>11, <1>12, <2>3, <2>4 DEF SetFilled
<1>13. ASSUME NEW s \in Slots, NEW bytes \in 1..SlotSize, TryAdvance(s, bytes)
       PROVE  PoolInv'
  <2>1. /\ offset[s] \in Nat /\ remaining[s] \in Nat
        /\ offset[s] + remaining[s] <= SlotSize
        /\ bytes \in Nat /\ bytes < remaining[s]
    BY <1>1, <1>2, <1>13 DEF TryAdvance, PoolTypeOK
  <2>2. /\ offset[s] + bytes \in Nat /\ remaining[s] - bytes \in Nat
        /\ (offset[s] + bytes) + (remaining[s] - bytes) <= SlotSize
    BY <1>1, <2>1
  <2>3. /\ offset' = [offset EXCEPT ![s] = offset[s] + bytes]
        /\ remaining' = [remaining EXCEPT ![s] = remaining[s] - bytes]
    BY <1>13 DEF TryAdvance
  <2>4. offset' \in [Slots -> Nat] /\ remaining' \in [Slots -> Nat]
    BY <1>2, <2>2, <2>3 DEF PoolTypeOK
  <2>5. \A t \in Slots : offset'[t] + remaining'[t] <= SlotSize
    BY <1>2, <2>2, <2>3 DEF PoolTypeOK
  <2>6. QED
    BY <1>11, <1>13, <2>4, <2>5 DEF TryAdvance
(* The methods that only change what a slot carries. *)
<1>14. ASSUME UNCHANGED <<free_list, in_use, offset, remaining, reserved, reservation>>,
              end_of_send' \in [Slots -> BOOLEAN],
              bounded' \in [Slots -> Ids \union {NoId}],
              CarriedByLiveFinalSlot'
       PROVE  PoolInv'
  BY <1>2, <1>14
  DEF PoolTypeOK, FreeListExact, ReservationsBacked, Promises, PoolInv, SlotInv
<1>15. ASSUME NEW s \in Slots, NEW last \in BOOLEAN, SetEndOfSend(s, last)
       PROVE  PoolInv'
  <2>1. end_of_send' \in [Slots -> BOOLEAN] /\ CarriedByLiveFinalSlot'
    BY <1>2, <1>15 DEF SetEndOfSend, PoolTypeOK, CarriedByLiveFinalSlot
  <2>2. QED
    BY <1>2, <1>14, <1>15, <2>1 DEF SetEndOfSend, PoolTypeOK
<1>16. ASSUME NEW s \in Slots, NEW id \in Ids, SetBoundedSend(s, id)
       PROVE  PoolInv'
  <2>1. bounded' \in [Slots -> Ids \union {NoId}] /\ CarriedByLiveFinalSlot'
    BY <1>2, <1>16 DEF SetBoundedSend, PoolTypeOK, CarriedByLiveFinalSlot
  <2>2. QED
    BY <1>2, <1>14, <1>16, <2>1 DEF SetBoundedSend, PoolTypeOK
<1>17. ASSUME NEW s \in Slots, TakeBoundedSend(s)
       PROVE  PoolInv'
  <2>1. bounded' \in [Slots -> Ids \union {NoId}] /\ CarriedByLiveFinalSlot'
    BY <1>2, <1>17 DEF TakeBoundedSend, PoolTypeOK, CarriedByLiveFinalSlot
  <2>2. QED
    BY <1>2, <1>14, <1>17, <2>1 DEF TakeBoundedSend, PoolTypeOK
<1>18. CASE UNCHANGED poolVars
  BY <1>2, <1>11, <1>18 DEF poolVars, PoolTypeOK
<1>19. QED
  BY <1>4, <1>5, <1>7, <1>8, <1>9, <1>10, <1>12, <1>13, <1>15, <1>16, <1>17, <1>18
  DEF PoolNext

(* A step of any method moves bytes between sent and left without losing one. *)
LEMMA ProgressStep ==
  ASSUME PoolInv, [PoolNext]_poolVars
  PROVE  [\A s \in Slots :
            in_use[s] /\ in_use[s]' /\ offset'[s] # offset[s]
              => offset'[s] + remaining'[s] = offset[s] + remaining[s]]_poolVars
<1> DEFINE Conserved ==
      \A s \in Slots :
        in_use[s] /\ in_use[s]' /\ offset'[s] # offset[s]
          => offset'[s] + remaining'[s] = offset[s] + remaining[s]
<1>1. PoolTypeOK /\ SlotSize \in Nat
  BY PoolAssumption DEF PoolInv, SlotInv
<1>2. ASSUME NEW len \in 0..SlotSize, PopAndFill(len)
      PROVE  Conserved
  <2>1. Top \in Slots /\ ~in_use[Top]
    BY <1>2, PopKeepsFreeListExact DEF PoolInv
  <2>2. offset' = [offset EXCEPT ![Top] = 0]
    BY <1>2 DEF PopAndFill
  <2>3. QED
    BY <1>1, <2>1, <2>2 DEF PoolTypeOK
<1>3. ASSUME NEW s \in Slots, NEW bytes \in 1..SlotSize, TryAdvance(s, bytes)
      PROVE  Conserved
  <2>1. /\ offset' = [offset EXCEPT ![s] = offset[s] + bytes]
        /\ remaining' = [remaining EXCEPT ![s] = remaining[s] - bytes]
    BY <1>3 DEF TryAdvance
  <2>2. offset[s] \in Nat /\ remaining[s] \in Nat /\ bytes \in Nat
    BY <1>1 DEF PoolTypeOK
  <2>3. (offset[s] + bytes) + (remaining[s] - bytes) = offset[s] + remaining[s]
    BY <2>2
  <2>4. QED
    BY <1>1, <2>1, <2>3 DEF PoolTypeOK
<1>4. ASSUME NEW s \in Slots, Release(s)
      PROVE  Conserved
  BY <1>1, <1>4 DEF Release, PoolTypeOK
<1>5. CASE UNCHANGED offset
  BY <1>5
<1>6. CASE \E len \in 0..SlotSize : CopyIn(len)
  BY <1>2, <1>6 DEF CopyIn
<1>7. CASE \E h \in Holders, len \in 1..SlotSize : CopyInReserved(h, len)
  <2>1. \E len \in 0..SlotSize : PopAndFill(len)
    BY <1>1, <1>7 DEF CopyInReserved
  <2>2. QED
    BY <1>2, <2>1
<1>8. QED
  BY <1>3, <1>4, <1>5, <1>6, <1>7
  DEF PoolNext, poolVars, SetFilled, ReserveSlots, ShrinkReservation, ReleaseReservation,
      SetEndOfSend, SetBoundedSend, TakeBoundedSend

-----------------------------------------------------------------------------
(* The pool's invariants hold in every state, for every pool.  FreeListExact *)
(* is the double-free protection of release; ReservationsBacked is why       *)
(* copy_in_reserved's expect cannot fire.                                    *)
THEOREM PoolSafe ==
  PoolSpec => [](PoolTypeOK /\ FreeListExact /\ ReservationsBacked /\ CarriedByLiveFinalSlot)
<1>1. PoolInv => PoolTypeOK /\ FreeListExact /\ ReservationsBacked /\ CarriedByLiveFinalSlot
  BY DEF PoolInv, SlotInv
<1>2. QED
  BY PoolInvInit, PoolInvNext, <1>1, PTL DEF PoolSpec

(* try_advance is the only method that moves a live slot's offset, and it    *)
(* takes from remaining exactly what it adds.                                *)
THEOREM PoolProgress == PoolSpec => ProgressConserved
<1>1. PoolInv /\ [PoolNext]_poolVars =>
        [\A s \in Slots :
           in_use[s] /\ in_use[s]' /\ offset'[s] # offset[s]
             => offset'[s] + remaining'[s] = offset[s] + remaining[s]]_poolVars
  BY ProgressStep
<1>2. QED
  BY PoolInvInit, PoolInvNext, <1>1, PTL DEF PoolSpec, ProgressConserved
=============================================================================
