---------------------------- MODULE SendCopyPool ----------------------------
(***************************************************************************)
(* The pool of copy slots behind every copied send of a worker             *)
(* (ringline/src/buffer/send_copy.rs): a LIFO free list, the per-slot send *)
(* progress, the identity of the bounded send a slot settles, and the      *)
(* reservations that promise free slots without popping them.              *)
(*                                                                         *)
(* Every public method is one action, called in any order and with any     *)
(* argument its callers may pass.  Data is a number of bytes.  A handle of *)
(* Holders stands for a SlotReservation value: its remaining count, or     *)
(* NoReservation when the value does not exist.                            *)
(***************************************************************************)
EXTENDS Integers, Sequences, FiniteSets

CONSTANTS Count,     \* slots in the pool
          SlotSize,  \* bytes per slot
          Holders,   \* places a SlotReservation may live
          Ids,       \* identities of bounded sends
          NoId       \* slot_bounded_send is None

ASSUME PoolAssumption ==
  /\ Count \in Nat
  /\ SlotSize \in Nat \ {0}
  /\ IsFiniteSet(Holders)
  /\ NoId \notin Ids

VARIABLES
  free_list,    \* indices of the free slots; the last one is popped first
  in_use,       \* double-free protection
  offset,       \* slot_offset: bytes already sent
  remaining,    \* slot_remaining: bytes still to send
  end_of_send,  \* slot_end_of_send
  bounded,      \* slot_bounded_send: the id the slot carries, or NoId
  reserved,     \* promised slots that are still on the free list
  reservation   \* remaining of the SlotReservation each holder has

poolVars == <<free_list, in_use, offset, remaining, end_of_send, bounded, reserved,
          reservation>>

Slots == 0..(Count - 1)

NoReservation == -1

(* SendCopyPool::new: the free list is (0..count).rev(). *)
InitPool ==
  /\ free_list = [i \in 1..Count |-> Count - i]
  /\ in_use = [s \in Slots |-> FALSE]
  /\ offset = [s \in Slots |-> 0]
  /\ remaining = [s \in Slots |-> 0]
  /\ end_of_send = [s \in Slots |-> TRUE]
  /\ bounded = [s \in Slots |-> NoId]
  /\ reserved = 0
  /\ reservation = [h \in Holders |-> NoReservation]

-----------------------------------------------------------------------------
(* Mutant: the promised slots are not subtracted. *)
free_count_ignoring_reserved == Len(free_list)

(* Slots available to a new allocation. *)
free_count == Len(free_list) - reserved

(* The slot the next pop of the free list returns. *)
Top == free_list[Len(free_list)]

(* Pop the top slot and start it with len bytes to send: fill_slot, and the *)
(* same resets in copy_in_gather and alloc_raw.                             *)
PopAndFill(len) ==
  /\ free_list # <<>>
  /\ free_list' = SubSeq(free_list, 1, Len(free_list) - 1)
  /\ in_use' = [in_use EXCEPT ![Top] = TRUE]
  /\ offset' = [offset EXCEPT ![Top] = 0]
  /\ remaining' = [remaining EXCEPT ![Top] = len]
  /\ end_of_send' = [end_of_send EXCEPT ![Top] = TRUE]
  /\ bounded' = [bounded EXCEPT ![Top] = NoId]

(* copy_in and copy_in_gather; with len = 0, alloc_raw. *)
CopyIn(len) ==
  /\ len <= SlotSize
  /\ free_count # 0
  /\ PopAndFill(len)
  /\ UNCHANGED <<reserved, reservation>>

(* Mutant: the buffer is filled from the slot's start a second time. *)
SetFilledAgain(s, len) ==
  /\ in_use[s]
  /\ remaining' = [remaining EXCEPT ![s] = len]
  /\ UNCHANGED <<free_list, in_use, offset, end_of_send, bounded, reserved,
                 reservation>>

(* set_filled, after alloc_raw. *)
SetFilled(s, len) ==
  /\ in_use[s]
  /\ offset[s] = 0
  /\ remaining[s] = 0
  /\ remaining' = [remaining EXCEPT ![s] = len]
  /\ UNCHANGED <<free_list, in_use, offset, end_of_send, bounded, reserved,
                 reservation>>

(* reserve_slots, granted.  TooLarge and Exhausted change nothing. *)
ReserveSlots(h, n) ==
  /\ reservation[h] = NoReservation
  /\ n <= Count
  /\ n <= free_count
  /\ reserved' = reserved + n
  /\ reservation' = [reservation EXCEPT ![h] = n]
  /\ UNCHANGED <<free_list, in_use, offset, remaining, end_of_send, bounded>>

(* copy_in_reserved: pops whatever free_count says, trusting the promise. *)
CopyInReserved(h, len) ==
  /\ reservation[h] > 0
  /\ len <= SlotSize
  /\ PopAndFill(len)
  /\ reserved' = reserved - 1
  /\ reservation' = [reservation EXCEPT ![h] = @ - 1]

(* shrink_reservation: keep no more than what is left. *)
ShrinkReservation(h, keep) ==
  /\ reservation[h] >= keep
  /\ reserved' = reserved - (reservation[h] - keep)
  /\ reservation' = [reservation EXCEPT ![h] = keep]
  /\ UNCHANGED <<free_list, in_use, offset, remaining, end_of_send, bounded>>

(* release_reservation: the unfilled remainder goes back. *)
ReleaseReservation(h) ==
  /\ reservation[h] # NoReservation
  /\ reserved' = reserved - reservation[h]
  /\ reservation' = [reservation EXCEPT ![h] = NoReservation]
  /\ UNCHANGED <<free_list, in_use, offset, remaining, end_of_send, bounded>>

(* Mutant: release without the in_use test. *)
ReleaseTwice(s) ==
  /\ bounded' = [bounded EXCEPT ![s] = NoId]
  /\ in_use' = [in_use EXCEPT ![s] = FALSE]
  /\ offset' = [offset EXCEPT ![s] = 0]
  /\ remaining' = [remaining EXCEPT ![s] = 0]
  /\ free_list' = Append(free_list, s)
  /\ UNCHANGED <<end_of_send, reserved, reservation>>

(* Mutant: the carried id survives the release. *)
ReleaseKeepsId(s) ==
  /\ in_use[s]
  /\ in_use' = [in_use EXCEPT ![s] = FALSE]
  /\ offset' = [offset EXCEPT ![s] = 0]
  /\ remaining' = [remaining EXCEPT ![s] = 0]
  /\ free_list' = Append(free_list, s)
  /\ UNCHANGED <<end_of_send, bounded, reserved, reservation>>

(* release, in a release build: an id the slot still carries is dropped (a  *)
(* debug build asserts there is none).  A second release of the same slot   *)
(* returns early.                                                           *)
Release(s) ==
  /\ in_use[s]
  /\ bounded' = [bounded EXCEPT ![s] = NoId]
  /\ in_use' = [in_use EXCEPT ![s] = FALSE]
  /\ offset' = [offset EXCEPT ![s] = 0]
  /\ remaining' = [remaining EXCEPT ![s] = 0]
  /\ free_list' = Append(free_list, s)
  /\ UNCHANGED <<end_of_send, reserved, reservation>>

(* Mutant: the progress is recorded in the offset alone. *)
TryAdvanceOffsetOnly(s, bytes) ==
  /\ in_use[s]
  /\ bytes < remaining[s]
  /\ offset' = [offset EXCEPT ![s] = @ + bytes]
  /\ UNCHANGED <<free_list, in_use, remaining, end_of_send, bounded, reserved,
                 reservation>>

(* try_advance after a short write; a complete one changes nothing. *)
TryAdvance(s, bytes) ==
  /\ in_use[s]
  /\ bytes < remaining[s]
  /\ offset' = [offset EXCEPT ![s] = @ + bytes]
  /\ remaining' = [remaining EXCEPT ![s] = @ - bytes]
  /\ UNCHANGED <<free_list, in_use, end_of_send, bounded, reserved, reservation>>

(* set_end_of_send, on the chunks of a split send. *)
SetEndOfSend(s, last) ==
  /\ in_use[s]
  /\ bounded[s] = NoId
  /\ end_of_send' = [end_of_send EXCEPT ![s] = last]
  /\ UNCHANGED <<free_list, in_use, offset, remaining, bounded, reserved,
                 reservation>>

(* set_bounded_send, by send_bounded on the final chunk's slot. *)
SetBoundedSend(s, id) ==
  /\ in_use[s]
  /\ end_of_send[s]
  /\ \A t \in Slots : bounded[t] # id
  /\ bounded' = [bounded EXCEPT ![s] = id]
  /\ UNCHANGED <<free_list, in_use, offset, remaining, end_of_send, reserved,
                 reservation>>

(* take_bounded_send, by whatever disposes of the slot. *)
TakeBoundedSend(s) ==
  /\ bounded[s] # NoId
  /\ bounded' = [bounded EXCEPT ![s] = NoId]
  /\ UNCHANGED <<free_list, in_use, offset, remaining, end_of_send, reserved,
                 reservation>>

PoolNext ==
  \/ \E len \in 0..SlotSize : CopyIn(len)
  \/ \E s \in Slots, len \in 1..SlotSize : SetFilled(s, len)
  \/ \E h \in Holders, n \in 0..Count : ReserveSlots(h, n)
  \/ \E h \in Holders, len \in 1..SlotSize : CopyInReserved(h, len)
  \/ \E h \in Holders, keep \in 0..Count : ShrinkReservation(h, keep)
  \/ \E h \in Holders : ReleaseReservation(h)
  \/ \E s \in Slots : Release(s)
  \/ \E s \in Slots, bytes \in 1..SlotSize : TryAdvance(s, bytes)
  \/ \E s \in Slots, last \in BOOLEAN : SetEndOfSend(s, last)
  \/ \E s \in Slots, id \in Ids : SetBoundedSend(s, id)
  \/ \E s \in Slots : TakeBoundedSend(s)

PoolSpec == InitPool /\ [][PoolNext]_poolVars

-----------------------------------------------------------------------------
(* The type of the pool's state; what a slot has sent and has left to send  *)
(* fits in the slot.                                                        *)
PoolTypeOK ==
  /\ free_list \in Seq(Slots)
  /\ in_use \in [Slots -> BOOLEAN]
  /\ offset \in [Slots -> Nat]
  /\ remaining \in [Slots -> Nat]
  /\ \A s \in Slots : offset[s] + remaining[s] <= SlotSize
  /\ end_of_send \in [Slots -> BOOLEAN]
  /\ bounded \in [Slots -> Ids \union {NoId}]
  /\ reserved \in Nat
  /\ reservation \in [Holders -> (0..Count) \union {NoReservation}]

(* No slot is on the free list twice, and a slot is on it exactly when it is *)
(* not in use: two sends never share a slot, whatever was released twice.    *)
FreeListExact ==
  /\ \A i, j \in 1..Len(free_list) : free_list[i] = free_list[j] => i = j
  /\ \A s \in Slots : ~in_use[s] <=> \E i \in 1..Len(free_list) : free_list[i] = s

(* One token for each slot that some reservation still promises. *)
Promises == {p \in Holders \X (1..Count) : p[2] <= reservation[p[1]]}

(* Every promise is backed by a slot on the free list: free_count does not  *)
(* underflow, and copy_in_reserved's expect("reserved slot missing from     *)
(* free list") cannot fire however other allocations interleave.            *)
ReservationsBacked ==
  /\ reserved <= Len(free_list)
  /\ reserved = Cardinality(Promises)

(* The bytes sent and the bytes left always add up to what was copied in,   *)
(* from the fill to the release: a resubmission never resends or skips.     *)
ProgressConserved ==
  [][\A s \in Slots :
       in_use[s] /\ in_use[s]' /\ offset'[s] # offset[s]
         => offset'[s] + remaining'[s] = offset[s] + remaining[s]]_poolVars

(* A slot that carries a bounded send is a live, final chunk: a recycled    *)
(* slot never names an operation that was settled before.                   *)
CarriedByLiveFinalSlot ==
  \A s \in Slots : bounded[s] # NoId => in_use[s] /\ end_of_send[s]
=============================================================================
