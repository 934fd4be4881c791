------------------------------ MODULE UringRecv ------------------------------
(***************************************************************************)
(* The receive side of an io_uring worker: multishot receives that draw    *)
(* on one ring of provided buffers, the ways the bytes reach a task (the   *)
(* zero-copy pending buffer and the accumulator, segments, a sink, a       *)
(* forward to another descriptor, the direct echo), starvation with its    *)
(* fallback receives, and the close and reuse of the slot                  *)
(* (ringline/src/backend/uring/event_loop.rs, driver.rs,                   *)
(* buffer/provided.rs, accumulator.rs, recv/, runtime/io.rs).              *)
(*                                                                         *)
(* v is the worker: slot[c] what it keeps for a connection slot, life[l]   *)
(* the successive occupants with the kernel's side of them and their task, *)
(* and the shared ring.  Every function of the code that changes it is an  *)
(* operator from worker to worker.  The bytes of occupant l are            *)
(* <<l, 1>>, <<l, 2>>, ... in the order the peer sent them; the kernel     *)
(* delivers them in chunks at any time.  The completions of a multishot    *)
(* receive wait in a queue; the other operations complete and are handled  *)
(* in one step.                                                            *)
(***************************************************************************)
EXTENDS Naturals, Sequences, FiniteSets, SequencesExt, FiniteSetsExt

CONSTANTS
  recv_segment_reserve,
  recv_accumulator_max,
  RecvSetups           \* see IsRecvSetup

(* A setup: the slot of each occupant, how its task reads (its mode), the  *)
(* bytes its peer sends, whether the peer then ends the stream, how many   *)
(* bytes the special mode takes before the task goes on with with_data,    *)
(* the number of provided buffers and the hold cap of a forward, and what  *)
(* may go wrong: "err", a receive fails; "write", a write of a forward or  *)
(* a send of a receive buffer fails; "drop", a future is dropped before it *)
(* resolves; "full", the submission queue refuses an entry; "slab", other  *)
(* connections have taken the whole send slab; "term", the kernel ends a   *)
(* multishot receive after some data.                                      *)
Modes == {"data", "bytes", "segs", "owned", "chain", "forward", "echo", "held", "sink", "ready"}

IsRecvSetup(s) ==
  /\ DOMAIN s = {"slot", "mode", "bytes", "fin", "faults", "len", "nbufs", "cap"}
  /\ s.mode \in [DOMAIN s.slot -> Modes]
  /\ s.faults \subseteq {"err", "write", "drop", "full", "slab", "term"}
  /\ {s.nbufs, s.cap} \subseteq Nat

ASSUME UringRecvAssumption ==
  /\ {recv_segment_reserve, recv_accumulator_max} \subseteq Nat
  /\ \A s \in RecvSetups : IsRecvSetup(s)

VARIABLES
  setup,
  v,      \* the worker
  stage   \* where the run loop is: waiting ("kernel"), draining ("cqes") or polling ("tasks")

recvVars == <<setup, v, stage>>

Lives == DOMAIN setup.slot
NBufs == setup.nbufs
forward_hold_cap == setup.cap
ChunkMax == 2          \* bytes of a provided buffer
FALLBACK_RECV_SLOTS == 1
MAX_FORWARD_IOV == 16
MAX_IOVECS == 32
SlabExhausted == "slab" \in setup.faults
NoBuf == 0             \* the bid of an owned copy

(* ConnectionState::new with the per-slot state of Driver::new. *)
FreeSlot == [
  life |-> 0, lifecycle |-> "Inactive", read |-> "Open", armed |-> FALSE, echo |-> FALSE,
  pending |-> <<>>, acc |-> <<>>, domain |-> "CopyOrConsume", hold |-> <<>>, pinned |-> <<>>,
  forwarding |-> FALSE, recv_hold |-> <<>>, active |-> FALSE, throttled |-> FALSE,
  progress |-> <<>>, write |-> <<>>, done |-> "none", fallback |-> FALSE, sending |-> <<>>,
  reader |-> FALSE, sink |-> <<>>, close_pending |-> FALSE, close_submitted |-> FALSE]

NewLife == [
  begun |-> FALSE, read |-> 0, ended |-> FALSE, multishots |-> 0, cancels |-> 0, one_shot |-> FALSE,
  cq |-> <<>>, task |-> "none", step |-> 0, segment |-> <<>>, got |-> <<>>, out |-> <<>>, gap |-> FALSE]

InitRecv ==
  /\ setup \in RecvSetups
  /\ v = [slot |-> [c \in {setup.slot[l] : l \in Lives} |-> FreeSlot],
          life |-> [l \in Lives |-> NewLife],
          free |-> 1 .. NBufs, outstanding |-> 0, replenish |-> <<>>, starved |-> <<>>,
          finalize |-> {}]
  /\ stage = "kernel"

-----------------------------------------------------------------------------
(* Buffers and the accumulator. *)

Bids(held) == LET pinned == SelectSeq(held, LAMBDA h : h.bid # NoBuf)
              IN  [i \in DOMAIN pinned |-> pinned[i].bid]
Data(held) == FlattenSeq([i \in DOMAIN held |-> held[i].data])

(* pending_replenish.push for each bid. *)
Replenish(w, bids) == [w EXCEPT !.replenish = @ \o bids]

(* AccumulatorTable::append: all of the bytes, or none and FALSE. *)
Fits(w, c, data) == Len(w.slot[c].acc) + Len(data) <= recv_accumulator_max
Append_(w, c, data) == IF Fits(w, c, data) THEN [w EXCEPT !.slot[c].acc = @ \o data] ELSE w

(* append for each of the buffers held, until one does not fit. *)
Gather(acc, held) ==
  FoldLeft(LAMBDA a, h : IF a.ok /\ Len(a.acc) + Len(h.data) <= recv_accumulator_max
                         THEN [a EXCEPT !.acc = @ \o h.data] ELSE [a EXCEPT !.ok = FALSE],
           [acc |-> acc, ok |-> TRUE], held)

(* delivery_decision. *)
ZeroCopyOk(free) == free > recv_segment_reserve

(* ProvidedBufRing::free. *)
FreeBufs(w) == NBufs - w.outstanding

-----------------------------------------------------------------------------
(* Waking, arming and closing. *)

(* recv_finished. *)
RecvFinished(w, c) == w.slot[c].read # "Open" \/ w.slot[c].lifecycle = "Closing"

(* Executor::wake_recv. *)
WakeRecv(w, c) ==
  IF w.slot[c].life # 0 /\ w.life[w.slot[c].life].task = "recv"
  THEN [w EXCEPT !.life[w.slot[c].life].task = "ready"] ELSE w

(* Executor::wake_send. *)
WakeSend(w, c) ==
  IF w.slot[c].life # 0 /\ w.life[w.slot[c].life].task = "send"
  THEN [w EXCEPT !.life[w.slot[c].life].task = "ready"] ELSE w

(* close_connection. *)
CloseConnection(w, c) ==
  LET s == w.slot[c] IN
  IF s.lifecycle # "Open" THEN w
  ELSE [w EXCEPT
    !.slot[c] = [s EXCEPT
      !.lifecycle = "Closing", !.recv_hold = <<>>, !.forwarding = FALSE,
      !.progress = IF s.write = <<>> THEN <<>> ELSE @,
      !.done = IF s.write = <<>> THEN "none" ELSE @,
      !.active = FALSE, !.throttled = FALSE, !.fallback = FALSE, !.close_pending = TRUE],
    !.replenish = @ \o Bids(s.recv_hold),
    !.finalize = IF s.sending = <<>> THEN @ \union {c} ELSE @]

(* submit_multishot_recv and what every caller makes of a refusal. *)
SubmitMultishotRecv(w, c, ok) ==
  IF ok THEN [w EXCEPT !.slot[c].armed = TRUE, !.life[w.slot[c].life].multishots = @ + 1]
  ELSE CloseConnection(WakeRecv(w, c), c)

(* submit_async_cancel of the multishot receive. *)
CancelRecv(w, c) == [w EXCEPT !.life[w.slot[c].life].cancels = @ + 1]

(* try_finalize_close: once nothing of the slot is in the kernel, cancel   *)
(* its receive and submit the Close.                                       *)
TryFinalizeClose(w, c) ==
  LET s == w.slot[c]
      closing == [w EXCEPT !.slot[c].close_pending = FALSE, !.slot[c].close_submitted = TRUE,
                           !.slot[c].armed = FALSE]
  IN
  IF ~s.close_pending \/ s.sending # <<>> \/ s.write # <<>> THEN w
  ELSE IF s.armed THEN CancelRecv(closing, c) ELSE closing

(* Mutant: a receive that ran out of buffers is not remembered. *)
StarveForgets(w, c) == w

Unstarve(w, c) == [w EXCEPT !.starved = SelectSeq(@, LAMBDA d : d # c)]
Starve(w, c) == IF Contains(w.starved, c) THEN w ELSE [w EXCEPT !.starved = Append(@, c)]

CanArm(w, c) == w.slot[c].lifecycle = "Open" /\ ~w.slot[c].armed

(* rearm_multishot_if_idle. *)
RearmIfIdle(w, c, ok) ==
  IF ~w.slot[c].throttled /\ CanArm(w, c) THEN SubmitMultishotRecv(w, c, ok) ELSE w

(* maybe_rearm_throttled_forward. *)
MaybeRearmThrottledForward(w, c, ok) ==
  LET s == w.slot[c] IN
  IF ~s.throttled \/ s.armed \/ Len(s.hold) >= forward_hold_cap THEN w
  ELSE IF s.lifecycle # "Open" THEN [w EXCEPT !.slot[c].throttled = FALSE]
  ELSE SubmitMultishotRecv([Unstarve(w, c) EXCEPT !.slot[c].throttled = FALSE], c, ok)

-----------------------------------------------------------------------------
(* Forwards. *)

(* settle_forward_end: what is held goes to the accumulator (SettleFits is *)
(* its result), and a throttled receive that has ended is armed again.     *)
SettleFits(w, c) == Gather(w.slot[c].acc, w.slot[c].hold).ok

SettleForwardEnd(w, c, ok) ==
  LET s == w.slot[c]
      settled == [w EXCEPT
        !.slot[c] = [s EXCEPT !.acc = Gather(@, s.hold).acc, !.hold = <<>>,
                              !.domain = "CopyOrConsume", !.active = FALSE,
                              !.throttled = @ /\ s.armed],
        !.replenish = @ \o Bids(s.hold)]
  IN IF s.throttled /\ CanArm(w, c) /\ ok THEN SubmitMultishotRecv(settled, c, TRUE) ELSE settled

(* settle_forward_end by a caller that closes when it reports an overflow. *)
SettleOrClose(w, c, ok) ==
  IF SettleFits(w, c) THEN SettleForwardEnd(w, c, ok)
  ELSE CloseConnection(SettleForwardEnd(w, c, ok), c)

(* The buffers a write takes from the front of the hold: those that fit    *)
(* in what is left to forward, and the front part of the one that does not.*)
Whole(hold, left) ==
  Max({k \in 0 .. Min({Len(hold), MAX_FORWARD_IOV}) : Len(Data(SubSeq(hold, 1, k))) <= left})
Split(hold, left) ==
  LET k == Whole(hold, left)
      used == Len(Data(SubSeq(hold, 1, k)))
  IN  IF used < left /\ k < Len(hold) /\ k < MAX_FORWARD_IOV
      THEN [front |-> Append(SubSeq(hold, 1, k),
                             [hold[k + 1] EXCEPT !.data = SubSeq(@, 1, left - used)]),
            tail |-> SubSeq(hold[k + 1].data, left - used + 1, Len(hold[k + 1].data)),
            rest |-> SubSeq(hold, k + 2, Len(hold))]
      ELSE [front |-> SubSeq(hold, 1, k), tail |-> <<>>, rest |-> SubSeq(hold, k + 1, Len(hold))]

(* advance_forward with start_forward_write: the worker, and "run" while   *)
(* the forward goes on.                                                    *)
AdvanceForward(w, c, ok) ==
  LET s == w.slot[c]
      over == [w EXCEPT !.slot[c].progress = <<>>]
      left == s.progress[1].len - s.progress[1].forwarded
      part == Split(s.hold, left)
      taken == [w EXCEPT !.slot[c].hold = part.rest]
  IN
  CASE s.progress = <<>> \/ s.write # <<>> -> [w |-> w, res |-> "run"]
    [] left = 0 -> [w |-> SettleOrClose(over, c, ok), res |-> IF SettleFits(over, c) THEN "ok" ELSE "err"]
    [] s.hold = <<>> /\ RecvFinished(w, c) -> [w |-> SettleForwardEnd(over, c, ok), res |-> "ok"]
    [] s.hold = <<>> -> [w |-> w, res |-> "run"]
    [] ~Fits(w, c, part.tail) ->
         [w |-> CloseConnection(Replenish([taken EXCEPT !.slot[c].progress = <<>>], Bids(part.front)), c),
          res |-> "err"]
    [] ok -> [w |-> [Append_(taken, c, part.tail) EXCEPT
                       !.slot[c].write = <<[held |-> part.front, data |-> Data(part.front)]>>],
              res |-> "run"]
    [] OTHER -> [w |-> SettleForwardEnd(Replenish([Append_(taken, c, part.tail) EXCEPT
                                                     !.slot[c].progress = <<>>], Bids(part.front)), c, ok),
                 res |-> "err"]

(* finish_forward_if_done. *)
FinishForwardIfDone(w, c, ok) ==
  LET a == AdvanceForward(w, c, ok) IN
  IF a.res = "run" THEN a.w ELSE WakeRecv([a.w EXCEPT !.slot[c].done = a.res], c)

(* fail_forward_write. *)
FailForwardWrite(w, c) ==
  LET s == w.slot[c]
      freed == Replenish([w EXCEPT !.slot[c].write = <<>>], Bids(s.write[1].held))
  IN IF s.close_pending THEN TryFinalizeClose(freed, c)
     ELSE WakeRecv([freed EXCEPT !.slot[c].progress = <<>>, !.slot[c].done = "err"], c)

(* handle_forward_write: n bytes of the write were accepted. *)
HandleForwardWrite(w, c, n, ok) ==
  LET s == w.slot[c]
      x == s.write[1]
      wrote == [w EXCEPT !.life[s.life].out = @ \o SubSeq(x.data, 1, n),
                         !.slot[c].write = <<[x EXCEPT !.data = SubSeq(@, n + 1, Len(@))]>>]
      freed == Replenish([wrote EXCEPT !.slot[c].write = <<>>], Bids(x.held))
  IN
  CASE n < Len(x.data) /\ ~s.close_pending -> IF ok THEN wrote ELSE FailForwardWrite(wrote, c)
    [] s.close_pending -> TryFinalizeClose(freed, c)
    [] OTHER -> MaybeRearmThrottledForward(
                  FinishForwardIfDone(
                    IF s.progress = <<>> THEN freed
                    ELSE [freed EXCEPT !.slot[c].progress[1].forwarded = @ + Len(Data(x.held))], c, ok), c, ok)

-----------------------------------------------------------------------------
(* Completions of receives. *)

(* hold_direct_echo.  (The list of slots to echo is the slots with echo    *)
(* set and something held: FlushDirectEcho visits those.)                  *)
HoldDirectEcho(w, c, buf) == [w EXCEPT !.slot[c].recv_hold = Append(@, buf)]

(* The segmented branch of handle_recv_multi, with the throttle that the   *)
(* hold cap puts on a forwarding receive.                                  *)
DeliverSegment(w, c, buf, ok) ==
  LET held == IF ZeroCopyOk(FreeBufs(w)) THEN [w EXCEPT !.slot[c].hold = Append(@, buf)]
              ELSE Replenish([w EXCEPT !.slot[c].hold = Append(@, [buf EXCEPT !.bid = NoBuf])], <<buf.bid>>)
      s == held.slot[c]
      throttle == s.active /\ ~s.throttled /\ Len(s.hold) >= forward_hold_cap
      slowed == IF ~throttle THEN held
                ELSE IF s.armed THEN CancelRecv([held EXCEPT !.slot[c].throttled = TRUE], c)
                ELSE [held EXCEPT !.slot[c].throttled = TRUE]
  IN IF s.progress # <<>> THEN FinishForwardIfDone(slowed, c, ok) ELSE WakeRecv(slowed, c)

(* The recv sink branch: what it has room for, and the rest to the         *)
(* accumulator.                                                            *)
DeliverSink(w, c, buf) ==
  LET room == w.slot[c].sink[1].cap - Len(w.slot[c].sink[1].data)
      n == Min({room, Len(buf.data)})
      rest == SubSeq(buf.data, n + 1, Len(buf.data))
      sunk == Replenish([w EXCEPT !.slot[c].sink[1].data = @ \o SubSeq(buf.data, 1, n)], <<buf.bid>>)
  IN IF rest # <<>> /\ ~Fits(sunk, c, rest) THEN CloseConnection(WakeRecv(sunk, c), c)
     ELSE WakeRecv(IF rest = <<>> THEN sunk ELSE Append_(sunk, c, rest), c)

(* Mutant: the buffer kept back is not copied ahead of the next one. *)
DeliverDataReordered(w, c, buf) ==
  LET s == w.slot[c] IN
  IF s.acc = <<>> /\ s.pending = <<>> THEN WakeRecv([w EXCEPT !.slot[c].pending = <<buf>>], c)
  ELSE WakeRecv(Append_(Replenish([w EXCEPT !.slot[c].pending = <<>>], Append(Bids(s.pending), buf.bid)),
                        c, buf.data \o Data(s.pending)), c)

(* The default branch: the first buffer waits in place, anything after it  *)
(* goes to the accumulator behind it.                                      *)
DeliverData(w, c, buf) ==
  LET s == w.slot[c]
      g == Gather(s.acc, Append(s.pending, buf))
      moved == Replenish([w EXCEPT !.slot[c].pending = <<>>, !.slot[c].acc = g.acc],
                         Append(Bids(s.pending), buf.bid))
  IN IF s.acc = <<>> /\ s.pending = <<>> THEN WakeRecv([w EXCEPT !.slot[c].pending = <<buf>>], c)
     ELSE IF g.ok THEN WakeRecv(moved, c)
     ELSE CloseConnection(WakeRecv(moved, c), c)

DeliverRecv(w, c, buf, ok) ==
  CASE w.slot[c].domain = "Segmented" -> DeliverSegment(w, c, buf, ok)
    [] w.slot[c].domain # "Segmented" /\ w.slot[c].forwarding ->
         WakeRecv([w EXCEPT !.slot[c].recv_hold = Append(@, buf)], c)
    [] w.slot[c].domain # "Segmented" /\ ~w.slot[c].forwarding /\ w.slot[c].echo -> HoldDirectEcho(w, c, buf)
    [] OTHER -> IF w.slot[c].sink # <<>> THEN DeliverSink(w, c, buf) ELSE DeliverData(w, c, buf)

IsStale(w, c, l) == w.slot[c].life # l

(* Mutant: the buffer of a stale completion is forgotten. *)
DropStaleLeaks(w, q) == w

(* A completion for an occupant that is gone gives its buffer back. *)
DropStale(w, q) ==
  IF q.kind # "data" THEN w
  ELSE Replenish([w EXCEPT !.outstanding = @ + 1], <<q.buf.bid>>)

(* handle_recv_multi. *)
HandleRecvMulti(w, c, l, q, ok) ==
  LET ended == IF q.more THEN w ELSE [w EXCEPT !.slot[c].armed = FALSE]
      got == DeliverRecv([ended EXCEPT !.outstanding = @ + 1], c, q.buf, ok)
  IN
  CASE IsStale(w, c, l) -> DropStale(w, q)
    [] ~IsStale(w, c, l) /\ q.kind = "eof" ->
         CloseConnection(WakeRecv([ended EXCEPT !.slot[c].read = "Eof"], c), c)
    [] ~IsStale(w, c, l) /\ q.kind = "err" ->
         CloseConnection(WakeRecv([ended EXCEPT !.slot[c].read = "Error"], c), c)
    [] ~IsStale(w, c, l) /\ q.kind = "nobufs" -> Starve(ended, c)
    [] ~IsStale(w, c, l) /\ q.kind = "cancelled" ->
         RearmIfIdle(MaybeRearmThrottledForward(ended, c, ok), c, ok)
    [] OTHER -> IF ~q.more /\ ~got.slot[c].throttled /\ CanArm(got, c)
                THEN SubmitMultishotRecv(got, c, ok) ELSE got

(* fallback_eligible: part of a message is in the accumulator of a reader  *)
(* that takes its bytes from there.                                        *)
FallbackEligible(w, c) ==
  LET s == w.slot[c] IN
  ~s.echo /\ s.domain # "Segmented" /\ ~s.forwarding /\ s.sink = <<>> /\ s.acc # <<>>

(* The slots of the fallback pool in use. *)
FallbackSlots(w) == {l \in DOMAIN w.life : w.life[l].one_shot \/ \E i \in DOMAIN w.life[l].cq : w.life[l].cq[i].kind = "one_shot"}

(* handle_recv_fallback: a one-shot receive of occupant l has ended, with  *)
(* data, or without (res); one that was cancelled leaves the slot starved. *)
HandleRecvFallback(w, c, l, q) ==
  LET mine == [w EXCEPT !.slot[c].fallback = FALSE]
      taken == IF mine.slot[c].domain = "Segmented"
               THEN [mine EXCEPT !.slot[c].hold = Append(@, [bid |-> NoBuf, data |-> q.data])]
               ELSE Append_(mine, c, q.data)
  IN
  CASE IsStale(w, c, l) -> w
    [] ~IsStale(w, c, l) /\ q.res = "Cancelled" -> Starve(mine, c)
    [] ~IsStale(w, c, l) /\ q.res \in {"Eof", "Error"} ->
         CloseConnection(WakeRecv([mine EXCEPT !.slot[c].read = q.res], c), c)
    [] ~IsStale(w, c, l) /\ q.res = "data" /\ mine.slot[c].domain # "Segmented" /\ ~Fits(mine, c, q.data) ->
         CloseConnection(WakeRecv(mine, c), c)
    [] OTHER -> Starve(WakeRecv(taken, c), c)

-----------------------------------------------------------------------------
(* The end of a pass over the completions. *)

(* A send of receive buffers: "buf", a Send of one (SendRecvBuf), or       *)
(* "bufs", a sendmsg of several (SendRecvBufsCoalesced).  When its push is *)
(* refused it waits on a retry list; tries counts the retries refused.     *)
SendRecv(op, held, ok) == <<[op |-> op, held |-> held, data |-> Data(held), waits |-> ~ok, tries |-> 0]>>

(* flush_direct_echo: what is held, in one send; the head alone when it is *)
(* all there is or the slab has no entry.                                  *)
FlushDirectEcho(w, c, ok) ==
  LET s == w.slot[c]
      n == IF SlabExhausted THEN 1 ELSE Min({Len(s.recv_hold), MAX_IOVECS})
  IN IF ~s.echo \/ s.sending # <<>> \/ s.recv_hold = <<>> THEN w
     ELSE [w EXCEPT !.slot[c].recv_hold = SubSeq(@, n + 1, Len(@)),
                    !.slot[c].sending = SendRecv(IF n = 1 THEN "buf" ELSE "bufs", SubSeq(s.recv_hold, 1, n), ok)]

FlushDirectEchoes(w, ok) == FoldSet(LAMBDA c, x : FlushDirectEcho(x, c, ok), w, DOMAIN w.slot)

(* The buffer a starved slot keeps pending is copied out. *)
CopyOutPending(w, c) ==
  LET s == w.slot[c]
      g == Gather(s.acc, s.pending)
      moved == Replenish([w EXCEPT !.slot[c].pending = <<>>, !.slot[c].acc = g.acc], Bids(s.pending))
  IN IF g.ok THEN moved ELSE CloseConnection(WakeRecv(moved, c), c)

(* ProvidedBufRing::replenish_batch. *)
ReplenishBatch(w) ==
  [w EXCEPT !.free = @ \union ToSet(w.replenish), !.outstanding = @ - Len(w.replenish), !.replenish = <<>>]

(* try_submit_fallback_recv. *)
TrySubmitFallbackRecv(w, c) ==
  [w EXCEPT !.slot[c].fallback = TRUE, !.life[w.slot[c].life].one_shot = TRUE]

(* What flush_replenish_and_rearm does for one starved slot. *)
Arbitrate(w, c, replenished, ok) ==
  IF w.slot[c].fallback \/ w.slot[c].throttled THEN w
  ELSE IF w.slot[c].lifecycle # "Open" THEN Unstarve(w, c)
  ELSE IF FallbackEligible(w, c) /\ Cardinality(FallbackSlots(w)) < FALLBACK_RECV_SLOTS
  THEN TrySubmitFallbackRecv(Unstarve(w, c), c)
  ELSE IF replenished \/ FreeBufs(w) > 0 THEN SubmitMultishotRecv(Unstarve(w, c), c, ok)
  ELSE w

(* flush_replenish_and_rearm. *)
FlushReplenishAndRearm(w, ok) ==
  LET copied == FoldLeft(CopyOutPending, w, w.starved)
      full == ReplenishBatch(copied)
  IN FoldLeft(LAMBDA x, c : Arbitrate(x, c, copied.replenish # <<>>, ok), full, full.starved)

Flush(w, ok) == FlushReplenishAndRearm(FlushDirectEchoes(w, ok), ok)

-----------------------------------------------------------------------------
(* Sends of receive buffers, and the end of a slot. *)

(* The buffers of the send go back (release_recv_forward), and nothing is  *)
(* in flight.                                                              *)
EndSend(w, c) == Replenish([w EXCEPT !.slot[c].sending = <<>>], Bids(w.slot[c].sending[1].held))


(* handle_send_recv_buf and handle_send_recv_bufs_coalesced: n bytes of    *)
(* the send were accepted and the rest is sent again; with none it failed. *)
(* When the rest is refused, a gathered send waits to be retried, but a    *)
(* single one is given up: its buffer goes back, the rest of its bytes is  *)
(* never sent (gap), and nobody is told.                                   *)
HandleSendRecvBuf(w, c, n, ok) ==
  LET s == w.slot[c]
      x == s.sending[1]
      short == 0 < n /\ n < Len(x.data)
      sent == [w EXCEPT !.life[s.life].out = @ \o SubSeq(x.data, 1, n)]
      rest == [sent EXCEPT !.slot[c].sending[1] = [x EXCEPT !.data = SubSeq(@, n + 1, Len(@)), !.waits = ~ok]]
  IN CASE short /\ (ok \/ x.op = "bufs") -> rest
       [] short /\ ~ok /\ x.op = "buf" ->
            TryFinalizeClose(EndSend([sent EXCEPT !.life[s.life].gap = TRUE], c), c)
       [] OTHER -> TryFinalizeClose(WakeSend(EndSend(sent, c), c), c)

(* drain_recv_forward_retries and drain_send_retries: after two refused    *)
(* retries the send is given up and the connection closed.  Once the Close *)
(* is submitted a gathered send only returns its buffers, and a single one *)
(* stays in its queue until the slot is installed again.                   *)
RetrySend(w, c, ok) ==
  LET s == w.slot[c]
      x == s.sending[1]
      waiting == s.sending # <<>> /\ s.sending[1].waits
      ended == EndSend([w EXCEPT !.life[s.life].gap = TRUE], c)
      given_up == WakeSend(TryFinalizeClose(ended, c), c)
  IN CASE ~waiting -> w
       [] waiting /\ (s.close_submitted \/ s.lifecycle = "Inactive") ->
            IF x.op = "buf" THEN w
            ELSE Replenish([w EXCEPT !.slot[c].sending[1] = [x EXCEPT !.held = <<>>, !.data = <<>>]], Bids(x.held))
       [] waiting /\ ~s.close_submitted /\ s.lifecycle # "Inactive" /\ x.tries >= 2 ->
            CloseConnection(IF x.op = "buf" THEN WakeRecv(given_up, c) ELSE given_up, c)
       [] OTHER -> [w EXCEPT !.slot[c].sending[1] = IF ok THEN [x EXCEPT !.waits = FALSE, !.tries = 0]
                                                    ELSE [x EXCEPT !.tries = @ + 1]]

RetrySends(w, ok) == FoldSet(LAMBDA c, x : RetrySend(x, c, ok), w, DOMAIN w.slot)

Slot(l) == setup.slot[l]
Got(w, l, data) == [w EXCEPT !.life[l].got = @ \o data]

(* RecvSegment::into_owned and Drop for RecvSegment. *)
DropSegment(w, l) ==
  LET c == Slot(l)
      seg == w.life[l].segment
      mine == w.slot[c].life = l /\ Bids(w.slot[c].pinned) = Bids(seg)
      read == [Got(w, l, Data(seg)) EXCEPT !.life[l].segment = <<>>, !.life[l].task = "ready"]
  IN IF mine THEN Replenish([read EXCEPT !.slot[c].pinned = <<>>], Bids(seg)) ELSE read

(* handle_close, with remove_connection and release.  (The state that      *)
(* install_accepted resets is reset here.)                                 *)
HandleClose(w, c) ==
  LET s == w.slot[c]
      l == s.life
      gone == [FreeSlot EXCEPT !.recv_hold = s.recv_hold, !.sending = s.sending]
      freed == Replenish([w EXCEPT !.slot[c].pinned = <<>>], Bids(s.pending \o s.pinned \o s.hold))
  IN [DropSegment(freed, l) EXCEPT !.slot[c] = gone, !.life[l].task = "done"]

(* install_accepted with reset_send_state, arm_recv and spawn_accept_task: *)
(* a send still queued from the last occupant returns its buffers.         *)
InstallAccepted(w, c, l, ok) ==
  LET s == [w.slot[c] EXCEPT !.life = l, !.lifecycle = "Open", !.sending = <<>>]
      queued == IF w.slot[c].sending = <<>> \/ ~w.slot[c].sending[1].waits THEN <<>> ELSE w.slot[c].sending[1].held
      installed == [w EXCEPT !.slot[c] = s, !.life[l].begun = TRUE, !.life[l].task = "ready"]
  IN SubmitMultishotRecv(Replenish(installed, Bids(queued)), c, ok)

-----------------------------------------------------------------------------
(* The futures a task polls.  Each is an operator from worker to worker;   *)
(* k is what the closure consumes.                                         *)

Bytes(l, n) == [i \in 1 .. n |-> <<l, i>>]

Park(w, l) == [w EXCEPT !.life[l].task = "recv"]

(* The task returns: poll_ready_tasks closes its connection. *)
EndTask(w, l) == CloseConnection([w EXCEPT !.life[l].task = "done"], Slot(l))

(* What a closure may consume of n bytes: part of them, or, when they are  *)
(* fewer than a message of two bytes, none.                                *)
Consumable(n) == {k \in 0 .. n : k > 0 \/ n < 2}

(* WithDataFuture::poll; ready when it resolves, with end for a 0.         *)
Unread(w, c) ==
  LET s == w.slot[c] IN
  IF s.pending = <<>> THEN w
  ELSE Replenish([w EXCEPT !.slot[c].pending = <<>>, !.slot[c].acc = Data(s.pending) \o @], Bids(s.pending))

PollWithData(w, l, k) ==
  LET c == Slot(l)
      x == Unread(w, c)
      acc == x.slot[c].acc
  IN CASE k > 0 -> Got([x EXCEPT !.slot[c].acc = SubSeq(@, k + 1, Len(@))], l, SubSeq(acc, 1, k))
       [] k = 0 /\ RecvFinished(x, c) -> EndTask(x, l)
       [] OTHER -> Park(x, l)

(* WithBytesFuture::poll: take_frozen, and put_back of what is left. *)
PollWithBytes(w, l, k) ==
  LET c == Slot(l)
      s == w.slot[c]
      x == Replenish([w EXCEPT !.slot[c].pending = <<>>, !.slot[c].acc = @ \o Data(s.pending)], Bids(s.pending))
      frozen == x.slot[c].acc
  IN CASE k > 0 -> Got([x EXCEPT !.slot[c].acc = SubSeq(frozen, k + 1, Len(frozen))], l, SubSeq(frozen, 1, k))
       [] k = 0 /\ RecvFinished(x, c) -> EndTask(x, l)
       [] OTHER -> Park(x, l)

(* enter_segmented_domain: what has been received becomes segments. *)
EnterSegmentedDomain(w, c, exclusive) ==
  LET s == w.slot[c]
      owned(data) == IF data = <<>> THEN <<>> ELSE <<[bid |-> NoBuf, data |-> data]>>
  IN Replenish([w EXCEPT !.slot[c] = [s EXCEPT
       !.domain = "Segmented", !.reader = exclusive, !.acc = <<>>, !.pending = <<>>,
       !.hold = owned(s.acc) \o @ \o owned(Data(s.pending))]], Bids(s.pending))

(* adopt_stranded_accumulator. *)
AdoptStranded(w, c) ==
  IF w.slot[c].acc = <<>> THEN w
  ELSE [w EXCEPT !.slot[c].hold = <<[bid |-> NoBuf, data |-> w.slot[c].acc]>> \o @, !.slot[c].acc = <<>>]

(* SegmentNext::poll: the task keeps the segment while it waits for        *)
(* something else ("held").                                                *)
PollSegmentNext(w, l) ==
  LET c == Slot(l)
      x == AdoptStranded(w, c)
      h == x.slot[c].hold
  IN CASE h # <<>> -> [x EXCEPT !.slot[c].hold = Tail(@),
                                !.slot[c].pinned = IF Head(h).bid = NoBuf THEN <<>> ELSE <<Head(h)>>,
                                !.life[l].segment = <<Head(h)>>, !.life[l].task = "held"]
       [] h = <<>> /\ RecvFinished(x, c) -> EndTask(x, l)
       [] OTHER -> Park(x, l)

(* Drop for SegmentReader, and end_segments: back to with_data. *)
EndSegments(w, l, ok) ==
  LET c == Slot(l)
      left == [w EXCEPT !.slot[c].reader = FALSE, !.life[l].step = 2]
  IN IF w.slot[c].domain = "Segmented" THEN SettleOrClose(left, c, ok) ELSE left

(* RecvOwnedSegment::poll. *)
PollOwnedSegment(w, l) ==
  LET c == Slot(l)
      x == AdoptStranded(EnterSegmentedDomain(w, c, FALSE), c)
      h == x.slot[c].hold
  IN CASE h # <<>> -> Replenish([Got(x, l, Head(h).data) EXCEPT !.slot[c].hold = Tail(@)], Bids(<<Head(h)>>))
       [] h = <<>> /\ RecvFinished(x, c) -> EndTask(x, l)
       [] OTHER -> Park(x, l)

(* held without its first n bytes. *)
DropBytes(held, n) ==
  LET before(i) == Len(Data(SubSeq(held, 1, i - 1)))
      skip(i) == IF n > before(i) THEN n - before(i) ELSE 0
  IN  [i \in DOMAIN held |-> [held[i] EXCEPT !.data = SubSeq(@, skip(i) + 1, Len(@))]]

(* WithSegmentsFuture::poll: what the closure leaves is copied to the      *)
(* accumulator.                                                            *)
PollWithSegments(w, l, k) ==
  LET c == Slot(l)
      s == w.slot[c]
      acc == s.acc \o Data(s.pending)
      g == Gather(SubSeq(acc, k + 1, Len(acc)), DropBytes(s.hold, IF k > Len(acc) THEN k - Len(acc) ELSE 0))
      x == Replenish([w EXCEPT !.slot[c] = [s EXCEPT !.domain = "Segmented", !.acc = g.acc, !.pending = <<>>,
                                                     !.hold = <<>>]], Bids(s.pending \o s.hold))
  IN CASE ~g.ok -> EndTask(x, l)
       [] g.ok /\ k > 0 -> Got(x, l, SubSeq(acc \o Data(s.hold), 1, k))
       [] g.ok /\ k = 0 /\ RecvFinished(w, c) -> EndTask(x, l)
       [] OTHER -> Park(x, l)

(* forward_to, with arm_forward_source. *)
ForwardTo(w, l) ==
  LET c == Slot(l) IN
  [EnterSegmentedDomain(w, c, FALSE) EXCEPT
     !.slot[c].progress = <<[len |-> setup.len, forwarded |-> 0]>>, !.slot[c].done = "none",
     !.slot[c].active = TRUE, !.life[l].step = 1]

(* ForwardToFuture::poll.  The task returns when the forward failed. *)
PollForward(w, l, ok) ==
  LET c == Slot(l)
      a == AdvanceForward(w, c, ok)
      res == IF w.slot[c].done # "none" THEN w.slot[c].done ELSE a.res
      x == IF w.slot[c].done # "none" THEN [w EXCEPT !.slot[c].done = "none", !.slot[c].progress = <<>>] ELSE a.w
  IN CASE res = "ok" -> [x EXCEPT !.life[l].step = 2]
       [] res = "err" -> EndTask(x, l)
       [] res = "run" -> Park(x, l)

(* Drop for ForwardToFuture. *)
DropForward(w, l, ok) ==
  LET c == Slot(l)
      left == [w EXCEPT !.life[l].step = 2]
  IN IF w.slot[c].progress = <<>> THEN left
     ELSE SettleOrClose([left EXCEPT !.slot[c].progress = <<>>, !.slot[c].done = "none"], c, ok)

(* DirectEchoFuture::poll. *)
PollDirectEcho(w, l) ==
  LET c == Slot(l)
      s == w.slot[c]
      x == IF w.life[l].step # 0 THEN w
           ELSE [w EXCEPT !.slot[c].echo = TRUE, !.slot[c].pending = <<>>,
                          !.slot[c].recv_hold = @ \o s.pending, !.life[l].step = 1]
  IN IF RecvFinished(x, c) THEN EndTask(x, l) ELSE Park(x, l)

(* RecvReadyFuture::poll. *)
RecvReady(w, c) ==
  LET s == w.slot[c] IN
  \/ s.sink # <<>> /\ s.sink[1].data # <<>>
  \/ s.acc # <<>>
  \/ s.recv_hold # <<>>
  \/ RecvFinished(w, c)

(* A task that loops over recv_ready and forward_held, and returns when it *)
(* forwards nothing or fails: an exhausted slab and a refused push leave   *)
(* the buffers in the hold.                                                *)
PollForwardHeld(w, l, ok) ==
  LET c == Slot(l)
      s == w.slot[c]
      n == Min({Len(s.recv_hold), MAX_IOVECS})
  IN CASE ~RecvReady(w, c) -> Park([w EXCEPT !.slot[c].forwarding = TRUE], l)
       [] RecvReady(w, c) /\ (s.recv_hold = <<>> \/ s.sending # <<>> \/ SlabExhausted \/ ~ok) -> EndTask(w, l)
       [] OTHER -> [w EXCEPT !.slot[c].recv_hold = SubSeq(@, n + 1, Len(@)), !.life[l].task = "send",
                             !.slot[c].sending = SendRecv("bufs", SubSeq(s.recv_hold, 1, n), TRUE)]

(* A task that loops over set_recv_sink, recv_ready, take_recv_sink and    *)
(* try_with_data; without the sink in the mode "ready".                    *)
PollSink(w, l) ==
  LET c == Slot(l)
      s == w.slot[c]
      sunk == IF s.sink = <<>> THEN <<>> ELSE s.sink[1].data
      sink == IF setup.mode[l] = "sink" THEN <<[cap |-> setup.len, data |-> <<>>]>> ELSE <<>>
  IN CASE ~RecvReady(w, c) -> Park([w EXCEPT !.slot[c].sink = IF @ = <<>> THEN sink ELSE @], l)
       [] RecvReady(w, c) /\ sunk \o s.acc # <<>> ->
            Got([w EXCEPT !.slot[c].sink = <<>>, !.slot[c].acc = <<>>], l, sunk \o s.acc)
       [] OTHER -> EndTask(w, l)

-----------------------------------------------------------------------------
(* The run loop and its surroundings. *)

Accepted(ok) == ok \/ "full" \in setup.faults
Vary(w) == v' = w /\ UNCHANGED <<setup, stage>>

(* An accept completion: the slot is free. *)
Accept(l, ok) ==
  /\ stage = "cqes" /\ ~v.life[l].begun /\ v.slot[Slot(l)].life = 0 /\ Accepted(ok)
  /\ \A m \in Lives : m < l /\ Slot(m) = Slot(l) => v.life[m].begun
  /\ Vary(InstallAccepted(v, Slot(l), l, ok))

(* What the kernel has for occupant l. *)
Unsent(l) == setup.bytes[l] - v.life[l].read
Chunk(l, n) == SubSeq(Bytes(l, v.life[l].read + n), v.life[l].read + 1, v.life[l].read + n)
Post(l, q) == [v EXCEPT !.life[l].cq = Append(@, q),
                        !.life[l].multishots = IF q.more THEN @ ELSE @ - 1]

(* A multishot receive takes a buffer; it may end with that. *)
KernelData(l, n, more) ==
  /\ stage = "kernel" /\ v.life[l].multishots > 0 /\ n <= Unsent(l) /\ v.free # {}
  /\ more \/ "term" \in setup.faults
  /\ LET bid == Min(v.free) IN
     Vary([Post(l, [kind |-> "data", buf |-> [bid |-> bid, data |-> Chunk(l, n)], more |-> more])
             EXCEPT !.free = @ \ {bid}, !.life[l].read = @ + n])

(* It ends for want of a buffer, at the end of the stream, or in an error. *)
KernelEnd(l, kind) ==
  /\ stage = "kernel" /\ v.life[l].multishots > 0
  /\ CASE kind = "nobufs" -> Unsent(l) > 0 /\ v.free = {}
       [] kind = "eof" -> Unsent(l) = 0 /\ setup.fin
       [] kind = "err" -> "err" \in setup.faults
  /\ Vary(Post(l, [kind |-> kind, more |-> FALSE]))

(* A cancel of the receive is carried out: it may find the receive it was  *)
(* meant for, one armed since, or none.                                    *)
KernelCancel(l) ==
  /\ stage = "kernel" /\ v.life[l].cancels > 0
  /\ LET found == v.life[l].multishots > 0
         w == IF found THEN Post(l, [kind |-> "cancelled", more |-> FALSE]) ELSE v
     IN  Vary([w EXCEPT !.life[l].cancels = @ - 1])

(* The one-shot receive. *)
KernelOneShot(l, res, n) ==
  /\ stage = "kernel" /\ v.life[l].one_shot
  /\ CASE res = "data" -> n \in 1 .. Unsent(l)
       [] res = "Eof" -> n = 0 /\ Unsent(l) = 0 /\ setup.fin
       [] res \in {"Error", "Cancelled"} -> n = 0 /\ "err" \in setup.faults
  /\ Vary([v EXCEPT !.life[l].one_shot = FALSE, !.life[l].read = @ + n,
                    !.life[l].cq = Append(@, [kind |-> "one_shot", res |-> res, data |-> Chunk(l, n)])])

(* dispatch_cqe of the next receive completion of occupant l. *)
Dispatch(l, ok) ==
  LET q == Head(v.life[l].cq)
      w == [v EXCEPT !.life[l].cq = Tail(@)]
  IN /\ stage = "cqes" /\ v.life[l].cq # <<>> /\ Accepted(ok)
     /\ Vary(IF q.kind = "one_shot" THEN HandleRecvFallback(w, Slot(l), l, q)
             ELSE HandleRecvMulti(w, Slot(l), l, q, ok))

(* A write of a forward ends: all of it, part of it, or an error (0). *)
WriteDone(c, n, ok) ==
  /\ stage = "cqes" /\ v.slot[c].write # <<>> /\ Accepted(ok)
  /\ n <= Len(v.slot[c].write[1].data) /\ (n = 0 => "write" \in setup.faults)
  /\ Vary(IF n = 0 THEN FailForwardWrite(v, c) ELSE HandleForwardWrite(v, c, n, ok))

SendDone(c, n, ok) ==
  /\ stage = "cqes" /\ v.slot[c].sending # <<>> /\ ~v.slot[c].sending[1].waits /\ Accepted(ok)
  /\ n <= Len(v.slot[c].sending[1].data) /\ (n = 0 => "write" \in setup.faults)
  /\ Vary(HandleSendRecvBuf(v, c, n, ok))

(* A gathered send finds the socket full, and the POLLOUT it needs is      *)
(* refused: it is retried.                                                 *)
SendBlocked(c) ==
  /\ stage = "cqes" /\ v.slot[c].sending # <<>> /\ Accepted(FALSE)
  /\ v.slot[c].sending[1].op = "bufs" /\ ~v.slot[c].sending[1].waits
  /\ Vary([v EXCEPT !.slot[c].sending[1].waits = TRUE])

CloseDone(c) ==
  /\ stage = "cqes" /\ v.slot[c].close_submitted
  /\ Vary(HandleClose(v, c))

(* What a task awaited besides its receive comes. *)
Resume(l) ==
  /\ stage = "tasks" /\ v.life[l].task = "held"
  /\ Vary(DropSegment(v, l))

(* submit_and_wait returns. *)
BeginDrain ==
  /\ stage = "kernel"
  /\ stage' = "cqes" /\ UNCHANGED <<setup, v>>

(* The completions are drained; after the first drain of an iteration,     *)
(* refused sends are pushed again.                                         *)
EndDrain(ok, first) ==
  /\ stage = "cqes" /\ Accepted(ok) /\ \A l \in Lives : v.life[l].cq = <<>>
  /\ v' = IF first THEN RetrySends(Flush(v, ok), ok) ELSE Flush(v, ok)
  /\ stage' = "tasks" /\ UNCHANGED setup

(* The tasks are polled: the closes are carried out, and the loop starts   *)
(* over with a flush.                                                      *)
EndTasks(ok) ==
  /\ stage = "tasks" /\ Accepted(ok) /\ \A l \in Lives : v.life[l].task # "ready"
  /\ v' = Flush([FoldSet(LAMBDA c, w : TryFinalizeClose(w, c), v, v.finalize) EXCEPT !.finalize = {}], ok)
  /\ stage' = "kernel" /\ UNCHANGED setup

Runs(l, mode) == stage = "tasks" /\ v.life[l].task = "ready" /\ setup.mode[l] = mode
Enough(l) == Len(v.life[l].got) >= setup.len

TaskData(l) ==
  /\ Runs(l, setup.mode[l]) /\ (setup.mode[l] = "data" \/ v.life[l].step = 2)
  /\ \E k \in Consumable(Len(v.slot[Slot(l)].acc \o Data(v.slot[Slot(l)].pending))) : Vary(PollWithData(v, l, k))

TaskBytes(l) ==
  /\ Runs(l, "bytes")
  /\ \E k \in Consumable(Len(v.slot[Slot(l)].acc \o Data(v.slot[Slot(l)].pending))) : Vary(PollWithBytes(v, l, k))

TaskSegments(l, ok) ==
  /\ Runs(l, "segs") /\ v.life[l].step < 2 /\ Accepted(ok)
  /\ Vary(CASE v.life[l].step = 0 -> [EnterSegmentedDomain(v, Slot(l), TRUE) EXCEPT !.life[l].step = 1]
            [] v.life[l].step = 1 /\ ~Enough(l) -> PollSegmentNext(v, l)
            [] OTHER -> EndSegments(v, l, ok))

TaskOwned(l, ok) ==
  /\ Runs(l, "owned") /\ v.life[l].step < 2 /\ Accepted(ok)
  /\ Vary(IF Enough(l) THEN EndSegments(v, l, ok) ELSE PollOwnedSegment(v, l))

TaskChain(l, ok) ==
  /\ Runs(l, "chain") /\ v.life[l].step < 2 /\ Accepted(ok)
  /\ IF Enough(l) THEN Vary(EndSegments(v, l, ok))
     ELSE LET s == v.slot[Slot(l)]
          IN  \E k \in Consumable(Len(s.acc \o Data(s.pending) \o Data(s.hold))) : Vary(PollWithSegments(v, l, k))

TaskForward(l, ok) ==
  /\ Runs(l, "forward") /\ v.life[l].step < 2 /\ Accepted(ok)
  /\ Vary(IF v.life[l].step = 0 THEN ForwardTo(v, l) ELSE PollForward(v, l, ok))

TaskEcho(l) == Runs(l, "echo") /\ Vary(PollDirectEcho(v, l))
TaskHeld(l, ok) == Runs(l, "held") /\ Accepted(ok) /\ Vary(PollForwardHeld(v, l, ok))
TaskSink(l) == (Runs(l, "sink") \/ Runs(l, "ready")) /\ Vary(PollSink(v, l))

(* The future a task waits on is dropped: by a select that took its other  *)
(* branch.  The task reads on, or ends.                                    *)
TaskDrop(l, ok) ==
  /\ stage = "tasks" /\ "drop" \in setup.faults /\ v.life[l].task = "recv" /\ Accepted(ok)
  /\ LET w == [v EXCEPT !.life[l].task = "ready"] IN
     Vary(CASE setup.mode[l] = "forward" /\ v.life[l].step = 1 -> DropForward(w, l, ok)
            [] setup.mode[l] \in {"segs", "owned", "chain"} /\ v.life[l].step < 2 -> EndSegments(w, l, ok)
            [] OTHER -> EndTask(w, l))

RecvNext ==
  \/ BeginDrain
  \/ \E ok \in BOOLEAN : EndTasks(ok) \/ \E first \in BOOLEAN : EndDrain(ok, first)
  \/ \E l \in Lives :
       \/ KernelCancel(l) \/ Resume(l) \/ TaskData(l) \/ TaskBytes(l) \/ TaskEcho(l) \/ TaskSink(l)
       \/ \E n \in 1 .. ChunkMax, more \in BOOLEAN : KernelData(l, n, more)
       \/ \E kind \in {"nobufs", "eof", "err"} : KernelEnd(l, kind)
       \/ \E res \in {"data", "Eof", "Error", "Cancelled"}, n \in 0 .. ChunkMax : KernelOneShot(l, res, n)
       \/ \E ok \in BOOLEAN :
            \/ Accept(l, ok) \/ Dispatch(l, ok) \/ TaskDrop(l, ok) \/ TaskHeld(l, ok)
            \/ TaskSegments(l, ok) \/ TaskOwned(l, ok) \/ TaskChain(l, ok) \/ TaskForward(l, ok)
  \/ \E c \in DOMAIN v.slot :
       \/ CloseDone(c) \/ SendBlocked(c)
       \/ \E n \in 0 .. 2 * ChunkMax, ok \in BOOLEAN : SendDone(c, n, ok) \/ WriteDone(c, n, ok)

RecvSpec == InitRecv /\ [][RecvNext]_recvVars

-----------------------------------------------------------------------------
(* Properties. *)

Flat(c) ==
  LET s == v.slot[c]
      kernel(op) == IF op = <<>> THEN <<>> ELSE op[1].held
  IN  s.pending \o s.hold \o s.pinned \o s.recv_hold \o kernel(s.write) \o kernel(s.sending)

InCq(l) == LET q == SelectSeq(v.life[l].cq, LAMBDA x : x.kind = "data")
           IN  [i \in DOMAIN q |-> q[i].buf]

(* Every provided buffer is in exactly one place: the kernel's ring, a     *)
(* completion not handled yet, the list to replenish, or one holder among  *)
(* the slots; and the count of the buffers handed out, on which zero-copy  *)
(* delivery and re-arming are decided, is exact (on_handout,               *)
(* pending_replenish, replenish_batch, handle_close).                      *)
BuffersAccounted ==
  LET queued == FlattenSeq([l \in Lives |-> Bids(InCq(l))])
      held == FoldSet(LAMBDA c, acc : acc \o Bids(Flat(c)), <<>>, DOMAIN v.slot)
      all == v.replenish \o held \o queued
  IN  /\ Len(all) + Cardinality(v.free) = NBufs
      /\ ToSet(all) \union v.free = 1 .. NBufs
      /\ v.outstanding = Len(v.replenish) + Len(held)

(* What the worker holds of the stream of its occupant, in the order in    *)
(* which it will reach the task.                                           *)
Buffered(c) ==
  LET s == v.slot[c]
      sunk == IF s.sink = <<>> THEN <<>> ELSE s.sink[1].data
  IN  Data(v.life[s.life].segment) \o sunk \o s.acc \o Data(s.hold) \o Data(s.pending) \o Data(s.recv_hold)

QueuedData(l) ==
  LET q == SelectSeq(v.life[l].cq, LAMBDA x : x.kind = "data" \/ (x.kind = "one_shot" /\ x.res = "data"))
  IN  FlattenSeq([i \in DOMAIN q |-> IF q[i].kind = "data" THEN q[i].buf.data ELSE q[i].data])

Sound == "write" \notin setup.faults
Current(l) == v.slot[Slot(l)].life = l
InKernel(op) == IF op = <<>> THEN <<>> ELSE op[1].data
InOrder(l) ==
  LET s == v.slot[Slot(l)] IN
  v.life[l].out \o (IF Current(l) THEN InKernel(s.write) \o InKernel(s.sending) ELSE <<>>) \o v.life[l].got
Lossless(l) ==
  LET s == v.slot[Slot(l)] IN
  /\ Current(l)
  /\ \/ s.lifecycle = "Open"
     \/ s.read = "Eof" /\ setup.bytes[l] <= recv_accumulator_max /\ setup.mode[l] \notin {"echo", "held"}
        /\ v.life[l].task # "done" /\ (setup.mode[l] = "forward" => v.life[l].step = 2)

(* data are bytes of occupant l in the order of its stream, none twice. *)
Ascending(l, data) ==
  /\ \A i \in DOMAIN data : data[i][1] = l
  /\ \A i, j \in DOMAIN data : i < j => data[i][2] < data[j][2]

(* A connection's bytes reach its task (or what it forwards to) in the     *)
(* order they were sent, each at most once and never another occupant's;   *)
(* and while the connection is open, or ended by its peer with its task    *)
(* still reading, none is lost on the way, however the deliveries          *)
(* (pending buffer, accumulator, segments, sink, forward, one-shot         *)
(* fallback) took turns and whatever submission was refused.  Two cases    *)
(* are excepted from "none is lost"; order and uniqueness are still stated *)
(* for them.  A short Send of one echoed buffer whose rest the submission  *)
(* queue refuses drops that rest and the echo goes on behind the hole      *)
(* (uring/event_loop.rs:3905); and a send given up after its retries       *)
(* closes the connection, but what arrives before the Close is still       *)
(* echoed (uring/event_loop.rs:5230).  Nothing is said once a write or a   *)
(* send has failed with an error, which ends a forward.                    *)
StreamIntact ==
  \A l \in Lives : Sound =>
    /\ Ascending(l, InOrder(l))
    /\ \/ setup.mode[l] = "forward" /\ ~(Current(l) /\ v.slot[Slot(l)].lifecycle = "Open")
       \/ v.life[l].gap
       \/ IsPrefix(InOrder(l), Bytes(l, v.life[l].read))
    /\ Lossless(l) /\ ~v.life[l].gap =>
         InOrder(l) \o Buffered(Slot(l)) \o QueuedData(l) = Bytes(l, v.life[l].read)

(* No two receives of a connection are in the kernel together: a multishot *)
(* and the one-shot would split the stream between them, and two           *)
(* multishots share their user data (flush_replenish_and_rearm,            *)
(* maybe_rearm_throttled_forward).                                         *)
OneReceive == \A l \in Lives : v.life[l].multishots + (IF v.life[l].one_shot THEN 1 ELSE 0) <= 1

(* While the worker waits for completions, an open connection is never    *)
(* left without a receive: unless one is in                                *)
(* the kernel, a completion waits to be handled, the slot is starved (and  *)
(* not throttled, which would keep it from the arbitration), or a throttle *)
(* waits for a hold that still drains (rearm_multishot_if_idle,            *)
(* maybe_rearm_throttled_forward, flush_replenish_and_rearm).  It is false *)
(* of a throttled forward whose receive ended by itself: the setups that   *)
(* let the kernel end a forward's receive ("term") have a hold cap above   *)
(* what arrives, so that nothing throttles there.                          *)
NeverDeaf ==
  stage = "kernel" => \A l \in Lives :
    LET k == v.life[l]
        s == v.slot[Slot(l)]
    IN  s.life = l /\ s.lifecycle = "Open" /\ k.cq = <<>> =>
          \/ k.multishots > 0 \/ k.one_shot
          \/ Contains(v.starved, Slot(l)) /\ ~s.throttled
          \/ s.throttled /\ s.write # <<>>

(* A task that waits to receive while the worker waits for completions has *)
(* nothing to read: every delivery wakes the task, and every future looks  *)
(* where its data may be (wake_recv, and the polls of runtime/io.rs).      *)
(* Excepted are a forward once its connection closes, which a FIN never    *)
(* resolves, and a direct echo whose gathered send is given up after its   *)
(* retries: drain_recv_forward_retries wakes no reader, and the task ends  *)
(* with the slot.                                                          *)
WokenForData ==
  stage = "kernel" => \A l \in Lives :
    LET s == v.slot[Slot(l)] IN
    /\ v.life[l].task = "recv" /\ s.life = l
    /\ setup.mode[l] = "forward" /\ v.life[l].step = 1 => s.lifecycle = "Open"
    =>
      /\ ~RecvFinished(v, Slot(l)) \/ (setup.mode[l] = "echo" /\ (s.close_pending \/ s.close_submitted))
      /\ s.pending = <<>> /\ (s.recv_hold = <<>> \/ s.echo)
      /\ s.sink = <<>> \/ s.sink[1].data = <<>>
      /\ Len(s.acc) < 2
      /\ s.hold = <<>> \/ s.write # <<>>

(* A connection that is open is received from, once, and its task hears of *)
(* what arrived: see the three properties above.                           *)
ReceiveServed == OneReceive /\ NeverDeaf /\ WokenForData
=============================================================================
