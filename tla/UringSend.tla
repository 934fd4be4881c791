------------------------------ MODULE UringSend ------------------------------
(***************************************************************************)
(* The stream writes and the close of one connection slot of an io_uring   *)
(* worker, through the slot's successive occupants: the per-connection     *)
(* send queue (ConnSendState), the copy-pool slots and slab entries behind *)
(* the SQEs, IO_LINK chains, the retry lists for SQEs the ring refused,    *)
(* half-close and the deferred Close (ringline/src/handler.rs,             *)
(* backend/uring/driver.rs, backend/uring/event_loop.rs, chain.rs,         *)
(* buffer/send_slab.rs).                                                   *)
(*                                                                         *)
(* The worker is the record w, and every function of the code that changes *)
(* it is an operator from a worker to a worker.  ok is the set of push     *)
(* kinds (stream, fin, close) the submission queue accepts during a        *)
(* handler.  A kernel operation completes with any result the kernel may   *)
(* give, and its handler runs in the same step.  Offsets count the bytes   *)
(* of the occupant's stream; hole, early and short record that a byte was  *)
(* written out of place, a bounded send reported Ok before its last byte   *)
(* was written, and a send reported another length than its own.           *)
(***************************************************************************)
EXTENDS Integers, Sequences, FiniteSets, FiniteSetsExt, SequencesExt, Functions, TLC

CONSTANTS
  NSlots,      \* copy-pool slots
  NSlabs,      \* slab entries
  Scenarios,   \* what the application and the ring may do, see below
  Careless     \* what the application does not avoid: "notif", a chain while a
               \* zero-copy send awaits its notification; "short", a chained
               \* zero-copy part larger than the socket takes at once; "fin", a
               \* half-close while a chain is active; "twice", a half-close while
               \* a Shutdown is in the kernel; "stale", a chain on a dead handle

(* A scenario: the connections accepted (TRUE is TLS, FALSE plain text), the *)
(* sends made of them, and the bounds: sends over all occupants, occupants, *)
(* and pushes the submission queue refuses.                                 *)
IsScenario(s) ==
  /\ DOMAIN s = {"tls", "apis", "sends", "occupants", "refusals"}
  /\ s.tls \subseteq BOOLEAN
  /\ s.apis \subseteq {"send", "bounded", "parts", "chain", "shutdown"}
  /\ {s.sends, s.occupants, s.refusals} \subseteq Nat

ASSUME UringAssumption ==
  /\ {NSlots, NSlabs} \subseteq Nat
  /\ \A s \in Scenarios : IsScenario(s)
  /\ Careless \subseteq {"notif", "short", "fin", "twice", "stale"}

VARIABLES
  w,    \* the worker and the kernel's side of this connection
  pc    \* where the run loop is: wait, retries or work

vars == <<w, pc>>

Slots == 1 .. NSlots
Slabs == 1 .. NSlabs
ChunkLen == 2          \* bytes of a copy-pool slot, and of a guard
Wrap == 65536          \* zc_notifs_pending is a u16
NoBid == [id |-> 0, end |-> 0]
NoChain == [ops |-> 0, notifs |-> 0, err |-> FALSE, on |-> FALSE]
PushKinds == {"stream", "fin", "close"}
StreamTags == {"Send", "TlsSend", "PollOut", "Coalesced", "CoalescedPollOut", "Zc"}

Idle(s) == [
  scenario |-> s,
  life |-> "Free", write |-> "Open", gen |-> 0, tls |-> FALSE,
  queue |-> <<>>, in_flight |-> FALSE, parked |-> FALSE, acked |-> 0,
  close_pending |-> FALSE, close_submitted |-> FALSE, deadline |-> FALSE,
  shutdown_inflight |-> FALSE, chain |-> NoChain, finalize |-> FALSE,
  pool |-> <<>>, slab |-> <<>>, capacity |-> FALSE,
  kernel |-> {}, retries |-> {}, completions |-> {},
  sends |-> 0, refused |-> 0, len |-> 0, sent |-> 0, fin |-> FALSE,
  broken |-> FALSE, hole |-> FALSE, early |-> FALSE, short |-> FALSE,
  settled |-> [i \in 1 .. s.sends |-> 0], owner |-> [i \in 1 .. s.sends |-> 0]]

-----------------------------------------------------------------------------
(* Buffers.  A copy-pool slot and a slab entry carry the stream bytes from  *)
(* at, rem of them, whether they end a logical send, of which length, and   *)
(* the bounded send they settle.                                            *)

FreeSlots(v) == Slots \ DOMAIN v.pool
FreeSlabs(v) == Slabs \ DOMAIN v.slab

IsSlab(tag) == tag \in {"Coalesced", "CoalescedPollOut", "Zc", "Notif"}
InUse(v, tag, ref) == ref \in DOMAIN (IF IsSlab(tag) THEN v.slab ELSE v.pool)
Backing(v, tag, ref) == IF IsSlab(tag) THEN v.slab[ref] ELSE v.pool[ref]

Chunk(tag, at, end, mlen, bid) ==
  [tag |-> tag, at |-> at, rem |-> ChunkLen, len |-> ChunkLen, end |-> end,
   mlen |-> mlen, bid |-> bid]

(* Mutant: the waiters for pool capacity are not told. *)
ReleaseSlotUnnoted(v, s) == [v EXCEPT !.pool = Restrict(@, DOMAIN @ \ {s})]

(* release_pool_slot. *)
ReleaseSlot(v, s) ==
  [v EXCEPT !.pool = Restrict(@, DOMAIN @ \ {s}), !.capacity = TRUE]

(* Mutant: the entry goes and its pool slots stay. *)
ReleaseSlabOnly(v, b) ==
  [v EXCEPT !.slab = Restrict(@, DOMAIN @ \ {b}), !.capacity = @ \/ v.slab[b].slots # {}]

(* InFlightSendSlab::release with the slots of the entry: one for a         *)
(* zero-copy entry that gathered copies, the run for a coalesced one.       *)
ReleaseSlab(v, b) ==
  [v EXCEPT !.pool = Restrict(@, DOMAIN @ \ v.slab[b].slots),
            !.slab = Restrict(@, DOMAIN @ \ {b}),
            !.capacity = @ \/ v.slab[b].slots # {}]

Release(v, tag, ref) == IF IsSlab(tag) THEN ReleaseSlab(v, ref) ELSE ReleaseSlot(v, ref)

(* settle_bounded. *)
Settle(v, bid, res) ==
  IF bid = NoBid THEN v
  ELSE [v EXCEPT !.settled[bid.id] = @ + 1,
                 !.early = @ \/ (res = "ok" /\ v.sent < bid.end)]

(* take_bounded_send, release, settle_bounded. *)
Finish(v, tag, ref, res) == Settle(Release(v, tag, ref), Backing(v, tag, ref).bid, res)

-----------------------------------------------------------------------------
(* Pushing SQEs. *)

Op(v, tag, ref, link) ==
  [tag |-> tag, gen |-> v.gen, ref |-> ref, link |-> link,
   at |-> Backing(v, tag, ref).at, len |-> Backing(v, tag, ref).rem]

Push(v, op) == [v EXCEPT !.kernel = @ \union {op}]

Retry(kind, v, ref, n) == [kind |-> kind, gen |-> v.gen, ref |-> ref, n |-> n, due |-> FALSE]

Refused(v, r) == [v EXCEPT !.retries = @ \union {r}, !.refused = @ + 1]

(* submit_close, or its retry entry. *)
SubmitClose(v, n, ok) ==
  IF "close" \in ok
  THEN Push(v, [tag |-> "Close", gen |-> v.gen, ref |-> 0, link |-> "none", at |-> 0, len |-> 0])
  ELSE Refused(v, Retry("close", v, 0, n))

(* submit_shutdown; a refused one leaves the write half Open. *)
SubmitShutdown(v, ok) ==
  IF "fin" \in ok
  THEN [Push(v, [tag |-> "Shutdown", gen |-> v.gen, ref |-> 0, link |-> "none",
                 at |-> v.sent, len |-> v.len])
          EXCEPT !.write = "Shutdown", !.shutdown_inflight = TRUE]
  ELSE [v EXCEPT !.write = "Open", !.refused = @ + 1]

(* Mutant: the Close is submitted although a chain is in the kernel. *)
ClosableDespiteChain(v) ==
  v.close_pending /\ ~v.in_flight /\ v.queue = <<>> /\ ~v.shutdown_inflight

(* Mutant: the Close is submitted although a Shutdown is in the kernel. *)
ClosableDespiteFin(v) ==
  v.close_pending /\ ~v.in_flight /\ v.queue = <<>> /\ ~v.chain.on

(* try_finalize_close's gate, on a connection that has no forward: its     *)
(* forward_drained is about the writes of UringRecv's kind of connection.  *)
Closable(v) ==
  v.close_pending /\ ~v.in_flight /\ v.queue = <<>> /\ ~v.chain.on /\ ~v.shutdown_inflight

(* try_finalize_close. *)
TryFinalizeClose(v, ok) ==
  IF ~Closable(v) THEN v
  ELSE SubmitClose([v EXCEPT !.close_pending = FALSE, !.close_submitted = TRUE,
                             !.deadline = FALSE], 0, ok)

-----------------------------------------------------------------------------
(* The send queue.  An entry is the tag of its SQE and the buffer it reads. *)

(* The run submit_next_queued gathers: copies, up to the first that ends a  *)
(* logical send.                                                            *)
RunLen(v) ==
  Cardinality({n \in 1 .. Len(v.queue) : \A i \in 1 .. n :
                 /\ v.queue[i].tag # "Zc"
                 /\ i < n => ~v.pool[v.queue[i].ref].end})

(* allocate_coalesced, with the bounded send lifted off the last slot, and  *)
(* its push.                                                                *)
PushCoalesced(v) ==
  LET n == RunLen(v)
      run == [i \in 1 .. n |-> v.queue[i].ref]
      last == v.pool[run[n]]
      b == Min(FreeSlabs(v))
      v1 == [v EXCEPT !.slab = @ @@ (b :> [at |-> v.pool[run[1]].at,
                                           rem |-> MapThenSumSet(LAMBDA s : v.pool[s].rem, ToSet(run)),
                                           len |-> MapThenSumSet(LAMBDA s : v.pool[s].rem, ToSet(run)),
                                           end |-> last.end, mlen |-> last.mlen, bid |-> last.bid,
                                           slots |-> ToSet(run), gen |-> v.gen, awaiting |-> FALSE,
                                           notifs |-> 0]),
                      !.pool[run[n]].bid = NoBid,
                      !.queue = SubSeq(@, n + 1, Len(@)),
                      !.parked = FALSE]
  IN  Push(v1, Op(v1, "Coalesced", b, "none"))

PushHead(v) ==
  Push([v EXCEPT !.queue = Tail(@), !.parked = FALSE],
       Op(v, Head(v.queue).tag, Head(v.queue).ref, "none"))

Park(v, n) == Refused([v EXCEPT !.parked = TRUE], Retry("send", v, 0, n))

(* The tail of submit_next_queued_inner: the queue is empty. *)
GoIdle(v, ok) ==
  LET v1 == [v EXCEPT !.in_flight = FALSE, !.parked = FALSE]
  IN  TryFinalizeClose(IF v.life # "Free" /\ v.write = "ShutdownPending"
                       THEN SubmitShutdown(v1, ok)
                       ELSE v1, ok)

(* submit_next_queued_inner. *)
SubmitNextQueued(v, n, ok) ==
  CASE v.queue = <<>>                           -> GoIdle(v, ok)
    [] v.queue # <<>> /\ "stream" \notin ok     -> Park(v, n)
    [] v.queue # <<>> /\ "stream" \in ok
         /\ RunLen(v) >= 2 /\ FreeSlabs(v) # {} -> PushCoalesced(v)
    [] OTHER                                    -> PushHead(v)

(* release_queued_sends and fail_bounded_sends. *)
ReleaseQueued(v) ==
  LET slots == {e.ref : e \in {x \in ToSet(v.queue) : x.tag # "Zc"}}
      slabs == {e.ref : e \in {x \in ToSet(v.queue) : x.tag = "Zc"}}
  IN  [v EXCEPT !.queue = <<>>,
                !.pool = Restrict(@, DOMAIN @ \ (slots \union UNION {v.slab[b].slots : b \in slabs})),
                !.slab = Restrict(@, DOMAIN @ \ slabs),
                !.completions = @ \union {[bid |-> v.pool[s].bid, res |-> "err"] :
                                            s \in {x \in slots : v.pool[x].bid # NoBid}},
                !.capacity = TRUE]

(* Mutant: the close deferred behind the queue is not tried again. *)
DrainForgetsClose(v, ok) ==
  [ReleaseQueued(v) EXCEPT !.in_flight = FALSE, !.parked = FALSE, !.acked = 0]

(* Mutant: a logical send that failed half-way leaves its byte count. *)
DrainKeepsAcked(v, ok) ==
  TryFinalizeClose([ReleaseQueued(v) EXCEPT !.in_flight = FALSE, !.parked = FALSE], ok)

(* drain_conn_send_queue. *)
DrainConnSendQueue(v, ok) ==
  TryFinalizeClose([ReleaseQueued(v) EXCEPT !.in_flight = FALSE, !.parked = FALSE,
                                            !.acked = 0], ok)

(* close_connection. *)
CloseConnection(v, ok) ==
  LET v1 == [v EXCEPT !.life = "Closing", !.close_pending = TRUE]
  IN  CASE v.life # "Open"                 -> v
        [] v.life = "Open" /\ v.in_flight  -> v1
        [] v.life = "Open" /\ ~v.in_flight /\ v.queue # <<>> ->
             SubmitNextQueued([v1 EXCEPT !.in_flight = TRUE], 0, ok)
        [] OTHER                           -> [v1 EXCEPT !.finalize = TRUE]

(* Mutant: a send made while a chain is in the kernel is pushed beside it. *)
SubmitOrQueueIgnoresChain(v, e, ok) ==
  CASE v.in_flight -> [v EXCEPT !.queue = Append(@, e)]
    [] ~v.in_flight /\ "stream" \in ok ->
         Push([v EXCEPT !.in_flight = TRUE], Op(v, e.tag, e.ref, "none"))
    [] OTHER -> Park([v EXCEPT !.queue = Append(@, e), !.in_flight = TRUE], 0)

(* submit_or_queue. *)
SubmitOrQueue(v, e, ok) ==
  CASE v.in_flight \/ v.chain.on -> [v EXCEPT !.queue = Append(@, e), !.in_flight = TRUE]
    [] ~(v.in_flight \/ v.chain.on) /\ "stream" \in ok ->
         Push([v EXCEPT !.in_flight = TRUE], Op(v, e.tag, e.ref, "none"))
    [] OTHER -> Park([v EXCEPT !.queue = Append(@, e), !.in_flight = TRUE], 0)

-----------------------------------------------------------------------------
(* Completion handlers.  v is the worker after the kernel's own step. *)

(* Mutant: a Send that outlived its occupant is taken for the next one's. *)
StaleNever(v, op) == FALSE

(* The CQE outlived its connection slot. *)
Stale(v, op) == op.gen # v.gen

RetryKind(tag) == CASE tag = "Zc"        -> "zc"
                    [] tag = "Coalesced" -> "coalesced"
                    [] OTHER             -> "copy"

(* Push the remaining bytes again, with the same tag, or note the retry. *)
Resubmit(v, tag, ref, n, ok) ==
  IF "stream" \in ok
  THEN Push(v, Op(v, tag, ref, "none"))
  ELSE Refused(v, Retry(RetryKind(tag), v, ref, n))

(* submit_send_pollout, or its retry entry. *)
SubmitPollOut(v, s, n, ok) ==
  IF "stream" \in ok
  THEN Push(v, Op(v, "PollOut", s, "none"))
  ELSE Refused(v, Retry("pollout", v, s, n))

(* wake_send with the logical send's byte count. *)
Report(v, b) ==
  IF ~b.end THEN v
  ELSE [v EXCEPT !.acked = 0, !.short = @ \/ (~v.tls /\ v.acked # b.mlen)]

(* Mutant: what queued up behind the chain is not started. *)
FireChainForgetsQueue(v, ok) ==
  LET v1 == [v EXCEPT !.chain = NoChain]
  IN  TryFinalizeClose(IF v.chain.err THEN DrainConnSendQueue(v1, ok) ELSE v1, ok)

(* fire_chain_complete. *)
FireChainComplete(v, ok) ==
  LET v1 == [v EXCEPT !.chain = NoChain]
  IN  TryFinalizeClose(IF v.chain.err THEN DrainConnSendQueue(v1, ok)
                                      ELSE SubmitNextQueued(v1, 0, ok), ok)

ChainEvent(v, ok) ==
  IF v.chain.ops = 0 /\ v.chain.notifs = 0 THEN FireChainComplete(v, ok) ELSE v

(* on_operation_cqe and what its event leads to. *)
OnOperationCqe(v, r, ok) ==
  ChainEvent([v EXCEPT !.chain.ops = @ - 1, !.chain.err = @ \/ r # "some"], ok)

(* A copy or coalesced send of the live occupant, all of it sent. *)
SentAll(v, tag, ref, ok) ==
  LET b == Backing(v, tag, ref)
      v1 == [Release(v, tag, ref) EXCEPT !.acked = @ + b.len]
  IN  Report(Settle(TryFinalizeClose(SubmitNextQueued(v1, 0, ok), ok), b.bid, "ok"), b)

(* ... or failed. *)
SendFailed(v, tag, ref, ok) ==
  Settle(TryFinalizeClose(DrainConnSendQueue(Release(v, tag, ref), ok), ok),
         Backing(v, tag, ref).bid, "err")

(* handle_send. *)
HandleSend(v, op, r, ok) ==
  IF ~InUse(v, op.tag, op.ref) THEN v
  ELSE IF Stale(v, op) THEN Release(v, op.tag, op.ref)
  ELSE IF v.chain.on
       THEN OnOperationCqe(Finish(v, op.tag, op.ref, IF r = "some" THEN "ok" ELSE "err"), r, ok)
  ELSE CASE r = "err" -> SendFailed(v, op.tag, op.ref, ok)
         [] r = "some" /\ v.pool[op.ref].rem = 0 -> SentAll(v, op.tag, op.ref, ok)
         [] OTHER -> IF v.close_submitted THEN Finish(v, op.tag, op.ref, "err")
                     ELSE IF r = "some" THEN Resubmit(v, op.tag, op.ref, 0, ok)
                     ELSE SubmitPollOut(v, op.ref, 0, ok)

(* handle_tls_send: a chunk of a TLS send before the last, or an alert. *)
HandleTlsSend(v, op, r, ok) ==
  IF ~InUse(v, op.tag, op.ref) THEN v
  ELSE IF Stale(v, op) THEN Release(v, op.tag, op.ref)
  ELSE CASE r = "err" ->
              CloseConnection(DrainConnSendQueue(Finish(v, op.tag, op.ref, "err"), ok), ok)
         [] r = "some" /\ v.pool[op.ref].rem = 0 ->
              TryFinalizeClose(SubmitNextQueued(Finish(v, op.tag, op.ref, "ok"), 0, ok), ok)
         [] OTHER -> IF v.close_submitted THEN Finish(v, op.tag, op.ref, "err")
                     ELSE IF r = "some" THEN Resubmit(v, op.tag, op.ref, 0, ok)
                     ELSE SubmitPollOut(v, op.ref, 0, ok)

(* handle_send_pollout; the slot's tag is the is_tls flag of the payload. *)
HandleSendPollOut(v, op, r, ok) ==
  IF ~InUse(v, op.tag, op.ref) THEN v
  ELSE IF Stale(v, op) THEN Release(v, op.tag, op.ref)
  ELSE IF r = "err" THEN SendFailed(v, op.tag, op.ref, ok)
  ELSE IF v.close_submitted THEN Finish(v, op.tag, op.ref, "err")
  ELSE Resubmit(v, v.pool[op.ref].tag, op.ref, 0, ok)

(* handle_send_msg_coalesced; EAGAIN arms POLLOUT or notes a retry. *)
HandleSendMsgCoalesced(v, op, r, ok) ==
  IF ~InUse(v, op.tag, op.ref) THEN v
  ELSE IF Stale(v, op) THEN Release(v, op.tag, op.ref)
  ELSE CASE r = "err" -> SendFailed(v, op.tag, op.ref, ok)
         [] r = "some" /\ v.slab[op.ref].rem = 0 -> SentAll(v, op.tag, op.ref, ok)
         [] OTHER -> IF v.close_submitted THEN Finish(v, op.tag, op.ref, "err")
                     ELSE IF r = "again" /\ "stream" \in ok
                     THEN Push(v, Op(v, "CoalescedPollOut", op.ref, "none"))
                     ELSE Resubmit(v, "Coalesced", op.ref, 0, ok)

(* handle_send_msg_coalesced_pollout. *)
HandleCoalescedPollOut(v, op, r, ok) ==
  IF ~InUse(v, op.tag, op.ref) THEN v
  ELSE IF Stale(v, op) THEN Release(v, op.tag, op.ref)
  ELSE IF r = "err" THEN SendFailed(v, op.tag, op.ref, ok)
  ELSE IF v.close_submitted THEN Finish(v, op.tag, op.ref, "err")
  ELSE Resubmit(v, "Coalesced", op.ref, 0, ok)

(* should_release, and the release of the entry with its pool slot. *)
ReleaseIfDone(v, b) ==
  IF v.slab[b].awaiting /\ v.slab[b].notifs = 0 THEN ReleaseSlab(v, b) ELSE v

(* mark_awaiting_notifications. *)
Await(v, b) == ReleaseIfDone([v EXCEPT !.slab[b].awaiting = TRUE], b)

(* Mutant: only a notification that follows written bytes is counted. *)
CountNotifOfBytes(v, b, r, more) == IF more /\ r = "some" THEN [v EXCEPT !.slab[b].notifs = @ + 1] ELSE v

(* inc_pending_notifs: IORING_CQE_F_MORE, whatever the result. *)
CountNotif(v, b, r, more) == IF more THEN [v EXCEPT !.slab[b].notifs = @ + 1] ELSE v

(* handle_send_msg_zc, a main CQE. *)
HandleSendMsgZc(v, op, r, more, ok) ==
  LET b == op.ref
      v1 == CountNotif(v, b, r, more)
  IN  IF ~InUse(v, "Zc", b) THEN v
      ELSE IF Stale(v, op) THEN Await(v1, b)
      ELSE IF v.chain.on
           THEN OnOperationCqe(IF more
                               THEN [v1 EXCEPT !.slab[b].awaiting = TRUE, !.chain.notifs = @ + 1]
                               ELSE ReleaseSlab(v, b), r, ok)
      ELSE IF r = "some" /\ v.slab[b].rem > 0
           THEN IF v.close_submitted THEN Await(v1, b) ELSE Resubmit(v1, "Zc", b, 0, ok)
      ELSE IF r = "some" THEN SubmitNextQueued(Await(v1, b), 0, ok)
      ELSE DrainConnSendQueue(Await(v1, b), ok)

(* handle_send_msg_zc, a notification CQE; on_notif_cqe takes it for the    *)
(* active chain's, whichever entry it is about.                             *)
HandleNotif(v, op, ok) ==
  LET v1 == ReleaseIfDone([v EXCEPT !.slab[op.ref].notifs = @ - 1], op.ref)
  IN  IF ~InUse(v, "Zc", op.ref) THEN v
      ELSE IF ~Stale(v, op) /\ v.chain.on
           THEN ChainEvent([v1 EXCEPT !.chain.notifs = (@ - 1) % Wrap], ok)
      ELSE v1

(* handle_shutdown. *)
HandleShutdown(v, op, ok) ==
  IF Stale(v, op) THEN v
  ELSE TryFinalizeClose([v EXCEPT !.shutdown_inflight = FALSE], ok)

(* handle_close: the slot is released and its generation moves on. *)
HandleClose(v) == IF v.life = "Free" THEN v ELSE [v EXCEPT !.life = "Free", !.gen = @ + 1]

-----------------------------------------------------------------------------
(* The retry lists.  An entry gives up after its cap, failing what it       *)
(* carries and closing the connection.                                      *)

Live(v, r) == v.life # "Free" /\ r.gen = v.gen

GiveUp(v, bid, ok) ==
  CloseConnection(Settle(DrainConnSendQueue([v EXCEPT !.broken = TRUE], ok), bid, "err"), ok)

(* drain_zc_retries. *)
RetryZc(v, r, ok) ==
  IF ~InUse(v, "Zc", r.ref) THEN v
  ELSE IF ~Live(v, r) \/ v.close_submitted THEN Await(v, r.ref)
  ELSE IF r.n >= 2 THEN GiveUp(Await(v, r.ref), NoBid, ok)
  ELSE Resubmit(v, "Zc", r.ref, r.n + 1, ok)

(* A buffer whose retry found its connection closed, or the Close submitted: *)
(* only the live occupant's operation is settled.                            *)
Abandon(v, tag, r) ==
  IF Live(v, r) THEN Finish(v, tag, r.ref, "err") ELSE Release(v, tag, r.ref)

(* drain_coalesced_retries. *)
RetryCoalesced(v, r, ok) ==
  IF ~InUse(v, "Coalesced", r.ref) THEN v
  ELSE IF ~Live(v, r) \/ v.close_submitted THEN Abandon(v, "Coalesced", r)
  ELSE IF r.n >= 2 THEN GiveUp(ReleaseSlab(v, r.ref), v.slab[r.ref].bid, ok)
  ELSE Resubmit(v, "Coalesced", r.ref, r.n + 1, ok)

(* drain_copy_retries. *)
RetryCopy(v, r, ok) ==
  IF ~InUse(v, "Send", r.ref) THEN v
  ELSE IF ~Live(v, r) \/ v.close_submitted THEN Abandon(v, "Send", r)
  ELSE IF r.n >= 2 THEN GiveUp(ReleaseSlot(v, r.ref), v.pool[r.ref].bid, ok)
  ELSE Resubmit(v, v.pool[r.ref].tag, r.ref, r.n + 1, ok)

(* Mutant: one attempt too many. *)
RetrySendOnceMore(v, r, ok) ==
  IF ~Live(v, r) \/ v.close_submitted \/ ~v.parked \/ v.queue = <<>> THEN v
  ELSE IF r.n > 2 THEN GiveUp(v, NoBid, ok)
  ELSE SubmitNextQueued(v, r.n + 1, ok)

(* drain_send_retries. *)
RetrySend(v, r, ok) ==
  IF ~Live(v, r) \/ v.close_submitted \/ ~v.parked \/ v.queue = <<>> THEN v
  ELSE IF r.n >= 2 THEN GiveUp(v, NoBid, ok)
  ELSE SubmitNextQueued(v, r.n + 1, ok)

(* drain_send_pollout_retries. *)
RetryPollOut(v, r, ok) ==
  LET used == InUse(v, "PollOut", r.ref)
      v1 == IF used THEN ReleaseSlot(v, r.ref) ELSE v
  IN  IF r.n >= 3
      THEN IF Live(v, r) THEN GiveUp(v1, IF used THEN v.pool[r.ref].bid ELSE NoBid, ok) ELSE v1
      ELSE IF ~used THEN v
      ELSE IF ~Live(v, r) \/ v.close_submitted THEN Abandon(v, "PollOut", r)
      ELSE SubmitPollOut(v, r.ref, r.n + 1, ok)

(* drain_close_retries never gives up. *)
RetryClose(v, r, ok) == SubmitClose(v, r.n, ok)

-----------------------------------------------------------------------------
(* What the application's tasks call. *)

(* The lowest free slots stand for the ones the free list gives. *)
TakeSlots(v, n) == CHOOSE t \in [1 .. n -> FreeSlots(v)] :
                     \A i \in 1 .. n : t[i] = Min(FreeSlots(v) \ {t[j] : j \in 1 .. i - 1})

(* The bounded send is the last chunk's.  Of a plain send only the last     *)
(* chunk is end-of-send; of a TLS send only the last is tagged Send.        *)
SendChunk(v, slots, i, bounded) ==
  LET n == Len(slots)
      last == i = n
  IN  Chunk(IF v.tls /\ ~last THEN "TlsSend" ELSE "Send", v.len + (i - 1) * ChunkLen,
            v.tls \/ last, n * ChunkLen,
            IF bounded /\ last THEN [id |-> v.sends + 1, end |-> v.len + n * ChunkLen] ELSE NoBid)

(* DriverCtx::send and send_bounded, n chunks.  A bounded send of no bytes  *)
(* is settled through the completion list.                                  *)
Send(v, n, bounded, ok) ==
  LET slots == TakeSlots(v, n)
      v1 == [v EXCEPT !.pool = @ @@ [s \in ToSet(slots) |->
                                       SendChunk(v, slots, CHOOSE i \in 1 .. n : slots[i] = s, bounded)],
                      !.len = @ + n * ChunkLen,
                      !.sends = @ + 1,
                      !.owner[v.sends + 1] = IF bounded THEN v.gen + 1 ELSE 0]
  IN  IF n = 0
      THEN [v1 EXCEPT !.completions = @ \union {[bid |-> [id |-> v.sends + 1, end |-> 0], res |-> "ok"]},
                      !.capacity = TRUE]
      ELSE FoldLeft(LAMBDA a, s : SubmitOrQueue(a, [tag |-> v1.pool[s].tag, ref |-> s], ok), v1, slots)

(* A slab entry of a zero-copy send, with or without a pool slot of copies. *)
ZcEntry(v, at, slots) ==
  [at |-> at, rem |-> ChunkLen, len |-> ChunkLen, end |-> TRUE, mlen |-> ChunkLen, bid |-> NoBid,
   slots |-> slots, gen |-> v.gen, awaiting |-> FALSE, notifs |-> 0]

(* SendBuilder::submit_with_guards. *)
SendParts(v, slots, ok) ==
  LET b == Min(FreeSlabs(v))
      v1 == [v EXCEPT !.slab = @ @@ (b :> ZcEntry(v, v.len, slots)),
                      !.pool = @ @@ [s \in slots |-> Chunk("Zc", v.len, TRUE, ChunkLen, NoBid)],
                      !.len = @ + ChunkLen,
                      !.sends = @ + 1]
  IN  SubmitOrQueue(v1, [tag |-> "Zc", ref |-> b], ok)

(* SendChainBuilder::finish: a copy linked to a copy or to a zero-copy send. *)
SendChain(v, second, gen) ==
  LET s == Min(FreeSlots(v))
      t == Min(FreeSlots(v) \ {s})
      b == Min(FreeSlabs(v))
      v1 == [v EXCEPT !.pool = @ @@ (s :> Chunk("Send", v.len, TRUE, ChunkLen, NoBid))
                                 @@ [x \in IF second = "Send" THEN {t} ELSE {} |->
                                       Chunk("Send", v.len + ChunkLen, TRUE, ChunkLen, NoBid)],
                      !.slab = @ @@ [x \in IF second = "Zc" THEN {b} ELSE {} |->
                                       [ZcEntry(v, v.len + ChunkLen, {}) EXCEPT !.gen = gen]],
                      !.len = @ + 2 * ChunkLen,
                      !.sends = @ + 1,
                      !.chain = [ops |-> 2, notifs |-> 0, err |-> FALSE, on |-> TRUE]]
      ops == {Op(v1, "Send", s, "lead"), Op(v1, second, IF second = "Zc" THEN b ELSE t, "wait")}
  IN  [v1 EXCEPT !.kernel = @ \union {[o EXCEPT !.gen = gen] : o \in ops}]

(* DriverCtx::close; the close_notify alert is dropped when the pool has no *)
(* slot for it.                                                             *)
Close(v, ok) ==
  LET v1 == [v EXCEPT !.life = "Closing"]
      s == Min(FreeSlots(v))
      v2 == [v1 EXCEPT !.pool = @ @@ (s :> Chunk("TlsSend", v.len, TRUE, ChunkLen, NoBid)),
                       !.len = @ + ChunkLen]
      v3 == IF ~v.tls THEN v1
            ELSE [IF FreeSlots(v) = {} THEN v1
                  ELSE SubmitOrQueue(v2, [tag |-> "TlsSend", ref |-> s], ok)
                    EXCEPT !.deadline = TRUE]
  IN  [v3 EXCEPT !.close_pending = TRUE, !.finalize = TRUE]

(* DriverCtx::shutdown_write. *)
ShutdownWrite(v, ok) ==
  IF v.in_flight \/ v.queue # <<>> THEN [v EXCEPT !.write = "ShutdownPending"]
  ELSE SubmitShutdown(v, ok)

(* force_finalize_close. *)
ForceFinalizeClose(v, ok) ==
  TryFinalizeClose([ReleaseQueued(v) EXCEPT !.in_flight = FALSE, !.parked = FALSE,
                                            !.write = "Open", !.chain = NoChain,
                                            !.broken = TRUE], ok)

(* The slot's next occupant: reset_send_state, and a stream from nothing. *)
Accept(v, tls) ==
  [ReleaseQueued(v) EXCEPT
     !.life = "Open", !.write = "Open", !.tls = tls, !.in_flight = FALSE, !.parked = FALSE,
     !.acked = 0, !.close_pending = FALSE, !.close_submitted = FALSE, !.deadline = FALSE,
     !.shutdown_inflight = FALSE, !.len = 0, !.sent = 0, !.fin = FALSE, !.broken = FALSE]

-----------------------------------------------------------------------------
(* The kernel.  A linked operation waits for its predecessor and is         *)
(* cancelled when that falls short.  A copy is sent with MSG_WAITALL, so a   *)
(* linked one falls short only when the connection failed; a zero-copy part *)
(* is sent without it.  A zero-copy send that would block has failed too:   *)
(* its handler knows no POLLOUT.                                            *)

Outcomes(v, op) ==
  IF op.link = "cancel" \/ (v.fin /\ op.gen = v.gen) THEN {<<"err", 0>>}
  ELSE IF op.tag \in {"PollOut", "CoalescedPollOut"} THEN {<<"some", 0>>, <<"err", 0>>}
  ELSE IF op.tag = "Zc" /\ op.link # "none" /\ "short" \notin Careless
       THEN {<<"some", op.len>>, <<"again", 0>>, <<"err", 0>>}
  ELSE ({"some"} \X (1 .. op.len)) \union {<<"again", 0>>, <<"err", 0>>}

Linked(kernel, op, n) ==
  {IF o.link = "wait" /\ op.link = "lead" /\ o.gen = op.gen
   THEN [o EXCEPT !.link = IF n = op.len THEN "tail" ELSE "cancel"]
   ELSE o : o \in kernel \ {op}}

Advance(f, ref, n) == IF ref \in DOMAIN f THEN [f EXCEPT ![ref].at = @ + n, ![ref].rem = @ - n] ELSE f

Failed(op, r, n) ==
  \/ r = "err"
  \/ r = "again" /\ op.tag = "Zc"
  \/ n < op.len /\ op.link # "none" /\ op.tag # "Zc"

(* n bytes of op reach the socket of the occupant that submitted it. *)
Transfer(v, op, r, n) ==
  LET live == op.gen = v.gen
  IN  [v EXCEPT
         !.kernel = Linked(@, op, n),
         !.pool = IF IsSlab(op.tag) THEN @ ELSE Advance(@, op.ref, n),
         !.slab = IF IsSlab(op.tag) THEN Advance(@, op.ref, n) ELSE @,
         !.sent = IF live /\ n > 0 THEN op.at + n ELSE @,
         !.hole = @ \/ (live /\ n > 0 /\ ~v.broken /\ op.at # v.sent),
         !.broken = @ \/ (live /\ Failed(op, r, n))]

-----------------------------------------------------------------------------
(* Actions.  The run loop waits for completions, drains the retry lists,    *)
(* and then works: tasks are polled and completions drained in turn.        *)

Oks == IF w.refused < w.scenario.refusals THEN SUBSET PushKinds ELSE {PushKinds}

Drains == pc \in {"wait", "work"}

(* dispatch_cqe on a send's completion. *)
StreamCqe(op) ==
  /\ Drains
  /\ op.tag \in StreamTags /\ op.link # "wait"
  /\ \E out \in Outcomes(w, op), ok \in Oks, more \in BOOLEAN :
       LET r == out[1]
           v == Transfer(w, op, r, out[2])
           notif == [op EXCEPT !.tag = "Notif", !.link = "none", !.len = 0]
       IN  /\ more => op.tag = "Zc"
           /\ w' = CASE op.tag = "Send"      -> HandleSend(v, op, r, ok)
                     [] op.tag = "TlsSend"   -> HandleTlsSend(v, op, r, ok)
                     [] op.tag = "PollOut"   -> HandleSendPollOut(v, op, r, ok)
                     [] op.tag = "Coalesced" -> HandleSendMsgCoalesced(v, op, r, ok)
                     [] op.tag = "CoalescedPollOut" -> HandleCoalescedPollOut(v, op, r, ok)
                     [] OTHER -> HandleSendMsgZc(IF more THEN Push(v, notif) ELSE v, op, r, more, ok)
  /\ UNCHANGED pc

NotifCqe(op) ==
  /\ Drains /\ op.tag = "Notif"
  /\ \E ok \in Oks : w' = HandleNotif([w EXCEPT !.kernel = @ \ {op}], op, ok)
  /\ UNCHANGED pc

ShutdownCqe(op) ==
  /\ Drains /\ op.tag = "Shutdown"
  /\ \E ok \in Oks :
       w' = HandleShutdown([w EXCEPT !.kernel = @ \ {op}, !.fin = @ \/ op.gen = w.gen], op, ok)
  /\ UNCHANGED pc

CloseCqe(op) ==
  /\ Drains /\ op.tag = "Close"
  /\ w' = HandleClose([w EXCEPT !.kernel = @ \ {op}])
  /\ UNCHANGED pc

(* An accepted connection takes the slot. *)
AcceptCqe(tls) ==
  /\ Drains /\ w.life = "Free" /\ w.gen < w.scenario.occupants /\ tls \in w.scenario.tls
  /\ w' = Accept(w, tls)
  /\ UNCHANGED pc

(* A receive ends the connection (end of stream, an error, an overflow), or *)
(* its task returns or panics.                                              *)
ConnectionEnds ==
  /\ Drains /\ w.life = "Open"
  /\ \E ok \in Oks : w' = CloseConnection(w, ok)
  /\ UNCHANGED pc

(* The lists are drained in this order; an entry noted on the way waits for *)
(* the next iteration unless its list is still to come.  A Close or an      *)
(* early POLLOUT may wait a tick.                                           *)
RetryLists == <<"zc", "coalesced", "copy", "send", "close", "pollout">>

Turn(r) == CHOOSE i \in DOMAIN RetryLists : RetryLists[i] = r.kind

StartRetries ==
  /\ pc = "wait" /\ pc' = "retries"
  /\ \E skip \in SUBSET {"close", "pollout"} :
       w' = [w EXCEPT !.retries = {[r EXCEPT !.due = r.kind \notin skip
                                                     \/ (r.kind = "pollout" /\ r.n >= 3)] : r \in @}]

Due == {r \in w.retries : r.due}

RetryStep(r) ==
  /\ pc = "retries" /\ r.due
  /\ \A q \in Due : Turn(r) <= Turn(q)
  /\ \E ok \in Oks :
       LET v == [w EXCEPT !.retries = @ \ {r}]
           v1 == CASE r.kind = "zc"        -> RetryZc(v, r, ok)
                   [] r.kind = "coalesced" -> RetryCoalesced(v, r, ok)
                   [] r.kind = "copy"      -> RetryCopy(v, r, ok)
                   [] r.kind = "send"      -> RetrySend(v, r, ok)
                   [] r.kind = "close"     -> RetryClose(v, r, ok)
                   [] OTHER                -> RetryPollOut(v, r, ok)
       IN  w' = [v1 EXCEPT !.retries = {[q EXCEPT !.due = @ \/ (q \notin w.retries /\ Turn(q) > Turn(r))] :
                                           q \in @}]
  /\ UNCHANGED pc

(* check_close_notify_deadlines finds the deadline passed. *)
DeadlinePassed ==
  /\ pc = "retries" /\ Due = {}
  /\ w.close_pending /\ w.deadline
  /\ \E ok \in Oks : w' = ForceFinalizeClose(w, ok)
  /\ UNCHANGED pc

EndRetries ==
  /\ pc = "retries" /\ Due = {} /\ pc' = "work"
  /\ UNCHANGED w

(* A task may write until the Close is committed. *)
Writable == pc = "work" /\ w.life # "Free" /\ ~w.close_submitted /\ w.sends < w.scenario.sends

TaskSends(n, bounded) ==
  /\ Writable /\ n <= Cardinality(FreeSlots(w))
  /\ (IF bounded THEN "bounded" ELSE "send") \in w.scenario.apis
  /\ n = 0 => bounded
  /\ \E ok \in Oks : w' = Send(w, n, bounded, ok)
  /\ UNCHANGED pc

TaskSendsParts(copies) ==
  /\ Writable /\ "parts" \in w.scenario.apis /\ ~w.tls
  /\ FreeSlabs(w) # {} /\ (copies => FreeSlots(w) # {})
  /\ \E ok \in Oks : w' = SendParts(w, IF copies THEN {Min(FreeSlots(w))} ELSE {}, ok)
  /\ UNCHANGED pc

TaskSendsChain(second, gen) ==
  /\ Writable /\ "chain" \in w.scenario.apis /\ ~w.tls
  /\ ~w.in_flight /\ w.queue = <<>> /\ ~w.chain.on
  /\ IF second = "Zc" THEN FreeSlots(w) # {} /\ FreeSlabs(w) # {} ELSE Cardinality(FreeSlots(w)) >= 2
  /\ gen = w.gen \/ ("stale" \in Careless /\ gen < w.gen)
  /\ "notif" \notin Careless => \A op \in w.kernel : op.tag = "Notif" => op.gen # w.gen
  /\ w' = SendChain(w, second, gen)
  /\ UNCHANGED pc

TaskShutsDownWrite ==
  /\ pc = "work" /\ "shutdown" \in w.scenario.apis
  /\ w.life # "Free" /\ ~w.close_submitted /\ w.write = "Open"
  /\ "fin" \notin Careless => ~w.chain.on
  /\ "twice" \notin Careless => ~w.shutdown_inflight
  /\ \E ok \in Oks : w' = ShutdownWrite(w, ok)
  /\ UNCHANGED pc

TaskCloses ==
  /\ pc = "work" /\ w.life = "Open"
  /\ \E ok \in Oks : w' = Close(w, ok)
  /\ UNCHANGED pc

(* The end of an iteration: pending_finalize_closes, the bounded sends no   *)
(* CQE settles, and the capacity wake.                                      *)
EndIteration ==
  /\ pc = "work" /\ pc' = "wait"
  /\ \E ok \in Oks :
       LET v == IF w.finalize THEN TryFinalizeClose(w, ok) ELSE w
           ids == {c.bid.id : c \in w.completions}
       IN  w' = [v EXCEPT !.finalize = FALSE, !.completions = {}, !.capacity = FALSE,
                          !.settled = [i \in DOMAIN @ |-> @[i] + IF i \in ids THEN 1 ELSE 0]]

Init == (\E s \in Scenarios : w = Idle(s)) /\ pc = "wait"

Next ==
  \/ \E op \in w.kernel : StreamCqe(op) \/ NotifCqe(op) \/ ShutdownCqe(op) \/ CloseCqe(op)
  \/ \E tls \in BOOLEAN : AcceptCqe(tls)
  \/ ConnectionEnds
  \/ StartRetries
  \/ \E r \in w.retries : RetryStep(r)
  \/ DeadlinePassed
  \/ EndRetries
  \/ \E n \in 0 .. 2, bounded \in BOOLEAN : TaskSends(n, bounded)
  \/ \E copies \in BOOLEAN : TaskSendsParts(copies)
  \/ \E second \in {"Send", "Zc"}, gen \in 0 .. w.gen : TaskSendsChain(second, gen)
  \/ TaskShutsDownWrite
  \/ TaskCloses
  \/ EndIteration

Spec == Init /\ [][Next]_vars

-----------------------------------------------------------------------------
(* The values of the worker's fields; a slab entry's notifications never    *)
(* outnumber its SQEs.                                                      *)
TypeOK ==
  /\ pc \in {"wait", "retries", "work"}
  /\ w.life \in {"Free", "Open", "Closing"}
  /\ w.write \in {"Open", "ShutdownPending", "Shutdown"}
  /\ w.gen \in 0 .. w.scenario.occupants
  /\ {w.tls, w.in_flight, w.parked, w.close_pending, w.close_submitted, w.deadline,
      w.shutdown_inflight, w.finalize, w.capacity} \subseteq BOOLEAN
  /\ \A e \in ToSet(w.queue) : InUse(w, e.tag, e.ref)
  /\ DOMAIN w.pool \subseteq Slots /\ DOMAIN w.slab \subseteq Slabs
  /\ \A b \in DOMAIN w.slab : w.slab[b].notifs \in 0 .. ChunkLen
  /\ w.chain.ops \in 0 .. 2 /\ w.chain.notifs \in 0 .. Wrap - 1
  /\ \A r \in w.retries : r.n \in 0 .. (IF r.kind = "pollout" THEN 3 ELSE 2)

(* What may still read or release a pool slot: a queued send, an operation  *)
(* in the kernel, a retry, a slab entry.                                    *)
SlotHolders(s) ==
    Cardinality({i \in DOMAIN w.queue : w.queue[i].tag # "Zc" /\ w.queue[i].ref = s})
  + Cardinality({o \in w.kernel : o.tag \in {"Send", "TlsSend", "PollOut"} /\ o.ref = s})
  + Cardinality({r \in w.retries : r.kind \in {"copy", "pollout"} /\ r.ref = s})
  + Cardinality({b \in DOMAIN w.slab : s \in w.slab[b].slots})

(* Every pool slot in use has exactly one holder and a free one has none:   *)
(* no completion, drain, retry or force-close leaks a slot, releases it     *)
(* twice, or frees memory an SQE still reads.                               *)
SlotsOwned ==
  \A s \in Slots : SlotHolders(s) = IF s \in DOMAIN w.pool THEN 1 ELSE 0

EntryHolders(b) ==
    Cardinality({i \in DOMAIN w.queue : w.queue[i].tag = "Zc" /\ w.queue[i].ref = b})
  + Cardinality({o \in w.kernel : IsSlab(o.tag) /\ o.tag # "Notif" /\ o.ref = b})
  + Cardinality({r \in w.retries : r.kind \in {"zc", "coalesced"} /\ r.ref = b})

Notifs(b) == Cardinality({o \in w.kernel : o.tag = "Notif" /\ o.ref = b})

(* A slab entry lives exactly as long as its SQE or a zero-copy             *)
(* notification for it is outstanding, and it counts those notifications    *)
(* exactly, so its guards outlive the kernel's use of them.                 *)
EntriesOwned ==
  \A b \in Slabs :
    IF b \in DOMAIN w.slab
    THEN /\ EntryHolders(b) <= 1 /\ EntryHolders(b) + Notifs(b) >= 1
         /\ w.slab[b].notifs = Notifs(b)
         /\ w.slab[b].awaiting => EntryHolders(b) = 0
    ELSE EntryHolders(b) + Notifs(b) = 0

(* Until a send of the occupant fails, its bytes reach the socket in the    *)
(* order they were sent, with no gap and none twice: whatever queue, chain, *)
(* short write, EAGAIN or refused SQE they went through.                    *)
StreamIntact == ~w.hole

Carriers(id) ==
    Cardinality({s \in DOMAIN w.pool : w.pool[s].bid.id = id})
  + Cardinality({b \in DOMAIN w.slab : w.slab[b].bid.id = id})
  + Cardinality({c \in w.completions : c.bid.id = id})

(* A bounded send of the live occupant is settled exactly once or is still  *)
(* carried by exactly one buffer or completion; one of an earlier occupant  *)
(* is never settled twice; and Ok is reported only after its last byte.     *)
BoundedSettledOnce ==
  /\ ~w.early
  /\ \A id \in DOMAIN w.owner : w.owner[id] # 0 =>
       /\ Carriers(id) + w.settled[id] <= 1
       /\ w.life # "Free" /\ w.owner[id] = w.gen + 1 => Carriers(id) + w.settled[id] = 1

(* A plain-text send that completes reports the whole length of its logical *)
(* send, however it was split, coalesced and resubmitted.                   *)
ReportsWholeSend == ~w.short

LiveOps(tags) == {o \in w.kernel : o.tag \in tags /\ o.gen = w.gen}
LiveRetries(kinds) == {r \in w.retries : r.kind \in kinds /\ r.gen = w.gen}

(* The send queue never waits for a completion that is not coming: queued   *)
(* sends have in_flight set, and in_flight or an active chain has an SQE in *)
(* the kernel or a retry that will push one.                                *)
SendsBacked ==
  w.life # "Free" =>
    /\ w.queue # <<>> => w.in_flight
    /\ w.in_flight => \/ LiveOps(StreamTags) # {} \/ w.chain.on
                      \/ LiveRetries({"zc", "coalesced", "copy", "pollout"}) # {}
                      \/ w.parked /\ w.queue # <<>> /\ LiveRetries({"send"}) # {}
    /\ w.chain.on => LiveOps(StreamTags \union {"Notif"}) # {}

(* A connection that is closing is never forgotten: its Close is in the     *)
(* kernel or due to be retried, or something that will try it again is      *)
(* outstanding.                                                             *)
ClosesBacked ==
  w.life = "Closing" =>
    \/ w.close_pending /\ (w.in_flight \/ w.chain.on \/ w.finalize \/ LiveOps({"Shutdown"}) # {})
    \/ w.close_submitted /\ (LiveOps({"Close"}) # {} \/ LiveRetries({"close"}) # {})

(* A Shutdown in the kernel belongs to the slot's live occupant, no Close   *)
(* of the slot is under way, and every byte sent before it was written.     *)
FinInOrder ==
  \A op \in w.kernel : op.tag = "Shutdown" =>
    /\ op.gen = w.gen /\ w.life # "Free" /\ LiveOps({"Close"}) = {}
    /\ w.broken \/ op.at = op.len

(* Once an occupant's Close is committed no SQE but the Close itself is     *)
(* pushed for it.                                                           *)
CloseIsLast ==
  [][w.close_submitted /\ w'.close_submitted /\ w'.gen = w.gen =>
       \A op \in w'.kernel \ w.kernel : op.tag \in {"Close", "Notif"}]_vars

(* No pool slot comes back without capacity_released: the head of the       *)
(* bounded-send FIFO is woken by nothing else.                              *)
CapacityNoted ==
  [][FreeSlots(w) # FreeSlots(w') /\ FreeSlots(w) \subseteq FreeSlots(w') => w'.capacity]_vars

(* The chain's count of outstanding notifications never wraps: the          *)
(* assertion of on_notif_cqe.                                               *)
NotifNeverUnderflows == w.chain.notifs < Wrap \div 2

(* Every pool slot and slab entry has its owner, whatever completions,      *)
(* notifications, drains, retries and force-closes come in whatever order.  *)
BuffersOwned == TypeOK /\ SlotsOwned /\ EntriesOwned

(* The caller is told the truth: a bounded send is settled once, and a      *)
(* completed send reports its whole length.                                 *)
SendsSettled == BoundedSettledOnce /\ ReportsWholeSend

(* Nothing waits for a completion that is not coming, and the FIN comes     *)
(* after the bytes: the queue, the chain, the close and the shutdown.       *)
NothingStranded == SendsBacked /\ ClosesBacked /\ FinInOrder

(* What a step may not do: push for a connection whose Close is committed,  *)
(* or give a slot back without noting that capacity was released.           *)
StepsOrderly == CloseIsLast /\ CapacityNoted
=============================================================================
