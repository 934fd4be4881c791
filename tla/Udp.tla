-------------------------------- MODULE Udp --------------------------------
(***************************************************************************)
(* A UDP socket of a worker (ringline/src/backend/uring/driver.rs and      *)
(* event_loop.rs, backend/mio/event_loop.rs, UdpCtx of runtime/io.rs): the *)
(* multishot receive into provided buffers, the bounded queue of datagrams *)
(* and its readers, datagrams coalesced by the kernel (GRO) and split by   *)
(* it (GSO), send slots and the copy pool.                                 *)
(*                                                                         *)
(* A datagram of u.net is <<id, segments>>: several segments came          *)
(* coalesced, none is one that is truncated.  u.got holds what the task    *)
(* was handed, <<id, segment>>.  A send slot remembers in gso whether its  *)
(* header carries a segment size.  Two history fields are for the          *)
(* properties only: again holds the datagrams a batch took after some of   *)
(* their segments were read singly, deaf is that a receive could not be    *)
(* armed again.                                                            *)
(***************************************************************************)
EXTENDS Naturals, Sequences, FiniteSets, SequencesExt, FiniteSetsExt

CONSTANTS UdpSetups

(* A setup: the backend, whether the socket is connected, the provided     *)
(* buffers, the capacity of the queue, the datagrams that come, how they   *)
(* are read ("one", "batch"), the sends in their order ("plain", "gso",    *)
(* "ctx", a plain one by DriverCtx), send slots, copy slots, and what may  *)
(* happen besides: "end", a receive ends by itself; "refused", the         *)
(* submission queue is full.                                               *)
ASSUME UdpAssumption ==
  \A s \in UdpSetups :
    /\ DOMAIN s = {"backend", "connected", "bufs", "capacity", "datagrams", "reads", "sends", "slots", "pool", "faults"}
    /\ s.backend \in {"uring", "mio"} /\ s.reads \subseteq {"one", "batch"}
    /\ s.faults \subseteq {"end", "refused"}

VARIABLES usetup, u

udpVars == <<usetup, u>>

Bufs == 1 .. usetup.bufs
SendSlots == 1 .. usetup.slots
BATCH == 2              \* what a batch takes at most
Uring == usetup.backend = "uring"
Owned == 0              \* the buffer of a datagram the mio backend copied

InitUdp ==
  /\ usetup \in UdpSetups
  /\ u = [arrived |-> 0, net |-> <<>>, read |-> 0, dropped |-> {},
          bufs |-> Bufs, replenish |-> <<>>, recv |-> IF Uring THEN "armed" ELSE "none", edge |-> FALSE,
          sq |-> <<>>, cq |-> <<>>, queue |-> <<>>, got |-> <<>>,
          reader |-> "ready", writer |-> "ready", rwait |-> FALSE, swait |-> FALSE,
          free |-> [i \in 1 .. usetup.slots |-> usetup.slots + 1 - i], gso |-> [s \in SendSlots |-> FALSE],
          pool |-> usetup.pool, sent |-> 0, sending |-> {}, wire |-> {}, stage |-> "cqes", pass |-> 1,
          again |-> {}, deaf |-> FALSE]

-----------------------------------------------------------------------------
(* Receiving. *)

(* wake_udp_recv and wake_udp_send_ready. *)
WakeReader(x) == IF x.rwait THEN [x EXCEPT !.rwait = FALSE, !.reader = "ready"] ELSE x
WakeWriter(x) == IF x.swait THEN [x EXCEPT !.swait = FALSE, !.writer = "ready"] ELSE x

(* rearm_udp_recvmsg: a refused submission is only counted. *)
RearmUdp(x) ==
  {[x EXCEPT !.sq = Append(@, [op |-> "recv"])]}
    \union (IF "refused" \in usetup.faults THEN {[x EXCEPT !.deaf = TRUE]} ELSE {})

(* A datagram joins the queue, or is dropped: cut short, or no room. *)
Enqueue(x, d, bid) ==
  IF d[2] = 0 \/ Len(x.queue) >= usetup.capacity
  THEN [x EXCEPT !.dropped = @ \union {d[1]}, !.replenish = IF bid = Owned THEN @ ELSE Append(@, bid)]
  ELSE WakeReader([x EXCEPT !.queue = Append(@, [id |-> d[1], segments |-> d[2], consumed |-> 0, bid |-> bid])])

(* Mutant: only a receive that brought nothing is armed again. *)
HandleRecvUdpDeaf(x, q) ==
  IF q.bid = 0 THEN RearmUdp(x) ELSE {Enqueue(x, q.datagram, q.bid)}

(* handle_recv_msg_udp and handle_recv_udp. *)
HandleRecvUdp(x, q) ==
  LET y == IF q.bid = 0 THEN x ELSE Enqueue(x, q.datagram, q.bid)
  IN IF q.more THEN {y} ELSE RearmUdp(y)

(* handle_udp_readable: everything the socket has. *)
HandleUdpReadable(x) ==
  FoldLeft(LAMBDA y, d : Enqueue([y EXCEPT !.read = @ + 1], d, Owned), [x EXCEPT !.net = <<>>, !.edge = FALSE], x.net)

Exhausted(e) == e.consumed >= e.segments

(* The end of an entry's use. *)
ReleaseBid(x, e) == IF e.bid = Owned THEN x ELSE [x EXCEPT !.replenish = Append(@, e.bid)]

(* Mutant: the entry is given up with its first segment. *)
RecvOneWhole(x) ==
  LET e == Head(x.queue)
  IN ReleaseBid([x EXCEPT !.got = Append(@, <<e.id, e.consumed + 1>>), !.queue = Tail(@)], e)

(* recv_from and with_datagram: the next segment of the first entry, which *)
(* goes back to the front until it is used up.                             *)
RecvOne(x) ==
  LET e == [Head(x.queue) EXCEPT !.consumed = @ + 1]
      y == [x EXCEPT !.got = Append(@, <<e.id, e.consumed>>), !.queue = Tail(@)]
  IN IF Exhausted(e) THEN ReleaseBid(y, e) ELSE [y EXCEPT !.queue = <<e>> \o @]

(* recv_batch and recv_batch_timed: for_each_segment of every entry, from  *)
(* its first segment on, whatever recv_from has consumed of it.            *)
RecvBatch(x) ==
  FoldLeft(LAMBDA y, e : ReleaseBid([y EXCEPT !.got = @ \o [i \in 1 .. e.segments |-> <<e.id, i>>], !.queue = Tail(@),
                                              !.again = IF e.consumed = 0 THEN @ ELSE @ \union {e.id}], e),
           x, SubSeq(x.queue, 1, Min({BATCH, Len(x.queue)})))

PollRecv(x, how) ==
  IF x.queue = <<>> THEN [x EXCEPT !.rwait = TRUE, !.reader = "wait"]
  ELSE IF how = "one" THEN RecvOne(x) ELSE RecvBatch(x)

-----------------------------------------------------------------------------
(* Sending. *)

(* What leaves: whether the caller asked for segments, and what the header *)
(* of the message says.                                                    *)
Datagram(asked, header) == [asked |-> asked, header |-> header]

(* The last free send slot and a copy slot, and the submission; what fails *)
(* gives them back.  x is the state with the slot's header filled in.      *)
SubmitUdp(x, datagram) ==
  IF x.free = <<>> \/ x.pool = 0 THEN {[u EXCEPT !.writer = "exhausted"]}
  ELSE {[x EXCEPT !.free = Front(@), !.pool = @ - 1, !.sent = @ + 1,
                  !.sq = Append(@, [op |-> "send", slot |-> Last(x.free), datagram |-> datagram])]}
       \union (IF "refused" \in usetup.faults THEN {x} ELSE {})

SetGso(x, gso) == IF x.free = <<>> THEN x ELSE [x EXCEPT !.gso[Last(x.free)] = gso]

(* udp_send_to: a connected socket sends without a header unless it asks   *)
(* for segments.                                                           *)
UdpSendTo(x, gso) ==
  SubmitUdp(IF usetup.connected /\ ~gso THEN x ELSE SetGso(x, gso), Datagram(gso, gso))

(* DriverCtx::send_to leaves the control part of the header as it is. *)
DriverSendTo(x) == SubmitUdp(x, Datagram(FALSE, x.free # <<>> /\ x.gso[Last(x.free)]))

(* UdpCtx::send_to of the mio backend: at once, or the socket is full.     *)
(* A GSO send is a send for each segment.                                  *)
SendToMio(x, how) ==
  {[x EXCEPT !.sent = @ + 1, !.wire = @ \union {Datagram(how = "gso", how = "gso")}], [x EXCEPT !.writer = "exhausted"]}

(* handle_send_msg_udp and handle_send_udp. *)
HandleSendUdp(x, q) == WakeWriter([x EXCEPT !.pool = @ + 1, !.free = Append(@, q.slot), !.sending = @ \ {q.slot}])

(* UdpSendReadyFuture: a free slot, or the next completion; on the mio     *)
(* backend the next turn.                                                  *)
PollSendReady(x) ==
  IF ~Uring \/ x.free # <<>> THEN [x EXCEPT !.writer = "ready"]
  ELSE [x EXCEPT !.writer = "wait", !.swait = TRUE]

-----------------------------------------------------------------------------
UdpBecomes(S) == u' \in S /\ UNCHANGED usetup

(* The peer. *)
Arrives ==
  /\ u.arrived < Len(usetup.datagrams)
  /\ UdpBecomes({[u EXCEPT !.arrived = @ + 1, !.edge = ~Uring,
                           !.net = Append(@, <<u.arrived + 1, usetup.datagrams[u.arrived + 1]>>)]})

(* The kernel fills a buffer, and perhaps ends the receive with it. *)
KernelDatagram(more) ==
  /\ u.recv = "armed" /\ u.net # <<>> /\ u.bufs # {}
  /\ more \/ "end" \in usetup.faults
  /\ UdpBecomes({[u EXCEPT !.net = Tail(@), !.read = @ + 1, !.bufs = @ \ {Min(@)}, !.recv = IF more THEN @ ELSE "none",
                           !.cq = Append(@, [op |-> "recv", bid |-> Min(u.bufs), datagram |-> Head(u.net), more |-> more])]})

(* No buffer: ENOBUFS. *)
KernelNoBuffer ==
  /\ u.recv = "armed" /\ u.net # <<>> /\ u.bufs = {}
  /\ UdpBecomes({[u EXCEPT !.recv = "none",
                           !.cq = Append(@, [op |-> "recv", bid |-> 0, datagram |-> <<0, 0>>, more |-> FALSE])]})

(* What is submitted reaches the kernel, which sends at once. *)
Submitting(x) ==
  FoldLeft(LAMBDA y, e : IF e.op = "recv" THEN [y EXCEPT !.recv = "armed"]
                         ELSE [y EXCEPT !.sending = @ \union {e.slot}, !.wire = @ \union {e.datagram},
                                        !.cq = Append(@, [op |-> "send", slot |-> e.slot])],
           [x EXCEPT !.sq = <<>>], x.sq)

(* The worker's iteration: completions, buffers back (only after the first *)
(* of two drains), tasks, submission.                                      *)
UdpCompletion ==
  /\ u.stage = "cqes" /\ u.cq # <<>>
  /\ LET x == [u EXCEPT !.cq = Tail(@)]
         q == Head(u.cq)
     IN UdpBecomes(IF q.op = "recv" THEN HandleRecvUdp(x, q) ELSE {HandleSendUdp(x, q)})

UdpDrained ==
  /\ u.stage = "cqes" /\ u.cq = <<>>
  /\ LET x == [u EXCEPT !.stage = "tasks"]
     IN UdpBecomes({IF u.pass = 1 THEN [x EXCEPT !.bufs = @ \union ToSet(u.replenish), !.replenish = <<>>] ELSE x})

UdpReadable == u.edge /\ UdpBecomes({HandleUdpReadable(u)})

PollReader == \E how \in usetup.reads :
  /\ u.stage = "tasks" /\ u.reader = "ready"
  /\ UdpBecomes({PollRecv(u, how)})

PollWriter ==
  /\ u.stage = "tasks" /\ u.writer \in {"ready", "exhausted"} /\ u.sent < Len(usetup.sends)
  /\ LET how == usetup.sends[u.sent + 1] IN
     UdpBecomes(CASE u.writer = "exhausted" -> {PollSendReady(u)}
                  [] u.writer = "ready" /\ Uring /\ how = "ctx" -> DriverSendTo(u)
                  [] u.writer = "ready" /\ Uring -> UdpSendTo(u, how = "gso")
                  [] OTHER -> SendToMio(u, how))

UdpFlush ==
  /\ u.stage = "tasks" /\ u.reader = "wait"
  /\ UdpBecomes({[Submitting(u) EXCEPT !.stage = "cqes", !.pass = 3 - @]})

UdpNext ==
  \/ Arrives \/ KernelNoBuffer \/ UdpCompletion \/ UdpDrained \/ UdpReadable \/ PollReader \/ PollWriter \/ UdpFlush
  \/ \E more \in BOOLEAN : KernelDatagram(more)

UdpSpec == InitUdp /\ [][UdpNext]_udpVars

-----------------------------------------------------------------------------
Segments(id, from) == [i \in 1 .. usetup.datagrams[id] - from |-> <<id, from + i>>]

RECURSIVE Taken(_, _)
Taken(id, from) ==
  IF id > u.read THEN <<>>
  ELSE (IF id \in from THEN <<>> ELSE Segments(id, 0)) \o Taken(id + 1, from)

(* What was handed out, without what had been handed out before. *)
FirstTimes(got) == FoldLeft(LAMBDA new, s : IF Contains(new, s) THEN new ELSE Append(new, s), <<>>, got)

(* Every datagram the socket gave is handed out once, whole and in order,  *)
(* segment by segment if it was coalesced, unless it was dropped on        *)
(* arrival; and no provided buffer is lost or given back twice             *)
(* (handle_recv_msg_udp, UdpRecvFuture, next_segment_range).  "Once"       *)
(* excepts a coalesced datagram whose first segments recv_from read before *)
(* recv_batch took it: the batch hands those out again                     *)
(* (runtime/mod.rs:128, runtime/io.rs:6773).  Nothing else comes twice,    *)
(* and there too nothing is missing or out of order.                       *)
DatagramsIntact ==
  LET held == FoldLeft(LAMBDA a, e : a \o Segments(e.id, e.consumed), <<>>, u.queue)
      posted == {i \in DOMAIN u.cq : u.cq[i].op = "recv" /\ u.cq[i].bid # 0}
      coming == {u.cq[i].datagram[1] : i \in posted}
      away == u.replenish \o [i \in DOMAIN u.queue |-> u.queue[i].bid]
                \o [i \in 1 .. Cardinality(posted) |-> u.cq[SetToSortSeq(posted, <)[i]].bid]
  IN /\ FirstTimes(u.got) \o held = Taken(1, u.dropped \union coming)
     /\ \A i, j \in DOMAIN u.got : i # j /\ u.got[i] = u.got[j] => u.got[i][1] \in u.again
     /\ Uring => /\ ToSet(away) \intersect u.bufs = {} /\ ToSet(away) \union u.bufs = Bufs
                 /\ IsInjective(away)

(* The socket is never left without a receive, nobody waits for a datagram *)
(* that is queued or for a slot that is free, and every slot is free or    *)
(* with the kernel (rearm_udp_recvmsg, wake_udp_recv, handle_send_msg_udp).*)
(* The receive excepts a socket whose re-arm the submission queue refused: *)
(* nothing tries again (uring/driver.rs:3169).                             *)
UdpServed ==
  /\ Uring /\ ~u.deaf => \/ u.recv = "armed" \/ Contains(u.sq, [op |-> "recv"])
                         \/ \E i \in DOMAIN u.cq : u.cq[i].op = "recv" /\ ~u.cq[i].more
  /\ ~Uring /\ u.net # <<>> => u.edge
  /\ u.reader = "wait" => u.rwait /\ u.queue = <<>>
  /\ u.writer = "wait" => u.swait /\ u.free = <<>>
  /\ LET queued == {u.sq[i].slot : i \in {j \in DOMAIN u.sq : u.sq[j].op = "send"}} IN
     /\ IsInjective(u.free)
     /\ Cardinality(ToSet(u.free)) + Cardinality(queued \union u.sending) = usetup.slots
     /\ ToSet(u.free) \intersect (queued \union u.sending) = {}

(* UdpSendSlot: the segment size is "only consulted when send_to_gso is    *)
(* used" (driver.rs:43): what is sent without one leaves in one piece.     *)
SentAsAsked == \A d \in u.wire : d.header = d.asked

(* What the user of a UDP socket is owed, under any mix of readers and     *)
(* senders: its datagrams intact and nobody left waiting, with the two     *)
(* exceptions above (a batch after a partial read, a refused re-arm).      *)
UdpExact == DatagramsIntact /\ UdpServed
=============================================================================
