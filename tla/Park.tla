-------------------------------- MODULE Park --------------------------------
(***************************************************************************)
(* Connections that are placed on a worker when they are accepted, and     *)
(* that move to another worker while they live: the load table, the        *)
(* hand-off of an accepted connection, and parking, which cancels the      *)
(* receive, waits for the handler to offer the connection, installs a      *)
(* second descriptor of its socket, tears the slot down and sends the      *)
(* descriptor to the worker that adopts it                                 *)
(* (ringline/src/backend/uring/event_loop.rs, driver.rs, park.rs).         *)
(*                                                                         *)
(* wk[w] is worker w with its ring: sq the operations it submits, which    *)
(* take effect when it enters the kernel, kernel the multishot receives    *)
(* there, cq the completions.  so[s] is socket s.  A request is two units  *)
(* of the stream, which the kernel delivers one or two at a time.          *)
(***************************************************************************)
EXTENDS Naturals, Sequences, FiniteSets, SequencesExt, FiniteSetsExt

CONSTANTS
  HANDOFF_MARGIN, PARK_MARGIN, PARK_FLOOR, PARK_DRAIN_TICKS,
  ParkSetups

(* A setup: the requests of each socket, the slots of a worker, and what   *)
(* may happen besides: "pipeline", a peer sends a request before the last  *)
(* one is answered; "fin", it closes; "install", the kernel refuses a      *)
(* descriptor; "closed", a worker may stop to take connections.            *)
ASSUME ParkAssumption ==
  /\ {HANDOFF_MARGIN, PARK_MARGIN, PARK_FLOOR, PARK_DRAIN_TICKS} \subseteq Nat
  /\ \A p \in ParkSetups :
       /\ DOMAIN p = {"requests", "slots", "faults"}
       /\ p.faults \subseteq {"pipeline", "fin", "install", "closed"}

VARIABLES psetup, wk, so, loads, accepting

parkVars == <<psetup, wk, so, loads, accepting>>

Workers == {1, 2}
Socks == DOMAIN psetup.requests
ParkSlots == 1 .. psetup.slots
ParkQueue == 1          \* capacity of the channels between workers

NoSlot == [
  sock |-> 0, lifecycle |-> "Inactive", read |-> "Open", armed |-> FALSE, pending |-> <<>>,
  acc |-> <<>>, sending |-> FALSE, offered |-> FALSE, carry |-> 0, drain |-> <<>>, closing |-> FALSE,
  task |-> "none", session |-> 0]

InitPark ==
  /\ psetup \in ParkSetups
  /\ wk = [w \in Workers |->
       [slot |-> [c \in ParkSlots |-> NoSlot], gen |-> [c \in ParkSlots |-> 0], file |-> [c \in ParkSlots |-> 0],
        in_flight |-> [c \in ParkSlots |-> <<>>], ready |-> <<>>, park_rx |-> <<>>, accept_rx |-> <<>>,
        wake |-> FALSE, sq |-> <<>>, kernel |-> {}, cq |-> <<>>, stage |-> "kernel"]]
  /\ so = [s \in Socks |-> [sent |-> 0, read |-> 0, fin |-> FALSE, got |-> <<>>, answered |-> 0, born |-> FALSE,
                           ends |-> 0]]
  /\ loads = [w \in Workers |-> 0]
  /\ accepting = [w \in Workers |-> TRUE]

-----------------------------------------------------------------------------
(* Placement.  A state of the workers is a record x of wk, so and loads.   *)

ActiveCount(x, w) == Cardinality({c \in ParkSlots : x.wk[w].slot[c].lifecycle # "Inactive"})

(* The first of the accepting workers with the least load. *)
LeastLoaded(load) ==
  LET open == {w \in Workers : accepting[w]}
      least == {w \in open : \A u \in open : load[w] <= load[u]}
  IN IF open = {} THEN {} ELSE {Min(least)}

(* choose_placement: {} to stay. *)
ChoosePlacement(load, me, mine) ==
  {w \in LeastLoaded(load) : w # me /\ mine >= load[w] + (IF load[w] = 0 THEN 1 ELSE HANDOFF_MARGIN)}

(* choose_park_target. *)
ChooseParkTarget(load, me, mine) ==
  {w \in LeastLoaded(load) : w # me /\ mine > PARK_FLOOR /\ mine >= load[w] + PARK_MARGIN}

PublishLoad(x, w) == [x EXCEPT !.loads[w] = ActiveCount(x, w)]

-----------------------------------------------------------------------------
(* ParkSlots. *)

Sqe(x, w, op, c) == [x EXCEPT !.wk[w].sq = Append(@, [op |-> op, c |-> c, gen |-> x.wk[w].gen[c]])]

(* arm_recv and the other submissions of the multishot receive. *)
ArmRecv(x, w, c) == Sqe([x EXCEPT !.wk[w].slot[c].armed = TRUE], w, "recv", c)

(* rearm_multishot_if_idle. *)
RearmIdle(x, w, c) ==
  IF x.wk[w].slot[c].lifecycle = "Open" /\ ~x.wk[w].slot[c].armed THEN ArmRecv(x, w, c) ELSE x

(* close_connection: the offer and the drain go, an install in flight      *)
(* does not.                                                               *)
CloseSlot(x, w, c) ==
  IF x.wk[w].slot[c].lifecycle # "Open" THEN x
  ELSE [x EXCEPT !.wk[w].slot[c] = [@ EXCEPT !.lifecycle = "Closing", !.offered = FALSE, !.drain = <<>>,
                                             !.carry = 0, !.closing = TRUE]]

(* try_finalize_close. *)
FinalizeClose(x, w, c) ==
  LET s == x.wk[w].slot[c]
      cancelled == IF s.armed THEN Sqe([x EXCEPT !.wk[w].slot[c].armed = FALSE], w, "cancel", c) ELSE x
  IN IF ~s.closing \/ s.sending THEN x
     ELSE Sqe([cancelled EXCEPT !.wk[w].slot[c].closing = FALSE], w, "close", c)

(* install_accepted_with_pending with spawn_accept_task: a full table      *)
(* closes the descriptor, otherwise the task runs on_accept or on_adopt.   *)
InstallAcceptedWithPending(x, w, s, pending, session) ==
  LET free == {c \in ParkSlots : x.wk[w].slot[c].lifecycle = "Inactive"}
      c == Min(free)
  IN IF free = {} THEN [x EXCEPT !.so[s].ends = @ + 1]
     ELSE ArmRecv([x EXCEPT !.wk[w].file[c] = s,
                            !.wk[w].slot[c] = [NoSlot EXCEPT !.sock = s, !.lifecycle = "Open", !.acc = pending,
                                                             !.task = "ready", !.session = session]], w, c)

-----------------------------------------------------------------------------
(* Parking. *)

(* park_blocker: what a connection must have left behind, and that its     *)
(* handler offers it.                                                      *)
ParkBlocked(x, w, c) ==
  LET s == x.wk[w].slot[c] IN
  \/ s.lifecycle # "Open" \/ s.read # "Open"
  \/ s.acc # <<>>
  \/ ~s.offered
  \/ s.sending

(* Mutant: bytes that arrive leave the offer standing. *)
WithdrawParkOfferKept(x, w, c) == x

(* withdraw_park_offer. *)
WithdrawParkOffer(x, w, c) == [x EXCEPT !.wk[w].slot[c].offered = FALSE, !.wk[w].slot[c].carry = 0]

(* begin_park: cancel the receive and drain, or install at once when       *)
(* there is none.  The connection starts to move, or stays.                *)
MayBeginPark(x, w, c, target) ==
  /\ target # w /\ x.wk[w].slot[c].offered /\ x.wk[w].in_flight[c] = <<>> /\ ~ParkBlocked(x, w, c)

BeginPark(x, w, c, target) ==
  LET move == [target |-> target, gen |-> x.wk[w].gen[c]] IN
  IF x.wk[w].slot[c].armed
  THEN [Sqe(x, w, "cancel", c) EXCEPT
          !.wk[w].slot[c].drain = <<[target |-> target, gen |-> x.wk[w].gen[c], ticks |-> PARK_DRAIN_TICKS]>>]
  ELSE [Sqe(x, w, "install", c) EXCEPT !.wk[w].in_flight[c] = <<move>>]

(* maybe_park_one: the first offered connection that can begin. *)
MaybeParkOne(x, w) ==
  LET target == ChooseParkTarget(x.loads, w, x.loads[w])
      t == Min(target)
      able == {c \in ParkSlots : MayBeginPark(x, w, c, t)}
  IN IF target = {} \/ able = {} THEN x
     ELSE [BeginPark(x, w, Min(able), t) EXCEPT !.loads[t] = @ + 1]

(* Mutant: the drain that is given up does not restore the receive. *)
AbandonParkDrainDeaf(x, w, c) == [x EXCEPT !.wk[w].slot[c].drain = <<>>]

(* abandon_park_drain: the receive that was cancelled is armed again. *)
AbandonParkDrain(x, w, c) ==
  IF x.wk[w].slot[c].drain = <<>> THEN x
  ELSE RearmIdle([x EXCEPT !.wk[w].slot[c].drain = <<>>], w, c)

(* drive_park_drains, for one slot: install once the handler has offered   *)
(* again, or give up when its ticks are over.                              *)
DriveParkDrain(x, w, c) ==
  LET s == x.wk[w].slot[c]
      d == s.drain[1]
  IN CASE s.drain = <<>> -> x
       [] s.drain # <<>> /\ ~ParkBlocked(x, w, c) ->
            [Sqe(x, w, "install", c) EXCEPT !.wk[w].slot[c].drain = <<>>,
                                            !.wk[w].in_flight[c] = <<[target |-> d.target, gen |-> d.gen]>>]
       [] OTHER -> IF d.ticks <= 1 THEN AbandonParkDrain(x, w, c)
                   ELSE [x EXCEPT !.wk[w].slot[c].drain = <<[d EXCEPT !.ticks = @ - 1]>>]
DriveParkDrains(x, w) == FoldSet(LAMBDA c, y : DriveParkDrain(y, w, c), x, ParkSlots)

(* take_pending_for_park: what the move carries. *)
TakePendingForPark(s) == s.acc

(* handle_park_install: the kernel gave a descriptor (ok), or did not.     *)
(* The gate is checked again; the move tears the slot down and leaves the  *)
(* descriptor for drain_park_ready.                                        *)
HandleParkInstall(x, w, q) ==
  LET c == q.c
      flight == x.wk[w].in_flight[c]
      landed == [x EXCEPT !.wk[w].in_flight[c] = <<>>]
      stale == x.wk[w].gen[c] # q.gen \/ q.gen # flight[1].gen
      s == x.wk[w].slot[c]
  IN CASE flight = <<>> \/ ~q.ok -> AbandonParkDrain(landed, w, c)
       [] flight # <<>> /\ q.ok /\ stale -> [landed EXCEPT !.wk[w].slot[c].drain = <<>>]
       [] flight # <<>> /\ q.ok /\ ~stale /\ ParkBlocked(x, w, c) -> AbandonParkDrain(landed, w, c)
       [] OTHER -> [CloseSlot(landed, w, c) EXCEPT
                      !.wk[w].slot[c].acc = <<>>,
                      !.wk[w].ready = Append(@, [sock |-> s.sock, target |-> flight[1].target,
                                                 pending |-> TakePendingForPark(s), session |-> s.carry])]

(* drain_park_ready: to the target's channel, or kept while it is full. *)
DrainParkReady(x, w) ==
  FoldLeft(LAMBDA y, p : IF Len(y.wk[p.target].park_rx) < ParkQueue
                         THEN [y EXCEPT !.wk[p.target].park_rx = Append(@, p), !.wk[p.target].wake = TRUE]
                         ELSE [y EXCEPT !.wk[w].ready = Append(@, p)],
           [x EXCEPT !.wk[w].ready = <<>>], x.wk[w].ready)

(* handle_eventfd_read: adopt what was parked here, install what was       *)
(* handed off, publish the load.                                           *)
HandleEventfdRead(x, w) ==
  LET adopted == FoldLeft(LAMBDA y, p : InstallAcceptedWithPending(y, w, p.sock, p.pending, p.session),
                          [x EXCEPT !.wk[w].park_rx = <<>>], x.wk[w].park_rx)
      all == FoldLeft(LAMBDA y, s : InstallAcceptedWithPending(y, w, s, <<>>, 0),
                      [adopted EXCEPT !.wk[w].accept_rx = <<>>], x.wk[w].accept_rx)
  IN PublishLoad(all, w)

(* handle_accept_multi with placement_target and hand_off_accepted. *)
HandleAcceptMulti(x, w, s) ==
  LET target == ChoosePlacement(x.loads, w, ActiveCount(x, w))
      t == Min(target)
      room == target # {} /\ Len(x.wk[t].accept_rx) < ParkQueue
  IN PublishLoad(IF room THEN [x EXCEPT !.wk[t].accept_rx = Append(@, s), !.wk[t].wake = TRUE,
                                        !.loads[t] = @ + 1]
                 ELSE InstallAcceptedWithPending(x, w, s, <<>>, 0), w)

-----------------------------------------------------------------------------
(* Receiving, and the task. *)

Wake(x, w, c) == IF x.wk[w].slot[c].task = "wait" THEN [x EXCEPT !.wk[w].slot[c].task = "ready"] ELSE x

(* handle_recv_multi, as far as a park can tell. *)
HandleRecv(x, w, q) ==
  LET c == q.c
      s == x.wk[w].slot[c]
      idle == [x EXCEPT !.wk[w].slot[c].armed = FALSE]
      offer == WithdrawParkOffer(x, w, c)
      kept == IF s.acc = <<>> /\ s.pending = <<>> THEN [offer EXCEPT !.wk[w].slot[c].pending = q.units]
              ELSE [offer EXCEPT !.wk[w].slot[c].acc = s.acc \o s.pending \o q.units,
                                 !.wk[w].slot[c].pending = <<>>]
  IN CASE x.wk[w].gen[c] # q.gen -> x
       [] x.wk[w].gen[c] = q.gen /\ q.kind = "data" -> Wake(kept, w, c)
       [] x.wk[w].gen[c] = q.gen /\ q.kind = "eof" ->
            CloseSlot(Wake([idle EXCEPT !.wk[w].slot[c].read = "Eof"], w, c), w, c)
       [] OTHER -> IF s.drain # <<>> THEN idle ELSE RearmIdle(idle, w, c)

(* handle_close with release: the slot's next occupant has another         *)
(* generation.                                                             *)
ReleaseSlot(x, w, c) == [x EXCEPT !.wk[w].slot[c] = NoSlot, !.wk[w].gen[c] = @ + 1]

(* A reply is sent. *)
HandleSent(x, w, c) ==
  LET s == x.wk[w].slot[c]
      done == [x EXCEPT !.wk[w].slot[c] = [s EXCEPT !.sending = FALSE, !.task = "sent", !.session = @ + 1],
                        !.so[s.sock].answered = @ + 1]
  IN FinalizeClose(done, w, c)

DispatchPark(x, w, q) ==
  CASE q.kind \in {"data", "eof", "cancelled"} -> HandleRecv(x, w, q)
    [] q.kind = "install" -> HandleParkInstall(x, w, q)
    [] q.kind = "close" -> ReleaseSlot(x, w, q.c)
    [] q.kind = "sent" -> HandleSent(x, w, q.c)
    [] q.kind = "accept" -> HandleAcceptMulti(x, w, q.sock)
    [] q.kind = "eventfd" -> HandleEventfdRead(x, w)
    [] q.kind = "tick" -> PublishLoad(x, w)

(* offer_for_park, with what the handler wants carried. *)
OfferForPark(x, w, c) ==
  [x EXCEPT !.wk[w].slot[c].offered = TRUE, !.wk[w].slot[c].carry = x.wk[w].slot[c].session]

(* A poll of with_data: a request is taken whole. *)
PollRequest(x, w, c) ==
  LET s == x.wk[w].slot[c]
      data == s.acc \o s.pending
      read == [s EXCEPT !.pending = <<>>, !.acc = data]
  IN CASE Len(data) >= 2 -> [x EXCEPT !.wk[w].slot[c] = [read EXCEPT !.acc = SubSeq(data, 3, Len(data)), !.task = "busy"],
                                      !.so[s.sock].got = @ \o SubSeq(data, 1, 2)]
       [] Len(data) < 2 /\ (s.read # "Open" \/ s.lifecycle = "Closing") ->
            CloseSlot([x EXCEPT !.wk[w].slot[c] = [read EXCEPT !.task = "done"]], w, c)
       [] OTHER -> [x EXCEPT !.wk[w].slot[c] = [read EXCEPT !.task = "wait"]]

-----------------------------------------------------------------------------
(* The workers, the kernel and the peers. *)

State == [wk |-> wk, so |-> so, loads |-> loads]
Becomes(x) == wk' = x.wk /\ so' = x.so /\ loads' = x.loads /\ UNCHANGED <<psetup, accepting>>

At(w, stage) == wk[w].stage = stage
Cqe(x, w, q) == [x EXCEPT !.wk[w].cq = Append(@, q)]

(* The kernel carries out what is submitted, in order; ok, it has a        *)
(* descriptor to give.                                                     *)
Submit(x, w, ok) ==
  FoldLeft(LAMBDA y, e :
      LET recv == {k \in y.wk[w].kernel : k.c = e.c /\ k.gen = e.gen} IN
      CASE e.op = "recv" -> [y EXCEPT !.wk[w].kernel = @ \union
                                        {[c |-> e.c, gen |-> e.gen, sock |-> y.wk[w].file[e.c]]}]
        [] e.op = "cancel" -> IF recv = {} THEN y
                              ELSE Cqe([y EXCEPT !.wk[w].kernel = @ \ recv], w,
                                       [kind |-> "cancelled", c |-> e.c, gen |-> e.gen])
        [] e.op = "install" -> Cqe(y, w, [kind |-> "install", c |-> e.c, gen |-> e.gen, ok |-> ok])
        [] e.op = "close" -> Cqe([y EXCEPT !.wk[w].file[e.c] = 0], w, [kind |-> "close", c |-> e.c]),
    [x EXCEPT !.wk[w].sq = <<>>], x.wk[w].sq)

(* A multishot receive has data, or the end of the stream.  Data may come   *)
(* while the worker runs its tasks, and be in the queue when a cancel gets  *)
(* to the kernel.                                                           *)
KernelRecv(w, k, n) ==
  /\ At(w, "kernel") \/ At(w, "tasks")
  /\ so[k.sock].read + n <= so[k.sock].sent
  /\ Becomes(Cqe([State EXCEPT !.so[k.sock].read = @ + n], w,
                 [kind |-> "data", c |-> k.c, gen |-> k.gen,
                  units |-> [i \in 1 .. n |-> so[k.sock].read + i]]))
KernelEof(w, k) ==
  /\ At(w, "kernel") /\ so[k.sock].fin /\ so[k.sock].read = so[k.sock].sent
  /\ Becomes(Cqe([State EXCEPT !.wk[w].kernel = @ \ {k}], w, [kind |-> "eof", c |-> k.c, gen |-> k.gen]))
KernelSent(w, c) ==
  /\ At(w, "kernel") /\ wk[w].slot[c].sending /\ [kind |-> "sent", c |-> c] \notin ToSet(wk[w].cq)
  /\ Becomes(Cqe(State, w, [kind |-> "sent", c |-> c]))
KernelAccept(w, s) ==
  /\ At(w, "kernel") /\ ~so[s].born
  /\ Becomes(Cqe([State EXCEPT !.so[s].born = TRUE], w, [kind |-> "accept", sock |-> s]))
KernelEventfd(w) ==
  /\ At(w, "kernel") /\ wk[w].wake
  /\ Becomes(Cqe([State EXCEPT !.wk[w].wake = FALSE], w, [kind |-> "eventfd"]))
KernelTick(w) ==
  /\ At(w, "kernel") /\ wk[w].cq = <<>> /\ loads[w] # ActiveCount(State, w)
  /\ Becomes(Cqe(State, w, [kind |-> "tick"]))

(* submit_and_wait returns. *)
Woken(w) == At(w, "kernel") /\ Becomes([State EXCEPT !.wk[w].stage = "cqes"])

Completion(w) ==
  /\ At(w, "cqes") /\ wk[w].cq # <<>>
  /\ Becomes(DispatchPark([State EXCEPT !.wk[w].cq = Tail(@)], w, Head(wk[w].cq)))

Drained(w) ==
  /\ At(w, "cqes") /\ wk[w].cq = <<>>
  /\ Becomes([DrainParkReady(State, w) EXCEPT !.wk[w].stage = "tasks"])

(* A task is polled; after a reply it may offer its connection. *)
Poll(w, c, offer) ==
  /\ At(w, "tasks") /\ wk[w].slot[c].task \in {"ready", "sent"}
  /\ offer => wk[w].slot[c].task = "sent" /\ wk[w].slot[c].lifecycle = "Open"
  /\ Becomes(PollRequest(IF offer THEN OfferForPark(State, w, c) ELSE State, w, c))

(* What the task awaits besides its connection comes, and it replies. *)
Reply(w, c) ==
  /\ At(w, "tasks") /\ wk[w].slot[c].task = "busy"
  /\ Becomes([State EXCEPT !.wk[w].slot[c].task = IF wk[w].slot[c].lifecycle = "Open" THEN "send" ELSE "ready",
                           !.wk[w].slot[c].sending = wk[w].slot[c].lifecycle = "Open"])

(* The end of an iteration. *)
EndIteration(w, ok) ==
  /\ At(w, "tasks") /\ \A c \in ParkSlots : wk[w].slot[c].task \notin {"ready", "sent"}
  /\ ok \/ "install" \in psetup.faults
  /\ LET x == MaybeParkOne(DriveParkDrains(State, w), w)
         closed == FoldSet(LAMBDA c, y : FinalizeClose(y, w, c), x, ParkSlots)
     IN Becomes([Submit(closed, w, ok) EXCEPT !.wk[w].stage = "kernel"])

Request(s) ==
  /\ so[s].born /\ ~so[s].fin /\ so[s].sent < 2 * psetup.requests[s]
  /\ "pipeline" \in psetup.faults \/ so[s].sent = 2 * so[s].answered
  /\ Becomes([State EXCEPT !.so[s].sent = @ + 2])
PeerFin(s) ==
  /\ so[s].born /\ ~so[s].fin /\ "fin" \in psetup.faults
  /\ Becomes([State EXCEPT !.so[s].fin = TRUE])

(* ShutdownHandle::set_worker_accepting. *)
SetWorkerAccepting(w) ==
  /\ "closed" \in psetup.faults
  /\ accepting' = [accepting EXCEPT ![w] = ~@]
  /\ UNCHANGED <<psetup, wk, so, loads>>

ParkNext ==
  \/ \E s \in Socks : Request(s) \/ PeerFin(s) \/ \E w \in Workers : KernelAccept(w, s)
  \/ \E w \in Workers :
       \/ KernelEventfd(w) \/ KernelTick(w) \/ Woken(w) \/ Completion(w) \/ Drained(w) \/ SetWorkerAccepting(w)
       \/ \E k \in wk[w].kernel : KernelEof(w, k) \/ \E n \in 1 .. 2 : KernelRecv(w, k, n)
       \/ \E c \in ParkSlots : KernelSent(w, c) \/ Reply(w, c) \/ \E offer \in BOOLEAN : Poll(w, c, offer)
       \/ \E ok \in BOOLEAN : EndIteration(w, ok)

ParkSpec == InitPark /\ [][ParkNext]_parkVars

-----------------------------------------------------------------------------
(* Properties. *)

OpenSlots(s) == {<<w, c>> \in Workers \X ParkSlots : wk[w].slot[c].sock = s /\ wk[w].slot[c].lifecycle = "Open"}
Travelling(s) == {p \in UNION {ToSet(wk[w].ready) \union ToSet(wk[w].park_rx) : w \in Workers} : p.sock = s}
HandedOff(s) == {w \in Workers : s \in ToSet(wk[w].accept_rx) \/ [kind |-> "accept", sock |-> s] \in ToSet(wk[w].cq)}
Receiving(s) == {<<w, k>> \in UNION {{w} \X wk[w].kernel : w \in Workers} : k.sock = s}

UnitsOf(w, c) ==
  LET mine == SelectSeq(wk[w].cq, LAMBDA q : q.kind = "data" /\ q.c = c /\ q.gen = wk[w].gen[c])
  IN  wk[w].slot[c].acc \o wk[w].slot[c].pending \o FlattenSeq([i \in DOMAIN mine |-> mine[i].units])

(* A connection that moves stays whole: while its peer keeps it open it    *)
(* has exactly one owner (a slot, or a descriptor on its way), at most one *)
(* worker receives from its socket, no byte of it is lost or reordered,    *)
(* the state its handler left travels with it, and a request the handler   *)
(* has taken is being answered (withdraw_park_offer, park_blocker,         *)
(* handle_park_install, drain_park_ready).                                 *)
MovesWhole ==
  \A s \in Socks : so[s].born /\ ~so[s].fin /\ so[s].ends = 0 =>
    /\ Cardinality(OpenSlots(s)) + Cardinality(Travelling(s)) + Cardinality(HandedOff(s)) = 1
    /\ Cardinality(Receiving(s)) <= 1
    /\ \A wc \in OpenSlots(s) :
         /\ so[s].got \o UnitsOf(wc[1], wc[2]) = [i \in 1 .. so[s].read |-> i]
         /\ wk[wc[1]].slot[wc[2]].session = so[s].answered
         /\ Len(so[s].got) > 2 * so[s].answered => wk[wc[1]].slot[wc[2]].task \in {"busy", "send"}
    /\ \A p \in Travelling(s) :
         /\ so[s].got \o p.pending = [i \in 1 .. so[s].read |-> i]
         /\ p.session = so[s].answered /\ Len(so[s].got) = 2 * so[s].answered

(* Whoever stops a park owes the connection a receive: while a worker      *)
(* waits for completions, an open connection has its receive in the        *)
(* kernel, a completion to come, or a park under way, and no complete      *)
(* request lies unread; a connection that waits to leave waits for a full  *)
(* channel (abandon_park_drain, drive_park_drains, drain_park_ready).  Two *)
(* faults that no setup has are excepted: "install", since after a refused *)
(* descriptor abandon_park_drain finds no drain and arms nothing, and      *)
(* "pipeline", since an offer is not withdrawn by bytes already there.     *)
OwedAReceive ==
  \A w \in Workers : At(w, "kernel") =>
    /\ \A c \in ParkSlots : wk[w].slot[c].lifecycle = "Open" /\ wk[w].cq = <<>> =>
         /\ \/ \E k \in wk[w].kernel : k.c = c /\ k.gen = wk[w].gen[c]
            \/ wk[w].slot[c].drain # <<>> \/ wk[w].in_flight[c] # <<>>
         /\ wk[w].slot[c].task = "wait" => wk[w].slot[c].pending = <<>> /\ Len(wk[w].slot[c].acc) < 2

(* A move is whole or did not happen, and whoever has the connection in the  *)
(* end has its bytes coming (begin_park, withdraw_park_offer, adopt_parked). *)
MovesServed == MovesWhole /\ OwedAReceive
=============================================================================
