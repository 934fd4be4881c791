---------------------------------- MODULE Quic ----------------------------------
(***************************************************************************)
(* ringline-quic: QuicEndpoint, the wrapper that drives quinn-proto's          *)
(* connections, keeps them in a slab and turns what they report into the        *)
(* application's event queue and the queue of outgoing packets.                 *)
(*                                                                          *)
(* quinn-proto is external: a connection here has a phase, the events it has    *)
(* not handed over, and the number of packets it wants to transmit.             *)
(***************************************************************************)
EXTENDS Integers, Sequences, FiniteSets, SequencesExt, FiniteSetsExt

CONSTANTS
  send_queue_capacity, \* QuicConfig
  MaxTransmits,        \* bound: packets a connection has waiting to be sent
  QuicSetups           \* the runs: how many connections are made (lives), stream reports a
                       \* connection gets (reports), nested batches (depth)

VARIABLES
  quicRun, \* the element of QuicSetups
  ep,      \* the endpoint: connections (a slab), handle_map, send_queue, batch_depth, and the
           \* events queued for the application, by key: it knows a connection by nothing else,
           \* and polls them in this order; ghost: whose event each is
  quinn    \* per life: what quinn-proto holds of it

quicVars == <<quicRun, ep, quinn>>

Born == [phase |-> "handshake", events |-> <<>>, tx |-> 0, unsent |-> 0, reports |-> 0, addr |-> 0,
         atOnce |-> FALSE]
NoConn == [life |-> 0]

Lives == quicRun.lives

QuicInit ==
  /\ quicRun \in QuicSetups
  /\ ep = [connections |-> <<>>, handle_map |-> [h \in 1 .. Lives |-> 0],
           events |-> [key \in 1 .. Lives |-> <<>>], send_queue |-> <<>>, batch_depth |-> 0]
  /\ quinn = <<>>

(* ------------------------------ the slab --------------------------------- *)

Keys(e) == {k \in DOMAIN e.connections : e.connections[k] # NoConn}

(* Slab::insert: a vacant key before a new one. *)
VacantKey(e) ==
  LET vacant == DOMAIN e.connections \ Keys(e)
  IN  IF vacant = {} THEN Len(e.connections) + 1 ELSE Max(vacant)

(* quinn's own slab of connections: a handle is free again once its connection is drained, *)
(* whether the endpoint has let go of it or not.                                            *)
Handles(e) == {e.connections[k].handle : k \in {j \in Keys(e) : quinn[e.connections[j].life].phase # "drained"}}
FreeHandle(e) == Min(1 .. Lives \ Handles(e))

InsertConnection(e, life, outbound, zeroRtt) ==
  LET key  == VacantKey(e)
      conn == [life |-> life, handle |-> FreeHandle(e), outbound |-> outbound, zero_rtt |-> zeroRtt,
               cached_remote |-> 0, close_event_emitted |-> FALSE]
  IN  [e EXCEPT !.connections = IF key > Len(@) THEN Append(@, conn) ELSE [@ EXCEPT ![key] = conn],
                !.handle_map[conn.handle] = key]

RemoveConnectionKeepsHandle(e, key) == [e EXCEPT !.connections[key] = NoConn]

RemoveConnection(e, key) ==
  [e EXCEPT !.connections[key] = NoConn, !.handle_map[e.connections[key].handle] = 0]

Tell(e, key, types) ==
  [e EXCEPT !.events[key] = @ \o [i \in DOMAIN types |-> [life |-> e.connections[key].life, type |-> types[i]]]]

(* ------------------------------ transmitting ----------------------------- *)

(* queue_packet: false, and the packet is gone, when the queue is full. *)
QueuePacket(e, packet) ==
  IF Len(e.send_queue) >= send_queue_capacity THEN e ELSE [e EXCEPT !.send_queue = Append(@, packet)]

MinOf(a, b) == IF a < b THEN a ELSE b


DrainTransmits(e, q, key) ==
  LET life == e.connections[key].life
      room == send_queue_capacity - Len(e.send_queue)
      n    == IF e.batch_depth > 0 THEN 0 ELSE MinOf(q[life].tx, room)
  IN  <<[e EXCEPT !.send_queue = @ \o [i \in 1 .. n |-> life]], [q EXCEPT ![life].tx = @ - n]>>

FlushKeys(e, q, keys) ==
  FoldLeft(LAMBDA x, k : DrainTransmits(x[1], x[2], k), <<e, q>>, SetToSortSeq(keys, <))

(* ------------------------------ poll_connection -------------------------- *)

(* One of quinn's events as the application sees it. *)
Surfaced(c, event) ==
  CASE event = "connected" ->
         IF ~c.outbound THEN <<"new_connection">>
         ELSE IF c.zero_rtt THEN <<"connected", "zero_rtt_rejected">> ELSE <<"connected">>
    [] event = "opened" -> <<"stream_opened", "stream_readable">>
    [] OTHER -> <<event>>

(* ConnectionLost: emitted once, and nothing after it is looked at. *)
LostFirst(events) == SelectInSeq(events, LAMBDA x : x = "lost")

LostAgain(e, key) == [Tell(e, key, <<"closed">>) EXCEPT !.connections[key].close_event_emitted = TRUE]

Lost(e, key) ==
  IF e.connections[key].close_event_emitted THEN e
  ELSE [Tell(e, key, <<"closed">>) EXCEPT !.connections[key].close_event_emitted = TRUE]

SurfaceAll(e, key, events) ==
  Tell(e, key, FlattenSeq([i \in DOMAIN events |-> Surfaced(e.connections[key], events[i])]))

Migrated(e, q, key) ==
  LET addr == q[e.connections[key].life].addr
  IN  IF addr = e.connections[key].cached_remote THEN e
      ELSE [Tell(e, key, <<"peer_address_changed">>) EXCEPT !.connections[key].cached_remote = addr]

Reaped(e, q, key) == IF q[e.connections[key].life].phase = "drained" THEN RemoveConnection(e, key) ELSE e

PollConnection(e0, q0, key) ==
  LET d1   == DrainTransmits(e0, q0, key)
      life == e0.connections[key].life
      evs  == d1[2][life].events
      lost == LostFirst(evs)
      q1   == [d1[2] EXCEPT ![life].events = IF lost = 0 THEN <<>> ELSE SubSeq(evs, lost + 1, Len(evs))]
      d2   == DrainTransmits(SurfaceAll(d1[1], key, evs), q1, key)
  IN
  IF lost # 0 THEN <<Lost(SurfaceAll(d1[1], key, SubSeq(evs, 1, lost - 1)), key), q1>>
  ELSE <<Reaped(Migrated(d2[1], d2[2], key), d2[2], key), d2[2]>>

Does(r) == ep' = r[1] /\ quinn' = r[2] /\ UNCHANGED quicRun

(* ------------------------------ the calls -------------------------------- *)

Live(e, key) == key \in Keys(e) /\ ~e.connections[key].close_event_emitted

LifeOf(key) == ep.connections[key].life

(* quinn has n more packets to send on a connection that is not drained. *)
Wants(q, life, n) == [q EXCEPT ![life].tx = @ + n, ![life].unsent = @ + n]
MaySend(life, n) == quinn[life].unsent + n <= MaxTransmits

Connect(zeroRtt) ==
  LET e == InsertConnection(ep, Len(quinn) + 1, TRUE, zeroRtt)
  IN
  /\ Len(quinn) < Lives
  /\ Does(DrainTransmits(e, Append(quinn, [Born EXCEPT !.tx = 1, !.unsent = 1]), e.handle_map[FreeHandle(ep)]))

(* handle_datagram: a first packet, accepted. *)
AcceptDatagram ==
  LET e   == InsertConnection(ep, Len(quinn) + 1, FALSE, FALSE)
      key == e.handle_map[FreeHandle(ep)]
      d   == DrainTransmits(e, Append(quinn, [Born EXCEPT !.tx = 1, !.unsent = 1]), key)
  IN
  /\ Len(quinn) < Lives
  /\ Does(PollConnection(d[1], d[2], key))

(* handle_datagram: refused, or answered without a connection: the packet may be dropped. *)
StatelessDatagram ==
  /\ ep.send_queue = <<>>
  /\ ep' = QueuePacket(ep, 0)
  /\ UNCHANGED <<quicRun, quinn>>

(* An idle timeout or a stateless reset: quinn drops the connection and what it had to send, *)
(* and it is drained at once.                                                                *)
Killed(q) ==
  [q EXCEPT !.phase = "drained", !.atOnce = TRUE, !.tx = 0, !.unsent = @ - q.tx, !.events = Append(@, "lost")]

(* What a datagram makes quinn do with a connection. *)
Reactions(life) ==
  LET q == quinn[life]
  IN  CASE q.phase = "handshake" -> {[q EXCEPT !.phase = "open", !.events = Append(@, "connected")],
                                     [q EXCEPT !.phase = "draining", !.events = Append(@, "lost")]}
        [] q.phase = "open" -> {[q EXCEPT !.reports = @ + 1, !.events = @ \o <<x>>] :
                                  x \in IF q.reports < quicRun.reports THEN {"opened", "stream_writable"} ELSE {}}
                               \union (IF q.addr = 1 THEN {} ELSE {[q EXCEPT !.addr = 1]})
                               \union {[q EXCEPT !.phase = "draining", !.events = @ \o <<"stream_stopped", "lost">>],
                                       Killed(q)}
        [] q.phase = "closed" -> {q, [q EXCEPT !.phase = "draining", !.events = Append(@, "lost")], Killed(q)}
        [] OTHER -> {q, Killed(q)}

HandleDatagram(h, next) ==
  LET key  == ep.handle_map[h]
      life == LifeOf(key)
  IN
  /\ key # 0 /\ quinn[life].phase # "drained"
  /\ next \in Reactions(life)
  /\ Does(PollConnection(ep, [quinn EXCEPT ![life] = next], key))

(* handle_timeout: a connection whose drain timer fires is drained; before that, a lost    *)
(* packet is resent, or the connection was idle for too long.                              *)
Expired(life) ==
  IF quinn[life].phase \in {"draining", "closed"} THEN {[quinn EXCEPT ![life].phase = "drained"]}
  ELSE {[quinn EXCEPT ![life] = Killed(@)]} \union (IF MaySend(life, 1) THEN {Wants(quinn, life, 1)} ELSE {})

(* drive_timers; quinn stops the timers of a drained connection. *)
DriveTimers(key, next) ==
  LET d == DrainTransmits(ep, next, key)
  IN
  /\ key \in Keys(ep) /\ quinn[LifeOf(key)].phase # "drained"
  /\ next \in Expired(LifeOf(key))
  /\ Does(PollConnection(d[1], d[2], key))

(* stream_finish, stop_sending, reset_stream, a read that opens the window: a packet is due  *)
(* and drained at once; stream_send and open_bi leave it with quinn.                         *)
StreamOp(key, drains) ==
  LET q == Wants(quinn, LifeOf(key), 1)
  IN
  /\ Live(ep, key) /\ quinn[LifeOf(key)].phase = "open" /\ MaySend(LifeOf(key), 1)
  /\ Does(IF drains THEN DrainTransmits(ep, q, key) ELSE <<ep, q>>)

StreamSend(key) == StreamOp(key, FALSE)
SendDatagram(key) == StreamOp(key, TRUE)

CloseConnection(key) ==
  LET life == LifeOf(key)
      d    == DrainTransmits(ep, Wants([quinn EXCEPT ![life].phase = "closed"], life, 1), key)
  IN
  /\ Live(ep, key) /\ MaySend(life, 1)
  /\ Does(<<Lost(d[1], key), d[2]>>)

FlushAll ==
  /\ Does(FlushKeys(ep, quinn, Keys(ep)))

Batch ==
  /\ ep.batch_depth < quicRun.depth
  /\ ep' = [ep EXCEPT !.batch_depth = @ + 1]
  /\ UNCHANGED <<quicRun, quinn>>

(* Drop for BatchGuard: the outermost one flushes. *)
DropBatch ==
  LET e == [ep EXCEPT !.batch_depth = @ - 1]
  IN
  /\ ep.batch_depth > 0
  /\ Does(IF e.batch_depth = 0 THEN FlushKeys(e, quinn, Keys(e)) ELSE <<e, quinn>>)

PollSend ==
  LET life == Head(ep.send_queue)
  IN
  /\ ep.send_queue # <<>>
  /\ ep' = [ep EXCEPT !.send_queue = Tail(@)]
  /\ UNCHANGED quicRun
  /\ quinn' = IF life = 0 THEN quinn ELSE [quinn EXCEPT ![life].unsent = @ - 1]

QuicNext ==
  \/ \E zeroRtt \in BOOLEAN : Connect(zeroRtt)
  \/ AcceptDatagram
  \/ StatelessDatagram
  \/ \E h \in 1 .. Lives : ep.handle_map[h] # 0 /\
       \E next \in Reactions(LifeOf(ep.handle_map[h])) : HandleDatagram(h, next)
  \/ \E key \in Keys(ep) : \/ \E next \in Expired(LifeOf(key)) : DriveTimers(key, next)
                           \/ StreamSend(key)
                           \/ SendDatagram(key)
                           \/ CloseConnection(key)
  \/ FlushAll
  \/ Batch
  \/ DropBatch
  \/ PollSend

(* ------------------------------ properties ------------------------------- *)

(* A connection is announced before anything else is said of it, its closing is said once  *)
(* and is the last word, whether it was closed locally, by the peer or both at once; and    *)
(* under a key that is used again nothing is said of the second connection before the       *)
(* closing of the first, and nothing of the first after it (poll_connection, QuicConnId).   *)
ClosedOnceAndLast ==
  \A key \in 1 .. Lives : LET evs == ep.events[key] IN
    \A i \in DOMAIN evs :
      /\ i < Len(evs) => (evs[i].type = "closed" <=> evs[i + 1].life # evs[i].life)
      /\ i = 1 \/ evs[i - 1].type = "closed" => evs[i].type \in {"connected", "new_connection", "closed"}

(* A datagram is handed to the connection it is for: handle_map names the connection that   *)
(* has the handle, and a connection leaves the slab only when quinn has drained it and after *)
(* its closing was said.  The exception is a connection that quinn drains at once (an idle   *)
(* timeout, a stateless reset): poll_connection returns after its ConnectionLost             *)
(* (endpoint.rs:926), before the reaping, and nothing polls it again, so it stays in the     *)
(* slab, while quinn gives its handle to the next one, which takes its place in handle_map.  *)
HandlesAgree ==
  /\ \A key \in Keys(ep) : LET c == ep.connections[key] IN
       IF quinn[c.life].phase = "drained" THEN quinn[c.life].atOnce ELSE ep.handle_map[c.handle] = key
  /\ \A h \in 1 .. Lives : ep.handle_map[h] # 0 =>
       ep.handle_map[h] \in Keys(ep) /\ ep.connections[ep.handle_map[h]].handle = h
  /\ \A life \in DOMAIN quinn :
       (\A key \in Keys(ep) : ep.connections[key].life # life) =>
         /\ quinn[life].phase = "drained" /\ ~quinn[life].atOnce
         /\ \E key \in 1 .. Lives : Contains(ep.events[key], [life |-> life, type |-> "closed"])

InQueue(life) == Cardinality({i \in DOMAIN ep.send_queue : ep.send_queue[i] = life})

(* A packet quinn produced for a connection is sent or still queued, however full the send   *)
(* queue was: what is pulled from quinn is never dropped (drain_transmits), so quinn's own    *)
(* account of what is in flight stays right.                                                 *)
NoPacketDropped ==
  /\ Len(ep.send_queue) <= send_queue_capacity
  /\ \A life \in DOMAIN quinn : quinn[life].unsent = quinn[life].tx + InQueue(life)

=============================================================================
