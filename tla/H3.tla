----------------------------------- MODULE H3 -----------------------------------
(***************************************************************************)
(* ringline-h3: H3Connection, in either role, over one QUIC connection whose *)
(* peer sends the messages of the setup.                                       *)
(*                                                                          *)
(* A stream's bytes are units.  One unit is one whole frame, except that the *)
(* frame "d1" is complete only with the "d2" after it.  QUIC delivers a       *)
(* stream's units in order, any number at a time, and its FIN with the last   *)
(* one or later; a write takes what the stream's window has room for, and     *)
(* StreamWritable follows when a full window opens.                           *)
(***************************************************************************)
EXTENDS Integers, Sequences, FiniteSets, SequencesExt

CONSTANTS
  H3Setups,      \* [role, faults, window, requests, inbound]: the situations looked at;
                 \* inbound, the messages the peer sends on a request stream
  ControlFrames, \* what the peer sends on its control stream after the type
  MAX_PENDING,   \* set_max_pending_bytes
  MaxWrites,     \* bound: writes the application makes on a stream
  MaxEvents      \* bound: events queued before the connection handles some

VARIABLES
  h3setup,   \* the chosen situation
  h3,        \* the H3Connection
  chan,      \* per stream, what QUIC holds of it
  quicEvents,\* QuicEndpoint's event queue, fed to handle_quic_event
  h3log      \* per stream: the events the application polled, the units it handed over, and
             \* how many of those had been when queued ones were dropped (cut)

h3Vars == <<h3setup, h3, chan, quicEvents, h3log>>

Control == 0        \* our control stream
PeerControl == 100  \* the peer's, and another unidirectional stream of theirs
PeerUni == 101
Requests == 1 .. h3setup.requests
NoH3Streams == [x \in {} |-> 0]

Chan(window, message) ==
  [window |-> window, sent |-> <<>>, finSent |-> FALSE, stopped |-> FALSE,
   message |-> message, arrived |-> 0, read |-> 0, fin |-> FALSE, finRead |-> FALSE, reset |-> FALSE]

LogEntry == [events |-> <<>>, offered |-> 0, writes |-> 0, cut |-> 0]

NewH3(role) ==
  [role |-> role, state |-> "Initializing", remote |-> FALSE, peerCtrl |-> FALSE, uni |-> {},
   settings_sent |-> FALSE, streams |-> NoH3Streams, pending |-> NoH3Streams]

H3Init ==
  \E s \in H3Setups :
    /\ h3setup = s
    /\ h3 = NewH3(s.role)
    /\ chan = NoH3Streams
    /\ quicEvents = <<[type |-> "connected"]>> \o
         (IF "zero_rtt" \in s.faults THEN <<[type |-> "zero_rtt_rejected"]>> ELSE <<>>)
    /\ h3log = NoH3Streams

(* ------------------------------ events and errors ------------------------ *)

(* A step works on w: the connection, the channels, the log and the event queue. *)
World == [h |-> h3, c |-> chan, log |-> h3log, q |-> quicEvents]

Becomes(w) == h3' = w.h /\ chan' = w.c /\ h3log' = w.log /\ quicEvents' = w.q

Enqueue(w, id, kind, end) == [w EXCEPT !.log[id].events = Append(@, <<kind, end>>)]

Note(w, kind) == Enqueue(w, Control, kind, FALSE)

Drop1(f, keys) == [k \in DOMAIN f \ keys |-> f[k]]

With(f, k, v) == [x \in DOMAIN f \union {k} |-> IF x = k THEN v ELSE f[x]]

(* What is queued for the streams is dropped. *)
DropPending(w, ids) ==
  [w EXCEPT !.h.pending = Drop1(@, ids),
            !.log = [id \in DOMAIN @ |->
                       IF id \in ids \intersect DOMAIN w.h.pending THEN [@[id] EXCEPT !.cut = w.log[id].offered] ELSE @[id]]]

(* The endpoint refuses a connection whose ConnectionClosed it has emitted. *)
Dead(w) == w.h.state = "Closed" \/ \E i \in DOMAIN w.q : w.q[i].type = "closed"

(* fatal_error: close the QUIC connection with the code, and say so. *)
FatalError3(w) ==
  Note([w EXCEPT !.h.state = "Closed",
                 !.q = IF w.h.state = "Closed" THEN @ ELSE Append(@, [type |-> "closed"])], "fatal")

(* ------------------------------ sending ---------------------------------- *)

PendingUnits(h) == FoldSet(LAMBDA id, n : n + Len(h.pending[id].queue), 0, DOMAIN h.pending)

(* stream_send_chunks: what the window has room for is accepted. *)
Written(c, queue) ==
  LET n == IF Len(queue) < c.window THEN Len(queue) ELSE c.window
  IN  [chan |-> [c EXCEPT !.window = @ - n, !.sent = @ \o SubSeq(queue, 1, n)],
       rest |-> SubSeq(queue, n + 1, Len(queue))]

FinalizeLocalCloseKeeps(h, id) ==
  IF id \notin DOMAIN h.streams THEN h ELSE [h EXCEPT !.streams[id].state = "HalfClosedLocal"]

FinalizeLocalClose(h, id) ==
  CASE id \notin DOMAIN h.streams -> h
    [] h.streams[id].state \in {"HalfClosedRemote", "Closed"} -> [h EXCEPT !.streams = Drop1(@, {id})]
    [] OTHER -> [h EXCEPT !.streams[id].state = "HalfClosedLocal"]

FinalizeRemoteClose(h, id) ==
  CASE id \notin DOMAIN h.streams -> h
    [] h.streams[id].state \in {"HalfClosedLocal", "Closed"} -> [h EXCEPT !.streams = Drop1(@, {id})]
    [] OTHER -> [h EXCEPT !.streams[id].state = "HalfClosedRemote"]

Queued(queue, fin) == [queue |-> queue, fin |-> fin]

QueueOf3(w, id) == IF id \in DOMAIN w.h.pending THEN w.h.pending[id].queue ELSE <<>>

(* queue_send: refuse what might exceed the cap; keep behind what is queued; write what    *)
(* fits and queue the rest; FIN now, or when the queue has drained.                         *)
CanQueue(w, id, n) ==
  /\ PendingUnits(w.h) + n <= MAX_PENDING
  /\ id \in DOMAIN w.h.pending \/ ~(w.c[id].stopped \/ Dead(w))

QueueSendRaces(w0, id, n, fin) ==
  LET units == [i \in 1 .. n |-> w0.log[id].offered + i]
      wr    == Written(w0.c[id], units)
  IN  [w0 EXCEPT !.log[id].offered = @ + n, !.c[id] = wr.chan,
                 !.h.pending = IF wr.rest = <<>> THEN @ ELSE With(@, id, Queued(QueueOf3(w0, id) \o wr.rest, fin))]

QueueSend(w0, id, n, fin) ==
  LET units == [i \in 1 .. n |-> w0.log[id].offered + i]
      w     == [w0 EXCEPT !.log[id].offered = @ + n]
      wr    == Written(w.c[id], units)
  IN
  IF id \in DOMAIN w.h.pending
  THEN [w EXCEPT !.h.pending[id] = Queued(@.queue \o units, @.fin \/ fin)]
  ELSE IF wr.rest # <<>>
       THEN [w EXCEPT !.c[id] = wr.chan, !.h.pending = With(@, id, Queued(wr.rest, fin))]
       ELSE [w EXCEPT !.c[id] = [wr.chan EXCEPT !.finSent = fin],
                      !.h = IF fin THEN FinalizeLocalClose(@, id) ELSE @]

(* drain_pending_stream, on StreamWritable. *)
DrainPendingStream(w, id) ==
  LET p  == w.h.pending[id]
      wr == Written(w.c[id], p.queue)
      h1 == [w.h EXCEPT !.pending = Drop1(@, {id}), !.settings_sent = @ \/ id = Control]
  IN
  CASE id \notin DOMAIN w.h.pending -> w
    [] w.c[id].stopped \/ Dead(w) -> Note(DropPending(w, {id}), "error")
    [] wr.rest # <<>> -> [w EXCEPT !.c[id] = wr.chan, !.h.pending[id].queue = wr.rest]
    [] OTHER -> [w EXCEPT !.c[id] = [wr.chan EXCEPT !.finSent = p.fin],
                          !.h = IF p.fin THEN FinalizeLocalClose(h1, id) ELSE h1]

(* accept and initiate: open our control stream and send SETTINGS. *)
Initiate(w) ==
  LET w1 == QueueSend([w EXCEPT !.c = With(@, Control, Chan(h3setup.window, <<>>)),
                                !.log = With(@, Control, LogEntry)], Control, 1, FALSE)
  IN  [w1 EXCEPT !.h.settings_sent = Control \notin DOMAIN w1.h.pending]

(* ------------------------------ request streams -------------------------- *)

RequestStream(client) ==
  [state |-> "WaitingHeaders", buf |-> <<>>, client |-> client, init |-> FALSE, trailed |-> FALSE]

Aborted(w) == [w |-> FatalError3(w), aborted |-> TRUE]
Going(w) == [w |-> w, aborted |-> FALSE]

(* HEADERS: initial or, once those were seen, trailers, which must be the end. *)
OnHeaders3(w, id, unit, atEnd) ==
  LET rs == w.h.streams[id]
      h1 == [w.h EXCEPT !.streams[id].init = TRUE]
      h2 == IF atEnd THEN FinalizeRemoteClose(h1, id)
            ELSE IF rs.state = "WaitingHeaders" THEN [h1 EXCEPT !.streams[id].state = "Open"] ELSE h1
  IN
  CASE rs.trailed \/ unit = "hbad" -> Aborted(w)
    [] rs.init /\ ~atEnd -> Aborted(w)
    [] rs.init -> Going(Enqueue([w EXCEPT !.h = FinalizeRemoteClose([@ EXCEPT !.streams[id].trailed = TRUE], id)],
                             id, "trailers", TRUE))
    [] OTHER -> Going(Enqueue([w EXCEPT !.h = h2], id, "headers", atEnd))

OnData3(w, id, atEnd) ==
  LET rs == w.h.streams[id]
  IN  IF ~rs.init \/ rs.trailed THEN Aborted(w)
      ELSE Going(Enqueue(IF atEnd THEN [w EXCEPT !.h = FinalizeRemoteClose(@, id)] ELSE w, id, "data", atEnd))

Complete3(buf) == buf # <<>> /\ (buf[1] = "d1" => Len(buf) > 1)
FrameLen(buf) == IF buf[1] = "d1" THEN 2 ELSE 1

OnFrame3(w, id, unit, atEnd) ==
  CASE unit \in {"h", "hbad", "t"} -> OnHeaders3(w, id, unit, atEnd)
    [] unit \in {"d", "d1"} -> OnData3(w, id, atEnd)
    [] unit = "unknown" -> Going(w)
    [] OTHER -> Aborted(w)     \* SETTINGS, GOAWAY, a reserved type, an oversized or malformed frame

(* process_request_frames: frame after frame while the stream is tracked, then the FIN. *)
RECURSIVE Frames3(_, _, _, _)
Frames3(r, id, buf, fin) ==
  IF r.aborted \/ ~Complete3(buf) \/ id \notin DOMAIN r.w.h.streams THEN [r EXCEPT !.w.rest = buf]
  ELSE LET rest == SubSeq(buf, FrameLen(buf) + 1, Len(buf))
       IN  Frames3(OnFrame3(r.w, id, buf[1], fin /\ rest = <<>>), id, rest, fin)

EmptyFin(w, id) == id \in DOMAIN w.h.streams /\ w.h.streams[id].state = "Open"

AtFin(w, id) ==
  LET w1 == [w EXCEPT !.h = FinalizeRemoteClose(@, id)]
  IN  IF EmptyFin(w, id) THEN Enqueue(w1, id, "fin", TRUE) ELSE w1

ProcessRequestFramesNoTail(w, id, fin) ==
  LET r == Frames3(Going([rest |-> <<>>] @@ [w EXCEPT !.h.streams[id].buf = <<>>]), id, w.h.streams[id].buf, fin)
      w1 == [k \in DOMAIN w |-> r.w[k]]
  IN  IF ~r.aborted /\ fin THEN AtFin(w1, id) ELSE w1

ProcessRequestFrames(w, id, fin) ==
  LET buf == w.h.streams[id].buf
      r   == Frames3(Going([rest |-> <<>>] @@ [w EXCEPT !.h.streams[id].buf = <<>>]), id, buf, fin)
      w1  == [k \in DOMAIN w |-> r.w[k]]
      w2  == IF ~r.aborted /\ fin /\ r.w.rest = <<>> THEN AtFin(w1, id) ELSE w1
  IN  IF ~r.aborted /\ id \in DOMAIN w2.h.streams THEN [w2 EXCEPT !.h.streams[id].buf = r.w.rest] ELSE w2

CleanupRequestStream(w, id) ==
  Enqueue([DropPending(w, {id}) EXCEPT !.h.streams = Drop1(@, {id})], id, "reset", TRUE)

(* stream_recv_into: everything that has arrived, and the FIN if it has. *)
Unread(c) == SubSeq(c.message, c.read + 1, c.arrived)
ReadAll(c) == [c EXCEPT !.read = c.arrived, !.finRead = c.fin]

ReadRequestStream(w, id) ==
  LET c == w.c[id]
  IN
  CASE id \notin DOMAIN w.h.streams \/ Dead(w) -> w
    [] c.reset -> CleanupRequestStream(w, id)
    [] OTHER -> ProcessRequestFrames([w EXCEPT !.c[id] = ReadAll(c), !.h.streams[id].buf = @ \o Unread(c)], id, c.fin)

(* ------------------------------ the control stream ----------------------- *)

OnControlFrame(w, f) ==
  CASE ~w.h.remote /\ f # "settings" -> FatalError3(w)
    [] f = "settings" /\ w.h.remote -> FatalError3(w)
    [] f = "settings" -> [w EXCEPT !.h.remote = TRUE,
                                   !.h.state = IF @ = "Initializing" /\ w.h.settings_sent THEN "Ready" ELSE @]
    [] f = "goaway" -> Note([w EXCEPT !.h.state = "Closing"], "goaway")
    [] f = "unknown" -> w
    [] OTHER -> FatalError3(w)

(* The first error ends it: fatal_error returns from process_control_frames. *)
ProcessControlFrames(w, frames) ==
  FoldLeft(LAMBDA x, f : IF x.h.state = "Closed" THEN x ELSE OnControlFrame(x, f), w, frames)

ReadControlStream(w, id) ==
  LET c  == w.c[id]
      w1 == [w EXCEPT !.c[id] = ReadAll(c)]
  IN  IF Dead(w) THEN w ELSE IF c.fin THEN FatalError3(w1) ELSE ProcessControlFrames(w1, Unread(c))

(* identify_uni_stream: the type varint first, which may arrive in two pieces. *)
IdentifyUniStream(w, id) ==
  LET c     == w.c[id]
      type  == SubSeq(c.message, 1, c.arrived)
      typed == [w EXCEPT !.h.uni = @ \ {id}, !.c[id].read = 2]
  IN
  CASE Dead(w) -> w
    [] Len(type) < 2 -> [w EXCEPT !.h.uni = @ \union {id}]
    [] type[2] # "control" -> [w EXCEPT !.h.uni = @ \ {id}, !.c[id] = ReadAll(c)]
    [] w.h.peerCtrl -> FatalError3(typed)
    [] OTHER -> ReadControlStream([typed EXCEPT !.h.peerCtrl = TRUE], id)

HandleStreamReadable(w, id) ==
  CASE id \in w.h.uni -> IdentifyUniStream(w, id)
    [] id = PeerControl /\ w.h.peerCtrl -> ReadControlStream(w, id)
    [] OTHER -> ReadRequestStream(w, id)

(* ------------------------------ handle_quic_event ------------------------ *)

StreamOpened(w, id) ==
  CASE id >= PeerControl -> IdentifyUniStream(w, id)
    [] w.h.role = "client" -> FatalError3(w)
    [] OTHER -> ReadRequestStream([w EXCEPT !.h.streams = With(@, id, RequestStream(FALSE))], id)

OnQuicEvent(w, e) ==
  CASE e.type = "connected" -> Initiate(w)
    [] e.type = "opened" -> StreamOpened(w, e.id)
    [] e.type = "readable" -> HandleStreamReadable(w, e.id)
    [] e.type = "writable" -> DrainPendingStream(w, e.id)
    [] e.type = "stopped" -> CleanupRequestStream(w, e.id)
    [] e.type = "zero_rtt_rejected" ->
         Note([DropPending(w, DOMAIN w.h.pending) EXCEPT !.h.streams = NoH3Streams], "zero_rtt_rejected")
    [] OTHER -> Note([DropPending(w, DOMAIN w.h.pending) EXCEPT !.h.state = "Closed", !.h.streams = NoH3Streams,
                                                                !.h.uni = {}], "goaway")

HandleQuicEvent ==
  /\ quicEvents # <<>>
  /\ Becomes(OnQuicEvent([World EXCEPT !.q = Tail(@)], Head(quicEvents)))
  /\ UNCHANGED h3setup

(* ------------------------------ the application -------------------------- *)

MayWrite(id) == Control \in DOMAIN chan /\ h3log[id].writes < MaxWrites

(* send_request: the stream is registered before queue_send may refuse. *)
SendRequest3(id, message, fin) ==
  LET rs == [RequestStream(TRUE) EXCEPT !.state = IF fin THEN "HalfClosedLocal" ELSE "Open"]
      w  == [World EXCEPT !.c = With(@, id, Chan(h3setup.window, message)),
                          !.log = With(@, id, [LogEntry EXCEPT !.writes = IF fin THEN MaxWrites ELSE 1]),
                          !.h.streams = With(@, id, rs)]
  IN
  /\ h3.role = "client" /\ id \notin DOMAIN chan /\ \A k \in 1 .. id - 1 : k \in DOMAIN chan
  /\ Control \in DOMAIN chan /\ h3.state \notin {"Closing", "Closed"}
  /\ Becomes(IF CanQueue(w, id, 1) THEN QueueSend(w, id, 1, fin) ELSE w)
  /\ UNCHANGED h3setup

(* send_response, send_data and send_trailers, on a stream whose end the application has  *)
(* not handed over; a server knows a stream from its request.  Whether the stream is still *)
(* tracked is not asked.                                                                   *)
WriteFrame(id, n, fin) ==
  LET w == [World EXCEPT !.log[id].writes = IF fin THEN MaxWrites ELSE @ + 1]
  IN
  /\ id \in DOMAIN chan /\ MayWrite(id)
  /\ h3.role = "server" => Contains(h3log[id].events, <<"headers", TRUE>>) \/ Contains(h3log[id].events, <<"headers", FALSE>>)
  /\ CanQueue(w, id, n)
  /\ Becomes(QueueSend(w, id, n, fin))
  /\ UNCHANGED h3setup

SendGoaway3 ==
  /\ "goaway" \in h3setup.faults /\ MayWrite(Control) /\ CanQueue(World, Control, 1)
  /\ Becomes(LET w == QueueSend(World, Control, 1, FALSE)
             IN  [w EXCEPT !.h.state = "Closing", !.log[Control].writes = MaxWrites])
  /\ UNCHANGED h3setup

(* ------------------------------ QUIC and the peer ------------------------ *)

Happens(c, events) ==
  /\ Len(quicEvents) < MaxEvents
  /\ chan' = c
  /\ quicEvents' = quicEvents \o events
  /\ UNCHANGED <<h3setup, h3, h3log>>

H3Event(type, id) == [type |-> type, id |-> id]

OpenedStream(id) == <<H3Event("opened", id), H3Event("readable", id)>>

(* A client opens its request stream; the peer opens its unidirectional streams. *)
PeerOpens(id, message, n) ==
  /\ Control \in DOMAIN chan /\ h3.state # "Closed" /\ id \notin DOMAIN chan
  /\ \A k \in 1 .. id - 1 : id \in Requests => k \in DOMAIN chan
  /\ n <= Len(message) /\ Len(quicEvents) < MaxEvents
  /\ chan' = With(chan, id, [Chan(h3setup.window, message) EXCEPT !.arrived = n])
  /\ h3log' = With(h3log, id, LogEntry)
  /\ quicEvents' = quicEvents \o OpenedStream(id)
  /\ UNCHANGED <<h3setup, h3>>

(* More of a stream arrives, the FIN with its last unit or by itself.  The peer answers a *)
(* request once it has some of it.                                                        *)
Arrives(id, n, fin) ==
  LET c == chan[id]
  IN
  /\ h3.state # "Closed" /\ ~c.fin /\ ~c.reset /\ c.arrived + n <= Len(c.message)
  /\ n > 0 \/ fin
  /\ id \in Requests /\ h3.role = "client" => c.sent # <<>>
  /\ fin => c.arrived + n = Len(c.message) /\ id \in Requests
  /\ Happens([chan EXCEPT ![id].arrived = @ + n, ![id].fin = fin], <<H3Event("readable", id)>>)

PeerResets(id) ==
  /\ "reset" \in h3setup.faults /\ h3.state # "Closed"
  /\ id \in Requests /\ ~chan[id].reset /\ ~chan[id].finRead
  /\ Happens([chan EXCEPT ![id].reset = TRUE], <<H3Event("readable", id)>>)

PeerStops(id) ==
  /\ "stop" \in h3setup.faults /\ h3.state # "Closed"
  /\ id \in Requests /\ ~chan[id].stopped /\ ~chan[id].finSent
  /\ Happens([chan EXCEPT ![id].stopped = TRUE], <<H3Event("stopped", id)>>)

WindowOpens(id) ==
  /\ h3.state # "Closed" /\ chan[id].window = 0 /\ ~chan[id].finSent
  /\ id = Control => id \in DOMAIN h3.pending
  /\ Happens([chan EXCEPT ![id].window = 1], <<H3Event("writable", id)>>)

ConnectionLost ==
  /\ "lost" \in h3setup.faults /\ h3.state # "Closed" /\ Control \in DOMAIN chan
  /\ \A i \in DOMAIN quicEvents : quicEvents[i].type # "closed"
  /\ Happens(chan, <<[type |-> "closed"]>>)

H3Next ==
  \/ HandleQuicEvent
  \/ \E id \in Requests : \/ \E m \in h3setup.inbound, fin \in BOOLEAN : SendRequest3(id, m, fin)
                          \/ \E n \in {1, 2}, fin \in BOOLEAN : WriteFrame(id, n, fin)
                          \/ \E m \in h3setup.inbound, n \in 1 .. 2 : h3.role = "server" /\ PeerOpens(id, m, n)
  \/ SendGoaway3
  \/ \E frames \in ControlFrames, n \in 1 .. 3 : "control" \in h3setup.faults /\ PeerOpens(PeerControl, <<"type", "control">> \o frames, n)
  \/ \E kind \in {"qpack", "control"} : "twice" \in h3setup.faults /\ PeerOpens(PeerUni, <<"type", kind>>, 2)
  \/ \E id \in DOMAIN chan \ {Control} :
       \/ \E n \in 0 .. 2, fin \in BOOLEAN : Arrives(id, n, fin)
       \/ PeerResets(id)
       \/ PeerStops(id)
  \/ \E id \in DOMAIN chan : WindowOpens(id)
  \/ ConnectionLost
  \/ quicEvents = <<>> /\ UNCHANGED h3Vars

(* ------------------------------ properties ------------------------------- *)

QueueOf(id) == QueueOf3(World, id)

(* What reaches QUIC is what was handed over, in the order it was handed over, and the FIN *)
(* comes after all of it, however often the window closed in between (queue_send's FIFO     *)
(* rule, drain_pending_stream and the deferred FIN); and nothing waits while there is room. *)
(* The exception: what was queued when the peer aborted the stream (or 0-RTT was rejected)  *)
(* is dropped, and a send_data after that goes out behind the gap (connection.rs:554-663 do *)
(* not look at the stream; the comment at 184 says that such calls fail).                   *)
SentInOrder ==
  /\ \A id \in DOMAIN chan :
       LET all == chan[id].sent \o QueueOf(id)
       IN  /\ \A i, j \in DOMAIN all : i < j => all[i] < all[j]
           /\ h3log[id].cut + 1 .. h3log[id].offered \subseteq ToSet(all)
           /\ chan[id].finSent => id \notin DOMAIN h3.pending
  /\ \A id \in DOMAIN h3.pending :
       chan[id].window > 0 => \E i \in DOMAIN quicEvents : quicEvents[i].type # "connected"

KindOf(unit) ==
  CASE unit \in {"h", "hbad"} -> "headers" [] unit = "t" -> "trailers" [] unit = "d2" -> "data" [] OTHER -> unit

Kinds(message) ==
  LET frames == SelectSeq(message, LAMBDA u : u \notin {"unknown", "d1"})
  IN  [i \in DOMAIN frames |-> IF frames[i] = "d" THEN "data" ELSE KindOf(frames[i])]

Seen(id) == SelectSeq(h3log[id].events, LAMBDA e : e[1] \notin {"fin", "reset"})

FatalError == Control \in DOMAIN chan /\ \E i \in DOMAIN h3log[Control].events : h3log[Control].events[i][1] = "fatal"

(* Trailers are here because those that arrive before the FIN are refused, see TrailersAccepted. *)
Blamed(message) == \E i \in DOMAIN message : message[i] \in {"settings", "hbad", "t"}

(* The events of a stream are the frames of its message, in order and none twice, whatever *)
(* the reads split or joined; and end_stream is true only on the last one, with the FIN     *)
(* read; and no split of a message makes it a fatal error (process_request_frames: at_end,   *)
(* the put-back of the unconsumed tail, emit_empty_fin).                                     *)
EventsFollowTheMessage ==
  /\ FatalError => "control" \in h3setup.faults \/ \E id \in DOMAIN chan : Blamed(chan[id].message)
  /\ \A id \in DOMAIN chan \intersect Requests :
    LET seen == Seen(id)
        e    == h3log[id].events
    IN  /\ IsPrefix([i \in DOMAIN seen |-> seen[i][1]], Kinds(chan[id].message))
        /\ \A i \in DOMAIN e : e[i][2] /\ e[i][1] # "reset" =>
             /\ chan[id].finRead /\ Len(seen) = Len(Kinds(chan[id].message))
             /\ \A j \in i + 1 .. Len(e) : e[j][1] = "reset"

(* "Drops to zero once every request has completed (either gracefully via two-sided FIN, or *)
(* because the peer reset / stopped the stream)": tracked_stream_count.  Except for a stream *)
(* whose FIN comes in the middle of a frame: process_request_frames finalizes nothing then    *)
(* (connection.rs:1370), and the entry stays.  Of an aborted stream nothing handed over       *)
(* before is still queued.                                                                   *)
CutShort(message) == Last(message) = "d1"

WasReset(id) == \E i \in DOMAIN h3log[id].events : h3log[id].events[i][1] = "reset"

CompletedIsForgotten ==
  \A id \in DOMAIN chan \intersect Requests :
    h3.state # "Closed" =>
      /\ chan[id].finSent /\ chan[id].finRead /\ ~CutShort(chan[id].message)
           => id \notin DOMAIN h3.streams /\ id \notin DOMAIN h3.pending
      /\ WasReset(id) => id \notin DOMAIN h3.streams /\ \A i \in DOMAIN QueueOf(id) : QueueOf(id)[i] > h3log[id].cut

(* "Synthesize an end-of-stream Data event for streams that received HEADERS but no DATA   *)
(* frame carrying the FIN": once a whole message and its FIN were read, the application was *)
(* told that the stream ended.                                                              *)
EndIsSignalled ==
  \A id \in DOMAIN chan \intersect Requests :
    chan[id].finRead /\ chan[id].message[1] = "h" /\ h3.state # "Closed" =>
      \E i \in DOMAIN h3log[id].events : h3log[id].events[i][2]

(* A peer that sends HEADERS, DATA, trailers and the FIN, in that order, is not told that   *)
(* it sent an unexpected frame ("Trailers MUST be the last frame on the stream").           *)
TrailersAccepted ==
  FatalError => \E id \in DOMAIN chan : \E i \in DOMAIN chan[id].message : chan[id].message[i] \in {"settings", "hbad"}

(* "Route through queue_send so a flow-control-blocked write doesn't silently lose the      *)
(* SETTINGS bytes."                                                                          *)
SettingsNotLost ==
  Control \in DOMAIN chan /\ h3.state # "Closed" => chan[Control].sent \o QueueOf(Control) # <<>>

(* What an HTTP/3 connection keeps of every stream at once: its writes in order, its events *)
(* in order, and nothing of it once it is over (queue_send, process_request_frames,          *)
(* finalize_local_close), with the exceptions named at each.                                 *)
StreamsInOrder == SentInOrder /\ EventsFollowTheMessage /\ CompletedIsForgotten
=============================================================================
