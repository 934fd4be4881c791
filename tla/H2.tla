--------------------------------- MODULE H2 ---------------------------------
(***************************************************************************)
(* ringline-h2: the client side of an HTTP/2 connection, free of I/O.      *)
(* What an H2Connection does to itself is a set of operators on the record *)
(* h2; the HTTP and gRPC clients drive them.  The peer is a server that    *)
(* keeps the protocol, with windows of its own, and that may misbehave     *)
(* once when the fault is chosen.  One unit of window stands for 16 KiB.   *)
(***************************************************************************)
EXTENDS Naturals, Integers, FiniteSets, Sequences, SequencesExt, Functions

CONSTANTS DEFAULT_WINDOW_SIZE,      \* 65535
          WINDOW_UPDATE_THRESHOLD,  \* 32768
          MaxWindow,                \* 2^31 - 1
          MAX_STREAM_ID,            \* last stream identifier
          NoLimit,                  \* no MAX_CONCURRENT_STREAMS
          Connections,              \* the settings of the connections checked
          MaxFrames                 \* bound: frames in flight each way

VARIABLES
  setup,     \* the initial windows, what the clients and the server do, and how often
  h2,        \* H2Connection
  toServer,  \* frames on the way to the server
  toClient,  \* frames on the way to the client
  srv        \* the server and its side of every window

netVars == <<setup, h2, toServer, toClient, srv>>

Closing(h) == h.state \in {"Closing", "Closed"}

(* The frames, by what the other side tells apart. *)
Absent == -1
SettingsFrame(initial, max) == [type |-> "settings", initial |-> initial, max |-> max]
SettingsAck == [type |-> "settings_ack"]
Headers(id, kind, end, whole) ==
  [type |-> "headers", id |-> id, kind |-> kind, end |-> end, whole |-> whole]
Continuation(id, kind, whole) ==
  [type |-> "continuation", id |-> id, kind |-> kind, whole |-> whole]
PaddedData(id, n, pad, end) == [type |-> "data", id |-> id, n |-> n, pad |-> pad, end |-> end]
Data(id, n, end) == PaddedData(id, n, 0, end)
RstStream(id) == [type |-> "rst", id |-> id]
GoAway(last) == [type |-> "goaway", last |-> last]
WindowUpdate(id, n) == [type |-> "window_update", id |-> id, n |-> n]
Ping(ack) == [type |-> "ping", ack |-> ack]

IsType(f, type) == f.type = type

(* The bytes of DATA, and the credit, for one stream (0: all of them) in a channel. *)
BytesOf(ch, id) ==
  FoldSeq(LAMBDA f, sum : sum + (IF IsType(f, "data") /\ (id = 0 \/ f.id = id) THEN f.n + f.pad ELSE 0), 0, ch)

CreditOf(ch, id) ==
  FoldSeq(LAMBDA f, sum : sum + (IF IsType(f, "window_update") /\ f.id = id THEN f.n ELSE 0), 0, ch)

-----------------------------------------------------------------------------
(* Operators on the connection record. *)
Emit(h, frames) == [h EXCEPT !.out = @ \o frames]

Event(h, e) == [h EXCEPT !.events = Append(@, e)]

StreamEvent(type, id, end) == [type |-> type, id |-> id, end |-> end, n |-> 0]

Forget(h, ids) == [h EXCEPT !.streams = Restrict(@, DOMAIN @ \ ids)]

InState(h, id, s) == [h EXCEPT !.streams[id].state = s]

(* H2Connection::new: preface and SETTINGS, and the credit that the connection's window *)
(* has beyond the default. *)
NewConnection(initial) ==
  [state |-> "WaitingPreface", local |-> initial, max |-> NoLimit,
   initial |-> DEFAULT_WINDOW_SIZE, connRecv |-> initial, connSend |-> DEFAULT_WINDOW_SIZE,
   nextId |-> 1, cont |-> 0, any |-> FALSE, peerLast |-> -1, streams |-> <<>>,
   lost |-> FALSE, out |-> <<SettingsFrame(initial, NoLimit)>>
           \o (IF initial > DEFAULT_WINDOW_SIZE
               THEN <<WindowUpdate(0, initial - DEFAULT_WINDOW_SIZE)>> ELSE <<>>),
   events |-> <<>>]

(* H2Stream::new *)
NewStream(h, end) ==
  [state |-> IF end THEN "HalfClosedLocal" ELSE "Open", recv |-> h.local, send |-> h.initial,
   headersEnd |-> FALSE, answered |-> FALSE]

(* fatal_error: a GOAWAY and an Error event, once. *)
Fatal(h) ==
  IF Closing(h) THEN h
  ELSE Event(Emit([h EXCEPT !.state = "Closing"], <<GoAway(h.nextId - 2)>>),
             StreamEvent("Error", 0, FALSE))

(* send_request: whether it is refused, and what it does when it is not. *)
Active(h) == {id \in DOMAIN h.streams : h.streams[id].state # "Closed"}

RequestRefused(h) ==
  Closing(h) \/ (h.max # NoLimit /\ Cardinality(Active(h)) >= h.max) \/ h.nextId > MAX_STREAM_ID

SendRequest(h, end) ==
  Emit([h EXCEPT !.nextId = @ + 2,
                 !.streams = [id \in DOMAIN @ \union {h.nextId} |->
                                IF id = h.nextId THEN NewStream(h, end) ELSE @[id]]],
       <<Headers(h.nextId, "request", end, TRUE)>>)

(* send_data: all of the data or none of it. *)
CanSend(h, id) == id \in DOMAIN h.streams /\ h.streams[id].state \in {"Open", "HalfClosedRemote"}

FlowBlocked(h, id, n) == n > 0 /\ (h.streams[id].send < n \/ h.connSend < n)

EndLocal(h, id) ==
  InState(h, id, IF h.streams[id].state = "HalfClosedRemote" THEN "Closed" ELSE "HalfClosedLocal")

(* Mutant: the connection's window is left out of the account. *)
SendDataOneWindow(h, id, n, end) ==
  LET sent == Emit([h EXCEPT !.streams[id].send = @ - n], <<Data(id, n, end)>>)
  IN  IF end THEN EndLocal(sent, id) ELSE sent

SendData(h, id, n, end) ==
  LET sent == Emit([h EXCEPT !.streams[id].send = @ - n, !.connSend = @ - n], <<Data(id, n, end)>>)
  IN  IF end THEN EndLocal(sent, id) ELSE sent

(* reset_stream: the entry stays, closed. *)
ResetStream(h, id) ==
  LET sent == Emit(h, <<RstStream(id)>>)
  IN  IF id \in DOMAIN h.streams THEN InState(sent, id, "Closed") ELSE sent

-----------------------------------------------------------------------------
(* handle_settings *)
Adjusted(h, delta) ==
  [h EXCEPT !.streams = [id \in DOMAIN @ |->
     IF @[id].state = "Closed" THEN @[id] ELSE [@[id] EXCEPT !.send = @ + delta]]]

(* Settings::decode: a parameter the frame leaves out has its default. *)
DecodedInitial(f) == IF f.initial = Absent THEN DEFAULT_WINDOW_SIZE ELSE f.initial

HandleSettings(h, f) ==
  LET delta == DecodedInitial(f) - h.initial
      next  == Adjusted([h EXCEPT !.initial = @ + delta, !.max = f.max], delta)
  IN  IF \E id \in Active(next) : next.streams[id].send > MaxWindow THEN Fatal(h)
      ELSE Emit([next EXCEPT !.state = IF @ = "WaitingPreface" THEN "Ready" ELSE @], <<SettingsAck>>)

(* The end of the peer's side of a stream. *)
EndRemote(h, id) ==
  InState(h, id, IF h.streams[id].state = "HalfClosedLocal" THEN "Closed" ELSE "HalfClosedRemote")

DropIfClosed(h, id) == IF h.streams[id].state = "Closed" THEN Forget(h, {id}) ELSE h

(* decode_and_emit_headers: the first block is the response and has a :status, a second *)
(* one is the trailers, has none, and must end the stream. *)
DecodeAndEmitHeaders(h, id, kind, end) ==
  LET first == ~h.streams[id].answered
      valid == IF first THEN kind \in {"response", "oversize"} ELSE kind = "trailers" /\ end
      seen  == [h EXCEPT !.streams[id].answered = TRUE]
      ended == IF end THEN EndRemote(seen, id) ELSE seen
      event == [type |-> IF first THEN "Response" ELSE "Trailers", id |-> id, end |-> end,
                n |-> IF kind = "oversize" THEN 1 ELSE 0]
  IN  IF ~valid THEN Fatal(h) ELSE DropIfClosed(Event(ended, event), id)

(* handle_headers *)
HandleHeaders(h, f) ==
  CASE f.id \notin DOMAIN h.streams -> Fatal(h)
    [] f.id \in DOMAIN h.streams /\ f.whole -> DecodeAndEmitHeaders(h, f.id, f.kind, f.end)
    [] OTHER -> [h EXCEPT !.streams[f.id].headersEnd = f.end, !.cont = f.id]

(* handle_continuation *)
HandleContinuation(h, f) ==
  IF f.id \notin DOMAIN h.streams \/ ~f.whole THEN h
  ELSE DecodeAndEmitHeaders([h EXCEPT !.cont = 0], f.id, f.kind, h.streams[f.id].headersEnd)

(* The connection's bytes given back for DATA on a stream that takes none. *)
RefuseData(h, f) ==
  Emit(h, (IF f.n > 0 THEN <<WindowUpdate(0, f.n)>> ELSE <<>>) \o <<RstStream(f.id)>>)

(* maybe_send_window_updates *)
UpdateConnWindow(h) ==
  IF h.connRecv >= WINDOW_UPDATE_THRESHOLD \/ h.local <= h.connRecv THEN h
  ELSE [Emit(h, <<WindowUpdate(0, h.local - h.connRecv)>>) EXCEPT !.connRecv = h.local]

UpdateStreamWindow(h, id) ==
  LET s == h.streams[id]
  IN  IF s.state \in {"Closed", "HalfClosedRemote"} \/ s.recv >= WINDOW_UPDATE_THRESHOLD
         \/ h.local <= s.recv
      THEN h
      ELSE [Emit(h, <<WindowUpdate(id, h.local - s.recv)>>) EXCEPT !.streams[id].recv = h.local]

MaybeSendWindowUpdates(h, id, n) ==
  IF n = 0 THEN h ELSE UpdateStreamWindow(UpdateConnWindow(h), id)

(* handle_data *)
HandleData(h, f) ==
  LET known == f.id \in DOMAIN h.streams
      open  == known /\ h.streams[f.id].state \in {"Open", "HalfClosedLocal"}
      taken == [h EXCEPT !.connRecv = @ - f.n, !.streams[f.id].recv = @ - f.n]
      ended == IF f.end THEN EndRemote(taken, f.id) ELSE taken
      event == [type |-> "Data", id |-> f.id, end |-> f.end, n |-> f.n]
  IN  CASE f.n > h.connRecv -> Fatal(h)
        [] f.n <= h.connRecv /\ ~open -> Forget(RefuseData(h, f), {f.id})
        [] f.n <= h.connRecv /\ open /\ f.n > h.streams[f.id].recv -> Fatal(h)
        [] OTHER -> DropIfClosed(MaybeSendWindowUpdates(Event(ended, event), f.id, f.n), f.id)

(* handle_window_update: too much credit ends the connection, or only the stream. *)
HandleWindowUpdate(h, f) ==
  CASE f.id = 0 -> IF h.connSend + f.n > MaxWindow THEN Fatal(h) ELSE [h EXCEPT !.connSend = @ + f.n]
    [] f.id # 0 /\ f.id \notin DOMAIN h.streams -> Emit(h, <<RstStream(f.id)>>)
    [] f.id \in DOMAIN h.streams /\ h.streams[f.id].send + f.n > MaxWindow ->
         Event(Emit(Forget(h, {f.id}), <<RstStream(f.id)>>), StreamEvent("StreamReset", f.id, FALSE))
    [] OTHER -> [h EXCEPT !.streams[f.id].send = @ + f.n]

(* The GOAWAY arm: the streams the server did not take are reset. *)
HandleGoAway(h, f) ==
  LET lost  == {id \in DOMAIN h.streams : id > f.last}
      shut  == [h EXCEPT !.peerLast = f.last, !.state = "Closing"]
      reset == [k \in 1 .. Cardinality(lost) |-> StreamEvent("StreamReset", SetToSeq(lost)[k], FALSE)]
  IN  IF h.peerLast # -1 /\ f.last > h.peerLast THEN Fatal(h)
      ELSE [Forget(shut, lost) EXCEPT !.events = Append(@, StreamEvent("GoAway", f.last, FALSE)) \o reset]

(* handle_frame *)
Dispatch(h, f) ==
  CASE IsType(f, "settings") -> HandleSettings(h, f)
    [] IsType(f, "settings_ack") -> Event(h, StreamEvent("SettingsAcknowledged", 0, FALSE))
    [] IsType(f, "headers") -> HandleHeaders(h, f)
    [] IsType(f, "continuation") -> HandleContinuation(h, f)
    [] IsType(f, "data") -> HandleData(h, f)
    [] IsType(f, "rst") -> Event(Forget(h, {f.id}), StreamEvent("StreamReset", f.id, FALSE))
    [] IsType(f, "ping") -> IF f.ack THEN h ELSE Emit(h, <<Ping(TRUE)>>)
    [] IsType(f, "goaway") -> HandleGoAway(h, f)
    [] IsType(f, "window_update") -> HandleWindowUpdate(h, f)
    [] IsType(f, "push_promise") -> Fatal(h)

OutOfPlace(h, f) ==
  \/ ~h.any /\ ~IsType(f, "settings")
  \/ h.cont # 0 /\ ~(IsType(f, "continuation") /\ f.id = h.cont)
  \/ h.cont = 0 /\ IsType(f, "continuation")

(* decode_frame and Settings::decode: what is refused before it is a frame. *)
NeedsStream == {"data", "headers", "continuation", "rst", "push_promise"}

Undecodable(f) ==
  \/ IsType(f, "wrong_size")
  \/ f.type \in NeedsStream /\ f.id = 0
  \/ IsType(f, "window_update") /\ f.n = 0
  \/ IsType(f, "settings") /\ f.initial > MaxWindow

HandleFrame(h, f) == IF Undecodable(f) \/ OutOfPlace(h, f) THEN Fatal(h) ELSE Dispatch([h EXCEPT !.any = TRUE], f)

(* recv and process_recv_buf: frames are dropped once the connection is closing. *)
RecvFrames(h, frames) ==
  FoldLeft(LAMBDA acc, f : IF Closing(acc) THEN acc ELSE HandleFrame(acc, f), h, frames)

-----------------------------------------------------------------------------
(* The server.  A stream it knows: the windows and how far each side is. *)
ServerStream == [send |-> setup.local, recv |-> srv.initial, answered |-> FALSE, ended |-> FALSE,
                 reset |-> FALSE, reqEnded |-> FALSE, sent |-> 0]

NetInit ==
  /\ setup \in Connections
  /\ h2 = [NewConnection(setup.local) EXCEPT !.out = <<>>]
  /\ toServer = NewConnection(setup.local).out
  /\ toClient = <<>>
  /\ srv = [greeted |-> FALSE, initial |-> setup.initial, max |-> setup.max, connSend |-> DEFAULT_WINDOW_SIZE,
            connRecv |-> DEFAULT_WINDOW_SIZE, gone |-> FALSE, moods |-> setup.faults, streams |-> <<>>]

Room == Len(toClient) < MaxFrames

Push(frames) == toClient' = toClient \o frames

(* May the server still send on the stream? *)
Serving(id) ==
  /\ srv.greeted /\ ~srv.gone /\ id \in DOMAIN srv.streams
  /\ ~srv.streams[id].ended /\ ~srv.streams[id].reset

(* The server takes the next frame of the client. *)
ServerRecv ==
  /\ toServer # <<>>
  /\ srv.greeted
  /\ LET f == Head(toServer)
     IN  srv' =
           CASE IsType(f, "headers") ->
                  [srv EXCEPT !.streams = [id \in DOMAIN @ \union {f.id} |->
                     IF id = f.id THEN [ServerStream EXCEPT !.reqEnded = f.end] ELSE @[id]]]
             [] IsType(f, "data") ->
                  [srv EXCEPT !.connRecv = @ - f.n, !.streams[f.id].recv = @ - f.n,
                              !.streams[f.id].reqEnded = @ \/ f.end]
             [] IsType(f, "rst") /\ f.id \in DOMAIN srv.streams ->
                  [srv EXCEPT !.streams[f.id].reset = TRUE]
             [] IsType(f, "window_update") /\ f.id = 0 -> [srv EXCEPT !.connSend = @ + f.n]
             [] IsType(f, "window_update") /\ f.id # 0 -> [srv EXCEPT !.streams[f.id].send = @ + f.n]
             [] IsType(f, "goaway") -> [srv EXCEPT !.gone = TRUE]
             [] OTHER -> srv
  /\ toServer' = Tail(toServer)
  /\ UNCHANGED <<setup, h2, toClient>>

(* Its SETTINGS, and the acknowledgement of the client's. *)
ServerGreets ==
  /\ ~srv.greeted
  /\ srv' = [srv EXCEPT !.greeted = TRUE]
  /\ Push(<<SettingsFrame(srv.initial, srv.max), SettingsAck>>)
  /\ UNCHANGED <<setup, h2, toServer>>

Choice(fault, bad, good) == IF fault \in setup.faults THEN {bad, good} ELSE {good}

ServerAnswers(id, end, whole) ==
  /\ Serving(id) /\ ~srv.streams[id].answered /\ Room
  /\ srv' = [srv EXCEPT !.streams[id].answered = TRUE, !.streams[id].ended = end]
  /\ Push(IF whole THEN <<Headers(id, "response", end, TRUE)>>
          ELSE <<Headers(id, "response", end, FALSE), Continuation(id, "response", TRUE)>>)
  /\ UNCHANGED <<setup, h2, toServer>>

ServerData(id, n, pad, end) ==
  /\ Serving(id) /\ srv.streams[id].answered /\ Room /\ (n > 0 \/ end)
  /\ n + pad <= srv.connSend /\ n + pad <= srv.streams[id].send
  /\ srv.streams[id].sent + n <= setup.response
  /\ srv' = [srv EXCEPT !.connSend = @ - (n + pad), !.streams[id].send = @ - (n + pad),
                        !.streams[id].sent = @ + n, !.streams[id].ended = end]
  /\ Push(<<PaddedData(id, n, pad, end)>>)
  /\ UNCHANGED <<setup, h2, toServer>>

ServerTrailers(id) ==
  /\ Serving(id) /\ srv.streams[id].answered /\ Room
  /\ srv' = [srv EXCEPT !.streams[id].ended = TRUE]
  /\ Push(<<Headers(id, "trailers", TRUE, TRUE)>>)
  /\ UNCHANGED <<setup, h2, toServer>>

(* Credit for what the server has read, on the connection and on the stream. *)
ServerGrants(id) ==
  LET n == IF id = 0 THEN DEFAULT_WINDOW_SIZE - srv.connRecv ELSE srv.initial - srv.streams[id].recv
  IN  /\ srv.greeted /\ ~srv.gone /\ Room /\ n > 0
      /\ id = 0 \/ (Serving(id) /\ ~srv.streams[id].reqEnded)
      /\ srv' = IF id = 0 THEN [srv EXCEPT !.connRecv = @ + n] ELSE [srv EXCEPT !.streams[id].recv = @ + n]
      /\ Push(<<WindowUpdate(id, n)>>)
      /\ UNCHANGED <<setup, h2, toServer>>

(* What a server may do once, when the setting has it. *)
Once(mood) == mood \in srv.moods /\ srv.greeted /\ ~srv.gone /\ Room

ServerResets(id) ==
  /\ Once("reset") /\ Serving(id)
  /\ srv' = [srv EXCEPT !.moods = @ \ {"reset"}, !.streams[id].reset = TRUE]
  /\ Push(<<RstStream(id)>>)
  /\ UNCHANGED <<setup, h2, toServer>>

ServerGoAway(last) ==
  /\ Once("goaway")
  /\ last \in DOMAIN srv.streams \union {0}
  /\ srv' = [srv EXCEPT !.moods = @ \ {"goaway"}, !.gone = TRUE]
  /\ Push(<<GoAway(last)>>)
  /\ UNCHANGED <<setup, h2, toServer>>

ServerPings ==
  /\ Once("ping")
  /\ srv' = [srv EXCEPT !.moods = @ \ {"ping"}]
  /\ Push(<<Ping(FALSE), Ping(TRUE)>>)
  /\ UNCHANGED <<setup, h2, toServer>>

(* A later SETTINGS moves the window of every stream the server has not closed. *)
ServerSettings(initial) ==
  LET to == IF initial = Absent THEN srv.initial ELSE initial
  IN
  /\ Once("settings") /\ initial # srv.initial
  /\ srv' = [srv EXCEPT !.moods = @ \ {"settings"}, !.initial = to,
                        !.streams = [id \in DOMAIN @ |-> [@[id] EXCEPT !.recv = @ + (to - srv.initial)]]]
  /\ Push(<<SettingsFrame(initial, srv.max)>>)
  /\ UNCHANGED <<setup, h2, toServer>>

(* A frame the protocol forbids. *)
BadFrames ==
  {Data(1, MaxWindow, FALSE), Headers(1, "invalid", FALSE, TRUE), Headers(MAX_STREAM_ID + 2, "response", TRUE, TRUE),
   Headers(1, "oversize", FALSE, TRUE), Continuation(1, "response", TRUE), SettingsFrame(MaxWindow + 1, 1),
   WindowUpdate(0, MaxWindow), WindowUpdate(1, MaxWindow), [type |-> "push_promise", id |-> 1],
   Data(0, 1, FALSE), WindowUpdate(1, 0), [type |-> "wrong_size"]}

ServerMisbehaves(f) ==
  /\ Room
  /\ "bad" \in srv.moods
  /\ srv' = [srv EXCEPT !.moods = {}, !.gone = TRUE, !.greeted = TRUE]
  /\ Push(<<f>>)
  /\ UNCHANGED <<setup, h2, toServer>>

ServerNext ==
  \/ ServerRecv \/ ServerGreets \/ ServerPings
  \/ \E id \in DOMAIN srv.streams :
       \/ \E end \in BOOLEAN, whole \in {"split" \notin setup.faults} : ServerAnswers(id, end, whole)
       \/ \E n \in 0 .. 2, end \in BOOLEAN, pad \in Choice("pad", 1, 0) : ServerData(id, n, pad, end)
       \/ ServerTrailers(id) \/ ServerResets(id)
  \/ \E id \in DOMAIN srv.streams \union {0} : ServerGrants(id) \/ ServerGoAway(id)
  \/ \E initial \in {DEFAULT_WINDOW_SIZE - 1} \union Choice("partial", Absent, DEFAULT_WINDOW_SIZE + 1) : ServerSettings(initial)
  \/ \E f \in BadFrames : ServerMisbehaves(f)

(* The server has answered and ended every stream and granted all it has read, and       *)
(* everything sent has arrived.                                                          *)
GrantDue(id) ==
  IF id = 0 THEN srv.connRecv < DEFAULT_WINDOW_SIZE
  ELSE ~srv.streams[id].reqEnded /\ srv.streams[id].recv < srv.initial

Quiet ==
  /\ srv.greeted /\ toServer = <<>> /\ toClient = <<>> /\ ~GrantDue(0)
  /\ \A id \in DOMAIN srv.streams :
       srv.streams[id].reset \/ (srv.streams[id].ended /\ ~GrantDue(id))

-----------------------------------------------------------------------------
(* What SETTINGS on the way to the client will add to each stream's send window. *)
SettingsInFlight ==
  LET pending == SelectSeq(toClient, LAMBDA f : IsType(f, "settings"))
  IN  IF pending = <<>> THEN 0 ELSE DecodedInitial(Last(pending)) - h2.initial

(* How far new makes the connection's receive window smaller than the peer's: an initial *)
(* window below the default is announced for the streams only.                           *)
Unannounced == IF setup.local < DEFAULT_WINDOW_SIZE THEN DEFAULT_WINDOW_SIZE - setup.local ELSE 0

ViewsAgree ==
  /\ h2.connRecv + Unannounced = srv.connSend + BytesOf(toClient, 0) + CreditOf(toServer, 0)
  /\ srv.connRecv = h2.connSend + BytesOf(toServer, 0) + CreditOf(toClient, 0)
  /\ \A id \in DOMAIN srv.streams \intersect Active(h2) :
       LET c == h2.streams[id]
           s == srv.streams[id]
       IN  /\ c.state \in {"Open", "HalfClosedLocal"} =>
                c.recv = s.send + BytesOf(toClient, id) + CreditOf(toServer, id)
           /\ c.state \in {"Open", "HalfClosedRemote"} /\ srv.greeted =>
                s.recv = c.send + BytesOf(toServer, id) + CreditOf(toClient, id) + SettingsInFlight

(* Both ends agree on every window once what is on the way is counted: the server may     *)
(* send what the client expects, and the other way round (FlowControl in new, send_data,  *)
(* handle_data, handle_window_update, handle_settings and maybe_send_window_updates).     *)
(* The exception is an initial window below the default: the connection's window starts  *)
(* that much below the peer's (connection.rs:260-276), and stays exactly that much below. *)
(* Padding and SETTINGS that leave the window out are not covered; nor are frames lost by *)
(* a failing send_nowait.                                                                *)
WindowsAgree ==
  ~Closing(h2) /\ ~h2.lost /\ setup.faults \intersect {"bad", "pad", "partial"} = {} => ViewsAgree

(* "The peer's flow-control accounting requires us to debit it ...; otherwise the two     *)
(* views diverge": with a server that pads its DATA too.                                 *)
PaddedViewsAgree == ~Closing(h2) /\ "bad" \notin setup.faults => ViewsAgree

=============================================================================
