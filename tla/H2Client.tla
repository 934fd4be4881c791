------------------------------ MODULE H2Client ------------------------------
(***************************************************************************)
(* ringline-http/src/h2_conn.rs: H2AsyncConn, the HTTP/2 client over an    *)
(* H2Connection.  It is used through &mut: one call runs at a time and is  *)
(* suspended only while its pump waits for bytes, where it can be dropped. *)
(***************************************************************************)
EXTENDS H2

VARIABLES
  http,     \* pending_streams, blocked_sends, completed, settings_acked, goaway_received
  call,     \* the call in progress and its stream
  results   \* ghost: what the caller was given, by stream

httpVars == <<netVars, http, call, results>>

NoCall == [op |-> "none", id |-> 0]

NewClient == [pending |-> <<>>, blocked |-> <<>>, completed |-> <<>>, acked |-> FALSE, goaway |-> FALSE]

HttpInit == NetInit /\ http = NewClient /\ call = [op |-> "connect", id |-> 0] /\ results = {}

Result(id, ok, n) == [id |-> id, ok |-> ok, n |-> n]

(* PendingStream::new *)
NewPending(streaming) ==
  [status |-> FALSE, done |-> FALSE, error |-> FALSE, streaming |-> streaming, chunks |-> 0, body |-> 0]

Fail(ps) == [ps EXCEPT !.error = TRUE, !.done = TRUE]

(* into_response *)
IntoResponse(id, ps) == Result(id, ~ps.error /\ ps.status, ps.body)

(* handle_response_headers *)
OnHeaders(ps, e) ==
  IF e.n > 0 THEN Fail(ps) ELSE [ps EXCEPT !.status = TRUE, !.done = @ \/ e.end]

(* Mutant: a body over the cap is cut off there instead of failing the stream. *)
OnDataTruncates(ps, e) ==
  IF ps.body + e.n > setup.maxBody THEN [ps EXCEPT !.done = TRUE]
  ELSE [ps EXCEPT !.body = @ + e.n, !.chunks = IF ps.streaming THEN @ + 1 ELSE @, !.done = @ \/ e.end]

(* handle_response_data *)
OnData(ps, e) ==
  IF ps.body + e.n > setup.maxBody THEN Fail(ps)
  ELSE [ps EXCEPT !.body = @ + e.n, !.chunks = IF ps.streaming THEN @ + 1 ELSE @, !.done = @ \/ e.end]

(* The events of dispatch_h2_events that concern one stream. *)
OnEvent(ps, e) ==
  CASE e.type = "Response" -> OnHeaders(ps, e)
    [] e.type = "Data" -> OnData(ps, e)
    [] e.type = "Trailers" -> [ps EXCEPT !.done = TRUE]
    [] e.type = "StreamReset" -> Fail(ps)
    [] OTHER -> ps

Apply(c, e) ==
  CASE e.type = "SettingsAcknowledged" -> [c EXCEPT !.acked = TRUE]
    [] e.type = "GoAway" ->
         [c EXCEPT !.goaway = TRUE, !.pending = [id \in DOMAIN @ |-> [@[id] EXCEPT !.done = TRUE]]]
    [] e.id \in DOMAIN c.pending -> [c EXCEPT !.pending[e.id] = OnEvent(@, e)]
    [] OTHER -> c

(* Retrying one blocked send of dispatch_h2_events. *)
Retry(acc, bs) ==
  CASE CanSend(acc.h, bs.id) /\ ~FlowBlocked(acc.h, bs.id, bs.n) ->
         [acc EXCEPT !.h = SendData(@, bs.id, bs.n, TRUE)]
    [] CanSend(acc.h, bs.id) /\ FlowBlocked(acc.h, bs.id, bs.n) ->
         [acc EXCEPT !.c.blocked = Append(@, bs)]
    [] OTHER -> IF bs.id \in DOMAIN acc.c.pending THEN [acc EXCEPT !.c.pending[bs.id] = Fail(@)] ELSE acc

(* Mutant: blocked sends are not retried. *)
DispatchNoRetry(h, c) ==
  [h |-> [h EXCEPT !.events = <<>>], c |-> FoldLeft(Apply, c, h.events),
   failed |-> \E k \in DOMAIN h.events : h.events[k].type = "Error"]

(* dispatch_h2_events *)
DispatchEvents(h, c) ==
  LET applied == FoldLeft(Apply, c, h.events)
      acc == [h |-> [h EXCEPT !.events = <<>>], c |-> [applied EXCEPT !.blocked = <<>>],
              failed |-> \E k \in DOMAIN h.events : h.events[k].type = "Error"]
  IN  FoldLeft(Retry, acc, c.blocked)

(* The end of pump_once: finished streams that are not streamed move to completed. *)
Collect(c) ==
  LET done == {id \in DOMAIN c.pending : c.pending[id].done /\ ~c.pending[id].streaming}
      moved == [k \in 1 .. Cardinality(done) |->
                  IntoResponse(SetToSeq(done)[k], c.pending[SetToSeq(done)[k]])]
  IN  [c EXCEPT !.pending = Restrict(@, DOMAIN @ \ done), !.completed = @ \o moved]

(* flush_pending_send: the frames go to the socket, or are lost when send_nowait fails. *)
FlushOutcomes == IF "send" \in setup.faults THEN BOOLEAN ELSE {TRUE}

Flush(h, ok) ==
  /\ h2' = [h EXCEPT !.out = <<>>, !.lost = @ \/ (~ok /\ h.out # <<>>)]
  /\ toServer' = IF ok THEN toServer \o h.out ELSE toServer

Idle == call.op = "none"

-----------------------------------------------------------------------------
(* fire_request, alone or as the start of send_request and send_request_streaming. *)
FireRequest(op, body, ok) ==
  LET id   == h2.nextId
      open == SendRequest(h2, body = 0)
      full == body > 0 /\ FlowBlocked(open, id, body)
  IN  /\ Idle /\ ~RequestRefused(h2) /\ (id + 1) \div 2 <= setup.requests
      /\ http' = [http EXCEPT
           !.blocked = IF full THEN Append(@, [id |-> id, n |-> body]) ELSE @,
           !.pending = [x \in DOMAIN @ \union {id} |->
                          IF x = id THEN NewPending(op = "headers" /\ ok) ELSE @[x]]]
      /\ Flush(IF body > 0 /\ ~full THEN SendData(open, id, body, TRUE) ELSE open, ok)
      /\ call' = IF ok /\ op # "fire" THEN [op |-> op, id |-> id] ELSE NoCall
      /\ UNCHANGED <<setup, toClient, srv, results>>

(* recv and recv_stream: a completed response is there, or the call pumps for one. *)
Wanted(c, op, id) == {k \in DOMAIN c.completed : op = "recv" \/ c.completed[k].id = id}

Answered(c, op, id) == Wanted(c, op, id) # {}

First(c, op, id) == CHOOSE k \in Wanted(c, op, id) : \A j \in Wanted(c, op, id) : k <= j

Deliver(c, op, id) ==
  LET k == First(c, op, id)
  IN  /\ results' = results \union {c.completed[k]}
      /\ http' = [c EXCEPT !.completed = RemoveAt(@, k)]
      /\ call' = NoCall

(* The streams a caller waits for: not one left by a dropped send_request_streaming, which *)
(* stays pending and is never completed. *)
Awaited(op, id) ==
  {x \in DOMAIN http.pending : ~http.pending[x].streaming /\ (op = "recv" \/ x = id)}

StartRecv(op, id, ok) ==
  /\ Idle /\ (Answered(http, op, id) \/ Awaited(op, id) # {})
  /\ Flush(h2, ok \/ Answered(http, op, id))
  /\ IF Answered(http, op, id) THEN Deliver(http, op, id)
     ELSE /\ call' = IF ok THEN [op |-> op, id |-> id] ELSE NoCall
          /\ UNCHANGED <<http, results>>
  /\ UNCHANGED <<setup, toClient, srv>>

(* Does next_chunk, or the wait for the headers, have something to return? *)
StreamReady ==
  LET ps == http.pending[call.id]
  IN  CASE call.op = "body" /\ call.id \in DOMAIN http.pending -> ps.error \/ ps.chunks > 0 \/ ps.done
        [] call.op = "headers" /\ call.id \in DOMAIN http.pending -> ps.error \/ ps.status
        [] OTHER -> call.op \in {"body", "headers"}

Pumping == call.op # "none" /\ ~StreamReady

(* pump_once on the next k frames. *)
Pump(k, ok) ==
  LET fed  == RecvFrames(h2, SubSeq(toClient, 1, k))
      d    == DispatchEvents(fed, http)
      c    == Collect(d.c)
  IN  /\ Pumping /\ toClient # <<>>
      /\ toClient' = SubSeq(toClient, k + 1, Len(toClient))
      /\ IF d.failed
         THEN /\ h2' = d.h /\ http' = d.c /\ call' = NoCall
              /\ UNCHANGED <<toServer, results>>
         ELSE /\ Flush(d.h, ok)
              /\ \/ /\ ~ok \/ (call.op = "connect" /\ c.acked)
                    /\ call' = NoCall /\ http' = c /\ UNCHANGED results
                 \/ /\ ok /\ call.op \in {"recv", "recv_stream"} /\ Answered(c, call.op, call.id)
                    /\ Deliver(c, call.op, call.id)
                 \/ /\ ok /\ ~(call.op = "connect" /\ c.acked)
                    /\ ~(call.op \in {"recv", "recv_stream"} /\ Answered(c, call.op, call.id))
                    /\ http' = c /\ UNCHANGED <<call, results>>
      /\ UNCHANGED <<setup, srv>>

(* The server has closed the socket: with_segments returns 0. *)
PumpEof ==
  /\ Pumping /\ srv.gone /\ toClient = <<>>
  /\ call' = NoCall
  /\ UNCHANGED <<netVars, http, results>>

(* What send_request_streaming and next_chunk return. *)
StreamStep ==
  LET ps     == http.pending[call.id]
      forget == [http EXCEPT !.pending = Restrict(@, DOMAIN @ \ {call.id})]
  IN  /\ call.op \in {"headers", "body"} /\ StreamReady
      /\ CASE call.id \notin DOMAIN http.pending -> call' = NoCall /\ UNCHANGED <<http, results>>
           [] call.id \in DOMAIN http.pending /\ ps.error ->
                /\ http' = forget /\ call' = NoCall
                /\ results' = results \union {Result(call.id, FALSE, 0)}
           [] call.id \in DOMAIN http.pending /\ ~ps.error /\ call.op = "headers" ->
                call' = [call EXCEPT !.op = "body"] /\ UNCHANGED <<http, results>>
           [] call.id \in DOMAIN http.pending /\ ~ps.error /\ call.op = "body" /\ ps.chunks > 0 ->
                http' = [http EXCEPT !.pending[call.id].chunks = @ - 1] /\ UNCHANGED <<call, results>>
           [] OTHER ->
                /\ http' = forget /\ call' = NoCall
                /\ results' = results \union {Result(call.id, TRUE, ps.body)}
      /\ UNCHANGED netVars

(* The future is dropped, or the H2StreamingResponse. *)
DropCall ==
  /\ "drop" \in setup.faults /\ call.op \in {"recv", "recv_stream", "headers", "body"}
  /\ http' = IF call.op = "body" THEN [http EXCEPT !.pending = Restrict(@, DOMAIN @ \ {call.id})] ELSE http
  /\ call' = NoCall
  /\ UNCHANGED <<netVars, results>>

CallNext ==
  \/ \E op \in setup.ops \intersect {"fire", "recv_stream", "headers"}, body \in setup.bodies, ok \in FlushOutcomes :
       FireRequest(op, body, ok)
  \/ \E ok \in FlushOutcomes : StartRecv("recv", 0, ok)
  \/ \E id \in 1 .. h2.nextId, ok \in FlushOutcomes : "recv_stream" \in setup.ops /\ StartRecv("recv_stream", id, ok)
  \/ \E k \in {1, Len(toClient)} \ {0}, ok \in FlushOutcomes : Pump(k, ok)
  \/ PumpEof \/ StreamStep \/ DropCall

HttpNext == CallNext \/ (ServerNext /\ UNCHANGED <<http, call, results>>)

-----------------------------------------------------------------------------
(* A response handed out as good has the whole body the server sent and ended: nothing   *)
(* is dropped, counted twice or put on another stream, in recv, recv_stream or           *)
(* next_chunk, whatever the order of the frames.  The streams a GOAWAY finishes early    *)
(* (dispatch_h2_events) are left to MidResponseFails.                                    *)
OkMeansWhole ==
  \A r \in results : r.ok /\ ~http.goaway =>
     srv.streams[r.id].ended /\ r.n = srv.streams[r.id].sent

(* "streams still mid-response surface a ConnectionClosed-shaped error" after a GOAWAY:   *)
(* only a response that the server ended is handed out as good.                          *)
MidResponseFails == \A r \in results : r.ok => srv.streams[r.id].ended /\ r.n = srv.streams[r.id].sent

(* No call waits for nothing: when the server has answered and ended every stream, has   *)
(* granted what it read and all of it has arrived, no recv, recv_stream, connect or      *)
(* streamed read is left suspended and no body is left in blocked_sends.  Not covered: a *)
(* call whose frames a failing send_nowait dropped (flush_pending_send), a connection    *)
(* that is closing, and a body larger than the peer's stream window, which send_data     *)
(* takes whole or not at all and so never sends (the setups have none).                  *)
NoCallForgotten ==
  Quiet /\ ~srv.gone /\ ~Closing(h2) /\ ~h2.lost => ~Pumping /\ http.blocked = <<>>

(* What a caller of the HTTP/2 client is owed (recv, recv_stream, next_chunk, send_body): *)
(* a good response is whole, and every call is answered.                                 *)
CallsAnswered == OkMeansWhole /\ NoCallForgotten
=============================================================================
