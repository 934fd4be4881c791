-------------------------------- MODULE Grpc --------------------------------
(***************************************************************************)
(* ringline-grpc: GrpcConnection over an H2Connection, also free of I/O.   *)
(* A length-prefixed message is two units of DATA and may arrive in        *)
(* pieces; what the driver takes from take_pending_send goes to the server *)
(* at once.                                                                *)
(***************************************************************************)
EXTENDS H2

CONSTANTS MaxMessageUnits   \* max_message_size with its header

VARIABLES
  grpc,     \* ready, buffers
  calls     \* ghost: per started call, the statuses and messages handed out

grpcVars == <<netVars, grpc, calls>>

GrpcInit == NetInit /\ grpc = [ready |-> FALSE, buffers |-> <<>>] /\ calls = <<>>

(* StreamState::new, and the call a caller has the stream of. *)
NewBuffer == [buf |-> 0, seen |-> FALSE]

Track(g, id) ==
  [g EXCEPT !.buffers = [x \in DOMAIN @ \union {id} |-> IF x \in DOMAIN @ THEN @[x] ELSE NewBuffer]]

Untrack(g, ids) == [g EXCEPT !.buffers = Restrict(@, DOMAIN @ \ ids)]

(* The event queue as the caller sees it. *)
PushStatus(out, id, status) ==
  IF id \in DOMAIN out THEN [out EXCEPT ![id].statuses = Append(@, status)] ELSE out

PushMessages(out, id, n) == IF id \in DOMAIN out THEN [out EXCEPT ![id].messages = @ + n] ELSE out

Opened(id) == [x \in DOMAIN calls \union {id} |->
                 IF x = id THEN [statuses |-> <<>>, messages |-> 0] ELSE calls[x]]

(* fail_stream *)
FailStream(acc, id, status) ==
  [h |-> ResetStream(acc.h, id), g |-> Untrack(acc.g, {id}), out |-> PushStatus(acc.out, id, status)]

(* handle_response: HEADERS that end the stream carry the status. *)
OnResponse(acc, e) ==
  LET g == [Track(acc.g, e.id) EXCEPT !.buffers[e.id].seen = TRUE]
  IN  IF e.end THEN [acc EXCEPT !.g = Untrack(g, {e.id}), !.out = PushStatus(@, e.id, "ok")]
      ELSE [acc EXCEPT !.g = g]

(* The decode loop of handle_data and handle_trailers: the whole messages of a buffer, or *)
(* none when the first is too large or cannot be decompressed. *)
Decoded(acc, id, bad) ==
  LET n == acc.g.buffers[id].buf \div 2
  IN  IF bad \/ n = 0 THEN acc
      ELSE [acc EXCEPT !.g.buffers[id].buf = @ - 2 * n, !.out = PushMessages(@, id, n)]

(* Mutant: what is buffered is decoded before the new bytes are added. *)
BufferedLate(acc, e, bad) ==
  LET full == [acc EXCEPT !.g.buffers[e.id].buf = e.n]
  IN  Decoded(full, e.id, bad)

Buffered(acc, e, bad) ==
  LET full == [acc EXCEPT !.g.buffers[e.id].buf = @ + e.n]
  IN  Decoded(full, e.id, bad)

(* emit_status_from_cleanup *)
Cleanup(acc, id) == [acc EXCEPT !.g = Untrack(@, {id}), !.out = PushStatus(@, id, "internal")]

(* handle_data *)
OnGrpcData(acc, e, bad) ==
  LET seen  == e.id \in DOMAIN acc.g.buffers /\ acc.g.buffers[e.id].seen
      full  == seen /\ acc.g.buffers[e.id].buf + e.n > MaxMessageUnits
      whole == seen /\ acc.g.buffers[e.id].buf + e.n >= 2
      read  == IF bad /\ whole THEN FailStream(acc, e.id, "internal") ELSE Buffered(acc, e, FALSE)
  IN  CASE ~seen -> FailStream(acc, e.id, "internal")
        [] seen /\ full -> FailStream(acc, e.id, "exhausted")
        [] OTHER -> IF e.end THEN Cleanup(read, e.id) ELSE read

(* handle_trailers *)
OnTrailers(acc, e, bad) ==
  LET read == IF e.id \in DOMAIN acc.g.buffers THEN Decoded(acc, e.id, bad) ELSE acc
  IN  [read EXCEPT !.g = Untrack(@, {e.id}), !.out = PushStatus(@, e.id, "ok")]

(* The GOAWAY arm of translate_events. *)
OnGoAway(acc, e) ==
  LET stranded == {id \in DOMAIN acc.g.buffers : id > e.id}
  IN  [acc EXCEPT !.g = Untrack(@, stranded),
                  !.out = [id \in DOMAIN @ |-> IF id \in stranded
                             THEN [@[id] EXCEPT !.statuses = Append(@, "unavailable")] ELSE @[id]]]

(* translate_events *)
Translate(acc, e, bad) ==
  CASE e.type = "SettingsAcknowledged" -> [acc EXCEPT !.g.ready = TRUE]
    [] e.type = "Response" -> OnResponse(acc, e)
    [] e.type = "Data" -> OnGrpcData(acc, e, bad)
    [] e.type = "Trailers" -> OnTrailers(acc, e, bad)
    [] e.type = "StreamReset" -> [acc EXCEPT !.g = Untrack(@, {e.id}), !.out = PushStatus(@, e.id, "internal")]
    [] e.type = "GoAway" -> OnGoAway(acc, e)
    [] OTHER -> acc

-----------------------------------------------------------------------------
(* take_pending_send and the socket. *)
GrpcFlush(h) == h2' = [h EXCEPT !.out = <<>>] /\ toServer' = toServer \o h.out

CanOpen == grpc.ready /\ ~RequestRefused(h2) /\ (h2.nextId + 1) \div 2 <= setup.requests

(* send_unary: when the window is short the HEADERS have gone and the stream is nobody's. *)
SendUnary(n) ==
  LET id == h2.nextId
      h  == SendRequest(h2, FALSE)
      ok == ~FlowBlocked(h, id, n)
  IN  /\ CanOpen
      /\ GrpcFlush(IF ok THEN SendData(h, id, n, TRUE) ELSE h)
      /\ grpc' = IF ok THEN Track(grpc, id) ELSE grpc
      /\ calls' = IF ok THEN Opened(id) ELSE calls
      /\ UNCHANGED <<setup, toClient, srv>>

StartRequest ==
  /\ CanOpen
  /\ GrpcFlush(SendRequest(h2, FALSE))
  /\ grpc' = Track(grpc, h2.nextId)
  /\ calls' = Opened(h2.nextId)
  /\ UNCHANGED <<setup, toClient, srv>>

SendMessage(id, n, end) ==
  /\ CanSend(h2, id) /\ ~FlowBlocked(h2, id, n) /\ Len(toServer) < MaxFrames
  /\ GrpcFlush(SendData(h2, id, n, end))
  /\ UNCHANGED <<setup, toClient, srv, grpc, calls>>

(* Mutant: the caller that cancels is told nothing. *)
CancelCallSilent(id) ==
  /\ "cancel" \in setup.faults /\ ~Closing(h2)
  /\ calls[id].statuses = <<>>
  /\ GrpcFlush(ResetStream(h2, id))
  /\ grpc' = Untrack(grpc, {id})
  /\ UNCHANGED <<setup, toClient, srv, calls>>

CancelCall(id) ==
  /\ "cancel" \in setup.faults /\ ~Closing(h2)
  /\ calls[id].statuses = <<>>
  /\ GrpcFlush(ResetStream(h2, id))
  /\ calls' = IF id \in DOMAIN grpc.buffers THEN PushStatus(calls, id, "cancelled") ELSE calls
  /\ grpc' = Untrack(grpc, {id})
  /\ UNCHANGED <<setup, toClient, srv>>

(* recv: the frames at hand, then all their events. *)
GrpcRecv(k, bad) ==
  LET fed  == RecvFrames(h2, SubSeq(toClient, 1, k))
      acc  == [h |-> [fed EXCEPT !.events = <<>>], g |-> grpc, out |-> calls]
      done == FoldLeft(LAMBDA a, e : Translate(a, e, bad), acc, fed.events)
  IN  /\ toClient # <<>>
      /\ toClient' = SubSeq(toClient, k + 1, Len(toClient))
      /\ GrpcFlush(done.h) /\ grpc' = done.g /\ calls' = done.out
      /\ UNCHANGED <<setup, srv>>

GrpcNext ==
  \/ \E n \in setup.bodies : "unary" \in setup.ops /\ SendUnary(n)
  \/ "stream" \in setup.ops /\ StartRequest
  \/ \E id \in DOMAIN calls :
       \/ \E n \in setup.bodies, end \in BOOLEAN : "stream" \in setup.ops /\ SendMessage(id, n, end)
       \/ CancelCall(id)
  \/ \E k \in {1, Len(toClient)} \ {0}, bad \in {FALSE, "message" \in setup.faults} : GrpcRecv(k, bad)
  \/ ServerNext /\ UNCHANGED <<grpc, calls>>

-----------------------------------------------------------------------------
(* An OK status is what the server said, after every message it sent was handed out: no  *)
(* piece of a message is lost between DATA frames, and none is decoded twice             *)
(* (MessageBuffer, handle_data, handle_trailers).                                        *)
OkMeansAllMessages ==
  \A id \in DOMAIN calls :
    Contains(calls[id].statuses, "ok") /\ "message" \notin setup.faults
      => /\ srv.streams[id].ended
         /\ calls[id].messages = srv.streams[id].sent \div 2 \/ Contains(calls[id].statuses, "cancelled")

(* No call is forgotten: when the server has ended every stream and all of it has        *)
(* arrived, every call has a status, and a GOAWAY gives one to every call the server did *)
(* not take (translate_events, cancel, fail_stream).  Not so the calls the server took   *)
(* (id <= last_stream_id) on a connection that is closing, after a GOAWAY or a fatal     *)
(* error: recv drops all that comes later, and they get no status                        *)
(* (ringline-h2/src/connection.rs:302, ringline-grpc/src/connection.rs:321).             *)
NoStatusForgotten ==
  \A id \in DOMAIN calls :
    \/ Quiet /\ ~srv.gone /\ ~Closing(h2)
    \/ h2.peerLast # -1 /\ id > h2.peerLast
    => calls[id].statuses # <<>>

(* A Status event is terminal ("Emit a terminal Status::Unavailable for each", "Stream   *)
(* completed with a gRPC status"): a call has one.                                       *)
OneStatus == \A id \in DOMAIN calls : Len(calls[id].statuses) <= 1

(* What a gRPC call is owed (translate_events, handle_data, cancel): OK only after all of *)
(* its messages, and a status, unless the server took it and the connection is closing.   *)
StatusesTrue == OkMeansAllMessages /\ NoStatusForgotten
=============================================================================
