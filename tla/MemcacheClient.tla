--------------------------- MODULE MemcacheClient ---------------------------
(***************************************************************************)
(* The memcache client of ringline-memcache/src/lib.rs, text and binary,   *)
(* over the shared pipeline.  What it adds to it: keys are checked before  *)
(* a byte is queued, a small guarded value is copied, a text reply ends in *)
(* END, and a binary client has the pipeline only.                         *)
(***************************************************************************)
EXTENDS Pipelined, Commands

IsBinary == client.proto = "binary"

(* recv, by the kind of the pending request. *)
McRecvAccepts == [get |-> {"head", "nil"}, set |-> {"stored"}, delete |-> {"deleted", "not_found"}]

(* pre_flush_if_needed refuses first, and flushes what the guards do not fit *)
(* with; only then is the key found too long, and nothing is appended.       *)
KeyTooLong(guard) ==
  /\ cur = NoRead
  /\ Len(client.pending) < client.in_flight
  /\ MustFlushFirst(client, guard)
  /\ \E ok \in SendOutcomes :
       /\ client' = Flushed(client, ok)
       /\ out' = out \o Sent(client, ok)
  /\ UNCHANGED <<transit, inbound, eof, alive, cur, last, issued>>

McFireGet == Fire("get", FALSE)
McFireSet == Fire("set", FALSE)
McFireDelete == Fire("delete", FALSE)

(* A value below zc_threshold takes the copying path of fire_set. *)
McFireSetWithGuard == \E small \in BOOLEAN : Fire("set", ~small)

McFlush == Flush
McRecv == Recv("value", McRecvAccepts)

(* The commands of the text client: the key is checked, the request sent,    *)
(* one response read and classified.                                         *)
McExecute == ~IsBinary /\ IdleConnection /\ \E a \in McAccepted : Issue(1, "seq", "value", a)

(* get_stream and get_cas: the header line, the value, then \r\nEND\r\n. *)
McGetStream == ~IsBinary /\ GetStream({"head", "nil"})
McGetCas == ~IsBinary /\ GetStream({"head", "nil"})
McStreamHeader == GetHeaderOnly \/ GetHeader \/ StreamUnexpected
McStreamSegment == GetValue
McStreamFinish == GetTrailing
McStreamRefill == GetClosed
McStreamDrop == DropValueStream

(* set_stream: the key is refused before the first byte. *)
McSetStream == ~IsBinary /\ SetStream({"stored"})
McWriteSetFrame == SetStreamDone \/ SetStreamMismatch

-----------------------------------------------------------------------------
(* read_response consumes one whole response.  The text parser takes a value *)
(* with its END; parse_binary_response takes header and body, and refuses a  *)
(* wrong magic byte or lengths beyond the body.                              *)
McReadResponse == ReadValue \/ ReadClosed
McReadProtocolError == ReadProtocolError

TextReplies(kind) ==
  CASE kind = "get" -> {<<"head", "body", "tail">>, <<"nil">>, <<"error">>}
    [] kind = "set" -> {<<"stored">>, <<"error">>}
    [] kind = "delete" -> {<<"deleted">>, <<"not_found">>}
    [] kind = "seq" -> {<<"stored">>, <<"numeric">>, <<"head", "body", "tail">>}

(* parse_binary_response, by opcode and status. *)
BinaryReplies(kind) ==
  CASE kind = "get" -> {<<"head", "body">>, <<"nil">>, <<"error", "body">>}
    [] kind = "set" -> {<<"stored">>, <<"error", "body">>}
    [] kind = "delete" -> {<<"deleted">>, <<"not_found">>, <<"error", "body">>}

McServer ==
  /\ out # <<>> /\ out[1].kind \notin {"open", "close"}
  /\ \E parts \in (IF IsBinary THEN BinaryReplies(out[1].kind) ELSE TextReplies(out[1].kind))
                  \union (IF Fault("server") THEN {<<"bad">>, <<"ok">>} ELSE {}) : Answer(parts)

MemcacheNext ==
  \/ McFireGet \/ McFireSet \/ McFireDelete \/ McFireSetWithGuard
  \/ \E guard \in BOOLEAN : KeyTooLong(guard)
  \/ McFlush \/ McRecv \/ McExecute
  \/ McReadResponse \/ McReadProtocolError \/ CancelRead
  \/ McGetStream \/ McGetCas \/ McStreamHeader \/ McStreamSegment
  \/ McStreamFinish \/ McStreamRefill \/ McStreamDrop
  \/ McSetStream \/ McWriteSetFrame
  \/ McServer \/ AnswerStreamedSet("stored") \/ Arrive \/ PeerEof
=============================================================================
