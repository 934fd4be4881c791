----------------------------- MODULE RedisClient -----------------------------
(***************************************************************************)
(* The RESP client of ringline-redis/src/lib.rs over the shared pipeline:  *)
(* the sequential commands, Pipeline::execute, recv_meta's borrow-and-     *)
(* discard GET, and the streaming GET and SET.  The sequential and         *)
(* streaming calls are made on an idle connection, as the streams ask.     *)
(***************************************************************************)
EXTENDS Pipelined, Commands

(* A sequential command: send, read one value, classify it. *)
Execute == \E a \in Accepted : IdleConnection /\ Issue(1, "seq", "value", a)

(* Pipeline::execute sends the batch and reads as many values.  After an     *)
(* error value it reads the rest all the same; a read that fails closes.     *)
PipelineExecute == IdleConnection /\ Issue(2, "seq", "pipe", Types)

-----------------------------------------------------------------------------
(* The byte after which parse_get_header knows the reply cannot be a GET's   *)
(* is consumed and the rest of the reply is not.                             *)
MidReply(p) == [p EXCEPT !.n = 2]

(* Mutant: the reply type is reported, but the connection stays open. *)
GetUnexpectedNoPoison ==
  /\ cur.mode = "get" /\ inbound # <<>>
  /\ inbound[1].part \notin {"head", "nil", "error"}
  /\ inbound' = <<MidReply(Head(inbound))>> \o Tail(inbound)
  /\ client' = Cleared(client)
  /\ cur' = NoRead
  /\ UNCHANGED <<out, transit, eof, alive, last, issued>>

(* run_get_state_machine (run_get_drain_mio on mio): an unexpected type       *)
(* leaves the stream in the middle of a reply, so the connection is poisoned. *)
GetUnexpected ==
  /\ cur.mode = "get" /\ inbound # <<>>
  /\ inbound[1].part \notin {"head", "nil", "error"}
  /\ inbound' = <<MidReply(Head(inbound))>> \o Tail(inbound)
  /\ alive' = FALSE
  /\ client' = Cleared(client)
  /\ cur' = NoRead
  /\ UNCHANGED <<out, transit, eof, last, issued>>

-----------------------------------------------------------------------------
(* What recv makes of a reply, by the kind of the pending request. *)
RecvAccepts == [get |-> Bulk, set |-> {"simple", "null"}, del |-> Integer]

(* recv_meta and recv_get_* when the oldest pending request is a GET: its    *)
(* value is read in place.  (recv_meta reads any other reply as recv does.)  *)
RecvMeta ==
  /\ client.pending # <<>> /\ client.pending[1].kind = "get"
  /\ Recv("get", RecvAccepts)

(* recv_get_segments and recv_get_discard when it is not: the request is     *)
(* popped, flushed_count keeps counting it and its reply is left to be read. *)
RecvGetOther ==
  /\ cur = NoRead /\ Fault("misuse")
  /\ client.pending # <<>> /\ client.pending[1].kind # "get"
  /\ \E ok \in SendOutcomes :
       LET c == Flushed(client, ok)
           failed == client.write_buf # <<>> /\ ~ok
       IN  /\ out' = out \o Sent(client, ok)
           /\ client' = IF failed \/ c.pending = <<>> THEN c ELSE Astray([c EXCEPT !.pending = Tail(@)])
  /\ UNCHANGED <<transit, inbound, eof, alive, cur, last, issued>>

(* A Redis server: a value, a miss or an error for a GET, one value for      *)
(* anything else; a reply of another type, or garbage, when it is faulty.    *)
GetReplies == {<<"head", "body", "tail">>, <<"nil">>, <<"error">>}
OtherReplies == {<<"simple">>, <<"int">>, <<"bulks", "bulks">>}
FaultyReplies == {<<"bulks", "bulks">>, <<"bad">>}

RedisServer ==
  /\ out # <<>> /\ out[1].kind \notin {"open", "close"}
  /\ \E parts \in (IF out[1].kind = "get" THEN GetReplies ELSE OtherReplies)
                   \union (IF Fault("server") THEN FaultyReplies ELSE {}) : Answer(parts)

RedisNext ==
  \/ \E kind \in {"get", "set", "del"} : Fire(kind, FALSE)
  \/ Fire("set", TRUE)
  \/ Flush
  \/ Recv("value", RecvAccepts)
  \/ RecvMeta \/ RecvGetOther
  \/ Execute \/ PipelineExecute \/ GetStream(Bulk)
  \/ ReadValue \/ ReadProtocolError \/ ReadClosed \/ CancelRead
  \/ GetUnexpected \/ GetHeaderOnly \/ GetHeader \/ GetValue \/ GetTrailing
  \/ StreamUnexpected \/ GetClosed \/ DropValueStream
  \/ SetStream({"simple", "null"}) \/ SetStreamDone \/ SetStreamMismatch
  \/ RedisServer \/ AnswerStreamedSet("simple") \/ Arrive \/ PeerEof
=============================================================================
