------------------------------ MODULE Pipelined ------------------------------
(***************************************************************************)
(* The fire/recv pipeline that ringline-redis/src/lib.rs and               *)
(* ringline-memcache/src/lib.rs share: fire_* queues a request, perhaps    *)
(* behind others in the write buffer, recv pops the oldest pending request *)
(* and reads one reply for it.  Replies carry no name, so the position in  *)
(* the byte stream is all that ties a reply to its request.                *)
(*                                                                         *)
(* A reply is a sequence of pieces, each a part of it that a receive may   *)
(* end on.  The client is used through &mut, so it reads one thing at a    *)
(* time; bytes arrive, and the peer closes, at any moment.                 *)
(***************************************************************************)
EXTENDS Naturals, Sequences, SequencesExt, FiniteSetsExt

CONSTANTS MaxOps,     \* bound: requests issued on the connection
          MaxGuards,  \* MAX_FLUSH_GUARDS
          Clients     \* the ClientBuilder settings and faults to check

VARIABLES
  client,   \* settings, pending, flushed_count, write_buf; ghost: astray
  out,      \* requests on their way to the server, oldest first
  transit,  \* pieces of replies the server has written
  inbound,  \* pieces received and not consumed
  eof,      \* the peer has closed
  alive,    \* the client has not closed the connection
  cur,      \* the read in progress
  last,     \* ghost: request, reply and result of the read that finished last
  issued    \* ghost: number of requests issued

pipeVars == <<client, out, transit, inbound, eof, alive, cur, last, issued>>

NoRead == [mode |-> "none", ids |-> <<>>, accepts |-> {}]

PipeInit ==
  /\ \E c \in Clients :
       client = [proto |-> c.proto, batch |-> c.batch, in_flight |-> c.in_flight, faults |-> c.faults,
                 pending |-> <<>>, flushed_count |-> 0, write_buf |-> <<>>, astray |-> FALSE]
  /\ out = <<>> /\ transit = <<>> /\ inbound = <<>>
  /\ eof = FALSE /\ alive = TRUE
  /\ cur = NoRead
  /\ last = [op |-> 0, reply |-> 0, result |-> "none"]
  /\ issued = 0

Fault(f) == f \in client.faults

(* Whether a send may succeed or fail now. *)
SendOutcomes ==
  (IF alive THEN {TRUE} ELSE {}) \union (IF ~alive \/ Fault("send") THEN {FALSE} ELSE {})

Request(id, kind, guard) == [id |-> id, kind |-> kind, guard |-> guard]

-----------------------------------------------------------------------------
(* Mutant: a failed flush leaves the requests it never sent in pending. *)
FlushedKeepsPending(c, ok) ==
  IF c.write_buf = <<>> THEN c
  ELSE IF ok THEN [c EXCEPT !.flushed_count = Len(c.pending), !.write_buf = <<>>]
  ELSE [c EXCEPT !.write_buf = <<>>]

(* flush: the whole buffer goes out in one send.  When the send fails the   *)
(* buffer is discarded with the pending requests that were in it.           *)
Flushed(c, ok) ==
  IF c.write_buf = <<>> THEN c
  ELSE IF ok THEN [c EXCEPT !.flushed_count = Len(c.pending), !.write_buf = <<>>]
  ELSE [c EXCEPT !.write_buf = <<>>, !.pending = SubSeq(@, 1, c.flushed_count)]

Sent(c, ok) == IF ok THEN c.write_buf ELSE <<>>

(* pre_flush_if_needed: the batch would outgrow the guards of one send. *)
MustFlushFirst(c, guard) ==
  /\ c.write_buf # <<>>
  /\ Len(SelectSeq(c.write_buf, LAMBDA r : r.guard)) + (IF guard THEN 1 ELSE 0) > MaxGuards

(* A batch size of one sends a request without a guard directly; anything   *)
(* else is buffered.                                                        *)
Direct(c, r) == c.batch = 1 /\ ~r.guard /\ c.write_buf = <<>>

Appended(c, r) ==
  IF Direct(c, r)
  THEN [c EXCEPT !.pending = Append(@, r), !.flushed_count = @ + 1]
  ELSE [c EXCEPT !.pending = Append(@, r), !.write_buf = Append(@, r)]

(* fire_get, fire_set, fire_del and the guarded ones: flush first if the     *)
(* guards demand it, queue the request, flush if the batch is full.  A flush *)
(* that fails first returns before the request is queued; one that fails     *)
(* last takes the request with it; a failed direct send queues nothing.      *)
Fire(kind, guard) ==
  LET r == Request(issued + 1, kind, guard)
  IN  /\ cur = NoRead
      /\ issued < MaxOps
      /\ Len(client.pending) < client.in_flight
      /\ issued' = issued + 1
      /\ \E ok1, ok2 \in SendOutcomes :
           LET first == MustFlushFirst(client, guard)
               pre == IF first THEN Flushed(client, ok1) ELSE client
               added == IF Direct(pre, r) /\ ~ok2 THEN pre ELSE Appended(pre, r)
               full == ~Direct(pre, r) /\ Len(added.write_buf) >= added.batch
               after == IF full THEN Flushed(added, ok2) ELSE added
           IN  IF first /\ ~ok1
               THEN client' = pre /\ UNCHANGED out
               ELSE /\ client' = after
                    /\ out' = out \o (IF first THEN Sent(client, ok1) ELSE <<>>)
                                  \o (IF Direct(pre, r) /\ ok2 THEN <<r>> ELSE <<>>)
                                  \o (IF full THEN Sent(added, ok2) ELSE <<>>)
      /\ UNCHANGED <<transit, inbound, eof, alive, cur, last>>

(* flush() called by the user. *)
Flush ==
  /\ cur = NoRead
  /\ client.write_buf # <<>>
  /\ \E ok \in SendOutcomes :
       /\ client' = Flushed(client, ok)
       /\ out' = out \o Sent(client, ok)
  /\ UNCHANGED <<transit, inbound, eof, alive, cur, last, issued>>

(* Mutant: the request leaves the queue and stays counted as sent. *)
PoppedStillCounted(c) == [c EXCEPT !.pending = Tail(@)]

(* recv pops the oldest request before it awaits the reply. *)
Popped(c) == [c EXCEPT !.pending = Tail(@), !.flushed_count = IF @ = 0 THEN 0 ELSE @ - 1]

(* recv and recv_meta up to their await; an error of the flush returns. *)
Recv(mode, accepts) ==
  /\ cur = NoRead
  /\ \E ok \in SendOutcomes :
       LET c == Flushed(client, ok)
       IN  /\ out' = out \o Sent(client, ok)
           /\ IF (client.write_buf # <<>> /\ ~ok) \/ c.pending = <<>>
              THEN client' = c /\ UNCHANGED cur
              ELSE /\ client' = Popped(c)
                   /\ cur' = [mode |-> mode, ids |-> <<c.pending[1].id>>,
                              accepts |-> accepts[c.pending[1].kind]]
  /\ UNCHANGED <<transit, inbound, eof, alive, last, issued>>

(* A reply is owed that nobody will read: the promises end here. *)
Astray(c) == [c EXCEPT !.astray = TRUE]

(* The connection is broken: nothing pending will be answered. *)
Cleared(c) == [c EXCEPT !.pending = <<>>, !.flushed_count = 0]

-----------------------------------------------------------------------------
LastPieces(s) == {k \in DOMAIN s : s[k].last}

(* What the caller makes of a reply that was read whole. *)
Classified(part) ==
  IF part = "error" THEN "error" ELSE IF part \in cur.accepts THEN "ok" ELSE "unexpected"

(* A whole reply is at the front: the parser consumes exactly that, and the  *)
(* read in progress gets it for the first id it waits for.  An error reply   *)
(* or an unexpected type is a whole value too, and the connection goes on.   *)
ReadValue ==
  /\ cur.mode \in {"value", "pipe", "set_reply"}
  /\ LastPieces(inbound) # {}
  /\ inbound[1].part # "bad"
  /\ inbound' = SubSeq(inbound, Min(LastPieces(inbound)) + 1, Len(inbound))
  /\ last' = [op |-> Head(cur.ids), reply |-> inbound[1].id,
              result |-> Classified(inbound[1].part)]
  /\ cur' = IF Len(cur.ids) = 1 THEN NoRead ELSE [cur EXCEPT !.ids = Tail(@)]
  /\ UNCHANGED <<client, out, transit, eof, alive, issued>>

(* Mutant: what does not parse is skipped and the read goes on. *)
ReadProtocolErrorSkips ==
  /\ cur.mode \in {"value", "pipe", "set_reply"}
  /\ inbound # <<>> /\ inbound[1].part = "bad"
  /\ inbound' = <<>>
  /\ UNCHANGED <<client, out, transit, eof, alive, cur, last, issued>>

(* Bytes no parser accepts: everything received is consumed, the connection  *)
(* is closed and the pipeline cleared.                                       *)
ReadProtocolError ==
  /\ cur.mode \in {"value", "pipe", "set_reply"}
  /\ inbound # <<>> /\ inbound[1].part = "bad"
  /\ inbound' = <<>>
  /\ alive' = FALSE
  /\ client' = Cleared(client)
  /\ cur' = NoRead
  /\ UNCHANGED <<out, transit, eof, last, issued>>

(* The connection ended before a whole reply came: ConnectionClosed. *)
ReadClosed ==
  /\ cur.mode \in {"value", "pipe", "set_reply"}
  /\ eof \/ ~alive
  /\ LastPieces(inbound) = {}
  /\ client' = Cleared(client)
  /\ alive' = (alive /\ cur.mode = "value")
  /\ cur' = NoRead
  /\ UNCHANGED <<out, transit, inbound, eof, last, issued>>

(* A timeout or select drops the future of a read in progress.  recv has     *)
(* popped its request and has no guard to put it back or to close.           *)
CancelRead ==
  /\ cur.mode # "none"
  /\ Fault("cancel")
  /\ client' = Astray(client)
  /\ cur' = NoRead
  /\ UNCHANGED <<out, transit, inbound, eof, alive, last, issued>>

-----------------------------------------------------------------------------
IdleConnection == cur = NoRead /\ client.pending = <<>> /\ client.write_buf = <<>>

(* Send n requests of a kind in one write and go to read in a mode. *)
Issue(n, kind, mode, accepts) ==
  LET ids == [k \in 1 .. n |-> issued + k]
  IN  /\ issued + n <= MaxOps
      /\ issued' = issued + n
      /\ \E ok \in SendOutcomes :
           IF ok
           THEN /\ out' = out \o [k \in 1 .. n |-> Request(ids[k], kind, FALSE)]
                /\ cur' = [mode |-> mode, ids |-> ids, accepts |-> accepts]
           ELSE UNCHANGED <<out, cur>>
      /\ UNCHANGED <<client, transit, inbound, eof, alive, last>>

(* get_stream, on a connection with nothing in flight. *)
GetStream(accepts) ==
  /\ IdleConnection

  /\ Issue(1, "get", "stream_head", accepts)

(* Header phase: a miss or a server error is the whole reply. *)
GetHeaderOnly ==
  /\ cur.mode \in {"get", "stream_head"} /\ inbound # <<>>
  /\ inbound[1].part \in {"nil", "error"}
  /\ inbound' = Tail(inbound)
  /\ last' = [op |-> Head(cur.ids), reply |-> inbound[1].id,
              result |-> Classified(inbound[1].part)]
  /\ cur' = NoRead
  /\ UNCHANGED <<client, out, transit, eof, alive, issued>>

(* get_stream drops what it received of a reply it does not understand and   *)
(* restores the read path; it does not close.                                *)
StreamUnexpected ==
  /\ cur.mode = "stream_head" /\ inbound # <<>>
  /\ inbound[1].part \notin {"head", "nil", "error"}
  /\ inbound' = Tail(inbound)
  /\ client' = Astray(client)
  /\ cur' = NoRead
  /\ UNCHANGED <<out, transit, eof, alive, last, issued>>

GetHeader ==
  /\ cur.mode \in {"get", "stream_head"} /\ inbound # <<>>
  /\ inbound[1].part = "head"
  /\ inbound' = Tail(inbound)
  /\ cur' = [cur EXCEPT !.mode = IF @ = "get" THEN "get_value" ELSE "stream_value"]
  /\ UNCHANGED <<client, out, transit, eof, alive, last, issued>>

(* Value phase: every byte shown is consumed, nothing is gathered. *)
GetValue ==
  /\ cur.mode \in {"get_value", "stream_value"} /\ inbound # <<>>
  /\ inbound[1].part = "body"
  /\ inbound' = Tail(inbound)
  /\ UNCHANGED <<client, out, transit, eof, alive, cur, last, issued>>

(* Trailing phase: the CRLF ends the reply, and the default read path is     *)
(* restored; what follows belongs to the next reply.                         *)
GetTrailing ==
  /\ cur.mode \in {"get_value", "stream_value"} /\ inbound # <<>>
  /\ inbound[1].part = "tail"
  /\ inbound' = Tail(inbound)
  /\ last' = [op |-> Head(cur.ids), reply |-> inbound[1].id, result |-> "ok"]
  /\ cur' = NoRead
  /\ UNCHANGED <<client, out, transit, eof, alive, issued>>

(* A short FIN is ConnectionClosed, never a truncated value.  The value      *)
(* stream is then dropped unfinished, which closes.                          *)
GetClosed ==
  /\ cur.mode \in {"get", "get_value", "stream_head", "stream_value"}
  /\ eof \/ ~alive
  /\ inbound = <<>>
  /\ alive' = (alive /\ cur.mode # "stream_value")
  /\ cur' = NoRead
  /\ UNCHANGED <<client, out, transit, inbound, eof, last, issued>>

(* Mutant: a stream dropped half read leaves the connection open. *)
DropValueStreamOpen ==
  /\ cur.mode = "stream_value"
  /\ cur' = NoRead
  /\ UNCHANGED <<client, out, transit, inbound, eof, alive, last, issued>>

(* ValueStream::drop before the value and its CRLF were consumed. *)
DropValueStream ==
  /\ cur.mode = "stream_value"
  /\ alive' = FALSE
  /\ cur' = NoRead
  /\ UNCHANGED <<client, out, transit, inbound, eof, last, issued>>

-----------------------------------------------------------------------------
(* set_stream writes the header, which declares the length. *)
SetStream(accepts) ==
  /\ IdleConnection
  /\ issued < MaxOps
  /\ issued' = issued + 1
  /\ \E ok \in SendOutcomes :
       IF ok
       THEN /\ out' = Append(out, Request(issued + 1, "open", FALSE))
            /\ cur' = [mode |-> "set_stream", ids |-> <<issued + 1>>, accepts |-> accepts]
            /\ UNCHANGED alive
       ELSE alive' = FALSE /\ UNCHANGED <<out, cur>>
  /\ UNCHANGED <<client, transit, inbound, eof, last>>

(* Exactly the declared bytes were pulled and sent: CRLF, and the reply. *)
SetStreamDone ==
  /\ cur.mode = "set_stream"
  /\ TRUE \in SendOutcomes
  /\ out' = Append(out, Request(cur.ids[1], "close", FALSE))
  /\ cur' = [cur EXCEPT !.mode = "set_reply"]
  /\ UNCHANGED <<client, transit, inbound, eof, alive, last, issued>>

(* Mutant: a length mismatch is reported and the connection kept. *)
SetStreamMismatchOpen ==
  /\ cur.mode = "set_stream"
  /\ cur' = NoRead
  /\ UNCHANGED <<client, out, transit, inbound, eof, alive, last, issued>>

(* The source gave too few bytes, too many, an error, or a send failed: part *)
(* of a frame is on the wire, so the connection is closed.                   *)
SetStreamMismatch ==
  /\ cur.mode = "set_stream"
  /\ alive' = FALSE
  /\ cur' = NoRead
  /\ UNCHANGED <<client, out, transit, inbound, eof, last, issued>>

-----------------------------------------------------------------------------
(* The peer answers its oldest whole request with the given parts. *)
Answer(parts) ==
  /\ ~eof
  /\ out # <<>>
  /\ transit' = transit \o [k \in DOMAIN parts |->
                  [id |-> out[1].id, n |-> k, part |-> parts[k], last |-> k = Len(parts)]]
  /\ out' = Tail(out)
  /\ UNCHANGED <<client, inbound, eof, alive, cur, last, issued>>

Arrive ==
  /\ transit # <<>> /\ ~eof /\ alive
  /\ inbound' = Append(inbound, Head(transit))
  /\ transit' = Tail(transit)
  /\ UNCHANGED <<client, out, eof, alive, cur, last, issued>>

PeerEof ==
  /\ ~eof
  /\ eof' = TRUE
  /\ UNCHANGED <<client, out, transit, inbound, alive, cur, last, issued>>

(* The whole frame of a streamed SET has arrived. *)
AnswerStreamedSet(part) ==
  /\ ~eof
  /\ Len(out) >= 2 /\ out[1].kind = "open" /\ out[2].kind = "close"
  /\ out' = Tail(Tail(out))
  /\ transit' = Append(transit, [id |-> out[1].id, n |-> 1, part |-> part, last |-> TRUE])
  /\ UNCHANGED <<client, inbound, eof, alive, cur, last, issued>>

-----------------------------------------------------------------------------
(* What the connection holds is well formed, and the queue keeps to its cap. *)
PipeTypeOK ==
  /\ client.astray \/ client.flushed_count \in 0 .. Len(client.pending)
  /\ Len(client.pending) <= client.in_flight
  /\ alive \in BOOLEAN /\ eof \in BOOLEAN
  /\ cur.mode # "none" => cur.ids # <<>>
  /\ issued \in 0 .. MaxOps

(* The promises below are for a connection still in use, until one of three  *)
(* calls leaves a reply behind: a read dropped before its reply came, a      *)
(* get_stream answered by no GET reply (neither puts the request back or     *)
(* closes), or recv_get_segments and recv_get_discard called when the oldest *)
(* request is not a GET.                                                     *)
InUse == alive /\ ~eof /\ ~client.astray

FirstIds(s) == [k \in DOMAIN SelectSeq(s, LAMBDA p : p.n = 1) |->
                  SelectSeq(s, LAMBDA p : p.n = 1)[k].id]
Ids(s) == [k \in DOMAIN s |-> s[k].id]

(* Whatever is fired, flushed, refused by the send path and received, the    *)
(* reply recv hands out is the reply to the request it hands it out for,     *)
(* until one of the three calls above left a reply behind.                   *)
ReplyMatchesRequest == ~client.astray => last.op = last.reply

(* Between reads, the pending requests counted as flushed are exactly those  *)
(* whose reply is still to be consumed, in order, and the others are exactly *)
(* the write buffer: flushed_count tells them apart, so that a failed flush  *)
(* discards the requests that were never sent and no other.                  *)
PendingIsOnTheWire ==
  InUse /\ cur.mode = "none" =>
    /\ Ids(SubSeq(client.pending, 1, client.flushed_count))
         = FirstIds(inbound) \o FirstIds(transit) \o Ids(out)
    /\ Ids(SubSeq(client.pending, client.flushed_count + 1, Len(client.pending)))
         = Ids(client.write_buf)

(* A connection is never handed back, open, in the middle of a reply: the    *)
(* next read would take the rest of the old reply for its own.               *)
NeverLeftMidReply ==
  InUse /\ cur.mode = "none" /\ inbound # <<>> => inbound[1].n = 1

(* No open connection is handed back with half a request on the wire: the    *)
(* server would take the next caller's bytes for the rest of the value.      *)
NoPartialFrameLeft ==
  InUse /\ cur.mode = "none" => \A k \in DOMAIN out :
    out[k].kind = "open" => k < Len(out) /\ out[k + 1].kind = "close"

(* Requests and replies stay in step through fire_*, flush, recv, get_stream *)
(* and set_stream: a reply is handed out for its own request, and a call     *)
(* that returns leaves the connection closed or at the start of a reply,     *)
(* with pending and the write buffer telling what is still owed.  All of it  *)
(* ends, in the code too, with a read dropped in mid-reply, with a reply to  *)
(* get_stream that is no GET's, and with recv_get_* called for a request     *)
(* that is not a GET: that call pops the request, returns UnexpectedResponse *)
(* and leaves flushed_count and the reply as they are                        *)
(* (ringline-redis/src/lib.rs:1404).                                         *)
RepliesInStep ==
  /\ PipeTypeOK
  /\ ReplyMatchesRequest /\ PendingIsOnTheWire
  /\ NeverLeftMidReply /\ NoPartialFrameLeft
=============================================================================
