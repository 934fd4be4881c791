--------------------------------- MODULE Http1 ---------------------------------
(***************************************************************************)
(* ringline-http over HTTP/1.1: H1Conn (send_request, the streaming         *)
(* response, the header and chunk parsers), the content decoding, and the    *)
(* Pool of HttpClients that lends its connections one at a time.             *)
(*                                                                          *)
(* Bytes are units: a unit of the header section, of a body, of a trailer,   *)
(* or one framing line.  Every unit remembers the request it answers.  The   *)
(* network hands the client any prefix of what is on the way at a time.      *)
(***************************************************************************)
EXTENDS Integers, Sequences, FiniteSets, SequencesExt

CONSTANTS
  POOL_SIZE,             \* PoolConfig::pool_size
  H1Setups,              \* what the application and the server do in the behaviours checked
  max_header_section, max_body_size, max_chunk_size, max_trailer_section, max_decompressed_size,
  Expansion,             \* how much a compressed unit expands
  MaxRequests            \* bound: requests made

VARIABLES
  h1setup,   \* answers (the responses the server may give), ops (the calls made: "send", "stream"),
             \* dies (the server may drop a connection), keeps (the application may keep a
             \* connection after an error)
  pool,      \* Pool: slots, next
  conns,     \* per slot: wire (on the way), inbox (the accumulator), eof, willClose;
             \* ghost: behind, why bytes of an earlier response may be left on it
  exchange,  \* the one call in flight, or NoExchange: the pool is borrowed exclusively
  answered   \* the outcome of every request so far

h1Vars == <<h1setup, pool, conns, exchange, answered>>

NoExchange == [phase |-> "none"]
Slots1 == 0 .. POOL_SIZE - 1
Fresh == [wire |-> <<>>, inbox |-> <<>>, eof |-> FALSE, willClose |-> FALSE, behind |-> {}]

H1Init ==
  /\ h1setup \in H1Setups
  /\ pool = [slots |-> [s \in Slots1 |-> "Disconnected"], next |-> 0]
  /\ conns = [s \in Slots1 |-> Fresh]
  /\ exchange = NoExchange
  /\ answered = <<>>

(* ------------------------------ what is on the wire ---------------------- *)

Unit(t, n, req) == [t |-> t, n |-> n, req |-> req]
Units(t, n, req) == [i \in 1 .. n |-> Unit(t, 0, req)]

ChunkUnits(n, req) == <<Unit("size", n, req)>> \o Units("body", n, req) \o <<Unit("crlf", 0, req)>>

(* A body may quote a response: its last unit reads like a whole header section. *)
Quoted ==
  [version |-> 11, nobody |-> FALSE, lengths |-> <<>>, codings |-> <<>>, close |-> FALSE, keepAlive |-> FALSE,
   encoding |-> "none", malformed |-> FALSE]

QuoteUnits(n, req) ==
  Units("body", n - 1, req) \o <<[t |-> "body", n |-> 0, req |-> req, answer |-> Quoted]>>

Framed(a, req) ==
  IF a.chunks = <<>> THEN IF a.quotes THEN QuoteUnits(a.body, req) ELSE Units("body", a.body, req)
  ELSE FlattenSeq([i \in DOMAIN a.chunks |-> ChunkUnits(a.chunks[i], req)])
       \o <<Unit("size", 0, req)>> \o Units(a.trailer, 1, req) \o <<Unit("crlf", 0, req)>>

OnTheWire(a, req) ==
  Units("head", a.head, req) \o <<[t |-> "end", n |-> 0, req |-> req, answer |-> a]>> \o Framed(a, req)

BodyOf(a) == IF a.chunks = <<>> THEN a.body ELSE FoldSeq(+, 0, a.chunks)

(* ------------------------------ parsing ---------------------------------- *)

(* find_header_end, over what has not been searched yet, finds the first blank line. *)
HeaderEnd(data) == SelectInSeq(data, LAMBDA u : "answer" \in DOMAIN u)

(* parse_response_headers: the status line and fields, then the framing rules. *)
Chunked(a) == a.codings # <<>>
BadFraming(a) ==
  \/ \E i \in DOMAIN a.codings : a.codings[i] # "chunked"
  \/ Chunked(a) /\ a.lengths # <<>>
  \/ \E i \in DOMAIN a.lengths : a.lengths[i] # a.lengths[1]

(* A status line and fields: those of a response, or what a body quotes. *)
HeaderText(section) ==
  \/ section[1].t = "head" /\ \A i \in DOMAIN section : section[i].t \in {"head", "end"} /\ section[i].req = section[1].req
  \/ section[1].t = "body" /\ Len(section) = 1

ParseResponseHeaders(section) ==
  LET a == Last(section).answer
  IN  CASE ~HeaderText(section) \/ a.malformed -> "parse"
        [] BadFraming(a) -> "invalid"
        [] OTHER -> "ok"

PeerWillClose(a) == IF a.version = 10 THEN ~a.keepAlive ELSE a.close

(* decode_chunk: one chunk off the front of the buffer. *)
Chunk(kind, n, consumed) == [kind |-> kind, n |-> n, consumed |-> consumed]

DecodeLast(data) ==
  LET after == Tail(data)
      end   == SelectInSeq(after, LAMBDA u : u.t # "trailer")
  IN  CASE (IF end = 0 THEN Len(after) ELSE end - 1) > max_trailer_section -> Chunk("invalid", 0, 0)
        [] end = 0 -> Chunk("more", 0, 0)
        [] after[end].t # "crlf" -> Chunk("invalid", 0, 0)
        [] OTHER -> Chunk("last", 0, end + 1)

DecodeChunk(data) ==
  CASE data = <<>> -> Chunk("more", 0, 0)
    [] data[1].t # "size" \/ data[1].n > max_chunk_size -> Chunk("invalid", 0, 0)
    [] data[1].n = 0 -> DecodeLast(data)
    [] Len(data) < data[1].n + 2 -> Chunk("more", 0, 0)
    [] data[data[1].n + 2].t # "crlf" -> Chunk("invalid", 0, 0)
    [] OTHER -> Chunk("chunk", data[1].n, data[1].n + 2)

(* compress::decompress: the body, or the error, with its size capped. *)
Decompress(encoding, n) ==
  CASE encoding = "identity" -> IF n > max_decompressed_size THEN "too_large" ELSE "ok"
    [] encoding = "gzip" /\ n = 0 -> "decompress"
    [] encoding = "gzip" -> IF n * Expansion > max_decompressed_size THEN "too_large" ELSE "ok"
    [] OTHER -> "decompress"

(* ------------------------------ the connection --------------------------- *)

Conn == conns[exchange.slot]

Outcome(status) ==
  [kind |-> exchange.kind, req |-> exchange.req, answer |-> exchange.answer, status |-> status,
   body |-> exchange.got, behind |-> Conn.behind]

(* The call is over: Ok with the body it has, or an error. *)
Over(status) ==
  /\ answered' = Append(answered, Outcome(status))
  /\ exchange' = [exchange EXCEPT !.phase = "done", !.failed = status # "ok"]

(* with_data's closure took the first n units of the accumulator. *)
Consume(n) == conns' = [conns EXCEPT ![exchange.slot].inbox = SubSeq(@, n + 1, Len(@))]

Readable == Conn.inbox # <<>>
AtEof == Conn.inbox = <<>> /\ Conn.wire = <<>> /\ Conn.eof

SendAndParseHeaders(kind, a) ==
  LET req == Len(answered) + 1
  IN
  /\ exchange.phase = "lent" /\ req <= MaxRequests
  /\ exchange' = [exchange EXCEPT !.phase = "headers", !.kind = kind, !.req = req, !.answer = a]
  /\ conns' = IF Conn.eof THEN conns
              ELSE [conns EXCEPT ![exchange.slot].wire = @ \o OnTheWire(a, req),
                                 ![exchange.slot].eof = a.version = 10 \/ a.close]
  /\ UNCHANGED <<h1setup, pool, answered>>

(* A request the validators refuse is never serialized; a send_nowait may fail. *)
RefusedUnsent(kind) ==
  /\ exchange.phase = "lent" /\ Len(answered) < MaxRequests
  /\ answered' = Append(answered, [kind |-> kind, req |-> Len(answered) + 1, answer |-> {}, status |-> "refused",
                                   body |-> <<>>, behind |-> Conn.behind])
  /\ exchange' = [exchange EXCEPT !.phase = "done", !.failed = TRUE]
  /\ UNCHANGED <<h1setup, pool, conns>>

(* What follows the headers: the body state of either kind of response. *)
BodyModeLengthFirst(a, kind) ==
  CASE a.lengths # <<>> -> IF a.lengths[1] > max_body_size THEN "too_large" ELSE "length"
    [] a.nobody -> "nothing"
    [] Chunked(a) -> "chunked"
    [] kind = "send" /\ (a.version = 10 \/ PeerWillClose(a)) -> "close"
    [] OTHER -> "nothing"

BodyMode(a, kind) ==
  CASE a.nobody -> "nothing"
    [] a.lengths # <<>> -> IF a.lengths[1] > max_body_size THEN "too_large" ELSE "length"
    [] Chunked(a) -> "chunked"
    [] kind = "send" /\ (a.version = 10 \/ PeerWillClose(a)) -> "close"
    [] OTHER -> "nothing"

(* What H1StreamState::ContentLength starts with. *)
Remaining(a, leftover) == IF a.lengths = <<>> THEN 0 ELSE IF a.lengths[1] > Len(leftover)
                          THEN a.lengths[1] - Len(leftover) ELSE 0

HeadersParsed(a, leftover) ==
  LET mode == BodyMode(a, exchange.kind)
  IN
  /\ conns' = [conns EXCEPT ![exchange.slot].inbox = <<>>, ![exchange.slot].willClose = PeerWillClose(a)]
  /\ IF mode = "too_large" THEN Over("too_large")
     ELSE /\ exchange' = [exchange EXCEPT !.phase = "body", !.mode = mode, !.leftover = leftover, !.encoding = a.encoding,
                                  !.target = IF a.lengths = <<>> THEN 0 ELSE a.lengths[1],
                                  !.remaining = Remaining(a, leftover), !.early = leftover # <<>>]
          /\ UNCHANGED answered

ReadHeaders ==
  LET data == Conn.inbox
      end  == HeaderEnd(data)
  IN
  /\ exchange.phase = "headers" /\ Readable
  /\ CASE Len(data) > max_header_section -> Consume(Len(data)) /\ Over("too_large")
       [] end = 0 -> Conn.eof /\ Conn.wire = <<>> /\ Over("closed") /\ UNCHANGED conns
       [] ParseResponseHeaders(SubSeq(data, 1, end)) # "ok" ->
            Consume(Len(data)) /\ Over(ParseResponseHeaders(SubSeq(data, 1, end)))
       [] OTHER -> HeadersParsed(data[end].answer, SubSeq(data, end + 1, Len(data)))
  /\ UNCHANGED <<h1setup, pool>>

(* ------------------------------ send_request's body ---------------------- *)

Bodies(units) == SelectSeq(units, LAMBDA u : u.t = "body")

(* The body is complete; decompress it and return it. *)
Complete(body) ==
  LET status == IF exchange.encoding = "none" THEN "ok" ELSE Decompress(exchange.encoding, Len(body))
  IN  /\ answered' = Append(answered, [Outcome(status) EXCEPT !.body = body])
      /\ exchange' = [exchange EXCEPT !.phase = "done", !.failed = status # "ok"]

(* One more read into body_buf, or into the undecoded rest of a chunked body. *)
ReadMore ==
  /\ Readable
  /\ exchange' = [exchange EXCEPT !.leftover = @ \o Conn.inbox]
  /\ Consume(Len(Conn.inbox))
  /\ UNCHANGED answered

BufferedLengthShort ==
  IF Len(exchange.leftover) >= exchange.target \/ AtEof THEN Complete(exchange.leftover) /\ UNCHANGED conns
  ELSE ReadMore

BufferedLength ==
  IF Len(exchange.leftover) >= exchange.target THEN Complete(SubSeq(exchange.leftover, 1, exchange.target)) /\ UNCHANGED conns
  ELSE ReadMore \/ (AtEof /\ Over("closed") /\ UNCHANGED conns)

BufferedClose ==
  IF Len(exchange.leftover) > max_body_size THEN Over("too_large") /\ UNCHANGED conns
  ELSE ReadMore \/ (AtEof /\ Complete(exchange.leftover) /\ UNCHANGED conns)

TakeChunk(c) ==
  /\ exchange' = [exchange EXCEPT !.got = @ \o Bodies(SubSeq(exchange.leftover, 1, c.consumed)),
                          !.leftover = SubSeq(@, c.consumed + 1, Len(@))]
  /\ UNCHANGED <<answered, conns>>

BufferedChunked ==
  LET c == DecodeChunk(exchange.leftover)
  IN  CASE c.kind = "more" -> ReadMore \/ (AtEof /\ Over("closed") /\ UNCHANGED conns)
        [] c.kind = "invalid" -> Over("invalid") /\ UNCHANGED conns
        [] Len(exchange.got) + c.n > max_body_size -> Over("too_large") /\ UNCHANGED conns
        [] c.kind = "last" -> Complete(exchange.got) /\ UNCHANGED conns
        [] OTHER -> TakeChunk(c)

SendRequestBody ==
  /\ exchange.phase = "body" /\ exchange.kind = "send"
  /\ \/ exchange.mode = "nothing" /\ Complete(<<>>) /\ UNCHANGED conns
     \/ exchange.mode = "length" /\ BufferedLength
     \/ exchange.mode = "close" /\ BufferedClose
     \/ exchange.mode = "chunked" /\ BufferedChunked
  /\ UNCHANGED <<h1setup, pool>>

(* ------------------------------ next_chunk ------------------------------- *)

Less(n, k) == IF n > k THEN n - k ELSE 0

(* H1StreamState::ContentLength: the leftover first, then what is read, up to remaining. *)
StreamLength ==
  LET rem  == exchange.remaining
      take == IF Len(Conn.inbox) < rem THEN Len(Conn.inbox) ELSE rem
  IN
  CASE exchange.leftover # <<>> ->
         /\ exchange' = [exchange EXCEPT !.got = @ \o exchange.leftover, !.leftover = <<>>,
                                 !.remaining = Less(@, Len(exchange.leftover))]
         /\ UNCHANGED <<conns, answered>>
    [] exchange.leftover = <<>> /\ rem = 0 -> Over("ok") /\ UNCHANGED conns
    [] OTHER ->
         \/ /\ Readable
            /\ exchange' = [exchange EXCEPT !.got = @ \o SubSeq(Conn.inbox, 1, take), !.remaining = @ - take]
            /\ Consume(take)
            /\ UNCHANGED answered
         \/ AtEof /\ Over("closed") /\ UNCHANGED conns

StreamChunked ==
  LET c == DecodeChunk(exchange.leftover)
  IN  CASE c.kind = "more" -> ReadMore \/ (AtEof /\ Over("closed") /\ UNCHANGED conns)
        [] c.kind = "invalid" -> Over("invalid") /\ UNCHANGED conns
        [] c.kind = "last" -> Over("ok") /\ UNCHANGED conns
        [] OTHER -> TakeChunk(c)

NextChunk ==
  /\ exchange.phase = "body" /\ exchange.kind = "stream"
  /\ \/ exchange.mode = "nothing" /\ Over("ok") /\ UNCHANGED conns
     \/ exchange.mode = "length" /\ StreamLength
     \/ exchange.mode = "chunked" /\ StreamChunked
  /\ UNCHANGED <<h1setup, pool>>

(* Reading headers at the end of the stream. *)
HeadersEof ==
  /\ exchange.phase = "headers" /\ AtEof
  /\ Over("closed")
  /\ UNCHANGED <<h1setup, pool, conns>>

(* ------------------------------ the pool --------------------------------- *)

SlotAfter(i) == (pool.next + i) % POOL_SIZE

(* Pool::client: the first slot, from the cursor, that is connected or can be. *)
Client1(fails) ==
  LET usable == {i \in Slots1 : ~(pool.slots[SlotAfter(i)] = "Disconnected" /\ SlotAfter(i) \in fails)}
      idx    == SlotAfter(CHOOSE i \in usable : \A j \in usable : i <= j)
  IN
  /\ exchange = NoExchange /\ Len(answered) < MaxRequests
  /\ usable # {}
  /\ pool' = [pool EXCEPT !.slots[idx] = "Connected", !.next = (idx + 1) % POOL_SIZE]
  /\ conns' = IF pool.slots[idx] = "Connected" THEN conns ELSE [conns EXCEPT ![idx] = Fresh]
  /\ exchange' = [phase |-> "lent", slot |-> idx, kind |-> "", req |-> 0, answer |-> {}, mode |-> "", encoding |-> "",
              target |-> 0, remaining |-> 0, leftover |-> <<>>, got |-> <<>>, failed |-> FALSE, early |-> FALSE]
  /\ UNCHANGED <<h1setup, answered>>

(* Every slot failed: AllConnectionsFailed, with the cursor back where it was. *)
AllConnectionsFailed ==
  /\ exchange = NoExchange /\ Len(answered) < MaxRequests
  /\ \A s \in Slots1 : pool.slots[s] = "Disconnected"
  /\ answered' = Append(answered, [kind |-> "client", req |-> Len(answered) + 1, answer |-> {},
                                   status |-> "all_failed", body |-> <<>>, behind |-> {}])
  /\ UNCHANGED <<h1setup, pool, conns, exchange>>

Close1(slots, kept) ==
  /\ pool' = [pool EXCEPT !.slots = [s \in Slots1 |-> IF s \in slots THEN "Disconnected" ELSE @[s]]]
  /\ conns' = [s \in Slots1 |-> IF s \in slots THEN Fresh ELSE kept[s]]

(* Mutant: the guard never recycles. *)
RecycledNever == {}

Recycled == IF conns[exchange.slot].willClose THEN {exchange.slot} ELSE {}

(* Ghost: what the call leaves a kept connection behind with.  A call that failed or was  *)
(* dropped stopped reading anywhere; a streamed Content-Length body that began to arrive  *)
(* with the headers is counted short by send_request_streaming and again by next_chunk.   *)
LeftBehind ==
  (IF exchange.failed \/ exchange.phase # "done" THEN {"given_up"} ELSE {})
  \union (IF exchange.kind = "stream" /\ exchange.mode = "length" /\ exchange.early THEN {"short"} ELSE {})

(* Drop for PooledClient, which recycles only what the peer will close; after an error or *)
(* a dropped call the application may also call mark_disconnected with the slot, as        *)
(* PooledClient::slot's comment has it, or keep the connection.                            *)
DropPooledClient(mark) ==
  /\ exchange.phase \in {"headers", "body", "done"}
  /\ IF exchange.failed \/ exchange.phase # "done" THEN mark \/ h1setup.keeps ELSE ~mark
  /\ Close1(Recycled \union (IF mark THEN {exchange.slot} ELSE {}),
            [conns EXCEPT ![exchange.slot].behind = @ \union LeftBehind])
  /\ exchange' = NoExchange
  /\ answered' = IF exchange.phase = "done" THEN answered ELSE Append(answered, Outcome("dropped"))
  /\ UNCHANGED h1setup

CloseAll1 ==
  /\ exchange = NoExchange /\ \E s \in Slots1 : pool.slots[s] = "Connected"
  /\ Close1(Slots1, conns)
  /\ UNCHANGED <<h1setup, exchange, answered>>

(* ------------------------------ the network ------------------------------ *)

Deliver1(s, k) ==
  /\ exchange.phase \notin {"none", "done", "lent"} /\ s = exchange.slot
  /\ k <= Len(conns[s].wire)
  /\ conns' = [conns EXCEPT ![s].wire = SubSeq(@, k + 1, Len(@)), ![s].inbox = @ \o SubSeq(conns[s].wire, 1, k)]
  /\ UNCHANGED <<h1setup, pool, exchange, answered>>

ServerDies(s) ==
  /\ h1setup.dies /\ pool.slots[s] = "Connected" /\ ~conns[s].eof
  /\ \E k \in 0 .. Len(conns[s].wire) : conns' = [conns EXCEPT ![s].wire = SubSeq(@, 1, k), ![s].eof = TRUE]
  /\ UNCHANGED <<h1setup, pool, exchange, answered>>

H1Done == exchange = NoExchange /\ Len(answered) = MaxRequests /\ UNCHANGED h1Vars

H1Next ==
  \/ \E fails \in SUBSET Slots1 : Client1(fails)
  \/ AllConnectionsFailed
  \/ \E kind \in h1setup.ops, a \in h1setup.answers : SendAndParseHeaders(kind, a)
  \/ \E kind \in h1setup.ops : RefusedUnsent(kind)
  \/ ReadHeaders
  \/ HeadersEof
  \/ SendRequestBody
  \/ NextChunk
  \/ \E mark \in BOOLEAN : DropPooledClient(mark)
  \/ CloseAll1
  \/ \E s \in Slots1 : ServerDies(s) \/ \E k \in 1 .. Len(conns[s].wire) : Deliver1(s, k)
  \/ H1Done

H1Spec == H1Init /\ [][H1Next]_h1Vars

(* ------------------------------ properties ------------------------------- *)

Own(r) == \A i \in DOMAIN r.body : r.body[i].t = "body" /\ r.body[i].req = r.req

(* A response that ends with the connection cannot show that it was cut short. *)
EndsWithTheConnection(a) == a.lengths = <<>> /\ ~Chunked(a)

Whole(r) == Len(r.body) = IF r.answer.nobody THEN 0 ELSE BodyOf(r.answer)

(* send_request returns Ok only with the whole body of its own response, whatever the     *)
(* sizes of the reads were; and a streamed response hands out units of its own body only   *)
(* (body_buf.truncate, decode_chunk's consumed).  The exception is a connection that was   *)
(* behind when the request was sent: see KeptInStep for how it gets there.                 *)
ResponseIsOwnAndWhole ==
  \A i \in DOMAIN answered : LET r == answered[i] IN
    r.status = "ok" /\ r.behind = {} =>
      /\ Own(r)
      /\ r.kind = "send" /\ ~(h1setup.dies /\ EndsWithTheConnection(r.answer)) => Whole(r)

(* A connection the pool keeps has nothing unread on it, so that the next response starts  *)
(* where the last one ended (Drop for PooledClient's recycling, decode_chunk's consumed,    *)
(* body_buf.truncate).  Two ways out: a call that failed or was dropped, whose slot the     *)
(* caller did not mark_disconnected (pool.rs:206, 237), and a streamed Content-Length body  *)
(* of which a part came with the headers (h1_conn.rs:303 and 565 count that part twice).    *)
(* There the next response is refused, or taken from what was left.                         *)
KeptInStep ==
  \A s \in Slots1 :
    pool.slots[s] = "Connected" /\ (exchange.phase = "none" \/ exchange.phase = "lent") /\ conns[s].behind = {}
      => conns[s].wire = <<>> /\ conns[s].inbox = <<>>

(* next_chunk: "Yield the next body chunk, or `None` when the body is complete." *)
NoneMeansComplete ==
  \A i \in DOMAIN answered : LET r == answered[i] IN
    r.status = "ok" /\ r.kind = "stream" => Whole(r)

(* "cap on the response header section size (status line + all header fields up to the   *)
(* blank line)": only a header section over the cap, or a body over its cap, is refused    *)
(* for its size (bytes_seen in send_and_parse_headers).                                    *)
OnlyHeadersCount ==
  \A i \in DOMAIN answered : LET r == answered[i] IN
    r.status = "too_large" => r.answer.head + 1 > max_header_section \/ BodyOf(r.answer) > max_body_size
                              \/ r.answer.encoding # "none"

(* A call waits for bytes only while the server has some to send or will close: no        *)
(* response framing makes it wait for ever (response_has_no_body, the order of the tests   *)
(* in send_request).                                                                       *)
NeverWaitsForNothing ==
  exchange.phase \in {"headers", "body"} /\ Conn.wire = <<>> /\ ~Conn.eof =>
    ENABLED (ReadHeaders \/ SendRequestBody \/ NextChunk)

(* What a call of the HTTP/1 client is owed (send_request, send_request_streaming,         *)
(* next_chunk): a good response is its own and whole, the connection it leaves to the next *)
(* one is in step, and no call waits for ever; with the exceptions named at each.          *)
ResponsesTrue == ResponseIsOwnAndWhole /\ KeptInStep /\ NeverWaitsForNothing
=============================================================================
