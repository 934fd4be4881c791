----------------------------- MODULE MCProtocols -----------------------------
(***************************************************************************)
(* The protocol connections for TLC: an HTTP/2 client connection and a gRPC *)
(* channel over the same HTTP/2 state machine, the header compression of   *)
(* HTTP/2 and of HTTP/3, an HTTP/1 pool, an HTTP/3 connection and a QUIC   *)
(* endpoint.  They share nothing but H2, so a behaviour runs one of them   *)
(* and leaves the others as they were made.                                *)
(***************************************************************************)
EXTENDS H2Client, Grpc, Hpack, Qpack, Http1, H3, Quic, TLC

CONSTANTS n1, n2, v1, v2

VARIABLE part

(* ------------------------------ HTTP/2 and gRPC -------------------------- *)

HttpConn(local, initial, max, faults, bodies, ops) ==
  [local |-> local, initial |-> initial, max |-> max, faults |-> faults, bodies |-> bodies,
   response |-> 2, maxBody |-> IF bodies = {0} THEN 1 ELSE 2, ops |-> ops, requests |-> 2]

MCHttp ==
  {HttpConn(3, 3, NoLimit, {"reset"}, {2}, {"fire"}), HttpConn(3, 3, NoLimit, {"drop"}, {0}, {"headers"}),
   [HttpConn(3, 2, NoLimit, {"settings", "ping"}, {2}, {"fire"}) EXCEPT !.response = 1],
   HttpConn(3, 3, NoLimit, {"goaway"}, {0}, {"fire"}),
   HttpConn(3, 3, NoLimit, {"bad"}, {0}, {"recv_stream"}), HttpConn(3, 3, NoLimit, {"send"}, {0}, {"fire"}),
   HttpConn(4, 3, 1, {"split"}, {2}, {"fire"}), HttpConn(2, 3, NoLimit, {}, {0}, {"fire"})}

GrpcConn(local, faults, bodies, op, response, requests) ==
  [local |-> local, initial |-> 3, max |-> NoLimit, faults |-> faults, bodies |-> bodies,
   response |-> response, maxBody |-> 2, ops |-> {op}, requests |-> requests]

MCGrpc ==
  {GrpcConn(3, {"cancel"}, {2}, "unary", 2, 1), GrpcConn(3, {"reset", "settings"}, {1}, "stream", 1, 1),
   GrpcConn(3, {"goaway"}, {2}, "unary", 0, 2), GrpcConn(4, {"message"}, {1}, "unary", 4, 1),
   GrpcConn(3, {"bad"}, {1}, "unary", 1, 1)}

MCConnections == MCHttp \union MCGrpc

(* ------------------------------ HPACK ------------------------------------ *)

Field(n, v) == [name |-> n, value |-> v]

MCStaticTable == <<Field(n1, v1), Field(n1, v2)>>

MCHeaderLists ==
  {<<Field(n1, v1), Field(n1, n2)>>, <<Field(n2, v1)>>, <<Field(n1, n2), Field(n2, v2)>>}

MCWeight ==
  [f \in {Field(n1, v1), Field(n1, n2), Field(n2, v1), Field(n2, v2)} |-> IF f.value = v2 THEN 2 ELSE 1]

(* ------------------------------ QPACK ------------------------------------ *)

Word(n) == [i \in 1 .. n |-> 96 + i]     \* shorter when Huffman coded
Rare(n) == [i \in 1 .. n |-> 200]        \* longer

QField(name, value) == [name |-> name, value |-> value]

MCQTable == [i \in 1 .. 70 |-> QField(IF i = 2 THEN <<1>> ELSE <<i>>, IF i % 2 = 0 THEN <<>> ELSE <<i>>)]

MCFields ==
  {QField(<<1>>, <<1>>), QField(<<64>>, <<>>), QField(<<63>>, <<63>>), QField(<<15>>, Word(3)),
   QField(<<16>>, Rare(2)), QField(Word(6), <<>>), QField(Rare(6), Word(9)), QField(Rare(7), Rare(1)),
   QField(Rare(8), <<48>>), QField(Word(11), Rare(9))}

(* ------------------------------ HTTP/1 ----------------------------------- *)

Answer1(version, nobody, lengths, codings, body, chunks) ==
  [version |-> version, nobody |-> nobody, lengths |-> lengths, codings |-> codings, close |-> FALSE,
   keepAlive |-> FALSE, encoding |-> "none", malformed |-> FALSE, head |-> 1, body |-> body,
   chunks |-> chunks, trailer |-> "trailer", quotes |-> FALSE]

MCAnswers ==
  {[Answer1(11, FALSE, <<2>>, <<>>, 2, <<>>) EXCEPT !.quotes = TRUE], Answer1(11, FALSE, <<>>, <<"chunked">>, 0, <<1>>),
   Answer1(10, FALSE, <<>>, <<>>, 1, <<>>), Answer1(11, TRUE, <<2>>, <<>>, 0, <<>>),
   Answer1(11, FALSE, <<1>>, <<"chunked">>, 1, <<>>),
   [Answer1(11, FALSE, <<1>>, <<>>, 1, <<>>) EXCEPT !.encoding = "gzip"],
   [Answer1(11, FALSE, <<>>, <<"chunked">>, 0, <<2>>) EXCEPT !.encoding = "identity", !.trailer = "bad"]}

H1Setup(answers, dies, keeps) ==
  [answers |-> answers, ops |-> {"send", "stream"}, dies |-> dies, keeps |-> keeps]

MCH1Setups ==
  {H1Setup(MCAnswers, TRUE, FALSE), H1Setup({a \in MCAnswers : a.quotes \/ a.nobody}, FALSE, TRUE)}

(* ------------------------------ HTTP/3 and QUIC -------------------------- *)

H3Setup(role, faults, window, requests, inbound) ==
  [role |-> role, faults |-> faults, window |-> window, requests |-> requests, inbound |-> inbound]

Messages3 == {<<"h", "d1", "d2">>, <<"h", "unknown", "d", "t">>, <<"h", "settings">>}

MCH3Setups ==
  {H3Setup("client", {}, 1, 2, {<<"h">>}), H3Setup("client", {"reset", "stop"}, 1, 1, Messages3),
   H3Setup("server", {"stop", "goaway"}, 1, 1, Messages3), H3Setup("server", {"reset"}, 1, 1, {<<"h", "d1">>}),
   H3Setup("server", {"lost", "twice", "control"}, 2, 0, {}),
   H3Setup("client", {"zero_rtt"}, 1, 1, {<<"h", "d">>})}

MCControlFrames == {<<"settings", "goaway">>, <<"unknown">>}

QuicSetup(lives, reports, depth) == [lives |-> lives, reports |-> reports, depth |-> depth]

MCQuicSetups == {QuicSetup(2, 0, 0), QuicSetup(1, 2, 2)}

(* ------------------------------ one at a time ---------------------------- *)

HttpOnly == UNCHANGED <<http, call, results>>
GrpcOnly == UNCHANGED <<grpc, calls>>

OneNet == setup = CHOOSE s \in Connections : TRUE
OneH1 == h1setup = CHOOSE s \in H1Setups : TRUE
OneH3 == h3setup = CHOOSE s \in H3Setups : TRUE
OneQuic == quicRun = CHOOSE s \in QuicSetups : TRUE

NoHttp == http = NewClient /\ call = NoCall /\ results = {}

MCInit ==
  /\ GrpcInit /\ HpackInit /\ QpackInit /\ H1Init /\ H3Init /\ QuicInit
  /\ \/ part = "http" /\ setup \in MCHttp /\ HttpInit /\ OneH1 /\ OneH3 /\ OneQuic
     \/ part = "grpc" /\ setup \in MCGrpc /\ NoHttp /\ OneH1 /\ OneH3 /\ OneQuic
     \/ part \in {"hpack", "qpack"} /\ OneNet /\ NoHttp /\ OneH1 /\ OneH3 /\ OneQuic
     \/ part = "http1" /\ OneNet /\ NoHttp /\ OneH3 /\ OneQuic
     \/ part = "h3" /\ OneNet /\ NoHttp /\ OneH1 /\ OneQuic
     \/ part = "quic" /\ OneNet /\ NoHttp /\ OneH1 /\ OneH3

MCNext ==
  \/ part = "http" /\ HttpNext /\ GrpcOnly /\ UNCHANGED <<part, hpackVars, qpackVars, h1Vars, h3Vars, quicVars>>
  \/ part = "grpc" /\ GrpcNext /\ HttpOnly /\ UNCHANGED <<part, hpackVars, qpackVars, h1Vars, h3Vars, quicVars>>
  \/ part = "hpack" /\ HpackNext /\ UNCHANGED <<part, httpVars, grpcVars, qpackVars, h1Vars, h3Vars, quicVars>>
  \/ part = "qpack" /\ QpackNext /\ UNCHANGED <<part, httpVars, grpcVars, hpackVars, h1Vars, h3Vars, quicVars>>
  \/ part = "http1" /\ H1Next /\ UNCHANGED <<part, httpVars, grpcVars, hpackVars, qpackVars, h3Vars, quicVars>>
  \/ part = "h3" /\ H3Next /\ UNCHANGED <<part, httpVars, grpcVars, hpackVars, qpackVars, h1Vars, quicVars>>
  \/ part = "quic" /\ QuicNext /\ UNCHANGED <<part, httpVars, grpcVars, hpackVars, qpackVars, h1Vars, h3Vars>>

(* Headers survive their coding: the HPACK tables of the two ends stay in    *)
(* step, and QPACK blocks and Huffman strings decode to what was encoded.    *)
HeadersInStep == TablesInStep /\ HeadersSurvive
==============================================================================
