------------------------------ MODULE MCWorker ------------------------------
(* What a worker does with completions, checked side by side: TCP receives, *)
(* connections that move between workers, disk I/O, the pools of threads,   *)
(* timers, UDP sockets, the copy pool, and the tokens, oneshots and         *)
(* combinators its tasks wait on.  A behaviour is one of its part; the      *)
(* others keep an initial state.                                            *)
EXTENDS UringRecv, Park, DiskIo, Offload, Timers, Udp, Signals, SendCopyPool

CONSTANTS h1, h2, id1

VARIABLE part

-----------------------------------------------------------------------------
R(slot, mode, bytes, fin, faults, len, nbufs, cap) ==
  [slot |-> slot, mode |-> mode, bytes |-> bytes, fin |-> fin, faults |-> faults, len |-> len,
   nbufs |-> nbufs, cap |-> cap]

Readers == {"data", "bytes", "segs", "owned", "chain", "sink"}

IdleRecv == R(<<1>>, <<"data">>, <<4>>, TRUE, {"term", "full"}, 2, 2, 2)

MCRecvSetups ==
  {R(<<1>>, <<mode>>, <<4>>, TRUE, {"term", "full"}, 2, 2, 2) : mode \in Readers \union {"echo", "held"}}
  \union {R(<<1>>, <<"echo">>, <<4>>, TRUE, {"slab", "full"}, 2, 2, 2), R(<<1>>, <<"held">>, <<2>>, TRUE, {"slab"}, 2, 2, 2)}
  \union {R(<<1>>, <<mode>>, <<4>>, TRUE, {"err", "drop"}, 2, 2, 2) : mode \in Readers}
  \union {R(<<1>>, <<"forward">>, <<4>>, FALSE, f, 3, 4, 2) : f \in {{}, {"drop"}, {"write"}}}
  \union {R(<<1>>, <<"forward">>, <<4>>, FALSE, {"term"}, 3, 2, 5)}
  \union {R(<<1, 1>>, <<mode, "data">>, <<2, 1>>, TRUE, {"drop"}, 2, 4, 2) : mode \in {"bytes", "segs", "owned"}}
  \union {R(<<1, 2>>, <<mode, "data">>, <<3, 2>>, TRUE, {}, 2, 2, 2) : mode \in {"segs", "sink", "echo", "held"}}

K(requests, slots, faults) == [requests |-> requests, slots |-> slots, faults |-> faults]

IdlePark == K(<<1, 1>>, 1, {})

MCParkSetups == {K(<<2>>, 1, {"fin"}), K(<<1>>, 1, {"fin", "closed"}), IdlePark}

D(backend, calls, files, cmds, faults) ==
  [backend |-> backend, calls |-> calls, files |-> files, cmds |-> cmds, faults |-> faults]

IdleDisk == D("uring", <<{"open"}, {"owned"}, {"owned"}>>, 1, 2, {"move"})

MCDiskSetups == {
  IdleDisk,
  D("uring", <<{"open"}, {"open", "owned"}, {"open", "read"}>>, 1, 1, {"ring", "nul"}),
  D("uring", <<{"stat"}, {"stat", "path"}, {"stat"}>>, 1, 1, {"move"}),
  D("uring", <<{"direct"}, {"direct"}>>, 1, 1, {"open", "move"}),
  D("uring", <<{"open"}, {"owned"}, {"nvme"}, {"stat"}>>, 1, 1, {}),
  D("uring", <<{"nvme"}, {"direct"}, {"nvme"}>>, 1, 1, {}),
  D("mio", <<{"open"}, {"open", "owned"}, {"open", "owned"}>>, 2, 1, {}),
  D("mio", <<{"stat", "path"}, {"stat", "path"}>>, 1, 1, {"nul", "move"}),
  D("mio", <<{"direct"}, {"direct"}>>, 1, 1, {"open"})}

O(threads, kinds, waits, faults) == [threads |-> threads, kinds |-> kinds, waits |-> waits, faults |-> faults]

IdleOffload == O(2, <<"spawn", "spawn">>, 1, {"fail"})

MCOffloadSetups == {
  IdleOffload,
  O(1, <<"resolve", "blocking", "resolve">>, 0, {"fail", "ring"}),
  O(1, <<"spawn", "join">>, 1, {"ring"})}

T(backend, slots, durations, faults) ==
  [backend |-> backend, slots |-> slots, durations |-> durations, faults |-> faults]

IdleTimers == T("uring", 2, <<2, 1>>, {})

MCTimerSetups == {
  T("uring", 1, <<2, 1>>, {"ring"}), T("uring", 1, <<1>>, {"moved"}), IdleTimers,
  T("mio", 1, <<2, 1>>, {"moved"}), T("mio", 2, <<2, 1>>, {})}

U(backend, connected, bufs, datagrams, reads, sends, slots, faults) ==
  [backend |-> backend, connected |-> connected, bufs |-> bufs, capacity |-> 2, datagrams |-> datagrams, reads |-> reads,
   sends |-> sends, slots |-> slots, pool |-> 1, faults |-> faults]

IdleUdp == U("mio", FALSE, 0, <<2, 1, 2, 1>>, {"one"}, <<"plain", "gso">>, 1, {})

MCUdpSetups == {
  IdleUdp,
  U("uring", FALSE, 2, <<2, 1, 2, 0, 1, 1>>, {"one"}, <<>>, 1, {"end"}),
  U("uring", TRUE, 2, <<1, 0, 1, 1, 1, 1>>, {"one", "batch"}, <<"plain", "plain">>, 1, {"end"}),
  U("uring", FALSE, 2, <<3, 1, 2, 1>>, {"batch"}, <<"gso", "plain", "plain">>, 2, {}),
  U("uring", FALSE, 2, <<3, 1, 2, 2>>, {"one", "batch"}, <<>>, 1, {}),
  U("uring", FALSE, 1, <<1, 2>>, {"one"}, <<"plain", "gso">>, 1, {"end", "refused"}),
  U("uring", TRUE, 1, <<1>>, {"one"}, <<"gso", "plain", "ctx">>, 1, {})}

G(tokens, shots, futures, how) == [tokens |-> tokens, shots |-> shots, futures |-> futures, how |-> how]

IdleSignals == G(3, 0, 1, "join")

MCSignalSetups == {G(2, 1, 1, "select"), IdleSignals, G(1, 2, 1, "join"), G(0, 1, 2, "select"), G(1, 0, 3, "select")}

MCHolders == {h1, h2}

MCIds == {id1}

-----------------------------------------------------------------------------
mcVars == <<part, recvVars, parkVars, diskVars, offloadVars, timerVars, udpVars, signalVars, poolVars>>

(* The parts but p keep an initial state. *)
Only(p) ==
  /\ IF p = "recv" THEN TRUE ELSE setup = IdleRecv
  /\ IF p = "park" THEN TRUE ELSE psetup = IdlePark
  /\ IF p = "disk" THEN TRUE ELSE dsetup = IdleDisk
  /\ IF p = "offload" THEN TRUE ELSE osetup = IdleOffload
  /\ IF p = "timers" THEN TRUE ELSE tsetup = IdleTimers
  /\ IF p = "udp" THEN TRUE ELSE usetup = IdleUdp
  /\ IF p = "signals" THEN TRUE ELSE gsetup = IdleSignals

Parts == {"recv", "park", "disk", "offload", "timers", "udp", "signals", "pool"}

MCInit ==
  /\ part \in Parts /\ Only(part)
  /\ InitRecv /\ InitPark /\ InitDisk /\ InitOffload /\ InitTimers /\ InitUdp /\ InitSignals /\ InitPool

MCNext ==
  /\ UNCHANGED part
  /\ \/ part = "recv" /\ RecvNext /\ UNCHANGED <<parkVars, diskVars, offloadVars, timerVars, udpVars, signalVars, poolVars>>
     \/ part = "park" /\ ParkNext /\ UNCHANGED <<recvVars, diskVars, offloadVars, timerVars, udpVars, signalVars, poolVars>>
     \/ part = "disk" /\ DiskNext /\ UNCHANGED <<recvVars, parkVars, offloadVars, timerVars, udpVars, signalVars, poolVars>>
     \/ part = "offload" /\ OffloadNext /\ UNCHANGED <<recvVars, parkVars, diskVars, timerVars, udpVars, signalVars, poolVars>>
     \/ part = "timers" /\ TimerNext /\ UNCHANGED <<recvVars, parkVars, diskVars, offloadVars, udpVars, signalVars, poolVars>>
     \/ part = "udp" /\ UdpNext /\ UNCHANGED <<recvVars, parkVars, diskVars, offloadVars, timerVars, signalVars, poolVars>>
     \/ part = "pool" /\ PoolNext /\ UNCHANGED <<recvVars, parkVars, diskVars, offloadVars, timerVars, udpVars, signalVars>>
     \/ part = "signals" /\ SignalNext /\ UNCHANGED <<recvVars, parkVars, diskVars, offloadVars, timerVars, udpVars, poolVars>>

MCSpec == MCInit /\ [][MCNext]_mcVars
=============================================================================
