---------------------------- MODULE ClusterProofs ----------------------------
(***************************************************************************)
(* Proofs about Cluster, for any servers, slots, seeds and owners, any     *)
(* number of moves, drops and commands, and any caps on redirects and      *)
(* transient retries.                                                      *)
(*                                                                         *)
(* The inductive invariant says what ties the command in progress to the   *)
(* node table: while a refresh asks the nodes it has, every node with a    *)
(* client is still to be asked; while it connects the missing primaries,   *)
(* those have no entry, and with them the table is the new map; a server   *)
(* whose address does not parse never has an entry.                        *)
(***************************************************************************)
EXTENDS Cluster, TLAPS

Turning == {"ensure", "send", "read", "ask_ensure", "asking", "ask_send", "ask_read"}
Refreshing == {"ask_nodes", "install", "connect_new"}

RouteRecs ==
  [pc : {"idle"} \union Turning \union Refreshing, slot : Slots \union {0},
   target : Servers \union {NoServer}, attempt : 0 .. MAX_REDIRECTS - 1, retried : BOOLEAN,
   transient : 0 .. MAX_TRANSIENT_RETRIES, todo : SUBSET Servers, seeds : Seq(Servers),
   map : {<<>>} \union [Slots -> Servers \union {NoServer}], back : {"route", "connect"},
   executed : Nat, lost : Nat]

Results ==
  {"none", "connected", "no_node", "io", "all_connections_failed", "too_many_redirects", "closed",
   "server_error", "bad_address", "protocol"}
  \union {Outcome(c, reply) : c \in ClusterCommands, reply \in Types}

AnswerRecs == [result : Results, executed : Nat, lost : Nat]

Clients(nd) == {n \in Servers : nd[n] \in {"live", "dead"}}
Present(nd) == {n \in Servers : nd[n] # "absent"}

(* The command or refresh in progress, over node table nd. *)
RouteOK(r, nd) ==
  /\ r \in RouteRecs
  /\ r.executed <= r.lost /\ r.lost <= 1 /\ (r.lost = 1 => r.retried)
  /\ r.pc \in Turning => r.target \in Servers /\ r.slot \in Slots /\ r.back = "route"
  /\ r.pc \in Refreshing /\ r.back = "route" => r.slot \in Slots
  /\ r.pc \in {"install", "connect_new"} => r.map \in [Slots -> Servers]
  /\ r.pc = "ask_nodes" => Clients(nd) \subseteq r.todo /\ r.todo \intersect Named = {}
  /\ r.pc = "ask_nodes" => Range(r.seeds) \subseteq Range(Seeds)
  /\ r.pc = "connect_new" => /\ \A n \in r.todo : nd[n] = "absent"
                             /\ Present(nd) \union (r.todo \ Named) = Range(r.map) \ Named

WorldOK ==
  /\ owner \in [Slots -> Servers] /\ views \in [Servers -> [Slots -> Servers]]
  /\ importing \in [Slots -> Servers \union {NoServer}]

TableOK ==
  /\ sockets \in [Servers -> Nat]
  /\ nodes \in [Servers -> {"absent", "disconnected", "live", "dead"}]
  /\ EveryConnectionInTable
  /\ \A n \in Named : nodes[n] = "absent"

AnswerOK == answer \in AnswerRecs /\ AtLeastOnceAtMostTwice

ClusterIInv ==
  /\ WorldOK /\ TableOK /\ AnswerOK
  /\ slot_map \in [Slots -> Servers \union {NoServer}]
  /\ RouteOK(route, nodes)

-----------------------------------------------------------------------------
(* The node table and its sockets. *)

(* A connection is opened to a node that had none, or only a dead one. *)
LEMMA OpenKeeps ==
  ASSUME TableOK, NEW n \in Servers \ Named, nodes[n] # "live",
         nodes' = [nodes EXCEPT ![n] = "live"], sockets' = [sockets EXCEPT ![n] = @ + 1]
  PROVE  TableOK'
BY DEF TableOK, EveryConnectionInTable

(* A node's client is closed, and the entry kept without it or dropped. *)
LEMMA CloseKeeps ==
  ASSUME TableOK, NEW n \in Servers, NEW v \in {"absent", "disconnected"},
         n \in Named => v = "absent", nodes' = [nodes EXCEPT ![n] = v], sockets' = Closed(n)
  PROVE  TableOK'
BY DEF TableOK, EveryConnectionInTable, Closed

LEMMA TableStays ==
  ASSUME TableOK, UNCHANGED <<nodes, sockets>>
  PROVE  TableOK'
BY DEF TableOK, EveryConnectionInTable

LEMMA WorldStays ==
  ASSUME WorldOK, UNCHANGED world
  PROVE  WorldOK'
BY DEF WorldOK, world

LEMMA AnswerStays ==
  ASSUME AnswerOK, UNCHANGED answer
  PROVE  AnswerOK'
BY DEF AnswerOK, AtLeastOnceAtMostTwice

-----------------------------------------------------------------------------
(* The command in progress. *)

LEMMA SeedsParse ==
  ASSUME NEW seeds \in Seq(Servers), Range(seeds) \subseteq Range(Seeds), seeds # <<>>
  PROVE  /\ Head(seeds) \in Servers \ Named
         /\ Tail(seeds) \in Seq(Servers) /\ Range(Tail(seeds)) \subseteq Range(Seeds)
<1>1. 1 \in DOMAIN seeds /\ Head(seeds) = seeds[1]
  OBVIOUS
<1>2. \A i \in DOMAIN Tail(seeds) : i + 1 \in DOMAIN seeds /\ Tail(seeds)[i] = seeds[i + 1]
  OBVIOUS
<1>3. Head(seeds) \in Range(seeds)
  BY <1>1 DEF Range
<1>4. Range(Tail(seeds)) \subseteq Range(seeds)
  <2> SUFFICES ASSUME NEW i \in DOMAIN Tail(seeds) PROVE Tail(seeds)[i] \in Range(seeds)
    BY Zenon DEF Range
  <2>1. i + 1 \in DOMAIN seeds /\ Tail(seeds)[i] = seeds[i + 1]
    BY <1>2
  <2> QED BY <2>1, Zenon DEF Range
<1>5. Head(seeds) \in Servers /\ Tail(seeds) \in Seq(Servers)
  OBVIOUS
<1> QED BY <1>3, <1>4, <1>5, ClusterAssumption

LEMMA Idles ==
  /\ NoRoute \in RouteRecs /\ NoRoute.pc = "idle" /\ NoRoute.executed = 0 /\ NoRoute.lost = 0
  /\ NoRoute.slot = 0 /\ NoRoute.back = "route"
BY ClusterAssumption DEF NoRoute, RouteRecs, Turning, Refreshing

LEMMA NoRouteOK ==
  ASSUME NEW nd
  PROVE  RouteOK(NoRoute, nd)
BY Idles DEF RouteOK, Turning, Refreshing

(* Only a refresh looks at the table. *)
LEMMA OffTable ==
  ASSUME NEW r, NEW nd1, NEW nd2, RouteOK(r, nd1), r.pc \notin {"ask_nodes", "connect_new"}
  PROVE  RouteOK(r, nd2)
BY DEF RouteOK

(* The command ends with an error, executed as often as it was. *)
LEMMA FailKeeps ==
  ASSUME ClusterIInv, NEW res \in Results \ {"ok", "unexpected"}, Done(res), UNCHANGED <<nodes, sockets>>
  PROVE  ClusterIInv'
<1>1. RouteOK(route', nodes')
  BY NoRouteOK DEF Done
<1>2. AnswerOK'
  <2>1. route.executed \in Nat /\ route.lost \in Nat /\ route.executed <= route.lost /\ route.lost <= 1
    BY DEF ClusterIInv, RouteOK, RouteRecs
  <2>2. answer'.result = res /\ answer'.executed = route.executed /\ answer'.lost = route.lost
        /\ answer' \in AnswerRecs
    BY <2>1 DEF Done, AnswerRecs
  <2> QED BY <2>1, <2>2 DEF AnswerOK, AtLeastOnceAtMostTwice
<1> QED BY <1>1, <1>2, TableStays, WorldStays DEF ClusterIInv, Done

(* The command goes on in state r. *)
LEMMA GoKeeps ==
  ASSUME ClusterIInv, NEW r, Go(r), RouteOK(r, nodes'), TableOK'
  PROVE  ClusterIInv'
BY WorldStays, AnswerStays DEF ClusterIInv, Go

(* A turn of the loop continues with its target still to be connected. *)
LEMMA Ensures ==
  ASSUME NEW r, NEW nd, NEW n \in Servers, NEW k \in 0 .. MAX_REDIRECTS - 1, RouteOK(r, nd),
         r.slot \in Slots, r.back = "route",
         NEW q, q = [r EXCEPT !.pc = "ensure", !.attempt = k, !.target = n]
  PROVE  RouteOK(q, nd)
<1>1. q \in RouteRecs /\ q.pc = "ensure" /\ q.target = n /\ q.slot = r.slot /\ q.back = r.back
      /\ q.executed = r.executed /\ q.lost = r.lost /\ q.retried = r.retried
  BY DEF RouteOK, RouteRecs, Turning
<1> HIDE DEF RouteRecs
<1> QED BY <1>1 DEF RouteOK, Turning, Refreshing

(* A step to another state of the same turn. *)
LEMMA Moves ==
  ASSUME NEW r, NEW nd, RouteOK(r, nd), r.pc \in Turning, NEW p \in Turning,
         NEW q, q = [r EXCEPT !.pc = p]
  PROVE  RouteOK(q, nd)
<1>1. q \in RouteRecs /\ q.pc = p /\ q.target = r.target /\ q.slot = r.slot /\ q.back = r.back
      /\ q.executed = r.executed /\ q.lost = r.lost /\ q.retried = r.retried
  BY DEF RouteOK, RouteRecs
<1>2. p \notin Refreshing /\ p \notin {"ask_nodes", "install", "connect_new"}
  BY DEF Turning, Refreshing
<1> QED BY <1>1, <1>2 DEF RouteOK

(* A refresh begins: every node with a client is to be asked. *)
LEMMA Refreshes ==
  ASSUME TableOK, NEW r, RouteOK(r, nodes), r.back = "route" => r.slot \in Slots,
         NEW nd, Clients(nd) \subseteq Clients(nodes)
  PROVE  /\ RouteOK(Refresh(r), nd)
         /\ RouteOK([Refresh(r) EXCEPT !.retried = TRUE], nd)
         /\ RouteOK([Refresh(r) EXCEPT !.back = "connect"], nd)
<1> DEFINE q == Refresh(r)
           q1 == [Refresh(r) EXCEPT !.retried = TRUE]
           q2 == [Refresh(r) EXCEPT !.back = "connect"]
<1>1. EmptyMap \in [Slots -> Servers \union {NoServer}] /\ Seeds \in Seq(Servers)
  BY ClusterAssumption DEF EmptyMap
<1>2. {n \in Servers : HasClient(n)} = Clients(nodes) /\ Clients(nodes) \in SUBSET Servers
      /\ Clients(nodes) \intersect Named = {}
  BY DEF Clients, HasClient, TableOK
<1>3. r \in RouteRecs
  BY DEF RouteOK
<1> HIDE DEF EmptyMap
<1>4. q \in RouteRecs /\ q.pc = "ask_nodes" /\ q.slot = r.slot /\ q.back = r.back
      /\ q.executed = r.executed /\ q.lost = r.lost /\ q.retried = r.retried /\ q.todo = Clients(nodes)
      /\ q.seeds = Seeds
  BY <1>1, <1>2, <1>3 DEF Refresh, RouteRecs, Refreshing
<1> HIDE DEF q
<1>5. q1 \in RouteRecs /\ q1.pc = "ask_nodes" /\ q1.slot = r.slot /\ q1.back = r.back
      /\ q1.executed = r.executed /\ q1.lost = r.lost /\ q1.retried = TRUE /\ q1.todo = Clients(nodes)
      /\ q1.seeds = Seeds
  BY <1>4 DEF q, RouteRecs
<1>6. q2 \in RouteRecs /\ q2.pc = "ask_nodes" /\ q2.slot = r.slot /\ q2.back = "connect"
      /\ q2.executed = r.executed /\ q2.lost = r.lost /\ q2.retried = r.retried /\ q2.todo = Clients(nodes)
      /\ q2.seeds = Seeds
  BY <1>4 DEF q, RouteRecs
<1> HIDE DEF q1, q2
<1>7. RouteOK(q, nd)
  BY <1>2, <1>4 DEF RouteOK, Turning, Refreshing
<1>8. RouteOK(q1, nd)
  BY <1>2, <1>5 DEF RouteOK, Turning, Refreshing
<1>9. RouteOK(q2, nd)
  BY <1>2, <1>6 DEF RouteOK, Turning, Refreshing
<1> QED BY <1>7, <1>8, <1>9 DEF q, q1, q2

-----------------------------------------------------------------------------
(* One lemma per operation of the client. *)

LEMMA RefreshFromNodeKeeps ==
  ASSUME ClusterIInv, NEW n \in Servers, RefreshFromNode(n)
  PROVE  ClusterIInv'
<1>1. route \in RouteRecs /\ route.pc = "ask_nodes" /\ RouteOK(route, nodes) /\ TableOK
      /\ Clients(nodes) \subseteq route.todo /\ route.todo \intersect Named = {} /\ n \notin Named
  BY DEF ClusterIInv, RouteOK, RefreshFromNode
<1>2. CASE Go([route EXCEPT !.pc = "install", !.map = views[n]]) /\ UNCHANGED <<nodes, sockets>>
  <2> DEFINE q == [route EXCEPT !.pc = "install", !.map = views[n]]
  <2>1. views[n] \in [Slots -> Servers]
    BY DEF ClusterIInv, WorldOK
  <2>2. views[n] \in [Slots -> Servers \union {NoServer}]
    BY <2>1
  <2>3. q \in RouteRecs /\ q.pc = "install" /\ q.map = views[n] /\ q.slot = route.slot
        /\ q.back = route.back /\ q.executed = route.executed /\ q.lost = route.lost
        /\ q.retried = route.retried
    BY <1>1, <2>2 DEF RouteRecs, Refreshing
  <2> HIDE DEF q
  <2>4. RouteOK(q, nodes')
    BY <1>1, <2>1, <2>3 DEF RouteOK, Turning, Refreshing
  <2> QED BY <1>1, <1>2, <2>4, TableStays, GoKeeps DEF q
<1>3. CASE /\ nodes' = [nodes EXCEPT ![n] = "disconnected"] /\ sockets' = Closed(n)
           /\ Go([route EXCEPT !.todo = @ \ {n}])
  <2> DEFINE q == [route EXCEPT !.todo = @ \ {n}]
  <2>1. q \in RouteRecs /\ q.pc = "ask_nodes" /\ q.todo = route.todo \ {n} /\ q.slot = route.slot
        /\ q.back = route.back /\ q.executed = route.executed /\ q.lost = route.lost
        /\ q.retried = route.retried /\ q.seeds = route.seeds
    BY <1>1 DEF RouteRecs
  <2>2. Clients(nodes') \subseteq route.todo \ {n}
    BY <1>1, <1>3 DEF Clients, TableOK
  <2> HIDE DEF q
  <2>3. RouteOK(q, nodes')
    BY <1>1, <2>1, <2>2 DEF RouteOK, Turning, Refreshing
  <2>4. TableOK'
    BY <1>1, <1>3, CloseKeeps
  <2> QED BY <1>3, <2>3, <2>4, GoKeeps DEF q
<1> QED BY <1>2, <1>3 DEF RefreshFromNode

LEMMA RefreshFromSeedKeeps ==
  ASSUME ClusterIInv, RefreshFromSeed
  PROVE  ClusterIInv'
<1>1. route \in RouteRecs /\ route.pc = "ask_nodes" /\ RouteOK(route, nodes) /\ TableOK
      /\ Clients(nodes) = {} /\ route.seeds \in Seq(Servers) /\ route.todo = {}
      /\ Range(route.seeds) \subseteq Range(Seeds)
  <2>1. route.todo = {} /\ route.pc = "ask_nodes"
    BY DEF RefreshFromSeed
  <2> QED BY <2>1 DEF ClusterIInv, RouteOK, RouteRecs
<1>2. CASE route.seeds = <<>>
  <2>1. "all_connections_failed" \in Results \ {"ok", "unexpected"}
    BY DEF Results
  <2> QED BY <1>2, <2>1, FailKeeps DEF RefreshFromSeed
<1>3. CASE route.seeds # <<>>
  <2> DEFINE n == Head(route.seeds)
             q1 == [route EXCEPT !.pc = "install", !.map = views[n]]
             q2 == [route EXCEPT !.seeds = Tail(@)]
  <2>1. n \in Servers \ Named /\ Tail(route.seeds) \in Seq(Servers)
        /\ Range(Tail(route.seeds)) \subseteq Range(Seeds)
    BY <1>1, <1>3, SeedsParse
  <2>2. nodes[n] # "live"
    BY <1>1, <2>1 DEF Clients
  <2>3. views[n] \in [Slots -> Servers]
    BY <2>1 DEF ClusterIInv, WorldOK
  <2>4. views[n] \in [Slots -> Servers \union {NoServer}]
    BY <2>3
  <2> HIDE DEF n
  <2>5. q1 \in RouteRecs /\ q1.pc = "install" /\ q1.map = views[n] /\ q1.slot = route.slot
        /\ q1.back = route.back /\ q1.executed = route.executed /\ q1.lost = route.lost
        /\ q1.retried = route.retried
    BY <1>1, <2>4 DEF RouteRecs, Refreshing
  <2>6. q2 \in RouteRecs /\ q2.pc = "ask_nodes" /\ q2.slot = route.slot /\ q2.todo = route.todo
        /\ q2.back = route.back /\ q2.executed = route.executed /\ q2.lost = route.lost
        /\ q2.retried = route.retried /\ q2.seeds = Tail(route.seeds)
    BY <1>1, <2>1 DEF RouteRecs
  <2> HIDE DEF q1, q2
  <2>7. CASE /\ nodes' = [nodes EXCEPT ![n] = "live"] /\ sockets' = [sockets EXCEPT ![n] = @ + 1]
             /\ Go(q1)
    <3>1. RouteOK(q1, nodes')
      BY <1>1, <2>3, <2>5 DEF RouteOK, Turning, Refreshing
    <3>2. TableOK'
      BY <1>1, <2>1, <2>2, <2>7, OpenKeeps
    <3> QED BY <2>7, <3>1, <3>2, GoKeeps
  <2>8. CASE Go(q2) /\ UNCHANGED <<nodes, sockets>>
    <3>1. RouteOK(q2, nodes')
      BY <1>1, <2>1, <2>6, <2>8 DEF RouteOK, Turning, Refreshing
    <3> QED BY <1>1, <2>8, <3>1, TableStays, GoKeeps
  <2> QED BY <1>3, <2>7, <2>8 DEF RefreshFromSeed, n, q1, q2
<1> QED BY <1>2, <1>3

LEMMA RetainPrimariesKeeps ==
  ASSUME ClusterIInv, RetainPrimaries
  PROVE  ClusterIInv'
<1> DEFINE primaries == Range(route.map)
           missing == {n \in primaries : nodes[n] = "absent"}
           q == [route EXCEPT !.pc = "connect_new", !.todo = missing]
<1>1. route \in RouteRecs /\ route.pc = "install" /\ RouteOK(route, nodes) /\ TableOK
      /\ route.map \in [Slots -> Servers]
  BY DEF ClusterIInv, RouteOK, RetainPrimaries
<1>2. primaries \subseteq Servers
  BY <1>1 DEF Range
<1> HIDE DEF primaries
<1>3. /\ nodes' = [n \in Servers |-> IF n \in primaries THEN nodes[n] ELSE "absent"]
      /\ sockets' = [n \in Servers |-> IF n \in primaries THEN sockets[n] ELSE Closed(n)[n]]
      /\ Go(q)
  BY DEF RetainPrimaries, primaries
<1>4. missing \in SUBSET Servers
  BY <1>2
<1> HIDE DEF missing
<1>5. q \in RouteRecs /\ q.pc = "connect_new" /\ q.todo = missing /\ q.map = route.map
      /\ q.slot = route.slot /\ q.back = route.back /\ q.executed = route.executed
      /\ q.lost = route.lost /\ q.retried = route.retried
  BY <1>1, <1>4 DEF RouteRecs, Refreshing
<1> HIDE DEF q
<1>6. /\ \A n \in missing : nodes'[n] = "absent"
      /\ Present(nodes') \union (missing \ Named) = primaries \ Named
  BY <1>1, <1>2, <1>3 DEF Present, missing, TableOK
<1>7. RouteOK(q, nodes')
  BY <1>1, <1>5, <1>6 DEF RouteOK, Turning, Refreshing, primaries
<1>8. TableOK'
  <2>1. \A n \in Servers : Closed(n)[n] = 0
    BY <1>1 DEF Closed, TableOK, EveryConnectionInTable
  <2> QED BY <1>1, <1>3, <2>1, ClusterAssumption DEF TableOK, EveryConnectionInTable
<1> QED BY <1>3, <1>7, <1>8, GoKeeps

LEMMA RefreshInvalidKeeps ==
  ASSUME ClusterIInv, RefreshInvalid
  PROVE  ClusterIInv'
<1>1. "server_error" \in Results \ {"ok", "unexpected"}
  BY DEF Results
<1> QED BY <1>1, FailKeeps DEF RefreshInvalid

LEMMA ConnectPrimaryKeeps ==
  ASSUME ClusterIInv, NEW n \in Servers, ConnectPrimary(n)
  PROVE  ClusterIInv'
<1> DEFINE q == [route EXCEPT !.todo = @ \ {n}]
<1>1. route \in RouteRecs /\ route.pc = "connect_new" /\ RouteOK(route, nodes) /\ TableOK
      /\ n \in route.todo /\ nodes[n] = "absent"
  BY DEF ClusterIInv, RouteOK, ConnectPrimary
<1>2. PICK v \in {"absent", "live", "disconnected"} :
        /\ n \in Named <=> v = "absent"
        /\ nodes' = [nodes EXCEPT ![n] = v]
        /\ IF v = "live" THEN sockets' = [sockets EXCEPT ![n] = @ + 1] ELSE sockets' = sockets
  <2>1. n \in Named => nodes = [nodes EXCEPT ![n] = "absent"]
    BY <1>1 DEF TableOK
  <2> QED BY <2>1 DEF ConnectPrimary
<1>3. Go(q)
  BY DEF ConnectPrimary
<1>4. q \in RouteRecs /\ q.pc = "connect_new" /\ q.todo = route.todo \ {n} /\ q.map = route.map
      /\ q.slot = route.slot /\ q.back = route.back /\ q.executed = route.executed
      /\ q.lost = route.lost /\ q.retried = route.retried
  BY <1>1 DEF RouteRecs
<1> HIDE DEF q
<1>5. /\ \A m \in route.todo \ {n} : nodes'[m] = "absent"
      /\ Present(nodes') = Present(nodes) \union ({n} \ Named)
  <2>1. route.todo \subseteq Servers
    BY <1>1 DEF RouteRecs
  <2> QED BY <1>1, <1>2, <2>1 DEF TableOK, Present, RouteOK
<1>6. RouteOK(q, nodes')
  <2>1. Present(nodes') \union (q.todo \ Named) = Range(q.map) \ Named
    BY <1>1, <1>4, <1>5 DEF RouteOK
  <2> QED BY <1>1, <1>4, <1>5, <2>1 DEF RouteOK, Turning, Refreshing
<1>7. TableOK'
  BY <1>1, <1>2 DEF TableOK, EveryConnectionInTable
<1> QED BY <1>3, <1>6, <1>7, GoKeeps

LEMMA RefreshDoneKeeps ==
  ASSUME ClusterIInv, RefreshDone
  PROVE  ClusterIInv'
<1>1. route \in RouteRecs /\ route.pc = "connect_new" /\ RouteOK(route, nodes)
      /\ route.map \in [Slots -> Servers] /\ (route.back = "route" => route.slot \in Slots)
      /\ answer \in AnswerRecs /\ AtLeastOnceAtMostTwice
  BY DEF ClusterIInv, RouteOK, RefreshDone, AnswerOK, Refreshing
<1>2. /\ WorldOK' /\ TableOK' /\ slot_map' \in [Slots -> Servers \union {NoServer}]
  <2>1. slot_map' = route.map
    BY DEF RefreshDone
  <2> QED BY <1>1, <2>1, WorldStays, TableStays DEF RefreshDone, ClusterIInv
<1>3. CASE route.back = "connect"
  <2>1. route' = NoRoute /\ answer' = [answer EXCEPT !.result = "connected"]
    BY <1>3 DEF RefreshDone
  <2>2. answer' \in AnswerRecs /\ answer'.result = "connected" /\ answer'.executed = answer.executed
        /\ answer'.lost = answer.lost
    BY <1>1, <2>1 DEF AnswerRecs, Results
  <2>3. AnswerOK'
    BY <1>1, <2>2 DEF AnswerOK, AtLeastOnceAtMostTwice
  <2> QED BY <1>2, <2>1, <2>3, NoRouteOK DEF ClusterIInv
<1>4. CASE route.back # "connect" /\ route.attempt + 1 = MAX_REDIRECTS
  <2>1. route' = NoRoute
        /\ answer' = [result |-> "too_many_redirects", executed |-> route.executed, lost |-> route.lost]
    BY <1>4 DEF RefreshDone
  <2>2. route.executed \in Nat /\ route.lost \in Nat /\ route.executed <= route.lost /\ route.lost <= 1
    BY <1>1 DEF RouteOK, RouteRecs
  <2>3. AnswerOK'
    BY <2>1, <2>2 DEF AnswerOK, AtLeastOnceAtMostTwice, AnswerRecs, Results
  <2> QED BY <1>2, <2>1, <2>3, NoRouteOK DEF ClusterIInv
<1>5. CASE route.back # "connect" /\ route.attempt + 1 # MAX_REDIRECTS
  <2>1. route.back = "route" /\ route.slot \in Slots /\ route.map[route.slot] \in Servers
        /\ route.attempt + 1 \in 0 .. MAX_REDIRECTS - 1
    BY <1>1, <1>5, ClusterAssumption DEF RouteRecs
  <2>2. route' = [route EXCEPT !.pc = "ensure", !.attempt = route.attempt + 1,
                               !.target = route.map[route.slot]]
        /\ answer' = answer
    BY <1>5 DEF RefreshDone
  <2>3. nodes' = nodes
    BY DEF RefreshDone
  <2> DEFINE n == route.map[route.slot]
             k == route.attempt + 1
             q == [route EXCEPT !.pc = "ensure", !.attempt = k, !.target = n]
  <2>4. n \in Servers /\ k \in 0 .. MAX_REDIRECTS - 1
    BY <2>1
  <2>5. RouteOK(q, nodes)
    <3> HIDE DEF n, k
    <3> QED BY <1>1, <2>1, <2>4, Ensures
  <2>6. RouteOK(route', nodes')
    BY <2>2, <2>3, <2>5
  <2> QED BY <1>2, <2>2, <2>6, AnswerStays DEF ClusterIInv
<1> QED BY <1>3, <1>4, <1>5

LEMMA ClusterConnectKeeps ==
  ASSUME ClusterIInv, ClusterConnect
  PROVE  ClusterIInv'
<1>1. RouteOK(route', nodes')
  <2>1. RouteOK([Refresh([NoRoute EXCEPT !.back = "connect"]) EXCEPT !.back = "connect"], nodes)
    <3>1. RouteOK([NoRoute EXCEPT !.back = "connect"], nodes) /\ [NoRoute EXCEPT !.back = "connect"].back = "connect"
      BY Idles DEF RouteOK, RouteRecs, Turning, Refreshing
    <3>2. TableOK
      BY DEF ClusterIInv
    <3> QED BY <3>1, <3>2, Refreshes
  <2>2. [Refresh([NoRoute EXCEPT !.back = "connect"]) EXCEPT !.back = "connect"]
          = [Refresh(NoRoute) EXCEPT !.back = "connect"]
    BY DEF Refresh, NoRoute
  <2> QED BY <2>1, <2>2 DEF ClusterConnect
<1> QED BY <1>1, TableStays, WorldStays, AnswerStays DEF ClusterIInv, ClusterConnect

LEMMA ClusterCloseAllKeeps ==
  ASSUME ClusterIInv, ClusterCloseAll
  PROVE  ClusterIInv'
<1>1. TableOK'
  <2>1. \A n \in Servers : Closed(n)[n] = 0
    BY DEF Closed, ClusterIInv, TableOK, EveryConnectionInTable
  <2> QED BY <2>1, ClusterAssumption DEF ClusterCloseAll, TableOK, EveryConnectionInTable
<1>2. RouteOK(route', nodes')
  BY OffTable DEF ClusterIInv, ClusterCloseAll
<1> QED BY <1>1, <1>2, WorldStays, AnswerStays DEF ClusterIInv, ClusterCloseAll

LEMMA ClusterRouteKeeps ==
  ASSUME ClusterIInv, NEW s \in Slots, ClusterRoute(s)
  PROVE  ClusterIInv'
<1>1. WorldOK' /\ TableOK' /\ slot_map' = slot_map /\ nodes' = nodes
  BY WorldStays, TableStays DEF ClusterRoute, ClusterIInv
<1>2. CASE slot_map[s] = NoServer
  <2>1. AnswerOK'
    BY <1>2 DEF ClusterRoute, AnswerOK, AtLeastOnceAtMostTwice, AnswerRecs, Results
  <2> QED BY <1>1, <1>2, <2>1 DEF ClusterRoute, ClusterIInv
<1>3. CASE slot_map[s] # NoServer
  <2>1. slot_map[s] \in Servers
    BY <1>3 DEF ClusterIInv
  <2> DEFINE q == [NoRoute EXCEPT !.pc = "ensure", !.slot = s, !.target = slot_map[s]]
  <2>2. q \in RouteRecs /\ q.pc = "ensure" /\ q.slot = s /\ q.target = slot_map[s] /\ q.back = "route"
        /\ q.executed = 0 /\ q.lost = 0
    BY <2>1, Idles DEF RouteRecs, Turning
  <2>3. route' = q /\ answer' = answer
    BY <1>3 DEF ClusterRoute
  <2> HIDE DEF q
  <2>4. RouteOK(q, nodes)
    BY <2>1, <2>2 DEF RouteOK, Turning, Refreshing
  <2> QED BY <1>1, <2>3, <2>4, AnswerStays DEF ClusterIInv
<1> QED BY <1>2, <1>3

LEMMA EnsureConnKeeps ==
  ASSUME ClusterIInv, EnsureConn
  PROVE  ClusterIInv'
<1> DEFINE p == IF route.pc = "ensure" THEN "send" ELSE "asking"
           q == [route EXCEPT !.pc = p]
<1>1. RouteOK(route, nodes) /\ TableOK /\ route.pc \in Turning /\ p \in Turning /\ q.pc = p
      /\ route.target \in Servers
  BY DEF ClusterIInv, RouteOK, EnsureConn, Turning, RouteRecs
<1>2. RouteOK(q, nodes)
  BY <1>1, Moves
<1>3. RouteOK(q, nodes')
  BY <1>1, <1>2, OffTable DEF Turning
<1>4. Go(q)
  BY DEF EnsureConn
<1>5. TableOK'
  <2>1. CASE HasClient(route.target)
    BY <1>1, <2>1, TableStays DEF EnsureConn
  <2>2. CASE ~HasClient(route.target)
    BY <1>1, <2>2, OpenKeeps DEF EnsureConn, HasClient
  <2> QED BY <2>1, <2>2
<1> QED BY <1>3, <1>4, <1>5, GoKeeps

(* mark_disconnected of the target, and the one refresh a command may ask for. *)
LEMMA RetryKeeps ==
  ASSUME ClusterIInv, NEW r, RouteOK(r, nodes), r.slot \in Slots, NEW n \in Servers,
         ClusterMarkDisconnected(n), Go([Refresh(r) EXCEPT !.retried = TRUE])
  PROVE  ClusterIInv'
<1>1. TableOK /\ nodes \in [Servers -> {"absent", "disconnected", "live", "dead"}]
  BY DEF ClusterIInv, TableOK
<1>2. PICK v \in {"absent", "disconnected"} :
        (n \in Named => v = "absent") /\ nodes' = [nodes EXCEPT ![n] = v] /\ sockets' = Closed(n)
  BY <1>1 DEF ClusterMarkDisconnected, TableOK
<1>3. TableOK'
  BY <1>1, <1>2, CloseKeeps
<1>4. Clients(nodes') \subseteq Clients(nodes)
  BY <1>1, <1>2 DEF Clients
<1>5. RouteOK([Refresh(r) EXCEPT !.retried = TRUE], nodes')
  BY <1>1, <1>4, Refreshes
<1> QED BY <1>3, <1>5, GoKeeps

LEMMA EnsureConnFailsKeeps ==
  ASSUME ClusterIInv, EnsureConnFails
  PROVE  ClusterIInv'
<1>1. RouteOK(route, nodes) /\ route.target \in Servers /\ route.slot \in Slots
  BY DEF ClusterIInv, RouteOK, EnsureConnFails, Turning
<1>2. {"io", "all_connections_failed", "bad_address"} \subseteq Results \ {"ok", "unexpected"}
  BY DEF Results
<1>3. CASE route.target \in Named \/ route.pc = "ask_ensure" \/ route.retried
  BY <1>2, <1>3, FailKeeps DEF EnsureConnFails
<1>4. CASE route.target \notin Named /\ route.pc # "ask_ensure" /\ ~route.retried
  BY <1>1, <1>4, RetryKeeps DEF EnsureConnFails
<1> QED BY <1>3, <1>4

LEMMA ClusterSendKeeps ==
  ASSUME ClusterIInv, ClusterSend \/ ClusterSendFails
  PROVE  ClusterIInv'
<1>1. RouteOK(route, nodes) /\ TableOK /\ route.pc \in Turning
  BY DEF ClusterIInv, ClusterSend, ClusterSendFails, Turning
<1>2. CASE ClusterSendFails
  <2>1. "io" \in Results \ {"ok", "unexpected"}
    BY DEF Results
  <2> QED BY <1>2, <2>1, FailKeeps DEF ClusterSendFails
<1>3. CASE ClusterSend /\ Done("server_error")
  <2>1. "server_error" \in Results \ {"ok", "unexpected"}
    BY DEF Results
  <2> QED BY <1>3, <2>1, FailKeeps DEF ClusterSend
<1>4. CASE ClusterSend /\ ~ Done("server_error")
  <2>1. PICK p \in {"ask_send", "read", "ask_read"} : Go([route EXCEPT !.pc = p])
    BY <1>4 DEF ClusterSend
  <2>2. RouteOK([route EXCEPT !.pc = p], nodes)
    BY <1>1, Moves DEF Turning
  <2>3. UNCHANGED <<nodes, sockets>>
    BY <1>4 DEF ClusterSend
  <2> QED BY <1>1, <2>1, <2>2, <2>3, TableStays, GoKeeps
<1> QED BY <1>2, <1>3, <1>4

(* A reply is read: what the invariant says of the command then. *)
LEMMA Reading ==
  ASSUME ClusterIInv, route.pc \in {"read", "ask_read"}
  PROVE  /\ RouteOK(route, nodes) /\ TableOK /\ route \in RouteRecs /\ route.pc \in Turning
         /\ route.target \in Servers /\ route.slot \in Slots /\ route.back = "route"
         /\ route.executed \in Nat /\ route.lost \in Nat
         /\ route.executed <= route.lost /\ route.lost <= 1 /\ (route.lost = 1 => route.retried)
<1>1. RouteOK(route, nodes) /\ TableOK /\ route \in RouteRecs
  BY DEF ClusterIInv, RouteOK
<1>2. route.executed \in Nat /\ route.lost \in Nat
  BY <1>1 DEF RouteRecs
<1> QED BY <1>1, <1>2 DEF RouteOK, Turning

LEMMA ReadLostKeeps ==
  ASSUME ClusterIInv, ReadLost
  PROVE  ClusterIInv'
<1> DEFINE Again(ran) == [route EXCEPT !.executed = @ + (IF ran THEN 1 ELSE 0), !.lost = @ + 1]
<1>1. /\ RouteOK(route, nodes) /\ TableOK /\ route \in RouteRecs /\ route.pc \in Turning
      /\ route.target \in Servers /\ route.slot \in Slots /\ route.back = "route"
      /\ route.executed \in Nat /\ route.lost \in Nat
      /\ route.executed <= route.lost /\ route.lost <= 1 /\ (route.lost = 1 => route.retried)
  BY Reading DEF ReadLost
<1>2. PICK ran :
        IF route.pc = "ask_read" \/ route.retried
        THEN /\ route' = NoRoute
             /\ answer' = [result |-> "closed", executed |-> Again(ran).executed, lost |-> Again(ran).lost]
             /\ UNCHANGED <<world, budget, slot_map, nodes, sockets>>
        ELSE /\ ClusterMarkDisconnected(route.target)
             /\ Go([Refresh(Again(ran)) EXCEPT !.retried = TRUE])
  BY DEF ReadLost
<1> DEFINE r == Again(ran)
           e == IF ran THEN 1 ELSE 0
<1>3. e \in {0, 1}
  OBVIOUS
<1>4. r \in RouteRecs /\ r.executed = route.executed + e /\ r.lost = route.lost + 1
      /\ r.pc = route.pc /\ r.slot = route.slot /\ r.back = route.back /\ r.target = route.target
      /\ r.retried = route.retried
  <2>1. route.executed + e \in Nat /\ route.lost + 1 \in Nat
    BY <1>1, <1>3
  <2> HIDE DEF e
  <2>2. r = [route EXCEPT !.executed = route.executed + e, !.lost = route.lost + 1]
    BY DEF e
  <2> HIDE DEF r
  <2> QED BY <1>1, <2>1, <2>2 DEF RouteRecs
<1> HIDE DEF e, r
<1>5. CASE route.pc = "ask_read" \/ route.retried
  <2>1. answer' = [result |-> "closed", executed |-> r.executed, lost |-> r.lost] /\ route' = NoRoute
        /\ UNCHANGED <<world, slot_map, nodes, sockets>>
    BY <1>2, <1>5 DEF r
  <2>2. r.executed \in Nat /\ r.lost \in Nat /\ r.lost > 0 /\ r.executed <= 2
    BY <1>1, <1>3, <1>4
  <2>3. AnswerOK'
    BY <2>1, <2>2 DEF AnswerOK, AtLeastOnceAtMostTwice, AnswerRecs, Results
  <2> QED BY <2>1, <2>3, NoRouteOK, WorldStays, TableStays DEF ClusterIInv
<1>6. CASE ~(route.pc = "ask_read" \/ route.retried)
  <2> DEFINE q == [r EXCEPT !.retried = TRUE]
  <2>1. route.lost = 0 /\ route.executed = 0 /\ ~route.retried
    BY <1>1, <1>6
  <2>2. q \in RouteRecs /\ q.executed = r.executed /\ q.lost = r.lost /\ q.retried = TRUE
        /\ q.pc = r.pc /\ q.slot = r.slot /\ q.back = r.back /\ q.target = r.target
    BY <1>4 DEF RouteRecs
  <2>3. [Refresh(q) EXCEPT !.retried = TRUE] = [Refresh(r) EXCEPT !.retried = TRUE]
    BY <1>4 DEF Refresh, RouteRecs
  <2> HIDE DEF q
  <2>4. RouteOK(q, nodes)
    BY <1>1, <1>3, <1>4, <2>1, <2>2 DEF RouteOK, Turning, Refreshing
  <2>5. ClusterMarkDisconnected(route.target) /\ Go([Refresh(q) EXCEPT !.retried = TRUE])
    BY <1>2, <1>6, <2>3 DEF r
  <2> QED BY <1>1, <1>4, <2>2, <2>4, <2>5, RetryKeeps
<1> QED BY <1>5, <1>6

LEMMA ReadGarbledKeeps ==
  ASSUME ClusterIInv, ReadGarbled
  PROVE  ClusterIInv'
<1>1. /\ TableOK /\ route.target \in Servers /\ route.executed \in Nat /\ route.lost \in Nat
      /\ route.executed <= route.lost /\ route.lost <= 1
  BY Reading DEF ReadGarbled
<1>2. PICK k \in {0, 1} :
        answer' = [result |-> "protocol", lost |-> route.lost, executed |-> route.executed + k]
  BY DEF ReadGarbled
<1>3. AnswerOK'
  <2>1. "protocol" \in Results /\ "protocol" \notin {"ok", "unexpected"}
    BY DEF Results
  <2> QED BY <1>1, <1>2, <2>1 DEF AnswerOK, AtLeastOnceAtMostTwice, AnswerRecs
<1>4. TableOK'
  BY <1>1 DEF ReadGarbled, TableOK, EveryConnectionInTable, Closed
<1> QED BY <1>3, <1>4, NoRouteOK, WorldStays DEF ClusterIInv, ReadGarbled

LEMMA ReadAnswerKeeps ==
  ASSUME ClusterIInv, ReadAnswer
  PROVE  ClusterIInv'
<1>1. /\ route.executed \in Nat /\ route.lost \in Nat
      /\ route.executed <= route.lost /\ route.lost <= 1
  BY Reading DEF ReadAnswer
<1>2. PICK c \in ClusterCommands, reply \in Types :
        /\ route' = NoRoute
        /\ answer' = [result |-> Outcome(c, reply), executed |-> route.executed + 1, lost |-> route.lost]
  BY DEF ReadAnswer
<1>3. Outcome(c, reply) \in Results
  BY DEF Results
<1>4. answer' \in AnswerRecs /\ answer'.executed = route.executed + 1 /\ answer'.lost = route.lost
  BY <1>1, <1>2, <1>3 DEF AnswerRecs
<1>5. AnswerOK'
  BY <1>1, <1>4 DEF AnswerOK, AtLeastOnceAtMostTwice
<1> QED BY <1>2, <1>5, NoRouteOK, WorldStays, TableStays DEF ClusterIInv, ReadAnswer

LEMMA ReadMovedKeeps ==
  ASSUME ClusterIInv, ReadMoved
  PROVE  ClusterIInv'
<1>1. RouteOK(route, nodes) /\ TableOK /\ route.slot \in Slots /\ nodes' = nodes
  BY Reading DEF ReadMoved
<1>2. RouteOK(Refresh(route), nodes')
  BY <1>1, Refreshes
<1> QED BY <1>1, <1>2, TableStays, GoKeeps DEF ReadMoved

(* The next turn of the loop, or its end, from state r of the command. *)
LEMMA NextTurnKeeps ==
  ASSUME ClusterIInv, NEW r, RouteOK(r, nodes), r.pc \in Turning, NextTurn(r),
         UNCHANGED <<nodes, sockets>>
  PROVE  ClusterIInv'
<1>1. r.target \in Servers /\ r.slot \in Slots /\ r.back = "route"
      /\ r \in RouteRecs /\ r.attempt \in 0 .. MAX_REDIRECTS - 1
  BY DEF RouteOK, RouteRecs
<1>2. CASE r.attempt + 1 = MAX_REDIRECTS
  <2>1. "too_many_redirects" \in Results \ {"ok", "unexpected"}
    BY DEF Results
  <2> QED BY <1>2, <2>1, FailKeeps DEF NextTurn
<1>3. CASE r.attempt + 1 # MAX_REDIRECTS
  <2> DEFINE n == r.target
             k == r.attempt + 1
             q == [r EXCEPT !.pc = "ensure", !.attempt = k, !.target = n]
  <2>1. k \in 0 .. MAX_REDIRECTS - 1
    BY <1>1, <1>3, ClusterAssumption
  <2>2. [r EXCEPT !.attempt = @ + 1, !.pc = "ensure"] = q
    BY <1>1 DEF RouteRecs
  <2>3. RouteOK(q, nodes)
    <3> HIDE DEF k
    <3> QED BY <1>1, <2>1, Ensures
  <2>4. Go(q)
    BY <1>3, <2>2 DEF NextTurn
  <2>5. TableOK'
    BY TableStays DEF ClusterIInv
  <2> HIDE DEF q
  <2> QED BY <2>3, <2>4, <2>5, GoKeeps
<1> QED BY <1>2, <1>3

LEMMA ReadAskKeeps ==
  ASSUME ClusterIInv, ReadAsk
  PROVE  ClusterIInv'
<1> DEFINE n == importing[route.slot]
           r == [route EXCEPT !.target = n]
<1>1. /\ RouteOK(route, nodes) /\ TableOK /\ route \in RouteRecs /\ route.pc \in Turning
      /\ route.slot \in Slots /\ route.back = "route" /\ route.pc \in {"read", "ask_read"}
  BY Reading DEF ReadAsk
<1>2. n \in Servers
  BY <1>1 DEF ReadAsk, AskFor, ClusterIInv, WorldOK
<1>3. UNCHANGED <<nodes, sockets>>
  BY DEF ReadAsk
<1>4. r \in RouteRecs /\ r.pc = route.pc /\ r.slot = route.slot /\ r.back = route.back
      /\ r.executed = route.executed /\ r.lost = route.lost /\ r.retried = route.retried
      /\ r.target = n
  BY <1>1, <1>2 DEF RouteRecs
<1>5. RouteOK(r, nodes)
  <2> HIDE DEF n, r
  <2> QED BY <1>1, <1>2, <1>4 DEF RouteOK, Turning, Refreshing
<1>6. CASE route.pc = "read"
  <2>1. Go([r EXCEPT !.pc = "ask_ensure"])
    BY <1>6 DEF ReadAsk
  <2> HIDE DEF n, r
  <2>2. RouteOK([r EXCEPT !.pc = "ask_ensure"], nodes)
    BY <1>1, <1>4, <1>5, Moves DEF Turning
  <2> QED BY <1>1, <1>3, <2>1, <2>2, TableStays, GoKeeps
<1>7. CASE route.pc # "read"
  <2>1. NextTurn(r)
    BY <1>7 DEF ReadAsk
  <2> HIDE DEF n, r
  <2> QED BY <1>1, <1>3, <1>4, <1>5, <2>1, NextTurnKeeps
<1> QED BY <1>6, <1>7

LEMMA ReadTransientKeeps ==
  ASSUME ClusterIInv, ReadTransient
  PROVE  ClusterIInv'
<1>1. /\ route \in RouteRecs /\ route.pc \in Turning /\ RouteOK(route, nodes)
  BY Reading DEF ReadTransient
<1>2. UNCHANGED <<nodes, sockets>>
  BY DEF ReadTransient
<1>3. CASE route.pc = "read" /\ route.transient < MAX_TRANSIENT_RETRIES
  <2> DEFINE r == [route EXCEPT !.transient = @ + 1]
  <2>1. route.transient + 1 \in 0 .. MAX_TRANSIENT_RETRIES
    BY <1>1, <1>3, ClusterAssumption DEF RouteRecs
  <2>2. r \in RouteRecs /\ r.pc = route.pc /\ r.slot = route.slot /\ r.back = route.back
        /\ r.executed = route.executed /\ r.lost = route.lost /\ r.retried = route.retried
        /\ r.target = route.target
    BY <1>1, <2>1 DEF RouteRecs
  <2>3. NextTurn(r)
    BY <1>3 DEF ReadTransient
  <2> HIDE DEF r
  <2>4. RouteOK(r, nodes)
    BY <1>1, <2>2 DEF RouteOK, Turning, Refreshing
  <2> QED BY <1>1, <1>2, <2>2, <2>3, <2>4, NextTurnKeeps
<1>4. CASE ~(route.pc = "read" /\ route.transient < MAX_TRANSIENT_RETRIES)
  <2>1. "server_error" \in Results \ {"ok", "unexpected"}
    BY DEF Results
  <2> QED BY <1>2, <1>4, <2>1, FailKeeps DEF ReadTransient
<1> QED BY <1>3, <1>4

LEMMA NodeClientKeeps ==
  ASSUME ClusterIInv, NEW n \in Servers, NodeClient(n)
  PROVE  ClusterIInv'
<1>1. TableOK'
  BY OpenKeeps DEF NodeClient, HasClient, ClusterIInv
<1>2. RouteOK(route', nodes')
  BY OffTable DEF NodeClient, ClusterIInv
<1> QED BY <1>1, <1>2, WorldStays, AnswerStays DEF NodeClient, ClusterIInv

(* The cluster's own steps. *)
LEMMA WorldStepKeeps ==
  ASSUME ClusterIInv,
         \/ \E s \in Slots : FinishMove(s) \/ \E n \in Servers : StartMove(s, n)
         \/ \E n \in Servers : Gossip(n)
  PROVE  ClusterIInv'
<1>1. /\ UNCHANGED <<sockets, nodes, slot_map, route, answer>>
  BY DEF FinishMove, StartMove, Gossip
<1>2. WorldOK'
  <2>1. WorldOK
    BY DEF ClusterIInv
  <2>2. ASSUME NEW s \in Slots, NEW n \in Servers, StartMove(s, n) PROVE WorldOK'
    BY <2>1, <2>2 DEF WorldOK, StartMove
  <2>3. ASSUME NEW s \in Slots, FinishMove(s) PROVE WorldOK'
    <3>1. importing[s] \in Servers
      BY <2>1, <2>3 DEF WorldOK, FinishMove
    <3> QED BY <2>1, <2>3, <3>1 DEF WorldOK, FinishMove
  <2>4. ASSUME NEW n \in Servers, Gossip(n) PROVE WorldOK'
    BY <2>1, <2>4 DEF WorldOK, Gossip
  <2> QED BY <2>2, <2>3, <2>4
<1> QED BY <1>1, <1>2, TableStays, AnswerStays DEF ClusterIInv

LEMMA ServerDropsKeeps ==
  ASSUME ClusterIInv, NEW n \in Servers, ServerDrops(n)
  PROVE  ClusterIInv'
<1>1. TableOK /\ RouteOK(route, nodes)
  BY DEF ClusterIInv
<1>2. TableOK'
  BY <1>1 DEF ServerDrops, TableOK, EveryConnectionInTable
<1>3. Clients(nodes') = Clients(nodes) /\ Present(nodes') = Present(nodes)
  BY <1>1 DEF ServerDrops, Clients, Present, TableOK
<1>4. \A m \in Servers : nodes[m] = "absent" => nodes'[m] = "absent"
  BY <1>1 DEF ServerDrops, TableOK
<1>5. route.todo \subseteq Servers
  BY <1>1 DEF RouteOK, RouteRecs
<1>6. RouteOK(route, nodes')
  BY <1>1, <1>3, <1>4, <1>5 DEF RouteOK
<1> QED BY <1>2, <1>6, WorldStays, AnswerStays DEF ServerDrops, ClusterIInv

-----------------------------------------------------------------------------
LEMMA ClusterInitInv == ClusterInit => ClusterIInv
<1> SUFFICES ASSUME ClusterInit PROVE ClusterIInv
  OBVIOUS
<1>1. WorldOK
  BY ClusterAssumption DEF ClusterInit, WorldOK
<1>2. TableOK
  BY ClusterAssumption DEF ClusterInit, TableOK, EveryConnectionInTable
<1>3. AnswerOK
  BY DEF ClusterInit, AnswerOK, AnswerRecs, Results, AtLeastOnceAtMostTwice
<1> QED BY <1>1, <1>2, <1>3, NoRouteOK DEF ClusterInit, ClusterIInv, EmptyMap

LEMMA ClusterStepInv == ClusterIInv /\ [ClusterNext]_clusterVars => ClusterIInv'
<1> SUFFICES ASSUME ClusterIInv, [ClusterNext]_clusterVars PROVE ClusterIInv'
  OBVIOUS
<1>1. CASE UNCHANGED clusterVars
  BY <1>1, WorldStays, TableStays, AnswerStays DEF clusterVars, world, ClusterIInv
<1>2. ASSUME NEW n \in Servers, RefreshFromNode(n) PROVE ClusterIInv'
  BY <1>2, RefreshFromNodeKeeps
<1>3. ASSUME NEW n \in Servers, ConnectPrimary(n) PROVE ClusterIInv'
  BY <1>3, ConnectPrimaryKeeps
<1>4. ASSUME NEW n \in Servers, NodeClient(n) PROVE ClusterIInv'
  BY <1>4, NodeClientKeeps
<1>5. ASSUME NEW n \in Servers, ServerDrops(n) PROVE ClusterIInv'
  BY <1>5, ServerDropsKeeps
<1>6. CASE \/ \E s \in Slots : FinishMove(s) \/ \E n \in Servers : StartMove(s, n)
           \/ \E n \in Servers : Gossip(n)
  BY <1>6, WorldStepKeeps
<1>7. CASE RefreshFromSeed
  BY <1>7, RefreshFromSeedKeeps
<1>8. CASE RetainPrimaries
  BY <1>8, RetainPrimariesKeeps
<1>9. CASE RefreshDone
  BY <1>9, RefreshDoneKeeps
<1>10. CASE ClusterConnect
  BY <1>10, ClusterConnectKeeps
<1>11. CASE ClusterCloseAll
  BY <1>11, ClusterCloseAllKeeps
<1>12. ASSUME NEW s \in Slots, ClusterRoute(s) PROVE ClusterIInv'
  BY <1>12, ClusterRouteKeeps
<1>13. CASE EnsureConn \/ EnsureConnFails
  BY <1>13, EnsureConnKeeps, EnsureConnFailsKeeps
<1>14. CASE ClusterSend \/ ClusterSendFails
  BY <1>14, ClusterSendKeeps
<1>15. CASE ReadLost
  BY <1>15, ReadLostKeeps
<1>16. CASE ReadAnswer
  BY <1>16, ReadAnswerKeeps
<1>17. CASE ReadMoved
  BY <1>17, ReadMovedKeeps
<1>18. CASE ReadAsk
  BY <1>18, ReadAskKeeps
<1>19. CASE ReadTransient
  BY <1>19, ReadTransientKeeps
<1>20. CASE RefreshInvalid \/ ReadGarbled
  BY <1>20, RefreshInvalidKeeps, ReadGarbledKeeps
<1> QED
  BY <1>1, <1>2, <1>3, <1>4, <1>5, <1>6, <1>7, <1>8, <1>9, <1>10, <1>11, <1>12, <1>13, <1>14,
     <1>15, <1>16, <1>17, <1>18, <1>19, <1>20 DEF ClusterNext

(* Whatever the cluster does and however it loses connections: every socket  *)
(* the client opened is in its table, and a command is executed again only   *)
(* when a connection was lost under it, and then once.                       *)
THEOREM ClusterSafe == ClusterSpec => []ClusterServed
<1>1. ClusterInit => ClusterIInv
  BY ClusterInitInv
<1>2. ClusterIInv /\ [ClusterNext]_clusterVars => ClusterIInv'
  BY ClusterStepInv
<1>3. ClusterIInv => ClusterServed
  BY DEF ClusterIInv, ClusterServed, ClusterTypeOK, WorldOK, TableOK, AnswerOK, RouteOK, RouteRecs,
         Turning, Refreshing
<1> QED BY <1>1, <1>2, <1>3, PTL DEF ClusterSpec

-----------------------------------------------------------------------------
(* Nothing but the end of a refresh installs a map, and nothing else leaves  *)
(* the connecting of new primaries.                                          *)
LEMMA OnlyRefreshDone ==
  ASSUME ClusterIInv, ClusterNext, ~ RefreshDone
  PROVE  slot_map' = slot_map /\ (route.pc = "connect_new" => route'.pc = "connect_new")
<1>1. ASSUME NEW n \in Servers, RefreshFromNode(n)
      PROVE  slot_map' = slot_map /\ route.pc # "connect_new"
  BY <1>1 DEF RefreshFromNode, Go
<1>2. ASSUME NEW n \in Servers, ConnectPrimary(n)
      PROVE  slot_map' = slot_map /\ route'.pc = "connect_new"
  <2>1. route \in RouteRecs
    BY DEF ClusterIInv, RouteOK
  <2> QED BY <1>2, <2>1 DEF ConnectPrimary, Go, RouteRecs
<1>3. ASSUME NEW n \in Servers, NodeClient(n) \/ Gossip(n) \/ ServerDrops(n)
      PROVE  slot_map' = slot_map /\ route' = route
  BY <1>3 DEF NodeClient, Gossip, ServerDrops
<1>4. CASE RefreshFromSeed \/ RetainPrimaries \/ RefreshInvalid
  BY <1>4 DEF RefreshFromSeed, RetainPrimaries, RefreshInvalid, Go, Done
<1>5. CASE ClusterConnect \/ ClusterCloseAll
  BY <1>5 DEF ClusterConnect, ClusterCloseAll
<1>6. ASSUME NEW s \in Slots, ClusterRoute(s)
      PROVE  slot_map' = slot_map /\ route.pc # "connect_new"
  BY <1>6 DEF ClusterRoute
<1>7. ASSUME NEW s \in Slots, FinishMove(s) \/ \E n \in Servers : StartMove(s, n)
      PROVE  slot_map' = slot_map /\ route' = route
  BY <1>7 DEF FinishMove, StartMove
<1>8. CASE EnsureConn \/ EnsureConnFails \/ ClusterSend \/ ClusterSendFails
  BY <1>8 DEF EnsureConn, EnsureConnFails, ClusterSend, ClusterSendFails, Go, Done
<1>9. CASE ReadLost \/ ReadGarbled \/ ReadAnswer \/ ReadMoved \/ ReadAsk \/ ReadTransient
  BY <1>9 DEF ReadLost, ReadGarbled, ReadAnswer, ReadMoved, ReadAsk, ReadTransient, NextTurn, Go,
              Done
<1> QED BY <1>1, <1>2, <1>3, <1>4, <1>5, <1>6, <1>7, <1>8, <1>9 DEF ClusterNext

(* Every refresh that returns, whatever nodes came, went or failed to        *)
(* connect on the way, leaves in the table exactly the primaries of the map  *)
(* it installed whose address parses: a primary announced by a host name is  *)
(* in the map and not in the table.                                          *)
THEOREM RefreshInstalls == ClusterSpec => RefreshLeavesPrimaries
<1> DEFINE Installs == slot_map' # slot_map
                       \/ (route.pc = "connect_new" /\ route'.pc \in {"idle", "ensure"})
           Left == {n \in Servers : nodes'[n] # "absent"} = Range(slot_map') \ Named
<1>1. ClusterInit => ClusterIInv
  BY ClusterInitInv
<1>2. ClusterIInv /\ [ClusterNext]_clusterVars => ClusterIInv'
  BY ClusterStepInv
<1>3. ClusterIInv /\ [ClusterNext]_clusterVars => [Installs => Left]_clusterVars
  <2> SUFFICES ASSUME ClusterIInv, ClusterNext, Installs PROVE Left
    BY DEF clusterVars
  <2>1. RefreshDone
    BY OnlyRefreshDone
  <2>2. route.todo = {} /\ route.pc = "connect_new" /\ slot_map' = route.map /\ nodes' = nodes
    BY <2>1 DEF RefreshDone
  <2>3. Present(nodes) \union (route.todo \ Named) = Range(route.map) \ Named
    BY <2>2 DEF ClusterIInv, RouteOK
  <2> QED BY <2>2, <2>3 DEF Present
<1> QED BY <1>1, <1>2, <1>3, PTL DEF ClusterSpec, RefreshLeavesPrimaries
=============================================================================
