------------------------------ MODULE Cluster -------------------------------
(***************************************************************************)
(* ringline-redis/src/cluster.rs: ClusterClient.  A command goes to the    *)
(* node the cached slot map names; MOVED refreshes the map, ASK is         *)
(* followed once with ASKING, a transient error is retried on the same     *)
(* node, and a lost connection is retried once after a refresh.            *)
(*                                                                         *)
(* The cluster is the environment.  Every server has its own view of who   *)
(* owns a slot and learns of a change by gossip, so redirects may be stale *)
(* and may loop.  The client is used through &mut, one command at a time, and  *)
(* without a password.                                                     *)
(***************************************************************************)
EXTENDS Integers, Sequences, Functions, Commands

CONSTANTS Servers, NoServer, Slots, Seeds, FirstOwner, Named, MaxMoves, MaxDrops,
          MaxRouted, MAX_REDIRECTS, MAX_TRANSIENT_RETRIES

(* NoServer stands for "no node in the map", and a node name is a server's. *)
(* Named: the servers the cluster announces by a host name, or by none; the *)
(* map has the name, which does not parse.  A seed is a SocketAddr.         *)
ASSUME ClusterAssumption ==
  /\ NoServer \notin Servers
  /\ FirstOwner \in [Slots -> Servers] /\ Seeds \in Seq(Servers)
  /\ Named \subseteq Servers /\ Named \intersect Range(Seeds) = {}
  /\ MAX_REDIRECTS \in Nat \ {0} /\ MAX_TRANSIENT_RETRIES \in Nat

VARIABLES owner,      \* slot -> the server that owns it
          views,      \* server -> what it believes of owner
          importing,  \* slot -> the server its keys are moving to
          sockets,    \* server -> how many of the client's connections it has open
          nodes,      \* self.nodes: "absent", "disconnected", "live", "dead"
          slot_map,   \* self.slot_map
          route,      \* route_command, refresh_topology, execute_with_asking in progress
          answer,     \* the last command's result and how often it was executed
          budget      \* moves, drops and commands so far

clusterVars == <<owner, views, importing, sockets, nodes, slot_map, route, answer, budget>>

NoRoute == [pc |-> "idle", slot |-> 0, target |-> NoServer, attempt |-> 0, retried |-> FALSE,
            transient |-> 0, todo |-> {}, seeds |-> <<>>, map |-> <<>>, back |-> "route",
            executed |-> 0, lost |-> 0]

EmptyMap == [s \in Slots |-> NoServer]

(* ClusterClient::new: no nodes and an empty map. *)
ClusterInit ==
  /\ owner = FirstOwner
  /\ views = [n \in Servers |-> FirstOwner]
  /\ importing = [s \in Slots |-> NoServer]
  /\ sockets = [n \in Servers |-> 0]
  /\ nodes = [n \in Servers |-> "absent"]
  /\ slot_map = EmptyMap
  /\ route = NoRoute
  /\ answer = [result |-> "none", executed |-> 0, lost |-> 0]
  /\ budget = [moves |-> 0, drops |-> 0, routed |-> 0]

world == <<owner, views, importing>>

HasClient(n) == nodes[n] \in {"live", "dead"}

(* client.close(): the slot holds no client, the server one socket fewer. *)
Closed(n) == IF nodes[n] = "live" THEN [sockets EXCEPT ![n] = @ - 1] ELSE sockets

Done(result) ==
  /\ route' = NoRoute
  /\ answer' = [result |-> result, executed |-> route.executed, lost |-> route.lost]
  /\ UNCHANGED <<world, budget, slot_map>>

Go(r) ==
  /\ route' = r
  /\ UNCHANGED <<world, answer, budget, slot_map>>

(* Mutant: the loop goes on while it is redirected. *)
NextTurnUnbounded(r) == Go([r EXCEPT !.attempt = @ + 1, !.pc = "ensure"])

(* The next turn of the loop, or its end. *)
NextTurn(r) ==
  IF r.attempt + 1 = MAX_REDIRECTS THEN Done("too_many_redirects")
  ELSE Go([r EXCEPT !.attempt = @ + 1, !.pc = "ensure"])

Refresh(r) ==
  [r EXCEPT !.pc = "ask_nodes", !.todo = {n \in Servers : HasClient(n)}, !.seeds = Seeds,
            !.map = EmptyMap]

-----------------------------------------------------------------------------
(* refresh_topology: CLUSTER SLOTS from a connected node, in any order; one *)
(* that fails is closed and marked down.                                    *)
RefreshFromNode(n) ==
  /\ route.pc = "ask_nodes" /\ n \in route.todo
  /\ \/ /\ nodes[n] = "live"
        /\ Go([route EXCEPT !.pc = "install", !.map = views[n]])
        /\ UNCHANGED <<nodes, sockets>>
     \/ /\ nodes' = [nodes EXCEPT ![n] = "disconnected"]
        /\ sockets' = Closed(n)
        /\ Go([route EXCEPT !.todo = @ \ {n}])

(* Mutant: a refresh that goes to the seeds without asking the nodes it has. *)
RefreshSeedsFirst ==
  /\ route.pc = "ask_nodes" /\ route.seeds # <<>>
  /\ LET n == Head(route.seeds)
     IN  /\ nodes' = [nodes EXCEPT ![n] = "live"]
         /\ sockets' = [sockets EXCEPT ![n] = @ + 1]
         /\ Go([route EXCEPT !.pc = "install", !.map = views[n]])

(* No connected node answered: the seeds in order, on a new connection. *)
RefreshFromSeed ==
  /\ route.pc = "ask_nodes" /\ route.todo = {}
  /\ IF route.seeds = <<>>
     THEN /\ Done("all_connections_failed")
          /\ UNCHANGED <<nodes, sockets>>
     ELSE LET n == Head(route.seeds)
          IN  \/ /\ nodes' = [nodes EXCEPT ![n] = "live"]
                 /\ sockets' = [sockets EXCEPT ![n] = @ + 1]
                 /\ Go([route EXCEPT !.pc = "install", !.map = views[n]])
              \/ /\ Go([route EXCEPT !.seeds = Tail(@)])
                 /\ UNCHANGED <<nodes, sockets>>

(* Mutant: the closing left to the map's replacement. *)
RetainEveryone ==
  /\ route.pc = "install"
  /\ Go([route EXCEPT !.pc = "connect_new",
                      !.todo = {n \in Range(route.map) : nodes[n] = "absent"}])
  /\ UNCHANGED <<nodes, sockets>>

(* Nodes that are no longer primaries are closed and forgotten. *)
RetainPrimaries ==
  LET primaries == Range(route.map)
  IN  /\ route.pc = "install"
      /\ nodes' = [n \in Servers |-> IF n \in primaries THEN nodes[n] ELSE "absent"]
      /\ sockets' = [n \in Servers |-> IF n \in primaries THEN sockets[n] ELSE Closed(n)[n]]
      /\ Go([route EXCEPT !.pc = "connect_new",
                          !.todo = {n \in primaries : nodes[n] = "absent"}])

(* The answer is not a slot map: the error goes to the caller, and the node *)
(* that gave it stays in the table.                                         *)
RefreshInvalid ==
  /\ route.pc = "install"
  /\ Done("server_error")
  /\ UNCHANGED <<nodes, sockets>>

(* Each missing primary is connected, or recorded as disconnected; one      *)
(* whose address does not parse is passed over.                             *)
ConnectPrimary(n) ==
  /\ route.pc = "connect_new" /\ n \in route.todo
  /\ \/ /\ n \notin Named
        /\ nodes' = [nodes EXCEPT ![n] = "live"]
        /\ sockets' = [sockets EXCEPT ![n] = @ + 1]
     \/ /\ n \notin Named
        /\ nodes' = [nodes EXCEPT ![n] = "disconnected"]
        /\ UNCHANGED sockets
     \/ /\ n \in Named
        /\ UNCHANGED <<nodes, sockets>>
  /\ Go([route EXCEPT !.todo = @ \ {n}])

(* self.slot_map = new_map, and back to the caller: connect is done, a      *)
(* route looks its slot up again and takes its next turn.                   *)
RefreshDone ==
  /\ route.pc = "connect_new" /\ route.todo = {}
  /\ slot_map' = route.map
  /\ IF route.back = "connect"
     THEN route' = NoRoute /\ answer' = [answer EXCEPT !.result = "connected"]
     ELSE IF route.attempt + 1 = MAX_REDIRECTS
     THEN /\ route' = NoRoute
          /\ answer' = [result |-> "too_many_redirects", executed |-> route.executed,
                        lost |-> route.lost]
     ELSE /\ route' = [route EXCEPT !.pc = "ensure", !.attempt = @ + 1,
                                    !.target = route.map[route.slot]]
          /\ UNCHANGED answer
  /\ UNCHANGED <<world, nodes, sockets, budget>>

(* ClusterClient::connect *)
ClusterConnect ==
  /\ route.pc = "idle" /\ budget.routed < MaxRouted
  /\ route' = [Refresh(NoRoute) EXCEPT !.back = "connect"]
  /\ budget' = [budget EXCEPT !.routed = @ + 1]
  /\ UNCHANGED <<world, sockets, nodes, slot_map, answer>>

(* close_all drains the nodes; the map stays. *)
ClusterCloseAll ==
  /\ route.pc = "idle" /\ \E n \in Servers : nodes[n] # "absent"
  /\ nodes' = [n \in Servers |-> "absent"]
  /\ sockets' = [n \in Servers |-> Closed(n)[n]]
  /\ UNCHANGED <<world, slot_map, route, answer, budget>>

-----------------------------------------------------------------------------
(* route_command: the slot's node from the map, an error if it has none. *)
ClusterRoute(s) ==
  /\ route.pc = "idle" /\ budget.routed < MaxRouted
  /\ budget' = [budget EXCEPT !.routed = @ + 1]
  /\ IF slot_map[s] = NoServer
     THEN /\ answer' = [result |-> "no_node", executed |-> 0, lost |-> 0]
          /\ UNCHANGED route
     ELSE /\ route' = [NoRoute EXCEPT !.pc = "ensure", !.slot = s, !.target = slot_map[s]]
          /\ UNCHANGED answer
  /\ UNCHANGED <<world, sockets, nodes, slot_map>>

(* ensure_conn, for the target or for an ASK's server. *)
EnsureConn ==
  LET n == route.target
      next == IF route.pc = "ensure" THEN "send" ELSE "asking"
  IN  /\ route.pc \in {"ensure", "ask_ensure"}
      /\ \/ /\ HasClient(n)
            /\ Go([route EXCEPT !.pc = next])
            /\ UNCHANGED <<nodes, sockets>>
         \/ /\ ~ HasClient(n) /\ n \notin Named
            /\ nodes' = [nodes EXCEPT ![n] = "live"]
            /\ sockets' = [sockets EXCEPT ![n] = @ + 1]
            /\ Go([route EXCEPT !.pc = next])

ClusterMarkDisconnected(n) ==
  /\ nodes' = [nodes EXCEPT ![n] = IF @ = "absent" THEN @ ELSE "disconnected"]
  /\ sockets' = Closed(n)

(* The target cannot be connected: mark it down, refresh once, then give up. *)
(* An address that does not parse is the caller's error at once.             *)
EnsureConnFails ==
  /\ route.pc \in {"ensure", "ask_ensure"} /\ ~ HasClient(route.target)
  /\ IF route.target \in Named
     THEN Done("bad_address") /\ UNCHANGED <<nodes, sockets>>
     ELSE IF route.pc = "ask_ensure"
     THEN Done("io") /\ UNCHANGED <<nodes, sockets>>
     ELSE IF route.retried
     THEN Done("all_connections_failed") /\ UNCHANGED <<nodes, sockets>>
     ELSE /\ ClusterMarkDisconnected(route.target)
          /\ Go([Refresh(route) EXCEPT !.retried = TRUE])

(* send_raw of a dead connection: the error goes to the caller, the node    *)
(* stays Connected.                                                         *)
ClusterSendFails ==
  /\ route.pc \in {"send", "asking", "ask_send"} /\ nodes[route.target] = "dead"
  /\ Done("io")
  /\ UNCHANGED <<nodes, sockets>>

(* The server has the command (or ASKING, which changes nothing by itself,  *)
(* and whose error reply is the caller's).                                  *)
ClusterSend ==
  /\ route.pc \in {"send", "asking", "ask_send"} /\ nodes[route.target] = "live"
  /\ IF route.pc = "asking" THEN Go([route EXCEPT !.pc = "ask_send"]) \/ Done("server_error")
     ELSE Go([route EXCEPT !.pc = IF @ = "send" THEN "read" ELSE "ask_read"])
  /\ UNCHANGED <<nodes, sockets>>

(* What server n does with a command for slot s: executes it, or redirects. *)
Serves(n, s, asking) == views[n][s] = n \/ (asking /\ importing[s] = n)

AskFor(n, s) == views[n][s] = n /\ importing[s] \notin {NoServer, n}

(* ConnectionClosed while reading: the server may or may not have executed  *)
(* the command.  Refresh and retry once.                                    *)
ReadLost ==
  /\ route.pc \in {"read", "ask_read"}
  /\ nodes[route.target] = "dead"
  /\ \E ran \in {FALSE} \union {Serves(route.target, route.slot, route.pc = "ask_read")} :
       LET r == [route EXCEPT !.executed = @ + (IF ran THEN 1 ELSE 0), !.lost = @ + 1]
       IN  IF route.pc = "ask_read" \/ route.retried
           THEN /\ route' = NoRoute
                /\ answer' = [result |-> "closed", executed |-> r.executed, lost |-> r.lost]
                /\ UNCHANGED <<world, budget, slot_map, nodes, sockets>>
           ELSE /\ ClusterMarkDisconnected(route.target)
                /\ Go([Refresh(r) EXCEPT !.retried = TRUE])

(* A reply that does not parse: read_value closes the connection, and the    *)
(* error goes to the caller; the node stays Connected, as after a failed     *)
(* send.                                                                     *)
ReadGarbled ==
  /\ route.pc \in {"read", "ask_read"}
  /\ nodes[route.target] = "live"
  /\ \E ran \in {FALSE} \union {Serves(route.target, route.slot, route.pc = "ask_read")} :
       answer' = [result |-> "protocol", lost |-> route.lost,
                  executed |-> route.executed + (IF ran THEN 1 ELSE 0)]
  /\ route' = NoRoute
  /\ nodes' = [nodes EXCEPT ![route.target] = "dead"]
  /\ sockets' = Closed(route.target)
  /\ UNCHANGED <<world, budget, slot_map>>

(* The routed commands, as the single connection's take their replies. *)
ClusterStrings == StringCommands
ClusterStrings2 == StringCommands2
ClusterKeys == KeyCommands
ClusterHashes == HashCommands
ClusterHashes2 == HashCommands2
ClusterLists == ListCommands
ClusterSets == SetCommands

ClusterCommands ==
  LET Of(t) == {t[c] : c \in DOMAIN t}
  IN  UNION {Of(ClusterStrings), Of(ClusterStrings2), Of(ClusterKeys), Of(ClusterHashes),
             Of(ClusterHashes2), Of(ClusterLists), Of(ClusterSets)}

(* A value: from the node's own key, or from the importing one under ASKING. *)
ReadAnswer ==
  /\ route.pc \in {"read", "ask_read"} /\ nodes[route.target] = "live"
  /\ Serves(route.target, route.slot, route.pc = "ask_read")
  /\ \E c \in ClusterCommands, reply \in Types :
       /\ route' = NoRoute
       /\ answer' = [result |-> Outcome(c, reply), executed |-> route.executed + 1,
                     lost |-> route.lost]
  /\ UNCHANGED <<world, budget, slot_map, nodes, sockets>>

(* Mutant: a redirect handed to the caller as if it were the answer. *)
ReadMovedReturned ==
  /\ route.pc \in {"read", "ask_read"} /\ nodes[route.target] = "live"
  /\ ~ Serves(route.target, route.slot, route.pc = "ask_read")
  /\ Done("ok")
  /\ UNCHANGED <<nodes, sockets>>

(* -MOVED: refresh, look the slot up again, next turn; under ASKING too. *)
ReadMoved ==
  /\ route.pc \in {"read", "ask_read"} /\ nodes[route.target] = "live"
  /\ ~ Serves(route.target, route.slot, route.pc = "ask_read")
  /\ Go(Refresh(route))
  /\ UNCHANGED <<nodes, sockets>>

(* -ASK: ASKING and the command on the importing server.  A second ASK in   *)
(* answer to ASKING makes that server the target of the next turn.          *)
ReadAsk ==
  /\ route.pc \in {"read", "ask_read"} /\ nodes[route.target] = "live"
  /\ AskFor(route.target, route.slot)
  /\ LET r == [route EXCEPT !.target = importing[route.slot]]
     IN  IF route.pc = "read" THEN Go([r EXCEPT !.pc = "ask_ensure"]) ELSE NextTurn(r)
  /\ UNCHANGED <<nodes, sockets>>

(* LOADING, BUSY, TRYAGAIN: the same node after a sleep, a bounded number   *)
(* of times; under ASKING, the caller's.                                    *)
ReadTransient ==
  /\ route.pc \in {"read", "ask_read"} /\ nodes[route.target] = "live"
  /\ IF route.pc = "read" /\ route.transient < MAX_TRANSIENT_RETRIES
     THEN NextTurn([route EXCEPT !.transient = @ + 1])
     ELSE Done("server_error")
  /\ UNCHANGED <<nodes, sockets>>

-----------------------------------------------------------------------------
(* node_client connects a node the caller names. *)
NodeClient(n) ==
  /\ route.pc = "idle" /\ budget.routed < MaxRouted /\ ~ HasClient(n) /\ n \notin Named
  /\ nodes' = [nodes EXCEPT ![n] = "live"]
  /\ sockets' = [sockets EXCEPT ![n] = @ + 1]
  /\ budget' = [budget EXCEPT !.routed = @ + 1]
  /\ UNCHANGED <<world, slot_map, route, answer>>

(* The cluster: a slot starts to move, finishes moving, and the others hear  *)
(* of it; a server drops the client's connection.                            *)
StartMove(s, n) ==
  /\ budget.moves < MaxMoves /\ importing[s] = NoServer /\ owner[s] # n
  /\ importing' = [importing EXCEPT ![s] = n]
  /\ budget' = [budget EXCEPT !.moves = @ + 1]
  /\ UNCHANGED <<owner, views, sockets, nodes, slot_map, route, answer>>

FinishMove(s) ==
  /\ importing[s] # NoServer
  /\ owner' = [owner EXCEPT ![s] = importing[s]]
  /\ views' = [n \in Servers |-> IF n \in {owner[s], importing[s]}
                                 THEN [views[n] EXCEPT ![s] = importing[s]] ELSE views[n]]
  /\ importing' = [importing EXCEPT ![s] = NoServer]
  /\ UNCHANGED <<sockets, nodes, slot_map, route, answer, budget>>

Gossip(n) ==
  /\ views[n] # owner
  /\ views' = [views EXCEPT ![n] = owner]
  /\ UNCHANGED <<owner, importing, sockets, nodes, slot_map, route, answer, budget>>

ServerDrops(n) ==
  /\ budget.drops < MaxDrops /\ nodes[n] = "live"
  /\ nodes' = [nodes EXCEPT ![n] = "dead"]
  /\ sockets' = [sockets EXCEPT ![n] = @ - 1]
  /\ budget' = [budget EXCEPT !.drops = @ + 1]
  /\ UNCHANGED <<world, slot_map, route, answer>>

ClusterNext ==
  \/ \E n \in Servers : RefreshFromNode(n) \/ ConnectPrimary(n)
                        \/ NodeClient(n) \/ Gossip(n) \/ ServerDrops(n)
  \/ RefreshFromSeed \/ RetainPrimaries \/ RefreshInvalid \/ RefreshDone
  \/ ClusterConnect \/ ClusterCloseAll
  \/ \E s \in Slots : ClusterRoute(s) \/ FinishMove(s) \/ \E n \in Servers : StartMove(s, n)
  \/ EnsureConn \/ EnsureConnFails \/ ClusterSend \/ ClusterSendFails
  \/ ReadLost \/ ReadGarbled \/ ReadAnswer \/ ReadMoved \/ ReadAsk \/ ReadTransient

ClusterSpec == ClusterInit /\ [][ClusterNext]_clusterVars

-----------------------------------------------------------------------------
ClusterTypeOK ==
  /\ owner \in [Slots -> Servers] /\ views \in [Servers -> [Slots -> Servers]]
  /\ sockets \in [Servers -> Nat]
  /\ nodes \in [Servers -> {"absent", "disconnected", "live", "dead"}]
  /\ slot_map \in [Slots -> Servers \union {NoServer}]
  /\ route.attempt \in 0 .. MAX_REDIRECTS - 1 /\ route.transient \in 0 .. MAX_TRANSIENT_RETRIES
  /\ route.pc \notin {"idle", "ask_nodes", "install", "connect_new"} => route.target \in Servers

(* Every connection a server holds open is one the client has in its table: *)
(* refreshes, redirects and reconnections never overwrite a live client.    *)
EveryConnectionInTable ==
  \A n \in Servers : sockets[n] = IF nodes[n] = "live" THEN 1 ELSE 0

(* A command that comes back as ok was executed, and whatever redirects,    *)
(* refreshes and retries it went through, it was executed more than once    *)
(* only when a connection was lost under it: at most one extra time.        *)
AtLeastOnceAtMostTwice ==
  /\ answer.result \in {"ok", "unexpected"} => answer.executed >= 1
  /\ answer.executed <= 1 + (IF answer.lost > 0 THEN 1 ELSE 0)

(* When a refresh returns, the table holds exactly the primaries of the map *)
(* it installed, those excepted whose address the client cannot parse       *)
(* (cluster.rs:245): nodes that lost their slots, ASK targets among them,   *)
(* have been closed and forgotten.                                          *)
RefreshLeavesPrimaries ==
  [][ slot_map' # slot_map \/ (route.pc = "connect_new" /\ route'.pc \in {"idle", "ensure"})
      => {n \in Servers : nodes'[n] # "absent"} = Range(slot_map') \ Named ]_clusterVars

(* What a routed cluster command promises through MOVED, ASK, refreshes,     *)
(* retries and lost connections: see the conjuncts.                          *)
ClusterServed ==
  /\ ClusterTypeOK
  /\ EveryConnectionInTable /\ AtLeastOnceAtMostTwice
=============================================================================
