------------------------------- MODULE Sharded -------------------------------
(***************************************************************************)
(* The ketama-sharded clients: ketama/src/lib.rs picks the shard of a key, *)
(* ringline-redis/src/sharded.rs and ringline-memcache/src/sharded.rs run  *)
(* the command on one of the shard's pooled connections, lazily connected  *)
(* and tried round robin.  The client is used through &mut, so one command *)
(* runs at a time; a server may drop a connection at any moment.           *)
(***************************************************************************)
EXTENDS Naturals, FiniteSets, Commands

CONSTANTS Shards,      \* number of servers
          Width,       \* pool_size
          Rings,       \* the rings to check: sets of points
          Hashes,      \* hashes of keys
          MaxCommands  \* bound: commands run

(* A pool has a slot (pool_size.max(1)), a ring a point, and its points are  *)
(* those of the shards.                                                      *)
ASSUME ShardAssumption ==
  /\ Shards \in Nat /\ Width \in Nat \ {0} /\ Hashes \subseteq Nat
  /\ \A r \in Rings : r # {} /\ r \subseteq [point : Nat, shard : 1 .. Shards]

VARIABLES
  proto,    \* "redis" or "memcache"
  ring,     \* Ring: the points [point, shard], in the order of point
  shards,   \* per shard: conns, next
  task,     \* the command in progress
  done,     \* ghost: how the last command ended
  runs      \* ghost: commands started

shardVars == <<proto, ring, shards, task, done, runs>>

NoTask == [op |-> "none", shard |-> 0, attempt |-> 0, at |-> "idle", lost |-> 0, ran |-> {},
           tried |-> {}]

(* A slot is Disconnected, or Connected to a live peer or to a dead one. *)
SlotStates == {"none", "live", "dead"}

ShardInit ==
  /\ proto \in {"redis", "memcache"}
  /\ ring \in Rings
  /\ shards = [s \in 1 .. Shards |-> [conns |-> [i \in 0 .. Width - 1 |-> "none"], next |-> 0]]
  /\ task = NoTask
  /\ done = [result |-> "none", ran |-> {}, lost |-> 0, tried |-> {}]
  /\ runs = 0

-----------------------------------------------------------------------------
(* Mutant: the hash modulo the number of nodes. *)
RouteModulo(points, hash) == (hash % Cardinality({p.shard : p \in points})) + 1

(* The first of some points; which of two that share a hash, the sort is     *)
(* free to choose (sort_unstable_by_key).                                    *)
First(points) == CHOOSE p \in points : \A q \in points : p.point <= q.point

(* Ring::route: the first point not below the hash, around the ring. *)
Route(points, hash) ==
  LET past == {p \in points : p.point >= hash}
  IN  First(IF past = {} THEN points ELSE past).shard

(* RingBuilder::build: the points of the nodes it was given. *)
Build(points, nodes) == {p \in points : p.shard \in nodes}

-----------------------------------------------------------------------------
(* The routed commands, as the single connection's take their replies. *)
ShardedStrings == StringCommands
ShardedStrings2 == StringCommands2
ShardedKeys == KeyCommands
ShardedHashes == HashCommands
ShardedHashes2 == HashCommands2
ShardedLists == ListCommands
ShardedSets == SetCommands
McShardedReads == GetCommand
McShardedWrites == [set_with_options |-> {"stored"}, add |-> StoreCommands.add,
                    replace |-> StoreCommands.replace]
McShardedArithmetic == [incr |-> StoreCommands.incr, append |-> StoreCommands.append,
                        cas |-> CasCommands.cas, delete |-> DeleteCommand.delete]

Routed(p) ==
  LET Of(t) == {t[c] : c \in DOMAIN t}
  IN  IF p = "redis"
      THEN UNION {Of(ShardedStrings), Of(ShardedStrings2), Of(ShardedKeys), Of(ShardedHashes),
                  Of(ShardedHashes2), Of(ShardedLists), Of(ShardedSets)}
      ELSE UNION {Of(McShardedReads), Of(McShardedWrites), Of(McShardedArithmetic)}

Replies(p) ==
  IF p = "redis" THEN Types ELSE {"error"} \union UNION Routed(p)

TaskShard == shards[task.shard]
Slot == (TaskShard.next + task.attempt) % Width

(* Mutant: the cursor is not brought back into the pool. *)
CursorUnwrapped(next) ==
  IF task.op = "admin" THEN [next EXCEPT ![task.shard].next = Slot + 1] ELSE next

(* flush_all_on_shard and version_on_shard move the cursor as they go; a     *)
(* routed command moves it when it is answered.                              *)
Cursor(next) ==
  IF task.op = "admin" THEN [next EXCEPT ![task.shard].next = (Slot + 1) % Width] ELSE next

Finish(result, next) ==
  /\ done' = [result |-> result, ran |-> task.ran, lost |-> task.lost,
              tried |-> task.tried \union {Slot}]
  /\ task' = NoTask
  /\ shards' = Cursor(next)

WithSlot(state) == [shards EXCEPT ![task.shard].conns[Slot] = state]

(* Mutant: the cursor moves with every attempt. *)
NextAttemptMoves(next, lost) ==
  IF task.attempt + 1 = Width
  THEN Finish("all_failed", next)
  ELSE /\ shards' = [next EXCEPT ![task.shard].next = (@ + 1) % Width]
       /\ task' = [task EXCEPT !.attempt = @ + 1, !.at = "slot", !.lost = @ + lost,
                               !.tried = @ \union {Slot}]
       /\ UNCHANGED done

(* continue: the next slot, or AllConnectionsFailed after the last. *)
NextAttempt(next, lost) ==
  IF task.attempt + 1 = Width
  THEN Finish("all_failed", next)
  ELSE /\ shards' = next
       /\ task' = [task EXCEPT !.attempt = @ + 1, !.at = "slot", !.lost = @ + lost,
                               !.tried = @ \union {Slot}]
       /\ UNCHANGED done

(* route_command for a key; require_same_shard has refused keys of several. *)
RouteCommand ==
  /\ task = NoTask
  /\ runs < MaxCommands
  /\ \E hash \in Hashes :
       task' = [NoTask EXCEPT !.op = "route", !.shard = Route(ring, hash), !.at = "slot"]
  /\ runs' = runs + 1
  /\ UNCHANGED <<proto, ring, shards, done>>

(* ping, flush_all and version go to a shard, not a key; redis' ping uses the *)
(* first connected slot and never connects.                                  *)
AdminCommand(s) ==
  /\ task = NoTask /\ proto = "memcache"
  /\ runs < MaxCommands
  /\ task' = [NoTask EXCEPT !.op = "admin", !.shard = s, !.at = "slot"]
  /\ runs' = runs + 1
  /\ UNCHANGED <<proto, ring, shards, done>>

(* A disconnected slot is connected first, AUTH included; a failure moves on. *)
DoConnect ==
  /\ task.at = "slot" /\ TaskShard.conns[Slot] = "none"
  /\ \/ shards' = WithSlot("live") /\ task' = [task EXCEPT !.at = "send"] /\ UNCHANGED done
     \/ NextAttempt(shards, 0)
  /\ UNCHANGED <<proto, ring, runs>>

SlotConnected ==
  /\ task.at = "slot" /\ TaskShard.conns[Slot] # "none"
  /\ task' = [task EXCEPT !.at = "send"]
  /\ UNCHANGED <<proto, ring, shards, done, runs>>

(* The send reaches the server, which may or may not run the command before  *)
(* the connection breaks.                                                    *)
Send ==
  /\ task.at = "send" /\ TaskShard.conns[Slot] = "live"
  /\ task' = [task EXCEPT !.at = "read"]
  /\ UNCHANGED <<proto, ring, shards, done, runs>>

(* Mutant: the scan goes on and the dead client stays in its slot. *)
SendFailsKeepsSlot ==
  /\ task.at = "send" /\ TaskShard.conns[Slot] = "dead"
  /\ IF proto = "memcache" /\ task.op = "route"
     THEN NextAttempt(shards, 0)
     ELSE Finish("io", shards)
  /\ UNCHANGED <<proto, ring, runs>>

(* send_raw on a dead connection fails at once.  Memcache's route_command    *)
(* retires the slot and tries the next; redis' returns the error, and so do  *)
(* flush_all and version.                                                    *)
SendFails ==
  /\ task.at = "send" /\ TaskShard.conns[Slot] = "dead"
  /\ IF proto = "memcache" /\ task.op = "route"
     THEN NextAttempt(WithSlot("none"), 0)
     ELSE Finish("io", shards)
  /\ UNCHANGED <<proto, ring, runs>>

(* The server runs the command (ghost: on which slot). *)
ServerRuns ==
  /\ task.at = "read" /\ TaskShard.conns[Slot] = "live"
  /\ task.attempt \notin task.ran
  /\ task' = [task EXCEPT !.ran = @ \union {task.attempt}]
  /\ UNCHANGED <<proto, ring, shards, done, runs>>

(* A response, be it an error line: the cursor moves past the slot used. *)
Response ==
  /\ task.at = "read" /\ task.attempt \in task.ran
  /\ TaskShard.conns[Slot] = "live"
  /\ \E c \in Routed(proto), reply \in Replies(proto) :
       Finish(Outcome(c, reply), [shards EXCEPT ![task.shard].next = (Slot + 1) % Width])
  /\ UNCHANGED <<proto, ring, runs>>

(* Mutant: a reply that does not parse is taken for a lost connection. *)
ProtocolErrorRetries ==
  /\ task.at = "read" /\ task.attempt \in task.ran
  /\ NextAttempt(WithSlot("dead"), 0)
  /\ UNCHANGED <<proto, ring, runs>>

(* Bytes no parser takes: the client closed its connection, the slot stays   *)
(* as it is and the error is returned.                                       *)
ProtocolError ==
  /\ task.at = "read" /\ task.attempt \in task.ran
  /\ Finish("protocol", WithSlot("dead"))
  /\ UNCHANGED <<proto, ring, runs>>

(* ConnectionClosed before the response: the slot is retired, the command is *)
(* sent again on the next one.                                               *)
ReadClosedByPeer ==
  /\ task.at = "read" /\ TaskShard.conns[Slot] = "dead"
  /\ NextAttempt(WithSlot("none"), 1)
  /\ UNCHANGED <<proto, ring, runs>>

-----------------------------------------------------------------------------
(* connect_all overwrites every slot, one connect after the other, and stops *)
(* at the first failure.                                                     *)
ConnectAllShards ==
  /\ task = NoTask /\ runs < MaxCommands
  /\ runs' = runs + 1
  /\ \E upto \in 0 .. Shards * Width :
       shards' = [s \in 1 .. Shards |->
                    [shards[s] EXCEPT !.conns = [i \in 0 .. Width - 1 |->
                       IF (s - 1) * Width + i < upto THEN "live" ELSE @[i]]]]
  /\ UNCHANGED <<proto, ring, task, done>>

CloseAllShards ==
  /\ task = NoTask /\ runs < MaxCommands
  /\ runs' = runs + 1
  /\ shards' = [s \in 1 .. Shards |->
                  [shards[s] EXCEPT !.conns = [i \in 0 .. Width - 1 |-> "none"]]]
  /\ UNCHANGED <<proto, ring, task, done>>

(* get_conn (shard_client): advance the cursor until a slot is connected or  *)
(* connects; the caller then uses the borrowed client on its own.            *)
ShardClient(s) ==
  /\ task = NoTask /\ runs < MaxCommands
  /\ runs' = runs + 1
  /\ \E tried \in 1 .. Width :
       LET At(k) == (shards[s].next + k - 1) % Width
       IN  /\ \A k \in 1 .. tried - 1 : shards[s].conns[At(k)] = "none"
           /\ \/ shards' = [shards EXCEPT ![s].next = (@ + tried) % Width,
                                          ![s].conns[At(tried)] = IF @ = "none" THEN "live" ELSE @]
              \/ /\ tried = Width /\ shards[s].conns[At(tried)] = "none"
                 /\ shards' = [shards EXCEPT ![s].next = (@ + tried) % Width]
  /\ UNCHANGED <<proto, ring, task, done>>

(* A server drops a pooled connection; the client does not look until it     *)
(* uses it.                                                                  *)
PeerDrops(s, i) ==
  /\ shards[s].conns[i] = "live"
  /\ shards' = [shards EXCEPT ![s].conns[i] = "dead"]
  /\ UNCHANGED <<proto, ring, task, done, runs>>

ShardNext ==
  \/ RouteCommand \/ DoConnect \/ SlotConnected \/ Send \/ SendFails
  \/ ServerRuns \/ Response \/ ProtocolError \/ ReadClosedByPeer
  \/ ConnectAllShards \/ CloseAllShards
  \/ \E s \in 1 .. Shards : AdminCommand(s) \/ ShardClient(s) \/ \E i \in 0 .. Width - 1 : PeerDrops(s, i)

ShardSpec == ShardInit /\ [][ShardNext]_shardVars

-----------------------------------------------------------------------------
ShardTypeOK ==
  /\ \A s \in 1 .. Shards :
       /\ shards[s].next \in 0 .. Width - 1
       /\ \A i \in 0 .. Width - 1 : shards[s].conns[i] \in SlotStates
  /\ task.attempt \in 0 .. Width - 1
  /\ task.at \in {"idle", "slot", "send", "read"}

(* Consistent hashing: without one of its servers, the ring sends every key  *)
(* of the other servers where it sent it before, unless two of its points    *)
(* share a hash.                                                             *)
OnlyLostKeysMove ==
  (\A p \in ring, q \in ring : p.point = q.point => p = q) =>
    \A gone \in 1 .. Shards : \A hash \in Hashes :
      Route(ring, hash) # gone =>
        Route(Build(ring, (1 .. Shards) \ {gone}), hash) = Route(ring, hash)

(* The commands are at-least-once, and no worse: one reported done has been  *)
(* run, and it ran at most once per connection lost on the way and once more. *)
AtLeastOncePerLoss ==
  /\ done.result \in {"ok", "server_error", "unexpected"} => done.ran # {}
  /\ Cardinality(done.ran) <= done.lost + 1

(* AllConnectionsFailed is reported only when every slot of the shard was    *)
(* tried, from whatever slot the scan began.                                 *)
FailsOnlyAfterEverySlot ==
  done.result = "all_failed" => done.tried = 0 .. Width - 1

(* A slot a command moved past, because it could not be connected or its     *)
(* connection was found dead, is Disconnected when the command returns, so   *)
(* that the next one connects it anew; after AllConnectionsFailed every slot *)
(* of the shard is.  Not so the slot a command stopped at with an error: a   *)
(* redis command, flush_all and version return when a send fails             *)
(* (memcache sharded.rs:552, 585), and leave the dead client Connected.      *)
PassedSlotsDisconnected ==
  [][ task # NoTask /\ task' = NoTask =>
        \A i \in IF done'.result = "all_failed" THEN 0 .. Width - 1 ELSE task.tried :
          shards'[task.shard].conns[i] = "none" ]_shardVars

(* What route_command promises, however connections are lost, reopened and   *)
(* shared by the commands of a shard: see the conjuncts.                     *)
CommandsRouted ==
  /\ ShardTypeOK
  /\ OnlyLostKeysMove /\ AtLeastOncePerLoss /\ FailsOnlyAfterEverySlot
=============================================================================
