----------------------------- MODULE MCClients -----------------------------
(***************************************************************************)
(* The clients of one worker for TLC: a connection pool, a pipelined       *)
(* connection (redis, memcache text and binary), the sharded clients and   *)
(* the cluster client.  They share nothing, so a behaviour runs one of     *)
(* them and leaves the others as they were made.                           *)
(***************************************************************************)
EXTENDS RedisClient, MemcacheClient, ClientPool, Sharded, Cluster, TLC

CONSTANTS t1, t2, c1, c2, n1, n2, n3

VARIABLE part

mcVars == <<part, poolVars, pipeVars, shardVars, clusterVars>>

MCFaults == {{}, {"auth", "late_cancel", "drop_pool"}, {"close_all", "teardown"}}

Settings(p, b, f) == [proto |-> p, batch |-> b, in_flight |-> 2, faults |-> f]

MCPipelines ==
  {Settings("redis", 2, {"send", "misuse"}), Settings("redis", 1, {"server"}),
   Settings("redis", 1, {"cancel"}),
   Settings("text", 2, {"send"}), Settings("text", 1, {"server"}),
   Settings("binary", 2, {"send"}), Settings("binary", 2, {"server"})}

MCRings == {{[point |-> 0, shard |-> 1], [point |-> 2, shard |-> 2], [point |-> 4, shard |-> 3],
             [point |-> 6, shard |-> 2]}}

MCSeeds == <<n1, n2>>

MCOwner == (1 :> n1) @@ (2 :> n2)

OnePool == PoolInit /\ faults = {}

OnePipe == PipeInit /\ client.proto = "redis" /\ client.faults = {"cancel"}

OneShard == ShardInit /\ proto = "redis"

MCInit ==
  \/ part = "pool" /\ PoolInit /\ OnePipe /\ OneShard /\ ClusterInit
  \/ part = "pipe" /\ OnePool /\ PipeInit /\ OneShard /\ ClusterInit
  \/ part = "shard" /\ OnePool /\ OnePipe /\ ShardInit /\ ClusterInit
  \/ part = "cluster" /\ OnePool /\ OnePipe /\ OneShard /\ ClusterInit

MCNext ==
  \/ part = "pool" /\ PoolNext /\ UNCHANGED <<part, pipeVars, shardVars, clusterVars>>
  \/ part = "pipe" /\ client.proto = "redis" /\ RedisNext
     /\ UNCHANGED <<part, poolVars, shardVars, clusterVars>>
  \/ part = "pipe" /\ client.proto # "redis" /\ MemcacheNext
     /\ UNCHANGED <<part, poolVars, shardVars, clusterVars>>
  \/ part = "shard" /\ ShardNext /\ UNCHANGED <<part, poolVars, pipeVars, clusterVars>>
  \/ part = "cluster" /\ ClusterNext /\ UNCHANGED <<part, poolVars, pipeVars, shardVars>>

MCSpec == MCInit /\ [][MCNext]_mcVars

Symm == Permutations({t1, t2}) \union Permutations({c1, c2})

(* What a step of a client may never do: the pool closes no connection but   *)
(* its own, a sharded command leaves no client in a slot it moved past, a    *)
(* refresh leaves no node that lost its slots.                               *)
StepsSound == ClosesOnlyItsOwn /\ PassedSlotsDisconnected /\ RefreshLeavesPrimaries
============================================================================
