------------------------------ MODULE Commands ------------------------------
(***************************************************************************)
(* The commands of ringline-redis/src/lib.rs and ringline-memcache/src/    *)
(* lib.rs, each with the replies it takes for an answer.  A server error   *)
(* is an error whatever the command; any other reply is                    *)
(* UnexpectedResponse.                                                     *)
(***************************************************************************)

(* The types of a whole RESP value; a collection by what its elements are. *)
Types == {"simple", "bulk", "null", "int", "error",
          "bulks", "bulks_or_nulls", "ints", "mixed"}

Bulk == {"bulk", "null"}
Ok == {"simple"}
Integer == {"int"}
Bulks == {"bulks"}

(* What each command takes for an answer; any other value but an error is   *)
(* UnexpectedResponse.                                                      *)
StringCommands ==
  [get |-> Bulk, set |-> Ok \union {"null"}, set_ex |-> Ok, set_px |-> Ok]

StringCommands2 ==
  [set_nx |-> Ok \union {"null"}, del |-> Integer, mget |-> {"bulks", "bulks_or_nulls"},
   incr |-> Integer, decr |-> Integer, incrby |-> Integer, decrby |-> Integer, append |-> Integer]

KeyCommands ==
  [exists |-> Integer, expire |-> Integer, ttl |-> Integer, pttl |-> Integer, persist |-> Integer,
   key_type |-> Ok, rename |-> Ok, unlink |-> Integer]

HashCommands ==
  [hset |-> Integer, hget |-> Bulk, hgetall |-> Bulks,
   hmget |-> {"bulks", "bulks_or_nulls"}, hdel |-> Integer, hexists |-> Integer, hlen |-> Integer]

HashCommands2 ==
  [hkeys |-> Bulks, hvals |-> Bulks, hincrby |-> Integer, hsetnx |-> Integer]

ListCommands ==
  [lpush |-> Integer, rpush |-> Integer, lpop |-> Bulk, rpop |-> Bulk, llen |-> Integer,
   lindex |-> Bulk, lrange |-> Bulks, ltrim |-> Ok, lset |-> Ok,
   lpushx |-> Integer, rpushx |-> Integer]

SetCommands ==
  [sadd |-> Integer, srem |-> Integer, smembers |-> Bulks, scard |-> Integer,
   sismember |-> Integer, smismember |-> {"ints"}, spop |-> Bulk, srandmember |-> Bulks]

ServerCommands ==
  [auth |-> Ok, auth_username |-> Ok, ping |-> Ok, flushdb |-> Ok,
   flushall |-> Ok, dbsize |-> Integer, config_get |-> Bulks, config_set |-> Ok,
   cmd |-> Types \ {"error"}]

GuardCommands == [set_with_guard |-> Ok \union {"null"}, set_ex_with_guard |-> Ok]

Accepted ==
  LET Of(t) == {t[c] : c \in DOMAIN t}
  IN  Of(StringCommands) \union Of(StringCommands2) \union Of(KeyCommands)
      \union Of(HashCommands) \union Of(HashCommands2) \union Of(ListCommands)
      \union Of(SetCommands) \union Of(ServerCommands) \union Of(GuardCommands)

-----------------------------------------------------------------------------
(* What each command takes for an answer; check_error_bytes comes first. *)
StoreCommands ==
  [add |-> {"stored", "not_stored"}, replace |-> {"stored", "not_stored"},
   append |-> {"stored", "not_stored"}, prepend |-> {"stored", "not_stored"},
   incr |-> {"numeric", "not_found"}, decr |-> {"numeric", "not_found"}]

CasCommands == [cas |-> {"stored", "exists"}]  \* NOT_FOUND is an error
SetCommand == [set_with_options |-> {"stored"}]
SetGuardCommand == [set_with_guard |-> {"stored"}]
GetCommand == [get |-> {"head", "nil"}]
GetsCommand == [gets |-> {"head", "nil"}]
DeleteCommand == [delete |-> {"deleted", "not_found"}]
AdminCommands == [flush_all |-> {"ok"}, version |-> {"version"}]

McAccepted ==
  LET Of(t) == {t[c] : c \in DOMAIN t}
  IN  Of(StoreCommands) \union Of(CasCommands) \union Of(SetCommand)
      \union Of(SetGuardCommand) \union Of(GetCommand) \union Of(GetsCommand)
      \union Of(DeleteCommand) \union Of(AdminCommands)

(* What a command makes of a whole reply. *)
Outcome(accepts, reply) ==
  IF reply = "error" THEN "server_error" ELSE IF reply \in accepts THEN "ok" ELSE "unexpected"
=============================================================================
