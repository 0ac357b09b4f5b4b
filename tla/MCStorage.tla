----------------------------- MODULE MCStorage ------------------------------
(* Two keys, values of two sizes and one that fits no shard.                *)
EXTENDS StorageRefinement

OneShard == [k \in Keys |-> 0]
TwoShards == [k \in Keys |-> IF k = "a" THEN 0 ELSE 1]
MCKeyBytes == [k \in Keys |-> 0]
MCValueBytes == [v \in Values |-> IF v = "huge" THEN 3 ELSE 1]

Req(cmd, key, value, ttl) == [cmd |-> cmd, key |-> key, value |-> value, ttl |-> ttl]

Legacy(key, value) == [key |-> key, value |-> value, expires |-> 0, fmt |-> 1]

\* Two keys compete for one place in the cache; every mutation of a, which may
\* expire.
EvictionWorkload ==
  {Req("SET", "a", "v", 0), Req("SET_TTL", "a", "w", 1), Req("SET", "b", "v", 0),
   Req("DEL", "a", NoValue, 0)}

\* Every kind of request, valid and not.
MixedWorkload ==
  {Req("SET", "a", "v", 0), Req("SET", "a", "huge", 0),
   Req("SET_TTL", "b", "v", 1), Req("SET_TTL", "b", "v", 0),
   Req("DEL", "b", NoValue, 0), Req("GET", "b", NoValue, 0),
   Req("LOOKUP", "b", NoValue, 0), Req("STATS", "a", NoValue, 0), Req("INVALID", "a", NoValue, 0),
   Req("PARTIAL", "a", NoValue, 0)}

NewLog == {<<>>}

\* A new log and two of the first format: one that fits although its rewriting does not,
\* and one with an entry too large for the cache as it is now configured.
LegacyLogs ==
  {<<>>, <<Legacy("a", "v"), Legacy("b", "v")>>, <<Legacy("a", "huge")>>}
=============================================================================
