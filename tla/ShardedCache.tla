---------------------------- MODULE ShardedCache ----------------------------
(***************************************************************************)
(* ShardedCache of KVCache/include/sharded_cache.h: the shards, the split  *)
(* of the entry and byte budgets between them, and the operations, each    *)
(* handed to the shard of its key.                                         *)
(***************************************************************************)
EXTENDS LruCache

CONSTANTS
  Keys, Values,
  NoValue,         \* no value: a missing or deleted key
  Capacity,        \* entries the whole cache may hold
  ShardCount,      \* shards asked for
  CacheBytes,      \* bytes the whole cache may hold
  Hash,            \* [Keys -> Nat], std::hash
  KeyBytes,        \* [Keys -> Nat], the size of a key
  ValueBytes,      \* [Values -> Nat], the size of a value
  EntryOverhead    \* sizeof(Entry)

ASSUME CacheAssumption ==
  /\ NoValue \notin Values
  /\ Capacity \in Nat \ {0}
  /\ ShardCount \in Nat \ {0}
  /\ CacheBytes \in Nat
  /\ EntryOverhead \in Nat
  /\ Hash \in [Keys -> Nat]
  /\ KeyBytes \in [Keys -> Nat]
  /\ ValueBytes \in [Values -> Nat]

NumShards == IF Capacity < ShardCount THEN Capacity ELSE ShardCount

Shards == 0..(NumShards - 1)

Share(total, s) ==
  total \div NumShards + (IF s < total % NumShards THEN 1 ELSE 0)

Limits(s) == [capacity |-> Share(Capacity, s), maxBytes |-> Share(CacheBytes, s)]

getShard(key) == Hash[key] % NumShards

EntryBytes(key, value) == KeyBytes[key] + ValueBytes[value] + EntryOverhead

Entry(key, value, expires) ==
  [key |-> key, value |-> value, expires |-> expires,
   bytes |-> EntryBytes(key, value)]

canStore(key, value) == EntryBytes(key, value) <= Limits(getShard(key)).maxBytes

EmptyCache == [s \in Shards |-> EmptyShard]

CachePut(c, key, value, expires, now) ==
  [c EXCEPT ![getShard(key)] =
     put(@, Limits(getShard(key)), Entry(key, value, expires), now)]

CacheGet(c, key, now) == [c EXCEPT ![getShard(key)] = get(@, key, now)]

CacheExists(c, key, now) == [c EXCEPT ![getShard(key)] = exists(@, key, now)]

CacheRemove(c, key) == [c EXCEPT ![getShard(key)] = remove(@, key)]

CacheLive(c, key, now) == Live(c[getShard(key)], key, now)

EntryType ==
  [key : Keys, value : Values, expires : Nat, bytes : Nat]
=============================================================================
