---------------------------- MODULE CacheMachine ----------------------------
(***************************************************************************)
(* The sharded cache as a state machine: any sequence of put, get, exists  *)
(* and remove calls, each atomic under its shard's mutex, while the wall   *)
(* clock advances.                                                         *)
(***************************************************************************)
EXTENDS ShardedCache

CONSTANTS
  Ttls,            \* times to live put() may be given; 0 for none
  MaxTime          \* bound on the clock

VARIABLES
  cache,           \* shards_
  now,             \* UnixMilliseconds()
  used             \* auxiliary: the keys of each shard by their last use

vars == <<cache, now, used>>

Init ==
  /\ cache = EmptyCache
  /\ now = 1
  /\ used = [s \in Shards |-> <<>>]

Forget(key) == Remove(used[getShard(key)], key)

\* The auxiliary order after a call that used key, and after one that found
\* it gone.
Touch(key) == [used EXCEPT ![getShard(key)] = <<key>> \o Forget(key)]
Drop(key) == [used EXCEPT ![getShard(key)] = Forget(key)]

Put(key, value, ttl) ==
  /\ canStore(key, value)
  /\ used' = Touch(key)
  /\ cache' = CachePut(cache, key, value, IF ttl = 0 THEN 0 ELSE now + ttl, now)
  /\ UNCHANGED now

\* put() with an expiry that has passed, as a replayed record may carry.
PutExpired(key, value) ==
  /\ canStore(key, value)
  /\ used' = Drop(key)
  /\ cache' = CachePut(cache, key, value, now, now)
  /\ UNCHANGED now

Get(key) ==
  /\ cache' = CacheGet(cache, key, now)
  /\ used' = IF CacheLive(cache, key, now) # {} THEN Touch(key)
             ELSE IF cache' # cache THEN Drop(key) ELSE used
  /\ UNCHANGED now

Exists(key) ==
  /\ cache' = CacheExists(cache, key, now)
  /\ used' = IF cache' # cache THEN Drop(key) ELSE used
  /\ UNCHANGED now

Delete(key) ==
  /\ cache' = CacheRemove(cache, key)
  /\ used' = Drop(key)
  /\ UNCHANGED now

Tick == now < MaxTime /\ now' = now + 1 /\ UNCHANGED <<cache, used>>

Next ==
  \/ \E key \in Keys, value \in Values, ttl \in Ttls : Put(key, value, ttl)
  \/ \E key \in Keys, value \in Values : PutExpired(key, value)
  \/ \E key \in Keys : Get(key) \/ Exists(key) \/ Delete(key)
  \/ Tick

Spec == Init /\ [][Next]_vars
-----------------------------------------------------------------------------
Total(c) == SumFunction([i \in DOMAIN c.items |-> c.items[i].bytes])

\* stats_.bytes, which put(), Erase() and the eviction loop adjust apart from
\* each other, is always the sum over the entries; index_ and items_ agree: one
\* entry per key, in the shard the key hashes to; and the shards' budgets,
\* rounded one by one in the constructor, never let the whole cache exceed the
\* entries and bytes it was given.
Accounting ==
  /\ \A s \in Shards :
       /\ cache[s].bytes = Total(cache[s])
       /\ \A i, j \in DOMAIN cache[s].items :
            /\ getShard(cache[s].items[i].key) = s
            /\ cache[s].items[i].key = cache[s].items[j].key => i = j
  /\ SumFunction([s \in Shards |-> Len(cache[s].items)]) <= Capacity
  /\ SumFunction([s \in Shards |-> cache[s].bytes]) <= CacheBytes

\* Eviction takes the least recently used entries: what is resident in a
\* shard is exactly its most recently used keys, in the order of their use.
\* So the entry put() just stored is never the one that makes room, and a put
\* that expired leaves no older value behind.
ResidentsAreMostRecent ==
  \A s \in Shards :
    IsPrefix([i \in DOMAIN cache[s].items |-> cache[s].items[i].key], used[s])

\* "Oldest first so replay preserves the snapshot's LRU order within each
\* shard": putting a snapshot back into an empty shard evicts nothing and
\* gives the live entries in their order.
SnapshotRestoresOrder ==
  \A s \in Shards :
    FoldLeft(LAMBDA c, e : put(c, Limits(s), e, now),
             EmptyShard, snapshot(cache[s], now)).items
      = SelectSeq(cache[s].items, LAMBDA e : ~Expired(e, now))

=============================================================================
