------------------------------ MODULE LruCache ------------------------------
(***************************************************************************)
(* LRUCache<Key, Value> of KVCache/include/lru_cache.h: one shard of the   *)
(* cache, as operators on its state.  A shard is a record                  *)
(*   items  the list items_, most recently used first;                     *)
(*   bytes  stats_.bytes, the running total the eviction loop reads.       *)
(* index_ maps a key to its place in items_; it is the position of the     *)
(* key in items.  hits, misses and evictions are write-only counters and   *)
(* are left out.  lim holds capacity_ and max_bytes_.                      *)
(***************************************************************************)
EXTENDS Integers, Sequences, FiniteSets, SequencesExt

EmptyShard == [items |-> <<>>, bytes |-> 0]

\* An expiry of 0 means none; any other is an absolute wall-clock time.
Expired(e, now) == e.expires # 0 /\ e.expires <= now

Find(c, key) == {i \in DOMAIN c.items : c.items[i].key = key}

\* Mutant: an entry leaves the list but its bytes stay counted.
EraseKeepsBytes(c, i) == [c EXCEPT !.items = RemoveAt(c.items, i)]

Erase(c, i) ==
  [items |-> RemoveAt(c.items, i), bytes |-> c.bytes - c.items[i].bytes]

\* Drop the entry of key if there is one: remove() and the two places where
\* put() gives up an older entry.
remove(c, key) ==
  IF Find(c, key) = {} THEN c ELSE Erase(c, CHOOSE i \in Find(c, key) : TRUE)

\* The bytes of the entries used less recently than the i-th.
BytesBehind(c, i) ==
  SumFunctionOnSet([j \in DOMAIN c.items |-> c.items[j].bytes],
                   (i + 1)..Len(c.items))

\* The eviction loop may stop once only the first i entries are left.
Fits(c, lim, i) ==
  i <= lim.capacity /\ c.bytes - BytesBehind(c, i) <= lim.maxBytes

\* Pop the list from the back until it fits.
Evict(c, lim) ==
  LET kept == Cardinality({i \in DOMAIN c.items : Fits(c, lim, i)})
  IN  [items |-> SubSeq(c.items, 1, kept),
       bytes |-> c.bytes - BytesBehind(c, kept)]

\* put() of entry e, whose bytes are within maxBytes.  An entry that has
\* expired already only takes the place of nothing.
put(c, lim, e, now) ==
  LET rest == remove(c, e.key)
  IN  IF Expired(e, now)
      THEN rest
      ELSE Evict([items |-> <<e>> \o rest.items, bytes |-> rest.bytes + e.bytes],
                 lim)

\* The entry get() and exists() find: none once it has expired.
Live(c, key, now) ==
  {c.items[i] : i \in {j \in Find(c, key) : ~Expired(c.items[j], now)}}

\* exists(): an expired entry is erased by the first call that meets it.
exists(c, key, now) == IF Live(c, key, now) = {} THEN remove(c, key) ELSE c

\* Mutant: a hit leaves the entry where it is.
getWithoutSplice(c, key, now) == exists(c, key, now)

\* get(): as exists(), and a hit moves to the front.
get(c, key, now) ==
  IF Live(c, key, now) = {}
  THEN remove(c, key)
  ELSE LET i == CHOOSE j \in Find(c, key) : TRUE
       IN  [c EXCEPT !.items = <<c.items[i]>> \o RemoveAt(c.items, i)]

\* Mutant: the snapshot lists the newest entry first.
snapshotNewestFirst(c, now) == SelectSeq(c.items, LAMBDA e : ~Expired(e, now))

\* snapshot(): the live entries, oldest first.
snapshot(c, now) == Reverse(SelectSeq(c.items, LAMBDA e : ~Expired(e, now)))
=============================================================================
