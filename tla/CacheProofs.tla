---------------------------- MODULE CacheProofs -----------------------------
(***************************************************************************)
(* What the operations of a cache shard do to the entries it holds, for    *)
(* every capacity, byte budget and sequence of entries.                    *)
(***************************************************************************)
EXTENDS ShardedCache, TLAPS, SequenceTheorems, FiniteSetTheorems,
        WellFoundedInduction

\* index_ has one position per key.
Distinct(items) ==
  \A i, j \in 1..Len(items) : items[i].key = items[j].key => i = j

ShardOK(c) == c.items \in Seq(EntryType) /\ Distinct(c.items)

Has(c, e) == \E i \in 1..Len(c.items) : c.items[i] = e

\* A nonempty set of naturals has a least element, and a bounded one a greatest.
LEMMA LeastNatural ==
  ASSUME NEW T \in SUBSET Nat, T # {}
  PROVE  \E x \in T : \A y \in T : x <= y
<1> DEFINE R == OpToRel(<, Nat)
<1>1. \A x, y \in Nat : x < y => <<x, y>> \in R
  BY DEF OpToRel
<1>2. IsWellFoundedOn(R, Nat)
  BY NatLessThanWellFounded
<1> HIDE DEF R
<1>3. PICK x \in T : \A y \in T : ~(<<y, x>> \in R)
  BY <1>2, WFMin
<1>4. ASSUME NEW y \in T PROVE x <= y
  <2>1. ~(y < x)
    BY <1>1, <1>3
  <2>2. x \in Nat /\ y \in Nat
    OBVIOUS
  <2> QED BY <2>1, <2>2
<1> QED BY <1>4

LEMMA MaxProperties ==
  ASSUME NEW n \in Nat, NEW T \in SUBSET (1..n), T # {}
  PROVE  Max(T) \in T /\ \A y \in T : Max(T) >= y
<1> DEFINE U == {n - x : x \in T}
<1>1. U \in SUBSET Nat /\ U # {}
  <2>1. \A x \in T : x \in 1..n
    OBVIOUS
  <2>2. \A x \in T : n - x \in Nat
    BY <2>1
  <2> QED BY <2>2
<1>2. PICK u \in U : \A y \in U : u <= y
  BY <1>1, LeastNatural
<1>3. PICK x \in T : u = n - x
  BY <1>2
<1>4. \A y \in T : x >= y
  <2> TAKE y \in T
  <2>1. u <= n - y
    BY <1>2
  <2> QED BY <1>3, <2>1
<1> QED BY <1>3, <1>4 DEF Max

\* Erasing an element of a list closes the gap and keeps the order.
LEMMA RemoveAtProperties ==
  ASSUME NEW S, NEW s \in Seq(S), NEW i \in 1..Len(s)
  PROVE  /\ RemoveAt(s, i) \in Seq(S)
         /\ Len(RemoveAt(s, i)) = Len(s) - 1
         /\ \A j \in 1..(Len(s) - 1) :
              RemoveAt(s, i)[j] = IF j < i THEN s[j] ELSE s[j + 1]
<1> DEFINE front == SubSeq(s, 1, i - 1)
           back == SubSeq(s, i + 1, Len(s))
<1>1. Len(s) \in Nat /\ i \in Nat
  BY LenProperties
<1>2. /\ front \in Seq(S)
      /\ Len(front) = i - 1
      /\ \A j \in 1..(i - 1) : front[j] = s[j]
  <2>1. \A j \in 1..(i - 1) : s[j] \in S
    BY <1>1, ElementOfSeq
  <2> QED BY <1>1, <2>1, SubSeqProperties
<1>3. /\ back \in Seq(S)
      /\ Len(back) = Len(s) - i
      /\ \A j \in 1..(Len(s) - i) : back[j] = s[i + j]
  <2>1. \A j \in (i + 1)..Len(s) : s[j] \in S
    BY <1>1, ElementOfSeq
  <2>2. /\ back \in Seq(S)
        /\ Len(back) = IF i + 1 <= Len(s) THEN Len(s) - (i + 1) + 1 ELSE 0
        /\ \A j \in 1..(Len(s) - (i + 1) + 1) : back[j] = s[i + 1 + j - 1]
    BY <1>1, <2>1, SubSeqProperties
  <2> QED BY <1>1, <2>2
<1>4. RemoveAt(s, i) = front \o back
  BY DEF RemoveAt
<1> HIDE DEF front, back
<1>5. /\ front \o back \in Seq(S)
      /\ Len(front \o back) = Len(front) + Len(back)
      /\ \A j \in 1..(Len(front) + Len(back)) : (front \o back)[j] =
           IF j <= Len(front) THEN front[j] ELSE back[j - Len(front)]
  BY <1>2, <1>3, ConcatProperties
<1> QED BY <1>1, <1>2, <1>3, <1>4, <1>5

\* The eviction loop leaves a prefix of the list.
LEMMA EvictProperties ==
  ASSUME NEW S, NEW c, NEW lim, c.items \in Seq(S)
  PROVE  \E n \in 0..Len(c.items) : Evict(c, lim).items = SubSeq(c.items, 1, n)
<1> DEFINE kept == {i \in DOMAIN c.items : Fits(c, lim, i)}
<1>1. IsFiniteSet(1..Len(c.items)) /\ Cardinality(1..Len(c.items)) = Len(c.items)
  BY FS_Interval
<1>2. kept \in SUBSET (1..Len(c.items))
  OBVIOUS
<1>3. Cardinality(kept) \in 0..Len(c.items)
  <2>1. IsFiniteSet(kept) /\ Cardinality(kept) <= Len(c.items)
    BY <1>1, <1>2, FS_Subset
  <2>2. Cardinality(kept) \in Nat
    BY <2>1, FS_CardinalityType
  <2> QED BY <2>1, <2>2
<1>4. Evict(c, lim).items = SubSeq(c.items, 1, Cardinality(kept))
  BY DEF Evict
<1> QED BY <1>3, <1>4

\* remove() leaves a well-formed shard without the key and adds nothing.
LEMMA RemoveProperties ==
  ASSUME NEW c, ShardOK(c), NEW key
  PROVE  /\ ShardOK(remove(c, key))
         /\ \A e : Has(remove(c, key), e) => Has(c, e) /\ e.key # key
<1>1. CASE Find(c, key) = {}
  BY <1>1 DEF remove, Find, Has, ShardOK
<1>2. CASE Find(c, key) # {}
  <2> DEFINE i == CHOOSE j \in Find(c, key) : TRUE
  <2>1. i \in 1..Len(c.items) /\ c.items[i].key = key
    BY <1>2 DEF Find, ShardOK
  <2>2. remove(c, key).items = RemoveAt(c.items, i)
    BY <1>2 DEF remove, Erase
  <2> HIDE DEF i
  <2> DEFINE r == RemoveAt(c.items, i)
  <2>3. /\ r \in Seq(EntryType)
        /\ Len(r) = Len(c.items) - 1
        /\ \A j \in 1..(Len(c.items) - 1) :
             r[j] = IF j < i THEN c.items[j] ELSE c.items[j + 1]
    BY <2>1, RemoveAtProperties DEF ShardOK
  <2>4. Len(c.items) \in Nat
    BY LenProperties DEF ShardOK
  <2> HIDE DEF r
  <2> DEFINE from(j) == IF j < i THEN j ELSE j + 1
  <2>5. \A j \in 1..Len(r) : /\ from(j) \in 1..Len(c.items)
                             /\ from(j) # i
                             /\ r[j] = c.items[from(j)]
    BY <2>1, <2>3, <2>4
  <2>6. \A j, k \in 1..Len(r) : from(j) = from(k) => j = k
    BY <2>1, <2>3, <2>4
  <2>7. Distinct(c.items)
    BY DEF ShardOK
  <2> HIDE DEF from
  <2>8. Distinct(r)
    <3> SUFFICES ASSUME NEW j \in 1..Len(r), NEW k \in 1..Len(r), r[j].key = r[k].key
                 PROVE  j = k
      BY DEF Distinct
    <3>1. c.items[from(j)].key = c.items[from(k)].key
      BY <2>5
    <3>2. from(j) = from(k)
      BY <2>5, <2>7, <3>1 DEF Distinct
    <3> QED BY <2>6, <3>2
  <2>9. \A j \in 1..Len(r) : r[j].key # key /\ \E n \in 1..Len(c.items) : r[j] = c.items[n]
    BY <2>1, <2>5, <2>7 DEF Distinct
  <2> QED BY <2>2, <2>3, <2>8, <2>9 DEF Has, ShardOK, r
<1> QED BY <1>1, <1>2

\* Putting an element in front of a list.
LEMMA PushFrontProperties ==
  ASSUME NEW S, NEW x \in S, NEW s \in Seq(S)
  PROVE  /\ <<x>> \o s \in Seq(S)
         /\ Len(<<x>> \o s) = Len(s) + 1
         /\ \A j \in 1..(Len(s) + 1) :
              (<<x>> \o s)[j] = IF j = 1 THEN x ELSE s[j - 1]
<1>1. <<x>> \in Seq(S) /\ Len(<<x>>) = 1 /\ <<x>>[1] = x
  OBVIOUS
<1>2. Len(s) \in Nat
  BY LenProperties
<1> QED BY <1>1, <1>2, ConcatProperties

\* put() leaves a well-formed shard; what it holds is the new entry, unless
\* that has expired, and older entries of other keys.
LEMMA PutProperties ==
  ASSUME NEW c, ShardOK(c), NEW lim, NEW e \in EntryType, NEW now
  PROVE  /\ ShardOK(put(c, lim, e, now))
         /\ \A x : Has(put(c, lim, e, now), x) =>
              \/ x = e /\ ~Expired(e, now)
              \/ Has(c, x) /\ x.key # e.key
<1> DEFINE rest == remove(c, e.key)
<1>1. /\ ShardOK(rest)
      /\ \A x : Has(rest, x) => Has(c, x) /\ x.key # e.key
  BY RemoveProperties
<1>2. CASE Expired(e, now)
  BY <1>1, <1>2 DEF put
<1>3. CASE ~Expired(e, now)
  <2> DEFINE s == <<e>> \o rest.items
             full == [items |-> s, bytes |-> rest.bytes + e.bytes]
  <2>1. /\ s \in Seq(EntryType)
        /\ Len(s) = Len(rest.items) + 1
        /\ \A j \in 1..(Len(rest.items) + 1) :
             s[j] = IF j = 1 THEN e ELSE rest.items[j - 1]
    BY <1>1, PushFrontProperties DEF ShardOK
  <2>2. Len(rest.items) \in Nat /\ Len(s) \in Nat
    BY <1>1, <2>1, LenProperties DEF ShardOK
  <2>3. put(c, lim, e, now) = Evict(full, lim)
    BY <1>3 DEF put
  <2>4. full.items = s
    OBVIOUS
  <2> HIDE DEF s
  <2>5. PICK n \in 0..Len(s) : Evict(full, lim).items = SubSeq(s, 1, n)
    BY <2>1, <2>4, EvictProperties
  <2> DEFINE t == SubSeq(s, 1, n)
  <2>6. /\ t \in Seq(EntryType)
        /\ Len(t) = n
        /\ \A j \in 1..n : t[j] = s[j]
    <3>1. \A j \in 1..n : s[j] \in EntryType
      BY <2>1, <2>2, ElementOfSeq
    <3>2. /\ t \in Seq(EntryType)
          /\ Len(t) = IF 1 <= n THEN n - 1 + 1 ELSE 0
          /\ \A j \in 1..(n - 1 + 1) : t[j] = s[1 + j - 1]
      BY <2>2, <3>1, SubSeqProperties
    <3> QED BY <2>2, <3>2
  <2> HIDE DEF t, rest
  <2>7. \A j \in 1..Len(rest.items) : rest.items[j].key # e.key
    BY <1>1 DEF Has
  <2>8. Distinct(s)
    <3>1. \A j \in 1..Len(s) : j = 1 \/ j - 1 \in 1..Len(rest.items)
      BY <2>1, <2>2
    <3>2. Distinct(rest.items)
      BY <1>1 DEF ShardOK
    <3> SUFFICES ASSUME NEW j \in 1..Len(s), NEW k \in 1..Len(s), s[j].key = s[k].key
                 PROVE  j = k
      BY DEF Distinct
    <3>3. CASE j = 1 \/ k = 1
      BY <2>1, <2>2, <2>7, <3>1, <3>3
    <3>4. CASE j # 1 /\ k # 1
      <4>1. rest.items[j - 1].key = rest.items[k - 1].key
        BY <2>1, <2>2, <3>4
      <4>2. j - 1 = k - 1
        BY <3>1, <3>2, <3>4, <4>1 DEF Distinct
      <4> QED BY <4>2, <2>2
    <3> QED BY <3>3, <3>4
  <2>9. Distinct(t)
    BY <2>2, <2>6, <2>8 DEF Distinct
  <2>10. \A j \in 1..n : t[j] = e \/ \E m \in 1..Len(rest.items) : t[j] = rest.items[m]
    <3> TAKE j \in 1..n
    <3>1. t[j] = s[j] /\ j \in 1..Len(s)
      BY <2>2, <2>6
    <3>2. CASE j = 1
      BY <2>1, <2>2, <3>1, <3>2
    <3>3. CASE j # 1
      <4>1. j - 1 \in 1..Len(rest.items) /\ s[j] = rest.items[j - 1]
        BY <2>1, <2>2, <3>1, <3>3
      <4> QED BY <3>1, <4>1
    <3> QED BY <3>2, <3>3
  <2>11. put(c, lim, e, now).items = t
    BY <2>3, <2>5 DEF t
  <2>12. \A j \in 1..n : t[j] = e \/ (Has(c, t[j]) /\ t[j].key # e.key)
    <3> TAKE j \in 1..n
    <3>1. t[j] = e \/ Has(rest, t[j])
      BY <2>10 DEF Has
    <3> QED BY <1>1, <3>1
  <2> HIDE DEF full
  <2> QED BY <1>3, <2>6, <2>9, <2>11, <2>12 DEF Has, ShardOK
<1> QED BY <1>2, <1>3

\* get() reorders the entries of a shard and may drop an expired one.
LEMMA GetProperties ==
  ASSUME NEW c, ShardOK(c), NEW key, NEW now
  PROVE  /\ ShardOK(get(c, key, now))
         /\ \A x : Has(get(c, key, now), x) => Has(c, x)
<1>1. CASE Live(c, key, now) = {}
  BY <1>1, RemoveProperties DEF get
<1>2. CASE Live(c, key, now) # {}
  <2> DEFINE i == CHOOSE j \in Find(c, key) : TRUE
             r == RemoveAt(c.items, i)
             s == <<c.items[i]>> \o r
  <2>1. i \in 1..Len(c.items)
    BY <1>2 DEF Find, Live, ShardOK
  <2>2. get(c, key, now) = [c EXCEPT !.items = s]
    BY <1>2 DEF get
  <2> HIDE DEF i
  <2>3. /\ r \in Seq(EntryType)
        /\ Len(r) = Len(c.items) - 1
        /\ \A j \in 1..(Len(c.items) - 1) :
             r[j] = IF j < i THEN c.items[j] ELSE c.items[j + 1]
    BY <2>1, RemoveAtProperties DEF ShardOK
  <2>4. Len(c.items) \in Nat /\ c.items[i] \in EntryType
    BY <2>1, LenProperties, ElementOfSeq DEF ShardOK
  <2> HIDE DEF r
  <2>5. /\ s \in Seq(EntryType)
        /\ Len(s) = Len(r) + 1
        /\ \A j \in 1..(Len(r) + 1) : s[j] = IF j = 1 THEN c.items[i] ELSE r[j - 1]
    BY <2>3, <2>4, PushFrontProperties
  <2> HIDE DEF s
  <2> DEFINE from(j) == IF j = 1 THEN i ELSE IF j - 1 < i THEN j - 1 ELSE j
  <2>6. Distinct(s)
    <3>1. \A j \in 1..Len(s) : from(j) \in 1..Len(c.items) /\ s[j] = c.items[from(j)]
      BY <2>1, <2>3, <2>4, <2>5
    <3>2. \A j, k \in 1..Len(s) : from(j) = from(k) => j = k
      BY <2>1, <2>3, <2>4, <2>5
    <3>3. Distinct(c.items)
      BY DEF ShardOK
    <3> HIDE DEF from
    <3> SUFFICES ASSUME NEW j \in 1..Len(s), NEW k \in 1..Len(s), s[j].key = s[k].key
                 PROVE  j = k
      BY DEF Distinct
    <3>4. c.items[from(j)].key = c.items[from(k)].key
      BY <3>1
    <3>5. from(j) \in 1..Len(c.items) /\ from(k) \in 1..Len(c.items)
      BY <3>1
    <3>6. from(j) = from(k)
      BY <3>3, <3>4, <3>5 DEF Distinct
    <3> QED BY <3>2, <3>6
  <2>7. \A j \in 1..Len(s) : \E n \in 1..Len(c.items) : s[j] = c.items[n]
    BY <2>1, <2>3, <2>4, <2>5
  <2> QED BY <2>2, <2>5, <2>6, <2>7 DEF Has, ShardOK
<1> QED BY <1>1, <1>2
-----------------------------------------------------------------------------
\* Every shard is well formed and holds only keys that hash to it.
CacheWF(c) ==
  /\ c = [s \in Shards |-> c[s]]
  /\ \A s \in Shards :
       /\ ShardOK(c[s])
       /\ \A e : Has(c[s], e) => getShard(e.key) = s

Holds(c, e) == \E s \in Shards : Has(c[s], e)

\* Every key has a shard.
LEMMA ShardOfKey ==
  /\ NumShards \in Nat \ {0}
  /\ \A k \in Keys : getShard(k) \in Shards
<1>1. NumShards \in Nat \ {0}
  BY CacheAssumption DEF NumShards
<1>2. ASSUME NEW k \in Keys PROVE getShard(k) \in Shards
  <2>1. Hash[k] \in Nat
    BY CacheAssumption
  <2> QED BY <1>1, <2>1 DEF getShard, Shards
<1> QED BY <1>1, <1>2

LEMMA EntryTyped ==
  ASSUME NEW k \in Keys, NEW v \in Values, NEW x \in Nat
  PROVE  Entry(k, v, x) \in EntryType
<1>1. EntryBytes(k, v) \in Nat
  BY CacheAssumption DEF EntryBytes
<1> QED BY <1>1 DEF Entry, EntryType

\* Replacing one shard by a well-formed one that holds only keys of its own.
LEMMA ReplaceShard ==
  ASSUME NEW c, CacheWF(c), NEW s \in Shards, NEW new, ShardOK(new),
         \A e : Has(new, e) => getShard(e.key) = s
  PROVE  /\ CacheWF([c EXCEPT ![s] = new])
         /\ \A e : Holds([c EXCEPT ![s] = new], e) =>
              \/ Has(new, e)
              \/ Holds(c, e) /\ getShard(e.key) # s
<1> DEFINE d == [c EXCEPT ![s] = new]
<1>1. /\ d = [t \in Shards |-> d[t]]
      /\ \A t \in Shards : d[t] = IF t = s THEN new ELSE c[t]
  BY DEF CacheWF
<1> HIDE DEF d
<1>2. CacheWF(d)
  BY <1>1 DEF CacheWF
<1>3. ASSUME NEW e, Holds(d, e) PROVE Has(new, e) \/ (Holds(c, e) /\ getShard(e.key) # s)
  <2>1. PICK t \in Shards : Has(d[t], e)
    BY <1>3 DEF Holds
  <2>2. CASE t = s
    BY <1>1, <2>1, <2>2
  <2>3. CASE t # s
    <3>1. Has(c[t], e)
      BY <1>1, <2>1, <2>3
    <3> QED BY <2>3, <3>1 DEF CacheWF, Holds
  <2> QED BY <2>2, <2>3
<1> QED BY <1>2, <1>3 DEF d

\* ShardedCache::put leaves the new entry, unless it has expired, and entries
\* of other keys.
LEMMA CachePutProperties ==
  ASSUME NEW c, CacheWF(c), NEW k \in Keys, NEW v \in Values, NEW x \in Nat, NEW now
  PROVE  /\ CacheWF(CachePut(c, k, v, x, now))
         /\ \A e : Holds(CachePut(c, k, v, x, now), e) =>
              \/ e = Entry(k, v, x) /\ ~Expired(e, now)
              \/ Holds(c, e) /\ e.key # k
<1> DEFINE s == getShard(k)
           n == Entry(k, v, x)
           new == put(c[s], Limits(s), n, now)
<1>1. s \in Shards /\ n \in EntryType /\ n.key = k
  BY ShardOfKey, EntryTyped DEF Entry
<1>2. ShardOK(c[s]) /\ \A e : Has(c[s], e) => getShard(e.key) = s
  BY <1>1 DEF CacheWF
<1> HIDE DEF n
<1>3. /\ ShardOK(new)
      /\ \A e : Has(new, e) =>
           \/ e = n /\ ~Expired(n, now)
           \/ Has(c[s], e) /\ e.key # k
  BY <1>1, <1>2, PutProperties
<1>4. CachePut(c, k, v, x, now) = [c EXCEPT ![s] = new]
  BY <1>1 DEF CachePut, CacheWF, n
<1> HIDE DEF new
<1>5. \A e : Has(new, e) => getShard(e.key) = s
  BY <1>1, <1>2, <1>3
<1>6. /\ CacheWF([c EXCEPT ![s] = new])
      /\ \A e : Holds([c EXCEPT ![s] = new], e) =>
           \/ Has(new, e)
           \/ Holds(c, e) /\ getShard(e.key) # s
  <2> HIDE DEF s
  <2> QED BY <1>1, <1>3, <1>5, ReplaceShard
<1>7. \A e : Has(c[s], e) => Holds(c, e)
  BY <1>1 DEF Holds
<1>8. \A e : getShard(e.key) # s => e.key # k
  OBVIOUS
<1> HIDE DEF s
<1> QED BY <1>3, <1>4, <1>6, <1>7, <1>8 DEF n

\* ShardedCache::remove leaves entries of other keys.
LEMMA CacheRemoveProperties ==
  ASSUME NEW c, CacheWF(c), NEW k \in Keys
  PROVE  /\ CacheWF(CacheRemove(c, k))
         /\ \A e : Holds(CacheRemove(c, k), e) => Holds(c, e) /\ e.key # k
<1> DEFINE s == getShard(k)
           new == remove(c[s], k)
<1>1. s \in Shards
  BY ShardOfKey
<1>2. ShardOK(c[s]) /\ \A e : Has(c[s], e) => getShard(e.key) = s
  BY <1>1 DEF CacheWF
<1>3. ShardOK(new) /\ \A e : Has(new, e) => Has(c[s], e) /\ e.key # k
  BY <1>2, RemoveProperties
<1>4. CacheRemove(c, k) = [c EXCEPT ![s] = new]
  BY <1>1 DEF CacheRemove, CacheWF
<1> HIDE DEF new
<1>5. /\ CacheWF([c EXCEPT ![s] = new])
      /\ \A e : Holds([c EXCEPT ![s] = new], e) =>
           \/ Has(new, e)
           \/ Holds(c, e) /\ getShard(e.key) # s
  <2> HIDE DEF s
  <2> QED BY <1>1, <1>2, <1>3, ReplaceShard
<1>6. \A e : Has(c[s], e) => Holds(c, e)
  BY <1>1 DEF Holds
<1>7. \A e : getShard(e.key) # s => e.key # k
  OBVIOUS
<1> HIDE DEF s
<1> QED BY <1>3, <1>4, <1>5, <1>6, <1>7

\* ShardedCache::get adds nothing.
LEMMA CacheGetProperties ==
  ASSUME NEW c, CacheWF(c), NEW k \in Keys, NEW now
  PROVE  /\ CacheWF(CacheGet(c, k, now))
         /\ \A e : Holds(CacheGet(c, k, now), e) => Holds(c, e)
<1> DEFINE s == getShard(k)
           new == get(c[s], k, now)
<1>1. s \in Shards
  BY ShardOfKey
<1>2. ShardOK(c[s]) /\ \A e : Has(c[s], e) => getShard(e.key) = s
  BY <1>1 DEF CacheWF
<1>3. ShardOK(new) /\ \A e : Has(new, e) => Has(c[s], e)
  BY <1>2, GetProperties
<1>4. CacheGet(c, k, now) = [c EXCEPT ![s] = new]
  BY <1>1 DEF CacheGet, CacheWF
<1> HIDE DEF new
<1>5. /\ CacheWF([c EXCEPT ![s] = new])
      /\ \A e : Holds([c EXCEPT ![s] = new], e) =>
           \/ Has(new, e)
           \/ Holds(c, e) /\ getShard(e.key) # s
  <2> HIDE DEF s
  <2> QED BY <1>1, <1>2, <1>3, ReplaceShard
<1>6. \A e : Has(c[s], e) => Holds(c, e)
  BY <1>1 DEF Holds
<1> HIDE DEF s
<1> QED BY <1>3, <1>4, <1>5, <1>6

\* The cache a process starts with.
LEMMA EmptyCacheProperties ==
  CacheWF(EmptyCache) /\ \A e : ~Holds(EmptyCache, e)
<1>1. \A s \in Shards : EmptyCache[s].items = <<>>
  BY DEF EmptyCache, EmptyShard
<1>2. \A s \in Shards : ShardOK(EmptyCache[s]) /\ \A e : ~Has(EmptyCache[s], e)
  <2> TAKE s \in Shards
  <2>1. /\ EmptyCache[s].items \in Seq(EntryType)
        /\ Len(EmptyCache[s].items) = 0
    BY <1>1, EmptySeq
  <2>2. 1..0 = {}
    OBVIOUS
  <2> QED BY <2>1, <2>2 DEF ShardOK, Distinct, Has
<1>3. EmptyCache = [s \in Shards |-> EmptyCache[s]]
  BY DEF EmptyCache
<1> QED BY <1>2, <1>3 DEF CacheWF, Holds
=============================================================================
