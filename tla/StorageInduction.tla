-------------------------- MODULE StorageInduction --------------------------
(***************************************************************************)
(* The inductive invariant of the storage service, and the proof that      *)
(* every step keeps its state well typed and its cache well formed.        *)
(***************************************************************************)
EXTENDS Storage, CacheProofs

\* What is in use in which phase.
PhaseOK ==
  /\ phase \in {"down", "replay"} => batch = <<>> /\ muts = <<>> /\ ~aof.failed
  /\ phase # "apply" => next = 1
  /\ phase \notin {"write", "apply"} => written = 0
  /\ phase = "write" => ~aof.failed
  /\ phase = "down" => applied = 0 /\ cache = EmptyCache
  /\ phase \notin {"snapshot", "rewrite", "syncdir"} => image = <<>>

\* A request that still has to be done and mutates has its mutation in muts.
RequestOK(b, ms) ==
  /\ b.mut \in 0..Len(ms)
  /\ b.reply = "todo" => (b.mut # 0 <=> IsMutation(b))
  /\ b.mut # 0 => /\ ms[b.mut].key = b.key
                  /\ b.cmd \in {"SET", "SET_TTL"} <=> ms[b.mut].value # NoValue

\* The mutations of a batch are numbered in the order of its requests.
BatchOK ==
  /\ \A i \in 1..Len(batch) : RequestOK(batch[i], muts)
  /\ \A i \in 1..Len(batch) :
       batch[i].mut # 0 /\ i >= next => batch[i].reply = "todo"
  /\ \A i, j \in 1..Len(batch) :
       i < j /\ batch[i].mut # 0 /\ batch[j].mut # 0 => batch[i].mut < batch[j].mut
  /\ \A m \in 1..Len(muts) : \E i \in 1..Len(batch) : batch[i].mut = m

\* How many records the log had before the batch.
Base == Len(file.recs) - Len(muts)

\* The log holds what the cache reflects and then what is written or still to
\* be applied of the batch.
LogOK ==
  /\ applied <= Len(file.recs)
  /\ phase \notin {"down", "replay", "write", "apply"} /\ ~aof.failed =>
       applied = Len(file.recs)
  /\ phase = "write" =>
       /\ written <= Len(muts)
       /\ applied + written = Len(file.recs)
       /\ \A n \in 1..written : file.recs[applied + n] = muts[n]
  /\ phase = "apply" /\ (muts # <<>> \/ ~aof.failed) =>
       /\ 0 <= Base /\ Base <= applied
       /\ \A n \in 1..Len(muts) : file.recs[Base + n] = muts[n]
       /\ \A i \in 1..Len(batch) :
            batch[i].mut # 0 => (i < next <=> batch[i].mut <= applied - Base)

\* The snapshot loop at sc is past this entry.
Visited(sc, s, i) == s < sc.shard \/ (s = sc.shard /\ i > sc.pos)

Saves(m, e) == m.key = e.key /\ m.value = e.value /\ m.expires = e.expires

\* The snapshot im has one record for each live entry the loop is past, and no
\* others but for entries that have expired since.
Saved(c, t, sc, im) ==
  /\ \A s \in Shards : \A i \in 1..Len(c[s].items) :
       Visited(sc, s, i) /\ ~Expired(c[s].items[i], t) =>
         \E n \in 1..Len(im) : Saves(im[n], c[s].items[i])
  /\ \A n \in 1..Len(im) : \E s \in Shards : \E i \in 1..Len(c[s].items) :
       Visited(sc, s, i) /\ im[n].key = c[s].items[i].key
  /\ \A m, n \in 1..Len(im) : im[m].key = im[n].key => m = n

ScanOK ==
  phase \in {"snapshot", "rewrite"} =>
    /\ scan.pos <= Len(cache[scan.shard].items)
    /\ phase = "rewrite" => scan.pos = 0 /\ scan.shard + 1 \notin Shards
    /\ Saved(cache, now, scan, image)

\* A torn record is the last of its file, and no record is torn in a log that
\* is still in use.
TornLast(recs) == \A i \in 1..Len(recs) : recs[i] = Torn => i = Len(recs)

TornOK ==
  /\ TornLast(file.recs)
  /\ \A f \in prior : TornLast(f.recs)
  /\ phase = "replay" => \A i \in 1..applied : file.recs[i] # Torn
  /\ phase \notin {"down", "replay"} /\ ~aof.failed =>
       \A i \in 1..Len(file.recs) : file.recs[i] # Torn

\* The inductive invariant.
IInv ==
  /\ TypeOK /\ CacheWF(cache) /\ PhaseOK /\ BatchOK /\ LogOK /\ ScanOK /\ TornOK
  /\ VisibleInLog
-----------------------------------------------------------------------------
\* A record that is not torn is a mutation.
LEMMA RecordFacts ==
  /\ Torn \notin Record /\ NoRecord \notin Record /\ Torn # NoRecord
  /\ \A k \in Keys, v \in Values \cup {NoValue}, x \in Nat : ToRecord(k, v, x) \in Record
BY StorageAssumption DEF Torn, NoRecord, Record, ToRecord

\* Only replay and the application of a batch change the cache of a process.
LEMMA CacheChanges ==
  ASSUME [Next]_vars, ~ReplayRecord, ~ApplyRequest
  PROVE  \/ cache' = cache
         \/ cache' = EmptyCache /\ applied' = 0 /\ phase' = "down"
BY DEF Next, Service, vars, disk, work, compaction, ReplayRefuses, ReplayDone,
       BeginCommit, SnapshotEntry, SnapshotShardDone, RewriteThrows, RewriteRename,
       SyncDirectory, SyncDirectoryFails, LogBatch, LogBatchThrows, WriteRecord,
       WriteFails, SyncLog, Return, ParseRequest, Compact, Restart, Kill, PowerLoss,
       Tick, NoProcess

\* Replay and the application of a batch keep the cache well formed.
LEMMA CacheStep ==
  ASSUME TypeOK, CacheWF(cache), BatchOK, [Next]_vars
  PROVE  CacheWF(cache')
<1>1. CASE ReplayRecord
  <2> DEFINE m == file.recs[applied + 1]
  <2>1. m \in Record
    BY <1>1, RecordFacts DEF ReplayRecord, TypeOK, LogFile
  <2>2. m.key \in Keys /\ m.expires \in Nat /\ (m.value # NoValue => m.value \in Values)
    BY <2>1 DEF Record
  <2>3. cache' = IF m.value = NoValue THEN CacheRemove(cache, m.key)
                 ELSE CachePut(cache, m.key, m.value, m.expires, now)
    BY <1>1 DEF ReplayRecord
  <2> HIDE DEF m
  <2> QED BY <2>2, <2>3, CachePutProperties, CacheRemoveProperties
<1>2. CASE ApplyRequest
  <2> DEFINE b == batch[next]
             m == muts[b.mut]
  <2>1. next \in 1..Len(batch) /\ b.key \in Keys
    <3>1. next \in 1..Len(batch)
      BY <1>2 DEF ApplyRequest, TypeOK
    <3>2. b \in Entered
      BY <3>1 DEF TypeOK
    <3> QED BY <3>1, <3>2 DEF Entered
  <2>2. CASE b.reply # "todo"
    BY <1>2, <2>2 DEF ApplyRequest
  <2>3. CASE b.reply = "todo" /\ b.cmd \in {"SET", "SET_TTL"}
    <3>1. b.mut \in 1..Len(muts) /\ m.value # NoValue
      BY <2>1, <2>3 DEF BatchOK, RequestOK, IsMutation
    <3>2. m \in Record
      BY <3>1 DEF TypeOK
    <3>3. m.value \in Values /\ m.expires \in Nat
      BY <3>1, <3>2 DEF Record
    <3>4. cache' = CachePut(cache, b.key, m.value, m.expires, now)
      BY <1>2, <2>3 DEF ApplyRequest
    <3> HIDE DEF b, m
    <3> QED BY <2>1, <3>3, <3>4, CachePutProperties
  <2>4. CASE b.reply = "todo" /\ b.cmd \notin {"SET", "SET_TTL"}
    <3>1. \/ cache' = CacheRemove(cache, b.key)
          \/ cache' = CacheGet(cache, b.key, now)
          \/ cache' = cache
      BY <1>2, <2>4 DEF ApplyRequest
    <3> HIDE DEF b
    <3> QED BY <2>1, <3>1, CacheRemoveProperties, CacheGetProperties
  <2> QED BY <2>2, <2>3, <2>4
<1>3. CASE ~ReplayRecord /\ ~ApplyRequest
  BY <1>3, CacheChanges, EmptyCacheProperties
<1> QED BY <1>1, <1>2, <1>3

\* The newest record of a key is a record of the sequence with that key.
LEMMA NewestProperties ==
  ASSUME NEW S, NEW recs \in Seq(S), NEW k
  PROVE  \/ /\ Newest(recs, k) = NoRecord
            /\ \A i \in 1..Len(recs) : recs[i].key # k
         \/ \E i \in 1..Len(recs) :
              /\ Newest(recs, k) = recs[i] /\ recs[i].key = k
              /\ \A j \in 1..Len(recs) : recs[j].key = k => j <= i
<1> DEFINE at == {i \in DOMAIN recs : recs[i].key = k}
<1>1. Len(recs) \in Nat /\ DOMAIN recs = 1..Len(recs)
  BY LenProperties
<1>2. CASE at = {}
  BY <1>1, <1>2 DEF Newest
<1>3. CASE at # {}
  <2>1. Max(at) \in at /\ \A y \in at : Max(at) >= y
    BY <1>1, <1>3, MaxProperties
  <2>2. Newest(recs, k) = recs[Max(at)]
    BY <1>3 DEF Newest
  <2>3. \A y \in at : y <= Max(at)
    BY <1>1, <2>1
  <2> QED BY <1>1, <2>1, <2>2, <2>3
<1> QED BY <1>2, <1>3

\* A crash leaves records and, perhaps, a torn one.
LEMMA SurvivorsProperties ==
  ASSUME NEW S, Torn \in S, NEW f \in [recs : Seq(S), synced : Nat],
         NEW recs \in Survivors(f)
  PROVE  /\ recs \in Seq(S)
         /\ TornLast(f.recs) => TornLast(recs)
<1> DEFINE s == f.recs
<1>1. s \in Seq(S) /\ Len(s) \in Nat /\ f.synced \in Nat
  BY LenProperties
<1>2. ASSUME NEW n \in f.synced..Len(s)
      PROVE  /\ SubSeq(s, 1, n) \in Seq(S)
             /\ Len(SubSeq(s, 1, n)) = n
             /\ \A j \in 1..n : SubSeq(s, 1, n)[j] = s[j]
  <2>1. n \in Nat /\ n <= Len(s)
    BY <1>1
  <2>2. \A j \in 1..n : s[j] \in S
    BY <1>1, <2>1, ElementOfSeq
  <2>3. /\ SubSeq(s, 1, n) \in Seq(S)
        /\ Len(SubSeq(s, 1, n)) = IF 1 <= n THEN n - 1 + 1 ELSE 0
        /\ \A j \in 1..(n - 1 + 1) : SubSeq(s, 1, n)[j] = s[1 + j - 1]
    BY <2>1, <2>2, SubSeqProperties
  <2> QED BY <2>1, <2>3
<1>3. CASE \E n \in f.synced..Len(s) : recs = SubSeq(s, 1, n)
  BY <1>1, <1>2, <1>3 DEF TornLast
<1>4. CASE \E n \in f.synced..(Len(s) - 1) : recs = Append(SubSeq(s, 1, n), Torn)
  <2>1. PICK n \in f.synced..(Len(s) - 1) : recs = Append(SubSeq(s, 1, n), Torn)
    BY <1>4
  <2> DEFINE t == SubSeq(s, 1, n)
  <2>2. n \in Nat /\ n < Len(s) /\ n \in f.synced..Len(s)
    BY <1>1
  <2>3. t \in Seq(S) /\ Len(t) = n /\ \A j \in 1..n : t[j] = s[j]
    BY <1>2, <2>2
  <2> HIDE DEF t, s
  <2>4. /\ Append(t, Torn) \in Seq(S)
        /\ Len(Append(t, Torn)) = n + 1
        /\ \A j \in 1..n : Append(t, Torn)[j] = t[j]
    BY <2>3, AppendProperties
  <2>5. TornLast(s) => TornLast(Append(t, Torn))
    <3> SUFFICES ASSUME TornLast(s), NEW j \in 1..(n + 1), Append(t, Torn)[j] = Torn
                 PROVE  j = n + 1
      BY <2>4 DEF TornLast
    <3>1. j \in 1..n => s[j] = Torn /\ j \in 1..Len(s) /\ j # Len(s)
      BY <1>1, <2>2, <2>3, <2>4
    <3>2. j \notin 1..n
      BY <3>1 DEF TornLast
    <3> QED BY <2>2, <3>2
  <2> QED BY <2>1, <2>4, <2>5 DEF t, s
<1> QED BY <1>3, <1>4 DEF Survivors
-----------------------------------------------------------------------------
\* A file a write error or the end of the process leaves.
LEMMA TearingsTyped ==
  ASSUME file \in LogFile
  PROVE  Tearings \subseteq LogFile
<1>1. Append(file.recs, Torn) \in Seq(Record \cup {Torn})
  BY AppendProperties DEF LogFile
<1> QED BY <1>1 DEF Tearings, LogFile

\* The entries a request finds have values.
LEMMA AnswerTyped ==
  ASSUME TypeOK, CacheWF(cache), NEW b \in Entered
  PROVE  /\ Answer(b) \in Entered
         /\ Answer(b).mut = b.mut /\ Answer(b).key = b.key /\ Answer(b).cmd = b.cmd
         /\ Answer(b).reply # "todo"
<1> DEFINE hit == CacheLive(cache, b.key, now)
           found == IF hit = {} THEN NoValue ELSE (CHOOSE e \in hit : TRUE).value
<1>1. hit \subseteq EntryType
  <2>1. getShard(b.key) \in Shards
    BY ShardOfKey DEF Entered
  <2>2. cache[getShard(b.key)].items \in Seq(EntryType)
    BY <2>1 DEF TypeOK
  <2>3. \A i \in DOMAIN cache[getShard(b.key)].items :
          cache[getShard(b.key)].items[i] \in EntryType
    BY <2>2
  <2> QED BY <2>3 DEF CacheLive, Live, Find
<1>2. found \in Values \cup {NoValue}
  <2>1. CASE hit = {}
    BY <2>1
  <2>2. CASE hit # {}
    <3>1. (CHOOSE e \in hit : TRUE) \in EntryType
      BY <1>1, <2>2
    <3> QED BY <2>2, <3>1 DEF EntryType
  <2> QED BY <2>1, <2>2
<1> HIDE DEF found
<1>3. Answer(b) =
        IF b.cmd = "GET"
        THEN [b EXCEPT !.reply = "value",
                       !.value = IF found = NoValue THEN EmptyValue ELSE found]
        ELSE IF b.cmd = "LOOKUP"
        THEN [b EXCEPT !.reply = "lookup", !.value = found]
        ELSE [b EXCEPT !.reply = "done"]
  BY DEF Answer, found
<1>4. CASE b.cmd = "GET"
  BY <1>2, <1>3, <1>4 DEF Entered
<1>5. CASE b.cmd = "LOOKUP"
  BY <1>2, <1>3, <1>5 DEF Entered
<1>6. CASE b.cmd \notin {"GET", "LOOKUP"}
  BY <1>3, <1>6 DEF Entered
<1> QED BY <1>4, <1>5, <1>6

\* What Throw and NoProcess leave is well typed.
LEMMA ScanTyped ==
  /\ [shard |-> 0, pos |-> 0] \in [shard : Shards, pos : Nat]
  /\ \A s \in Shards : TypeOK => ScanFrom(s) \in [shard : Shards, pos : Nat]
<1>1. 0 \in Shards
  BY ShardOfKey DEF Shards
<1>2. \A s \in Shards : TypeOK => Len(cache[s].items) \in Nat
  BY LenProperties DEF TypeOK
<1> QED BY <1>1, <1>2 DEF ScanFrom

LEMMA AofTyped ==
  ASSUME NEW a, IsAof(a), NEW x, NEW y
  PROVE  /\ IsAof([bytes |-> x, rewritten |-> y, failed |-> FALSE])
         /\ IsAof([a EXCEPT !.failed = TRUE])
         /\ IsAof([a EXCEPT !.bytes = x])
         /\ IsAof([a EXCEPT !.bytes = x, !.rewritten = y])
         /\ [a EXCEPT !.failed = TRUE].failed = TRUE
         /\ [a EXCEPT !.bytes = x].failed = a.failed
         /\ [a EXCEPT !.bytes = x, !.rewritten = y].failed = a.failed
<1>1. IsAof([bytes |-> x, rewritten |-> y, failed |-> FALSE])
  BY DEF IsAof
<1>2. IsAof([a EXCEPT !.failed = TRUE])
  BY DEF IsAof
<1>3. [a EXCEPT !.failed = TRUE].failed = TRUE
  BY Zenon DEF IsAof
<1>4. IsAof([a EXCEPT !.bytes = x])
  BY DEF IsAof
<1>5. [a EXCEPT !.bytes = x].failed = a.failed
  BY DEF IsAof
<1>6. IsAof([a EXCEPT !.bytes = x, !.rewritten = y])
  BY DEF IsAof
<1>7. [a EXCEPT !.bytes = x, !.rewritten = y].failed = a.failed
  BY DEF IsAof
<1> QED BY <1>1, <1>2, <1>3, <1>4, <1>5, <1>6, <1>7

\* The state of a process that has not started is well typed.
LEMMA NoProcessTyped ==
  ASSUME TypeOK, NoProcess, file' \in LogFile, prior' \in SUBSET LogFile,
         now' = now, owed' = owed
  PROVE  TypeOK'
<1>1. /\ cache' = [s \in Shards |-> cache'[s]]
      /\ \A s \in Shards : cache'[s].items \in Seq(EntryType)
  BY EmptyCacheProperties DEF NoProcess, CacheWF, ShardOK
<1>2. IsAof(aof')
  BY AofTyped DEF NoProcess, TypeOK
<1>3. /\ batch' \in Seq(Entered) /\ muts' \in Seq(Record) /\ image' \in Seq(Record)
      /\ written' \in Nat /\ next' \in Nat \ {0} /\ applied' \in Nat
  BY EmptySeq DEF NoProcess
<1>4. failed' = FALSE /\ phase' = "down"
  BY DEF NoProcess
<1>5. scan' \in [shard : Shards, pos : Nat]
  BY ScanTyped DEF NoProcess
<1> QED BY <1>1, <1>2, <1>3, <1>4, <1>5 DEF TypeOK

\* Every step keeps the types.
LEMMA TypeStep ==
  ASSUME TypeOK, CacheWF(cache), BatchOK, ScanOK, [Next]_vars
  PROVE  TypeOK'
<1>0. /\ cache' = [s \in Shards |-> cache'[s]]
      /\ \A s \in Shards : cache'[s].items \in Seq(EntryType)
  BY CacheStep DEF CacheWF, ShardOK
<1>1. CASE UNCHANGED vars
  BY <1>1 DEF TypeOK, vars, disk, work, compaction
<1>2. CASE ReplayRecord
  <2>1. /\ applied' = applied + 1
        /\ UNCHANGED <<disk, aof, phase, failed, work, compaction, now, owed>>
    BY <1>2 DEF ReplayRecord
  <2> QED BY <1>0, <2>1 DEF TypeOK, disk, work, compaction
<1>3. CASE ReplayRefuses
  BY <1>3, NoProcessTyped DEF ReplayRefuses, TypeOK, disk
<1>4. CASE ReplayDone
  BY <1>4 DEF ReplayDone, TypeOK, disk, work, compaction
<1>5. ASSUME NEW r \in Workload, ParseRequest(r) PROVE TypeOK'
  <2> DEFINE reply == IF r.cmd = "PARTIAL" THEN "skip"
                      ELSE IF Valid(r) THEN "todo" ELSE "close"
             logged == reply = "todo" /\ IsMutation(r)
             m == ToRecord(r.key, r.value, Expires(r))
             b == [cmd |-> r.cmd, key |-> r.key, reply |-> reply, value |-> NoValue,
                   mut |-> IF logged THEN Len(muts) + 1 ELSE 0]
  <2>1. r \in Request
    BY StorageAssumption
  <2>2. m \in Record
    <3>1. Expires(r) \in Nat
      BY <2>1 DEF Expires, Request, TypeOK
    <3> QED BY <2>1, <3>1, RecordFacts DEF Request
  <2>3. b \in Entered
    <3>1. Len(muts) + 1 \in Nat
      BY LenProperties DEF TypeOK
    <3>2. reply \in {"todo", "skip", "close", "value", "lookup", "done"}
      OBVIOUS
    <3>3. (IF logged THEN Len(muts) + 1 ELSE 0) \in Nat
      BY <3>1
    <3> HIDE DEF reply, logged
    <3> QED BY <2>1, <3>2, <3>3 DEF Entered, Request
  <2>4. muts' = (IF logged THEN Append(muts, m) ELSE muts) /\ batch' = Append(batch, b)
    BY <1>5 DEF ParseRequest
  <2> HIDE DEF b, m, logged, reply
  <2>5. muts' \in Seq(Record) /\ batch' \in Seq(Entered)
    BY <2>2, <2>3, <2>4, AppendProperties DEF TypeOK
  <2> QED BY <1>0, <1>5, <2>5 DEF ParseRequest, TypeOK, disk, compaction
<1>6. CASE BeginCommit
  BY <1>6, ScanTyped DEF BeginCommit, TypeOK, disk, work
<1>7. CASE Compact
  BY <1>7, ScanTyped DEF Compact, TypeOK, disk, work
<1>8. CASE SnapshotEntry
  <2> DEFINE e == cache[scan.shard].items[scan.pos]
  <2>1. /\ image' = IF Expired(e, now) THEN image ELSE Append(image, SnapshotRecord(e))
        /\ scan' = [scan EXCEPT !.pos = @ - 1] /\ scan.pos > 0
        /\ UNCHANGED <<disk, aof, phase, failed, work, cache, applied, now, owed>>
    BY <1>8 DEF SnapshotEntry
  <2>2. scan' \in [shard : Shards, pos : Nat]
    <3>1. scan \in [shard : Shards, pos : Nat]
      BY DEF TypeOK
    <3>2. scan.pos - 1 \in Nat
      BY <2>1, <3>1
    <3> QED BY <2>1, <3>1, <3>2
  <2>3. e \in EntryType
    <3>1. scan.shard \in Shards /\ scan.pos \in Nat
      BY DEF TypeOK
    <3>2. scan.pos \in 1..Len(cache[scan.shard].items)
      BY <1>8, <2>1, <3>1 DEF ScanOK, SnapshotEntry
    <3> QED BY <3>1, <3>2, ElementOfSeq DEF TypeOK
  <2>4. SnapshotRecord(e) \in Record
    BY <2>3, RecordFacts DEF EntryType, SnapshotRecord
  <2> HIDE DEF e
  <2>5. image' \in Seq(Record)
    BY <2>1, <2>4, AppendProperties DEF TypeOK
  <2> QED BY <2>1, <2>2, <2>5 DEF TypeOK, disk, work
<1>9. CASE SnapshotShardDone
  BY <1>9, ScanTyped DEF SnapshotShardDone, TypeOK, disk, work
<1>10. ASSUME NEW c \in BOOLEAN, RewriteThrows(c) PROVE TypeOK'
  BY <1>10, ScanTyped DEF RewriteThrows, Throw, TypeOK, disk
<1>11. CASE RewriteRename
  <2>1. /\ prior' = {file} /\ file' = Replacement
        /\ applied' = Len(image) /\ phase' = "syncdir"
        /\ UNCHANGED <<failed, work, compaction, cache, now>>
    BY <1>11 DEF RewriteRename
  <2>2. IsAof(aof')
    BY <1>11, AofTyped DEF RewriteRename, TypeOK
  <2>3. image \in Seq(Record \cup {Torn}) /\ Len(image) \in Nat
    BY LenProperties DEF TypeOK
  <2>4. owed' \in [Keys -> SUBSET (Record \cup {NoRecord})]
    BY <1>11 DEF RewriteRename, TypeOK
  <2> QED BY <2>1, <2>2, <2>3, <2>4 DEF TypeOK, LogFile, Replacement, work, compaction
<1>12. CASE SyncDirectory
  BY <1>12, ScanTyped DEF SyncDirectory, TypeOK, work
<1>13. CASE SyncDirectoryFails
  <2>1. IsAof(aof')
    BY <1>13, AofTyped DEF SyncDirectoryFails, TypeOK
  <2>2. Throw(FALSE) /\ UNCHANGED <<disk, cache, applied, now, owed>>
    BY <1>13 DEF SyncDirectoryFails
  <2> QED BY <2>1, <2>2, ScanTyped DEF Throw, TypeOK, disk
<1>14. CASE LogBatch
  BY <1>14 DEF LogBatch, TypeOK, disk, work, compaction
<1>15. ASSUME NEW c \in BOOLEAN, LogBatchThrows(c) PROVE TypeOK'
  BY <1>15, ScanTyped DEF LogBatchThrows, Throw, TypeOK, disk
<1>16. CASE WriteRecord
  <2> DEFINE m == muts[written + 1]
  <2>1. /\ file' = [file EXCEPT !.recs = Append(@, m)]
        /\ owed' = [owed EXCEPT ![m.key] = @ \cup {m}]
        /\ written' = written + 1
        /\ UNCHANGED <<prior, aof, phase, failed, batch, muts, next, compaction, cache,
                       applied, now>>
    BY <1>16 DEF WriteRecord
  <2>2. m \in Record
    <3>1. written + 1 \in 1..Len(muts)
      BY <1>16 DEF WriteRecord, TypeOK
    <3> QED BY <3>1 DEF TypeOK
  <2> HIDE DEF m
  <2>3. file' \in LogFile
    <3>1. Append(file.recs, m) \in Seq(Record \cup {Torn})
      BY <2>2, AppendProperties DEF TypeOK, LogFile
    <3> QED BY <2>1, <3>1 DEF TypeOK, LogFile
  <2>4. owed' \in [Keys -> SUBSET (Record \cup {NoRecord})]
    BY <2>1, <2>2 DEF TypeOK
  <2> QED BY <2>1, <2>3, <2>4 DEF TypeOK, compaction
<1>17. CASE WriteFails
  <2>1. IsAof(aof')
    BY <1>17, AofTyped DEF WriteFails, TypeOK
  <2>2. file' \in LogFile
    BY <1>17, TearingsTyped DEF WriteFails, TypeOK
  <2>3. Throw(FALSE) /\ UNCHANGED <<prior, cache, applied, now, owed>>
    BY <1>17 DEF WriteFails
  <2> QED BY <2>1, <2>2, <2>3, ScanTyped DEF Throw, TypeOK
<1>18. CASE SyncLog
  <2>1. IsAof(aof')
    BY <1>18, AofTyped DEF SyncLog, TypeOK
  <2>2. file' \in LogFile
    BY <1>18, LenProperties DEF SyncLog, TypeOK, LogFile
  <2>3. /\ phase' = "apply"
        /\ UNCHANGED <<prior, failed, work, compaction, cache, applied, now, owed>>
    BY <1>18 DEF SyncLog
  <2> QED BY <2>1, <2>2, <2>3 DEF TypeOK, work, compaction
<1>19. CASE ApplyRequest
  <2> DEFINE b == batch[next]
  <2>1. /\ next' = next + 1
        /\ UNCHANGED <<disk, aof, phase, failed, muts, written, compaction, now, owed>>
    BY <1>19 DEF ApplyRequest
  <2>2. b \in Entered /\ next \in 1..Len(batch)
    BY <1>19 DEF ApplyRequest, TypeOK
  <2>3. \/ batch' = batch /\ applied' = applied
        \/ /\ batch' = [batch EXCEPT ![next] = Answer(b)]
           /\ applied' = applied \/ applied' = applied + 1
    BY <1>19 DEF ApplyRequest
  <2>4. Answer(b) \in Entered
    BY <2>2, AnswerTyped
  <2> HIDE DEF b
  <2>5. batch' \in Seq(Entered) /\ applied' \in Nat
    <3>1. [batch EXCEPT ![next] = Answer(b)] \in Seq(Entered)
      BY <2>2, <2>4, ExceptSeq DEF TypeOK
    <3>2. batch \in Seq(Entered) /\ applied \in Nat
      BY DEF TypeOK
    <3> QED BY <2>3, <3>1, <3>2
  <2> QED BY <1>0, <2>1, <2>5 DEF TypeOK, disk, compaction
<1>20. CASE Return
  <2>1. /\ phase' = "parse"
        /\ batch' = <<>> /\ muts' = <<>> /\ written' = 0 /\ next' = 1
        /\ UNCHANGED <<disk, aof, failed, compaction, cache, applied, now>>
    BY <1>20 DEF Return
  <2>2. \A k \in Keys : Newest(muts, k) \in Record \cup {NoRecord}
    BY NewestProperties, ElementOfSeq DEF TypeOK
  <2>3. owed' \in [Keys -> SUBSET (Record \cup {NoRecord})]
    BY <1>20, <2>2 DEF Return, TypeOK
  <2>4. batch' \in Seq(Entered) /\ muts' \in Seq(Record)
    BY <2>1, EmptySeq
  <2> QED BY <2>1, <2>3, <2>4 DEF TypeOK, disk, compaction
<1>21. CASE Restart
  BY <1>21, AofTyped DEF Restart, TypeOK, work, compaction
<1>22. CASE Kill
  <2>1. file' \in LogFile
    BY <1>22, TearingsTyped DEF Kill, TypeOK
  <2> QED BY <1>22, <2>1, NoProcessTyped DEF Kill, TypeOK
<1>23. CASE PowerLoss
  <2>1. PICK f \in {file} \cup prior : \E recs \in Survivors(f) :
          file' = [recs |-> recs, synced |-> Len(recs)]
    BY <1>23 DEF PowerLoss
  <2>2. PICK recs \in Survivors(f) : file' = [recs |-> recs, synced |-> Len(recs)]
    BY <2>1
  <2>3. f \in LogFile
    BY DEF TypeOK
  <2>4. recs \in Seq(Record \cup {Torn})
    BY <2>3, SurvivorsProperties DEF LogFile
  <2>5. file' \in LogFile
    BY <2>2, <2>4, LenProperties DEF LogFile
  <2> QED BY <1>23, <2>5, NoProcessTyped DEF PowerLoss
<1>24. CASE Tick
  BY <1>24 DEF Tick, TypeOK, disk, work, compaction
<1> QED
  BY <1>1, <1>2, <1>3, <1>4, <1>5, <1>6, <1>7, <1>8, <1>9, <1>10, <1>11, <1>12,
     <1>13, <1>14, <1>15, <1>16, <1>17, <1>18, <1>19, <1>20, <1>21, <1>22, <1>23,
     <1>24 DEF Next, Service
=============================================================================
