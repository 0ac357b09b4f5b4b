--------------------------- MODULE StorageProofs ----------------------------
(***************************************************************************)
(* The storage service is well typed, never leaves a record behind a torn  *)
(* one, never serves a value that is not the newest one its log holds, and *)
(* serves nothing once its cache may lack a record of the log, for any     *)
(* keys, values, workload, limits and crashes.                             *)
(***************************************************************************)
EXTENDS StorageLogProofs, StorageScanProofs

\* VisibleInLog of cache c at time t over the first n records of a log.
VisibleAt(c, t, recs, n) ==
  \A e : Holds(c, e) /\ ~Expired(e, t) => Backs(recs, n, n, e)

LEMMA HeldEntries ==
  ASSUME NEW c, CacheWF(c), NEW e
  PROVE  /\ e \in UNION {ToSet(c[s].items) : s \in Shards} <=> Holds(c, e)
         /\ Holds(c, e) => e \in EntryType
<1>1. \A s \in Shards : c[s].items \in Seq(EntryType)
  BY DEF CacheWF, ShardOK
<1>2. \A s \in Shards : e \in ToSet(c[s].items) <=> Has(c[s], e)
  BY <1>1, LenProperties DEF ToSet, Has
<1>3. \A s \in Shards : Has(c[s], e) => e \in EntryType
  BY <1>1, ElementOfSeq DEF Has
<1> QED BY <1>2, <1>3 DEF Holds

LEMMA VisibleIff ==
  ASSUME CacheWF(cache)
  PROVE  VisibleInLog <=> VisibleAt(cache, now, file.recs, applied)
BY HeldEntries DEF VisibleInLog, Resident, VisibleAt

LEMMA VisibleIffNext ==
  ASSUME CacheWF(cache')
  PROVE  VisibleInLog' <=> VisibleAt(cache', now', file'.recs, applied')
BY HeldEntries DEF VisibleInLog, Resident, VisibleAt

\* One more record is applied.
LEMMA VisibleApplied ==
  ASSUME NEW c, NEW d, NEW t, NEW recs, NEW n \in Nat, VisibleAt(c, t, recs, n),
         \A e : Holds(d, e) => \/ Saves(recs[n + 1], e)
                               \/ Holds(c, e) /\ e.key # recs[n + 1].key
  PROVE  VisibleAt(d, t, recs, n + 1)
<1> SUFFICES ASSUME NEW e, Holds(d, e), ~Expired(e, t)
             PROVE  Backs(recs, n + 1, n + 1, e)
  BY DEF VisibleAt
<1>1. CASE Saves(recs[n + 1], e)
  <2>1. n + 1 \in 1..(n + 1) /\ (n + 1 + 1)..(n + 1) = {}
    OBVIOUS
  <2> QED BY <1>1, <2>1 DEF Saves, Backs
<1>2. CASE Holds(c, e) /\ e.key # recs[n + 1].key
  <2>1. Backs(recs, n, n, e)
    BY <1>2 DEF VisibleAt
  <2>2. PICK i \in 1..n :
          /\ recs[i].key = e.key /\ recs[i].value = e.value /\ recs[i].expires = e.expires
          /\ \A j \in (i + 1)..n : recs[j].key # e.key
    BY <2>1 DEF Backs
  <2>3. i \in 1..(n + 1) /\ \A j \in (i + 1)..(n + 1) : j \in (i + 1)..n \/ j = n + 1
    OBVIOUS
  <2>4. \A j \in (i + 1)..(n + 1) : recs[j].key # e.key
    BY <1>2, <2>2, <2>3
  <2> QED BY <2>2, <2>3, <2>4 DEF Backs
<1> QED BY <1>1, <1>2

\* The cache loses entries, time passes, or the log grows.
LEMMA VisibleFewer ==
  ASSUME NEW c, NEW d, NEW t, NEW u, NEW recs, NEW more, NEW n \in Nat,
         VisibleAt(c, t, recs, n),
         \A e : Holds(d, e) /\ ~Expired(e, u) => Holds(c, e) /\ ~Expired(e, t),
         \A i \in 1..n : more[i] = recs[i]
  PROVE  VisibleAt(d, u, more, n)
<1> SUFFICES ASSUME NEW e, Holds(d, e), ~Expired(e, u)
             PROVE  Backs(more, n, n, e)
  BY DEF VisibleAt
<1>1. PICK i \in 1..n :
        /\ recs[i].key = e.key /\ recs[i].value = e.value /\ recs[i].expires = e.expires
        /\ \A j \in (i + 1)..n : recs[j].key # e.key
  BY DEF VisibleAt, Backs
<1>2. \A j \in (i + 1)..n : j \in 1..n
  OBVIOUS
<1> QED BY <1>1, <1>2 DEF Backs

\* A complete snapshot backs every entry.
LEMMA VisibleSaved ==
  ASSUME NEW c, CacheWF(c), NEW t, NEW sc \in [shard : Shards, pos : Nat],
         NEW im \in Seq(Record), Saved(c, t, sc, im),
         sc.pos = 0, sc.shard + 1 \notin Shards
  PROVE  VisibleAt(c, t, im, Len(im))
<1> SUFFICES ASSUME NEW e, Holds(c, e), ~Expired(e, t)
             PROVE  Backs(im, Len(im), Len(im), e)
  BY DEF VisibleAt
<1>1. PICK s \in Shards : Has(c[s], e)
  BY DEF Holds
<1>2. PICK i \in 1..Len(c[s].items) : c[s].items[i] = e
  BY <1>1 DEF Has
<1>3. Visited(sc, s, i)
  <2>1. NumShards \in Nat \ {0} /\ Shards = 0..(NumShards - 1)
    BY ShardOfKey DEF Shards
  <2>2. sc.shard = NumShards - 1
    BY <2>1
  <2>3. s <= sc.shard /\ i > 0
    BY <2>1, <2>2
  <2> QED BY <2>1, <2>2, <2>3 DEF Visited
<1>4. PICK n \in 1..Len(im) : Saves(im[n], e)
  BY <1>2, <1>3 DEF Saved
<1>5. Len(im) \in Nat
  BY LenProperties
<1>6. \A j \in (n + 1)..Len(im) : j \in 1..Len(im) /\ j # n
  BY <1>5
<1>7. \A j \in (n + 1)..Len(im) : im[j].key # e.key
  BY <1>4, <1>6 DEF Saved, Saves
<1> QED BY <1>4, <1>7 DEF Backs, Saves

\* Steps that leave the cache alone and cut nothing the cache reflects.
LEMMA VisibleChanges ==
  ASSUME [Next]_vars, ~ReplayRecord, ~ApplyRequest, ~RewriteRename
  PROVE  \/ cache' = EmptyCache
         \/ /\ cache' = cache /\ applied' = applied
            /\ now' = now \/ now' = now + 1
            /\ \/ file' = file
               \/ file' \in Tearings
               \/ file' = [file EXCEPT !.recs = Append(@, muts[written + 1])]
                    /\ written < Len(muts)
               \/ file' = [file EXCEPT !.synced = Len(file.recs)]
BY DEF Next, Service, vars, disk, work, compaction, ReplayRefuses, ReplayDone,
       BeginCommit, SnapshotEntry, SnapshotShardDone, RewriteThrows, SyncDirectory,
       SyncDirectoryFails, LogBatch, LogBatchThrows, WriteRecord, WriteFails, SyncLog,
       Return, ParseRequest, Compact, Restart, Kill, PowerLoss, Tick, NoProcess, Throw

\* No step serves what is not the newest record of its key.
LEMMA VisibleStep ==
  ASSUME TypeOK, CacheWF(cache), PhaseOK, BatchOK, LogOK, ScanOK, VisibleInLog,
         [Next]_vars
  PROVE  VisibleInLog'
<1> DEFINE recs == file.recs
<1>0. /\ CacheWF(cache') /\ applied \in Nat /\ Len(recs) \in Nat /\ applied <= Len(recs)
      /\ recs \in Seq(Record \cup {Torn})
  BY CacheStep, LenProperties DEF TypeOK, LogFile, LogOK
<1>1. VisibleAt(cache, now, recs, applied)
  BY VisibleIff
<1> SUFFICES VisibleAt(cache', now', file'.recs, applied')
  BY <1>0, VisibleIffNext
<1>2. CASE ReplayRecord
  <2> DEFINE m == recs[applied + 1]
  <2>1. /\ applied' = applied + 1 /\ now' = now /\ file' = file
        /\ cache' = IF m.value = NoValue THEN CacheRemove(cache, m.key)
                    ELSE CachePut(cache, m.key, m.value, m.expires, now)
    BY <1>2 DEF ReplayRecord, disk
  <2>2. m \in Record
    BY <1>0, <1>2, RecordFacts DEF ReplayRecord
  <2>3. m.key \in Keys /\ m.expires \in Nat /\ (m.value # NoValue => m.value \in Values)
    BY <2>2 DEF Record
  <2>4. \A e : Holds(cache', e) => Saves(m, e) \/ (Holds(cache, e) /\ e.key # m.key)
    <3>1. CASE m.value = NoValue
      BY <2>1, <2>3, <3>1, CacheRemoveProperties
    <3>2. CASE m.value # NoValue
      <4> HIDE DEF m
      <4>1. \A e : Holds(cache', e) =>
              \/ e = Entry(m.key, m.value, m.expires)
              \/ Holds(cache, e) /\ e.key # m.key
        BY <2>1, <2>3, <3>2, CachePutProperties
      <4> QED BY <4>1 DEF Saves, Entry
    <3> QED BY <3>1, <3>2
  <2> QED BY <1>0, <1>1, <2>1, <2>4, VisibleApplied
<1>3. CASE ApplyRequest
  <2> DEFINE b == batch[next]
             m == muts[b.mut]
  <2>1. next \in 1..Len(batch) /\ now' = now /\ file' = file
    BY <1>3 DEF ApplyRequest, TypeOK, disk
  <2>2. b.key \in Keys /\ RequestOK(b, muts) /\ (b.mut # 0 => b.reply = "todo")
    <3>1. b \in Entered
      BY <2>1 DEF TypeOK
    <3>2. next >= next
      BY <2>1
    <3> QED BY <2>1, <3>1, <3>2 DEF Entered, BatchOK
  <2>3. CASE b.mut = 0
    <3>1. applied' = applied
      BY <1>3, <2>3 DEF ApplyRequest
    <3>2. b.reply = "todo" => ~IsMutation(b)
      BY <2>2, <2>3 DEF RequestOK
    <3>3. cache' = cache \/ cache' = CacheGet(cache, b.key, now)
      BY <1>3, <3>2 DEF ApplyRequest, IsMutation
    <3>4. \A e : Holds(cache', e) => Holds(cache, e)
      BY <2>2, <3>3, CacheGetProperties
    <3> QED BY <1>0, <1>1, <2>1, <3>1, <3>4, VisibleFewer
  <2>4. CASE b.mut # 0
    <3>1. recs[applied + 1] = m /\ applied' = applied + 1
      BY <1>3, <2>2, <2>4, NextMutation DEF ApplyRequest
    <3>2. m.key = b.key /\ m \in Record /\ IsMutation(b)
      <4>1. m.key = b.key /\ b.mut \in 1..Len(muts) /\ IsMutation(b)
        BY <2>2, <2>4 DEF RequestOK
      <4> QED BY <4>1, ElementOfSeq DEF TypeOK
    <3>3. m.key \in Keys /\ m.expires \in Nat /\ (m.value # NoValue => m.value \in Values)
      BY <3>2 DEF Record
    <3>4. \A e : Holds(cache', e) => Saves(m, e) \/ (Holds(cache, e) /\ e.key # m.key)
      <4>1. CASE b.cmd \in {"SET", "SET_TTL"}
        <5>1. m.value # NoValue
          BY <2>2, <2>4, <4>1 DEF RequestOK
        <5>2. cache' = CachePut(cache, m.key, m.value, m.expires, now)
          BY <1>3, <2>2, <2>4, <3>2, <4>1 DEF ApplyRequest
        <5> HIDE DEF m
        <5>3. \A e : Holds(cache', e) =>
                \/ e = Entry(m.key, m.value, m.expires)
                \/ Holds(cache, e) /\ e.key # m.key
          BY <3>3, <5>1, <5>2, CachePutProperties
        <5> QED BY <5>3 DEF Saves, Entry
      <4>2. CASE b.cmd = "DEL"
        <5>1. cache' = CacheRemove(cache, m.key)
          BY <1>3, <2>2, <2>4, <3>2, <4>2 DEF ApplyRequest
        <5> HIDE DEF m
        <5> QED BY <3>3, <5>1, CacheRemoveProperties
      <4> QED BY <3>2, <4>1, <4>2 DEF IsMutation
    <3> QED BY <1>0, <1>1, <2>1, <3>1, <3>4, VisibleApplied
  <2> QED BY <2>3, <2>4
<1>4. CASE RewriteRename
  <2>1. /\ cache' = cache /\ now' = now /\ phase = "rewrite"
        /\ file'.recs = image /\ applied' = Len(image)
    BY <1>4 DEF RewriteRename, Replacement
  <2>2. Saved(cache, now, scan, image) /\ scan.pos = 0 /\ scan.shard + 1 \notin Shards
    BY <2>1 DEF ScanOK
  <2>3. scan \in [shard : Shards, pos : Nat] /\ image \in Seq(Record)
    BY DEF TypeOK
  <2> QED BY <2>1, <2>2, <2>3, VisibleSaved
<1>5. CASE ~ReplayRecord /\ ~ApplyRequest /\ ~RewriteRename
  <2>1. CASE cache' = EmptyCache
    BY <2>1, EmptyCacheProperties DEF VisibleAt
  <2>2. CASE /\ cache' = cache /\ applied' = applied
             /\ now' = now \/ now' = now + 1
             /\ \/ file' = file
                \/ file' \in Tearings
                \/ file' = [file EXCEPT !.recs = Append(@, muts[written + 1])]
                     /\ written < Len(muts)
                \/ file' = [file EXCEPT !.synced = Len(file.recs)]
    <3>1. \A i \in 1..applied : file'.recs[i] = recs[i]
      <4>1. \A i \in 1..applied : i \in 1..Len(recs)
        BY <1>0
      <4>2. muts \in Seq(Record) /\ written \in Nat /\ Len(muts) \in Nat
        BY LenProperties DEF TypeOK
      <4>3. written < Len(muts) => muts[written + 1] \in Record
        BY <4>2, ElementOfSeq
      <4>4. file'.recs = recs \/ file'.recs = Append(recs, Torn)
              \/ (file'.recs = Append(recs, muts[written + 1]) /\ written < Len(muts))
        BY <2>2 DEF Tearings, TypeOK, LogFile
      <4>5. \A x \in Record \cup {Torn} : \A i \in 1..Len(recs) : Append(recs, x)[i] = recs[i]
        BY <1>0, AppendProperties
      <4> HIDE DEF recs
      <4> QED BY <4>1, <4>3, <4>4, <4>5
    <3>2. \A e : Holds(cache, e) /\ ~Expired(e, now') => ~Expired(e, now)
      BY <2>2, HeldEntries, ExpiredStays DEF TypeOK
    <3> QED BY <1>0, <1>1, <2>2, <3>1, <3>2, VisibleFewer
  <2> QED BY <1>5, <2>1, <2>2, VisibleChanges
<1> QED BY <1>2, <1>3, <1>4, <1>5
-----------------------------------------------------------------------------
\* A process that has not started satisfies the invariant on any log of records.
LEMMA InitIInv == Init => IInv
<1> SUFFICES ASSUME Init PROVE IInv
  OBVIOUS
<1>1. PICK recs \in InitialLogs : file = [recs |-> recs, synced |-> Len(recs)]
  BY DEF Init
<1>2. recs \in Seq(Record) /\ recs \in Seq(Record \cup {Torn}) /\ Len(recs) \in Nat
  BY StorageAssumption, LenProperties
<1>3. /\ batch = <<>> /\ muts = <<>> /\ image = <<>> /\ written = 0 /\ next = 1
      /\ cache = EmptyCache /\ applied = 0 /\ phase = "down" /\ prior = {} /\ now = 1
      /\ scan = [shard |-> 0, pos |-> 0]
      /\ owed = [k \in Keys |-> {Newest(file.recs, k)}]
  BY DEF Init
<1>4. aof = [bytes |-> 0, rewritten |-> 0, failed |-> FALSE] /\ failed = FALSE
  BY DEF Init
<1>5. CacheWF(cache) /\ \A e : ~Holds(cache, e)
  BY <1>3, EmptyCacheProperties
<1>6. TypeOK
  <2>1. file \in LogFile /\ prior \in SUBSET LogFile
    BY <1>1, <1>2, <1>3 DEF LogFile
  <2>2. IsAof(aof)
    BY <1>4 DEF IsAof
  <2>3. /\ batch \in Seq(Entered) /\ muts \in Seq(Record) /\ image \in Seq(Record)
    BY <1>3, EmptySeq
  <2>4. owed \in [Keys -> SUBSET (Record \cup {NoRecord})]
    <3>1. \A k \in Keys : Newest(recs, k) \in Record \cup {NoRecord}
      BY <1>2, NewestProperties, ElementOfSeq
    <3> QED BY <1>1, <1>3, <3>1
  <2>5. /\ cache = [s \in Shards |-> cache[s]]
        /\ \A s \in Shards : cache[s].items \in Seq(EntryType)
    BY <1>5 DEF CacheWF, ShardOK
  <2>6. scan \in [shard : Shards, pos : Nat]
    BY <1>3, ScanTyped
  <2>7. failed \in BOOLEAN
    BY <1>4
  <2> QED BY <1>3, <2>1, <2>2, <2>3, <2>4, <2>5, <2>6, <2>7 DEF TypeOK
<1>7. PhaseOK
  BY <1>3, <1>4 DEF PhaseOK
<1>8. Len(batch) = 0 /\ Len(muts) = 0 /\ 1..0 = {}
  BY <1>3, EmptySeq
<1>9. BatchOK
  BY <1>8 DEF BatchOK
<1>10. LogOK
  BY <1>1, <1>2, <1>3 DEF LogOK
<1>11. ScanOK
  BY <1>3 DEF ScanOK
<1>12. TornOK
  <2>1. \A i \in 1..Len(recs) : recs[i] # Torn
    BY <1>2, RecordFacts, ElementOfSeq
  <2> QED BY <1>1, <1>3, <2>1 DEF TornOK, TornLast
<1>13. VisibleInLog
  BY <1>5, VisibleIff DEF VisibleAt
<1> QED BY <1>5, <1>6, <1>7, <1>9, <1>10, <1>11, <1>12, <1>13 DEF IInv

\* Every step of the service, and every crash, keeps the invariant.
LEMMA NextIInv == IInv /\ [Next]_vars => IInv'
<1> SUFFICES ASSUME IInv, [Next]_vars PROVE IInv'
  OBVIOUS
<1>1. /\ TypeOK /\ CacheWF(cache) /\ PhaseOK /\ BatchOK /\ LogOK /\ ScanOK /\ TornOK
      /\ VisibleInLog
  BY DEF IInv
<1>2. TypeOK'
  BY <1>1, TypeStep
<1>3. CacheWF(cache)'
  BY <1>1, CacheStep
<1>4. PhaseOK' /\ BatchOK' /\ LogOK' /\ ScanOK' /\ TornOK' /\ VisibleInLog'
  BY <1>1, <1>2, PhaseStep, BatchStep, LogStep, ScanStep, TornStep, VisibleStep
<1> QED BY <1>2, <1>3, <1>4 DEF IInv

\* Every reachable state of the storage service satisfies the inductive
\* invariant: replay, HandleBatch, compaction and crashes all preserve it.
THEOREM Invariance == Spec => []IInv
<1> QED BY InitIInv, NextIInv, PTL DEF Spec

\* The state of the storage service is well typed in every reachable state,
\* whatever the workload, the limits and the crashes.
THEOREM TypeCorrect == Spec => []TypeOK
<1>1. IInv => TypeOK
  BY DEF IInv
<1> QED BY <1>1, Invariance, PTL

\* What a read can return is the newest record of its key in the log: through
\* replay, batches, compaction, write errors and crashes, HandleBatch never
\* serves a value that a restart on the same log would not bring back.
THEOREM ServesOnlyLogged == Spec => []VisibleInLog
<1>1. IInv => VisibleInLog
  BY DEF IInv
<1> QED BY <1>1, Invariance, PTL

\* logBatch never writes behind a record it left torn, not even after the
\* process was restarted on that log.
THEOREM TornStaysLast == Spec => []NothingBehindTorn
<1>1. IInv => NothingBehindTorn
  <2> SUFFICES ASSUME IInv PROVE NothingBehindTorn
    OBVIOUS
  <2>1. file.recs \in Seq(Record \cup {Torn}) /\ TornLast(file.recs)
    BY DEF IInv, TypeOK, LogFile, TornOK
  <2>2. DOMAIN file.recs = 1..Len(file.recs)
    BY <2>1, LenProperties
  <2> QED BY <2>1, <2>2 DEF NothingBehindTorn, TornLast
<1> QED BY <1>1, Invariance, PTL
-----------------------------------------------------------------------------
\* While the service is not poisoned the cache is behind the log only by records
\* of the batch that is being written or applied.
ServingOK ==
  /\ batch # <<>> => ~failed
  /\ phase \in {"log", "write", "apply"} => batch # <<>>
  /\ phase \notin {"down", "replay", "write", "apply"} /\ ~failed =>
       applied = Len(file.recs)
  /\ phase = "apply" /\ muts = <<>> => applied = Len(file.recs)

\* When a batch returns, the cache has caught up with the log.
LEMMA BatchApplied ==
  ASSUME TypeOK, BatchOK, LogOK, ServingOK, phase = "apply", next > Len(batch)
  PROVE  applied = Len(file.recs)
<1>0. /\ applied \in Nat /\ Len(file.recs) \in Nat /\ Len(muts) \in Nat
      /\ Len(batch) \in Nat
  BY LenProperties DEF TypeOK, LogFile
<1>1. CASE muts = <<>>
  BY <1>1 DEF ServingOK
<1>2. CASE muts # <<>>
  <2>1. Len(muts) \in 1..Len(muts)
    BY <1>0, <1>2, EmptySeq DEF TypeOK
  <2>2. PICK i \in 1..Len(batch) : batch[i].mut = Len(muts)
    BY <2>1 DEF BatchOK
  <2>3. i < next /\ batch[i].mut # 0
    BY <1>0, <2>1, <2>2 DEF TypeOK
  <2>4. Len(muts) <= applied - Base
    BY <1>2, <2>2, <2>3 DEF LogOK
  <2> QED BY <1>0, <2>4 DEF LogOK, Base
<1> QED BY <1>1, <1>2

\* Every step keeps it: whatever leaves records of a batch unapplied poisons the
\* service.
LEMMA ServingStep ==
  ASSUME TypeOK, PhaseOK, BatchOK, LogOK, ServingOK, [Next]_vars
  PROVE  ServingOK'
<1>1. CASE UNCHANGED vars
  BY <1>1 DEF ServingOK, vars, disk, work
<1>2. CASE ReplayRecord \/ Restart
  BY <1>2 DEF ReplayRecord, Restart, ServingOK, PhaseOK, work
<1>3. CASE ReplayRefuses \/ Kill \/ PowerLoss
  BY <1>3 DEF ReplayRefuses, Kill, PowerLoss, NoProcess, ServingOK
<1>4. CASE ReplayDone
  BY <1>4 DEF ReplayDone, ServingOK, PhaseOK, disk, work
<1>5. ASSUME NEW r \in Workload, ParseRequest(r) PROVE ServingOK'
  BY <1>5 DEF ParseRequest, ServingOK, disk
<1>6. CASE BeginCommit \/ Compact
  BY <1>6 DEF BeginCommit, Compact, ServingOK, disk, work
<1>7. CASE SnapshotEntry \/ SnapshotShardDone
  BY <1>7 DEF SnapshotEntry, SnapshotShardDone, ServingOK, disk, work
<1>8. ASSUME NEW c \in BOOLEAN, RewriteThrows(c) \/ LogBatchThrows(c) PROVE ServingOK'
  BY <1>8 DEF RewriteThrows, LogBatchThrows, Throw, ServingOK, disk
<1>9. CASE RewriteRename
  BY <1>9 DEF RewriteRename, Replacement, ServingOK, work
<1>10. CASE SyncDirectory
  BY <1>10 DEF SyncDirectory, ServingOK, work
<1>11. CASE SyncDirectoryFails
  BY <1>11 DEF SyncDirectoryFails, Throw, ServingOK, disk
<1>12. CASE LogBatch
  BY <1>12 DEF LogBatch, ServingOK, disk, work
<1>13. CASE WriteRecord
  BY <1>13 DEF WriteRecord, ServingOK
<1>14. CASE WriteFails
  <2>1. batch # <<>> /\ phase' = "parse" /\ batch' = <<>>
    BY <1>14 DEF WriteFails, Throw, ServingOK
  <2>2. failed' = TRUE
    BY <1>14, <2>1 DEF WriteFails, Throw, TypeOK
  <2> QED BY <2>1, <2>2 DEF ServingOK
<1>15. CASE SyncLog
  <2>1. /\ phase = "write" /\ phase' = "apply" /\ written = Len(muts)
        /\ file'.recs = file.recs /\ UNCHANGED <<failed, batch, muts, applied>>
    BY <1>15 DEF SyncLog, work, TypeOK, LogFile
  <2>2. muts = <<>> => applied = Len(file.recs)
    <3>1. muts = <<>> => Len(muts) = 0
      BY EmptySeq
    <3>2. applied + written = Len(file.recs) /\ applied \in Nat
      BY <2>1 DEF LogOK, TypeOK
    <3> QED BY <2>1, <3>1, <3>2
  <2> QED BY <2>1, <2>2 DEF ServingOK
<1>16. CASE ApplyRequest
  <2>1. /\ phase = "apply" /\ next \in 1..Len(batch)
        /\ UNCHANGED <<file, phase, failed, muts>>
    BY <1>16 DEF ApplyRequest, TypeOK, disk
  <2>2. batch' # <<>>
    <3>1. batch' = batch \/ batch' = [batch EXCEPT ![next] = Answer(batch[next])]
      BY <1>16 DEF ApplyRequest
    <3>2. batch # <<>> /\ batch \in Seq(Entered)
      BY <2>1 DEF ServingOK, TypeOK
    <3> QED BY <2>1, <3>1, <3>2
  <2>3. muts = <<>> => applied' = applied
    <3>1. muts = <<>> => Len(muts) = 0
      BY EmptySeq
    <3>2. batch[next].mut \in 0..Len(muts)
      BY <2>1 DEF BatchOK, RequestOK
    <3>3. muts = <<>> => batch[next].mut = 0
      BY <3>1, <3>2
    <3> QED BY <1>16, <3>3 DEF ApplyRequest
  <2> QED BY <2>1, <2>2, <2>3 DEF ServingOK
<1>17. CASE Return
  <2>1. applied = Len(file.recs)
    BY <1>17, BatchApplied DEF Return
  <2> QED BY <1>17, <2>1 DEF Return, ServingOK, disk
<1>18. CASE Tick
  BY <1>18 DEF Tick, ServingOK, disk, work
<1> QED
  BY <1>1, <1>2, <1>3, <1>4, <1>5, <1>6, <1>7, <1>8, <1>9, <1>10, <1>11, <1>12,
     <1>13, <1>14, <1>15, <1>16, <1>17, <1>18 DEF Next, Service

\* A batch is served by a cache that reflects every record of the log but its
\* own: once a write failed, failed_ keeps HandleBatch from answering with a
\* state that a restart would not reproduce.
THEOREM ServesWholeLog == Spec => []AnswersReflectLog
<1>1. Init => ServingOK
  BY DEF Init, ServingOK
<1>2. IInv /\ ServingOK /\ [Next]_vars => ServingOK'
  BY ServingStep DEF IInv
<1>3. IInv /\ ServingOK => AnswersReflectLog
  <2> SUFFICES ASSUME IInv, ServingOK, batch # <<>>,
                      phase \notin {"write", "apply"} \/ muts = <<>>
               PROVE  applied = Len(file.recs)
    BY DEF AnswersReflectLog
  <2>1. phase \notin {"down", "replay"} /\ ~failed
    BY DEF IInv, PhaseOK, ServingOK
  <2>2. CASE phase \notin {"write", "apply"}
    BY <2>1, <2>2 DEF ServingOK
  <2>3. CASE phase = "apply" /\ muts = <<>>
    BY <2>3 DEF ServingOK
  <2>4. CASE phase = "write" /\ muts = <<>>
    <3>1. /\ written <= Len(muts) /\ applied + written = Len(file.recs)
          /\ written \in Nat /\ applied \in Nat
      BY <2>4 DEF IInv, LogOK, TypeOK
    <3>2. Len(muts) = 0
      BY <2>4, EmptySeq
    <3> QED BY <3>1, <3>2
  <2> QED BY <2>2, <2>3, <2>4
<1> QED BY <1>1, <1>2, <1>3, Invariance, PTL DEF Spec
=============================================================================
