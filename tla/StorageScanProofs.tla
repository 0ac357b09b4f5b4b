------------------------- MODULE StorageScanProofs --------------------------
(***************************************************************************)
(* Every step keeps the snapshot in hand complete, and a torn record the   *)
(* last of its log.                                                        *)
(***************************************************************************)
EXTENDS StorageInduction

\* While a snapshot is taken nothing changes but the clock.
LEMMA ScanChanges ==
  ASSUME [Next]_vars, phase' \in {"snapshot", "rewrite"}, TypeOK
  PROVE  \/ BeginCommit \/ Compact \/ SnapshotEntry \/ SnapshotShardDone
         \/ UNCHANGED <<phase, image, scan, cache>> /\ (now' = now \/ now' = now + 1)
BY DEF Next, Service, vars, disk, work, compaction, ReplayRecord, ReplayRefuses,
       ReplayDone, RewriteThrows, RewriteRename, SyncDirectory, SyncDirectoryFails,
       LogBatch, LogBatchThrows, WriteRecord, WriteFails, SyncLog, ApplyRequest, Return,
       ParseRequest, Restart, Kill, PowerLoss, Tick, NoProcess, Throw

\* An entry that has not expired had not expired before.
LEMMA ExpiredStays ==
  ASSUME NEW e \in EntryType, NEW t \in Nat
  PROVE  ~Expired(e, t + 1) => ~Expired(e, t)
BY DEF Expired, EntryType

\* Every step keeps the snapshot complete and free of duplicates.
LEMMA ScanStep ==
  ASSUME TypeOK, CacheWF(cache), PhaseOK, ScanOK, [Next]_vars
  PROVE  ScanOK'
<1> DEFINE items(s) == cache[s].items
<1> SUFFICES ASSUME phase' \in {"snapshot", "rewrite"} PROVE ScanOK'
  BY DEF ScanOK
<1>0. /\ \A s \in Shards : items(s) \in Seq(EntryType) /\ Len(items(s)) \in Nat
      /\ scan \in [shard : Shards, pos : Nat] /\ Shards \subseteq Nat
      /\ image \in Seq(Record) /\ Len(image) \in Nat
  BY LenProperties DEF TypeOK, Shards
<1>1. CASE BeginCommit \/ Compact
  <2>1. /\ phase' = "snapshot" /\ scan' = ScanFrom(0) /\ image' = image /\ image = <<>>
        /\ cache' = cache /\ now' = now
    BY <1>1 DEF BeginCommit, Compact, PhaseOK
  <2>2. 0 \in Shards
    BY ShardOfKey DEF Shards
  <2>3. scan'.shard = 0 /\ scan'.pos = Len(items(0))
    BY <2>1 DEF ScanFrom
  <2>4. Len(image') = 0 /\ 1..0 = {}
    BY <2>1, EmptySeq
  <2>5. \A s \in Shards : \A i \in 1..Len(items(s)) : ~Visited(scan', s, i)
    BY <1>0, <2>2, <2>3 DEF Visited
  <2>6. Saved(cache', now', scan', image')
    BY <2>1, <2>4, <2>5 DEF Saved
  <2> QED BY <1>0, <2>1, <2>2, <2>3, <2>6 DEF ScanOK
<1>2. CASE SnapshotEntry
  <2> DEFINE sh == scan.shard
             p == scan.pos
             e == items(sh)[p]
  <2>1. /\ phase = "snapshot" /\ p > 0 /\ phase' = phase /\ cache' = cache /\ now' = now
        /\ scan' = [scan EXCEPT !.pos = @ - 1]
        /\ image' = IF Expired(e, now) THEN image ELSE Append(image, SnapshotRecord(e))
    BY <1>2 DEF SnapshotEntry
  <2>2. sh \in Shards /\ p \in 1..Len(items(sh)) /\ scan'.shard = sh /\ scan'.pos = p - 1
    BY <1>0, <2>1 DEF ScanOK
  <2>3. \A s \in Shards : \A i \in 1..Len(items(s)) :
          Visited(scan', s, i) <=> (Visited(scan, s, i) \/ (s = sh /\ i = p))
    BY <1>0, <2>2 DEF Visited
  <2>4. ~Visited(scan, sh, p) /\ Visited(scan', sh, p)
    <3>1. sh \in Nat /\ p \in Nat
      BY <1>0, <2>2
    <3> QED BY <2>2, <3>1 DEF Visited
  <2>5. \A s \in Shards : \A i \in 1..Len(items(s)) :
          items(s)[i].key = e.key => s = sh /\ i = p
    <3> TAKE s \in Shards
    <3> TAKE i \in 1..Len(items(s))
    <3> HAVE items(s)[i].key = e.key
    <3>1. getShard(items(s)[i].key) = s
      BY DEF CacheWF, Has
    <3>2. getShard(e.key) = sh
      BY <2>2 DEF CacheWF, Has
    <3>3. s = sh
      BY <3>1, <3>2
    <3>4. Distinct(items(sh))
      BY <2>2 DEF CacheWF, ShardOK
    <3> QED BY <2>2, <3>3, <3>4 DEF Distinct
  <2>6. /\ \A s \in Shards : \A i \in 1..Len(items(s)) :
             Visited(scan, s, i) /\ ~Expired(items(s)[i], now) =>
               \E n \in 1..Len(image) : Saves(image[n], items(s)[i])
        /\ \A n \in 1..Len(image) : \E s \in Shards : \E i \in 1..Len(items(s)) :
             Visited(scan, s, i) /\ image[n].key = items(s)[i].key
        /\ \A m, n \in 1..Len(image) : image[m].key = image[n].key => m = n
    BY <2>1 DEF ScanOK, Saved
  <2>7. Saved(cache', now', scan', image') => ScanOK'
    BY <1>0, <2>1, <2>2 DEF ScanOK
  <2>8. CASE Expired(e, now)
    <3>1. \A s \in Shards : \A i \in 1..Len(items(s)) :
            Visited(scan', s, i) /\ ~Expired(items(s)[i], now) => Visited(scan, s, i)
      BY <2>3, <2>8
    <3> QED BY <2>1, <2>3, <2>6, <2>7, <2>8, <3>1 DEF Saved
  <2>9. CASE ~Expired(e, now)
    <3> DEFINE r == SnapshotRecord(e)
    <3>1. Saves(r, e) /\ r \in Record
      <4>1. e \in EntryType
        BY <1>0, <2>2, ElementOfSeq
      <4> QED BY <4>1, RecordFacts DEF Saves, SnapshotRecord, ToRecord, EntryType
    <3>2. image' = Append(image, r)
      BY <2>1, <2>9
    <3> HIDE DEF r
    <3>3. /\ Len(image') = Len(image) + 1 /\ image'[Len(image) + 1] = r
          /\ \A n \in 1..Len(image) : image'[n] = image[n]
      BY <1>0, <3>1, <3>2, AppendProperties
    <3> HIDE DEF items, e, sh, p
    <3>4. \A n \in 1..Len(image') : n \in 1..Len(image) \/ n = Len(image) + 1
      BY <1>0, <3>3
    <3>5. Len(image) + 1 \in 1..Len(image') /\ \A n \in 1..Len(image) : n \in 1..Len(image')
      BY <1>0, <3>3
    <3>6. \A s \in Shards : \A i \in 1..Len(items(s)) :
            Visited(scan', s, i) /\ ~Expired(items(s)[i], now) =>
              \E n \in 1..Len(image') : Saves(image'[n], items(s)[i])
      <4> TAKE s \in Shards
      <4> TAKE i \in 1..Len(items(s))
      <4> HAVE Visited(scan', s, i) /\ ~Expired(items(s)[i], now)
      <4>1. CASE s = sh /\ i = p
        BY <3>1, <3>3, <3>5, <4>1 DEF e
      <4>2. CASE Visited(scan, s, i)
        <5>1. PICK n \in 1..Len(image) : Saves(image[n], items(s)[i])
          BY <2>6, <4>2
        <5> QED BY <3>3, <3>5, <5>1
      <4> QED BY <2>3, <4>1, <4>2
    <3>7. \A n \in 1..Len(image') : \E s \in Shards : \E i \in 1..Len(items(s)) :
            Visited(scan', s, i) /\ image'[n].key = items(s)[i].key
      <4> TAKE n \in 1..Len(image')
      <4>1. CASE n \in 1..Len(image)
        <5>1. PICK s \in Shards : \E i \in 1..Len(items(s)) :
                Visited(scan, s, i) /\ image[n].key = items(s)[i].key
          BY <2>6, <4>1
        <5>2. PICK i \in 1..Len(items(s)) : Visited(scan, s, i) /\ image[n].key = items(s)[i].key
          BY <5>1
        <5> QED BY <2>3, <3>3, <4>1, <5>2
      <4>2. CASE n = Len(image) + 1
        <5>1. Visited(scan', sh, p) /\ image'[n].key = e.key
          BY <2>4, <3>1, <3>3, <4>2 DEF Saves
        <5> QED BY <2>2, <5>1 DEF e
      <4> QED BY <3>4, <4>1, <4>2
    <3>8. \A n \in 1..Len(image) : image[n].key # r.key
      <4> SUFFICES ASSUME NEW n \in 1..Len(image), image[n].key = e.key PROVE FALSE
        BY <3>1 DEF Saves
      <4>1. PICK s \in Shards : \E i \in 1..Len(items(s)) :
              Visited(scan, s, i) /\ image[n].key = items(s)[i].key
        BY <2>6
      <4>2. PICK i \in 1..Len(items(s)) : Visited(scan, s, i) /\ image[n].key = items(s)[i].key
        BY <4>1
      <4>3. s = sh /\ i = p
        BY <2>5, <4>2
      <4> QED BY <2>4, <4>2, <4>3
    <3>9. \A m, n \in 1..Len(image') : image'[m].key = image'[n].key => m = n
      BY <2>6, <3>3, <3>4, <3>8
    <3>10. Saved(cache, now, scan', image')
      <4> HIDE DEF Visited, Saves, Expired
      <4> QED BY <3>6, <3>7, <3>9 DEF Saved, items
    <3> QED BY <2>1, <2>7, <3>10
  <2> QED BY <2>8, <2>9
<1>3. CASE SnapshotShardDone
  <2>1. /\ phase = "snapshot" /\ scan.pos = 0 /\ cache' = cache /\ now' = now /\ image' = image
        /\ \/ scan.shard + 1 \in Shards /\ scan' = ScanFrom(scan.shard + 1) /\ phase' = phase
           \/ scan.shard + 1 \notin Shards /\ scan' = scan /\ phase' = "rewrite"
    BY <1>3 DEF SnapshotShardDone
  <2>2. CASE scan.shard + 1 \in Shards
    <3>1. scan'.shard = scan.shard + 1 /\ scan'.pos = Len(items(scan.shard + 1))
      BY <2>1, <2>2 DEF ScanFrom
    <3>2. ASSUME NEW s \in Shards, NEW i \in 1..Len(items(s))
          PROVE  Visited(scan', s, i) <=> Visited(scan, s, i)
      <4>1. s \in Nat /\ scan.shard \in Nat /\ i \in Nat /\ i > 0 /\ Len(items(s)) \in Nat
        <5>1. s \in Nat /\ scan.shard \in Nat
          BY <1>0
        <5>2. Len(items(s)) \in Nat
          BY <1>0
        <5> QED BY <5>1, <5>2
      <4>2. ~(s = scan.shard + 1 /\ i > scan'.pos)
        BY <3>1, <4>1
      <4>3. s < scan.shard + 1 <=> s < scan.shard \/ s = scan.shard
        BY <4>1
      <4> QED BY <2>1, <3>1, <4>1, <4>2, <4>3 DEF Visited
    <3>3. phase' = "snapshot" /\ scan'.pos <= Len(items(scan'.shard))
      BY <1>0, <2>1, <2>2, <3>1
    <3>4. Saved(cache', now', scan', image')
      BY <2>1, <3>2 DEF ScanOK, Saved
    <3> QED BY <2>1, <3>3, <3>4 DEF ScanOK
  <2>3. CASE scan.shard + 1 \notin Shards
    <3>1. phase' = "rewrite" /\ UNCHANGED <<cache, now, scan, image>>
      BY <2>1, <2>3
    <3> QED BY <2>1, <2>3, <3>1 DEF ScanOK
  <2> QED BY <2>2, <2>3
<1>4. CASE UNCHANGED <<phase, image, scan, cache>> /\ (now' = now \/ now' = now + 1)
  <2>1. \A s \in Shards : \A i \in 1..Len(items(s)) :
          ~Expired(items(s)[i], now') => ~Expired(items(s)[i], now)
    BY <1>0, <1>4, ExpiredStays, ElementOfSeq DEF TypeOK
  <2> QED BY <1>4, <2>1 DEF ScanOK, Saved
<1> QED BY <1>1, <1>2, <1>3, <1>4, ScanChanges

\* A torn record is appended only to a log without one.
LEMMA TearingsTornLast ==
  ASSUME TypeOK, PhaseOK, TornOK, NEW f \in Tearings
  PROVE  TornLast(f.recs)
<1>1. CASE f = file
  BY <1>1 DEF TornOK
<1>2. CASE f # file
  <2>1. phase = "write" /\ f = [file EXCEPT !.recs = Append(@, Torn)]
    BY <1>2 DEF Tearings
  <2>2. f.recs = Append(file.recs, Torn) /\ file.recs \in Seq(Record \cup {Torn})
    BY <2>1 DEF TypeOK, LogFile
  <2>3. \A i \in 1..Len(file.recs) : file.recs[i] # Torn
    BY <2>1 DEF PhaseOK, TornOK
  <2>4. /\ Len(f.recs) = Len(file.recs) + 1 /\ Len(file.recs) \in Nat
        /\ \A i \in 1..Len(file.recs) : f.recs[i] = file.recs[i]
    BY <2>2, AppendProperties, LenProperties
  <2>5. \A i \in 1..Len(f.recs) : i \in 1..Len(file.recs) \/ i = Len(f.recs)
    BY <2>4
  <2> QED BY <2>3, <2>4, <2>5 DEF TornLast
<1> QED BY <1>1, <1>2

\* Steps that do not touch a file's records.
LEMMA TornUnchanged ==
  ASSUME TornOK, file'.recs = file.recs, prior' = prior \/ prior' = {},
         phase' # "replay", phase \notin {"down", "replay"},
         aof'.failed = aof.failed \/ aof'.failed = TRUE
  PROVE  TornOK'
BY DEF TornOK

\* Every step keeps torn records at the end and out of a log in use.
LEMMA TornStep ==
  ASSUME TypeOK, PhaseOK, LogOK, TornOK, [Next]_vars
  PROVE  TornOK'
<1>0. /\ IsAof(aof) /\ applied \in Nat /\ Len(file.recs) \in Nat
      /\ file.recs \in Seq(Record \cup {Torn})
  BY LenProperties DEF TypeOK, LogFile
<1>1. CASE UNCHANGED vars
  BY <1>1 DEF TornOK, vars, disk
<1>2. CASE ReplayRecord
  <2>1. /\ applied' = applied + 1 /\ file.recs[applied + 1] # Torn
        /\ phase' = "replay" /\ phase = "replay" /\ UNCHANGED <<file, prior>>
    BY <1>2 DEF ReplayRecord, disk
  <2>2. \A i \in 1..(applied + 1) : i \in 1..applied \/ i = applied + 1
    BY <1>0
  <2> QED BY <2>1, <2>2 DEF TornOK
<1>3. CASE ReplayRefuses
  BY <1>3 DEF ReplayRefuses, NoProcess, TornOK, disk
<1>4. CASE Kill
  BY <1>4, TearingsTornLast DEF Kill, NoProcess, TornOK
<1>5. CASE PowerLoss
  <2>1. PICK f \in {file} \cup prior : \E recs \in Survivors(f) :
          file' = [recs |-> recs, synced |-> Len(recs)]
    BY <1>5 DEF PowerLoss
  <2>2. PICK recs \in Survivors(f) : file' = [recs |-> recs, synced |-> Len(recs)]
    BY <2>1
  <2>3. f \in LogFile /\ TornLast(f.recs)
    BY DEF TypeOK, TornOK
  <2>4. TornLast(recs)
    BY <2>3, SurvivorsProperties DEF LogFile
  <2> QED BY <1>5, <2>2, <2>4 DEF PowerLoss, NoProcess, TornOK
<1>6. CASE ReplayDone
  BY <1>6 DEF ReplayDone, TornOK, disk
<1>7. CASE Restart
  <2>1. /\ UNCHANGED <<file, applied>> /\ prior' = {} /\ phase' = "replay" /\ phase = "down"
    BY <1>7 DEF Restart
  <2>2. 1..applied = {}
    BY <2>1 DEF PhaseOK
  <2> QED BY <2>1, <2>2 DEF TornOK
<1>8. ASSUME NEW r \in Workload, ParseRequest(r) PROVE TornOK'
  BY <1>8, TornUnchanged DEF ParseRequest, disk
<1>9. CASE BeginCommit \/ Compact
  BY <1>9, TornUnchanged DEF BeginCommit, Compact, disk
<1>10. CASE SnapshotEntry \/ SnapshotShardDone
  BY <1>10, TornUnchanged DEF SnapshotEntry, SnapshotShardDone, disk
<1>11. ASSUME NEW c \in BOOLEAN, RewriteThrows(c) \/ LogBatchThrows(c) PROVE TornOK'
  BY <1>11, TornUnchanged DEF RewriteThrows, LogBatchThrows, Throw, disk
<1>12. CASE RewriteRename
  <2>1. /\ phase' = "syncdir" /\ prior' = {file} /\ file'.recs = image
    BY <1>12 DEF RewriteRename, Replacement
  <2>2. \A i \in 1..Len(image) : image[i] # Torn
    BY RecordFacts DEF TypeOK
  <2> QED BY <2>1, <2>2 DEF TornOK, TornLast
<1>13. CASE SyncDirectory
  BY <1>13, TornUnchanged DEF SyncDirectory
<1>14. CASE SyncDirectoryFails
  <2>1. aof'.failed = TRUE
    BY <1>0, <1>14, AofTyped DEF SyncDirectoryFails
  <2> QED BY <1>14, <2>1, TornUnchanged DEF SyncDirectoryFails, Throw, disk
<1>15. CASE LogBatch
  BY <1>15, TornUnchanged DEF LogBatch, disk
<1>16. CASE WriteRecord
  <2> DEFINE m == muts[written + 1]
  <2>1. /\ file'.recs = Append(file.recs, m) /\ phase = "write" /\ written + 1 \in 1..Len(muts)
        /\ UNCHANGED <<phase, prior, aof>>
    BY <1>16 DEF WriteRecord, TypeOK, LogFile
  <2>2. m \in Record /\ m # Torn
    BY <2>1, RecordFacts, ElementOfSeq DEF TypeOK
  <2>3. \A i \in 1..Len(file.recs) : file.recs[i] # Torn
    BY <2>1 DEF PhaseOK, TornOK
  <2> HIDE DEF m
  <2>4. /\ Len(file'.recs) = Len(file.recs) + 1 /\ file'.recs[Len(file.recs) + 1] = m
        /\ \A i \in 1..Len(file.recs) : file'.recs[i] = file.recs[i]
    BY <1>0, <2>1, <2>2, AppendProperties
  <2>5. \A i \in 1..Len(file'.recs) : i \in 1..Len(file.recs) \/ i = Len(file.recs) + 1
    BY <1>0, <2>4
  <2>6. \A i \in 1..Len(file'.recs) : file'.recs[i] # Torn
    BY <2>2, <2>3, <2>4, <2>5
  <2> QED BY <2>1, <2>6 DEF TornOK, TornLast
<1>17. CASE WriteFails
  <2>1. aof'.failed = TRUE /\ phase' = "parse" /\ prior' = prior /\ file' \in Tearings
    BY <1>0, <1>17, AofTyped DEF WriteFails, Throw
  <2>2. TornLast(file'.recs)
    BY <2>1, TearingsTornLast
  <2> QED BY <2>1, <2>2 DEF TornOK
<1>18. CASE SyncLog
  <2>1. aof'.failed = aof.failed
    BY <1>0, <1>18, AofTyped DEF SyncLog
  <2>2. file'.recs = file.recs
    BY <1>18 DEF SyncLog, TypeOK, LogFile
  <2> QED BY <1>18, <2>1, <2>2, TornUnchanged DEF SyncLog
<1>19. CASE ApplyRequest
  BY <1>19, TornUnchanged DEF ApplyRequest, disk
<1>20. CASE Return
  BY <1>20, TornUnchanged DEF Return, disk
<1>21. CASE Tick
  BY <1>21 DEF Tick, TornOK, disk
<1> QED
  BY <1>1, <1>2, <1>3, <1>4, <1>5, <1>6, <1>7, <1>8, <1>9, <1>10, <1>11, <1>12,
     <1>13, <1>14, <1>15, <1>16, <1>17, <1>18, <1>19, <1>20, <1>21 DEF Next, Service
=============================================================================
