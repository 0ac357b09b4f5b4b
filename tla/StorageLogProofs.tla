-------------------------- MODULE StorageLogProofs --------------------------
(***************************************************************************)
(* Every step keeps the batch in hand in step with the log: the phases,    *)
(* the numbering of the mutations, and which of them the log and the cache *)
(* hold.                                                                   *)
(***************************************************************************)
EXTENDS StorageInduction

\* Every step keeps to what is in use in which phase.
LEMMA PhaseStep ==
  ASSUME TypeOK, PhaseOK, [Next]_vars
  PROVE  PhaseOK'
<1>0. IsAof(aof)
  BY DEF TypeOK
<1>1. CASE UNCHANGED vars
  BY <1>1 DEF PhaseOK, vars, work, compaction
<1>2. CASE ReplayRecord
  BY <1>2 DEF ReplayRecord, PhaseOK, work, compaction
<1>3. CASE ReplayRefuses \/ Kill \/ PowerLoss
  BY <1>3 DEF ReplayRefuses, Kill, PowerLoss, NoProcess, PhaseOK
<1>4. CASE ReplayDone
  BY <1>4 DEF ReplayDone, PhaseOK, work, compaction
<1>5. ASSUME NEW r \in Workload, ParseRequest(r) PROVE PhaseOK'
  BY <1>5 DEF ParseRequest, PhaseOK, compaction
<1>6. CASE BeginCommit \/ Compact
  BY <1>6 DEF BeginCommit, Compact, PhaseOK, work
<1>7. CASE SnapshotEntry \/ SnapshotShardDone
  BY <1>7 DEF SnapshotEntry, SnapshotShardDone, PhaseOK, work
<1>8. ASSUME NEW c \in BOOLEAN, RewriteThrows(c) \/ LogBatchThrows(c) PROVE PhaseOK'
  BY <1>8 DEF RewriteThrows, LogBatchThrows, Throw, PhaseOK
<1>9. CASE RewriteRename
  BY <1>9 DEF RewriteRename, PhaseOK, work, compaction
<1>10. CASE SyncDirectory
  BY <1>10 DEF SyncDirectory, PhaseOK, work
<1>11. CASE SyncDirectoryFails \/ WriteFails
  BY <1>11 DEF SyncDirectoryFails, WriteFails, Throw, PhaseOK
<1>12. CASE LogBatch
  BY <1>12 DEF LogBatch, PhaseOK, work, compaction
<1>13. CASE WriteRecord
  BY <1>13 DEF WriteRecord, PhaseOK, compaction
<1>14. CASE SyncLog
  BY <1>14 DEF SyncLog, PhaseOK, work, compaction
<1>15. CASE ApplyRequest
  BY <1>15 DEF ApplyRequest, PhaseOK, compaction
<1>16. CASE Return
  BY <1>16 DEF Return, PhaseOK, compaction
<1>17. CASE Restart
  <2>1. aof'.failed = aof.failed
    BY <1>0, <1>17, AofTyped DEF Restart
  <2> QED BY <1>17, <2>1 DEF Restart, PhaseOK, work, compaction
<1>18. CASE Tick
  BY <1>18 DEF Tick, PhaseOK, work, compaction
<1> QED
  BY <1>1, <1>2, <1>3, <1>4, <1>5, <1>6, <1>7, <1>8, <1>9, <1>10, <1>11, <1>12,
     <1>13, <1>14, <1>15, <1>16, <1>17, <1>18 DEF Next, Service

\* Only parsing and applying change a batch that is not dropped.
LEMMA BatchChanges ==
  ASSUME [Next]_vars, ~ApplyRequest, \A r \in Workload : ~ParseRequest(r)
  PROVE  \/ batch' = batch /\ muts' = muts /\ next' = next
         \/ batch' = <<>> /\ muts' = <<>> /\ next' = 1
BY DEF Next, Service, vars, disk, work, compaction, ReplayRecord, ReplayRefuses,
       ReplayDone, BeginCommit, SnapshotEntry, SnapshotShardDone, RewriteThrows,
       RewriteRename, SyncDirectory, SyncDirectoryFails, LogBatch, LogBatchThrows,
       WriteRecord, WriteFails, SyncLog, Return, Compact, Restart, Kill, PowerLoss,
       Tick, NoProcess, Throw

\* The mutations of a batch stay numbered in the order of its requests.
LEMMA BatchStep ==
  ASSUME TypeOK, CacheWF(cache), PhaseOK, BatchOK, [Next]_vars
  PROVE  BatchOK'
<1>1. ASSUME NEW r \in Workload, ParseRequest(r) PROVE BatchOK'
  <2> DEFINE reply == IF r.cmd = "PARTIAL" THEN "skip"
                      ELSE IF Valid(r) THEN "todo" ELSE "close"
             logged == reply = "todo" /\ IsMutation(r)
             m == ToRecord(r.key, r.value, Expires(r))
             b == [cmd |-> r.cmd, key |-> r.key, reply |-> reply, value |-> NoValue,
                   mut |-> IF logged THEN Len(muts) + 1 ELSE 0]
  <2>1. /\ muts' = (IF logged THEN Append(muts, m) ELSE muts)
        /\ batch' = Append(batch, b) /\ next' = next
    BY <1>1 DEF ParseRequest
  <2>2. Len(muts) \in Nat /\ Len(batch) \in Nat
    BY LenProperties DEF TypeOK
  <2>3. r.cmd \in {"SET", "SET_TTL"} <=> r.value # NoValue
    BY StorageAssumption
  <2>4. /\ b.mut = IF logged THEN Len(muts) + 1 ELSE 0
        /\ b.reply = "todo" => (logged <=> IsMutation(b))
        /\ logged => b.reply = "todo" /\ m.key = b.key
        /\ b.cmd \in {"SET", "SET_TTL"} <=> m.value # NoValue
    BY <2>3 DEF IsMutation, ToRecord
  <2> HIDE DEF b, m, logged, reply
  <2>5. /\ Len(batch') = Len(batch) + 1
        /\ batch'[Len(batch) + 1] = b
        /\ \A i \in 1..Len(batch) : batch'[i] = batch[i]
    BY <2>1, AppendProperties DEF TypeOK
  <2>6. /\ Len(muts') = IF logged THEN Len(muts) + 1 ELSE Len(muts)
        /\ \A i \in 1..Len(muts) : muts'[i] = muts[i]
        /\ logged => muts'[Len(muts) + 1] = m
    BY <2>1, AppendProperties DEF TypeOK
  <2>7. \A i \in 1..Len(batch') : i \in 1..Len(batch) \/ i = Len(batch) + 1
    BY <2>2, <2>5
  <2>8. RequestOK(b, muts')
    <3>1. CASE logged
      <4>1. b.mut = Len(muts) + 1 /\ Len(muts') = Len(muts) + 1 /\ muts'[b.mut] = m
        BY <2>4, <2>6, <3>1
      <4> QED BY <2>2, <2>4, <3>1, <4>1 DEF RequestOK
    <3>2. CASE ~logged
      <4>1. b.mut = 0 /\ Len(muts') = Len(muts)
        BY <2>4, <2>6, <3>2
      <4> QED BY <2>2, <2>4, <3>2, <4>1 DEF RequestOK
    <3> QED BY <3>1, <3>2
  <2>9. \A i \in 1..Len(batch) : RequestOK(batch[i], muts')
    <3> TAKE i \in 1..Len(batch)
    <3>1. RequestOK(batch[i], muts)
      BY DEF BatchOK
    <3>2. batch[i].mut \in 0..Len(muts')
      BY <2>2, <2>6, <3>1 DEF RequestOK
    <3>3. batch[i].mut # 0 => muts'[batch[i].mut] = muts[batch[i].mut]
      BY <2>2, <2>6, <3>1 DEF RequestOK
    <3> QED BY <3>1, <3>2, <3>3 DEF RequestOK
  <2>10. \A i \in 1..Len(batch') : RequestOK(batch'[i], muts')
    BY <2>5, <2>7, <2>8, <2>9
  <2>11. \A i \in 1..Len(batch') :
           batch'[i].mut # 0 /\ i >= next' => batch'[i].reply = "todo"
    BY <2>1, <2>4, <2>5, <2>7 DEF BatchOK
  <2>12. \A i, j \in 1..Len(batch') :
           i < j /\ batch'[i].mut # 0 /\ batch'[j].mut # 0
             => batch'[i].mut < batch'[j].mut
    <3> SUFFICES ASSUME NEW i \in 1..Len(batch'), NEW j \in 1..Len(batch'), i < j,
                        batch'[i].mut # 0, batch'[j].mut # 0
                 PROVE  batch'[i].mut < batch'[j].mut
      OBVIOUS
    <3>1. i \in 1..Len(batch) /\ batch'[i] = batch[i]
      BY <2>2, <2>5, <2>7
    <3>2. CASE j \in 1..Len(batch)
      BY <2>5, <3>1, <3>2 DEF BatchOK
    <3>3. CASE j = Len(batch) + 1
      <4>1. batch[i].mut \in 0..Len(muts)
        BY <3>1 DEF BatchOK, RequestOK
      <4> QED BY <2>2, <2>4, <2>5, <3>1, <3>3, <4>1
    <3> QED BY <2>7, <3>2, <3>3
  <2>13. \A n \in 1..Len(muts') : \E i \in 1..Len(batch') : batch'[i].mut = n
    <3> TAKE n \in 1..Len(muts')
    <3>1. CASE n \in 1..Len(muts)
      <4>1. PICK i \in 1..Len(batch) : batch[i].mut = n
        BY <3>1 DEF BatchOK
      <4>2. i \in 1..Len(batch') /\ batch'[i].mut = n
        BY <2>2, <2>5, <4>1
      <4> QED BY <4>2
    <3>2. CASE n \notin 1..Len(muts)
      <4>1. logged /\ n = Len(muts) + 1
        BY <2>2, <2>6, <3>2
      <4>2. Len(batch) + 1 \in 1..Len(batch') /\ batch'[Len(batch) + 1].mut = n
        BY <2>2, <2>4, <2>5, <4>1
      <4> QED BY <4>2
    <3> QED BY <3>1, <3>2
  <2> QED BY <2>10, <2>11, <2>12, <2>13 DEF BatchOK
<1>2. CASE ApplyRequest
  <2> DEFINE b == batch[next]
  <2>1. next' = next + 1 /\ muts' = muts
    BY <1>2 DEF ApplyRequest
  <2>2. b \in Entered /\ next \in 1..Len(batch) /\ Len(batch) \in Nat
    BY <1>2, LenProperties DEF ApplyRequest, TypeOK
  <2>3. batch' = batch \/ batch' = [batch EXCEPT ![next] = Answer(b)]
    BY <1>2 DEF ApplyRequest
  <2>4. /\ Answer(b) \in Entered
        /\ Answer(b).mut = b.mut /\ Answer(b).key = b.key /\ Answer(b).cmd = b.cmd
        /\ Answer(b).reply # "todo"
    BY <2>2, AnswerTyped
  <2>5. /\ Len(batch') = Len(batch)
        /\ \A i \in 1..Len(batch) :
             /\ batch'[i].mut = batch[i].mut /\ batch'[i].key = batch[i].key
             /\ batch'[i].cmd = batch[i].cmd
             /\ batch'[i].reply \in {"todo"} => batch[i].reply = "todo"
             /\ i # next => batch'[i] = batch[i]
    <3>1. CASE batch' = batch
      BY <3>1
    <3>2. CASE batch' = [batch EXCEPT ![next] = Answer(b)]
      <4>1. batch \in Seq(Entered)
        BY DEF TypeOK
      <4>2. /\ Len(batch') = Len(batch)
            /\ \A i \in 1..Len(batch) : batch'[i] = IF i = next THEN Answer(b) ELSE batch[i]
        BY <2>2, <2>4, <3>2, <4>1, ExceptSeq
      <4> QED BY <2>4, <4>2
    <3> QED BY <2>3, <3>1, <3>2
  <2>6. \A i \in 1..Len(batch') : RequestOK(batch'[i], muts')
    BY <2>1, <2>5 DEF BatchOK, RequestOK, IsMutation
  <2>7. \A i \in 1..Len(batch') :
           batch'[i].mut # 0 /\ i >= next' => batch'[i].reply = "todo"
    BY <2>1, <2>2, <2>5 DEF BatchOK
  <2>8. \A i, j \in 1..Len(batch') :
           i < j /\ batch'[i].mut # 0 /\ batch'[j].mut # 0
             => batch'[i].mut < batch'[j].mut
    BY <2>5 DEF BatchOK
  <2>9. \A n \in 1..Len(muts') : \E i \in 1..Len(batch') : batch'[i].mut = n
    BY <2>1, <2>5 DEF BatchOK
  <2> QED BY <2>6, <2>7, <2>8, <2>9 DEF BatchOK
<1>3. CASE ~ApplyRequest /\ \A r \in Workload : ~ParseRequest(r)
  <2>1. CASE batch' = batch /\ muts' = muts /\ next' = next
    BY <2>1 DEF BatchOK, RequestOK
  <2>2. CASE batch' = <<>> /\ muts' = <<>> /\ next' = 1
    <3>1. Len(batch') = 0 /\ Len(muts') = 0 /\ 1..0 = {}
      BY <2>2, EmptySeq
    <3> QED BY <3>1 DEF BatchOK
  <2> QED BY <1>3, <2>1, <2>2, BatchChanges
<1> QED BY <1>1, <1>2, <1>3

\* ApplyRequest takes the mutations of the batch in the order they are logged.
LEMMA NextMutation ==
  ASSUME TypeOK, BatchOK, LogOK, ApplyRequest, batch[next].mut # 0
  PROVE  /\ batch[next].mut = applied - Base + 1
         /\ applied + 1 <= Len(file.recs)
         /\ file.recs[applied + 1] = muts[batch[next].mut]
<1> DEFINE d == applied - Base
           b == batch[next]
<1>1. next \in 1..Len(batch) /\ phase = "apply"
  BY DEF ApplyRequest, TypeOK
<1>2. b.mut \in 1..Len(muts) /\ Len(muts) \in Nat /\ muts # <<>>
  BY <1>1, LenProperties, EmptySeq DEF BatchOK, RequestOK, TypeOK
<1>3. /\ applied \in Nat /\ Len(file.recs) \in Nat
      /\ Base = Len(file.recs) - Len(muts)
  BY LenProperties DEF TypeOK, LogFile, Base
<1>4. /\ 0 <= Base /\ Base <= applied /\ applied <= Len(file.recs)
      /\ \A n \in 1..Len(muts) : file.recs[Base + n] = muts[n]
      /\ \A i \in 1..Len(batch) : batch[i].mut # 0 => (i < next <=> batch[i].mut <= d)
  BY <1>1, <1>2 DEF LogOK
<1>5. d \in Nat /\ d < b.mut
  BY <1>1, <1>2, <1>3, <1>4
<1>6. d + 1 \in 1..Len(muts)
  BY <1>2, <1>5
<1>7. PICK i \in 1..Len(batch) : batch[i].mut = d + 1
  BY <1>6 DEF BatchOK
<1>8. i >= next
  BY <1>1, <1>4, <1>5, <1>7
<1>9. ~(next < i /\ b.mut > d + 1)
  BY <1>1, <1>2, <1>5, <1>7 DEF BatchOK
<1>10. b.mut = d + 1
  BY <1>1, <1>2, <1>5, <1>7, <1>8, <1>9
<1>11. Base + b.mut = applied + 1
  BY <1>2, <1>3, <1>10
<1>12. file.recs[applied + 1] = muts[b.mut]
  BY <1>2, <1>4, <1>11
<1>13. applied + 1 <= Len(file.recs)
  BY <1>2, <1>3, <1>11
<1> QED BY <1>10, <1>12, <1>13

\* Every step keeps the log in step with the cache and the batch.
LEMMA LogStep ==
  ASSUME TypeOK, TypeOK', PhaseOK, CacheWF(cache), BatchOK, LogOK, [Next]_vars
  PROVE  LogOK'
<1>0. /\ IsAof(aof) /\ applied \in Nat /\ Len(file.recs) \in Nat /\ Len(muts) \in Nat
      /\ Len(batch) \in Nat
      /\ Len(file'.recs) \in Nat /\ Len(image) \in Nat
  BY LenProperties DEF TypeOK, LogFile
<1>1. CASE UNCHANGED vars
  BY <1>1 DEF LogOK, Base, vars, disk, work
<1>2. CASE ReplayRecord
  BY <1>0, <1>2 DEF ReplayRecord, LogOK, disk
<1>3. CASE ReplayRefuses \/ Kill \/ PowerLoss
  <2>1. phase' = "down" /\ applied' = 0
    BY <1>3, Zenon DEF ReplayRefuses, Kill, PowerLoss, NoProcess
  <2> QED BY <1>0, <2>1 DEF LogOK
<1>4. CASE ReplayDone
  BY <1>4 DEF ReplayDone, LogOK, disk
<1>5. ASSUME NEW r \in Workload, ParseRequest(r) PROVE LogOK'
  BY <1>5 DEF ParseRequest, LogOK, disk
<1>6. CASE BeginCommit \/ Compact
  BY <1>6 DEF BeginCommit, Compact, LogOK, disk
<1>7. CASE SnapshotEntry \/ SnapshotShardDone
  BY <1>7 DEF SnapshotEntry, SnapshotShardDone, LogOK, disk
<1>8. ASSUME NEW c \in BOOLEAN, RewriteThrows(c) \/ LogBatchThrows(c) PROVE LogOK'
  BY <1>8 DEF RewriteThrows, LogBatchThrows, Throw, LogOK, disk
<1>9. CASE RewriteRename
  BY <1>0, <1>9 DEF RewriteRename, Replacement, LogOK
<1>10. CASE SyncDirectory
  BY <1>10 DEF SyncDirectory, LogOK
<1>11. CASE SyncDirectoryFails
  <2>1. aof'.failed = TRUE
    BY <1>0, <1>11, AofTyped DEF SyncDirectoryFails
  <2> QED BY <1>11, <2>1 DEF SyncDirectoryFails, Throw, LogOK, disk
<1>12. CASE LogBatch
  <2>1. UNCHANGED <<file, aof, muts, batch, written, next, applied>> /\ phase = "log"
    BY <1>12 DEF LogBatch, disk, work
  <2>2. CASE muts = <<>> /\ phase' = "apply"
    <3>1. Len(muts) = 0
      BY <2>2, EmptySeq
    <3>2. \A i \in 1..Len(batch) : batch[i].mut = 0
      BY <3>1 DEF BatchOK, RequestOK
    <3> QED BY <1>0, <2>1, <2>2, <3>1, <3>2 DEF LogOK, Base
  <2>3. CASE ~aof.failed /\ phase' = "write"
    <3>1. written = 0 /\ applied = Len(file.recs)
      BY <2>1, <2>3 DEF PhaseOK, LogOK
    <3> QED BY <1>0, <2>1, <2>3, <3>1 DEF LogOK
  <2> QED BY <1>12, <2>2, <2>3 DEF LogBatch
<1>13. CASE WriteRecord
  <2>1. /\ file'.recs = Append(file.recs, muts[written + 1])
        /\ written' = written + 1 /\ written < Len(muts) /\ phase = "write"
        /\ UNCHANGED <<phase, muts, applied>>
    BY <1>13 DEF WriteRecord, TypeOK, LogFile
  <2>2. /\ Len(file'.recs) = Len(file.recs) + 1
        /\ file'.recs[Len(file.recs) + 1] = muts[written + 1]
        /\ \A i \in 1..Len(file.recs) : file'.recs[i] = file.recs[i]
    <3>1. file.recs \in Seq(Record \cup {Torn}) /\ muts \in Seq(Record) /\ written \in Nat
      BY DEF TypeOK, LogFile
    <3>2. muts[written + 1] \in Record
      BY <1>0, <2>1, <3>1, ElementOfSeq
    <3> QED BY <2>1, <3>1, <3>2, AppendProperties
  <2>3. /\ written \in Nat /\ applied + written = Len(file.recs)
        /\ \A n \in 1..written : file.recs[applied + n] = muts[n]
    BY <2>1 DEF LogOK, TypeOK
  <2>4. \A n \in 1..(written + 1) : file'.recs[applied + n] = muts[n]
    <3> TAKE n \in 1..(written + 1)
    <3>1. CASE n = written + 1
      BY <1>0, <2>2, <2>3, <3>1
    <3>2. CASE n # written + 1
      <4>1. n \in 1..written /\ applied + n \in 1..Len(file.recs)
        BY <1>0, <2>3, <3>2
      <4> QED BY <2>2, <2>3, <4>1
    <3> QED BY <3>1, <3>2
  <2>5. applied + written' = Len(file'.recs) /\ applied <= Len(file'.recs)
    <3>1. /\ Len(file'.recs) = Len(file.recs) + 1 /\ written' = written + 1
          /\ applied \in Nat /\ written \in Nat /\ Len(file.recs) \in Nat
          /\ applied + written = Len(file.recs)
      BY <1>0, <2>1, <2>2, <2>3
    <3> QED BY <3>1
  <2>6. written' <= Len(muts)
    BY <1>0, <2>1, <2>3
  <2> QED BY <2>1, <2>4, <2>5, <2>6 DEF LogOK
<1>14. CASE WriteFails
  <2>1. aof'.failed = TRUE
    BY <1>0, <1>14, AofTyped DEF WriteFails
  <2>2. phase' = "parse" /\ applied' = applied
    BY <1>14 DEF WriteFails, Throw
  <2>3. Len(file.recs) <= Len(file'.recs)
    <3>1. Len(Append(file.recs, Torn)) = Len(file.recs) + 1
      BY AppendProperties DEF TypeOK, LogFile
    <3>2. file' = file \/ file'.recs = Append(file.recs, Torn)
      BY <1>14 DEF WriteFails, Tearings, TypeOK, LogFile
    <3> QED BY <1>0, <3>1, <3>2
  <2> QED BY <1>0, <2>1, <2>2, <2>3 DEF LogOK
<1>15. CASE SyncLog
  <2>1. /\ file'.recs = file.recs /\ phase = "write" /\ phase' = "apply"
        /\ written = Len(muts)
        /\ UNCHANGED <<muts, batch, next, written, applied>>
    BY <1>15 DEF SyncLog, work, TypeOK, LogFile
  <2>2. Base' = applied /\ next = 1
    BY <1>0, <2>1 DEF Base, LogOK, PhaseOK
  <2>3. \A i \in 1..Len(batch) : batch[i].mut \in 0..Len(muts)
    BY DEF BatchOK, RequestOK
  <2> QED BY <1>0, <2>1, <2>2, <2>3 DEF LogOK
<1>16. CASE ApplyRequest
  <2> DEFINE b == batch[next]
  <2>1. /\ next \in 1..Len(batch) /\ b \in Entered /\ phase = "apply"
        /\ next' = next + 1 /\ UNCHANGED <<file, aof, phase, muts>>
    BY <1>16 DEF ApplyRequest, TypeOK, disk
  <2>2. b.mut # 0 => b.reply = "todo"
    BY <1>0, <2>1 DEF BatchOK
  <2>3. /\ applied' = IF b.mut = 0 THEN applied ELSE applied + 1
        /\ batch' = batch \/ batch' = [batch EXCEPT ![next] = Answer(b)]
    BY <1>16, <2>2 DEF ApplyRequest
  <2>4. Len(batch') = Len(batch) /\ \A i \in 1..Len(batch) : batch'[i].mut = batch[i].mut
    <3>1. Answer(b) \in Entered /\ Answer(b).mut = b.mut
      BY <2>1, AnswerTyped
    <3>2. batch \in Seq(Entered)
      BY DEF TypeOK
    <3> HIDE DEF b
    <3>3. CASE batch' = [batch EXCEPT ![next] = Answer(b)]
      BY <2>1, <3>1, <3>2, <3>3, ExceptSeq DEF b
    <3> QED BY <2>3, <3>3
  <2>5. Base' = Base /\ Base = Len(file.recs) - Len(muts)
    BY <2>1 DEF Base
  <2>6. \A i \in 1..Len(batch) : batch[i].mut \in Nat
    BY <1>0 DEF BatchOK, RequestOK
  <2> DEFINE live == muts # <<>> \/ ~aof.failed
  <2>7. CASE b.mut = 0
    <3>1. ASSUME NEW i \in 1..Len(batch), batch[i].mut # 0, live
          PROVE  i < next + 1 <=> batch[i].mut <= applied - Base
      <4>1. i < next <=> batch[i].mut <= applied - Base
        BY <2>1, <3>1 DEF LogOK
      <4> QED BY <2>1, <2>7, <3>1, <4>1
    <3>2. applied' = applied
      BY <2>3, <2>7
    <3> QED BY <2>1, <2>4, <2>5, <3>1, <3>2 DEF LogOK
  <2>8. CASE b.mut # 0
    <3>1. b.mut = applied - Base + 1 /\ applied + 1 <= Len(file.recs)
      BY <1>16, <2>8, NextMutation
    <3>2. ASSUME NEW i \in 1..Len(batch), batch[i].mut # 0, live
          PROVE  i < next + 1 <=> batch[i].mut <= applied + 1 - Base
      <4> DEFINE m == batch[i].mut
      <4> DEFINE d == applied - Base
      <4>1. i < next <=> m <= d
        BY <2>1, <3>2 DEF LogOK
      <4>2. i > next => m > b.mut
        BY <2>1, <2>8, <3>2 DEF BatchOK
      <4>3. i = next => m = b.mut
        OBVIOUS
      <4>4. /\ m \in Int /\ d \in Int /\ i \in Int /\ next \in Int
            /\ applied + 1 - Base = d + 1
        <5>1. applied \in Int /\ Base \in Int
          BY <1>0, <2>5
        <5>2. i \in Int /\ next \in Int
          BY <1>0, <2>1
        <5>3. m \in Int
          BY <2>6
        <5> HIDE DEF b, m
        <5> QED BY <5>1, <5>2, <5>3
      <4>5. b.mut = d + 1
        BY <3>1
      <4> HIDE DEF b, m, d
      <4>6. i < next + 1 <=> m <= d + 1
        BY <4>1, <4>2, <4>3, <4>4, <4>5
      <4> QED BY <4>4, <4>6 DEF m
    <3>3. applied' = applied + 1
      BY <2>3, <2>8
    <3>4. live => /\ 0 <= Base /\ Base <= applied
                  /\ \A n \in 1..Len(muts) : file.recs[Base + n] = muts[n]
      BY <2>1 DEF LogOK
    <3>5. Base <= applied => Base <= applied + 1
      BY <1>0, <2>5
    <3>6. \A i \in 1..Len(batch') :
            batch'[i].mut # 0 /\ live => (i < next' <=> batch'[i].mut <= applied' - Base)
      <4> SUFFICES ASSUME NEW i \in 1..Len(batch), batch[i].mut # 0, live
                   PROVE  i < next' <=> batch[i].mut <= applied' - Base
        BY <2>4
      <4>1. i < next + 1 <=> batch[i].mut <= applied + 1 - Base
        BY <3>2
      <4>2. next' = next + 1
        BY <2>1
      <4>3. Base \in Int /\ batch[i].mut \in Nat /\ next \in Nat /\ i \in Nat
        BY <1>0, <2>1, <2>5, <2>6
      <4> QED BY <1>0, <3>3, <4>1, <4>2, <4>3
    <3> QED BY <2>1, <2>5, <3>1, <3>3, <3>4, <3>5, <3>6 DEF LogOK
  <2> QED BY <2>7, <2>8
<1>17. CASE Return
  <2>1. /\ phase = "apply" /\ phase' = "parse" /\ next > Len(batch)
        /\ UNCHANGED <<file, aof, applied>>
    BY <1>17 DEF Return, disk
  <2>2. ASSUME ~aof.failed PROVE applied = Len(file.recs)
    <3>1. CASE muts = <<>>
      <4>1. Len(muts) = 0
        BY <3>1, EmptySeq
      <4> QED BY <1>0, <2>1, <2>2, <4>1 DEF LogOK, Base
    <3>2. CASE muts # <<>>
      <4>1. Len(muts) \in 1..Len(muts)
        BY <1>0, <3>2, EmptySeq DEF TypeOK
      <4>2. PICK i \in 1..Len(batch) : batch[i].mut = Len(muts)
        BY <4>1 DEF BatchOK
      <4>3. i < next /\ batch[i].mut # 0
        BY <1>0, <2>1, <4>1, <4>2 DEF TypeOK
      <4>4. Len(muts) <= applied - Base
        BY <2>1, <2>2, <4>2, <4>3 DEF LogOK
      <4> QED BY <1>0, <4>4 DEF LogOK, Base
    <3> QED BY <3>1, <3>2
  <2> QED BY <2>1, <2>2 DEF LogOK
<1>18. CASE Restart
  BY <1>18 DEF Restart, LogOK
<1>19. CASE Tick
  BY <1>19 DEF Tick, LogOK, Base, disk, work
<1> QED
  BY <1>1, <1>2, <1>3, <1>4, <1>5, <1>6, <1>7, <1>8, <1>9, <1>10, <1>11, <1>12,
     <1>13, <1>14, <1>15, <1>16, <1>17, <1>18, <1>19 DEF Next, Service
=============================================================================
