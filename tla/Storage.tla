------------------------------- MODULE Storage ------------------------------
(***************************************************************************)
(* The storage service: CacheService (KVCache/include/cache_service.h) on  *)
(* top of AofLogger (KVCache/src/aof.cpp), the sharded cache, a file that  *)
(* survives the process, and the crashes and I/O errors between any two    *)
(* steps.                                                                  *)
(*                                                                         *)
(* HandleBatch and Compact hold the service mutex from start to end, so    *)
(* one thread of control, phase, walks through them:                       *)
(*   down     no process; the file is all there is                         *)
(*   replay   the constructor replays the log into the cache               *)
(*   parse    idle, or reading the requests of a batch                     *)
(*   snapshot CompactLocked collects the live entries                      *)
(*   rewrite  AofLogger::rewrite up to and including rename                *)
(*   syncdir  the rename is visible but not yet on stable storage          *)
(*   log      AofLogger::logBatch is entered                               *)
(*   write    its records are being written, then synced                   *)
(*   apply    the batch is applied to the cache, request by request        *)
(***************************************************************************)
EXTENDS ShardedCache

CONSTANTS
  NoKey,           \* the key of a record that is no mutation
  EmptyValue,      \* the empty string, GET's answer for a missing key
  MaxBytes,        \* max_bytes_, the limit on the log
  HeaderBytes,     \* HEADER_SIZE
  WrapperBytes,    \* magic, length and checksum of a version-2 record
  TtlBytes,        \* what a time to live adds to a record's value
  Workload,        \* requests clients send
  MaxTtl,          \* the longest time to live the service accepts
  MaxBatch,        \* requests one batch may hold
  MaxTime,         \* bound on the clock
  InitialLogs,     \* logs a server may be started on
  Crashes          \* subset of {"kill", "power"}

VARIABLES
  file,            \* what the log's name denotes: [recs, synced]
  prior,           \* {f}: after a power loss the name may still denote f
  aof,             \* AofLogger: [bytes, rewritten, failed]
  phase,
  failed,          \* CacheService::failed_
  batch,           \* requests, each with its reply
  muts,            \* the batch's mutations
  written,         \* how many of muts were written
  next,            \* the next request of the batch to apply
  image,           \* the snapshot being collected
  scan,            \* the next entry to collect: [shard, pos]
  cache,           \* cache_
  applied,         \* how many records of file the cache reflects
  now,             \* UnixMilliseconds()
  owed             \* auxiliary: what each key's newest record may be

disk == <<file, prior>>
work == <<batch, muts, written, next>>
compaction == <<image, scan>>
vars == <<disk, aof, phase, failed, work, compaction, cache, applied, now, owed>>

\* A log record.  DEL carries no value; an expiry of 0 means SET.  fmt 1 is
\* the record without checksum that replay still reads, 2 the one written.
Record ==
  [key : Keys, value : Values \cup {NoValue}, expires : Nat, fmt : {1, 2}]

\* The bytes of a record whose writing was cut short, and no record at all.
Torn == [key |-> NoKey, value |-> NoValue, expires |-> 0, fmt |-> 0]
NoRecord == [key |-> NoKey, value |-> NoValue, expires |-> 0, fmt |-> 3]

\* A log on disk: its records, and how many are on stable storage.
LogFile == [recs : Seq(Record \cup {Torn}), synced : Nat]

Request ==
  [cmd : {"SET", "SET_TTL", "DEL", "GET", "LOOKUP", "STATS", "INVALID", "PARTIAL"},
   key : Keys, value : Values \cup {NoValue}, ttl : Nat]

\* A request of a batch and, once it is answered, its reply.
Entered ==
  [cmd : {r.cmd : r \in Workload}, key : Keys,
   reply : {"todo", "skip", "close", "value", "lookup", "done"},
   value : Values \cup {NoValue, EmptyValue}, mut : Nat]

ASSUME StorageAssumption ==
  /\ NoKey \notin Keys
  /\ MaxBytes \in Nat
  /\ MaxBatch \in Nat
  /\ MaxTime \in Nat
  /\ HeaderBytes \in Nat
  /\ WrapperBytes \in Nat
  /\ TtlBytes \in Nat
  /\ MaxTtl \in Nat
  /\ Crashes \subseteq {"kill", "power"}
  /\ \A r \in Workload :
       r \in Request /\ (r.cmd \in {"SET", "SET_TTL"} <=> r.value # NoValue)
  /\ InitialLogs \subseteq Seq(Record)
-----------------------------------------------------------------------------
\* Encode(m).size().  A torn tail is part of a record there was room for; the
\* process that sees it appends nothing, so it counts for nothing.
RecordBytes(m) ==
  IF m = Torn THEN 0
  ELSE (IF m.fmt = 2 THEN WrapperBytes ELSE 0) + HeaderBytes + KeyBytes[m.key]
       + (IF m.value = NoValue THEN 0 ELSE ValueBytes[m.value])
       + (IF m.expires = 0 THEN 0 ELSE TtlBytes)

Size(recs) == SumFunction([i \in DOMAIN recs |-> RecordBytes(recs[i])])

\* What a batch or a rewrite may add to the log.
Room == MaxBytes - aof.bytes

needsRewrite ==
  /\ muts # <<>>
  /\ \/ Size(muts) > Room
     \/ aof.bytes > MaxBytes \div 2 /\ aof.bytes - aof.rewritten > MaxBytes \div 4

\* The newest record of a key in a log.
Newest(recs, key) ==
  LET at == {i \in DOMAIN recs : recs[i].key = key}
  IN  IF at = {} THEN NoRecord ELSE recs[Max(at)]

\* The service's state before its constructor and after its process died.
NoProcess ==
  /\ aof' = [bytes |-> 0, rewritten |-> 0, failed |-> FALSE]
  /\ phase' = "down"
  /\ failed' = FALSE
  /\ batch' = <<>> /\ muts' = <<>> /\ written' = 0 /\ next' = 1
  /\ image' = <<>> /\ scan' = [shard |-> 0, pos |-> 0]
  /\ cache' = EmptyCache
  /\ applied' = 0

Init ==
  /\ \E recs \in InitialLogs : file = [recs |-> recs, synced |-> Len(recs)]
  /\ prior = {}
  /\ aof = [bytes |-> 0, rewritten |-> 0, failed |-> FALSE]
  /\ phase = "down"
  /\ failed = FALSE
  /\ batch = <<>> /\ muts = <<>> /\ written = 0 /\ next = 1
  /\ image = <<>> /\ scan = [shard |-> 0, pos |-> 0]
  /\ cache = EmptyCache
  /\ applied = 0
  /\ now = 1
  /\ owed = [k \in Keys |-> {Newest(file.recs, k)}]
-----------------------------------------------------------------------------
(* Start-up: the AofLogger constructor, replay and start.                  *)

\* The directory is synced before anything is read, so the name can no
\* longer go back to an older file.
Restart ==
  /\ phase = "down"
  /\ Size(file.recs) <= MaxBytes
  /\ prior' = {}
  /\ aof' = [aof EXCEPT !.bytes = Size(file.recs)]
  /\ phase' = "replay"
  /\ UNCHANGED <<file, failed, work, compaction, cache, applied, now, owed>>

\* One record of replay() and the callback that applies it.
ReplayRecord ==
  /\ phase = "replay" /\ applied < Len(file.recs)
  /\ LET m == file.recs[applied + 1]
     IN  /\ m # Torn
         /\ m.value # NoValue => canStore(m.key, m.value)
         /\ cache' = IF m.value = NoValue
                     THEN CacheRemove(cache, m.key)
                     ELSE CachePut(cache, m.key, m.value, m.expires, now)
  /\ applied' = applied + 1
  /\ UNCHANGED <<disk, aof, phase, failed, work, compaction, now, owed>>

\* A truncated record, or one too large for its shard, ends the process.
ReplayRefuses ==
  /\ phase = "replay" /\ applied < Len(file.recs)
  /\ LET m == file.recs[applied + 1]
     IN  m = Torn \/ (m.value # NoValue /\ ~canStore(m.key, m.value))
  /\ NoProcess
  /\ UNCHANGED <<disk, now, owed>>

\* Mutant: a torn record at the end of the log is tolerated.
ReplayToleratesTail ==
  /\ phase = "replay"
  /\ \/ applied = Len(file.recs)
     \/ applied + 1 = Len(file.recs) /\ file.recs[applied + 1] = Torn
  /\ phase' = "parse"
  /\ UNCHANGED <<disk, aof, failed, work, compaction, cache, applied, now, owed>>

\* aof_.start(): the service is open for requests.
ReplayDone ==
  /\ phase = "replay" /\ applied = Len(file.recs)
  /\ phase' = "parse"
  /\ UNCHANGED <<disk, aof, failed, work, compaction, cache, applied, now, owed>>
-----------------------------------------------------------------------------
(* HandleBatch: reading the requests.                                      *)

Valid(r) ==
  /\ r.cmd # "INVALID"
  /\ r.cmd = "SET_TTL" => r.ttl \in 1..MaxTtl
  /\ r.cmd \in {"SET", "SET_TTL"} => canStore(r.key, r.value)

IsMutation(r) == r.cmd \in {"SET", "SET_TTL", "DEL"}

Expires(r) == IF r.cmd = "SET_TTL" THEN now + r.ttl ELSE 0

ToRecord(key, value, expires) ==
  [key |-> key, value |-> value, expires |-> expires, fmt |-> 2]

\* A request waits ("todo") unless it is incomplete ("skip": no reply, the
\* connection stays) or invalid ("close").  mut is its place in muts.
ParseRequest(r) ==
  /\ phase = "parse" /\ ~failed /\ Len(batch) < MaxBatch
  /\ LET reply == IF r.cmd = "PARTIAL" THEN "skip"
                  ELSE IF Valid(r) THEN "todo" ELSE "close"
         logged == reply = "todo" /\ IsMutation(r)
     IN  /\ muts' = IF logged
                    THEN Append(muts, ToRecord(r.key, r.value, Expires(r)))
                    ELSE muts
         /\ batch' = Append(batch,
              [cmd |-> r.cmd, key |-> r.key, reply |-> reply, value |-> NoValue,
               mut |-> IF logged THEN Len(muts) + 1 ELSE 0])
  /\ UNCHANGED <<disk, aof, phase, failed, written, next, compaction, cache,
                 applied, now, owed>>

\* Mutant: the oldest entry of each shard is passed over.
ScanFromSecond(s) ==
  [shard |-> s, pos |-> IF cache[s].items = <<>> THEN 0 ELSE Len(cache[s].items) - 1]

\* Where the snapshot of a shard starts: at its oldest entry.
ScanFrom(s) == [shard |-> s, pos |-> Len(cache[s].items)]

BeginCommit ==
  /\ phase = "parse" /\ batch # <<>>
  /\ IF needsRewrite THEN phase' = "snapshot" /\ scan' = ScanFrom(0)
                     ELSE phase' = "log" /\ scan' = scan
  /\ UNCHANGED <<disk, aof, failed, work, image, cache, applied, now, owed>>

\* Mutant: every exception of a batch poisons the service.
ThrowPoisons(capacity) ==
  /\ phase' = "parse"
  /\ failed' = (failed \/ batch # <<>>)
  /\ batch' = <<>> /\ muts' = <<>> /\ written' = 0 /\ next' = 1
  /\ image' = <<>> /\ scan' = [shard |-> 0, pos |-> 0]

\* Mutant: the service goes on after an I/O error.
ThrowForgives(capacity) ==
  /\ phase' = "parse"
  /\ failed' = failed
  /\ batch' = <<>> /\ muts' = <<>> /\ written' = 0 /\ next' = 1
  /\ image' = <<>> /\ scan' = [shard |-> 0, pos |-> 0]

\* Leave HandleBatch, or Compact when there is no batch, by an exception.
\* All requests of the batch are closed.  Only HandleBatch poisons the
\* service, and not for an AofCapacityError.
Throw(capacity) ==
  /\ phase' = "parse"
  /\ failed' = (failed \/ (batch # <<>> /\ ~capacity))
  /\ batch' = <<>> /\ muts' = <<>> /\ written' = 0 /\ next' = 1
  /\ image' = <<>> /\ scan' = [shard |-> 0, pos |-> 0]
-----------------------------------------------------------------------------
(* CompactLocked and AofLogger::rewrite.                                   *)

\* CacheService::Compact, called by another thread between two batches.
Compact ==
  /\ phase = "parse" /\ batch = <<>>
  /\ phase' = "snapshot"
  /\ scan' = ScanFrom(0)
  /\ UNCHANGED <<disk, aof, failed, work, image, cache, applied, now, owed>>

\* The mutation CompactLocked writes for an entry.
SnapshotRecord(e) == ToRecord(e.key, e.value, e.expires)

\* One entry of the loops in ShardedCache::snapshot and LRUCache::snapshot.
SnapshotEntry ==
  /\ phase = "snapshot" /\ scan.pos > 0
  /\ LET e == cache[scan.shard].items[scan.pos]
     IN  image' = IF Expired(e, now) THEN image ELSE Append(image, SnapshotRecord(e))
  /\ scan' = [scan EXCEPT !.pos = @ - 1]
  /\ UNCHANGED <<disk, aof, phase, failed, work, cache, applied, now, owed>>

SnapshotShardDone ==
  /\ phase = "snapshot" /\ scan.pos = 0
  /\ IF scan.shard + 1 \in Shards
     THEN scan' = ScanFrom(scan.shard + 1) /\ phase' = phase
     ELSE scan' = scan /\ phase' = "rewrite"
  /\ UNCHANGED <<disk, aof, failed, work, image, cache, applied, now, owed>>

\* Mutant: the size of the snapshot is not checked.
AnySize == TRUE

\* rewrite()'s own capacity check.
SnapshotHasRoom == Size(image) <= MaxBytes

\* rewrite() throws and leaves the old log in place: the log failed before,
\* the snapshot is too large, or the replacement could not be made.
RewriteThrows(capacity) ==
  /\ phase = "rewrite"
  /\ capacity => ~aof.failed /\ ~SnapshotHasRoom
  /\ ~capacity => aof.failed \/ SnapshotHasRoom
  /\ Throw(capacity)
  /\ UNCHANGED <<disk, aof, cache, applied, now, owed>>

Replacement == [recs |-> image, synced |-> Len(image)]

\* The replacement is written and synced before it takes the log's name.
\* The records it leaves out may be gone from now on.
RewriteRename ==
  /\ phase = "rewrite" /\ ~aof.failed /\ SnapshotHasRoom
  /\ prior' = {file}
  /\ file' = Replacement
  /\ aof' = [aof EXCEPT !.bytes = Size(image), !.rewritten = Size(image)]
  /\ applied' = Len(image)
  /\ phase' = "syncdir"
  /\ owed' = [k \in Keys |-> IF Newest(image, k) = NoRecord
                             THEN owed[k] \cup {NoRecord} ELSE owed[k]]
  /\ UNCHANGED <<failed, work, compaction, cache, now>>

\* Mutant: the snapshot is not dropped after its use.
SyncDirectoryKeepsImage ==
  /\ phase = "syncdir"
  /\ prior' = {}
  /\ phase' = IF batch = <<>> THEN "parse" ELSE "log"
  /\ UNCHANGED <<file, aof, failed, work, compaction, cache, applied, now, owed>>

SyncDirectory ==
  /\ phase = "syncdir"
  /\ prior' = {}
  /\ phase' = IF batch = <<>> THEN "parse" ELSE "log"
  /\ image' = <<>> /\ scan' = [shard |-> 0, pos |-> 0]
  /\ UNCHANGED <<file, aof, failed, work, cache, applied, now, owed>>

\* Mutant: the log stays in use.
SyncDirectoryErrorIgnored ==
  /\ phase = "syncdir"
  /\ Throw(FALSE)
  /\ UNCHANGED <<disk, aof, cache, applied, now, owed>>

\* The name may not have moved on stable storage: the log is given up.
SyncDirectoryFails ==
  /\ phase = "syncdir"
  /\ aof' = [aof EXCEPT !.failed = TRUE]
  /\ Throw(FALSE)
  /\ UNCHANGED <<disk, cache, applied, now, owed>>
-----------------------------------------------------------------------------
(* AofLogger::logBatch.                                                    *)

LogBatch ==
  /\ phase = "log"
  /\ \/ muts = <<>> /\ phase' = "apply"
     \/ muts # <<>> /\ ~aof.failed /\ Size(muts) <= Room /\ phase' = "write"
  /\ UNCHANGED <<disk, aof, failed, work, compaction, cache, applied, now, owed>>

LogBatchThrows(capacity) ==
  /\ phase = "log" /\ muts # <<>>
  /\ aof.failed \/ Size(muts) > Room
  /\ capacity = ~aof.failed
  /\ Throw(capacity)
  /\ UNCHANGED <<disk, aof, cache, applied, now, owed>>

WriteRecord ==
  /\ phase = "write" /\ written < Len(muts)
  /\ LET m == muts[written + 1]
     IN  /\ file' = [file EXCEPT !.recs = Append(@, m)]
         /\ owed' = [owed EXCEPT ![m.key] = @ \cup {m}]
  /\ written' = written + 1
  /\ UNCHANGED <<prior, aof, phase, failed, batch, muts, next, compaction, cache,
                 applied, now>>

\* A write may stop anywhere: between two records or inside one.
Tearings ==
  {file} \cup (IF phase = "write" /\ written < Len(muts)
               THEN {[file EXCEPT !.recs = Append(@, Torn)]} ELSE {})

\* WriteExact or, once all is written, Sync fails.
WriteFails ==
  /\ phase = "write"
  /\ file' \in Tearings
  /\ aof' = [aof EXCEPT !.failed = TRUE]
  /\ Throw(FALSE)
  /\ UNCHANGED <<prior, cache, applied, now, owed>>

\* Mutant: logBatch() returns without fsync.
SyncLogSkipped ==
  /\ phase = "write" /\ written = Len(muts)
  /\ aof' = [aof EXCEPT !.bytes = @ + Size(muts)]
  /\ phase' = "apply"
  /\ UNCHANGED <<disk, failed, work, compaction, cache, applied, now, owed>>

SyncLog ==
  /\ phase = "write" /\ written = Len(muts)
  /\ file' = [file EXCEPT !.synced = Len(file.recs)]
  /\ aof' = [aof EXCEPT !.bytes = @ + Size(muts)]
  /\ phase' = "apply"
  /\ UNCHANGED <<prior, failed, work, compaction, cache, applied, now, owed>>
-----------------------------------------------------------------------------
(* HandleBatch: applying the batch and returning its replies.              *)

\* Mutant: a read is answered from the log, which is ahead of the cache.
AnswerFromLog(b) ==
  LET found == Newest(file.recs, b.key).value
  IN  IF b.cmd = "GET"
      THEN [b EXCEPT !.reply = "value",
                     !.value = IF found = NoValue THEN EmptyValue ELSE found]
      ELSE [b EXCEPT !.reply = IF b.cmd = "LOOKUP" THEN "lookup" ELSE "done",
                     !.value = IF b.cmd = "LOOKUP" THEN found ELSE NoValue]

\* The reply of one request.
Answer(b) ==
  LET hit == CacheLive(cache, b.key, now)
      found == IF hit = {} THEN NoValue ELSE (CHOOSE e \in hit : TRUE).value
  IN  IF b.cmd = "GET"
      THEN [b EXCEPT !.reply = "value",
                     !.value = IF found = NoValue THEN EmptyValue ELSE found]
      ELSE IF b.cmd = "LOOKUP"
      THEN [b EXCEPT !.reply = "lookup", !.value = found]
      ELSE [b EXCEPT !.reply = "done"]

ApplyRequest ==
  /\ phase = "apply" /\ next <= Len(batch)
  /\ LET b == batch[next]
         m == muts[b.mut]
     IN  IF b.reply # "todo"
         THEN UNCHANGED <<batch, cache, applied>>
         ELSE /\ batch' = [batch EXCEPT ![next] = Answer(b)]
              /\ applied' = IF b.mut = 0 THEN applied ELSE applied + 1
              /\ cache' = CASE b.cmd \in {"SET", "SET_TTL"} ->
                                 CachePut(cache, b.key, m.value, m.expires, now)
                            [] b.cmd = "DEL" -> CacheRemove(cache, b.key)
                            [] b.cmd \in {"GET", "LOOKUP"} ->
                                 CacheGet(cache, b.key, now)
                            [] OTHER -> cache
  /\ next' = next + 1
  /\ UNCHANGED <<disk, aof, phase, failed, muts, written, compaction, now, owed>>

\* The replies go out: from here on the batch's mutations are acknowledged.
Return ==
  /\ phase = "apply" /\ next > Len(batch)
  /\ phase' = "parse"
  /\ owed' = [k \in Keys |-> IF Newest(muts, k) = NoRecord
                             THEN owed[k] ELSE {Newest(muts, k)}]
  /\ batch' = <<>> /\ muts' = <<>> /\ written' = 0 /\ next' = 1
  /\ UNCHANGED <<disk, aof, failed, compaction, cache, applied, now>>
-----------------------------------------------------------------------------
(* The machine the service runs on.                                        *)

\* The process dies; what it wrote is still in the page cache.
Kill ==
  /\ "kill" \in Crashes /\ phase # "down"
  /\ file' \in Tearings
  /\ NoProcess
  /\ UNCHANGED <<prior, now, owed>>

\* The contents a file may come back with: what was synced and any part of
\* what was not.
Survivors(f) ==
  {SubSeq(f.recs, 1, n) : n \in f.synced..Len(f.recs)}
    \cup {Append(SubSeq(f.recs, 1, n), Torn) : n \in f.synced..(Len(f.recs) - 1)}

PowerLoss ==
  /\ "power" \in Crashes
  /\ \E f \in {file} \cup prior : \E recs \in Survivors(f) :
       file' = [recs |-> recs, synced |-> Len(recs)]
  /\ prior' = {}
  /\ NoProcess
  /\ UNCHANGED <<now, owed>>

Tick ==
  /\ now < MaxTime
  /\ now' = now + 1
  /\ UNCHANGED <<disk, aof, phase, failed, work, compaction, cache, applied, owed>>

Service ==
  \/ ReplayRecord \/ ReplayRefuses \/ ReplayDone
  \/ BeginCommit
  \/ SnapshotEntry \/ SnapshotShardDone
  \/ RewriteThrows(TRUE) \/ RewriteThrows(FALSE) \/ RewriteRename
  \/ SyncDirectory \/ SyncDirectoryFails
  \/ LogBatch \/ LogBatchThrows(TRUE) \/ LogBatchThrows(FALSE)
  \/ WriteRecord \/ WriteFails \/ SyncLog
  \/ ApplyRequest \/ Return

Next ==
  \/ Service
  \/ \E r \in Workload : ParseRequest(r)
  \/ Compact \/ Restart \/ Kill \/ PowerLoss \/ Tick

Spec == Init /\ [][Next]_vars
-----------------------------------------------------------------------------
IsAof(a) ==
  a \in [bytes : {a.bytes}, rewritten : {a.rewritten}, failed : BOOLEAN]

\* The state is well typed.  The counts of bytes are the subject of
\* LogWithinLimit and, for the cache, of CacheMachine.
TypeOK ==
  /\ file \in LogFile
  /\ prior \in SUBSET LogFile
  /\ IsAof(aof)
  /\ phase \in {"down", "replay", "parse", "snapshot", "rewrite", "syncdir",
                "log", "write", "apply"}
  /\ failed \in BOOLEAN
  /\ batch \in Seq(Entered)
  /\ muts \in Seq(Record)
  /\ written \in Nat /\ next \in Nat \ {0}
  /\ image \in Seq(Record)
  /\ scan \in [shard : Shards, pos : Nat]
  /\ cache = [s \in Shards |-> cache[s]]
  /\ \A s \in Shards : cache[s].items \in Seq(EntryType)
  /\ applied \in Nat
  /\ now \in Nat
  /\ owed \in [Keys -> SUBSET (Record \cup {NoRecord})]

\* The entries a read may return.
Resident ==
  {e \in UNION {ToSet(cache[s].items) : s \in Shards} : ~Expired(e, now)}

\* Among the first n records of a log the newest one of e's key is e's, and it
\* is one of the first m.
Backs(recs, m, n, e) ==
  \E i \in 1..m :
    /\ recs[i].key = e.key /\ recs[i].value = e.value /\ recs[i].expires = e.expires
    /\ \A j \in (i + 1)..n : recs[j].key # e.key

\* Whatever a read can return is the newest record of its key in the log, not
\* counting the records of a batch that are still to be applied.  So a process
\* that dies at any point, or a compaction, never brings an older value back.
VisibleInLog ==
  \A e \in Resident : Backs(file.recs, applied, applied, e)

\* "fsync completes before cache visibility and replies": once requests are
\* served that record is also on stable storage, in every file a power loss may
\* leave behind.
VisibleDurable ==
  phase # "replay" => \A e \in Resident :
    /\ Backs(file.recs, Min({applied, file.synced}), applied, e)
    /\ \A f \in prior : Backs(f.recs, f.synced, Len(f.recs), e)

\* What a key is after a restart on a log whose newest record of it is m.
Outcome(m) ==
  IF m.value = NoValue \/ Expired(m, now) THEN <<NoValue, 0>>
  ELSE <<m.value, m.expires>>

\* Every log a restart may find, now or after a crash.
Recoverable ==
  {file.recs} \cup (IF "power" \in Crashes
                    THEN UNION {Survivors(f) : f \in {file} \cup prior} ELSE {})

\* An acknowledged mutation survives every crash: the key comes back with it,
\* with a later mutation that was written but not acknowledged, or without a
\* value if a compaction found it evicted from the cache; never with an older
\* value.  That a compaction keeps resident entries is VisibleInLog.
AckedMutationsSurvive ==
  \A recs \in Recoverable, k \in Keys :
    Outcome(Newest(recs, k)) \in {Outcome(m) : m \in owed[k]}

\* A batch has the effect of its requests one after the other: a read answers
\* with the mutation of its key that precedes it in the batch, else with the
\* one logged before the batch, or misses.
BatchSerialOrder ==
  \A i \in DOMAIN batch :
    batch[i].reply \in {"value", "lookup"} =>
      LET earlier == {j \in 1..(i - 1) :
                        batch[j].mut # 0 /\ batch[j].key = batch[i].key}
          before == SubSeq(file.recs, 1, Len(file.recs) - Len(muts))
          m == IF earlier # {} THEN muts[batch[Max(earlier)].mut]
               ELSE Newest(before, batch[i].key)
      IN  batch[i].value \in
            {m.value, IF batch[i].reply = "value" THEN EmptyValue ELSE NoValue}

\* bytes_ stays the size of the file until a write fails, below the limit, and
\* above rewritten_at_: none of the unsigned subtractions of needsRewrite and
\* logBatch wraps, and no file grows too large to be opened again.
LogWithinLimit ==
  /\ Size(file.recs) <= MaxBytes
  /\ aof.rewritten <= aof.bytes /\ aof.bytes <= MaxBytes
  /\ phase \notin {"down", "write"} /\ ~aof.failed => aof.bytes = Size(file.recs)

\* A snapshot of a log of version-2 records is no larger than the log, so
\* compaction never fails for lack of room.
SnapshotFits ==
  phase = "rewrite" /\ ~aof.failed /\ (\A i \in DOMAIN file.recs : file.recs[i].fmt = 2)
    => Size(image) <= aof.bytes

\* Once a record is torn nothing is written behind it, by this process or by
\* one started later, where replay would not reach it.
NothingBehindTorn ==
  \A i \in DOMAIN file.recs : file.recs[i] = Torn => i = Len(file.recs)

\* A batch or snapshot without room is rejected without making the service
\* unavailable: only an I/O error does that.
CapacityErrorsDoNotPoison ==
  [][~failed /\ failed' =>
       \/ phase \in {"write", "syncdir"}
       \/ aof.failed
       \/ phase = "rewrite" /\ Size(image) <= MaxBytes]_vars

\* A batch is served by a cache that reflects every record of the log but the
\* batch's own.  A write that failed may have left records in the log that the
\* cache never saw: after it no request is served, until a restart replays them.
AnswersReflectLog ==
  batch # <<>> /\ (phase \notin {"write", "apply"} \/ muts = <<>>) =>
    applied = Len(file.recs)
=============================================================================
