# A TLA+ development for KVRPC

TLA+ models of KVRPC's key-value storage, its client transport, its server and
the threading primitives under them, translated from the C++ sources; TLC runs
that check them on small instances; an abstract store that the storage service is
shown to implement; and TLAPS proofs, for every instance, about the storage
service, the executor, the connection pool and the receive buffer.

## 1. The system

| Part | Source | What it does |
|---|---|---|
| `LruCache` | `KVCache/include/lru_cache.h` | one shard: recency list, byte accounting, expiry, snapshot |
| `ShardedCache` | `KVCache/include/sharded_cache.h` | splits the budgets over shards, routes keys |
| `AofLogger` | `KVCache/src/aof.cpp` | append-only log: batch append and fsync, replay, atomic rewrite |
| `CacheService` | `KVCache/include/cache_service.h` | one serial order of requests: log a batch, then apply it |
| `AsyncTransport` | `src/async_transport.cpp` | client side: admission, multiplexing over connections, deadlines |
| `TcpServer` | `src/tcp_server.cpp` | acceptor, I/O threads, bounded queue, workers, shutdown |
| `EventLoop` | `src/event_loop.cpp` | edge-triggered reactor: tasks, watches, timers |
| `Executor` | `include/kvrpc/executor.h` | bounded thread pool |
| `ConnectionPool`, `TcpConnection` | `include/kvrpc/connection_pool.h`, `src/tcp_connection.cpp` | leases of blocking connections |
| `RpcServer`, `RpcClient`, `KVCacheClient` | `include/kvrpc/*.h` | method lookup, typed calls and their completions |
| wire formats, `Buffer` | `rpc_protocol.h`, `kv_protocol.h`, `protocol.h`, `buffer.h` | headers, frame sizes, typed values, received bytes |

How they interact: a client call is admitted by `AsyncTransport`, whose loop
thread sends it on one of its connections. `TcpServer`'s I/O thread cuts frames
out of the input and queues them; a worker handles a frame, or a batch of them,
with `RpcServer::Dispatch` or `CacheService::HandleBatch`, and posts the reply
back to the I/O thread. `HandleBatch` writes and syncs the log before it touches
the cache. Transport and server both run on `EventLoop`. `Executor` and
`ConnectionPool` stand alone.

Threads meet at few places, and these are what the models are about: the service
mutex, the admission mutex, the server's queue, the loop's task queue with its
eventfd, two condition variables, and the file that outlives the process.

## 2. Modules

| Module | Models | State | Actions |
|---|---|---|---|
| `LruCache`, `ShardedCache` | the caches, as operators | `[items, bytes]` per shard, newest first | - |
| `CacheMachine` | any sequence of cache calls | `cache`, the clock, the true order of use | one per call, and the clock |
| `Storage` | `CacheService` on `AofLogger`, the file, crashes | `file` and `prior` (what a power loss may leave), `aof`, `phase`, `batch`, `muts`, `cache`, ... | one per step at which the process may fail or die |
| `Store` | what the storage service promises | `view` (what reads return), `kept`, `owed`, the clock | record, apply, acknowledge, forget, crash, recover |
| `StorageRefinement` | `Storage` as an implementation of `Store` | - | - |
| `AsyncTransport` | the transport and its server | admission, `tasks`, `requests`, `conn`, `at` (where the loop thread is), `wire` | `Submit*`, `RunTask`, deadlines, the steps of `Pump` and `Dispatch`, `~Impl` |
| `TcpServer` | the server and its clients | `net`, `peer`, `backlog`, `io`, `jobs`, `worker`, `phase` | acceptor, tasks, the steps of `Pump`, workers, `Run` and `stop` |
| `EventLoop` | the reactor on epoll and an eventfd | the members, the local variables of `Run`, the ready list | each step of `Post`, `Stop` and `Run`, each operation a callback may call |
| `Executor`, `ConnectionPool` | the pools | queue or stack, where each thread is | the critical sections and the notifications |
| `Wire` | the two protocols, typed values and `Buffer`, as operators over bytes | a buffer is `[bytes, read]` | - |
| `Session` | composition: a client and a server of one protocol over a byte stream | `calls`, `link`, `up` and `down` (bytes under way), both ends' buffers, jobs with the workers | a call, a receive of any length at either end, a handler's completion, a close, a break |
| `MCCache`, `MCStorage`, `MCTransport`, `MCServer`, `MCSession` | instances for TLC; `EventLoop` is checked as it is | - | - |
| `MCHelpers` | one run of `Executor` or of `ConnectionPool` | both | both |
| `CacheProofs`, `StorageInduction`, `StorageLogProofs`, `StorageScanProofs`, `StorageProofs`, `ExecutorProofs`, `PoolProofs`, `WireProofs` | proofs | - | - |

Operators keep the names of the functions they translate. Next to some
definitions stands a variant introduced by a comment "Mutant": what a plausible
slip in that code would make of it. Each property is known to fail under at
least one of them; `PROJECT.json` pairs them.

### What the models abstract

*Caches.* A shard's mutex makes each call one step. Hit and eviction counters
are left out. The wall clock does not run backwards.

*Storage.* The service mutex is held through `HandleBatch` and `Compact`, so one
thread of control, `phase`, walks through them, and every system call may fail
or be the last one of the process. A record is whole or torn; magic, length and
checksum are its size and its format, 1 or 2. `file.synced` counts the records
on stable storage; a power loss keeps these and any prefix of the others, and
until the directory is synced it may bring the file back that the rename
replaced (`prior`). A failed fsync leaves the records as they were: it neither
drops pages nor marks them clean. `owed` records, for each key, the mutations a
restart may come back with: it is the promise to clients, not a variable of the
code. Allocation failures are not modelled.

*Transport.* The server answers requests it received, or misbehaves as far as
`Faults` lets it: malformed frames, rejected payloads, closing, refusing
connections, silence. Whether the protocol has identifiers (`hasIds`) is chosen once.
A deadline may pass at any time; a request has its timer
exactly while it is in `requests`. Byte budgets become a choice ("budget"):
a loop of `Pump` may end early and schedule itself. The client is not destroyed
under a `Submit` that was admitted and has not yet posted its task, since
`docs/OPERATIONS.md:26` forbids submitting concurrently with destruction. Every
`Pump` ends in `Modify`, which re-arms the edge, so readiness is simply the
state of the socket.

*Server.* In `TcpServer` a frame is its number among those its client sends; its
content, and input without a frame sizer, are in `Session`. The queue is limited in
jobs and in bytes as in `Submit` (`queued` is `queued_bytes`), where a frame has a size
given by `FrameBytes`; output limits count replies instead of bytes. The limits (`options`) are chosen once,
before `start()`. The limit on
received bytes (`tcp_server.cpp:181`) and the checks of a reply's size and of what the
handler consumed (`224-225`, `227`) are in `Session`; here a reply that fails them is one the
handler refuses, 0. An exception may leave the loop of an I/O thread in `Mortal` at any
moment (`IoDies`). A half-closed connection with work under way may be woken
again and again by `EPOLLRDHUP`; these steps change nothing and are not shown.

*Event loop.* What a task or callback does is left open: any sequence of the
loop's operations. Failing epoll calls, which throw, are left out. The ready list
is epoll's: an edge puts a token at its end, `epoll_wait` takes at most
`MaxEvents` from its front.

*Pools.* Notifications wake a waiting thread or nobody; spurious wakeups, which
only add checks of the same predicate, are left out. The end of a wait by
timeout is a step that may happen at any time.

*Wire and session.* A header field is a number of `LengthBytes` or `IdBytes` digits
in base `Base`, where the code has 4 or 8 bytes: small numbers then fill a field
and have carries between its digits. Protobuf is external: a message of a given
size is that many bytes, which parse as it only all together. A type is a kind
with a range; kinds without a range (real numbers, messages) convert as strings
do and are left out. The handlers work on a fixed store (`Stored`) because what a
batch does to the cache is `Storage`'s subject. Each handler of a loop thread is
one step, and a worker's handler and the completion it posts are one step, since
nothing they share changes in between but the connection itself, which
`TcpServer` covers. Backpressure by output, deadlines and several connections are
left to `TcpServer` and `AsyncTransport`. `"raw"` is the KV service behind a
server without a sizer, a path `TcpServer` offers (`tcp_server.cpp:154`, `207-215`)
and both servers of the repository, which install one, do not take. Its client is
external and may send a request before the last one is answered, so that more than one
request stands in the buffer of which a worker has a copy.

## 3. Runs

`tlc -config X.cfg M` in this directory. The longest takes two to three minutes on
two cores.

| Run | Config | Question | States |
|---|---|---|---|
| `cache` | `MCCache` | are bytes accounted within the budgets, does eviction keep the most recent, does a snapshot restore the order? | 7,534 |
| `storage_crash` | `MCStorageCrash` | do acknowledged mutations, with their expiry, survive kills, power losses and I/O errors at any step; does the cache ever run ahead of the log; is every step one of `Store`? | 303,169 |
| `storage_mixed` | `MCStorageMixed` | with a log too small, old-format logs, every kind of request and power losses: do the limits hold, are batches serial, does the service stay available when room runs out and serve nothing more when a write failed? | 291,530 |
| `storage_unsynced_replay` | `MCStorageUnsynced` | **violated**: finding 1 | - |
| `transport_rpc` | `MCTransportRpc` | replies by identifier: is each call completed once, are the counters exact, are late replies recognised? | 208,856 |
| `transport_single` | `MCTransportSingle` | either protocol, one place, which a request that timed out may keep, and a server that may stay silent: is each reply its own, does nobody wait needlessly, does every call and the destructor return? | 58,474 |
| `server_rpc` | `MCServerRpc` | pipelining, half-close, backpressure, full queue and output, `stop()` and a dying I/O thread, with timeouts, errors and malformed input: is every request answered, and once; does `start()` return, with nothing left? | 69,642 |
| `server_kv` | `MCServerKv` | batches, three clients for two places, two I/O threads of which one may die: one reply each and in order, counts balanced across threads, no waiting connection forgotten, nothing left at the end? | 278,866 |
| `server_accept_error` | `MCServerAcceptError` | **violated**: finding 2 | - |
| `loop` | `EventLoop` | lost wakeups, order of tasks, stale events, cancelled timers, progress | 109,953 |
| `helpers` | `MCHelpers` | is admitted work drained and joined; is a lease exclusive and none lost; is a notification lost or a waiter forgotten? | 102,172 |
| `session` | `MCSession` | over a stream cut anywhere: are frames intact, does a call return what its own request means or fail for a reason, is none left waiting? | 209,024 |

`KeepsPromise` of `storage_crash` is the refinement: `StorageRefinement` maps what a
read returns, the newest record of each key in the log and what is owed to clients
to the variables of `Store`. A batch, a compaction, an eviction, a failed write, a
crash and a replay are each a step of that map or no step at all.

### Bounds

The bounds are the smallest at which the interesting cases happen, and every
action fires in some run.

- Cache: five keys over two shards with shares 2 and 1, so that eviction by count
  and by bytes, and several evictions by one put, occur.
- Storage: two keys for one place in the cache, so a logged key can be evicted and
  then compacted away; batches of two, so a read can stand before or after the
  mutation it must (not) see; one tick of the clock, after which a time to live of
  1 has passed; a log with room for a few records, so compaction is forced; in
  `storage_mixed` one so small that a batch or a snapshot does not fit.
- Transport: three requests of two sizes and two requests per connection, so one
  is retired, one in flight and one on the next connection or waiting; in
  `transport_single` two requests for one place, so one waits while the other
  connects, times out or fails, and, with identifiers, behind one that is retired and
  never answered. The identifiers of equal size are symmetric.
- Server: two frames against a high-water mark of one reply and a frame budget of
  one, so reading pauses and continuations are needed. `server_rpc` has one client;
  its queue takes one job, or two if they have no more than two bytes together, so the
  second frame, of two bytes, is refused by either limit, and with an output of one
  reply a completion may find it full. `server_kv` has three symmetric clients for two
  places, which send two frames between them and so fill the queue to the last byte,
  and an accept budget of one. One I/O thread is mortal: the only one of `server_rpc`,
  one of the two of `server_kv`. `CountsBalanced` is checked in `server_kv` only.
- Loop: a poster with two tasks beside the thread that stops the loop, whose `Stop`
  posts as well, and two identifiers on one descriptor: a watch and its successor.
- Pools: more threads than connections by two, more tasks than room.
- Session: three RPC calls with two in flight, so two are answered out of order
  while one waits; two calls of the KV client, which has one in flight, and two of the
  client of the server without a sizer, which has both; one break.
  The RPC client's limit is above the server's and the other way round, so requests
  and replies just fit or do not; so do arguments and results in their types, the
  values of the KV calls in the cache, and their frames in the client's limit.

Deadlock checking is off where the environment may have done all it is allowed
to do (all requests submitted, server stopped, loop returned); `cache` and the
storage runs check it, since a restart, a request or a call is always possible.

### Fairness

- *Transport*: weak for the steps of a callback that has begun and for callers
  inside `Submit` and the destructor. Strong for running the next task and for
  each request's deadline: `Run` serves all tasks and all due timers in each
  round, so other callbacks only delay them. The server is not assumed to do
  anything.
- *Server*: weak for the acceptor, the workers and `Run`; strong for tasks and
  ready descriptors for the same reason. Clients are assumed to read what they
  are sent (`SendReply`) and the network to deliver what they sent
  (`RecvFrame`); nothing is assumed about their sending.
- *Loop*: its thread runs, bodies return, and threads inside `Post` and `Stop`
  finish. Nothing is assumed about posters or descriptors.
- *Executor*: threads run, tasks return.

The other runs check safety only and assume no fairness.

## 4. Findings

1. **A replayed log is not synced** (`aof.cpp:85-104`, `184-228`; run
   `storage_unsynced_replay`). `cache_service.h:10` promises that "fsync completes
   before cache visibility and replies". After a kill between `write` and `fsync`
   the record is in the page cache only; the next process replays it, serves it,
   and a power loss then takes it back. What is served is always in the log
   (`VisibleInLog`), and acknowledged mutations survive in all cases.
2. **An accept error strands waiting connections** (`tcp_server.cpp:307-313`; run
   `server_accept_error`). Reaching the budget posts a continuation, which
   `docs/ARCHITECTURE.md:20` says "preserves ET progress"; an error of `accept4`
   other than `EINTR` returns without one, also when connections still wait, and
   no edge comes until another client connects.

## 5. Proofs

`tlapm M.tla` checks a module. All results are for arbitrary constants that satisfy
the module's assumption.

### Storage

From `CacheAssumption` and `StorageAssumption`: any finite or infinite workload, any
number of shards, any sizes and limits, any initial log, any crash model.

- `StorageProofs!TypeCorrect`: `Spec => []TypeOK`.
- `StorageProofs!ServesOnlyLogged`: `Spec => []VisibleInLog`. What a read can
  return is the newest record of its key among those the cache reflects, so
  neither a restart nor a compaction brings back an older value.
- `StorageProofs!TornStaysLast`: `Spec => []NothingBehindTorn`.
- `StorageProofs!ServesWholeLog`: `Spec => []AnswersReflectLog`. A batch is served by a
  cache that reflects all of the log but the batch's own records: after a failed write,
  whose records may be in the log and not in the cache, nothing more is served.

They follow from `Invariance`, `Spec => []IInv`, with
`IInv == TypeOK /\ CacheWF(cache) /\ PhaseOK /\ BatchOK /\ LogOK /\ ScanOK /\ TornOK
/\ VisibleInLog`. `VisibleInLog` alone is not inductive:

- applying a mutation keeps it only if the next record of the log is that very
  mutation. `LogOK` ties the tail of the log to `muts` and to how far the batch is
  applied, and needs `BatchOK`: mutations are numbered in request order;
- putting the snapshot in place of the log keeps it only if the snapshot has
  exactly one record for each live entry. `ScanOK` states that of the part the
  loop is past, while the clock may expire entries behind and before it;
- a put must change the entries of one key and at most drop others. `CacheWF`
  (keys are unique, and in the shard of their hash) and the lemmas of
  `CacheProofs` on `put`, `get`, `remove` and `Evict` give that;
- a failed append leaves a torn tail, and `TornOK` says no process goes on with
  such a log.

`ServesWholeLog` needs `ServingOK` on top of `IInv`: while `failed_` is not set and no
batch is being written or applied, the cache has caught up with the log, and a batch is
open only while `failed_` is not set. Among the failures only that of a write leaves the
cache behind, and it happens with a batch, so it sets `failed_`; one in `Compact`, which
does not, leaves log and cache equal.

`StorageInduction` defines `IInv` and proves types and `CacheWF`,
`StorageLogProofs` `PhaseOK`, `BatchOK` and `LogOK`, `StorageScanProofs` `ScanOK`
and `TornOK`, `StorageProofs` `VisibleInLog` and the theorems.

### Executor and pool

- `ExecutorProofs!Drains`: `Spec => []DestructionDrains`, and `NotificationsReach`:
  `Spec => []NoLostNotification`, for any finite tasks and workers, any capacity. The
  inductive invariant places every admitted task exactly once: in the queue, with
  one worker, or run; a worker that left did so with the queue empty and stopping,
  after which nothing is pushed.
- `PoolProofs!LeasesExclusive`: `PoolSpec => []LeasedOnce`, and `WakeupsReach`:
  `PoolSpec => []WaitersAreTold`, for any finite sets of threads and connections.
  `OnePlace` (a connection is at one index of the stack or with one thread) is
  inductive together with `LeaseOK` (a thread has a connection just while its place
  in the code says so); `NoneLost` adds that none is missing before `Close`.
  `WaitersAreTold` counts: a taken connection costs at most one woken thread, and a
  returned one wakes one if any waits.

### Buffer

`WireProofs!AppendAddsBytes` and `ConsumeDropsBytes`: `Buffer` is a queue of bytes.
What is left to read after `append` is what there was and the new bytes, and after
`consume` what there was without its first bytes, whether or not the call compacts
or clears the vector. `FramesIntact` rests on that.

### Only model-checked

Every liveness property, since fairness is out of the prover's reach; properties
that sum bytes (`Accounting`, `LogWithinLimit`, `SnapshotFits`), since the sums are
folds and need induction over data, as does what the headers' digits denote;
`AckedMutationsSurvive`, `KeepsPromise`, `BatchSerialOrder`; and everything about
transport, server, loop and session.

## 6. Not modelled

- `serializer.h`: the encoding of the first protocol. Sequential code that no part
  of the system calls any more.
- The waits inside `TcpConnection`: `ConnectionPool` sees them as calls that succeed
  or fail after any time.
- `main.cpp` beyond the frame sizer and the handlers it installs: reading the
  configuration, and a signal thread whose one call of `stop()` is an action of
  `TcpServer` at any moment.
- Lock files, checksums and statistics of the log; failures of `listen`, of starting
  threads and of epoll calls other than by the death of an I/O thread.
- Benchmarks, examples, the generated protocol buffers and the copy of libsupc++.

Where the proofs would go next: `AckedMutationsSurvive` on top of `IInv`, and from
both the refinement of `Store`; `NoLostWakeup` and `NoStaleEvent` of `EventLoop`;
`CompletedOnce` and `Correlated` of the transport.
