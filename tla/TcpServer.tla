----------------------------- MODULE TcpServer ------------------------------
(***************************************************************************)
(* The server: an acceptor hands connections to I/O threads, which read    *)
(* frames and queue them as jobs; workers handle jobs and post the replies *)
(* back to the I/O thread of their connection; stop() may come at any      *)
(* time.  A frame is its number among the frames its client sends, a reply *)
(* the number of the frame it answers.  Deadlines may pass at any time.    *)
(* The servers of this repository frame their input: sizer_ is set.        *)
(***************************************************************************)
EXTENDS Integers, Sequences, FiniteSets, SequencesExt, FiniteSetsExt

CONSTANTS Conns,           \* clients, one connection each
          NumIo,           \* options_.io_threads
          Workers,         \* options_.workers; one with a batch handler
          Batch,           \* a batch handler is set
          MaxBatch,        \* jobs per batch
          Pipeline,        \* options_.pipeline
          Options,         \* what options may be
          FrameBytes,      \* the size of a client's first, second, ... frame
          MaxConnections,  \* max_connections_
          HighWater,       \* replies that are options_.output_bytes / 2
          AcceptBudget,    \* accepts per callback
          FrameBudget,     \* frames per Pump
          MaxFrames,       \* bound: frames that are sent
          Faults,          \* "error": a socket fails, "timeout": a deadline passes,
                           \* "malformed": a frame is rejected, "throw": a handler
                           \* throws or refuses, "budget": more is moved than Pump does at
                           \* once, "accept": accept4 fails, "stop": stop() is
                           \* called, "halfclose": clients end their sending side
          Mortal           \* bound: the I/O threads whose loop an exception may leave

ASSUME ServerAssumption ==
  /\ {NumIo, MaxBatch, Pipeline, MaxConnections, HighWater, AcceptBudget,
      FrameBudget} \subseteq Nat \ {0}
  /\ Options \subseteq
       [queue_capacity : Nat \ {0}, queue_bytes : Nat \ {0}, output_bytes : Nat \ {0}]
  /\ MaxFrames \in Nat /\ FrameBytes \in [1 .. MaxFrames -> Nat \ {0}]
  /\ Batch \in BOOLEAN /\ \A o \in Options : HighWater <= o.output_bytes
  /\ IsFiniteSet(Conns) /\ IsFiniteSet(Workers) /\ Mortal \subseteq 0 .. NumIo - 1
  /\ Faults \subseteq {"error", "timeout", "malformed", "throw", "budget", "accept",
                 "stop", "halfclose"}

VARIABLES
  options,   \* options_, chosen before start(); its output_bytes counts replies
  net,       \* the clients' ends of the connections
  peer,      \* the server's ends
  backlog, edge,        \* the listener: its queue, and whether epoll has news of it
  acceptor,  \* the accept loop: idle, or accepting with a budget; posted continuation
  active, turn,         \* active_, and the I/O thread that is next
  io,        \* the I/O threads: posted tasks, where in Pump, how Run ended
  jobs, queued, closing,   \* what Runtime::mutex guards; queued is queued_bytes
  worker,    \* the workers
  phase,     \* where start() is
  stopper    \* where stop() is

vars == <<options, net, peer, backlog, edge, acceptor, active, turn, io, jobs, queued,
          closing, worker, phase, stopper>>
queue == <<jobs, queued>>
listening == <<backlog, edge, acceptor, turn>>
running == <<options, closing, phase, stopper>>

Ios == 0 .. NumIo - 1
Limit == IF Batch THEN 1 ELSE Pipeline
NoConn == "none"

\* closed: by an error, a deadline, a limit or the shutdown; served: by the
\* server because the client had half-closed and was owed nothing more.
Gone == {"closed", "served"}
Absent == [st |-> "absent", io |-> 0, input |-> <<>>, output |-> <<>>, pending |-> 0,
           eof |-> FALSE, scheduled |-> FALSE, reading |-> FALSE, writing |-> FALSE]
Resting == [op |-> "idle", conn |-> NoConn, reads |-> FALSE, frames |-> 0]

Task(kind, c) == [kind |-> kind, conn |-> c, reply |-> 0]
Completion(job, reply) == [kind |-> "complete", conn |-> job.conn, reply |-> reply]

Init ==
  /\ options \in Options
  /\ net = [c \in Conns |-> [sent |-> 0, up |-> <<>>, eof |-> FALSE, down |-> <<>>]]
  /\ peer = [c \in Conns |-> Absent]
  /\ backlog = <<>> /\ edge = FALSE
  /\ acceptor = [at |-> "idle", left |-> 0, posted |-> FALSE, stop |-> FALSE]
  /\ active = 0 /\ turn = 0
  /\ io = [t \in Ios |-> [tasks |-> <<>>, at |-> Resting, stop |-> FALSE,
                       dead |-> FALSE]]
  /\ jobs = <<>> /\ queued = 0 /\ closing = FALSE
  /\ worker = [w \in Workers |-> [batch |-> <<>>, exited |-> FALSE]]
  /\ phase = "created" /\ stopper = "no"
-----------------------------------------------------------------------------
\* The clients: external, they connect, send frames, half-close.

ClientConnects(c) ==
  /\ phase = "running" /\ peer[c].st = "absent"
  /\ peer' = [peer EXCEPT ![c].st = "backlog"]
  /\ backlog' = Append(backlog, c)
  /\ edge' = TRUE
  /\ UNCHANGED <<net, acceptor, active, turn, io, queue, worker, running>>

ClientSends(c) ==
  /\ MapThenSumSet(LAMBDA d : net[d].sent, Conns) < MaxFrames
  /\ peer[c].st \in {"backlog", "posted", "open"} /\ ~net[c].eof
  /\ net' = [net EXCEPT ![c].sent = @ + 1, ![c].up = Append(@, net[c].sent + 1)]
  /\ UNCHANGED <<peer, active, io, queue, worker, listening, running>>

ClientHalfCloses(c) ==
  /\ "halfclose" \in Faults
  /\ peer[c].st \in {"backlog", "posted", "open"} /\ ~net[c].eof
  /\ net' = [net EXCEPT ![c].eof = TRUE]
  /\ UNCHANGED <<peer, active, io, queue, worker, listening, running>>
-----------------------------------------------------------------------------
\* The acceptor.

\* accept_ready starts: epoll reports the listener, or a continuation runs.
AcceptReported ==
  /\ phase = "running" /\ acceptor.at = "idle" /\ edge
  /\ edge' = FALSE
  /\ acceptor' = [acceptor EXCEPT !.at = "accepting", !.left = AcceptBudget]
  /\ UNCHANGED <<net, peer, backlog, active, turn, io, queue, worker, running>>

AcceptContinues ==
  /\ phase = "running" /\ acceptor.at = "idle" /\ acceptor.posted
  /\ acceptor' = [acceptor EXCEPT !.at = "accepting", !.left = AcceptBudget,
                                  !.posted = FALSE]
  /\ UNCHANGED <<net, peer, backlog, edge, active, turn, io, queue, worker, running>>

Accepting == acceptor.at = "accepting" /\ acceptor.left > 0 /\ backlog # <<>>

HasPlace == active < MaxConnections

AcceptAdmits ==
  /\ Accepting /\ HasPlace
  /\ backlog' = Tail(backlog)
  /\ peer' = [peer EXCEPT ![Head(backlog)].st = "posted", ![Head(backlog)].io = turn]
  /\ active' = active + 1
  /\ turn' = (turn + 1) % NumIo
  /\ io' = [io EXCEPT ![turn].tasks = Append(@, Task("attach", Head(backlog)))]
  /\ acceptor' = [acceptor EXCEPT !.left = @ - 1]
  /\ UNCHANGED <<net, edge, queue, worker, running>>

AcceptRejects ==
  /\ Accepting /\ ~HasPlace
  /\ backlog' = Tail(backlog)
  /\ peer' = [peer EXCEPT ![Head(backlog)].st = "closed"]
  /\ acceptor' = [acceptor EXCEPT !.left = @ - 1]
  /\ UNCHANGED <<net, edge, active, turn, io, queue, worker, running>>

\* accept4 finds no connection, or fails: out of descriptors, for one.
AcceptReturns ==
  /\ acceptor.at = "accepting" /\ acceptor.left > 0
  /\ backlog = <<>> \/ "accept" \in Faults
  /\ acceptor' = [acceptor EXCEPT !.at = "idle"]
  /\ UNCHANGED <<net, peer, backlog, edge, active, turn, io, queue, worker, running>>

\* Mutant: no continuation is posted.
AcceptBudgetSpentQuietly ==
  /\ acceptor.at = "accepting" /\ acceptor.left = 0
  /\ acceptor' = [acceptor EXCEPT !.at = "idle"]
  /\ UNCHANGED <<net, peer, backlog, edge, active, turn, io, queue, worker, running>>

AcceptBudgetSpent ==
  /\ acceptor.at = "accepting" /\ acceptor.left = 0
  /\ acceptor' = [acceptor EXCEPT !.at = "idle", !.posted = TRUE]
  /\ UNCHANGED <<net, peer, backlog, edge, active, turn, io, queue, worker, running>>

Accept ==
  \/ AcceptReported \/ AcceptContinues \/ AcceptAdmits \/ AcceptRejects
  \/ AcceptReturns \/ AcceptBudgetSpent
-----------------------------------------------------------------------------
\* Submit and the workers.

HasRoom(frame) ==
  /\ ~closing /\ Len(jobs) < options.queue_capacity
  /\ FrameBytes[frame] <= options.queue_bytes - queued

BytesOf(taken) == MapThenSumSet(LAMBDA n : FrameBytes[taken[n].frame], DOMAIN taken)

\* Mutant: the bytes of jobs that were taken stay counted.
UnqueuedNothing(taken) == queued

Unqueued(taken) == queued - BytesOf(taken)

\* How many jobs a worker takes at once.
Take == IF Batch THEN Min({MaxBatch, Len(jobs)}) ELSE 1

WorkerTakes(w) ==
  /\ ~worker[w].exited /\ worker[w].batch = <<>> /\ jobs # <<>>
  /\ worker' = [worker EXCEPT ![w].batch = SubSeq(jobs, 1, Take)]
  /\ jobs' = SubSeq(jobs, Take + 1, Len(jobs))
  /\ queued' = Unqueued(SubSeq(jobs, 1, Take))
  /\ UNCHANGED <<net, peer, active, io, listening, running>>

\* complete() of the next job of the batch: its reply is posted to the I/O thread
\* of its connection.  0 asks to close the connection: the handler threw, which
\* concerns the whole batch, or refused this one request.
WorkerCompletes(w) ==
  /\ worker[w].batch # <<>>
  /\ LET job == Head(worker[w].batch) IN
     \E reply \in {job.frame} \cup (IF "throw" \in Faults THEN {0} ELSE {}) :
       io' = [io EXCEPT ![peer[job.conn].io].tasks = Append(@, Completion(job, reply))]
  /\ worker' = [worker EXCEPT ![w].batch = Tail(@)]
  /\ UNCHANGED <<net, peer, active, queue, listening, running>>

\* Mutant: a worker leaves without looking at the queue.
MayExitAtOnce == closing

MayExit == closing /\ jobs = <<>>

WorkerExits(w) ==
  /\ ~worker[w].exited /\ worker[w].batch = <<>> /\ MayExit
  /\ worker' = [worker EXCEPT ![w].exited = TRUE]
  /\ UNCHANGED <<net, peer, active, io, queue, listening, running>>
-----------------------------------------------------------------------------
\* The I/O threads.  Between two callbacks at.op is idle; a callback that calls
\* Pump goes through it before the thread takes the next.

elsewhere == <<queue, worker, listening, running>>

Rests(t) == io[t].at.op = "idle" /\ ~io[t].stop
In(t, op, c) == io[t].at.op = op /\ io[t].at.conn = c
Pumping(c) == [Resting EXCEPT !.op = "send", !.conn = c]

Released == active - 1

Closed(p, how) == [Absent EXCEPT !.st = how, !.io = p.io]

\* Close of c at the end of what thread t does.
Close(t, c, how) ==
  /\ peer' = [peer EXCEPT ![c] = Closed(@, how)]
  /\ active' = Released
  /\ io' = [io EXCEPT ![t].at = Resting]
  /\ UNCHANGED <<net, elsewhere>>

\* Schedule: the tasks of c's thread after it.
Posted(tasks, c) == IF peer[c].scheduled THEN tasks ELSE Append(tasks, Task("pump", c))

HasTask(t, kind) == Rests(t) /\ io[t].tasks # <<>> /\ Head(io[t].tasks).kind = kind
Dropped(t) == [io[t] EXCEPT !.tasks = Tail(@)]

Attach(t) ==
  /\ HasTask(t, "attach")
  /\ peer' = [peer EXCEPT ![Head(io[t].tasks).conn].st = "open",
                          ![Head(io[t].tasks).conn].reading = TRUE]
  /\ io' = [io EXCEPT ![t] = Dropped(t)]
  /\ UNCHANGED <<net, active, elsewhere>>

RunScheduled(t) ==
  /\ HasTask(t, "pump")
  /\ LET c == Head(io[t].tasks).conn
         open == peer[c].st = "open"
     IN /\ peer' = IF open THEN [peer EXCEPT ![c].scheduled = FALSE] ELSE peer
        /\ io' = [io EXCEPT ![t] =
             [Dropped(t) EXCEPT !.at = IF open THEN Pumping(c) ELSE Resting]]
  /\ UNCHANGED <<net, active, elsewhere>>

Awaited(c) == peer[c].st = "open"

CompletionDropped(t) ==
  /\ HasTask(t, "complete") /\ ~Awaited(Head(io[t].tasks).conn)
  /\ io' = [io EXCEPT ![t] = Dropped(t)]
  /\ UNCHANGED <<net, peer, active, elsewhere>>

\* The handler threw, or the connection's output is at its limit.
CompletionCloses(t) ==
  /\ HasTask(t, "complete")
  /\ LET c == Head(io[t].tasks).conn IN
     /\ Awaited(c)
     /\ Head(io[t].tasks).reply = 0 \/ Len(peer[c].output) >= options.output_bytes
     /\ peer' = [peer EXCEPT ![c] = Closed(@, "closed")]
  /\ active' = Released
  /\ io' = [io EXCEPT ![t] = Dropped(t)]
  /\ UNCHANGED <<net, elsewhere>>

CompletionReplies(t) ==
  /\ HasTask(t, "complete")
  /\ LET c == Head(io[t].tasks).conn
         reply == Head(io[t].tasks).reply
     IN /\ Awaited(c) /\ reply # 0 /\ Len(peer[c].output) < options.output_bytes
        /\ peer' = [peer EXCEPT ![c].pending = @ - 1, ![c].output = Append(@, reply)]
        /\ io' = [io EXCEPT ![t] = [Dropped(t) EXCEPT !.at = Pumping(c)]]
  /\ UNCHANGED <<net, active, elsewhere>>

\* The shutdown's task: every connection of the thread is closed, the loop stops.
CloseAll(t) ==
  /\ HasTask(t, "finish")
  /\ LET mine == {c \in Conns : peer[c].st = "open" /\ peer[c].io = t} IN
     /\ peer' = [c \in Conns |-> IF c \in mine THEN Closed(peer[c], "closed") ELSE peer[c]]
     /\ active' = active - Cardinality(mine)
  /\ io' = [io EXCEPT ![t] = [Dropped(t) EXCEPT !.stop = TRUE]]
  /\ UNCHANGED <<net, elsewhere>>

\* epoll reports c; each Pump ends by arming it for what it waits for.
Ready(t, c) ==
  /\ Rests(t) /\ peer[c].st = "open" /\ peer[c].io = t
  /\ \/ peer[c].reading /\ net[c].up # <<>>
     \/ peer[c].writing
     \/ net[c].eof
  /\ io' = [io EXCEPT ![t].at = Pumping(c)]
  /\ UNCHANGED <<net, peer, active, elsewhere>>

ErrorCloses(t, c) ==
  /\ "error" \in Faults /\ Rests(t) /\ peer[c].st = "open" /\ peer[c].io = t
  /\ Close(t, c, "closed")

DeadlineCloses(t, c) ==
  /\ "timeout" \in Faults /\ Rests(t) /\ peer[c].st = "open" /\ peer[c].io = t
  /\ Close(t, c, "closed")

IoTask(t) ==
  \/ Attach(t) \/ RunScheduled(t) \/ CloseAll(t)
  \/ CompletionDropped(t) \/ CompletionCloses(t) \/ CompletionReplies(t)
-----------------------------------------------------------------------------
\* Pump of c on thread t: send, receive, take frames, arm.

\* Mutant: the allowance is not looked at.
MayTakeIgnoringPending(c) == Len(peer[c].output) < HighWater

MayTake(c) == peer[c].pending < Limit /\ Len(peer[c].output) < HighWater

\* On to the receive loop.
SendOver(t, c) == io' = [io EXCEPT ![t].at.op = "recv", ![t].at.reads = MayTake(c)]

SendReply(t, c) ==
  /\ In(t, "send", c) /\ peer[c].output # <<>>
  /\ net' = [net EXCEPT ![c].down = Append(@, Head(peer[c].output))]
  /\ peer' = [peer EXCEPT ![c].output = Tail(@)]
  /\ UNCHANGED <<active, io, elsewhere>>

\* Nothing is left to send, or the socket takes no more.
SendEnds(t, c) ==
  /\ In(t, "send", c)
  /\ SendOver(t, c)
  /\ UNCHANGED <<net, peer, active, elsewhere>>

SendBudgetSpent(t, c) ==
  /\ In(t, "send", c) /\ peer[c].output # <<>> /\ "budget" \in Faults
  /\ io' = [io EXCEPT ![t].tasks = Posted(@, c), ![t].at.op = "recv",
                      ![t].at.reads = MayTake(c)]
  /\ peer' = [peer EXCEPT ![c].scheduled = TRUE]
  /\ UNCHANGED <<net, active, elsewhere>>

Receives(t, c) == In(t, "recv", c) /\ io[t].at.reads /\ ~peer[c].eof

RecvFrame(t, c) ==
  /\ Receives(t, c) /\ net[c].up # <<>>
  /\ peer' = [peer EXCEPT ![c].input = Append(@, Head(net[c].up))]
  /\ net' = [net EXCEPT ![c].up = Tail(@)]
  /\ UNCHANGED <<active, io, elsewhere>>

RecvEof(t, c) ==
  /\ Receives(t, c) /\ net[c].up = <<>> /\ net[c].eof
  /\ peer' = [peer EXCEPT ![c].eof = TRUE]
  /\ io' = [io EXCEPT ![t].at.op = "parse"]
  /\ UNCHANGED <<net, active, elsewhere>>

RecvEnds(t, c) ==
  /\ In(t, "recv", c)
  /\ ~Receives(t, c) \/ (net[c].up = <<>> /\ ~net[c].eof)
  /\ io' = [io EXCEPT ![t].at.op = "parse"]
  /\ UNCHANGED <<net, peer, active, elsewhere>>

RecvBudgetSpent(t, c) ==
  /\ Receives(t, c) /\ net[c].up # <<>> /\ "budget" \in Faults
  /\ io' = [io EXCEPT ![t].tasks = Posted(@, c), ![t].at.op = "parse"]
  /\ peer' = [peer EXCEPT ![c].scheduled = TRUE]
  /\ UNCHANGED <<net, active, elsewhere>>

TakesFrame(t, c) ==
  /\ In(t, "parse", c) /\ peer[c].input # <<>> /\ MayTake(c)
  /\ io[t].at.frames < FrameBudget

PumpFails(t, c) ==
  /\ \/ In(t, "send", c) /\ peer[c].output # <<>> /\ "error" \in Faults
     \/ Receives(t, c) /\ "error" \in Faults
     \/ TakesFrame(t, c) /\ "malformed" \in Faults
  /\ Close(t, c, "closed")

\* Mutant: the frame stays in the input.
ConsumedNot(input) == input
Consumed(input) == Tail(input)

SubmitQueues(t, c) ==
  /\ TakesFrame(t, c) /\ HasRoom(Head(peer[c].input))
  /\ jobs' = Append(jobs, [conn |-> c, frame |-> Head(peer[c].input)])
  /\ queued' = queued + FrameBytes[Head(peer[c].input)]
  /\ peer' = [peer EXCEPT ![c].input = Consumed(@), ![c].pending = @ + 1]
  /\ io' = [io EXCEPT ![t].at.frames = @ + 1]
  /\ UNCHANGED <<net, active, worker, listening, running>>

SubmitRejects(t, c) ==
  TakesFrame(t, c) /\ ~HasRoom(Head(peer[c].input)) /\ Close(t, c, "closed")

\* Mutant: a client that half-closed is let go at once.
OwedNothingAtEof(p) == p.eof

OwedNothing(p) == p.eof /\ p.pending = 0 /\ p.output = <<>>

PumpCloses(t, c) ==
  /\ In(t, "parse", c) /\ ~TakesFrame(t, c) /\ OwedNothing(peer[c])
  /\ Close(t, c, "served")

\* Mutant: input stays disarmed once the allowance was spent.
ReadsStill(c) == ~peer[c].eof /\ MayTake(c) /\ peer[c].reading

Reads(c) == ~peer[c].eof /\ MayTake(c)

PumpArms(t, c) ==
  /\ In(t, "parse", c) /\ ~TakesFrame(t, c) /\ ~OwedNothing(peer[c])
  /\ LET again == io[t].at.frames >= FrameBudget /\ peer[c].pending < Limit IN
     /\ peer' = [peer EXCEPT ![c].scheduled = @ \/ again, ![c].reading = Reads(c),
                             ![c].writing = (peer[c].output # <<>>)]
     /\ io' = [io EXCEPT ![t].at = Resting,
                         ![t].tasks = IF again THEN Posted(@, c) ELSE @]
  /\ UNCHANGED <<net, active, elsewhere>>

Pump(t, c) ==
  \/ SendReply(t, c) \/ SendEnds(t, c) \/ SendBudgetSpent(t, c)
  \/ RecvFrame(t, c) \/ RecvEof(t, c) \/ RecvEnds(t, c) \/ RecvBudgetSpent(t, c)
  \/ PumpFails(t, c) \/ SubmitQueues(t, c) \/ SubmitRejects(t, c)
  \/ PumpCloses(t, c) \/ PumpArms(t, c)
-----------------------------------------------------------------------------
\* start() and stop().

unserved == <<options, net, peer, backlog, edge, turn, active, queue, worker>>

\* start() publishes its runtime; stop() sets stopping_ and then stops the
\* accept loop of the runtime it finds.
StartPublishes ==
  /\ phase = "created" /\ phase' = "published"
  /\ UNCHANGED <<unserved, acceptor, io, closing, stopper>>

\* Mutant: only the accept loop is looked at.
StopUnseen == FALSE
StopSeen == stopper # "no"

\* Run() listens, and looks at stopping_.
StartListens ==
  /\ phase = "published" /\ phase' = "running"
  /\ acceptor' = [acceptor EXCEPT !.stop = @ \/ StopSeen]
  /\ UNCHANGED <<unserved, io, closing, stopper>>

StopBegins ==
  /\ "stop" \in Faults /\ stopper = "no" /\ stopper' = "begun"
  /\ UNCHANGED <<unserved, acceptor, io, closing, phase>>

StopEnds ==
  /\ stopper = "begun" /\ stopper' = "ended"
  /\ acceptor' = [acceptor EXCEPT !.stop = @ \/ phase # "created"]
  /\ UNCHANGED <<unserved, io, closing, phase>>

\* The accept loop returns: finish closes admission, ...
FinishCloses ==
  /\ phase = "running" /\ acceptor.at = "idle" /\ acceptor.stop
  /\ phase' = "joining"
  /\ closing' = TRUE
  /\ UNCHANGED <<unserved, acceptor, io, stopper>>

\* ... joins the workers and tells the I/O threads, ...
FinishPosts ==
  /\ phase = "joining" /\ \A w \in Workers : worker[w].exited
  /\ phase' = "finishing"
  /\ io' = [t \in Ios |-> [io[t] EXCEPT !.tasks = Append(@, Task("finish", NoConn))]]
  /\ UNCHANGED <<unserved, acceptor, closing, stopper>>

\* ... and joins them; the listener is closed with what waits there.
FinishJoins ==
  /\ phase = "finishing" /\ \A t \in Ios : io[t].stop
  /\ phase' = "stopped"
  /\ UNCHANGED <<unserved, acceptor, io, closing, stopper>>

\* Mutant: the exception is only recorded.
ToldOfDeath == acceptor

\* accept_loop.Stop() in the handler of the exception.
AcceptStopped == [acceptor EXCEPT !.stop = TRUE]

\* An exception leaves an I/O thread's loop, within a callback or between two:
\* its tasks never run, its connections stay as they are, the server shuts down.
IoDies(t) ==
  /\ t \in Mortal /\ phase # "created" /\ ~io[t].stop
  /\ io' = [io EXCEPT ![t].stop = TRUE, ![t].dead = TRUE, ![t].at = Resting]
  /\ acceptor' = AcceptStopped
  /\ UNCHANGED <<unserved, closing, phase, stopper>>

Lifecycle ==
  StartPublishes \/ StartListens \/ StopEnds \/ FinishCloses \/ FinishPosts \/ FinishJoins

Work(w) == WorkerTakes(w) \/ WorkerCompletes(w) \/ WorkerExits(w)

Next ==
  \/ \E c \in Conns : ClientConnects(c) \/ ClientSends(c) \/ ClientHalfCloses(c)
  \/ Accept \/ StopBegins \/ Lifecycle
  \/ \E w \in Workers : Work(w)
  \/ \E t \in Ios : IoTask(t) \/ IoDies(t)
  \/ \E t \in Ios, c \in Conns :
       Pump(t, c) \/ Ready(t, c) \/ ErrorCloses(t, c) \/ DeadlineCloses(t, c)

Spec == Init /\ [][Next]_vars

\* Every thread goes on while it can; Run handles all tasks and all reported
\* descriptors of an I/O thread in turn, so neither is passed over for ever;
\* clients read what they are sent.
Fairness ==
  /\ WF_vars(Lifecycle) /\ WF_vars(Accept) /\ \A w \in Workers : WF_vars(Work(w))
  /\ \A t \in Ios : SF_vars(IoTask(t))
  /\ \A t \in Ios, c \in Conns :
       /\ WF_vars(Pump(t, c)) /\ SF_vars(Ready(t, c))
       /\ SF_vars(SendReply(t, c)) /\ SF_vars(RecvFrame(t, c))

FairSpec == Spec /\ Fairness
-----------------------------------------------------------------------------
\* Properties.

Frames == 1 .. MaxFrames

Of(c, s) == Len(SelectSeq(s, LAMBDA x : x.conn = c))

\* What is under way for c: queued, with a worker, or posted back.
UnderWay(c) ==
  Of(c, jobs) + MapThenSumSet(LAMBDA w : Of(c, worker[w].batch), Workers)
  + MapThenSumSet(LAMBDA t : Of(c, SelectSeq(io[t].tasks, LAMBDA x : x.kind = "complete")), Ios)

\* What several threads count together is exact and within its limits: active_,
\* which the acceptor raises and the I/O threads lower, is the connections that
\* were accepted and are not closed; pending is the requests of an open
\* connection that are under way across its I/O thread, the queue and the workers;
\* queued_bytes is the bytes of the queue, so queue_bytes - queued_bytes never wraps.
CountsBalanced ==
  /\ active = Cardinality({c \in Conns : peer[c].st \in {"posted", "open"}})
  /\ active <= MaxConnections
  /\ \A c \in Conns :
       peer[c].st = "open" => peer[c].pending = UnderWay(c) /\ peer[c].pending <= Limit
  /\ Len(jobs) <= options.queue_capacity /\ queued = BytesOf(jobs) /\ queued <= options.queue_bytes

\* No frame is answered twice, and with one request at a time per connection, as
\* the KV server runs it, replies are sent in the order of the requests.  "Half-closed
\* writers receive completed responses before closing": a client that shut down its
\* sending side and was then let go has every reply.
RepliesMatch ==
  \A c \in Conns :
    /\ Cardinality(ToSet(net[c].down)) = Len(net[c].down)
    /\ Limit = 1 => net[c].down = [n \in 1 .. Len(net[c].down) |-> n]
    /\ peer[c].st = "served" => ToSet(net[c].down) = 1 .. net[c].sent

\* When start() returns, every queued job was handled, every thread has come to
\* its end, and every accepted connection is closed and no longer counted, but
\* for those of an I/O thread that died.
ShutdownComplete ==
  phase = "stopped" =>
    LET left == {c \in Conns : peer[c].st \in {"posted", "open"}} IN
    /\ active = Cardinality(left) /\ jobs = <<>>
    /\ \A c \in left : io[peer[c].io].dead
    /\ \A t \in Ios : io[t].at.op = "idle"
    /\ \A w \in Workers : worker[w].exited /\ worker[w].batch = <<>>

\* Every request that was sent is answered, unless its connection is closed or
\* the server stops: backpressure never leaves one behind.
Answered ==
  \A c \in Conns : \A n \in Frames :
    net[c].sent >= n ~> n \in ToSet(net[c].down) \/ peer[c].st \in Gone \/ closing

\* Whenever stop() is called, before, while or after start() sets the server up,
\* and whenever an I/O thread dies, start() returns, with nothing left undone.
Stops ==
  (stopper = "ended" /\ phase # "created") \/ (\E t \in Ios : io[t].dead)
    ~> phase = "stopped" /\ ShutdownComplete

\* "Accepts have a per-dispatch budget; reaching it posts a continuation. [...]
\* This preserves ET progress": while connections wait at the listener and the
\* acceptor rests, epoll has still to report them or a continuation is posted.
AcceptProgress ==
  phase = "running" /\ acceptor.at = "idle" /\ backlog # <<>> =>
    edge \/ acceptor.posted \/ acceptor.stop
=============================================================================
