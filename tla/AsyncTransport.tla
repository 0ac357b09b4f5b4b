--------------------------- MODULE AsyncTransport ---------------------------
(***************************************************************************)
(* The client transport: callers admit requests from their own threads,    *)
(* one loop thread owns a fixed set of connections and multiplexes the     *)
(* requests over them.  With hasIds (RPC) replies carry the identifier of  *)
(* their request and come in any order; without (KV) a connection has one  *)
(* request outstanding and its reply is the next frame.                    *)
(*                                                                         *)
(* The loop thread runs one callback at a time: at says where in Pump and  *)
(* Dispatch it is, and every callback ends in Dispatch, so nothing else of *)
(* the loop runs before at is idle again.  Deadlines may pass at any time. *)
(***************************************************************************)
EXTENDS Integers, Sequences, FiniteSets, SequencesExt, FiniteSetsExt, TLC

CONSTANTS Ids,            \* the requests callers submit
          NumSockets,     \* connections, used in this order by Dispatch
          Protocols,      \* what hasIds may be
          MaxInflight,    \* options.max_inflight
          QueueCapacity,  \* options.queue_capacity
          QueueBytes,     \* options.queue_bytes
          Weight,         \* the size of a request's frame
          Faults,         \* "close": the server closes or resets a connection,
                          \* "malformed", "invalid": it sends frames or payloads
                          \* that are rejected, "refused": it cannot be connected
                          \* to, "budget": more is moved than Pump does at once
          NoId            \* not an identifier

ASSUME TransportAssumption ==
  /\ IsFiniteSet(Ids) /\ NoId \notin Ids
  /\ NumSockets \in Nat \ {0} /\ MaxInflight \in Nat \ {0}
  /\ QueueCapacity \in Nat \ {0} /\ QueueBytes \in Nat \ {0}
  /\ Protocols \subseteq BOOLEAN
  /\ Faults \subseteq {"close", "malformed", "invalid", "refused", "budget"}
  /\ Weight \in [Ids -> Nat \ {0}]

VARIABLES
  hasIds,    \* chosen once: replies carry identifiers
  call,      \* where the caller of each request is in Submit
  completed, \* the results passed to each request's completion
  admitted, bytes, closing,       \* what the admission mutex guards
  owner,     \* where the owner is in ~Impl
  tasks,     \* the loop's posted tasks
  requests, slot, sent, waiting,  \* what the loop knows of the requests
  conn,      \* the connections
  draining, stopping,
  at,        \* where the loop thread is
  wire       \* the network and the server beyond each connection

client == <<hasIds, call, owner, closing>>
admission == <<admitted, bytes>>
\* What Finish changes.
finishing == <<completed, admitted, bytes, requests, slot, sent, waiting, stopping>>
vars == <<hasIds, call, completed, admitted, bytes, closing, owner, tasks, requests, slot,
          sent, waiting, conn, draining, stopping, at, wire>>

Sockets == 0 .. NumSockets - 1
NoSlot == NumSockets
Limit == IF hasIds THEN MaxInflight ELSE 1

\* A reply on the wire is [id |-> the identifier it names, answers |-> the request
\* it answers].  A frame that framing or ids rejects names NoId, a payload that
\* the completion rejects answers NoId.

Closed == [fd |-> FALSE, connecting |-> FALSE, timer |-> FALSE, scheduled |-> FALSE,
           output |-> <<>>, order |-> <<>>, inflight |-> 0, retired |-> {}]
NoWire == [up |-> <<>>, down |-> <<>>, eof |-> FALSE]
Idle == [op |-> "idle", sock |-> 0, next |-> 0]
PumpThen(i, n) == [op |-> "pump", sock |-> i, next |-> n]
DispatchFrom(i) == [op |-> "dispatch", sock |-> i, next |-> i]

SubmitTask(id) == [kind |-> "submit", arg |-> id]
PumpTask(i) == [kind |-> "pump", arg |-> i]
DrainTask == [kind |-> "drain", arg |-> 0]

Init ==
  /\ hasIds \in Protocols
  /\ call = [id \in Ids |-> "new"]
  /\ completed = [id \in Ids |-> <<>>]
  /\ admitted = 0 /\ bytes = 0 /\ closing = FALSE
  /\ owner = "using"
  /\ tasks = <<>>
  /\ requests = {} /\ sent = {} /\ waiting = <<>>
  /\ slot = [id \in Ids |-> NoSlot]
  /\ conn = [i \in Sockets |-> Closed]
  /\ draining = FALSE /\ stopping = FALSE
  /\ at = Idle
  /\ wire = [i \in Sockets |-> NoWire]
-----------------------------------------------------------------------------
\* The callers and the owner.

HasRoom(id) ==
  /\ ~closing
  /\ admitted < QueueCapacity
  /\ Weight[id] <= QueueBytes - bytes

SubmitAdmits(id) ==
  /\ owner # "gone" /\ call[id] = "new" /\ HasRoom(id)
  /\ call' = [call EXCEPT ![id] = "posting"]
  /\ admitted' = admitted + 1
  /\ bytes' = bytes + Weight[id]
  /\ UNCHANGED <<hasIds, owner, closing, completed, tasks, requests, slot, sent, waiting,
                 conn, draining, stopping, at, wire>>

SubmitRejects(id) ==
  /\ owner # "gone" /\ call[id] = "new" /\ ~HasRoom(id)
  /\ call' = [call EXCEPT ![id] = "returned"]
  /\ completed' = [completed EXCEPT ![id] =
       Append(@, IF closing THEN "closed" ELSE "overloaded")]
  /\ UNCHANGED <<hasIds, admission, owner, closing, tasks, requests, slot, sent, waiting,
                 conn, draining, stopping, at, wire>>

SubmitPosts(id) ==
  /\ call[id] = "posting"
  /\ call' = [call EXCEPT ![id] = "returned"]
  /\ tasks' = Append(tasks, SubmitTask(id))
  /\ UNCHANGED <<hasIds, finishing, owner, closing, conn, draining, at, wire>>

\* ~Impl; its owner does not destroy the client under a Submit that has been
\* admitted and has not returned.
Close ==
  /\ owner = "using"
  /\ \A id \in Ids : call[id] # "posting"
  /\ owner' = "closing"
  /\ closing' = TRUE
  /\ UNCHANGED <<hasIds, finishing, call, tasks, conn, draining, at, wire>>

PostDrain ==
  /\ owner = "closing"
  /\ owner' = "joining"
  /\ tasks' = Append(tasks, DrainTask)
  /\ UNCHANGED <<hasIds, finishing, call, closing, conn, draining, at, wire>>

\* Run sees stopping_, the thread is joined and the sockets are closed.
Join ==
  /\ owner = "joining" /\ stopping /\ at = Idle
  /\ owner' = "gone"
  /\ conn' = [i \in Sockets |-> [conn[i] EXCEPT !.fd = FALSE]]
  /\ wire' = [i \in Sockets |-> NoWire]
  /\ UNCHANGED <<hasIds, finishing, call, closing, tasks, draining, at>>
-----------------------------------------------------------------------------
\* Finish and Disconnect.

OnSlot(i) == {id \in requests : slot[id] = i}

\* Mutant: a request stays known when it is completed.
ErasedNone(done) == requests

Erased(done) == requests \ done

StillWaiting(done) == SelectSeq(waiting, LAMBDA id : id \notin done)

\* Finish of every request in the domain of results; its connection's
\* inflight count is adjusted by the callers below.
Finish(results) ==
  LET done == DOMAIN results IN
  /\ requests' = Erased(done)
  /\ waiting' = StillWaiting(done)
  /\ slot' = [id \in Ids |-> IF id \in done THEN NoSlot ELSE slot[id]]
  /\ sent' = sent \ done
  /\ admitted' = admitted - Cardinality(done)
  /\ bytes' = bytes - MapThenSumSet(LAMBDA id : Weight[id], done)
  /\ completed' = [id \in Ids |-> IF id \in done THEN Append(completed[id], results[id])
                                  ELSE completed[id]]
  /\ stopping' = (stopping \/ (draining /\ requests' = {}))

\* The connection after Disconnect failed the n requests that were on it.
Disconnected(c, n) == [Closed EXCEPT !.scheduled = c.scheduled, !.inflight = c.inflight - n]

\* Mutant: input that was received survives the connection.
DroppedButReceived(w) == [NoWire EXCEPT !.down = w.down]

\* What was received, or is under way, is lost with the connection.
Dropped(w) == NoWire

\* Disconnect of i, after Finish with the results in first.
DisconnectAfter(first, i, error) ==
  LET failed == OnSlot(i) \ DOMAIN first
      n == Cardinality(OnSlot(i) \cup DOMAIN first)
  IN
  /\ Finish([id \in failed \cup DOMAIN first |->
               IF id \in failed THEN error ELSE first[id]])
  /\ conn' = [conn EXCEPT ![i] = Disconnected(@, n)]
  /\ wire' = [wire EXCEPT ![i] = Dropped(@)]

Disconnect(i, error) == DisconnectAfter(<<>>, i, error)
-----------------------------------------------------------------------------
\* Pump, from where at.op says it is; at.next is where Dispatch goes on.

In(op, i) == at.op = op /\ at.sock = i
Returned == at' = DispatchFrom(at.next)

PumpDisconnects(i, error) ==
  /\ Disconnect(i, error)
  /\ Returned
  /\ UNCHANGED <<client, tasks, draining>>

Scheduled(i) ==
  /\ conn' = [conn EXCEPT ![i].scheduled = TRUE]
  /\ tasks' = IF conn[i].scheduled THEN tasks ELSE Append(tasks, PumpTask(i))

PumpReturns(i) ==
  /\ In("pump", i)
  /\ ~conn[i].fd \/ conn[i].connecting
  /\ Returned
  /\ UNCHANGED <<client, finishing, tasks, conn, draining, wire>>

PumpConnectFails(i) ==
  /\ In("pump", i) /\ conn[i].connecting /\ "refused" \in Faults
  /\ PumpDisconnects(i, "connection")

PumpConnected(i) ==
  /\ In("pump", i) /\ conn[i].fd
  /\ conn' = [conn EXCEPT ![i].connecting = FALSE, ![i].timer = FALSE]
  /\ at' = [at EXCEPT !.op = "send"]
  /\ UNCHANGED <<client, finishing, tasks, draining, wire>>

SendFrame(i) ==
  /\ In("send", i) /\ conn[i].output # <<>>
  /\ LET id == Head(conn[i].output) IN
     /\ sent' = sent \cup {id}
     /\ conn' = [conn EXCEPT ![i].output = Tail(@)]
     /\ wire' = IF wire[i].eof THEN wire ELSE [wire EXCEPT ![i].up = Append(@, id)]
  /\ UNCHANGED <<client, admission, completed, tasks, requests, slot, waiting,
                 draining, stopping, at>>

\* Nothing is left to send, or the socket takes no more.
SendBlocks(i) ==
  /\ In("send", i)
  /\ at' = [at EXCEPT !.op = "recv"]
  /\ UNCHANGED <<client, finishing, tasks, conn, draining, wire>>

SendBudget(i) ==
  /\ In("send", i) /\ conn[i].output # <<>> /\ "budget" \in Faults
  /\ Scheduled(i)
  /\ at' = [at EXCEPT !.op = "recv"]
  /\ UNCHANGED <<client, finishing, draining, wire>>

SendFails(i) ==
  /\ In("send", i) /\ conn[i].output # <<>> /\ wire[i].eof
  /\ PumpDisconnects(i, "transport")

\* The identifier a reply on connection i is taken for.
Identify(i, reply) ==
  IF hasIds \/ reply.id = NoId THEN reply.id
  ELSE IF conn[i].order = <<>> THEN NoId
  ELSE Head(conn[i].order)

RecvRetired(i) ==
  /\ In("recv", i) /\ wire[i].down # <<>>
  /\ LET id == Identify(i, Head(wire[i].down)) IN
     /\ hasIds /\ id \in conn[i].retired
     /\ conn' = [conn EXCEPT ![i].retired = @ \ {id}]
  /\ wire' = [wire EXCEPT ![i].down = Tail(@)]
  /\ UNCHANGED <<client, finishing, tasks, draining, at>>

RecvUnknown(i) ==
  /\ In("recv", i) /\ wire[i].down # <<>>
  /\ Identify(i, Head(wire[i].down)) \notin OnSlot(i) \cup conn[i].retired
  /\ PumpDisconnects(i, "protocol")

\* The completion accepts the payload.
RecvReply(i) ==
  /\ In("recv", i) /\ wire[i].down # <<>>
  /\ LET reply == Head(wire[i].down)
         id == Identify(i, reply)
     IN
     /\ id \in OnSlot(i) /\ reply.answers # NoId
     /\ Finish(id :> reply.answers)
     /\ conn' = [conn EXCEPT ![i].inflight = @ - 1,
                             ![i].order = IF hasIds THEN @ ELSE Tail(@)]
  /\ wire' = [wire EXCEPT ![i].down = Tail(@)]
  /\ UNCHANGED <<client, tasks, draining, at>>

\* The completion rejects it, and Finish disconnects.
RecvInvalid(i) ==
  /\ In("recv", i) /\ wire[i].down # <<>>
  /\ LET id == Identify(i, Head(wire[i].down)) IN
     /\ id \in OnSlot(i) /\ Head(wire[i].down).answers = NoId
     /\ DisconnectAfter(id :> "protocol", i, "protocol")
  /\ Returned
  /\ UNCHANGED <<client, tasks, draining>>

RecvBlocks(i) ==
  /\ In("recv", i) /\ wire[i].down = <<>> /\ ~wire[i].eof
  /\ Returned
  /\ UNCHANGED <<client, finishing, tasks, conn, draining, wire>>

RecvBudget(i) ==
  /\ In("recv", i) /\ wire[i].down # <<>> /\ "budget" \in Faults
  /\ Scheduled(i)
  /\ Returned
  /\ UNCHANGED <<client, finishing, draining, wire>>

\* The peer has closed the connection, or reset it.
RecvFails(i) ==
  /\ In("recv", i)
  /\ wire[i].eof
  /\ PumpDisconnects(i, "transport")

Pump(i) ==
  \/ PumpReturns(i) \/ PumpConnectFails(i) \/ PumpConnected(i)
  \/ SendFrame(i) \/ SendBlocks(i) \/ SendBudget(i) \/ SendFails(i)
  \/ RecvRetired(i) \/ RecvUnknown(i) \/ RecvReply(i) \/ RecvInvalid(i)
  \/ RecvBlocks(i) \/ RecvBudget(i) \/ RecvFails(i)
-----------------------------------------------------------------------------
\* Dispatch.  No request of waiting has been finished: Finish takes it out.

\* Mutant: retired requests do not count.
FullIgnoresRetired(i) == conn[i].inflight >= Limit

Full(i) == conn[i].inflight + Cardinality(conn[i].retired) >= Limit

DispatchEnds ==
  /\ at.op = "dispatch"
  /\ at.sock \notin Sockets \/ waiting = <<>>
  /\ at' = Idle
  /\ UNCHANGED <<client, finishing, tasks, conn, draining, wire>>

DispatchSkips ==
  /\ at.op = "dispatch" /\ at.sock \in Sockets /\ waiting # <<>>
  /\ Full(at.sock)
  /\ at' = DispatchFrom(at.sock + 1)
  /\ UNCHANGED <<client, finishing, tasks, conn, draining, wire>>

Assigned(c, id) == [c EXCEPT !.inflight = @ + 1, !.output = Append(@, id),
                             !.order = IF hasIds THEN @ ELSE Append(@, id)]

\* The next request goes to connection i, opened (at once or not) if need be.
DispatchAssigns(i) ==
  /\ In("dispatch", i) /\ waiting # <<>> /\ ~Full(i)
  /\ waiting' = Tail(waiting)
  /\ slot' = [slot EXCEPT ![Head(waiting)] = i]
  /\ \E later \in IF conn[i].fd THEN {conn[i].connecting} ELSE BOOLEAN :
       conn' = [conn EXCEPT ![i] =
         [Assigned(@, Head(waiting)) EXCEPT !.fd = TRUE, !.connecting = later, !.timer = later]]
  /\ at' = PumpThen(i, i)
  /\ UNCHANGED <<client, admission, completed, tasks, requests, sent, draining,
                 stopping, wire>>

\* The next request goes to connection i, which cannot be opened.
DispatchConnectFails(i) ==
  /\ In("dispatch", i) /\ waiting # <<>> /\ ~Full(i) /\ ~conn[i].fd
  /\ "refused" \in Faults
  /\ LET failed == OnSlot(i) \cup {Head(waiting)} IN
     /\ Finish([id \in failed |-> "connection"])
     /\ conn' = [conn EXCEPT ![i] =
          Disconnected(Assigned(@, Head(waiting)), Cardinality(failed))]
  /\ at' = PumpThen(i, i)
  /\ UNCHANGED <<client, tasks, draining, wire>>

Dispatch ==
  \/ DispatchEnds \/ DispatchSkips
  \/ \E i \in Sockets : DispatchAssigns(i) \/ DispatchConnectFails(i)
-----------------------------------------------------------------------------
\* What the loop calls.

RunSubmit ==
  /\ at = Idle /\ owner # "gone" /\ tasks # <<>> /\ Head(tasks).kind = "submit"
  /\ requests' = requests \cup {Head(tasks).arg}
  /\ waiting' = Append(waiting, Head(tasks).arg)
  /\ tasks' = Tail(tasks)
  /\ at' = DispatchFrom(0)
  /\ UNCHANGED <<client, admission, completed, slot, sent, conn, draining, stopping,
                 wire>>

RunPump ==
  /\ at = Idle /\ owner # "gone" /\ tasks # <<>> /\ Head(tasks).kind = "pump"
  /\ conn' = [conn EXCEPT ![Head(tasks).arg].scheduled = FALSE]
  /\ tasks' = Tail(tasks)
  /\ at' = PumpThen(Head(tasks).arg, 0)
  /\ UNCHANGED <<client, finishing, draining, wire>>

\* Mutants: the drain does not wait for the requests, or only for them.
DrainStopsAtOnce == TRUE
DrainStopsLater == FALSE

DrainStops == requests = {}

RunDrain ==
  /\ at = Idle /\ owner # "gone" /\ tasks # <<>> /\ Head(tasks).kind = "drain"
  /\ draining' = TRUE
  /\ stopping' = DrainStops
  /\ tasks' = Tail(tasks)
  /\ UNCHANGED <<client, admission, completed, requests, slot, sent, waiting, conn,
                 at, wire>>

\* The socket of connection i is reported by epoll: Pump armed it for input,
\* for hang-up, and for output while there is some.
Ready(i) ==
  /\ at = Idle /\ conn[i].fd
  /\ \/ conn[i].connecting \/ conn[i].output # <<>>
     \/ wire[i].down # <<>> \/ wire[i].eof
  /\ at' = PumpThen(i, 0)
  /\ UNCHANGED <<client, finishing, tasks, conn, draining, wire>>

\* Mutant: the callback does not dispatch.
ConnectDeadlineOnly(i) ==
  /\ at = Idle /\ conn[i].fd /\ conn[i].timer
  /\ Disconnect(i, "timeout")
  /\ UNCHANGED <<client, tasks, draining, at>>

ConnectDeadline(i) ==
  /\ at = Idle /\ conn[i].fd /\ conn[i].timer
  /\ Disconnect(i, "timeout")
  /\ at' = DispatchFrom(0)
  /\ UNCHANGED <<client, tasks, draining>>

\* Mutant: the identifier is not remembered.
RetireForgets(c, id) == [c EXCEPT !.inflight = @ - 1]

Retire(c, id) == [c EXCEPT !.retired = @ \cup {id}, !.inflight = @ - 1]

\* Mutant: only requests in the queue have a deadline.
HasTimerInQueue(id) == id \in requests /\ slot[id] = NoSlot

\* Mutant: a request has no deadline before it is assigned.
HasTimerOnSlot(id) == id \in requests /\ slot[id] # NoSlot

HasTimer(id) == id \in requests

\* The timer of a request: Finish cancels it, so the request is unfinished.
RequestDeadline(id) ==
  /\ at = Idle /\ HasTimer(id)
  /\ LET i == slot[id] IN
     \/ /\ i # NoSlot /\ hasIds /\ id \in sent
        /\ conn' = [conn EXCEPT ![i] = Retire(@, id)]
        /\ Finish(id :> "timeout")
        /\ UNCHANGED wire
     \/ /\ i # NoSlot /\ ~(hasIds /\ id \in sent)
        /\ Disconnect(i, "timeout")
     \/ /\ i = NoSlot
        /\ Finish(id :> "timeout")
        /\ UNCHANGED <<conn, wire>>
  /\ at' = DispatchFrom(0)
  /\ UNCHANGED <<client, tasks, draining>>

RunTask == RunSubmit \/ RunPump \/ RunDrain
Step == Dispatch \/ \E i \in Sockets : Pump(i)
-----------------------------------------------------------------------------
\* The network and the server.

beyond == <<client, finishing, tasks, conn, draining, at>>

\* A server that keeps the order answers the oldest request, any other any.
ServerReplies(i) ==
  /\ conn[i].fd /\ ~wire[i].eof
  /\ \E n \in DOMAIN wire[i].up :
       /\ hasIds \/ n = 1
       /\ \E answers \in {wire[i].up[n]} \cup IF "invalid" \in Faults THEN {NoId} ELSE {} :
            wire' = [wire EXCEPT ![i].up = RemoveAt(@, n),
                                 ![i].down = Append(@, [id |-> wire[i].up[n],
                                                        answers |-> answers])]
  /\ UNCHANGED beyond

ServerSendsMalformed(i) ==
  /\ "malformed" \in Faults /\ conn[i].fd /\ ~wire[i].eof
  /\ \A n \in DOMAIN wire[i].down : wire[i].down[n].id # NoId
  /\ wire' = [wire EXCEPT ![i].down = Append(@, [id |-> NoId, answers |-> NoId])]
  /\ UNCHANGED beyond

ServerCloses(i) ==
  /\ "close" \in Faults /\ conn[i].fd /\ ~conn[i].connecting /\ ~wire[i].eof
  /\ wire' = [wire EXCEPT ![i].eof = TRUE, ![i].up = <<>>]
  /\ UNCHANGED beyond

Next ==
  \/ \E id \in Ids : SubmitAdmits(id) \/ SubmitRejects(id) \/ SubmitPosts(id)
  \/ Close \/ PostDrain \/ Join
  \/ RunTask \/ Step
  \/ \E i \in Sockets : Ready(i) \/ ConnectDeadline(i)
  \/ \E id \in Ids : RequestDeadline(id)
  \/ \E i \in Sockets : ServerReplies(i) \/ ServerSendsMalformed(i) \/ ServerCloses(i)

Spec == Init /\ [][Next]_vars

\* Callers and the owner go on, the loop thread runs, tasks are run in the order
\* they were posted, and Run looks for due timers after each batch of events,
\* so no stream of events keeps a deadline from being served.
Fairness ==
  /\ \A id \in Ids : WF_vars(SubmitPosts(id)) /\ SF_vars(RequestDeadline(id))
  /\ WF_vars(PostDrain) /\ SF_vars(Join) /\ SF_vars(RunTask) /\ WF_vars(Step)

FairSpec == Spec /\ Fairness
-----------------------------------------------------------------------------
\* Properties.

\* Requests that were admitted and not yet completed: between Submit's two
\* steps, in a posted task, or with the loop.
Queued == {tasks[n].arg : n \in {m \in DOMAIN tasks : tasks[m].kind = "submit"}}
InHand == {id \in Ids : call[id] = "posting"} \cup Queued \cup requests

\* Whatever timeouts, disconnections, late and invalid replies come together,
\* a completion is called at most once, and a request that was submitted is
\* either still in hand or has been completed.  When the destructor returns none is
\* in hand: destroying the client drains it.
CompletedOnce ==
  /\ \A id \in Ids :
       IF id \in InHand \/ call[id] = "new" THEN completed[id] = <<>>
       ELSE Len(completed[id]) = 1
  /\ owner = "gone" => InHand = {}

\* A call succeeds only with the reply the server sent to this very call: no
\* reply of a request that timed out or of a previous connection is taken for it.
Correlated ==
  \A id \in Ids : \A n \in DOMAIN completed[id] :
    completed[id][n] \in Ids => completed[id][n] = id

\* The counters are exact, so every path that completes a request returns its
\* place, its bytes and its slot, and the limits hold: admission counts the
\* requests in hand, and a connection those on it, where the ones it has retired
\* still occupy their places.
CountersExact ==
  /\ admitted = Cardinality(InHand) /\ admitted <= QueueCapacity
  /\ bytes = MapThenSumSet(LAMBDA id : Weight[id], InHand) /\ bytes <= QueueBytes
  /\ \A i \in Sockets :
       /\ conn[i].inflight = Cardinality(OnSlot(i))
       /\ conn[i].inflight + Cardinality(conn[i].retired) <= Limit
       /\ conn[i].retired \cap requests = {}

\* When the loop waits for the next event, requests wait only if every
\* connection is full: each path that frees a place also dispatches.
NoneStranded ==
  at = Idle /\ waiting # <<>> => \A i \in Sockets : Full(i)

\* What the server owes on an open connection is either on it still, and sent, or
\* retired: a late reply to a request that timed out is recognised, and a
\* server that answers what it is asked is never cut off for an unknown
\* identifier.
RepliesExpected ==
  \A i \in Sockets :
    LET owed == ToSet(wire[i].up) \cup {reply.id : reply \in ToSet(wire[i].down)}
    IN  owed \ {NoId} \subseteq (OnSlot(i) \cap sent) \cup conn[i].retired

\* Every submitted request is completed, also one that waits behind requests a
\* silent server left retired: those keep their places on the connection.
Completes == \A id \in Ids : call[id] # "new" ~> completed[id] # <<>>

\* The destructor returns.
DestructorReturns == owner # "using" ~> owner = "gone"
=============================================================================
