----------------------------- MODULE EventLoop ------------------------------
(***************************************************************************)
(* The reactor of src/event_loop.cpp, which the transport and the server   *)
(* run on: threads post tasks and wake it through an eventfd, descriptors  *)
(* report edges through epoll, timers fire on its thread.  What a task, a  *)
(* callback or a timer does is left open: any of the loop's operations.    *)
(***************************************************************************)
EXTENDS Integers, Sequences, FiniteSets, Functions, FiniteSetsExt

CONSTANTS Posters,       \* threads that call Post
          Fds,           \* descriptors
          MaxEvents,     \* events one epoll_wait returns
          MaxTasks,      \* bound: tasks each poster posts
          MaxIds,        \* bound: tokens and timers handed out
          MaxTime        \* bound: the clock

ASSUME LoopAssumption ==
  /\ MaxEvents \in Nat \ {0} /\ {MaxTasks, MaxIds, MaxTime} \subseteq Nat
  /\ IsFiniteSet(Posters) /\ IsFiniteSet(Fds)

VARIABLES
  tasks,       \* tasks_
  wake,        \* the eventfd's counter is not zero
  ready,       \* epoll's list of tokens with news; 0 is the eventfd
  poster,      \* the threads: tasks posted, and between push and write or not
  stopper, stopping,  \* the thread that calls Stop, stopping_
  at,          \* where Run is
  events, batch,      \* its local variables: events left to handle, tasks left to run
  watches, timers, nextId, now,
  ran,         \* auxiliary: the tasks that ran
  news,        \* auxiliary: tokens whose descriptor has had news
  cancelled, fired    \* auxiliary: timers

vars == <<tasks, wake, ready, poster, stopper, stopping, at, events, batch, watches,
          timers, nextId, now, ran, news, cancelled, fired>>
posting == <<poster, stopper, stopping>>
registry == <<watches, timers, nextId, cancelled>>

WakeToken == 0
Nop == <<"stop", 0>>       \* the empty task that Stop posts
Place(op) == [op |-> op, back |-> op, token |-> WakeToken]
Body(back, token) == [op |-> "body", back |-> back, token |-> token]

Init ==
  /\ tasks = <<>> /\ wake = FALSE /\ ready = <<>>
  /\ poster = [p \in Posters |-> [posted |-> 0, pushed |-> FALSE]]
  /\ stopper = "no" /\ stopping = FALSE
  /\ at = Place("check") /\ events = <<>> /\ batch = <<>>
  /\ watches = {} /\ timers = {} /\ nextId = 1 /\ now = 0
  /\ ran = <<>> /\ news = {} /\ cancelled = {} /\ fired = {}
-----------------------------------------------------------------------------
\* epoll, external: a token with news joins the list unless it is there.
Reported(token) == IF token \in Range(ready) THEN ready ELSE Append(ready, token)

\* Post: the task is pushed under the mutex, then the eventfd is written.
PostPushes(p) ==
  /\ ~poster[p].pushed /\ poster[p].posted < MaxTasks
  /\ poster' = [poster EXCEPT ![p] = [posted |-> @.posted + 1, pushed |-> TRUE]]
  /\ tasks' = Append(tasks, <<p, poster[p].posted + 1>>)
  /\ UNCHANGED <<wake, ready, stopper, stopping, at, events, batch, registry, now, ran,
                 news, fired>>

Written == wake' = TRUE /\ ready' = Reported(WakeToken)

PostWrites(p) ==
  /\ poster[p].pushed
  /\ poster' = [poster EXCEPT ![p].pushed = FALSE]
  /\ Written
  /\ UNCHANGED <<tasks, stopper, stopping, at, events, batch, registry, now, ran, news,
                 fired>>

\* Stop: stopping_ is set, then an empty task is posted.
StopSets ==
  /\ stopper = "no" /\ stopper' = "set"
  /\ stopping' = TRUE
  /\ UNCHANGED <<tasks, wake, ready, poster, at, events, batch, registry, now, ran, news,
                 fired>>

\* Mutant: Stop leaves it at the flag.
StopPushesNot ==
  /\ stopper = "set" /\ stopper' = "done"
  /\ UNCHANGED <<tasks, wake, ready, poster, stopping, at, events, batch, registry, now,
                 ran, news, fired>>

StopPushes ==
  /\ stopper = "set" /\ stopper' = "pushed"
  /\ tasks' = Append(tasks, Nop)
  /\ UNCHANGED <<wake, ready, poster, stopping, at, events, batch, registry, now, ran,
                 news, fired>>

StopWrites ==
  /\ stopper = "pushed" /\ stopper' = "done"
  /\ Written
  /\ UNCHANGED <<tasks, poster, stopping, at, events, batch, registry, now, ran, news,
                 fired>>

\* A watched descriptor has news (external).
FdNews(w) ==
  /\ ready' = Reported(w.token)
  /\ news' = news \cup {w.token}
  /\ UNCHANGED <<tasks, wake, posting, at, events, batch, registry, now, ran, fired>>

Tick ==
  /\ now < MaxTime /\ now' = now + 1
  /\ UNCHANGED <<tasks, wake, ready, posting, at, events, batch, registry, ran, news, fired>>
-----------------------------------------------------------------------------
\* Run.
still == <<tasks, posting, registry, now, news>>

Checks ==
  /\ at.op = "check"
  /\ at' = Place(IF stopping THEN "returned" ELSE "wait")
  /\ UNCHANGED <<still, wake, ready, events, batch, ran, fired>>

\* epoll_wait drops the eventfd from its list when it was read empty meanwhile.
WaitForgets ==
  /\ at.op = "wait" /\ ready # <<>> /\ Head(ready) = WakeToken /\ ~wake
  /\ ready' = Tail(ready)
  /\ UNCHANGED <<still, wake, at, events, batch, ran, fired>>

WaitReports ==
  /\ at.op = "wait" /\ ready # <<>> /\ (Head(ready) = WakeToken => wake)
  /\ LET n == Min({MaxEvents, Len(ready)}) IN
     /\ events' = SelectSeq(SubSeq(ready, 1, n), LAMBDA t : t = WakeToken => wake)
     /\ ready' = SubSeq(ready, n + 1, Len(ready))
  /\ at' = Place("events")
  /\ UNCHANGED <<still, wake, batch, ran, fired>>

Due == \E t \in timers : t.deadline <= now

\* Mutant: epoll_wait is given no timeout.
TimedOutNever == FALSE

\* epoll_wait's timeout is the earliest deadline.
TimedOut == Due

WaitTimesOut ==
  /\ at.op = "wait" /\ ready = <<>> /\ TimedOut
  /\ at' = Place("timers")
  /\ UNCHANGED <<still, wake, ready, events, batch, ran, fired>>

EventsEnd ==
  /\ at.op = "events" /\ events = <<>>
  /\ at' = Place("timers")
  /\ UNCHANGED <<still, wake, ready, events, batch, ran, fired>>

\* The eventfd is read until it is empty ...
EventWakes ==
  /\ at.op = "events" /\ events # <<>> /\ Head(events) = WakeToken
  /\ events' = Tail(events)
  /\ wake' = FALSE
  /\ at' = Place("swap")
  /\ UNCHANGED <<still, ready, batch, ran, fired>>

\* Mutant: the tasks are copied and stay queued.
SwapCopies ==
  /\ at.op = "swap"
  /\ batch' = tasks
  /\ at' = Place("tasks")
  /\ UNCHANGED <<still, wake, ready, events, ran, fired>>

\* ... and the tasks are taken under the mutex.
Swap ==
  /\ at.op = "swap"
  /\ batch' = tasks /\ tasks' = <<>>
  /\ at' = Place("tasks")
  /\ UNCHANGED <<posting, registry, now, news, wake, ready, events, ran, fired>>

RunsTask ==
  /\ at.op = "tasks" /\ batch # <<>>
  /\ batch' = Tail(batch)
  /\ ran' = Append(ran, Head(batch))
  /\ at' = Body("tasks", WakeToken)
  /\ UNCHANGED <<still, wake, ready, events, fired>>

\* Mutant: the eventfd is read once more when the tasks are done.
TasksEndReads ==
  /\ at.op = "tasks" /\ batch = <<>>
  /\ wake' = FALSE
  /\ at' = Place("events")
  /\ UNCHANGED <<still, ready, events, batch, ran, fired>>

TasksEnd ==
  /\ at.op = "tasks" /\ batch = <<>>
  /\ at' = Place("events")
  /\ UNCHANGED <<still, wake, ready, events, batch, ran, fired>>

Watched(token) == token \in {w.token : w \in watches}

EventCalls ==
  /\ at.op = "events" /\ events # <<>> /\ Head(events) # WakeToken
  /\ events' = Tail(events)
  /\ at' = IF Watched(Head(events)) THEN Body("events", Head(events)) ELSE at
  /\ UNCHANGED <<still, wake, ready, batch, ran, fired>>

\* The first timer of the multimap: equal deadlines keep their order.
First == CHOOSE t \in timers : \A u \in timers :
           t.deadline < u.deadline \/ (t.deadline = u.deadline /\ t.id <= u.id)

TimerFires ==
  /\ at.op = "timers" /\ Due
  /\ timers' = timers \ {First}
  /\ fired' = fired \cup {First.id}
  /\ at' = Body("timers", First.id)
  /\ UNCHANGED <<tasks, posting, watches, nextId, cancelled, now, news, wake, ready, events,
                 batch, ran>>

TimersEnd ==
  /\ at.op = "timers" /\ ~Due
  /\ at' = Place("check")
  /\ UNCHANGED <<still, wake, ready, events, batch, ran, fired>>
-----------------------------------------------------------------------------
\* What a task, a callback or a timer may do on the loop's thread.
inBody == at.op = "body"
beside == <<tasks, wake, posting, at, events, batch, now, ran, fired>>

\* Mutant: a token is used again once its watch is gone.
TokenReused == Min((1 .. MaxIds + 1) \ {w.token : w \in watches})

Token == nextId

Add(fd) ==
  /\ inBody /\ nextId <= MaxIds /\ fd \notin {w.fd : w \in watches}
  /\ watches' = watches \cup {[token |-> Token, fd |-> fd]}
  /\ nextId' = nextId + 1
  /\ news' = news \ {Token}
  /\ UNCHANGED <<beside, ready, timers, cancelled>>

\* The descriptor is watched for other events, some of which may be there.
Modify(w) ==
  /\ inBody
  /\ ready' = Reported(w.token)
  /\ news' = news \cup {w.token}
  /\ UNCHANGED <<beside, registry>>

\* EPOLL_CTL_DEL takes the token off epoll's list, but not out of events.
Remove(w) ==
  /\ inBody
  /\ watches' = watches \ {w}
  /\ ready' = SelectSeq(ready, LAMBDA t : t # w.token)
  /\ UNCHANGED <<beside, timers, nextId, cancelled, news>>

At(deadline) ==
  /\ inBody /\ nextId <= MaxIds
  /\ timers' = timers \cup {[id |-> nextId, deadline |-> deadline]}
  /\ nextId' = nextId + 1
  /\ UNCHANGED <<beside, ready, watches, cancelled, news>>

Without(id) == {t \in timers : t.id # id}

\* Cancel of any identifier: of a timer that is set, has fired or never was.
Cancel(id) ==
  /\ inBody
  /\ timers' = Without(id)
  /\ cancelled' = cancelled \cup ({id} \cap {t.id : t \in timers})
  /\ UNCHANGED <<beside, ready, watches, nextId, news>>

Returns ==
  /\ inBody
  /\ at' = Place(at.back)
  /\ UNCHANGED <<still, wake, ready, events, batch, ran, fired>>

Operation ==
  \/ \E fd \in Fds : Add(fd)
  \/ \E w \in watches : Modify(w) \/ Remove(w)
  \/ \E deadline \in now .. MaxTime : At(deadline)
  \/ \E id \in 1 .. MaxIds : Cancel(id)
-----------------------------------------------------------------------------
Run ==
  \/ Checks \/ WaitForgets \/ WaitReports \/ WaitTimesOut \/ EventsEnd \/ EventWakes
  \/ Swap \/ RunsTask \/ TasksEnd \/ EventCalls \/ TimerFires \/ TimersEnd \/ Returns

Next ==
  \/ Run \/ Operation \/ Tick \/ StopSets \/ StopPushes \/ StopWrites
  \/ \E p \in Posters : PostPushes(p) \/ PostWrites(p)
  \/ \E w \in watches : FdNews(w)

Spec == Init /\ [][Next]_vars

\* The loop's thread goes on, bodies return, and whoever is inside Post or Stop
\* comes out.  Strong fairness for Returns: operations keep it enabled.
FairSpec ==
  /\ Spec /\ WF_vars(Run) /\ SF_vars(Returns)
  /\ WF_vars(StopPushes) /\ WF_vars(StopWrites) /\ \A p \in Posters : WF_vars(PostWrites(p))
-----------------------------------------------------------------------------
\* Properties.

Ids == 1 .. MaxIds

\* No lost wakeup: when tasks wait and the loop is in epoll_wait, the eventfd
\* has news for epoll, or a thread is still between its push and its write.
NoLostWakeup ==
  tasks # <<>> /\ at.op = "wait" =>
    \/ wake /\ WakeToken \in Range(ready)
    \/ stopper = "pushed" \/ \E p \in Posters : poster[p].pushed

\* Tasks run in the order they were posted in, none twice and none passed over:
\* what ran, is about to run and waits is each poster's sequence so far.
PostedInOrder ==
  \A p \in Posters :
    SelectSeq(ran \o batch \o tasks, LAMBDA t : t[1] = p)
      = [n \in 1 .. poster[p].posted |-> <<p, n>>]

\* What was removed stays silent: a callback runs only for news of its own
\* watch, so an event that Run still holds for a removed watch does not reach
\* the next watch of that descriptor, and a timer that was cancelled before it
\* fired never fires.
NoStaleEvent ==
  /\ at.op = "body" /\ at.back = "events" => at.token \in news
  /\ cancelled \cap fired = {}

\* A timer whose deadline is past fires, unless it is cancelled or the loop is
\* stopped, also when nothing else wakes the loop.
DueFires ==
  \A id \in Ids :
    (\E t \in timers : t.id = id /\ t.deadline <= now) ~> id \in fired \cup cancelled \/ stopping

\* After Stop, wherever the loop is, Run returns.
StopReturns == stopping ~> at.op = "returned"
=============================================================================
