------------------------------ MODULE Executor ------------------------------
(***************************************************************************)
(* The standalone thread pool of include/kvrpc/executor.h: a bounded queue *)
(* under a mutex, a condition variable on which a notification is lost     *)
(* when no worker waits, and a destructor that drains.                     *)
(***************************************************************************)
EXTENDS Integers, Sequences, FiniteSets, Functions

CONSTANTS Tasks,      \* what callers submit
          Workers,    \* worker threads
          Capacity,   \* capacity_
          NoTask

ExecutorAssumption ==
  /\ Capacity \in Nat \ {0} /\ NoTask \notin Tasks
  /\ IsFiniteSet(Tasks) /\ IsFiniteSet(Workers) /\ Workers # {}

VARIABLES
  queue, stopping,   \* tasks_, stopping_
  submit,            \* the call that submits each task
  worker,            \* the workers: where in Run, and with which task
  owner,             \* where the owner is in Stop
  runs               \* auxiliary: how often each task ran

vars == <<queue, stopping, submit, worker, owner, runs>>

Init ==
  /\ queue = <<>> /\ stopping = FALSE
  /\ submit = [t \in Tasks |-> "new"]
  /\ worker = [w \in Workers |-> [at |-> "check", task |-> NoTask]]
  /\ owner = "up"
  /\ runs = [t \in Tasks |-> 0]
-----------------------------------------------------------------------------
Accepts == ~stopping /\ Len(queue) < Capacity

SubmitPushes(t) ==
  /\ submit[t] = "new" /\ owner # "done" /\ Accepts
  /\ queue' = Append(queue, t)
  /\ submit' = [submit EXCEPT ![t] = "pushed"]
  /\ UNCHANGED <<stopping, worker, owner, runs>>

SubmitRejects(t) ==
  /\ submit[t] = "new" /\ owner # "done" /\ ~Accepts
  /\ submit' = [submit EXCEPT ![t] = IF stopping THEN "closed" ELSE "overloaded"]
  /\ UNCHANGED <<queue, stopping, worker, owner, runs>>

Waiting == {w \in Workers : worker[w].at = "wait"}
Woken(some) == [w \in Workers |-> IF w \in some THEN [worker[w] EXCEPT !.at = "check"]
                                  ELSE worker[w]]

\* Mutant: notify_one is left out.
NotifiedNone == {{}}

\* The sets of workers notify_one may wake.
Notified == IF Waiting = {} THEN {{}} ELSE {{w} : w \in Waiting}

\* ready_.notify_one(), after the mutex is released.
SubmitNotifies(t) ==
  /\ submit[t] = "pushed"
  /\ \E some \in Notified : worker' = Woken(some)
  /\ submit' = [submit EXCEPT ![t] = "admitted"]
  /\ UNCHANGED <<queue, stopping, owner, runs>>

\* Mutant: a worker leaves when the executor stops, whatever is queued.
LeavesAtOnce == stopping
Leaves == stopping /\ queue = <<>>

\* With the mutex held: leave, take a task, or wait.
WorkerChecks(w) ==
  /\ worker[w].at = "check"
  /\ \/ /\ Leaves
        /\ worker' = [worker EXCEPT ![w].at = "left"]
        /\ UNCHANGED queue
     \/ /\ ~Leaves /\ queue # <<>>
        /\ worker' = [worker EXCEPT ![w] = [at |-> "run", task |-> Head(queue)]]
        /\ queue' = Tail(queue)
     \/ /\ ~Leaves /\ queue = <<>>
        /\ worker' = [worker EXCEPT ![w].at = "wait"]
        /\ UNCHANGED queue
  /\ UNCHANGED <<stopping, submit, owner, runs>>

\* A packaged task: what it throws goes into its future.
WorkerRuns(w) ==
  /\ worker[w].at = "run"
  /\ runs' = [runs EXCEPT ![worker[w].task] = @ + 1]
  /\ worker' = [worker EXCEPT ![w] = [at |-> "check", task |-> NoTask]]
  /\ UNCHANGED <<queue, stopping, submit, owner>>

StopSets ==
  /\ owner = "up" /\ owner' = "set"
  /\ stopping' = TRUE
  /\ UNCHANGED <<queue, submit, worker, runs>>

\* Mutant: one worker is woken, where all have to be.
NotifiedAllOne == IF Waiting = {} THEN {} ELSE {CHOOSE w \in Waiting : TRUE}
NotifiedAll == Waiting

StopNotifies ==
  /\ owner = "set" /\ owner' = "join"
  /\ worker' = Woken(NotifiedAll)
  /\ UNCHANGED <<queue, stopping, submit, runs>>

StopJoins ==
  /\ owner = "join" /\ owner' = "done"
  /\ \A w \in Workers : worker[w].at = "left"
  /\ UNCHANGED <<queue, stopping, submit, worker, runs>>

Work(w) == WorkerChecks(w) \/ WorkerRuns(w)

Next ==
  \/ \E t \in Tasks : SubmitPushes(t) \/ SubmitRejects(t) \/ SubmitNotifies(t)
  \/ \E w \in Workers : Work(w)
  \/ StopSets \/ StopNotifies \/ StopJoins

Spec == Init /\ [][Next]_vars

\* Threads run; callers inside Submit and an owner inside Stop go on.
Fairness ==
  /\ \A w \in Workers : WF_vars(Work(w))
  /\ \A t \in Tasks : WF_vars(SubmitNotifies(t))
  /\ WF_vars(StopNotifies) /\ WF_vars(StopJoins)

FairSpec == Spec /\ Fairness
-----------------------------------------------------------------------------
Admitted(t) == submit[t] \in {"pushed", "admitted"}

\* "Destruction drains admitted work and joins workers": once Stop returns,
\* every admitted task ran, and no task ever runs twice or without admission.
DestructionDrains ==
  /\ \A t \in Tasks : runs[t] <= (IF Admitted(t) THEN 1 ELSE 0)
  /\ owner = "done" => \A t \in Tasks : Admitted(t) => runs[t] = 1

\* No lost wakeup: tasks are queued while every worker waits only until the
\* notification of a caller that just pushed.
NoLostNotification ==
  queue # <<>> /\ Waiting = Workers => \E t \in Tasks : submit[t] = "pushed"

\* The destructor returns.
StopReturns == owner = "set" ~> owner = "done"
=============================================================================
