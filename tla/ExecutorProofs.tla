--------------------------- MODULE ExecutorProofs ---------------------------
(***************************************************************************)
(* The executor drains and loses no notification, for every number of      *)
(* tasks and workers and every capacity.                                   *)
(***************************************************************************)
EXTENDS Executor, TLAPS

TypeOK ==
  /\ queue \in Seq(Tasks)
  /\ submit \in [Tasks -> {"new", "pushed", "admitted", "closed", "overloaded"}]
  /\ worker \in [Workers -> [at : {"check", "wait", "run", "left"}, task : Tasks \cup {NoTask}]]
  /\ owner \in {"up", "set", "join", "done"}
  /\ runs \in [Tasks -> Nat]

Queued(t) == \E i \in 1 .. Len(queue) : queue[i] = t
Running(t) == \E w \in Workers : worker[w].at = "run" /\ worker[w].task = t

\* An admitted task is in one place: in the queue, with one worker, or done.
OnePlace ==
  /\ \A i, j \in 1 .. Len(queue) : queue[i] = queue[j] => i = j
  /\ \A v, w \in Workers :
       worker[v].at = "run" /\ worker[w].at = "run" /\ worker[v].task = worker[w].task => v = w
  /\ \A w \in Workers : worker[w].at = "run" => worker[w].task \in Tasks
  /\ \A t \in Tasks :
       /\ Queued(t) => Admitted(t) /\ runs[t] = 0 /\ ~Running(t)
       /\ Running(t) => Admitted(t) /\ runs[t] = 0
       /\ runs[t] <= 1 /\ (runs[t] = 1 => Admitted(t))
       /\ Admitted(t) => Queued(t) \/ Running(t) \/ runs[t] = 1

\* A worker leaves only when nothing can be queued any more.
LeftLast ==
  /\ stopping <=> owner # "up"
  /\ (\E w \in Workers : worker[w].at = "left") => stopping /\ queue = <<>>
  /\ owner = "done" => \A w \in Workers : worker[w].at = "left"

IInv == TypeOK /\ OnePlace /\ LeftLast /\ NoLostNotification
-----------------------------------------------------------------------------
\* What waking workers changes.
LEMMA WokenProperties ==
  ASSUME TypeOK, NEW some \in SUBSET Waiting
  PROVE  /\ Woken(some) \in [Workers -> [at : {"check", "wait", "run", "left"}, task : Tasks \cup {NoTask}]]
         /\ \A w \in Workers :
              /\ Woken(some)[w].task = worker[w].task
              /\ Woken(some)[w].at = IF w \in some THEN "check" ELSE worker[w].at
BY DEF TypeOK, Woken, Waiting

LEMMA NotifiedProperties ==
  ASSUME NEW some \in Notified
  PROVE  some \in SUBSET Waiting /\ (Waiting # {} => some # {})
BY DEF Notified

LEMMA TypeStep ==
  ASSUME ExecutorAssumption, TypeOK, OnePlace, [Next]_vars
  PROVE  TypeOK'
<1>1. /\ queue \in Seq(Tasks)
      /\ submit \in [Tasks -> {"new", "pushed", "admitted", "closed", "overloaded"}]
      /\ worker \in [Workers -> [at : {"check", "wait", "run", "left"}, task : Tasks \cup {NoTask}]]
      /\ owner \in {"up", "set", "join", "done"} /\ runs \in [Tasks -> Nat]
  BY DEF TypeOK
<1>2. ASSUME NEW t \in Tasks, SubmitPushes(t) \/ SubmitRejects(t) PROVE TypeOK'
  <2>1. queue' = Append(queue, t) \/ queue' = queue
    BY <1>2 DEF SubmitPushes, SubmitRejects
  <2>2. queue' \in Seq(Tasks)
    <3>1. queue \in Seq(Tasks)
      BY <1>1
    <3> QED BY <2>1, <3>1
  <2>3. submit' \in [Tasks -> {"new", "pushed", "admitted", "closed", "overloaded"}]
    <3>1. CASE SubmitPushes(t)
      BY <1>1, <3>1 DEF SubmitPushes
    <3>2. CASE SubmitRejects(t)
      BY <1>1, <3>2 DEF SubmitRejects
    <3> QED BY <1>2, <3>1, <3>2
  <2>4. UNCHANGED <<worker, owner, runs>>
    BY <1>2 DEF SubmitPushes, SubmitRejects
  <2> QED BY <1>1, <2>2, <2>3, <2>4 DEF TypeOK
<1>3. ASSUME NEW t \in Tasks, SubmitNotifies(t) PROVE TypeOK'
  <2>1. PICK some \in Notified : worker' = Woken(some)
    BY <1>3 DEF SubmitNotifies
  <2> QED BY <1>1, <1>3, <2>1, NotifiedProperties, WokenProperties DEF SubmitNotifies, TypeOK
<1>4. ASSUME NEW w \in Workers, WorkerChecks(w) PROVE TypeOK'
  <2>1. queue # <<>> => Head(queue) \in Tasks /\ Tail(queue) \in Seq(Tasks)
    BY <1>1
  <2>2. \/ queue' = queue /\ worker' = [worker EXCEPT ![w].at = "left"]
        \/ queue' = queue /\ worker' = [worker EXCEPT ![w].at = "wait"]
        \/ /\ queue # <<>> /\ queue' = Tail(queue)
           /\ worker' = [worker EXCEPT ![w] = [at |-> "run", task |-> Head(queue)]]
    BY <1>4 DEF WorkerChecks
  <2>3. queue' \in Seq(Tasks)
    <3>1. queue \in Seq(Tasks)
      BY <1>1
    <3> QED BY <2>1, <2>2, <3>1
  <2>4. worker' \in [Workers -> [at : {"check", "wait", "run", "left"}, task : Tasks \cup {NoTask}]]
    <3>1. worker \in [Workers -> [at : {"check", "wait", "run", "left"}, task : Tasks \cup {NoTask}]]
      BY <1>1
    <3>2. CASE queue # <<>> /\ worker' = [worker EXCEPT ![w] = [at |-> "run", task |-> Head(queue)]]
      BY <2>1, <3>1, <3>2
    <3>3. CASE worker' = [worker EXCEPT ![w].at = "left"] \/ worker' = [worker EXCEPT ![w].at = "wait"]
      BY <3>1, <3>3
    <3> QED BY <2>2, <3>2, <3>3
  <2>5. UNCHANGED <<submit, owner, runs>>
    BY <1>4 DEF WorkerChecks
  <2> QED BY <1>1, <2>3, <2>4, <2>5 DEF TypeOK
<1>5. ASSUME NEW w \in Workers, WorkerRuns(w) PROVE TypeOK'
  BY <1>1, <1>5 DEF WorkerRuns, OnePlace, TypeOK
<1>6. CASE StopSets \/ StopJoins
  BY <1>1, <1>6 DEF StopSets, StopJoins, TypeOK
<1>7. CASE StopNotifies
  BY <1>1, <1>7, WokenProperties DEF StopNotifies, NotifiedAll, TypeOK
<1>8. CASE UNCHANGED vars
  BY <1>1, <1>8 DEF vars, TypeOK
<1> QED BY <1>2, <1>3, <1>4, <1>5, <1>6, <1>7, <1>8 DEF Next, Work

\* Steps that move no task.
LEMMA SamePlace ==
  ASSUME TypeOK, OnePlace, queue' = queue, runs' = runs,
         \A t \in Tasks : Admitted(t)' <=> Admitted(t),
         \A w \in Workers : /\ worker'[w].at = "run" <=> worker[w].at = "run"
                            /\ worker[w].at = "run" => worker'[w].task = worker[w].task
  PROVE  OnePlace'
BY DEF OnePlace, Queued, Running

LEMMA PlaceStep ==
  ASSUME ExecutorAssumption, TypeOK, OnePlace, [Next]_vars
  PROVE  OnePlace'
<1>1. ASSUME NEW t \in Tasks, SubmitPushes(t) PROVE OnePlace'
  <2>1. /\ Len(queue') = Len(queue) + 1 /\ queue'[Len(queue) + 1] = t
        /\ \A i \in 1 .. Len(queue) : queue'[i] = queue[i]
    BY <1>1 DEF SubmitPushes, TypeOK
  <2>2. worker' = worker /\ runs' = runs /\ submit[t] = "new"
        /\ submit' = [submit EXCEPT ![t] = "pushed"]
    BY <1>1 DEF SubmitPushes
  <2>3. Len(queue) \in Nat
    BY DEF TypeOK
  <2>4. ~Admitted(t) /\ ~Queued(t) /\ ~Running(t) /\ runs[t] = 0
    <3>1. ~Admitted(t) /\ runs[t] \in Nat
      BY <2>2 DEF Admitted, TypeOK
    <3> QED BY <3>1 DEF OnePlace
  <2>5. \A u \in Tasks : /\ Running(u)' <=> Running(u)
                         /\ Queued(u)' <=> Queued(u) \/ u = t
                         /\ Admitted(u)' <=> Admitted(u) \/ u = t
    <3>1. \A u \in Tasks : Queued(u)' <=> Queued(u) \/ u = t
      BY <2>1, <2>3 DEF Queued
    <3>2. \A u \in Tasks : Admitted(u)' <=> Admitted(u) \/ u = t
      BY <2>2 DEF Admitted, TypeOK
    <3> QED BY <2>2, <3>1, <3>2 DEF Running
  <2>6. \A i, j \in 1 .. Len(queue') : queue'[i] = queue'[j] => i = j
    BY <2>1, <2>3, <2>4 DEF Queued, OnePlace
  <2> QED BY <2>2, <2>4, <2>5, <2>6 DEF OnePlace
<1>2. ASSUME NEW t \in Tasks, SubmitRejects(t) PROVE OnePlace'
  BY <1>2, SamePlace DEF SubmitRejects, Admitted, TypeOK
<1>3. ASSUME NEW t \in Tasks, SubmitNotifies(t) PROVE OnePlace'
  <2>1. PICK some \in Notified : worker' = Woken(some)
    BY <1>3 DEF SubmitNotifies
  <2>2. \A w \in Workers : /\ worker'[w].at = "run" <=> worker[w].at = "run"
                           /\ worker'[w].task = worker[w].task
    BY <2>1, NotifiedProperties, WokenProperties DEF Waiting
  <2> QED BY <1>3, <2>2, SamePlace DEF SubmitNotifies, Admitted, TypeOK
<1>4. ASSUME NEW w \in Workers, WorkerChecks(w), queue' = queue PROVE OnePlace'
  <2>1. CASE queue = <<>> \/ Leaves
    <3>1. /\ worker[w].at = "check"
          /\ \/ worker' = [worker EXCEPT ![w].at = "left"]
             \/ worker' = [worker EXCEPT ![w].at = "wait"]
      BY <1>4, <2>1 DEF WorkerChecks
    <3>2. /\ \A v \in Workers : worker'[v].at = "run" <=> worker[v].at = "run"
          /\ \A v \in Workers : worker'[v].task = worker[v].task
      <4>1. worker \in [Workers -> [at : {"check", "wait", "run", "left"}, task : Tasks \cup {NoTask}]]
        BY DEF TypeOK
      <4>2. CASE worker' = [worker EXCEPT ![w].at = "left"]
        BY <3>1, <4>1, <4>2
      <4>3. CASE worker' = [worker EXCEPT ![w].at = "wait"]
        BY <3>1, <4>1, <4>3
      <4> QED BY <3>1, <4>2, <4>3
    <3> QED BY <1>4, <3>2, SamePlace DEF WorkerChecks, Admitted
  <2>2. CASE queue # <<>> /\ ~Leaves
    BY <1>4, <2>2 DEF WorkerChecks, TypeOK
  <2> QED BY <2>1, <2>2
<1>5. ASSUME NEW w \in Workers, WorkerChecks(w), queue' # queue PROVE OnePlace'
  <2> DEFINE t == queue[1]
  <2>1. /\ queue # <<>> /\ t \in Tasks /\ worker[w].at = "check"
        /\ worker' = [worker EXCEPT ![w] = [at |-> "run", task |-> t]]
        /\ Len(queue) \in Nat \ {0} /\ Len(queue') = Len(queue) - 1
        /\ \A i \in 1 .. Len(queue') : queue'[i] = queue[i + 1]
        /\ submit' = submit /\ runs' = runs
    BY <1>5 DEF WorkerChecks, TypeOK
  <2> HIDE DEF t
  <2>2. \A u \in Tasks : Queued(u)' <=> Queued(u) /\ u # t
    <3>1. t = queue[1]
      BY DEF t
    <3>2. ASSUME NEW u \in Tasks, Queued(u), u # t PROVE Queued(u)'
      <4>1. PICK i \in 1 .. Len(queue) : queue[i] = u
        BY <3>2 DEF Queued
      <4>2. i - 1 \in 1 .. Len(queue') /\ queue'[i - 1] = u
        BY <2>1, <3>1, <3>2, <4>1
      <4> QED BY <4>2 DEF Queued
    <3>3. ASSUME NEW u \in Tasks, Queued(u)' PROVE Queued(u) /\ u # t
      <4>1. PICK i \in 1 .. Len(queue') : queue'[i] = u
        BY <3>3 DEF Queued
      <4>2. i + 1 \in 1 .. Len(queue) /\ queue[i + 1] = u /\ 1 \in 1 .. Len(queue)
        BY <2>1, <4>1
      <4> QED BY <2>1, <3>1, <4>2 DEF Queued, OnePlace
    <3> QED BY <3>2, <3>3
  <2>3. \A v \in Workers : worker'[v] = IF v = w THEN [at |-> "run", task |-> t] ELSE worker[v]
    BY <2>1 DEF TypeOK
  <2>4. \A u \in Tasks : Running(u)' <=> Running(u) \/ u = t
    BY <2>1, <2>3 DEF Running
  <2>5. Queued(t) /\ Admitted(t) /\ runs[t] = 0 /\ ~Running(t)
    BY <2>1 DEF t, Queued, OnePlace
  <2>6. \A i, j \in 1 .. Len(queue') : queue'[i] = queue'[j] => i = j
    BY <2>1 DEF OnePlace
  <2>7. \A u, v \in Workers : worker'[u].at = "run" /\ worker'[v].at = "run"
                                /\ worker'[u].task = worker'[v].task => u = v
    BY <2>3, <2>5 DEF OnePlace, Running
  <2>8. \A u \in Tasks : Admitted(u)' <=> Admitted(u)
    BY <2>1 DEF Admitted
  <2>9. \A v \in Workers : worker'[v].at = "run" => worker'[v].task \in Tasks
    BY <2>1, <2>3 DEF OnePlace
  <2>10. \A u \in Tasks :
           /\ Queued(u)' => Admitted(u)' /\ runs'[u] = 0 /\ ~Running(u)'
           /\ Running(u)' => Admitted(u)' /\ runs'[u] = 0
           /\ runs'[u] <= 1 /\ (runs'[u] = 1 => Admitted(u)')
           /\ Admitted(u)' => Queued(u)' \/ Running(u)' \/ runs'[u] = 1
    BY <2>1, <2>2, <2>4, <2>5, <2>8 DEF OnePlace
  <2> QED BY <2>6, <2>7, <2>9, <2>10 DEF OnePlace
<1>6. ASSUME NEW w \in Workers, WorkerRuns(w) PROVE OnePlace'
  <2> DEFINE t == worker[w].task
  <2>1. /\ t \in Tasks /\ worker[w].at = "run" /\ queue' = queue /\ submit' = submit
        /\ runs' = [runs EXCEPT ![t] = @ + 1]
        /\ worker' = [worker EXCEPT ![w] = [at |-> "check", task |-> NoTask]]
    BY <1>6 DEF WorkerRuns, OnePlace
  <2>2. Running(t) /\ Admitted(t) /\ runs[t] = 0 /\ ~Queued(t)
    BY <2>1 DEF OnePlace, Running
  <2>3. \A u \in Tasks : Running(u)' <=> Running(u) /\ u # t
    BY <2>1 DEF Running, OnePlace, TypeOK
  <2>4. \A u \in Tasks : runs'[u] = IF u = t THEN 1 ELSE runs[u]
    BY <2>1, <2>2 DEF TypeOK
  <2>5. \A u \in Tasks : (Queued(u)' <=> Queued(u)) /\ (Admitted(u)' <=> Admitted(u))
    BY <2>1 DEF Queued, Admitted
  <2>6. \A v \in Workers : worker'[v].at = "run" => worker[v].at = "run" /\ worker'[v] = worker[v]
    BY <2>1 DEF TypeOK
  <2> QED BY <2>1, <2>2, <2>3, <2>4, <2>5, <2>6 DEF OnePlace
<1>7. CASE StopSets \/ StopJoins
  BY <1>7, SamePlace DEF StopSets, StopJoins, Admitted
<1>8. CASE StopNotifies
  <2>1. \A w \in Workers : /\ worker'[w].at = "run" <=> worker[w].at = "run"
                           /\ worker'[w].task = worker[w].task
    BY <1>8, WokenProperties DEF StopNotifies, NotifiedAll, Waiting
  <2> QED BY <1>8, <2>1, SamePlace DEF StopNotifies, Admitted
<1>9. CASE UNCHANGED vars
  BY <1>9, SamePlace DEF vars, Admitted
<1> QED BY <1>1, <1>2, <1>3, <1>4, <1>5, <1>6, <1>7, <1>8, <1>9 DEF Next, Work

LEMMA LeftStep ==
  ASSUME ExecutorAssumption, TypeOK, LeftLast, [Next]_vars
  PROVE  LeftLast'
<1>1. ASSUME NEW t \in Tasks, SubmitPushes(t) \/ SubmitRejects(t) PROVE LeftLast'
  BY <1>1 DEF SubmitPushes, SubmitRejects, Accepts, LeftLast
<1>2. ASSUME NEW t \in Tasks, SubmitNotifies(t) PROVE LeftLast'
  <2>1. PICK some \in Notified : worker' = Woken(some)
    BY <1>2 DEF SubmitNotifies
  <2>2. \A w \in Workers : worker'[w].at = "left" <=> worker[w].at = "left"
    BY <2>1, NotifiedProperties, WokenProperties DEF Waiting
  <2> QED BY <1>2, <2>2 DEF SubmitNotifies, LeftLast
<1>3. ASSUME NEW w \in Workers, WorkerChecks(w) PROVE LeftLast'
  <2>1. worker[w].at = "check" /\ UNCHANGED <<stopping, owner>>
    BY <1>3 DEF WorkerChecks
  <2>2. owner # "done"
    BY <2>1 DEF LeftLast
  <2>3. CASE Leaves
    BY <1>3, <2>1, <2>2, <2>3 DEF WorkerChecks, LeftLast, Leaves
  <2>4. CASE ~Leaves
    <3>1. \/ queue' = queue /\ worker' = [worker EXCEPT ![w].at = "wait"]
          \/ queue # <<>> /\ worker' = [worker EXCEPT ![w] = [at |-> "run", task |-> Head(queue)]]
      BY <1>3, <2>4 DEF WorkerChecks
    <3>2. \A v \in Workers : worker'[v].at = "left" => worker[v].at = "left"
      <4>1. worker \in [Workers -> [at : {"check", "wait", "run", "left"}, task : Tasks \cup {NoTask}]]
        BY DEF TypeOK
      <4>2. CASE worker' = [worker EXCEPT ![w].at = "wait"]
        BY <4>1, <4>2
      <4>3. CASE worker' = [worker EXCEPT ![w] = [at |-> "run", task |-> Head(queue)]]
        BY <4>1, <4>3
      <4> QED BY <3>1, <4>2, <4>3
    <3> QED BY <2>1, <2>2, <3>1, <3>2 DEF LeftLast
  <2> QED BY <2>3, <2>4
<1>4. ASSUME NEW w \in Workers, WorkerRuns(w) PROVE LeftLast'
  <2>1. worker[w].at = "run" /\ UNCHANGED <<stopping, owner, queue>>
    BY <1>4 DEF WorkerRuns
  <2>2. \A v \in Workers : worker'[v].at = "left" => worker[v].at = "left"
    BY <1>4 DEF WorkerRuns, TypeOK
  <2> QED BY <2>1, <2>2 DEF LeftLast
<1>5. CASE StopSets \/ StopJoins
  BY <1>5 DEF StopSets, StopJoins, LeftLast
<1>6. CASE StopNotifies
  <2>1. \A w \in Workers : worker'[w].at = "left" <=> worker[w].at = "left"
    BY <1>6, WokenProperties DEF StopNotifies, NotifiedAll, Waiting
  <2> QED BY <1>6, <2>1 DEF StopNotifies, LeftLast
<1>7. CASE UNCHANGED vars
  BY <1>7 DEF vars, LeftLast
<1> QED BY <1>1, <1>2, <1>3, <1>4, <1>5, <1>6, <1>7 DEF Next, Work

LEMMA NotificationStep ==
  ASSUME ExecutorAssumption, TypeOK, NoLostNotification, [Next]_vars
  PROVE  NoLostNotification'
<1>1. ASSUME NEW t \in Tasks, SubmitPushes(t) PROVE NoLostNotification'
  <2>1. submit'[t] = "pushed"
    BY <1>1 DEF SubmitPushes, TypeOK
  <2> QED BY <2>1 DEF NoLostNotification
<1>2. ASSUME NEW t \in Tasks, SubmitRejects(t) PROVE NoLostNotification'
  <2>1. \A u \in Tasks : submit[u] = "pushed" => submit'[u] = "pushed"
    BY <1>2 DEF SubmitRejects, TypeOK
  <2> QED BY <1>2, <2>1 DEF SubmitRejects, NoLostNotification, Waiting
<1>3. ASSUME NEW t \in Tasks, SubmitNotifies(t) PROVE NoLostNotification'
  <2>1. PICK some \in Notified : worker' = Woken(some)
    BY <1>3 DEF SubmitNotifies
  <2>2. Waiting' # Workers
    <3>1. CASE Waiting = {}
      <4>1. \A w \in Workers : worker'[w].at # "wait"
        BY <2>1, <3>1, NotifiedProperties, WokenProperties DEF Waiting
      <4> QED BY <4>1 DEF Waiting, ExecutorAssumption
    <3>2. CASE Waiting # {}
      <4>1. PICK w \in Workers : w \in some
        BY <2>1, <3>2, NotifiedProperties DEF Waiting
      <4>2. worker'[w].at = "check"
        BY <2>1, <4>1, NotifiedProperties, WokenProperties
      <4> QED BY <4>1, <4>2 DEF Waiting
    <3> QED BY <3>1, <3>2
  <2> QED BY <2>2 DEF NoLostNotification
<1>4. ASSUME NEW w \in Workers, Work(w) PROVE NoLostNotification'
  <2>1. CASE queue' = <<>>
    BY <2>1 DEF NoLostNotification
  <2>2. CASE queue' # <<>>
    <3>1. CASE WorkerRuns(w)
      BY <3>1 DEF WorkerRuns, TypeOK, NoLostNotification, Waiting
    <3>2. CASE WorkerChecks(w)
      <4>1. \/ worker' = [worker EXCEPT ![w].at = "left"]
            \/ worker' = [worker EXCEPT ![w] = [at |-> "run", task |-> Head(queue)]]
        BY <2>2, <3>2 DEF WorkerChecks
      <4>2. worker'[w].at # "wait"
        BY <4>1 DEF TypeOK
      <4> QED BY <4>2 DEF NoLostNotification, Waiting
    <3> QED BY <1>4, <3>1, <3>2 DEF Work
  <2> QED BY <2>1, <2>2
<1>5. CASE StopSets \/ StopJoins
  BY <1>5 DEF StopSets, StopJoins, NoLostNotification, Waiting
<1>6. CASE StopNotifies
  <2>1. \A w \in Workers : worker'[w].at # "wait"
    BY <1>6, WokenProperties DEF StopNotifies, NotifiedAll, Waiting
  <2> QED BY <2>1 DEF NoLostNotification, Waiting, ExecutorAssumption
<1>7. CASE UNCHANGED vars
  BY <1>7 DEF vars, NoLostNotification, Waiting
<1> QED BY <1>1, <1>2, <1>3, <1>4, <1>5, <1>6, <1>7 DEF Next
-----------------------------------------------------------------------------
LEMMA InitIInv ==
  ASSUME ExecutorAssumption, Init
  PROVE  IInv
<1>1. TypeOK
  BY DEF Init, TypeOK
<1>2. \A t \in Tasks : ~Queued(t) /\ ~Running(t) /\ ~Admitted(t) /\ runs[t] = 0
  BY DEF Init, Queued, Running, Admitted
<1>3. OnePlace
  BY <1>2 DEF Init, OnePlace
<1> QED BY <1>1, <1>3 DEF Init, IInv, LeftLast, NoLostNotification

LEMMA DrainedInv ==
  ASSUME ExecutorAssumption, IInv
  PROVE  DestructionDrains
<1>1. \A t \in Tasks : runs[t] \in Nat
  BY DEF IInv, TypeOK
<1>2. \A t \in Tasks : runs[t] <= (IF Admitted(t) THEN 1 ELSE 0)
  BY <1>1 DEF IInv, OnePlace
<1>3. ASSUME owner = "done" PROVE \A t \in Tasks : ~Queued(t) /\ ~Running(t)
  <2>1. queue = <<>> /\ \A w \in Workers : worker[w].at = "left"
    BY <1>3 DEF IInv, LeftLast, ExecutorAssumption
  <2> QED BY <2>1 DEF Queued, Running
<1> QED BY <1>2, <1>3 DEF IInv, OnePlace, DestructionDrains

\* "Destruction drains admitted work and joins workers" (executor.h), however many
\* tasks and workers there are: when Stop returns every admitted task ran once, and
\* none ever runs twice or without having been admitted.
THEOREM Drains ==
  ASSUME ExecutorAssumption
  PROVE  Spec => []DestructionDrains
<1>1. Init => IInv
  BY InitIInv
<1>2. IInv /\ [Next]_vars => IInv'
  BY TypeStep, PlaceStep, LeftStep, NotificationStep DEF IInv
<1>3. IInv => DestructionDrains
  BY DrainedInv
<1> QED BY <1>1, <1>2, <1>3, PTL DEF Spec

\* Tasks are queued while every worker waits only until the notification of a
\* caller that just pushed, although it comes after the mutex is released.
THEOREM NotificationsReach ==
  ASSUME ExecutorAssumption
  PROVE  Spec => []NoLostNotification
<1>1. Init => IInv
  BY InitIInv
<1>2. IInv /\ [Next]_vars => IInv'
  BY TypeStep, PlaceStep, LeftStep, NotificationStep DEF IInv
<1>3. IInv => NoLostNotification
  BY DEF IInv
<1> QED BY <1>1, <1>2, <1>3, PTL DEF Spec
=============================================================================
