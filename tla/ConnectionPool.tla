--------------------------- MODULE ConnectionPool ---------------------------
(***************************************************************************)
(* The synchronous pool of include/kvrpc/connection_pool.h with the        *)
(* connections of src/tcp_connection.cpp: threads lease a connection, wait *)
(* for one on a condition variable with a timeout, and give it back, while *)
(* the pool may be closed at any time.  A lease outlives the pool.         *)
(***************************************************************************)
EXTENDS Integers, Sequences, FiniteSets, Functions

CONSTANTS Threads, Conns, NoConn

PoolAssumption ==
  NoConn \notin Conns /\ IsFiniteSet(Conns) /\ IsFiniteSet(Threads)

VARIABLES
  free, closed,    \* State: free is a stack
  connected,       \* connections with an open socket
  user,            \* the threads: where in Acquire, with which connection, what came of it
  closer           \* where the thread that closes the pool is

poolVars == <<free, closed, connected, user, closer>>

PoolInit ==
  /\ \E order \in [1 .. Cardinality(Conns) -> Conns] : Range(order) = Conns /\ free = order
  /\ closed = FALSE /\ connected = {}
  /\ user = [t \in Threads |-> [at |-> "out", conn |-> NoConn, got |-> "none"]]
  /\ closer = "no"
-----------------------------------------------------------------------------
Out(t, got) == user' = [user EXCEPT ![t] = [at |-> "out", conn |-> NoConn, got |-> got]]

\* Mutant: the connection stays in the stack.
TakesCopy(t) ==
  \/ closed /\ Out(t, "closed") /\ UNCHANGED free
  \/ /\ ~closed /\ free # <<>>
     /\ user' = [user EXCEPT ![t] = [at |-> "leased", conn |-> free[Len(free)], got |-> "none"]]
     /\ UNCHANGED free

\* The predicate of wait_for holds and the mutex is held: the newest free
\* connection is taken, unless the pool is closed.
Takes(t) ==
  \/ /\ closed
     /\ Out(t, "closed")
     /\ UNCHANGED free
  \/ /\ ~closed /\ free # <<>>
     /\ user' = [user EXCEPT ![t] = [at |-> "leased", conn |-> free[Len(free)], got |-> "none"]]
     /\ free' = SubSeq(free, 1, Len(free) - 1)

Waits(t) ==
  /\ ~closed /\ free = <<>>
  /\ user' = [user EXCEPT ![t].at = "wait"]
  /\ UNCHANGED free

\* Acquire is called, or a thread that was woken looks again.
Acquire(t) ==
  /\ user[t].at \in {"out", "woken"}
  /\ Takes(t) \/ Waits(t)
  /\ UNCHANGED <<closed, connected, closer>>

\* wait_for times out, and looks a last time.
AcquireTimesOut(t) ==
  /\ user[t].at \in {"wait", "woken"}
  /\ Takes(t) \/ (~closed /\ free = <<>> /\ Out(t, "timeout") /\ UNCHANGED free)
  /\ UNCHANGED <<closed, connected, closer>>

\* IsConnected, or Connect succeeds: the caller has its connection.
Connect(t) ==
  /\ user[t].at = "leased"
  /\ connected' = connected \cup {user[t].conn}
  /\ user' = [user EXCEPT ![t].at = "in", ![t].got = "conn"]
  /\ UNCHANGED <<free, closed, closer>>

\* SendAll or RecvAll fails and closes the socket; the lease stays.
UseFails(t) ==
  /\ user[t].at = "in" /\ user[t].conn \in connected
  /\ connected' = connected \ {user[t].conn}
  /\ UNCHANGED <<free, closed, user, closer>>

WaitingUsers == {t \in Threads : user[t].at = "wait"}

\* Mutant: the deleter does not notify.
NotifiedNobody == {{}}

\* The sets of threads notify_one may wake.
NotifiedUser == IF WaitingUsers = {} THEN {{}} ELSE {{t} : t \in WaitingUsers}

Returned(c) == IF closed THEN free ELSE Append(free, c)

\* The lease's deleter: the caller drops it, or Connect failed and Acquire throws.
Release(t, got) ==
  /\ free' = Returned(user[t].conn)
  /\ connected' = IF closed THEN connected \ {user[t].conn} ELSE connected
  /\ \E some \in NotifiedUser :
       user' = [u \in Threads |->
         IF u = t THEN [at |-> "out", conn |-> NoConn, got |-> got]
         ELSE IF u \in some THEN [user[u] EXCEPT !.at = "woken"] ELSE user[u]]
  /\ UNCHANGED <<closed, closer>>

Drop(t) == user[t].at = "in" /\ Release(t, "none")

ConnectFails(t) ==
  /\ user[t].at = "leased" /\ user[t].conn \notin connected
  /\ Release(t, "connection")

\* Close: the free connections are destroyed, then all waiters are woken.
CloseClears ==
  /\ closer = "no" /\ closer' = "cleared"
  /\ closed' = TRUE
  /\ free' = <<>>
  /\ connected' = connected \ Range(free)
  /\ UNCHANGED user

Told == WaitingUsers

CloseNotifies ==
  /\ closer = "cleared" /\ closer' = "done"
  /\ user' = [t \in Threads |-> IF t \in Told THEN [user[t] EXCEPT !.at = "woken"] ELSE user[t]]
  /\ UNCHANGED <<free, closed, connected>>

PoolNext ==
  \/ \E t \in Threads :
       \/ Acquire(t) \/ AcquireTimesOut(t) \/ Connect(t) \/ ConnectFails(t)
       \/ UseFails(t) \/ Drop(t)
  \/ CloseClears \/ CloseNotifies

PoolSpec == PoolInit /\ [][PoolNext]_poolVars
-----------------------------------------------------------------------------
Holders(c) == {t \in Threads : user[t].conn = c}

\* A connection is leased to one thread at most and never both leased and free;
\* until the pool is closed none is lost, whichever way Acquire failed; a closed
\* pool keeps none: a lease returned later is destroyed, and its socket with it.
LeasedOnce ==
  /\ \A c \in Conns :
       Cardinality(Holders(c)) + Cardinality({i \in DOMAIN free : free[i] = c}) <= 1
  /\ ~closed => Conns \subseteq Range(free) \cup {user[t].conn : t \in Threads}
  /\ closed => free = <<>> /\ connected \subseteq {user[t].conn : t \in Threads}

\* No lost wakeup: while a thread waits, every free connection has a thread on
\* its way to it, and a closed pool has told its waiters or is about to.
WaitersAreTold ==
  WaitingUsers # {} =>
    /\ Len(free) <= Cardinality({t \in Threads : user[t].at = "woken"})
    /\ closer # "done"
=============================================================================
