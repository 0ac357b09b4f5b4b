----------------------------- MODULE PoolProofs -----------------------------
(***************************************************************************)
(* The connection pool leases every connection to one thread at a time and *)
(* forgets no waiter, for every number of threads and connections.         *)
(***************************************************************************)
EXTENDS ConnectionPool, FiniteSetTheorems, SequenceTheorems, TLAPS

User ==
  [at : {"out", "wait", "woken", "leased", "in"}, conn : Conns \cup {NoConn},
   got : {"none", "closed", "timeout", "conn", "connection"}]

TypeOK ==
  /\ free \in Seq(Conns)
  /\ connected \in SUBSET Conns
  /\ user \in [Threads -> User]
  /\ closer \in {"no", "cleared", "done"}

\* A thread has a connection just where it holds the lease.
LeaseOK == \A t \in Threads : user[t].conn \in Conns <=> user[t].at \in {"leased", "in"}

\* A connection is in one place.
OnePlace ==
  /\ \A i, j \in 1 .. Len(free) : free[i] = free[j] => i = j
  /\ \A t, u \in Threads : user[t].conn \in Conns /\ user[t].conn = user[u].conn => t = u
  /\ \A i \in 1 .. Len(free) : \A t \in Threads : free[i] # user[t].conn

\* Until the pool is closed no connection is lost, afterwards it keeps none.
NoneLost ==
  /\ closed <=> closer # "no"
  /\ ~closed => \A c \in Conns : \/ \E i \in 1 .. Len(free) : free[i] = c
                                 \/ \E t \in Threads : user[t].conn = c
  /\ closed => /\ free = <<>>
               /\ \A c \in connected : \E t \in Threads : user[t].conn = c

IInv == TypeOK /\ LeaseOK /\ OnePlace /\ NoneLost /\ WaitersAreTold
-----------------------------------------------------------------------------
\* What Takes does.
LEMMA TakesProperties ==
  ASSUME PoolAssumption, TypeOK, LeaseOK, NEW t \in Threads, Takes(t),
         user[t].at \in {"out", "wait", "woken"}, ~closed
  PROVE  /\ Len(free) \in Nat \ {0} /\ free[Len(free)] \in Conns
         /\ free' \in Seq(Conns) /\ Len(free') = Len(free) - 1
         /\ \A i \in 1 .. Len(free') : free'[i] = free[i]
         /\ user' = [user EXCEPT ![t] = [at |-> "leased", conn |-> free[Len(free)], got |-> "none"]]
         /\ user[t].conn = NoConn
<1>1. free \in Seq(Conns) /\ user[t] \in User
  BY DEF TypeOK
<1>2. /\ free # <<>> /\ free' = SubSeq(free, 1, Len(free) - 1)
      /\ user' = [user EXCEPT ![t] = [at |-> "leased", conn |-> free[Len(free)], got |-> "none"]]
  BY DEF Takes
<1>3. user[t].conn = NoConn
  BY <1>1 DEF User, LeaseOK
<1>4. Len(free) \in Nat \ {0} /\ free[Len(free)] \in Conns
  BY <1>1, <1>2
<1>5. /\ free' \in Seq(Conns) /\ Len(free') = Len(free) - 1
      /\ \A i \in 1 .. Len(free') : free'[i] = free[i]
  <2>1. free \in Seq(Conns) /\ free' = SubSeq(free, 1, Len(free) - 1)
    BY <1>1, <1>2
  <2>2. \A i \in 1 .. Len(free) - 1 : free[i] \in Conns
    BY <2>1, <1>4
  <2> DEFINE n == Len(free) - 1
  <2>3. n \in Nat
    BY <1>4
  <2>4. free' = SubSeq(free, 1, n) /\ \A i \in 1 .. n : free[i] \in Conns
    BY <2>1, <2>2
  <2> HIDE DEF n
  <2>5. /\ SubSeq(free, 1, n) \in Seq(Conns)
        /\ Len(SubSeq(free, 1, n)) = IF 1 <= n THEN n - 1 + 1 ELSE 0
        /\ \A i \in 1 .. n - 1 + 1 : SubSeq(free, 1, n)[i] = free[1 + i - 1]
    BY <2>3, <2>4, SubSeqProperties
  <2>6. free' \in Seq(Conns) /\ Len(free') = n /\ \A i \in 1 .. n : free'[i] = free[i]
    BY <2>3, <2>4, <2>5
  <2> QED BY <2>6 DEF n
<1> QED BY <1>2, <1>3, <1>4, <1>5

\* A connection leaves the stack for a thread.
LEMMA TakeStep ==
  ASSUME PoolAssumption, TypeOK, LeaseOK, OnePlace, NoneLost, NEW t \in Threads, Takes(t),
         user[t].at \in {"out", "wait", "woken"}, ~closed, UNCHANGED <<closed, connected, closer>>
  PROVE  TypeOK' /\ LeaseOK' /\ OnePlace' /\ NoneLost'
<1> DEFINE c == free[Len(free)]
<1>1. /\ Len(free) \in Nat \ {0} /\ c \in Conns
      /\ free' \in Seq(Conns) /\ Len(free') = Len(free) - 1
      /\ \A i \in 1 .. Len(free') : free'[i] = free[i]
      /\ user' = [user EXCEPT ![t] = [at |-> "leased", conn |-> c, got |-> "none"]]
      /\ user[t].conn = NoConn
  BY TakesProperties
<1>2. free[Len(free)] = c
  OBVIOUS
<1> HIDE DEF c
<1>3. user \in [Threads -> User] /\ NoConn \notin Conns
  BY DEF TypeOK, PoolAssumption
<1>4. user' \in [Threads -> User]
  <2>1. [at |-> "leased", conn |-> c, got |-> "none"] \in User
    <3>1. c \in Conns
      BY <1>1
    <3> QED BY <3>1 DEF User
  <2> QED BY <1>1, <1>3, <2>1
<1>5. \A u \in Threads : /\ user'[u].conn = IF u = t THEN c ELSE user[u].conn
                         /\ user'[u].at = IF u = t THEN "leased" ELSE user[u].at
  BY <1>1, <1>3
<1>6. TypeOK'
  BY <1>1, <1>4 DEF TypeOK
<1>7. LeaseOK'
  BY <1>1, <1>5 DEF LeaseOK
<1>8. \A u \in Threads : user[u].conn # c
  BY <1>1, <1>2 DEF OnePlace
<1>9. \A i \in 1 .. Len(free') : i \in 1 .. Len(free) /\ free'[i] = free[i] /\ free[i] # c
  <2>1. \A i \in 1 .. Len(free') : i \in 1 .. Len(free) /\ free'[i] = free[i] /\ i # Len(free)
    BY <1>1
  <2> QED BY <1>1, <1>2, <2>1 DEF OnePlace
<1>10. OnePlace'
  BY <1>5, <1>8, <1>9 DEF OnePlace
<1>11. ASSUME NEW d \in Conns
       PROVE  \/ \E i \in 1 .. Len(free') : free'[i] = d
              \/ \E u \in Threads : user'[u].conn = d
  <2>1. CASE d = c
    BY <1>5, <2>1
  <2>2. ASSUME d # c, NEW i \in 1 .. Len(free), free[i] = d
        PROVE  \E j \in 1 .. Len(free') : free'[j] = d
    BY <1>1, <1>2, <2>2
  <2>3. ASSUME NEW u \in Threads, user[u].conn = d
        PROVE  \E v \in Threads : user'[v].conn = d
    BY <1>1, <1>3, <1>5, <2>3
  <2> QED BY <2>1, <2>2, <2>3 DEF NoneLost
<1> QED BY <1>6, <1>7, <1>10, <1>11 DEF NoneLost

\* Steps that move no connection.
LEMMA SamePlace ==
  ASSUME PoolAssumption, TypeOK, LeaseOK, OnePlace, NoneLost,
         UNCHANGED <<free, closed>>, closer' \in {"no", "cleared", "done"},
         closer' = "no" <=> closer = "no", connected' \in SUBSET Conns,
         user' \in [Threads -> User],
         \A t \in Threads : /\ user'[t].conn = user[t].conn
                            /\ user'[t].at \in {"leased", "in"} <=> user[t].at \in {"leased", "in"},
         \A c \in connected' : c \in connected \/ \E t \in Threads : user[t].conn = c
  PROVE  TypeOK' /\ LeaseOK' /\ OnePlace' /\ NoneLost'
<1>1. TypeOK'
  BY DEF TypeOK
<1>2. LeaseOK'
  BY DEF LeaseOK
<1>3. OnePlace'
  BY DEF OnePlace
<1> QED BY <1>1, <1>2, <1>3 DEF NoneLost

\* A lease ends: its connection goes back to the stack, or with the closed pool.
LEMMA ReleaseStep ==
  ASSUME PoolAssumption, TypeOK, LeaseOK, OnePlace, NoneLost, NEW t \in Threads,
         NEW got \in {"none", "connection"}, Release(t, got), user[t].at \in {"leased", "in"}
  PROVE  /\ TypeOK' /\ LeaseOK' /\ OnePlace' /\ NoneLost'
<1> DEFINE c == user[t].conn
<1>1. /\ free \in Seq(Conns) /\ c \in Conns /\ user \in [Threads -> User]
      /\ connected \in SUBSET Conns /\ NoConn \notin Conns
  BY DEF TypeOK, LeaseOK, PoolAssumption
<1>2. user[t].conn = c
  OBVIOUS
<1>3. /\ closed' = closed /\ closer' = closer
      /\ free' = IF closed THEN free ELSE Append(free, c)
      /\ connected' = IF closed THEN connected \ {c} ELSE connected
  BY DEF Release, Returned
<1>4. PICK some \in NotifiedUser :
        user' = [u \in Threads |->
          IF u = t THEN [at |-> "out", conn |-> NoConn, got |-> got]
          ELSE IF u \in some THEN [user[u] EXCEPT !.at = "woken"] ELSE user[u]]
  BY DEF Release
<1>5. \A u \in some : u \in Threads /\ user[u].at = "wait"
  BY DEF NotifiedUser, WaitingUsers
<1> HIDE DEF c
<1>6. user' \in [Threads -> User]
  <2>1. [at |-> "out", conn |-> NoConn, got |-> got] \in User
    BY DEF User
  <2>2. ASSUME NEW u \in Threads
        PROVE  user[u] \in User /\ [user[u] EXCEPT !.at = "woken"] \in User
    <3>1. user[u] \in User
      BY <1>1
    <3> QED BY <3>1 DEF User
  <2> QED BY <1>4, <2>1, <2>2
<1>7. \A u \in Threads : /\ user'[u].conn = IF u = t THEN NoConn ELSE user[u].conn
                         /\ user'[u].at \in {"leased", "in"} <=>
                              u # t /\ user[u].at \in {"leased", "in"}
  <2>1. ASSUME NEW u \in Threads
        PROVE  /\ user'[u].conn = IF u = t THEN NoConn ELSE user[u].conn
               /\ user'[u].at = IF u = t THEN "out" ELSE IF u \in some THEN "woken" ELSE user[u].at
    <3>1. user[u] \in User
      BY <1>1
    <3>2. user'[u] = IF u = t THEN [at |-> "out", conn |-> NoConn, got |-> got]
                     ELSE IF u \in some THEN [user[u] EXCEPT !.at = "woken"] ELSE user[u]
      BY <1>4
    <3> QED BY <3>1, <3>2 DEF User
  <2> QED BY <1>5, <2>1
<1>8. CASE closed
  <2>1. free' = <<>> /\ free = <<>> /\ Len(free') = 0
    BY <1>3, <1>8 DEF NoneLost
  <2>2. TypeOK'
    BY <1>1, <1>3, <1>6, <1>8 DEF TypeOK
  <2>3. LeaseOK'
    BY <1>1, <1>7 DEF LeaseOK
  <2>4. OnePlace'
    BY <1>1, <1>7, <2>1 DEF OnePlace
  <2>5. NoneLost'
    BY <1>2, <1>3, <1>7, <1>8, <2>1 DEF NoneLost
  <2> QED BY <2>2, <2>3, <2>4, <2>5
<1>9. CASE ~closed
  <2>1. /\ free' = Append(free, c) /\ connected' = connected
        /\ Len(free) \in Nat /\ Len(free') = Len(free) + 1
    BY <1>1, <1>3, <1>9
  <2>2. free' \in Seq(Conns) /\ free'[Len(free) + 1] = c /\ \A i \in 1 .. Len(free) : free'[i] = free[i]
    BY <1>1, <2>1
  <2>3. TypeOK'
    BY <1>1, <1>3, <1>6, <2>1, <2>2 DEF TypeOK
  <2>4. LeaseOK'
    BY <1>1, <1>7 DEF LeaseOK
  <2>5. \A i \in 1 .. Len(free) : free[i] # c
    BY <1>2 DEF OnePlace
  <2>6. \A u \in Threads : u # t => user[u].conn # c
    BY <1>1, <1>2 DEF OnePlace
  <2>7. \A i \in 1 .. Len(free') : \/ i \in 1 .. Len(free) /\ free'[i] = free[i]
                                   \/ i = Len(free) + 1 /\ free'[i] = c
    BY <2>1, <2>2
  <2>8. OnePlace'
    <3>1. \A i, j \in 1 .. Len(free') : free'[i] = free'[j] => i = j
      BY <2>5, <2>7 DEF OnePlace
    <3>2. \A u, v \in Threads : user'[u].conn \in Conns /\ user'[u].conn = user'[v].conn => u = v
      BY <1>1, <1>7 DEF OnePlace
    <3>3. \A i \in 1 .. Len(free') : \A u \in Threads : free'[i] # user'[u].conn
      <4>1. \A i \in 1 .. Len(free') : free'[i] \in Conns
        BY <1>1, <2>2, <2>7
      <4> QED BY <1>1, <1>7, <2>6, <2>7, <4>1 DEF OnePlace
    <3> QED BY <3>1, <3>2, <3>3 DEF OnePlace
  <2>9. \A d \in Conns : \/ \E i \in 1 .. Len(free') : free'[i] = d
                         \/ \E u \in Threads : user'[u].conn = d
    <3>1. ASSUME NEW i \in 1 .. Len(free)
          PROVE  i \in 1 .. Len(free') /\ free'[i] = free[i]
      BY <2>1, <2>2
    <3>2. Len(free) + 1 \in 1 .. Len(free') /\ free'[Len(free) + 1] = c
      BY <2>1, <2>2
    <3> QED BY <1>2, <1>7, <1>9, <3>1, <3>2 DEF NoneLost
  <2> QED BY <1>3, <1>9, <2>3, <2>4, <2>8, <2>9 DEF NoneLost
<1> QED BY <1>8, <1>9

\* Close takes the free connections with it.
LEMMA CloseStep ==
  ASSUME PoolAssumption, TypeOK, LeaseOK, OnePlace, NoneLost, CloseClears
  PROVE  TypeOK' /\ LeaseOK' /\ OnePlace' /\ NoneLost'
<1>1. /\ closer' = "cleared" /\ closed' /\ free' = <<>> /\ Len(free') = 0 /\ user' = user
      /\ connected' = connected \ Range(free) /\ closer = "no"
  BY DEF CloseClears
<1>2. connected' \in SUBSET Conns /\ free' \in Seq(Conns)
  BY <1>1 DEF TypeOK
<1>3. TypeOK'
  BY <1>1, <1>2 DEF TypeOK
<1>4. LeaseOK' /\ OnePlace'
  BY <1>1 DEF LeaseOK, OnePlace
<1>5. ASSUME NEW c \in connected'
      PROVE  \E t \in Threads : user'[t].conn = c
  <2>1. c \in Conns /\ c \notin Range(free)
    BY <1>1, <1>2
  <2>2. \A i \in 1 .. Len(free) : free[i] # c
    <3>1. DOMAIN free = 1 .. Len(free)
      BY DEF TypeOK
    <3> QED BY <2>1, <3>1 DEF Range
  <2> QED BY <1>1, <2>1, <2>2 DEF NoneLost
<1> QED BY <1>1, <1>3, <1>4, <1>5 DEF NoneLost
-----------------------------------------------------------------------------
Woken == {t \in Threads : user[t].at = "woken"}

\* The woken threads are finitely many.
LEMMA WokenFinite ==
  ASSUME PoolAssumption
  PROVE  /\ IsFiniteSet(Woken) /\ Cardinality(Woken) \in Nat
         /\ IsFiniteSet(Woken') /\ Cardinality(Woken') \in Nat
<1>1. Woken \in SUBSET Threads /\ Woken' \in SUBSET Threads /\ IsFiniteSet(Threads)
  BY DEF Woken, PoolAssumption
<1>2. IsFiniteSet(Woken) /\ IsFiniteSet(Woken')
  BY <1>1, FS_Subset
<1> QED BY <1>2, FS_CardinalityType

\* A woken thread that takes a connection leaves one to take less for the others.
LEMMA TakerLeavesOneLess ==
  ASSUME PoolAssumption, TypeOK, WaitersAreTold, NEW t \in Threads,
         Len(free) \in Nat \ {0}, Len(free') = Len(free) - 1, closer' = closer,
         \A u \in Threads \ {t} : user'[u].at = user[u].at, user'[t].at # "wait"
  PROVE  WaitersAreTold'
<1>1. SUFFICES ASSUME WaitingUsers' # {}
               PROVE  Len(free') <= Cardinality(Woken') /\ closer' # "done"
  BY DEF WaitersAreTold, Woken
<1>2. WaitingUsers # {}
  BY <1>1 DEF WaitingUsers
<1>3. Len(free) <= Cardinality(Woken) /\ closer # "done"
  BY <1>2 DEF WaitersAreTold, Woken
<1>4. Woken \ {t} \in SUBSET Woken'
  BY DEF Woken
<1>5. Cardinality(Woken \ {t}) <= Cardinality(Woken')
  BY <1>4, WokenFinite, FS_Subset
<1>6. Cardinality(Woken \ {t}) = IF t \in Woken THEN Cardinality(Woken) - 1 ELSE Cardinality(Woken)
  BY WokenFinite, FS_RemoveElement
<1>7. Cardinality(Woken) \in Nat /\ Cardinality(Woken') \in Nat
  BY WokenFinite
<1>8. Cardinality(Woken) - 1 <= Cardinality(Woken')
  BY <1>5, <1>6, <1>7
<1> QED BY <1>3, <1>7, <1>8

\* While the stack is empty there is nothing to be told.
LEMMA NothingToTell ==
  ASSUME PoolAssumption, free' = <<>>, WaitingUsers' # {} => closer' # "done"
  PROVE  WaitersAreTold'
<1>1. Len(free') = 0 /\ Cardinality(Woken') \in Nat
  BY WokenFinite
<1>2. Len(free') <= Cardinality(Woken')
  BY <1>1
<1> QED BY <1>2 DEF WaitersAreTold, Woken

\* The deleter wakes a waiter for the connection it gives back.
LEMMA ReleaseTells ==
  ASSUME PoolAssumption, TypeOK, NoneLost, WaitersAreTold, NEW t \in Threads, NEW got,
         Release(t, got), user[t].at \in {"leased", "in"}
  PROVE  WaitersAreTold'
<1>1. PICK some \in NotifiedUser :
        user' = [u \in Threads |->
          IF u = t THEN [at |-> "out", conn |-> NoConn, got |-> got]
          ELSE IF u \in some THEN [user[u] EXCEPT !.at = "woken"] ELSE user[u]]
  BY DEF Release
<1>2. ASSUME NEW u \in Threads
      PROVE  user'[u].at = IF u = t THEN "out" ELSE IF u \in some THEN "woken" ELSE user[u].at
  <2>1. user[u] \in User
    BY DEF TypeOK
  <2>2. user'[u] = IF u = t THEN [at |-> "out", conn |-> NoConn, got |-> got]
                   ELSE IF u \in some THEN [user[u] EXCEPT !.at = "woken"] ELSE user[u]
    BY <1>1
  <2> QED BY <2>1, <2>2 DEF User
<1>3. WaitingUsers' \in SUBSET WaitingUsers /\ closer' = closer
  BY <1>2 DEF WaitingUsers, Release
<1>4. CASE closed
  <2>1. free' = <<>>
    BY <1>4 DEF Release, Returned, NoneLost
  <2> QED BY <1>3, <2>1, NothingToTell DEF WaitersAreTold
<1>5. CASE ~closed
  <2>1. SUFFICES ASSUME WaitingUsers' # {}
                 PROVE  Len(free') <= Cardinality(Woken') /\ closer' # "done"
    BY DEF WaitersAreTold, Woken
  <2>2. WaitingUsers # {} /\ Len(free) <= Cardinality(Woken) /\ closer # "done"
    BY <1>3, <2>1 DEF WaitersAreTold, Woken
  <2>3. PICK w \in WaitingUsers : some = {w}
    BY <2>2 DEF NotifiedUser
  <2>4. w \in Threads /\ user[w].at = "wait" /\ w # t
    BY DEF WaitingUsers
  <2>5. Woken \cup {w} \in SUBSET Woken' /\ w \notin Woken
    BY <1>2, <2>3, <2>4 DEF Woken
  <2>6. Cardinality(Woken \cup {w}) = Cardinality(Woken) + 1
    BY <2>5, WokenFinite, FS_AddElement
  <2>7. Cardinality(Woken \cup {w}) <= Cardinality(Woken')
    BY <2>5, WokenFinite, FS_Subset
  <2>8. Len(free) \in Nat /\ Len(free') = Len(free) + 1
    <3>1. free \in Seq(Conns) /\ free' = Append(free, user[t].conn)
      BY <1>5 DEF TypeOK, Release, Returned
    <3> QED BY <3>1
  <2>9. Cardinality(Woken) \in Nat /\ Cardinality(Woken') \in Nat
    BY WokenFinite
  <2> QED BY <1>3, <2>2, <2>6, <2>7, <2>8, <2>9
<1> QED BY <1>4, <1>5
-----------------------------------------------------------------------------
\* The stack starts with every connection once.
LEMMA InitIInv ==
  ASSUME PoolAssumption, PoolInit
  PROVE  IInv
<1> DEFINE n == Cardinality(Conns)
<1>1. n \in Nat /\ IsFiniteSet(Conns) /\ NoConn \notin Conns
  BY FS_CardinalityType DEF PoolAssumption
<1> HIDE DEF n
<1>2. /\ free \in [1 .. n -> Conns] /\ Range(free) = Conns
      /\ closed = FALSE /\ connected = {} /\ closer = "no"
      /\ user = [t \in Threads |-> [at |-> "out", conn |-> NoConn, got |-> "none"]]
  BY DEF PoolInit, n
<1>3. free \in Seq(Conns) /\ Len(free) = n /\ DOMAIN free = 1 .. n
  <2>1. \A f \in [1 .. n -> Conns] : f \in Seq(Conns) /\ Len(f) = n /\ DOMAIN f = 1 .. n
    BY <1>1
  <2> QED BY <1>2, <2>1
<1>4. \A c \in Conns : \E i \in 1 .. n : free[i] = c
  BY <1>2, <1>3 DEF Range
<1>5. \A i, j \in 1 .. n : free[i] = free[j] => i = j
  <2>1. free \in Surjection(1 .. n, Conns)
    BY <1>2, <1>4 DEF Surjection
  <2>2. IsFiniteSet(1 .. n) /\ Cardinality(1 .. n) = n
    BY <1>1, FS_Interval
  <2>3. free \in Injection(1 .. n, Conns)
    BY <2>1, <2>2, FS_SurjSameCardinalityImpliesInj DEF n
  <2> QED BY <2>3 DEF Injection, IsInjective
<1>6. user \in [Threads -> User]
  BY <1>2 DEF User
<1>7. \A t \in Threads : user[t].conn = NoConn /\ user[t].at = "out"
  BY <1>2
<1>8. TypeOK
  BY <1>2, <1>3, <1>6 DEF TypeOK
<1>9. LeaseOK
  BY <1>1, <1>7 DEF LeaseOK
<1>10. OnePlace
  <2>1. \A i \in 1 .. n : free[i] \in Conns
    BY <1>2
  <2> QED BY <1>1, <1>3, <1>5, <1>7, <2>1 DEF OnePlace
<1>11. NoneLost
  BY <1>2, <1>3, <1>4 DEF NoneLost
<1>12. WaitersAreTold
  BY <1>7 DEF WaitersAreTold, WaitingUsers
<1> QED BY <1>8, <1>9, <1>10, <1>11, <1>12 DEF IInv

\* A thread leaves Acquire without a connection, or goes to wait for one.
LEMMA EmptyHanded ==
  ASSUME PoolAssumption, IInv, NEW t \in Threads, user[t].at \in {"out", "wait", "woken"},
         UNCHANGED <<free, closed, connected, closer>>, free = <<>>,
         \/ Out(t, "closed")
         \/ Out(t, "timeout")
         \/ ~closed /\ user' = [user EXCEPT ![t].at = "wait"]
  PROVE  IInv'
<1>1. user \in [Threads -> User] /\ user[t] \in User /\ user[t].conn = NoConn
  <2>1. user \in [Threads -> User] /\ user[t] \in User
    BY DEF IInv, TypeOK
  <2> QED BY <2>1 DEF IInv, LeaseOK, User
<1>2. PICK r \in User : /\ user' = [user EXCEPT ![t] = r] /\ r.conn = NoConn
                        /\ r.at \in {"out", "wait"} /\ (closed => r.at = "out")
  <2>1. CASE \E got \in {"closed", "timeout"} : Out(t, got)
    <3>1. PICK got \in {"closed", "timeout"} : Out(t, got)
      BY <2>1
    <3>2. [at |-> "out", conn |-> NoConn, got |-> got] \in User
      BY DEF User
    <3> QED BY <3>1, <3>2 DEF Out
  <2>2. CASE ~closed /\ user' = [user EXCEPT ![t].at = "wait"]
    <3>1. [user[t] EXCEPT !.at = "wait"] \in User /\ [user[t] EXCEPT !.at = "wait"].conn = NoConn
          /\ [user[t] EXCEPT !.at = "wait"].at = "wait"
      BY <1>1 DEF User
    <3> QED BY <2>2, <3>1
  <2> QED BY <2>1, <2>2
<1>3. user' \in [Threads -> User] /\ user'[t] = r /\ \A u \in Threads \ {t} : user'[u] = user[u]
  BY <1>1, <1>2
<1>4. \A u \in Threads : /\ user'[u].conn = user[u].conn
                         /\ user'[u].at \in {"leased", "in"} <=> user[u].at \in {"leased", "in"}
  BY <1>1, <1>2, <1>3
<1>5. TypeOK /\ LeaseOK /\ OnePlace /\ NoneLost /\ connected' \in SUBSET Conns
      /\ closer' \in {"no", "cleared", "done"}
  BY DEF IInv, TypeOK
<1>6. TypeOK' /\ LeaseOK' /\ OnePlace' /\ NoneLost'
  BY <1>3, <1>4, <1>5, SamePlace
<1>7. WaitingUsers' # {} => closer' # "done"
  <2>1. closed \/ closer = "no"
    BY <1>5 DEF NoneLost
  <2>2. closed => WaitingUsers' \in SUBSET WaitingUsers
    BY <1>2, <1>3 DEF WaitingUsers
  <2>3. WaitingUsers # {} => closer # "done"
    BY DEF IInv, WaitersAreTold
  <2> QED BY <2>1, <2>2, <2>3
<1>8. WaitersAreTold'
  BY <1>7, NothingToTell
<1> QED BY <1>6, <1>8 DEF IInv

\* A thread takes a connection, or finds the pool closed.
LEMMA TakesKeepsIInv ==
  ASSUME PoolAssumption, IInv, NEW t \in Threads, Takes(t),
         user[t].at \in {"out", "wait", "woken"}, UNCHANGED <<closed, connected, closer>>
  PROVE  IInv'
<1>1. CASE closed
  <2>1. Out(t, "closed") /\ free' = free /\ free = <<>>
    BY <1>1 DEF Takes, IInv, NoneLost
  <2> QED BY <2>1, EmptyHanded
<1>2. CASE ~closed
  <2>1. TypeOK /\ LeaseOK /\ OnePlace /\ NoneLost /\ WaitersAreTold
    BY DEF IInv
  <2>2. TypeOK' /\ LeaseOK' /\ OnePlace' /\ NoneLost'
    BY <1>2, <2>1, TakeStep
  <2>3. /\ Len(free) \in Nat \ {0} /\ Len(free') = Len(free) - 1
        /\ user' = [user EXCEPT ![t] = [at |-> "leased", conn |-> free[Len(free)], got |-> "none"]]
    BY <1>2, <2>1, TakesProperties
  <2>4. user'[t].at # "wait" /\ \A u \in Threads \ {t} : user'[u].at = user[u].at
    <3>1. user \in [Threads -> User]
      BY <2>1 DEF TypeOK
    <3> QED BY <2>3, <3>1
  <2>5. WaitersAreTold'
    BY <2>1, <2>3, <2>4, TakerLeavesOneLess
  <2> QED BY <2>2, <2>5 DEF IInv
<1> QED BY <1>1, <1>2

\* Steps that move no connection and leave the waiters and the woken alone.
LEMMA QuietStep ==
  ASSUME PoolAssumption, IInv, UNCHANGED <<free, closed, closer>>, connected' \in SUBSET Conns,
         user' \in [Threads -> User],
         \A t \in Threads : /\ user'[t].conn = user[t].conn
                            /\ user'[t].at # user[t].at =>
                                 user[t].at = "leased" /\ user'[t].at = "in",
         \A c \in connected' : c \in connected \/ \E t \in Threads : user[t].conn = c
  PROVE  IInv'
<1>1. TypeOK /\ LeaseOK /\ OnePlace /\ NoneLost /\ closer' \in {"no", "cleared", "done"}
  BY DEF IInv, TypeOK
<1>2. TypeOK' /\ LeaseOK' /\ OnePlace' /\ NoneLost'
  BY <1>1, SamePlace
<1>3. WaitingUsers' = WaitingUsers /\ Woken' = Woken
  BY DEF WaitingUsers, Woken
<1>4. WaitersAreTold'
  BY <1>3 DEF IInv, WaitersAreTold, Woken
<1> QED BY <1>2, <1>4 DEF IInv

\* Every step keeps the inductive invariant.
LEMMA NextIInv ==
  ASSUME PoolAssumption, IInv, [PoolNext]_poolVars
  PROVE  IInv'
<1>1. TypeOK /\ LeaseOK /\ OnePlace /\ NoneLost /\ WaitersAreTold
  BY DEF IInv
<1>2. user \in [Threads -> User] /\ connected \in SUBSET Conns
  BY <1>1 DEF TypeOK
<1>3. ASSUME NEW t \in Threads, Acquire(t)
      PROVE  IInv'
  <2>1. user[t].at \in {"out", "wait", "woken"} /\ UNCHANGED <<closed, connected, closer>>
    BY <1>3 DEF Acquire
  <2>2. CASE Takes(t)
    BY <2>1, <2>2, TakesKeepsIInv
  <2>3. CASE Waits(t)
    BY <2>1, <2>3, EmptyHanded DEF Waits
  <2> QED BY <1>3, <2>2, <2>3 DEF Acquire
<1>4. ASSUME NEW t \in Threads, AcquireTimesOut(t)
      PROVE  IInv'
  <2>1. user[t].at \in {"out", "wait", "woken"} /\ UNCHANGED <<closed, connected, closer>>
    BY <1>4 DEF AcquireTimesOut
  <2>2. CASE Takes(t)
    BY <2>1, <2>2, TakesKeepsIInv
  <2>3. CASE ~closed /\ free = <<>> /\ Out(t, "timeout") /\ UNCHANGED free
    BY <2>1, <2>3, EmptyHanded
  <2> QED BY <1>4, <2>2, <2>3 DEF AcquireTimesOut
<1>5. ASSUME NEW t \in Threads, Connect(t)
      PROVE  IInv'
  <2>1. user[t].conn \in Conns /\ user[t] \in User
    BY <1>1, <1>2, <1>5 DEF Connect, LeaseOK
  <2>2. /\ user' = [user EXCEPT ![t] = [user[t] EXCEPT !.at = "in", !.got = "conn"]]
        /\ user[t].at = "leased" /\ connected' = connected \cup {user[t].conn}
        /\ UNCHANGED <<free, closed, closer>>
    BY <1>2, <1>5 DEF Connect
  <2>3. /\ [user[t] EXCEPT !.at = "in", !.got = "conn"] \in User
        /\ [user[t] EXCEPT !.at = "in", !.got = "conn"].at = "in"
        /\ [user[t] EXCEPT !.at = "in", !.got = "conn"].conn = user[t].conn
    BY <2>1 DEF User
  <2>4. /\ user' \in [Threads -> User]
        /\ \A u \in Threads : /\ user'[u].conn = user[u].conn
                              /\ user'[u].at # user[u].at =>
                                   user[u].at = "leased" /\ user'[u].at = "in"
    BY <1>2, <2>2, <2>3
  <2>5. connected' \in SUBSET Conns
        /\ \A c \in connected' : c \in connected \/ \E u \in Threads : user[u].conn = c
    BY <1>2, <2>1, <2>2
  <2> QED BY <2>2, <2>4, <2>5, QuietStep
<1>6. ASSUME NEW t \in Threads, UseFails(t)
      PROVE  IInv'
  <2>1. UNCHANGED <<free, closed, user, closer>> /\ connected' \in SUBSET connected
    BY <1>6 DEF UseFails
  <2>2. connected' \in SUBSET Conns /\ user' \in [Threads -> User] /\ user' = user
    BY <1>2, <2>1
  <2> QED BY <2>1, <2>2, QuietStep
<1>7. ASSUME NEW t \in Threads, NEW got \in {"none", "connection"}, Release(t, got),
             user[t].at \in {"leased", "in"}
      PROVE  IInv'
  <2>1. TypeOK' /\ LeaseOK' /\ OnePlace' /\ NoneLost'
    BY <1>1, <1>7, ReleaseStep
  <2>2. WaitersAreTold'
    BY <1>1, <1>7, ReleaseTells
  <2> QED BY <2>1, <2>2 DEF IInv
<1>8. CASE CloseClears
  <2>1. TypeOK' /\ LeaseOK' /\ OnePlace' /\ NoneLost'
    BY <1>1, <1>8, CloseStep
  <2>2. free' = <<>> /\ closer' # "done"
    BY <1>8 DEF CloseClears
  <2>3. WaitersAreTold'
    BY <2>2, NothingToTell
  <2> QED BY <2>1, <2>3 DEF IInv
<1>9. CASE CloseNotifies
  <2>1. /\ closer = "cleared" /\ closer' = "done" /\ UNCHANGED <<free, closed, connected>>
        /\ user' = [t \in Threads |-> IF t \in WaitingUsers THEN [user[t] EXCEPT !.at = "woken"] ELSE user[t]]
    BY <1>9 DEF CloseNotifies, Told
  <2>2. ASSUME NEW t \in Threads
        PROVE  /\ user'[t] \in User /\ user'[t].conn = user[t].conn
               /\ user'[t].at = IF user[t].at = "wait" THEN "woken" ELSE user[t].at
    <3>1. user[t] \in User
      BY <1>2
    <3>2. user'[t] = IF user[t].at = "wait" THEN [user[t] EXCEPT !.at = "woken"] ELSE user[t]
      BY <2>1 DEF WaitingUsers
    <3> QED BY <3>1, <3>2 DEF User
  <2>3. user' \in [Threads -> User]
    BY <2>1, <2>2
  <2>4. \A t \in Threads : /\ user'[t].conn = user[t].conn
                           /\ user'[t].at \in {"leased", "in"} <=> user[t].at \in {"leased", "in"}
    BY <2>2
  <2>5. TypeOK' /\ LeaseOK' /\ OnePlace' /\ NoneLost'
    BY <1>1, <1>2, <2>1, <2>3, <2>4, SamePlace
  <2>6. WaitingUsers' = {}
    BY <2>2 DEF WaitingUsers
  <2> QED BY <2>5, <2>6 DEF IInv, WaitersAreTold
<1>10. CASE UNCHANGED poolVars
  <2>1. UNCHANGED <<free, closed, connected, user, closer>>
    BY <1>10 DEF poolVars
  <2>2. connected' \in SUBSET Conns /\ user' \in [Threads -> User] /\ user' = user
    BY <1>2, <2>1
  <2> QED BY <2>1, <2>2, QuietStep
<1> QED BY <1>3, <1>4, <1>5, <1>6, <1>7, <1>8, <1>9, <1>10 DEF PoolNext, Drop, ConnectFails
-----------------------------------------------------------------------------
\* The inductive invariant is the two properties.
LEMMA IInvImplies ==
  ASSUME PoolAssumption, IInv
  PROVE  LeasedOnce /\ WaitersAreTold
<1>1. TypeOK /\ OnePlace /\ NoneLost /\ WaitersAreTold
  BY DEF IInv
<1>2. free \in Seq(Conns) /\ DOMAIN free = 1 .. Len(free)
  BY <1>1 DEF TypeOK
<1>3. ASSUME NEW c \in Conns
      PROVE  Cardinality(Holders(c)) + Cardinality({i \in DOMAIN free : free[i] = c}) <= 1
  <2> DEFINE F == {i \in DOMAIN free : free[i] = c}
  <2>1. \A S : (\A x, y \in S : x = y) => S = {} \/ \E x : S = {x}
    BY Zenon
  <2>2. Holders(c) = {} \/ \E t : Holders(c) = {t}
    <3>1. \A t, u \in Holders(c) : t = u
      BY <1>1 DEF OnePlace, Holders
    <3> QED BY <2>1, <3>1
  <2>3. F = {} \/ \E i : F = {i}
    <3>1. \A i, j \in F : i = j
      BY <1>1, <1>2 DEF OnePlace
    <3> HIDE DEF F
    <3> QED BY <2>1, <3>1
  <2>4. Holders(c) = {} \/ F = {}
    BY <1>1, <1>2 DEF OnePlace, Holders
  <2> HIDE DEF F
  <2>5. Cardinality(Holders(c)) \in {0, 1} /\ (Holders(c) = {} => Cardinality(Holders(c)) = 0)
    BY <2>2, FS_EmptySet, FS_Singleton
  <2>6. Cardinality(F) \in {0, 1} /\ (F = {} => Cardinality(F) = 0)
    BY <2>3, FS_EmptySet, FS_Singleton
  <2>7. Cardinality(Holders(c)) + Cardinality(F) <= 1
    BY <2>4, <2>5, <2>6
  <2> QED BY <2>7 DEF F
<1>4. ~closed => Conns \subseteq Range(free) \cup {user[t].conn : t \in Threads}
  BY <1>1, <1>2 DEF NoneLost, Range
<1>5. closed => free = <<>> /\ connected \subseteq {user[t].conn : t \in Threads}
  BY <1>1 DEF NoneLost
<1> QED BY <1>1, <1>3, <1>4, <1>5 DEF LeasedOnce

\* Whatever the threads do and whenever the pool is closed, Acquire and the
\* lease's deleter hand every connection to one thread at a time and lose none.
THEOREM LeasesExclusive ==
  ASSUME PoolAssumption
  PROVE  PoolSpec => []LeasedOnce
<1>1. PoolInit => IInv
  BY InitIInv
<1>2. IInv /\ [PoolNext]_poolVars => IInv'
  BY NextIInv
<1>3. IInv => LeasedOnce
  BY IInvImplies
<1> QED BY <1>1, <1>2, <1>3, PTL DEF PoolSpec

\* The notify_one of the deleter is enough: no thread waits in Acquire beside a
\* free connection nobody is on the way to, or in a pool whose Close is over.
THEOREM WakeupsReach ==
  ASSUME PoolAssumption
  PROVE  PoolSpec => []WaitersAreTold
<1>1. PoolInit => IInv
  BY InitIInv
<1>2. IInv /\ [PoolNext]_poolVars => IInv'
  BY NextIInv
<1>3. IInv => WaitersAreTold
  BY IInvImplies
<1> QED BY <1>1, <1>2, <1>3, PTL DEF PoolSpec
=============================================================================
