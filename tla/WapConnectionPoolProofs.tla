------------------------ MODULE WapConnectionPoolProofs ------------------------
(***************************************************************************)
(* Theorems about WapConnectionPool, for any number of threads and any     *)
(* WAP_POOL_MIN_CONN and WAP_POOL_MAX_CONN.                                *)
(***************************************************************************)
EXTENDS WapConnectionPool, FiniteSetTheorems, TLAPS

HoldsLock(t) == pc[t] \in {"locked", "built", "closing", "resetting"}

(* Exactly the thread between acquire and release holds _pool_lock.        *)
LockInv ==
    /\ \A c \in Calls : pc[c] \in CallSteps
    /\ \A k \in Closers : pc[k] \in CloserSteps
    /\ \A t \in Threads : HoldsLock(t) <=> lock = t

(* A pool is built once, by a call that was in the locked section.         *)
BuiltInv ==
    /\ pool \in made \cup {None}
    /\ \A c \in made : pc[c] \notin {"idle", "waiting", "locked"}
    /\ \A g \in Calls \ made : used[g] = {}

(* The singleton is closed only while close_pool() is about to reset it.   *)
CloseInv ==
    /\ made \ closed \subseteq {pool}
    /\ \A k \in Closers : pc[k] = "resetting" => made = closed

(* Who is in the with statement holds a connection of the pool it got, and *)
(* so does, for good, the call whose rollback in putconn() raised.         *)
UseInv ==
    /\ \A c \in Calls : local[c] \in made \cup {None}
    /\ \A c \in Calls : pc[c] \in {"using", "release"} =>
          local[c] # None /\ c \in used[local[c]]
    /\ \A g \in made \ closed : \A c \in used[g] :
          /\ local[c] = g
          /\ \/ pc[c] \in {"using", "release"}
             \/ pc[c] = "ended" /\ outcome[c] = "rollbackFailed"

BoundInv ==
    /\ \A g \in Calls : IsFiniteSet(used[g])
    /\ MinConn <= MaxConn =>
          \A g \in made \ closed : idle[g] + Cardinality(used[g]) <= MaxConn

(* Before the first close_pool(), whoever passed the tests has a pool.     *)
CalmInv ==
    (\A k \in Closers : pc[k] = "idle") =>
        /\ closed = {}
        /\ \A c \in Calls : pc[c] \in {"built", "returning"} => pool # None
        /\ \A c \in Calls : pc[c] = "acquire" => local[c] # None

PoolInv == TypeOK /\ LockInv /\ BuiltInv /\ CloseInv /\ UseInv

USE ThreadsAssumption

LEMMA PoolInvInit == Init => PoolInv
  BY DEF Init, PoolInv, TypeOK, LockInv, BuiltInv, CloseInv, UseInv, HoldsLock,
         Threads, CallSteps, CloserSteps

-------------------------------------------------------------------------------
(* Each part of PoolInv is preserved by each step.                         *)

LEMMA TypeStep == PoolInv /\ [Next]_vars => TypeOK'
<1> SUFFICES ASSUME PoolInv, [Next]_vars PROVE TypeOK'
  OBVIOUS
<1> USE DEF PoolInv, TypeOK, Go, Raise, pools, Threads, CallSteps, CloserSteps,
        Bodies, Outcomes
<1>1. ASSUME NEW c \in Calls, CallStep(c) PROVE TypeOK'
  <2>1. CASE Peek(c) \/ Lock(c) \/ ReturnLocked(c) \/ Unlock(c) \/ Return(c)
    BY <2>1 DEF Peek, Lock, ReturnLocked, Unlock, Return
  <2>2. CASE Build(c) \/ BuildFails(c)
    BY <2>2 DEF Build, BuildFails
  <2>3. CASE GetConnFails(c) \/ PutConnRaises(c) \/ RollbackFails(c)
    BY <2>3 DEF GetConnFails, PutConnRaises, RollbackFails
  <2>4. CASE GetConn(c)
    BY <2>4 DEF GetConn
  <2>5. CASE Body(c)
    BY <2>5 DEF Body
  <2>6. CASE PutConn(c)
    <3>1. body[c] \in Outcomes \cup {None}
      OBVIOUS
    <3>2. QED
      BY <2>6, <3>1 DEF PutConn
  <2>7. QED
    BY <1>1, <2>1, <2>2, <2>3, <2>4, <2>5, <2>6 DEF CallStep
<1>2. ASSUME NEW k \in Closers, CloserStep(k) PROVE TypeOK'
  BY <1>2 DEF CloserStep, StartClose, CloseAll, Reset, BuiltInv
<1>3. CASE UNCHANGED vars
  BY <1>3 DEF vars
<1>4. QED
  BY <1>1, <1>2, <1>3 DEF Next, AllEnded

LEMMA LockStep == PoolInv /\ [Next]_vars => LockInv'
<1> SUFFICES ASSUME PoolInv, [Next]_vars PROVE LockInv'
  OBVIOUS
<1> USE DEF PoolInv, TypeOK, LockInv, HoldsLock, Go, Raise, pools, Threads,
        CallSteps, CloserSteps
<1>1. ASSUME NEW c \in Calls, CallStep(c) PROVE LockInv'
  <2>1. CASE Peek(c) \/ Lock(c) \/ ReturnLocked(c) \/ Unlock(c) \/ Return(c)
    BY <2>1 DEF Peek, Lock, ReturnLocked, Unlock, Return
  <2>2. CASE Build(c) \/ BuildFails(c)
    BY <2>2 DEF Build, BuildFails
  <2>3. CASE GetConnFails(c) \/ PutConnRaises(c) \/ RollbackFails(c)
    BY <2>3 DEF GetConnFails, PutConnRaises, RollbackFails
  <2>4. CASE GetConn(c) \/ Body(c) \/ PutConn(c)
    BY <2>4 DEF GetConn, Body, PutConn
  <2>5. QED
    BY <1>1, <2>1, <2>2, <2>3, <2>4 DEF CallStep
<1>2. ASSUME NEW k \in Closers, CloserStep(k) PROVE LockInv'
  BY <1>2 DEF CloserStep, StartClose, CloseAll, Reset
<1>3. CASE UNCHANGED vars
  BY <1>3 DEF vars
<1>4. QED
  BY <1>1, <1>2, <1>3 DEF Next, AllEnded

LEMMA BuiltStep == PoolInv /\ [Next]_vars => BuiltInv'
<1> SUFFICES ASSUME PoolInv, [Next]_vars PROVE BuiltInv'
  OBVIOUS
<1> USE DEF PoolInv, TypeOK, BuiltInv, Go, Raise, pools, Threads
<1>1. ASSUME NEW c \in Calls, CallStep(c) PROVE BuiltInv'
  <2>1. CASE Peek(c) \/ Lock(c) \/ ReturnLocked(c) \/ Unlock(c) \/ Return(c)
    BY <2>1 DEF Peek, Lock, ReturnLocked, Unlock, Return
  <2>2. CASE Build(c) \/ BuildFails(c)
    BY <2>2 DEF Build, BuildFails
  <2>3. CASE GetConnFails(c) \/ PutConnRaises(c) \/ RollbackFails(c)
    BY <2>3 DEF GetConnFails, PutConnRaises, RollbackFails
  <2>4. CASE GetConn(c) \/ Body(c) \/ PutConn(c)
    BY <2>4 DEF GetConn, Body, PutConn
  <2>5. QED
    BY <1>1, <2>1, <2>2, <2>3, <2>4 DEF CallStep
<1>2. ASSUME NEW k \in Closers, CloserStep(k) PROVE BuiltInv'
  BY <1>2 DEF CloserStep, StartClose, CloseAll, Reset
<1>3. CASE UNCHANGED vars
  BY <1>3 DEF vars
<1>4. QED
  BY <1>1, <1>2, <1>3 DEF Next, AllEnded

LEMMA CloseStep == PoolInv /\ [Next]_vars => CloseInv'
<1> SUFFICES ASSUME PoolInv, [Next]_vars PROVE CloseInv'
  OBVIOUS
<1> USE DEF PoolInv, TypeOK, LockInv, HoldsLock, BuiltInv, CloseInv, Go, Raise,
        pools, Threads
<1>1. ASSUME NEW c \in Calls, CallStep(c) PROVE CloseInv'
  <2>1. CASE Peek(c) \/ Lock(c) \/ ReturnLocked(c) \/ Unlock(c) \/ Return(c)
    BY <2>1 DEF Peek, Lock, ReturnLocked, Unlock, Return
  <2>2. CASE Build(c) \/ BuildFails(c)
    BY <2>2 DEF Build, BuildFails
  <2>3. CASE GetConnFails(c) \/ PutConnRaises(c) \/ RollbackFails(c)
    BY <2>3 DEF GetConnFails, PutConnRaises, RollbackFails
  <2>4. CASE GetConn(c) \/ Body(c) \/ PutConn(c)
    BY <2>4 DEF GetConn, Body, PutConn
  <2>5. QED
    BY <1>1, <2>1, <2>2, <2>3, <2>4 DEF CallStep
<1>2. ASSUME NEW k \in Closers, CloserStep(k) PROVE CloseInv'
  <2>1. CASE StartClose(k)
    BY <2>1 DEF StartClose
  <2>2. CASE CloseAll(k)
    BY <2>2 DEF CloseAll
  <2>3. CASE Reset(k)
    BY <2>3 DEF Reset
  <2>4. QED
    BY <1>2, <2>1, <2>2, <2>3 DEF CloserStep
<1>3. CASE UNCHANGED vars
  BY <1>3 DEF vars
<1>4. QED
  BY <1>1, <1>2, <1>3 DEF Next, AllEnded

LEMMA UseStep == PoolInv /\ [Next]_vars => UseInv'
<1> SUFFICES ASSUME PoolInv, [Next]_vars PROVE UseInv'
  OBVIOUS
<1> USE DEF PoolInv, TypeOK, BuiltInv, UseInv, Go, Raise, pools, Threads
<1>1. ASSUME NEW c \in Calls, CallStep(c) PROVE UseInv'
  <2>1. CASE Peek(c) \/ Lock(c) \/ ReturnLocked(c) \/ Unlock(c) \/ Return(c)
    BY <2>1 DEF Peek, Lock, ReturnLocked, Unlock, Return
  <2>2. CASE Build(c) \/ BuildFails(c)
    BY <2>2 DEF Build, BuildFails
  <2>3. CASE GetConnFails(c) \/ PutConnRaises(c) \/ RollbackFails(c)
    BY <2>3 DEF GetConnFails, PutConnRaises, RollbackFails
  <2>4. CASE GetConn(c)
    BY <2>4 DEF GetConn
  <2>5. CASE Body(c)
    BY <2>5 DEF Body
  <2>6. CASE PutConn(c)
    BY <2>6 DEF PutConn
  <2>7. QED
    BY <1>1, <2>1, <2>2, <2>3, <2>4, <2>5, <2>6 DEF CallStep
<1>2. ASSUME NEW k \in Closers, CloserStep(k) PROVE UseInv'
  BY <1>2 DEF CloserStep, StartClose, CloseAll, Reset, LockInv, CloserSteps
<1>3. CASE UNCHANGED vars
  BY <1>3 DEF vars
<1>4. QED
  BY <1>1, <1>2, <1>3 DEF Next, AllEnded

LEMMA PoolInvariant == Spec => []PoolInv
<1>1. PoolInv /\ [Next]_vars => PoolInv'
  BY TypeStep, LockStep, BuiltStep, CloseStep, UseStep DEF PoolInv
<1>2. QED
  BY PoolInvInit, <1>1, PTL DEF Spec

-------------------------------------------------------------------------------
(* What the taking and the returning of one connection do to the count.    *)

LEMMA Taken ==
  ASSUME NEW users, IsFiniteSet(users), NEW c, c \notin users
  PROVE  /\ IsFiniteSet(users \cup {c})
         /\ Cardinality(users \cup {c}) = Cardinality(users) + 1
  BY FS_AddElement

LEMMA GivenBack ==
  ASSUME NEW users, IsFiniteSet(users), NEW c \in users
  PROVE  /\ IsFiniteSet(users \ {c})
         /\ Cardinality(users \ {c}) = Cardinality(users) - 1
  BY FS_RemoveElement

LEMMA BoundInit == Init => BoundInv
  BY FS_EmptySet DEF Init, BoundInv

LEMMA BoundStep == PoolInv /\ BoundInv /\ [Next]_vars => BoundInv'
<1> SUFFICES ASSUME PoolInv, BoundInv, [Next]_vars PROVE BoundInv'
  OBVIOUS
<1> USE DEF PoolInv, TypeOK, BoundInv
<1>0. \A g \in Calls : Cardinality(used[g]) \in Nat
  BY FS_CardinalityType
<1>1. ASSUME NEW c \in Calls, CallStep(c) PROVE BoundInv'
  <2>1. CASE UNCHANGED pools
    BY <2>1 DEF pools
  <2>2. CASE Build(c)
    <3>1. c \notin made /\ used[c] = {}
      BY <2>2 DEF Build, Go, BuiltInv
    <3>2. Cardinality(used[c]) = 0
      BY <3>1, FS_EmptySet
    <3>3. QED
      BY <2>2, <3>1, <3>2 DEF Build
  <2>3. CASE GetConn(c)
    <3> DEFINE g == local[c]
    <3>1. g \in made \ closed /\ g \in Calls /\ pc[c] = "acquire"
      BY <2>3 DEF GetConn, Go
    <3>2. c \notin used[g]
      BY <3>1 DEF UseInv
    <3>3. IsFiniteSet(used[g] \cup {c})
          /\ Cardinality(used[g] \cup {c}) = Cardinality(used[g]) + 1
      BY <3>1, <3>2, Taken
    <3>4. used' = [used EXCEPT ![g] = used[g] \cup {c}]
          /\ idle' = [idle EXCEPT ![g] = IF idle[g] > 0 THEN idle[g] - 1 ELSE 0]
          /\ UNCHANGED <<made, closed>>
      BY <2>3 DEF GetConn
    <3>5. idle[g] > 0 \/ Cardinality(used[g]) # MaxConn
      BY <2>3 DEF GetConn, Exhausted
    <3>6. \A h \in Calls : IsFiniteSet(used'[h])
      BY <3>1, <3>3, <3>4
    <3>7. MinConn <= MaxConn => idle'[g] + Cardinality(used'[g]) <= MaxConn
      BY <1>0, <3>1, <3>3, <3>4, <3>5
    <3>8. \A h \in Calls : h # g => used'[h] = used[h] /\ idle'[h] = idle[h]
      BY <3>4
    <3>9. QED
      BY <3>4, <3>6, <3>7, <3>8
  <2>4. CASE PutConn(c)
    <3> DEFINE g == local[c]
    <3>1. g \in made \ closed /\ g \in Calls /\ pc[c] = "release"
      BY <2>4 DEF PutConn, Raise, Go
    <3>2. c \in used[g]
      BY <3>1 DEF UseInv
    <3>3. IsFiniteSet(used[g] \ {c})
          /\ Cardinality(used[g] \ {c}) = Cardinality(used[g]) - 1
      BY <3>1, <3>2, GivenBack
    <3>4. used' = [used EXCEPT ![g] = used[g] \ {c}]
          /\ idle' = [idle EXCEPT ![g] =
                IF idle[g] < MinConn /\ body[c] # "disconnected"
                THEN idle[g] + 1 ELSE idle[g]]
          /\ UNCHANGED <<made, closed>>
      BY <2>4 DEF PutConn
    <3>6. \A h \in Calls : IsFiniteSet(used'[h])
      BY <3>1, <3>3, <3>4
    <3>7. MinConn <= MaxConn => idle'[g] + Cardinality(used'[g]) <= MaxConn
      BY <1>0, <3>1, <3>3, <3>4
    <3>8. \A h \in Calls : h # g => used'[h] = used[h] /\ idle'[h] = idle[h]
      BY <3>4
    <3>9. QED
      BY <3>4, <3>6, <3>7, <3>8
  <2>5. QED
    BY <1>1, <2>1, <2>2, <2>3, <2>4
    DEF CallStep, Peek, Lock, ReturnLocked, BuildFails, Unlock, Return,
        GetConnFails, Body, PutConnRaises, RollbackFails
<1>2. ASSUME NEW k \in Closers, CloserStep(k) PROVE BoundInv'
  BY <1>2 DEF CloserStep, StartClose, CloseAll, Reset, pools
<1>3. CASE UNCHANGED vars
  BY <1>3 DEF vars, pools
<1>4. QED
  BY <1>1, <1>2, <1>3 DEF Next, AllEnded

LEMMA CalmInit == Init => CalmInv
  BY DEF Init, CalmInv, Threads

LEMMA CalmStep == PoolInv /\ CalmInv /\ [Next]_vars => CalmInv'
<1> SUFFICES ASSUME PoolInv, CalmInv, [Next]_vars PROVE CalmInv'
  OBVIOUS
<1> USE DEF PoolInv, TypeOK, CalmInv, Go, Raise, pools, Threads
<1>1. ASSUME NEW c \in Calls, CallStep(c) PROVE CalmInv'
  <2>0. \A k \in Closers : pc'[k] = pc[k]
    BY <1>1 DEF CallStep, Peek, Lock, ReturnLocked, Build, BuildFails, Unlock,
                Return, GetConn, GetConnFails, Body, PutConn, PutConnRaises,
                RollbackFails
  <2>1. CASE Peek(c) \/ Lock(c) \/ ReturnLocked(c) \/ Unlock(c) \/ Return(c)
    BY <2>0, <2>1 DEF Peek, Lock, ReturnLocked, Unlock, Return
  <2>2. CASE Build(c) \/ BuildFails(c)
    BY <2>0, <2>2 DEF Build, BuildFails
  <2>3. CASE GetConnFails(c) \/ PutConnRaises(c) \/ RollbackFails(c)
    BY <2>0, <2>3 DEF GetConnFails, PutConnRaises, RollbackFails
  <2>4. CASE GetConn(c) \/ Body(c) \/ PutConn(c)
    BY <2>0, <2>4 DEF GetConn, Body, PutConn
  <2>5. QED
    BY <1>1, <2>1, <2>2, <2>3, <2>4 DEF CallStep
<1>2. ASSUME NEW k \in Closers, CloserStep(k) PROVE CalmInv'
  <2>1. pc'[k] # "idle"
    BY <1>2 DEF CloserStep, StartClose, CloseAll, Reset
  <2>2. QED
    BY <2>1
<1>3. CASE UNCHANGED vars
  BY <1>3 DEF vars
<1>4. QED
  BY <1>1, <1>2, <1>3 DEF Next, AllEnded

-------------------------------------------------------------------------------
(* The theorems.                                                           *)

(* Every variable of the threads and of the pools has its type.            *)
THEOREM PoolTypes == Spec => []TypeOK
<1>1. PoolInv => TypeOK
  BY DEF PoolInv
<1>2. QED
  BY PoolInvariant, <1>1, PTL

(* Concurrent first accesses and close_pool() never lose track of an open  *)
(* pool: it is the one the next access finds.                              *)
THEOREM OnePool == Spec => []OpenPoolIsTheSingleton
<1>1. PoolInv => OpenPoolIsTheSingleton
  BY DEF PoolInv, CloseInv, OpenPoolIsTheSingleton
<1>2. QED
  BY PoolInvariant, <1>1, PTL

(* Every slot an open pool counts as used is in the hands of the call that *)
(* took it, however the body ended, or of the call whose rollback inside   *)
(* putconn() raised.                                                       *)
THEOREM NoLeaks == Spec => []NoConnectionLeaks
<1>1. PoolInv => NoConnectionLeaks
  BY DEF PoolInv, UseInv, NoConnectionLeaks
<1>2. QED
  BY PoolInvariant, <1>1, PTL

(* The process stays within WAP_POOL_MAX_CONN connections, for every       *)
(* number of threads, provided that it is no less than WAP_POOL_MIN_CONN.  *)
THEOREM BoundedConnections == Spec => []ConnectionsAreBounded
<1>1. PoolInv /\ BoundInv => ConnectionsAreBounded
  <2> SUFFICES ASSUME PoolInv, BoundInv, MinConn <= MaxConn,
                      NEW g \in Calls, NEW h \in Calls, g # h
               PROVE  Open(g) + Open(h) <= MaxConn
    BY DEF ConnectionsAreBounded
  <2> USE DEF PoolInv, TypeOK, CloseInv, BoundInv
  <2>1. \A f \in Calls : Cardinality(used[f]) \in Nat
    BY FS_CardinalityType
  <2>2. \A f \in Calls : Open(f) \in Nat /\ Open(f) <= MaxConn
    BY <2>1 DEF Open
  <2>3. Open(g) = 0 \/ Open(h) = 0
    BY DEF Open
  <2>4. QED
    BY <2>2, <2>3
<1>2. QED
  BY PoolInvariant, BoundInit, BoundStep, <1>1, PTL DEF Spec

(* No connection survives close_pool(): neither one that another thread    *)
(* uses, nor one of a pool that was built while it ran.                    *)
THEOREM NothingOpenAfterClose == Spec => ClosingLeavesNothingOpen
<1>1. PoolInv /\ [Next]_vars =>
        \A k \in Closers :
           pc[k] # "ended" /\ pc'[k] = "ended" => made' = closed'
  <2> SUFFICES ASSUME PoolInv, [Next]_vars, NEW k \in Closers,
                      pc[k] # "ended", pc'[k] = "ended"
               PROVE  made' = closed'
    OBVIOUS
  <2> USE DEF PoolInv, TypeOK, CloseInv, Go, Raise, pools, Threads
  <2>1. ASSUME NEW c \in Calls, CallStep(c) PROVE FALSE
    BY <2>1 DEF CallStep, Peek, Lock, ReturnLocked, Build, BuildFails, Unlock,
                Return, GetConn, GetConnFails, Body, PutConn, PutConnRaises,
                RollbackFails
  <2>2. ASSUME NEW l \in Closers, CloserStep(l) PROVE made' = closed'
    BY <2>2 DEF CloserStep, StartClose, CloseAll, Reset
  <2>3. QED
    BY <2>1, <2>2 DEF Next, AllEnded, vars
<1>2. QED
  BY PoolInvariant, <1>1, PTL DEF Spec, ClosingLeavesNothingOpen

(* Threads that only call get_connection() never see a missing or closed   *)
(* pool: that takes a concurrent close_pool().                             *)
THEOREM FirstAccessIsSafe == Spec => []OnlyClosingDisturbs
<1> DEFINE Disturbed(c) ==
      outcome[c] \in {"attributeError", "poolClosed", "putconnRaised"}
<1>1. Init => OnlyClosingDisturbs
  BY DEF Init, OnlyClosingDisturbs, Outcomes
<1>2. PoolInv /\ CalmInv /\ OnlyClosingDisturbs /\ [Next]_vars =>
        OnlyClosingDisturbs'
  <2> SUFFICES ASSUME PoolInv, CalmInv, OnlyClosingDisturbs, [Next]_vars,
                      NEW c \in Calls, Disturbed(c)'
               PROVE  \E k \in Closers : pc'[k] # "idle"
    BY DEF OnlyClosingDisturbs
  <2> USE DEF PoolInv, TypeOK, Go, Raise, pools, Threads
  <2>1. \A k \in Closers : pc[k] # "idle" => pc'[k] # "idle"
    BY DEF Next, AllEnded, vars, CallStep, Peek, Lock, ReturnLocked, Build,
           BuildFails, Unlock, Return, GetConn, GetConnFails, Body, PutConn,
           PutConnRaises, RollbackFails, CloserStep, StartClose, CloseAll, Reset
  <2>2. CASE Disturbed(c)
    BY <2>1, <2>2 DEF OnlyClosingDisturbs
  <2>3. CASE ~Disturbed(c)
    <3>1. \/ GetConnFails(c) /\ (local[c] = None \/ local[c] \in closed)
          \/ PutConnRaises(c)
      <4>1. outcome[c] # outcome'[c]
        BY <2>3
      <4>2. PICK d \in Calls : CallStep(d)
        BY <4>1 DEF Next, AllEnded, vars, CloserStep, StartClose, CloseAll, Reset
      <4>3. ~PutConn(d) /\ ~RollbackFails(d)
        BY <4>1 DEF PutConn, RollbackFails, Bodies, Outcomes
      <4>4. GetConnFails(d) \/ PutConnRaises(d) \/ BuildFails(d)
        BY <4>1, <4>2, <4>3 DEF CallStep, Peek, Lock, ReturnLocked, Build,
                                Unlock, Return, GetConn, Body
      <4>5. d = c
        BY <4>1, <4>4 DEF GetConnFails, PutConnRaises, BuildFails
      <4>6. QED
        BY <4>4, <4>5 DEF GetConnFails, BuildFails
    <3>2. \E k \in Closers : pc[k] # "idle"
      BY <3>1 DEF CalmInv, GetConnFails, PutConnRaises
    <3>3. QED
      BY <2>1, <3>2
  <2>4. QED
    BY <2>2, <2>3
<1>3. QED
  BY PoolInvariant, CalmInit, CalmStep, <1>1, <1>2, PTL DEF Spec
===============================================================================
