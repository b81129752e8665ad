--------------------------- MODULE WapConnectionPool ---------------------------
(***************************************************************************)
(* The pool of backends/postgres/connection.py: threads that call          *)
(* get_connection() for one transaction each, while others call            *)
(* close_pool(). psycopg2's ThreadedConnectionPool is external: getconn(), *)
(* putconn() and closeall() each run under the pool's own lock, so each is *)
(* one step. A step of the module's own code ends where another thread can *)
(* see or change _pool: at every access to it outside _pool_lock.          *)
(*                                                                         *)
(* A pool is named by the call that built it. Its connections are either   *)
(* idle, or used by the call that took them.                               *)
(***************************************************************************)
EXTENDS Integers, FiniteSets

CONSTANTS
    Calls,      \* calls of get_connection()
    Closers,    \* calls of close_pool() (reset_pool() only calls it)
    MinConn,    \* WAP_POOL_MIN_CONN
    MaxConn,    \* WAP_POOL_MAX_CONN
    None

Threads == Calls \cup Closers

VARIABLES
    pool,       \* _pool, the singleton
    lock,       \* who holds _pool_lock
    made,       \* the pools that were built
    closed,     \* the pools closeall() was called on
    idle,       \* how many connections of a pool are idle
    used,       \* the calls that hold a connection of a pool
    pc,
    local,      \* "pool", the local variable of get_connection()
    body,       \* how the body of the with statement ended
    outcome     \* how the call ended

vars == <<pool, lock, made, closed, idle, used, pc, local, body, outcome>>
pools == <<made, closed, idle, used>>

CallSteps   == {"idle", "waiting", "locked", "built", "returning", "acquire",
                "using", "release", "ended"}
CloserSteps == {"idle", "closing", "resetting", "ended"}
Bodies      == {"committed", "read", "raised", "disconnected"}
Outcomes    == Bodies \cup {"unavailable", "attributeError", "poolClosed",
                            "exhausted", "connectFailed", "putconnRaised",
                            "rollbackFailed"}

(* The environment variables are parsed by int() and not compared.         *)
ASSUME ThreadsAssumption ==
    /\ Calls \cap Closers = {}
    /\ None \notin Threads \cup Outcomes
    /\ MinConn \in Nat /\ MaxConn \in Nat

TypeOK ==
    /\ pool \in Calls \cup {None}
    /\ lock \in Threads \cup {None}
    /\ made \subseteq Calls /\ closed \subseteq made
    /\ idle \in [Calls -> Nat]
    /\ used \in [Calls -> SUBSET Calls]
    /\ pc \in [Threads -> CallSteps \cup CloserSteps]
    /\ local \in [Calls -> Calls \cup {None}]
    /\ body \in [Calls -> Bodies \cup {None}]
    /\ outcome \in [Calls -> Outcomes \cup {None}]

Init ==
    /\ pool = None /\ lock = None
    /\ made = {} /\ closed = {}
    /\ idle = [c \in Calls |-> 0]
    /\ used = [c \in Calls |-> {}]
    /\ pc = [t \in Threads |-> "idle"]
    /\ local = [c \in Calls |-> None]
    /\ body = [c \in Calls |-> None]
    /\ outcome = [c \in Calls |-> None]

Go(t, from, to) == pc[t] = from /\ pc' = [pc EXCEPT ![t] = to]

Raise(c, from, why) ==
    /\ Go(c, from, "ended")
    /\ outcome' = [outcome EXCEPT ![c] = why]

-------------------------------------------------------------------------------
(* _get_pool()                                                             *)

(* The test outside the lock; the return statement reads _pool again.      *)
Peek(c) ==
    /\ Go(c, "idle", IF pool = None THEN "waiting" ELSE "returning")
    /\ UNCHANGED <<pool, lock, pools, local, body, outcome>>

Lock(c) ==
    /\ lock = None
    /\ Go(c, "waiting", "locked")
    /\ lock' = c
    /\ UNCHANGED <<pool, pools, local, body, outcome>>

ReturnLocked(c) ==
    /\ pool # None
    /\ Go(c, "locked", "acquire")
    /\ lock' = None
    /\ local' = [local EXCEPT ![c] = pool]
    /\ UNCHANGED <<pool, pools, body, outcome>>

(* A mutant: no second test of _pool once the lock is held. *)
BuildUnchecked(c) ==
    /\ Go(c, "locked", "built")
    /\ made' = made \cup {c}
    /\ idle' = [idle EXCEPT ![c] = MinConn]
    /\ pool' = c
    /\ UNCHANGED <<lock, closed, used, local, body, outcome>>

(* A mutant: the new pool is assigned to a local variable. *)
BuildUnassigned(c) ==
    /\ pool = None
    /\ Go(c, "locked", "built")
    /\ made' = made \cup {c}
    /\ idle' = [idle EXCEPT ![c] = MinConn]
    /\ UNCHANGED <<pool, lock, closed, used, local, body, outcome>>

Build(c) ==
    /\ pool = None
    /\ Go(c, "locked", "built")
    /\ made' = made \cup {c}
    /\ idle' = [idle EXCEPT ![c] = MinConn]
    /\ pool' = c
    /\ UNCHANGED <<lock, closed, used, local, body, outcome>>

(* OSError of _build_dsn(), ValueError of int(), or ConnectionError.       *)
BuildFails(c) ==
    /\ pool = None
    /\ Raise(c, "locked", "unavailable")
    /\ lock' = None
    /\ UNCHANGED <<pool, pools, local, body>>

(* The return statement of the builder stands after the with statement.    *)
Unlock(c) ==
    /\ Go(c, "built", "returning")
    /\ lock' = None
    /\ UNCHANGED <<pool, pools, local, body, outcome>>

Return(c) ==
    /\ Go(c, "returning", "acquire")
    /\ local' = [local EXCEPT ![c] = pool]
    /\ UNCHANGED <<pool, lock, pools, body, outcome>>

-------------------------------------------------------------------------------
(* get_connection(): pool.getconn(), the body, pool.putconn().             *)

Exhausted(g) == Cardinality(used[g]) = MaxConn

(* A mutant: getconn() is tried again, on the same pool, until it succeeds. *)
GetConnRetried(c) ==
    IF local[c] = None
    THEN /\ Raise(c, "acquire", "attributeError")
         /\ UNCHANGED <<pool, lock, pools, local, body>>
    ELSE /\ pc[c] = "acquire"
         /\ local[c] \in closed \/ Exhausted(local[c])
         /\ UNCHANGED vars

GetConnFails(c) ==
    /\ \/ local[c] = None /\ Raise(c, "acquire", "attributeError")
       \/ local[c] \in closed /\ Raise(c, "acquire", "poolClosed")
       \/ /\ local[c] \in made \ closed
          /\ idle[local[c]] = 0
          /\ Raise(c, "acquire", IF Exhausted(local[c]) THEN "exhausted"
                                 ELSE "connectFailed")
    /\ UNCHANGED <<pool, lock, pools, local, body>>

(* An idle connection if there is one, else a new one.                     *)
GetConn(c) ==
    LET g == local[c]
    IN  /\ g \in made \ closed
        /\ idle[g] > 0 \/ ~Exhausted(g)
        /\ Go(c, "acquire", "using")
        /\ idle' = [idle EXCEPT ![g] = IF @ > 0 THEN @ - 1 ELSE 0]
        /\ used' = [used EXCEPT ![g] = @ \cup {c}]
        /\ UNCHANGED <<pool, lock, made, closed, local, body, outcome>>

(* A body commits, or ends with its transaction open ("read": nothing but  *)
(* SELECTs), or raises, the server's session alive or lost. One whose      *)
(* connection closeall() closed cannot execute or commit.                  *)
Body(c) ==
    /\ Go(c, "using", "release")
    /\ \E how \in IF local[c] \in closed THEN {"raised", "disconnected"}
                  ELSE Bodies :
          body' = [body EXCEPT ![c] = how]
    /\ UNCHANGED <<pool, lock, pools, local, outcome>>

PutConnRaises(c) ==
    /\ local[c] \in closed
    /\ Raise(c, "release", "putconnRaised")
    /\ UNCHANGED <<pool, lock, pools, local, body>>

(* putconn() rolls an open transaction back before it frees the slot: when *)
(* the server is lost only then, rollback() raises and the slot stays used. *)
RollbackFails(c) ==
    LET g == local[c]
    IN  /\ g \in made \ closed
        /\ idle[g] < MinConn /\ body[c] \in {"read", "raised"}
        /\ Raise(c, "release", "rollbackFailed")
        /\ UNCHANGED <<pool, lock, pools, local, body>>

(* A mutant: putconn() after the yield, not in a finally clause. *)
PutConnUnlessRaised(c) ==
    LET g == local[c]
    IN  /\ g \in made \ closed
        /\ Raise(c, "release", body[c])
        /\ IF body[c] \in {"committed", "read"}
           THEN /\ used' = [used EXCEPT ![g] = @ \ {c}]
                /\ idle' = [idle EXCEPT ![g] = IF @ < MinConn THEN @ + 1 ELSE @]
           ELSE UNCHANGED <<used, idle>>
        /\ UNCHANGED <<pool, lock, made, closed, local, body>>

(* The pool rolls back and keeps the connection while it has fewer than    *)
(* MinConn idle ones and the connection lives; otherwise it closes it.     *)
PutConn(c) ==
    LET g == local[c]
    IN  /\ g \in made \ closed
        /\ Raise(c, "release", body[c])
        /\ used' = [used EXCEPT ![g] = @ \ {c}]
        /\ idle' = [idle EXCEPT ![g] =
              IF @ < MinConn /\ body[c] # "disconnected" THEN @ + 1 ELSE @]
        /\ UNCHANGED <<pool, lock, made, closed, local, body>>

-------------------------------------------------------------------------------
(* close_pool()                                                            *)

(* A mutant: close_pool() does not take _pool_lock. *)
StartCloseUnlocked(k) ==
    /\ Go(k, "idle", "closing")
    /\ UNCHANGED <<pool, lock, pools, local, body, outcome>>

StartClose(k) ==
    /\ lock = None
    /\ Go(k, "idle", "closing")
    /\ lock' = k
    /\ UNCHANGED <<pool, pools, local, body, outcome>>

(* A mutant: the guard "if _pool is not None" is forgotten. *)
CloseAllUnguarded(k) ==
    /\ Go(k, "closing", "resetting")
    /\ closed' = closed \cup {pool}
    /\ UNCHANGED <<pool, lock, made, idle, used, local, body, outcome>>

CloseAll(k) ==
    /\ Go(k, "closing", "resetting")
    /\ closed' = closed \cup ({pool} \ {None})
    /\ UNCHANGED <<pool, lock, made, idle, used, local, body, outcome>>

Reset(k) ==
    /\ Go(k, "resetting", "ended")
    /\ pool' = None
    /\ lock' = None
    /\ UNCHANGED <<pools, local, body, outcome>>

-------------------------------------------------------------------------------
CallStep(c) ==
    \/ Peek(c) \/ Lock(c) \/ ReturnLocked(c) \/ Build(c) \/ BuildFails(c)
    \/ Unlock(c) \/ Return(c) \/ GetConn(c) \/ GetConnFails(c) \/ Body(c)
    \/ PutConn(c) \/ PutConnRaises(c) \/ RollbackFails(c)

CloserStep(k) == StartClose(k) \/ CloseAll(k) \/ Reset(k)

AllEnded ==
    /\ \A t \in Threads : pc[t] = "ended"
    /\ UNCHANGED vars

Next ==
    \/ \E c \in Calls : CallStep(c)
    \/ \E k \in Closers : CloserStep(k)
    \/ AllEnded

Spec == Init /\ [][Next]_vars

(* Every thread is scheduled, and a body ends. The lock is taken a finite  *)
(* number of times, so whoever waits for it finds it free for good.        *)
Fairness ==
    /\ \A c \in Calls : WF_vars(CallStep(c))
    /\ \A k \in Closers : WF_vars(CloserStep(k))

FairSpec == Spec /\ Fairness
-------------------------------------------------------------------------------
(* Properties.                                                             *)

(* _pool is the only pool that can hold open connections: no first access  *)
(* and no close_pool() ever loses track of a pool that is still open       *)
(* (connection.py:97-98).                                                  *)
OpenPoolIsTheSingleton == made \ closed \subseteq {pool}

Open(g) == IF g \in made \ closed THEN idle[g] + Cardinality(used[g]) ELSE 0

(* The process never has more than WAP_POOL_MAX_CONN connections open,     *)
(* whatever pools were built and closed (.env.example:23 relies on it),    *)
(* provided that it is no less than WAP_POOL_MIN_CONN.                     *)
ConnectionsAreBounded ==
    MinConn <= MaxConn =>
        \A g, h \in Calls : g # h => Open(g) + Open(h) <= MaxConn

(* Every slot that an open pool counts as used belongs to a call that is   *)
(* still inside its with statement, whether bodies end or raise            *)
(* (connection.py:142-143); the one way to lose a slot is a rollback() of  *)
(* putconn() that raises.                                                  *)
NoConnectionLeaks ==
    \A g \in made \ closed : \A c \in used[g] :
        /\ local[c] = g
        /\ pc[c] \in {"using", "release"} \/ outcome[c] = "rollbackFailed"

(* When close_pool() returns, no connection of the process is open: none   *)
(* that another thread uses, and none of a pool another thread just built. *)
ClosingLeavesNothingOpen ==
    [][\A k \in Closers :
          pc[k] # "ended" /\ pc'[k] = "ended" => made' = closed']_vars

(* A call sees a missing or closed pool only after some close_pool() has   *)
(* started: concurrent first accesses alone do not disturb each other.     *)
OnlyClosingDisturbs ==
    \A c \in Calls :
        outcome[c] \in {"attributeError", "poolClosed", "putconnRaised"} =>
            \E k \in Closers : pc[k] # "idle"

(* Every call of get_connection() and close_pool() comes to an end; nobody *)
(* waits for the lock forever, and exhaustion does not block.              *)
EveryCallEnds == \A t \in Threads : pc[t] # "idle" ~> pc[t] = "ended"

-------------------------------------------------------------------------------
(* What the documentation says and the code does not do; see README.       *)

(* "Raises: ConnectionError: Pool not available or all connections         *)
(* exhausted": an exhausted pool raises psycopg2.pool.PoolError instead.   *)
ExhaustionIsAConnectionError == \A c \in Calls : outcome[c] # "exhausted"
===============================================================================
