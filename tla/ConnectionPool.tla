--------------------------- MODULE ConnectionPool ---------------------------
(***************************************************************************)
(* backend/src/catalog.py, lines 36-92: the lazily created psycopg2 pool   *)
(* and _select, the only way the backend reaches PostgreSQL.               *)
(*                                                                         *)
(* A thread of the event loop's default executor runs one catalog call at  *)
(* a time; each _select of the call is one round of the actions below:     *)
(* _get_pool (double-checked lock), getconn, execute + fetchall, putconn.  *)
(* Warmup is a thread that stops after _get_pool.  PostgreSQL may stop and *)
(* come back at any moment, which kills every server session; a client     *)
(* notices only when it next uses the connection.                          *)
(*                                                                         *)
(* psycopg2 is not part of the repository: getconn, putconn and connect    *)
(* are external and modelled by what they do to the pool's lists.  Each of *)
(* them holds the pool's own mutex throughout, so each is one step.        *)
(***************************************************************************)
EXTENDS Naturals, FiniteSets

CONSTANTS
  Threads,     (* worker threads of asyncio.to_thread's executor *)
  Conn,        (* connection objects *)
  PoolSize,    (* POSTGRES_POOL_SIZE: minconn = maxconn *)
  NoThread, NoConn

ASSUME PoolAssumption ==
  /\ PoolSize \in Nat \ {0}
  /\ IsFiniteSet(Conn)
  /\ NoConn \notin Conn
  /\ NoThread \notin Threads

VARIABLES
  server,      (* "up" or "down": the PostgreSQL server *)
  live,        (* connections whose server session still exists *)
  published,   (* _pool is not None *)
  lock,        (* the thread inside "with _pool_lock", or NoThread *)
  building,    (* connections opened so far by ThreadedConnectionPool() *)
  idle, used,  (* the pool's _pool list and the values of its _used dict *)
  pc,          (* where each thread is *)
  wants,       (* "select", or "warm" for catalog.warm *)
  conn,        (* the local variable conn of _select *)
  txn,         (* what the client believes of conn: idle, open, closed *)
  outcome      (* how the thread's last call ended *)

vars == <<server, live, published, lock, building, idle, used,
          pc, wants, conn, txn, outcome>>

poolVars == <<published, lock, building, idle, used>>
localVars == <<wants, conn, txn>>

Steps == {"out", "check", "locking", "build", "getconn", "query", "putconn",
          "done"}
Outcomes == {"none", "ok", "CatalogUnavailable", "PoolError",
             "OperationalError"}

Holding(t) == pc[t] \in {"query", "putconn"}
Held == {conn[t] : t \in {u \in Threads : Holding(u)}}

(* Entries of _used that no running _select will ever give back. *)
Stranded == used \ Held

(* A new connection object is distinct from every object still referenced. *)
Fresh == Conn \ (idle \union used \union building \union Held)

Init ==
  /\ server \in {"up", "down"}
  /\ live = {}
  /\ published = FALSE
  /\ lock = NoThread
  /\ building = {} /\ idle = {} /\ used = {}
  /\ pc = [t \in Threads |-> "out"]
  /\ wants = [t \in Threads |-> "select"]
  /\ conn = [t \in Threads |-> NoConn]
  /\ txn = [t \in Threads |-> "idle"]
  /\ outcome = [t \in Threads |-> "none"]

-----------------------------------------------------------------------------
(* The server.  Stopping it ends every session without telling the clients. *)

ServerStops ==
  /\ server = "up"
  /\ server' = "down"
  /\ live' = {}
  /\ UNCHANGED <<poolVars, pc, localVars, outcome>>

ServerStarts ==
  /\ server = "down"
  /\ server' = "up"
  /\ UNCHANGED <<live, poolVars, pc, localVars, outcome>>

-----------------------------------------------------------------------------
(* _get_pool *)

Goto(t, step) == pc' = [pc EXCEPT ![t] = step]

Finish(t, how) ==
  /\ Goto(t, "done")
  /\ outcome' = [outcome EXCEPT ![t] = how]

(* With the pool in hand _select goes on to getconn; warm is finished. *)
HavePool(t) ==
  IF wants[t] = "warm"
    THEN Finish(t, "ok")
    ELSE Goto(t, "getconn") /\ UNCHANGED outcome

Begin(t, what) ==
  /\ pc[t] = "out"
  /\ wants' = [wants EXCEPT ![t] = what]
  /\ Goto(t, "check")
  /\ UNCHANGED <<server, live, poolVars, conn, txn, outcome>>

CheckPoolSkipsLock(t) ==
  /\ pc[t] = "check"
  /\ IF published THEN HavePool(t) ELSE Goto(t, "build") /\ UNCHANGED outcome
  /\ UNCHANGED <<server, live, poolVars, localVars>>

(* The unlocked test of _pool. *)
CheckPool(t) ==
  /\ pc[t] = "check"
  /\ IF published THEN HavePool(t) ELSE Goto(t, "locking") /\ UNCHANGED outcome
  /\ UNCHANGED <<server, live, poolVars, localVars>>

RecheckPoolBlind(t) ==
  /\ pc[t] = "locking"
  /\ lock = NoThread
  /\ lock' = t
  /\ Goto(t, "build")
  /\ UNCHANGED <<server, live, published, building, idle, used, localVars,
                 outcome>>

(* Enter "with _pool_lock" and test _pool again; a thread that lost the race *)
(* leaves the block at once.                                                *)
RecheckPool(t) ==
  /\ pc[t] = "locking"
  /\ lock = NoThread
  /\ \/ /\ published
        /\ HavePool(t)
        /\ UNCHANGED lock
     \/ /\ ~published
        /\ lock' = t
        /\ Goto(t, "build")
        /\ UNCHANGED outcome
  /\ UNCHANGED <<server, live, published, building, idle, used, localVars>>

(* ThreadedConnectionPool opens its minconn connections one after the other. *)
OpenConnection(t) ==
  /\ pc[t] = "build"
  /\ Cardinality(building) < PoolSize
  /\ server = "up"
  /\ \E c \in Fresh :
       /\ building' = building \union {c}
       /\ live' = live \union {c}
  /\ UNCHANGED <<server, published, lock, idle, used, pc, localVars, outcome>>

(* _pool = ThreadedConnectionPool(...), then the lock is released. *)
PublishPool(t) ==
  /\ pc[t] = "build"
  /\ Cardinality(building) = PoolSize
  /\ published' = TRUE
  /\ idle' = building
  /\ used' = {}
  /\ building' = {}
  /\ lock' = NoThread
  /\ HavePool(t)
  /\ UNCHANGED <<server, live, localVars>>

BuildFailsKeepsLock(t) ==
  /\ pc[t] = "build"
  /\ Cardinality(building) < PoolSize
  /\ server = "down"
  /\ building' = {}
  /\ Finish(t, "CatalogUnavailable")
  /\ UNCHANGED <<server, live, published, lock, idle, used, localVars>>

(* A refused connection: the connections opened so far are dropped with the *)
(* half-built pool, _pool stays None and the next caller tries again.       *)
BuildFails(t) ==
  /\ pc[t] = "build"
  /\ Cardinality(building) < PoolSize
  /\ server = "down"
  /\ building' = {}
  /\ lock' = NoThread
  /\ Finish(t, "CatalogUnavailable")
  /\ UNCHANGED <<server, live, published, idle, used, localVars>>

-----------------------------------------------------------------------------
(* pool.getconn(), called outside _select's try block *)

Take(t, c) ==
  /\ used' = used \union {c}
  /\ conn' = [conn EXCEPT ![t] = c]
  /\ txn' = [txn EXCEPT ![t] = "idle"]
  /\ Goto(t, "query")

GetIdleWithoutPop(t) ==
  /\ pc[t] = "getconn"
  /\ \E c \in idle : Take(t, c)
  /\ UNCHANGED <<server, live, published, lock, building, idle, wants, outcome>>

GetIdle(t) ==
  /\ pc[t] = "getconn"
  /\ \E c \in idle : idle' = idle \ {c} /\ Take(t, c)
  /\ UNCHANGED <<server, live, published, lock, building, wants, outcome>>

GetExhausted(t) ==
  /\ pc[t] = "getconn"
  /\ idle = {}
  /\ Cardinality(used) = PoolSize
  /\ Finish(t, "PoolError")
  /\ UNCHANGED <<server, live, poolVars, localVars>>

GetReplacementUnbounded(t) ==
  /\ pc[t] = "getconn"
  /\ idle = {}
  /\ server = "up"
  /\ \E c \in Fresh : Take(t, c) /\ live' = live \union {c}
  /\ UNCHANGED <<server, published, lock, building, idle, wants, outcome>>

(* The list is empty but fewer than maxconn are out: replace a discarded one. *)
GetReplacement(t) ==
  /\ pc[t] = "getconn"
  /\ idle = {}
  /\ Cardinality(used) # PoolSize
  /\ server = "up"
  /\ \E c \in Fresh : Take(t, c) /\ live' = live \union {c}
  /\ UNCHANGED <<server, published, lock, building, idle, wants, outcome>>

GetReplacementFails(t) ==
  /\ pc[t] = "getconn"
  /\ idle = {}
  /\ Cardinality(used) # PoolSize
  /\ server = "down"
  /\ Finish(t, "OperationalError")
  /\ UNCHANGED <<server, live, poolVars, localVars>>

-----------------------------------------------------------------------------
(* cur.execute and cur.fetchall, inside the try block *)

QueryEnds(t, how, belief) ==
  /\ pc[t] = "query"
  /\ Goto(t, "putconn")
  /\ outcome' = [outcome EXCEPT ![t] = how]
  /\ txn' = [txn EXCEPT ![t] = belief]
  /\ UNCHANGED <<server, live, poolVars, wants, conn>>

(* The rows are in; psycopg2 leaves the transaction it began open. *)
QuerySucceeds(t) ==
  /\ conn[t] \in live
  /\ QueryEnds(t, "ok", "open")

StatementFailsWithoutPutconn(t) ==
  /\ pc[t] = "query"
  /\ conn[t] \in live
  /\ Goto(t, "done")
  /\ conn' = [conn EXCEPT ![t] = NoConn]
  /\ outcome' = [outcome EXCEPT ![t] = "CatalogUnavailable"]
  /\ UNCHANGED <<server, live, poolVars, wants, txn>>

(* The server rejects the statement, or psycopg2 rejects a parameter before *)
(* anything is sent.                                                        *)
StatementFails(t) ==
  \/ conn[t] \in live /\ QueryEnds(t, "CatalogUnavailable", "open")
  \/ QueryEnds(t, "CatalogUnavailable", "idle")

(* The session is gone: the failed statement closes the connection object. *)
SessionLost(t) ==
  /\ conn[t] \notin live
  /\ QueryEnds(t, "CatalogUnavailable", "closed")

-----------------------------------------------------------------------------
(* pool.putconn(conn), in _select's finally block *)

Leave(t) ==
  /\ Goto(t, "done")
  /\ conn' = [conn EXCEPT ![t] = NoConn]
  /\ UNCHANGED <<server, live, published, lock, building, wants, txn>>

PutBackKeepsClosed(t) ==
  /\ pc[t] = "putconn"
  /\ txn[t] = "open" => conn[t] \in live
  /\ idle' = idle \union {conn[t]}
  /\ used' = used \ {conn[t]}
  /\ Leave(t)
  /\ UNCHANGED outcome

(* A closed connection is dropped, an open transaction is rolled back, and  *)
(* the connection joins the list while that is shorter than minconn.        *)
PutBack(t) ==
  /\ pc[t] = "putconn"
  /\ txn[t] = "open" => conn[t] \in live
  /\ idle' = IF txn[t] # "closed" /\ Cardinality(idle) < PoolSize
               THEN idle \union {conn[t]} ELSE idle
  /\ used' = used \ {conn[t]}
  /\ Leave(t)
  /\ UNCHANGED outcome

(* The session died after the statement: rollback raises before putconn has *)
(* removed the entry from _used, and its exception replaces the result.     *)
PutBackFails(t) ==
  /\ pc[t] = "putconn"
  /\ txn[t] = "open"
  /\ conn[t] \notin live
  /\ Leave(t)
  /\ outcome' = [outcome EXCEPT ![t] = "OperationalError"]
  /\ UNCHANGED <<idle, used>>

(* The caller has the result or the exception. *)
Return(t) ==
  /\ pc[t] = "done"
  /\ Goto(t, "out")
  /\ outcome' = [outcome EXCEPT ![t] = "none"]
  /\ UNCHANGED <<server, live, poolVars, localVars>>

-----------------------------------------------------------------------------
GetPool(t) == \/ CheckPool(t) \/ RecheckPool(t)
              \/ OpenConnection(t) \/ PublishPool(t) \/ BuildFails(t)

GetConn(t) == \/ GetIdle(t) \/ GetExhausted(t)
              \/ GetReplacement(t) \/ GetReplacementFails(t)

Query(t) == QuerySucceeds(t) \/ StatementFails(t) \/ SessionLost(t)

PutConn(t) == PutBack(t) \/ PutBackFails(t)

(* What a thread does once it has begun: never blocked except by the lock. *)
Proceed(t) == GetPool(t) \/ GetConn(t) \/ Query(t) \/ PutConn(t) \/ Return(t)

Next ==
  \/ ServerStops
  \/ ServerStarts
  \/ \E t \in Threads : Proceed(t) \/ \E what \in {"select", "warm"} : Begin(t, what)

Spec == Init /\ [][Next]_vars

(* A thread the operating system runs makes progress; nothing is assumed of *)
(* the server, of new calls or of who gets the lock first.                  *)
FairSpec == Spec /\ \A t \in Threads : WF_vars(Proceed(t))
-----------------------------------------------------------------------------
(* Every variable has its type; a thread has a connection exactly while it  *)
(* is between getconn and putconn (catalog.py:84-92).                       *)
TypeOK ==
  /\ server \in {"up", "down"}
  /\ live \in SUBSET Conn
  /\ published \in BOOLEAN
  /\ lock \in Threads \union {NoThread}
  /\ building \in SUBSET Conn
  /\ idle \in SUBSET Conn
  /\ used \in SUBSET Conn
  /\ pc \in [Threads -> Steps]
  /\ wants \in [Threads -> {"select", "warm"}]
  /\ conn \in [Threads -> Conn \union {NoConn}]
  /\ txn \in [Threads -> {"idle", "open", "closed"}]
  /\ outcome \in [Threads -> Outcomes]
  /\ \A t \in Threads : Holding(t) <=> conn[t] # NoConn

(* A connection that one thread queries is neither in the pool's list nor   *)
(* in another thread's hands, whatever servers stop and queries fail between *)
(* getconn and putconn: no two threads read each other's rows.              *)
ExclusiveUse ==
  \A t \in Threads : Holding(t) =>
    /\ conn[t] \notin idle
    /\ \A u \in Threads \ {t} : conn[u] # conn[t]

(* POSTGRES_POOL_SIZE bounds the sessions the server ever sees, also while  *)
(* dropped connections are replaced one by one (catalog.py:63-65).          *)
SessionsBounded == Cardinality(live) <= PoolSize

(* No working session is lost: each is in the list, in a pool under         *)
(* construction or held by a thread, so an entry of _used that nobody will  *)
(* return is a dead connection (the finally block, catalog.py:91-92).       *)
NoLiveSessionLost == live \subseteq idle \union building \union Held

(* The double-checked lock builds one pool: once _pool is set no thread     *)
(* builds another and none replaces it (catalog.py:50-54).                  *)
PoolBuiltOnce ==
  [][published => published' /\ \A t \in Threads : pc'[t] # "build"]_vars

Once == INSTANCE OnceResource WITH
  open <- published, builder <- lock, Callers <- Threads, Nobody <- NoThread

(* The pool is a OnceResource: only the thread inside the lock publishes    *)
(* it, and a failed build leaves the lock to the next (catalog.py:48-75).   *)
PoolIsOnce == Once!Spec

(* When the server stays up, every call that has begun ends: the lock is    *)
(* released on every way out and nobody waits for a connection.             *)
CallsReturn ==
  <>[](server = "up") => \A t \in Threads : pc[t] # "out" ~> pc[t] = "out"

(* After the server has come back for good, the connections that died with  *)
(* it are used up: eventually no statement meets a lost session any more.   *)
LostSessionsFlushed ==
  <>[](server = "up") =>
    <>[](\A t \in Threads : ~(pc[t] = "putconn" /\ txn[t] = "closed"))

-----------------------------------------------------------------------------
(* The inductive invariant behind the safety properties.                    *)

(* Who builds holds the lock; before the pool is published nothing else     *)
(* happens, afterwards nothing is built.                                    *)
LockInv ==
  /\ \A t \in Threads : pc[t] = "build" <=> lock = t
  /\ lock = NoThread => building = {}
  /\ published => lock = NoThread
  /\ ~published => /\ idle = {} /\ used = {}
                   /\ \A t \in Threads : pc[t] # "getconn" /\ ~Holding(t)

(* The pool's two collections are disjoint and together no larger than      *)
(* maxconn.                                                                 *)
SlotsInv ==
  /\ idle \intersect used = {}
  /\ Cardinality(idle) + Cardinality(used) <= PoolSize
  /\ Cardinality(building) <= PoolSize

(* Held connections are distinct entries of _used.                          *)
HeldInv ==
  /\ \A t \in Threads : Holding(t) => conn[t] \in used
  /\ \A t, u \in Threads : Holding(t) /\ Holding(u) /\ conn[t] = conn[u] => t = u

(* What the clients know of the sessions.                                   *)
SessionInv ==
  /\ server = "down" => live = {}
  /\ \A t \in Threads : pc[t] = "putconn" /\ txn[t] = "closed" => conn[t] \notin live
  /\ NoLiveSessionLost

(* All parts together: what every step of _get_pool, _select and the server *)
(* keeps (catalog.py:36-92).                                                *)
IInv == TypeOK /\ LockInv /\ SlotsInv /\ HeldInv /\ SessionInv

-----------------------------------------------------------------------------
(* What the repository says of the pool, and the code does not do.          *)

(* README.md:377 explains "connection pool exhausted" by more parallel tool *)
(* calls than the pool allows: a refused getconn means that PoolSize other  *)
(* calls hold a connection.                                                 *)
RefusedOnlyWhenAllInUse ==
  [][\A t \in Threads : outcome[t] = "none" /\ outcome'[t] = "PoolError"
       => Cardinality({u \in Threads : Holding(u)}) >= PoolSize]_vars
=============================================================================
