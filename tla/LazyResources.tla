--------------------------- MODULE LazyResources ----------------------------
(***************************************************************************)
(* The resources the backend builds on first use and the start-up that     *)
(* warms them: the embedding model (core/llm.py, no lock), the PostgreSQL  *)
(* pool and the Qdrant client (catalog.py, double-checked locks), reached  *)
(* by blocking calls in the threads of asyncio.to_thread's executor, and   *)
(* the lifespan of app/main.py, whose background task warms everything     *)
(* while requests are already served.                                      *)
(*                                                                         *)
(* Every resource may fail to open and every use of one may fail.  What    *)
(* happens inside the pool is ConnectionPool's subject: here it opens or   *)
(* does not.  The executor, the stores and uvicorn are external.           *)
(***************************************************************************)
EXTENDS Naturals, Sequences, FiniteSets

CONSTANTS
  Requests,    (* calls made by the tools of requests *)
  Query,       (* the text each search embeds, a number above 2 *)
  Workers,     (* threads of the executor *)
  NoCall       (* nobody inside a lock *)

WarmupCalls == {"warmup", "warm", "search", "filter"}
Calls == WarmupCalls \union Requests

ASSUME ResourcesAssumption ==
  /\ IsFiniteSet(Requests)
  /\ Requests \intersect WarmupCalls = {}
  /\ NoCall \notin Calls
  /\ Query \in [Requests \union {"search"} -> Nat \ {1, 2}]
  /\ Workers \in Nat \ {0}

Locked == {"pool", "qdrant"}
Resources == {"model"} \union Locked

(* What a call asks for, in order. *)
Job == [warmup |-> <<"model", "model">>,
        warm   |-> <<"pool", "qdrant">>,
        search |-> <<"model", "qdrant", "pool">>,
        filter |-> <<"pool">>]

VARIABLES
  opened,      (* how often each resource has been built and published *)
  lock,        (* the call inside "with _pool_lock" / "with _qclient_lock" *)
  cached,      (* texts in embed's lru_cache (far fewer than its 128) *)
  job, pc, at, (* of each call: what it runs, where it is, which need is next *)
  result,      (* "none", "ok", "cancelled" or the error that ended it *)
  warming,     (* the background task of lifespan *)
  phase        (* of the application: serving, stopping, stopped *)

shared == <<opened, lock, cached>>
calls == <<job, pc, at, result>>
vars == <<shared, calls, warming, phase>>

Published(r) == opened[r] > 0
Running == {c \in Calls : pc[c] \in {"check", "locking", "build", "use"}}
Ended(c) == pc[c] = "done"
Need(c) == Job[job[c]][at[c]]

(* The text a call embeds: texts 1 and 2 in warmup, a search its query. *)
Text(c) == IF job[c] = "warmup" THEN at[c] ELSE Query[c]

Init ==
  /\ opened = [r \in Resources |-> 0]
  /\ lock = [r \in Locked |-> NoCall]
  /\ cached = {}
  /\ job = [c \in Calls |-> IF c \in WarmupCalls THEN c ELSE "search"]
  /\ pc = [c \in Calls |-> "out"]
  /\ at = [c \in Calls |-> 1]
  /\ result = [c \in Calls |-> "none"]
  /\ warming = "client"
  /\ phase = "serving"

-----------------------------------------------------------------------------
(* The executor: calls wait for one of its threads, in no modelled order. *)

Queue(S) == pc' = [c \in Calls |-> IF c \in S THEN "queued" ELSE pc[c]]

Submit(c, j) ==
  /\ phase = "serving"
  /\ pc[c] = "out"
  /\ Queue({c})
  /\ job' = [job EXCEPT ![c] = j]
  /\ UNCHANGED <<shared, at, result, warming, phase>>

Goto(c, step) == pc' = [pc EXCEPT ![c] = step]

Start(c) ==
  /\ pc[c] = "queued"
  /\ Cardinality(Running) < Workers
  /\ Goto(c, "check")
  /\ UNCHANGED <<shared, job, at, result, warming, phase>>

(* The call is finished with its current need. *)
Advance(c) ==
  \/ /\ at[c] < Len(Job[job[c]])
     /\ at' = [at EXCEPT ![c] = @ + 1]
     /\ Goto(c, "check")
     /\ UNCHANGED result
  \/ /\ at[c] = Len(Job[job[c]])
     /\ Goto(c, "done")
     /\ result' = [result EXCEPT ![c] = "ok"]
     /\ UNCHANGED at

ToleratesWarmOnly(c, error) == job[c] = "warm"

(* catalog.warm logs any failure and goes on; semantic_search does without *)
(* PostgreSQL when it is told CatalogUnavailable, and only then.           *)
Tolerates(c, error) ==
  \/ job[c] = "warm"
  \/ job[c] = "search" /\ error = "CatalogUnavailable"

Fail(c, error) ==
  \/ Tolerates(c, error) /\ Advance(c)
  \/ /\ ~Tolerates(c, error)
     /\ Goto(c, "done")
     /\ result' = [result EXCEPT ![c] = error]
     /\ UNCHANGED at

(* warm only opens its resources; every other call goes on to use them. *)
Have(c) ==
  IF job[c] = "warm" THEN Advance(c) ELSE Goto(c, "use") /\ UNCHANGED <<at, result>>

-----------------------------------------------------------------------------
(* Opening a resource *)

CachedEmbedding(c) ==
  /\ pc[c] = "check" /\ Need(c) = "model" /\ Text(c) \in cached
  /\ Advance(c)
  /\ UNCHANGED <<shared, job, warming, phase>>

CheckEachTime(c) ==
  /\ pc[c] = "check"
  /\ ~(Need(c) = "model" /\ Text(c) \in cached)
  /\ IF Need(c) # "model" /\ Published(Need(c))
       THEN Have(c)
       ELSE /\ Goto(c, IF Need(c) = "model" THEN "build" ELSE "locking")
            /\ UNCHANGED <<at, result>>
  /\ UNCHANGED <<shared, job, warming, phase>>

CheckSkipsLock(c) ==
  /\ pc[c] = "check"
  /\ ~(Need(c) = "model" /\ Text(c) \in cached)
  /\ IF Published(Need(c)) THEN Have(c) ELSE Goto(c, "build") /\ UNCHANGED <<at, result>>
  /\ UNCHANGED <<shared, job, warming, phase>>

(* The unlocked test: _get_embedding_model loads at once, the others lock. *)
Check(c) ==
  /\ pc[c] = "check"
  /\ ~(Need(c) = "model" /\ Text(c) \in cached)
  /\ IF Published(Need(c))
       THEN Have(c)
       ELSE /\ Goto(c, IF Need(c) = "model" THEN "build" ELSE "locking")
            /\ UNCHANGED <<at, result>>
  /\ UNCHANGED <<shared, job, warming, phase>>

RecheckBlind(c) ==
  /\ pc[c] = "locking" /\ lock[Need(c)] = NoCall
  /\ lock' = [lock EXCEPT ![Need(c)] = c]
  /\ Goto(c, "build")
  /\ UNCHANGED <<opened, cached, job, at, result, warming, phase>>

(* Inside the lock the test is repeated; a call that lost the race leaves. *)
Recheck(c) ==
  /\ pc[c] = "locking" /\ lock[Need(c)] = NoCall
  /\ \/ Published(Need(c)) /\ Have(c) /\ UNCHANGED lock
     \/ /\ ~Published(Need(c))
        /\ lock' = [lock EXCEPT ![Need(c)] = c]
        /\ Goto(c, "build")
        /\ UNCHANGED <<at, result>>
  /\ UNCHANGED <<opened, cached, job, warming, phase>>

Release(r) == [l \in Locked |-> IF l = r THEN NoCall ELSE lock[l]]

Open(c) ==
  /\ pc[c] = "build"
  /\ opened' = [opened EXCEPT ![Need(c)] = @ + 1]
  /\ lock' = Release(Need(c))
  /\ Have(c)
  /\ UNCHANGED <<cached, job, warming, phase>>

OpenFailsLocked(c) ==
  /\ pc[c] = "build"
  /\ Fail(c, IF Need(c) = "pool" THEN "CatalogUnavailable" ELSE "Error")
  /\ UNCHANGED <<opened, lock, cached, job, warming, phase>>

(* Nothing is published and the "with" block is left by the exception. *)
OpenFails(c) ==
  /\ pc[c] = "build"
  /\ lock' = Release(Need(c))
  /\ Fail(c, IF Need(c) = "pool" THEN "CatalogUnavailable" ELSE "Error")
  /\ UNCHANGED <<opened, cached, job, warming, phase>>

(* encode, query_points or the statements of _select: an embedding enters  *)
(* the cache, a failure of _select is CatalogUnavailable unless getconn,   *)
(* outside its try block, raised it.                                       *)
Use(c) ==
  /\ pc[c] = "use"
  /\ \/ /\ Advance(c)
        /\ cached' = IF Need(c) = "model" THEN cached \union {Text(c)} ELSE cached
     \/ /\ Fail(c, "Error")
        /\ UNCHANGED cached
     \/ /\ Need(c) = "pool" /\ Fail(c, "CatalogUnavailable")
        /\ UNCHANGED cached
  /\ UNCHANGED <<opened, lock, job, warming, phase>>

-----------------------------------------------------------------------------
(* lifespan: _warmup, and the shutdown after the yield *)

(* get_client(), then gather submits the two independent warm-ups. *)
WarmClient ==
  /\ warming = "client"
  /\ \/ warming' = "gather" /\ Queue({"warmup", "warm"})
     \/ warming' = "failed" /\ UNCHANGED pc
  /\ UNCHANGED <<shared, job, at, result, phase>>

Awaited == CASE warming = "gather" -> {"warmup", "warm"}
             [] warming = "search" -> {"search"}
             [] warming = "filter" -> {"filter"}
             [] OTHER -> {}

WarmPassesOnlyGather ==
  /\ Awaited # {}
  /\ \A c \in Awaited : result[c] = "ok"
  /\ warming' = "ok"
  /\ UNCHANGED <<shared, calls, phase>>

(* Everything awaited succeeded: the next pass, or the end. *)
WarmPasses ==
  /\ Awaited # {}
  /\ \A c \in Awaited : result[c] = "ok"
  /\ \/ warming = "gather" /\ warming' = "search" /\ Queue({"search"})
     \/ warming = "search" /\ warming' = "filter" /\ Queue({"filter"})
     \/ warming = "filter" /\ warming' = "ok" /\ UNCHANGED pc
  /\ UNCHANGED <<shared, job, at, result, phase>>

(* The first failure ends _warmup; the other thread of gather goes on. *)
WarmFails ==
  /\ \E c \in Awaited : result[c] \notin {"none", "ok"}
  /\ warming' = "failed"
  /\ UNCHANGED <<shared, calls, phase>>

WarmingEnded == warming \in {"ok", "failed", "cancelled"}

ShutdownWithoutCancel ==
  /\ phase = "serving"
  /\ phase' = "stopping"
  /\ UNCHANGED <<shared, calls, warming>>

(* warmup_task.cancel(): calls still queued are cancelled with it, a call  *)
(* already in a thread cannot be stopped.                                  *)
Shutdown ==
  /\ phase = "serving"
  /\ phase' = "stopping"
  /\ warming' = IF WarmingEnded THEN warming ELSE "cancelled"
  /\ LET dropped == {c \in Awaited : pc[c] = "queued"}
     IN  /\ pc' = [c \in Calls |-> IF c \in dropped THEN "done" ELSE pc[c]]
         /\ result' = [c \in Calls |-> IF c \in dropped THEN "cancelled" ELSE result[c]]
  /\ UNCHANGED <<shared, job, at>>

(* The server waits for the executor's threads before the process ends. *)
Stop ==
  /\ phase = "stopping"
  /\ WarmingEnded
  /\ \A c \in Calls : pc[c] \in {"out", "done"}
  /\ phase' = "stopped"
  /\ UNCHANGED <<shared, calls, warming>>

Step(c) ==
  \/ Start(c) \/ CachedEmbedding(c) \/ Check(c) \/ Recheck(c)
  \/ Open(c) \/ OpenFails(c) \/ Use(c)

Task == WarmClient \/ WarmPasses \/ WarmFails

Next ==
  \/ \E c \in Requests, j \in {"search", "filter"} : Submit(c, j)
  \/ \E c \in Calls : Step(c)
  \/ Task
  \/ Shutdown
  \/ Stop

Spec == Init /\ [][Next]_vars

(* Threads run, locks are handed on, and the loop schedules its task. *)
FairSpec ==
  /\ Spec
  /\ \A c \in Calls : WF_vars(Step(c))
  /\ WF_vars(Task)
  /\ WF_vars(Stop)

-----------------------------------------------------------------------------
(* Properties *)

(* Every variable has its type. *)
TypeOK ==
  /\ opened \in [Resources -> Nat]
  /\ lock \in [Locked -> Calls \union {NoCall}]
  /\ cached \subseteq Nat
  /\ job \in [Calls -> DOMAIN Job]
  /\ pc \in [Calls -> {"out", "queued", "check", "locking", "build", "use", "done"}]
  /\ at \in [Calls -> 1..3]
  /\ \A c \in Calls : at[c] <= Len(Job[job[c]])
  /\ result \in [Calls -> {"none", "ok", "cancelled", "Error", "CatalogUnavailable"}]
  /\ warming \in {"client", "gather", "search", "filter", "ok", "failed", "cancelled"}
  /\ phase \in {"serving", "stopping", "stopped"}

(* Whatever threads race to the first use, one pool and one Qdrant client  *)
(* are opened in the life of the process: the double-checked locks of      *)
(* _get_pool and _qdrant (a second pool would double the connections).     *)
OpenedOnce == \A r \in Locked : opened[r] <= 1

PoolOnce == INSTANCE OnceResource WITH
  open <- Published("pool"), builder <- lock["pool"], Callers <- Calls, Nobody <- NoCall
QdrantOnce == INSTANCE OnceResource WITH
  open <- Published("qdrant"), builder <- lock["qdrant"], Callers <- Calls, Nobody <- NoCall

(* Both locked resources are OnceResources, also while the other one fails *)
(* to open, calls are cancelled and the application stops.                 *)
LockedAreOnce == PoolOnce!Spec /\ QdrantOnce!Spec

(* The unlocked load of _get_embedding_model may run more than once, but   *)
(* only in threads that were in it together before the first load ended:   *)
(* what has been loaded and what is loading never exceed the executor's    *)
(* threads.                                                                *)
ModelLoadsBounded ==
  /\ Cardinality(Running) <= Workers
  /\ opened["model"] + Cardinality({c \in Calls : pc[c] = "build" /\ Need(c) = "model"}) <= Workers

(* Who builds a locked resource is inside its lock, and nobody else is; it *)
(* builds only what is not published (the test inside the "with" block).   *)
LockInv ==
  /\ \A r \in Locked, c \in Calls : lock[r] = c <=> pc[c] = "build" /\ Need(c) = r
  /\ \A r \in Locked : lock[r] # NoCall => ~Published(r)

(* How far a call is: what a warm-up call runs is fixed, nothing is tried  *)
(* before a thread runs it, only locked resources make it wait, and it has *)
(* a result exactly when it is over; an "ok" only past its last need.      *)
CallInv ==
  \A c \in Calls :
    /\ c \in WarmupCalls => job[c] = c
    /\ pc[c] \in {"out", "queued"} => at[c] = 1
    /\ pc[c] = "locking" => Need(c) \in Locked
    /\ result[c] = "none" <=> pc[c] # "done"
    /\ result[c] = "ok" => at[c] = Len(Job[job[c]])

(* What the warm-up has not reached yet has not begun, it has passed only  *)
(* what succeeded, and it is over before the process stops.                *)
TaskInv ==
  /\ warming = "client" => \A c \in WarmupCalls : pc[c] = "out"
  /\ warming = "gather" => pc["search"] = "out" /\ pc["filter"] = "out"
  /\ warming = "search" => pc["filter"] = "out"
  /\ warming \in {"search", "filter", "ok"} => result["warmup"] = "ok"
  /\ warming \in {"filter", "ok"} => result["search"] = "ok"
  /\ warming = "ok" => result["filter"] = "ok"
  /\ phase # "serving" => WarmingEnded

(* What a call has got past is open: it uses only what is published, and   *)
(* no cached text, passed need or result comes from elsewhere.             *)
PassedInv ==
  /\ cached # {} => Published("model")
  /\ \A c \in Calls :
       /\ pc[c] = "use" => Published(Need(c))
       /\ job[c] = "warmup" /\ (at[c] = 2 \/ result[c] = "ok") => Published("model")
       /\ job[c] = "search" /\ at[c] = 3 => Published("qdrant")
       /\ job[c] = "filter" /\ result[c] = "ok" => Published("pool")

(* The parts that every step keeps together: one pool, one client, bounded *)
(* loads of the model, and the locks and the order of the warm-up as the   *)
(* reasons (catalog.py:52-75, 150-160, core/llm.py:18-31, main.py:33-53).  *)
IInv ==
  /\ TypeOK /\ OpenedOnce /\ LockInv /\ ModelLoadsBounded
  /\ CallInv /\ TaskInv /\ PassedInv

(* "Embedding model, OpenAI client, and catalog connections pre-warmed" is *)
(* true when main.py logs it, although catalog.warm swallowed its failures *)
(* and semantic_search does without PostgreSQL: the passes after gather    *)
(* would have raised.                                                      *)
WarmedMeansWarm == warming = "ok" => \A r \in Resources : Published(r)

(* As long as PostgreSQL has never been reached, a search that found its   *)
(* models answers without their metadata instead of failing; only once a   *)
(* pool exists can its getconn break a search.                             *)
SearchDegrades ==
  \A c \in Calls :
    job[c] = "search" /\ at[c] = 3 /\ Ended(c) /\ ~Published("pool") => result[c] = "ok"

(* Once the lifespan shuts down, the cancelled warm-up hands no further    *)
(* call to the executor the process is waiting for.                        *)
NothingSubmittedAfterShutdown ==
  [][phase # "serving" => \A c \in Calls : pc[c] = "out" => pc'[c] = "out"]_vars

(* Every call handed to the executor ends, whichever resources fail to     *)
(* open while others wait for their locks.                                 *)
CallsEnd == \A c \in Calls : pc[c] = "queued" ~> Ended(c)

=============================================================================
