------------------------ MODULE LazyResourcesProofs -------------------------
(***************************************************************************)
(* Proofs about LazyResources, for any finite set of requests, any texts   *)
(* and any number of threads: IInv is inductive, and what follows from it  *)
(* about the warm-up, degraded searches, the shutdown and the refinement   *)
(* of OnceResource.  One lemma per part of IInv, with one step per action. *)
(***************************************************************************)
EXTENDS LazyResources, FiniteSetTheorems, TLAPS

(* What each kind of call needs, entry by entry. *)
LEMMA JobFacts ==
  /\ DOMAIN Job = {"warmup", "warm", "search", "filter"}
  /\ Len(Job["warmup"]) = 2 /\ Job["warmup"][1] = "model" /\ Job["warmup"][2] = "model"
  /\ Len(Job["warm"]) = 2 /\ Job["warm"][1] = "pool" /\ Job["warm"][2] = "qdrant"
  /\ Len(Job["search"]) = 3 /\ Job["search"][1] = "model"
  /\ Job["search"][2] = "qdrant" /\ Job["search"][3] = "pool"
  /\ Len(Job["filter"]) = 1 /\ Job["filter"][1] = "pool"
  BY DEF Job

(* Every need of a call is one of the resources. *)
LEMMA NeedType ==
  ASSUME TypeOK, NEW c \in Calls
  PROVE  Need(c) \in Resources
  BY JobFacts DEF TypeOK, Need, Resources, Locked

(* Every step of the application is one of these. *)
LEMMA StepCases ==
  ASSUME [Next]_vars
  PROVE  \/ \E c \in Requests, j \in {"search", "filter"} : Submit(c, j)
         \/ \E c \in Calls : Start(c)
         \/ \E c \in Calls : CachedEmbedding(c)
         \/ \E c \in Calls : Check(c)
         \/ \E c \in Calls : Recheck(c)
         \/ \E c \in Calls : Open(c)
         \/ \E c \in Calls : OpenFails(c)
         \/ \E c \in Calls : Use(c)
         \/ WarmClient \/ WarmPasses \/ WarmFails
         \/ Shutdown \/ Stop
         \/ UNCHANGED vars
  BY DEF Next, Step, Task

(* The invariant holds before anything runs. *)
LEMMA InitIInv == Init => IInv
  <1> SUFFICES ASSUME Init PROVE IInv
    OBVIOUS
  <1> USE ResourcesAssumption DEF Init
  <1>1. TypeOK
    BY JobFacts DEF TypeOK, Calls, WarmupCalls
  <1>2. OpenedOnce
    BY DEF OpenedOnce, Locked, Resources
  <1>3. LockInv
    BY DEF LockInv, Published, Resources, Locked
  <1>4. ModelLoadsBounded
    <2>1. Running = {} /\ {c \in Calls : pc[c] = "build" /\ Need(c) = "model"} = {}
      BY DEF Running
    <2> QED
      BY <2>1, FS_EmptySet DEF ModelLoadsBounded, Resources
  <1>5. CallInv
    BY DEF CallInv
  <1>6. TaskInv
    BY DEF TaskInv, Calls, WarmupCalls
  <1>7. PassedInv
    BY DEF PassedInv
  <1> QED
    BY <1>1, <1>2, <1>3, <1>4, <1>5, <1>6, <1>7 DEF IInv

-----------------------------------------------------------------------------
(* Only searches and the warm-up of the model embed a text, and have one. *)
LEMMA TextType ==
  ASSUME TypeOK, CallInv, NEW c \in Calls, Need(c) = "model"
  PROVE  Text(c) \in Nat
  <1>1. job[c] \in {"warmup", "search"}
    BY JobFacts DEF TypeOK, Need
  <1>2. CASE job[c] = "warmup"
    BY <1>2 DEF Text, TypeOK
  <1>3. CASE job[c] = "search"
    <2>1. c \in Requests \union {"search"}
      BY <1>3 DEF CallInv, Calls, WarmupCalls
    <2> QED
      BY <1>3, <2>1, ResourcesAssumption DEF Text
  <1> QED
    BY <1>1, <1>2, <1>3

(* Going on to the next need, or to the end, keeps a call within its needs. *)
LEMMA AdvanceType ==
  ASSUME TypeOK, NEW c \in Calls, Advance(c), job' = job
  PROVE  /\ pc' \in [Calls -> {"out", "queued", "check", "locking", "build", "use", "done"}]
         /\ at' \in [Calls -> 1..3]
         /\ \A d \in Calls : at'[d] <= Len(Job[job[d]])
         /\ result' \in [Calls -> {"none", "ok", "cancelled", "Error", "CatalogUnavailable"}]
  <1>1. at[c] \in 1..3 /\ Len(Job[job[c]]) \in 1..3
    BY JobFacts DEF TypeOK
  <1>2. CASE at[c] < Len(Job[job[c]]) /\ at' = [at EXCEPT ![c] = @ + 1]
             /\ Goto(c, "check") /\ UNCHANGED result
    <2>0. \A a, n \in 1..3 : a < n => a + 1 \in 1..3 /\ a + 1 <= n
      OBVIOUS
    <2>1. at[c] + 1 \in 1..3 /\ at[c] + 1 <= Len(Job[job[c]])
      BY <1>1, <1>2, <2>0
    <2> QED
      BY <1>2, <2>1 DEF TypeOK, Goto
  <1>3. CASE UNCHANGED at /\ Goto(c, "done") /\ result' = [result EXCEPT ![c] = "ok"]
    BY <1>3 DEF TypeOK, Goto
  <1> QED
    BY <1>2, <1>3 DEF Advance

(* Type correctness.  A request's needs are chosen anew when it is          *)
(* submitted, so it matters that it has tried none yet.                     *)
LEMMA TypeStep == TypeOK /\ CallInv /\ [Next]_vars => TypeOK'
  <1> SUFFICES ASSUME TypeOK, CallInv, [Next]_vars PROVE TypeOK'
    OBVIOUS
  <1> USE DEF TypeOK, Goto, shared, calls
  <1>1. ASSUME NEW c \in Requests, NEW j \in {"search", "filter"}, Submit(c, j)
        PROVE  TypeOK'
    <2>1. c \in Calls /\ at[c] = 1
      BY <1>1 DEF Submit, Calls, CallInv
    <2> QED
      BY <1>1, <2>1, JobFacts DEF Submit, Queue
  <1>2. ASSUME NEW c \in Calls, Start(c) PROVE TypeOK'
    BY <1>2 DEF Start
  <1>3. ASSUME NEW c \in Calls, CachedEmbedding(c) PROVE TypeOK'
    BY <1>3, AdvanceType DEF CachedEmbedding
  <1>4. ASSUME NEW c \in Calls, Check(c) PROVE TypeOK'
    BY <1>4, AdvanceType DEF Check, Have
  <1>5. ASSUME NEW c \in Calls, Recheck(c) PROVE TypeOK'
    <2>1. lock' \in [Locked -> Calls \union {NoCall}]
      BY <1>5 DEF Recheck
    <2>2. CASE Advance(c)
      BY <1>5, <2>1, <2>2, AdvanceType DEF Recheck
    <2>3. CASE ~Advance(c)
      BY <1>5, <2>1, <2>3 DEF Recheck, Have
    <2> QED
      BY <2>2, <2>3
  <1>6. ASSUME NEW c \in Calls, Open(c) PROVE TypeOK'
    <2>1. opened' \in [Resources -> Nat] /\ lock' \in [Locked -> Calls \union {NoCall}]
      BY <1>6, NeedType DEF Open, Release
    <2>2. CASE Advance(c)
      BY <1>6, <2>1, <2>2, AdvanceType DEF Open
    <2>3. CASE ~Advance(c)
      BY <1>6, <2>1, <2>3 DEF Open, Have
    <2> QED
      BY <2>2, <2>3
  <1>7. ASSUME NEW c \in Calls, OpenFails(c) PROVE TypeOK'
    BY <1>7, AdvanceType DEF OpenFails, Fail, Release
  <1>8. ASSUME NEW c \in Calls, Use(c) PROVE TypeOK'
    <2>1. Need(c) = "model" => Text(c) \in Nat
      BY TextType
    <2>2. cached' \subseteq Nat
      BY <1>8, <2>1 DEF Use
    <2>3. CASE Advance(c)
      BY <1>8, <2>2, <2>3, AdvanceType DEF Use
    <2>4. CASE ~Advance(c)
      BY <1>8, <2>2, <2>4 DEF Use, Fail
    <2> QED
      BY <2>3, <2>4
  <1>9. CASE WarmClient
    BY <1>9 DEF WarmClient, Queue
  <1>10. CASE WarmPasses
    BY <1>10 DEF WarmPasses, Queue
  <1>11. CASE WarmFails
    BY <1>11 DEF WarmFails
  <1>12. CASE Shutdown
    BY <1>12 DEF Shutdown
  <1>13. CASE Stop
    BY <1>13 DEF Stop
  <1>14. CASE UNCHANGED vars
    BY <1>14 DEF vars
  <1> QED
    BY StepCases, <1>1, <1>2, <1>3, <1>4, <1>5, <1>6, <1>7, <1>8, <1>9, <1>10,
       <1>11, <1>12, <1>13, <1>14

-----------------------------------------------------------------------------
(* How far calls are. *)

(* A call in a thread that goes on, to its next need or to its end, stays   *)
(* within CallInv.                                                          *)
LEMMA AdvanceCall ==
  ASSUME TypeOK, CallInv, NEW c \in Calls, pc[c] \in {"check", "locking", "build", "use"},
         job' = job, Advance(c)
  PROVE  CallInv'
  <1> USE DEF TypeOK, CallInv, Need, Goto
  <1>1. CASE UNCHANGED result /\ Goto(c, "check") /\ at' = [at EXCEPT ![c] = @ + 1]
    BY <1>1
  <1>2. CASE /\ at[c] = Len(Job[job[c]]) /\ UNCHANGED at
             /\ Goto(c, "done") /\ result' = [result EXCEPT ![c] = "ok"]
    BY <1>2
  <1> QED
    BY <1>1, <1>2 DEF Advance

LEMMA CallStep == TypeOK /\ CallInv /\ TaskInv /\ [Next]_vars => CallInv'
  <1> SUFFICES ASSUME TypeOK, CallInv, TaskInv, [Next]_vars PROVE CallInv'
    OBVIOUS
  <1> USE DEF TypeOK, CallInv, Need, Goto, shared, calls
  <1>1. ASSUME NEW c \in Requests, NEW j \in {"search", "filter"}, Submit(c, j)
        PROVE  CallInv'
    BY <1>1, ResourcesAssumption DEF Submit, Queue, Calls
  <1>2. ASSUME NEW c \in Calls, Start(c) PROVE CallInv'
    BY <1>2 DEF Start
  <1>3. ASSUME NEW c \in Calls, CachedEmbedding(c) PROVE CallInv'
    BY <1>3, AdvanceCall DEF CachedEmbedding
  <1>4. ASSUME NEW c \in Calls, Check(c) PROVE CallInv'
    <2>1. CASE Advance(c)
      BY <1>4, <2>1, AdvanceCall DEF Check
    <2>2. CASE ~Advance(c)
      BY <1>4, <2>2, NeedType DEF Check, Have, Resources
    <2> QED
      BY <2>1, <2>2
  <1>5. ASSUME NEW c \in Calls, Recheck(c) PROVE CallInv'
    <2>1. CASE Advance(c)
      BY <1>5, <2>1, AdvanceCall DEF Recheck
    <2>2. CASE ~Advance(c)
      BY <1>5, <2>2 DEF Recheck, Have
    <2> QED
      BY <2>1, <2>2
  <1>6. ASSUME NEW c \in Calls, Open(c) PROVE CallInv'
    <2>1. CASE Advance(c)
      BY <1>6, <2>1, AdvanceCall DEF Open
    <2>2. CASE ~Advance(c)
      BY <1>6, <2>2 DEF Open, Have
    <2> QED
      BY <2>1, <2>2
  <1>7. ASSUME NEW c \in Calls, OpenFails(c) PROVE CallInv'
    <2>1. CASE Advance(c)
      BY <1>7, <2>1, AdvanceCall DEF OpenFails
    <2>2. CASE ~Advance(c)
      BY <1>7, <2>2, SMTT(30) DEF OpenFails, Fail
    <2> QED
      BY <2>1, <2>2
  <1>8. ASSUME NEW c \in Calls, Use(c) PROVE CallInv'
    <2>1. CASE Advance(c)
      BY <1>8, <2>1, AdvanceCall DEF Use
    <2>2. CASE ~Advance(c)
      <3>1. PICK e \in {"Error", "CatalogUnavailable"} :
               /\ pc' = [pc EXCEPT ![c] = "done"] /\ result' = [result EXCEPT ![c] = e]
               /\ UNCHANGED <<job, at>>
        BY <1>8, <2>2 DEF Use, Fail
      <3> QED
        BY <3>1
    <2> QED
      BY <2>1, <2>2
  <1>9. CASE WarmClient
    BY <1>9 DEF WarmClient, Queue, TaskInv, WarmupCalls
  <1>10. CASE WarmPasses
    BY <1>10 DEF WarmPasses, Queue, TaskInv
  <1>11. CASE WarmFails
    BY <1>11 DEF WarmFails
  <1>12. CASE Shutdown
    BY <1>12 DEF Shutdown
  <1>13. CASE Stop
    BY <1>13 DEF Stop
  <1>14. CASE UNCHANGED vars
    BY <1>14 DEF vars
  <1> QED
    BY StepCases, <1>1, <1>2, <1>3, <1>4, <1>5, <1>6, <1>7, <1>8, <1>9, <1>10,
       <1>11, <1>12, <1>13, <1>14

(* A step of a call's own changes where that call is, and nothing else of   *)
(* the calls, the task and the application.                                 *)
LEMMA StepLocal ==
  ASSUME TypeOK, NEW c \in Calls, Step(c)
  PROVE  /\ pc[c] \notin {"out", "done"}
         /\ \A d \in Calls \ {c} : pc'[d] = pc[d] /\ at'[d] = at[d] /\ result'[d] = result[d]
         /\ UNCHANGED <<job, warming, phase>>
  <1> USE DEF TypeOK, Goto, Advance, Have, Fail
  <1>1. CASE Start(c)
    BY <1>1 DEF Start, shared
  <1>2. CASE CachedEmbedding(c)
    BY <1>2 DEF CachedEmbedding, shared
  <1>3. CASE Check(c)
    BY <1>3 DEF Check, shared
  <1>4. CASE Recheck(c)
    BY <1>4 DEF Recheck
  <1>5. CASE Open(c)
    BY <1>5 DEF Open
  <1>6. CASE OpenFails(c)
    BY <1>6 DEF OpenFails
  <1>7. CASE Use(c)
    BY <1>7 DEF Use
  <1> QED
    BY <1>1, <1>2, <1>3, <1>4, <1>5, <1>6, <1>7 DEF Step

-----------------------------------------------------------------------------
(* The warm-up's task. *)

LEMMA AwaitedFacts ==
  ASSUME TypeOK
  PROVE  /\ warming = "gather" => Awaited = {"warmup", "warm"}
         /\ warming = "search" => Awaited = {"search"}
         /\ warming = "filter" => Awaited = {"filter"}
         /\ warming \notin {"gather", "search", "filter"} => Awaited = {}
         /\ Awaited \subseteq WarmupCalls
  BY DEF Awaited, TypeOK, WarmupCalls

LEMMA TaskStep == TypeOK /\ CallInv /\ TaskInv /\ [Next]_vars => TaskInv'
  <1> SUFFICES ASSUME TypeOK, CallInv, TaskInv, [Next]_vars PROVE TaskInv'
    OBVIOUS
  <1> USE DEF TypeOK, TaskInv, WarmingEnded, shared, calls
  <1>0. {"warmup", "warm", "search", "filter"} = WarmupCalls /\ WarmupCalls \subseteq Calls
    BY DEF WarmupCalls, Calls
  <1>1. ASSUME NEW c \in Requests, NEW j \in {"search", "filter"}, Submit(c, j)
        PROVE  TaskInv'
    BY <1>0, <1>1, ResourcesAssumption DEF Submit, Queue
  <1>2. ASSUME NEW c \in Calls, Step(c) PROVE TaskInv'
    BY <1>0, <1>2, StepLocal DEF CallInv
  <1>3. CASE WarmClient
    BY <1>0, <1>3 DEF WarmClient, Queue
  <1>4. CASE WarmPasses
    BY <1>0, <1>4, AwaitedFacts DEF WarmPasses, Queue
  <1>5. CASE WarmFails
    <2>1. warming \in {"gather", "search", "filter"}
      BY <1>5, AwaitedFacts DEF WarmFails
    <2> QED
      BY <1>5, <2>1 DEF WarmFails
  <1>6. CASE Shutdown
    BY <1>0, <1>6, AwaitedFacts DEF Shutdown
  <1>7. CASE Stop
    BY <1>7 DEF Stop
  <1>8. CASE UNCHANGED vars
    BY <1>8 DEF vars
  <1> QED
    BY <1>1, <1>2, <1>3, <1>4, <1>5, <1>6, <1>7, <1>8 DEF Next, Task

-----------------------------------------------------------------------------
(* The locks, and what they guard. *)

LEMMA LockStep == TypeOK /\ CallInv /\ TaskInv /\ LockInv /\ [Next]_vars => LockInv'
  <1> SUFFICES ASSUME TypeOK, CallInv, TaskInv, LockInv, [Next]_vars PROVE LockInv'
    OBVIOUS
  <1> USE ResourcesAssumption
          DEF TypeOK, LockInv, Published, Need, Goto, Have, shared, calls
  <1>1. ASSUME NEW c \in Requests, NEW j \in {"search", "filter"}, Submit(c, j)
        PROVE  LockInv'
    BY <1>1 DEF Submit, Queue, Calls
  <1>2. ASSUME NEW c \in Calls, Start(c) PROVE LockInv'
    BY <1>2 DEF Start
  <1>3. ASSUME NEW c \in Calls, CachedEmbedding(c) PROVE LockInv'
    <2>1. /\ pc[c] # "build" /\ pc'[c] # "build" /\ UNCHANGED <<opened, lock, job>>
          /\ \A d \in Calls \ {c} : pc'[d] = pc[d] /\ at'[d] = at[d]
      BY <1>3 DEF CachedEmbedding, Advance
    <2> QED
      BY <2>1
  <1>4. ASSUME NEW c \in Calls, Check(c) PROVE LockInv'
    BY <1>4 DEF Check, Advance, Locked
  <1>5. ASSUME NEW c \in Calls, Recheck(c) PROVE LockInv'
    BY <1>5 DEF Recheck, Advance
  <1>6. ASSUME NEW c \in Calls, Open(c) PROVE LockInv'
    BY <1>6 DEF Open, Advance, Release
  <1>7. ASSUME NEW c \in Calls, OpenFails(c) PROVE LockInv'
    BY <1>7 DEF OpenFails, Fail, Advance, Release
  <1>8. ASSUME NEW c \in Calls, Use(c) PROVE LockInv'
    BY <1>8 DEF Use, Fail, Advance
  <1>9. CASE WarmClient
    BY <1>9 DEF WarmClient, Queue, TaskInv, WarmupCalls
  <1>10. CASE WarmPasses
    BY <1>10 DEF WarmPasses, Queue, TaskInv
  <1>11. CASE WarmFails
    BY <1>11 DEF WarmFails
  <1>12. CASE Shutdown
    BY <1>12 DEF Shutdown
  <1>13. CASE Stop
    BY <1>13 DEF Stop
  <1>14. CASE UNCHANGED vars
    BY <1>14 DEF vars
  <1> QED
    BY StepCases, <1>1, <1>2, <1>3, <1>4, <1>5, <1>6, <1>7, <1>8, <1>9, <1>10,
       <1>11, <1>12, <1>13, <1>14

(* One pool and one client: who publishes was inside the lock, and nobody   *)
(* inside it finds the resource published.                                  *)
LEMMA OpenedStep == TypeOK /\ LockInv /\ OpenedOnce /\ [Next]_vars => OpenedOnce'
  <1> SUFFICES ASSUME TypeOK, LockInv, OpenedOnce, [Next]_vars PROVE OpenedOnce'
    OBVIOUS
  <1> USE DEF OpenedOnce, shared, calls
  <1>1. ASSUME NEW c \in Calls, Open(c) PROVE OpenedOnce'
    <2>1. \A r \in Locked : opened[r] \in Nat
      BY DEF TypeOK, Resources
    <2>2. ASSUME NEW r \in Locked, Need(c) = r PROVE opened[r] = 0
      <3>1. lock[r] = c
        BY <1>1, <2>2 DEF Open, LockInv
      <3>2. lock[r] # NoCall
        BY <3>1, ResourcesAssumption
      <3> QED
        BY <3>2, <2>1 DEF LockInv, Published
    <2> QED
      BY <1>1, <2>1, <2>2 DEF Open, TypeOK, Resources
  <1>2. CASE UNCHANGED opened
    BY <1>2
  <1> QED
    BY StepCases, <1>1, <1>2
    DEF Submit, Start, CachedEmbedding, Check, Recheck, OpenFails, Use, WarmClient,
        WarmPasses, WarmFails, Shutdown, Stop, vars

-----------------------------------------------------------------------------
(* The loads of the model. *)

Loading == {c \in Calls : pc[c] = "build" /\ Need(c) = "model"}

(* There are finitely many calls, so their sets have sizes. *)
LEMMA CallsFinite ==
  /\ IsFiniteSet(Calls)
  /\ \A S \in SUBSET Calls : IsFiniteSet(S) /\ Cardinality(S) \in Nat
  /\ \A S, T \in SUBSET Calls : S \subseteq T => Cardinality(S) <= Cardinality(T)
  <1>1. IsFiniteSet(WarmupCalls)
    <2>1. WarmupCalls = (({"warmup"} \union {"warm"}) \union {"search"}) \union {"filter"}
      BY DEF WarmupCalls
    <2>2. IsFiniteSet({"warmup"}) /\ IsFiniteSet({"warm"}) /\ IsFiniteSet({"search"})
          /\ IsFiniteSet({"filter"})
      BY FS_Singleton
    <2>3. IsFiniteSet({"warmup"} \union {"warm"})
      BY <2>2, FS_Union
    <2>4. IsFiniteSet(({"warmup"} \union {"warm"}) \union {"search"})
      BY <2>2, <2>3, FS_Union
    <2> QED
      BY <2>1, <2>2, <2>4, FS_Union
  <1>2. IsFiniteSet(Calls)
    BY <1>1, FS_Union, ResourcesAssumption DEF Calls
  <1> QED
    BY <1>2, FS_Subset, FS_CardinalityType

(* A thread takes a call only when one is free; a load begins only in a     *)
(* running call and while nothing has been loaded, and ends by counting.    *)
LEMMA ModelStep ==
  TypeOK /\ CallInv /\ TaskInv /\ ModelLoadsBounded /\ [Next]_vars => ModelLoadsBounded'
  <1> SUFFICES ASSUME TypeOK, CallInv, TaskInv, ModelLoadsBounded, [Next]_vars
               PROVE  ModelLoadsBounded'
    OBVIOUS
  <1>1. /\ Cardinality(Running) <= Workers
        /\ opened["model"] + Cardinality(Loading) <= Workers
        /\ opened["model"] \in Nat
    BY DEF ModelLoadsBounded, Loading, TypeOK, Resources
  <1>2. /\ Running \subseteq Calls /\ Loading \subseteq Calls
        /\ Running' \subseteq Calls /\ Loading' \subseteq Running'
        /\ Cardinality(Running) \in Nat /\ Cardinality(Loading) \in Nat
        /\ Cardinality(Running') \in Nat /\ Cardinality(Loading') \in Nat
        /\ Workers \in Nat
    <2>1. /\ Running \subseteq Calls /\ Loading \subseteq Calls
          /\ Running' \subseteq Calls /\ Loading' \subseteq Running'
      BY DEF Running, Loading
    <2> QED
      BY <2>1, CallsFinite, ResourcesAssumption
  <1>3. ASSUME Cardinality(Running') <= Workers,
               opened'["model"] + Cardinality(Loading') <= Workers
        PROVE  ModelLoadsBounded'
    BY <1>3 DEF ModelLoadsBounded, Loading
  <1>4. ASSUME Running' \subseteq Running, Loading' \subseteq Loading, UNCHANGED opened
        PROVE  ModelLoadsBounded'
    <2>1. /\ Cardinality(Running') <= Cardinality(Running)
          /\ Cardinality(Loading') <= Cardinality(Loading)
      BY <1>2, <1>4, CallsFinite
    <2> QED
      BY <1>1, <1>2, <1>3, <1>4, <2>1
  <1> USE DEF TypeOK, Goto, shared, calls
  <1>5. ASSUME NEW c \in Requests, NEW j \in {"search", "filter"}, Submit(c, j)
        PROVE  ModelLoadsBounded'
    BY <1>4, <1>5 DEF Submit, Queue, Running, Loading, Need
  <1>6. ASSUME NEW c \in Calls, Start(c) PROVE ModelLoadsBounded'
    <2>1. Running' \subseteq Running \union {c} /\ Loading' \subseteq Loading
      BY <1>6 DEF Start, Running, Loading, Need
    <2>2. Cardinality(Running') <= Cardinality(Running \union {c})
      BY <1>2, <2>1, CallsFinite
    <2>3. Cardinality(Running \union {c}) <= Cardinality(Running) + 1
      <3>1. IsFiniteSet(Running)
        BY <1>2, CallsFinite
      <3>2. c \notin Running
        BY <1>6 DEF Start, Running
      <3>3. Cardinality(Running \union {c}) = Cardinality(Running) + 1
        BY <3>1, <3>2, FS_AddElement
      <3> QED
        BY <1>2, <3>3
    <2>4. Cardinality(Loading') <= Cardinality(Loading)
      BY <1>2, <2>1, CallsFinite
    <2>5. Cardinality(Running) < Workers /\ UNCHANGED opened
      BY <1>6 DEF Start
    <2>6. Cardinality(Running \union {c}) \in Nat
      BY <1>2, CallsFinite
    <2>7. Cardinality(Running') <= Workers
      BY <1>2, <2>2, <2>3, <2>5, <2>6
    <2> QED
      BY <1>1, <1>2, <1>3, <2>4, <2>5, <2>7
  <1>7. ASSUME NEW c \in Calls, CachedEmbedding(c) PROVE ModelLoadsBounded'
    BY <1>4, <1>7 DEF CachedEmbedding, Advance, Running, Loading, Need
  <1>8. ASSUME NEW c \in Calls, Check(c) PROVE ModelLoadsBounded'
    <2>1. Running' \subseteq Running
      BY <1>8 DEF Check, Have, Advance, Running
    <2>2. CASE Loading' \subseteq Loading
      BY <1>4, <1>8, <2>1, <2>2 DEF Check
    <2>3. CASE ~(Loading' \subseteq Loading)
      <3>1. opened'["model"] = 0
        BY <1>1, <1>8, <2>3 DEF Check, Have, Advance, Loading, Need, Published
      <3>2. Cardinality(Running') <= Cardinality(Running)
        BY <1>2, <2>1, CallsFinite
      <3>3. Cardinality(Loading') <= Cardinality(Running')
        BY <1>2, CallsFinite
      <3> QED
        BY <1>1, <1>2, <1>3, <3>1, <3>2, <3>3
    <2> QED
      BY <2>2, <2>3
  <1>9. ASSUME NEW c \in Calls, Recheck(c) PROVE ModelLoadsBounded'
    <2>1. Need(c) # "model"
      BY <1>9 DEF Recheck, CallInv, Locked
    <2> QED
      BY <1>4, <1>9, <2>1 DEF Recheck, Have, Advance, Running, Loading, Need
  <1>10. ASSUME NEW c \in Calls, Open(c) PROVE ModelLoadsBounded'
    <2>1. Running' \subseteq Running
      BY <1>10 DEF Open, Have, Advance, Running
    <2>2. CASE Need(c) # "model"
      <3>1. Loading' \subseteq Loading /\ opened'["model"] = opened["model"]
        BY <1>10, <2>2 DEF Open, Have, Advance, Loading, Need, Resources
      <3>2. /\ Cardinality(Running') <= Cardinality(Running)
            /\ Cardinality(Loading') <= Cardinality(Loading)
        BY <1>2, <2>1, <3>1, CallsFinite
      <3> QED
        BY <1>1, <1>2, <1>3, <3>1, <3>2
    <2>3. CASE Need(c) = "model"
      <3>1. c \in Loading /\ Loading' \subseteq Loading \ {c}
        BY <1>10, <2>3 DEF Open, Have, Advance, Loading, Need
      <3>2. opened'["model"] = opened["model"] + 1
        BY <1>10, <2>3 DEF Open, Resources
      <3>3. IsFiniteSet(Loading) /\ Cardinality(Loading') <= Cardinality(Loading \ {c})
        BY <1>2, <3>1, CallsFinite
      <3>4. Cardinality(Loading \ {c}) = Cardinality(Loading) - 1
        BY <3>1, <3>3, FS_RemoveElement
      <3>5. Cardinality(Running') <= Cardinality(Running)
        BY <1>2, <2>1, CallsFinite
      <3> QED
        BY <1>1, <1>2, <1>3, <3>2, <3>3, <3>4, <3>5
    <2> QED
      BY <2>2, <2>3
  <1>11. ASSUME NEW c \in Calls, OpenFails(c) PROVE ModelLoadsBounded'
    BY <1>4, <1>11 DEF OpenFails, Fail, Advance, Running, Loading, Need
  <1>12. ASSUME NEW c \in Calls, Use(c) PROVE ModelLoadsBounded'
    BY <1>4, <1>12 DEF Use, Fail, Advance, Running, Loading, Need
  <1>13. CASE WarmClient
    BY <1>4, <1>13 DEF WarmClient, Queue, Running, Loading, Need
  <1>14. CASE WarmPasses
    BY <1>4, <1>14 DEF WarmPasses, Queue, Running, Loading, Need
  <1>15. CASE WarmFails
    BY <1>4, <1>15 DEF WarmFails, Running, Loading, Need
  <1>16. CASE Shutdown
    BY <1>4, <1>16 DEF Shutdown, Running, Loading, Need
  <1>17. CASE Stop
    BY <1>4, <1>17 DEF Stop, Running, Loading, Need
  <1>18. CASE UNCHANGED vars
    BY <1>4, <1>18 DEF vars, Running, Loading, Need
  <1> QED
    BY StepCases, <1>5, <1>6, <1>7, <1>8, <1>9, <1>10, <1>11, <1>12, <1>13, <1>14,
       <1>15, <1>16, <1>17, <1>18

-----------------------------------------------------------------------------
(* What calls have got past. *)

(* PassedInv, of one call. *)
PassedBy(c) ==
  /\ pc[c] = "use" => Published(Need(c))
  /\ job[c] = "warmup" /\ (at[c] = 2 \/ result[c] = "ok") => Published("model")
  /\ job[c] = "search" /\ at[c] = 3 => Published("qdrant")
  /\ job[c] = "filter" /\ result[c] = "ok" => Published("pool")

(* What is published stays so: no step closes a resource. *)
LEMMA PublishedStays ==
  ASSUME TypeOK, [Next]_vars
  PROVE  \A r \in Resources : Published(r) => Published(r)'
  <1> USE DEF Published, shared, TypeOK
  <1>1. ASSUME NEW c \in Calls, Open(c)
        PROVE  \A r \in Resources : Published(r) => Published(r)'
    BY <1>1 DEF Open
  <1>2. CASE UNCHANGED opened
    BY <1>2
  <1> QED
    BY StepCases, <1>1, <1>2
    DEF Submit, Start, CachedEmbedding, Check, Recheck, OpenFails, Use, WarmClient,
        WarmPasses, WarmFails, Shutdown, Stop, vars

(* A call that goes on past a published need, or that is told to use it,    *)
(* has got past what is published, its last result included.                *)
LEMMA PassedOn ==
  ASSUME TypeOK, CallInv, NEW c \in Calls, PassedBy(c),
         pc[c] \in {"check", "locking", "build", "use"}, job' = job,
         Advance(c) \/ (Goto(c, "use") /\ UNCHANGED <<at, result>>),
         NEW n \in Resources, n = Need(c), Published(n)',
         \A r \in Resources : Published(r) => Published(r)'
  PROVE  PassedBy(c)'
  <1> USE DEF TypeOK, PassedBy, Goto
  <1>0. /\ n = Job[job[c]][at[c]] /\ Need(c)' = Job[job'[c]][at'[c]]
        /\ at[c] \in 1..3 /\ at[c] <= Len(Job[job[c]])
        /\ result[c] = "none" /\ {"model", "pool", "qdrant"} \subseteq Resources
    BY DEF CallInv, Need, Resources, Locked
  <1>1. CASE Goto(c, "use") /\ UNCHANGED <<at, result>>
    BY <1>0, <1>1
  <1>2. CASE UNCHANGED result /\ Goto(c, "check") /\ at' = [at EXCEPT ![c] = @ + 1]
    <2>1. at'[c] = at[c] + 1 /\ pc'[c] = "check" /\ result'[c] = "none"
      BY <1>0, <1>2
    <2>2. job[c] = "warmup" => Published("model")'
      <3>1. ASSUME job[c] = "warmup" PROVE at[c] \in 1..2
        BY <1>0, <3>1, JobFacts
      <3> QED
        BY <1>0, <3>1, JobFacts
    <2>3. job[c] = "search" /\ at'[c] = 3 => Published("qdrant")'
      BY <1>0, <2>1, JobFacts
    <2> QED
      BY <1>2, <2>1, <2>2, <2>3
  <1>3. CASE /\ at[c] = Len(Job[job[c]]) /\ UNCHANGED at
             /\ Goto(c, "done") /\ result' = [result EXCEPT ![c] = "ok"]
    <2>1. job[c] = "warmup" => Published("model")'
      BY <1>0, <1>3, JobFacts
    <2>2. job[c] = "filter" => Published("pool")'
      BY <1>0, <1>3, JobFacts
    <2>3. pc'[c] = "done" /\ at'[c] = at[c] /\ job'[c] = job[c]
      BY <1>3
    <2> QED
      BY <1>0, <2>1, <2>2, <2>3
  <1> QED
    BY <1>1, <1>2, <1>3 DEF Advance

(* A failure is tolerated only by catalog.warm, which uses nothing, and by  *)
(* a search at its last need: neither gets past what is not published.      *)
LEMMA PassedFail ==
  ASSUME TypeOK, CallInv, NEW c \in Calls, PassedBy(c), job' = job,
         NEW e \in {"Error", "CatalogUnavailable"}, Fail(c, e),
         e = "CatalogUnavailable" => Need(c) = "pool",
         \A r \in Resources : Published(r) => Published(r)'
  PROVE  PassedBy(c)'
  <1> USE DEF TypeOK, PassedBy, Goto
  <1>0. /\ Need(c) = Job[job[c]][at[c]] /\ at[c] \in 1..3 /\ at[c] <= Len(Job[job[c]])
        /\ {"model", "pool", "qdrant"} \subseteq Resources
    BY DEF Need, Resources, Locked
  <1>1. CASE ~Tolerates(c, e)
    <2>1. pc'[c] = "done" /\ result'[c] = e /\ at'[c] = at[c] /\ job'[c] = job[c]
      BY <1>1 DEF Fail
    <2> QED
      BY <1>0, <2>1
  <1>2. CASE job[c] = "warm" /\ Advance(c)
    <2>1. pc'[c] # "use"
      BY <1>2 DEF Advance
    <2> QED
      BY <1>2, <2>1
  <1>3. CASE job[c] = "search" /\ e = "CatalogUnavailable" /\ Advance(c)
    <2>1. at[c] = 3
      BY <1>0, <1>3, JobFacts
    <2>2. pc'[c] = "done" /\ at'[c] = at[c]
      BY <1>0, <1>3, <2>1, JobFacts DEF Advance
    <2> QED
      BY <1>0, <1>3, <2>1, <2>2
  <1> QED
    BY <1>1, <1>2, <1>3 DEF Fail, Tolerates

(* A call uses only what it found or made published, so whatever it has got *)
(* past is open: a failure is tolerated only where the next needs do not    *)
(* depend on what failed.                                                   *)
LEMMA PassedStep == TypeOK /\ CallInv /\ PassedInv /\ [Next]_vars => PassedInv'
  <1> SUFFICES ASSUME TypeOK, CallInv, PassedInv, [Next]_vars PROVE PassedInv'
    OBVIOUS
  <1>1. \A r \in Resources : Published(r) => Published(r)'
    BY PublishedStays
  <1>2. "model" \in Resources /\ "pool" \in Resources /\ "qdrant" \in Resources
    BY DEF Resources, Locked
  <1>3. \A c \in Calls : PassedBy(c)
    BY DEF PassedInv, PassedBy
  <1>4. ASSUME cached' # {} => Published("model")', \A c \in Calls : PassedBy(c)'
        PROVE  PassedInv'
    BY <1>4 DEF PassedInv, PassedBy
  <1>5. UNCHANGED cached => (cached' # {} => Published("model")')
    BY <1>1, <1>2 DEF PassedInv
  (* A call no step of its own has moved has passed what it had passed.     *)
  <1>6. ASSUME NEW c \in Calls, job'[c] = job[c], at'[c] = at[c], pc'[c] # "use",
               result'[c] = result[c] \/ result'[c] # "ok"
        PROVE  PassedBy(c)'
    BY <1>1, <1>2, <1>3, <1>6 DEF PassedBy
  <1>7. ASSUME NEW c \in Calls, job'[c] = job[c], at'[c] = at[c], pc'[c] = pc[c],
               result'[c] = result[c]
        PROVE  PassedBy(c)'
    BY <1>1, <1>2, <1>3, <1>7, NeedType DEF PassedBy, Need
  <1>8. ASSUME NEW c \in Calls, Step(c), PassedBy(c)', cached' # {} => Published("model")'
        PROVE  PassedInv'
    <2>1. \A d \in Calls \ {c} : PassedBy(d)'
      BY <1>7, <1>8, StepLocal
    <2> QED
      BY <1>4, <1>8, <2>1
  <1> USE DEF Goto, shared, calls
  <1>10. ASSUME NEW c \in Requests, NEW j \in {"search", "filter"}, Submit(c, j)
         PROVE  PassedInv'
    <2>1. c \in Calls /\ at'[c] = 1 /\ result'[c] = "none" /\ pc'[c] = "queued"
          /\ job'[c] = j
      BY <1>10 DEF Submit, Queue, CallInv, TypeOK, Calls
    <2>2. PassedBy(c)'
      BY <2>1 DEF PassedBy
    <2>3. ASSUME NEW d \in Calls, d # c PROVE PassedBy(d)'
      BY <1>7, <1>10, <2>1, <2>3 DEF Submit, Queue, TypeOK
    <2> QED
      BY <1>4, <1>5, <1>10, <2>2, <2>3 DEF Submit
  <1>11. ASSUME NEW c \in Calls, Start(c) PROVE PassedInv'
    <2>1. PassedBy(c)'
      BY <1>6, <1>11 DEF Start, TypeOK
    <2> QED
      BY <1>5, <1>8, <1>11, <2>1 DEF Start, Step
  <1>12. ASSUME NEW c \in Calls, CachedEmbedding(c) PROVE PassedInv'
    <2>1. Need(c) = "model" /\ Published("model")'
      BY <1>1, <1>2, <1>12 DEF CachedEmbedding, PassedInv
    <2>2. PassedBy(c)'
      BY <1>1, <1>2, <1>3, <1>12, <2>1, PassedOn DEF CachedEmbedding
    <2> QED
      BY <1>5, <1>8, <1>12, <2>2 DEF CachedEmbedding, Step
  <1>13. ASSUME NEW c \in Calls, Check(c) PROVE PassedInv'
    <2>1. CASE Published(Need(c))
      <3>1. PassedBy(c)'
        BY <1>1, <1>3, <1>13, <2>1, NeedType, PassedOn DEF Check, Have
      <3> QED
        BY <1>5, <1>8, <1>13, <3>1 DEF Check, Step
    <2>2. CASE ~Published(Need(c))
      <3>1. PassedBy(c)'
        BY <1>6, <1>13, <2>2 DEF Check, TypeOK
      <3> QED
        BY <1>5, <1>8, <1>13, <3>1 DEF Check, Step
    <2> QED
      BY <2>1, <2>2
  <1>14. ASSUME NEW c \in Calls, Recheck(c) PROVE PassedInv'
    <2>1. CASE Published(Need(c))
      <3>1. PassedBy(c)'
        BY <1>1, <1>3, <1>14, <2>1, NeedType, PassedOn DEF Recheck, Have
      <3> QED
        BY <1>5, <1>8, <1>14, <3>1 DEF Recheck, Step
    <2>2. CASE ~Published(Need(c))
      <3>1. PassedBy(c)'
        BY <1>6, <1>14, <2>2 DEF Recheck, TypeOK
      <3> QED
        BY <1>5, <1>8, <1>14, <3>1 DEF Recheck, Step
    <2> QED
      BY <2>1, <2>2
  <1>15. ASSUME NEW c \in Calls, Open(c) PROVE PassedInv'
    <2>1. \E n \in Resources : n = Need(c) /\ opened'[n] > 0
      BY <1>15, NeedType DEF Open, TypeOK
    <2>3. UNCHANGED cached
      BY <1>15 DEF Open
    <2>2. PassedBy(c)'
      BY <1>1, <1>3, <1>15, <2>1, PassedOn DEF Open, Have, Published
    <2> QED
      BY <1>5, <1>8, <1>15, <2>2, <2>3 DEF Step
  <1>16. ASSUME NEW c \in Calls, OpenFails(c) PROVE PassedInv'
    <2>1. PassedBy(c)'
      BY <1>1, <1>3, <1>16, PassedFail DEF OpenFails
    <2>2. UNCHANGED cached
      BY <1>16 DEF OpenFails
    <2> QED
      BY <1>5, <1>8, <1>16, <2>1, <2>2 DEF Step
  <1>17. ASSUME NEW c \in Calls, Use(c) PROVE PassedInv'
    <2>0. Published(Need(c)) /\ Need(c) \in Resources
      BY <1>3, <1>17, NeedType DEF Use, PassedBy
    <2>1. cached' # {} => Published("model")'
      BY <1>1, <1>2, <1>5, <1>17, <2>0 DEF Use
    <2>2. CASE Advance(c)
      <3>1. PassedBy(c)'
        BY <1>1, <1>3, <1>17, <2>0, <2>2, PassedOn DEF Use
      <3> QED
        BY <1>8, <1>17, <2>1, <3>1 DEF Step
    <2>3. CASE ~Advance(c)
      <3>1. PICK e \in {"Error", "CatalogUnavailable"} :
               Fail(c, e) /\ (e = "CatalogUnavailable" => Need(c) = "pool")
        BY <1>17, <2>3 DEF Use
      <3>2. PassedBy(c)'
        BY <1>1, <1>3, <1>17, <3>1, PassedFail DEF Use
      <3> QED
        BY <1>8, <1>17, <2>1, <3>2 DEF Step
    <2> QED
      BY <2>2, <2>3
  (* Nothing else moves a call except into or out of the queue.             *)
  <1>18. ASSUME UNCHANGED <<job, at, cached>>,
                \A c \in Calls : \/ pc'[c] = pc[c] /\ result'[c] = result[c]
                                 \/ pc'[c] # "use" /\ result'[c] \in {result[c], "cancelled"}
         PROVE  PassedInv'
    <2>1. ASSUME NEW c \in Calls PROVE PassedBy(c)'
      BY <1>6, <1>7, <1>18
    <2> QED
      BY <1>4, <1>5, <1>18, <2>1
  <1>19. CASE WarmClient
    BY <1>18, <1>19 DEF WarmClient, Queue
  <1>20. CASE WarmPasses
    BY <1>18, <1>20 DEF WarmPasses, Queue
  <1>21. CASE WarmFails
    BY <1>18, <1>21 DEF WarmFails
  <1>22. CASE Shutdown
    BY <1>18, <1>22 DEF Shutdown
  <1>23. CASE Stop
    BY <1>18, <1>23 DEF Stop
  <1>24. CASE UNCHANGED vars
    BY <1>18, <1>24 DEF vars
  <1> QED
    BY StepCases, <1>10, <1>11, <1>12, <1>13, <1>14, <1>15, <1>16, <1>17, <1>19,
       <1>20, <1>21, <1>22, <1>23, <1>24

-----------------------------------------------------------------------------
(* The invariant, and what follows from it. *)

(* IInv holds in every reachable state: each part is kept by every step,    *)
(* from the parts named in its lemma.                                       *)
THEOREM Inductive == Spec => []IInv
  <1>1. Init => IInv
    BY InitIInv
  <1>2. IInv /\ [Next]_vars => IInv'
    BY TypeStep, OpenedStep, LockStep, ModelStep, CallStep, TaskStep, PassedStep DEF IInv
  <1> QED
    BY <1>1, <1>2, PTL DEF Spec

(* When lifespan logs that everything is warm, it is: the warm-ups that     *)
(* passed got past the model, the Qdrant client and the pool.               *)
THEOREM WarmedIsWarm == Spec => []WarmedMeansWarm
  <1>1. IInv => WarmedMeansWarm
    <2> SUFFICES ASSUME IInv, warming = "ok" PROVE \A r \in Resources : Published(r)
      BY DEF WarmedMeansWarm
    <2>1. {"warmup", "search", "filter"} \subseteq Calls
      BY DEF Calls, WarmupCalls
    <2>2. /\ job["warmup"] = "warmup" /\ job["search"] = "search" /\ job["filter"] = "filter"
          /\ result["search"] = "ok" => at["search"] = Len(Job[job["search"]])
      BY <2>1 DEF IInv, CallInv, WarmupCalls
    <2>3. result["warmup"] = "ok" /\ result["search"] = "ok" /\ result["filter"] = "ok"
      BY DEF IInv, TaskInv
    <2>4. at["search"] = 3
      BY <2>2, <2>3, JobFacts
    <2>5. Published("model") /\ Published("qdrant") /\ Published("pool")
      BY <2>1, <2>2, <2>3, <2>4 DEF IInv, PassedInv
    <2> QED
      BY <2>5 DEF Resources, Locked
  <1> QED
    BY <1>1, Inductive, PTL

(* A search that ends at its last need without a pool ends well: its use of *)
(* PostgreSQL cannot fail before there is one, and a pool that does not     *)
(* open is tolerated.  Only queued calls are cancelled, and they are at     *)
(* their first need.                                                        *)
LEMMA DegradeStep ==
  TypeOK /\ CallInv /\ PassedInv /\ SearchDegrades /\ [Next]_vars => SearchDegrades'
  <1> SUFFICES ASSUME TypeOK, CallInv, PassedInv, SearchDegrades, [Next]_vars, NEW d \in Calls,
                      job'[d] = "search", at'[d] = 3, pc'[d] = "done", ~Published("pool")'
               PROVE  result'[d] = "ok"
    BY DEF SearchDegrades, Ended
  <1>1. ~Published("pool")
    BY PublishedStays DEF Resources, Locked
  <1>2. job[d] = "search" /\ at[d] = 3 /\ pc[d] = "done" => result[d] = "ok"
    BY <1>1 DEF SearchDegrades, Ended
  <1> USE DEF TypeOK, Goto, shared, calls
  <1>3. ASSUME NEW c \in Calls, Step(c), c # d PROVE result'[d] = "ok"
    BY <1>2, <1>3, StepLocal
  <1>4. CASE Step(d)
    <2>1. CASE Advance(d)
      BY <2>1 DEF Advance
    <2>2. CASE ~Advance(d)
      <3>1. OpenFails(d) \/ Use(d)
        BY <1>4, <2>2 DEF Step, Start, CachedEmbedding, Check, Recheck, Open, Have
      <3>2. UNCHANGED <<job, at>>
        BY <2>2, <3>1 DEF OpenFails, Use, Fail
      <3>3. Need(d) = "pool"
        BY <3>2, JobFacts DEF Need
      <3>4. ~Use(d)
        BY <1>1, <3>3 DEF Use, PassedInv
      <3>5. Fail(d, "CatalogUnavailable")
        BY <3>1, <3>3, <3>4 DEF OpenFails
      <3> QED
        BY <2>2, <3>2, <3>5 DEF Fail, Tolerates
    <2> QED
      BY <2>1, <2>2
  <1>5. ASSUME NEW c \in Requests, NEW j \in {"search", "filter"}, Submit(c, j)
        PROVE  result'[d] = "ok"
    BY <1>2, <1>5 DEF Submit, Queue, Calls
  <1>6. CASE WarmClient
    BY <1>2, <1>6 DEF WarmClient, Queue
  <1>7. CASE WarmPasses
    BY <1>2, <1>7 DEF WarmPasses, Queue
  <1>8. CASE Shutdown
    BY <1>2, <1>8 DEF Shutdown, CallInv
  <1>9. CASE WarmFails \/ Stop \/ UNCHANGED vars
    BY <1>2, <1>9 DEF WarmFails, Stop, vars
  <1> QED
    BY <1>3, <1>4, <1>5, <1>6, <1>7, <1>8, <1>9 DEF Next, Task

(* While PostgreSQL has never been reached, a search that found its models  *)
(* answers without their metadata.                                          *)
THEOREM SearchIsDegraded == Spec => []SearchDegrades
  <1>1. Init => SearchDegrades
    BY DEF Init, SearchDegrades
  <1>2. IInv /\ SearchDegrades /\ [Next]_vars => SearchDegrades'
    BY DegradeStep DEF IInv
  <1> QED
    BY <1>1, <1>2, Inductive, PTL DEF Spec

(* After the shutdown the task is over, and it alone would submit calls: no *)
(* call that has not been handed to the executor is handed to it.           *)
THEOREM ShutdownSubmitsNothing == Spec => NothingSubmittedAfterShutdown
  <1>1. IInv /\ [Next]_vars =>
          [phase # "serving" => \A c \in Calls : pc[c] = "out" => pc'[c] = "out"]_vars
    <2> SUFFICES ASSUME IInv, [Next]_vars, phase # "serving", NEW c \in Calls, pc[c] = "out"
                 PROVE  pc'[c] = "out"
      OBVIOUS
    <2>1. TypeOK /\ WarmingEnded
      BY DEF IInv, TaskInv
    <2>2. Awaited = {} /\ warming # "client"
      BY <2>1, AwaitedFacts DEF WarmingEnded
    <2>3. ASSUME NEW d \in Calls, Step(d) PROVE pc'[c] = "out"
      BY <2>1, <2>3, StepLocal
    <2> QED
      BY <2>2, <2>3
      DEF Next, Task, Submit, WarmClient, WarmPasses, WarmFails, Shutdown, Stop, vars, calls
  <1> QED
    BY <1>1, Inductive, PTL DEF Spec, NothingSubmittedAfterShutdown

(* The steps of the abstract resource, of the one and of the other lock: a  *)
(* call that wins the test inside the lock begins, the opening publishes, a *)
(* failure abandons, and nothing else touches the resource.                 *)
LEMMA PoolOnceStep ==
  TypeOK /\ CallInv /\ LockInv /\ [Next]_vars
    => [PoolOnce!Next]_<<Published("pool"), lock["pool"]>>
  <1> DEFINE same == Published("pool")' = Published("pool") /\ lock'["pool"] = lock["pool"]
  <1> SUFFICES ASSUME TypeOK, CallInv, LockInv, [Next]_vars
               PROVE  PoolOnce!Next \/ same
    OBVIOUS
  <1> USE ResourcesAssumption DEF TypeOK, PoolOnce!Next
  <1>1. "pool" \in Locked /\ "pool" \in Resources
    BY DEF Locked, Resources
  <1>2. ASSUME NEW c \in Calls, Recheck(c) PROVE PoolOnce!Begin \/ same
    BY <1>1, <1>2 DEF Recheck, Published, PoolOnce!Begin
  <1>3. ASSUME NEW c \in Calls, Open(c) PROVE PoolOnce!Publish \/ same
    <2>1. CASE Need(c) = "pool"
      <3>1. lock["pool"] = c /\ ~Published("pool")
        BY <1>1, <1>3, <2>1 DEF Open, LockInv
      <3>2. opened'["pool"] > 0 /\ lock'["pool"] = NoCall
        BY <1>1, <1>3, <2>1 DEF Open, Release
      <3> QED
        BY <3>1, <3>2 DEF Published, PoolOnce!Publish
    <2>2. CASE Need(c) # "pool"
      BY <1>1, <1>3, <2>2 DEF Open, Release, Published
    <2> QED
      BY <2>1, <2>2
  <1>4. ASSUME NEW c \in Calls, OpenFails(c) PROVE PoolOnce!Abandon \/ same
    <2>1. CASE Need(c) = "pool"
      <3>1. lock["pool"] = c /\ ~Published("pool")
        BY <1>1, <1>4, <2>1 DEF OpenFails, LockInv
      <3>2. UNCHANGED opened /\ lock'["pool"] = NoCall
        BY <1>1, <1>4, <2>1 DEF OpenFails, Release
      <3> QED
        BY <3>1, <3>2 DEF Published, PoolOnce!Abandon
    <2>2. CASE Need(c) # "pool"
      BY <1>1, <1>4, <2>2 DEF OpenFails, Release, Published
    <2> QED
      BY <2>1, <2>2
  <1>5. CASE UNCHANGED <<opened, lock>>
    BY <1>5 DEF Published
  <1> QED
    BY StepCases, <1>2, <1>3, <1>4, <1>5
    DEF Submit, Start, CachedEmbedding, Check, Use, WarmClient, WarmPasses, WarmFails,
        Shutdown, Stop, vars, shared

(* The steps of the abstract resource, of the one and of the other lock: a  *)
(* call that wins the test inside the lock begins, the opening publishes, a *)
(* failure abandons, and nothing else touches the resource.                 *)
LEMMA QdrantOnceStep ==
  TypeOK /\ CallInv /\ LockInv /\ [Next]_vars
    => [QdrantOnce!Next]_<<Published("qdrant"), lock["qdrant"]>>
  <1> DEFINE same == Published("qdrant")' = Published("qdrant") /\ lock'["qdrant"] = lock["qdrant"]
  <1> SUFFICES ASSUME TypeOK, CallInv, LockInv, [Next]_vars
               PROVE  QdrantOnce!Next \/ same
    OBVIOUS
  <1> USE ResourcesAssumption DEF TypeOK, QdrantOnce!Next
  <1>1. "qdrant" \in Locked /\ "qdrant" \in Resources
    BY DEF Locked, Resources
  <1>2. ASSUME NEW c \in Calls, Recheck(c) PROVE QdrantOnce!Begin \/ same
    BY <1>1, <1>2 DEF Recheck, Published, QdrantOnce!Begin
  <1>3. ASSUME NEW c \in Calls, Open(c) PROVE QdrantOnce!Publish \/ same
    <2>1. CASE Need(c) = "qdrant"
      <3>1. lock["qdrant"] = c /\ ~Published("qdrant")
        BY <1>1, <1>3, <2>1 DEF Open, LockInv
      <3>2. opened'["qdrant"] > 0 /\ lock'["qdrant"] = NoCall
        BY <1>1, <1>3, <2>1 DEF Open, Release
      <3> QED
        BY <3>1, <3>2 DEF Published, QdrantOnce!Publish
    <2>2. CASE Need(c) # "qdrant"
      BY <1>1, <1>3, <2>2 DEF Open, Release, Published
    <2> QED
      BY <2>1, <2>2
  <1>4. ASSUME NEW c \in Calls, OpenFails(c) PROVE QdrantOnce!Abandon \/ same
    <2>1. CASE Need(c) = "qdrant"
      <3>1. lock["qdrant"] = c /\ ~Published("qdrant")
        BY <1>1, <1>4, <2>1 DEF OpenFails, LockInv
      <3>2. UNCHANGED opened /\ lock'["qdrant"] = NoCall
        BY <1>1, <1>4, <2>1 DEF OpenFails, Release
      <3> QED
        BY <3>1, <3>2 DEF Published, QdrantOnce!Abandon
    <2>2. CASE Need(c) # "qdrant"
      BY <1>1, <1>4, <2>2 DEF OpenFails, Release, Published
    <2> QED
      BY <2>1, <2>2
  <1>5. CASE UNCHANGED <<opened, lock>>
    BY <1>5 DEF Published
  <1> QED
    BY StepCases, <1>2, <1>3, <1>4, <1>5
    DEF Submit, Start, CachedEmbedding, Check, Use, WarmClient, WarmPasses, WarmFails,
        Shutdown, Stop, vars, shared

(* Both double-checked locks implement the abstract resource, whatever the  *)
(* other resources, the warm-up and the shutdown do meanwhile.              *)
THEOREM LocksRefineOnce == Spec => LockedAreOnce
  <1>1. Init => PoolOnce!Init /\ QdrantOnce!Init
    BY DEF Init, PoolOnce!Init, QdrantOnce!Init, Published, Resources, Locked
  <1>2. IInv /\ [Next]_vars => [PoolOnce!Next]_<<Published("pool"), lock["pool"]>>
    BY PoolOnceStep DEF IInv
  <1>3. IInv /\ [Next]_vars => [QdrantOnce!Next]_<<Published("qdrant"), lock["qdrant"]>>
    BY QdrantOnceStep DEF IInv
  <1> QED
    BY <1>1, <1>2, <1>3, Inductive, PTL DEF LockedAreOnce, Spec, PoolOnce!Spec, QdrantOnce!Spec

=============================================================================
