------------------------ MODULE ConnectionPoolProofs ------------------------
(***************************************************************************)
(* Proofs about ConnectionPool: the invariants the runs check on small     *)
(* instances hold for every set of threads and connections and every pool  *)
(* size.  IInv is the inductive strengthening; each of its parts has a     *)
(* lemma with one step per action.                                         *)
(***************************************************************************)
EXTENDS ConnectionPool, FiniteSetTheorems, TLAPS

(* Every step of the system is one of these; the lemmas below go through    *)
(* the list.                                                                *)
LEMMA StepCases ==
  ASSUME [Next]_vars
  PROVE  \/ ServerStops
         \/ ServerStarts
         \/ \E t \in Threads : \E what \in {"select", "warm"} : Begin(t, what)
         \/ \E t \in Threads : CheckPool(t)
         \/ \E t \in Threads : RecheckPool(t)
         \/ \E t \in Threads : OpenConnection(t)
         \/ \E t \in Threads : PublishPool(t)
         \/ \E t \in Threads : BuildFails(t)
         \/ \E t \in Threads : GetIdle(t)
         \/ \E t \in Threads : GetReplacement(t)
         \/ \E t \in Threads : GetExhausted(t) \/ GetReplacementFails(t)
         \/ \E t \in Threads : Query(t)
         \/ \E t \in Threads : PutBack(t)
         \/ \E t \in Threads : PutBackFails(t)
         \/ \E t \in Threads : Return(t)
         \/ UNCHANGED vars
  BY DEF Next, Proceed, GetPool, GetConn, PutConn

(* Before any call the pool does not exist: the invariant holds.            *)
LEMMA InitIInv == Init => IInv
  <1> SUFFICES ASSUME Init PROVE IInv
    OBVIOUS
  <1>1. TypeOK
    BY PoolAssumption DEF Init, TypeOK, Holding, Steps, Outcomes
  <1>2. LockInv
    BY PoolAssumption DEF Init, LockInv, Holding
  <1>3. SlotsInv
    BY PoolAssumption, FS_EmptySet DEF Init, SlotsInv
  <1>4. HeldInv
    BY DEF Init, HeldInv, Holding
  <1>5. SessionInv
    BY DEF Init, SessionInv, NoLiveSessionLost
  <1> QED
    BY <1>1, <1>2, <1>3, <1>4, <1>5 DEF IInv

-----------------------------------------------------------------------------
(* Type correctness needs no strengthening. *)
LEMMA TypeStep == TypeOK /\ [Next]_vars => TypeOK'
  <1> SUFFICES ASSUME TypeOK, [Next]_vars PROVE TypeOK'
    OBVIOUS
  <1> USE PoolAssumption DEF TypeOK, Holding, Goto, Steps, Outcomes, poolVars, localVars
  <1>1. CASE ServerStops
    BY <1>1 DEF ServerStops
  <1>2. CASE ServerStarts
    BY <1>2 DEF ServerStarts
  <1>3. ASSUME NEW t \in Threads, NEW what \in {"select", "warm"}, Begin(t, what)
        PROVE  TypeOK'
    BY <1>3 DEF Begin
  <1>4. ASSUME NEW t \in Threads, CheckPool(t) PROVE TypeOK'
    BY <1>4 DEF CheckPool, HavePool, Finish
  <1>5. ASSUME NEW t \in Threads, RecheckPool(t) PROVE TypeOK'
    BY <1>5 DEF RecheckPool, HavePool, Finish
  <1>6. ASSUME NEW t \in Threads, OpenConnection(t) PROVE TypeOK'
    BY <1>6 DEF OpenConnection, Fresh
  <1>7. ASSUME NEW t \in Threads, PublishPool(t) PROVE TypeOK'
    BY <1>7 DEF PublishPool, HavePool, Finish
  <1>8. ASSUME NEW t \in Threads, BuildFails(t) PROVE TypeOK'
    BY <1>8 DEF BuildFails, Finish
  <1>9. ASSUME NEW t \in Threads, GetIdle(t) PROVE TypeOK'
    BY <1>9 DEF GetIdle, Take
  <1>10. ASSUME NEW t \in Threads, GetReplacement(t) PROVE TypeOK'
    BY <1>10 DEF GetReplacement, Take, Fresh
  <1>11. ASSUME NEW t \in Threads, GetExhausted(t) \/ GetReplacementFails(t)
         PROVE  TypeOK'
    BY <1>11 DEF GetExhausted, GetReplacementFails, Finish
  <1>12. ASSUME NEW t \in Threads, Query(t) PROVE TypeOK'
    BY <1>12 DEF Query, QuerySucceeds, StatementFails, SessionLost, QueryEnds
  <1>13. ASSUME NEW t \in Threads, PutBack(t) PROVE TypeOK'
    BY <1>13 DEF PutBack, Leave
  <1>14. ASSUME NEW t \in Threads, PutBackFails(t) PROVE TypeOK'
    BY <1>14 DEF PutBackFails, Leave
  <1>15. ASSUME NEW t \in Threads, Return(t) PROVE TypeOK'
    BY <1>15 DEF Return
  <1>16. CASE UNCHANGED vars
    BY <1>16 DEF vars
  <1> QED
    BY StepCases, <1>1, <1>2, <1>3, <1>4, <1>5, <1>6, <1>7, <1>8, <1>9, <1>10,
       <1>11, <1>12, <1>13, <1>14, <1>15, <1>16

(* Every variable keeps its type, and a thread has a connection exactly     *)
(* while it is between getconn and putconn.                                 *)
THEOREM TypeCorrect == Spec => []TypeOK
  <1>1. Init => TypeOK
    BY InitIInv DEF IInv
  <1> QED
    BY <1>1, TypeStep, PTL DEF Spec
-----------------------------------------------------------------------------
(* The parts of the inductive invariant. *)

(* Only the holder of _pool_lock builds, and only before publication. *)
LEMMA LockStep == TypeOK /\ LockInv /\ [Next]_vars => LockInv'
  <1> SUFFICES ASSUME TypeOK, LockInv, [Next]_vars PROVE LockInv'
    OBVIOUS
  <1> USE PoolAssumption DEF TypeOK, LockInv, Holding, Goto, Steps, poolVars, localVars
  <1>1. CASE ServerStops
    BY <1>1 DEF ServerStops
  <1>2. CASE ServerStarts
    BY <1>2 DEF ServerStarts
  <1>3. ASSUME NEW t \in Threads, NEW what \in {"select", "warm"}, Begin(t, what)
        PROVE  LockInv'
    BY <1>3 DEF Begin
  <1>4. ASSUME NEW t \in Threads, CheckPool(t) PROVE LockInv'
    BY <1>4 DEF CheckPool, HavePool, Finish
  <1>5. ASSUME NEW t \in Threads, RecheckPool(t) PROVE LockInv'
    BY <1>5 DEF RecheckPool, HavePool, Finish
  <1>6. ASSUME NEW t \in Threads, OpenConnection(t) PROVE LockInv'
    BY <1>6 DEF OpenConnection, Fresh
  <1>7. ASSUME NEW t \in Threads, PublishPool(t) PROVE LockInv'
    BY <1>7 DEF PublishPool, HavePool, Finish
  <1>8. ASSUME NEW t \in Threads, BuildFails(t) PROVE LockInv'
    BY <1>8 DEF BuildFails, Finish
  <1>9. ASSUME NEW t \in Threads, GetIdle(t) PROVE LockInv'
    BY <1>9 DEF GetIdle, Take
  <1>10. ASSUME NEW t \in Threads, GetReplacement(t) PROVE LockInv'
    BY <1>10 DEF GetReplacement, Take, Fresh
  <1>11. ASSUME NEW t \in Threads, GetExhausted(t) \/ GetReplacementFails(t)
         PROVE  LockInv'
    BY <1>11 DEF GetExhausted, GetReplacementFails, Finish
  <1>12. ASSUME NEW t \in Threads, Query(t) PROVE LockInv'
    BY <1>12 DEF Query, QuerySucceeds, StatementFails, SessionLost, QueryEnds
  <1>13. ASSUME NEW t \in Threads, PutBack(t) PROVE LockInv'
    BY <1>13 DEF PutBack, Leave
  <1>14. ASSUME NEW t \in Threads, PutBackFails(t) PROVE LockInv'
    BY <1>14 DEF PutBackFails, Leave
  <1>15. ASSUME NEW t \in Threads, Return(t) PROVE LockInv'
    BY <1>15 DEF Return
  <1>16. CASE UNCHANGED vars
    BY <1>16 DEF vars
  <1> QED
    BY StepCases, <1>1, <1>2, <1>3, <1>4, <1>5, <1>6, <1>7, <1>8, <1>9, <1>10,
       <1>11, <1>12, <1>13, <1>14, <1>15, <1>16

(* What the pool's collections contain is finite, so their sizes add up.    *)
LEMMA PoolFinite ==
  ASSUME TypeOK
  PROVE  /\ IsFiniteSet(idle) /\ IsFiniteSet(used) /\ IsFiniteSet(building)
         /\ Cardinality(idle) \in Nat /\ Cardinality(used) \in Nat
         /\ Cardinality(building) \in Nat
  <1>1. IsFiniteSet(idle) /\ IsFiniteSet(used) /\ IsFiniteSet(building)
    BY FS_Subset, PoolAssumption DEF TypeOK
  <1> QED
    BY <1>1, FS_CardinalityType

(* Every move of a connection keeps idle and used disjoint and within maxconn. *)
LEMMA SlotsStep == TypeOK /\ SlotsInv /\ HeldInv /\ [Next]_vars => SlotsInv'
  <1> SUFFICES ASSUME TypeOK, SlotsInv, HeldInv, [Next]_vars PROVE SlotsInv'
    OBVIOUS
  <1> USE PoolAssumption DEF SlotsInv, poolVars
  <1>1. CASE ServerStops
    BY <1>1 DEF ServerStops
  <1>2. CASE ServerStarts
    BY <1>2 DEF ServerStarts
  <1>3. ASSUME NEW t \in Threads, NEW what \in {"select", "warm"}, Begin(t, what)
        PROVE  SlotsInv'
    BY <1>3 DEF Begin
  <1>4. ASSUME NEW t \in Threads, CheckPool(t) PROVE SlotsInv'
    BY <1>4 DEF CheckPool, HavePool, Finish
  <1>5. ASSUME NEW t \in Threads, RecheckPool(t) PROVE SlotsInv'
    BY <1>5 DEF RecheckPool, HavePool, Finish
  <1>6. ASSUME NEW t \in Threads, OpenConnection(t) PROVE SlotsInv'
    <2>1. PICK c \in Fresh : building' = building \union {c}
      BY <1>6 DEF OpenConnection
    <2>2. c \notin building
      BY <2>1 DEF Fresh
    <2>3. Cardinality(building') = Cardinality(building) + 1
      BY <2>1, <2>2, PoolFinite, FS_AddElement
    <2> QED
      BY <1>6, <2>3, PoolFinite DEF OpenConnection
  <1>7. ASSUME NEW t \in Threads, PublishPool(t) PROVE SlotsInv'
    BY <1>7, PoolFinite, FS_EmptySet DEF PublishPool
  <1>8. ASSUME NEW t \in Threads, BuildFails(t) PROVE SlotsInv'
    BY <1>8, PoolFinite, FS_EmptySet DEF BuildFails
  <1>9. ASSUME NEW t \in Threads, GetIdle(t) PROVE SlotsInv'
    <2>1. PICK c \in idle : idle' = idle \ {c} /\ used' = used \union {c}
      BY <1>9 DEF GetIdle, Take
    <2>2. Cardinality(idle') = Cardinality(idle) - 1
      BY <2>1, PoolFinite, FS_RemoveElement
    <2>3. Cardinality(used') = Cardinality(used) + 1
      BY <2>1, PoolFinite, FS_AddElement
    <2> QED
      BY <1>9, <2>1, <2>2, <2>3, PoolFinite DEF GetIdle
  <1>10. ASSUME NEW t \in Threads, GetReplacement(t) PROVE SlotsInv'
    <2>1. PICK c \in Fresh : used' = used \union {c}
      BY <1>10 DEF GetReplacement, Take
    <2>2. idle = {} /\ Cardinality(used) # PoolSize /\ UNCHANGED <<idle, building>>
      BY <1>10 DEF GetReplacement
    <2>3. Cardinality(used') = Cardinality(used) + 1
      BY <2>1, PoolFinite, FS_AddElement DEF Fresh
    <2>4. Cardinality(idle) = 0
      BY <2>2, FS_EmptySet
    <2> QED
      BY <2>1, <2>2, <2>3, <2>4, PoolFinite
  <1>11. ASSUME NEW t \in Threads, GetExhausted(t) \/ GetReplacementFails(t)
         PROVE  SlotsInv'
    BY <1>11 DEF GetExhausted, GetReplacementFails, Finish
  <1>12. ASSUME NEW t \in Threads, Query(t) PROVE SlotsInv'
    BY <1>12 DEF Query, QuerySucceeds, StatementFails, SessionLost, QueryEnds
  <1>13. ASSUME NEW t \in Threads, PutBack(t) PROVE SlotsInv'
    <2>1. used' = used \ {conn[t]} /\ conn[t] \in used /\ UNCHANGED building
      BY <1>13 DEF PutBack, Leave, HeldInv, Holding
    <2>2. Cardinality(used') = Cardinality(used) - 1
      BY <2>1, PoolFinite, FS_RemoveElement
    <2>3. CASE idle' = idle
      BY <2>1, <2>2, <2>3, PoolFinite
    <2>4. CASE idle' = idle \union {conn[t]}
      <3>1. Cardinality(idle') = Cardinality(idle) + 1
        BY <2>1, <2>4, PoolFinite, FS_AddElement
      <3> QED
        BY <2>1, <2>2, <2>4, <3>1, PoolFinite
    <2> QED
      BY <1>13, <2>3, <2>4 DEF PutBack
  <1>14. ASSUME NEW t \in Threads, PutBackFails(t) PROVE SlotsInv'
    BY <1>14 DEF PutBackFails, Leave
  <1>15. ASSUME NEW t \in Threads, Return(t) PROVE SlotsInv'
    BY <1>15 DEF Return
  <1>16. CASE UNCHANGED vars
    BY <1>16 DEF vars
  <1> QED
    BY StepCases, <1>1, <1>2, <1>3, <1>4, <1>5, <1>6, <1>7, <1>8, <1>9, <1>10,
       <1>11, <1>12, <1>13, <1>14, <1>15, <1>16

(* No step gives a connection to a second thread. *)
LEMMA HeldStep == TypeOK /\ LockInv /\ SlotsInv /\ HeldInv /\ [Next]_vars => HeldInv'
  <1> SUFFICES ASSUME TypeOK, LockInv, SlotsInv, HeldInv, [Next]_vars PROVE HeldInv'
    OBVIOUS
  <1> USE DEF TypeOK, HeldInv, Holding, Goto, Steps, poolVars, localVars
  <1>1. CASE ServerStops
    BY <1>1 DEF ServerStops
  <1>2. CASE ServerStarts
    BY <1>2 DEF ServerStarts
  <1>3. ASSUME NEW t \in Threads, NEW what \in {"select", "warm"}, Begin(t, what)
        PROVE  HeldInv'
    BY <1>3 DEF Begin
  <1>4. ASSUME NEW t \in Threads, CheckPool(t) PROVE HeldInv'
    BY <1>4 DEF CheckPool, HavePool, Finish
  <1>5. ASSUME NEW t \in Threads, RecheckPool(t) PROVE HeldInv'
    BY <1>5 DEF RecheckPool, HavePool, Finish
  <1>6. ASSUME NEW t \in Threads, OpenConnection(t) PROVE HeldInv'
    BY <1>6 DEF OpenConnection, Fresh
  <1>7. ASSUME NEW t \in Threads, PublishPool(t) PROVE HeldInv'
    <2>1. lock # NoThread /\ ~published
      BY <1>7, PoolAssumption DEF PublishPool, LockInv
    <2>2. idle = {} /\ \A u \in Threads : ~Holding(u)
      BY <2>1 DEF LockInv
    <2> QED
      BY <1>7, <2>2 DEF PublishPool, HavePool, Finish
  <1>8. ASSUME NEW t \in Threads, BuildFails(t) PROVE HeldInv'
    BY <1>8 DEF BuildFails, Finish
  <1>9. ASSUME NEW t \in Threads, GetIdle(t) PROVE HeldInv'
    BY <1>9 DEF GetIdle, Take, SlotsInv
  <1>10. ASSUME NEW t \in Threads, GetReplacement(t) PROVE HeldInv'
    BY <1>10 DEF GetReplacement, Take, Fresh, Held
  <1>11. ASSUME NEW t \in Threads, GetExhausted(t) \/ GetReplacementFails(t)
         PROVE  HeldInv'
    BY <1>11 DEF GetExhausted, GetReplacementFails, Finish
  <1>12. ASSUME NEW t \in Threads, Query(t) PROVE HeldInv'
    BY <1>12 DEF Query, QuerySucceeds, StatementFails, SessionLost, QueryEnds
  <1>13. ASSUME NEW t \in Threads, PutBack(t) PROVE HeldInv'
    BY <1>13 DEF PutBack, Leave
  <1>14. ASSUME NEW t \in Threads, PutBackFails(t) PROVE HeldInv'
    BY <1>14 DEF PutBackFails, Leave
  <1>15. ASSUME NEW t \in Threads, Return(t) PROVE HeldInv'
    BY <1>15 DEF Return
  <1>16. CASE UNCHANGED vars
    BY <1>16 DEF vars
  <1> QED
    BY StepCases, <1>1, <1>2, <1>3, <1>4, <1>5, <1>6, <1>7, <1>8, <1>9, <1>10,
       <1>11, <1>12, <1>13, <1>14, <1>15, <1>16

(* A live session stays in the list, in a half-built pool or in a thread's hands. *)
LEMMA SessionStep == TypeOK /\ LockInv /\ SlotsInv /\ HeldInv /\ SessionInv /\ [Next]_vars => SessionInv'
  <1> SUFFICES ASSUME TypeOK, LockInv, SlotsInv, HeldInv, SessionInv, [Next]_vars PROVE SessionInv'
    OBVIOUS
  <1> USE DEF TypeOK, SessionInv, NoLiveSessionLost, Held, Holding, Goto, Steps, poolVars, localVars
  <1>1. CASE ServerStops
    BY <1>1 DEF ServerStops
  <1>2. CASE ServerStarts
    BY <1>2 DEF ServerStarts
  <1>3. ASSUME NEW t \in Threads, NEW what \in {"select", "warm"}, Begin(t, what)
        PROVE  SessionInv'
    BY <1>3 DEF Begin
  <1>4. ASSUME NEW t \in Threads, CheckPool(t) PROVE SessionInv'
    BY <1>4 DEF CheckPool, HavePool, Finish
  <1>5. ASSUME NEW t \in Threads, RecheckPool(t) PROVE SessionInv'
    BY <1>5 DEF RecheckPool, HavePool, Finish
  <1>6. ASSUME NEW t \in Threads, OpenConnection(t) PROVE SessionInv'
    BY <1>6 DEF OpenConnection, Fresh
  <1>7. ASSUME NEW t \in Threads, PublishPool(t) PROVE SessionInv'
    <2>1. lock # NoThread /\ ~published
      BY <1>7, PoolAssumption DEF PublishPool, LockInv
    <2>2. idle = {} /\ \A u \in Threads : ~Holding(u)
      BY <2>1 DEF LockInv
    <2> QED
      BY <1>7, <2>2 DEF PublishPool, HavePool, Finish
  <1>8. ASSUME NEW t \in Threads, BuildFails(t) PROVE SessionInv'
    BY <1>8 DEF BuildFails, Finish
  <1>9. ASSUME NEW t \in Threads, GetIdle(t) PROVE SessionInv'
    BY <1>9 DEF GetIdle, Take
  <1>10. ASSUME NEW t \in Threads, GetReplacement(t) PROVE SessionInv'
    BY <1>10 DEF GetReplacement, Take, Fresh
  <1>11. ASSUME NEW t \in Threads, GetExhausted(t) \/ GetReplacementFails(t)
         PROVE  SessionInv'
    BY <1>11 DEF GetExhausted, GetReplacementFails, Finish
  <1>12. ASSUME NEW t \in Threads, Query(t) PROVE SessionInv'
    BY <1>12 DEF Query, QuerySucceeds, StatementFails, SessionLost, QueryEnds
  <1>13. ASSUME NEW t \in Threads, PutBack(t) PROVE SessionInv'
    <2>1. conn[t] \in used /\ live' = live /\ building' = building
      BY <1>13 DEF PutBack, Leave, HeldInv
    <2>2. Cardinality(used) # 0
      BY <2>1, PoolFinite, FS_EmptySet
    <2>3. Cardinality(idle) < PoolSize
      BY <2>2, PoolFinite, PoolAssumption DEF SlotsInv
    <2>4. \A u \in Threads \ {t} : conn'[u] = conn[u] /\ pc'[u] = pc[u]
      BY <1>13 DEF PutBack, Leave
    <2>5. CASE txn[t] = "closed"
      <3>1. conn[t] \notin live
        BY <1>13, <2>5 DEF PutBack
      <3> QED
        BY <1>13, <2>1, <2>4, <2>5, <3>1 DEF PutBack, Leave
    <2>6. CASE txn[t] # "closed"
      <3>1. idle' = idle \union {conn[t]}
        BY <1>13, <2>3, <2>6 DEF PutBack
      <3> QED
        BY <1>13, <2>1, <2>4, <3>1 DEF PutBack, Leave
    <2> QED
      BY <2>5, <2>6
  <1>14. ASSUME NEW t \in Threads, PutBackFails(t) PROVE SessionInv'
    BY <1>14 DEF PutBackFails, Leave
  <1>15. ASSUME NEW t \in Threads, Return(t) PROVE SessionInv'
    BY <1>15 DEF Return
  <1>16. CASE UNCHANGED vars
    BY <1>16 DEF vars
  <1> QED
    BY StepCases, <1>1, <1>2, <1>3, <1>4, <1>5, <1>6, <1>7, <1>8, <1>9, <1>10,
       <1>11, <1>12, <1>13, <1>14, <1>15, <1>16

-----------------------------------------------------------------------------
(* The conjunction of all parts of the invariant holds in every reachable   *)
(* state (catalog.py:36-92); the properties below follow from it.           *)
THEOREM Inductive == Spec => []IInv
  <1>1. IInv /\ [Next]_vars => IInv'
    BY TypeStep, LockStep, SlotsStep, HeldStep, SessionStep DEF IInv
  <1> QED
    BY InitIInv, <1>1, PTL DEF Spec

(* A connection in use by one thread is neither in the pool's list nor with *)
(* another thread.                                                          *)
THEOREM ConnectionsAreExclusive == Spec => []ExclusiveUse
  <1>1. IInv => ExclusiveUse
    <2> SUFFICES ASSUME IInv, NEW t \in Threads, Holding(t)
                 PROVE  /\ conn[t] \notin idle
                        /\ \A u \in Threads \ {t} : conn[u] # conn[t]
      BY DEF ExclusiveUse
    <2>1. conn[t] \notin idle
      BY DEF IInv, HeldInv, SlotsInv
    <2>2. ASSUME NEW u \in Threads \ {t} PROVE conn[u] # conn[t]
      BY DEF IInv, HeldInv, TypeOK
    <2> QED
      BY <2>1, <2>2
  <1> QED
    BY Inductive, <1>1, PTL

(* No working session is lost by the pool.                                  *)
THEOREM NoSessionLost == Spec => []NoLiveSessionLost
  <1>1. IInv => NoLiveSessionLost
    BY DEF IInv, SessionInv
  <1> QED
    BY Inductive, <1>1, PTL

(* The server never sees more than POSTGRES_POOL_SIZE sessions: live ones   *)
(* are in the list or among the used ones, or the pool is being built.      *)
THEOREM SessionsAreBounded == Spec => []SessionsBounded
  <1>1. IInv => SessionsBounded
    <2> SUFFICES ASSUME IInv PROVE Cardinality(live) <= PoolSize
      BY DEF SessionsBounded
    <2> USE DEF IInv
    <2>1. Held \subseteq used
      BY DEF HeldInv, Held
    <2>2. live \subseteq idle \union used \union building
      BY <2>1 DEF SessionInv, NoLiveSessionLost
    <2>3. Cardinality(idle \union used) <= PoolSize
      <3>1. Cardinality(idle \union used)
              = Cardinality(idle) + Cardinality(used) - Cardinality(idle \intersect used)
        BY PoolFinite, FS_Union
      <3>2. Cardinality(idle \intersect used) = 0
        BY FS_EmptySet DEF SlotsInv
      <3> QED
        BY <3>1, <3>2, PoolFinite DEF SlotsInv
    <2>4. CASE published
      <3>1. live \subseteq idle \union used
        BY <2>2, <2>4 DEF LockInv
      <3>2. IsFiniteSet(idle \union used)
        BY PoolFinite, FS_Union
      <3>3. Cardinality(live) <= Cardinality(idle \union used)
        BY <3>1, <3>2, FS_Subset
      <3>4. Cardinality(live) \in Nat /\ Cardinality(idle \union used) \in Nat
        BY <3>1, <3>2, FS_Subset, FS_CardinalityType
      <3> QED
        BY <2>3, <3>3, <3>4, PoolAssumption
    <2>5. CASE ~published
      <3>1. live \subseteq building
        BY <2>2, <2>5 DEF LockInv
      <3>2. Cardinality(live) <= Cardinality(building) /\ IsFiniteSet(live)
        BY <3>1, PoolFinite, FS_Subset
      <3>3. Cardinality(live) \in Nat
        BY <3>2, FS_CardinalityType
      <3> QED
        BY <3>2, <3>3, PoolFinite, PoolAssumption DEF SlotsInv
    <2> QED
      BY <2>4, <2>5
  <1> QED
    BY Inductive, <1>1, PTL

(* Only one pool is ever built, by the thread that holds the lock.          *)
THEOREM OnlyOnePool == Spec => PoolBuiltOnce
  <1>1. TypeOK /\ LockInv /\ [Next]_vars
          => [published => published' /\ \A t \in Threads : pc'[t] # "build"]_vars
    <2> SUFFICES ASSUME TypeOK, LockInv, [Next]_vars, published
                 PROVE  published' /\ \A t \in Threads : pc'[t] # "build"
      OBVIOUS
    <2>1. published'
      BY StepCases
      DEF ServerStops, ServerStarts, Begin, CheckPool, RecheckPool, OpenConnection,
          PublishPool, BuildFails, GetIdle, GetReplacement, GetExhausted,
          GetReplacementFails, Query, QuerySucceeds, StatementFails, SessionLost,
          QueryEnds, PutBack, PutBackFails, Leave, Return, vars, poolVars
    <2>2. TypeOK' /\ LockInv'
      BY TypeStep, LockStep
    <2> QED
      BY <2>1, <2>2, PoolAssumption DEF LockInv
  <1> QED
    BY Inductive, <1>1, PTL DEF IInv, PoolBuiltOnce, Spec

(* A step of the pool is a step of the abstract resource or leaves it as it *)
(* is: a thread enters the lock, publishes the pool, or gives up.           *)
LEMMA OnceStep == TypeOK /\ LockInv /\ [Next]_vars => [Once!Next]_<<published, lock>>
  <1> SUFFICES ASSUME TypeOK, LockInv, [Next]_vars
               PROVE  Once!Next \/ UNCHANGED <<published, lock>>
    OBVIOUS
  <1> USE PoolAssumption DEF TypeOK, LockInv, Once!Next
  <1>1. ASSUME NEW t \in Threads, RecheckPool(t)
        PROVE  Once!Begin \/ UNCHANGED <<published, lock>>
    BY <1>1 DEF RecheckPool, Once!Begin
  <1>2. ASSUME NEW t \in Threads, PublishPool(t) PROVE Once!Publish
    BY <1>2 DEF PublishPool, Once!Publish
  <1>3. ASSUME NEW t \in Threads, BuildFails(t) PROVE Once!Abandon
    BY <1>3 DEF BuildFails, Once!Abandon
  <1>4. CASE \/ ServerStops \/ ServerStarts
             \/ \E t \in Threads : \E what \in {"select", "warm"} : Begin(t, what)
             \/ \E t \in Threads : CheckPool(t) \/ OpenConnection(t)
             \/ UNCHANGED vars
    BY <1>4 DEF ServerStops, ServerStarts, Begin, CheckPool, OpenConnection, poolVars, vars
  <1>5. CASE \E t \in Threads : \/ GetIdle(t) \/ GetReplacement(t)
                               \/ GetExhausted(t) \/ GetReplacementFails(t)
                               \/ Query(t) \/ PutBack(t) \/ PutBackFails(t) \/ Return(t)
    BY <1>5 DEF GetIdle, GetReplacement, GetExhausted, GetReplacementFails, Query,
         QuerySucceeds, StatementFails, SessionLost, QueryEnds, PutBack, PutBackFails,
         Leave, Return, poolVars
  <1> QED
    BY StepCases, <1>1, <1>2, <1>3, <1>4, <1>5

(* The pool implements the abstract resource for any number of threads: it  *)
(* is built under the lock, by one thread at a time, and published once.    *)
THEOREM PoolRefinesOnce == Spec => PoolIsOnce
  <1>1. Init => Once!Init
    BY DEF Init, Once!Init
  <1> QED
    BY <1>1, Inductive, OnceStep, PTL DEF IInv, PoolIsOnce, Spec, Once!Spec
=============================================================================
