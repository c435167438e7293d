-------------------------- MODULE VectorizerProofs --------------------------
(***************************************************************************)
(* Proofs about Vectorizer, for any models, order of visit, chunks and     *)
(* faults and over any number of runs: point ids are unique and stable,    *)
(* what is marked is written, and no run that reports completion leaves a  *)
(* broken file.                                                            *)
(***************************************************************************)
EXTENDS Vectorizer, FiniteSetTheorems, SequenceTheorems, TLAPS

(* The rows of a sequence, and of two of them one after the other. *)
LEMMA RowsOfNone == RowsIn(<<>>) = {} /\ <<>> \in Seq(Row) /\ DistinctIds(<<>>)
  BY DEF RowsIn, DistinctIds

LEMMA RowsOf ==
  ASSUME NEW s \in Seq(Row)
  PROVE  /\ RowsIn(s) \subseteq Row
         /\ s # <<>> => RowsIn(s) # {}
  <1>1. \A i \in 1..Len(s) : s[i] \in Row
    BY ElementOfSeq
  <1>2. s # <<>> => Len(s) \in Nat \ {0}
    BY EmptySeq
  <1> QED
    BY <1>1, <1>2 DEF RowsIn

LEMMA RowsJoined ==
  ASSUME NEW s \in Seq(Row), NEW t \in Seq(Row)
  PROVE  /\ s \o t \in Seq(Row)
         /\ RowsIn(s \o t) = RowsIn(s) \union RowsIn(t)
  <1> DEFINE u == s \o t
  <1>1. /\ u \in Seq(Row) /\ Len(u) = Len(s) + Len(t)
        /\ \A i \in 1..Len(s) + Len(t) : u[i] = IF i <= Len(s) THEN s[i] ELSE t[i - Len(s)]
    BY ConcatProperties
  <1>2. Len(s) \in Nat /\ Len(t) \in Nat
    BY LenProperties
  <1> HIDE DEF u
  <1>3. \A r \in RowsIn(u) : r \in RowsIn(s) \union RowsIn(t)
    <2> TAKE r \in RowsIn(u)
    <2>1. PICK i \in 1..Len(s) + Len(t) : r = u[i]
      BY <1>1 DEF RowsIn
    <2>2. CASE i <= Len(s)
      BY <1>1, <1>2, <2>1, <2>2, SMTT(30) DEF RowsIn
    <2>3. CASE ~(i <= Len(s))
      <3>1. i - Len(s) \in 1..Len(t) /\ r = t[i - Len(s)]
        BY <1>1, <1>2, <2>1, <2>3
      <3> QED
        BY <3>1 DEF RowsIn
    <2> QED
      BY <2>2, <2>3
  <1>4. \A i \in 1..Len(s) : s[i] \in RowsIn(u)
    <2> TAKE i \in 1..Len(s)
    <2>1. i \in 1..Len(u) /\ u[i] = s[i]
      BY <1>1, <1>2
    <2> QED
      BY <2>1 DEF RowsIn
  <1>5. \A i \in 1..Len(t) : t[i] \in RowsIn(u)
    <2> TAKE i \in 1..Len(t)
    <2>1. i + Len(s) \in 1..Len(u) /\ u[i + Len(s)] = t[i]
      <3>1. /\ i + Len(s) \in 1..Len(s) + Len(t) /\ ~(i + Len(s) <= Len(s))
            /\ (i + Len(s)) - Len(s) = i
        BY <1>2
      <3> QED
        BY <1>1, <3>1
    <2> QED
      BY <2>1 DEF RowsIn
  <1>6. RowsIn(u) = RowsIn(s) \union RowsIn(t)
    BY <1>3, <1>4, <1>5 DEF RowsIn
  <1> QED
    BY <1>1, <1>6 DEF u

LEMMA DistinctJoined ==
  ASSUME NEW s \in Seq(Row), NEW t \in Seq(Row), DistinctIds(s), DistinctIds(t),
         \A r \in RowsIn(s), q \in RowsIn(t) : r.id # q.id
  PROVE  DistinctIds(s \o t)
  <1> DEFINE u == s \o t
  <1>1. /\ Len(u) = Len(s) + Len(t)
        /\ \A i \in 1..Len(s) + Len(t) : u[i] = IF i <= Len(s) THEN s[i] ELSE t[i - Len(s)]
    BY ConcatProperties
  <1>2. Len(s) \in Nat /\ Len(t) \in Nat
    BY LenProperties
  <1> HIDE DEF u
  <1>3. \A i \in 1..Len(s), j \in 1..Len(t) : s[i].id # t[j].id
    BY DEF RowsIn
  <1>4. ASSUME NEW i \in 1..Len(u), NEW j \in 1..Len(u), u[i].id = u[j].id
        PROVE  i = j
    <2>1. CASE i <= Len(s) /\ j <= Len(s)
      <3>1. i \in 1..Len(s) /\ j \in 1..Len(s) /\ u[i] = s[i] /\ u[j] = s[j]
        BY <1>1, <1>2, <2>1
      <3> QED
        BY <1>4, <3>1 DEF DistinctIds
    <2>2. CASE i <= Len(s) /\ ~(j <= Len(s))
      <3>1. i \in 1..Len(s) /\ j - Len(s) \in 1..Len(t) /\ u[i] = s[i] /\ u[j] = t[j - Len(s)]
        BY <1>1, <1>2, <2>2
      <3> QED
        BY <1>3, <1>4, <3>1
    <2>3. CASE ~(i <= Len(s)) /\ j <= Len(s)
      <3>1. j \in 1..Len(s) /\ i - Len(s) \in 1..Len(t) /\ u[j] = s[j] /\ u[i] = t[i - Len(s)]
        BY <1>1, <1>2, <2>3
      <3> QED
        BY <1>3, <1>4, <3>1
    <2>4. CASE ~(i <= Len(s)) /\ ~(j <= Len(s))
      <3>1. /\ i - Len(s) \in 1..Len(t) /\ u[i] = t[i - Len(s)]
            /\ j - Len(s) \in 1..Len(t) /\ u[j] = t[j - Len(s)]
        BY <1>1, <1>2, <2>4
      <3>2. i - Len(s) = j - Len(s)
        BY <1>4, <3>1 DEF DistinctIds
      <3> QED
        BY <1>1, <1>2, <3>2
    <2> QED
      BY <2>1, <2>2, <2>3, <2>4
  <1>5. DistinctIds(u)
    BY <1>4 DEF DistinctIds
  <1> QED
    BY <1>5 DEF u

-----------------------------------------------------------------------------
(* A bounded non-empty set of naturals has its maximum. *)
LEMMA MaxIn ==
  ASSUME NEW S \in SUBSET Nat, S # {}, NEW n \in Nat, \A x \in S : x <= n
  PROVE  Max(S) \in S /\ \A x \in S : x <= Max(S)
  <1> DEFINE U == {b \in Nat : \A x \in S : x <= b}
  <1>1. \A x, y \in Nat : x < y => <<x, y>> \in OpToRel(<, Nat)
    <2>1. ASSUME NEW x \in Nat, NEW y \in Nat, x < y
          PROVE  <<x, y>> \in OpToRel(<, Nat)
      <3>1. <<x, y>> \in Nat \X Nat /\ <<x, y>>[1] = x /\ <<x, y>>[2] = y
        OBVIOUS
      <3>2. <<x, y>>[1] < <<x, y>>[2]
        BY <2>1, <3>1
      <3> QED
        BY <3>1, <3>2, Zenon DEF OpToRel
    <2> QED
      BY <2>1, Zenon
  <1>2. U \subseteq Nat /\ U # {}
    BY Zenon
  <1>3. \E b \in U : \A c \in U : <<c, b>> \notin OpToRel(<, Nat)
    BY <1>2, NatLessThanWellFounded, WFMin, Zenon
  <1>4. PICK b \in U : \A c \in U : ~(c < b)
    BY <1>1, <1>2, <1>3, Zenon
  <1>5. b \in S
    <2>1. SUFFICES ASSUME b \notin S PROVE FALSE
      OBVIOUS
    <2>2. b \in Nat /\ \A x \in S : x \in Nat /\ x < b
      BY <2>1
    <2>5. PICK x \in S : x \in Nat /\ x < b
      BY <2>2
    <2>3. b - 1 \in Nat /\ \A y \in S : y <= b - 1
      BY <2>2, <2>5
    <2>4. b - 1 \in U
      BY <2>3
    <2> QED
      BY <1>4, <2>2, <2>4
  <1>6. \A x \in S : x <= b
    OBVIOUS
  <1>7. \E x \in S : \A y \in S : x >= y
    BY <1>5, <1>6
  <1> QED
    BY <1>7 DEF Max

-----------------------------------------------------------------------------
(* The ids written so far are bounded, so the greatest of them exists. *)
Bounded == \E n \in Nat : \A r \in RowsIn(rows) \union RowsIn(buffer) : r.id <= n

InReadme(s) == \A r \in RowsIn(s) : r.chunk \in 1..Chunks[r.model] /\ r.vec \in 1..Chunks[r.model]

(* The records of a model number its kept chunks from the counter on. *)
LEMMA RecordsAre ==
  ASSUME TypeOK, NEW m \in Models, NEW lost, Kept(m, lost) # {},
         NEW vectors \in Embedded(m, lost)
  PROVE  LET n == Cardinality(Kept(m, lost))
             s == Records(m, vectors)
         IN /\ n \in Nat
            /\ s \in Seq(Row) /\ InReadme(s) /\ DistinctIds(s)
            /\ \E r \in RowsIn(s) : r.model = m
            /\ \A r \in RowsIn(s) : pointId <= r.id /\ r.id < pointId + n
  <1> DEFINE n == Cardinality(Kept(m, lost))
             s == Records(m, vectors)
  <1>1. Chunks[m] \in Nat \ {0} /\ pointId \in Nat
    BY VectorizerAssumption DEF TypeOK
  <1>2. Kept(m, lost) \subseteq 1..Chunks[m]
    BY DEF Kept
  <1>3. IsFiniteSet(1..Chunks[m]) /\ Cardinality(1..Chunks[m]) = Chunks[m]
    <2>1. 1 \in Int /\ Chunks[m] \in Int /\ ~(1 > Chunks[m]) /\ Chunks[m] - 1 + 1 = Chunks[m]
      BY <1>1
    <2> QED
      BY <2>1, FS_Interval
  <1>4. IsFiniteSet(Kept(m, lost)) /\ n <= Chunks[m]
    BY <1>2, <1>3, FS_Subset
  <1>5. n \in Nat /\ n # 0
    BY <1>4, FS_CardinalityType, FS_EmptySet
  <1>6. vectors \in [1..n -> Kept(m, lost)]
    BY DEF Embedded
  <1> HIDE DEF n
  <1>7. Len(vectors) = n
    BY <1>5, <1>6
  <1>8. /\ s = [i \in 1..n |-> [id |-> pointId + i - 1, model |-> m, chunk |-> i, vec |-> vectors[i]]]
    BY <1>7 DEF Records
  <1>9. ASSUME NEW i \in 1..n
        PROVE  /\ s[i] \in Row /\ s[i].id = pointId + i - 1 /\ s[i].model = m
               /\ s[i].chunk \in 1..Chunks[m] /\ s[i].vec \in 1..Chunks[m]
    <2>1. vectors[i] \in 1..Chunks[m]
      BY <1>2, <1>6
    <2>2. pointId + i - 1 \in Nat /\ i \in Nat /\ vectors[i] \in Nat /\ i \in 1..Chunks[m]
      BY <1>1, <1>4, <1>5, <2>1
    <2>3. s[i] = [id |-> pointId + i - 1, model |-> m, chunk |-> i, vec |-> vectors[i]]
      BY <1>8
    <2> HIDE DEF s
    <2> QED
      BY <2>1, <2>2, <2>3 DEF Row
  <1>10. s \in Seq(Row)
    <2>1. s \in [1..n -> Row]
      BY <1>8, <1>9
    <2> HIDE DEF s
    <2> QED
      BY <1>5, <2>1, SeqDef
  <1>11. Len(s) = n
    <2>1. DOMAIN s = 1..n
      BY <1>8
    <2> HIDE DEF s
    <2> QED
      BY <1>5, <1>10, <2>1
  <1> HIDE DEF s
  <1>12. InReadme(s)
    BY <1>9, <1>11 DEF InReadme, RowsIn
  <1>13. DistinctIds(s)
    <2>1. ASSUME NEW i \in 1..n, NEW j \in 1..n, s[i].id = s[j].id PROVE i = j
      <3>1. pointId + i - 1 = pointId + j - 1
        BY <1>9, <2>1
      <3> QED
        BY <1>1, <3>1
    <2> QED
      BY <1>11, <2>1 DEF DistinctIds
  <1>14. \E r \in RowsIn(s) : r.model = m
    <2>1. 1 \in 1..Len(s) /\ s[1].model = m
      BY <1>5, <1>9, <1>11
    <2> QED
      BY <2>1 DEF RowsIn
  <1>15. ASSUME NEW r \in RowsIn(s) PROVE pointId <= r.id /\ r.id < pointId + n
    <2>1. PICK i \in 1..n : r = s[i]
      BY <1>11 DEF RowsIn
    <2>2. r.id = pointId + i - 1
      BY <1>9, <2>1
    <2> QED
      BY <1>1, <1>5, <2>2
  <1> QED
    BY <1>5, <1>10, <1>12, <1>13, <1>14, <1>15 DEF n, s

LEMMA FlushedIs ==
  ASSUME TypeOK
  PROVE  /\ Flushed \in Seq(Row) /\ InReadme(Flushed)
         /\ RowsIn(Flushed) = (IF writing THEN RowsIn(rows) ELSE {}) \union RowsIn(buffer)
  <1> DEFINE base == IF writing THEN rows ELSE <<>>
  <1>1. rows \in Seq(Row) /\ buffer \in Seq(Row) /\ InReadme(rows) /\ InReadme(buffer)
    BY DEF TypeOK, InReadme
  <1>2. base \in Seq(Row) /\ RowsIn(base) = IF writing THEN RowsIn(rows) ELSE {}
    BY <1>1, RowsOfNone
  <1> HIDE DEF base
  <1>3. base \o buffer \in Seq(Row) /\ RowsIn(base \o buffer) = RowsIn(base) \union RowsIn(buffer)
    BY <1>1, <1>2, RowsJoined
  <1>4. Flushed = base \o buffer
    BY DEF Flushed, base
  <1>5. RowsIn(Flushed) = (IF writing THEN RowsIn(rows) ELSE {}) \union RowsIn(buffer)
    BY <1>2, <1>3, <1>4
  <1>6. InReadme(Flushed)
    BY <1>1, <1>5 DEF InReadme
  <1> QED
    BY <1>3, <1>4, <1>5, <1>6

-----------------------------------------------------------------------------
(* The strengthened invariant, and how the steps keep it. *)
PInv == IInv /\ IdsInv /\ Bounded

LEMMA TodoOf ==
  ASSUME TypeOK, todo # <<>>
  PROVE  Head(todo) \in Models /\ Tail(todo) \in Seq(Models)
  BY HeadTailProperties DEF TypeOK

LEMMA StopKeeps ==
  ASSUME PInv, pc # "off",
         NEW how \in {"finished", "failed", "interrupted", "killed"},
         NEW state \in {"absent", "open", "closed"},
         NEW final \in Seq(Row), InReadme(final), \E n \in Nat : \A r \in RowsIn(final) : r.id <= n,
         Stop(how, state, final),
         unclosed' \in BOOLEAN, failed' \in BOOLEAN, failed => failed',
         state = "open" => how = "killed" \/ (how # "finished" /\ unclosed'),
         state = "absent" => file = "absent",
         marked # {} => RowsIn(rows) \subseteq RowsIn(final),
         ~failed' /\ state = "closed" => final = rows /\ (writing \/ file = "closed")
  PROVE  PInv'
  <1> DEFINE R == RowsIn(final)
  <1>1. /\ pc' = "off" /\ lastRun' = how /\ file' = state /\ rows' = final
        /\ readable' = (IF state = "closed" /\ ~failed THEN readable \union R ELSE readable)
        /\ todo' = <<>> /\ known' = {} /\ pointId' = 0 /\ added' = 0
        /\ buffer' = <<>> /\ writing' = FALSE /\ schema' = "unset" /\ marked' = marked
        /\ processed' = processed
    BY DEF Stop
  <1>2. R \subseteq Row /\ RowsIn(rows)' = R /\ RowsIn(buffer)' = {}
    BY <1>1, RowsOf, RowsOfNone
  <1>3. TypeOK'
    <2>1. \A r \in RowsIn(rows)' \union RowsIn(buffer)' :
            r.chunk \in 1..Chunks[r.model] /\ r.vec \in 1..Chunks[r.model]
      BY <1>2 DEF InReadme
    <2>2. rows' \in Seq(Row) /\ buffer' \in Seq(Row) /\ todo' \in Seq(Models)
      BY <1>1, RowsOfNone, EmptySeq
    <2>3. readable' \subseteq Row /\ processed' \subseteq Models /\ marked' \subseteq Models
      BY <1>1, <1>2 DEF PInv, IInv, TypeOK
    <2>4. pointId' \in Nat /\ added' \in Nat
      BY <1>1
    <2> QED
      BY <1>1, <2>1, <2>2, <2>3, <2>4 DEF TypeOK
  <1>4. FileInv'
    <2>1. file = "absent" => readable = {}
      BY DEF PInv, IInv, FileInv
    <2> QED
      BY <1>1, <2>1 DEF FileInv, EndedRunsAreReadable
  <1>5. MarkInv'
    <2>1. MarkedIsWritten
      BY DEF PInv, IInv, MarkInv
    <2>2. \A m \in marked : \E r \in R : r.model = m
      BY <2>1 DEF MarkedIsWritten
    <2> QED
      BY <1>1, <1>2, <2>2 DEF MarkInv, MarkedIsWritten
  <1>6. IdsInv'
    <2> SUFFICES ASSUME ~failed' PROVE IdsInv'
      BY DEF IdsInv
    <2>1. IdsInv /\ TypeOK /\ ~failed
      BY DEF PInv, IInv
    <2>2. RowsIn(buffer)' = {} /\ DistinctIds(buffer)'
      BY <1>1, <1>2, RowsOfNone
    <2>3. CASE state # "closed"
      BY <1>1, <2>1, <2>2, <2>3 DEF IdsInv, IdsStable
    <2>4. CASE state = "closed" /\ writing
      <3>1. /\ final = rows /\ R # {} /\ DistinctIds(rows)
            /\ \A r \in readable, s \in R : r.id < s.id
        BY <2>1, <2>4, RowsOf DEF IdsInv
      <3>2. \A r \in readable \union R : r.id \in Nat
        BY <1>2, <2>1 DEF TypeOK, Row
      <3>3. \A r \in readable \union R : \E s \in R : r.id <= s.id
        BY <3>1, <3>2
      <3>4. \A r, s \in R : r.id = s.id => r = s
        BY <3>1 DEF DistinctIds, RowsIn
      <3>5. \A r, s \in readable \union R : r.id = s.id => r.model = s.model /\ r.chunk = s.chunk
        <4> TAKE r \in readable \union R, s \in readable \union R
        <4>1. CASE r \in readable /\ s \in readable
          BY <2>1, <4>1 DEF IdsInv, IdsStable
        <4>2. CASE r \in R /\ s \in R
          BY <3>4, <4>2
        <4>3. CASE (r \in readable /\ s \in R) \/ (r \in R /\ s \in readable)
          BY <3>1, <3>2, <4>3
        <4> QED
          BY <4>1, <4>2, <4>3
      <3> QED
        BY <1>1, <1>2, <2>2, <2>4, <3>3, <3>5 DEF IdsInv, IdsStable
    <2>5. CASE state = "closed" /\ ~writing
      <3>1. final = rows /\ file = "closed"
        BY <2>5
      <3>2. R \subseteq readable /\ \A r \in readable : \E s \in R : r.id <= s.id
        BY <2>1, <3>1 DEF IdsInv
      <3>3. readable' = readable
        BY <1>1, <3>2
      <3> QED
        BY <1>1, <1>2, <2>1, <2>2, <3>2, <3>3 DEF IdsInv, IdsStable
    <2> QED
      BY <2>3, <2>4, <2>5
  <1>7. Bounded'
    BY <1>2 DEF Bounded
  <1> QED
    BY <1>3, <1>4, <1>5, <1>6, <1>7 DEF PInv, IInv

(* A close that fails leaves a file with or without its footer. *)
LEMMA CloseFailsKeeps ==
  ASSUME PInv, pc # "off", NEW how \in {"failed", "interrupted"},
         NEW final \in Seq(Row), InReadme(final), \E n \in Nat : \A r \in RowsIn(final) : r.id <= n,
         CloseFails(how, final),
         failed' \in BOOLEAN, failed => failed',
         marked # {} => RowsIn(rows) \subseteq RowsIn(final),
         ~failed' => final = rows /\ writing
  PROVE  PInv'
  <1>1. unclosed' = TRUE
    BY DEF CloseFails
  <1>2. PICK state \in {"open", "closed"} : Stop(how, state, final)
    BY DEF CloseFails
  <1>3. /\ how \in {"finished", "failed", "interrupted", "killed"} /\ how # "finished"
        /\ state \in {"absent", "open", "closed"} /\ state # "absent"
    OBVIOUS
  <1> QED
    BY <1>1, <1>2, <1>3, StopKeeps

(* The interpreter's exit with the rows written so far... *)
LEMMA ExitKeeps ==
  ASSUME PInv, pc # "off", NEW how \in {"failed", "interrupted"}, Exit(how, writing, rows),
         failed' = failed
  PROVE  PInv'
  <1>1. /\ rows \in Seq(Row) /\ InReadme(rows) /\ failed \in BOOLEAN /\ writing \in BOOLEAN
        /\ \E n \in Nat : \A r \in RowsIn(rows) : r.id <= n
        /\ file \in {"absent", "open", "closed"} /\ (file = "open" <=> writing)
    BY DEF PInv, IInv, TypeOK, FileInv, InReadme, Bounded
  <1> DEFINE state == IF writing THEN "closed" ELSE file
  <1>2. CASE Stop(how, state, rows) /\ unclosed' = FALSE
    <2>1. /\ state \in {"absent", "open", "closed"} /\ state # "open"
          /\ state = "absent" => file = "absent"
          /\ state = "closed" => writing \/ file = "closed"
          /\ how \in {"finished", "failed", "interrupted", "killed"}
      BY <1>1
    <2>2. Stop(how, state, rows) /\ unclosed' = FALSE
      BY <1>2
    <2> HIDE DEF state
    <2> QED
      BY <1>1, <2>1, <2>2, StopKeeps
  <1>3. CASE writing /\ CloseFails(how, rows)
    BY <1>1, <1>3, CloseFailsKeeps
  <1> QED
    BY <1>2, <1>3 DEF Exit

(* ... or with a file opened anew and nothing written to it. *)
LEMMA ExitEmptyKeeps ==
  ASSUME PInv, pc # "off", NEW how \in {"failed", "interrupted"}, Exit(how, TRUE, <<>>),
         ~writing, failed' = TRUE
  PROVE  PInv'
  <1>1. /\ marked = {}
        /\ <<>> \in Seq(Row) /\ InReadme(<<>>) /\ 0 \in Nat
        /\ \A r \in RowsIn(<<>>) : r.id <= 0
    BY RowsOfNone DEF PInv, IInv, MarkInv, InReadme
  <1>2. how \in {"finished", "failed", "interrupted", "killed"}
    OBVIOUS
  <1>3. CASE Stop(how, "closed", <<>>) /\ unclosed' = FALSE
    BY <1>1, <1>2, <1>3, StopKeeps
  <1>4. CASE CloseFails(how, <<>>)
    BY <1>1, <1>4, CloseFailsKeeps
  <1> QED
    BY <1>3, <1>4 DEF Exit

LEMMA EndKeeps ==
  ASSUME PInv,
         Finish \/ FinishFlushing \/ FinishFails \/ Interrupt \/ InterruptFlush \/ Kill
  PROVE  PInv'
  <1>1. /\ rows \in Seq(Row) /\ InReadme(rows) /\ TypeOK /\ failed \in BOOLEAN
        /\ \E n \in Nat : \A r \in RowsIn(rows) : r.id <= n
    BY DEF PInv, IInv, TypeOK, InReadme, Bounded
  <1>2. /\ Footer \in {"absent", "open", "closed"}
        /\ pc # "off" => /\ Footer # "open" /\ (Footer = "absent" => file = "absent")
                         /\ (Footer = "closed" => writing \/ file = "closed")
    BY DEF PInv, IInv, TypeOK, FileInv, Footer
  <1>3. pc # "off" /\ marked # {} => writing
    BY DEF PInv, IInv, MarkInv
  <1>4. CASE Finish
    <2>1. pc # "off" /\ failed' = failed
      BY <1>4 DEF Finish
    <2>2. CASE Stop("finished", Footer, rows) /\ unclosed' = FALSE
      BY <1>1, <1>2, <2>1, <2>2, StopKeeps
    <2>3. CASE writing /\ CloseFails("failed", rows)
      BY <1>1, <2>1, <2>3, CloseFailsKeeps
    <2> QED
      BY <1>4, <2>2, <2>3 DEF Finish
  <1>5. CASE FinishFlushing
    <2>1. pc = "visit" /\ buffer # <<>> /\ failed' = failed
      BY <1>5 DEF FinishFlushing
    <2>2. failed
      BY <2>1 DEF PInv, IInv, IdsInv
    <2>3. \E n \in Nat : \A r \in RowsIn(Flushed) : r.id <= n
      BY <1>1, FlushedIs DEF PInv, Bounded
    <2>4. Flushed \in Seq(Row) /\ InReadme(Flushed)
      BY <1>1, FlushedIs
    <2>5. marked # {} => RowsIn(rows) \subseteq RowsIn(Flushed)
      BY <1>1, <1>3, <2>1, FlushedIs
    <2>6. CASE Stop("finished", "closed", Flushed) /\ unclosed' = FALSE
      BY <1>1, <2>1, <2>2, <2>3, <2>4, <2>5, <2>6, StopKeeps
    <2>7. CASE CloseFails("failed", Flushed)
      BY <1>1, <2>1, <2>2, <2>3, <2>4, <2>5, <2>7, CloseFailsKeeps
    <2> QED
      BY <1>5, <2>6, <2>7 DEF FinishFlushing
  <1>6. CASE FinishFails
    <2>1. pc = "visit" /\ buffer # <<>> /\ failed' = failed
      BY <1>6 DEF FinishFails
    <2>2. failed
      BY <2>1 DEF PInv, IInv, IdsInv
    <2>3. CASE Exit("failed", writing, rows)
      BY <1>1, <2>1, <2>3, ExitKeeps
    <2>4. CASE ~writing /\ Exit("failed", TRUE, <<>>)
      BY <1>1, <2>1, <2>2, <2>4, ExitEmptyKeeps
    <2> QED
      BY <1>6, <2>3, <2>4 DEF FinishFails
  <1>7. CASE Interrupt
    BY <1>1, <1>7, ExitKeeps DEF Interrupt
  <1>8. CASE InterruptFlush
    BY <1>1, <1>8, ExitEmptyKeeps DEF InterruptFlush
  <1>9. CASE Kill
    <2>1. /\ pc # "off" /\ Stop("killed", file, rows) /\ file \in {"absent", "open", "closed"}
          /\ unclosed' = FALSE /\ failed' = failed
      BY <1>1, <1>9 DEF Kill, TypeOK
    <2> QED
      BY <1>1, <2>1, StopKeeps
  <1> QED
    BY <1>4, <1>5, <1>6, <1>7, <1>8, <1>9

(* The first id of a run is above every id that was ever readable. *)
LEMMA NextPointIdIs ==
  ASSUME PInv
  PROVE  /\ NextPointId \in Nat
         /\ file = "closed" => \A r \in RowsIn(rows) : r.id < NextPointId
  <1>1. CASE file = "closed" /\ rows # <<>>
    <2> DEFINE S == {r.id : r \in RowsIn(rows)}
    <2>1. RowsIn(rows) \subseteq Row /\ RowsIn(rows) # {}
      BY <1>1, RowsOf DEF PInv, IInv, TypeOK
    <2>2. S \in SUBSET Nat /\ S # {}
      BY <2>1 DEF Row
    <2>3. PICK n \in Nat : \A x \in S : x <= n
      BY DEF PInv, Bounded
    <2>4. NextPointId = Max(S) + 1
      BY <1>1 DEF NextPointId
    <2>5. \A r \in RowsIn(rows) : r.id \in S
      OBVIOUS
    <2> HIDE DEF S
    <2>6. Max(S) \in Nat /\ \A x \in S : x <= Max(S)
      BY <2>2, <2>3, MaxIn
    <2>7. \A x \in S : x \in Nat
      BY <2>2
    <2> QED
      BY <2>4, <2>5, <2>6, <2>7
  <1>2. CASE file # "closed" \/ rows = <<>>
    BY <1>2, RowsOfNone DEF NextPointId
  <1> QED
    BY <1>1, <1>2

LEMMA StartKeeps ==
  ASSUME PInv, StartRun \/ StartFails \/ RemoveProcessed \/ RemoveData
  PROVE  PInv'
  <1>0. TypeOK /\ FileInv /\ MarkInv /\ IdsInv /\ Bounded
    BY DEF PInv, IInv
  <1>1. CASE StartRun
    <2>1. /\ pc = "off" /\ file # "open" /\ pc' = "visit" /\ todo' = Order /\ known' = processed
          /\ pointId' = NextPointId /\ added' = 0 /\ buffer' = <<>> /\ writing' = FALSE
          /\ schema' = "unset" /\ marked' = {} /\ unclosed' = FALSE /\ lastRun' = "running"
          /\ UNCHANGED <<file, rows, processed, failed, readable>>
      BY <1>1 DEF StartRun, disk
    <2>2. RowsIn(rows)' = RowsIn(rows) /\ RowsIn(buffer)' = {} /\ DistinctIds(buffer)'
      BY <2>1, RowsOfNone
    <2>3. TypeOK'
      <3>1. rows' \in Seq(Row) /\ buffer' \in Seq(Row) /\ todo' \in Seq(Models)
        BY <1>0, <2>1, RowsOfNone, VectorizerAssumption DEF TypeOK
      <3>2. pointId' \in Nat /\ added' \in Nat
        BY <2>1, NextPointIdIs
      <3>3. \A r \in RowsIn(rows)' \union RowsIn(buffer)' :
              r.chunk \in 1..Chunks[r.model] /\ r.vec \in 1..Chunks[r.model]
        BY <1>0, <2>2 DEF TypeOK
      <3> QED
        BY <1>0, <2>1, <3>1, <3>2, <3>3 DEF TypeOK
    <2>4. FileInv'
      BY <1>0, <2>1 DEF FileInv, EndedRunsAreReadable
    <2>5. MarkInv'
      BY <2>1 DEF MarkInv, MarkedIsWritten
    <2>6. IdsInv'
      <3> SUFFICES ASSUME ~failed PROVE IdsInv'
        BY <2>1 DEF IdsInv
      <3>1. \A r \in readable : r.id < NextPointId
        <4>1. CASE file = "closed"
          <5> TAKE r \in readable
          <5>1. PICK s \in RowsIn(rows) : r.id <= s.id
            BY <1>0, <4>1 DEF IdsInv
          <5>2. s.id < NextPointId /\ NextPointId \in Nat
            BY <4>1, NextPointIdIs
          <5>3. r \in Row /\ s \in Row
            BY <1>0, RowsOf DEF TypeOK
          <5>4. r.id \in Nat /\ s.id \in Nat
            BY <5>3 DEF Row
          <5> QED
            BY <5>1, <5>2, <5>4
        <4>2. CASE file = "absent"
          BY <1>0, <4>2 DEF FileInv
        <4> QED
          BY <1>0, <2>1, <4>1, <4>2 DEF TypeOK
      <3> QED
        BY <1>0, <2>1, <2>2, <3>1 DEF IdsInv, IdsStable
    <2>7. Bounded'
      BY <1>0, <2>2 DEF Bounded
    <2> QED
      BY <2>3, <2>4, <2>5, <2>6, <2>7 DEF PInv, IInv
  <1>2. CASE StartFails
    <2>1. /\ lastRun' = "refused"
          /\ UNCHANGED <<disk, pc, memory, history>>
      BY <1>2 DEF StartFails
    <2> QED
      BY <1>0, <2>1 DEF PInv, IInv, TypeOK, FileInv, MarkInv, IdsInv, Bounded, EndedRunsAreReadable,
         MarkedIsWritten, IdsStable, disk, memory, history
  <1>3. CASE RemoveProcessed
    <2>1. /\ processed' = {}
          /\ UNCHANGED <<file, rows, pc, memory, lastRun, history>>
      BY <1>3 DEF RemoveProcessed
    <2> QED
      BY <1>0, <2>1 DEF PInv, IInv, TypeOK, FileInv, MarkInv, IdsInv, Bounded, EndedRunsAreReadable,
         MarkedIsWritten, IdsStable, memory, history
  <1>4. CASE RemoveData
    <2>1. /\ pc = "off" /\ file' = "absent" /\ rows' = <<>> /\ processed' = {}
          /\ lastRun' = "none" /\ failed' = FALSE /\ unclosed' = FALSE
          /\ marked' = {} /\ readable' = {}
          /\ UNCHANGED <<pc, todo, known, pointId, added, buffer, writing, schema>>
      BY <1>4 DEF RemoveData, memory
    <2>2. ~writing /\ buffer = <<>>
      BY <1>0, <2>1 DEF FileInv
    <2>3. RowsIn(rows)' = {} /\ RowsIn(buffer)' = {} /\ DistinctIds(buffer)' /\ rows' \in Seq(Row)
      BY <2>1, <2>2, RowsOfNone
    <2>4. TypeOK'
      BY <1>0, <2>1, <2>3 DEF TypeOK
    <2>5. FileInv' /\ MarkInv' /\ IdsInv' /\ Bounded'
      BY <2>1, <2>2, <2>3 DEF FileInv, MarkInv, IdsInv, Bounded, EndedRunsAreReadable,
         MarkedIsWritten, IdsStable
    <2> QED
      BY <2>4, <2>5 DEF PInv, IInv
  <1> QED
    BY <1>1, <1>2, <1>3, <1>4

LEMMA VisitKeeps ==
  ASSUME PInv, SkipModel \/ EmbedModel
  PROVE  PInv'
  <1>0. TypeOK /\ FileInv /\ MarkInv /\ IdsInv /\ Bounded
    BY DEF PInv, IInv
  <1>1. CASE SkipModel
    <2>1. /\ pc = "visit" /\ pc' = "visit" /\ todo # <<>> /\ todo' = Tail(todo)
          /\ UNCHANGED <<file, rows, processed, known, pointId, added, buffer, writing, schema,
                         lastRun, failed, unclosed, marked, readable>>
      BY <1>1 DEF SkipModel, NextModel, disk, history
    <2>2. todo' \in Seq(Models)
      BY <1>0, <2>1, TodoOf
    <2>3. TypeOK'
      BY <1>0, <2>1, <2>2 DEF TypeOK
    <2>4. FileInv' /\ MarkInv' /\ IdsInv' /\ Bounded'
      BY <1>0, <2>1 DEF FileInv, MarkInv, IdsInv, Bounded, EndedRunsAreReadable, MarkedIsWritten,
         IdsStable
    <2> QED
      BY <2>3, <2>4 DEF PInv, IInv
  <1>2. CASE EmbedModel
    <2> DEFINE m == Head(todo)
    <2>14. PICK lost \in SUBSET Batches(m) :
             /\ Kept(m, lost) # {}
             /\ \E vectors \in Embedded(m, lost) : buffer' = buffer \o Records(m, vectors)
             /\ added' = Cardinality(Kept(m, lost))
      BY <1>2, Zenon DEF EmbedModel
    <2>1. PICK vectors \in Embedded(m, lost) :
            /\ Kept(m, lost) # {}
            /\ buffer' = buffer \o Records(m, vectors)
            /\ added' = Cardinality(Kept(m, lost))
      BY <2>14, Zenon
    <2>2. /\ pc = "visit" /\ pc' = "flush" /\ todo # <<>>
          /\ UNCHANGED <<file, rows, processed, todo, known, pointId, writing, schema,
                         lastRun, failed, unclosed, marked, readable>>
      BY <1>2 DEF EmbedModel, disk, history
    <2>3. m \in Models
      BY <1>0, <2>2, TodoOf
    <2> DEFINE s == Records(m, vectors)
    <2>4. /\ added' \in Nat
          /\ s \in Seq(Row) /\ InReadme(s) /\ DistinctIds(s)
          /\ \E r \in RowsIn(s) : r.model = m
          /\ \A r \in RowsIn(s) : pointId <= r.id /\ r.id < pointId + added'
      BY <1>0, <2>1, <2>3, RecordsAre
    <2>5. buffer' = buffer \o s
      BY <2>1
    <2> HIDE DEF s
    <2>6. buffer \in Seq(Row) /\ rows \in Seq(Row) /\ pointId \in Nat
      BY <1>0 DEF TypeOK
    <2>7. buffer' \in Seq(Row) /\ RowsIn(buffer') = RowsIn(buffer) \union RowsIn(s)
      BY <2>4, <2>5, <2>6, RowsJoined
    <2>8. RowsIn(buffer)' = RowsIn(buffer) \union RowsIn(s)
      BY <2>7 DEF RowsIn
    <2>9. TypeOK'
      <3>1. \A r \in RowsIn(rows)' \union RowsIn(buffer)' :
              r.chunk \in 1..Chunks[r.model] /\ r.vec \in 1..Chunks[r.model]
        BY <1>0, <2>2, <2>4, <2>8 DEF TypeOK, InReadme
      <3> QED
        BY <1>0, <2>2, <2>4, <2>7, <3>1 DEF TypeOK
    <2>10. FileInv'
      BY <1>0, <2>2 DEF FileInv, EndedRunsAreReadable
    <2>11. MarkInv'
      BY <1>0, <2>2, <2>4, <2>8 DEF MarkInv, MarkedIsWritten
    <2>12. IdsInv'
      <3> SUFFICES ASSUME ~failed PROVE IdsInv'
        BY <2>2 DEF IdsInv
      <3>1. buffer = <<>>
        BY <1>0, <2>2 DEF IdsInv
      <3>2. RowsIn(buffer) = {} /\ DistinctIds(buffer)
        BY <3>1, RowsOfNone
      <3>3. DistinctIds(buffer \o s)
        BY <2>4, <2>6, <3>2, DistinctJoined
      <3>4. DistinctIds(buffer)'
        BY <2>5, <3>3 DEF DistinctIds
      <3>5. \A r \in RowsIn(buffer)' : pointId' <= r.id /\ r.id < pointId' + added'
        BY <2>2, <2>4, <2>8, <3>2
      <3> QED
        BY <1>0, <2>2, <3>4, <3>5 DEF IdsInv, IdsStable
    <2>13. Bounded'
      <3>1. PICK n \in Nat : \A r \in RowsIn(rows) \union RowsIn(buffer) : r.id <= n
        BY <1>0 DEF Bounded
      <3>2. n + pointId + added' \in Nat
        <4> DEFINE a == added'
        <4>1. a \in Nat
          BY <2>4
        <4> HIDE DEF a
        <4>2. n + pointId + a \in Nat
          BY <2>6, <4>1
        <4> QED
          BY <4>2 DEF a
      <3>3. \A r \in RowsIn(rows) \union RowsIn(buffer) \union RowsIn(s) : r.id \in Nat
        BY <2>4, <2>6, RowsOf DEF Row
      <3>4. \A r \in RowsIn(rows) \union RowsIn(buffer) \union RowsIn(s) : r.id <= n + pointId + added'
        BY <2>4, <2>6, <3>1, <3>3
      <3> QED
        BY <2>2, <2>8, <3>2, <3>4 DEF Bounded
    <2> QED
      BY <2>9, <2>10, <2>11, <2>12, <2>13 DEF PInv, IInv
  <1> QED
    BY <1>1, <1>2

LEMMA FlushKeeps ==
  ASSUME PInv, FlushModel \/ FlushModelFails
  PROVE  PInv'
  <1>0. TypeOK /\ FileInv /\ MarkInv /\ IdsInv /\ Bounded /\ buffer \in Seq(Row) /\ rows \in Seq(Row)
    BY DEF PInv, IInv, TypeOK
  <1>1. SchemaOf(buffer) \in {"unset", "null", "string"}
    BY <1>0 DEF SchemaOf, TypeOK
  <1>2. CASE FlushModel
    <2>1. /\ pc = "flush" /\ pc' = "mark" /\ schema' = SchemaOf(buffer) /\ writing' = TRUE
          /\ file' = "open" /\ rows' = Flushed /\ buffer' = <<>>
          /\ UNCHANGED <<processed, todo, known, pointId, added, lastRun, failed, unclosed, marked, readable>>
      BY <1>2 DEF FlushModel, Write, Flushed, history
    <2>2. /\ rows' \in Seq(Row) /\ InReadme(rows')
          /\ RowsIn(rows)' = (IF writing THEN RowsIn(rows) ELSE {}) \union RowsIn(buffer)
      BY <1>0, <2>1, FlushedIs DEF RowsIn
    <2>3. RowsIn(buffer)' = {} /\ DistinctIds(buffer)' /\ buffer' \in Seq(Row)
      BY <2>1, RowsOfNone
    <2>4. TypeOK'
      <3>1. \A r \in RowsIn(rows)' \union RowsIn(buffer)' :
              r.chunk \in 1..Chunks[r.model] /\ r.vec \in 1..Chunks[r.model]
        BY <2>2, <2>3 DEF InReadme, RowsIn
      <3> QED
        BY <1>0, <1>1, <2>1, <2>2, <2>3, <3>1 DEF TypeOK
    <2>5. FileInv'
      BY <1>0, <2>1 DEF FileInv, EndedRunsAreReadable
    <2>6. MarkInv'
      BY <1>0, <2>1, <2>2 DEF MarkInv, MarkedIsWritten
    <2>7. IdsInv'
      <3> SUFFICES ASSUME ~failed PROVE IdsInv'
        BY <2>1 DEF IdsInv
      <3>1. /\ \A r \in RowsIn(buffer) : pointId <= r.id /\ r.id < pointId + added
            /\ DistinctIds(buffer)
            /\ writing => /\ DistinctIds(rows)
                          /\ \A r \in RowsIn(rows) : r.id < pointId
                          /\ \A r \in readable, s \in RowsIn(rows) : r.id < s.id
            /\ \A r \in readable : r.id < pointId
            /\ IdsStable
        BY <1>0, <2>1 DEF IdsInv
      <3>2. RowsIn(buffer) # {} /\ RowsIn(rows)' # {}
        BY <1>0, <2>1, <2>2 DEF MarkInv
      <3>3. rows' # <<>>
        BY <3>2, RowsOfNone DEF RowsIn
      <3>4. /\ pointId \in Nat /\ added \in Nat
            /\ \A r \in RowsIn(rows) \union RowsIn(buffer) \union readable : r.id \in Nat
        BY <1>0, RowsOf DEF TypeOK, Row
      <3>5. DistinctIds(rows')
        <4> DEFINE base == IF writing THEN rows ELSE <<>>
        <4>1. /\ base \in Seq(Row) /\ DistinctIds(base)
              /\ RowsIn(base) = IF writing THEN RowsIn(rows) ELSE {}
          BY <1>0, <3>1, RowsOfNone
        <4>2. rows' = base \o buffer
          BY <2>1 DEF Flushed
        <4> HIDE DEF base
        <4>3. \A r \in RowsIn(base), q \in RowsIn(buffer) : r.id # q.id
          <5> TAKE r \in RowsIn(base), q \in RowsIn(buffer)
          <5>1. writing /\ r \in RowsIn(rows)
            BY <4>1
          <5>2. r.id < pointId /\ pointId <= q.id /\ r.id \in Nat /\ q.id \in Nat
            BY <3>1, <3>4, <5>1
          <5> QED
            BY <3>4, <5>2
        <4> QED
          BY <1>0, <3>1, <4>1, <4>2, <4>3, DistinctJoined
      <3>6. DistinctIds(rows)'
        BY <3>5 DEF DistinctIds
      <3>7. \A r \in RowsIn(rows)' : r.id < pointId + added
        BY <2>2, <3>1, <3>4
      <3>8. ASSUME NEW r \in readable, NEW s \in RowsIn(rows)' PROVE r.id < s.id
        <4>1. CASE s \in RowsIn(buffer)
          <5>1. r.id < pointId /\ pointId <= s.id /\ r.id \in Nat /\ s.id \in Nat
            BY <3>1, <3>4, <4>1
          <5> QED
            BY <3>4, <5>1
        <4>2. CASE s \notin RowsIn(buffer)
          BY <2>2, <3>1, <4>2
        <4> QED
          BY <4>1, <4>2
      <3>9. IdsStable'
        BY <2>1, <3>1 DEF IdsStable
      <3> QED
        BY <2>1, <2>3, <3>1, <3>3, <3>6, <3>7, <3>8, <3>9 DEF IdsInv
    <2>8. Bounded'
      BY <1>0, <2>2, <2>3 DEF Bounded
    <2> QED
      BY <2>4, <2>5, <2>6, <2>7, <2>8 DEF PInv, IInv
  <1>3. CASE FlushModelFails
    <2>1. /\ pc = "flush" /\ pc' = "visit" /\ schema' = SchemaOf(buffer) /\ failed' = TRUE
          /\ todo' = Tail(todo)
          /\ \/ UNCHANGED <<file, rows, writing>>
             \/ ~writing /\ file' = "open" /\ rows' = <<>> /\ writing' = TRUE
          /\ UNCHANGED <<processed, known, pointId, added, buffer, lastRun, unclosed, marked, readable>>
      BY <1>3 DEF FlushModelFails, WriteFails, NextModel
    <2>2. todo # <<>> /\ todo' \in Seq(Models)
      <3>1. todo # <<>>
        BY <1>0, <2>1 DEF MarkInv
      <3> QED
        BY <1>0, <2>1, <3>1, TodoOf
    <2>3. /\ rows' \in Seq(Row) /\ RowsIn(rows)' \subseteq RowsIn(rows)
          /\ RowsIn(buffer)' = RowsIn(buffer)
      <3>1. CASE UNCHANGED <<file, rows, writing>>
        BY <1>0, <2>1, <3>1
      <3>2. CASE rows' = <<>>
        <4>1. RowsIn(rows)' = {}
          BY <3>2, RowsOfNone
        <4> QED
          BY <2>1, <3>2, <4>1, RowsOfNone
      <3> QED
        BY <2>1, <3>1, <3>2
    <2>4. TypeOK'
      <3>1. \A r \in RowsIn(rows)' \union RowsIn(buffer)' :
              r.chunk \in 1..Chunks[r.model] /\ r.vec \in 1..Chunks[r.model]
        BY <1>0, <2>3 DEF TypeOK
      <3>2. file' \in {"absent", "open", "closed"} /\ writing' \in BOOLEAN
        BY <1>0, <2>1 DEF TypeOK
      <3> QED
        BY <1>0, <1>1, <2>1, <2>2, <2>3, <3>1, <3>2 DEF TypeOK
    <2>5. FileInv'
      BY <1>0, <2>1 DEF FileInv, EndedRunsAreReadable
    <2>6. MarkInv'
      <3>1. marked = {} \/ UNCHANGED <<rows, writing>>
        BY <1>0, <2>1 DEF MarkInv
      <3> QED
        BY <1>0, <2>1, <3>1 DEF MarkInv, MarkedIsWritten
    <2>7. IdsInv' /\ Bounded'
      BY <1>0, <2>1, <2>3 DEF IdsInv, Bounded
    <2> QED
      BY <2>4, <2>5, <2>6, <2>7 DEF PInv, IInv
  <1> QED
    BY <1>2, <1>3

LEMMA MarkKeeps ==
  ASSUME PInv, MarkModel \/ MarkModelFails
  PROVE  PInv'
  <1>0. TypeOK /\ FileInv /\ MarkInv /\ IdsInv /\ Bounded
    BY DEF PInv, IInv
  <1>1. pc = "mark" /\ pc' = "visit" /\ todo' = Tail(todo)
        /\ UNCHANGED <<file, rows, added, buffer, writing, schema, lastRun, unclosed, readable>>
    BY DEF MarkModel, MarkModelFails, NextModel
  <1>2. todo # <<>>
    BY <1>0, <1>1 DEF MarkInv
  <1>3. Head(todo) \in Models /\ todo' \in Seq(Models)
    BY <1>0, <1>1, <1>2, TodoOf
  <1>4. FileInv' /\ Bounded'
    BY <1>0, <1>1 DEF FileInv, EndedRunsAreReadable, Bounded
  <1>5. /\ processed' \subseteq Models /\ known' \subseteq Models /\ marked' \subseteq Models
        /\ pointId' \in Nat /\ failed' \in BOOLEAN
        /\ marked' \subseteq marked \union {Head(todo)}
        /\ ~failed' => ~failed /\ pointId' = pointId + added
    <2>1. pointId \in Nat /\ added \in Nat /\ pointId + added \in Nat
      BY <1>0 DEF TypeOK
    <2>2. CASE MarkModel
      BY <1>0, <1>3, <2>1, <2>2 DEF MarkModel, TypeOK
    <2>3. CASE MarkModelFails
      BY <1>0, <1>3, <2>1, <2>3 DEF MarkModelFails, TypeOK
    <2> QED
      BY <2>2, <2>3
  <1>6. TypeOK'
    BY <1>0, <1>1, <1>3, <1>5 DEF TypeOK
  <1>7. MarkInv'
    BY <1>0, <1>1, <1>5 DEF MarkInv, MarkedIsWritten
  <1>8. IdsInv'
    <2> SUFFICES ASSUME ~failed' PROVE IdsInv'
      BY DEF IdsInv
    <2>1. ~failed /\ pointId' = pointId + added /\ pointId \in Nat /\ added \in Nat
      BY <1>0, <1>5 DEF TypeOK
    <2>2. buffer = <<>> /\ RowsIn(buffer)' = {}
      BY <1>0, <1>1, <2>1, RowsOfNone DEF IdsInv
    <2>3. \A r \in readable : r.id < pointId'
      <3>1. \A r \in readable : r.id \in Nat /\ r.id < pointId
        BY <1>0, <1>1, <2>1 DEF IdsInv, TypeOK, Row
      <3> QED
        BY <2>1, <3>1
    <2>4. writing /\ \A r \in RowsIn(rows) : r.id < pointId'
      BY <1>0, <1>1, <2>1 DEF IdsInv, MarkInv
    <2>5. file # "closed"
      BY <1>0, <1>1, <2>4 DEF FileInv
    <2> QED
      BY <1>0, <1>1, <2>1, <2>2, <2>3, <2>4, <2>5 DEF IdsInv, IdsStable
  <1> QED
    BY <1>4, <1>6, <1>7, <1>8 DEF PInv, IInv

-----------------------------------------------------------------------------
LEMMA InitPInv == Init => PInv
  <1> SUFFICES ASSUME Init PROVE PInv
    OBVIOUS
  <1>1. RowsIn(rows) = {} /\ RowsIn(buffer) = {} /\ DistinctIds(buffer)
        /\ rows \in Seq(Row) /\ buffer \in Seq(Row) /\ todo \in Seq(Models)
    BY RowsOfNone, EmptySeq DEF Init
  <1>2. TypeOK
    BY <1>1 DEF Init, TypeOK
  <1>3. FileInv /\ MarkInv /\ IdsInv /\ Bounded
    BY <1>1 DEF Init, FileInv, MarkInv, IdsInv, Bounded, EndedRunsAreReadable, MarkedIsWritten,
       IdsStable
  <1> QED
    BY <1>2, <1>3 DEF PInv, IInv

LEMMA NextPInv == PInv /\ [Next]_vars => PInv'
  <1> SUFFICES ASSUME PInv, [Next]_vars PROVE PInv'
    OBVIOUS
  <1>1. CASE UNCHANGED vars
    BY <1>1 DEF PInv, IInv, TypeOK, FileInv, MarkInv, IdsInv, Bounded, EndedRunsAreReadable,
       MarkedIsWritten, IdsStable, vars, disk, memory, history
  <1>2. CASE Next
    BY <1>2, StartKeeps, VisitKeeps, FlushKeeps, MarkKeeps, EndKeeps DEF Next, Proceed
  <1> QED
    BY <1>1, <1>2

LEMMA InvariantIds == PInv => IdsUnique /\ IdsStable
  <1> SUFFICES ASSUME PInv PROVE IdsUnique /\ IdsStable
    OBVIOUS
  <1>1. IdsInv /\ rows \in Seq(Row) /\ buffer \in Seq(Row) /\ pointId \in Nat
    BY DEF PInv, IInv, TypeOK
  <1>2. IdsStable
    BY <1>1 DEF IdsInv, IdsStable
  <1>3. ASSUME writing, ~failed PROVE DistinctIds(rows \o buffer)
    <2>1. DistinctIds(rows) /\ DistinctIds(buffer)
      BY <1>1, <1>3 DEF IdsInv
    <2>2. ASSUME NEW r \in RowsIn(rows), NEW q \in RowsIn(buffer) PROVE r.id # q.id
      <3>1. pc # "mark"
        BY <1>1, <1>3, <2>2, RowsOfNone DEF IdsInv
      <3>2. r.id < pointId /\ pointId <= q.id
        BY <1>1, <1>3, <3>1 DEF IdsInv
      <3>3. r.id \in Nat /\ q.id \in Nat
        BY <1>1, RowsOf DEF Row
      <3> QED
        BY <1>1, <3>2, <3>3
    <2> QED
      BY <1>1, <2>1, <2>2, DistinctJoined
  <1> QED
    BY <1>2, <1>3 DEF IdsUnique

(* Every variable is of its type, rows stay within their README, the file   *)
(* lacks its footer only while a run writes it, and models are marked after *)
(* they are written.                                                        *)
THEOREM Inductive == Spec => []IInv
  <1>1. PInv => IInv
    BY DEF PInv
  <1> QED
    BY <1>1, InitPInv, NextPInv, PTL DEF Spec

(* No two rows of the file and the buffer share a point id, as long as no   *)
(* flush or mark has failed.                                                *)
THEOREM IdsAreUnique == Spec => []IdsUnique
  BY InitPInv, NextPInv, InvariantIds, PTL DEF Spec

(* Over all runs of a data directory an id that was once readable never     *)
(* comes back for another chunk, as long as no flush or mark has failed.    *)
THEOREM IdsAreStable == Spec => []IdsStable
  BY InitPInv, NextPInv, InvariantIds, PTL DEF Spec

(* Flush comes before mark: whatever fails, a model marked by a run has its *)
(* rows in the file.                                                        *)
THEOREM MarkedAreWritten == Spec => []MarkedIsWritten
  <1>1. IInv => MarkedIsWritten
    BY DEF IInv, MarkInv
  <1> QED
    BY <1>1, Inductive, PTL

(* A file without footer comes only from a kill or a close that failed, and *)
(* no run that leaves one has reported completion.                          *)
THEOREM EndedAreReadable == Spec => []EndedRunsAreReadable
  <1>1. IInv => EndedRunsAreReadable
    BY DEF IInv, FileInv
  <1> QED
    BY <1>1, Inductive, PTL

=============================================================================
