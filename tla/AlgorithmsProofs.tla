-------------------------- MODULE AlgorithmsProofs --------------------------
(***************************************************************************)
(* What a call of the algorithms returns, for every input.                 *)
(***************************************************************************)
EXTENDS Algorithms, ReadmeIntakeProofs

-----------------------------------------------------------------------------
(* semantic_search: the ranking. *)

(* Chunks with a score, and the models that semantic_search takes from them. *)
Scored == [model : Ids, score : Int, text : BOOLEAN]
ModelsOf(points) == {points[i].model : i \in 1..Len(points)} \ Artifacts

(* The best score of a model that was found is a score. *)
LEMMA BestIs ==
  ASSUME NEW n \in Nat, NEW points \in [1..n -> Scored], NEW m, Of(points, m) # {}
  PROVE  BestScore(points, m) \in Int
<1> DEFINE S == Of(points, m)
           f == [i \in S |-> points[i].score]
           V == {f[i] : i \in S}
<1>1. Len(points) = n /\ S \in SUBSET (1..n)  BY DEF Of
<1>2. \A i \in S : points[i].score \in Int  BY <1>1 DEF Scored
<1>3. f \in [S -> Int]  BY <1>2
<1>4. V = {points[i].score : i \in S}  OBVIOUS
<1> HIDE DEF f
<1>5. Max(V) \in V  BY <1>1, <1>3, MaxOfImage
<1>6. V \subseteq Int  BY <1>3
<1> QED  BY <1>4, <1>5, <1>6 DEF BestScore

(* A model that was found is represented among the firsts. *)
LEMMA FirstsCover ==
  ASSUME NEW n \in Nat, NEW points \in [1..n -> Scored]
  PROVE  /\ Firsts(points) \in SUBSET (1..n)
         /\ {points[i].model : i \in Firsts(points)} = ModelsOf(points)
<1>1. Len(points) = n  OBVIOUS
<1>2. Firsts(points) \in SUBSET (1..n)  BY <1>1 DEF Firsts
<1>3. ASSUME NEW m \in ModelsOf(points) PROVE \E i \in Firsts(points) : points[i].model = m
  <2>1. Of(points, m) # {} /\ Of(points, m) \in SUBSET Nat /\ m \notin Artifacts
    BY <1>1, <1>3 DEF ModelsOf, Of
  <2>2. PICK i \in Of(points, m) : \A j \in Of(points, m) : i <= j  BY <2>1, LeastIs
  <2>3. points[i].model = m /\ i \in 1..Len(points)  BY <2>2 DEF Of
  <2> QED  BY <2>1, <2>2, <2>3 DEF Firsts
<1> QED  BY <1>1, <1>2, <1>3 DEF Firsts, ModelsOf

(* The ranking has every model that was found, best score first. *)
LEMMA RankedIs ==
  ASSUME NEW n \in Nat, NEW points \in [1..n -> Scored]
  PROVE  LET ranked == Ranked(points) IN
         /\ Len(ranked) \in Nat /\ ranked \in [1..Len(ranked) -> ModelsOf(points)]
         /\ \A m \in ModelsOf(points) : \E r \in 1..Len(ranked) : ranked[r] = m
         /\ \A r, t \in 1..Len(ranked) : r < t =>
              BestScore(points, ranked[r]) >= BestScore(points, ranked[t])
<1> DEFINE F == Firsts(points)
           c == Cardinality(F)
           best(k) == BestScore(points, points[k].model)
           R == {p \in F \X F : Ahead(points, p[1], p[2])}
           Sorting(s) == \A r, t \in 1..c : r < t => Ahead(points, s[r], s[t])
           order == CHOOSE s \in Bijection(1..c, F) : Sorting(s)
           ranked == [r \in 1..c |-> points[order[r]].model]
<1>1. F \in SUBSET (1..n) /\ {points[i].model : i \in F} = ModelsOf(points)  BY FirstsCover
<1>2. c \in Nat
  <2>1. IsFiniteSet(1..n)  BY FS_Interval
  <2>2. IsFiniteSet(F)  BY <1>1, <2>1, FS_Subset
  <2> QED  BY <2>2, FS_CardinalityType
<1>3. \A i \in F : best(i) \in Int
  <2> TAKE i \in F
  <2>1. i \in Of(points, points[i].model)  BY <1>1 DEF Of
  <2> QED  BY <2>1, BestIs
<1>4. \A i, j \in F : Ahead(points, i, j) <=> best(i) > best(j) \/ (best(i) = best(j) /\ i < j)
  BY DEF Ahead
<1>5. \A i, j \in F : <<i, j>> \in R <=> Ahead(points, i, j)  OBVIOUS
<1>6. Orders(R, F)
  <2>1. \A i \in F : i \in Int  BY <1>1
  <2> HIDE DEF R, F, best
  <2> QED  BY <1>3, <1>4, <1>5, <2>1 DEF Orders
<1>7. PICK s : Sorted(s, F, R)  BY <1>1, <1>6, SortedExists
<1>8. s \in Bijection(1..c, F) /\ Sorting(s)
  <2>1. s \in Bijection(1..c, F) /\ \A r, t \in 1..c : r < t => <<s[r], s[t]>> \in R
    BY <1>7 DEF Sorted
  <2>2. \A r, t \in 1..c : s[r] \in F /\ s[t] \in F
    BY <2>1 DEF Bijection, Injection
  <2> HIDE DEF F, c, R
  <2> QED  BY <1>5, <2>1, <2>2
<1>9. order \in Bijection(1..c, F) /\ Sorting(order)
  <2> HIDE DEF Sorting, F, c
  <2> QED  BY <1>8
<1>10. Ranked(points) = ranked  BY DEF Ranked
<1>11. /\ order \in [1..c -> F]
       /\ \A i \in F : \E r \in 1..c : order[r] = i
  BY <1>9 DEF Bijection, Injection, Surjection
<1>12. Sorting(order)  BY <1>9
<1> HIDE DEF order, F, c
<1>13. Len(ranked) = c /\ \A r \in 1..c : ranked[r] = points[order[r]].model
  BY <1>2
<1>14. ranked \in [1..c -> ModelsOf(points)]
  <2>1. \A r \in 1..c : points[order[r]].model \in ModelsOf(points)  BY <1>1, <1>11
  <2> QED  BY <2>1
<1>15. \A m \in ModelsOf(points) : \E r \in 1..c : ranked[r] = m
  <2> TAKE m \in ModelsOf(points)
  <2>1. PICK i \in F : points[i].model = m  BY <1>1
  <2>2. PICK r \in 1..c : order[r] = i  BY <1>11
  <2> QED  BY <1>13, <2>1, <2>2
<1>16. ASSUME NEW r \in 1..c, NEW t \in 1..c, r < t
       PROVE  BestScore(points, ranked[r]) >= BestScore(points, ranked[t])
  <2>1. order[r] \in F /\ order[t] \in F  BY <1>11
  <2>2. Ahead(points, order[r], order[t])  BY <1>12, <1>16
  <2>3. best(order[r]) >= best(order[t])
    <3> HIDE DEF best
    <3> QED  BY <1>3, <1>4, <2>1, <2>2
  <2> QED  BY <1>13, <2>3
<1> HIDE DEF ranked
<1> QED  BY <1>2, <1>10, <1>13, <1>14, <1>15, <1>16

-----------------------------------------------------------------------------
(* semantic_search: the loop over families. *)

(* What the loop does with one more model. *)
AddModel(metadata, reps, m) ==
  LET same == {i \in 1..Len(reps) : Family[reps[i]] = Family[m]}
  IN  IF same = {} THEN Append(reps, m)
      ELSE LET i == Max(same)
           IN  IF Preferred(metadata, m, reps[i]) THEN [reps EXCEPT ![i] = m] ELSE reps

(* After k models: each family seen has one representative, no model seen   *)
(* is preferred to it, and families stand in the order they were first seen. *)
RepsInv(metadata, ranked, reps, k) ==
  /\ \A a \in 1..Len(reps) : \E i \in 1..k : reps[a] = ranked[i]
  /\ \A a, b \in 1..Len(reps) : Family[reps[a]] = Family[reps[b]] => a = b
  /\ \A i \in 1..k : \E a \in 1..Len(reps) :
       Family[reps[a]] = Family[ranked[i]] /\ ~Preferred(metadata, ranked[i], reps[a])
  /\ \A a, b \in 1..Len(reps) : a < b =>
       \E i \in 1..k : /\ Family[ranked[i]] = Family[reps[a]]
                       /\ \A j \in 1..k : Family[ranked[j]] = Family[reps[b]] => i < j

(* Downloads are numbers. *)
Counted(metadata) == \A m \in DOMAIN metadata : metadata[m] \in Int

(* Preference: originals first, then downloads. *)
LEMMA PreferredIs ==
  ASSUME NEW metadata, Counted(metadata)
  PROVE  /\ \A a : ~Preferred(metadata, a, a)
         /\ \A a, b, c : Preferred(metadata, b, a) /\ ~Preferred(metadata, c, a) => ~Preferred(metadata, c, b)
<1>1. \A a : Downloads(metadata, a) \in Int  BY DEF Downloads, Counted
<1> QED  BY <1>1 DEF Preferred

(* One more model keeps the invariant of the loop. *)
LEMMA AddKeeps ==
  ASSUME NEW metadata, Counted(metadata), NEW ranked, NEW M, NEW k \in Nat,
         \A i \in 1..(k + 1) : ranked[i] \in M,
         NEW reps \in Seq(M), RepsInv(metadata, ranked, reps, k)
  PROVE  LET new == AddModel(metadata, reps, ranked[k + 1])
         IN  new \in Seq(M) /\ RepsInv(metadata, ranked, new, k + 1)
<1> DEFINE m == ranked[k + 1]
           l == Len(reps)
           same == {i \in 1..l : Family[reps[i]] = Family[m]}
           new == AddModel(metadata, reps, m)
<1>1. l \in Nat /\ m \in M  OBVIOUS
<1>2. \A i \in 1..(k + 1) : i \in 1..k \/ i = k + 1  OBVIOUS
<1>3. \A i \in 1..k : i \in 1..(k + 1) /\ i < k + 1  OBVIOUS
<1>4. k + 1 \in 1..(k + 1)  OBVIOUS
<1>5. \A a \in 1..l : \E i \in 1..k : reps[a] = ranked[i]  BY DEF RepsInv
<1>6. \A a, b \in 1..l : Family[reps[a]] = Family[reps[b]] => a = b  BY DEF RepsInv
<1>7. \A i \in 1..k : \E a \in 1..l :
        Family[reps[a]] = Family[ranked[i]] /\ ~Preferred(metadata, ranked[i], reps[a])
  BY DEF RepsInv
<1>8. \A a, b \in 1..l : a < b =>
        \E i \in 1..k : /\ Family[ranked[i]] = Family[reps[a]]
                        /\ \A j \in 1..k : Family[ranked[j]] = Family[reps[b]] => i < j
  BY DEF RepsInv
<1>9. CASE same = {}
  <2>1. new = Append(reps, m)  BY <1>9 DEF AddModel
  <2>2. /\ new \in Seq(M) /\ Len(new) = l + 1 /\ new[l + 1] = m
        /\ \A a \in 1..l : new[a] = reps[a]
    BY <1>1, <2>1, AppendIs
  <2>3. \A a \in 1..l : Family[reps[a]] # Family[m]  BY <1>9
  <2>4. \A a \in 1..(l + 1) : a \in 1..l \/ a = l + 1  BY <1>1
  <2>5. l + 1 \in 1..(l + 1) /\ \A a \in 1..l : a \in 1..(l + 1)  BY <1>1
  <2> HIDE DEF new, m, same, l
  <2>6. \A i \in 1..k : Family[ranked[i]] # Family[m]
    <3> TAKE i \in 1..k
    <3>1. PICK a \in 1..l : Family[reps[a]] = Family[ranked[i]]  BY <1>7
    <3> QED  BY <2>3, <3>1
  <2>7. \A a \in 1..(l + 1) : \E i \in 1..(k + 1) : new[a] = ranked[i]
    <3> TAKE a \in 1..(l + 1)
    <3>1. CASE a = l + 1  BY <1>4, <2>2, <3>1 DEF m
    <3>2. CASE a \in 1..l
      <4>1. PICK i \in 1..k : reps[a] = ranked[i]  BY <1>5, <3>2
      <4> QED  BY <1>3, <2>2, <3>2, <4>1
    <3> QED  BY <2>4, <3>1, <3>2
  <2>8. \A a, b \in 1..(l + 1) : Family[new[a]] = Family[new[b]] => a = b
    <3> SUFFICES ASSUME NEW a \in 1..(l + 1), NEW b \in 1..(l + 1), Family[new[a]] = Family[new[b]]
                 PROVE  a = b
      OBVIOUS
    <3>1. CASE a \in 1..l /\ b \in 1..l  BY <1>6, <2>2, <3>1
    <3>2. CASE a = l + 1 /\ b \in 1..l  BY <2>2, <2>3, <3>2
    <3>3. CASE a \in 1..l /\ b = l + 1  BY <2>2, <2>3, <3>3
    <3> QED  BY <2>4, <3>1, <3>2, <3>3
  <2>9. ASSUME NEW i \in 1..(k + 1)
        PROVE  \E a \in 1..(l + 1) : Family[new[a]] = Family[ranked[i]] /\ ~Preferred(metadata, ranked[i], new[a])
    <3>1. CASE i = k + 1  BY <2>2, <2>5, <3>1, PreferredIs DEF m
    <3>2. CASE i \in 1..k  BY <1>7, <2>2, <2>5, <3>2
    <3> QED  BY <1>2, <3>1, <3>2
  <2>10. ASSUME NEW a \in 1..(l + 1), NEW b \in 1..(l + 1), a < b
         PROVE  \E i \in 1..(k + 1) :
                  /\ Family[ranked[i]] = Family[new[a]]
                  /\ \A j \in 1..(k + 1) : Family[ranked[j]] = Family[new[b]] => i < j
    <3>1. a \in 1..l  BY <1>1, <2>10
    <3>2. CASE b = l + 1
      <4>1. PICK i \in 1..k : reps[a] = ranked[i]  BY <1>5, <3>1
      <4>2. \A j \in 1..(k + 1) : Family[ranked[j]] = Family[new[b]] => i < j
        BY <1>2, <1>3, <2>2, <2>6, <3>2
      <4> QED  BY <1>3, <2>2, <3>1, <4>1, <4>2
    <3>3. CASE b \in 1..l
      <4>1. PICK i \in 1..k : /\ Family[ranked[i]] = Family[reps[a]]
                              /\ \A j \in 1..k : Family[ranked[j]] = Family[reps[b]] => i < j
        BY <1>8, <2>10, <3>1, <3>3
      <4>2. \A j \in 1..(k + 1) : Family[ranked[j]] = Family[new[b]] => i < j
        BY <1>2, <1>3, <2>2, <3>3, <4>1
      <4> QED  BY <1>3, <2>2, <3>1, <4>1, <4>2
    <3> QED  BY <2>4, <3>2, <3>3
  <2>11. RepsInv(metadata, ranked, new, k + 1)  BY <2>2, <2>7, <2>8, <2>9, <2>10 DEF RepsInv
  <2> QED  BY <2>2, <2>11 DEF new, m
<1>10. CASE same # {}
  <2> DEFINE i0 == Max(same)
  <2>1. i0 \in 1..l /\ Family[reps[i0]] = Family[m]
    <3>1. same \in SUBSET (0..l)  BY <1>1
    <3>2. i0 \in same  BY <1>1, <1>10, <3>1, MaxOfNumbers
    <3> QED  BY <3>2
  <2>2. new = IF Preferred(metadata, m, reps[i0]) THEN [reps EXCEPT ![i0] = m] ELSE reps
    BY <1>10 DEF AddModel
  <2>3. /\ new \in Seq(M) /\ Len(new) = l
        /\ new[i0] = IF Preferred(metadata, m, reps[i0]) THEN m ELSE reps[i0]
        /\ \A a \in 1..l : a # i0 => new[a] = reps[a]
    BY <1>1, <2>1, <2>2
  <2> HIDE DEF new, m, same, i0, l
  <2>4. \A a \in 1..l : Family[new[a]] = Family[reps[a]]  BY <2>1, <2>3
  <2>5. \A a \in 1..l : \E i \in 1..(k + 1) : new[a] = ranked[i]
    <3> TAKE a \in 1..l
    <3>1. CASE new[a] = m  BY <1>4, <3>1 DEF m
    <3>2. CASE new[a] = reps[a]
      <4>1. PICK i \in 1..k : reps[a] = ranked[i]  BY <1>5
      <4> QED  BY <1>3, <3>2, <4>1
    <3> QED  BY <2>3, <3>1, <3>2
  <2>6. \A a, b \in 1..l : Family[new[a]] = Family[new[b]] => a = b  BY <1>6, <2>4
  <2>7. ASSUME NEW i \in 1..(k + 1)
        PROVE  \E a \in 1..l : Family[new[a]] = Family[ranked[i]] /\ ~Preferred(metadata, ranked[i], new[a])
    <3>1. CASE i = k + 1
      <4>1. Family[new[i0]] = Family[m] /\ ~Preferred(metadata, m, new[i0])
        BY <2>1, <2>3, <2>4, PreferredIs
      <4> QED  BY <2>1, <3>1, <4>1 DEF m
    <3>2. CASE i \in 1..k
      <4>1. PICK a \in 1..l : Family[reps[a]] = Family[ranked[i]] /\ ~Preferred(metadata, ranked[i], reps[a])
        BY <1>7, <3>2
      <4>2. ~Preferred(metadata, ranked[i], new[a])
        <5>1. CASE a # i0 \/ ~Preferred(metadata, m, reps[i0])  BY <2>3, <4>1, <5>1
        <5>2. CASE a = i0 /\ Preferred(metadata, m, reps[i0])
          <6>1. new[a] = m  BY <2>3, <5>2
          <6> QED  BY <4>1, <5>2, <6>1, PreferredIs
        <5> QED  BY <5>1, <5>2
      <4> QED  BY <2>4, <4>1, <4>2
    <3> QED  BY <1>2, <3>1, <3>2
  <2>8. ASSUME NEW a \in 1..l, NEW b \in 1..l, a < b
        PROVE  \E i \in 1..(k + 1) :
                 /\ Family[ranked[i]] = Family[new[a]]
                 /\ \A j \in 1..(k + 1) : Family[ranked[j]] = Family[new[b]] => i < j
    <3>1. PICK i \in 1..k : /\ Family[ranked[i]] = Family[reps[a]]
                            /\ \A j \in 1..k : Family[ranked[j]] = Family[reps[b]] => i < j
      BY <1>8, <2>8
    <3>2. \A j \in 1..(k + 1) : Family[ranked[j]] = Family[new[b]] => i < j
      BY <1>2, <1>3, <2>4, <3>1
    <3> QED  BY <1>3, <2>4, <3>1, <3>2
  <2>9. RepsInv(metadata, ranked, new, k + 1)  BY <2>3, <2>5, <2>6, <2>7, <2>8 DEF RepsInv
  <2> QED  BY <2>3, <2>9 DEF new, m
<1> QED  BY <1>9, <1>10

(* The loop over the whole ranking. *)
LEMMA CollapseIs ==
  ASSUME NEW metadata, Counted(metadata), NEW M, NEW n \in Nat, NEW ranked \in [1..n -> M]
  PROVE  LET reps == Collapse(metadata, ranked)
         IN  reps \in Seq(M) /\ RepsInv(metadata, ranked, reps, n)
<1> DEFINE add(reps, m) == AddModel(metadata, reps, m)
           Chosen == CHOOSE it : it = [s \in SUBSET (DOMAIN ranked) |->
                       IF s = {} THEN <<>> ELSE add(it[s \ {Max(s)}], ranked[Max(s)])]
           F == [v \in Seq(M) \X (1..n) |-> add(v[1], ranked[v[2]])]
<1>1. Collapse(metadata, ranked) = Chosen[DOMAIN ranked]
  BY DEF Collapse, AddModel, FoldLeft, MapThenFoldSet
<1>2. DOMAIN ranked = 1..n  OBVIOUS
<1>3. F \in [Seq(M) \X (1..n) -> Seq(M)]
  <2>1. ASSUME NEW reps \in Seq(M), NEW m \in M PROVE add(reps, m) \in Seq(M)
    <3>1. Append(reps, m) \in Seq(M)  BY AppendIs
    <3>2. ASSUME NEW i PROVE [reps EXCEPT ![i] = m] \in Seq(M)
      <4> DEFINE l == Len(reps)
                 new == [reps EXCEPT ![i] = m]
      <4>1. l \in Nat /\ reps \in [1..l -> M]  OBVIOUS
      <4>2. new \in [1..l -> M]  BY <4>1
      <4> HIDE DEF new, l
      <4>3. new \in Seq(M)  BY <4>1, <4>2
      <4> QED  BY <4>3 DEF new
    <3> QED  BY <3>1, <3>2 DEF AddModel
  <2>2. \A v \in Seq(M) \X (1..n) : v[1] \in Seq(M) /\ ranked[v[2]] \in M  OBVIOUS
  <2> HIDE DEF add
  <2> QED  BY <2>1, <2>2
<1>4. <<>> \in Seq(M)  OBVIOUS
<1>5. PICK it : FoldOf(it, n, Seq(M), <<>>, F)
  <2> HIDE DEF F
  <2> QED  BY <1>3, <1>4, FoldExists
<1> HIDE DEF add
<1>6. \A s \in SUBSET (1..n) :
        it[s] = IF s = {} THEN <<>> ELSE add(it[s \ {Max(s)}], ranked[Max(s)])
  <2> SUFFICES ASSUME NEW s \in SUBSET (1..n), s # {}
               PROVE  it[s] = add(it[s \ {Max(s)}], ranked[Max(s)])
    BY <1>5 DEF FoldOf
  <2>1. Max(s) \in 1..n
    <3>1. s \in SUBSET (0..n)  OBVIOUS
    <3> QED  BY <3>1, MaxOfNumbers
  <2>2. it[s \ {Max(s)}] \in Seq(M)  BY <1>5 DEF FoldOf
  <2>3. <<it[s \ {Max(s)}], Max(s)>> \in Seq(M) \X (1..n)  BY <2>1, <2>2
  <2>4. F[<<it[s \ {Max(s)}], Max(s)>>] = add(it[s \ {Max(s)}], ranked[Max(s)])  BY <2>3
  <2> QED  BY <1>5, <2>4 DEF FoldOf
<1>7. it = [s \in SUBSET (DOMAIN ranked) |->
              IF s = {} THEN <<>> ELSE add(it[s \ {Max(s)}], ranked[Max(s)])]
  BY <1>2, <1>5, <1>6 DEF FoldOf
<1>8. Chosen = [s \in SUBSET (DOMAIN ranked) |->
                  IF s = {} THEN <<>> ELSE add(Chosen[s \ {Max(s)}], ranked[Max(s)])]
  BY <1>7
<1> HIDE DEF Chosen
<1> DEFINE T == {k \in Nat : k <= n => Chosen[1..k] \in Seq(M) /\ RepsInv(metadata, ranked, Chosen[1..k], k)}
<1>9. 0 \in T
  <2>1. 1..0 = {} /\ {} \in SUBSET (DOMAIN ranked)  OBVIOUS
  <2>2. Chosen[1..0] = <<>>  BY <1>8, <2>1
  <2>3. RepsInv(metadata, ranked, <<>>, 0)  BY DEF RepsInv
  <2> QED  BY <1>4, <2>2, <2>3
<1>10. ASSUME NEW k \in Nat, k \in T PROVE k + 1 \in T
  <2> SUFFICES ASSUME k + 1 <= n
               PROVE  Chosen[1..(k + 1)] \in Seq(M) /\ RepsInv(metadata, ranked, Chosen[1..(k + 1)], k + 1)
    OBVIOUS
  <2>1. Max(1..(k + 1)) = k + 1 /\ (1..(k + 1)) \ {k + 1} = 1..k  BY MaxOfRange
  <2>2. 1..(k + 1) \in SUBSET (DOMAIN ranked) /\ 1..(k + 1) # {}
    <3>1. 1 \in 1..(k + 1) /\ 1..(k + 1) \subseteq 1..n  OBVIOUS
    <3> QED  BY <1>2, <3>1
  <2>3. Chosen[1..(k + 1)]
          = add(Chosen[(1..(k + 1)) \ {Max(1..(k + 1))}], ranked[Max(1..(k + 1))])
    BY <1>8, <2>2
  <2>4. Chosen[1..(k + 1)] = AddModel(metadata, Chosen[1..k], ranked[k + 1])
    BY <2>1, <2>3 DEF add
  <2>5. Chosen[1..k] \in Seq(M) /\ RepsInv(metadata, ranked, Chosen[1..k], k)  BY <1>10
  <2>6. \A i \in 1..(k + 1) : ranked[i] \in M  OBVIOUS
  <2> DEFINE next == AddModel(metadata, Chosen[1..k], ranked[k + 1])
  <2>7. next \in Seq(M) /\ RepsInv(metadata, ranked, next, k + 1)  BY <2>5, <2>6, AddKeeps
  <2> HIDE DEF next
  <2>8. Chosen[1..(k + 1)] = next  BY <2>4 DEF next
  <2> QED  BY <2>7, <2>8
<1> HIDE DEF T
<1>11. n \in T  BY <1>9, <1>10, SetInduction
<1>12. Collapse(metadata, ranked) = Chosen[1..n]  BY <1>1, <1>2
<1> QED  BY <1>11, <1>12 DEF T

-----------------------------------------------------------------------------
(* semantic_search: its answer. *)

(* A family's score is that of one of its members, the best. *)
FamilyOf(points, m) == {x \in ModelsOf(points) : Family[x] = Family[m]}
TopOf(points, m) == Max({BestScore(points, o) : o \in FamilyOf(points, m)})

(* TopOf is attained by a member of the family and is the greatest. *)
LEMMA TopIs ==
  ASSUME NEW n \in Nat, NEW points \in [1..n -> Scored], NEW m \in ModelsOf(points)
  PROVE  /\ \E o \in FamilyOf(points, m) : BestScore(points, o) = TopOf(points, m)
         /\ \A o \in FamilyOf(points, m) : BestScore(points, o) <= TopOf(points, m)
         /\ \A o \in FamilyOf(points, m) : BestScore(points, o) \in Int
<1> DEFINE S == {i \in 1..n : points[i].model \in FamilyOf(points, m)}
           f == [i \in S |-> BestScore(points, points[i].model)]
           V == {BestScore(points, o) : o \in FamilyOf(points, m)}
<1>1. Len(points) = n  OBVIOUS
<1>2. \A o \in FamilyOf(points, m) : \E i \in S : points[i].model = o
  BY <1>1 DEF FamilyOf, ModelsOf
<1>3. m \in FamilyOf(points, m)  BY DEF FamilyOf
<1>4. \A i \in S : BestScore(points, points[i].model) \in Int
  <2> TAKE i \in S
  <2>1. i \in Of(points, points[i].model)  BY <1>1 DEF Of
  <2> QED  BY <2>1, BestIs
<1>5. f \in [S -> Int] /\ S \in SUBSET (1..n) /\ S # {}  BY <1>2, <1>3, <1>4
<1>6. V = {f[i] : i \in S}
  <2>1. \A i \in S : f[i] = BestScore(points, points[i].model) /\ points[i].model \in FamilyOf(points, m)
    OBVIOUS
  <2> HIDE DEF f, S
  <2> QED  BY <1>2, <2>1
<1> HIDE DEF f
<1>7. Max(V) \in V /\ \A x \in V : x <= Max(V)  BY <1>5, <1>6, MaxOfImage
<1>8. \A o \in FamilyOf(points, m) : BestScore(points, o) \in Int
  <2> TAKE o \in FamilyOf(points, m)
  <2>1. PICK i \in S : points[i].model = o  BY <1>2
  <2> QED  BY <1>4, <2>1
<1> QED  BY <1>7, <1>8 DEF TopOf

(* The families stand in the order of their best members. *)
LEMMA RepsAre ==
  ASSUME NEW n \in Nat, NEW points \in [1..n -> Scored], NEW metadata, Counted(metadata)
  PROVE  LET reps == Collapse(metadata, Ranked(points)) IN
         /\ Len(reps) \in Nat /\ \A a \in 1..Len(reps) : reps[a] \in ModelsOf(points)
         /\ \A a, b \in 1..Len(reps) : Family[reps[a]] = Family[reps[b]] => a = b
         /\ \A o \in ModelsOf(points) : \E a \in 1..Len(reps) :
              Family[reps[a]] = Family[o] /\ ~Preferred(metadata, o, reps[a])
         /\ \A a, b \in 1..Len(reps) : a < b => TopOf(points, reps[a]) >= TopOf(points, reps[b])
<1> DEFINE ranked == Ranked(points)
           l == Len(ranked)
           reps == Collapse(metadata, ranked)
<1>1. /\ l \in Nat /\ ranked \in [1..l -> ModelsOf(points)]
      /\ \A m \in ModelsOf(points) : \E r \in 1..l : ranked[r] = m
      /\ \A r, t \in 1..l : r < t => BestScore(points, ranked[r]) >= BestScore(points, ranked[t])
  BY RankedIs
<1>2. reps \in Seq(ModelsOf(points)) /\ RepsInv(metadata, ranked, reps, l)
  <2> HIDE DEF ranked, l
  <2> QED  BY <1>1, CollapseIs
<1> HIDE DEF ranked, l, reps
<1>3. Len(reps) \in Nat /\ \A a \in 1..Len(reps) : reps[a] \in ModelsOf(points)  BY <1>2
<1>4. \A a, b \in 1..Len(reps) : Family[reps[a]] = Family[reps[b]] => a = b  BY <1>2 DEF RepsInv
<1>5. ASSUME NEW o \in ModelsOf(points)
      PROVE  \E a \in 1..Len(reps) : Family[reps[a]] = Family[o] /\ ~Preferred(metadata, o, reps[a])
  <2>1. PICK r \in 1..l : ranked[r] = o  BY <1>1
  <2> QED  BY <1>2, <2>1 DEF RepsInv
<1>6. ASSUME NEW a \in 1..Len(reps), NEW b \in 1..Len(reps), a < b
      PROVE  TopOf(points, reps[a]) >= TopOf(points, reps[b])
  <2>1. PICK i \in 1..l : /\ Family[ranked[i]] = Family[reps[a]]
                          /\ \A j \in 1..l : Family[ranked[j]] = Family[reps[b]] => i < j
    BY <1>2, <1>6 DEF RepsInv
  <2>2. PICK o \in FamilyOf(points, reps[b]) : BestScore(points, o) = TopOf(points, reps[b])
    BY <1>3, TopIs
  <2>3. PICK j \in 1..l : ranked[j] = o  BY <1>1, <2>2 DEF FamilyOf
  <2>4. i < j  BY <2>1, <2>2, <2>3 DEF FamilyOf
  <2>5. BestScore(points, ranked[i]) >= BestScore(points, ranked[j])  BY <1>1, <2>4
  <2>6. ranked[i] \in FamilyOf(points, reps[a])  BY <1>1, <2>1 DEF FamilyOf
  <2>7. /\ BestScore(points, ranked[i]) \in Int /\ BestScore(points, ranked[i]) <= TopOf(points, reps[a])
        /\ TopOf(points, reps[a]) \in Int
    BY <1>3, <2>6, TopIs
  <2>8. BestScore(points, o) \in Int  BY <1>3, <2>2, TopIs
  <2> QED  BY <2>2, <2>3, <2>5, <2>7, <2>8
<1> QED  BY <1>3, <1>4, <1>5, <1>6 DEF reps, ranked

(* An excerpt is from a chunk of its model. *)
LEMMA ExcerptIs ==
  ASSUME NEW n \in Nat, NEW points \in [1..n -> Scored], NEW m, Excerpt(points, m) # 0
  PROVE  Excerpt(points, m) \in Of(points, m)
<1> DEFINE S == {i \in Of(points, m) :
                   /\ points[i].text
                   /\ \A j \in Of(points, m) : j < i => points[j].score <= points[i].score}
<1>1. {0} \union S \in SUBSET (0..n)  BY DEF Of
<1> HIDE DEF S
<1>2. Max({0} \union S) \in {0} \union S
  <2>1. {0} \union S # {}  OBVIOUS
  <2> QED  BY <1>1, <2>1, MaxOfNumbers
<1>3. Excerpt(points, m) = Max({0} \union S)  BY DEF Excerpt, S
<1>4. Excerpt(points, m) \in S  BY <1>2, <1>3
<1> QED  BY <1>4 DEF S

(* The answer has the first representatives. *)
LEMMA AnswerIs ==
  ASSUME NEW n \in Nat, NEW points \in [1..n -> Scored], NEW metadata, Counted(metadata), NEW limit \in Nat
  PROVE  LET reps == Collapse(metadata, Ranked(points))
             r == SemanticSearch(points, metadata, limit)
         IN  /\ Len(r) = IF limit <= Len(reps) THEN limit ELSE Len(reps)
             /\ \A i \in 1..Len(r) : r[i].model = reps[i] /\ r[i].excerpt = Excerpt(points, reps[i])
<1> DEFINE reps == Collapse(metadata, Ranked(points))
           size == Min({limit, Len(reps)})
           r == [i \in 1..size |-> [model |-> reps[i], excerpt |-> Excerpt(points, reps[i])]]
<1>1. Len(reps) \in Nat  BY RepsAre
<1> HIDE DEF reps
<1>2. size = IF limit <= Len(reps) THEN limit ELSE Len(reps)  BY <1>1, MinOfTwo
<1> HIDE DEF size
<1>3. size \in Nat  BY <1>1, <1>2
<1>4. Len(r) = size /\ \A i \in 1..size : r[i].model = reps[i] /\ r[i].excerpt = Excerpt(points, reps[i])
  BY <1>3
<1>5. SemanticSearch(points, metadata, limit) = r  BY DEF SemanticSearch, reps, size
<1> HIDE DEF r
<1> QED  BY <1>2, <1>4, <1>5 DEF reps

(* A behavior is one call. *)
SearchInv ==
  call.op = "search" =>
    /\ \E n \in Nat : call.points \in [1..n -> Scored]
    /\ Counted(call.metadata) /\ call.limit \in Nat
    /\ result = SemanticSearch(call.points, call.metadata, call.limit)

(* Only a search changes what SearchInv speaks of. *)
LEMMA SearchStep == SearchInv /\ [Next]_vars => SearchInv'
<1> SUFFICES ASSUME SearchInv, [Next]_vars PROVE SearchInv'
  OBVIOUS
<1>1. CASE Search
  <2>1. PICK n \in 0..MaxPoints : \E points \in [1..n -> Point], metadata \in MetadataTables,
                                     limit \in 1..MaxResults :
          /\ call' = [op |-> "search", points |-> points, metadata |-> metadata, limit |-> limit]
          /\ result' = SemanticSearch(points, metadata, limit)
    BY <1>1 DEF Search
  <2>2. PICK points \in [1..n -> Point], metadata \in MetadataTables, limit \in 1..MaxResults :
          /\ call' = [op |-> "search", points |-> points, metadata |-> metadata, limit |-> limit]
          /\ result' = SemanticSearch(points, metadata, limit)
    BY <2>1
  <2>3. n \in Nat /\ limit \in Nat /\ Counted(metadata)  BY InputsAssumption DEF Counted
  <2>4. points \in [1..n -> Scored]
    <3>1. Point \subseteq Scored  BY InputsAssumption DEF Point, Scored
    <3> QED  BY <3>1
  <2>5. /\ call'.points = points /\ call'.metadata = metadata /\ call'.limit = limit
        /\ result' = SemanticSearch(points, metadata, limit)
    BY <2>2
  <2> QED  BY <2>3, <2>4, <2>5 DEF SearchInv
<1>2. CASE ~Search
  <2>1. CASE UNCHANGED vars  BY <2>1 DEF vars, SearchInv
  <2>2. call'.op # "search" \/ UNCHANGED vars
    BY <1>2 DEF Next, Filter, Parse, Chunk, Fetch, Score, Compare, Adjust, Report, Pool, QueryStore
  <2>3. CASE call'.op # "search"  BY <2>3 DEF SearchInv
  <2> QED  BY <2>1, <2>2, <2>3
<1> QED  BY <1>1, <1>2

(* For any points, metadata and limit, semantic_search shows each family    *)
(* once, by its original with most downloads, where its best member ranks;  *)
(* the families it leaves out rank below those it shows.                    *)
THEOREM SearchesRepresent == Spec => []FamiliesAreRepresented
<1>1. Init => SearchInv  BY DEF Init, SearchInv
<1>2. SearchInv => FamiliesAreRepresented
  <2> SUFFICES ASSUME SearchInv, call.op = "search" PROVE FamiliesAreRepresented
    BY DEF FamiliesAreRepresented, OriginalsRepresent, FamiliesKeepTheirRank
  <2> DEFINE points == call.points
             metadata == call.metadata
             reps == Collapse(metadata, Ranked(points))
             shown == Len(result)
  <2>1. PICK n \in Nat : points \in [1..n -> Scored]  BY DEF SearchInv
  <2>2. Counted(metadata) /\ call.limit \in Nat /\ result = SemanticSearch(points, metadata, call.limit)
    BY DEF SearchInv
  <2>3. /\ Len(reps) \in Nat /\ \A a \in 1..Len(reps) : reps[a] \in ModelsOf(points)
        /\ \A a, b \in 1..Len(reps) : Family[reps[a]] = Family[reps[b]] => a = b
        /\ \A o \in ModelsOf(points) : \E a \in 1..Len(reps) :
             Family[reps[a]] = Family[o] /\ ~Preferred(metadata, o, reps[a])
        /\ \A a, b \in 1..Len(reps) : a < b => TopOf(points, reps[a]) >= TopOf(points, reps[b])
    BY <2>1, <2>2, RepsAre
  <2>4. /\ shown = IF call.limit <= Len(reps) THEN call.limit ELSE Len(reps)
        /\ \A i \in 1..shown : result[i].model = reps[i] /\ result[i].excerpt = Excerpt(points, reps[i])
    BY <2>1, <2>2, AnswerIs
  <2>5. Found = ModelsOf(points)  BY DEF Found, ModelsOf
  <2>6. \A m : FamilyBest(m) = TopOf(points, m)
    BY <2>5 DEF FamilyBest, TopOf, FamilyOf, Best
  <2>7. \A i \in 1..shown : call.points[Excerpt(points, reps[i])].model = reps[i] \/ Excerpt(points, reps[i]) = 0
    BY <2>1, ExcerptIs DEF Of
  <2>8. \A a : Downloads(metadata, a) \in Int  BY <2>2 DEF Downloads, Counted
  <2> HIDE DEF reps, shown, points, metadata
  <2>9. 1..shown \subseteq 1..Len(reps)  BY <2>2, <2>3, <2>4
  <2>10. OriginalsRepresent
    <3> SUFFICES ASSUME NEW i \in 1..shown
                 PROVE  /\ reps[i] \in Found
                        /\ \A j \in 1..shown : Family[result[j].model] = Family[reps[i]] => i = j
                        /\ \A o \in Found : Family[o] = Family[reps[i]] =>
                             /\ o \notin Quantized => reps[i] \notin Quantized
                             /\ (o \in Quantized <=> reps[i] \in Quantized) =>
                                  Downloads(metadata, o) <= Downloads(metadata, reps[i])
                        /\ Excerpt(points, reps[i]) # 0 => points[Excerpt(points, reps[i])].model = reps[i]
      BY <2>4 DEF OriginalsRepresent, shown, points, metadata
    <3>1. i \in 1..Len(reps)  BY <2>9
    <3>2. reps[i] \in Found  BY <2>3, <2>5, <3>1
    <3>3. \A j \in 1..shown : Family[result[j].model] = Family[reps[i]] => i = j
      BY <2>3, <2>4, <2>9, <3>1
    <3>4. ASSUME NEW o \in Found, Family[o] = Family[reps[i]]
          PROVE  /\ o \notin Quantized => reps[i] \notin Quantized
                 /\ (o \in Quantized <=> reps[i] \in Quantized) =>
                      Downloads(metadata, o) <= Downloads(metadata, reps[i])
      <4>1. PICK a \in 1..Len(reps) : Family[reps[a]] = Family[o] /\ ~Preferred(metadata, o, reps[a])
        BY <2>3, <2>5
      <4>2. a = i  BY <2>3, <3>1, <3>4, <4>1
      <4> QED  BY <2>8, <4>1, <4>2 DEF Preferred
    <3>5. Excerpt(points, reps[i]) # 0 => points[Excerpt(points, reps[i])].model = reps[i]
      BY <2>7 DEF points
    <3> QED  BY <3>2, <3>3, <3>4, <3>5
  <2>11. FamiliesKeepTheirRank
    <3>1. \A i, j \in 1..shown : i < j => FamilyBest(reps[i]) >= FamilyBest(reps[j])
      BY <2>3, <2>6, <2>9
    <3>2. ASSUME NEW o \in Found, \A i \in 1..shown : Family[reps[i]] # Family[o]
          PROVE  shown = call.limit /\ \A i \in 1..shown : FamilyBest(reps[i]) >= FamilyBest(o)
      <4>1. PICK a \in 1..Len(reps) : Family[reps[a]] = Family[o]  BY <2>3, <2>5
      <4>2. a \notin 1..shown  BY <3>2, <4>1
      <4>3. shown = call.limit /\ \A i \in 1..shown : i < a  BY <2>2, <2>3, <2>4, <4>2
      <4>4. FamilyBest(o) = FamilyBest(reps[a])  BY <4>1 DEF FamilyBest
      <4> QED  BY <2>3, <2>6, <2>9, <4>3, <4>4
    <3> QED  BY <2>4, <3>1, <3>2 DEF FamiliesKeepTheirRank, shown
  <2> QED  BY <2>10, <2>11 DEF FamiliesAreRepresented
<1> QED  BY <1>1, <1>2, SearchStep, PTL DEF Spec

-----------------------------------------------------------------------------
(* filter_models *)

(* LIMIT is at least 1 and at most the rows a page may have. *)
LEMMA LimitIs ==
  ASSUME NEW q \in Questions
  PROVE  Limit(q) \in 1..MaxRows
<1>1. q.limit \in Int /\ MaxRows \in Nat \ {0}  BY InputsAssumption, CatalogAssumption
<1>2. Min({q.limit, MaxRows}) \in Int /\ Min({q.limit, MaxRows}) <= MaxRows  BY <1>1, MinOfTwo
<1> QED  BY <1>1, <1>2, MaxOfTwo DEF Limit

(* A page has as many rows as LIMIT and the matches allow. *)
LEMMA PageLength ==
  ASSUME NEW q \in Questions, NEW table \in Tables, NEW page \in Pages(q, table)
  PROVE  /\ IsFiniteSet(Matching(q, table)) /\ Cardinality(Matching(q, table)) \in Nat
         /\ Len(page) = Min({Limit(q), Cardinality(Matching(q, table))})
         /\ page = <<>> <=> Matching(q, table) = {}
<1> DEFINE found == Matching(q, table)
           size == Min({Limit(q), Cardinality(found)})
<1>1. IsFiniteSet(found)
  <2>1. IsFiniteSet(DOMAIN table)  BY InputsAssumption
  <2> QED  BY <2>1, FS_Subset DEF Matching
<1>2. Cardinality(found) \in Nat  BY <1>1, FS_CardinalityType
<1>3. Limit(q) \in Nat \ {0}  BY LimitIs, CatalogAssumption
<1>4. size = IF Limit(q) <= Cardinality(found) THEN Limit(q) ELSE Cardinality(found)
  BY <1>2, <1>3, MinOfTwo
<1>5. page \in [1..size -> found]  BY DEF Pages
<1>6. Cardinality(found) = 0 <=> found = {}  BY <1>1, FS_EmptySet
<1> HIDE DEF size, found
<1>7. size \in Nat /\ (size = 0 <=> found = {})  BY <1>2, <1>3, <1>4, <1>6
<1>8. page \in Seq(found) /\ Len(page) = size  BY <1>5, <1>7
<1>9. page = <<>> <=> size = 0  BY <1>7, <1>8
<1> QED  BY <1>1, <1>2, <1>7, <1>8, <1>9 DEF found, size

(* An empty page without warnings, and the total of any page. *)
LEMMA FilterAnswers ==
  ASSUME NEW q \in Questions, NEW table \in Tables, NEW r \in FilterModels(q, table)
  PROVE  /\ r.models \in Pages(q, table)
         /\ r.total = Cardinality(Matching(q, table))
         /\ r.models = <<>> /\ r.warnings = {} =>
              \A m \in DOMAIN table : Where(q, table[m]) =>
                ~SizeFits(q, table[m]) /\ table[m].params # Unknown
<1>1. PICK page \in Pages(q, table) :
        r = [models |-> page, total |-> Total(q, table, page),
             warnings |-> Warnings(q, table, Total(q, table, page))]
  BY DEF FilterModels
<1>2. r.models = page /\ r.total = Total(q, table, page) /\ r.warnings = Warnings(q, table, r.total)
  BY <1>1
<1>3. r.total = Cardinality(Matching(q, table))
  <2>1. CASE page = <<>>
    <3>1. Matching(q, table) = {}  BY <2>1, PageLength
    <3> QED  BY <1>2, <2>1, <3>1, FS_EmptySet DEF Total
  <2>2. CASE page # <<>>
    BY <1>2, <2>2 DEF Total
  <2> QED  BY <2>1, <2>2
<1>4. ASSUME r.models = <<>>, r.warnings = {}, NEW m \in DOMAIN table, Where(q, table[m])
      PROVE  ~SizeFits(q, table[m]) /\ table[m].params # Unknown
  <2>1. Matching(q, table) = {}  BY <1>2, <1>4, PageLength
  <2>2. ~SizeFits(q, table[m])  BY <1>4, <2>1 DEF Matching
  <2>3. SizeAsked(q)  BY <2>2 DEF SizeFits, SizeAsked
  <2>4. "unknown_size" \notin Warnings(q, table, r.total)  BY <1>2, <1>4
  <2>5. ~(SizeAsked(q) /\ UnknownSize(q, table) # {})  BY <2>4 DEF Warnings
  <2>6. m \notin UnknownSize(q, table)  BY <2>3, <2>5
  <2> QED  BY <1>4, <2>2, <2>6 DEF UnknownSize
<1> QED  BY <1>1, <1>2, <1>3, <1>4

(* A behavior is one call: what is true of the result of that call.        *)
FilterInv ==
  call.op = "filter" =>
    call.q \in Questions /\ call.table \in Tables /\ result \in FilterModels(call.q, call.table)

(* Only filter_models changes what FilterInv speaks of. *)
LEMMA FilterStep == FilterInv /\ [Next]_vars => FilterInv'
<1> SUFFICES ASSUME FilterInv, [Next]_vars PROVE FilterInv'
  OBVIOUS
<1>1. CASE Filter
  BY <1>1 DEF Filter, FilterInv
<1>2. CASE ~Filter
  <2>1. CASE UNCHANGED vars  BY <2>1 DEF vars, FilterInv
  <2>2. call'.op # "filter" \/ UNCHANGED vars
    BY <1>2 DEF Next, Search, Parse, Chunk, Fetch, Score, Compare, Adjust, Report, Pool, QueryStore
  <2> QED  BY <2>1, <2>2 DEF FilterInv
<1> QED  BY <1>1, <1>2

(* Whatever table and question: filter_models' total is that of the whole  *)
(* filtered set, its page is full when it can be, and an empty page without *)
(* a warning means that no row, not even one of unknown size, satisfies the *)
(* constraints.                                                            *)
THEOREM FiltersAreTruthful == Spec => []FilterKeepsItsPromise
<1>1. Init => FilterInv  BY DEF Init, FilterInv
<1>2. FilterInv => FilterKeepsItsPromise
  <2> SUFFICES ASSUME FilterInv, call.op = "filter" PROVE FilterKeepsItsPromise
    BY DEF FilterKeepsItsPromise, EmptyMeansNone, TotalIgnoresLimit
  <2>1. call.q \in Questions /\ call.table \in Tables /\ result \in FilterModels(call.q, call.table)
    BY DEF FilterInv
  <2>2. EmptyMeansNone  BY <2>1, FilterAnswers DEF EmptyMeansNone, Satisfiable
  <2>3. TotalIgnoresLimit
    <3>1. result.models \in Pages(call.q, call.table) /\ result.total = Cardinality(Matching(call.q, call.table))
      BY <2>1, FilterAnswers
    <3>2. Len(result.models) = Min({Limit(call.q), result.total})
      BY <2>1, <3>1, PageLength
    <3>3. {Limit(call.q), result.total} = {result.total, Limit(call.q)}  OBVIOUS
    <3> QED  BY <3>1, <3>2, <3>3 DEF TotalIgnoresLimit, Limit, Matching
  <2> QED  BY <2>2, <2>3 DEF FilterKeepsItsPromise
<1> QED  BY <1>1, <1>2, FilterStep, PTL DEF Spec


-----------------------------------------------------------------------------
(* rescore_report *)

(* What is stored of a dialogue has all that is scored again: for any      *)
(* number of turns the last stored answer is the one that was scored.      *)
LEMMA RescoreAgrees ==
  ASSUME NEW category, NEW gold, NEW k, NEW newK,
         NEW replies, Len(replies) \in Nat \ {0}
  PROVE  Rescore(category, gold, EvaluateDialogue(category, gold, replies, k), newK)
           = EvaluateDialogue(category, gold, replies, newK)
<1> DEFINE answers == Answers(replies)
           turnAnswers == IF Len(replies) > 1 THEN answers ELSE <<>>
           stored(n) == EvaluateDialogue(category, gold, replies, n)
           again == IF turnAnswers # <<>> THEN turnAnswers ELSE <<Last(answers)>>
           turns == Len(replies)
<1>1. turns \in Nat \ {0}  OBVIOUS
<1>2. answers # <<>> /\ (turns = 1 => Last(<<Last(answers)>>) = Last(answers))
  <2>1. CASE \E i \in 1..Len(replies) : replies[i].failed
    BY <2>1 DEF Answers, Last
  <2>2. CASE ~\E i \in 1..Len(replies) : replies[i].failed
    <3>1. answers = [i \in 1..turns |-> replies[i].text]  BY <2>2 DEF Answers
    <3> QED  BY <3>1 DEF Last
  <2> QED  BY <2>1, <2>2
<1> HIDE DEF answers
<1>3. \A n : stored(n) = [answer |-> Last(answers), turnAnswers |-> turnAnswers,
                          scores |-> ScoreAnswer(category, Last(answers), gold, n)]
  BY DEF EvaluateDialogue, answers
<1>4. Last(again) = Last(answers)
  <2>1. CASE turns = 1  BY <1>1, <1>2, <2>1
  <2>2. CASE turns # 1  BY <1>1, <1>2, <2>2
  <2> QED  BY <2>1, <2>2
<1> HIDE DEF turnAnswers
<1>5. Rescore(category, gold, stored(k), newK)
        = [stored(k) EXCEPT !.scores = ScoreAnswer(category, Last(again), gold, newK)]
  BY <1>3 DEF Rescore
<1> QED  BY <1>3, <1>4, <1>5

(* "Because raw answers are stored, scores can be recomputed": for every   *)
(* dialogue, gold and k, rescoring gives what evaluating would have given. *)
THEOREM RescoringIsEvaluating == Spec => []RescoreIsEvaluation
<1>1. Init => RescoreIsEvaluation  BY DEF Init, RescoreIsEvaluation
<1>2. RescoreIsEvaluation /\ [Next]_vars => RescoreIsEvaluation'
  <2> SUFFICES ASSUME RescoreIsEvaluation, [Next]_vars PROVE RescoreIsEvaluation'
    OBVIOUS
  <2>1. CASE Report
    <3>1. PICK turns \in 1..2 : \E replies \in [1..turns -> Replies], gold \in Golds, k, newK \in 1..MaxK,
                 category \in {"ranked", "ambiguous", "unscored"} :
            LET stored == EvaluateDialogue(category, gold, replies, k) IN
              /\ call' = [op |-> "report", replies |-> replies, gold |-> gold, k |-> newK, category |-> category]
              /\ result' = [stored |-> stored, rescored |-> Rescore(category, gold, stored, newK)]
      BY <2>1 DEF Report
    <3>2. PICK replies \in [1..turns -> Replies], gold \in Golds, k \in 1..MaxK, newK \in 1..MaxK,
               category \in {"ranked", "ambiguous", "unscored"} :
            /\ call' = [op |-> "report", replies |-> replies, gold |-> gold, k |-> newK, category |-> category]
            /\ result'.rescored = Rescore(category, gold, EvaluateDialogue(category, gold, replies, k), newK)
      BY <3>1
    <3>3. result'.rescored = EvaluateDialogue(category, gold, replies, newK)
      <4>1. Len(replies) \in Nat \ {0}  OBVIOUS
      <4>2. Rescore(category, gold, EvaluateDialogue(category, gold, replies, k), newK)
              = EvaluateDialogue(category, gold, replies, newK)
        BY <4>1, RescoreAgrees
      <4> QED  BY <3>2, <4>2
    <3> QED  BY <3>2, <3>3 DEF RescoreIsEvaluation
  <2>2. CASE ~Report
    <3>1. call'.op # "report" \/ UNCHANGED vars
      BY <2>2 DEF Next, Search, Filter, Parse, Chunk, Fetch, Score, Compare, Adjust, Pool, QueryStore
    <3> QED  BY <3>1 DEF RescoreIsEvaluation, vars
  <2> QED  BY <2>1, <2>2
<1> QED  BY <1>1, <1>2, PTL DEF Spec


(* Induction, in terms of sets. *)

-----------------------------------------------------------------------------
(* The intake as a whole. *)

(* What the calls of the intake return. *)
IntakeInv ==
  /\ call.op = "parse" => Len(call.lines) \in Nat /\ result = ParseReadme(call.lines)
  /\ call.op = "chunk" =>
       /\ call.n \in Nat /\ call.size \in Nat \ {0} /\ call.overlap \in 0..(call.size - 1)
       /\ result = Windows(call.n, call.size, call.overlap)
  /\ call.op = "retry" =>
       /\ call.retries \in Nat \ {0} /\ call.outcomes \in [1..call.retries -> BOOLEAN]
       /\ result = Retry(call.outcomes, call.retries)

(* Only these calls change what IntakeInv speaks of. *)
LEMMA IntakeStep == IntakeInv /\ [Next]_vars => IntakeInv'
<1> SUFFICES ASSUME IntakeInv, [Next]_vars PROVE IntakeInv'
  OBVIOUS
<1>1. CASE Parse
  <2>1. PICK n \in 0..MaxLines : \E lines \in [1..n -> LineKinds] :
          call' = [op |-> "parse", lines |-> lines] /\ result' = ParseReadme(lines)
    BY <1>1 DEF Parse
  <2>2. PICK lines \in [1..n -> LineKinds] :
          call' = [op |-> "parse", lines |-> lines] /\ result' = ParseReadme(lines)
    BY <2>1
  <2>3. n \in Nat  BY InputsAssumption
  <2>4. Len(lines) = n  BY <2>3
  <2> QED  BY <2>2, <2>3, <2>4 DEF IntakeInv
<1>2. CASE Chunk
  <2>1. PICK n \in 0..MaxTokens, size \in 1..MaxTokens : \E overlap \in 0..(size - 1) :
          /\ call' = [op |-> "chunk", n |-> n, size |-> size, overlap |-> overlap]
          /\ result' = Windows(n, size, overlap)
    BY <1>2 DEF Chunk
  <2>2. n \in Nat /\ size \in Nat \ {0}  BY InputsAssumption
  <2> QED  BY <2>1, <2>2 DEF IntakeInv
<1>3. CASE Fetch
  <2>1. PICK retries \in 1..MaxRetries : \E outcomes \in [1..retries -> BOOLEAN] :
          /\ call' = [op |-> "retry", outcomes |-> outcomes, retries |-> retries]
          /\ result' = Retry(outcomes, retries)
    BY <1>3 DEF Fetch
  <2>2. retries \in Nat \ {0}  BY InputsAssumption
  <2> QED  BY <2>1, <2>2 DEF IntakeInv
<1>4. CASE ~Parse /\ ~Chunk /\ ~Fetch
  <2>1. call'.op \notin {"parse", "chunk", "retry"} \/ UNCHANGED vars
    BY <1>4 DEF Next, Search, Filter, Score, Compare, Adjust, Report, Pool, QueryStore
  <2>2. CASE UNCHANGED vars  BY <2>2 DEF vars, IntakeInv
  <2>3. CASE call'.op \notin {"parse", "chunk", "retry"}  BY <2>3 DEF IntakeInv
  <2> QED  BY <2>1, <2>2, <2>3
<1> QED  BY <1>1, <1>2, <1>3, <1>4

(* For every README, token count, window, overlap and sequence of failed   *)
(* calls: the sections hold the titled text and nothing else, or without    *)
(* titled text the whole file, once, in order and under its own header, the *)
(* windows cover every token and share exactly the overlap, and a download  *)
(* that never worked is reported.                                           *)
THEOREM IntakeKeeps == Spec => []IntakeKeepsTitledText
<1>1. Init => IntakeInv  BY DEF Init, IntakeInv
<1>2. IntakeInv => IntakeKeepsTitledText
  <2> SUFFICES ASSUME IntakeInv PROVE IntakeKeepsTitledText
    OBVIOUS
  <2>1. SectionsKeepTheText
    <3> SUFFICES ASSUME call.op = "parse" PROVE SectionsKeepTheText
      BY DEF SectionsKeepTheText
    <3> DEFINE n == Len(call.lines)
               texts == {i \in 1..n : call.lines[i] = "text" /\ Visible(i)}
               titled == {i \in texts : Owner(i) # 0 /\ call.lines[Owner(i)] = "header"}
               all == FlattenSeq([s \in 1..Len(result) |-> result[s].lines])
    <3>1. n \in Nat /\ result = ParseReadme(call.lines)  BY DEF IntakeInv
    <3>2. \A i : Visible(i) <=> Seen(call.lines, i)  BY DEF Visible, Seen, Rules
    <3>3. \A i : Owner(i) = Own(call.lines, i)  BY <3>2 DEF Owner, Own, Heads
    <3>4. titled = Titled(call.lines, n)  BY <3>2, <3>3 DEF Titled, Placed
    <3>5. all = FlattenSeq(SectionLines(result))  BY DEF SectionLines
    <3> HIDE DEF all, titled, n
    <3>6. /\ Ascending(all)
          /\ titled # {} =>
               /\ ToSet(all) = titled
               /\ \A s \in 1..Len(result) : \A i \in ToSet(result[s].lines) : result[s].header = Owner(i)
          /\ titled = {} => ToSet(all) = {i \in 1..n : call.lines[i] # "blank"}
      BY <3>1, <3>3, <3>4, <3>5, ParseReadmeIs DEF n
    <3> QED  BY <3>6 DEF SectionsKeepTheText, Ascending, all, titled, n
  <2>2. WindowsCover
    <3> SUFFICES ASSUME call.op = "chunk" PROVE WindowsCover
      BY DEF WindowsCover
    <3>1. /\ call.n \in Nat /\ call.size \in Nat \ {0} /\ call.overlap \in 0..(call.size - 1)
          /\ result = Windows(call.n, call.size, call.overlap)
      BY DEF IntakeInv
    <3>2. CoverFrom(result, 0, call.n, call.size, call.overlap)  BY <3>1, WindowsAreCover
    <3>3. 0 < call.n \/ call.n = 0  BY <3>1
    <3> QED  BY <3>1, <3>2, <3>3 DEF WindowsCover, CoverFrom
  <2>3. RetryReports
    <3> SUFFICES ASSUME call.op = "retry" PROVE RetryReports
      BY DEF RetryReports
    <3> QED  BY RetryIs DEF IntakeInv, RetryReports
  <2> QED  BY <2>1, <2>2, <2>3 DEF IntakeKeepsTitledText
<1> QED  BY <1>1, <1>2, IntakeStep, PTL DEF Spec

-----------------------------------------------------------------------------
(* The query CLI: sequences cut and sorted. *)

(* The first n of a sequence. *)
LEMMA CutIs ==
  ASSUME NEW m \in Nat, NEW seq \in [1..m -> Chunks], NEW n \in Nat
  PROVE  LET size == IF n <= m THEN n ELSE m
         IN  /\ size \in Nat /\ size <= m /\ size <= n /\ (size < m => size = n)
             /\ Cut(seq, n) \in [1..size -> Chunks] /\ Len(Cut(seq, n)) = size
             /\ \A i \in 1..size : i \in 1..m /\ Cut(seq, n)[i] = seq[i]
<1> DEFINE size == IF n <= m THEN n ELSE m
<1>1. seq \in Seq(Chunks) /\ Len(seq) = m  OBVIOUS
<1>2. Min({n, Len(seq)}) = size  BY <1>1, MinOfTwo
<1>3. Cut(seq, n) = SubSeq(seq, 1, size)  BY <1>2 DEF Cut
<1>4. size \in Nat /\ size <= m /\ size <= n /\ (size < m => size = n)  OBVIOUS
<1> HIDE DEF size
<1>5. SubSeq(seq, 1, size) = [i \in 1..size |-> seq[i]]
  BY <1>1, <1>4
<1>6. SubSeq(seq, 1, size) \in [1..size -> Chunks]
  <2>1. \A i \in 1..size : i \in 1..m  BY <1>4
  <2>2. \A i \in 1..size : seq[i] \in Chunks  BY <2>1
  <2> QED  BY <1>5, <2>2
<1>7. Len(SubSeq(seq, 1, size)) = size  BY <1>4, <1>6
<1>8. \A i \in 1..size : i \in 1..m /\ SubSeq(seq, 1, size)[i] = seq[i]  BY <1>4, <1>5
<1> QED  BY <1>3, <1>4, <1>6, <1>7, <1>8 DEF size

(* s permutes the places up to n, by falling value. *)
FallsBy(s, n, value) ==
  /\ s \in [1..n -> 1..n] /\ \A r, t \in 1..n : s[r] = s[t] => r = t
  /\ \A i \in 1..n : \E r \in 1..n : s[r] = i
  /\ \A r, t \in 1..n : r < t => value[s[r]] >= value[s[t]]

(* What Falling returns is so permuted. *)
LEMMA FallingIs ==
  ASSUME NEW n \in Nat, NEW seq \in [1..n -> Chunks], NEW value \in [1..n -> Int]
  PROVE  /\ Falling(seq, value) \in [1..n -> Chunks]
         /\ \E s : FallsBy(s, n, value) /\ \A r \in 1..n : Falling(seq, value)[r] = seq[s[r]]
<1> DEFINE R == {p \in (1..n) \X (1..n) :
                   value[p[1]] > value[p[2]] \/ (value[p[1]] = value[p[2]] /\ p[1] < p[2])}
           Orderly(s) == \A r, t \in 1..n : r < t =>
                           value[s[r]] > value[s[t]] \/ (value[s[r]] = value[s[t]] /\ s[r] < s[t])
           order == CHOOSE s \in Bijection(1..n, 1..n) : Orderly(s)
<1>1. \A i, j \in 1..n : <<i, j>> \in R <=>
        value[i] > value[j] \/ (value[i] = value[j] /\ i < j)
  OBVIOUS
<1>2. \A i \in 1..n : value[i] \in Int  OBVIOUS
<1> HIDE DEF R
<1>3. Orders(R, 1..n)
  <2>1. \A i, j, k \in 1..n : <<i, j>> \in R /\ <<j, k>> \in R => <<i, k>> \in R
    BY <1>1, <1>2
  <2>2. \A i, j \in 1..n : i # j => <<i, j>> \in R \/ <<j, i>> \in R  BY <1>1, <1>2
  <2> QED  BY <2>1, <2>2 DEF Orders
<1>4. Cardinality(1..n) = n  BY FS_Interval
<1>5. PICK s : Sorted(s, 1..n, R)  BY <1>3, SortedExists
<1>6. s \in Bijection(1..n, 1..n) /\ \A r, t \in 1..n : r < t => <<s[r], s[t]>> \in R
  BY <1>4, <1>5 DEF Sorted
<1>7. \A r \in 1..n : s[r] \in 1..n  BY <1>6 DEF Bijection, Injection
<1>8. Orderly(s)  BY <1>1, <1>6, <1>7
<1>9. order \in Bijection(1..n, 1..n) /\ Orderly(order)
  <2> HIDE DEF Orderly
  <2> QED  BY <1>6, <1>8
<1>10. Len(seq) = n  OBVIOUS
<1>11. Falling(seq, value) = [r \in 1..n |-> seq[order[r]]]  BY <1>10 DEF Falling
<1> HIDE DEF order
<1>12. \A r \in 1..n : order[r] \in 1..n  BY <1>9 DEF Bijection, Injection
<1>13. \A r, t \in 1..n : r < t => value[order[r]] >= value[order[t]]
  BY <1>2, <1>9, <1>12
<1>14. FallsBy(order, n, value)
  BY <1>9, <1>13 DEF FallsBy, Bijection, Injection, Surjection, IsInjective
<1>15. \A r \in 1..n : seq[order[r]] \in Chunks  BY <1>12
<1>16. \A r \in 1..n : Falling(seq, value)[r] = seq[order[r]]  BY <1>11
<1>17. Falling(seq, value) \in [1..n -> Chunks]  BY <1>11, <1>15
<1> QED  BY <1>14, <1>16, <1>17

-----------------------------------------------------------------------------
(* The query CLI: the loop that keeps the first chunk of each model. *)

(* What the loop over chunks does with one more. *)
AddFirst(wanted, found, c) ==
  IF c \in wanted /\ \A i \in 1..Len(found) : found[i].model # c.model
  THEN Append(found, c) ELSE found

(* After k chunks, the chunks found are at the places f, in order: each is  *)
(* wanted and the first such of its model, and no wanted model is missing.  *)
FirstAt(chunks, wanted, found, k, f) ==
  /\ f \in [1..Len(found) -> 1..k]
  /\ \A a \in 1..Len(found) : found[a] = chunks[f[a]] /\ found[a] \in wanted
  /\ \A a, b \in 1..Len(found) : a < b => f[a] < f[b]
  /\ \A a \in 1..Len(found) : \A j \in 1..k :
       j < f[a] /\ chunks[j] \in wanted => chunks[j].model # found[a].model
  /\ \A j \in 1..k : chunks[j] \in wanted =>
       \E a \in 1..Len(found) : found[a].model = chunks[j].model

(* One more chunk keeps this true. *)
LEMMA AddFirstKeeps ==
  ASSUME NEW chunks, NEW wanted, NEW found \in Seq(Chunks), NEW k \in Nat, NEW f,
         FirstAt(chunks, wanted, found, k, f), chunks[k + 1] \in Chunks
  PROVE  LET new == AddFirst(wanted, found, chunks[k + 1])
         IN  new \in Seq(Chunks) /\ \E g : FirstAt(chunks, wanted, new, k + 1, g)
<1> DEFINE c == chunks[k + 1]
           l == Len(found)
           new == AddFirst(wanted, found, c)
<1>1. l \in Nat  OBVIOUS
<1>2. \A j \in 1..(k + 1) : j = k + 1 \/ j \in 1..k  OBVIOUS
<1>3. /\ f \in [1..l -> 1..k]
      /\ \A a \in 1..l : found[a] = chunks[f[a]] /\ found[a] \in wanted
      /\ \A a, b \in 1..l : a < b => f[a] < f[b]
  BY DEF FirstAt
<1>4. /\ \A a \in 1..l : \A j \in 1..k :
           j < f[a] /\ chunks[j] \in wanted => chunks[j].model # found[a].model
      /\ \A j \in 1..k : chunks[j] \in wanted => \E a \in 1..l : found[a].model = chunks[j].model
  BY DEF FirstAt
<1>5. \A a \in 1..l : f[a] \in 1..k /\ f[a] \in Nat /\ f[a] < k + 1
  <2>1. \A a \in 1..l : f[a] \in 1..k  BY <1>3
  <2> QED  BY <2>1
<1>6. 1..k \subseteq 1..(k + 1)  OBVIOUS
<1>7. CASE c \in wanted /\ \A i \in 1..l : found[i].model # c.model
  <2> DEFINE g == [a \in 1..(l + 1) |-> IF a = l + 1 THEN k + 1 ELSE f[a]]
  <2>1. new = Append(found, c)  BY <1>7 DEF AddFirst
  <2>2. /\ new \in Seq(Chunks) /\ Len(new) = l + 1 /\ new[l + 1] = c
        /\ \A a \in 1..l : new[a] = found[a]
    BY <2>1, AppendIs
  <2>3. \A a \in 1..(l + 1) : a = l + 1 \/ a \in 1..l  BY <1>1
  <2>4. l + 1 \in 1..(l + 1) /\ k + 1 \in 1..(k + 1) /\ \A a \in 1..l : a \in 1..(l + 1) /\ a # l + 1
    BY <1>1
  <2>5. g[l + 1] = k + 1 /\ \A a \in 1..l : g[a] = f[a]  BY <2>4
  <2>6. g \in [1..(l + 1) -> 1..(k + 1)]
    <3>1. \A a \in 1..(l + 1) : (IF a = l + 1 THEN k + 1 ELSE f[a]) \in 1..(k + 1)
      BY <1>5, <1>6, <2>3, <2>4
    <3> QED  BY <3>1
  <2> HIDE DEF g, l, new, c
  <2>7. \A a \in 1..(l + 1) : new[a] = chunks[g[a]] /\ new[a] \in wanted
    BY <1>3, <1>7, <2>2, <2>3, <2>5 DEF c
  <2>8. ASSUME NEW a \in 1..(l + 1), NEW b \in 1..(l + 1), a < b PROVE g[a] < g[b]
    <3>1. a \in 1..l  BY <1>1, <2>8
    <3>2. CASE b = l + 1  BY <1>5, <2>5, <3>1, <3>2
    <3>3. CASE b \in 1..l  BY <1>3, <2>5, <2>8, <3>1, <3>3
    <3> QED  BY <2>3, <3>2, <3>3
  <2>9. ASSUME NEW a \in 1..(l + 1), NEW j \in 1..(k + 1), j < g[a], chunks[j] \in wanted
        PROVE  chunks[j].model # new[a].model
    <3>1. CASE a = l + 1
      <4>1. j \in 1..k  BY <2>5, <2>9, <3>1
      <4>2. PICK i \in 1..l : found[i].model = chunks[j].model  BY <1>4, <2>9, <4>1
      <4> QED  BY <1>7, <2>2, <3>1, <4>2
    <3>2. CASE a \in 1..l
      <4>1. j \in 1..k /\ j < f[a]  BY <1>5, <2>5, <2>9, <3>2
      <4> QED  BY <1>4, <2>2, <2>9, <3>2, <4>1
    <3> QED  BY <2>3, <3>1, <3>2
  <2>10. ASSUME NEW j \in 1..(k + 1), chunks[j] \in wanted
         PROVE  \E a \in 1..(l + 1) : new[a].model = chunks[j].model
    <3>1. CASE j = k + 1  BY <2>2, <2>4, <3>1 DEF c
    <3>2. CASE j \in 1..k
      <4>1. PICK a \in 1..l : found[a].model = chunks[j].model  BY <1>4, <2>10, <3>2
      <4> QED  BY <2>2, <2>4, <4>1
    <3> QED  BY <1>2, <3>1, <3>2
  <2>11. FirstAt(chunks, wanted, new, k + 1, g)
    BY <2>2, <2>6, <2>7, <2>8, <2>9, <2>10 DEF FirstAt
  <2> QED  BY <2>2, <2>11 DEF new, c
<1>8. CASE ~(c \in wanted /\ \A i \in 1..l : found[i].model # c.model)
  <2>1. new = found  BY <1>8 DEF AddFirst
  <2>2. f \in [1..l -> 1..(k + 1)]  BY <1>3, <1>6
  <2> HIDE DEF l, new
  <2>3. \A a \in 1..l : \A j \in 1..(k + 1) :
          j < f[a] /\ chunks[j] \in wanted => chunks[j].model # found[a].model
    BY <1>2, <1>4, <1>5
  <2>4. \A j \in 1..(k + 1) : chunks[j] \in wanted => \E a \in 1..l : found[a].model = chunks[j].model
    BY <1>2, <1>4, <1>8
  <2>5. FirstAt(chunks, wanted, found, k + 1, f)
    BY <1>3, <2>2, <2>3, <2>4 DEF FirstAt, l
  <2> QED  BY <2>1, <2>5 DEF new, c
<1> QED  BY <1>7, <1>8

(* The loop over all chunks. *)
LEMMA FirstOfEachIs ==
  ASSUME NEW n \in Nat, NEW chunks \in [1..n -> Chunks], NEW wanted
  PROVE  LET found == FirstOfEach(chunks, wanted)
         IN  found \in Seq(Chunks) /\ \E f : FirstAt(chunks, wanted, found, n, f)
<1> DEFINE add(found, c) == AddFirst(wanted, found, c)
           Chosen == CHOOSE it : it = [s \in SUBSET (DOMAIN chunks) |->
                       IF s = {} THEN <<>> ELSE add(it[s \ {Max(s)}], chunks[Max(s)])]
           F == [v \in Seq(Chunks) \X (1..n) |-> add(v[1], chunks[v[2]])]
<1>1. FirstOfEach(chunks, wanted) = Chosen[DOMAIN chunks]
  BY DEF FirstOfEach, AddFirst, FoldLeft, MapThenFoldSet
<1>2. DOMAIN chunks = 1..n  OBVIOUS
<1>3. F \in [Seq(Chunks) \X (1..n) -> Seq(Chunks)]
  <2>1. ASSUME NEW found \in Seq(Chunks), NEW c \in Chunks PROVE add(found, c) \in Seq(Chunks)
    <3>1. Append(found, c) \in Seq(Chunks)  BY AppendIs
    <3> QED  BY <3>1 DEF AddFirst
  <2>2. \A v \in Seq(Chunks) \X (1..n) : v[1] \in Seq(Chunks) /\ chunks[v[2]] \in Chunks  OBVIOUS
  <2> HIDE DEF add
  <2> QED  BY <2>1, <2>2
<1>4. <<>> \in Seq(Chunks)  OBVIOUS
<1>5. PICK it : FoldOf(it, n, Seq(Chunks), <<>>, F)
  <2> HIDE DEF F
  <2> QED  BY <1>3, <1>4, FoldExists
<1> HIDE DEF add
<1>6. \A s \in SUBSET (1..n) :
        it[s] = IF s = {} THEN <<>> ELSE add(it[s \ {Max(s)}], chunks[Max(s)])
  <2> SUFFICES ASSUME NEW s \in SUBSET (1..n), s # {}
               PROVE  it[s] = add(it[s \ {Max(s)}], chunks[Max(s)])
    BY <1>5 DEF FoldOf
  <2>1. Max(s) \in 1..n
    <3>1. s \in SUBSET (0..n)  OBVIOUS
    <3> QED  BY <3>1, MaxOfNumbers
  <2>2. it[s \ {Max(s)}] \in Seq(Chunks)  BY <1>5 DEF FoldOf
  <2>3. <<it[s \ {Max(s)}], Max(s)>> \in Seq(Chunks) \X (1..n)  BY <2>1, <2>2
  <2>4. F[<<it[s \ {Max(s)}], Max(s)>>] = add(it[s \ {Max(s)}], chunks[Max(s)])  BY <2>3
  <2> QED  BY <1>5, <2>4 DEF FoldOf
<1>7. it = [s \in SUBSET (DOMAIN chunks) |->
              IF s = {} THEN <<>> ELSE add(it[s \ {Max(s)}], chunks[Max(s)])]
  BY <1>2, <1>5, <1>6 DEF FoldOf
<1>8. Chosen = [s \in SUBSET (DOMAIN chunks) |->
                  IF s = {} THEN <<>> ELSE add(Chosen[s \ {Max(s)}], chunks[Max(s)])]
  BY <1>7
<1> HIDE DEF Chosen
<1> DEFINE T == {k \in Nat : k <= n =>
                   Chosen[1..k] \in Seq(Chunks) /\ \E f : FirstAt(chunks, wanted, Chosen[1..k], k, f)}
<1>9. 0 \in T
  <2>1. 1..0 = {} /\ {} \in SUBSET (DOMAIN chunks)  OBVIOUS
  <2>2. Chosen[1..0] = <<>>  BY <1>8, <2>1
  <2> DEFINE f == [a \in {} |-> a]
  <2>3. f \in [1..Len(<<>>) -> 1..0]  OBVIOUS
  <2>4. FirstAt(chunks, wanted, <<>>, 0, f)  BY <2>3 DEF FirstAt
  <2> HIDE DEF f
  <2> QED  BY <1>4, <2>2, <2>4
<1>10. ASSUME NEW k \in Nat, k \in T PROVE k + 1 \in T
  <2> SUFFICES ASSUME k + 1 <= n
               PROVE  /\ Chosen[1..(k + 1)] \in Seq(Chunks)
                      /\ \E f : FirstAt(chunks, wanted, Chosen[1..(k + 1)], k + 1, f)
    OBVIOUS
  <2>1. Max(1..(k + 1)) = k + 1 /\ (1..(k + 1)) \ {k + 1} = 1..k  BY MaxOfRange
  <2>2. 1..(k + 1) \in SUBSET (DOMAIN chunks) /\ 1..(k + 1) # {}
    <3>1. 1 \in 1..(k + 1) /\ 1..(k + 1) \subseteq 1..n  OBVIOUS
    <3> QED  BY <1>2, <3>1
  <2>3. Chosen[1..(k + 1)]
          = add(Chosen[(1..(k + 1)) \ {Max(1..(k + 1))}], chunks[Max(1..(k + 1))])
    BY <1>8, <2>2
  <2>4. Chosen[1..(k + 1)] = AddFirst(wanted, Chosen[1..k], chunks[k + 1])
    BY <2>1, <2>3 DEF add
  <2>5. Chosen[1..k] \in Seq(Chunks)  BY <1>10
  <2>6. PICK f : FirstAt(chunks, wanted, Chosen[1..k], k, f)  BY <1>10
  <2>7. chunks[k + 1] \in Chunks  OBVIOUS
  <2> QED  BY <2>4, <2>5, <2>6, <2>7, AddFirstKeeps
<1> HIDE DEF T
<1>11. n \in T  BY <1>9, <1>10, SetInduction
<1>12. FirstOfEach(chunks, wanted) = Chosen[1..n]  BY <1>1, <1>2
<1> QED  BY <1>11, <1>12 DEF T

(* Two chunks that were found are of different models. *)
LEMMA ModelsDiffer ==
  ASSUME NEW chunks, NEW wanted, NEW found, NEW k \in Nat, NEW f,
         FirstAt(chunks, wanted, found, k, f)
  PROVE  \A a, b \in 1..Len(found) : found[a].model = found[b].model => a = b
<1>1. ASSUME NEW a \in 1..Len(found), NEW b \in 1..Len(found), a < b
      PROVE  found[a].model # found[b].model
  <2>1. f[a] \in 1..k /\ f[a] < f[b] /\ found[a] = chunks[f[a]] /\ found[a] \in wanted
    BY <1>1 DEF FirstAt
  <2>2. \A j \in 1..k : j < f[b] /\ chunks[j] \in wanted => chunks[j].model # found[b].model
    BY DEF FirstAt
  <2> QED  BY <2>1, <2>2
<1>2. \A a, b \in 1..Len(found) : a < b \/ b < a \/ a = b  OBVIOUS
<1> QED  BY <1>1, <1>2

-----------------------------------------------------------------------------
(* The query CLI: search_semantic. *)

ScoresOf(chunks, m) == {chunks[i].score : i \in {j \in 1..Len(chunks) : chunks[j].model = m}}
AtLeast(chunks, x) == {i \in 1..Len(chunks) : chunks[i].score >= x}

(* answer has each model once by its best chunk, best first, and leaves out  *)
(* only what does not fit its limit or is behind the chunks asked for.       *)
BestFirst(chunks, limit, threshold, answer) ==
  /\ Len(answer) \in Nat
  /\ \A i, j \in 1..Len(answer) : i < j =>
       answer[i].model # answer[j].model /\ answer[i].score >= answer[j].score
  /\ \A i \in 1..Len(answer) :
       answer[i].score = Max(ScoresOf(chunks, answer[i].model)) /\ answer[i].score >= threshold
  /\ \A j \in 1..Len(chunks) :
       chunks[j].score >= threshold /\ (\A i \in 1..Len(answer) : answer[i].model # chunks[j].model) =>
         \/ Len(answer) = limit
         \/ Cardinality(AtLeast(chunks, chunks[j].score)) > limit * Overfetch

(* A search of the CLI. *)
LEMMA CliSearches ==
  ASSUME NEW n \in Nat, NEW chunks \in [1..n -> Chunks], NEW limit \in Nat, NEW threshold \in Int,
         NEW answer, answer = SearchSemantic(chunks, limit, threshold)
  PROVE  BestFirst(chunks, limit, threshold, answer)
<1> DEFINE asked == limit * Overfetch
           value == [i \in 1..Len(chunks) |-> chunks[i].score]
           nearest == Cut(ByScore(chunks), asked)
           close == {c \in ToSet(nearest) : c.score >= threshold}
           found == FirstOfEach(nearest, close)
<1>1. Len(chunks) = n  OBVIOUS
<1>2. asked \in Nat
  <2>1. Overfetch \in Nat  BY CliAssumption
  <2> QED  BY <2>1
<1>3. answer = Cut(found, limit)  BY DEF SearchSemantic
<1>4. \A i \in 1..n : chunks[i] \in Chunks /\ chunks[i].score \in Int  BY InputsAssumption
<1>5. value \in [1..n -> Int] /\ \A i \in 1..n : value[i] = chunks[i].score  BY <1>1, <1>4
<1>6. /\ ByScore(chunks) \in [1..n -> Chunks]
      /\ \E s : FallsBy(s, n, value) /\ \A r \in 1..n : ByScore(chunks)[r] = chunks[s[r]]
  <2>1. ByScore(chunks) = Falling(chunks, value)  BY DEF ByScore
  <2> HIDE DEF value
  <2>2. /\ Falling(chunks, value) \in [1..n -> Chunks]
        /\ \E s : FallsBy(s, n, value) /\ \A r \in 1..n : Falling(chunks, value)[r] = chunks[s[r]]
    BY <1>5, FallingIs
  <2> QED  BY <2>1, <2>2
<1>7. PICK s : FallsBy(s, n, value) /\ \A r \in 1..n : ByScore(chunks)[r] = chunks[s[r]]
  BY <1>6
<1> HIDE DEF value
<1>8. /\ s \in [1..n -> 1..n] /\ \A r, t \in 1..n : s[r] = s[t] => r = t
      /\ \A i \in 1..n : \E r \in 1..n : s[r] = i
  BY <1>7 DEF FallsBy
<1>9. \A r, t \in 1..n : r < t => chunks[s[r]].score >= chunks[s[t]].score
  <2>1. \A r, t \in 1..n : r < t => value[s[r]] >= value[s[t]]  BY <1>7 DEF FallsBy
  <2>2. \A r \in 1..n : value[s[r]] = chunks[s[r]].score  BY <1>5, <1>8
  <2> QED  BY <2>1, <2>2
<1> DEFINE w == IF asked <= n THEN asked ELSE n
<1>10. w \in Nat /\ w <= n /\ 1..w \subseteq 1..n  BY <1>2
<1>11. nearest \in [1..w -> Chunks] /\ \A i \in 1..w : nearest[i] = chunks[s[i]]
  <2> DEFINE sorted == ByScore(chunks)
  <2>1. sorted \in [1..n -> Chunks]  BY <1>6
  <2> HIDE DEF asked, sorted
  <2>2. Cut(sorted, asked) \in [1..w -> Chunks] /\ \A i \in 1..w : Cut(sorted, asked)[i] = sorted[i]
    BY <1>2, <2>1, CutIs
  <2>3. \A i \in 1..n : sorted[i] = chunks[s[i]]  BY <1>7 DEF sorted
  <2> QED  BY <1>10, <2>2, <2>3 DEF sorted
<1> HIDE DEF nearest, w
<1>12. \A j \in 1..w : nearest[j] \in close <=> chunks[s[j]].score >= threshold
  <2>1. \A j \in 1..w : nearest[j] \in ToSet(nearest)  BY <1>10, <1>11 DEF ToSet
  <2> QED  BY <1>11, <2>1
<1>13. \A c \in close : c.score >= threshold  OBVIOUS
<1> HIDE DEF close
<1>14. found \in Seq(Chunks) /\ \E f : FirstAt(nearest, close, found, w, f)
  BY <1>10, <1>11, FirstOfEachIs
<1>15. PICK f : FirstAt(nearest, close, found, w, f)  BY <1>14
<1> DEFINE m == Len(found)
           size == IF limit <= m THEN limit ELSE m
<1>16. m \in Nat /\ found \in [1..m -> Chunks]  BY <1>14
<1>17. Len(answer) = size /\ \A i \in 1..size : answer[i] = found[i]
  <2> HIDE DEF found, m
  <2>2. Len(Cut(found, limit)) = size /\ \A i \in 1..size : Cut(found, limit)[i] = found[i]
    BY <1>16, CutIs
  <2> QED  BY <1>3, <2>2
<1>18. size \in Nat /\ 1..size \subseteq 1..m /\ (size < m => size = limit)
  <2> HIDE DEF m
  <2> QED  BY <1>16
<1>19. \A a, b \in 1..m : found[a].model = found[b].model => a = b
  BY <1>10, <1>15, ModelsDiffer
<1>20. /\ f \in [1..m -> 1..w]
       /\ \A a \in 1..m : found[a] = nearest[f[a]] /\ found[a] \in close
       /\ \A a, b \in 1..m : a < b => f[a] < f[b]
  BY <1>15 DEF FirstAt
<1>21. /\ \A a \in 1..m : \A j \in 1..w :
            j < f[a] /\ nearest[j] \in close => nearest[j].model # found[a].model
       /\ \A j \in 1..w : nearest[j] \in close => \E a \in 1..m : found[a].model = nearest[j].model
  BY <1>15 DEF FirstAt
<1> HIDE DEF found, m, size
<1>22. \A a \in 1..m : found[a] = chunks[s[f[a]]] /\ f[a] \in 1..w /\ f[a] \in 1..n /\ s[f[a]] \in 1..n
  BY <1>8, <1>10, <1>11, <1>20
<1>23. ASSUME NEW a \in 1..m, NEW j \in 1..n, chunks[j].model = found[a].model
       PROVE  chunks[j].score <= found[a].score
  <2>1. PICK p \in 1..n : s[p] = j  BY <1>8
  <2>2. CASE p = f[a]
    <3>1. chunks[j] = found[a]  BY <1>22, <2>1, <2>2
    <3>2. chunks[j].score \in Int  BY <1>4
    <3> QED  BY <3>1, <3>2
  <2>3. CASE f[a] < p  BY <1>9, <1>22, <2>1, <2>3
  <2>4. CASE p < f[a]
    <3>1. p \in 1..w  BY <1>10, <1>22, <2>4
    <3>2. nearest[p] \notin close  BY <1>11, <1>21, <1>23, <2>1, <2>4, <3>1
    <3>3. ~(chunks[j].score >= threshold)  BY <1>12, <2>1, <3>1, <3>2
    <3>4. found[a].score >= threshold  BY <1>13, <1>20
    <3>5. chunks[j].score >= found[a].score  BY <1>9, <1>22, <2>1, <2>4
    <3>6. chunks[j].score \in Int /\ found[a].score \in Int  BY <1>4, <1>22
    <3> QED  BY <3>3, <3>4, <3>5, <3>6
  <2>5. p = f[a] \/ f[a] < p \/ p < f[a]  BY <1>22
  <2> QED  BY <2>2, <2>3, <2>4, <2>5
<1>24. ASSUME NEW a \in 1..m PROVE found[a].score = Max(ScoresOf(chunks, found[a].model))
  <2> DEFINE mdl == found[a].model
  <2>1. ScoresOf(chunks, mdl) = {chunks[i].score : i \in {j \in 1..n : chunks[j].model = mdl}}
    BY <1>1 DEF ScoresOf
  <2>2. \A x \in ScoresOf(chunks, mdl) : x \in Int /\ x <= found[a].score  BY <1>4, <1>23, <2>1
  <2>3. found[a].score \in ScoresOf(chunks, mdl)  BY <1>22, <2>1
  <2> HIDE DEF mdl
  <2>4. ScoresOf(chunks, mdl) \in SUBSET Int  BY <2>2
  <2>5. Max(ScoresOf(chunks, mdl)) = found[a].score  BY <2>2, <2>3, <2>4, MaxIs
  <2> QED  BY <2>5 DEF mdl
<1>25. ASSUME NEW i \in 1..size, NEW j \in 1..size, i < j
       PROVE  answer[i].model # answer[j].model /\ answer[i].score >= answer[j].score
  <2>1. i \in 1..m /\ j \in 1..m /\ i # j  BY <1>18, <1>25
  <2>2. f[i] < f[j]  BY <1>20, <1>25, <2>1
  <2>3. found[i].score >= found[j].score  BY <1>9, <1>22, <2>1, <2>2
  <2> QED  BY <1>17, <1>19, <2>1, <2>3
<1>26. \A i \in 1..size :
         answer[i].score = Max(ScoresOf(chunks, answer[i].model)) /\ answer[i].score >= threshold
  BY <1>13, <1>17, <1>18, <1>20, <1>24
<1>27. ASSUME NEW j \in 1..n, chunks[j].score >= threshold,
              \A i \in 1..size : answer[i].model # chunks[j].model
       PROVE  \/ size = limit
              \/ Cardinality(AtLeast(chunks, chunks[j].score)) > asked
  <2>1. PICK p \in 1..n : s[p] = j  BY <1>8
  <2>2. CASE p \in 1..w
    <3>1. PICK a \in 1..m : found[a].model = chunks[j].model
      BY <1>11, <1>12, <1>21, <1>27, <2>1, <2>2
    <3>2. a \notin 1..size  BY <1>17, <1>27, <3>1
    <3>3. size < m  BY <1>16, <1>18, <3>2
    <3> QED  BY <1>18, <3>3
  <2>3. CASE p \notin 1..w
    <3> DEFINE above == AtLeast(chunks, chunks[j].score)
               g == [r \in 1..p |-> s[r]]
    <3>1. asked < p  BY <1>2, <2>3 DEF w
    <3>2. 1..p \subseteq 1..n  OBVIOUS
    <3>3. \A r \in 1..p : chunks[s[r]].score >= chunks[j].score
      <4> TAKE r \in 1..p
      <4>1. CASE r = p
        <5>1. chunks[j].score \in Int  BY <1>4
        <5> QED  BY <2>1, <4>1, <5>1
      <4>2. CASE r < p  BY <1>9, <2>1, <3>2, <4>2
      <4> QED  BY <4>1, <4>2
    <3>4. g \in [1..p -> above]  BY <1>1, <1>8, <3>2, <3>3 DEF AtLeast
    <3>5. \A r, t \in 1..p : g[r] = g[t] => r = t  BY <1>8, <3>2
    <3>6. IsFiniteSet(above)
      <4>1. IsFiniteSet(1..n)  BY FS_Interval
      <4> QED  BY <1>1, <4>1, FS_Subset DEF AtLeast
    <3> HIDE DEF above, g
    <3>7. g \in Injection(1..p, above)  BY <3>4, <3>5 DEF Injection, IsInjective
    <3>8. Cardinality(1..p) <= Cardinality(above)  BY <3>6, <3>7, FS_Injection
    <3>9. Cardinality(1..p) = p /\ Cardinality(above) \in Nat  BY <3>6, FS_Interval, FS_CardinalityType
    <3>10. Cardinality(above) > asked
      <4> HIDE DEF asked
      <4> QED  BY <1>2, <3>1, <3>8, <3>9
    <3> QED  BY <3>10 DEF above
  <2> QED  BY <2>2, <2>3
<1> HIDE DEF asked
<1> QED  BY <1>1, <1>17, <1>18, <1>25, <1>26, <1>27 DEF BestFirst, asked

-----------------------------------------------------------------------------
(* The query CLI: search_by_tag. *)

(* A store of one page is read whole. *)
LEMMA ListedIs ==
  ASSUME NEW n \in Nat, NEW chunks \in [1..n -> Chunks], n <= PageSize, NEW backend
  PROVE  Listed(backend, chunks) = chunks
<1>1. PageSize \in Nat  BY CliAssumption
<1>2. Cut(chunks, PageSize) \in [1..n -> Chunks] /\ \A i \in 1..n : Cut(chunks, PageSize)[i] = chunks[i]
  <2>1. PageSize = n \/ n < PageSize  BY <1>1
  <2>2. CASE n < PageSize
    <3>1. ~(PageSize <= n)  BY <1>1, <2>2
    <3> QED  BY <1>1, <3>1, CutIs
  <2>3. CASE PageSize = n  BY <1>1, <2>3, CutIs
  <2> QED  BY <2>1, <2>2, <2>3
<1>3. Cut(chunks, PageSize) = chunks  BY <1>2
<1> QED  BY <1>3 DEF Listed

(* Chunks of different models are as many as their models. *)
LEMMA ModelsCounted ==
  ASSUME NEW m \in Nat, NEW found \in [1..m -> Chunks],
         \A a, b \in 1..m : found[a].model = found[b].model => a = b
  PROVE  Cardinality({found[a].model : a \in 1..m}) = m
<1> DEFINE models == {found[a].model : a \in 1..m}
           g == [a \in 1..m |-> found[a].model]
<1>1. g \in [1..m -> models] /\ \A a \in 1..m : g[a] = found[a].model  OBVIOUS
<1>2. \A x \in models : \E a \in 1..m : g[a] = x  OBVIOUS
<1> HIDE DEF g, models
<1>3. g \in Bijection(1..m, models)
  BY <1>1, <1>2 DEF Bijection, Injection, Surjection, IsInjective
<1>4. ExistsBijection(1..m, models)  BY <1>3 DEF ExistsBijection
<1>5. Cardinality(models) = m  BY <1>4, FS_CountingElements
<1> QED  BY <1>5 DEF models

(* The models of the wanted chunks. *)
Wanted(chunks, wanted) == {chunks[j].model : j \in {i \in 1..Len(chunks) : chunks[i] \in wanted}}

(* c is the first wanted chunk of its model. *)
IsFirst(chunks, wanted, c) ==
  \E p \in 1..Len(chunks) :
    /\ c = chunks[p]
    /\ \A j \in 1..Len(chunks) : j < p /\ chunks[j] \in wanted => chunks[j].model # c.model

(* FirstOfEach finds each of them once. *)
LEMMA FirstsAreAll ==
  ASSUME NEW n \in Nat, NEW chunks \in [1..n -> Chunks], NEW wanted,
         NEW found, found = FirstOfEach(chunks, wanted)
  PROVE  /\ Len(found) \in Nat /\ found \in [1..Len(found) -> Chunks]
         /\ \A a, b \in 1..Len(found) : found[a].model = found[b].model => a = b
         /\ {found[a].model : a \in 1..Len(found)} = Wanted(chunks, wanted)
         /\ Cardinality(Wanted(chunks, wanted)) = Len(found)
         /\ \A a \in 1..Len(found) : IsFirst(chunks, wanted, found[a])
<1> DEFINE m == Len(found)
<1>1. found \in Seq(Chunks) /\ \E f : FirstAt(chunks, wanted, found, n, f)  BY FirstOfEachIs
<1>2. PICK f : FirstAt(chunks, wanted, found, n, f)  BY <1>1
<1>3. m \in Nat /\ found \in [1..m -> Chunks]  BY <1>1
<1>4. \A a, b \in 1..m : found[a].model = found[b].model => a = b  BY <1>2, ModelsDiffer
<1>5. \A a \in 1..m : f[a] \in 1..n /\ found[a] = chunks[f[a]] /\ found[a] \in wanted
  BY <1>2 DEF FirstAt
<1>6. \A j \in 1..n : chunks[j] \in wanted => \E a \in 1..m : found[a].model = chunks[j].model
  BY <1>2 DEF FirstAt
<1>7. \A a \in 1..m : \A j \in 1..n : j < f[a] /\ chunks[j] \in wanted => chunks[j].model # found[a].model
  BY <1>2 DEF FirstAt
<1> HIDE DEF m
<1>8. {found[a].model : a \in 1..m} = Wanted(chunks, wanted)
  <2>1. Len(chunks) = n  OBVIOUS
  <2>2. \A a \in 1..m : found[a].model \in Wanted(chunks, wanted)  BY <1>5, <2>1 DEF Wanted
  <2>3. \A x \in Wanted(chunks, wanted) : \E a \in 1..m : found[a].model = x  BY <1>6, <2>1 DEF Wanted
  <2> QED  BY <2>2, <2>3
<1>9. Cardinality({found[a].model : a \in 1..m}) = m  BY <1>3, <1>4, ModelsCounted
<1>10. \A a \in 1..m : IsFirst(chunks, wanted, found[a])
  <2>1. Len(chunks) = n  OBVIOUS
  <2> QED  BY <1>5, <1>7, <2>1 DEF IsFirst
<1> QED  BY <1>3, <1>4, <1>8, <1>9, <1>10 DEF m

(* A list of models: some of the eligible, each once, as many as there are up to limit. *)
Lists(answer, eligible, limit) ==
  /\ Len(answer) \in Nat
  /\ {answer[i].model : i \in 1..Len(answer)} \subseteq eligible
  /\ Cardinality({answer[i].model : i \in 1..Len(answer)}) = Len(answer)
  /\ Len(answer) = Min({limit, Cardinality(eligible)})

(* The first chunks of a sequence of chunks of different models are such a list. *)
LEMMA CutLists ==
  ASSUME NEW m \in Nat, NEW found \in [1..m -> Chunks], NEW limit \in Nat, NEW eligible,
         \A a, b \in 1..m : found[a].model = found[b].model => a = b,
         {found[a].model : a \in 1..m} = eligible
  PROVE  Lists(Cut(found, limit), eligible, limit)
<1> DEFINE size == IF limit <= m THEN limit ELSE m
           answer == Cut(found, limit)
<1>1. size \in Nat /\ answer \in [1..size -> Chunks] /\ Len(answer) = size  BY CutIs
<1>2. \A i \in 1..size : i \in 1..m /\ answer[i] = found[i]  BY CutIs
<1>3. Cardinality(eligible) = m  BY ModelsCounted
<1>4. Min({limit, m}) = size  BY MinOfTwo
<1> HIDE DEF size, answer
<1>5. \A a, b \in 1..size : answer[a].model = answer[b].model => a = b  BY <1>2
<1>6. Cardinality({answer[i].model : i \in 1..size}) = size  BY <1>1, <1>5, ModelsCounted
<1>7. {answer[i].model : i \in 1..size} \subseteq eligible  BY <1>2
<1>8. Lists(answer, eligible, limit)  BY <1>1, <1>3, <1>4, <1>6, <1>7 DEF Lists
<1> QED  BY <1>8 DEF answer

(* The models a search by tag can list. *)
Tagged(backend, chunks) ==
  {chunks[j].model : j \in {i \in 1..Len(chunks) : HasTag(backend, chunks[i])}}

(* A search by tag lists the tagged models. *)
LEMMA CliTags ==
  ASSUME NEW n \in Nat, NEW chunks \in [1..n -> Chunks], n <= PageSize, NEW backend,
         NEW limit \in Nat \ {0}
  PROVE  Lists(SearchByTag(backend, chunks, limit), Tagged(backend, chunks), limit)
<1> DEFINE tagged == {c \in ToSet(chunks) : HasTag(backend, c)}
           found == FirstOfEach(chunks, tagged)
           eligible == Tagged(backend, chunks)
<1>1. Max({1, limit}) = limit  BY MaxOfTwo
<1>2. SearchByTag(backend, chunks, limit) = Cut(found, limit)
  BY <1>1, ListedIs DEF SearchByTag
<1>3. Wanted(chunks, tagged) = eligible
  <2>1. Len(chunks) = n  OBVIOUS
  <2>2. \A i \in 1..n : chunks[i] \in ToSet(chunks)  BY DEF ToSet
  <2> QED  BY <2>1, <2>2 DEF Wanted, Tagged
<1>4. /\ Len(found) \in Nat /\ found \in [1..Len(found) -> Chunks]
      /\ \A a, b \in 1..Len(found) : found[a].model = found[b].model => a = b
      /\ {found[a].model : a \in 1..Len(found)} = Wanted(chunks, tagged)
  <2> HIDE DEF tagged
  <2> QED  BY FirstsAreAll
<1> HIDE DEF found, tagged, eligible
<1>5. Lists(Cut(found, limit), eligible, limit)  BY <1>3, <1>4, CutLists
<1> QED  BY <1>2, <1>5 DEF eligible

-----------------------------------------------------------------------------
(* The query CLI: get_top_models. *)

(* The place of a model's first chunk. *)
PlaceOf(chunks, m) == Min({i \in 1..Len(chunks) : chunks[i].model = m})

(* It is where FirstOfEach found that model. *)
LEMMA PlaceIs ==
  ASSUME NEW n \in Nat, NEW chunks \in [1..n -> Chunks], NEW c, IsFirst(chunks, ToSet(chunks), c)
  PROVE  chunks[PlaceOf(chunks, c.model)] = c
<1> DEFINE same == {i \in 1..Len(chunks) : chunks[i].model = c.model}
<1>1. Len(chunks) = n /\ \A i \in 1..n : chunks[i] \in ToSet(chunks)  BY DEF ToSet
<1>2. PICK p \in 1..n :
        /\ c = chunks[p]
        /\ \A j \in 1..n : j < p /\ chunks[j] \in ToSet(chunks) => chunks[j].model # c.model
  BY <1>1 DEF IsFirst
<1>3. p \in same /\ \A i \in same : p <= i  BY <1>1, <1>2
<1>4. same \in SUBSET Int  BY <1>1
<1> HIDE DEF same
<1>5. Min(same) = p  BY <1>3, <1>4, MinIs
<1>6. PlaceOf(chunks, c.model) = p  BY <1>5 DEF PlaceOf, same
<1> QED  BY <1>2, <1>6

ModelsIn(answer) == {answer[i].model : i \in 1..Len(answer)}
Distinct(found) == \A a, b \in 1..Len(found) : found[a].model = found[b].model => a = b
HasDownloads(value, found) == \A a \in 1..Len(found) : value[a] = found[a].downloads

(* found by falling downloads, up to a limit. *)
LEMMA SortedLists ==
  ASSUME NEW m \in Nat, NEW found \in [1..m -> Chunks], NEW limit \in Nat, NEW eligible,
         Distinct(found), ModelsIn(found) = eligible,
         NEW value \in [1..m -> Int], HasDownloads(value, found),
         NEW answer, answer = Cut(Falling(found, value), limit)
  PROVE  /\ Lists(answer, eligible, limit)
         /\ \A a, b \in 1..m : found[a].model \in ModelsIn(answer) /\ found[b].model \notin ModelsIn(answer) =>
              found[a].downloads >= found[b].downloads
<1> DEFINE sorted == Falling(found, value)
           size == IF limit <= m THEN limit ELSE m
<1>1. PICK s : FallsBy(s, m, value) /\ \A r \in 1..m : sorted[r] = found[s[r]]  BY FallingIs
<1>2. sorted \in [1..m -> Chunks]  BY FallingIs
<1> HIDE DEF sorted
<1>3. /\ s \in [1..m -> 1..m] /\ \A r, t \in 1..m : s[r] = s[t] => r = t
      /\ \A a \in 1..m : \E r \in 1..m : s[r] = a
      /\ \A r, t \in 1..m : r < t => value[s[r]] >= value[s[t]]
  BY <1>1 DEF FallsBy
<1>4. \A r \in 1..m : s[r] \in 1..m /\ sorted[r] = found[s[r]]  BY <1>1, <1>3
<1>5. Len(found) = m  OBVIOUS
<1>6. \A r, t \in 1..m : sorted[r].model = sorted[t].model => r = t
  <2>1. \A r, t \in 1..m : found[s[r]].model = found[s[t]].model => s[r] = s[t]
    BY <1>4, <1>5 DEF Distinct
  <2>2. \A r, t \in 1..m : s[r] = s[t] => r = t  BY <1>3
  <2> HIDE DEF size
  <2>3. ASSUME NEW r \in 1..m, NEW t \in 1..m, sorted[r].model = sorted[t].model PROVE r = t
    <3>1. sorted[r] = found[s[r]] /\ sorted[t] = found[s[t]]  BY <1>4
    <3>2. found[s[r]].model = found[s[t]].model  BY <2>3, <3>1
    <3> QED  BY <2>1, <2>2, <3>2
  <2> QED  BY <2>3
<1>7. {sorted[r].model : r \in 1..m} = eligible
  <2>1. \A r \in 1..m : sorted[r].model \in eligible  BY <1>4, <1>5 DEF ModelsIn
  <2>2. \A a \in 1..m : \E r \in 1..m : sorted[r].model = found[a].model
    <3> TAKE a \in 1..m
    <3>1. PICK r \in 1..m : s[r] = a  BY <1>3
    <3>2. sorted[r] = found[a]  BY <1>4, <3>1
    <3> QED  BY <3>2
  <2>3. \A x \in eligible : \E a \in 1..m : found[a].model = x  BY <1>5 DEF ModelsIn
  <2> HIDE DEF size
  <2>4. {sorted[r].model : r \in 1..m} \subseteq eligible  BY <2>1
  <2>5. ASSUME NEW x \in eligible PROVE x \in {sorted[r].model : r \in 1..m}
    <3>1. PICK a \in 1..m : found[a].model = x  BY <2>3
    <3>2. PICK r \in 1..m : sorted[r].model = x  BY <2>2, <3>1
    <3> QED  BY <3>2
  <2> QED  BY <2>4, <2>5
<1>8. answer = Cut(sorted, limit)  BY DEF sorted
<1>9. Lists(answer, eligible, limit)
  <2> HIDE DEF size
  <2>1. Lists(Cut(sorted, limit), eligible, limit)  BY <1>2, <1>6, <1>7, CutLists
  <2> QED  BY <1>8, <2>1
<1>10. /\ size \in Nat /\ Len(answer) = size
      /\ \A i \in 1..size : i \in 1..m /\ answer[i] = sorted[i]
  BY <1>2, <1>8, CutIs
<1> HIDE DEF size
<1>11. ASSUME NEW a \in 1..m, NEW b \in 1..m,
              found[a].model \in ModelsIn(answer), found[b].model \notin ModelsIn(answer)
       PROVE  found[a].downloads >= found[b].downloads
  <2>1. PICK i \in 1..size : answer[i].model = found[a].model  BY <1>10, <1>11 DEF ModelsIn
  <2>2. PICK r \in 1..m : s[r] = b  BY <1>3
  <2>3. r \notin 1..size
    <3>1. sorted[r] = found[b]  BY <1>4, <2>2
    <3>2. \A j \in 1..size : answer[j].model \in ModelsIn(answer)  BY <1>10 DEF ModelsIn
    <3> QED  BY <1>10, <1>11, <3>1, <3>2
  <2>4. i \in 1..m /\ i < r  BY <1>10, <2>3
  <2>5. s[i] = a
    <3>1. found[s[i]].model = found[a].model /\ s[i] \in 1..m  BY <1>4, <1>10, <2>1, <2>4
    <3> QED  BY <1>5, <3>1 DEF Distinct
  <2>6. value[a] >= value[b]  BY <1>3, <2>2, <2>4, <2>5
  <2> QED  BY <1>5, <2>6 DEF HasDownloads
<1> QED  BY <1>9, <1>11

(* No model left out of answer has more downloads, by its first chunk, than one in it. *)
MostDownloaded(chunks, answer) ==
  \A x \in ModelsIn(answer), o \in Wanted(chunks, ToSet(chunks)) \ ModelsIn(answer) :
    chunks[PlaceOf(chunks, x)].downloads >= chunks[PlaceOf(chunks, o)].downloads

(* The top lists the most downloaded models. *)
LEMMA CliTops ==
  ASSUME NEW n \in Nat, NEW chunks \in [1..n -> Chunks], n <= PageSize, NEW backend,
         NEW limit \in Nat, NEW answer, answer = TopModels(backend, chunks, limit)
  PROVE  /\ Lists(answer, Wanted(chunks, ToSet(chunks)), limit)
         /\ MostDownloaded(chunks, answer)
<1> DEFINE found == FirstOfEach(chunks, ToSet(chunks))
           value == [i \in 1..Len(found) |-> found[i].downloads]
           eligible == Wanted(chunks, ToSet(chunks))
<1>1. answer = Cut(Falling(found, value), limit)  BY ListedIs DEF TopModels
<1>2. /\ Len(found) \in Nat /\ found \in [1..Len(found) -> Chunks]
      /\ \A a, b \in 1..Len(found) : found[a].model = found[b].model => a = b
      /\ {found[a].model : a \in 1..Len(found)} = eligible
  BY FirstsAreAll
<1>3. \A a \in 1..Len(found) : IsFirst(chunks, ToSet(chunks), found[a])  BY FirstsAreAll
<1> HIDE DEF found, eligible
<1>4. \A a \in 1..Len(found) : found[a] \in Chunks /\ found[a].downloads \in Int
  BY <1>2, InputsAssumption
<1>5. value \in [1..Len(found) -> Int] /\ \A a \in 1..Len(found) : value[a] = found[a].downloads
  BY <1>4
<1>6. Distinct(found) /\ ModelsIn(found) = eligible  BY <1>2 DEF Distinct, ModelsIn
<1>7. HasDownloads(value, found)  BY <1>5 DEF HasDownloads
<1> HIDE DEF value
<1>8. Lists(answer, eligible, limit)  BY <1>1, <1>2, <1>5, <1>6, <1>7, SortedLists
<1>9. \A a, b \in 1..Len(found) :
        found[a].model \in ModelsIn(answer) /\ found[b].model \notin ModelsIn(answer) =>
          found[a].downloads >= found[b].downloads
  BY <1>1, <1>2, <1>5, <1>6, <1>7, SortedLists
<1>10. \A a \in 1..Len(found) : chunks[PlaceOf(chunks, found[a].model)] = found[a]
  BY <1>3, PlaceIs
<1>11. ModelsIn(answer) \subseteq eligible  BY <1>8 DEF Lists, ModelsIn
<1>12. \A x \in eligible : \E a \in 1..Len(found) : found[a].model = x  BY <1>2
<1>13. ASSUME NEW x \in ModelsIn(answer), NEW o \in eligible \ ModelsIn(answer)
       PROVE  chunks[PlaceOf(chunks, x)].downloads >= chunks[PlaceOf(chunks, o)].downloads
  <2>1. PICK a \in 1..Len(found) : found[a].model = x  BY <1>11, <1>12
  <2>2. PICK b \in 1..Len(found) : found[b].model = o  BY <1>12
  <2> QED  BY <1>9, <1>10, <2>1, <2>2
<1> QED  BY <1>8, <1>13 DEF MostDownloaded, eligible

-----------------------------------------------------------------------------
(* The query CLI: every command. *)

(* A behavior is one call. *)
CliInv ==
  /\ call.op \in {"cli_search", "cli_tag", "cli_top"} =>
       (\E n \in Nat : call.chunks \in [1..n -> Chunks]) /\ call.limit \in Nat \ {0}
  /\ call.op = "cli_search" =>
       call.threshold \in Int /\ result = SearchSemantic(call.chunks, call.limit, call.threshold)
  /\ call.op = "cli_tag" => result = SearchByTag(call.backend, call.chunks, call.limit)
  /\ call.op = "cli_top" => result = TopModels(call.backend, call.chunks, call.limit)

(* Only a command of the CLI changes what CliInv speaks of. *)
LEMMA CliStep == CliInv /\ [Next]_vars => CliInv'
<1> SUFFICES ASSUME CliInv, [Next]_vars PROVE CliInv'
  OBVIOUS
<1>1. CASE QueryStore
  <2>1. PICK n \in 0..MaxChunks : \E chunks \in [1..n -> Chunks], backend \in {"parquet", "qdrant"}, limit \in 1..2 :
          \/ \E threshold \in 1..2 :
               /\ call' = [op |-> "cli_search", chunks |-> chunks, limit |-> limit, threshold |-> threshold]
               /\ result' = SearchSemantic(chunks, limit, threshold)
          \/ /\ call' = [op |-> "cli_tag", backend |-> backend, chunks |-> chunks, limit |-> limit]
             /\ result' = SearchByTag(backend, chunks, limit)
          \/ /\ call' = [op |-> "cli_top", backend |-> backend, chunks |-> chunks, limit |-> limit]
             /\ result' = TopModels(backend, chunks, limit)
    BY <1>1 DEF QueryStore
  <2>2. PICK chunks \in [1..n -> Chunks], backend \in {"parquet", "qdrant"}, limit \in 1..2 :
          \/ \E threshold \in 1..2 :
               /\ call' = [op |-> "cli_search", chunks |-> chunks, limit |-> limit, threshold |-> threshold]
               /\ result' = SearchSemantic(chunks, limit, threshold)
          \/ /\ call' = [op |-> "cli_tag", backend |-> backend, chunks |-> chunks, limit |-> limit]
             /\ result' = SearchByTag(backend, chunks, limit)
          \/ /\ call' = [op |-> "cli_top", backend |-> backend, chunks |-> chunks, limit |-> limit]
             /\ result' = TopModels(backend, chunks, limit)
    BY <2>1
  <2>3. n \in Nat /\ limit \in Nat \ {0} /\ \A t \in 1..2 : t \in Int  BY InputsAssumption
  <2>4. CASE \E threshold \in 1..2 :
               /\ call' = [op |-> "cli_search", chunks |-> chunks, limit |-> limit, threshold |-> threshold]
               /\ result' = SearchSemantic(chunks, limit, threshold)
    <3>1. PICK threshold \in 1..2 :
            /\ call' = [op |-> "cli_search", chunks |-> chunks, limit |-> limit, threshold |-> threshold]
            /\ result' = SearchSemantic(chunks, limit, threshold)
      BY <2>4
    <3>2. /\ call'.op = "cli_search" /\ call'.chunks = chunks /\ call'.limit = limit
          /\ call'.threshold = threshold
      BY <3>1
    <3> QED  BY <2>3, <3>1, <3>2 DEF CliInv
  <2>5. CASE /\ call' = [op |-> "cli_tag", backend |-> backend, chunks |-> chunks, limit |-> limit]
             /\ result' = SearchByTag(backend, chunks, limit)
    <3>1. /\ call'.op = "cli_tag" /\ call'.chunks = chunks /\ call'.limit = limit
          /\ call'.backend = backend
      BY <2>5
    <3> QED  BY <2>3, <2>5, <3>1 DEF CliInv
  <2>6. CASE /\ call' = [op |-> "cli_top", backend |-> backend, chunks |-> chunks, limit |-> limit]
             /\ result' = TopModels(backend, chunks, limit)
    <3>1. /\ call'.op = "cli_top" /\ call'.chunks = chunks /\ call'.limit = limit
          /\ call'.backend = backend
      BY <2>6
    <3> QED  BY <2>3, <2>6, <3>1 DEF CliInv
  <2> QED  BY <2>2, <2>4, <2>5, <2>6
<1>2. CASE ~QueryStore
  <2>1. CASE UNCHANGED vars  BY <2>1 DEF vars, CliInv
  <2>2. call'.op \notin {"cli_search", "cli_tag", "cli_top"} \/ UNCHANGED vars
    BY <1>2 DEF Next, Search, Filter, Parse, Chunk, Fetch, Score, Compare, Adjust, Report, Pool
  <2>3. CASE call'.op \notin {"cli_search", "cli_tag", "cli_top"}  BY <2>3 DEF CliInv
  <2> QED  BY <2>1, <2>2, <2>3
<1> QED  BY <1>1, <1>2

(* For any store, threshold and limit: a search of the CLI lists each model *)
(* once, by its best chunk, best first, and leaves out only what a full     *)
(* list or chunks of few models keep from it; the tag command (on Qdrant)   *)
(* and the top command list what a store of one page holds, and the top its *)
(* most downloaded models.                                                  *)
THEOREM CliListsBest == Spec => []CliListsTheBest
<1>1. Init => CliInv  BY DEF Init, CliInv
<1>2. CliInv => CliListsTheBest
  <2> SUFFICES ASSUME CliInv, call.op \in {"cli_search", "cli_tag", "cli_top"} PROVE CliListsTheBest
    BY DEF CliListsTheBest, CliSearchIsBestFirst, CliListsTheStore
  <2>1. PICK n \in Nat : call.chunks \in [1..n -> Chunks]  BY DEF CliInv
  <2>2. Len(call.chunks) = n /\ call.limit \in Nat \ {0}  BY <2>1 DEF CliInv
  <2>3. Stored = {call.chunks[i] : i \in 1..n}  BY <2>2 DEF Stored
  <2>4. CliSearchIsBestFirst
    <3> SUFFICES ASSUME call.op = "cli_search" PROVE CliSearchIsBestFirst
      BY DEF CliSearchIsBestFirst
    <3>1. call.threshold \in Int /\ result = SearchSemantic(call.chunks, call.limit, call.threshold)
      BY DEF CliInv
    <3>2. BestFirst(call.chunks, call.limit, call.threshold, result)
      BY <2>1, <2>2, <3>1, CliSearches
    <3>3. \A m : ScoresOf(call.chunks, m) = Scores(m)
      BY <2>2, <2>3 DEF ScoresOf, Scores
    <3>4. \A x : AtLeast(call.chunks, x) = {i \in 1..Len(call.chunks) : call.chunks[i].score >= x}
      BY DEF AtLeast
    <3>5. \A i, j \in 1..Len(result) : i < j =>
            result[i].model # result[j].model /\ result[i].score >= result[j].score
      BY <3>2 DEF BestFirst
    <3>6. \A i \in 1..Len(result) :
            result[i].score = Max(Scores(result[i].model)) /\ result[i].score >= call.threshold
      BY <3>2, <3>3 DEF BestFirst
    <3>7. ASSUME NEW c \in Stored, c.score >= call.threshold,
                 c.model \notin {result[i].model : i \in 1..Len(result)}
          PROVE  \/ Len(result) = call.limit
                 \/ Cardinality({i \in 1..Len(call.chunks) : call.chunks[i].score >= c.score})
                      > call.limit * Overfetch
      <4>1. PICK j \in 1..Len(call.chunks) : call.chunks[j] = c  BY <2>2, <2>3
      <4>2. \A i \in 1..Len(result) : result[i].model # call.chunks[j].model  BY <3>7, <4>1
      <4>3. \/ Len(result) = call.limit
            \/ Cardinality(AtLeast(call.chunks, call.chunks[j].score)) > call.limit * Overfetch
        BY <3>2, <3>7, <4>1, <4>2 DEF BestFirst
      <4> QED  BY <4>1, <4>3 DEF AtLeast
    <3> QED  BY <3>5, <3>6, <3>7 DEF CliSearchIsBestFirst, Quantify
  <2>5. CliListsTheStore
    <3> SUFFICES ASSUME call.op \in {"cli_tag", "cli_top"}, n <= PageSize,
                        call.op = "cli_tag" => call.backend = "qdrant"
                 PROVE  CliListsTheStore
      BY <2>2 DEF CliListsTheStore
    <3> DEFINE models == {result[i].model : i \in 1..Len(result)}
               eligible == {c.model : c \in {d \in Stored : call.op = "cli_tag" => d.tagged}}
    <3>1. CASE call.op = "cli_tag"
      <4>1. eligible = Tagged(call.backend, call.chunks)
        BY <2>2, <2>3, <3>1 DEF Tagged, HasTag
      <4>2. Lists(result, eligible, call.limit)
        <5>1. result = SearchByTag(call.backend, call.chunks, call.limit)  BY <3>1 DEF CliInv
        <5>2. Lists(SearchByTag(call.backend, call.chunks, call.limit),
                    Tagged(call.backend, call.chunks), call.limit)
          BY <2>1, <2>2, CliTags
        <5> QED  BY <4>1, <5>1, <5>2
      <4> HIDE DEF eligible
      <4> QED  BY <3>1, <4>2 DEF Lists, CliListsTheStore, eligible
    <3>2. CASE call.op = "cli_top"
      <4>1. eligible = Wanted(call.chunks, ToSet(call.chunks))
        <5>1. \A i \in 1..n : call.chunks[i] \in ToSet(call.chunks)  BY <2>2 DEF ToSet
        <5> QED  BY <2>2, <2>3, <3>2, <5>1 DEF Wanted
      <4>2. result = TopModels(call.backend, call.chunks, call.limit)  BY <3>2 DEF CliInv
      <4>3. /\ Lists(result, Wanted(call.chunks, ToSet(call.chunks)), call.limit)
            /\ MostDownloaded(call.chunks, result)
        BY <2>1, <2>2, <4>2, CliTops
      <4>4. \A x \in models, o \in eligible \ models :
              call.chunks[PlaceOf(call.chunks, x)].downloads >= call.chunks[PlaceOf(call.chunks, o)].downloads
        BY <4>1, <4>3 DEF MostDownloaded, ModelsIn
      <4>5. \A m : PlaceOf(call.chunks, m) = FirstOf(m)  BY DEF PlaceOf, FirstOf
      <4> QED  BY <3>2, <4>1, <4>3, <4>4, <4>5 DEF Lists, CliListsTheStore
    <3> QED  BY <3>1, <3>2
  <2> QED  BY <2>4, <2>5 DEF CliListsTheBest
<1> QED  BY <1>1, <1>2, CliStep, PTL DEF Spec

-----------------------------------------------------------------------------
(* holm: the order of the p-values. *)

(* s goes through the places up to n by rising p-value. *)
Rises(s, n, p) ==
  /\ s \in [1..n -> 1..n] /\ \A r, t \in 1..n : s[r] = s[t] => r = t
  /\ \A i \in 1..n : \E r \in 1..n : s[r] = i
  /\ \A r, t \in 1..n : r < t => p[s[r]] <= p[s[t]]

(* SortedIndices does. *)
LEMMA SortedIndicesRise ==
  ASSUME NEW n \in Nat, NEW p \in [1..n -> Nat]
  PROVE  Rises(SortedIndices(p), n, p)
<1> DEFINE R == {x \in (1..n) \X (1..n) : p[x[1]] < p[x[2]] \/ (p[x[1]] = p[x[2]] /\ x[1] < x[2])}
           Orderly(s) == \A r, t \in 1..n : r < t => p[s[r]] < p[s[t]] \/ (p[s[r]] = p[s[t]] /\ s[r] < s[t])
           order == CHOOSE s \in Bijection(1..n, 1..n) : Orderly(s)
<1>1. \A i, j \in 1..n : <<i, j>> \in R <=> p[i] < p[j] \/ (p[i] = p[j] /\ i < j)  OBVIOUS
<1>2. \A i \in 1..n : p[i] \in Int  OBVIOUS
<1> HIDE DEF R
<1>3. Orders(R, 1..n)
  <2>1. \A i, j, k \in 1..n : <<i, j>> \in R /\ <<j, k>> \in R => <<i, k>> \in R  BY <1>1, <1>2
  <2>2. \A i, j \in 1..n : i # j => <<i, j>> \in R \/ <<j, i>> \in R  BY <1>1, <1>2
  <2> QED  BY <2>1, <2>2 DEF Orders
<1>4. Cardinality(1..n) = n  BY FS_Interval
<1>5. PICK s : Sorted(s, 1..n, R)  BY <1>3, SortedExists
<1>6. s \in Bijection(1..n, 1..n) /\ \A r, t \in 1..n : r < t => <<s[r], s[t]>> \in R
  BY <1>4, <1>5 DEF Sorted
<1>7. \A r \in 1..n : s[r] \in 1..n  BY <1>6 DEF Bijection, Injection
<1>8. Orderly(s)  BY <1>1, <1>6, <1>7
<1>9. order \in Bijection(1..n, 1..n) /\ Orderly(order)
  <2> HIDE DEF Orderly
  <2> QED  BY <1>6, <1>8
<1>10. Len(p) = n  OBVIOUS
<1>11. SortedIndices(p) = order  BY <1>10 DEF SortedIndices
<1> HIDE DEF order
<1>12. \A r \in 1..n : order[r] \in 1..n  BY <1>9 DEF Bijection, Injection
<1>13. \A r, t \in 1..n : r < t => p[order[r]] <= p[order[t]]  BY <1>2, <1>9, <1>12
<1>14. Rises(order, n, p)  BY <1>9, <1>13 DEF Rises, Bijection, Injection, Surjection, IsInjective
<1> QED  BY <1>11, <1>14

(* The rank of a place. *)
LEMMA RankIs ==
  ASSUME NEW n \in Nat, NEW p, NEW s, Rises(s, n, p), NEW i \in 1..n
  PROVE  RankIn(s, i) \in 1..n /\ s[RankIn(s, i)] = i
<1>1. \E r \in 1..n : s[r] = i  BY DEF Rises
<1>2. DOMAIN s = 1..n  BY DEF Rises
<1> QED  BY <1>1, <1>2 DEF RankIn

(* The places from rank r on: as many as ranks. *)
From(s, n, r) == {s[t] : t \in r..n}

LEMMA RanksCounted ==
  ASSUME NEW n \in Nat, NEW p, NEW s, Rises(s, n, p), NEW r \in 1..n
  PROVE  Cardinality(From(s, n, r)) = n - r + 1
<1> DEFINE later == From(s, n, r)
           g == [t \in r..n |-> s[t]]
<1>1. r..n \subseteq 1..n  OBVIOUS
<1>2. \A t, u \in r..n : s[t] = s[u] => t = u  BY <1>1 DEF Rises
<1>3. g \in [r..n -> later] /\ \A t \in r..n : g[t] = s[t]  BY DEF From
<1>4. \A x \in later : \E t \in r..n : g[t] = x  BY DEF From
<1> HIDE DEF g, later
<1>5. g \in Bijection(r..n, later)
  BY <1>2, <1>3, <1>4 DEF Bijection, Injection, Surjection, IsInjective
<1>6. IsFiniteSet(r..n) /\ Cardinality(r..n) = n - r + 1  BY FS_Interval
<1>7. ExistsBijection(r..n, later)  BY <1>5 DEF ExistsBijection
<1>8. Cardinality(later) = n - r + 1  BY <1>6, <1>7, FS_Bijection
<1> QED  BY <1>8 DEF later

-----------------------------------------------------------------------------
(* holm: the adjusted p-values. *)

(* Products grow with their first factor. *)
LEMMA TimesGrows ==
  ASSUME NEW a \in Int, NEW b \in Int, a <= b, NEW c \in Nat
  PROVE  a * c <= b * c
<1> DEFINE T == {k \in Nat : a * k <= b * k}
<1>1. 0 \in T  OBVIOUS
<1>2. ASSUME NEW k \in Nat, k \in T PROVE k + 1 \in T
  <2>1. a * (k + 1) = a * k + a /\ b * (k + 1) = b * k + b  OBVIOUS
  <2>2. a * k \in Int /\ b * k \in Int  OBVIOUS
  <2> QED  BY <1>2, <2>1, <2>2
<1> HIDE DEF T
<1>3. c \in T  BY <1>1, <1>2, SetInduction
<1> QED  BY <1>3 DEF T

(* The scaled p-values up to a rank are at most alpha. *)
ScaledUpTo(p, s, last, alpha) ==
  \A r \in 1..last : (Len(p) - r + 1) * p[s[r]] <= alpha

(* An adjusted p-value is at most alpha when the scaled ones up to its rank are. *)
LEMMA AdjustedIs ==
  ASSUME NEW n \in Nat, NEW p \in [1..n -> Nat], NEW i \in 1..n, NEW alpha \in Int, alpha < Unit
  PROVE  Holm(p)[i] <= alpha <=> ScaledUpTo(p, SortedIndices(p), RankIn(SortedIndices(p), i), alpha)
<1> DEFINE s == SortedIndices(p)
           last == RankIn(s, i)
           f == [r \in 1..last |-> (n - r + 1) * p[s[r]]]
           V == {f[r] : r \in 1..last}
<1>1. Rises(s, n, p)  BY SortedIndicesRise
<1>2. last \in 1..n  BY <1>1, RankIs
<1>3. Len(p) = n  OBVIOUS
<1>4. V = {(n - r + 1) * p[s[r]] : r \in 1..last}  OBVIOUS
<1>5. Holm(p)[i] = Min({Unit, Max(V)})
  <2>1. Holm(p)[i] = Min({Unit, Max({(n - r + 1) * p[s[r]] : r \in 1..last})})
    BY <1>3 DEF Holm
  <2> QED  BY <1>4, <2>1
<1> HIDE DEF s, last
<1>6. f \in [1..last -> Int]
  <2>1. \A r \in 1..last : r \in 1..n  BY <1>2
  <2>2. \A r \in 1..n : s[r] \in 1..n  BY <1>1 DEF Rises
  <2>3. \A r \in 1..last : n - r + 1 \in Int /\ p[s[r]] \in Int  BY <1>2, <2>1, <2>2
  <2>4. \A r \in 1..last : (n - r + 1) * p[s[r]] \in Int  BY <2>3
  <2> QED  BY <2>4
<1>7. \A r \in 1..last : f[r] = (n - r + 1) * p[s[r]]  OBVIOUS
<1> HIDE DEF f
<1>8. last \in Nat /\ 1..last \in SUBSET (1..last) /\ 1..last # {}
  <2>1. 1 \in 1..last /\ last \in Nat  BY <1>2
  <2> QED  BY <2>1
<1>9. Max(V) \in V /\ \A x \in V : x <= Max(V)  BY <1>6, <1>8, MaxOfImage
<1>10. \A r \in 1..last : f[r] \in Int /\ f[r] \in V  BY <1>6
<1>11. Max(V) \in Int /\ \E r \in 1..last : Max(V) = f[r]  BY <1>6, <1>9
<1>12. \A r \in 1..last : f[r] <= Max(V)  BY <1>9
<1> DEFINE top == Max(V)
<1>13. top \in Int /\ (\E r \in 1..last : top = f[r]) /\ \A r \in 1..last : f[r] <= top
  BY <1>11, <1>12
<1> HIDE DEF top, V
<1>14. Unit \in Int  BY ScoresAssumption
<1>15. Min({Unit, top}) = IF Unit <= top THEN Unit ELSE top  BY <1>13, <1>14, MinOfTwo
<1>16. Holm(p)[i] <= alpha <=> top <= alpha
  <2>1. Holm(p)[i] = Min({Unit, top})  BY <1>5 DEF top
  <2> QED  BY <1>13, <1>14, <1>15, <2>1
<1>17. top <= alpha <=> \A r \in 1..last : f[r] <= alpha  BY <1>10, <1>13
<1>18. (\A r \in 1..last : f[r] <= alpha) <=> \A r \in 1..last : (n - r + 1) * p[s[r]] <= alpha
  BY <1>7
<1> QED  BY <1>3, <1>16, <1>17, <1>18 DEF ScaledUpTo, s, last

AtLeastAs(p, j) == {k \in 1..Len(p) : p[k] >= p[j]}

(* Every p-value up to x is small enough for all those from it on. *)
Rejects(p, x, alpha) ==
  \A j \in 1..Len(p) : p[j] <= x => Cardinality(AtLeastAs(p, j)) * p[j] <= alpha

(* This is what a step-down procedure at level alpha rejects. *)
LEMMA StepDown ==
  ASSUME NEW n \in Nat, NEW p \in [1..n -> Nat], NEW s, Rises(s, n, p), NEW last \in 1..n,
         NEW alpha \in Int
  PROVE  ScaledUpTo(p, s, last, alpha) <=> Rejects(p, p[s[last]], alpha)
<1>1. Len(p) = n /\ \A j \in 1..n : p[j] \in Nat  OBVIOUS
<1>2. /\ \A r \in 1..n : s[r] \in 1..n
      /\ \A j \in 1..n : \E r \in 1..n : s[r] = j
      /\ \A r, t \in 1..n : r <= t => p[s[r]] <= p[s[t]]
  <2>1. /\ \A r \in 1..n : s[r] \in 1..n
        /\ \A j \in 1..n : \E r \in 1..n : s[r] = j
        /\ \A r, t \in 1..n : r < t => p[s[r]] <= p[s[t]]
    BY DEF Rises
  <2>2. ASSUME NEW r \in 1..n, NEW t \in 1..n, r <= t PROVE p[s[r]] <= p[s[t]]
    <3>1. p[s[r]] \in Nat  BY <1>1, <2>1
    <3>2. CASE r = t  BY <3>1, <3>2
    <3>3. CASE r < t  BY <2>1, <3>3
    <3> QED  BY <2>2, <3>2, <3>3
  <2> QED  BY <2>1, <2>2
<1>3. \A j \in 1..n : IsFiniteSet(AtLeastAs(p, j)) /\ Cardinality(AtLeastAs(p, j)) \in Nat
  <2> TAKE j \in 1..n
  <2>1. IsFiniteSet(1..n)  BY FS_Interval
  <2>2. AtLeastAs(p, j) \subseteq 1..n  BY <1>1 DEF AtLeastAs
  <2>3. IsFiniteSet(AtLeastAs(p, j))  BY <2>1, <2>2, FS_Subset
  <2> QED  BY <2>3, FS_CardinalityType
<1>4. ASSUME \A r \in 1..last : (n - r + 1) * p[s[r]] <= alpha,
             NEW j \in 1..n, p[j] <= p[s[last]]
      PROVE  Cardinality(AtLeastAs(p, j)) * p[j] <= alpha
  <2> DEFINE same == {r \in 1..n : p[s[r]] = p[j]}
  <2>1. same \in SUBSET Nat /\ same # {}
    <3>1. PICK r \in 1..n : s[r] = j  BY <1>2
    <3> QED  BY <3>1
  <2>2. PICK r \in same : \A t \in same : r <= t  BY <2>1, LeastIs
  <2>3. r \in 1..n /\ p[s[r]] = p[j] /\ \A t \in 1..n : t < r => p[s[t]] # p[j]  BY <2>2
  <2> HIDE DEF same
  <2>4. r <= last
    <3> SUFFICES ASSUME last < r PROVE FALSE
      BY <2>3
    <3>1. p[s[last]] <= p[s[r]]
      <4>1. last <= r  BY <2>3
      <4> QED  BY <1>2, <2>3, <4>1
    <3>2. s[last] \in 1..n  BY <1>2
    <3>3. p[s[last]] \in Nat /\ p[j] \in Nat  BY <1>1, <3>2
    <3>4. p[s[last]] = p[j]  BY <1>4, <2>3, <3>1, <3>3
    <3> QED  BY <2>3, <3>4
  <2>5. AtLeastAs(p, j) = From(s, n, r)
    <3>1. ASSUME NEW k \in AtLeastAs(p, j) PROVE k \in From(s, n, r)
      <4>1. k \in 1..n /\ p[k] >= p[j]  BY <1>1 DEF AtLeastAs
      <4>2. PICK t \in 1..n : s[t] = k  BY <1>2, <4>1
      <4>3. ~(t < r)
        <5> SUFFICES ASSUME t < r PROVE FALSE
          OBVIOUS
        <5>1. t <= r  BY <2>3
        <5>2. p[s[t]] <= p[s[r]]  BY <1>2, <2>3, <5>1
        <5>3. p[k] \in Nat /\ p[j] \in Nat  BY <1>1, <4>1
        <5>4. p[s[t]] = p[j]  BY <2>3, <4>1, <4>2, <5>2, <5>3
        <5> QED  BY <2>3, <5>4
      <4>4. t \in r..n  BY <2>3, <4>3
      <4> QED  BY <4>2, <4>4 DEF From
    <3>2. ASSUME NEW t \in r..n PROVE s[t] \in AtLeastAs(p, j)
      <4>1. t \in 1..n /\ r <= t  BY <2>3
      <4>2. p[s[r]] <= p[s[t]]  BY <1>2, <2>3, <4>1
      <4> QED  BY <1>1, <1>2, <2>3, <4>1, <4>2 DEF AtLeastAs
    <3> QED  BY <3>1, <3>2 DEF From
  <2>6. Cardinality(AtLeastAs(p, j)) = n - r + 1  BY <2>3, <2>5, RanksCounted
  <2> QED  BY <1>4, <2>3, <2>4, <2>6
<1>5. ASSUME \A j \in 1..n : p[j] <= p[s[last]] => Cardinality(AtLeastAs(p, j)) * p[j] <= alpha,
             NEW r \in 1..last
      PROVE  (n - r + 1) * p[s[r]] <= alpha
  <2> DEFINE j == s[r]
             later == From(s, n, r)
             d == n - r + 1
             c == Cardinality(AtLeastAs(p, j))
  <2>1. r \in 1..n /\ j \in 1..n  BY <1>2
  <2>2. p[j] <= p[s[last]]
    <3>1. r <= last  OBVIOUS
    <3> QED  BY <1>2, <2>1, <3>1
  <2>3. later \subseteq AtLeastAs(p, j)
    <3>1. ASSUME NEW t \in r..n PROVE s[t] \in AtLeastAs(p, j)
      <4>1. t \in 1..n /\ r <= t  BY <2>1
      <4>2. p[s[r]] <= p[s[t]]  BY <1>2, <2>1, <4>1
      <4> QED  BY <1>1, <1>2, <2>1, <4>1, <4>2 DEF AtLeastAs
    <3> QED  BY <3>1 DEF From
  <2>4. Cardinality(later) = d  BY <2>1, RanksCounted
  <2> HIDE DEF later, j
  <2>5. d <= c  BY <1>3, <2>1, <2>3, <2>4, FS_Subset
  <2>6. c * p[j] <= alpha  BY <1>5, <2>1, <2>2
  <2>7. c \in Nat /\ p[j] \in Nat /\ d \in Int  BY <1>1, <1>3, <2>1
  <2> HIDE DEF c, d
  <2>8. d * p[j] <= c * p[j]  BY <2>5, <2>7, TimesGrows
  <2>9. d * p[j] \in Int /\ c * p[j] \in Int  BY <2>7
  <2>10. d * p[j] <= alpha  BY <2>6, <2>8, <2>9
  <2> QED  BY <2>10 DEF j, d
<1> QED  BY <1>1, <1>4, <1>5 DEF ScaledUpTo, Rejects

(* A behavior is one call. *)
HolmInv ==
  call.op = "holm" => (\E n \in Nat : call.p \in [1..n -> Nat]) /\ result = Holm(call.p)

(* Only an adjustment changes what HolmInv speaks of. *)
LEMMA HolmStep == HolmInv /\ [Next]_vars => HolmInv'
<1> SUFFICES ASSUME HolmInv, [Next]_vars PROVE HolmInv'
  OBVIOUS
<1>1. CASE Adjust
  <2>1. PICK n \in 1..MaxSamples : \E p \in [1..n -> PValues] :
          call' = [op |-> "holm", p |-> p] /\ result' = Holm(p)
    BY <1>1 DEF Adjust
  <2>2. PICK p \in [1..n -> PValues] : call' = [op |-> "holm", p |-> p] /\ result' = Holm(p)
    BY <2>1
  <2>3. n \in Nat /\ p \in [1..n -> Nat]
    <3>1. PValues \subseteq Nat /\ n \in Nat  BY InputsAssumption
    <3>2. \A k \in 1..n : p[k] \in Nat  BY <3>1
    <3>3. p = [k \in 1..n |-> p[k]]  OBVIOUS
    <3> QED  BY <3>1, <3>2, <3>3
  <2>4. call'.p = p  BY <2>2
  <2> QED  BY <2>2, <2>3, <2>4 DEF HolmInv
<1>2. CASE ~Adjust
  <2>1. CASE UNCHANGED vars  BY <2>1 DEF vars, HolmInv
  <2>2. call'.op # "holm" \/ UNCHANGED vars
    BY <1>2 DEF Next, Search, Filter, Parse, Chunk, Fetch, Score, Compare, Report, Pool, QueryStore
  <2>3. CASE call'.op # "holm"  BY <2>3 DEF HolmInv
  <2> QED  BY <2>1, <2>2, <2>3
<1> QED  BY <1>1, <1>2

(* For any p-values and any level alpha: an adjusted p-value is at most     *)
(* alpha exactly when Holm's step-down procedure at that level rejects.     *)
THEOREM HolmSteps == Spec => []HolmIsStepDown
<1>1. Init => HolmInv  BY DEF Init, HolmInv
<1>2. HolmInv => HolmIsStepDown
  <2> SUFFICES ASSUME HolmInv, call.op = "holm",
                      NEW alpha \in 1..(Unit - 1), NEW i \in 1..Len(call.p)
               PROVE  result[i] <= alpha <=>
                        \A j \in 1..Len(call.p) : call.p[j] <= call.p[i] =>
                          Cardinality({k \in 1..Len(call.p) : call.p[k] >= call.p[j]}) * call.p[j] <= alpha
    BY DEF HolmIsStepDown
  <2>1. PICK n \in Nat : call.p \in [1..n -> Nat]  BY DEF HolmInv
  <2>2. Len(call.p) = n /\ result = Holm(call.p)  BY <2>1 DEF HolmInv
  <2>3. alpha \in Int /\ alpha < Unit  BY ScoresAssumption
  <2> DEFINE s == SortedIndices(call.p)
             last == RankIn(s, i)
  <2>4. Rises(s, n, call.p)  BY <2>1, SortedIndicesRise
  <2>5. last \in 1..n /\ s[last] = i  BY <2>2, <2>4, RankIs
  <2>6. result[i] <= alpha <=> ScaledUpTo(call.p, s, last, alpha)
    BY <2>1, <2>2, <2>3, AdjustedIs
  <2>7. ScaledUpTo(call.p, s, last, alpha) <=> Rejects(call.p, call.p[s[last]], alpha)
    BY <2>1, <2>3, <2>4, <2>5, StepDown
  <2> HIDE DEF s, last
  <2> QED  BY <2>5, <2>6, <2>7 DEF Rejects, AtLeastAs
<1> QED  BY <1>1, <1>2, HolmStep, PTL DEF Spec

-----------------------------------------------------------------------------
(* exact_sign_flip_p: sums of values with signs. *)

(* The sum of the values of a function on a set of positions. *)
LEMMA SumOverIs ==
  ASSUME NEW n \in Nat, NEW f, NEW g, SumsOf(g, n, f), NEW D \in SUBSET (1..n)
  PROVE  SumOver([x \in D |-> f[x]]) = g[D]
<1> DEFINE h == [x \in D |-> f[x]]
           it == CHOOSE it : it = [s \in SUBSET D |-> IF s = {} THEN 0
                                     ELSE h[CHOOSE x \in s : TRUE] + it[s \ {CHOOSE x \in s : TRUE}]]
<1>1. SumOver(h) = it[D]
  <2>1. DOMAIN h = D  OBVIOUS
  <2> HIDE DEF h
  <2> QED  BY <2>1 DEF SumOver, MapThenSumSet, MapThenFoldSet
<1>2. it = CHOOSE it_1 : SumFold(it_1, D, h)  BY DEF SumFold, Choice
<1>3. \A i : SumFold(i, D, h) <=> SumFold(i, D, f)
  <2> TAKE i
  <2>1. \A s \in SUBSET D : s # {} => h[Choice(s)] = f[Choice(s)]  BY DEF Choice
  <2>2. [s \in SUBSET D |-> IF s = {} THEN 0 ELSE h[Choice(s)] + i[s \ {Choice(s)}]]
         = [s \in SUBSET D |-> IF s = {} THEN 0 ELSE f[Choice(s)] + i[s \ {Choice(s)}]]
    <3> HIDE DEF h
    <3> QED  BY <2>1
  <2> HIDE DEF h
  <2> QED  BY <2>2 DEF SumFold
<1>4. /\ \E i : SumFold(i, D, f)
      /\ \A i : SumFold(i, D, f) => i[D] = g[D]
  BY SumFoldIs
<1> HIDE DEF h, it
<1>5. it[D] = g[D]  BY <1>2, <1>3, <1>4, Zenon
<1> QED  BY <1>1, <1>5 DEF h

(* The sum of the first k values. *)
First(k, f) == SumOver([x \in 1..k |-> f[x]])

LEMMA FirstSums ==
  ASSUME NEW n \in Nat, NEW f \in [1..n -> Int]
  PROVE  /\ SumOver(f) = First(n, f) /\ First(0, f) = 0
         /\ \A k \in 0..n : First(k, f) \in Int
         /\ \A k \in 0..(n - 1) : First(k + 1, f) = First(k, f) + f[k + 1]
<1>1. PICK g : SumsOf(g, n, f)  BY SumsExist
<1>2. ASSUME NEW k \in 0..n PROVE First(k, f) = g[1..k] /\ g[1..k] \in Int
  <2>1. 1..k \in SUBSET (1..n)  OBVIOUS
  <2>2. SumOver([x \in 1..k |-> f[x]]) = g[1..k]  BY <1>1, <2>1, SumOverIs
  <2>3. g[1..k] \in Int  BY <1>1, <2>1 DEF SumsOf
  <2> QED  BY <2>2, <2>3 DEF First
<1>3. First(0, f) = 0
  <2>1. 0 \in 0..n /\ 1..0 = {}  OBVIOUS
  <2>2. First(0, f) = g[{}]  BY <1>2, <2>1
  <2> QED  BY <1>1, <2>2 DEF SumsOf
<1>4. ASSUME NEW k \in 0..(n - 1) PROVE First(k + 1, f) = First(k, f) + f[k + 1]
  <2>1. k \in Nat /\ k \in 0..n /\ k + 1 \in 0..n /\ k + 1 \in 1..(k + 1) /\ k + 1 \in 1..n  OBVIOUS
  <2>2. (1..(k + 1)) \ {k + 1} = 1..k  BY <2>1, MaxOfRange
  <2>3. 1..(k + 1) \in SUBSET (1..n)  BY <2>1
  <2>6. \A s \in SUBSET (1..n) : \A x \in s : g[s] = f[x] + g[s \ {x}]  BY <1>1 DEF SumsOf
  <2>4. g[1..(k + 1)] = f[k + 1] + g[1..k]
    <3>1. g[1..(k + 1)] = f[k + 1] + g[(1..(k + 1)) \ {k + 1}]  BY <2>1, <2>3, <2>6
    <3> QED  BY <2>2, <3>1
  <2>5. f[k + 1] \in Int  BY <2>1
  <2> QED  BY <1>2, <2>1, <2>4, <2>5
<1>5. f = [x \in 1..n |-> f[x]]  OBVIOUS
<1> QED  BY <1>2, <1>3, <1>4, <1>5 DEF First

(* One more value of _signed_sums: its plus and its minus. *)
Double(sums, v) == [i \in 1..Len(sums) |-> sums[i] + v] \o [i \in 1..Len(sums) |-> sums[i] - v]

(* Its loop: r holds the sums after each value. *)
Doubles(r, n, v) ==
  /\ r \in [0..n -> Seq(Int)] /\ r[0] = <<0>>
  /\ \A k \in 0..(n - 1) : r[k + 1] = Double(r[k], v[k + 1])

LEMMA DoubleIs ==
  ASSUME NEW sums \in Seq(Int), NEW v \in Int
  PROVE  LET m == Len(sums) IN
         /\ Double(sums, v) \in Seq(Int) /\ Len(Double(sums, v)) = m + m
         /\ \A i \in 1..m : Double(sums, v)[i] = sums[i] + v /\ Double(sums, v)[i + m] = sums[i] - v
<1> DEFINE m == Len(sums)
           up == [i \in 1..m |-> sums[i] + v]
           down == [i \in 1..m |-> sums[i] - v]
<1>1. m \in Nat /\ \A i \in 1..m : sums[i] \in Int  OBVIOUS
<1>2. up \in Seq(Int) /\ down \in Seq(Int) /\ Len(up) = m /\ Len(down) = m
  <2> HIDE DEF m
  <2> QED  BY <1>1
<1>3. \A i \in 1..m : up[i] = sums[i] + v /\ down[i] = sums[i] - v  OBVIOUS
<1>4. Double(sums, v) = up \o down  BY DEF Double
<1> HIDE DEF up, down, m
<1>5. /\ up \o down \in Seq(Int) /\ Len(up \o down) = m + m
      /\ \A i \in 1..(m + m) : (up \o down)[i] = IF i <= m THEN up[i] ELSE down[i - m]
  <2>1. /\ up \o down \in Seq(Int) /\ Len(up \o down) = Len(up) + Len(down)
        /\ \A i \in 1..(Len(up) + Len(down)) :
             (up \o down)[i] = IF i <= Len(up) THEN up[i] ELSE down[i - Len(up)]
    BY <1>2, ConcatProperties
  <2> QED  BY <1>2, <2>1
<1>6. ASSUME NEW i \in 1..m
      PROVE  (up \o down)[i] = up[i] /\ (up \o down)[i + m] = down[i]
  <2>1. i \in 1..(m + m) /\ i <= m /\ i + m \in 1..(m + m) /\ ~(i + m <= m) /\ (i + m) - m = i  BY <1>1
  <2> QED  BY <1>5, <2>1
<1> QED  BY <1>3, <1>4, <1>5, <1>6 DEF m

LEMMA SignedSumsLoop ==
  ASSUME NEW n \in Nat, NEW v \in [1..n -> Int]
  PROVE  \E r : Doubles(r, n, v) /\ SignedSums(v) = r[n]
<1> DEFINE Chosen == CHOOSE it : it = [s \in SUBSET (DOMAIN v) |->
                       IF s = {} THEN <<0>> ELSE Double(it[s \ {Max(s)}], v[Max(s)])]
           F == [x \in Seq(Int) \X (1..n) |-> Double(x[1], v[x[2]])]
<1>1. SignedSums(v) = Chosen[DOMAIN v]
  BY DEF SignedSums, Double, FoldLeft, MapThenFoldSet
<1>2. DOMAIN v = 1..n /\ \A i \in 1..n : v[i] \in Int  OBVIOUS
<1>3. F \in [Seq(Int) \X (1..n) -> Seq(Int)]
  <2>1. \A x \in Seq(Int) \X (1..n) : x[1] \in Seq(Int) /\ v[x[2]] \in Int  OBVIOUS
  <2>2. \A x \in Seq(Int) \X (1..n) : Double(x[1], v[x[2]]) \in Seq(Int)  BY <2>1, DoubleIs
  <2> QED  BY <2>2
<1>4. <<0>> \in Seq(Int)  OBVIOUS
<1>5. PICK it : FoldOf(it, n, Seq(Int), <<0>>, F)
  <2> HIDE DEF F
  <2> QED  BY <1>3, <1>4, FoldExists
<1>6. \A s \in SUBSET (1..n) : it[s] \in Seq(Int) /\
        it[s] = IF s = {} THEN <<0>> ELSE Double(it[s \ {Max(s)}], v[Max(s)])
  <2> SUFFICES ASSUME NEW s \in SUBSET (1..n), s # {}
               PROVE  it[s] = Double(it[s \ {Max(s)}], v[Max(s)])
    BY <1>5 DEF FoldOf
  <2>1. Max(s) \in 1..n
    <3>1. s \in SUBSET (0..n)  OBVIOUS
    <3> QED  BY <3>1, MaxOfNumbers
  <2>2. <<it[s \ {Max(s)}], Max(s)>> \in Seq(Int) \X (1..n)  BY <1>5, <2>1 DEF FoldOf
  <2>3. F[<<it[s \ {Max(s)}], Max(s)>>] = Double(it[s \ {Max(s)}], v[Max(s)])  BY <2>2
  <2> QED  BY <1>5, <2>3 DEF FoldOf
<1>7. it = [s \in SUBSET (DOMAIN v) |-> IF s = {} THEN <<0>> ELSE Double(it[s \ {Max(s)}], v[Max(s)])]
  BY <1>2, <1>5, <1>6 DEF FoldOf
<1>8. Chosen = [s \in SUBSET (DOMAIN v) |->
                  IF s = {} THEN <<0>> ELSE Double(Chosen[s \ {Max(s)}], v[Max(s)])]
  BY <1>7
<1> HIDE DEF Chosen
<1> DEFINE r == [k \in 0..n |-> Chosen[1..k]]
<1>9. Chosen[{}] = <<0>>  BY <1>8
<1>10. ASSUME NEW k \in 0..(n - 1) PROVE Chosen[1..(k + 1)] = Double(Chosen[1..k], v[k + 1])
  <2>1. k \in Nat  OBVIOUS
  <2>2. Max(1..(k + 1)) = k + 1 /\ (1..(k + 1)) \ {k + 1} = 1..k  BY <2>1, MaxOfRange
  <2>3. 1..(k + 1) \in SUBSET (DOMAIN v) /\ 1..(k + 1) # {}
    <3>1. 1 \in 1..(k + 1) /\ 1..(k + 1) \subseteq 1..n  OBVIOUS
    <3> QED  BY <1>2, <3>1
  <2>4. Chosen[1..(k + 1)] = Double(Chosen[(1..(k + 1)) \ {Max(1..(k + 1))}], v[Max(1..(k + 1))])
    BY <1>8, <2>3
  <2> QED  BY <2>2, <2>4
<1> DEFINE T == {k \in Nat : k <= n => Chosen[1..k] \in Seq(Int)}
<1>11. 0 \in T
  <2>1. 1..0 = {}  OBVIOUS
  <2> QED  BY <1>4, <1>9, <2>1
<1>12. ASSUME NEW k \in Nat, k \in T PROVE k + 1 \in T
  <2> SUFFICES ASSUME k + 1 <= n PROVE Chosen[1..(k + 1)] \in Seq(Int)
    OBVIOUS
  <2>1. k \in 0..(n - 1) /\ Chosen[1..k] \in Seq(Int) /\ v[k + 1] \in Int  BY <1>12
  <2>2. Double(Chosen[1..k], v[k + 1]) \in Seq(Int)  BY <2>1, DoubleIs
  <2> QED  BY <1>10, <2>1, <2>2
<1>13. Nat \subseteq T
  <2> HIDE DEF T
  <2> QED  BY <1>11, <1>12, SetInduction
<1>14. r \in [0..n -> Seq(Int)]
  <2>1. \A k \in 0..n : Chosen[1..k] \in Seq(Int)  BY <1>13
  <2> QED  BY <2>1
<1>15. r[0] = <<0>> /\ r[n] = SignedSums(v)
  <2>1. 1..0 = {} /\ 0 \in 0..n /\ n \in 0..n  OBVIOUS
  <2> QED  BY <1>1, <1>2, <1>9, <2>1
<1>16. \A k \in 0..(n - 1) : r[k + 1] = Double(r[k], v[k + 1])
  <2> TAKE k \in 0..(n - 1)
  <2>1. k \in 0..n /\ k + 1 \in 0..n  OBVIOUS
  <2>2. r[k + 1] = Chosen[1..(k + 1)] /\ r[k] = Chosen[1..k]  BY <2>1
  <2> HIDE DEF r
  <2> QED  BY <1>10, <2>2
<1> HIDE DEF r
<1>17. Doubles(r, n, v)  BY <1>14, <1>15, <1>16 DEF Doubles
<1> QED  BY <1>15, <1>17

-----------------------------------------------------------------------------
(* exact_sign_flip_p: the sums of a half are one for each of its assignments. *)

(* Assignments of a sign to each of k values, and the sum they give. *)
SignsOf(k) == [1..k -> {1, -1}]
Flipped(signs, v, k) == SumOver([i \in 1..k |-> signs[i] * v[i]])

(* One sign more. *)
WithSign(signs, k, x) == [j \in 1..(k + 1) |-> IF j = k + 1 THEN x ELSE signs[j]]

LEMMA SignTimes ==
  ASSUME NEW x \in {1, -1}, NEW v \in Int
  PROVE  x * v = IF x = 1 THEN v ELSE -v
<1>1. CASE x = 1  BY <1>1
<1>2. CASE x = -1  BY <1>2
<1> QED  BY <1>1, <1>2

LEMMA FlippedIs ==
  ASSUME NEW k \in Nat, NEW v, \A i \in 1..k : v[i] \in Int, NEW signs, \A i \in 1..k : signs[i] \in {1, -1}
  PROVE  Flipped(signs, v, k) \in Int /\ (k = 0 => Flipped(signs, v, k) = 0)
<1> DEFINE f == [i \in 1..k |-> signs[i] * v[i]]
<1>1. f \in [1..k -> Int]
  <2>1. \A i \in 1..k : signs[i] * v[i] \in Int
    <3> TAKE i \in 1..k
    <3>1. signs[i] \in {1, -1} /\ v[i] \in Int  OBVIOUS
    <3> QED  BY <3>1, SignTimes
  <2> QED  BY <2>1
<1> HIDE DEF f
<1>2. SumOver(f) = First(k, f) /\ First(0, f) = 0 /\ \A j \in 0..k : First(j, f) \in Int
  BY <1>1, FirstSums
<1>3. k \in 0..k  OBVIOUS
<1>4. SumOver(f) \in Int /\ (k = 0 => SumOver(f) = 0)  BY <1>2, <1>3
<1> QED  BY <1>4 DEF Flipped, f

LEMMA FlippedGrows ==
  ASSUME NEW k \in Nat, NEW v, \A i \in 1..(k + 1) : v[i] \in Int, NEW signs \in SignsOf(k), NEW x \in {1, -1}
  PROVE  /\ WithSign(signs, k, x) \in SignsOf(k + 1)
         /\ Flipped(WithSign(signs, k, x), v, k + 1) = Flipped(signs, v, k) + x * v[k + 1]
<1> DEFINE s == WithSign(signs, k, x)
           f == [i \in 1..(k + 1) |-> s[i] * v[i]]
<1>1. k + 1 \in 1..(k + 1) /\ \A i \in 1..k : i \in 1..(k + 1) /\ i # k + 1 /\ signs[i] \in {1, -1}
  BY DEF SignsOf
<1>2. s[k + 1] = x /\ \A i \in 1..k : s[i] = signs[i]  BY <1>1 DEF WithSign
<1>3. s \in SignsOf(k + 1)
  <2>1. \A i \in 1..(k + 1) : i = k + 1 \/ i \in 1..k  OBVIOUS
  <2>2. \A i \in 1..(k + 1) : s[i] \in {1, -1}
    <3> HIDE DEF s
    <3> QED  BY <1>1, <1>2, <2>1
  <2>3. s = [i \in 1..(k + 1) |-> s[i]]  BY DEF WithSign
  <2> HIDE DEF s
  <2> QED  BY <2>2, <2>3 DEF SignsOf
<1> HIDE DEF s
<1>4. f \in [1..(k + 1) -> Int]
  <2>1. \A i \in 1..(k + 1) : s[i] * v[i] \in Int
    <3> TAKE i \in 1..(k + 1)
    <3>1. s[i] \in {1, -1} /\ v[i] \in Int  BY <1>3 DEF SignsOf
    <3> QED  BY <3>1, SignTimes
  <2> QED  BY <2>1
<1>5. f[k + 1] = x * v[k + 1]  BY <1>1, <1>2
<1>6. [i \in 1..k |-> f[i]] = [i \in 1..k |-> signs[i] * v[i]]
  <2>1. \A i \in 1..k : f[i] = signs[i] * v[i]  BY <1>1, <1>2
  <2> HIDE DEF f
  <2> QED  BY <2>1
<1>7. SumOver(f) = First(k + 1, f) /\ First(k + 1, f) = First(k, f) + f[k + 1]
  <2>1. k + 1 \in Nat /\ k \in 0..((k + 1) - 1)  OBVIOUS
  <2> HIDE DEF f
  <2> QED  BY <1>4, <2>1, FirstSums
<1>8. First(k, f) = Flipped(signs, v, k)  BY <1>6 DEF First, Flipped
<1>9. SumOver(f) = Flipped(s, v, k + 1)  BY DEF Flipped
<1> HIDE DEF f
<1>10. Flipped(s, v, k + 1) = Flipped(signs, v, k) + x * v[k + 1]  BY <1>5, <1>7, <1>8, <1>9
<1> QED  BY <1>3, <1>10 DEF s

LEMMA WithSignDiffers ==
  ASSUME NEW k \in Nat
  PROVE  /\ \A s, t \in SignsOf(k), x, y \in {1, -1} : WithSign(s, k, x) = WithSign(t, k, y) => s = t /\ x = y
         /\ \A u \in SignsOf(k + 1) : \E s \in SignsOf(k), x \in {1, -1} : u = WithSign(s, k, x)
<1>1. k + 1 \in 1..(k + 1) /\ \A i \in 1..k : i \in 1..(k + 1) /\ i # k + 1  OBVIOUS
<1>2. ASSUME NEW s \in SignsOf(k), NEW t \in SignsOf(k), NEW x \in {1, -1}, NEW y \in {1, -1},
             WithSign(s, k, x) = WithSign(t, k, y)
      PROVE  s = t /\ x = y
  <2>1. WithSign(s, k, x)[k + 1] = x /\ WithSign(t, k, y)[k + 1] = y  BY <1>1 DEF WithSign
  <2>2. \A i \in 1..k : WithSign(s, k, x)[i] = s[i] /\ WithSign(t, k, y)[i] = t[i]  BY <1>1 DEF WithSign
  <2>3. \A i \in 1..k : s[i] = t[i]  BY <1>2, <2>2
  <2>4. s = [i \in 1..k |-> s[i]] /\ t = [i \in 1..k |-> t[i]]  BY DEF SignsOf
  <2> QED  BY <1>2, <2>1, <2>3, <2>4
<1>3. ASSUME NEW u \in SignsOf(k + 1)
      PROVE  \E s \in SignsOf(k), x \in {1, -1} : u = WithSign(s, k, x)
  <2> DEFINE s == [i \in 1..k |-> u[i]]
  <2>1. \A i \in 1..(k + 1) : u[i] \in {1, -1}  BY DEF SignsOf
  <2>2. s \in SignsOf(k)  BY <1>1, <2>1 DEF SignsOf
  <2>3. \A i \in 1..(k + 1) : u[i] = IF i = k + 1 THEN u[k + 1] ELSE s[i]
    <3>1. \A i \in 1..(k + 1) : i = k + 1 \/ i \in 1..k  OBVIOUS
    <3> QED  BY <1>1, <3>1
  <2>4. u = [i \in 1..(k + 1) |-> u[i]]  BY DEF SignsOf
  <2> HIDE DEF s
  <2>5. u = WithSign(s, k, u[k + 1])  BY <2>3, <2>4 DEF WithSign
  <2> QED  BY <1>1, <2>1, <2>2, <2>5
<1> QED  BY <1>2, <1>3

(* b is the assignment of each sum. *)
Enumerates(w, b, v, k) ==
  /\ w \in Seq(Int) /\ b \in [1..Len(w) -> SignsOf(k)]
  /\ \A i, j \in 1..Len(w) : b[i] = b[j] => i = j
  /\ \A s \in SignsOf(k) : \E i \in 1..Len(w) : b[i] = s
  /\ \A i \in 1..Len(w) : w[i] = Flipped(b[i], v, k)

LEMMA DoubleEnumerates ==
  ASSUME NEW k \in Nat, NEW v, \A i \in 1..(k + 1) : v[i] \in Int, NEW w, NEW b, Enumerates(w, b, v, k)
  PROVE  \E c : Enumerates(Double(w, v[k + 1]), c, v, k + 1)
<1> DEFINE m == Len(w)
           d == Double(w, v[k + 1])
           c == [i \in 1..(m + m) |-> IF i <= m THEN WithSign(b[i], k, 1) ELSE WithSign(b[i - m], k, -1)]
<1>1. w \in Seq(Int) /\ m \in Nat /\ v[k + 1] \in Int /\ \A i \in 1..m : w[i] \in Int /\ b[i] \in SignsOf(k)
  <2>1. w \in Seq(Int) /\ b \in [1..m -> SignsOf(k)]  BY DEF Enumerates
  <2>2. k + 1 \in 1..(k + 1)  OBVIOUS
  <2>3. m \in Nat /\ \A i \in 1..m : w[i] \in Int  BY <2>1
  <2>4. \A i \in 1..m : b[i] \in SignsOf(k)  BY <2>1
  <2> QED  BY <2>1, <2>2, <2>3, <2>4
<1>2. /\ d \in Seq(Int) /\ Len(d) = m + m
      /\ \A i \in 1..m : d[i] = w[i] + v[k + 1] /\ d[i + m] = w[i] - v[k + 1]
  BY <1>1, DoubleIs
<1>3. \A i, j \in 1..m : b[i] = b[j] => i = j  BY DEF Enumerates
<1>4. \A s \in SignsOf(k) : \E i \in 1..m : b[i] = s  BY DEF Enumerates
<1>5. \A i \in 1..m : w[i] = Flipped(b[i], v, k)  BY DEF Enumerates
<1> HIDE DEF m, d
<1>6. \A i \in 1..m : i \in 1..(m + m) /\ i + m \in 1..(m + m) /\ ~(i + m <= m) /\ (i + m) - m = i  BY <1>1
<1>7. \A i \in 1..m : c[i] = WithSign(b[i], k, 1) /\ c[i + m] = WithSign(b[i], k, -1)
  <2> TAKE i \in 1..m
  <2>1. i <= m  OBVIOUS
  <2>2. c[i] = WithSign(b[i], k, 1)  BY <1>6, <2>1
  <2>3. c[i + m] = WithSign(b[(i + m) - m], k, -1)  BY <1>6
  <2> QED  BY <1>6, <2>2, <2>3
<1>8. \A i \in 1..(m + m) : i \in 1..m \/ (i - m \in 1..m /\ (i - m) + m = i)  BY <1>1
<1>9. DOMAIN c = 1..(m + m) /\ c = [i \in 1..(m + m) |-> c[i]]  OBVIOUS
<1> HIDE DEF c
<1>10. \A i \in 1..m : c[i] \in SignsOf(k + 1) /\ c[i + m] \in SignsOf(k + 1)
  BY <1>1, <1>7, FlippedGrows
<1>11. \A i \in 1..(m + m) : c[i] \in SignsOf(k + 1)
  <2> TAKE i \in 1..(m + m)
  <2>1. CASE i \in 1..m  BY <1>10, <2>1
  <2>2. CASE i - m \in 1..m /\ (i - m) + m = i
    <3>1. c[(i - m) + m] \in SignsOf(k + 1)  BY <1>10, <2>2
    <3> QED  BY <2>2, <3>1
  <2> QED  BY <1>8, <2>1, <2>2
<1>12. c \in [1..(m + m) -> SignsOf(k + 1)]  BY <1>9, <1>11
<1>13. ASSUME NEW i \in 1..m, NEW j \in 1..m
       PROVE  /\ c[i] = c[j] => i = j
              /\ c[i + m] = c[j + m] => i = j
              /\ c[i] # c[j + m]
  <2>1. \A x, y \in {1, -1} : WithSign(b[i], k, x) = WithSign(b[j], k, y) => b[i] = b[j] /\ x = y
    BY <1>1, WithSignDiffers
  <2>2. (1 = -1) = FALSE  OBVIOUS
  <2>3. /\ c[i] = WithSign(b[i], k, 1) /\ c[j] = WithSign(b[j], k, 1)
        /\ c[i + m] = WithSign(b[i], k, -1) /\ c[j + m] = WithSign(b[j], k, -1)
    BY <1>7
  <2>4. b[i] = b[j] => i = j  BY <1>3
  <2> QED  BY <2>1, <2>2, <2>3, <2>4
<1>14. ASSUME NEW i \in 1..(m + m), NEW j \in 1..(m + m), c[i] = c[j] PROVE i = j
  <2>1. CASE i \in 1..m /\ j \in 1..m  BY <1>13, <1>14, <2>1
  <2>2. CASE i \in 1..m /\ j - m \in 1..m /\ (j - m) + m = j
    <3>1. c[i] # c[(j - m) + m]  BY <1>13, <2>2
    <3> QED  BY <1>14, <2>2, <3>1
  <2>3. CASE j \in 1..m /\ i - m \in 1..m /\ (i - m) + m = i
    <3>1. c[j] # c[(i - m) + m]  BY <1>13, <2>3
    <3> QED  BY <1>14, <2>3, <3>1
  <2>4. CASE i - m \in 1..m /\ (i - m) + m = i /\ j - m \in 1..m /\ (j - m) + m = j
    <3>1. c[(i - m) + m] = c[(j - m) + m] => i - m = j - m  BY <1>13, <2>4
    <3>2. i - m = j - m  BY <1>14, <2>4, <3>1
    <3> QED  BY <2>4, <3>2
  <2> QED  BY <1>8, <2>1, <2>2, <2>3, <2>4
<1>15. ASSUME NEW u \in SignsOf(k + 1) PROVE \E i \in 1..(m + m) : c[i] = u
  <2>1. PICK s \in SignsOf(k), x \in {1, -1} : u = WithSign(s, k, x)  BY WithSignDiffers
  <2>2. PICK i \in 1..m : b[i] = s  BY <1>4
  <2>3. CASE x = 1
    <3>1. c[i] = u  BY <1>7, <2>1, <2>2, <2>3
    <3> QED  BY <1>6, <3>1
  <2>4. CASE x = -1
    <3>1. c[i + m] = u  BY <1>7, <2>1, <2>2, <2>4
    <3> QED  BY <1>6, <3>1
  <2> QED  BY <2>3, <2>4
<1>16. ASSUME NEW i \in 1..m
       PROVE  d[i] = Flipped(c[i], v, k + 1) /\ d[i + m] = Flipped(c[i + m], v, k + 1)
  <2>1. /\ Flipped(WithSign(b[i], k, 1), v, k + 1) = Flipped(b[i], v, k) + 1 * v[k + 1]
        /\ Flipped(WithSign(b[i], k, -1), v, k + 1) = Flipped(b[i], v, k) + (-1) * v[k + 1]
    BY <1>1, FlippedGrows
  <2>2. 1 * v[k + 1] = v[k + 1] /\ (-1) * v[k + 1] = -v[k + 1]  BY <1>1
  <2>3. w[i] \in Int /\ w[i] = Flipped(b[i], v, k)  BY <1>1, <1>5
  <2>4. w[i] + (-v[k + 1]) = w[i] - v[k + 1]  BY <1>1, <2>3
  <2>5. d[i] = w[i] + v[k + 1] /\ d[i + m] = w[i] - v[k + 1]  BY <1>2
  <2>6. c[i] = WithSign(b[i], k, 1) /\ c[i + m] = WithSign(b[i], k, -1)  BY <1>7
  <2> QED  BY <2>1, <2>2, <2>3, <2>4, <2>5, <2>6
<1>17. \A i \in 1..(m + m) : d[i] = Flipped(c[i], v, k + 1)
  <2> TAKE i \in 1..(m + m)
  <2>1. CASE i \in 1..m  BY <1>16, <2>1
  <2>2. CASE i - m \in 1..m /\ (i - m) + m = i
    <3>1. d[(i - m) + m] = Flipped(c[(i - m) + m], v, k + 1)  BY <1>16, <2>2
    <3> QED  BY <2>2, <3>1
  <2> QED  BY <1>8, <2>1, <2>2
<1>18. Enumerates(d, c, v, k + 1)
  BY <1>2, <1>12, <1>14, <1>15, <1>17 DEF Enumerates
<1> QED  BY <1>18 DEF d

(* _signed_sums gives every sum, once for each assignment. *)
LEMMA SignedSumsEnumerate ==
  ASSUME NEW n \in Nat, NEW v \in [1..n -> Int]
  PROVE  \E b : Enumerates(SignedSums(v), b, v, n)
<1>1. PICK r : Doubles(r, n, v) /\ SignedSums(v) = r[n]  BY SignedSumsLoop
<1> DEFINE T == {k \in Nat : k <= n => \E b : Enumerates(r[k], b, v, k)}
<1>2. 0 \in T
  <2> DEFINE none == [i \in 1..0 |-> 1]
             b == [i \in 1..1 |-> none]
  <2>1. r[0] = <<0>> /\ Len(<<0>>) = 1 /\ <<0>> \in Seq(Int) /\ <<0>>[1] = 0  BY <1>1 DEF Doubles
  <2>2. 1..0 = {} /\ \A i \in 1..1 : i = 1  OBVIOUS
  <2>3. SignsOf(0) = {none}
    <3>1. none \in SignsOf(0)  BY <2>2 DEF SignsOf
    <3>2. \A s \in SignsOf(0) : s = none  BY <2>2 DEF SignsOf
    <3> QED  BY <3>1, <3>2
  <2>4. 1 \in 1..1 /\ b[1] = none /\ b \in [1..1 -> SignsOf(0)]
    <3> HIDE DEF none
    <3> QED  BY <2>3
  <2> HIDE DEF b
  <2>5. Flipped(none, v, 0) = 0  BY <2>2, FlippedIs
  <2> HIDE DEF none
  <2>6. Enumerates(<<0>>, b, v, 0)
    BY <2>1, <2>2, <2>3, <2>4, <2>5 DEF Enumerates
  <2> QED  BY <2>1, <2>6
<1>3. ASSUME NEW k \in Nat, k \in T PROVE k + 1 \in T
  <2> SUFFICES ASSUME k + 1 <= n PROVE \E b : Enumerates(r[k + 1], b, v, k + 1)
    OBVIOUS
  <2>1. PICK b : Enumerates(r[k], b, v, k)  BY <1>3
  <2>2. \A i \in 1..(k + 1) : v[i] \in Int  OBVIOUS
  <2>3. r[k + 1] = Double(r[k], v[k + 1])
    <3>1. k \in 0..(n - 1)  OBVIOUS
    <3> QED  BY <1>1, <3>1 DEF Doubles
  <2>4. \E c : Enumerates(Double(r[k], v[k + 1]), c, v, k + 1)  BY <2>1, <2>2, DoubleEnumerates
  <2> QED  BY <2>3, <2>4
<1> HIDE DEF T
<1>4. n \in T  BY <1>2, <1>3, SetInduction
<1> QED  BY <1>1, <1>4 DEF T

-----------------------------------------------------------------------------
(* exact_sign_flip_p: two halves. *)

(* The sum of the first h values and that of the rest. *)
LEMMA SumSplits ==
  ASSUME NEW n \in Nat, NEW f \in [1..n -> Int], NEW h \in 0..n
  PROVE  SumOver(f) = First(h, f) + SumOver([j \in 1..(n - h) |-> f[h + j]])
<1> DEFINE m == n - h
           e == [j \in 1..m |-> f[h + j]]
<1>1. h \in Nat /\ m \in Nat /\ h + m = n  OBVIOUS
<1>2. e \in [1..m -> Int]
  <2>1. \A j \in 1..m : h + j \in 1..n  OBVIOUS
  <2>2. \A j \in 1..m : f[h + j] \in Int  BY <2>1
  <2> QED  BY <2>2
<1>3. \A j \in 1..m : e[j] = f[h + j]  OBVIOUS
<1> HIDE DEF e, m
<1>4. /\ SumOver(e) = First(m, e) /\ First(0, e) = 0 /\ \A k \in 0..m : First(k, e) \in Int
      /\ \A k \in 0..(m - 1) : First(k + 1, e) = First(k, e) + e[k + 1]
  BY <1>1, <1>2, FirstSums
<1>5. /\ SumOver(f) = First(n, f) /\ \A k \in 0..n : First(k, f) \in Int
      /\ \A k \in 0..(n - 1) : First(k + 1, f) = First(k, f) + f[k + 1]
  BY FirstSums
<1> DEFINE T == {k \in Nat : k <= m => First(h + k, f) = First(h, f) + First(k, e)}
<1>6. 0 \in T
  <2>1. h + 0 = h /\ First(h, f) \in Int  BY <1>5
  <2> QED  BY <1>4, <2>1
<1>7. ASSUME NEW k \in Nat, k \in T PROVE k + 1 \in T
  <2> SUFFICES ASSUME k + 1 <= m PROVE First(h + (k + 1), f) = First(h, f) + First(k + 1, e)
    OBVIOUS
  <2>1. k \in 0..(m - 1) /\ k + 1 \in 1..m /\ h + k \in 0..(n - 1) /\ k \in 0..m  BY <1>1
  <2>2. h + (k + 1) = (h + k) + 1  OBVIOUS
  <2>3. First(h + k, f) = First(h, f) + First(k, e)
    <3>1. k <= m  BY <1>1
    <3> QED  BY <1>7, <3>1
  <2>4. e[k + 1] = f[h + (k + 1)]  BY <1>3, <2>1
  <2>5. First((h + k) + 1, f) = First(h + k, f) + f[(h + k) + 1]  BY <1>5, <2>1
  <2>6. First(k + 1, e) = First(k, e) + e[k + 1]  BY <1>4, <2>1
  <2>7. First(h, f) \in Int /\ First(k, e) \in Int /\ e[k + 1] \in Int  BY <1>2, <1>4, <1>5, <2>1
  <2> QED  BY <2>2, <2>3, <2>4, <2>5, <2>6, <2>7
<1> HIDE DEF T
<1>8. m \in T  BY <1>1, <1>6, <1>7, SetInduction
<1>9. SumOver(f) = First(h, f) + SumOver(e)
  <2>1. First(h + m, f) = First(h, f) + First(m, e)  BY <1>1, <1>8 DEF T
  <2> QED  BY <1>1, <1>4, <1>5, <2>1
<1> QED  BY <1>9 DEF e, m

(* Assignments to the two halves of v. *)
Joined(s, t, h, n) == [i \in 1..n |-> IF i <= h THEN s[i] ELSE t[i - h]]

(* j gives the first h values the signs s, and the others the signs t. *)
Joins(j, s, t, v, h, n) ==
  /\ j \in SignsOf(n)
  /\ (\A i \in 1..h : j[i] = s[i]) /\ \A i \in 1..(n - h) : j[h + i] = t[i]
  /\ Flipped(j, v, n) = Flipped(s, SubSeq(v, 1, h), h) + Flipped(t, SubSeq(v, h + 1, n), n - h)

LEMMA JoinedIs ==
  ASSUME NEW n \in Nat, NEW v \in [1..n -> Int], NEW h \in 0..n,
         NEW s \in SignsOf(h), NEW t \in SignsOf(n - h)
  PROVE  Joins(Joined(s, t, h, n), s, t, v, h, n)
<1> DEFINE j == Joined(s, t, h, n)
           m == n - h
           lo == SubSeq(v, 1, h)
           hi == SubSeq(v, h + 1, n)
           f == [i \in 1..n |-> j[i] * v[i]]
<1>1. h \in Nat /\ m \in Nat /\ h + m = n  OBVIOUS
<1>2. ASSUME NEW i \in 1..h PROVE i \in 1..n /\ j[i] = s[i] /\ lo[i] = v[i]
  <2>1. i \in 1..n /\ i <= h  OBVIOUS
  <2> QED  BY <2>1 DEF Joined
<1>3. ASSUME NEW i \in 1..m PROVE h + i \in 1..n /\ j[h + i] = t[i] /\ hi[i] = v[h + i]
  <2>1. h + i \in 1..n /\ ~(h + i <= h) /\ (h + i) - h = i  OBVIOUS
  <2>2. j[h + i] = t[(h + i) - h]  BY <2>1 DEF Joined
  <2>3. hi[i] = v[h + i]  OBVIOUS
  <2> QED  BY <2>1, <2>2, <2>3
<1>4. \A i \in 1..n : i \in 1..h \/ (i - h \in 1..m /\ h + (i - h) = i)  OBVIOUS
<1>5. j \in SignsOf(n)
  <2>1. \A i \in 1..n : j[i] \in {1, -1}
    <3> TAKE i \in 1..n
    <3>1. CASE i \in 1..h
      <4>1. s[i] \in {1, -1}  BY <3>1 DEF SignsOf
      <4> QED  BY <1>2, <3>1, <4>1
    <3>2. CASE i - h \in 1..m /\ h + (i - h) = i
      <4>1. t[i - h] \in {1, -1}  BY <3>2 DEF SignsOf
      <4>2. j[h + (i - h)] = t[i - h]  BY <1>3, <3>2
      <4> HIDE DEF j
      <4> QED  BY <3>2, <4>1, <4>2
    <3> QED  BY <1>4, <3>1, <3>2
  <2>2. j = [i \in 1..n |-> j[i]]  BY DEF Joined
  <2> HIDE DEF j
  <2> QED  BY <2>1, <2>2 DEF SignsOf
<1> HIDE DEF j, lo, hi, m
<1>6. f \in [1..n -> Int]
  <2>1. \A i \in 1..n : j[i] * v[i] \in Int
    <3> TAKE i \in 1..n
    <3>1. j[i] \in {1, -1} /\ v[i] \in Int  BY <1>5 DEF SignsOf
    <3> QED  BY <3>1, SignTimes
  <2> QED  BY <2>1
<1>7. \A i \in 1..n : f[i] = j[i] * v[i]  OBVIOUS
<1>8. Flipped(j, v, n) = SumOver(f)  BY DEF Flipped
<1> HIDE DEF f
<1>9. SumOver(f) = First(h, f) + SumOver([i \in 1..m |-> f[h + i]])  BY <1>6, SumSplits DEF m
<1>10. First(h, f) = Flipped(s, lo, h)
  <2>1. \A i \in 1..h : f[i] = s[i] * lo[i]  BY <1>2, <1>7
  <2>2. [i \in 1..h |-> f[i]] = [i \in 1..h |-> s[i] * lo[i]]  BY <2>1
  <2> QED  BY <2>2 DEF First, Flipped
<1>11. SumOver([i \in 1..m |-> f[h + i]]) = Flipped(t, hi, m)
  <2>1. \A i \in 1..m : f[h + i] = t[i] * hi[i]  BY <1>3, <1>7
  <2>2. [i \in 1..m |-> f[h + i]] = [i \in 1..m |-> t[i] * hi[i]]  BY <2>1
  <2> QED  BY <2>2 DEF Flipped
<1>12. Flipped(j, v, n) = Flipped(s, lo, h) + Flipped(t, hi, m)  BY <1>8, <1>9, <1>10, <1>11
<1> QED  BY <1>2, <1>3, <1>5, <1>12 DEF Joins, j, m, lo, hi

-----------------------------------------------------------------------------
(* Counting pairs by their first element. *)

PairsOf(k, p, H) == {x \in (1..k) \X (1..p) : x[2] \in H[x[1]]}

LEMMA PairsCounted ==
  ASSUME NEW n \in Nat, NEW p \in Nat, NEW H \in [1..n -> SUBSET (1..p)]
  PROVE  /\ IsFiniteSet(PairsOf(n, p, H))
         /\ SumOver([i \in 1..n |-> Cardinality(H[i])]) = Cardinality(PairsOf(n, p, H))
<1> DEFINE f == [i \in 1..n |-> Cardinality(H[i])]
<1>1. \A i \in 1..n : IsFiniteSet(H[i]) /\ Cardinality(H[i]) \in Nat
  <2> TAKE i \in 1..n
  <2>1. IsFiniteSet(1..p) /\ H[i] \in SUBSET (1..p)  BY FS_Interval
  <2>2. IsFiniteSet(H[i])  BY <2>1, FS_Subset
  <2> QED  BY <2>2, FS_CardinalityType
<1>2. f \in [1..n -> Int] /\ \A i \in 1..n : f[i] = Cardinality(H[i])  BY <1>1
<1> HIDE DEF f
<1>3. /\ SumOver(f) = First(n, f) /\ First(0, f) = 0
      /\ \A k \in 0..(n - 1) : First(k + 1, f) = First(k, f) + f[k + 1]
  BY <1>2, FirstSums
<1> DEFINE T == {k \in Nat : k <= n => /\ IsFiniteSet(PairsOf(k, p, H))
                                       /\ First(k, f) = Cardinality(PairsOf(k, p, H))}
<1>4. 0 \in T
  <2>1. 1..0 = {}  OBVIOUS
  <2>2. PairsOf(0, p, H) = {}  BY <2>1 DEF PairsOf
  <2> QED  BY <1>3, <2>2, FS_EmptySet
<1>5. ASSUME NEW k \in Nat, k \in T PROVE k + 1 \in T
  <2> SUFFICES ASSUME k + 1 <= n
               PROVE  /\ IsFiniteSet(PairsOf(k + 1, p, H))
                      /\ First(k + 1, f) = Cardinality(PairsOf(k + 1, p, H))
    OBVIOUS
  <2> DEFINE P == PairsOf(k, p, H)
             h == H[k + 1]
             Q == {<<k + 1, j>> : j \in h}
             g == [j \in h |-> <<k + 1, j>>]
  <2>1. k + 1 \in 1..n /\ k \in 0..(n - 1)  OBVIOUS
  <2>2. IsFiniteSet(P) /\ First(k, f) = Cardinality(P)  BY <1>5
  <2>3. h \in SUBSET (1..p) /\ IsFiniteSet(h) /\ Cardinality(h) \in Nat  BY <1>1, <2>1
  <2>4. IsFiniteSet(Q) /\ Cardinality(Q) = Cardinality(h)
    <3>1. g \in Bijection(h, Q)
      <4>1. g \in [h -> Q]  OBVIOUS
      <4>2. \A i, j \in h : g[i] = g[j] => i = j  OBVIOUS
      <4>3. \A x \in Q : \E j \in h : g[j] = x  OBVIOUS
      <4> QED  BY <4>1, <4>2, <4>3 DEF Bijection, Injection, Surjection, IsInjective
    <3>2. ExistsBijection(h, Q)  BY <3>1 DEF ExistsBijection
    <3> QED  BY <2>3, <3>2, FS_Bijection
  <2>5. PairsOf(k + 1, p, H) = P \union Q
    <3>1. \A i \in 1..(k + 1) : i = k + 1 \/ i \in 1..k  OBVIOUS
    <3>2. k + 1 \in 1..(k + 1) /\ \A i \in 1..k : i \in 1..(k + 1)  OBVIOUS
    <3>3. ASSUME NEW x \in PairsOf(k + 1, p, H) PROVE x \in P \union Q
      <4>1. x \in (1..(k + 1)) \X (1..p) /\ x[2] \in H[x[1]]  BY DEF PairsOf
      <4>2. x = <<x[1], x[2]>> /\ x[1] \in 1..(k + 1) /\ x[2] \in 1..p  BY <4>1
      <4>3. CASE x[1] = k + 1  BY <4>1, <4>2, <4>3
      <4>4. CASE x[1] \in 1..k
        <5>1. <<x[1], x[2]>> \in (1..k) \X (1..p)  BY <4>2, <4>4
        <5>2. x \in P  BY <4>1, <4>2, <5>1 DEF PairsOf
        <5> QED  BY <5>2
      <4> QED  BY <3>1, <4>2, <4>3, <4>4
    <3>4. ASSUME NEW x \in P PROVE x \in PairsOf(k + 1, p, H)
      <4>1. x \in (1..k) \X (1..p) /\ x[2] \in H[x[1]]  BY DEF PairsOf
      <4>2. x \in (1..(k + 1)) \X (1..p)  BY <3>2, <4>1
      <4> QED  BY <4>1, <4>2 DEF PairsOf
    <3>5. ASSUME NEW x \in Q PROVE x \in PairsOf(k + 1, p, H)
      <4>1. PICK j \in h : x = <<k + 1, j>>  OBVIOUS
      <4>2. x \in (1..(k + 1)) \X (1..p) /\ x[2] \in H[x[1]]  BY <2>3, <3>2, <4>1
      <4> QED  BY <4>2 DEF PairsOf
    <3> HIDE DEF P, Q
    <3> QED  BY <3>3, <3>4, <3>5
  <2>6. P \cap Q = {}
    <3> SUFFICES ASSUME NEW x \in P, x \in Q PROVE FALSE
      OBVIOUS
    <3>1. x[1] \in 1..k  BY DEF PairsOf
    <3>2. x[1] = k + 1  OBVIOUS
    <3> QED  BY <3>1, <3>2
  <2>7. f[k + 1] = Cardinality(h)  BY <1>2, <2>1
  <2> HIDE DEF P, Q, h
  <2>8. IsFiniteSet(P \cup Q) /\ Cardinality(P \cup Q) = Cardinality(P) + Cardinality(Q) - Cardinality(P \cap Q)
    BY <2>2, <2>4, FS_Union
  <2>9. Cardinality(P \cap Q) = 0 /\ Cardinality(P) \in Nat
    BY <2>2, <2>6, FS_EmptySet, FS_CardinalityType
  <2>10. First(k + 1, f) = First(k, f) + f[k + 1]  BY <1>3, <2>1
  <2>11. Cardinality(P \cup Q) = Cardinality(P) + Cardinality(h)  BY <2>3, <2>4, <2>8, <2>9
  <2>12. First(k + 1, f) = Cardinality(P \cup Q)  BY <2>2, <2>7, <2>10, <2>11
  <2> QED  BY <2>5, <2>8, <2>12
<1> HIDE DEF T
<1>6. n \in T  BY <1>4, <1>5, SetInduction
<1>7. SumOver(f) = Cardinality(PairsOf(n, p, H)) /\ IsFiniteSet(PairsOf(n, p, H))  BY <1>3, <1>6 DEF T
<1> QED  BY <1>7 DEF f

-----------------------------------------------------------------------------
(* exact_sign_flip_p: the two binary searches. *)

(* The assignments at least as extreme as the observed one. *)
Extreme(n, v) == {signs \in SignsOf(n) : Abs(Flipped(signs, v, n)) >= Abs(SumOver(v))}

(* The two binary searches count what both signs of the total count. *)
LEMMA BothTails ==
  ASSUME NEW right \in Seq(Int), NEW x \in Int, NEW total \in Int, total > 0
  PROVE  Quantify(DOMAIN right, LAMBDA i : right[i] >= total - x)
           + Quantify(DOMAIN right, LAMBDA i : right[i] <= -total - x)
         = Cardinality({j \in 1..Len(right) : Abs(x + right[j]) >= total})
<1> DEFINE A == {i \in 1..Len(right) : right[i] >= total - x}
           B == {i \in 1..Len(right) : right[i] <= -total - x}
<1>1. DOMAIN right = 1..Len(right) /\ Len(right) \in Nat /\ \A i \in 1..Len(right) : right[i] \in Int
  OBVIOUS
<1>2. A \cap B = {}
  <2> SUFFICES ASSUME NEW i \in A, i \in B PROVE FALSE
    OBVIOUS
  <2>1. right[i] \in Int /\ right[i] >= total - x /\ right[i] <= -total - x  BY <1>1
  <2> QED  BY <2>1
<1>3. {j \in 1..Len(right) : Abs(x + right[j]) >= total} = A \union B
  <2>1. \A j \in 1..Len(right) :
          Abs(x + right[j]) >= total <=> right[j] >= total - x \/ right[j] <= -total - x
    BY <1>1 DEF Abs
  <2> QED  BY <2>1
<1>4. IsFiniteSet(A) /\ IsFiniteSet(B)
  <2>1. IsFiniteSet(1..Len(right)) /\ A \in SUBSET (1..Len(right)) /\ B \in SUBSET (1..Len(right))
    BY <1>1, FS_Interval
  <2> QED  BY <2>1, FS_Subset
<1> DEFINE high == Quantify(DOMAIN right, LAMBDA i : right[i] >= total - x)
           low == Quantify(DOMAIN right, LAMBDA i : right[i] <= -total - x)
           both == {j \in 1..Len(right) : Abs(x + right[j]) >= total}
<1>5. high = Cardinality(A) /\ low = Cardinality(B)  BY <1>1 DEF Quantify
<1>9. both = A \union B  BY <1>3
<1> HIDE DEF A, B, high, low, both
<1>6. Cardinality(A \cup B) = Cardinality(A) + Cardinality(B) - Cardinality(A \cap B)  BY <1>4, FS_Union
<1>7. Cardinality(A \cap B) = 0 /\ Cardinality(A) \in Nat /\ Cardinality(B) \in Nat
  BY <1>2, <1>4, FS_EmptySet, FS_CardinalityType
<1>8. high + low = Cardinality(both)  BY <1>5, <1>6, <1>7, <1>9
<1> QED  BY <1>8 DEF high, low, both

(* H has, for each sum of the left half, those of the right that make it extreme. *)
Matches(H, left, right, total) ==
  /\ H \in [1..Len(left) -> SUBSET (1..Len(right))]
  /\ \A i \in 1..Len(left) : H[i] = {j \in 1..Len(right) : Abs(left[i] + right[j]) >= total}

(* Pairs of sums of the two halves are the assignments to all values. *)
LEMMA PairsAreAssignments ==
  ASSUME NEW n \in Nat, NEW v \in [1..n -> Int], NEW h \in 0..n, NEW left, NEW bl, NEW right, NEW br,
         Enumerates(left, bl, SubSeq(v, 1, h), h), Enumerates(right, br, SubSeq(v, h + 1, n), n - h),
         NEW H, Matches(H, left, right, Abs(SumOver(v)))
  PROVE  Cardinality(PairsOf(Len(left), Len(right), H)) = Cardinality(Extreme(n, v))
<1> DEFINE m == Len(left)
           p == Len(right)
           P == PairsOf(m, p, H)
           X == Extreme(n, v)
           at(i, j) == Joined(bl[i], br[j], h, n)
           g == [x \in P |-> at(x[1], x[2])]
<1>1. m \in Nat /\ p \in Nat  BY DEF Enumerates
<1>2. /\ \A i \in 1..m : bl[i] \in SignsOf(h) /\ left[i] = Flipped(bl[i], SubSeq(v, 1, h), h)
      /\ \A i, j \in 1..m : bl[i] = bl[j] => i = j
      /\ \A s \in SignsOf(h) : \E i \in 1..m : bl[i] = s
  BY DEF Enumerates
<1>3. /\ \A i \in 1..p : br[i] \in SignsOf(n - h) /\ right[i] = Flipped(br[i], SubSeq(v, h + 1, n), n - h)
      /\ \A i, j \in 1..p : br[i] = br[j] => i = j
      /\ \A s \in SignsOf(n - h) : \E i \in 1..p : br[i] = s
  BY DEF Enumerates
<1>4. ASSUME NEW i \in 1..m, NEW j \in 1..p
      PROVE  /\ at(i, j) \in SignsOf(n) /\ Flipped(at(i, j), v, n) = left[i] + right[j]
             /\ (\A a \in 1..h : at(i, j)[a] = bl[i][a]) /\ \A a \in 1..(n - h) : at(i, j)[h + a] = br[j][a]
  <2>1. bl[i] \in SignsOf(h) /\ br[j] \in SignsOf(n - h)  BY <1>2, <1>3
  <2>2. Joins(at(i, j), bl[i], br[j], v, h, n)  BY <2>1, JoinedIs
  <2> HIDE DEF at
  <2> QED  BY <1>2, <1>3, <2>2 DEF Joins
<1>5. \A i \in 1..m, j \in 1..p : j \in H[i] <=> Abs(left[i] + right[j]) >= Abs(SumOver(v))
  BY DEF Matches
<1> HIDE DEF at
<1>6. \A i \in 1..m, j \in 1..p : j \in H[i] <=> at(i, j) \in X
  <2> TAKE i \in 1..m, j \in 1..p
  <2>1. at(i, j) \in SignsOf(n) /\ Flipped(at(i, j), v, n) = left[i] + right[j]  BY <1>4
  <2>2. at(i, j) \in X <=> Abs(left[i] + right[j]) >= Abs(SumOver(v))  BY <2>1 DEF Extreme
  <2> QED  BY <1>5, <2>2
<1>7. \A x \in P : x = <<x[1], x[2]>> /\ x[1] \in 1..m /\ x[2] \in 1..p /\ x[2] \in H[x[1]]
  BY DEF PairsOf
<1>8. \A i \in 1..m, j \in 1..p : j \in H[i] => <<i, j>> \in P
  BY DEF PairsOf
<1> HIDE DEF P, X, m, p
<1>9. \A x \in P : g[x] \in X /\ g[x] = at(x[1], x[2])  BY <1>6, <1>7
<1>10. ASSUME NEW i \in 1..m, NEW j \in 1..p, NEW k \in 1..m, NEW l \in 1..p, at(i, j) = at(k, l)
       PROVE  i = k /\ j = l
  <2>1. bl[i] = bl[k]
    <3>3. /\ \A a \in 1..h : at(i, j)[a] = bl[i][a]
          /\ \A a \in 1..h : at(k, l)[a] = bl[k][a]
      BY <1>4
    <3>1. \A a \in 1..h : bl[i][a] = bl[k][a]  BY <1>10, <3>3
    <3>2. bl[i] = [a \in 1..h |-> bl[i][a]] /\ bl[k] = [a \in 1..h |-> bl[k][a]]  BY <1>2 DEF SignsOf
    <3> QED  BY <3>1, <3>2
  <2>2. br[j] = br[l]
    <3>3. /\ \A a \in 1..(n - h) : at(i, j)[h + a] = br[j][a]
          /\ \A a \in 1..(n - h) : at(k, l)[h + a] = br[l][a]
      BY <1>4
    <3>1. \A a \in 1..(n - h) : br[j][a] = br[l][a]  BY <1>10, <3>3
    <3>2. br[j] = [a \in 1..(n - h) |-> br[j][a]] /\ br[l] = [a \in 1..(n - h) |-> br[l][a]]
      BY <1>3 DEF SignsOf
    <3> QED  BY <3>1, <3>2
  <2> QED  BY <1>2, <1>3, <2>1, <2>2
<1>11. \A x, y \in P : g[x] = g[y] => x = y
  <2> TAKE x, y \in P
  <2> HAVE g[x] = g[y]
  <2>1. at(x[1], x[2]) = at(y[1], y[2])  BY <1>9
  <2>2. x[1] = y[1] /\ x[2] = y[2]  BY <1>7, <1>10, <2>1
  <2> QED  BY <1>7, <2>2
<1>12. ASSUME NEW u \in X PROVE \E x \in P : g[x] = u
  <2> DEFINE s == [a \in 1..h |-> u[a]]
             t == [a \in 1..(n - h) |-> u[h + a]]
  <2>1. u \in SignsOf(n)  BY DEF X, Extreme
  <2>2. \A a \in 1..n : u[a] \in {1, -1}  BY <2>1 DEF SignsOf
  <2>3. /\ \A a \in 1..h : a \in 1..n
        /\ \A a \in 1..(n - h) : h + a \in 1..n
        /\ \A a \in 1..n : a \in 1..h \/ (a - h \in 1..(n - h) /\ h + (a - h) = a)
    OBVIOUS
  <2>4. s \in SignsOf(h)  BY <2>2, <2>3 DEF SignsOf
  <2>5. t \in SignsOf(n - h)  BY <2>2, <2>3 DEF SignsOf
  <2>6. (\A a \in 1..h : s[a] = u[a]) /\ \A a \in 1..(n - h) : t[a] = u[h + a]  OBVIOUS
  <2> HIDE DEF s, t
  <2>7. PICK i \in 1..m : bl[i] = s  BY <1>2, <2>4
  <2>8. PICK j \in 1..p : br[j] = t  BY <1>3, <2>5
  <2>9. \A a \in 1..n : at(i, j)[a] = u[a]
    <3> TAKE a \in 1..n
    <3>1. CASE a \in 1..h  BY <1>4, <2>6, <2>7, <3>1
    <3>2. CASE a - h \in 1..(n - h) /\ h + (a - h) = a
      <4>1. at(i, j)[h + (a - h)] = u[h + (a - h)]  BY <1>4, <2>6, <2>8, <3>2
      <4> QED  BY <3>2, <4>1
    <3> QED  BY <2>3, <3>1, <3>2
  <2>10. at(i, j) = u
    <3>1. at(i, j) = [a \in 1..n |-> at(i, j)[a]] /\ u = [a \in 1..n |-> u[a]]
      BY <1>4, <2>1 DEF SignsOf
    <3> QED  BY <2>9, <3>1
  <2>11. <<i, j>> \in P  BY <1>6, <1>8, <2>10
  <2>12. g[<<i, j>>] = at(i, j)  BY <2>11
  <2> QED  BY <2>10, <2>11, <2>12
<1>13. g \in Bijection(P, X)
  <2>1. g \in [P -> X]  BY <1>9
  <2> HIDE DEF g
  <2> QED  BY <1>11, <1>12, <2>1 DEF Bijection, Injection, Surjection, IsInjective
<1>14. IsFiniteSet(P)
  <2>1. H \in [1..m -> SUBSET (1..p)]  BY DEF Matches, m, p
  <2> QED  BY <1>1, <2>1, PairsCounted DEF P
<1>15. ExistsBijection(P, X)  BY <1>13 DEF ExistsBijection
<1>16. Cardinality(P) = Cardinality(X)  BY <1>14, <1>15, FS_Bijection
<1> QED  BY <1>16 DEF P, X, m, p

(* Enumerating the halves counts every extreme assignment once. *)
LEMMA HalvesCount ==
  ASSUME NEW n \in Nat, NEW v \in [1..n -> Int], SumOver(v) # 0
  PROVE  HalvesHits(v) = Cardinality(Extreme(n, v))
<1> DEFINE total == Abs(SumOver(v))
           h == n \div 2
           lo == SubSeq(v, 1, h)
           hi == SubSeq(v, h + 1, n)
           left == SignedSums(lo)
           right == SignedSums(hi)
           hits(x) == Quantify(DOMAIN right, LAMBDA i : right[i] >= total - x)
                      + Quantify(DOMAIN right, LAMBDA i : right[i] <= -total - x)
           H == [i \in 1..Len(left) |-> {j \in 1..Len(right) : Abs(left[i] + right[j]) >= total}]
<1>1. SumOver(v) \in Int
  <2>1. n \in 0..n  OBVIOUS
  <2>2. SumOver(v) = First(n, v) /\ \A k \in 0..n : First(k, v) \in Int  BY FirstSums
  <2> QED  BY <2>1, <2>2
<1>2. total \in Int /\ total > 0  BY <1>1 DEF Abs
<1>3. Len(v) = n /\ h \in 0..n  OBVIOUS
<1>4. HalvesHits(v) = SumOver([i \in DOMAIN left |-> hits(left[i])])  BY <1>3 DEF HalvesHits
<1> HIDE DEF h
<1>5. lo \in [1..h -> Int]
  <2>1. \A i \in 1..h : lo[i] \in Int /\ lo[i] = v[i]  BY <1>3
  <2>2. lo = [i \in 1..h |-> lo[i]]  BY <1>3
  <2> HIDE DEF lo
  <2> QED  BY <2>1, <2>2
<1>6. hi \in [1..(n - h) -> Int]
  <2>1. \A i \in 1..(n - h) : hi[i] = v[h + i] /\ h + i \in 1..n  BY <1>3
  <2>2. hi = [i \in 1..(n - h) |-> hi[i]]  BY <1>3
  <2> HIDE DEF hi
  <2>3. \A i \in 1..(n - h) : hi[i] \in Int  BY <2>1
  <2> QED  BY <2>2, <2>3
<1> HIDE DEF lo, hi
<1>7. h \in Nat /\ n - h \in Nat  BY <1>3
<1>8. PICK bl : Enumerates(left, bl, lo, h)  BY <1>5, <1>7, SignedSumsEnumerate
<1>9. PICK br : Enumerates(right, br, hi, n - h)  BY <1>6, <1>7, SignedSumsEnumerate
<1>10. left \in Seq(Int) /\ right \in Seq(Int)  BY <1>8, <1>9 DEF Enumerates
<1> HIDE DEF left, right
<1>11. DOMAIN left = 1..Len(left) /\ Len(left) \in Nat /\ Len(right) \in Nat /\ \A i \in 1..Len(left) : left[i] \in Int
  BY <1>10
<1>12. \A i \in 1..Len(left) : hits(left[i]) = Cardinality(H[i])
  <2> TAKE i \in 1..Len(left)
  <2>1. left[i] \in Int  BY <1>11
  <2>2. H[i] = {j \in 1..Len(right) : Abs(left[i] + right[j]) >= total}  OBVIOUS
  <2> HIDE DEF total, H
  <2>3. hits(left[i]) = Cardinality({j \in 1..Len(right) : Abs(left[i] + right[j]) >= total})
    BY <1>2, <1>10, <2>1, BothTails
  <2> QED  BY <2>2, <2>3
<1>13. /\ H \in [1..Len(left) -> SUBSET (1..Len(right))]
       /\ Matches(H, left, right, Abs(SumOver(v)))
  BY DEF Matches
<1> HIDE DEF hits, H, total
<1>14. [i \in DOMAIN left |-> hits(left[i])] = [i \in 1..Len(left) |-> Cardinality(H[i])]
  BY <1>11, <1>12
<1>15. SumOver([i \in 1..Len(left) |-> Cardinality(H[i])]) = Cardinality(PairsOf(Len(left), Len(right), H))
  BY <1>11, <1>13, PairsCounted
<1>16. Cardinality(PairsOf(Len(left), Len(right), H)) = Cardinality(Extreme(n, v))
  <2>1. Enumerates(left, bl, SubSeq(v, 1, h), h)  BY <1>8 DEF lo
  <2>2. Enumerates(right, br, SubSeq(v, h + 1, n), n - h)  BY <1>9 DEF hi
  <2>3. h \in 0..n /\ Matches(H, left, right, Abs(SumOver(v)))  BY <1>3, <1>13
  <2> QED  BY <2>1, <2>2, <2>3, PairsAreAssignments
<1> QED  BY <1>4, <1>14, <1>15, <1>16

-----------------------------------------------------------------------------
(* exact_sign_flip_p: the p-value. *)

(* There are 2^n assignments. *)
LEMMA SignsCounted ==
  ASSUME NEW n \in Nat
  PROVE  Cardinality(SignsOf(n)) = 2 ^ n
<1> DEFINE N == 1..n
           g == [S \in SUBSET N |-> [i \in N |-> IF i \in S THEN 1 ELSE -1]]
<1>1. IsFiniteSet(N) /\ Cardinality(N) = n  BY FS_Interval
<1>2. IsFiniteSet(SUBSET N) /\ Cardinality(SUBSET N) = 2 ^ Cardinality(N)
  <2> HIDE DEF N
  <2> QED  BY <1>1, FS_SUBSET, Zenon
<1>3. SignsOf(n) = [N -> {1, -1}]  BY DEF SignsOf
<1> HIDE DEF N
<1>4. g \in [SUBSET N -> SignsOf(n)]  BY <1>3
<1>5. \A S \in SUBSET N : \A i \in N : g[S][i] = IF i \in S THEN 1 ELSE -1  OBVIOUS
<1>6. \A s \in SignsOf(n) : g[{i \in N : s[i] = 1}] = s
  <2> TAKE s \in SignsOf(n)
  <2> DEFINE S == {i \in N : s[i] = 1}
  <2>1. S \in SUBSET N /\ \A i \in N : s[i] \in {1, -1} /\ (i \in S <=> s[i] = 1)  BY <1>3
  <2> HIDE DEF S
  <2>2. \A i \in N : g[S][i] = s[i]  BY <1>5, <2>1
  <2>3. g[S] \in SignsOf(n)  BY <1>4, <2>1
  <2> HIDE DEF g
  <2>4. g[S] = [i \in N |-> g[S][i]] /\ s = [i \in N |-> s[i]]  BY <1>3, <2>3
  <2>5. g[S] = s  BY <2>2, <2>4
  <2> QED  BY <2>5 DEF S
<1>7. \A S, U \in SUBSET N : g[S] = g[U] => S = U
  <2> TAKE S, U \in SUBSET N
  <2> HAVE g[S] = g[U]
  <2>1. \A i \in N : g[S][i] = g[U][i]  OBVIOUS
  <2>2. \A i \in N : (i \in S <=> g[S][i] = 1) /\ (i \in U <=> g[U][i] = 1)  BY <1>5
  <2> HIDE DEF g
  <2> QED  BY <2>1, <2>2
<1> HIDE DEF g
<1>8. \A s \in SignsOf(n) : \E S \in SUBSET N : g[S] = s  BY <1>6
<1>9. g \in Bijection(SUBSET N, SignsOf(n))
  BY <1>4, <1>7, <1>8 DEF Bijection, Injection, Surjection, IsInjective
<1>10. ExistsBijection(SUBSET N, SignsOf(n))  BY <1>9 DEF ExistsBijection
<1>11. Cardinality(SignsOf(n)) = Cardinality(SUBSET N)  BY <1>2, <1>10, FS_Bijection
<1>12. 2 ^ Cardinality(N) = 2 ^ n  BY <1>1, Zenon
<1> QED  BY <1>2, <1>11, <1>12, Zenon

(* The p-value, times the number of assignments, is the number of extreme ones. *)
LEMMA FlipIs ==
  ASSUME NEW n \in Nat, NEW v \in [1..n -> Int]
  PROVE  SignFlip(v)[1] * 2 ^ n = Cardinality(Extreme(n, v)) * SignFlip(v)[2]
<1> DEFINE all == 2 ^ n
           c == Cardinality(Extreme(n, v))
<1>1. Len(v) = n  OBVIOUS
<1>2. all = Cardinality(SignsOf(n))  BY SignsCounted, Zenon
<1>3. CASE SumOver(v) = 0
  <2>1. SignFlip(v) = <<1, 1>>  BY <1>3 DEF SignFlip
  <2>2. Extreme(n, v) = SignsOf(n)
    <3>1. \A s \in SignsOf(n) : Abs(Flipped(s, v, n)) >= Abs(SumOver(v))
      <4> TAKE s \in SignsOf(n)
      <4>1. (\A i \in 1..n : v[i] \in Int) /\ \A i \in 1..n : s[i] \in {1, -1}  BY DEF SignsOf
      <4>2. Flipped(s, v, n) \in Int  BY <4>1, FlippedIs
      <4> QED  BY <1>3, <4>2 DEF Abs
    <3> QED  BY <3>1 DEF Extreme
  <2>3. c = all  BY <1>2, <2>2
  <2>4. all \in Int
    <3>1. 2 ^ n \in Int  OBVIOUS
    <3> QED  BY <3>1
  <2> HIDE DEF all, c
  <2>5. 1 * all = c * 1  BY <2>3, <2>4
  <2>6. SignFlip(v)[1] = 1 /\ SignFlip(v)[2] = 1  BY <2>1
  <2>7. SignFlip(v)[1] * all = c * SignFlip(v)[2]  BY <2>5, <2>6
  <2> QED  BY <2>7 DEF all, c
<1>4. CASE SumOver(v) # 0
  <2>1. SignFlip(v) = <<HalvesHits(v), 2 ^ Len(v)>>  BY <1>4 DEF SignFlip
  <2>2. 2 ^ Len(v) = all  BY <1>1, Zenon
  <2>3. HalvesHits(v) = c  BY <1>4, HalvesCount
  <2> HIDE DEF all, c
  <2>4. SignFlip(v) = <<c, all>>  BY <2>1, <2>2, <2>3
  <2>5. SignFlip(v)[1] = c /\ SignFlip(v)[2] = all  BY <2>4
  <2>6. SignFlip(v)[1] * all = c * SignFlip(v)[2]  BY <2>5
  <2> QED  BY <2>6 DEF all, c
<1> QED  BY <1>3, <1>4

(* A behavior is one call. *)
FlipInv ==
  call.op = "signflip" => (\E n \in Nat : call.diffs \in [1..n -> Int]) /\ result = SignFlip(call.diffs)

(* Only a comparison changes what FlipInv speaks of. *)
LEMMA FlipStep == FlipInv /\ [Next]_vars => FlipInv'
<1> SUFFICES ASSUME FlipInv, [Next]_vars PROVE FlipInv'
  OBVIOUS
<1>1. CASE Compare
  <2>1. PICK n \in 1..MaxSamples : \E v \in [1..n -> Differences] :
          call' = [op |-> "signflip", diffs |-> v] /\ result' = SignFlip(v)
    BY <1>1 DEF Compare
  <2>2. PICK v \in [1..n -> Differences] : call' = [op |-> "signflip", diffs |-> v] /\ result' = SignFlip(v)
    BY <2>1
  <2>3. n \in Nat /\ v \in [1..n -> Int]
    <3>1. Differences \subseteq Int /\ n \in Nat  BY InputsAssumption
    <3>2. \A k \in 1..n : v[k] \in Int  BY <3>1
    <3>3. v = [k \in 1..n |-> v[k]]  OBVIOUS
    <3> QED  BY <3>1, <3>2, <3>3
  <2>4. call'.diffs = v  BY <2>2
  <2> QED  BY <2>2, <2>3, <2>4 DEF FlipInv
<1>2. CASE ~Compare
  <2>1. CASE UNCHANGED vars  BY <2>1 DEF vars, FlipInv
  <2>2. call'.op # "signflip" \/ UNCHANGED vars
    BY <1>2 DEF Next, Search, Filter, Parse, Chunk, Fetch, Score, Adjust, Report, Pool, QueryStore
  <2>3. CASE call'.op # "signflip"  BY <2>3 DEF FlipInv
  <2> QED  BY <2>1, <2>2, <2>3
<1> QED  BY <1>1, <1>2

LEMMA FlipInvIsExact == FlipInv => SignFlipIsExact
<1> SUFFICES ASSUME FlipInv, call.op = "signflip" PROVE SignFlipIsExact
  BY DEF SignFlipIsExact
<1>1. PICK n \in Nat : call.diffs \in [1..n -> Int]  BY DEF FlipInv
<1>2. Len(call.diffs) = n /\ result = SignFlip(call.diffs)  BY <1>1 DEF FlipInv
<1> DEFINE X == Extreme(n, call.diffs)
<1>3. X = {signs \in [1..n -> {1, -1}] :
             Abs(SumOver([i \in 1..n |-> signs[i] * call.diffs[i]])) >= Abs(SumOver(call.diffs))}
  BY DEF Extreme, SignsOf, Flipped
<1>4. result[1] * 2 ^ n = Cardinality(X) * result[2]  BY <1>1, <1>2, FlipIs
<1> HIDE DEF X
<1> QED  BY <1>2, <1>3, <1>4 DEF SignFlipIsExact

(* For any differences and any p-values: the permutation p-value is the     *)
(* share of all 2^n sign assignments that are at least as extreme as the    *)
(* observed one, and the adjusted p-values are those of Holm's procedure.   *)
THEOREM TestsExact == Spec => []TestsAreExact
<1>1. Init => FlipInv  BY DEF Init, FlipInv
<1>2. SignFlipIsExact /\ HolmIsStepDown => TestsAreExact  BY DEF TestsAreExact
<1> QED  BY <1>1, <1>2, FlipStep, FlipInvIsExact, HolmSteps, PTL DEF Spec

-----------------------------------------------------------------------------
(* pooled.py: means over the runs of a batch. *)

(* What load_runs makes of a file scored at the k of the batch. *)
Metrics == {"composite", "ndcg"}
Loaded(file) == [q \in 1..Asked |-> [metric \in Metrics |-> file.score[q]]]

LEMMA LoadIs ==
  ASSUME NEW file \in ResultFile
  PROVE  LoadRun(file, file.k) = Loaded(file)
<1>1. DOMAIN file.score = 1..Asked  BY DEF ResultFile
<1>2. {"composite"} \union {"ndcg"} = Metrics  BY DEF Metrics
<1> QED  BY <1>1, <1>2 DEF LoadRun, Loaded

(* runs are n loaded files. *)
Batch(runs, files, n) ==
  /\ n \in Nat \ {0} /\ Len(runs) = n /\ files \in [1..n -> ResultFile]
  /\ \A i \in 1..n : runs[i] = Loaded(files[i])

(* The scores of the runs added up. *)
RunTotal(files, n, q) == SumOver([i \in 1..n |-> files[i].score[q]])

(* Every metric of a question is averaged over all the runs. *)
LEMMA MeansAre ==
  ASSUME NEW runs, NEW files, NEW n, Batch(runs, files, n), NEW metric \in Metrics
  PROVE  PooledMeans(runs, 1..Asked, metric) = [q \in 1..Asked |-> (Share \div n) * RunTotal(files, n, q)]
<1> DEFINE having(q) == {i \in 1..Len(runs) : metric \in DOMAIN runs[i][q]}
           value(q) == (Share \div Cardinality(having(q))) * SumOver([i \in having(q) |-> runs[i][q][metric]])
           D == {x \in 1..Asked : having(x) # {}}
<1>1. PooledMeans(runs, 1..Asked, metric) = [q \in D |-> value(q)]  BY DEF PooledMeans
<1>2. n \in Nat \ {0} /\ Len(runs) = n /\ Cardinality(1..n) = n /\ 1 \in 1..n
  <2>1. n \in Nat \ {0} /\ Len(runs) = n  BY DEF Batch
  <2> QED  BY <2>1, FS_Interval
<1>3. ASSUME NEW q \in 1..Asked, NEW i \in 1..n
      PROVE  DOMAIN runs[i][q] = Metrics /\ runs[i][q][metric] = files[i].score[q]
  <2>1. runs[i] = Loaded(files[i])  BY DEF Batch
  <2> QED  BY <2>1 DEF Loaded
<1>4. ASSUME NEW q \in 1..Asked PROVE having(q) = 1..n  BY <1>2, <1>3
<1>5. ASSUME NEW q \in 1..Asked PROVE value(q) = (Share \div n) * RunTotal(files, n, q)
  <2>1. [i \in having(q) |-> runs[i][q][metric]] = [i \in 1..n |-> files[i].score[q]]
    <3> HIDE DEF having
    <3> QED  BY <1>3, <1>4
  <2>2. Cardinality(having(q)) = n  BY <1>2, <1>4
  <2> HIDE DEF having
  <2> QED  BY <2>1, <2>2 DEF RunTotal
<1>6. D = 1..Asked
  <2> HIDE DEF having
  <2> QED  BY <1>2, <1>4
<1> HIDE DEF D, value
<1> QED  BY <1>1, <1>5, <1>6

(* Without one run there are still all the questions. *)
LEMMA LeftOutIs ==
  ASSUME NEW runs, NEW files, NEW n, Batch(runs, files, n), n >= 2, NEW i \in 1..n, NEW metric \in Metrics
  PROVE  DOMAIN PooledMeans(LeaveOut(runs, i), 1..Asked, metric) = 1..Asked
<1> DEFINE S == {runs[j] : j \in 1..n}
           a == SubSeq(runs, 1, i - 1)
           b == SubSeq(runs, i + 1, n)
           place == [j \in 1..(n - 1) |-> IF j < i THEN j ELSE j + 1]
           rest == [j \in 1..(n - 1) |-> files[place[j]]]
<1>1. n \in Nat /\ Len(runs) = n  BY DEF Batch
<1>2. /\ a \in Seq(S) /\ Len(a) = i - 1
      /\ \A j \in 1..(i - 1) : a[j] = runs[j]
  <2>1. \A j \in 1..(i - 1) : runs[j] \in S  BY <1>1
  <2>2. i - 1 \in Int /\ 1 \in Int /\ (i - 1) - 1 + 1 = i - 1  BY <1>1
  <2> HIDE DEF S
  <2>3. /\ a \in Seq(S) /\ Len(a) = IF 1 <= i - 1 THEN (i - 1) - 1 + 1 ELSE 0
        /\ \A j \in 1..((i - 1) - 1 + 1) : a[j] = runs[1 + j - 1]
    BY <2>1, <2>2, SubSeqProperties
  <2>4. \A j \in 1..(i - 1) : 1 + j - 1 = j  OBVIOUS
  <2> QED  BY <1>1, <2>2, <2>3, <2>4
<1>3. /\ b \in Seq(S) /\ Len(b) = n - i
      /\ \A j \in 1..(n - i) : b[j] = runs[i + j]
  <2>1. \A j \in (i + 1)..n : runs[j] \in S  BY <1>1
  <2>2. i + 1 \in Int /\ n \in Int /\ n - (i + 1) + 1 = n - i  BY <1>1
  <2> HIDE DEF S
  <2>3. /\ b \in Seq(S) /\ Len(b) = IF i + 1 <= n THEN n - (i + 1) + 1 ELSE 0
        /\ \A j \in 1..(n - (i + 1) + 1) : b[j] = runs[(i + 1) + j - 1]
    BY <2>1, <2>2, SubSeqProperties
  <2>4. \A j \in 1..(n - i) : (i + 1) + j - 1 = i + j  BY <1>1
  <2> QED  BY <1>1, <2>2, <2>3, <2>4
<1>4. LeaveOut(runs, i) = a \o b  BY <1>1 DEF LeaveOut, RemoveAt
<1> HIDE DEF S, a, b
<1>5. /\ Len(a \o b) = Len(a) + Len(b)
      /\ \A j \in 1..Len(a) + Len(b) : (a \o b)[j] = IF j <= Len(a) THEN a[j] ELSE b[j - Len(a)]
  BY <1>2, <1>3, ConcatProperties
<1>6. Len(a) + Len(b) = n - 1  BY <1>1, <1>2, <1>3
<1>7. \A j \in 1..(n - 1) : place[j] \in 1..n /\ (a \o b)[j] = runs[place[j]]
  <2> TAKE j \in 1..(n - 1)
  <2>1. (a \o b)[j] = IF j <= i - 1 THEN a[j] ELSE b[j - (i - 1)]  BY <1>2, <1>5, <1>6
  <2>2. CASE j < i
    <3>1. j \in 1..(i - 1) /\ place[j] = j  BY <2>2
    <3> QED  BY <1>1, <1>2, <2>1, <3>1
  <2>3. CASE ~(j < i)
    <3>1. j - (i - 1) \in 1..(n - i) /\ place[j] = j + 1 /\ i + (j - (i - 1)) = j + 1  BY <1>1, <2>3
    <3>2. b[j - (i - 1)] = runs[i + (j - (i - 1))]  BY <1>3, <3>1
    <3>3. b[j - (i - 1)] = runs[j + 1]  BY <3>1, <3>2
    <3>4. ~(j <= i - 1) /\ j + 1 \in 1..n  BY <1>1, <2>3
    <3> QED  BY <2>1, <3>1, <3>3, <3>4
  <2> QED  BY <2>2, <2>3
<1> HIDE DEF place
<1>8. files \in [1..n -> ResultFile] /\ \A j \in 1..n : runs[j] = Loaded(files[j])  BY DEF Batch
<1>9. rest \in [1..(n - 1) -> ResultFile] /\ \A j \in 1..(n - 1) : rest[j] = files[place[j]]
  BY <1>7, <1>8
<1>10. \A j \in 1..(n - 1) : (a \o b)[j] = Loaded(rest[j])  BY <1>7, <1>8, <1>9
<1> HIDE DEF rest
<1>11. Batch(a \o b, rest, n - 1)  BY <1>1, <1>5, <1>6, <1>9, <1>10 DEF Batch
<1>12. DOMAIN PooledMeans(a \o b, 1..Asked, metric) = 1..Asked  BY <1>11, MeansAre
<1> QED  BY <1>4, <1>12

(* The only rising order of 1..n. *)
LEMMA RisingIs ==
  ASSUME NEW n \in Nat, NEW s \in [1..n -> 1..n], \A i, j \in 1..n : i < j => s[i] < s[j]
  PROVE  \A i \in 1..n : s[i] = i
<1> DEFINE T == {k \in Nat : k + 1 <= n => s[k + 1] >= k + 1}
           U == {k \in Nat : k < n => s[n - k] <= n - k}
<1>1. 0 \in T /\ 0 \in U
  <2>1. 1 <= n => 1 \in 1..n  OBVIOUS
  <2>2. 0 < n => n \in 1..n /\ n - 0 = n  OBVIOUS
  <2> QED  BY <2>1, <2>2
<1>2. ASSUME NEW k \in Nat, k \in T PROVE k + 1 \in T
  <2> SUFFICES ASSUME (k + 1) + 1 <= n PROVE s[(k + 1) + 1] >= (k + 1) + 1
    OBVIOUS
  <2>1. k + 1 \in 1..n /\ (k + 1) + 1 \in 1..n /\ k + 1 < (k + 1) + 1 /\ k + 1 <= n  OBVIOUS
  <2>2. s[k + 1] < s[(k + 1) + 1] /\ s[k + 1] >= k + 1  BY <1>2, <2>1
  <2>3. s[k + 1] \in Int /\ s[(k + 1) + 1] \in Int  BY <2>1
  <2> QED  BY <2>2, <2>3
<1>3. ASSUME NEW k \in Nat, k \in U PROVE k + 1 \in U
  <2> SUFFICES ASSUME k + 1 < n PROVE s[n - (k + 1)] <= n - (k + 1)
    OBVIOUS
  <2>1. n - k \in 1..n /\ n - (k + 1) \in 1..n /\ n - (k + 1) < n - k /\ k < n  OBVIOUS
  <2>2. s[n - (k + 1)] < s[n - k] /\ s[n - k] <= n - k  BY <1>3, <2>1
  <2>3. s[n - (k + 1)] \in Int /\ s[n - k] \in Int  BY <2>1
  <2> QED  BY <2>2, <2>3
<1> HIDE DEF T, U
<1>4. Nat \subseteq T /\ Nat \subseteq U
  <2>1. Nat \subseteq T  BY <1>1, <1>2, SetInduction
  <2>2. Nat \subseteq U  BY <1>1, <1>3, SetInduction
  <2> QED  BY <2>1, <2>2
<1> TAKE i \in 1..n
<1>5. i - 1 \in T /\ n - i \in U  BY <1>4
<1>6. s[i] >= i
  <2>1. (i - 1) + 1 = i /\ (i - 1) + 1 <= n  OBVIOUS
  <2> QED  BY <1>5, <2>1 DEF T
<1>7. s[i] <= i
  <2>1. n - (n - i) = i /\ n - i < n  OBVIOUS
  <2> QED  BY <1>5, <2>1 DEF U
<1>8. s[i] \in Int  OBVIOUS
<1> QED  BY <1>6, <1>7, <1>8

-----------------------------------------------------------------------------
(* pooled.py: the comparison of two batches. *)

(* The differences of the means of two batches, and the row they give. *)
MeansDiffer(filesA, n, filesB, m) ==
  [q \in 1..Asked |-> (Share \div n) * RunTotal(filesA, n, q) - (Share \div m) * RunTotal(filesB, m, q)]

Row(diffs) ==
  [ends |-> "row", diffs |-> diffs, p |-> SignFlip(diffs),
   wins |-> Quantify(DOMAIN diffs, LAMBDA i : diffs[i] > 0),
   losses |-> Quantify(DOMAIN diffs, LAMBDA i : diffs[i] < 0)]

(* No question is missing when a run is left out. *)
LEMMA NoGaps ==
  ASSUME NEW a, NEW filesA, NEW n, Batch(a, filesA, n), NEW b, NEW filesB, Batch(b, filesB, n), n >= 2,
         NEW metric \in Metrics
  PROVE  LooGaps(a, b, 1..Asked, metric) = {}
<1> DEFINE gap(i) == (1..Asked) \ (DOMAIN PooledMeans(LeaveOut(a, i), 1..Asked, metric)
                                   \intersect DOMAIN PooledMeans(LeaveOut(b, i), 1..Asked, metric))
<1>1. Len(a) = n  BY DEF Batch
<1>2. ASSUME NEW i \in 1..n PROVE gap(i) = {}
  <2>1. DOMAIN PooledMeans(LeaveOut(a, i), 1..Asked, metric) = 1..Asked  BY LeftOutIs
  <2>2. DOMAIN PooledMeans(LeaveOut(b, i), 1..Asked, metric) = 1..Asked  BY LeftOutIs
  <2> QED  BY <2>1, <2>2
<1>3. LooGaps(a, b, 1..Asked, metric) = UNION {gap(i) : i \in 1..n}  BY <1>1 DEF LooGaps
<1> HIDE DEF gap
<1> QED  BY <1>2, <1>3

(* Whichever the metric, the row is that of the means over all runs. *)
LEMMA CompareIs ==
  ASSUME NEW a, NEW filesA, NEW n, Batch(a, filesA, n), NEW b, NEW filesB, NEW m, Batch(b, filesB, m),
         NEW metric \in Metrics
  PROVE  ComparePooled(a, b, 1..Asked, metric) = Row(MeansDiffer(filesA, n, filesB, m))
<1> DEFINE meansA == PooledMeans(a, 1..Asked, metric)
           meansB == PooledMeans(b, 1..Asked, metric)
           shared == DOMAIN meansA \intersect DOMAIN meansB
           c == Cardinality(shared)
           order == CHOOSE s \in Bijection(1..c, shared) : \A i, j \in 1..c : i < j => s[i] < s[j]
           diffs == [i \in 1..c |-> meansA[order[i]] - meansB[order[i]]]
           loo == Len(a) >= 3 /\ Len(a) = Len(b)
<1>1. ComparePooled(a, b, 1..Asked, metric)
        = IF c < 2 THEN [ends |-> "none"]
          ELSE IF loo /\ LooGaps(a, b, shared, metric) # {} THEN [ends |-> "KeyError"]
          ELSE Row(diffs)
  BY DEF ComparePooled, Row, Quantify
<1>2. /\ meansA = [q \in 1..Asked |-> (Share \div n) * RunTotal(filesA, n, q)]
      /\ meansB = [q \in 1..Asked |-> (Share \div m) * RunTotal(filesB, m, q)]
  <2>1. meansA = [q \in 1..Asked |-> (Share \div n) * RunTotal(filesA, n, q)]  BY MeansAre
  <2>2. meansB = [q \in 1..Asked |-> (Share \div m) * RunTotal(filesB, m, q)]  BY MeansAre
  <2> QED  BY <2>1, <2>2
<1> HIDE DEF meansA, meansB
<1>3. shared = 1..Asked /\ c = Asked /\ Asked \in Nat /\ ~(c < 2)
  <2>1. shared = 1..Asked  BY <1>2
  <2>2. Asked \in Nat /\ Asked # 0 /\ Asked # 1  BY ReportsAssumption
  <2>3. Cardinality(1..Asked) = Asked  BY <2>2, FS_Interval
  <2> HIDE DEF shared
  <2> QED  BY <2>1, <2>2, <2>3
<1>4. loo => LooGaps(a, b, shared, metric) = {}
  <2> SUFFICES ASSUME loo PROVE LooGaps(a, b, shared, metric) = {}
    OBVIOUS
  <2>1. Len(a) = n /\ Len(b) = m  BY DEF Batch
  <2>2. m = n /\ n \in Nat /\ n >= 2
    <3>1. n \in Nat /\ m \in Nat  BY DEF Batch
    <3>2. Len(a) >= 3 /\ Len(a) = Len(b)  OBVIOUS
    <3> QED  BY <2>1, <3>1, <3>2
  <2>3. Batch(b, filesB, n)  BY <2>2
  <2>4. LooGaps(a, b, 1..Asked, metric) = {}  BY <2>2, <2>3, NoGaps
  <2> HIDE DEF shared
  <2> QED  BY <1>3, <2>4
<1>5. \A i \in 1..Asked : order[i] = i
  <2> DEFINE rising(s) == \A i, j \in 1..Asked : i < j => s[i] < s[j]
             id == [i \in 1..Asked |-> i]
  <2>1. order = CHOOSE s \in Bijection(1..Asked, 1..Asked) : rising(s)
    <3> HIDE DEF shared, c
    <3> QED  BY <1>3
  <2>2. id \in Bijection(1..Asked, 1..Asked)  BY DEF Bijection, Injection, Surjection, IsInjective
  <2>3. rising(id)  OBVIOUS
  <2> HIDE DEF order, rising, id
  <2>4. order \in Bijection(1..Asked, 1..Asked) /\ rising(order)  BY <2>1, <2>2, <2>3
  <2>5. order \in [1..Asked -> 1..Asked]  BY <2>4 DEF Bijection, Injection
  <2>6. \A i, j \in 1..Asked : i < j => order[i] < order[j]  BY <2>4 DEF rising
  <2> QED  BY <1>3, <2>5, <2>6, RisingIs
<1> HIDE DEF order, shared, c
<1>6. diffs = MeansDiffer(filesA, n, filesB, m)
  <2>1. diffs = [i \in 1..Asked |-> meansA[order[i]] - meansB[order[i]]]  BY <1>3
  <2>2. \A i \in 1..Asked : meansA[order[i]] - meansB[order[i]]
           = (Share \div n) * RunTotal(filesA, n, i) - (Share \div m) * RunTotal(filesB, m, i)
    BY <1>2, <1>5
  <2> HIDE DEF diffs
  <2> QED  BY <2>1, <2>2 DEF MeansDiffer
<1> HIDE DEF diffs, loo
<1> QED  BY <1>1, <1>3, <1>4, <1>6

(* A sum of scores is a number. *)
LEMMA TotalIs ==
  ASSUME NEW n \in Nat, NEW files \in [1..n -> ResultFile], NEW q \in 1..Asked
  PROVE  RunTotal(files, n, q) \in Int
<1> DEFINE f == [i \in 1..n |-> files[i].score[q]]
<1>1. f \in [1..n -> Int]
  <2>1. ASSUME NEW i \in 1..n PROVE files[i].score[q] \in Int
    <3>1. files[i].score \in [1..Asked -> Int]  BY DEF ResultFile
    <3> QED  BY <3>1
  <2> QED  BY <2>1
<1> HIDE DEF f
<1>2. SumOver(f) = First(n, f) /\ First(n, f) \in Int
  <2>1. n \in 0..n  OBVIOUS
  <2> QED  BY <1>1, <2>1, FirstSums
<1> QED  BY <1>2 DEF RunTotal, f

(* Means are exact. *)
LEMMA ShareIs ==
  ASSUME NEW n \in Nat \ {0}, Share % n = 0
  PROVE  Share \div n \in Int /\ Share = (Share \div n) * n
<1>1. Share \in Int  BY ReportsAssumption
<1>2. n \in Int /\ n > 0  OBVIOUS
<1>3. Share \div n \in Int  BY <1>1, <1>2
<1>4. Share = (Share \div n) * n  BY <1>1, <1>2
<1> QED  BY <1>3, <1>4

(* What is returned for batches whose files have one k. *)
LEMMA BatchesCompare ==
  ASSUME NEW n \in Nat \ {0}, NEW batchA \in [1..n -> Run], NEW m \in Nat \ {0}, NEW batchB \in [1..m -> Run],
         \A i \in 1..n, j \in 1..m : ChosenFile(batchA[i]).k = ChosenFile(batchA[1]).k
                                     /\ ChosenFile(batchB[j]).k = ChosenFile(batchA[1]).k
  PROVE  LET filesA == [i \in 1..n |-> ChosenFile(batchA[i])]
             filesB == [i \in 1..m |-> ChosenFile(batchB[i])]
             row == Row(MeansDiffer(filesA, n, filesB, m))
         IN  PooledComparison(batchA, batchB) = [k |-> filesA[1].k, ndcg |-> row, composite |-> row]
<1> DEFINE filesA == [i \in 1..n |-> ChosenFile(batchA[i])]
           filesB == [i \in 1..m |-> ChosenFile(batchB[i])]
           row == Row(MeansDiffer(filesA, n, filesB, m))
           k == ChosenFile(Head(batchA)).k
           a == [i \in 1..Len(batchA) |-> LoadRun(ChosenFile(batchA[i]), k)]
           b == [i \in 1..Len(batchB) |-> LoadRun(ChosenFile(batchB[i]), k)]
           runs == a \o b
<1>1. PooledComparison(batchA, batchB)
        = [k |-> k, ndcg |-> ComparePooled(a, b, PairedQuestions(runs), "ndcg"),
           composite |-> ComparePooled(a, b, PairedQuestions(runs), "composite")]
  BY DEF PooledComparison
<1>2. Len(batchA) = n /\ Len(batchB) = m /\ 1 \in 1..n /\ 1 \in 1..m  OBVIOUS
<1>3. Head(batchA) = batchA[1]  BY <1>2
<1>4. filesA \in [1..n -> ResultFile] /\ filesB \in [1..m -> ResultFile]
  <2>1. ASSUME NEW r \in Run PROVE ChosenFile(r) \in ResultFile
    <3>1. r.original \in ResultFile /\ (r.rescored = <<>> \/ r.rescored \in [1..1 -> ResultFile])  BY DEF Run
    <3> QED  BY <3>1 DEF ChosenFile
  <2> QED  BY <2>1
<1>5. \A i \in 1..n : filesA[i].k = k
  <2>1. ASSUME NEW i \in 1..n PROVE ChosenFile(batchA[i]).k = ChosenFile(batchA[1]).k  BY <1>2
  <2> QED  BY <1>3, <2>1
<1>6. \A j \in 1..m : filesB[j].k = k
  <2>1. ASSUME NEW j \in 1..m PROVE ChosenFile(batchB[j]).k = ChosenFile(batchA[1]).k  BY <1>2
  <2> QED  BY <1>3, <2>1
<1>7. a = [i \in 1..n |-> LoadRun(filesA[i], k)] /\ b = [i \in 1..m |-> LoadRun(filesB[i], k)]  BY <1>2
<1> HIDE DEF filesA, filesB, k, a, b
<1>8. /\ Len(a) = n /\ \A i \in 1..n : a[i] = Loaded(filesA[i])
      /\ Len(b) = m /\ \A i \in 1..m : b[i] = Loaded(filesB[i])
  <2>1. Len(a) = n /\ Len(b) = m  BY <1>7
  <2>2. ASSUME NEW i \in 1..n PROVE a[i] = Loaded(filesA[i])
    <3>1. filesA[i] \in ResultFile  BY <1>4
    <3>2. LoadRun(filesA[i], filesA[i].k) = Loaded(filesA[i])  BY <3>1, LoadIs
    <3> QED  BY <1>5, <1>7, <3>2
  <2>3. ASSUME NEW i \in 1..m PROVE b[i] = Loaded(filesB[i])
    <3>1. filesB[i] \in ResultFile  BY <1>4
    <3>2. LoadRun(filesB[i], filesB[i].k) = Loaded(filesB[i])  BY <3>1, LoadIs
    <3> QED  BY <1>6, <1>7, <3>2
  <2> QED  BY <2>1, <2>2, <2>3
<1>9. Batch(a, filesA, n) /\ Batch(b, filesB, m)  BY <1>4, <1>8 DEF Batch
<1>10. PairedQuestions(runs) = 1..Asked
  <2> DEFINE S == {a[i] : i \in 1..n} \union {b[i] : i \in 1..m}
  <2>1. a \in Seq(S) /\ b \in Seq(S)
    <3>1. a \in [1..n -> S] /\ b \in [1..m -> S]
      <4>1. \A i \in 1..n : a[i] \in S  OBVIOUS
      <4>2. \A i \in 1..m : b[i] \in S  OBVIOUS
      <4> HIDE DEF S
      <4> QED  BY <1>7, <4>1, <4>2
    <3> HIDE DEF S
    <3> QED  BY <3>1
  <2> HIDE DEF S
  <2>2. /\ Len(runs) = Len(a) + Len(b)
        /\ \A i \in 1..Len(a) + Len(b) : runs[i] = IF i <= Len(a) THEN a[i] ELSE b[i - Len(a)]
    BY <2>1, ConcatProperties
  <2>3. Len(runs) = n + m /\ \A i \in 1..(n + m) : runs[i] = IF i <= n THEN a[i] ELSE b[i - n]
    BY <1>8, <2>2
  <2> HIDE DEF runs
  <2>4. \A i \in 1..(n + m) : DOMAIN runs[i] = 1..Asked
    <3> TAKE i \in 1..(n + m)
    <3>1. CASE i <= n
      <4>1. i \in 1..n /\ runs[i] = a[i]  BY <2>3, <3>1
      <4> QED  BY <1>8, <4>1 DEF Loaded
    <3>2. CASE ~(i <= n)
      <4>1. i - n \in 1..m /\ runs[i] = b[i - n]  BY <2>3, <3>2
      <4> QED  BY <1>8, <4>1 DEF Loaded
    <3> QED  BY <3>1, <3>2
  <2>5. 1 \in 1..(n + m)  OBVIOUS
  <2> QED  BY <2>3, <2>4, <2>5 DEF PairedQuestions
<1>11. "ndcg" \in Metrics /\ "composite" \in Metrics  BY DEF Metrics
<1>12. /\ ComparePooled(a, b, 1..Asked, "ndcg") = row
       /\ ComparePooled(a, b, 1..Asked, "composite") = row
  BY <1>9, <1>11, CompareIs
<1> HIDE DEF row, runs
<1>13. k = filesA[1].k  BY <1>2, <1>5
<1>14. PooledComparison(batchA, batchB) = [k |-> filesA[1].k, ndcg |-> row, composite |-> row]
  BY <1>1, <1>10, <1>12, <1>13
<1> QED  BY <1>14 DEF row, filesA, filesB

-----------------------------------------------------------------------------
(* pooled.py: a whole batch. *)

(* A behavior is one call. *)
PoolInv ==
  call.op = "pool" =>
    /\ \E n, m \in 1..MaxRuns : call.a \in [1..n -> Run] /\ call.b \in [1..m -> Run]
    /\ result = PooledComparison(call.a, call.b)

(* Only a comparison of batches changes what PoolInv speaks of. *)
LEMMA PoolStep == PoolInv /\ [Next]_vars => PoolInv'
<1> SUFFICES ASSUME PoolInv, [Next]_vars PROVE PoolInv'
  OBVIOUS
<1>1. CASE Pool
  <2>1. PICK n \in 1..MaxRuns : \E m \in {n - 1, n} \ {0} :
          \E a \in [1..n -> BatchRuns["reference"]], b \in [1..m -> BatchRuns["baseline"]] :
            call' = [op |-> "pool", a |-> a, b |-> b] /\ result' = PooledComparison(a, b)
    BY <1>1 DEF Pool
  <2>2. PICK m \in {n - 1, n} \ {0} :
          \E a \in [1..n -> BatchRuns["reference"]], b \in [1..m -> BatchRuns["baseline"]] :
            call' = [op |-> "pool", a |-> a, b |-> b] /\ result' = PooledComparison(a, b)
    BY <2>1
  <2>3. PICK a \in [1..n -> BatchRuns["reference"]], b \in [1..m -> BatchRuns["baseline"]] :
          call' = [op |-> "pool", a |-> a, b |-> b] /\ result' = PooledComparison(a, b)
    BY <2>2
  <2>4. n \in 1..MaxRuns /\ m \in 1..MaxRuns
    <3>1. MaxRuns \in Nat  BY InputsAssumption
    <3> QED  BY <3>1
  <2>5. BatchRuns["reference"] \subseteq Run /\ BatchRuns["baseline"] \subseteq Run  BY InputsAssumption
  <2>6. a \in [1..n -> Run] /\ b \in [1..m -> Run]
    <3>1. (\A k \in 1..n : a[k] \in Run) /\ \A k \in 1..m : b[k] \in Run  BY <2>5
    <3>2. a = [k \in 1..n |-> a[k]] /\ b = [k \in 1..m |-> b[k]]  OBVIOUS
    <3> QED  BY <3>1, <3>2
  <2>7. call'.a = a /\ call'.b = b  BY <2>3
  <2> QED  BY <2>3, <2>4, <2>6, <2>7 DEF PoolInv
<1>2. CASE ~Pool
  <2>1. CASE UNCHANGED vars  BY <2>1 DEF vars, PoolInv
  <2>2. call'.op # "pool" \/ UNCHANGED vars
    BY <1>2 DEF Next, Search, Filter, Parse, Chunk, Fetch, Score, Compare, Adjust, Report, QueryStore
  <2>3. CASE call'.op # "pool"  BY <2>3 DEF PoolInv
  <2> QED  BY <2>1, <2>2, <2>3
<1> QED  BY <1>1, <1>2

LEMMA PoolInvIsWhole == PoolInv => PooledBatchIsWhole
<1> DEFINE a == call.a
           b == call.b
           runs == a \o b
           whole == /\ \A f, g \in Files(runs) : f.k = g.k
                    /\ (\E i \in 1..Len(runs) : runs[i].rescored # <<>>)
                         => \A i \in 1..Len(runs) : runs[i].rescored # <<>>
           compared ==
             /\ \A i \in 1..Len(runs) : runs[i].rescored # <<>> => result.k = runs[i].rescored[1].k
             /\ result.ndcg = result.composite
             /\ result.ndcg.ends = "row"
             /\ \A q \in DOMAIN a[1].original.score :
                  result.ndcg.diffs[q] * Len(a) * Len(b)
                    = Share * (ScoreSum(a, q) * Len(b) - ScoreSum(b, q) * Len(a))
<1>1. PooledBatchIsWhole <=> (call.op = "pool" => (whole => compared))  BY DEF PooledBatchIsWhole
<1> SUFFICES ASSUME PoolInv, call.op = "pool", whole PROVE compared
  BY <1>1
<1>2. PICK n \in 1..MaxRuns, m \in 1..MaxRuns : a \in [1..n -> Run] /\ b \in [1..m -> Run]  BY DEF PoolInv
<1>3. result = PooledComparison(a, b)  BY DEF PoolInv
<1>4. n \in Nat \ {0} /\ m \in Nat \ {0} /\ Len(a) = n /\ Len(b) = m /\ 1 \in 1..n  BY <1>2
<1>5. \A f, g \in Files(runs) : f.k = g.k  OBVIOUS
<1> HIDE DEF whole, a, b
<1>6. Len(runs) = n + m /\ \A i \in 1..(n + m) : runs[i] = IF i <= n THEN a[i] ELSE b[i - n]
  <2>1. a \in Seq(Run) /\ b \in Seq(Run)  BY <1>2, <1>4
  <2>2. /\ Len(a \o b) = Len(a) + Len(b)
        /\ \A i \in 1..Len(a) + Len(b) : (a \o b)[i] = IF i <= Len(a) THEN a[i] ELSE b[i - Len(a)]
    BY <2>1, ConcatProperties
  <2> QED  BY <1>4, <2>2
<1> HIDE DEF runs
<1>7. \A i \in 1..(n + m) : ChosenFile(runs[i]) \in Files(runs)  BY <1>6 DEF Files
<1>8. \A i \in 1..n : ChosenFile(a[i]) \in Files(runs)
  <2> TAKE i \in 1..n
  <2>1. i \in 1..(n + m) /\ i <= n  BY <1>4
  <2> QED  BY <1>6, <1>7, <2>1
<1>9. \A j \in 1..m : ChosenFile(b[j]) \in Files(runs)
  <2> TAKE j \in 1..m
  <2>1. n + j \in 1..(n + m) /\ ~(n + j <= n) /\ (n + j) - n = j  BY <1>4
  <2> QED  BY <1>6, <1>7, <2>1
<1> DEFINE filesA == [i \in 1..n |-> ChosenFile(a[i])]
           filesB == [i \in 1..m |-> ChosenFile(b[i])]
           diffs == MeansDiffer(filesA, n, filesB, m)
           row == Row(diffs)
<1>10. PooledComparison(a, b) = [k |-> filesA[1].k, ndcg |-> row, composite |-> row]
  <2>1. \A i \in 1..n, j \in 1..m : ChosenFile(a[i]).k = ChosenFile(a[1]).k
                                    /\ ChosenFile(b[j]).k = ChosenFile(a[1]).k
    BY <1>4, <1>5, <1>8, <1>9
  <2>2. a \in [1..n -> Run] /\ b \in [1..m -> Run]  BY <1>2
  <2>3. n \in Nat \ {0} /\ m \in Nat \ {0}  BY <1>4
  <2> QED  BY <2>1, <2>2, <2>3, BatchesCompare, ZenonT(30)
<1>11. filesA \in [1..n -> ResultFile] /\ filesB \in [1..m -> ResultFile]
  <2>1. ASSUME NEW r \in Run PROVE ChosenFile(r) \in ResultFile
    <3>1. r.original \in ResultFile /\ (r.rescored = <<>> \/ r.rescored \in [1..1 -> ResultFile])  BY DEF Run
    <3> QED  BY <3>1 DEF ChosenFile
  <2> QED  BY <1>2, <2>1
<1>12. filesA[1].k = ChosenFile(a[1]).k  BY <1>4
<1>13. /\ \A q \in 1..Asked : ScoreSum(a, q) = RunTotal(filesA, n, q)
       /\ \A q \in 1..Asked : ScoreSum(b, q) = RunTotal(filesB, m, q)
  <2>1. ASSUME NEW q \in 1..Asked PROVE ScoreSum(a, q) = RunTotal(filesA, n, q)
    <3>1. [i \in 1..Len(a) |-> ChosenFile(a[i]).score[q]] = [i \in 1..n |-> filesA[i].score[q]]  BY <1>4
    <3> HIDE DEF filesA
    <3> QED  BY <3>1 DEF ScoreSum, RunTotal
  <2>2. ASSUME NEW q \in 1..Asked PROVE ScoreSum(b, q) = RunTotal(filesB, m, q)
    <3>1. [i \in 1..Len(b) |-> ChosenFile(b[i]).score[q]] = [i \in 1..m |-> filesB[i].score[q]]  BY <1>4
    <3> HIDE DEF filesB
    <3> QED  BY <3>1 DEF ScoreSum, RunTotal
  <2> QED  BY <2>1, <2>2
<1> HIDE DEF filesA, filesB, diffs
<1>14. row.ends = "row" /\ row.diffs = diffs  BY DEF Row
<1> HIDE DEF row
<1>15. /\ result.k = filesA[1].k
       /\ result.ndcg = row /\ result.composite = row
  BY <1>3, <1>10
<1>16. ASSUME NEW i \in 1..Len(runs), runs[i].rescored # <<>> PROVE result.k = runs[i].rescored[1].k
  <2>1. ChosenFile(runs[i]) = runs[i].rescored[1]  BY <1>16 DEF ChosenFile
  <2>2. ChosenFile(runs[i]).k = ChosenFile(a[1]).k  BY <1>4, <1>5, <1>6, <1>7, <1>8
  <2> QED  BY <1>12, <1>15, <2>1, <2>2
<1>17. DOMAIN a[1].original.score = 1..Asked
  <2>1. a[1] \in Run  BY <1>2, <1>4
  <2> QED  BY <2>1 DEF Run, ResultFile
<1>18. ASSUME NEW q \in 1..Asked
       PROVE  diffs[q] * n * m = Share * (ScoreSum(a, q) * m - ScoreSum(b, q) * n)
  <2> DEFINE x == Share \div n
             y == Share \div m
             u == RunTotal(filesA, n, q)
             v == RunTotal(filesB, m, q)
  <2>1. Share % n = 0 /\ Share % m = 0  BY InputsAssumption
  <2>2. x \in Int /\ x * n = Share /\ y \in Int /\ y * m = Share
    <3>1. x \in Int /\ x * n = Share  BY <1>4, <2>1, ShareIs
    <3>2. y \in Int /\ y * m = Share  BY <1>4, <2>1, ShareIs
    <3> QED  BY <3>1, <3>2
  <2>3. u \in Int /\ v \in Int  BY <1>4, <1>11, TotalIs
  <2>4. diffs[q] = x * u - y * v  BY DEF diffs, MeansDiffer
  <2>5. Share \in Int  BY ReportsAssumption
  <2>6. n \in Int /\ m \in Int  BY <1>4
  <2>7. ScoreSum(a, q) = u /\ ScoreSum(b, q) = v  BY <1>13
  <2> HIDE DEF x, y, u, v
  <2>8. x \in Int /\ y \in Int  BY <2>2
  <2>9. (x * u - y * v) * n * m = Share * (u * m - v * n)
    <3>1. (x * u - y * v) * n * m = (x * n) * (u * m) - (y * m) * (v * n)  BY <2>3, <2>6, <2>8
    <3>2. Share * (u * m) - Share * (v * n) = Share * (u * m - v * n)  BY <2>3, <2>5, <2>6
    <3> QED  BY <2>2, <3>1, <3>2
  <2> QED  BY <2>4, <2>7, <2>9
<1>19. \A q \in DOMAIN a[1].original.score :
         result.ndcg.diffs[q] * Len(a) * Len(b)
           = Share * (ScoreSum(a, q) * Len(b) - ScoreSum(b, q) * Len(a))
  BY <1>4, <1>14, <1>15, <1>17, <1>18
<1>20. result.ndcg = result.composite /\ result.ndcg.ends = "row"  BY <1>14, <1>15
<1> QED  BY <1>16, <1>19, <1>20

(* For any number of runs and questions: a batch rescored as a whole, or    *)
(* not at all, is compared at its own k, each question's difference is that *)
(* of the means over all runs, and leaving out a run never misses one.      *)
THEOREM PooledWhole == Spec => []PooledBatchIsWhole
<1>1. Init => PoolInv  BY DEF Init, PoolInv
<1> QED  BY <1>1, PoolStep, PoolInvIsWhole, PTL DEF Spec

-----------------------------------------------------------------------------
(* extract_predictions: mentions. *)

(* An answer and a gold list. *)
Answer(text, n) == n \in Nat /\ text \in [1..n -> Mention]
GoldList(gold) == gold \in Seq(Keys) /\ IsInjective(gold)

(* Where a key is mentioned; another key is mentioned elsewhere. *)
LEMMA MentionsAre ==
  ASSUME NEW n, NEW text, Answer(text, n), NEW gold, NEW key
  PROVE  /\ Mentions(text, gold, key) \in SUBSET (1..n)
         /\ \A i \in Mentions(text, gold, key) : text[i].key = key
<1>1. Len(text) = n  BY DEF Answer
<1>2. \A kind, i : i \in Mentioned(text, kind, key) => i \in 1..n /\ text[i].key = key
  <2> TAKE kind, i
  <2> HAVE i \in Mentioned(text, kind, key)
  <2>1. i \in 1..n /\ text[i] = [kind |-> kind, key |-> key]  BY <1>1 DEF Mentioned
  <2>2. [kind |-> kind, key |-> key].key = key  OBVIOUS
  <2> QED  BY <2>1, <2>2
<1>3. Mentions(text, gold, key) \subseteq Mentioned(text, "id", key) \union Mentioned(text, "bare", key)
  BY DEF Mentions
<1> QED  BY <1>2, <1>3

Named(text, gold) == {key \in Keys : Mentions(text, gold, key) # {}}
MentionedFirst(text, gold, key) == Min(Mentions(text, gold, key))

(* The named keys are finitely many: each has a first mention of its own. *)
LEMMA NamedIs ==
  ASSUME NEW n, NEW text, Answer(text, n), NEW gold
  PROVE  /\ IsFiniteSet(Named(text, gold))
         /\ \A key \in Named(text, gold) :
              /\ MentionedFirst(text, gold, key) \in 1..n
              /\ text[MentionedFirst(text, gold, key)].key = key
<1> DEFINE K == Named(text, gold)
           first == [key \in K |-> MentionedFirst(text, gold, key)]
<1>1. ASSUME NEW key \in K
      PROVE  MentionedFirst(text, gold, key) \in Mentions(text, gold, key)
  <2>1. Mentions(text, gold, key) # {} /\ Mentions(text, gold, key) \in SUBSET (1..n)
    BY MentionsAre DEF Named
  <2>2. Mentions(text, gold, key) \in SUBSET Nat  BY <2>1
  <2>3. PICK i \in Mentions(text, gold, key) : \A j \in Mentions(text, gold, key) : i <= j
    BY <2>1, <2>2, LeastIs
  <2> QED  BY <2>3 DEF MentionedFirst, Min
<1>2. \A key \in K : first[key] \in 1..n /\ text[first[key]].key = key  BY <1>1, MentionsAre
<1>3. first \in Injection(K, 1..n)
  <2>1. first \in [K -> 1..n]  BY <1>2
  <2>2. \A a, b \in K : first[a] = first[b] => a = b  BY <1>2
  <2> HIDE DEF first, K
  <2>3. DOMAIN first = K  BY <2>1
  <2> QED  BY <2>1, <2>2, <2>3 DEF Injection, IsInjective
<1>4. IsFiniteSet(1..n)
  <2>1. n \in Nat  BY DEF Answer
  <2> QED  BY <2>1, FS_Interval
<1>5. IsFiniteSet(K)  BY <1>3, <1>4, FS_Injection
<1> QED  BY <1>2, <1>5

-----------------------------------------------------------------------------
(* extract_predictions: the entries. *)

AddId(s, t) == IF t.kind = "id" /\ t.key \in Accepted /\ t.key \notin ToSet(s) THEN Append(s, t.key) ELSE s
AddGold(text, s, g) ==
  IF Mentioned(text, "bare", g) # {} /\ g \notin ToSet(s) THEN Append(s, g) ELSE s

LEMMA AddIdIs ==
  ASSUME NEW s \in Seq(Keys), NEW t \in Mention
  PROVE  /\ AddId(s, t) \in Seq(Keys)
         /\ ToSet(AddId(s, t)) = ToSet(s) \union (IF t.kind = "id" /\ t.key \in Accepted THEN {t.key} ELSE {})
<1>1. t.key \in Keys  BY DEF Mention
<1>2. Append(s, t.key) \in Seq(Keys) /\ ToSet(Append(s, t.key)) = ToSet(s) \union {t.key}  BY <1>1, AppendSet
<1> QED  BY <1>2 DEF AddId

LEMMA AddGoldIs ==
  ASSUME NEW text, NEW s \in Seq(Keys), NEW g \in Keys
  PROVE  /\ AddGold(text, s, g) \in Seq(Keys)
         /\ ToSet(AddGold(text, s, g)) = ToSet(s) \union (IF Mentioned(text, "bare", g) # {} THEN {g} ELSE {})
<1>1. Append(s, g) \in Seq(Keys) /\ ToSet(Append(s, g)) = ToSet(s) \union {g}  BY AppendSet
<1> QED  BY <1>1 DEF AddGold

(* A turn of the loops over the mentions and over the gold list. *)
IdSteps(text, n) == [v \in Seq(Keys) \X (1..n) |-> AddId(v[1], text[v[2]])]
GoldSteps(text, gold, n) == [v \in Seq(Keys) \X (1..n) |-> AddGold(text, v[1], gold[v[2]])]

IdsOf(text) == FoldLeft(LAMBDA s, t : IF t.kind = "id" /\ t.key \in Accepted /\ t.key \notin ToSet(s)
                                        THEN Append(s, t.key) ELSE s,
                        <<>>, text)

WithGold(text, ids, gold) ==
  FoldLeft(LAMBDA s, g : IF Mentioned(text, "bare", g) # {} /\ g \notin ToSet(s)
                           THEN Append(s, g) ELSE s,
           ids, gold)

LEMMA IdsLoop ==
  ASSUME NEW n, NEW text, Answer(text, n)
  PROVE  EndsWith(IdsOf(text), n, Seq(Keys), <<>>, IdSteps(text, n))
<1> DEFINE F == IdSteps(text, n)
           step(s, x) == AddId(s, x)
           Chosen == CHOOSE it : it = [s \in SUBSET (DOMAIN text) |->
                       IF s = {} THEN <<>> ELSE step(it[s \ {Max(s)}], text[Max(s)])]
<1>1. IdsOf(text) = Chosen[DOMAIN text]
  BY DEF IdsOf, AddId, FoldLeft, MapThenFoldSet
<1>2. n \in Nat /\ DOMAIN text = 1..n /\ <<>> \in Seq(Keys)
  BY DEF Answer
<1>3. ASSUME NEW s \in Seq(Keys), NEW i \in 1..n PROVE step(s, text[i]) \in Seq(Keys)
  <2>1. text[i] \in Mention  BY DEF Answer
  <2> QED  BY <2>1, AddIdIs
<1> HIDE DEF step
<1>4. /\ F \in [Seq(Keys) \X (1..n) -> Seq(Keys)]
      /\ \A s \in Seq(Keys), i \in 1..n : F[<<s, i>>] = step(s, text[i])
  <2>1. F = [v \in Seq(Keys) \X (1..n) |-> step(v[1], text[v[2]])]  BY DEF IdSteps, step
  <2>2. \A v \in Seq(Keys) \X (1..n) : v[1] \in Seq(Keys) /\ v[2] \in 1..n  OBVIOUS
  <2>3. \A v \in Seq(Keys) \X (1..n) : step(v[1], text[v[2]]) \in Seq(Keys)  BY <1>3, <2>2
  <2> HIDE DEF F
  <2> QED  BY <2>1, <2>3
<1> HIDE DEF F
<1>5. PICK it : FoldOf(it, n, Seq(Keys), <<>>, F)  BY <1>2, <1>4, FoldExists
<1>6. \A s \in SUBSET (1..n) : s # {} => Max(s) \in 1..n
  <2> TAKE s \in SUBSET (1..n)
  <2>1. s \in SUBSET (0..n)  OBVIOUS
  <2> QED  BY <1>2, <2>1, MaxOfNumbers
<1>7. \A s \in SUBSET (1..n) :
        it[s] = IF s = {} THEN <<>> ELSE step(it[s \ {Max(s)}], text[Max(s)])
  <2> TAKE s \in SUBSET (1..n)
  <2>1. it[s] = IF s = {} THEN <<>> ELSE F[<<it[s \ {Max(s)}], Max(s)>>]  BY <1>5 DEF FoldOf
  <2>2. it[s \ {Max(s)}] \in Seq(Keys)  BY <1>5 DEF FoldOf
  <2> QED  BY <1>4, <1>6, <2>1, <2>2
<1>8. it = [s \in SUBSET (DOMAIN text) |->
             IF s = {} THEN <<>> ELSE step(it[s \ {Max(s)}], text[Max(s)])]
  BY <1>2, <1>5, <1>7 DEF FoldOf
<1>9. Chosen = [s \in SUBSET (DOMAIN text) |->
                  IF s = {} THEN <<>> ELSE step(Chosen[s \ {Max(s)}], text[Max(s)])]
  BY <1>8
<1> HIDE DEF Chosen
<1>10. SolvesFold(Chosen, n, Seq(Keys), <<>>, F)
  <2>1. Chosen[{}] = <<>>  BY <1>9
  <2>2. ASSUME NEW s \in SUBSET (1..n), s # {}, Chosen[s \ {Max(s)}] \in Seq(Keys)
        PROVE  Chosen[s] = F[<<Chosen[s \ {Max(s)}], Max(s)>>]
    <3>1. Chosen[s] = step(Chosen[s \ {Max(s)}], text[Max(s)])  BY <1>2, <1>9, <2>2
    <3> QED  BY <1>4, <1>6, <2>2, <3>1
  <2> QED  BY <2>1, <2>2 DEF SolvesFold
<1>11. EndsWith(Chosen[1..n], n, Seq(Keys), <<>>, F)
  <2>1. n \in Nat  BY <1>2
  <2>2. <<>> \in Seq(Keys)  BY <1>2
  <2>3. StaysIn(F, n, Seq(Keys))  BY <1>4 DEF StaysIn
  <2> QED  BY <1>10, <2>1, <2>2, <2>3, FoldRuns
<1> QED  BY <1>1, <1>2, <1>11 DEF F

LEMMA GoldLoop ==
  ASSUME NEW text, NEW ids \in Seq(Keys), NEW n \in Nat, NEW gold \in [1..n -> Keys]
  PROVE  EndsWith(WithGold(text, ids, gold), n, Seq(Keys), ids, GoldSteps(text, gold, n))
<1> DEFINE F == GoldSteps(text, gold, n)
           step(s, x) == AddGold(text, s, x)
           Chosen == CHOOSE it : it = [s \in SUBSET (DOMAIN gold) |->
                       IF s = {} THEN ids ELSE step(it[s \ {Max(s)}], gold[Max(s)])]
<1>1. WithGold(text, ids, gold) = Chosen[DOMAIN gold]
  BY DEF WithGold, AddGold, FoldLeft, MapThenFoldSet
<1>2. n \in Nat /\ DOMAIN gold = 1..n /\ ids \in Seq(Keys)
  OBVIOUS
<1>3. ASSUME NEW s \in Seq(Keys), NEW i \in 1..n PROVE step(s, gold[i]) \in Seq(Keys)
  BY AddGoldIs
<1> HIDE DEF step
<1>4. /\ F \in [Seq(Keys) \X (1..n) -> Seq(Keys)]
      /\ \A s \in Seq(Keys), i \in 1..n : F[<<s, i>>] = step(s, gold[i])
  <2>1. F = [v \in Seq(Keys) \X (1..n) |-> step(v[1], gold[v[2]])]  BY DEF GoldSteps, step
  <2>2. \A v \in Seq(Keys) \X (1..n) : v[1] \in Seq(Keys) /\ v[2] \in 1..n  OBVIOUS
  <2>3. \A v \in Seq(Keys) \X (1..n) : step(v[1], gold[v[2]]) \in Seq(Keys)  BY <1>3, <2>2
  <2> HIDE DEF F
  <2> QED  BY <2>1, <2>3
<1> HIDE DEF F
<1>5. PICK it : FoldOf(it, n, Seq(Keys), ids, F)  BY <1>2, <1>4, FoldExists
<1>6. \A s \in SUBSET (1..n) : s # {} => Max(s) \in 1..n
  <2> TAKE s \in SUBSET (1..n)
  <2>1. s \in SUBSET (0..n)  OBVIOUS
  <2> QED  BY <1>2, <2>1, MaxOfNumbers
<1>7. \A s \in SUBSET (1..n) :
        it[s] = IF s = {} THEN ids ELSE step(it[s \ {Max(s)}], gold[Max(s)])
  <2> TAKE s \in SUBSET (1..n)
  <2>1. it[s] = IF s = {} THEN ids ELSE F[<<it[s \ {Max(s)}], Max(s)>>]  BY <1>5 DEF FoldOf
  <2>2. it[s \ {Max(s)}] \in Seq(Keys)  BY <1>5 DEF FoldOf
  <2> QED  BY <1>4, <1>6, <2>1, <2>2
<1>8. it = [s \in SUBSET (DOMAIN gold) |->
             IF s = {} THEN ids ELSE step(it[s \ {Max(s)}], gold[Max(s)])]
  BY <1>2, <1>5, <1>7 DEF FoldOf
<1>9. Chosen = [s \in SUBSET (DOMAIN gold) |->
                  IF s = {} THEN ids ELSE step(Chosen[s \ {Max(s)}], gold[Max(s)])]
  BY <1>8
<1> HIDE DEF Chosen
<1>10. SolvesFold(Chosen, n, Seq(Keys), ids, F)
  <2>1. Chosen[{}] = ids  BY <1>9
  <2>2. ASSUME NEW s \in SUBSET (1..n), s # {}, Chosen[s \ {Max(s)}] \in Seq(Keys)
        PROVE  Chosen[s] = F[<<Chosen[s \ {Max(s)}], Max(s)>>]
    <3>1. Chosen[s] = step(Chosen[s \ {Max(s)}], gold[Max(s)])  BY <1>2, <1>9, <2>2
    <3> QED  BY <1>4, <1>6, <2>2, <3>1
  <2> QED  BY <2>1, <2>2 DEF SolvesFold
<1>11. EndsWith(Chosen[1..n], n, Seq(Keys), ids, F)
  <2>1. n \in Nat  BY <1>2
  <2>2. ids \in Seq(Keys)  BY <1>2
  <2>3. StaysIn(F, n, Seq(Keys))  BY <1>4 DEF StaysIn
  <2> QED  BY <1>10, <2>1, <2>2, <2>3, FoldRuns
<1> QED  BY <1>1, <1>2, <1>11 DEF F

-----------------------------------------------------------------------------
(* extract_predictions: ids, then bare names. *)

(* The entries are the named keys. *)
LEMMA IdsAre ==
  ASSUME NEW n, NEW text, Answer(text, n)
  PROVE  /\ IdsOf(text) \in Seq(Keys)
         /\ \A key : key \in ToSet(IdsOf(text)) <=>
              \E i \in 1..n : text[i].kind = "id" /\ text[i].key \in Accepted /\ text[i].key = key
<1> DEFINE F == IdSteps(text, n)
           Met(key, k) == \E i \in 1..k : text[i].kind = "id" /\ text[i].key \in Accepted /\ text[i].key = key
<1>1. PICK r : RunOf(r, n, Seq(Keys), <<>>, F) /\ IdsOf(text) = r[n]  BY IdsLoop DEF EndsWith
<1>2. n \in Nat /\ \A i \in 1..n : text[i] \in Mention  BY DEF Answer
<1>3. r \in [0..n -> Seq(Keys)] /\ r[0] = <<>>  BY <1>1 DEF RunOf
<1> DEFINE T == {k \in Nat : k <= n => \A key : key \in ToSet(r[k]) <=> Met(key, k)}
<1>4. 0 \in T
  <2>1. ToSet(<<>>) = {} /\ \A key : ~Met(key, 0)  BY DEF ToSet
  <2> HIDE DEF Met
  <2> QED  BY <1>3, <2>1
<1>5. ASSUME NEW k \in Nat, k \in T PROVE k + 1 \in T
  <2> SUFFICES ASSUME k + 1 <= n, NEW key PROVE key \in ToSet(r[k + 1]) <=> Met(key, k + 1)
    OBVIOUS
  <2> DEFINE t == text[k + 1]
             now == t.kind = "id" /\ t.key \in Accepted
  <2>1. k \in 0..(n - 1) /\ k \in 0..n /\ k + 1 \in 1..n /\ k <= n  BY <1>2
  <2>2. r[k] \in Seq(Keys) /\ t \in Mention  BY <1>2, <1>3, <2>1
  <2>3. r[k + 1] = AddId(r[k], t)
    <3>1. r[k + 1] = F[<<r[k], k + 1>>]  BY <1>1, <2>1 DEF RunOf
    <3>2. <<r[k], k + 1>> \in Seq(Keys) \X (1..n)  BY <2>1, <2>2
    <3> QED  BY <3>1, <3>2 DEF IdSteps
  <2>4. key \in ToSet(r[k + 1]) <=> key \in ToSet(r[k]) \/ (now /\ t.key = key)
    <3> HIDE DEF t
    <3>1. ToSet(AddId(r[k], t)) = ToSet(r[k]) \union (IF now THEN {t.key} ELSE {})  BY <2>2, AddIdIs
    <3> QED  BY <2>3, <3>1
  <2>5. Met(key, k + 1) <=> Met(key, k) \/ (now /\ t.key = key)
    <3>1. \A i \in 1..(k + 1) : i \in 1..k \/ i = k + 1  OBVIOUS
    <3>2. k + 1 \in 1..(k + 1) /\ \A i \in 1..k : i \in 1..(k + 1)  OBVIOUS
    <3> QED  BY <3>1, <3>2
  <2> HIDE DEF now, t, Met
  <2> QED  BY <1>5, <2>1, <2>4, <2>5
<1> HIDE DEF T, Met
<1>6. n \in T  BY <1>2, <1>4, <1>5, SetInduction
<1>7. r[n] \in Seq(Keys)
  <2>1. n \in 0..n  BY <1>2
  <2> QED  BY <1>3, <2>1
<1>8. \A key : key \in ToSet(r[n]) <=> Met(key, n)  BY <1>2, <1>6 DEF T
<1> QED  BY <1>1, <1>7, <1>8 DEF Met

LEMMA WithGoldIs ==
  ASSUME NEW text, NEW ids \in Seq(Keys), NEW n \in Nat, NEW gold \in [1..n -> Keys]
  PROVE  /\ WithGold(text, ids, gold) \in Seq(Keys)
         /\ \A key : key \in ToSet(WithGold(text, ids, gold)) <=>
              key \in ToSet(ids) \/ \E i \in 1..n : gold[i] = key /\ Mentioned(text, "bare", key) # {}
<1> DEFINE F == GoldSteps(text, gold, n)
           Met(key, k) == key \in ToSet(ids) \/ \E i \in 1..k : gold[i] = key /\ Mentioned(text, "bare", key) # {}
<1>1. PICK r : RunOf(r, n, Seq(Keys), ids, F) /\ WithGold(text, ids, gold) = r[n]  BY GoldLoop DEF EndsWith
<1>2. n \in Nat /\ \A i \in 1..n : gold[i] \in Keys  OBVIOUS
<1>3. r \in [0..n -> Seq(Keys)] /\ r[0] = ids  BY <1>1 DEF RunOf
<1> DEFINE T == {k \in Nat : k <= n => \A key : key \in ToSet(r[k]) <=> Met(key, k)}
<1>4. 0 \in T
  <2>1. \A key : Met(key, 0) <=> key \in ToSet(ids)  OBVIOUS
  <2> HIDE DEF Met
  <2> QED  BY <1>3, <2>1
<1>5. ASSUME NEW k \in Nat, k \in T PROVE k + 1 \in T
  <2> SUFFICES ASSUME k + 1 <= n, NEW key PROVE key \in ToSet(r[k + 1]) <=> Met(key, k + 1)
    OBVIOUS
  <2> DEFINE g == gold[k + 1]
             now == Mentioned(text, "bare", g) # {}
  <2>1. k \in 0..(n - 1) /\ k \in 0..n /\ k + 1 \in 1..n /\ k <= n  BY <1>2
  <2>2. r[k] \in Seq(Keys) /\ g \in Keys  BY <1>2, <1>3, <2>1
  <2>3. r[k + 1] = AddGold(text, r[k], g)
    <3>1. r[k + 1] = F[<<r[k], k + 1>>]  BY <1>1, <2>1 DEF RunOf
    <3>2. <<r[k], k + 1>> \in Seq(Keys) \X (1..n)  BY <2>1, <2>2
    <3> QED  BY <3>1, <3>2 DEF GoldSteps
  <2>4. key \in ToSet(r[k + 1]) <=> key \in ToSet(r[k]) \/ (now /\ g = key)
    <3> HIDE DEF g
    <3>1. ToSet(AddGold(text, r[k], g)) = ToSet(r[k]) \union (IF now THEN {g} ELSE {})  BY <2>2, AddGoldIs
    <3> QED  BY <2>3, <3>1
  <2>5. Met(key, k + 1) <=> Met(key, k) \/ (now /\ g = key)
    <3>1. \A i \in 1..(k + 1) : i \in 1..k \/ i = k + 1  OBVIOUS
    <3>2. k + 1 \in 1..(k + 1) /\ \A i \in 1..k : i \in 1..(k + 1)  OBVIOUS
    <3> QED  BY <3>1, <3>2
  <2> HIDE DEF now, g, Met
  <2> QED  BY <1>5, <2>1, <2>4, <2>5
<1> HIDE DEF T, Met
<1>6. n \in T  BY <1>4, <1>5, SetInduction
<1>7. r[n] \in Seq(Keys)
  <2>1. n \in 0..n  OBVIOUS
  <2> QED  BY <1>3, <2>1
<1>8. \A key : key \in ToSet(r[n]) <=> Met(key, n)  BY <1>6 DEF T
<1> QED  BY <1>1, <1>7, <1>8 DEF Met

LEMMA EntriesAre ==
  ASSUME NEW n, NEW text, Answer(text, n), NEW gold, GoldList(gold)
  PROVE  Entries(text, gold) \in Seq(Keys) /\ ToSet(Entries(text, gold)) = Named(text, gold)
<1> DEFINE ids == IdsOf(text)
           entries == Entries(text, gold)
           m == Len(gold)
<1>1. ids \in Seq(Keys) /\ \A key : key \in ToSet(ids) <=>
        \E i \in 1..n : text[i].kind = "id" /\ text[i].key \in Accepted /\ text[i].key = key
  BY IdsAre
<1>2. m \in Nat /\ gold \in [1..m -> Keys] /\ gold \in Seq(Keys)  BY DEF GoldList
<1>3. entries = WithGold(text, ids, gold)  BY DEF Entries, WithGold, IdsOf
<1> HIDE DEF ids, entries, m
<1>4. /\ entries \in Seq(Keys)
      /\ \A key : key \in ToSet(entries) <=>
           key \in ToSet(ids) \/ \E i \in 1..m : gold[i] = key /\ Mentioned(text, "bare", key) # {}
  <2>1. m \in Nat /\ gold \in [1..m -> Keys]  BY <1>2
  <2>2. ids \in Seq(Keys)  BY <1>1
  <2>3. /\ WithGold(text, ids, gold) \in Seq(Keys)
        /\ \A key : key \in ToSet(WithGold(text, ids, gold)) <=>
             key \in ToSet(ids) \/ \E i \in 1..m : gold[i] = key /\ Mentioned(text, "bare", key) # {}
    BY <2>1, <2>2, WithGoldIs, ZenonT(30)
  <2> QED  BY <1>3, <2>3
<1>5. \A key : key \in ToSet(gold) <=> \E i \in 1..m : gold[i] = key  BY <1>2 DEF ToSet
<1>6. n \in Nat /\ Len(text) = n /\ \A i \in 1..n : text[i] \in Mention  BY DEF Answer
<1>7. ASSUME NEW key
      PROVE  Mentioned(text, "id", key) # {} <=> \E i \in 1..n : text[i].kind = "id" /\ text[i].key = key
  <2>1. \A i \in 1..n : text[i] = [kind |-> "id", key |-> key] <=> text[i].kind = "id" /\ text[i].key = key
    <3> TAKE i \in 1..n
    <3>1. text[i] \in Mention  BY <1>6
    <3> QED  BY <3>1 DEF Mention
  <2> QED  BY <1>6, <2>1 DEF Mentioned
<1>8. ASSUME NEW key PROVE key \in ToSet(entries) <=> key \in Named(text, gold)
  <2>1. key \in ToSet(ids) <=> key \in Accepted /\ Mentioned(text, "id", key) # {}  BY <1>1, <1>7
  <2>2. key \in ToSet(entries) => key \in Keys
    <3>1. DOMAIN entries = 1..Len(entries) /\ \A i \in 1..Len(entries) : entries[i] \in Keys  BY <1>4
    <3> QED  BY <3>1 DEF ToSet
  <2>3. key \in ToSet(entries) <=>
          \/ key \in Accepted /\ Mentioned(text, "id", key) # {}
          \/ key \in ToSet(gold) /\ Mentioned(text, "bare", key) # {}
    BY <1>4, <1>5, <2>1
  <2> QED  BY <2>2, <2>3 DEF Named, Mentions
<1> QED  BY <1>4, <1>8 DEF entries

-----------------------------------------------------------------------------
(* extract_predictions: the loop over the umbrellas. *)

DropKey(gold, left, key) ==
  IF key \notin ToSet(gold) /\ Cardinality(Members(left, key)) >= 2 THEN left \ {key} ELSE left

DropSteps(gold, entries, n) == [v \in (SUBSET Keys) \X (1..n) |-> DropKey(gold, v[1], entries[v[2]])]

LEMMA DropLoop ==
  ASSUME NEW gold, NEW n \in Nat, NEW entries \in [1..n -> Keys]
  PROVE  EndsWith(DropUmbrellas(entries, gold), n, (SUBSET Keys), ToSet(entries), DropSteps(gold, entries, n))
<1> DEFINE F == DropSteps(gold, entries, n)
           step(s, x) == DropKey(gold, s, x)
           Chosen == CHOOSE it : it = [s \in SUBSET (DOMAIN entries) |->
                       IF s = {} THEN ToSet(entries) ELSE step(it[s \ {Max(s)}], entries[Max(s)])]
<1>1. DropUmbrellas(entries, gold) = Chosen[DOMAIN entries]
  BY DEF DropUmbrellas, DropKey, FoldLeft, MapThenFoldSet
<1>2. n \in Nat /\ DOMAIN entries = 1..n /\ ToSet(entries) \in (SUBSET Keys)
  BY DEF ToSet
<1>3. ASSUME NEW s \in (SUBSET Keys), NEW i \in 1..n PROVE step(s, entries[i]) \in (SUBSET Keys)
  BY DEF DropKey
<1> HIDE DEF step
<1>4. /\ F \in [(SUBSET Keys) \X (1..n) -> (SUBSET Keys)]
      /\ \A s \in (SUBSET Keys), i \in 1..n : F[<<s, i>>] = step(s, entries[i])
  <2>1. F = [v \in (SUBSET Keys) \X (1..n) |-> step(v[1], entries[v[2]])]  BY DEF DropSteps, step
  <2>2. \A v \in (SUBSET Keys) \X (1..n) : v[1] \in (SUBSET Keys) /\ v[2] \in 1..n  OBVIOUS
  <2>3. \A v \in (SUBSET Keys) \X (1..n) : step(v[1], entries[v[2]]) \in (SUBSET Keys)  BY <1>3, <2>2
  <2> HIDE DEF F
  <2> QED  BY <2>1, <2>3
<1> HIDE DEF F
<1>5. PICK it : FoldOf(it, n, (SUBSET Keys), ToSet(entries), F)  BY <1>2, <1>4, FoldExists
<1>6. \A s \in SUBSET (1..n) : s # {} => Max(s) \in 1..n
  <2> TAKE s \in SUBSET (1..n)
  <2>1. s \in SUBSET (0..n)  OBVIOUS
  <2> QED  BY <1>2, <2>1, MaxOfNumbers
<1>7. \A s \in SUBSET (1..n) :
        it[s] = IF s = {} THEN ToSet(entries) ELSE step(it[s \ {Max(s)}], entries[Max(s)])
  <2> TAKE s \in SUBSET (1..n)
  <2>1. it[s] = IF s = {} THEN ToSet(entries) ELSE F[<<it[s \ {Max(s)}], Max(s)>>]  BY <1>5 DEF FoldOf
  <2>2. it[s \ {Max(s)}] \in (SUBSET Keys)  BY <1>5 DEF FoldOf
  <2> QED  BY <1>4, <1>6, <2>1, <2>2
<1>8. it = [s \in SUBSET (DOMAIN entries) |->
             IF s = {} THEN ToSet(entries) ELSE step(it[s \ {Max(s)}], entries[Max(s)])]
  BY <1>2, <1>5, <1>7 DEF FoldOf
<1>9. Chosen = [s \in SUBSET (DOMAIN entries) |->
                  IF s = {} THEN ToSet(entries) ELSE step(Chosen[s \ {Max(s)}], entries[Max(s)])]
  BY <1>8
<1> HIDE DEF Chosen
<1>10. SolvesFold(Chosen, n, (SUBSET Keys), ToSet(entries), F)
  <2>1. Chosen[{}] = ToSet(entries)  BY <1>9
  <2>2. ASSUME NEW s \in SUBSET (1..n), s # {}, Chosen[s \ {Max(s)}] \in (SUBSET Keys)
        PROVE  Chosen[s] = F[<<Chosen[s \ {Max(s)}], Max(s)>>]
    <3>1. Chosen[s] = step(Chosen[s \ {Max(s)}], entries[Max(s)])  BY <1>2, <1>9, <2>2
    <3> QED  BY <1>4, <1>6, <2>2, <3>1
  <2> QED  BY <2>1, <2>2 DEF SolvesFold
<1>11. EndsWith(Chosen[1..n], n, (SUBSET Keys), ToSet(entries), F)
  <2>1. n \in Nat  BY <1>2
  <2>2. ToSet(entries) \in (SUBSET Keys)  BY <1>2
  <2>3. StaysIn(F, n, (SUBSET Keys))  BY <1>4 DEF StaysIn
  <2> QED  BY <1>10, <2>1, <2>2, <2>3, FoldRuns
<1> QED  BY <1>1, <1>2, <1>11 DEF F

-----------------------------------------------------------------------------
(* extract_predictions: dropping umbrellas one by one or at once. *)

(* An umbrella: not gold, and several of the keys extend it. *)
Umbrella(gold, keys, key) == key \notin ToSet(gold) /\ Several(Members(keys, key))

(* While the loop drops umbrellas, what has several extenders among all     *)
(* keys keeps several among those left: the extenders of a dropped one      *)
(* extend whatever it extended.                                             *)
DropInv(gold, keys, entries, left, k) ==
  /\ left \subseteq keys
  /\ \A key \in keys \ left : Umbrella(gold, keys, key)
  /\ \A i \in 1..k : Umbrella(gold, keys, entries[i]) => entries[i] \notin left
  /\ \A key : Several(Members(keys, key)) => Several(Members(left, key))

LEMMA MembersAre ==
  ASSUME NEW keys, IsFiniteSet(keys), NEW left \in SUBSET keys, NEW key
  PROVE  /\ Members(left, key) \subseteq Members(keys, key)
         /\ Cardinality(Members(left, key)) >= 2 <=> Several(Members(left, key))
         /\ Several(Members(left, key)) => Several(Members(keys, key))
<1>1. Members(left, key) \subseteq Members(keys, key)  BY DEF Members
<1>2. Members(left, key) \in SUBSET keys  BY DEF Members
<1>3. IsFiniteSet(Members(left, key))  BY <1>2, FS_Subset
<1>4. Cardinality(Members(left, key)) >= 2 <=> Several(Members(left, key))  BY <1>3, SeveralIs
<1> QED  BY <1>1, <1>4 DEF Several

(* Dropping a key with several extenders. *)
LEMMA DropKeeps ==
  ASSUME NEW left \in SUBSET Keys, NEW key, Several(Members(left, key)),
         NEW x, Several(Members(left, x))
  PROVE  Several(Members(left \ {key}, x))
<1>1. PICK a \in Members(left, x), b \in Members(left, x) : a # b  BY DEF Several
<1>2. PICK c \in Members(left, key), d \in Members(left, key) : c # d  BY DEF Several
<1>3. a \in left /\ <<a, x>> \in Extends /\ b \in left /\ <<b, x>> \in Extends  BY DEF Members
<1>4. c \in left /\ <<c, key>> \in Extends /\ d \in left /\ <<d, key>> \in Extends  BY DEF Members
<1>5. /\ Extends \subseteq Keys \X Keys
      /\ \A u \in Keys : <<u, u>> \notin Extends
      /\ \A u, v, w \in Keys : <<u, v>> \in Extends /\ <<v, w>> \in Extends => <<u, w>> \in Extends
  BY ScoresAssumption
<1>6. x \in Keys /\ key \in Keys
  <2>1. <<a, x>> \in Keys \X Keys /\ <<c, key>> \in Keys \X Keys  BY <1>3, <1>4, <1>5
  <2> QED  BY <2>1
<1>7. CASE key \in Members(left, x)
  <2>1. <<key, x>> \in Extends  BY <1>7 DEF Members
  <2>2. c # key /\ d # key  BY <1>4, <1>5, <1>6
  <2>3. <<c, x>> \in Extends /\ <<d, x>> \in Extends  BY <1>4, <1>5, <1>6, <2>1
  <2>4. c \in Members(left \ {key}, x) /\ d \in Members(left \ {key}, x)  BY <1>4, <2>2, <2>3 DEF Members
  <2> QED  BY <1>2, <2>4 DEF Several
<1>8. CASE key \notin Members(left, x)
  <2>1. a \in Members(left \ {key}, x) /\ b \in Members(left \ {key}, x)  BY <1>3, <1>8 DEF Members
  <2> QED  BY <1>1, <2>1 DEF Several
<1> QED  BY <1>7, <1>8

LEMMA DropStep ==
  ASSUME NEW gold, NEW keys \in SUBSET Keys, IsFiniteSet(keys), NEW entries, NEW left, NEW k \in Nat,
         entries[k + 1] \in keys, DropInv(gold, keys, entries, left, k)
  PROVE  DropInv(gold, keys, entries, DropKey(gold, left, entries[k + 1]), k + 1)
<1> DEFINE key == entries[k + 1]
           new == DropKey(gold, left, key)
           drops == key \notin ToSet(gold) /\ Several(Members(left, key))
<1>1. left \in SUBSET keys /\ left \in SUBSET Keys  BY DEF DropInv
<1>2. Cardinality(Members(left, key)) >= 2 <=> Several(Members(left, key))  BY <1>1, MembersAre
<1>3. new = IF drops THEN left \ {key} ELSE left  BY <1>2 DEF DropKey
<1>4. drops <=> Umbrella(gold, keys, key)
  <2>1. Several(Members(left, key)) => Several(Members(keys, key))  BY <1>1, MembersAre
  <2>2. Several(Members(keys, key)) => Several(Members(left, key))  BY DEF DropInv
  <2> QED  BY <2>1, <2>2 DEF Umbrella
<1> HIDE DEF new, drops, key
<1>5. new \subseteq keys  BY <1>1, <1>3
<1>6. ASSUME NEW x \in keys \ new PROVE Umbrella(gold, keys, x)
  <2>1. CASE x \in left
    <3>1. x = key /\ drops  BY <1>3, <1>6, <2>1
    <3> QED  BY <1>4, <3>1
  <2>2. CASE x \notin left  BY <1>6, <2>2 DEF DropInv
  <2> QED  BY <2>1, <2>2
<1>7. ASSUME NEW i \in 1..(k + 1), Umbrella(gold, keys, entries[i]) PROVE entries[i] \notin new
  <2>1. new \subseteq left  BY <1>3
  <2>2. CASE i = k + 1
    <3>1. entries[i] = key /\ drops  BY <1>4, <1>7, <2>2 DEF key
    <3> QED  BY <1>3, <3>1
  <2>3. CASE i \in 1..k
    <3>1. entries[i] \notin left  BY <1>7, <2>3 DEF DropInv
    <3> QED  BY <2>1, <3>1
  <2> QED  BY <2>2, <2>3
<1>8. ASSUME NEW x, Several(Members(keys, x)) PROVE Several(Members(new, x))
  <2>1. Several(Members(left, x))  BY <1>8 DEF DropInv
  <2>2. CASE drops
    <3>1. Several(Members(left, key))  BY <2>2 DEF drops
    <3>2. Several(Members(left \ {key}, x))  BY <1>1, <2>1, <3>1, DropKeeps
    <3> QED  BY <1>3, <2>2, <3>2
  <2>3. CASE ~drops  BY <1>3, <2>1, <2>3
  <2> QED  BY <2>2, <2>3
<1>9. DropInv(gold, keys, entries, new, k + 1)  BY <1>5, <1>6, <1>7, <1>8 DEF DropInv
<1> QED  BY <1>9 DEF new, key

(* Which keys are dropped does not depend on the order of the loop. *)
LEMMA DropUmbrellasIs ==
  ASSUME NEW gold, NEW entries \in Seq(Keys), IsFiniteSet(ToSet(entries))
  PROVE  DropUmbrellas(entries, gold)
           = {key \in ToSet(entries) : ~Umbrella(gold, ToSet(entries), key)}
<1> DEFINE n == Len(entries)
           keys == ToSet(entries)
           F == DropSteps(gold, entries, n)
<1>1. n \in Nat /\ DOMAIN entries = 1..n /\ \A i \in 1..n : entries[i] \in Keys  OBVIOUS
<1>2. entries \in [1..n -> Keys]
  <2>1. entries = [i \in 1..n |-> entries[i]]  OBVIOUS
  <2> HIDE DEF n
  <2> QED  BY <1>1, <2>1
<1>3. keys \in SUBSET Keys /\ \A i \in 1..n : entries[i] \in keys  BY <1>1 DEF ToSet
<1>4. EndsWith(DropUmbrellas(entries, gold), n, SUBSET Keys, keys, F)
  <2> HIDE DEF n
  <2> QED  BY <1>1, <1>2, DropLoop, ZenonT(30)
<1>5. PICK r : RunOf(r, n, SUBSET Keys, keys, F) /\ DropUmbrellas(entries, gold) = r[n]
  <2> HIDE DEF F, keys, n
  <2> QED  BY <1>4 DEF EndsWith
<1> HIDE DEF keys, n
<1>6. r \in [0..n -> SUBSET Keys] /\ r[0] = keys  BY <1>5 DEF RunOf
<1> DEFINE T == {k \in Nat : k <= n => DropInv(gold, keys, entries, r[k], k)}
<1>7. 0 \in T
  <2>1. DropInv(gold, keys, entries, keys, 0)  BY DEF DropInv
  <2> QED  BY <1>6, <2>1
<1>8. ASSUME NEW k \in Nat, k \in T PROVE k + 1 \in T
  <2> SUFFICES ASSUME k + 1 <= n PROVE DropInv(gold, keys, entries, r[k + 1], k + 1)
    OBVIOUS
  <2>1. k \in 0..(n - 1) /\ k \in 0..n /\ k + 1 \in 1..n /\ k <= n  BY <1>1
  <2>2. r[k + 1] = DropKey(gold, r[k], entries[k + 1])
    <3>1. r[k + 1] = F[<<r[k], k + 1>>]  BY <1>5, <2>1 DEF RunOf
    <3>2. r[k] \in SUBSET Keys  BY <1>6, <2>1
    <3>3. <<r[k], k + 1>> \in (SUBSET Keys) \X (1..n)  BY <2>1, <3>2
    <3> QED  BY <3>1, <3>3 DEF DropSteps
  <2>3. DropInv(gold, keys, entries, r[k], k)  BY <1>8, <2>1
  <2>4. entries[k + 1] \in keys /\ IsFiniteSet(keys)  BY <1>3, <2>1 DEF keys
  <2>5. DropInv(gold, keys, entries, DropKey(gold, r[k], entries[k + 1]), k + 1)
    BY <1>3, <2>3, <2>4, DropStep
  <2> QED  BY <2>2, <2>5
<1> HIDE DEF T
<1>9. n \in T  BY <1>1, <1>7, <1>8, SetInduction
<1>10. DropInv(gold, keys, entries, r[n], n)  BY <1>1, <1>9 DEF T
<1>11. \A key \in keys : \E i \in 1..n : entries[i] = key  BY <1>1 DEF keys, ToSet
<1>12. r[n] = {key \in keys : ~Umbrella(gold, keys, key)}
  <2>1. ASSUME NEW key \in r[n] PROVE key \in keys /\ ~Umbrella(gold, keys, key)
    <3>1. key \in keys  BY <1>10 DEF DropInv
    <3>2. PICK i \in 1..n : entries[i] = key  BY <1>11, <3>1
    <3> QED  BY <1>10, <3>1, <3>2 DEF DropInv
  <2>2. ASSUME NEW key \in keys, ~Umbrella(gold, keys, key) PROVE key \in r[n]
    BY <1>10, <2>2 DEF DropInv
  <2> QED  BY <2>1, <2>2
<1> QED  BY <1>5, <1>12 DEF keys

-----------------------------------------------------------------------------
(* extract_predictions: the order of first mention. *)

(* The creditable keys of an answer. *)
Credited(text, gold) == {key \in Named(text, gold) : ~Umbrella(gold, Named(text, gold), key)}

(* p has them once each, in the order of their first mentions. *)
Predicts(p, text, gold) ==
  LET keys == Credited(text, gold)
  IN  /\ p \in Bijection(1..Cardinality(keys), keys)
      /\ \A i, j \in 1..Cardinality(keys) : i < j =>
           MentionedFirst(text, gold, p[i]) < MentionedFirst(text, gold, p[j])

LEMMA PredictionExists ==
  ASSUME NEW n, NEW text, Answer(text, n), NEW gold
  PROVE  \E p : Predicts(p, text, gold)
<1> DEFINE keys == Credited(text, gold)
           first(key) == MentionedFirst(text, gold, key)
           S == {first(key) : key \in keys}
           R == {x \in S \X S : x[1] < x[2]}
           place == [key \in keys |-> first(key)]
           c == Cardinality(keys)
<1>1. n \in Nat /\ IsFiniteSet(Named(text, gold))
  <2>1. n \in Nat  BY DEF Answer
  <2> QED  BY <2>1, NamedIs
<1>2. \A key \in keys : first(key) \in 1..n /\ text[first(key)].key = key
  BY NamedIs DEF Credited
<1>3. IsFiniteSet(keys)
  <2>1. keys \in SUBSET Named(text, gold)  BY DEF Credited
  <2> HIDE DEF keys
  <2> QED  BY <1>1, <2>1, FS_Subset
<1> HIDE DEF first, keys
<1>4. S \in SUBSET (1..n)  BY <1>2
<1>5. place \in [keys -> S] /\ \A key \in keys : place[key] = first(key)  OBVIOUS
<1>6. \A a, b \in keys : place[a] = place[b] => a = b  BY <1>2, <1>5
<1>7. \A i \in S : \E key \in keys : place[key] = i  BY <1>5
<1> HIDE DEF place
<1>8. Cardinality(S) = c
  <2>1. place \in Bijection(keys, S)
    <3>1. DOMAIN place = keys  BY <1>5
    <3> HIDE DEF S
    <3> QED  BY <1>5, <1>6, <1>7, <3>1 DEF Bijection, Injection, Surjection, IsInjective
  <2>2. ExistsBijection(keys, S)  BY <2>1 DEF ExistsBijection
  <2> HIDE DEF S
  <2> QED  BY <1>3, <2>2, FS_Bijection
<1>9. Orders(R, S)
  <2>1. \A i, j \in S : <<i, j>> \in R <=> i < j  OBVIOUS
  <2>2. \A i \in S : i \in Int  BY <1>4
  <2> HIDE DEF R, S
  <2> QED  BY <2>1, <2>2 DEF Orders
<1>10. \A i, j : <<i, j>> \in R => i < j  OBVIOUS
<1> HIDE DEF R, S
<1>11. PICK s : Sorted(s, S, R)  BY <1>1, <1>4, <1>9, SortedExists
<1>12. s \in Bijection(1..c, S) /\ \A i, j \in 1..c : i < j => s[i] < s[j]
  BY <1>8, <1>10, <1>11 DEF Sorted
<1>13. /\ s \in [1..c -> S] /\ \A i, j \in 1..c : s[i] = s[j] => i = j
       /\ \A x \in S : \E i \in 1..c : s[i] = x
  BY <1>12 DEF Bijection, Injection, Surjection, IsInjective
<1> DEFINE p == [i \in 1..c |-> text[s[i]].key]
<1>14. \A i \in 1..c : p[i] \in keys /\ first(p[i]) = s[i]
  <2> TAKE i \in 1..c
  <2>1. s[i] \in S  BY <1>13
  <2>2. PICK key \in keys : place[key] = s[i]  BY <1>7, <2>1
  <2>3. first(key) = s[i] /\ text[s[i]].key = key  BY <1>2, <1>5, <2>2
  <2> QED  BY <2>2, <2>3
<1> HIDE DEF c
<1>15. DOMAIN p = 1..c  OBVIOUS
<1> HIDE DEF p
<1>16. p \in [1..c -> keys]
  <2>1. p = [i \in 1..c |-> p[i]]  BY DEF p
  <2> QED  BY <1>14, <2>1
<1>17. \A i, j \in 1..c : p[i] = p[j] => i = j  BY <1>13, <1>14
<1>18. \A key \in keys : \E i \in 1..c : p[i] = key
  <2> TAKE key \in keys
  <2>1. place[key] \in S  BY <1>5
  <2>2. PICK i \in 1..c : s[i] = place[key]  BY <1>13, <2>1
  <2>3. first(p[i]) = first(key) /\ p[i] \in keys  BY <1>5, <1>14, <2>2
  <2>4. p[i] = key  BY <1>2, <2>3
  <2> QED  BY <2>4
<1>19. p \in Bijection(1..c, keys)
  BY <1>15, <1>16, <1>17, <1>18 DEF Bijection, Injection, Surjection, IsInjective
<1>20. \A i, j \in 1..c : i < j => first(p[i]) < first(p[j])  BY <1>12, <1>14
<1>21. Predicts(p, text, gold)  BY <1>19, <1>20 DEF Predicts, first, keys, c
<1> QED  BY <1>21

(* What extract_predictions returns. *)
LEMMA PredictionsAre ==
  ASSUME NEW n, NEW text, Answer(text, n), NEW gold, GoldList(gold)
  PROVE  Predicts(ExtractPredictions(text, gold), text, gold)
<1> DEFINE entries == Entries(text, gold)
           left == DropUmbrellas(entries, gold)
           keys == Credited(text, gold)
           p == ExtractPredictions(text, gold)
           sorted(s) == \A i, j \in DOMAIN s : i < j =>
                          Min(Mentions(text, gold, s[i])) < Min(Mentions(text, gold, s[j]))
<1>1. left = keys
  <2>1. entries \in Seq(Keys) /\ ToSet(entries) = Named(text, gold)  BY EntriesAre
  <2>2. IsFiniteSet(ToSet(entries))  BY <2>1, NamedIs
  <2> HIDE DEF entries
  <2>3. left = {key \in ToSet(entries) : ~Umbrella(gold, ToSet(entries), key)}
    BY <2>1, <2>2, DropUmbrellasIs
  <2> QED  BY <2>1, <2>3 DEF Credited
<1>2. p = CHOOSE s \in Bijection(1..Cardinality(left), left) : sorted(s)
  BY DEF ExtractPredictions
<1> HIDE DEF left, keys, p
<1>3. \A s \in Bijection(1..Cardinality(keys), keys) : sorted(s) <=> Predicts(s, text, gold)
  <2> TAKE s \in Bijection(1..Cardinality(keys), keys)
  <2>1. DOMAIN s = 1..Cardinality(keys)  BY DEF Bijection, Injection
  <2> QED  BY <2>1 DEF Predicts, MentionedFirst, keys
<1>4. PICK s : Predicts(s, text, gold)  BY PredictionExists
<1>5. s \in Bijection(1..Cardinality(keys), keys)  BY <1>4 DEF Predicts, keys
<1> HIDE DEF sorted
<1>6. sorted(s)  BY <1>3, <1>4, <1>5
<1>7. p \in Bijection(1..Cardinality(keys), keys) /\ sorted(p)  BY <1>1, <1>2, <1>5, <1>6
<1>8. Predicts(p, text, gold)  BY <1>3, <1>7
<1> QED  BY <1>8 DEF p

-----------------------------------------------------------------------------
(* score_answer: what is predicted. *)

(* A behavior is one call. *)
ScoreInv ==
  call.op = "score" =>
    /\ \E n \in Nat : Answer(call.text, n)
    /\ GoldList(call.gold)
    /\ call.k \in 0..MaxK /\ call.category \in {"ranked", "ambiguous", "unscored"}
    /\ result = ScoreAnswer(call.category, call.text, call.gold, call.k)

(* Only the scoring of an answer changes what ScoreInv speaks of. *)
LEMMA ScoreStep == ScoreInv /\ [Next]_vars => ScoreInv'
<1> SUFFICES ASSUME ScoreInv, [Next]_vars PROVE ScoreInv'
  OBVIOUS
<1>1. CASE Score
  <2>1. PICK n \in 0..MaxMentions : \E text \in [1..n -> Mention], gold \in Golds, k \in 0..MaxK,
               category \in {"ranked", "ambiguous", "unscored"} :
          /\ call' = [op |-> "score", text |-> text, gold |-> gold, k |-> k, category |-> category]
          /\ result' = ScoreAnswer(category, text, gold, k)
    BY <1>1 DEF Score
  <2>2. PICK text \in [1..n -> Mention], gold \in Golds, k \in 0..MaxK,
               category \in {"ranked", "ambiguous", "unscored"} :
          /\ call' = [op |-> "score", text |-> text, gold |-> gold, k |-> k, category |-> category]
          /\ result' = ScoreAnswer(category, text, gold, k)
    BY <2>1
  <2>3. n \in Nat /\ Answer(text, n)  BY DEF Answer
  <2>4. GoldList(gold)  BY InputsAssumption DEF GoldList
  <2>5. call'.op = "score" /\ call'.text = text /\ call'.gold = gold /\ call'.k = k /\ call'.category = category
    BY <2>2
  <2>6. result' = ScoreAnswer(call'.category, call'.text, call'.gold, call'.k)  BY <2>2, <2>5
  <2> QED  BY <2>3, <2>4, <2>5, <2>6 DEF ScoreInv
<1>2. CASE ~Score
  <2>1. CASE UNCHANGED vars  BY <2>1 DEF vars, ScoreInv
  <2>2. call'.op # "score" \/ UNCHANGED vars
    BY <1>2 DEF Next, Search, Filter, Parse, Chunk, Fetch, Compare, Adjust, Report, Pool, QueryStore
  <2>3. CASE call'.op # "score"  BY <2>3 DEF ScoreInv
  <2> QED  BY <2>1, <2>2, <2>3
<1> QED  BY <1>1, <1>2

(* The predictions as a sequence. *)
LEMMA PredictedIs ==
  ASSUME NEW p, NEW n, NEW text, Answer(text, n), NEW gold, Predicts(p, text, gold)
  PROVE  LET c == Cardinality(Credited(text, gold)) IN
         /\ c \in Nat /\ Len(p) = c /\ p \in [1..c -> Keys]
         /\ ToSet(p) = Credited(text, gold)
         /\ \A i, j \in 1..c : p[i] = p[j] => i = j
         /\ \A i, j \in 1..c : i < j => MentionedFirst(text, gold, p[i]) < MentionedFirst(text, gold, p[j])
<1> DEFINE keys == Credited(text, gold)
           c == Cardinality(keys)
<1>1. c \in Nat
  <2>1. IsFiniteSet(Named(text, gold)) /\ keys \in SUBSET Named(text, gold)  BY NamedIs DEF Credited
  <2>2. IsFiniteSet(keys)  BY <2>1, FS_Subset
  <2> QED  BY <2>2, FS_CardinalityType
<1>2. keys \subseteq Keys  BY DEF Credited, Named
<1>3. /\ p \in Bijection(1..c, keys)
      /\ \A i, j \in 1..c : i < j => MentionedFirst(text, gold, p[i]) < MentionedFirst(text, gold, p[j])
  BY DEF Predicts
<1> HIDE DEF keys, c
<1>4. /\ p \in [1..c -> keys] /\ \A i, j \in 1..c : p[i] = p[j] => i = j
      /\ \A key \in keys : \E i \in 1..c : p[i] = key
  BY <1>3 DEF Bijection, Injection, Surjection, IsInjective
<1>5. DOMAIN p = 1..c /\ Len(p) = c  BY <1>1, <1>4
<1>6. ToSet(p) = keys  BY <1>4, <1>5 DEF ToSet
<1>7. p \in [1..c -> Keys]
  <2>1. \A i \in 1..c : p[i] \in Keys  BY <1>2, <1>4
  <2>2. p = [i \in 1..c |-> p[i]]  BY <1>4
  <2> QED  BY <2>1, <2>2
<1> QED  BY <1>1, <1>3, <1>4, <1>5, <1>6, <1>7 DEF keys, c

LEMMA PredictionsFollow == ScoreInv => PredictionsFollowTheAnswer
<1> SUFFICES ASSUME ScoreInv, call.op = "score" PROVE PredictionsFollowTheAnswer
  BY DEF PredictionsFollowTheAnswer
<1> DEFINE text == call.text
           gold == call.gold
           named == {key \in Keys : Mentions(text, gold, key) # {}}
           umbrella(key) == key \notin ToSet(gold)
                            /\ Cardinality({o \in named : <<o, key>> \in Extends}) >= 2
           p == result.predicted
<1>1. PICK n \in Nat : Answer(text, n)  BY DEF ScoreInv
<1>2. GoldList(gold) /\ result = ScoreAnswer(call.category, text, gold, call.k)
      /\ call.category \in {"ranked", "ambiguous", "unscored"}
  BY DEF ScoreInv
<1>3. p = ExtractPredictions(text, gold)  BY <1>2 DEF ScoreAnswer
<1>4. Predicts(p, text, gold)  BY <1>1, <1>2, <1>3, PredictionsAre
<1>5. named = Named(text, gold) /\ IsFiniteSet(named)
  <2>1. named = Named(text, gold)  BY DEF Named
  <2> QED  BY <1>1, <2>1, NamedIs
<1>6. \A key : umbrella(key) <=> Umbrella(gold, named, key)
  <2> TAKE key
  <2>1. Members(named, key) = {o \in named : <<o, key>> \in Extends}  BY DEF Members
  <2> HIDE DEF named
  <2>2. named \in SUBSET named  OBVIOUS
  <2>3. Cardinality(Members(named, key)) >= 2 <=> Several(Members(named, key))  BY <1>5, <2>2, MembersAre
  <2> QED  BY <2>1, <2>3 DEF Umbrella
<1>7. Credited(text, gold) = {key \in named : ~umbrella(key)}
  <2> HIDE DEF umbrella
  <2>1. Credited(text, gold) = {key \in named : ~Umbrella(gold, named, key)}  BY <1>5 DEF Credited
  <2> HIDE DEF named
  <2> QED  BY <1>6, <2>1
<1>8. /\ ToSet(p) = Credited(text, gold)
      /\ \A i, j \in 1..Len(p) : i < j => MentionedFirst(text, gold, p[i]) < MentionedFirst(text, gold, p[j])
  BY <1>1, <1>4, PredictedIs
<1>9. \A key : MentionedFirst(text, gold, key) = FirstMention(key)  BY DEF MentionedFirst, FirstMention
<1>10. \A i, j \in 1..Len(p) : i < j => FirstMention(p[i]) < FirstMention(p[j])
  <2> HIDE DEF p, text, gold
  <2> QED  BY <1>8, <1>9
<1>11. ToSet(p) = {key \in named : ~umbrella(key)}
  <2> HIDE DEF p, named, umbrella
  <2> QED  BY <1>7, <1>8
<1> HIDE DEF FirstMention
<1> QED  BY <1>10, <1>11 DEF PredictionsFollowTheAnswer

-----------------------------------------------------------------------------
(* The metrics: grades and sums of gains. *)

(* A gold model's grade tells its place, and others have none. *)
LEMMA GradeIs ==
  ASSUME NEW gold, GoldList(gold)
  PROVE  /\ \A key : Grade(gold, key) \in 0..Len(gold)
         /\ \A key : Grade(gold, key) # 0 <=> key \in ToSet(gold)
         /\ \A i \in 1..Len(gold) : Grade(gold, gold[i]) = Len(gold) - i + 1
         /\ \A x, y : Grade(gold, x) = Grade(gold, y) /\ Grade(gold, x) # 0 => x = y
<1> DEFINE g == Len(gold)
           I(key) == {i \in 1..g : gold[i] = key}
<1>1. g \in Nat /\ DOMAIN gold = 1..g /\ \A i, j \in 1..g : gold[i] = gold[j] => i = j
  <2>1. g \in Nat /\ DOMAIN gold = 1..g  BY DEF GoldList
  <2> QED  BY <2>1 DEF GoldList, IsInjective
<1> HIDE DEF g
<1>2. \A key : key \in ToSet(gold) <=> \E i \in 1..g : gold[i] = key  BY <1>1 DEF ToSet
<1>3. ASSUME NEW key
      PROVE  /\ I(key) = {} => Grade(gold, key) = 0
             /\ \A i \in 1..g : gold[i] = key => Grade(gold, key) = g - i + 1
  <2> DEFINE place == SelectInSeq(gold, LAMBDA x : x = key)
  <2>1. place = IF I(key) # {} THEN Min(I(key)) ELSE 0  BY DEF SelectInSeq, g
  <2>2. Grade(gold, key) = IF place = 0 THEN 0 ELSE g - place + 1  BY DEF Grade, g
  <2> HIDE DEF place
  <2>3. ASSUME NEW i \in 1..g, gold[i] = key PROVE place = i
    <3>1. I(key) = {i}  BY <1>1, <2>3
    <3>2. Min({i}) = i
      <4>1. \A x \in {i} : x = i  OBVIOUS
      <4>2. i <= i  BY <1>1
      <4> QED  BY <4>1, <4>2 DEF Min
    <3> QED  BY <2>1, <3>1, <3>2
  <2>4. I(key) = {} => Grade(gold, key) = 0  BY <2>1, <2>2
  <2>5. \A i \in 1..g : gold[i] = key => Grade(gold, key) = g - i + 1  BY <2>2, <2>3
  <2> QED  BY <2>4, <2>5
<1>4. ASSUME NEW key
      PROVE  \/ key \notin ToSet(gold) /\ Grade(gold, key) = 0
             \/ \E i \in 1..g : gold[i] = key /\ Grade(gold, key) = g - i + 1 /\ key \in ToSet(gold)
  <2>1. CASE I(key) = {}  BY <1>2, <1>3, <2>1
  <2>2. CASE I(key) # {}
    <3>1. PICK i \in 1..g : gold[i] = key  BY <2>2
    <3> QED  BY <1>2, <1>3, <3>1
  <2> QED  BY <2>1, <2>2
<1> HIDE DEF I
<1>5. \A key : Grade(gold, key) \in 0..g
  <2> TAKE key
  <2>1. \A i \in 1..g : g - i + 1 \in 0..g  BY <1>1
  <2>2. 0 \in 0..g  BY <1>1
  <2> QED  BY <1>4, <2>1, <2>2
<1>6. \A key : Grade(gold, key) # 0 <=> key \in ToSet(gold)
  <2> TAKE key
  <2>1. \A i \in 1..g : g - i + 1 # 0  BY <1>1
  <2> QED  BY <1>4, <2>1
<1>7. \A i \in 1..g : Grade(gold, gold[i]) = g - i + 1  BY <1>3
<1>8. ASSUME NEW x, NEW y, Grade(gold, x) = Grade(gold, y), Grade(gold, x) # 0 PROVE x = y
  <2>1. PICK i \in 1..g : gold[i] = x /\ Grade(gold, x) = g - i + 1  BY <1>4, <1>8
  <2>2. PICK j \in 1..g : gold[j] = y /\ Grade(gold, y) = g - j + 1  BY <1>4, <1>8
  <2>3. g - i + 1 = g - j + 1  BY <1>8, <2>1, <2>2
  <2>4. i = j  BY <1>1, <2>3
  <2> QED  BY <2>1, <2>2, <2>4
<1> QED  BY <1>5, <1>6, <1>7, <1>8 DEF g

(* The first k predictions. *)
LEMMA TopIsFirst ==
  ASSUME NEW S, NEW seq \in Seq(S), NEW k \in Nat
  PROVE  LET h == IF k <= Len(seq) THEN k ELSE Len(seq) IN
         /\ h \in 0..Len(seq) /\ h \in 0..k
         /\ DOMAIN TopK(seq, k) = 1..h /\ Len(TopK(seq, k)) = h
         /\ TopK(seq, k) \in Seq(S)
         /\ \A i \in 1..h : TopK(seq, k)[i] = seq[i]
<1> DEFINE l == Len(seq)
           h == IF k <= l THEN k ELSE l
           top == SubSeq(seq, 1, h)
<1>1. l \in Nat /\ h \in Nat /\ h \in 0..l /\ h \in 0..k /\ \A i \in 1..l : seq[i] \in S  OBVIOUS
<1>2. TopK(seq, k) = top
  <2>1. Min({k, l}) = h  BY <1>1, MinOfTwo
  <2> HIDE DEF h
  <2> QED  BY <2>1 DEF TopK
<1> HIDE DEF h, l
<1>3. \A i \in 1..h : seq[i] \in S  BY <1>1
<1>4. /\ top \in Seq(S) /\ Len(top) = IF 1 <= h THEN h - 1 + 1 ELSE 0
      /\ \A i \in 1..(h - 1 + 1) : top[i] = seq[1 + i - 1]
  BY <1>1, <1>3, SubSeqProperties
<1>5. Len(top) = h /\ \A i \in 1..h : top[i] = seq[i]
  <2>1. h - 1 + 1 = h /\ \A i \in 1..h : 1 + i - 1 = i  BY <1>1
  <2>2. Len(top) = h  BY <1>1, <1>4, <2>1
  <2> QED  BY <1>4, <2>1, <2>2
<1>6. DOMAIN top = 1..h  BY <1>4, <1>5
<1> HIDE DEF top
<1> QED  BY <1>1, <1>2, <1>4, <1>5, <1>6 DEF h, l

(* Zeros at the end do not count. *)
LEMMA ZeroTail ==
  ASSUME NEW n \in Nat, NEW f \in [1..n -> Int], NEW h \in 0..n, \A i \in 1..n : i > h => f[i] = 0
  PROVE  First(n, f) = First(h, f)
<1> DEFINE T == {d \in Nat : h + d <= n => First(h + d, f) = First(h, f)}
<1>1. 0 \in T
  <2>1. h + 0 = h  OBVIOUS
  <2> QED  BY <2>1
<1>2. ASSUME NEW d \in Nat, d \in T PROVE d + 1 \in T
  <2> SUFFICES ASSUME h + (d + 1) <= n PROVE First(h + (d + 1), f) = First(h, f)
    OBVIOUS
  <2>1. h + d \in 0..(n - 1) /\ h + d <= n /\ (h + d) + 1 = h + (d + 1)  OBVIOUS
  <2>2. First((h + d) + 1, f) = First(h + d, f) + f[(h + d) + 1]  BY <2>1, FirstSums
  <2>3. (h + d) + 1 \in 1..n /\ (h + d) + 1 > h  OBVIOUS
  <2>4. f[(h + d) + 1] = 0  BY <2>3
  <2>5. First(h + d, f) = First(h, f)  BY <1>2, <2>1
  <2>6. First(h, f) \in Int  BY FirstSums
  <2> QED  BY <2>1, <2>2, <2>4, <2>5, <2>6
<1> HIDE DEF T
<1>3. n - h \in T
  <2>1. n - h \in Nat  OBVIOUS
  <2> QED  BY <1>1, <1>2, <2>1, SetInduction
<1>4. h + (n - h) = n /\ h + (n - h) <= n  OBVIOUS
<1> QED  BY <1>3, <1>4 DEF T

(* What the ranks earn, and would at best. *)
Earned(p, gold, k) == [i \in 1..k |-> IF i <= Len(p) THEN Grade(gold, p[i]) ELSE 0]
Ideal(gold, k) == [i \in 1..k |-> IF i <= Len(gold) THEN Len(gold) - i + 1 ELSE 0]
Weighed(f, k) == [i \in 1..k |-> f[i] * Discount[i]]

(* The discounts of the first k ranks. *)
Discounts(k) ==
  /\ \A i \in 1..k : Discount[i] \in Nat \ {0}
  /\ \A i, j \in 1..k : i < j => Discount[i] > Discount[j]

LEMMA DiscountsAre ==
  ASSUME NEW k \in 0..MaxK
  PROVE  k \in Nat /\ Discounts(k)
<1>1. MaxK \in Nat /\ 1..MaxK \subseteq DOMAIN Discount  BY InputsAssumption
<1>2. k \in Nat /\ 1..k \subseteq 1..MaxK  BY <1>1
<1>3. \A i \in 1..k : i \in DOMAIN Discount  BY <1>1, <1>2
<1>4. Discount \in Seq(Nat \ {0}) /\ \A i, j \in DOMAIN Discount : i < j => Discount[i] > Discount[j]
  BY ScoresAssumption
<1>5. \A i \in DOMAIN Discount : Discount[i] \in Nat \ {0}  BY <1>4
<1> QED  BY <1>2, <1>3, <1>4, <1>5 DEF Discounts

LEMMA NDCGIs ==
  ASSUME NEW k \in Nat, k > 0, Discounts(k), NEW gold, GoldList(gold), gold # <<>>, NEW p \in Seq(Keys)
  PROVE  /\ Earned(p, gold, k) \in [1..k -> Nat] /\ Ideal(gold, k) \in [1..k -> Nat]
         /\ NDCG(p, gold, k)
              = <<First(k, Weighed(Earned(p, gold, k), k)), First(k, Weighed(Ideal(gold, k), k))>>
<1> DEFINE A == Earned(p, gold, k)
           B == Ideal(gold, k)
           WA == Weighed(A, k)
           WB == Weighed(B, k)
           h(s) == IF k <= Len(s) THEN k ELSE Len(s)
<1>1. Len(p) \in Nat /\ Len(gold) \in Nat /\ gold \in Seq(Keys)  BY DEF GoldList
<1>2. \A key : Grade(gold, key) \in Nat  BY <1>1, GradeIs
<1>3. A \in [1..k -> Nat] /\ B \in [1..k -> Nat]
  <2>1. \A i \in 1..k : (IF i <= Len(p) THEN Grade(gold, p[i]) ELSE 0) \in Nat  BY <1>2
  <2>2. \A i \in 1..k : (IF i <= Len(gold) THEN Len(gold) - i + 1 ELSE 0) \in Nat  BY <1>1
  <2> QED  BY <2>1, <2>2 DEF Earned, Ideal
<1>4. WA \in [1..k -> Int] /\ WB \in [1..k -> Int]
  <2>1. \A i \in 1..k : Discount[i] \in Int  BY DEF Discounts
  <2> HIDE DEF A, B
  <2>2. \A i \in 1..k : A[i] \in Int /\ B[i] \in Int  BY <1>3
  <2>3. \A i \in 1..k : A[i] * Discount[i] \in Int /\ B[i] * Discount[i] \in Int  BY <2>1, <2>2
  <2> QED  BY <2>3 DEF Weighed
<1>5. /\ DOMAIN TopK(p, k) = 1..h(p) /\ h(p) \in 0..k /\ h(p) \in 0..Len(p)
      /\ DOMAIN TopK(gold, k) = 1..h(gold) /\ h(gold) \in 0..k /\ h(gold) \in 0..Len(gold)
  <2>1. DOMAIN TopK(p, k) = 1..h(p) /\ h(p) \in 0..k /\ h(p) \in 0..Len(p)  BY TopIsFirst
  <2>2. DOMAIN TopK(gold, k) = 1..h(gold) /\ h(gold) \in 0..k /\ h(gold) \in 0..Len(gold)
    BY <1>1, TopIsFirst
  <2> QED  BY <2>1, <2>2
<1>6. Gain(p, gold, k) = First(h(p), WA)
  <2>1. \A i \in 1..h(p) : WA[i] = Grade(gold, p[i]) * Discount[i]
    <3> TAKE i \in 1..h(p)
    <3>1. i \in 1..k /\ i <= Len(p)  BY <1>1, <1>5
    <3> QED  BY <3>1 DEF Weighed, Earned
  <2>2. [i \in 1..h(p) |-> Grade(gold, p[i]) * Discount[i]] = [i \in 1..h(p) |-> WA[i]]
    <3> HIDE DEF WA, h
    <3> QED  BY <2>1
  <2> HIDE DEF WA, h
  <2> QED  BY <1>5, <2>2 DEF Gain, First
<1>7. SumOver([i \in DOMAIN TopK(gold, k) |-> (Len(gold) - i + 1) * Discount[i]]) = First(h(gold), WB)
  <2>1. \A i \in 1..h(gold) : WB[i] = (Len(gold) - i + 1) * Discount[i]
    <3> TAKE i \in 1..h(gold)
    <3>1. i \in 1..k /\ i <= Len(gold)  BY <1>1, <1>5
    <3> QED  BY <3>1 DEF Weighed, Ideal
  <2>2. [i \in 1..h(gold) |-> (Len(gold) - i + 1) * Discount[i]] = [i \in 1..h(gold) |-> WB[i]]
    <3> HIDE DEF WB, h
    <3> QED  BY <2>1
  <2> HIDE DEF WB, h
  <2> QED  BY <1>5, <2>2 DEF First
<1>8. First(k, WA) = First(h(p), WA)
  <2>1. \A i \in 1..k : i > h(p) => WA[i] = 0
    <3> TAKE i \in 1..k
    <3> HAVE i > h(p)
    <3>1. ~(i <= Len(p))  BY <1>1
    <3>2. A[i] = 0  BY <3>1 DEF Earned
    <3>3. WA[i] = A[i] * Discount[i] /\ Discount[i] \in Int  BY DEF Weighed, Discounts
    <3> HIDE DEF A, WA
    <3> QED  BY <3>2, <3>3
  <2> HIDE DEF WA, h
  <2> QED  BY <1>4, <1>5, <2>1, ZeroTail
<1>9. First(k, WB) = First(h(gold), WB)
  <2>1. \A i \in 1..k : i > h(gold) => WB[i] = 0
    <3> TAKE i \in 1..k
    <3> HAVE i > h(gold)
    <3>1. ~(i <= Len(gold))  BY <1>1
    <3>2. B[i] = 0  BY <3>1 DEF Ideal
    <3>3. WB[i] = B[i] * Discount[i] /\ Discount[i] \in Int  BY DEF Weighed, Discounts
    <3> HIDE DEF B, WB
    <3> QED  BY <3>2, <3>3
  <2> HIDE DEF WB, h
  <2> QED  BY <1>4, <1>5, <2>1, ZeroTail
<1>10. NDCG(p, gold, k)
         = <<Gain(p, gold, k), SumOver([i \in DOMAIN TopK(gold, k) |-> (Len(gold) - i + 1) * Discount[i]])>>
  <2>1. ~(k <= 0)  OBVIOUS
  <2> QED  BY <2>1 DEF NDCG
<1> HIDE DEF A, B, WA, WB, h
<1>11. NDCG(p, gold, k) = <<First(k, WA), First(k, WB)>>  BY <1>6, <1>7, <1>8, <1>9, <1>10
<1> QED  BY <1>3, <1>11 DEF WA, WB, A, B

-----------------------------------------------------------------------------
(* nDCG: the best grades. *)

(* Grades up to g, no two positions with the same one. *)
Grades(A, k, g) ==
  /\ A \in [1..k -> Nat] /\ \A i \in 1..k : A[i] <= g
  /\ \A i, j \in 1..k : A[i] = A[j] /\ A[i] # 0 => i = j

(* The best grades, in order. *)
BestGrades(k, g) == [i \in 1..k |-> IF i <= g THEN g - i + 1 ELSE 0]

(* The smallest of m + 1 grades is at most the one of rank m + 1. *)
LEMMA SmallestGrade ==
  ASSUME NEW k \in Nat, NEW g \in Nat, NEW A, Grades(A, k, g), NEW m \in Nat, m + 1 <= k,
         NEW U \in SUBSET (1..k), Cardinality(U) = m + 1
  PROVE  \E x \in U : A[x] <= BestGrades(k, g)[m + 1]
<1>1. /\ \A i \in 1..k : A[i] \in Nat /\ A[i] <= g
      /\ \A i, j \in 1..k : A[i] = A[j] /\ A[i] # 0 => i = j
  BY DEF Grades
<1>2. U # {}
  <2> SUFFICES ASSUME U = {} PROVE FALSE
    OBVIOUS
  <2>1. Cardinality(U) = 0  BY FS_EmptySet
  <2> QED  BY <2>1
<1> DEFINE V == {A[i] : i \in U}
<1>3. V \in SUBSET Nat /\ V # {}
  <2>1. \A i \in U : A[i] \in Nat
    <3>1. \A i \in U : i \in 1..k  OBVIOUS
    <3> QED  BY <1>1, <3>1
  <2>2. V \in SUBSET Nat  BY <2>1
  <2>3. PICK i : i \in U  BY <1>2
  <2>4. A[i] \in V  BY <2>3
  <2> QED  BY <2>2, <2>4
<1>4. PICK v \in V : \A w \in V : v <= w
  <2> HIDE DEF V
  <2> QED  BY <1>3, LeastIs
<1>5. PICK x \in U : v = A[x]  OBVIOUS
<1>6. \A i \in U : A[x] <= A[i]  BY <1>4, <1>5
<1>7. x \in 1..k /\ A[x] \in Nat /\ A[x] <= g  BY <1>1
<1> DEFINE b == BestGrades(k, g)[m + 1]
<1>8. b = IF m + 1 <= g THEN g - m ELSE 0
  <2>1. m + 1 \in 1..k /\ g - (m + 1) + 1 = g - m  OBVIOUS
  <2> QED  BY <2>1 DEF BestGrades
<1> HIDE DEF b, V
<1>9. CASE A[x] = 0  BY <1>8, <1>9 DEF b
<1>10. CASE A[x] # 0
  <2> DEFINE f == [i \in U |-> A[i]]
             a == A[x]
  <2>1. a \in Int /\ a <= g /\ \A i \in U : A[i] \in a..g  BY <1>1, <1>6, <1>7
  <2>2. f \in [U -> a..g] /\ DOMAIN f = U  BY <2>1
  <2>3. \A i, j \in U : f[i] = f[j] => i = j
    <3>1. \A i \in U : i \in 1..k /\ A[i] # 0  BY <1>1, <1>6, <1>7, <1>10
    <3> QED  BY <1>1, <3>1
  <2> HIDE DEF f
  <2>4. f \in Injection(U, a..g)  BY <2>2, <2>3 DEF Injection, IsInjective
  <2>5. IsFiniteSet(a..g) /\ Cardinality(a..g) = g - a + 1
    <3>1. a \in Int /\ g \in Int /\ ~(a > g)  BY <2>1
    <3> QED  BY <3>1, FS_Interval
  <2>6. m + 1 <= g - a + 1  BY <2>4, <2>5, FS_Injection
  <2> HIDE DEF a
  <2>7. a <= b
    <3>1. a >= 1  BY <1>7, <1>10 DEF a
    <3> QED  BY <1>8, <2>1, <2>6, <3>1
  <2> QED  BY <2>7 DEF a, b
<1> QED  BY <1>9, <1>10

(* Whatever m positions are taken, the m best grades add up to more. *)
LEMMA PrefixIsBest ==
  ASSUME NEW k \in Nat, NEW g \in Nat, NEW A, Grades(A, k, g)
  PROVE  \A j \in 0..k : First(j, A) <= First(j, BestGrades(k, g))
<1> DEFINE B == BestGrades(k, g)
<1>1. A \in [1..k -> Int] /\ B \in [1..k -> Int]
  <2>1. A \in [1..k -> Nat]  BY DEF Grades
  <2>2. \A i \in 1..k : A[i] \in Int  BY <2>1
  <2>3. A = [i \in 1..k |-> A[i]]  BY <2>1
  <2>4. A \in [1..k -> Int]  BY <2>2, <2>3
  <2>5. B \in [1..k -> Int]  BY DEF BestGrades
  <2> QED  BY <2>4, <2>5
<1>2. PICK s : SumsOf(s, k, A)  BY <1>1, SumsExist
<1> HIDE DEF B
<1>3. /\ First(0, B) = 0 /\ \A j \in 0..k : First(j, B) \in Int
      /\ \A j \in 0..(k - 1) : First(j + 1, B) = First(j, B) + B[j + 1]
  <2>1. First(0, B) = 0  BY <1>1, FirstSums
  <2>2. \A j \in 0..k : First(j, B) \in Int  BY <1>1, FirstSums
  <2>3. \A j \in 0..(k - 1) : First(j + 1, B) = First(j, B) + B[j + 1]  BY <1>1, FirstSums
  <2> QED  BY <2>1, <2>2, <2>3
<1>4. /\ s[{}] = 0 /\ \A U \in SUBSET (1..k) : s[U] \in Int
      /\ \A U \in SUBSET (1..k) : \A x \in U : s[U] = A[x] + s[U \ {x}]
  BY <1>2 DEF SumsOf
<1>5. \A U \in SUBSET (1..k) : IsFiniteSet(U)
  <2>1. IsFiniteSet(1..k)  BY FS_Interval
  <2> QED  BY <2>1, FS_Subset
<1> DEFINE T == {m \in Nat : m <= k => \A U \in SUBSET (1..k) : Cardinality(U) = m => s[U] <= First(m, B)}
<1>6. 0 \in T
  <2> SUFFICES ASSUME NEW U \in SUBSET (1..k), Cardinality(U) = 0 PROVE s[U] <= First(0, B)
    OBVIOUS
  <2>1. U = {}  BY <1>5, FS_EmptySet
  <2> QED  BY <1>3, <1>4, <2>1
<1>7. ASSUME NEW m \in Nat, m \in T PROVE m + 1 \in T
  <2> SUFFICES ASSUME m + 1 <= k, NEW U \in SUBSET (1..k), Cardinality(U) = m + 1
               PROVE  s[U] <= First(m + 1, B)
    OBVIOUS
  <2>1. PICK x \in U : A[x] <= B[m + 1]  BY SmallestGrade DEF B
  <2> DEFINE R == U \ {x}
  <2>2. R \in SUBSET (1..k) /\ Cardinality(R) = m
    <3>1. Cardinality(R) = Cardinality(U) - 1  BY <1>5, FS_RemoveElement
    <3>2. R \in SUBSET (1..k)  OBVIOUS
    <3> HIDE DEF R
    <3> QED  BY <3>1, <3>2
  <2>3. s[R] <= First(m, B)
    <3>1. m <= k  OBVIOUS
    <3> HIDE DEF R
    <3> QED  BY <1>7, <2>2, <3>1
  <2>4. s[U] = A[x] + s[R]  BY <1>4
  <2>5. First(m + 1, B) = First(m, B) + B[m + 1] /\ First(m, B) \in Int
    <3>1. m \in 0..(k - 1) /\ m \in 0..k  OBVIOUS
    <3> QED  BY <1>3, <3>1
  <2>6. A[x] \in Int /\ B[m + 1] \in Int /\ s[R] \in Int
    <3>1. m + 1 \in 1..k /\ x \in 1..k  OBVIOUS
    <3>2. s[R] \in Int  BY <1>4, <2>2
    <3> QED  BY <1>1, <3>1, <3>2
  <2> HIDE DEF R
  <2> QED  BY <2>1, <2>3, <2>4, <2>5, <2>6
<1> HIDE DEF T
<1>8. Nat \subseteq T  BY <1>6, <1>7, SetInduction
<1>9. ASSUME NEW j \in 0..k PROVE First(j, A) <= First(j, B)
  <2>1. j \in Nat /\ j <= k /\ 1..j \in SUBSET (1..k)  OBVIOUS
  <2>2. Cardinality(1..j) = j  BY <2>1, FS_Interval
  <2>3. s[1..j] <= First(j, B)
    <3>1. j \in T  BY <1>8, <2>1
    <3>2. \A U \in SUBSET (1..k) : Cardinality(U) = j => s[U] <= First(j, B)  BY <2>1, <3>1 DEF T
    <3> QED  BY <2>1, <2>2, <3>2
  <2>4. SumOver([x \in 1..j |-> A[x]]) = s[1..j]  BY <1>2, <2>1, SumOverIs
  <2> QED  BY <2>3, <2>4 DEF First
<1> QED  BY <1>9 DEF B

-----------------------------------------------------------------------------
(* nDCG: falling discounts. *)

(* How far the first j values of B are ahead of those of A. *)
Lead(A, B, j) == First(j, B) - First(j, A)

(* The discounts of the first j ranks are more than d. *)
Above(d, j) == \A i \in 1..j : Discount[i] > d

(* The weighted lead, when the lead is never negative: falling discounts   *)
(* keep it from shrinking below the last one's share.                      *)
Leads(A, B, k, j) ==
  \A d \in Nat : Above(d, j) =>
    /\ Lead(Weighed(A, k), Weighed(B, k), j) >= d * Lead(A, B, j)
    /\ (\E i \in 1..j : Lead(A, B, i) > 0) => Lead(Weighed(A, k), Weighed(B, k), j) > d * Lead(A, B, j)

LEMMA LeadSteps ==
  ASSUME NEW k \in Nat, NEW A \in [1..k -> Int], NEW B \in [1..k -> Int]
  PROVE  /\ Lead(A, B, 0) = 0
         /\ \A j \in 0..k : Lead(A, B, j) \in Int
         /\ \A j \in 0..(k - 1) : Lead(A, B, j + 1) = Lead(A, B, j) + (B[j + 1] - A[j + 1])
<1>1. First(0, A) = 0 /\ First(0, B) = 0  BY FirstSums
<1>2. \A j \in 0..k : First(j, A) \in Int  BY FirstSums
<1>3. \A j \in 0..k : First(j, B) \in Int  BY FirstSums
<1>4. \A j \in 0..(k - 1) : First(j + 1, A) = First(j, A) + A[j + 1]  BY FirstSums
<1>5. \A j \in 0..(k - 1) : First(j + 1, B) = First(j, B) + B[j + 1]  BY FirstSums
<1>6. ASSUME NEW j \in 0..(k - 1) PROVE Lead(A, B, j + 1) = Lead(A, B, j) + (B[j + 1] - A[j + 1])
  <2>1. j \in 0..k /\ j + 1 \in 1..k  OBVIOUS
  <2>2. First(j, A) \in Int /\ First(j, B) \in Int /\ A[j + 1] \in Int /\ B[j + 1] \in Int
    BY <1>2, <1>3, <2>1
  <2>3. First(j + 1, A) = First(j, A) + A[j + 1] /\ First(j + 1, B) = First(j, B) + B[j + 1]
    BY <1>4, <1>5
  <2> QED  BY <2>2, <2>3 DEF Lead
<1>7. Lead(A, B, 0) = 0  BY <1>1 DEF Lead
<1>8. \A j \in 0..k : Lead(A, B, j) \in Int  BY <1>2, <1>3 DEF Lead
<1> QED  BY <1>6, <1>7, <1>8

LEMMA LeadGrows ==
  ASSUME NEW k \in Nat, Discounts(k), NEW A \in [1..k -> Int], NEW B \in [1..k -> Int],
         \A j \in 0..k : Lead(A, B, j) >= 0
  PROVE  Leads(A, B, k, k)
<1> DEFINE WA == Weighed(A, k)
           WB == Weighed(B, k)
<1>1. WA \in [1..k -> Int] /\ WB \in [1..k -> Int]
      /\ \A i \in 1..k : WA[i] = A[i] * Discount[i] /\ WB[i] = B[i] * Discount[i]
  <2>1. \A i \in 1..k : Discount[i] \in Int  BY DEF Discounts
  <2>2. \A i \in 1..k : A[i] * Discount[i] \in Int /\ B[i] * Discount[i] \in Int  BY <2>1
  <2> QED  BY <2>2 DEF Weighed
<1>2. /\ Lead(A, B, 0) = 0 /\ \A j \in 0..k : Lead(A, B, j) \in Int
      /\ \A j \in 0..(k - 1) : Lead(A, B, j + 1) = Lead(A, B, j) + (B[j + 1] - A[j + 1])
  BY LeadSteps
<1> HIDE DEF WA, WB
<1>3. /\ Lead(WA, WB, 0) = 0 /\ \A j \in 0..k : Lead(WA, WB, j) \in Int
      /\ \A j \in 0..(k - 1) : Lead(WA, WB, j + 1) = Lead(WA, WB, j) + (WB[j + 1] - WA[j + 1])
  BY <1>1, LeadSteps
<1> DEFINE T == {j \in Nat : j <= k => Leads(A, B, k, j)}
<1>4. 0 \in T
  <2>1. ASSUME NEW d \in Nat
        PROVE  /\ Lead(WA, WB, 0) >= d * Lead(A, B, 0) 
               /\ ~\E i \in 1..0 : Lead(A, B, i) > 0
    <3>1. d * 0 = 0  OBVIOUS
    <3> QED  BY <1>2, <1>3, <3>1
  <2>2. Leads(A, B, k, 0)  BY <2>1 DEF Leads, WA, WB
  <2> QED  BY <2>2
<1>5. ASSUME NEW j \in Nat, j \in T PROVE j + 1 \in T
  <2> SUFFICES ASSUME j + 1 <= k PROVE Leads(A, B, k, j + 1)
    OBVIOUS
  <2> DEFINE e == Discount[j + 1]
             x == Lead(A, B, j)
             y == Lead(A, B, j + 1)
             w == Lead(WA, WB, j)
             z == Lead(WA, WB, j + 1)
             some(n) == \E i \in 1..n : Lead(A, B, i) > 0
  <2>1. j \in 0..(k - 1) /\ j \in 0..k /\ j + 1 \in 0..k /\ j + 1 \in 1..k /\ j <= k  OBVIOUS
  <2>2. e \in Nat /\ Above(e, j)
    <3>1. \A i \in 1..j : i \in 1..k /\ i < j + 1  BY <2>1
    <3> QED  BY <2>1, <3>1 DEF Discounts, Above
  <2>3. Leads(A, B, k, j)  BY <1>5, <2>1
  <2>4. w >= e * x /\ (some(j) => w > e * x)  BY <2>2, <2>3 DEF Leads, WA, WB
  <2>5. x \in Int /\ y \in Int /\ w \in Int /\ z \in Int /\ y >= 0  BY <1>2, <1>3, <2>1
  <2>6. z = w + (e * y - e * x)
    <3>1. A[j + 1] \in Int /\ B[j + 1] \in Int  BY <2>1
    <3>2. y = x + (B[j + 1] - A[j + 1])  BY <1>2, <2>1
    <3>3. z = w + (B[j + 1] * e - A[j + 1] * e)  BY <1>1, <1>3, <2>1
    <3> DEFINE a == A[j + 1]
               b == B[j + 1]
    <3> HIDE DEF a, b, e, x, y, z, w
    <3>4. b * e - a * e = e * (x + (b - a)) - e * x
      <4>1. a \in Int /\ b \in Int /\ e \in Int /\ x \in Int  BY <2>2, <2>5, <3>1 DEF a, b
      <4> QED  BY <4>1
    <3> QED  BY <3>2, <3>3, <3>4 DEF a, b
  <2>7. some(j + 1) => some(j) \/ y > 0
    <3> SUFFICES ASSUME NEW i \in 1..(j + 1), Lead(A, B, i) > 0 PROVE some(j) \/ y > 0
      OBVIOUS
    <3>1. i \in 1..j \/ i = j + 1  OBVIOUS
    <3> QED  BY <3>1
  <2>8. ASSUME NEW d \in Nat, Above(d, j + 1) PROVE z >= d * y /\ (some(j + 1) => z > d * y)
    <3>1. d + 1 <= e
      <4>1. e > d  BY <2>1, <2>8 DEF Above
      <4> HIDE DEF e
      <4> QED  BY <2>2, <4>1
    <3> HIDE DEF e, x, y, z, w, some
    <3>2. (d + 1) * y <= e * y  BY <2>2, <2>5, <3>1, TimesGrows
    <3>3. (d + 1) * y = d * y + y  BY <2>5
    <3>4. e * y \in Int /\ e * x \in Int /\ d * y \in Int  BY <2>2, <2>5
    <3> QED  BY <2>4, <2>5, <2>6, <2>7, <3>2, <3>3, <3>4
  <2> HIDE DEF e, x, w
  <2> QED  BY <2>8 DEF Leads, WA, WB
<1> HIDE DEF T
<1>6. k \in T  BY <1>4, <1>5, SetInduction
<1> QED  BY <1>6 DEF T

(* The weighted sum of grades is at most the best one, and equal to it for *)
(* the best grades only.                                                   *)
LEMMA BestWeighsMost ==
  ASSUME NEW k \in Nat, Discounts(k), NEW g \in Nat, NEW A, Grades(A, k, g)
  PROVE  LET a == First(k, Weighed(A, k))
             b == First(k, Weighed(BestGrades(k, g), k))
         IN  a <= b /\ (a = b <=> A = BestGrades(k, g))
<1> DEFINE B == BestGrades(k, g)
           a == First(k, Weighed(A, k))
           b == First(k, Weighed(B, k))
<1>1. A \in [1..k -> Int] /\ B \in [1..k -> Int]
  <2>1. A \in [1..k -> Nat]  BY DEF Grades
  <2>2. \A i \in 1..k : A[i] \in Int  BY <2>1
  <2>3. A = [i \in 1..k |-> A[i]]  BY <2>1
  <2>4. A \in [1..k -> Int]  BY <2>2, <2>3
  <2>5. B \in [1..k -> Int]  BY DEF BestGrades
  <2> QED  BY <2>4, <2>5
<1>2. \A j \in 0..k : First(j, A) <= First(j, B)  BY PrefixIsBest
<1> HIDE DEF B
<1>3. Weighed(A, k) \in [1..k -> Int] /\ Weighed(B, k) \in [1..k -> Int]
  <2>1. \A i \in 1..k : Discount[i] \in Int  BY DEF Discounts
  <2>2. \A i \in 1..k : A[i] \in Int /\ B[i] \in Int  BY <1>1
  <2>3. \A i \in 1..k : A[i] * Discount[i] \in Int /\ B[i] * Discount[i] \in Int  BY <2>1, <2>2
  <2> QED  BY <2>3 DEF Weighed
<1>4. /\ Lead(A, B, 0) = 0 /\ \A j \in 0..k : Lead(A, B, j) \in Int
      /\ \A j \in 0..(k - 1) : Lead(A, B, j + 1) = Lead(A, B, j) + (B[j + 1] - A[j + 1])
  BY <1>1, LeadSteps
<1>5. \A j \in 0..k : Lead(A, B, j) >= 0
  <2>1. \A j \in 0..k : First(j, A) \in Int  BY <1>1, FirstSums
  <2>2. \A j \in 0..k : First(j, B) \in Int  BY <1>1, FirstSums
  <2> QED  BY <1>2, <2>1, <2>2 DEF Lead
<1>6. Leads(A, B, k, k)  BY <1>1, <1>5, LeadGrows
<1>7. a \in Int /\ b \in Int
  <2>1. k \in 0..k  OBVIOUS
  <2>2. a \in Int  BY <1>3, <2>1, FirstSums
  <2>3. b \in Int  BY <1>3, <2>1, FirstSums
  <2> QED  BY <2>2, <2>3
<1>8. b - a >= 0 /\ ((\E i \in 1..k : Lead(A, B, i) > 0) => b - a > 0)
  <2>1. Above(0, k)  BY DEF Above, Discounts
  <2>2. Lead(A, B, k) \in Int /\ 0 \in Nat
    <3>1. k \in 0..k  OBVIOUS
    <3> QED  BY <1>4, <3>1
  <2>3. 0 * Lead(A, B, k) = 0  BY <2>2
  <2>4. b - a = Lead(Weighed(A, k), Weighed(B, k), k)  BY DEF Lead
  <2> HIDE DEF a, b
  <2> QED  BY <1>6, <2>1, <2>2, <2>3, <2>4 DEF Leads
<1>9. ASSUME a = b PROVE A = B
  <2>1. \A i \in 1..k : ~(Lead(A, B, i) > 0)
    <3> HIDE DEF a, b
    <3> QED  BY <1>7, <1>8, <1>9
  <2>2. \A j \in 0..k : Lead(A, B, j) = 0
    <3> TAKE j \in 0..k
    <3>1. j = 0 \/ j \in 1..k  OBVIOUS
    <3> QED  BY <1>4, <1>5, <2>1, <3>1
  <2>3. \A i \in 1..k : A[i] = B[i]
    <3> TAKE i \in 1..k
    <3>1. i - 1 \in 0..(k - 1) /\ (i - 1) + 1 = i /\ i - 1 \in 0..k /\ i \in 0..k  OBVIOUS
    <3>2. Lead(A, B, i) = Lead(A, B, i - 1) + (B[i] - A[i])  BY <1>4, <3>1
    <3>3. A[i] \in Int /\ B[i] \in Int  BY <1>1
    <3>4. Lead(A, B, i) = 0 /\ Lead(A, B, i - 1) = 0  BY <2>2, <3>1
    <3> DEFINE x == A[i]
               y == B[i]
    <3>5. 0 = 0 + (y - x)  BY <3>2, <3>4
    <3>6. x \in Int /\ y \in Int  BY <3>3
    <3> HIDE DEF x, y
    <3>7. x = y  BY <3>5, <3>6
    <3> QED  BY <3>7 DEF x, y
  <2> QED  BY <1>1, <2>3
<1>10. A = B => a = b  OBVIOUS
<1>11. a <= b
  <2> HIDE DEF a, b
  <2> QED  BY <1>7, <1>8
<1> HIDE DEF a, b
<1>12. a <= b /\ (a = b <=> A = B)  BY <1>9, <1>10, <1>11
<1> QED  BY <1>12 DEF a, b, B

-----------------------------------------------------------------------------
(* nDCG: equality. *)

(* A sequence without repetitions that names each gold model once. *)
Ranking(p) == p \in Seq(Keys) /\ IsInjective(p)

LEMMA EarnedAreGrades ==
  ASSUME NEW k \in Nat, NEW gold, GoldList(gold), NEW p, Ranking(p)
  PROVE  Grades(Earned(p, gold, k), k, Len(gold))
<1> DEFINE A == Earned(p, gold, k)
<1>1. /\ \A key : Grade(gold, key) \in 0..Len(gold)
      /\ \A x, y : Grade(gold, x) = Grade(gold, y) /\ Grade(gold, x) # 0 => x = y
  BY GradeIs
<1>2. Len(gold) \in Nat /\ Len(p) \in Nat /\ DOMAIN p = 1..Len(p)  BY DEF GoldList, Ranking
<1>3. \A i \in 1..k : A[i] = IF i <= Len(p) THEN Grade(gold, p[i]) ELSE 0  BY DEF Earned
<1>4. A = [i \in 1..k |-> A[i]]  BY DEF Earned
<1> HIDE DEF A
<1>5. \A i \in 1..k : A[i] \in Nat /\ A[i] <= Len(gold)
  <2> TAKE i \in 1..k
  <2>1. Grade(gold, p[i]) \in 0..Len(gold)  BY <1>1
  <2> QED  BY <1>2, <1>3, <2>1
<1>6. A \in [1..k -> Nat]  BY <1>4, <1>5
<1>7. ASSUME NEW i \in 1..k, NEW j \in 1..k, A[i] = A[j], A[i] # 0 PROVE i = j
  <2>1. i <= Len(p) /\ A[i] = Grade(gold, p[i])  BY <1>3, <1>7
  <2>2. j <= Len(p) /\ A[j] = Grade(gold, p[j])  BY <1>3, <1>7
  <2>3. p[i] = p[j]  BY <1>1, <1>7, <2>1, <2>2
  <2>4. i \in DOMAIN p /\ j \in DOMAIN p  BY <1>2, <2>1, <2>2
  <2> QED  BY <2>3, <2>4 DEF Ranking, IsInjective
<1> QED  BY <1>5, <1>6, <1>7 DEF Grades, A

(* The best grades go to those who name the gold models first, in order. *)
LEMMA BestIsGoldFirst ==
  ASSUME NEW k \in Nat, NEW gold, GoldList(gold), NEW p, Ranking(p)
  PROVE  Earned(p, gold, k) = BestGrades(k, Len(gold))
           <=> \A i \in 1..k : i <= Len(gold) => i <= Len(p) /\ p[i] = gold[i]
<1> DEFINE A == Earned(p, gold, k)
           g == Len(gold)
           B == BestGrades(k, g)
<1>1. /\ \A key : Grade(gold, key) \in 0..g
      /\ \A key : Grade(gold, key) # 0 <=> key \in ToSet(gold)
      /\ \A i \in 1..g : Grade(gold, gold[i]) = g - i + 1
      /\ \A x, y : Grade(gold, x) = Grade(gold, y) /\ Grade(gold, x) # 0 => x = y
  BY GradeIs
<1>2. g \in Nat /\ Len(p) \in Nat /\ DOMAIN p = 1..Len(p) /\ DOMAIN gold = 1..g
  BY DEF GoldList, Ranking
<1>3. \A i \in 1..k : A[i] = IF i <= Len(p) THEN Grade(gold, p[i]) ELSE 0  BY DEF Earned
<1>4. \A i \in 1..k : B[i] = IF i <= g THEN g - i + 1 ELSE 0  BY DEF BestGrades
<1>5. A = B <=> \A i \in 1..k : A[i] = B[i]  BY DEF Earned, BestGrades
<1> HIDE DEF A, B, g
<1>6. ASSUME A = B, NEW i \in 1..k, i <= g PROVE i <= Len(p) /\ p[i] = gold[i]
  <2>1. A[i] = g - i + 1 /\ g - i + 1 # 0 /\ i \in 1..g  BY <1>2, <1>4, <1>6
  <2>2. i <= Len(p) /\ A[i] = Grade(gold, p[i])  BY <1>3, <2>1
  <2>3. Grade(gold, gold[i]) = g - i + 1  BY <1>1, <2>1
  <2>4. p[i] = gold[i]  BY <1>1, <2>1, <2>2, <2>3
  <2> QED  BY <2>2, <2>4
<1>7. ASSUME \A i \in 1..k : i <= g => i <= Len(p) /\ p[i] = gold[i], NEW i \in 1..k
      PROVE  A[i] = B[i]
  <2>1. CASE i <= g
    <3>1. i <= Len(p) /\ p[i] = gold[i] /\ i \in 1..g  BY <1>2, <1>7, <2>1
    <3> QED  BY <1>1, <1>3, <1>4, <2>1, <3>1
  <2>2. CASE ~(i <= g)
    <3>1. B[i] = 0  BY <1>4, <2>2
    <3>2. A[i] = 0
      <4> SUFFICES ASSUME i <= Len(p), Grade(gold, p[i]) # 0 PROVE FALSE
        BY <1>3
      <4>1. PICK j \in 1..g : gold[j] = p[i]
        <5>1. p[i] \in ToSet(gold)  BY <1>1
        <5> QED  BY <1>2, <5>1 DEF ToSet
      <4>2. j \in 1..k /\ j <= g /\ j # i  BY <1>2, <2>2
      <4>3. j <= Len(p) /\ p[j] = gold[j]  BY <1>7, <4>2
      <4>4. i \in DOMAIN p /\ j \in DOMAIN p /\ p[i] = p[j]  BY <1>2, <4>1, <4>2, <4>3
      <4> QED  BY <4>2, <4>4 DEF Ranking, IsInjective
    <3> QED  BY <3>1, <3>2
  <2> QED  BY <2>1, <2>2
<1>8. A = B => \A i \in 1..k : i <= g => i <= Len(p) /\ p[i] = gold[i]  BY <1>6
<1>9. (\A i \in 1..k : i <= g => i <= Len(p) /\ p[i] = gold[i]) => A = B  BY <1>5, <1>7
<1> QED  BY <1>8, <1>9 DEF A, B, g

(* The same of the first k of both, as ScoresAgree says it. *)
LEMMA GoldFirstIs ==
  ASSUME NEW k \in Nat, NEW gold, GoldList(gold), NEW p, Ranking(p)
  PROVE  (\A i \in 1..k : i <= Len(gold) => i <= Len(p) /\ p[i] = gold[i])
           <=> LET top == TopK(p, k)
                   g == TopK(gold, k)
               IN  Len(top) >= Len(g) /\ SubSeq(top, 1, Len(g)) = g
<1> DEFINE n == Len(gold)
           l == Len(p)
           hp == IF k <= l THEN k ELSE l
           hg == IF k <= n THEN k ELSE n
           top == TopK(p, k)
           g == TopK(gold, k)
<1>1. n \in Nat /\ l \in Nat /\ gold \in Seq(Keys) /\ p \in Seq(Keys)  BY DEF GoldList, Ranking
<1>2. /\ Len(top) = hp /\ top \in Seq(Keys) /\ \A i \in 1..hp : top[i] = p[i]
  BY <1>1, TopIsFirst
<1>3. /\ DOMAIN g = 1..hg /\ Len(g) = hg /\ g \in Seq(Keys) /\ \A i \in 1..hg : g[i] = gold[i]
  BY <1>1, TopIsFirst
<1>4. hp \in Nat /\ hg \in Nat  BY <1>1
<1>5. \A i \in 1..k : i <= n <=> i \in 1..hg  BY <1>1
<1>6. \A i \in 1..hg : i \in 1..k /\ i <= n  BY <1>1
<1>7. \A i \in 1..k : i <= l <=> i \in 1..hp  BY <1>1
<1> HIDE DEF n, l, hp, hg, top, g
<1>8. (\A i \in 1..k : i <= n => i <= l /\ p[i] = gold[i])
        <=> \A i \in 1..hg : i \in 1..hp /\ p[i] = gold[i]
  BY <1>5, <1>6, <1>7
<1>9. (\A i \in 1..hg : i \in 1..hp /\ p[i] = gold[i])
        <=> hp >= hg /\ \A i \in 1..hg : top[i] = g[i]
  <2>1. ASSUME \A i \in 1..hg : i \in 1..hp /\ p[i] = gold[i]
        PROVE  hp >= hg /\ \A i \in 1..hg : top[i] = g[i]
    <3>1. hp >= hg
      <4>1. CASE hg = 0  BY <1>4, <4>1
      <4>2. CASE hg # 0
        <5>1. hg \in 1..hg  BY <1>4, <4>2
        <5>2. hg \in 1..hp  BY <2>1, <5>1
        <5> QED  BY <1>4, <5>2
      <4> QED  BY <4>1, <4>2
    <3>2. \A i \in 1..hg : top[i] = g[i]  BY <1>2, <1>3, <2>1
    <3> QED  BY <3>1, <3>2
  <2>2. ASSUME hp >= hg, \A i \in 1..hg : top[i] = g[i]
        PROVE  \A i \in 1..hg : i \in 1..hp /\ p[i] = gold[i]
    <3>1. \A i \in 1..hg : i \in 1..hp  BY <1>4, <2>2
    <3> QED  BY <1>2, <1>3, <2>2, <3>1
  <2> QED  BY <2>1, <2>2
<1>10. hp >= hg => (SubSeq(top, 1, hg) = g <=> \A i \in 1..hg : top[i] = g[i])
  <2> SUFFICES ASSUME hp >= hg
               PROVE  SubSeq(top, 1, hg) = g <=> \A i \in 1..hg : top[i] = g[i]
    OBVIOUS
  <2>1. \A i \in 1..hg : top[i] \in Keys
    <3>1. \A i \in 1..hg : i \in 1..Len(top)  BY <1>2, <1>4
    <3> QED  BY <1>2, <3>1
  <2> DEFINE s == SubSeq(top, 1, hg)
  <2>2. /\ s \in Seq(Keys) /\ Len(s) = IF 1 <= hg THEN hg - 1 + 1 ELSE 0
        /\ \A i \in 1..(hg - 1 + 1) : s[i] = top[1 + i - 1]
    BY <1>4, <2>1, SubSeqProperties
  <2>3. hg - 1 + 1 = hg /\ \A i \in 1..hg : 1 + i - 1 = i  BY <1>4
  <2>4. Len(s) = hg  BY <1>4, <2>2, <2>3
  <2>5. \A i \in 1..hg : s[i] = top[i]  BY <2>2, <2>3
  <2> HIDE DEF s
  <2>6. s = g <=> \A i \in 1..hg : s[i] = g[i]  BY <1>3, <2>2, <2>4
  <2>7. s = g <=> \A i \in 1..hg : top[i] = g[i]  BY <2>5, <2>6
  <2> QED  BY <2>7 DEF s
<1>11. (\A i \in 1..k : i <= n => i <= l /\ p[i] = gold[i])
         <=> hp >= hg /\ SubSeq(top, 1, hg) = g
  BY <1>8, <1>9, <1>10
<1>12. (\A i \in 1..k : i <= n => i <= l /\ p[i] = gold[i])
         <=> Len(top) >= Len(g) /\ SubSeq(top, 1, Len(g)) = g
  BY <1>2, <1>3, <1>11
<1> QED  BY <1>12 DEF n, l, top, g

-----------------------------------------------------------------------------
(* The metrics: hits. *)

(* A sum of naturals is positive when one of them is. *)
LEMMA PositiveSum ==
  ASSUME NEW n \in Nat, NEW f \in [1..n -> Nat]
  PROVE  First(n, f) > 0 <=> \E i \in 1..n : f[i] # 0
<1>1. f \in [1..n -> Int]
  <2>1. \A i \in 1..n : f[i] \in Int  OBVIOUS
  <2>2. f = [i \in 1..n |-> f[i]]  OBVIOUS
  <2> QED  BY <2>1, <2>2
<1>2. First(0, f) = 0  BY <1>1, FirstSums
<1>3. \A j \in 0..n : First(j, f) \in Int  BY <1>1, FirstSums
<1>4. \A j \in 0..(n - 1) : First(j + 1, f) = First(j, f) + f[j + 1]  BY <1>1, FirstSums
<1> DEFINE some(j) == \E i \in 1..j : f[i] # 0
           T == {j \in Nat : j <= n => First(j, f) >= 0 /\ (First(j, f) > 0 <=> some(j))}
<1>5. 0 \in T
  <2>1. ~some(0)  OBVIOUS
  <2> HIDE DEF some
  <2> QED  BY <1>2, <2>1
<1>6. ASSUME NEW j \in Nat, j \in T PROVE j + 1 \in T
  <2> SUFFICES ASSUME j + 1 <= n
               PROVE  First(j + 1, f) >= 0 /\ (First(j + 1, f) > 0 <=> some(j + 1))
    OBVIOUS
  <2>1. j \in 0..(n - 1) /\ j \in 0..n /\ j <= n /\ j + 1 \in 1..n  OBVIOUS
  <2>2. some(j + 1) <=> some(j) \/ f[j + 1] # 0
    <3>1. \A i \in 1..(j + 1) : i \in 1..j \/ i = j + 1  OBVIOUS
    <3>2. \A i \in 1..j : i \in 1..(j + 1)  OBVIOUS
    <3>3. j + 1 \in 1..(j + 1)  OBVIOUS
    <3> QED  BY <3>1, <3>2, <3>3
  <2> DEFINE a == First(j, f)
             b == First(j + 1, f)
             x == f[j + 1]
  <2>3. a \in Int /\ x \in Nat /\ b = a + x  BY <1>3, <1>4, <2>1
  <2>4. a >= 0 /\ (a > 0 <=> some(j))  BY <1>6, <2>1
  <2>5. some(j + 1) <=> some(j) \/ x # 0  BY <2>2
  <2> HIDE DEF a, b, x, some
  <2>6. b >= 0 /\ (b > 0 <=> some(j + 1))  BY <2>3, <2>4, <2>5
  <2> QED  BY <2>6 DEF b
<1> HIDE DEF T
<1>7. n \in T  BY <1>5, <1>6, SetInduction
<1> QED  BY <1>7 DEF T

(* Whether the first k predictions hold a gold model. *)
HasHit(p, gold, k) == \E i \in 1..k : i <= Len(p) /\ p[i] \in ToSet(gold)

LEMMA HitsAre ==
  ASSUME NEW k \in Nat, NEW gold, GoldList(gold), NEW p, Ranking(p)
  PROVE  /\ Hits(p, gold, k) <= Cardinality(ToSet(gold))
         /\ Hits(p, gold, k) > 0 <=> HasHit(p, gold, k)
<1> DEFINE l == Len(p)
           h == IF k <= l THEN k ELSE l
           I == {i \in 1..h : p[i] \in ToSet(gold)}
<1>1. l \in Nat /\ p \in Seq(Keys) /\ DOMAIN p = 1..l  BY DEF Ranking
<1>2. DOMAIN TopK(p, k) = 1..h  BY <1>1, TopIsFirst
<1>3. h \in Nat /\ \A i \in 1..h : i \in 1..k /\ i <= l /\ i \in 1..l  BY <1>1
<1>4. \A i \in 1..k : i <= l => i \in 1..h  BY <1>1
<1>5. Hits(p, gold, k) = Cardinality(I)
  <2>1. Hits(p, gold, k) = Cardinality({i \in DOMAIN TopK(p, k) : p[i] \in ToSet(gold)})
    BY DEF Hits, Quantify
  <2> HIDE DEF h
  <2> QED  BY <1>2, <2>1
<1>6. I # {} <=> HasHit(p, gold, k)
  <2> HIDE DEF h
  <2> QED  BY <1>3, <1>4 DEF HasHit
<1>7. IsFiniteSet(I)
  <2>1. IsFiniteSet(1..h) /\ I \in SUBSET (1..h)
    <3> HIDE DEF h
    <3> QED  BY <1>3, FS_Interval
  <2> QED  BY <2>1, FS_Subset
<1>8. IsFiniteSet(ToSet(gold)) /\ Cardinality(ToSet(gold)) \in Nat
  <2>1. gold \in Seq(Keys)  BY DEF GoldList
  <2>2. IsFiniteSet(ToSet(gold))
    <3>1. IsFiniteSet(1..Len(gold))
      <4>1. Len(gold) \in Nat  BY <2>1
      <4> QED  BY <4>1, FS_Interval
    <3>2. gold \in [1..Len(gold) -> ToSet(gold)] /\ \A x \in ToSet(gold) : \E i \in 1..Len(gold) : gold[i] = x
      BY <2>1 DEF ToSet
    <3>3. gold \in Surjection(1..Len(gold), ToSet(gold))  BY <3>2 DEF Surjection
    <3> QED  BY <3>1, <3>3, FS_Surjection
  <2> QED  BY <2>2, FS_CardinalityType
<1>9. Cardinality(I) <= Cardinality(ToSet(gold))
  <2> DEFINE f == [i \in I |-> p[i]]
  <2>1. f \in [I -> ToSet(gold)] /\ DOMAIN f = I  OBVIOUS
  <2>2. \A i, j \in I : f[i] = f[j] => i = j
    <3>1. \A i \in I : i \in DOMAIN p
      <4> HIDE DEF h
      <4> QED  BY <1>1, <1>3
    <3>2. \A i, j \in DOMAIN p : p[i] = p[j] => i = j  BY DEF Ranking, IsInjective
    <3> HIDE DEF I
    <3> QED  BY <3>1, <3>2
  <2> HIDE DEF f, I
  <2>3. f \in Injection(I, ToSet(gold))  BY <2>1, <2>2 DEF Injection, IsInjective
  <2> QED  BY <1>8, <2>3, FS_Injection
<1>10. Cardinality(I) > 0 <=> I # {}
  <2>1. Cardinality(I) \in Nat /\ (Cardinality(I) = 0 <=> I = {})  BY <1>7, FS_CardinalityType, FS_EmptySet
  <2> HIDE DEF I
  <2> QED  BY <2>1
<1> HIDE DEF I
<1> QED  BY <1>5, <1>6, <1>9, <1>10

LEMMA FirstHitIs ==
  ASSUME NEW k \in Nat, NEW gold, GoldList(gold), NEW p, Ranking(p)
  PROVE  FirstHit(p, gold) \in 1..k <=> HasHit(p, gold, k)
<1> DEFINE l == Len(p)
           I == {i \in 1..l : p[i] \in ToSet(gold)}
           first == FirstHit(p, gold)
<1>1. l \in Nat  BY DEF Ranking
<1>2. first = IF I # {} THEN Min(I) ELSE 0  BY DEF FirstHit, SelectInSeq
<1>3. I # {} => Min(I) \in I /\ \A i \in I : Min(I) <= i
  <2> HAVE I # {}
  <2>1. I \in SUBSET Nat /\ I # {}  BY <1>1
  <2>2. PICK n \in I : \A y \in I : n <= y
    <3> HIDE DEF I
    <3> QED  BY <2>1, LeastIs
  <2> HIDE DEF I
  <2> QED  BY <2>2 DEF Min
<1> HIDE DEF first
<1>4. ASSUME first \in 1..k PROVE HasHit(p, gold, k)
  <2>1. I # {} /\ first = Min(I)  BY <1>2, <1>4
  <2>2. first \in I  BY <1>3, <2>1
  <2>3. first \in 1..k /\ first <= l /\ p[first] \in ToSet(gold)  BY <1>1, <1>4, <2>2
  <2> QED  BY <2>3 DEF HasHit
<1>5. ASSUME HasHit(p, gold, k) PROVE first \in 1..k
  <2>1. PICK i \in 1..k : i <= l /\ p[i] \in ToSet(gold)  BY <1>5 DEF HasHit
  <2>2. i \in I  BY <1>1, <2>1
  <2>3. first \in I /\ first <= i  BY <1>2, <1>3, <2>2
  <2>4. first \in Nat /\ first >= 1  BY <1>1, <2>3
  <2> HIDE DEF I
  <2> QED  BY <2>1, <2>3, <2>4
<1> QED  BY <1>4, <1>5 DEF first

LEMMA GainIsPositive ==
  ASSUME NEW k \in Nat, Discounts(k), NEW gold, GoldList(gold), NEW p, Ranking(p)
  PROVE  First(k, Weighed(Earned(p, gold, k), k)) > 0 <=> HasHit(p, gold, k)
<1> DEFINE A == Earned(p, gold, k)
           W == Weighed(A, k)
<1>1. /\ \A key : Grade(gold, key) \in 0..Len(gold)
      /\ \A key : Grade(gold, key) # 0 <=> key \in ToSet(gold)
  BY GradeIs
<1>2. \A i \in 1..k : A[i] = IF i <= Len(p) THEN Grade(gold, p[i]) ELSE 0  BY DEF Earned
<1>3. \A i \in 1..k : A[i] # 0 <=> i <= Len(p) /\ p[i] \in ToSet(gold)  BY <1>1, <1>2
<1>4. \A i \in 1..k : A[i] \in Nat
  <2>1. Grades(A, k, Len(gold))  BY EarnedAreGrades
  <2>2. A \in [1..k -> Nat]  BY <2>1 DEF Grades
  <2> HIDE DEF A
  <2> QED  BY <2>2
<1>5. ASSUME NEW i \in 1..k PROVE W[i] \in Nat /\ (W[i] # 0 <=> A[i] # 0)
  <2> DEFINE a == A[i]
             d == Discount[i]
  <2>1. a \in Nat /\ d \in Nat \ {0}  BY <1>4 DEF Discounts
  <2>2. W[i] = a * d  BY DEF Weighed
  <2> HIDE DEF a, d
  <2>3. a * d \in Nat  BY <2>1
  <2>4. a = 0 => a * d = 0  BY <2>1
  <2>5. a # 0 => a * d # 0
    <3> HAVE a # 0
    <3>1. 1 <= a /\ 1 \in Int /\ a \in Int /\ d \in Nat  BY <2>1
    <3>2. 1 * d <= a * d  BY <3>1, TimesGrows
    <3>3. 1 * d = d  BY <2>1
    <3> QED  BY <2>1, <2>3, <3>2, <3>3
  <2> QED  BY <2>2, <2>3, <2>4, <2>5 DEF a
<1>6. W \in [1..k -> Nat]
  <2>1. W = [i \in 1..k |-> W[i]]  BY DEF Weighed
  <2> HIDE DEF W
  <2> QED  BY <1>5, <2>1
<1> HIDE DEF W, A
<1>7. First(k, W) > 0 <=> \E i \in 1..k : W[i] # 0  BY <1>6, PositiveSum
<1>8. (\E i \in 1..k : W[i] # 0) <=> HasHit(p, gold, k)  BY <1>3, <1>5 DEF HasHit
<1> QED  BY <1>7, <1>8 DEF W, A

-----------------------------------------------------------------------------
(* score_answer: the scores. *)

LEMMA PredictedRanks ==
  ASSUME NEW p, NEW n, NEW text, Answer(text, n), NEW gold, Predicts(p, text, gold)
  PROVE  Ranking(p)
<1> DEFINE c == Cardinality(Credited(text, gold))
<1>1. c \in Nat /\ Len(p) = c /\ p \in [1..c -> Keys] /\ \A i, j \in 1..c : p[i] = p[j] => i = j
  BY PredictedIs
<1> HIDE DEF c
<1>2. p \in Seq(Keys) /\ DOMAIN p = 1..c  BY <1>1
<1> QED  BY <1>1, <1>2 DEF Ranking, IsInjective

(* The scores of a ranked answer. *)
LEMMA RankedScores == ScoreInv => ScoresAgree
<1> SUFFICES ASSUME ScoreInv, call.op = "score", call.category = "ranked", call.k > 0, call.gold # <<>>
             PROVE  ScoresAgree
  BY DEF ScoresAgree
<1> DEFINE text == call.text
           gold == call.gold
           k == call.k
           p == ExtractPredictions(text, gold)
           g == Len(gold)
           A == Earned(p, gold, k)
           a == First(k, Weighed(A, k))
           b == First(k, Weighed(BestGrades(k, g), k))
<1>1. PICK n \in Nat : Answer(text, n)  BY DEF ScoreInv
<1>2. GoldList(gold) /\ gold # <<>> /\ k \in 0..MaxK  BY DEF ScoreInv
<1>3. k \in Nat /\ Discounts(k) /\ k > 0  BY <1>2, DiscountsAre
<1>4. Ranking(p)
  <2>1. Predicts(p, text, gold)  BY <1>1, <1>2, PredictionsAre
  <2> QED  BY <1>1, <2>1, PredictedRanks
<1>5. /\ result.predicted = p /\ result.precision = Precision(p, gold, k)
      /\ result.recall = Recall(p, gold, k) /\ result.firstHit = FirstHit(p, gold)
      /\ result.ndcg = NDCG(p, gold, k)
  <2>1. result = ScoreAnswer("ranked", text, gold, k)  BY DEF ScoreInv
  <2>2. result = [predicted |-> p, precision |-> Precision(p, gold, k), recall |-> Recall(p, gold, k),
                  firstHit |-> FirstHit(p, gold), ndcg |-> NDCG(p, gold, k)]
    <3> HIDE DEF text, gold, k
    <3> QED  BY <2>1 DEF ScoreAnswer
  <2> HIDE DEF p, text, gold, k
  <2> QED  BY <2>2
<1> HIDE DEF p, text
<1>6. result.ndcg = <<a, b>>
  <2>1. p \in Seq(Keys)  BY <1>4 DEF Ranking
  <2>2. NDCG(p, gold, k) = <<First(k, Weighed(A, k)), First(k, Weighed(Ideal(gold, k), k))>>
    <3> HIDE DEF gold, k
    <3> QED  BY <1>2, <1>3, <2>1, NDCGIs DEF A
  <2>3. Ideal(gold, k) = BestGrades(k, g)  BY DEF Ideal, BestGrades
  <2> QED  BY <1>5, <2>2, <2>3
<1> HIDE DEF gold, k
<1>7. Grades(A, k, g)  BY <1>2, <1>3, <1>4, EarnedAreGrades
<1>8. g \in Nat  BY <1>2 DEF GoldList
<1> HIDE DEF A, g
<1>9. a <= b /\ (a = b <=> A = BestGrades(k, g))  BY <1>3, <1>7, <1>8, BestWeighsMost
<1> DEFINE whole == Len(TopK(p, k)) >= Len(TopK(gold, k))
                    /\ SubSeq(TopK(p, k), 1, Len(TopK(gold, k))) = TopK(gold, k)
           follows == \A i \in 1..k : i <= Len(gold) => i <= Len(p) /\ p[i] = gold[i]
<1>10. A = BestGrades(k, g) <=> follows  BY <1>2, <1>3, <1>4, BestIsGoldFirst DEF A, g
<1>11. follows <=> whole  BY <1>2, <1>3, <1>4, GoldFirstIs
<1>12. a > 0 <=> HasHit(p, gold, k)  BY <1>2, <1>3, <1>4, GainIsPositive DEF A
<1>13. FirstHit(p, gold) \in 1..k <=> HasHit(p, gold, k)  BY <1>2, <1>3, <1>4, FirstHitIs
<1>14. Hits(p, gold, k) <= Cardinality(ToSet(gold)) /\ (Hits(p, gold, k) > 0 <=> HasHit(p, gold, k))
  BY <1>2, <1>3, <1>4, HitsAre
<1> HIDE DEF a, b, whole, follows
<1>15. result.ndcg[1] = a /\ result.ndcg[2] = b  BY <1>6
<1>16. result.recall[1] = Hits(p, gold, k) /\ result.recall[2] = Cardinality(ToSet(gold))
  BY <1>2, <1>5 DEF Recall
<1>17. result.precision[1] = Hits(p, gold, k)
  <2>1. ~(k <= 0)  BY <1>3
  <2> QED  BY <1>5, <2>1 DEF Precision
<1>18. result.ndcg[1] <= result.ndcg[2]  BY <1>9, <1>15
<1>19. result.ndcg[1] = result.ndcg[2] <=> whole  BY <1>9, <1>10, <1>11, <1>15
<1>20. result.recall[1] <= result.recall[2]  BY <1>14, <1>16
<1>21. result.precision[1] > 0 <=> result.firstHit \in 1..k  BY <1>5, <1>13, <1>14, <1>17
<1>22. result.precision[1] > 0 <=> result.ndcg[1] > 0  BY <1>12, <1>14, <1>15, <1>17
<1>23. LET top == TopK(result.predicted, k)
           ideal == TopK(gold, k)
       IN  result.ndcg[1] = result.ndcg[2] <=> Len(top) >= Len(ideal) /\ SubSeq(top, 1, Len(ideal)) = ideal
  BY <1>5, <1>19 DEF whole
<1> QED  BY <1>18, <1>20, <1>21, <1>22, <1>23 DEF ScoresAgree, gold, k

(* What is predicted from an answer and how it is scored follow from it     *)
(* for every catalog, gold ranking and answer: metrics.py and score_answer. *)
THEOREM ScoresFollow == Spec => []ScoresFollowTheAnswer
<1>1. Init => ScoreInv  BY DEF Init, ScoreInv
<1>2. ScoreInv /\ [Next]_vars => ScoreInv'  BY ScoreStep
<1>3. ScoreInv => ScoresFollowTheAnswer
  BY PredictionsFollow, RankedScores DEF ScoresFollowTheAnswer
<1> QED  BY <1>1, <1>2, <1>3, PTL DEF Spec
=============================================================================
