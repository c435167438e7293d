----------------------------- MODULE DataLemmas -----------------------------
(***************************************************************************)
(* What the operators on numbers, sets, sequences and folds return, for    *)
(* data of any size. Induction is stated in terms of sets: a property of   *)
(* naturals is the set of the naturals that have it.                       *)
(***************************************************************************)
EXTENDS Integers, Sequences, FiniteSets, FiniteSetsExt, SequencesExt, FiniteSetTheorems,
  SequenceTheorems, WellFoundedInduction, TLAPS

-----------------------------------------------------------------------------
(* Numbers. *)

(* The smaller of two numbers. *)
LEMMA MinOfTwo ==
  ASSUME NEW a \in Int, NEW b \in Int
  PROVE  Min({a, b}) = IF a <= b THEN a ELSE b
<1> DEFINE m == IF a <= b THEN a ELSE b
<1>1. m \in {a, b} /\ \A y \in {a, b} : m <= y  OBVIOUS
<1>2. \A x \in {a, b} : (\A y \in {a, b} : x <= y) => x = m  OBVIOUS
<1> HIDE DEF m
<1>3. Min({a, b}) \in {a, b} /\ \A y \in {a, b} : Min({a, b}) <= y  BY <1>1 DEF Min
<1> QED  BY <1>2, <1>3 DEF m

(* The larger of two numbers. *)
LEMMA MaxOfTwo ==
  ASSUME NEW a \in Int, NEW b \in Int
  PROVE  Max({a, b}) = IF a >= b THEN a ELSE b
<1> DEFINE m == IF a >= b THEN a ELSE b
<1>1. m \in {a, b} /\ \A y \in {a, b} : m >= y  OBVIOUS
<1>2. \A x \in {a, b} : (\A y \in {a, b} : x >= y) => x = m  OBVIOUS
<1> HIDE DEF m
<1>3. Max({a, b}) \in {a, b} /\ \A y \in {a, b} : Max({a, b}) >= y  BY <1>1 DEF Max
<1> QED  BY <1>2, <1>3 DEF m

(* A non-empty set of naturals has a least element. *)
LEMMA LeastIs ==
  ASSUME NEW S \in SUBSET Nat, S # {}
  PROVE  \E n \in S : \A y \in S : n <= y
<1>1. \A x, y \in Nat : x < y => <<x, y>> \in OpToRel(<, Nat)
  <2>1. ASSUME NEW x \in Nat, NEW y \in Nat, x < y
        PROVE  <<x, y>> \in OpToRel(<, Nat)
    <3>1. <<x, y>> \in Nat \X Nat /\ <<x, y>>[1] = x /\ <<x, y>>[2] = y  OBVIOUS
    <3>2. <<x, y>>[1] < <<x, y>>[2]  BY <2>1, <3>1
    <3> QED  BY <3>1, <3>2, Zenon DEF OpToRel
  <2> QED  BY <2>1, Zenon
<1>2. \E n \in S : \A y \in S : <<y, n>> \notin OpToRel(<, Nat)
  BY NatLessThanWellFounded, WFMin, Zenon
<1>3. PICK n \in S : \A y \in S : ~(y < n)  BY <1>1, <1>2, Zenon
<1> QED  BY <1>3

(* What holds of 0, and of n + 1 whenever of n, holds of every natural. *)
LEMMA SetInduction ==
  ASSUME NEW S, 0 \in S, \A n \in Nat : n \in S => n + 1 \in S
  PROVE  Nat \subseteq S
<1> SUFFICES ASSUME Nat \ S # {} PROVE FALSE
  OBVIOUS
<1>1. PICK n \in Nat \ S : \A y \in Nat \ S : n <= y  BY LeastIs
<1>2. n - 1 \in Nat /\ n - 1 \in S  BY <1>1
<1> QED  BY <1>1, <1>2

(* A finite set of numbers has its maximum. *)
LEMMA MaxOfNumbers ==
  ASSUME NEW n \in Nat, NEW s \in SUBSET (0..n), s # {}
  PROVE  Max(s) \in s /\ \A x \in s : x <= Max(s)
<1> DEFINE U == {b \in Nat : \A x \in s : x <= b}
<1>1. n \in U  OBVIOUS
<1>2. PICK b \in U : \A y \in U : b <= y  BY <1>1, LeastIs
<1>3. b \in s
  <2> SUFFICES ASSUME b \notin s PROVE FALSE
    OBVIOUS
  <2>1. b \in Nat /\ \A x \in s : x \in Nat /\ x < b  BY <1>2
  <2>2. PICK x \in s : x \in Nat /\ x < b  BY <2>1
  <2>4. b - 1 \in Nat /\ \A y \in s : y <= b - 1  BY <2>1, <2>2
  <2>3. b - 1 \in U  BY <2>4
  <2> QED  BY <1>2, <2>1, <2>3
<1>4. \E x \in s : \A y \in s : x >= y  BY <1>2, <1>3
<1> QED  BY <1>4 DEF Max

(* What is in a set and above the rest of it is its maximum. *)
LEMMA MaxIs ==
  ASSUME NEW T \in SUBSET Int, NEW v \in T, \A x \in T : x <= v
  PROVE  Max(T) = v
<1>1. \A y \in T : v >= y  OBVIOUS
<1>2. Max(T) \in T /\ \A y \in T : Max(T) >= y  BY <1>1 DEF Max
<1>3. Max(T) >= v /\ Max(T) <= v  BY <1>2
<1>4. Max(T) \in Int  BY <1>2
<1> QED  BY <1>3, <1>4

(* What is in a set and below the rest of it is its minimum. *)
LEMMA MinIs ==
  ASSUME NEW T \in SUBSET Int, NEW v \in T, \A x \in T : v <= x
  PROVE  Min(T) = v
<1>1. Min(T) \in T /\ \A y \in T : Min(T) <= y  BY DEF Min
<1>2. Min(T) >= v /\ Min(T) <= v  BY <1>1
<1>3. Min(T) \in Int  BY <1>1
<1> QED  BY <1>2, <1>3

(* The last of the first k + 1 numbers is k + 1. *)
LEMMA MaxOfRange ==
  ASSUME NEW k \in Nat
  PROVE  Max(1..(k + 1)) = k + 1 /\ (1..(k + 1)) \ {k + 1} = 1..k
<1>1. k + 1 \in Nat /\ 1..(k + 1) \in SUBSET (0..(k + 1)) /\ 1..(k + 1) # {}  OBVIOUS
<1>2. Max(1..(k + 1)) \in 1..(k + 1) /\ \A x \in 1..(k + 1) : x <= Max(1..(k + 1))
  BY <1>1, MaxOfNumbers
<1> QED  BY <1>2

-----------------------------------------------------------------------------
(* Folds. *)

(* What MapThenFoldSet chooses, for a step F over the numbers up to n. *)
FoldOf(it, n, V, base, F) ==
  /\ it \in [SUBSET (1..n) -> V]
  /\ \A s \in SUBSET (1..n) :
       it[s] = IF s = {} THEN base ELSE F[<<it[s \ {Max(s)}], Max(s)>>]

(* It exists when a step stays in V. *)
LEMMA FoldExists ==
  ASSUME NEW n \in Nat, NEW V, NEW base \in V, NEW F \in [V \X (1..n) -> V]
  PROVE  \E it : FoldOf(it, n, V, base, F)
<1> DEFINE Solves(it, k) ==
             /\ it \in [SUBSET (1..k) -> V]
             /\ \A s \in SUBSET (1..k) :
                  it[s] = IF s = {} THEN base ELSE F[<<it[s \ {Max(s)}], Max(s)>>]
           T == {k \in Nat : k <= n => \E it : Solves(it, k)}
<1>1. 0 \in T
  <2> DEFINE it == [s \in SUBSET (1..0) |-> base]
  <2>1. it \in [SUBSET (1..0) -> V]  OBVIOUS
  <2>2. \A s \in SUBSET (1..0) : s = {} /\ it[s] = base  OBVIOUS
  <2>3. Solves(it, 0)  BY <2>1, <2>2
  <2> HIDE DEF Solves, it
  <2> QED  BY <2>3
<1> HIDE DEF Solves
<1>2. ASSUME NEW k \in Nat, k \in T PROVE k + 1 \in T
  <2> SUFFICES ASSUME k + 1 <= n PROVE \E it : Solves(it, k + 1)
    OBVIOUS
  <2>1. PICK f : Solves(f, k)  BY <1>2
  <2> DEFINE Top(s) == k + 1 \in s
             g == [s \in SUBSET (1..(k + 1)) |->
                     IF Top(s) THEN F[<<f[s \ {k + 1}], k + 1>>] ELSE f[s]]
  <2>2. ASSUME NEW s \in SUBSET (1..(k + 1)), Top(s)
        PROVE  Max(s) = k + 1 /\ s \ {k + 1} \in SUBSET (1..k)
    <3>1. k + 1 \in Nat /\ s \in SUBSET (0..(k + 1)) /\ s # {}  BY <2>2
    <3>2. Max(s) \in s /\ \A x \in s : x <= Max(s)  BY <3>1, MaxOfNumbers
    <3>3. k + 1 <= Max(s) /\ Max(s) \in 1..(k + 1)  BY <2>2, <3>2
    <3>4. Max(s) = k + 1  BY <3>3
    <3> QED  BY <3>4
  <2>3. ASSUME NEW s \in SUBSET (1..(k + 1)), ~Top(s)
        PROVE  s \in SUBSET (1..k) /\ (s # {} => Max(s) \in 1..k)
    <3>1. s \in SUBSET (1..k) /\ s \in SUBSET (0..k)  BY <2>3
    <3>2. s # {} => Max(s) \in s  BY <3>1, MaxOfNumbers
    <3> QED  BY <3>1, <3>2
  <2>4. ASSUME NEW s \in SUBSET (1..(k + 1)) PROVE g[s] \in V
    <3>1. CASE Top(s)
      <4>1. f[s \ {k + 1}] \in V  BY <2>1, <2>2, <3>1 DEF Solves
      <4>2. <<f[s \ {k + 1}], k + 1>> \in V \X (1..n)  BY <4>1
      <4> QED  BY <3>1, <4>2
    <3>2. CASE ~Top(s)  BY <2>1, <2>3, <3>2 DEF Solves
    <3> QED  BY <3>1, <3>2
  <2>5. ASSUME NEW s \in SUBSET (1..(k + 1))
        PROVE  g[s] = IF s = {} THEN base ELSE F[<<g[s \ {Max(s)}], Max(s)>>]
    <3>1. CASE Top(s)
      <4>1. s # {} /\ Max(s) = k + 1 /\ s \ {k + 1} \in SUBSET (1..k)  BY <2>2, <3>1
      <4>2. s \ {k + 1} \in SUBSET (1..(k + 1)) /\ ~Top(s \ {k + 1})  OBVIOUS
      <4>3. g[s \ {k + 1}] = f[s \ {k + 1}]  BY <4>2
      <4>4. g[s] = F[<<f[s \ {k + 1}], k + 1>>]  BY <3>1
      <4> HIDE DEF g
      <4> QED  BY <4>1, <4>3, <4>4
    <3>2. CASE ~Top(s)
      <4>1. s \in SUBSET (1..k) /\ s \ {Max(s)} \in SUBSET (1..(k + 1)) /\ ~Top(s \ {Max(s)})
        BY <2>3, <3>2
      <4>2. g[s] = f[s] /\ g[s \ {Max(s)}] = f[s \ {Max(s)}]  BY <3>2, <4>1
      <4>3. f[s] = IF s = {} THEN base ELSE F[<<f[s \ {Max(s)}], Max(s)>>]  BY <2>1, <4>1 DEF Solves
      <4> HIDE DEF g
      <4> QED  BY <4>2, <4>3
    <3> QED  BY <3>1, <3>2
  <2>6. g \in [SUBSET (1..(k + 1)) -> V]
    <3>1. g = [s \in SUBSET (1..(k + 1)) |-> g[s]]  OBVIOUS
    <3> HIDE DEF g
    <3> QED  BY <2>4, <3>1
  <2> HIDE DEF g
  <2>7. Solves(g, k + 1)  BY <2>5, <2>6 DEF Solves
  <2> QED  BY <2>7
<1> HIDE DEF T
<1>3. n \in T  BY <1>1, <1>2, SetInduction
<1>4. PICK it : Solves(it, n)  BY <1>3 DEF T
<1> QED  BY <1>4 DEF Solves, FoldOf

(* c solves the equation of a fold as long as its values stay in V. *)
SolvesFold(c, n, V, base, F) ==
  /\ c[{}] = base
  /\ \A s \in SUBSET (1..n) : s # {} /\ c[s \ {Max(s)}] \in V => c[s] = F[<<c[s \ {Max(s)}], Max(s)>>]

(* The values of a fold, one after the other. *)
RunOf(r, n, V, base, F) ==
  /\ r \in [0..n -> V] /\ r[0] = base
  /\ \A k \in 0..(n - 1) : r[k + 1] = F[<<r[k], k + 1>>]

(* The fold ends with the value v. *)
EndsWith(v, n, V, base, F) == \E r : RunOf(r, n, V, base, F) /\ v = r[n]

StaysIn(F, n, V) == F \in [V \X (1..n) -> V]

LEMMA FoldRuns ==
  ASSUME NEW n \in Nat, NEW V, NEW base \in V, NEW F, StaysIn(F, n, V),
         NEW c, SolvesFold(c, n, V, base, F)
  PROVE  EndsWith(c[1..n], n, V, base, F)
<1> DEFINE r == [k \in 0..n |-> c[1..k]]
           T == {k \in Nat : k <= n => c[1..k] \in V}
<1>1. 1..0 = {} /\ 0 \in 0..n /\ n \in 0..n  OBVIOUS
<1>2. ASSUME NEW k \in 0..(n - 1), c[1..k] \in V
      PROVE  c[1..(k + 1)] = F[<<c[1..k], k + 1>>] /\ c[1..(k + 1)] \in V
  <2>1. k \in Nat /\ k + 1 \in 1..n  OBVIOUS
  <2>2. Max(1..(k + 1)) = k + 1 /\ (1..(k + 1)) \ {k + 1} = 1..k  BY <2>1, MaxOfRange
  <2>3. 1..(k + 1) \in SUBSET (1..n) /\ 1..(k + 1) # {}
    <3>1. 1 \in 1..(k + 1) /\ 1..(k + 1) \subseteq 1..n  BY <2>1
    <3> QED  BY <3>1
  <2> DEFINE s == 1..(k + 1)
  <2>4. s \in SUBSET (1..n) /\ s # {} /\ Max(s) = k + 1 /\ s \ {k + 1} = 1..k  BY <2>2, <2>3
  <2> HIDE DEF s
  <2>5. c[s] = F[<<c[1..k], k + 1>>]  BY <1>2, <2>4 DEF SolvesFold
  <2>6. <<c[1..k], k + 1>> \in V \X (1..n)  BY <1>2, <2>1
  <2>7. F[<<c[1..k], k + 1>>] \in V  BY <2>6 DEF StaysIn
  <2> QED  BY <2>5, <2>7 DEF s
<1>3. 0 \in T
  <2>1. c[1..0] = base  BY <1>1 DEF SolvesFold
  <2> QED  BY <2>1
<1>4. ASSUME NEW k \in Nat, k \in T PROVE k + 1 \in T
  <2> SUFFICES ASSUME k + 1 <= n PROVE c[1..(k + 1)] \in V
    OBVIOUS
  <2>1. k \in 0..(n - 1) /\ k <= n  OBVIOUS
  <2> QED  BY <1>2, <1>4, <2>1
<1>5. \A k \in 0..n : c[1..k] \in V
  <2> HIDE DEF T
  <2>1. Nat \subseteq T  BY <1>3, <1>4, SetInduction
  <2> QED  BY <2>1 DEF T
<1>6. r \in [0..n -> V]  BY <1>5
<1>7. r[0] = base /\ r[n] = c[1..n]
  <2>1. c[1..0] = base  BY <1>1 DEF SolvesFold
  <2> QED  BY <1>1, <2>1
<1>8. \A k \in 0..(n - 1) : r[k + 1] = F[<<r[k], k + 1>>]
  <2> TAKE k \in 0..(n - 1)
  <2>1. k \in 0..n /\ k + 1 \in 0..n  OBVIOUS
  <2>2. r[k] = c[1..k] /\ r[k + 1] = c[1..(k + 1)]  BY <2>1
  <2> HIDE DEF r
  <2> QED  BY <1>2, <1>5, <2>1, <2>2
<1> HIDE DEF r
<1>9. RunOf(r, n, V, base, F)  BY <1>6, <1>7, <1>8 DEF RunOf
<1> QED  BY <1>7, <1>9 DEF EndsWith

-----------------------------------------------------------------------------
(* Finite sets, and their elements in order. *)

(* At least two elements. *)
Several(S) == \E a, b \in S : a # b

LEMMA SeveralIs ==
  ASSUME NEW S, IsFiniteSet(S)
  PROVE  Cardinality(S) >= 2 <=> Several(S)
<1>1. Cardinality(S) \in Nat  BY FS_CardinalityType
<1>2. ASSUME Several(S) PROVE Cardinality(S) >= 2
  <2>1. PICK a \in S, b \in S : a # b  BY <1>2 DEF Several
  <2>2. IsFiniteSet(S \ {a}) /\ Cardinality(S \ {a}) = Cardinality(S) - 1  BY <2>1, FS_RemoveElement
  <2>3. Cardinality(S \ {a}) # 0
    <3>1. S \ {a} # {}  BY <2>1
    <3> QED  BY <2>2, <3>1, FS_EmptySet
  <2>4. Cardinality(S \ {a}) \in Nat  BY <2>2, FS_CardinalityType
  <2> QED  BY <1>1, <2>2, <2>3, <2>4
<1>3. ASSUME Cardinality(S) >= 2 PROVE Several(S)
  <2>1. PICK a \in S : TRUE
    <3>1. S # {}  BY <1>1, <1>3, FS_EmptySet
    <3> QED  BY <3>1
  <2>2. Cardinality(S \ {a}) = Cardinality(S) - 1 /\ IsFiniteSet(S \ {a})  BY <2>1, FS_RemoveElement
  <2>3. S \ {a} # {}
    <3> SUFFICES ASSUME S \ {a} = {} PROVE FALSE
      OBVIOUS
    <3>1. Cardinality(S \ {a}) = 0  BY FS_EmptySet
    <3> QED  BY <1>1, <1>3, <2>2, <3>1
  <2> QED  BY <2>1, <2>3 DEF Several
<1> QED  BY <1>2, <1>3

(* R is transitive on S and relates any two of its elements. *)
Orders(R, S) ==
  /\ \A i, j, k \in S : <<i, j>> \in R /\ <<j, k>> \in R => <<i, k>> \in R
  /\ \A i, j \in S : i # j => <<i, j>> \in R \/ <<j, i>> \in R

(* One of finitely many things comes after all others. *)
LEMMA LastIs ==
  ASSUME NEW n \in Nat, NEW S \in SUBSET (1..n), S # {}, NEW R, Orders(R, S)
  PROVE  \E x \in S : \A y \in S \ {x} : <<y, x>> \in R
<1> DEFINE IsLast(x, U) == \A y \in U \ {x} : <<y, x>> \in R
           T == {k \in Nat : \A U \in SUBSET S : U \subseteq 1..k /\ U # {} => \E x \in U : IsLast(x, U)}
<1>1. 0 \in T
  <2>1. 1..0 = {}  OBVIOUS
  <2> QED  BY <2>1
<1>2. ASSUME NEW k \in Nat, k \in T PROVE k + 1 \in T
  <2> SUFFICES ASSUME NEW U \in SUBSET S, U \subseteq 1..(k + 1), U # {} PROVE \E x \in U : IsLast(x, U)
    OBVIOUS
  <2> DEFINE V == U \ {k + 1}
  <2>1. V \subseteq 1..k /\ V \in SUBSET S  OBVIOUS
  <2>2. CASE k + 1 \notin U
    <3>1. V = U  BY <2>2
    <3> QED  BY <1>2, <2>1, <3>1
  <2>3. CASE k + 1 \in U /\ V = {}
    <3>1. IsLast(k + 1, U)  BY <2>3
    <3> QED  BY <2>3, <3>1
  <2>4. CASE k + 1 \in U /\ V # {}
    <3>1. PICK x \in V : IsLast(x, V)  BY <1>2, <2>1, <2>4
    <3>2. CASE <<k + 1, x>> \in R
      <4>1. IsLast(x, U)  BY <3>1, <3>2
      <4> QED  BY <4>1
    <3>3. CASE <<k + 1, x>> \notin R
      <4>1. <<x, k + 1>> \in R  BY <2>4, <3>3 DEF Orders
      <4>2. ASSUME NEW y \in U \ {k + 1} PROVE <<y, k + 1>> \in R
        <5>1. CASE y = x  BY <4>1, <5>1
        <5>2. CASE y # x
          <6>1. <<y, x>> \in R  BY <3>1, <5>2
          <6> QED  BY <2>4, <4>1, <6>1 DEF Orders
        <5> QED  BY <5>1, <5>2
      <4>3. IsLast(k + 1, U)  BY <4>2
      <4> QED  BY <2>4, <4>3
    <3> QED  BY <3>2, <3>3
  <2> QED  BY <2>2, <2>3, <2>4
<1> HIDE DEF T
<1>3. n \in T  BY <1>1, <1>2, SetInduction
<1> QED  BY <1>3 DEF T

(* The largest of finitely many values. *)
LEMMA MaxOfImage ==
  ASSUME NEW n \in Nat, NEW S \in SUBSET (1..n), S # {}, NEW f \in [S -> Int]
  PROVE  LET V == {f[i] : i \in S} IN Max(V) \in V /\ \A x \in V : x <= Max(V)
<1> DEFINE V == {f[i] : i \in S}
           R == {p \in S \X S : f[p[1]] <= f[p[2]]}
<1>1. \A i, j \in S : <<i, j>> \in R <=> f[i] <= f[j]  OBVIOUS
<1> HIDE DEF R
<1>2. PICK x \in S : \A y \in S \ {x} : <<y, x>> \in R
  <2>1. Orders(R, S)  BY <1>1 DEF Orders
  <2> QED  BY <2>1, LastIs
<1>3. f[x] \in V /\ \A v \in V : v <= f[x]
  <2>1. \A i \in S : f[i] \in Int  OBVIOUS
  <2>2. \A y \in S : f[y] <= f[x]
    <3> TAKE y \in S
    <3>1. CASE y = x  BY <2>1, <3>1
    <3>2. CASE y # x  BY <1>1, <1>2, <3>2
    <3> QED  BY <3>1, <3>2
  <2> QED  BY <2>2
<1>4. Max(V) \in V /\ \A y \in V : Max(V) >= y
  <2>1. \E v \in V : \A y \in V : v >= y
    <3>1. \A v \in V : v \in Int  OBVIOUS
    <3> QED  BY <1>3, <3>1
  <2> HIDE DEF V
  <2> QED  BY <2>1 DEF Max
<1>5. \A v \in V : v \in Int  OBVIOUS
<1> QED  BY <1>4, <1>5

(* The elements of S, one after the other in the order R. *)
Sorted(s, S, R) ==
  /\ s \in Bijection(1..Cardinality(S), S)
  /\ \A r, t \in 1..Cardinality(S) : r < t => <<s[r], s[t]>> \in R

(* Finitely many things can be sorted. *)
LEMMA SortedExists ==
  ASSUME NEW n \in Nat, NEW S \in SUBSET (1..n), NEW R, Orders(R, S)
  PROVE  \E s : Sorted(s, S, R)
<1> DEFINE T == {k \in Nat : \A U \in SUBSET S : Cardinality(U) = k => \E s : Sorted(s, U, R)}
<1>1. IsFiniteSet(S) /\ \A U \in SUBSET S : IsFiniteSet(U)
  <2>1. IsFiniteSet(1..n)  BY FS_Interval
  <2>2. IsFiniteSet(S)  BY <2>1, FS_Subset
  <2> QED  BY <2>2, FS_Subset
<1>2. 0 \in T
  <2> SUFFICES ASSUME NEW U \in SUBSET S, Cardinality(U) = 0 PROVE \E s : Sorted(s, U, R)
    OBVIOUS
  <2>1. U = {} /\ 1..Cardinality(U) = {}  BY <1>1, FS_EmptySet
  <2> DEFINE s == [i \in {} |-> i]
  <2>2. Sorted(s, U, R)
    <3>1. s \in [{} -> {}]  OBVIOUS
    <3>2. s \in Bijection({}, {})  BY <3>1 DEF Bijection, Injection, Surjection, IsInjective
    <3> QED  BY <2>1, <3>2 DEF Sorted
  <2> HIDE DEF s
  <2> QED  BY <2>2
<1>3. ASSUME NEW k \in Nat, k \in T PROVE k + 1 \in T
  <2> SUFFICES ASSUME NEW U \in SUBSET S, Cardinality(U) = k + 1 PROVE \E s : Sorted(s, U, R)
    OBVIOUS
  <2>1. U # {} /\ U \in SUBSET (1..n)  BY FS_EmptySet
  <2>2. PICK x \in U : \A y \in U \ {x} : <<y, x>> \in R
    <3>1. Orders(R, U)  BY DEF Orders
    <3> QED  BY <2>1, <3>1, LastIs
  <2> DEFINE V == U \ {x}
  <2>3. V \in SUBSET S /\ Cardinality(V) = k
    <3>1. Cardinality(V) = Cardinality(U) - 1  BY <1>1, FS_RemoveElement
    <3> QED  BY <3>1
  <2>4. PICK s : Sorted(s, V, R)  BY <1>3, <2>3
  <2> DEFINE g == [r \in 1..(k + 1) |-> IF r = k + 1 THEN x ELSE s[r]]
  <2>5. /\ s \in [1..k -> V]
        /\ \A a, b \in 1..k : s[a] = s[b] => a = b
        /\ \A y \in V : \E a \in 1..k : s[a] = y
        /\ \A r, t \in 1..k : r < t => <<s[r], s[t]>> \in R
    BY <2>3, <2>4 DEF Sorted, Bijection, Injection, Surjection, IsInjective
  <2>6. g[k + 1] = x /\ \A r \in 1..k : g[r] = s[r] /\ g[r] \in V
    <3>1. k + 1 \in 1..(k + 1) /\ \A r \in 1..k : r \in 1..(k + 1) /\ r # k + 1  OBVIOUS
    <3> HIDE DEF V
    <3> QED  BY <2>5, <3>1
  <2>7. g \in [1..(k + 1) -> U]
    <3>1. \A r \in 1..(k + 1) : g[r] \in U
      <4> TAKE r \in 1..(k + 1)
      <4>1. r = k + 1 \/ r \in 1..k  OBVIOUS
      <4> HIDE DEF g
      <4> QED  BY <2>6, <4>1
    <3> QED  BY <3>1
  <2>8. \A r \in 1..(k + 1) : r = k + 1 \/ r \in 1..k  OBVIOUS
  <2>9. DOMAIN g = 1..(k + 1)  OBVIOUS
  <2> HIDE DEF g
  <2>10. \A a, b \in 1..(k + 1) : g[a] = g[b] => a = b  BY <2>5, <2>6, <2>8
  <2>11. \A y \in U : \E a \in 1..(k + 1) : g[a] = y
    <3> TAKE y \in U
    <3>1. CASE y = x
      <4>1. k + 1 \in 1..(k + 1)  OBVIOUS
      <4> QED  BY <2>6, <3>1, <4>1
    <3>2. CASE y # x
      <4>1. PICK a \in 1..k : s[a] = y  BY <2>5, <3>2
      <4>2. a \in 1..(k + 1)  OBVIOUS
      <4> QED  BY <2>6, <4>1, <4>2
    <3> QED  BY <3>1, <3>2
  <2>12. ASSUME NEW r \in 1..(k + 1), NEW t \in 1..(k + 1), r < t PROVE <<g[r], g[t]>> \in R
    <3>1. r \in 1..k  BY <2>12
    <3>2. CASE t = k + 1  BY <2>2, <2>6, <3>1, <3>2
    <3>3. CASE t \in 1..k  BY <2>5, <2>6, <2>12, <3>1, <3>3
    <3> QED  BY <2>8, <3>2, <3>3
  <2>13. g \in Bijection(1..(k + 1), U)
    BY <2>7, <2>9, <2>10, <2>11 DEF Bijection, Injection, Surjection, IsInjective
  <2>14. Sorted(g, U, R)  BY <2>12, <2>13 DEF Sorted
  <2> QED  BY <2>14
<1> HIDE DEF T
<1>4. Cardinality(S) \in T
  <2>1. Cardinality(S) \in Nat  BY <1>1, FS_CardinalityType
  <2> QED  BY <1>2, <1>3, <2>1, SetInduction
<1> QED  BY <1>4 DEF T

-----------------------------------------------------------------------------
(* Sequences. *)

(* What Append returns. *)
LEMMA AppendIs ==
  ASSUME NEW S, NEW s \in Seq(S), NEW x \in S
  PROVE  /\ Append(s, x) \in Seq(S) /\ Len(Append(s, x)) = Len(s) + 1
         /\ Append(s, x)[Len(s) + 1] = x
         /\ \A i \in 1..Len(s) : Append(s, x)[i] = s[i]
OBVIOUS

(* What Append does to the set of the elements. *)
LEMMA AppendSet ==
  ASSUME NEW S, NEW s \in Seq(S), NEW x \in S
  PROVE  Append(s, x) \in Seq(S) /\ ToSet(Append(s, x)) = ToSet(s) \union {x}
<1> DEFINE a == Append(s, x)
           l == Len(s)
<1>1. /\ a \in Seq(S) /\ Len(a) = l + 1 /\ a[l + 1] = x
      /\ \A i \in 1..l : a[i] = s[i]
  BY AppendIs
<1>2. DOMAIN s = 1..l /\ DOMAIN a = 1..(l + 1) /\ l \in Nat
  <2>1. l \in Nat /\ DOMAIN s = 1..l  OBVIOUS
  <2>2. DOMAIN a = 1..Len(a)  BY <1>1
  <2> QED  BY <1>1, <2>1, <2>2
<1>3. \A i \in 1..(l + 1) : i \in 1..l \/ i = l + 1  BY <1>2
<1>4. l + 1 \in 1..(l + 1) /\ \A i \in 1..l : i \in 1..(l + 1)  BY <1>2
<1> HIDE DEF a, l
<1>5. ToSet(a) = ToSet(s) \union {x}
  <2>1. ASSUME NEW y \in ToSet(a) PROVE y \in ToSet(s) \union {x}
    <3>1. PICK i \in 1..(l + 1) : y = a[i]  BY <1>2 DEF ToSet
    <3> QED  BY <1>1, <1>2, <1>3, <3>1 DEF ToSet
  <2>2. ASSUME NEW y \in ToSet(s) PROVE y \in ToSet(a)
    <3>1. PICK i \in 1..l : y = s[i]  BY <1>2 DEF ToSet
    <3> QED  BY <1>1, <1>2, <1>4, <3>1 DEF ToSet
  <2>3. x \in ToSet(a)  BY <1>1, <1>2, <1>4 DEF ToSet
  <2> QED  BY <2>1, <2>2, <2>3
<1> QED  BY <1>1, <1>5 DEF a

(* Each element is smaller than those after it. *)
Ascending(s) == \A a, b \in 1..Len(s) : a < b => s[a] < s[b]

(* A larger number at the end. *)
LEMMA AppendAscends ==
  ASSUME NEW k \in Nat, NEW s \in Seq(1..k), Ascending(s)
  PROVE  /\ Append(s, k + 1) \in Seq(1..(k + 1)) /\ Ascending(Append(s, k + 1))
         /\ ToSet(Append(s, k + 1)) = ToSet(s) \union {k + 1}
<1> DEFINE all == Append(s, k + 1)
           m == Len(s)
<1>1. m \in Nat /\ \A a \in 1..m : s[a] \in 1..k  OBVIOUS
<1>2. /\ all \in Seq(1..(k + 1)) /\ Len(all) = m + 1 /\ all[m + 1] = k + 1
      /\ \A a \in 1..m : all[a] = s[a]
  <2>1. 1..k \subseteq 1..(k + 1)  OBVIOUS
  <2>2. s \in Seq(1..(k + 1)) /\ k + 1 \in 1..(k + 1)  BY <2>1, SeqMonotonic
  <2> QED  BY <2>2, AppendIs
<1>3. ToSet(all) = ToSet(s) \union {k + 1}
  <2>1. DOMAIN all = 1..(m + 1) /\ DOMAIN s = 1..m  BY <1>2
  <2> HIDE DEF all, m
  <2>2. 1..(m + 1) = (1..m) \union {m + 1}  BY <1>1
  <2> QED  BY <1>2, <2>1, <2>2 DEF ToSet
<1>4. Ascending(all)
  <2> SUFFICES ASSUME NEW a \in 1..(m + 1), NEW b \in 1..(m + 1), a < b PROVE all[a] < all[b]
    BY <1>2 DEF Ascending
  <2>1. a \in 1..m /\ (b \in 1..m \/ b = m + 1)  BY <1>1
  <2>2. \A x, y \in 1..m : x < y => s[x] < s[y]  BY DEF Ascending
  <2> HIDE DEF all, m
  <2>3. CASE b \in 1..m  BY <1>2, <2>1, <2>2, <2>3
  <2>4. CASE b = m + 1
    <3>1. all[a] \in 1..k /\ all[b] = k + 1  BY <1>1, <1>2, <2>1, <2>4
    <3> QED  BY <3>1
  <2> QED  BY <2>1, <2>3, <2>4
<1> QED  BY <1>2, <1>3, <1>4

(* Larger numbers after smaller ones. *)
LEMMA ConcatAscends ==
  ASSUME NEW n \in Nat, NEW s \in Seq(1..n), NEW t \in Seq(1..n)
  PROVE  /\ s \o t \in Seq(1..n) /\ ToSet(s \o t) = ToSet(s) \union ToSet(t)
         /\ Ascending(s) /\ Ascending(t) /\ (\A i \in ToSet(s), j \in ToSet(t) : i < j)
              => Ascending(s \o t)
<1> DEFINE a == Len(s)
           b == Len(t)
           u == s \o t
<1>1. a \in Nat /\ b \in Nat /\ DOMAIN s = 1..a /\ DOMAIN t = 1..b  BY LenProperties
<1>2. /\ u \in Seq(1..n) /\ Len(u) = a + b
      /\ \A i \in 1..(a + b) : u[i] = IF i <= a THEN s[i] ELSE t[i - a]
  BY ConcatProperties
<1>3. DOMAIN u = 1..(a + b)  BY <1>2, LenProperties
<1> HIDE DEF u, a, b
<1>4. \A i \in 1..(a + b) : \/ i \in 1..a /\ u[i] = s[i]
                            \/ i \notin 1..a /\ i - a \in 1..b /\ u[i] = t[i - a]
  BY <1>1, <1>2
<1>5. \A i \in 1..b : i + a \in 1..(a + b) /\ u[i + a] = t[i]
  <2> TAKE i \in 1..b
  <2>1. i + a \in 1..(a + b) /\ ~(i + a <= a) /\ (i + a) - a = i  BY <1>1
  <2> QED  BY <1>2, <2>1
<1>6. \A i \in 1..a : i \in 1..(a + b) /\ u[i] = s[i]
  <2> TAKE i \in 1..a
  <2>1. i \in 1..(a + b) /\ i <= a  BY <1>1
  <2> QED  BY <1>2, <2>1
<1>7. ToSet(u) = ToSet(s) \union ToSet(t)
  <2>1. ToSet(u) \subseteq ToSet(s) \union ToSet(t)  BY <1>1, <1>3, <1>4 DEF ToSet
  <2>2. ToSet(s) \subseteq ToSet(u)  BY <1>1, <1>3, <1>6 DEF ToSet
  <2>3. ToSet(t) \subseteq ToSet(u)  BY <1>1, <1>3, <1>5 DEF ToSet
  <2> QED  BY <2>1, <2>2, <2>3
<1>8. ASSUME Ascending(s), Ascending(t), \A i \in ToSet(s), j \in ToSet(t) : i < j
      PROVE  Ascending(u)
  <2> SUFFICES ASSUME NEW x \in 1..(a + b), NEW y \in 1..(a + b), x < y PROVE u[x] < u[y]
    BY <1>2 DEF Ascending
  <2>1. CASE y \in 1..a
    <3>1. x \in 1..a  BY <1>1, <2>1
    <3> QED  BY <1>6, <1>8, <2>1, <3>1 DEF Ascending, a
  <2>2. CASE x \in 1..a /\ y \notin 1..a
    <3>1. y - a \in 1..b /\ u[y] = t[y - a] /\ u[x] = s[x]  BY <1>4, <2>2
    <3>2. u[x] \in ToSet(s) /\ u[y] \in ToSet(t)  BY <1>1, <2>2, <3>1 DEF ToSet
    <3> QED  BY <1>8, <3>2
  <2>3. CASE x \notin 1..a /\ y \notin 1..a
    <3>1. x - a \in 1..b /\ u[x] = t[x - a] /\ y - a \in 1..b /\ u[y] = t[y - a]  BY <1>4, <2>3
    <3>2. x - a < y - a  BY <1>1
    <3> QED  BY <1>8, <3>1, <3>2 DEF Ascending, b
  <2>4. x \notin 1..a => y \notin 1..a  BY <1>1
  <2> QED  BY <2>1, <2>2, <2>3, <2>4
<1> QED  BY <1>2, <1>7, <1>8 DEF u

(* The recursion inside FlattenSeq has a solution. *)
LEMMA FlattenExists ==
  ASSUME NEW m \in Nat, NEW seqs
  PROVE  \E f : f = [i \in 1..m |-> IF i = 1 THEN seqs[i] ELSE f[i - 1] \o seqs[i]]
<1> DEFINE Solves(f, k) ==
             /\ f = [i \in 1..k |-> f[i]]
             /\ \A i \in 1..k : f[i] = IF i = 1 THEN seqs[i] ELSE f[i - 1] \o seqs[i]
           T == {k \in Nat : \E f : Solves(f, k)}
<1>1. 0 \in T
  <2> DEFINE f == [i \in 1..0 |-> i]
  <2>1. Solves(f, 0)  OBVIOUS
  <2> HIDE DEF Solves, f
  <2> QED  BY <2>1
<1>2. ASSUME NEW k \in Nat, k \in T PROVE k + 1 \in T
  <2>1. PICK f : Solves(f, k)  BY <1>2
  <2> DEFINE last == IF k + 1 = 1 THEN seqs[k + 1] ELSE f[k] \o seqs[k + 1]
             g == [i \in 1..(k + 1) |-> IF i = k + 1 THEN last ELSE f[i]]
  <2>2. g = [i \in 1..(k + 1) |-> g[i]]  OBVIOUS
  <2>3. ASSUME NEW i \in 1..(k + 1)
        PROVE  g[i] = IF i = 1 THEN seqs[i] ELSE g[i - 1] \o seqs[i]
    <3>1. CASE i = k + 1
      <4>1. i # 1 => i - 1 = k /\ k \in 1..(k + 1) /\ k # k + 1  BY <3>1
      <4>2. i # 1 => g[i - 1] = f[k]  BY <4>1
      <4>3. g[i] = last  BY <3>1
      <4> HIDE DEF g
      <4> QED  BY <3>1, <4>2, <4>3
    <3>2. CASE i # k + 1
      <4>1. i \in 1..k /\ (i # 1 => i - 1 \in 1..(k + 1) /\ i - 1 # k + 1)  BY <3>2
      <4>2. g[i] = f[i] /\ (i # 1 => g[i - 1] = f[i - 1])  BY <3>2, <4>1
      <4>3. f[i] = IF i = 1 THEN seqs[i] ELSE f[i - 1] \o seqs[i]  BY <2>1, <4>1
      <4> HIDE DEF g
      <4> QED  BY <4>2, <4>3
    <3> QED  BY <3>1, <3>2
  <2> HIDE DEF g
  <2>4. Solves(g, k + 1)  BY <2>2, <2>3
  <2> HIDE DEF Solves
  <2> QED  BY <2>4
<1> HIDE DEF T
<1>3. m \in T  BY <1>1, <1>2, SetInduction
<1>4. PICK f : Solves(f, m)  BY <1>3 DEF T
<1> QED  BY <1>4, ZenonT(40)

(* What the first k parts have, and parts that are in order. *)
Parts(seqs, k) == UNION {ToSet(seqs[s]) : s \in 1..k}

InOrder(seqs) ==
  /\ \A s \in 1..Len(seqs) : Ascending(seqs[s])
  /\ \A s, t \in 1..Len(seqs) : s < t => \A i \in ToSet(seqs[s]), j \in ToSet(seqs[t]) : i < j

(* FlattenSeq keeps what is in the parts, and their order. *)
LEMMA FlattenIs ==
  ASSUME NEW n \in Nat, NEW seqs \in Seq(Seq(1..n))
  PROVE  /\ FlattenSeq(seqs) \in Seq(1..n)
         /\ ToSet(FlattenSeq(seqs)) = Parts(seqs, Len(seqs))
         /\ InOrder(seqs) => Ascending(FlattenSeq(seqs))
<1> DEFINE m == Len(seqs)
           Chosen == CHOOSE f : f = [i \in 1..m |-> IF i = 1 THEN seqs[i] ELSE f[i - 1] \o seqs[i]]
<1>1. m \in Nat /\ \A s \in 1..m : seqs[s] \in Seq(1..n)  BY LenProperties, ElementOfSeq
<1>2. FlattenSeq(seqs) = IF m = 0 THEN seqs ELSE Chosen[m]  BY DEF FlattenSeq
<1>3. Chosen = [i \in 1..m |-> IF i = 1 THEN seqs[i] ELSE Chosen[i - 1] \o seqs[i]]
  BY <1>1, FlattenExists
<1> HIDE DEF Chosen, m
<1>4. \A i \in 1..m : Chosen[i] = IF i = 1 THEN seqs[i] ELSE Chosen[i - 1] \o seqs[i]  BY <1>3
<1> DEFINE T == {k \in Nat : k \in 1..m => /\ Chosen[k] \in Seq(1..n)
                                           /\ ToSet(Chosen[k]) = Parts(seqs, k)
                                           /\ InOrder(seqs) => Ascending(Chosen[k])}
<1>5. 0 \in T  OBVIOUS
<1>6. ASSUME NEW k \in Nat, k \in T PROVE k + 1 \in T
  <2> SUFFICES ASSUME k + 1 \in 1..m
               PROVE  /\ Chosen[k + 1] \in Seq(1..n)
                      /\ ToSet(Chosen[k + 1]) = Parts(seqs, k + 1)
                      /\ InOrder(seqs) => Ascending(Chosen[k + 1])
    OBVIOUS
  <2>1. seqs[k + 1] \in Seq(1..n)  BY <1>1
  <2>2. InOrder(seqs) => Ascending(seqs[k + 1])  BY DEF InOrder, m
  <2>3. CASE k = 0
    <3>1. Chosen[k + 1] = seqs[k + 1]  BY <1>4, <2>3
    <3>2. 1..(k + 1) = {k + 1}  BY <2>3
    <3>3. Parts(seqs, k + 1) = ToSet(seqs[k + 1])  BY <3>2 DEF Parts
    <3> QED  BY <2>1, <2>2, <3>1, <3>3
  <2>4. CASE k # 0
    <3>1. k \in 1..m /\ (k + 1) - 1 = k /\ k + 1 # 1  BY <1>1, <2>4
    <3>2. /\ Chosen[k] \in Seq(1..n) /\ ToSet(Chosen[k]) = Parts(seqs, k)
          /\ InOrder(seqs) => Ascending(Chosen[k])
      BY <1>6, <3>1
    <3>3. Chosen[k + 1] = Chosen[k] \o seqs[k + 1]  BY <1>4, <3>1
    <3>4. 1..(k + 1) = (1..k) \union {k + 1}  OBVIOUS
    <3>5. Parts(seqs, k + 1) = Parts(seqs, k) \union ToSet(seqs[k + 1])  BY <3>4 DEF Parts
    <3>6. InOrder(seqs) => \A i \in ToSet(Chosen[k]), j \in ToSet(seqs[k + 1]) : i < j
      <4> SUFFICES ASSUME InOrder(seqs), NEW i \in Parts(seqs, k), NEW j \in ToSet(seqs[k + 1]) PROVE i < j
        BY <3>2
      <4>1. PICK s \in 1..k : i \in ToSet(seqs[s])  BY DEF Parts
      <4>2. s \in 1..m /\ s < k + 1  BY <1>1, <3>1
      <4> QED  BY <4>1, <4>2 DEF InOrder, m
    <3>7. /\ Chosen[k + 1] \in Seq(1..n)
          /\ ToSet(Chosen[k + 1]) = ToSet(Chosen[k]) \union ToSet(seqs[k + 1])
      BY <2>1, <3>2, <3>3, ConcatAscends
    <3>8. InOrder(seqs) => Ascending(Chosen[k + 1])
      BY <2>1, <2>2, <3>2, <3>3, <3>6, ConcatAscends
    <3> QED  BY <3>2, <3>5, <3>7, <3>8
  <2> QED  BY <2>3, <2>4
<1> HIDE DEF T
<1>7. m \in T  BY <1>1, <1>5, <1>6, SetInduction
<1>8. CASE m = 0
  <2>1. seqs = <<>>  BY <1>8 DEF m
  <2>2. <<>> \in Seq(1..n) /\ Ascending(<<>>) /\ ToSet(<<>>) = {}  BY DEF Ascending, ToSet
  <2>3. Parts(seqs, 0) = {}  BY DEF Parts
  <2> QED  BY <1>2, <1>8, <2>1, <2>2, <2>3 DEF m
<1>9. CASE m # 0
  <2>1. m \in 1..m  BY <1>1, <1>9
  <2>2. /\ Chosen[m] \in Seq(1..n) /\ ToSet(Chosen[m]) = Parts(seqs, m)
        /\ InOrder(seqs) => Ascending(Chosen[m])
    BY <1>7, <2>1 DEF T
  <2> QED  BY <1>2, <1>9, <2>2 DEF m
<1> QED  BY <1>8, <1>9

-----------------------------------------------------------------------------
(* Sums over sets of positions. *)

(* g holds the sum of f over each subset of 1..n. *)
SumsOf(g, n, f) ==
  /\ g \in [SUBSET (1..n) -> Int] /\ g[{}] = 0
  /\ \A s \in SUBSET (1..n) : \A x \in s : g[s] = f[x] + g[s \ {x}]

(* Sums do not depend on the order of the terms. *)
LEMMA SumsExist ==
  ASSUME NEW n \in Nat, NEW f \in [1..n -> Int]
  PROVE  \E g : SumsOf(g, n, f)
<1> DEFINE T == {k \in Nat : k <= n => \E g : SumsOf(g, k, f)}
<1>1. 0 \in T
  <2> DEFINE g == [s \in SUBSET (1..0) |-> 0]
  <2>1. g \in [SUBSET (1..0) -> Int] /\ g[{}] = 0 /\ \A s \in SUBSET (1..0) : s = {}  OBVIOUS
  <2> HIDE DEF g
  <2>2. SumsOf(g, 0, f)  BY <2>1 DEF SumsOf
  <2> QED  BY <2>2
<1>2. ASSUME NEW k \in Nat, k \in T PROVE k + 1 \in T
  <2> SUFFICES ASSUME k + 1 <= n PROVE \E g : SumsOf(g, k + 1, f)
    OBVIOUS
  <2>1. PICK g : SumsOf(g, k, f)  BY <1>2
  <2> DEFINE v == f[k + 1]
             h == [s \in SUBSET (1..(k + 1)) |-> IF k + 1 \in s THEN v + g[s \ {k + 1}] ELSE g[s]]
  <2>2. v \in Int /\ \A x \in 1..k : f[x] \in Int  OBVIOUS
  <2>3. \A s \in SUBSET (1..(k + 1)) : s \ {k + 1} \in SUBSET (1..k) /\ (k + 1 \notin s => s \in SUBSET (1..k))
    OBVIOUS
  <2>4. \A s \in SUBSET (1..k) : g[s] \in Int  BY <2>1 DEF SumsOf
  <2>5. h \in [SUBSET (1..(k + 1)) -> Int]
    <3> HIDE DEF v
    <3> QED  BY <2>2, <2>3, <2>4
  <2>6. h[{}] = 0  BY <2>1 DEF SumsOf
  <2>7. ASSUME NEW s \in SUBSET (1..(k + 1)), NEW x \in s
        PROVE  h[s] = f[x] + h[s \ {x}]
    <3>1. s \ {x} \in SUBSET (1..(k + 1))  OBVIOUS
    <3>2. CASE x = k + 1
      <4>1. h[s] = v + g[s \ {k + 1}] /\ h[s \ {x}] = g[s \ {k + 1}]  BY <3>1, <3>2
      <4> QED  BY <3>2, <4>1
    <3>3. CASE x # k + 1 /\ k + 1 \in s
      <4> DEFINE r == s \ {k + 1}
      <4>1. h[s] = v + g[r]  BY <3>3
      <4>2. (s \ {x}) \ {k + 1} = r \ {x} /\ x \in r /\ r \in SUBSET (1..k) /\ r \ {x} \in SUBSET (1..k)
        BY <3>3
      <4>3. h[s \ {x}] = v + g[(s \ {x}) \ {k + 1}]  BY <3>1, <3>3
      <4>4. h[s \ {x}] = v + g[r \ {x}]  BY <4>2, <4>3
      <4> HIDE DEF v, r, h
      <4>5. g[r] = f[x] + g[r \ {x}] /\ x \in 1..k /\ g[r \ {x}] \in Int  BY <2>1, <4>2 DEF SumsOf
      <4> QED  BY <2>2, <4>1, <4>4, <4>5
    <3>4. CASE k + 1 \notin s
      <4>1. h[s] = g[s] /\ h[s \ {x}] = g[s \ {x}] /\ s \in SUBSET (1..k)  BY <3>1, <3>4
      <4> HIDE DEF h
      <4>2. g[s] = f[x] + g[s \ {x}]  BY <2>1, <4>1 DEF SumsOf
      <4> QED  BY <4>1, <4>2
    <3> QED  BY <3>2, <3>3, <3>4
  <2> HIDE DEF h
  <2>8. SumsOf(h, k + 1, f)  BY <2>5, <2>6, <2>7 DEF SumsOf
  <2> QED  BY <2>8
<1> HIDE DEF T
<1>3. n \in T  BY <1>1, <1>2, SetInduction
<1> QED  BY <1>3 DEF T

(* The equation MapThenSumSet solves, with an arbitrary choice of the next term. *)
Choice(s) == CHOOSE x \in s : TRUE
SumFold(it, D, f) ==
  it = [s \in SUBSET D |-> IF s = {} THEN 0 ELSE f[Choice(s)] + it[s \ {Choice(s)}]]

(* It has one solution, the sums. *)
LEMMA SumFoldIs ==
  ASSUME NEW n \in Nat, NEW f, NEW g, SumsOf(g, n, f), NEW D \in SUBSET (1..n)
  PROVE  /\ \E it : SumFold(it, D, f)
         /\ \A it : SumFold(it, D, f) => it[D] = g[D]
<1>1. ASSUME NEW s \in SUBSET D, s # {} PROVE Choice(s) \in s
  BY <1>1 DEF Choice
<1>2. g[{}] = 0 /\ \A s \in SUBSET D : s # {} => g[s] = f[Choice(s)] + g[s \ {Choice(s)}]
  BY <1>1 DEF SumsOf
<1>3. \E it : SumFold(it, D, f)
  <2> DEFINE it == [s \in SUBSET D |-> g[s]]
  <2>1. ASSUME NEW s \in SUBSET D
        PROVE  it[s] = IF s = {} THEN 0 ELSE f[Choice(s)] + it[s \ {Choice(s)}]
    <3>1. s \ {Choice(s)} \in SUBSET D  OBVIOUS
    <3>2. it[s] = g[s] /\ it[s \ {Choice(s)}] = g[s \ {Choice(s)}]  BY <3>1
    <3> HIDE DEF it
    <3> QED  BY <1>2, <3>2
  <2>2. it = [s \in SUBSET D |-> it[s]]  OBVIOUS
  <2> HIDE DEF it
  <2>3. it = [s \in SUBSET D |-> IF s = {} THEN 0 ELSE f[Choice(s)] + it[s \ {Choice(s)}]]
    BY <2>1, <2>2
  <2>4. SumFold(it, D, f)  BY <2>3, Zenon DEF SumFold
  <2> QED  BY <2>4
<1>4. ASSUME NEW it, SumFold(it, D, f) PROVE it[D] = g[D]
  <2>1. \A s \in SUBSET D : it[s] = IF s = {} THEN 0 ELSE f[Choice(s)] + it[s \ {Choice(s)}]
    BY <1>4 DEF SumFold
  <2>2. \A s \in SUBSET D : IsFiniteSet(s)
    <3>1. IsFiniteSet(1..n)  BY FS_Interval
    <3>2. IsFiniteSet(D)  BY <3>1, FS_Subset
    <3> QED  BY <3>2, FS_Subset
  <2> DEFINE T == {k \in Nat : \A s \in SUBSET D : Cardinality(s) = k => it[s] = g[s]}
  <2>3. 0 \in T
    <3> SUFFICES ASSUME NEW s \in SUBSET D, Cardinality(s) = 0 PROVE it[s] = g[s]
      OBVIOUS
    <3>1. s = {}  BY <2>2, FS_EmptySet
    <3> QED  BY <1>2, <2>1, <3>1
  <2>4. ASSUME NEW k \in Nat, k \in T PROVE k + 1 \in T
    <3> SUFFICES ASSUME NEW s \in SUBSET D, Cardinality(s) = k + 1 PROVE it[s] = g[s]
      OBVIOUS
    <3>1. s # {}  BY FS_EmptySet
    <3> DEFINE r == s \ {Choice(s)}
    <3>2. r \in SUBSET D /\ Cardinality(r) = k
      <4>1. Cardinality(r) = Cardinality(s) - 1  BY <1>1, <2>2, <3>1, FS_RemoveElement
      <4>2. r \in SUBSET D  OBVIOUS
      <4> HIDE DEF r
      <4> QED  BY <4>1, <4>2
    <3>3. it[r] = g[r]  BY <2>4, <3>2
    <3> QED  BY <1>2, <2>1, <3>1, <3>3
  <2> HIDE DEF T
  <2>5. Cardinality(D) \in Nat /\ IsFiniteSet(D)  BY <2>2, FS_CardinalityType
  <2>6. Cardinality(D) \in T  BY <2>3, <2>4, <2>5, SetInduction
  <2> QED  BY <2>6 DEF T
<1> QED  BY <1>3, <1>4
=============================================================================
