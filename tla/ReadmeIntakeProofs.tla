------------------------- MODULE ReadmeIntakeProofs -------------------------
(***************************************************************************)
(* What retry, chunk_text_tokens and parse_readme return, for any number of*)
(* failures, tokens and lines.                                             *)
(***************************************************************************)
EXTENDS ReadmeIntake, DataLemmas

-----------------------------------------------------------------------------
(* retry *)

(* Retry stops at the first call that works; after retries failures it     *)
(* raises.                                                                 *)
LEMMA RetryIs ==
  ASSUME NEW retries \in Nat \ {0}, NEW outcomes \in [1..retries -> BOOLEAN]
  PROVE  LET r == Retry(outcomes, retries) IN
         /\ r.ends = IF \E i \in 1..retries : outcomes[i] THEN "value" ELSE "raise"
         /\ Len(r.waits) = r.calls - 1
         /\ \A i \in 1..(r.calls - 1) : ~outcomes[i]
<1> DEFINE good == {i \in 1..retries : outcomes[i]}
           n == IF good = {} THEN retries ELSE CHOOSE i \in good : \A j \in good : i <= j
           r == Retry(outcomes, retries)
<1>1. n \in 1..retries /\ \A i \in 1..(n - 1) : ~outcomes[i]
  <2>1. CASE good = {}  BY <2>1
  <2>2. CASE good # {}
    <3>1. good \in SUBSET Nat  OBVIOUS
    <3>2. \E i \in good : \A j \in good : i <= j  BY <2>2, <3>1, LeastIs
    <3>3. n \in good /\ \A j \in good : n <= j  BY <2>2, <3>2
    <3> HIDE DEF n
    <3> QED  BY <3>3
  <2> QED  BY <2>1, <2>2
<1>2. r = [calls |-> n,
           ends |-> IF good # {} THEN "value" ELSE IF retries = 0 THEN "none" ELSE "raise",
           waits |-> [i \in 1..(IF n = 0 THEN 0 ELSE n - 1) |-> 2 ^ (i - 1)]]
  BY DEF Retry
<1> HIDE DEF n, r
<1>3. r.calls = n /\ r.waits = [i \in 1..(n - 1) |-> 2 ^ (i - 1)]  BY <1>1, <1>2
<1>4. r.ends = IF good # {} THEN "value" ELSE "raise"  BY <1>2
<1>5. Len(r.waits) = n - 1  BY <1>1, <1>3
<1> QED  BY <1>1, <1>3, <1>4, <1>5 DEF r


(* chunk_text_tokens *)

-----------------------------------------------------------------------------
(* chunk_text_tokens *)

(* A window of tokens: from, and up to but without. *)
Window == Nat \X Nat

(* One step of the recursion of Windows. *)
WindowsAt(f, start, n, size, overlap) ==
  IF start >= n THEN <<>>
  ELSE IF start + size >= n THEN <<<<start + 1, n>>>>
  ELSE <<<<start + 1, start + size>>>> \o f[start + size - overlap]

(* Windows that cover the tokens after start. *)
CoverFrom(w, start, n, size, overlap) ==
  /\ w \in Seq(Window)
  /\ start >= n => w = <<>>
  /\ start < n =>
       /\ w # <<>> /\ w[1][1] = start + 1 /\ w[Len(w)][2] = n
       /\ w[1][2] = IF start + size >= n THEN n ELSE start + size
  /\ \A i \in 1..Len(w) : w[i][2] - w[i][1] < size
  /\ \A i \in 1..(Len(w) - 1) : w[i][2] - w[i + 1][1] + 1 = overlap /\ w[i][2] < w[i + 1][2]

(* One window more. *)
LEMMA CoverStep ==
  ASSUME NEW n \in Nat, NEW size \in Nat \ {0}, NEW overlap \in 0..(size - 1),
         NEW start \in Nat, NEW f,
         start + size < n => CoverFrom(f[start + size - overlap], start + size - overlap, n, size, overlap)
  PROVE  CoverFrom(WindowsAt(f, start, n, size, overlap), start, n, size, overlap)
<1> DEFINE w == WindowsAt(f, start, n, size, overlap)
<1>1. CASE start >= n
  <2>1. w = <<>>  BY <1>1 DEF WindowsAt
  <2> QED  BY <1>1, <2>1 DEF CoverFrom
<1>2. CASE start < n /\ start + size >= n
  <2>1. w = <<<<start + 1, n>>>>  BY <1>2 DEF WindowsAt
  <2> QED  BY <1>2, <2>1 DEF CoverFrom, Window
<1>3. CASE start + size < n
  <2> DEFINE x == <<start + 1, start + size>>
             next == start + size - overlap
             rest == f[next]
  <2>1. next \in Nat /\ next < n /\ start < n  BY <1>3
  <2>2. CoverFrom(rest, next, n, size, overlap)  BY <1>3
  <2>3. w = <<x>> \o rest  BY <1>3, <2>1 DEF WindowsAt
  <2>4. x \in Window /\ x[1] = start + 1 /\ x[2] = start + size  BY DEF Window
  <2>5. /\ rest \in Seq(Window) /\ rest # <<>>
        /\ rest[1][1] = next + 1 /\ rest[Len(rest)][2] = n
        /\ rest[1][2] = IF next + size >= n THEN n ELSE next + size
    BY <2>1, <2>2 DEF CoverFrom
  <2>6. /\ \A i \in 1..Len(rest) : rest[i][2] - rest[i][1] < size
        /\ \A i \in 1..(Len(rest) - 1) :
             rest[i][2] - rest[i + 1][1] + 1 = overlap /\ rest[i][2] < rest[i + 1][2]
    BY <2>2 DEF CoverFrom
  <2> HIDE DEF x, rest, w
  <2>7. /\ w \in Seq(Window) /\ Len(w) = Len(rest) + 1
        /\ w[1] = x /\ \A i \in 1..Len(rest) : w[i + 1] = rest[i]
    <3>1. <<x>> \in Seq(Window) /\ Len(<<x>>) = 1 /\ <<x>>[1] = x  BY <2>4
    <3>2. /\ w \in Seq(Window) /\ Len(w) = 1 + Len(rest)
          /\ \A i \in 1..(1 + Len(rest)) : w[i] = IF i <= 1 THEN <<x>>[i] ELSE rest[i - 1]
      BY <2>3, <2>5, <3>1, ConcatProperties
    <3>3. Len(rest) \in Nat  BY <2>5
    <3> QED  BY <3>1, <3>2, <3>3
  <2>8. Len(rest) \in Nat \ {0}  BY <2>5
  <2>9. x[2] - rest[1][1] + 1 = overlap /\ x[2] < rest[1][2]
    BY <1>3, <2>1, <2>4, <2>5
  <2>10. \A i \in 1..Len(w) : w[i][2] - w[i][1] < size
    <3> TAKE i \in 1..Len(w)
    <3>1. CASE i = 1  BY <2>4, <2>7, <3>1
    <3>2. CASE i # 1
      <4>1. i - 1 \in 1..Len(rest) /\ w[(i - 1) + 1] = rest[i - 1]  BY <2>7, <2>8, <3>2
      <4> QED  BY <2>6, <4>1
    <3> QED  BY <3>1, <3>2
  <2>11. \A i \in 1..(Len(w) - 1) : w[i][2] - w[i + 1][1] + 1 = overlap /\ w[i][2] < w[i + 1][2]
    <3> TAKE i \in 1..(Len(w) - 1)
    <3>1. i \in 1..Len(rest) /\ w[i + 1] = rest[i]  BY <2>7, <2>8
    <3>2. CASE i = 1  BY <2>7, <2>9, <3>1, <3>2
    <3>3. CASE i # 1
      <4>1. i - 1 \in 1..(Len(rest) - 1) /\ w[(i - 1) + 1] = rest[i - 1]  BY <2>7, <2>8, <3>1, <3>3
      <4>2. /\ rest[i - 1][2] - rest[(i - 1) + 1][1] + 1 = overlap
            /\ rest[i - 1][2] < rest[(i - 1) + 1][2]
        BY <2>6, <4>1
      <4> QED  BY <3>1, <4>1, <4>2
    <3> QED  BY <3>2, <3>3
  <2>12. w # <<>> /\ w[Len(w)][2] = n  BY <2>5, <2>7, <2>8
  <2>13. w[1][1] = start + 1 /\ w[1][2] = start + size  BY <2>4, <2>7
  <2> HIDE DEF next
  <2>14. CoverFrom(w, start, n, size, overlap)
    BY <1>3, <2>1, <2>7, <2>10, <2>11, <2>12, <2>13 DEF CoverFrom
  <2> QED  BY <2>14 DEF w
<1> QED  BY <1>1, <1>2, <1>3

(* The recursion of Windows is well-founded: every window starts later.    *)
LEMMA WindowsExist ==
  ASSUME NEW n \in Nat, NEW size \in Nat \ {0}, NEW overlap \in 0..(size - 1)
  PROVE  \E f : /\ f = [start \in 0..n |-> WindowsAt(f, start, n, size, overlap)]
<1> DEFINE Solves(f, a) ==
             /\ f = [s \in a..n |-> f[s]]
             /\ \A s \in a..n : f[s] = WindowsAt(f, s, n, size, overlap)
           T == {k \in Nat : k <= n => \E f : Solves(f, n - k)}
<1>1. 0 \in T
  <2> DEFINE f == [s \in n..n |-> <<>>]
  <2>1. f = [s \in n..n |-> f[s]]  OBVIOUS
  <2>2. \A s \in n..n : f[s] = WindowsAt(f, s, n, size, overlap)  BY DEF WindowsAt
  <2>3. n - 0 = n  OBVIOUS
  <2>4. Solves(f, n - 0)  BY <2>1, <2>2, <2>3
  <2> HIDE DEF Solves, f
  <2> QED  BY <2>4
<1>2. ASSUME NEW k \in Nat, k \in T PROVE k + 1 \in T
  <2> SUFFICES ASSUME k + 1 <= n PROVE \E f : Solves(f, n - (k + 1))
    OBVIOUS
  <2>1. PICK a \in 0..(n - 1) : a = n - (k + 1) /\ a + 1 = n - k  OBVIOUS
  <2>2. PICK f : Solves(f, a + 1)  BY <1>2, <2>1
  <2> DEFINE g == [s \in a..n |-> IF s = a THEN WindowsAt(f, a, n, size, overlap) ELSE f[s]]
  <2>3. ASSUME NEW s \in a..n PROVE WindowsAt(g, s, n, size, overlap) = WindowsAt(f, s, n, size, overlap)
    <3>1. s + size < n => s + size - overlap \in (a + 1)..n  OBVIOUS
    <3>2. s + size < n => g[s + size - overlap] = f[s + size - overlap]  BY <3>1
    <3> HIDE DEF g
    <3> QED  BY <3>2 DEF WindowsAt
  <2>4. ASSUME NEW s \in a..n PROVE g[s] = WindowsAt(g, s, n, size, overlap)
    <3>1. CASE s = a  BY <2>3, <3>1
    <3>2. CASE s # a
      <4>1. s \in (a + 1)..n  BY <3>2
      <4>2. g[s] = f[s]  BY <3>2
      <4>3. f[s] = WindowsAt(f, s, n, size, overlap)  BY <2>2, <4>1
      <4> QED  BY <2>3, <4>2, <4>3
    <3> QED  BY <3>1, <3>2
  <2>5. g = [s \in a..n |-> g[s]]  OBVIOUS
  <2>6. Solves(g, a)  BY <2>4, <2>5
  <2> QED  BY <2>1, <2>6
<1> HIDE DEF T
<1>3. n \in T  BY <1>1, <1>2, SetInduction
<1>4. PICK f : Solves(f, 0)  BY <1>3 DEF T
<1>5. f = [start \in 0..n |-> WindowsAt(f, start, n, size, overlap)]  BY <1>4
<1> QED  BY <1>5

(* Windows covers all tokens. *)
LEMMA WindowsAreCover ==
  ASSUME NEW n \in Nat, NEW size \in Nat \ {0}, NEW overlap \in 0..(size - 1)
  PROVE  CoverFrom(Windows(n, size, overlap), 0, n, size, overlap)
<1> DEFINE from == CHOOSE f : f = [start \in 0..n |-> WindowsAt(f, start, n, size, overlap)]
<1>1. Windows(n, size, overlap) = from[0]  BY DEF Windows, WindowsAt
<1>2. from = [start \in 0..n |-> WindowsAt(from, start, n, size, overlap)]  BY WindowsExist
<1> HIDE DEF from
<1> DEFINE T == {k \in Nat : \A s \in 0..n : s + k >= n => CoverFrom(from[s], s, n, size, overlap)}
<1>3. \A s \in 0..n : from[s] = WindowsAt(from, s, n, size, overlap)  BY <1>2
<1>4. 0 \in T
  <2> SUFFICES ASSUME NEW s \in 0..n, s >= n PROVE CoverFrom(from[s], s, n, size, overlap)
    OBVIOUS
  <2> QED  BY <1>3, CoverStep
<1>5. ASSUME NEW k \in Nat, k \in T PROVE k + 1 \in T
  <2> SUFFICES ASSUME NEW s \in 0..n, s + (k + 1) >= n PROVE CoverFrom(from[s], s, n, size, overlap)
    OBVIOUS
  <2> DEFINE next == s + size - overlap
  <2>1. s + size < n => next \in 0..n /\ next + k >= n  OBVIOUS
  <2>2. s + size < n => CoverFrom(from[next], next, n, size, overlap)  BY <1>5, <2>1
  <2>3. s \in Nat /\ from[s] = WindowsAt(from, s, n, size, overlap)  BY <1>3
  <2> QED  BY <2>2, <2>3, CoverStep
<1> HIDE DEF T
<1>6. n \in T  BY <1>4, <1>5, SetInduction
<1>7. CoverFrom(from[0], 0, n, size, overlap)  BY <1>6 DEF T
<1> QED  BY <1>1, <1>7


(* Folds over the indices of a sequence. *)

-----------------------------------------------------------------------------
(* parse_readme: the loop over the lines. *)

(* The indices of a README. *)
Indices(lines) == [i \in 1..Len(lines) |-> i]

(* A section of a README of n lines, and the state of the loop. *)
SectionOf(n) == [header : 0..n, lines : Seq(1..n)]

ParseState(n) ==
  [sections : Seq(SectionOf(n)), section : 0..n, content : Seq(1..n), hidden : BOOLEAN]

(* The state before the first line. *)
Begin == [sections |-> <<>>, section |-> 0, content |-> <<>>, hidden |-> FALSE]

(* Saving a section keeps to these types. *)
LEMMA SaveType ==
  ASSUME NEW n \in Nat, NEW lines, NEW p \in ParseState(n)
  PROVE  SaveSection(lines, p) \in ParseState(n)
<1>1. [header |-> p.section, lines |-> p.content] \in SectionOf(n)
  BY DEF ParseState, SectionOf
<1>2. p.sections \in Seq(SectionOf(n))  BY DEF ParseState
<1>3. Append(p.sections, [header |-> p.section, lines |-> p.content]) \in Seq(SectionOf(n))
  BY <1>1, <1>2, AppendIs
<1> QED  BY <1>3 DEF SaveSection, ParseState

(* One line keeps to the types of the loop. *)
LEMMA ParseLineType ==
  ASSUME NEW n \in Nat, NEW lines, NEW p \in ParseState(n), NEW i \in 1..n
  PROVE  ParseLine(lines, p, i) \in ParseState(n)
<1>1. CASE lines[i] = "rule"  BY <1>1 DEF ParseLine, ParseState
<1>2. CASE lines[i] # "rule" /\ p.hidden  BY <1>2 DEF ParseLine
<1>3. CASE lines[i] \in {"header", "bare"} /\ ~p.hidden
  <2>1. SaveSection(lines, p) \in ParseState(n)  BY SaveType
  <2>2. <<>> \in Seq(1..n) /\ i \in 0..n  OBVIOUS
  <2>3. ParseLine(lines, p, i) = StartSection(SaveSection(lines, p), i)  BY <1>3 DEF ParseLine
  <2> QED  BY <2>1, <2>2, <2>3 DEF StartSection, ParseState
<1>4. CASE lines[i] = "text" /\ ~p.hidden /\ p.section # 0
  <2>1. p.content \in Seq(1..n)  BY DEF ParseState
  <2>2. Append(p.content, i) \in Seq(1..n)  BY <2>1, AppendIs
  <2>3. ParseLine(lines, p, i) = [p EXCEPT !.content = Append(p.content, i)]  BY <1>4 DEF ParseLine
  <2> QED  BY <2>2, <2>3 DEF ParseState
<1>5. CASE /\ lines[i] # "rule" /\ ~p.hidden /\ lines[i] \notin {"header", "bare"}
           /\ ~(lines[i] = "text" /\ p.section # 0)
  BY <1>5 DEF ParseLine
<1> QED  BY <1>1, <1>2, <1>3, <1>4, <1>5

(* The loop: a state before each line, from the one before it. *)
LEMMA ParsedIs ==
  ASSUME NEW n \in Nat, NEW lines, Len(lines) = n
  PROVE  \E at : /\ at[0] = Begin /\ Parsed(lines) = at[n]
                 /\ \A k \in 0..n : at[k] \in ParseState(n)
                 /\ \A k \in 0..(n - 1) : at[k + 1] = ParseLine(lines, at[k], k + 1)
<1> DEFINE idx == [i \in 1..Len(lines) |-> i]
           Chosen == CHOOSE it : it = [s \in SUBSET (DOMAIN idx) |->
                       IF s = {} THEN Begin ELSE ParseLine(lines, it[s \ {Max(s)}], idx[Max(s)])]
           F == [v \in ParseState(n) \X (1..n) |-> ParseLine(lines, v[1], v[2])]
<1>1. Parsed(lines) = Chosen[DOMAIN idx]
  BY DEF Parsed, FoldLeft, MapThenFoldSet, Begin
<1>2. DOMAIN idx = 1..n /\ \A i \in 1..n : idx[i] = i  OBVIOUS
<1>3. F \in [ParseState(n) \X (1..n) -> ParseState(n)]
  <2>1. \A v \in ParseState(n) \X (1..n) : v[1] \in ParseState(n) /\ v[2] \in 1..n  OBVIOUS
  <2>2. \A v \in ParseState(n) \X (1..n) : ParseLine(lines, v[1], v[2]) \in ParseState(n)
    BY <2>1, ParseLineType
  <2> QED  BY <2>2
<1>4. Begin \in ParseState(n)  BY DEF Begin, ParseState
<1>5. PICK it : FoldOf(it, n, ParseState(n), Begin, F)
  <2> HIDE DEF F
  <2> QED  BY <1>3, <1>4, FoldExists
<1>6. \A s \in SUBSET (1..n) :
        it[s] = IF s = {} THEN Begin ELSE ParseLine(lines, it[s \ {Max(s)}], idx[Max(s)])
  <2> SUFFICES ASSUME NEW s \in SUBSET (1..n), s # {}
               PROVE  it[s] = ParseLine(lines, it[s \ {Max(s)}], idx[Max(s)])
    BY <1>5 DEF FoldOf
  <2>1. Max(s) \in 1..n
    <3>1. s \in SUBSET (0..n)  OBVIOUS
    <3> QED  BY <3>1, MaxOfNumbers
  <2>2. it[s \ {Max(s)}] \in ParseState(n)  BY <1>5 DEF FoldOf
  <2>3. <<it[s \ {Max(s)}], Max(s)>> \in ParseState(n) \X (1..n)  BY <2>1, <2>2
  <2>4. F[<<it[s \ {Max(s)}], Max(s)>>] = ParseLine(lines, it[s \ {Max(s)}], Max(s))  BY <2>3
  <2> QED  BY <1>2, <1>5, <2>1, <2>4 DEF FoldOf
<1>7. it = [s \in SUBSET (DOMAIN idx) |->
              IF s = {} THEN Begin ELSE ParseLine(lines, it[s \ {Max(s)}], idx[Max(s)])]
  <2> HIDE DEF idx
  <2> QED  BY <1>2, <1>5, <1>6 DEF FoldOf
<1>8. Chosen = [s \in SUBSET (DOMAIN idx) |->
                  IF s = {} THEN Begin ELSE ParseLine(lines, Chosen[s \ {Max(s)}], idx[Max(s)])]
  BY <1>7
<1> HIDE DEF Chosen, idx
<1> DEFINE at == [k \in 0..n |-> Chosen[1..k]]
<1>9. \A k \in 0..n : 1..k \in SUBSET (1..n)  OBVIOUS
<1>10. at[0] = Begin
  <2>1. Chosen[1..0] = Begin  BY <1>2, <1>8, <1>9
  <2> QED  BY <2>1
<1>11. ASSUME NEW k \in 0..(n - 1) PROVE at[k + 1] = ParseLine(lines, at[k], k + 1)
  <2>1. Max(1..(k + 1)) = k + 1 /\ (1..(k + 1)) \ {k + 1} = 1..k
    <3>1. k \in Nat  OBVIOUS
    <3> QED  BY <3>1, MaxOfRange
  <2>2. 1..(k + 1) \in SUBSET (DOMAIN idx) /\ 1..(k + 1) # {} /\ idx[k + 1] = k + 1  BY <1>2
  <2>3. Chosen[1..(k + 1)]
          = ParseLine(lines, Chosen[(1..(k + 1)) \ {Max(1..(k + 1))}], idx[Max(1..(k + 1))])
    BY <1>8, <2>2
  <2>4. Chosen[1..(k + 1)] = ParseLine(lines, Chosen[1..k], k + 1)  BY <2>1, <2>2, <2>3
  <2>5. k \in 0..n /\ k + 1 \in 0..n  OBVIOUS
  <2> QED  BY <2>4, <2>5
<1>12. Parsed(lines) = at[n]
  <2>1. Parsed(lines) = Chosen[1..n]  BY <1>1, <1>2
  <2> QED  BY <2>1
<1>13. \A k \in 0..n : at[k] \in ParseState(n)
  <2> HIDE DEF at
  <2> DEFINE T == {k \in Nat : k <= n => at[k] \in ParseState(n)}
  <2>1. 0 \in T  BY <1>4, <1>10
  <2>2. ASSUME NEW k \in Nat, k \in T PROVE k + 1 \in T
    BY <1>11, <2>2, ParseLineType
  <2>3. Nat \subseteq T
    <3> HIDE DEF T
    <3> QED  BY <2>1, <2>2, SetInduction
  <2> QED  BY <2>3
<1> QED  BY <1>10, <1>11, <1>12, <1>13

-----------------------------------------------------------------------------
(* What the lines of a README are: hidden, headers, under which header. *)

(* What the property says of a line, for the lines of any README. *)
Rules(lines, k) == {j \in 1..k : lines[j] = "rule"}

(* A line the code reads: no rule, and not between an odd rule and the next. *)
Seen(lines, i) == Cardinality(Rules(lines, i - 1)) % 2 = 0 /\ lines[i] # "rule"

(* The headers among the first k lines. *)
Heads(lines, k) == {j \in 1..k : Seen(lines, j) /\ lines[j] \in {"header", "bare"}}

(* The header that line k stands under, 0 when none comes before it. *)
Own(lines, k) == Max({0} \union Heads(lines, k))

(* The lines with text under a header, and under a header with a title. *)
Placed(lines, k) == {i \in 1..k : lines[i] = "text" /\ Seen(lines, i) /\ Own(lines, i) # 0}

Titled(lines, k) == {i \in Placed(lines, k) : lines[Own(lines, i)] = "header"}

(* One rule more, or none. *)
LEMMA RulesCount ==
  ASSUME NEW lines, NEW k \in Nat
  PROVE  /\ Cardinality(Rules(lines, 0)) = 0
         /\ Cardinality(Rules(lines, k)) \in Nat
         /\ Cardinality(Rules(lines, k + 1))
              = IF lines[k + 1] = "rule" THEN Cardinality(Rules(lines, k)) + 1
                ELSE Cardinality(Rules(lines, k))
<1>1. Rules(lines, 0) = {}  BY DEF Rules
<1>2. IsFiniteSet(Rules(lines, k))
  <2>1. IsFiniteSet(1..k)  BY FS_Interval
  <2> QED  BY <2>1, FS_Subset DEF Rules
<1>3. Rules(lines, k + 1) = IF lines[k + 1] = "rule" THEN Rules(lines, k) \union {k + 1} ELSE Rules(lines, k)
  <2>1. 1..(k + 1) = (1..k) \union {k + 1}  OBVIOUS
  <2> QED  BY <2>1 DEF Rules
<1>4. k + 1 \notin Rules(lines, k)  BY DEF Rules
<1>5. Cardinality(Rules(lines, 0)) = 0  BY <1>1, FS_EmptySet
<1>6. Cardinality(Rules(lines, k)) \in Nat  BY <1>2, FS_CardinalityType
<1>7. Cardinality(Rules(lines, k) \union {k + 1}) = Cardinality(Rules(lines, k)) + 1
  BY <1>2, <1>4, FS_AddElement
<1> QED  BY <1>3, <1>5, <1>6, <1>7

(* The own header is the latest one, so it only moves forward. *)
LEMMA OwnIs ==
  ASSUME NEW lines, NEW k \in Nat
  PROVE  /\ Own(lines, k) \in {0} \union Heads(lines, k) /\ Own(lines, k) \in 0..k
         /\ \A j \in Heads(lines, k) : j <= Own(lines, k)
         /\ \A i \in 0..k : Own(lines, i) <= Own(lines, k)
<1>1. \A i \in Nat : /\ Own(lines, i) \in {0} \union Heads(lines, i)
                     /\ \A j \in {0} \union Heads(lines, i) : j <= Own(lines, i)
  <2> TAKE i \in Nat
  <2>1. {0} \union Heads(lines, i) \in SUBSET (0..i)  BY DEF Heads
  <2> QED  BY <2>1, MaxOfNumbers DEF Own
<1>2. \A i \in Nat : Heads(lines, i) \subseteq 1..i  BY DEF Heads
<1>3. ASSUME NEW i \in 0..k PROVE Own(lines, i) <= Own(lines, k)
  <2>1. Heads(lines, i) \subseteq Heads(lines, k)  BY DEF Heads
  <2>2. Own(lines, i) \in {0} \union Heads(lines, i)  BY <1>1
  <2>3. Own(lines, i) \in {0} \union Heads(lines, k)  BY <2>1, <2>2
  <2> QED  BY <1>1, <2>3
<1> QED  BY <1>1, <1>2, <1>3

(* A line is its own header or has that of the line before it. *)
LEMMA OwnNext ==
  ASSUME NEW lines, NEW k \in Nat
  PROVE  Own(lines, k + 1)
           = IF Seen(lines, k + 1) /\ lines[k + 1] \in {"header", "bare"} THEN k + 1 ELSE Own(lines, k)
<1>1. CASE Seen(lines, k + 1) /\ lines[k + 1] \in {"header", "bare"}
  <2>1. k + 1 \in Heads(lines, k + 1)  BY <1>1 DEF Heads
  <2>2. k + 1 <= Own(lines, k + 1) /\ Own(lines, k + 1) \in 0..(k + 1)  BY <2>1, OwnIs
  <2> QED  BY <1>1, <2>2
<1>2. CASE ~(Seen(lines, k + 1) /\ lines[k + 1] \in {"header", "bare"})
  <2>1. Heads(lines, k + 1) = Heads(lines, k)
    <3>1. 1..(k + 1) = (1..k) \union {k + 1}  OBVIOUS
    <3> QED  BY <1>2, <3>1 DEF Heads
  <2> QED  BY <1>2, <2>1 DEF Own
<1> QED  BY <1>1, <1>2

-----------------------------------------------------------------------------
(* The invariant of the loop. *)

(* The sections saved so far hold, in order and each line under its own     *)
(* header, the titled lines up to k whose header is before bound.          *)
SavedTo(lines, sections, k, bound) ==
  /\ sections \in Seq(SectionOf(k))
  /\ \A s \in 1..Len(sections) :
       /\ sections[s].lines # <<>> /\ Ascending(sections[s].lines)
       /\ sections[s].header < bound
       /\ \A i \in ToSet(sections[s].lines) : i \in Titled(lines, k) /\ Own(lines, i) = sections[s].header
  /\ \A s, t \in 1..Len(sections) : s < t => sections[s].header < sections[t].header
  /\ \A i \in Titled(lines, k) : Own(lines, i) < bound =>
       \E s \in 1..Len(sections) : i \in ToSet(sections[s].lines)

(* The section in hand holds the lines under its header. *)
InHand(lines, p, k) ==
  /\ p.section = Own(lines, k)
  /\ p.content \in Seq(1..k) /\ Ascending(p.content)
  /\ \A i \in 1..k : i \in ToSet(p.content) <=> i \in Placed(lines, k) /\ Own(lines, i) = p.section

(* Every other rule hides what follows. *)
HiddenBy(lines, p, k) ==
  p.hidden \in BOOLEAN /\ (p.hidden <=> Cardinality(Rules(lines, k)) % 2 = 1)

(* The invariant of the loop, before line k + 1. *)
ParseInv(lines, p, k) ==
  /\ HiddenBy(lines, p, k)
  /\ InHand(lines, p, k)
  /\ SavedTo(lines, p.sections, k, p.section)

(* Saving the section in hand adds the titled lines under its header. *)
LEMMA SaveKeeps ==
  ASSUME NEW lines, NEW k \in Nat, NEW n \in Nat, NEW p \in ParseState(n), p.section \in 0..k,
         InHand(lines, p, k), SavedTo(lines, p.sections, k, p.section)
  PROVE  SavedTo(lines, SaveSection(lines, p).sections, k, p.section + 1)
<1> DEFINE mine == {i \in Titled(lines, k) : Own(lines, i) = p.section}
           old == p.sections
           new == [header |-> p.section, lines |-> p.content]
<1>1. old \in Seq(SectionOf(k)) /\ Len(old) \in Nat  BY DEF SavedTo
<1>2. \A s \in 1..Len(old) : old[s] \in SectionOf(k) /\ old[s].header \in 0..k
  <2>1. \A s \in 1..Len(old) : old[s] \in SectionOf(k)  BY <1>1, ElementOfSeq
  <2> QED  BY <2>1 DEF SectionOf
<1>3. \A i \in Titled(lines, k) : Own(lines, i) \in Nat
  BY OwnIs DEF Titled, Placed
<1>4. CASE p.section # 0 /\ lines[p.section] = "header" /\ p.content # <<>>
  <2>1. new \in SectionOf(k)  BY DEF InHand, SectionOf
  <2>2. SaveSection(lines, p).sections = Append(old, new)
    <3>1. SaveSection(lines, p) = [p EXCEPT !.sections = Append(old, new)]  BY <1>4 DEF SaveSection
    <3> QED  BY <3>1 DEF ParseState
  <2> DEFINE all == Append(old, new)
             m == Len(old)
  <2>3. /\ all \in Seq(SectionOf(k)) /\ Len(all) = m + 1 /\ all[m + 1] = new
        /\ \A s \in 1..m : all[s] = old[s]
    BY <1>1, <2>1, AppendIs
  <2>4. new.header = p.section /\ new.lines = p.content  OBVIOUS
  <2> HIDE DEF all, new, m
  <2>5. m \in Nat  BY <1>1 DEF m
  <2>6. \A s \in 1..(m + 1) : s \in 1..m \/ s = m + 1  BY <2>5
  <2>7. ASSUME NEW s \in 1..(m + 1)
        PROVE  /\ all[s].lines # <<>> /\ Ascending(all[s].lines)
               /\ all[s].header < p.section + 1
               /\ \A i \in ToSet(all[s].lines) : i \in Titled(lines, k) /\ Own(lines, i) = all[s].header
    <3>1. CASE s = m + 1
      <4>1. all[s].lines = p.content /\ all[s].header = p.section  BY <2>3, <2>4, <3>1
      <4>2. ASSUME NEW i \in ToSet(p.content)
            PROVE  i \in Titled(lines, k) /\ Own(lines, i) = p.section
        <5>1. i \in 1..k  BY DEF InHand, ToSet
        <5>2. i \in Placed(lines, k) /\ Own(lines, i) = p.section  BY <5>1 DEF InHand
        <5> QED  BY <1>4, <5>2 DEF Titled
      <4> QED  BY <1>4, <4>1, <4>2 DEF InHand
    <3>2. CASE s \in 1..m
      <4>1. /\ old[s].lines # <<>> /\ Ascending(old[s].lines)
            /\ old[s].header < p.section
            /\ \A i \in ToSet(old[s].lines) : i \in Titled(lines, k) /\ Own(lines, i) = old[s].header
        BY <3>2 DEF SavedTo, m
      <4>2. old[s].header < p.section + 1  BY <1>2, <3>2, <4>1 DEF m
      <4> QED  BY <2>3, <3>2, <4>1, <4>2
    <3> QED  BY <2>6, <3>1, <3>2
  <2>8. ASSUME NEW s \in 1..(m + 1), NEW t \in 1..(m + 1), s < t
        PROVE  all[s].header < all[t].header
    <3>1. s \in 1..m  BY <2>5, <2>8
    <3>2. CASE t = m + 1
      <4>1. old[s].header < p.section  BY <3>1 DEF SavedTo, m
      <4> QED  BY <2>3, <2>4, <3>1, <3>2, <4>1
    <3>3. CASE t \in 1..m
      <4>1. old[s].header < old[t].header  BY <2>8, <3>1, <3>3 DEF SavedTo, m
      <4> QED  BY <2>3, <3>1, <3>3, <4>1
    <3> QED  BY <2>6, <3>2, <3>3
  <2>9. ASSUME NEW i \in Titled(lines, k), Own(lines, i) < p.section + 1
        PROVE  \E s \in 1..(m + 1) : i \in ToSet(all[s].lines)
    <3>1. CASE Own(lines, i) = p.section
      <4>1. i \in Placed(lines, k) /\ i \in 1..k  BY DEF Titled, Placed
      <4>2. i \in ToSet(p.content)  BY <3>1, <4>1 DEF InHand
      <4>3. m + 1 \in 1..(m + 1)  BY <2>5
      <4> QED  BY <2>3, <2>4, <4>2, <4>3
    <3>2. CASE Own(lines, i) # p.section
      <4>1. Own(lines, i) < p.section  BY <1>3, <2>9, <3>2
      <4>2. PICK s \in 1..m : i \in ToSet(old[s].lines)  BY <4>1 DEF SavedTo, m
      <4>3. s \in 1..(m + 1)  BY <2>5
      <4> QED  BY <2>3, <4>2, <4>3
    <3> QED  BY <3>1, <3>2
  <2>10. SavedTo(lines, all, k, p.section + 1)  BY <2>3, <2>7, <2>8, <2>9 DEF SavedTo
  <2> QED  BY <2>2, <2>10 DEF all
<1>5. CASE ~(p.section # 0 /\ lines[p.section] = "header" /\ p.content # <<>>)
  <2>1. SaveSection(lines, p).sections = old  BY <1>5 DEF SaveSection
  <2>2. mine = {}
    <3> SUFFICES ASSUME NEW i \in Titled(lines, k), Own(lines, i) = p.section PROVE FALSE
      OBVIOUS
    <3>1. p.section # 0 /\ lines[p.section] = "header" /\ i \in Placed(lines, k) /\ i \in 1..k
      BY DEF Titled, Placed
    <3>2. i \in ToSet(p.content)  BY <3>1 DEF InHand
    <3>3. p.content # <<>>  BY <3>2 DEF ToSet
    <3> QED  BY <1>5, <3>1, <3>3
  <2>3. \A i \in Titled(lines, k) : Own(lines, i) < p.section + 1 => Own(lines, i) < p.section
    BY <1>3, <2>2
  <2>4. \A s \in 1..Len(old) : old[s].header < p.section => old[s].header < p.section + 1
    BY <1>2
  <2> QED  BY <2>1, <2>3, <2>4 DEF SavedTo
<1> QED  BY <1>4, <1>5

(* One line more changes nothing for the lines before it. *)
LEMMA PlacedNext ==
  ASSUME NEW lines, NEW k \in Nat
  PROVE  /\ Placed(lines, k) \subseteq 1..k /\ Titled(lines, k) \subseteq Placed(lines, k)
         /\ k + 1 \in Placed(lines, k + 1) <=>
              lines[k + 1] = "text" /\ Seen(lines, k + 1) /\ Own(lines, k + 1) # 0
         /\ Placed(lines, k + 1) \ {k + 1} = Placed(lines, k)
         /\ Titled(lines, k + 1) \ {k + 1} = Titled(lines, k)
<1>1. 1..(k + 1) = (1..k) \union {k + 1} /\ k + 1 \notin 1..k  OBVIOUS
<1> QED  BY <1>1 DEF Placed, Titled

(* What is saved stays right when no new titled line belongs to it. *)
LEMMA SectionsWiden ==
  ASSUME NEW lines, NEW k \in Nat, NEW sections, NEW b \in Nat, NEW c \in Nat, b <= c,
         SavedTo(lines, sections, k, b),
         \A i \in Titled(lines, k + 1) : Own(lines, i) < c => i # k + 1 /\ Own(lines, i) < b
  PROVE  SavedTo(lines, sections, k + 1, c)
<1>1. SectionOf(k) \subseteq SectionOf(k + 1)
  <2>1. 0..k \subseteq 0..(k + 1) /\ Seq(1..k) \subseteq Seq(1..(k + 1))
    <3>1. 1..k \subseteq 1..(k + 1)  OBVIOUS
    <3> QED  BY <3>1, SeqMonotonic
  <2> QED  BY <2>1 DEF SectionOf
<1>2. sections \in Seq(SectionOf(k)) /\ sections \in Seq(SectionOf(k + 1))
  BY <1>1, SeqMonotonic DEF SavedTo
<1>3. \A s \in 1..Len(sections) : sections[s].header \in Nat
  <2>1. \A s \in 1..Len(sections) : sections[s] \in SectionOf(k)  BY <1>2, ElementOfSeq
  <2> QED  BY <2>1 DEF SectionOf
<1>4. \A s \in 1..Len(sections) : sections[s].header < b => sections[s].header < c  BY <1>3
<1>5. Titled(lines, k + 1) \ {k + 1} = Titled(lines, k)  BY PlacedNext
<1> QED  BY <1>2, <1>4, <1>5 DEF SavedTo

(* Nothing changes when the line is not one that counts. *)
LEMMA InvSkips ==
  ASSUME NEW lines, NEW n \in Nat, NEW k \in 0..(n - 1), NEW p \in ParseState(n), NEW q \in ParseState(n),
         ParseInv(lines, p, k),
         q.section = p.section, q.content = p.content, q.sections = p.sections,
         HiddenBy(lines, q, k + 1),
         ~(Seen(lines, k + 1) /\ lines[k + 1] \in {"header", "bare"}),
         ~(Seen(lines, k + 1) /\ lines[k + 1] = "text" /\ p.section # 0)
  PROVE  ParseInv(lines, q, k + 1)
<1>1. k \in Nat  OBVIOUS
<1>2. Own(lines, k + 1) = Own(lines, k) /\ p.section = Own(lines, k)
  BY <1>1, OwnNext DEF ParseInv, InHand
<1>3. Placed(lines, k + 1) = Placed(lines, k) /\ k + 1 \notin Placed(lines, k + 1)
  <2>1. k + 1 \notin Placed(lines, k + 1)  BY <1>1, <1>2 DEF Placed
  <2>2. Placed(lines, k + 1) \ {k + 1} = Placed(lines, k)  BY <1>1, PlacedNext
  <2> QED  BY <2>1, <2>2
<1>4. k + 1 \notin Titled(lines, k + 1)  BY <1>3 DEF Titled
<1>5. InHand(lines, q, k + 1)
  <2>1. p.content \in Seq(1..(k + 1))
    <3>1. 1..k \subseteq 1..(k + 1)  OBVIOUS
    <3> QED  BY <3>1, SeqMonotonic DEF ParseInv, InHand
  <2>2. k + 1 \notin ToSet(p.content)
    <3>1. p.content \in Seq(1..k)  BY DEF ParseInv, InHand
    <3>2. \A a \in DOMAIN p.content : p.content[a] \in 1..k  BY <3>1
    <3> QED  BY <3>2 DEF ToSet
  <2>3. \A i \in 1..(k + 1) : i \in 1..k \/ i = k + 1  OBVIOUS
  <2> QED  BY <1>2, <1>3, <2>1, <2>2, <2>3 DEF ParseInv, InHand
<1>6. SavedTo(lines, q.sections, k + 1, q.section)
  <2>1. p.section \in Nat  BY DEF ParseState
  <2>2. SavedTo(lines, p.sections, k, p.section)  BY DEF ParseInv
  <2> QED  BY <1>1, <1>4, <2>1, <2>2, SectionsWiden
<1> QED  BY <1>5, <1>6 DEF ParseInv

(* Each line keeps the invariant of the loop. *)
LEMMA ParseLineKeeps ==
  ASSUME NEW lines, NEW n \in Nat, NEW k \in 0..(n - 1), NEW p \in ParseState(n), ParseInv(lines, p, k)
  PROVE  ParseInv(lines, ParseLine(lines, p, k + 1), k + 1)
<1> DEFINE q == ParseLine(lines, p, k + 1)
           count(i) == Cardinality(Rules(lines, i))
<1>1. k \in Nat /\ k + 1 \in 1..n  OBVIOUS
<1>2. q \in ParseState(n)  BY <1>1, ParseLineType
<1>3. /\ count(k) \in Nat
      /\ count(k + 1) = IF lines[k + 1] = "rule" THEN count(k) + 1 ELSE count(k)
  BY <1>1, RulesCount
<1>4. Seen(lines, k + 1) <=> ~p.hidden /\ lines[k + 1] # "rule"
  <2>1. (k + 1) - 1 = k  OBVIOUS
  <2>2. p.hidden <=> count(k) % 2 = 1  BY DEF ParseInv, HiddenBy
  <2>3. count(k) % 2 = 0 <=> ~(count(k) % 2 = 1)  BY <1>3
  <2> QED  BY <2>1, <2>2, <2>3 DEF Seen
<1>5. CASE lines[k + 1] = "rule"
  <2>1. q = [p EXCEPT !.hidden = ~p.hidden]  BY <1>5 DEF ParseLine
  <2>2. /\ q.section = p.section /\ q.content = p.content /\ q.sections = p.sections
        /\ q.hidden = ~p.hidden
    BY <2>1 DEF ParseState
  <2>3. HiddenBy(lines, q, k + 1)
    <3>1. p.hidden \in BOOLEAN /\ (p.hidden <=> count(k) % 2 = 1)  BY DEF ParseInv, HiddenBy
    <3>2. (count(k) + 1) % 2 = 1 <=> ~(count(k) % 2 = 1)  BY <1>3
    <3>3. q.hidden <=> count(k + 1) % 2 = 1  BY <1>3, <1>5, <2>2, <3>1, <3>2
    <3>4. q.hidden \in BOOLEAN  BY <2>2, <3>1
    <3> HIDE DEF q
    <3> QED  BY <3>3, <3>4 DEF HiddenBy
  <2> HIDE DEF q
  <2>4. ~Seen(lines, k + 1)  BY <1>4, <1>5
  <2>5. ParseInv(lines, q, k + 1)  BY <1>2, <2>2, <2>3, <2>4, InvSkips
  <2> QED  BY <2>5 DEF q
<1>6. CASE lines[k + 1] # "rule" /\ (p.hidden \/ lines[k + 1] \notin {"header", "bare"})
           /\ ~(lines[k + 1] = "text" /\ ~p.hidden /\ p.section # 0)
  <2>1. q = p  BY <1>6 DEF ParseLine
  <2>2. HiddenBy(lines, q, k + 1)
    <3>1. HiddenBy(lines, p, k) /\ count(k + 1) = count(k)  BY <1>3, <1>6 DEF ParseInv
    <3> HIDE DEF q
    <3> QED  BY <2>1, <3>1 DEF HiddenBy
  <2>3. /\ ~(Seen(lines, k + 1) /\ lines[k + 1] \in {"header", "bare"})
        /\ ~(Seen(lines, k + 1) /\ lines[k + 1] = "text" /\ p.section # 0)
    BY <1>4, <1>6
  <2>4. /\ q.section = p.section /\ q.content = p.content /\ q.sections = p.sections
    BY <2>1
  <2> HIDE DEF q
  <2>5. ParseInv(lines, q, k + 1)  BY <1>2, <2>2, <2>3, <2>4, InvSkips
  <2> QED  BY <2>5 DEF q
<1>7. CASE lines[k + 1] \in {"header", "bare"} /\ ~p.hidden
  <2> DEFINE saved == SaveSection(lines, p)
  <2>1. saved \in ParseState(n) /\ saved.hidden = p.hidden
    <3>1. saved \in ParseState(n)  BY SaveType
    <3>2. saved.hidden = p.hidden  BY DEF SaveSection, ParseState
    <3> QED  BY <3>1, <3>2
  <2>2. q = StartSection(saved, k + 1)  BY <1>7 DEF ParseLine
  <2>3. q.section = k + 1 /\ q.content = <<>> /\ q.sections = saved.sections /\ q.hidden = p.hidden
    <3> HIDE DEF saved
    <3> QED  BY <2>1, <2>2 DEF StartSection, ParseState
  <2>4. Own(lines, k + 1) = k + 1  BY <1>1, <1>4, <1>7, OwnNext
  <2>5. k + 1 \notin Placed(lines, k + 1)  BY <1>7 DEF Placed
  <2>6. p.section = Own(lines, k) /\ p.section \in 0..k  BY <1>1, OwnIs DEF ParseInv, InHand
  <2>7. InHand(lines, q, k + 1)
    <3>1. \A i \in 1..(k + 1) : i \in Placed(lines, k + 1) => Own(lines, i) # k + 1
      <4> TAKE i \in 1..(k + 1)
      <4>1. i \in 1..k => Own(lines, i) \in 0..k  BY OwnIs
      <4> QED  BY <2>5, <4>1
    <3>2. ToSet(<<>>) = {} /\ Ascending(<<>>) /\ <<>> \in Seq(1..(k + 1))
      BY DEF ToSet, Ascending
    <3> HIDE DEF q
    <3> QED  BY <2>3, <2>4, <3>1, <3>2 DEF InHand
  <2>8. SavedTo(lines, saved.sections, k, p.section + 1)
    BY <1>1, <2>6, SaveKeeps DEF ParseInv
  <2>9. \A i \in Titled(lines, k + 1) : i # k + 1 /\ Own(lines, i) < p.section + 1
    <3> TAKE i \in Titled(lines, k + 1)
    <3>1. i \in Placed(lines, k + 1) /\ i # k + 1  BY <2>5 DEF Titled
    <3>2. i \in Placed(lines, k) /\ i \in 0..k  BY <1>1, <3>1, PlacedNext
    <3>3. Own(lines, i) <= Own(lines, k) /\ Own(lines, i) \in Nat  BY <1>1, <3>2, OwnIs
    <3> QED  BY <2>6, <3>1, <3>3
  <2>10. SavedTo(lines, saved.sections, k + 1, k + 1)
    <3>1. p.section + 1 \in Nat /\ k + 1 \in Nat /\ p.section + 1 <= k + 1  BY <2>6
    <3> HIDE DEF saved
    <3> QED  BY <1>1, <2>8, <2>9, <3>1, SectionsWiden
  <2>11. HiddenBy(lines, q, k + 1)
    <3>1. HiddenBy(lines, p, k) /\ count(k + 1) = count(k)  BY <1>3, <1>7 DEF ParseInv
    <3> HIDE DEF q
    <3> QED  BY <2>3, <3>1 DEF HiddenBy
  <2> HIDE DEF q, saved
  <2>12. SavedTo(lines, q.sections, k + 1, q.section)  BY <2>3, <2>10
  <2>13. ParseInv(lines, q, k + 1)  BY <2>7, <2>11, <2>12 DEF ParseInv
  <2> QED  BY <2>13 DEF q
<1>8. CASE lines[k + 1] = "text" /\ ~p.hidden /\ p.section # 0
  <2>1. q = [p EXCEPT !.content = Append(p.content, k + 1)]  BY <1>8 DEF ParseLine
  <2>2. /\ q.section = p.section /\ q.content = Append(p.content, k + 1)
        /\ q.sections = p.sections /\ q.hidden = p.hidden
    BY <2>1 DEF ParseState
  <2>3. Own(lines, k + 1) = Own(lines, k) /\ p.section = Own(lines, k)
    BY <1>1, <1>8, OwnNext DEF ParseInv, InHand
  <2>4. k + 1 \in Placed(lines, k + 1)  BY <1>1, <1>4, <1>8, <2>3, PlacedNext
  <2> DEFINE all == Append(p.content, k + 1)
  <2>5. p.content \in Seq(1..k) /\ Ascending(p.content)  BY DEF ParseInv, InHand
  <2>6. /\ all \in Seq(1..(k + 1)) /\ Ascending(all)
        /\ ToSet(all) = ToSet(p.content) \union {k + 1}
    BY <2>5, AppendAscends
  <2>7. InHand(lines, q, k + 1)
    <3>1. ASSUME NEW i \in 1..(k + 1)
          PROVE  i \in ToSet(all) <=> i \in Placed(lines, k + 1) /\ Own(lines, i) = p.section
      <4>1. CASE i = k + 1  BY <2>3, <2>4, <2>6, <4>1
      <4>2. CASE i # k + 1
        <5>1. i \in 1..k  BY <4>2
        <5>2. i \in Placed(lines, k + 1) <=> i \in Placed(lines, k)  BY <1>1, <4>2, PlacedNext
        <5>3. i \in ToSet(p.content) <=> i \in Placed(lines, k) /\ Own(lines, i) = p.section
          BY <5>1 DEF ParseInv, InHand
        <5> QED  BY <2>6, <4>2, <5>2, <5>3
      <4> QED  BY <4>1, <4>2
    <3> HIDE DEF all, q
    <3>2. q.content = all  BY <2>2 DEF all
    <3> QED  BY <2>2, <2>3, <2>6, <3>1, <3>2 DEF InHand
  <2>8. SavedTo(lines, q.sections, k + 1, q.section)
    <3>1. p.section \in Nat  BY DEF ParseState
    <3>2. SavedTo(lines, p.sections, k, p.section)  BY DEF ParseInv
    <3>3. \A i \in Titled(lines, k + 1) : Own(lines, i) < p.section => i # k + 1 /\ Own(lines, i) < p.section
      BY <2>3, <3>1
    <3>4. SavedTo(lines, p.sections, k + 1, p.section)  BY <1>1, <3>1, <3>2, <3>3, SectionsWiden
    <3> QED  BY <2>2, <3>4
  <2>9. HiddenBy(lines, q, k + 1)
    <3>1. HiddenBy(lines, p, k) /\ count(k + 1) = count(k)  BY <1>3, <1>8 DEF ParseInv
    <3> HIDE DEF q
    <3> QED  BY <2>2, <3>1 DEF HiddenBy
  <2> HIDE DEF q
  <2>10. ParseInv(lines, q, k + 1)  BY <2>7, <2>8, <2>9 DEF ParseInv
  <2> QED  BY <2>10 DEF q
<1> QED  BY <1>5, <1>6, <1>7, <1>8

(* At the end of the file. *)
LEMMA ParsedKeeps ==
  ASSUME NEW n \in Nat, NEW lines, Len(lines) = n
  PROVE  Parsed(lines) \in ParseState(n) /\ ParseInv(lines, Parsed(lines), n)
<1>1. PICK at : /\ at[0] = Begin /\ Parsed(lines) = at[n]
                /\ \A k \in 0..n : at[k] \in ParseState(n)
                /\ \A k \in 0..(n - 1) : at[k + 1] = ParseLine(lines, at[k], k + 1)
  BY ParsedIs
<1>2. ParseInv(lines, Begin, 0)
  <2>1. Own(lines, 0) = 0  BY OwnIs
  <2>2. Placed(lines, 0) = {} /\ Titled(lines, 0) = {}  BY DEF Placed, Titled
  <2>3. Cardinality(Rules(lines, 0)) = 0  BY RulesCount
  <2> QED  BY <2>1, <2>2, <2>3 DEF ParseInv, HiddenBy, Begin, InHand, SavedTo, Ascending, ToSet
<1> DEFINE T == {k \in Nat : k <= n => ParseInv(lines, at[k], k)}
<1>3. 0 \in T  BY <1>1, <1>2
<1>4. ASSUME NEW k \in Nat, k \in T PROVE k + 1 \in T
  <2> SUFFICES ASSUME k + 1 <= n PROVE ParseInv(lines, at[k + 1], k + 1)
    OBVIOUS
  <2>1. k \in 0..(n - 1) /\ k \in 0..n  OBVIOUS
  <2>2. at[k] \in ParseState(n) /\ ParseInv(lines, at[k], k)  BY <1>1, <1>4, <2>1
  <2>3. ParseInv(lines, ParseLine(lines, at[k], k + 1), k + 1)  BY <2>1, <2>2, ParseLineKeeps
  <2> QED  BY <1>1, <2>1, <2>3
<1> HIDE DEF T
<1>5. n \in T  BY <1>3, <1>4, SetInduction
<1>6. ParseInv(lines, at[n], n)  BY <1>5 DEF T
<1>7. at[n] \in ParseState(n)  BY <1>1
<1> QED  BY <1>1, <1>6, <1>7

-----------------------------------------------------------------------------
(* What parse_readme returns. *)

(* The fallback has every line with text, in order. *)
LEMMA WholeIs ==
  ASSUME NEW n \in Nat, NEW lines, Len(lines) = n
  PROVE  /\ WholeFile(lines) \in Seq(1..n) /\ Ascending(WholeFile(lines))
         /\ ToSet(WholeFile(lines)) = {i \in 1..n : lines[i] # "blank"}
<1> DEFINE idx == [i \in 1..Len(lines) |-> i]
           add(text, i) == IF lines[i] = "blank" THEN text ELSE Append(text, i)
           Chosen == CHOOSE it : it = [s \in SUBSET (DOMAIN idx) |->
                       IF s = {} THEN <<>> ELSE add(it[s \ {Max(s)}], idx[Max(s)])]
           F == [v \in Seq(1..n) \X (1..n) |-> add(v[1], v[2])]
<1>1. WholeFile(lines) = Chosen[DOMAIN idx]
  BY DEF WholeFile, FoldLeft, MapThenFoldSet
<1>2. DOMAIN idx = 1..n /\ \A i \in 1..n : idx[i] = i  OBVIOUS
<1>3. F \in [Seq(1..n) \X (1..n) -> Seq(1..n)]
  <2>1. \A v \in Seq(1..n) \X (1..n) : v[1] \in Seq(1..n) /\ v[2] \in 1..n  OBVIOUS
  <2>2. \A v \in Seq(1..n) \X (1..n) : add(v[1], v[2]) \in Seq(1..n)  BY <2>1, AppendIs
  <2> QED  BY <2>2
<1>4. <<>> \in Seq(1..n)  OBVIOUS
<1>5. PICK it : FoldOf(it, n, Seq(1..n), <<>>, F)
  <2> HIDE DEF F
  <2> QED  BY <1>3, <1>4, FoldExists
<1>6. \A s \in SUBSET (1..n) :
        it[s] = IF s = {} THEN <<>> ELSE add(it[s \ {Max(s)}], idx[Max(s)])
  <2> SUFFICES ASSUME NEW s \in SUBSET (1..n), s # {}
               PROVE  it[s] = add(it[s \ {Max(s)}], idx[Max(s)])
    BY <1>5 DEF FoldOf
  <2>1. Max(s) \in 1..n
    <3>1. s \in SUBSET (0..n)  OBVIOUS
    <3> QED  BY <3>1, MaxOfNumbers
  <2>2. it[s \ {Max(s)}] \in Seq(1..n)  BY <1>5 DEF FoldOf
  <2>3. <<it[s \ {Max(s)}], Max(s)>> \in Seq(1..n) \X (1..n)  BY <2>1, <2>2
  <2>4. F[<<it[s \ {Max(s)}], Max(s)>>] = add(it[s \ {Max(s)}], Max(s))  BY <2>3
  <2> QED  BY <1>2, <1>5, <2>1, <2>4 DEF FoldOf
<1>7. it = [s \in SUBSET (DOMAIN idx) |->
              IF s = {} THEN <<>> ELSE add(it[s \ {Max(s)}], idx[Max(s)])]
  <2> HIDE DEF idx, add
  <2> QED  BY <1>2, <1>5, <1>6 DEF FoldOf
<1>8. Chosen = [s \in SUBSET (DOMAIN idx) |->
                  IF s = {} THEN <<>> ELSE add(Chosen[s \ {Max(s)}], idx[Max(s)])]
  BY <1>7
<1> HIDE DEF Chosen, idx
<1> DEFINE Kept(k) == {i \in 1..k : lines[i] # "blank"}
           T == {k \in Nat : k <= n => /\ Chosen[1..k] \in Seq(1..k) /\ Ascending(Chosen[1..k])
                                       /\ ToSet(Chosen[1..k]) = Kept(k)}
<1>9. 0 \in T
  <2>1. 1..0 = {} /\ {} \in SUBSET (DOMAIN idx)  OBVIOUS
  <2>2. Chosen[1..0] = <<>>  BY <1>8, <2>1
  <2>3. <<>> \in Seq(1..0) /\ Ascending(<<>>) /\ ToSet(<<>>) = {} /\ Kept(0) = {}
    BY DEF Ascending, ToSet
  <2> QED  BY <2>2, <2>3
<1>10. ASSUME NEW k \in Nat, k \in T PROVE k + 1 \in T
  <2> SUFFICES ASSUME k + 1 <= n
               PROVE  /\ Chosen[1..(k + 1)] \in Seq(1..(k + 1)) /\ Ascending(Chosen[1..(k + 1)])
                      /\ ToSet(Chosen[1..(k + 1)]) = Kept(k + 1)
    OBVIOUS
  <2>1. Max(1..(k + 1)) = k + 1 /\ (1..(k + 1)) \ {k + 1} = 1..k  BY MaxOfRange
  <2>2. 1..(k + 1) \in SUBSET (DOMAIN idx) /\ 1..(k + 1) # {} /\ idx[k + 1] = k + 1  BY <1>2
  <2>3. Chosen[1..(k + 1)]
          = add(Chosen[(1..(k + 1)) \ {Max(1..(k + 1))}], idx[Max(1..(k + 1))])
    <3> HIDE DEF add
    <3> QED  BY <1>8, <2>2
  <2>4. Chosen[1..(k + 1)] = add(Chosen[1..k], k + 1)  BY <2>1, <2>2, <2>3
  <2>5. /\ Chosen[1..k] \in Seq(1..k) /\ Ascending(Chosen[1..k])
        /\ ToSet(Chosen[1..k]) = Kept(k)
    BY <1>10
  <2>6. 1..(k + 1) = (1..k) \union {k + 1}  OBVIOUS
  <2>7. Kept(k + 1) = IF lines[k + 1] = "blank" THEN Kept(k) ELSE Kept(k) \union {k + 1}
    BY <2>6
  <2>8. CASE lines[k + 1] = "blank"
    <3>1. 1..k \subseteq 1..(k + 1)  OBVIOUS
    <3>2. Chosen[1..k] \in Seq(1..(k + 1))  BY <2>5, <3>1, SeqMonotonic
    <3> HIDE DEF Kept
    <3> QED  BY <2>4, <2>5, <2>7, <2>8, <3>2
  <2>9. CASE lines[k + 1] # "blank"
    <3>1. Chosen[1..(k + 1)] = Append(Chosen[1..k], k + 1)  BY <2>4, <2>9
    <3> HIDE DEF Kept
    <3> QED  BY <2>5, <2>7, <2>9, <3>1, AppendAscends
  <2> QED  BY <2>8, <2>9
<1> HIDE DEF T
<1>11. n \in T  BY <1>9, <1>10, SetInduction
<1>12. WholeFile(lines) = Chosen[1..n]  BY <1>1, <1>2
<1> QED  BY <1>11, <1>12 DEF T

(* The line numbers of each section. *)
SectionLines(r) == [s \in 1..Len(r) |-> r[s].lines]

(* In order and each under its own header: the titled lines or, when there *)
(* are none, the whole file.                                               *)
LEMMA ParseReadmeIs ==
  ASSUME NEW n \in Nat, NEW lines, Len(lines) = n
  PROVE  LET r == ParseReadme(lines)
             all == FlattenSeq(SectionLines(r))
         IN  /\ Ascending(all)
             /\ Titled(lines, n) # {} =>
                  /\ ToSet(all) = Titled(lines, n)
                  /\ \A s \in 1..Len(r) : \A i \in ToSet(r[s].lines) : r[s].header = Own(lines, i)
             /\ Titled(lines, n) = {} => ToSet(all) = {i \in 1..n : lines[i] # "blank"}
<1> DEFINE p == Parsed(lines)
           saved == SaveSection(lines, p).sections
           whole == WholeFile(lines)
           blankless == {i \in 1..n : lines[i] # "blank"}
           r == ParseReadme(lines)
           parts == SectionLines(r)
           all == FlattenSeq(parts)
<1>1. p \in ParseState(n) /\ ParseInv(lines, p, n)  BY ParsedKeeps
<1>2. p.section = Own(lines, n) /\ p.section \in 0..n
  BY <1>1, OwnIs DEF ParseInv, InHand
<1>3. SavedTo(lines, saved, n, p.section + 1)
  <2> HIDE DEF p
  <2> QED  BY <1>1, <1>2, SaveKeeps DEF ParseInv
<1>4. whole \in Seq(1..n) /\ Ascending(whole) /\ ToSet(whole) = blankless  BY WholeIs
<1>5. r = IF saved = <<>> /\ whole # <<>> THEN <<[header |-> 0, lines |-> whole]>> ELSE saved
  BY DEF ParseReadme
<1> HIDE DEF p, saved, whole, r, blankless
<1>6. saved \in Seq(SectionOf(n)) /\ Len(saved) \in Nat  BY <1>3, LenProperties DEF SavedTo
<1>7. \A s \in 1..Len(saved) : saved[s].header \in 0..n /\ saved[s].lines \in Seq(1..n)
  <2>1. \A s \in 1..Len(saved) : saved[s] \in SectionOf(n)  BY <1>6, ElementOfSeq
  <2> QED  BY <2>1 DEF SectionOf
<1>8. Titled(lines, n) = Parts(SectionLines(saved), Len(saved))
  <2>1. ASSUME NEW i \in Titled(lines, n) PROVE i \in Parts(SectionLines(saved), Len(saved))
    <3>1. i \in 0..n  BY DEF Titled, Placed
    <3>2. Own(lines, i) <= Own(lines, n) /\ Own(lines, i) \in Nat  BY <3>1, OwnIs
    <3>3. Own(lines, i) < p.section + 1  BY <1>2, <3>2
    <3>4. PICK s \in 1..Len(saved) : i \in ToSet(saved[s].lines)  BY <1>3, <3>3 DEF SavedTo
    <3>5. SectionLines(saved)[s] = saved[s].lines  BY DEF SectionLines
    <3> QED  BY <3>4, <3>5 DEF Parts
  <2>2. ASSUME NEW i \in Parts(SectionLines(saved), Len(saved)) PROVE i \in Titled(lines, n)
    <3>1. PICK s \in 1..Len(saved) : i \in ToSet(SectionLines(saved)[s])  BY DEF Parts
    <3>2. SectionLines(saved)[s] = saved[s].lines  BY DEF SectionLines
    <3> QED  BY <1>3, <3>1, <3>2 DEF SavedTo
  <2> QED  BY <2>1, <2>2
<1>9. InOrder(SectionLines(saved)) /\ SectionLines(saved) \in Seq(Seq(1..n))
      /\ Len(SectionLines(saved)) = Len(saved)
  <2>1. /\ SectionLines(saved) \in Seq(Seq(1..n)) /\ Len(SectionLines(saved)) = Len(saved)
        /\ \A s \in 1..Len(saved) : SectionLines(saved)[s] = saved[s].lines
    BY <1>6, <1>7 DEF SectionLines
  <2>2. ASSUME NEW s \in 1..Len(saved), NEW t \in 1..Len(saved), s < t,
               NEW i \in ToSet(saved[s].lines), NEW j \in ToSet(saved[t].lines)
        PROVE  i < j
    <3>1. /\ Own(lines, i) = saved[s].header /\ Own(lines, j) = saved[t].header
          /\ saved[s].header < saved[t].header /\ i \in Titled(lines, n) /\ j \in Titled(lines, n)
      BY <1>3, <2>2 DEF SavedTo
    <3>2. i \in 1..n /\ j \in 1..n  BY <3>1 DEF Titled, Placed
    <3>3. j <= i => Own(lines, j) <= Own(lines, i)
      <4>1. i \in Nat /\ (j <= i => j \in 0..i)  BY <3>2
      <4> QED  BY <4>1, OwnIs
    <3>4. Own(lines, i) \in Nat /\ Own(lines, j) \in Nat  BY <3>2, OwnIs
    <3> QED  BY <3>1, <3>2, <3>3, <3>4
  <2>3. \A s \in 1..Len(saved) : Ascending(saved[s].lines)  BY <1>3 DEF SavedTo
  <2> QED  BY <2>1, <2>2, <2>3 DEF InOrder
<1>10. CASE saved # <<>>
  <2>1. r = saved  BY <1>5, <1>10
  <2>2. Ascending(all) /\ ToSet(all) = Titled(lines, n)
    BY <1>8, <1>9, <2>1, FlattenIs
  <2>3. \A s \in 1..Len(r) : \A i \in ToSet(r[s].lines) : r[s].header = Own(lines, i)
    BY <1>3, <2>1 DEF SavedTo
  <2>4. Titled(lines, n) # {}
    <3>1. 1 \in 1..Len(saved)  BY <1>6, <1>10
    <3>2. saved[1].lines # <<>> /\ saved[1].lines \in Seq(1..n)  BY <1>3, <1>7, <3>1 DEF SavedTo
    <3>3. saved[1].lines[1] \in ToSet(saved[1].lines)  BY <3>2 DEF ToSet
    <3> QED  BY <1>3, <3>1, <3>3 DEF SavedTo
  <2> QED  BY <2>2, <2>3, <2>4 DEF r
<1>11. CASE saved = <<>> /\ whole # <<>>
  <2> DEFINE one == [header |-> 0, lines |-> whole]
  <2>1. r = <<one>>  BY <1>5, <1>11
  <2>2. parts = <<whole>>  BY <2>1 DEF SectionLines
  <2>3. <<whole>> \in Seq(Seq(1..n)) /\ Len(<<whole>>) = 1 /\ <<whole>>[1] = whole  BY <1>4
  <2>4. InOrder(<<whole>>)  BY <1>4, <2>3 DEF InOrder
  <2>5. Parts(<<whole>>, 1) = blankless
    <3>1. 1..1 = {1}  OBVIOUS
    <3> QED  BY <1>4, <2>3, <3>1 DEF Parts
  <2>6. Ascending(all) /\ ToSet(all) = blankless  BY <2>2, <2>3, <2>4, <2>5, FlattenIs
  <2>7. Titled(lines, n) = {}
    <3>1. Len(saved) = 0  BY <1>11
    <3> QED  BY <1>8, <3>1 DEF Parts
  <2>8. Ascending(all) /\ ToSet(all) = {i \in 1..n : lines[i] # "blank"}  BY <2>6 DEF blankless
  <2> QED  BY <2>7, <2>8 DEF r
<1>12. CASE saved = <<>> /\ whole = <<>>
  <2>1. r = <<>> /\ parts = <<>>  BY <1>5, <1>12 DEF SectionLines
  <2>2. Titled(lines, n) = {}
    <3>1. Len(saved) = 0  BY <1>12
    <3> QED  BY <1>8, <3>1 DEF Parts
  <2>3. blankless = {}  BY <1>4, <1>12 DEF ToSet
  <2>4. <<>> \in Seq(Seq(1..n)) /\ Len(<<>>) = 0 /\ InOrder(<<>>) /\ Parts(<<>>, 0) = {}
    BY DEF InOrder, Parts
  <2>5. Ascending(all) /\ ToSet(all) = {}  BY <2>1, <2>4, FlattenIs
  <2>6. Ascending(all) /\ ToSet(all) = {i \in 1..n : lines[i] # "blank"}
    BY <2>3, <2>5 DEF blankless
  <2> QED  BY <2>2, <2>6 DEF r
<1> QED  BY <1>10, <1>11, <1>12 DEF r


(* The intake as a whole. *)

=============================================================================
