-------------------------- MODULE EvaluationScores --------------------------
(***************************************************************************)
(* evaluation: the scoring of an answer (metrics.py, score_answer of       *)
(* run.py) and the tests of pooled.py.                                     *)
(*                                                                         *)
(* An answer is the sequence of the model mentions in it, each the whole   *)
(* id or the bare repository name.  A ratio is a pair; 1 / log2(rank + 1)  *)
(* is Discount, in thousandths; p-values are counted in units of 1 / Unit. *)
(***************************************************************************)
EXTENDS Integers, Sequences, FiniteSets, FiniteSetsExt, SequencesExt

CONSTANTS
  Keys,        (* normalized model ids *)
  Accepted,    (* ids of the catalog, and plausible ones outside it *)
  Extends,     (* pairs <<a, b>> where a starts with b and a hyphen *)
  Discount,    (* by rank *)
  Unit         (* p-value 1 *)

ASSUME ScoresAssumption ==
  /\ Accepted \subseteq Keys
  /\ Extends \subseteq Keys \X Keys
  /\ \A a \in Keys : <<a, a>> \notin Extends
  /\ \A a, b, c \in Keys : <<a, b>> \in Extends /\ <<b, c>> \in Extends => <<a, c>> \in Extends
  /\ Discount \in Seq(Nat \ {0})
  /\ \A i, j \in DOMAIN Discount : i < j => Discount[i] > Discount[j]
  /\ Unit \in Nat \ {0}

(* The sum of a function's values. *)
SumOver(f) == MapThenSumSet(LAMBDA x : f[x], DOMAIN f)

-----------------------------------------------------------------------------
(* extract_predictions *)

Mentioned(text, kind, key) == {i \in 1..Len(text) : text[i] = [kind |-> kind, key |-> key]}

(* Whole ids count when accepted, bare names when they are gold. *)
Mentions(text, gold, key) ==
  (IF key \in Accepted THEN Mentioned(text, "id", key) ELSE {})
  \union (IF key \in ToSet(gold) THEN Mentioned(text, "bare", key) ELSE {})

(* Keys of the dict entries in its order: ids as met, then gold's bare names. *)
Entries(text, gold) ==
  LET ids == FoldLeft(LAMBDA s, t : IF t.kind = "id" /\ t.key \in Accepted /\ t.key \notin ToSet(s)
                                      THEN Append(s, t.key) ELSE s,
                      <<>>, text)
  IN  FoldLeft(LAMBDA s, g : IF Mentioned(text, "bare", g) # {} /\ g \notin ToSet(s)
                               THEN Append(s, g) ELSE s,
               ids, gold)

Members(left, key) == {other \in left : <<other, key>> \in Extends}

DropAnyBase(entries, gold) ==
  {key \in ToSet(entries) : key \in ToSet(gold) \/ Members(ToSet(entries), key) = {}}

(* The loop deletes while it counts: a key sees the entries still there. *)
DropUmbrellas(entries, gold) ==
  FoldLeft(LAMBDA left, key :
             IF key \notin ToSet(gold) /\ Cardinality(Members(left, key)) >= 2
               THEN left \ {key} ELSE left,
           ToSet(entries), entries)

(* Entries are sorted by the place of their first mention. *)
ExtractPredictions(text, gold) ==
  LET left == DropUmbrellas(Entries(text, gold), gold)
  IN  CHOOSE s \in Bijection(1..Cardinality(left), left) :
        \A i, j \in DOMAIN s : i < j => Min(Mentions(text, gold, s[i])) < Min(Mentions(text, gold, s[j]))

-----------------------------------------------------------------------------
(* The metrics of score_answer *)

TopK(seq, k) == SubSeq(seq, 1, Min({k, Len(seq)}))
Hits(predicted, gold, k) == Quantify(DOMAIN TopK(predicted, k), LAMBDA i : predicted[i] \in ToSet(gold))
Precision(predicted, gold, k) == IF k <= 0 THEN <<0, 1>> ELSE <<Hits(predicted, gold, k), k>>
Recall(predicted, gold, k) ==
  IF gold = <<>> THEN <<0, 1>> ELSE <<Hits(predicted, gold, k), Cardinality(ToSet(gold))>>

(* mrr is 1 / FirstHit, or 0 when FirstHit is 0. *)
FirstHit(predicted, gold) == SelectInSeq(predicted, LAMBDA p : p \in ToSet(gold))

GradeFromOne(gold, key) ==
  LET i == SelectInSeq(gold, LAMBDA g : g = key) IN i

(* The first gold model has the highest grade; others have none. *)
Grade(gold, key) ==
  LET i == SelectInSeq(gold, LAMBDA g : g = key) IN IF i = 0 THEN 0 ELSE Len(gold) - i + 1

Gain(seq, gold, k) == SumOver([i \in DOMAIN TopK(seq, k) |-> Grade(gold, seq[i]) * Discount[i]])

(* DCG over ideal DCG; the ideal ranking is gold itself. *)
NDCG(predicted, gold, k) ==
  IF gold = <<>> \/ k <= 0 THEN <<0, 1>>
  ELSE <<Gain(predicted, gold, k), SumOver([i \in DOMAIN TopK(gold, k) |-> (Len(gold) - i + 1) * Discount[i]])>>

ScoreAnswer(category, text, gold, k) ==
  LET predicted == ExtractPredictions(text, gold)
  IN  CASE category = "ranked" ->
             [predicted |-> predicted,
              precision |-> Precision(predicted, gold, k),
              recall |-> Recall(predicted, gold, k),
              firstHit |-> FirstHit(predicted, gold),
              ndcg |-> NDCG(predicted, gold, k)]
        [] category = "ambiguous" ->
             [predicted |-> predicted,
              mentions |-> Recall(predicted, gold, Max({1, Len(predicted)}))[1] > 0]
        [] category = "unscored" -> [predicted |-> predicted]

-----------------------------------------------------------------------------
(* exact_sign_flip_p and holm *)

SignedSums(values) ==
  FoldLeft(LAMBDA sums, v : [i \in 1..Len(sums) |-> sums[i] + v] \o [i \in 1..Len(sums) |-> sums[i] - v],
           <<0>>, values)

Abs(x) == IF x < 0 THEN -x ELSE x

(* Hits of the two binary searches for every sum of the left half.  The    *)
(* code's 1e-12 makes both comparisons inclusive; differences are exact.   *)
HalvesHits(diffs) ==
  LET total == Abs(SumOver(diffs))
      half == Len(diffs) \div 2
      left == SignedSums(SubSeq(diffs, 1, half))
      right == SignedSums(SubSeq(diffs, half + 1, Len(diffs)))
      hits(v) == Quantify(DOMAIN right, LAMBDA i : right[i] >= total - v)
                 + Quantify(DOMAIN right, LAMBDA i : right[i] <= -total - v)
  IN  SumOver([i \in DOMAIN left |-> hits(left[i])])

SignFlipUnguarded(diffs) == <<HalvesHits(diffs), 2 ^ Len(diffs)>>

SignFlip(diffs) ==
  IF SumOver(diffs) = 0 THEN <<1, 1>> ELSE <<HalvesHits(diffs), 2 ^ Len(diffs)>>

(* The order in which holm goes through the p-values, and a place in it. *)
SortedIndices(p) ==
  CHOOSE s \in Bijection(1..Len(p), 1..Len(p)) :
    \A r, t \in 1..Len(p) : r < t => p[s[r]] < p[s[t]] \/ (p[s[r]] = p[s[t]] /\ s[r] < s[t])

RankIn(order, i) == CHOOSE r \in DOMAIN order : order[r] = i

HolmWithoutMax(p) ==
  LET order == SortedIndices(p)
      m == Len(p)
  IN  [i \in 1..m |-> Min({Unit, (m - RankIn(order, i) + 1) * p[i]})]

(* running is the largest of the scaled p-values up to a rank. *)
Holm(p) ==
  LET order == SortedIndices(p)
      m == Len(p)
      running(r) == Max({(m - s + 1) * p[order[s]] : s \in 1..r})
  IN  [i \in 1..m |-> Min({Unit, running(RankIn(order, i))})]
=============================================================================
