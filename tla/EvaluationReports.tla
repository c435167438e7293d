------------------------- MODULE EvaluationReports -------------------------
(***************************************************************************)
(* evaluation: what run.py stores of a dialogue and recomputes from it     *)
(* (run_dialogue, evaluate_system, rescore_report), and how pooled.py      *)
(* averages and pairs the result files of a batch.                         *)
(*                                                                         *)
(* A reply is an answer, as in EvaluationScores, or a failure.  A result   *)
(* file of a batch holds, for each question, a score at the file's k; the  *)
(* other ranking metrics are treated by the code like this one.            *)
(***************************************************************************)
EXTENDS EvaluationScores, TLC

CONSTANTS
  Share,   (* a multiple of every number of runs: means are in 1 / Share *)
  Asked    (* the scored questions of the dataset are 1..Asked *)

ASSUME ReportsAssumption == Share \in Nat \ {0} /\ Asked \in Nat \ {0, 1}

(* A run is the file written at its end, and perhaps its rescored copy. *)
ResultFile == [k : Nat, score : [1..Asked -> Int]]
Run == [original : ResultFile, rescored : {<<>>} \union [1..1 -> ResultFile]]

-----------------------------------------------------------------------------
(* run.py *)

(* A failure of any turn leaves one empty answer for the whole dialogue. *)
Answers(replies) ==
  IF \E i \in 1..Len(replies) : replies[i].failed THEN << <<>> >>
  ELSE [i \in 1..Len(replies) |-> replies[i].text]

EvaluateDialogue(category, gold, replies, k) ==
  LET answers == Answers(replies)
  IN  [answer |-> Last(answers),
       turnAnswers |-> IF Len(replies) > 1 THEN answers ELSE <<>>,
       scores |-> ScoreAnswer(category, Last(answers), gold, k)]

RescoreFirstTurn(category, gold, stored, k) ==
  LET answers == IF stored.turnAnswers # <<>> THEN stored.turnAnswers ELSE <<stored.answer>>
  IN  [stored EXCEPT !.scores = ScoreAnswer(category, Head(answers), gold, k)]

(* turn_answers or [answer]: the stored text is scored as if just given. *)
Rescore(category, gold, stored, k) ==
  LET answers == IF stored.turnAnswers # <<>> THEN stored.turnAnswers ELSE <<stored.answer>>
  IN  [stored EXCEPT !.scores = ScoreAnswer(category, Last(answers), gold, k)]

-----------------------------------------------------------------------------
(* pooled.py *)

KeepsOriginal(run) == run.original

(* find_batches: a _rescored file replaces the original of the same run. *)
ChosenFile(run) == IF run.rescored # <<>> THEN run.rescored[1] ELSE run.original

(* load_runs: the metrics a run has of a question, the composite at k among *)
(* them; a file scored at another k has no nDCG@k, which counts as 0 there. *)
LoadRun(file, k) ==
  [q \in DOMAIN file.score |->
     [metric \in {"composite"} \union (IF file.k = k THEN {"ndcg"} ELSE {}) |->
        IF file.k = k THEN file.score[q] ELSE 0]]

(* pooled_means: over the runs that have the metric. *)
PooledMeans(runs, qids, metric) ==
  LET having(q) == {i \in 1..Len(runs) : metric \in DOMAIN runs[i][q]}
  IN  [q \in {x \in qids : having(x) # {}} |->
         (Share \div Cardinality(having(q))) * SumOver([i \in having(q) |-> runs[i][q][metric]])]

(* qids of main: the questions every run of every system answered. *)
PairedQuestions(runs) ==
  {q \in UNION {DOMAIN runs[i] : i \in 1..Len(runs)} : \A i \in 1..Len(runs) : q \in DOMAIN runs[i]}

LeaveOut(runs, i) == RemoveAt(runs, i)

(* The questions a leave-one-out test needs and does not find: a KeyError. *)
LooGaps(a, b, shared, metric) ==
  UNION {shared \ (DOMAIN PooledMeans(LeaveOut(a, i), shared, metric)
                   \intersect DOMAIN PooledMeans(LeaveOut(b, i), shared, metric)) : i \in 1..Len(a)}

(* compare_pooled, without the bootstrap interval. *)
ComparePooled(a, b, qids, metric) ==
  LET meansA == PooledMeans(a, qids, metric)
      meansB == PooledMeans(b, qids, metric)
      shared == DOMAIN meansA \intersect DOMAIN meansB
      order == CHOOSE s \in Bijection(1..Cardinality(shared), shared) :
                 \A i, j \in 1..Cardinality(shared) : i < j => s[i] < s[j]
      diffs == [i \in 1..Cardinality(shared) |-> meansA[order[i]] - meansB[order[i]]]
      loo == Len(a) >= 3 /\ Len(a) = Len(b)
  IN  IF Cardinality(shared) < 2 THEN [ends |-> "none"]
      ELSE IF loo /\ LooGaps(a, b, shared, metric) # {} THEN [ends |-> "KeyError"]
      ELSE [ends |-> "row", diffs |-> diffs, p |-> SignFlip(diffs),
            wins |-> Quantify(DOMAIN diffs, LAMBDA i : diffs[i] > 0),
            losses |-> Quantify(DOMAIN diffs, LAMBDA i : diffs[i] < 0)]

(* main: every system is loaded at the k of the reference's first file. *)
PooledComparison(batchA, batchB) ==
  LET k == ChosenFile(Head(batchA)).k
      a == [i \in 1..Len(batchA) |-> LoadRun(ChosenFile(batchA[i]), k)]
      b == [i \in 1..Len(batchB) |-> LoadRun(ChosenFile(batchB[i]), k)]
      qids == PairedQuestions(a \o b)
  IN  [k |-> k, ndcg |-> ComparePooled(a, b, qids, "ndcg"),
       composite |-> ComparePooled(a, b, qids, "composite")]
=============================================================================
