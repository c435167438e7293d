----------------------------- MODULE Algorithms -----------------------------
(***************************************************************************)
(* The pure algorithms of AgentPick called on bounded inputs: a behavior   *)
(* is one call, and its state holds the call and what the code returns.    *)
(* Each property compares a result with what the caller relies on, stated  *)
(* without the algorithm.                                                  *)
(***************************************************************************)
EXTENDS CatalogQueries, ReadmeIntake, EvaluationReports, QueryCli

CONSTANTS
  MaxPoints, PointScores, MetadataTables,        (* inputs of semantic_search *)
  MaxResults,
  Tables, Questions,                             (* inputs of filter_models *)
  MaxLines, MaxTokens, MaxRetries,               (* inputs of the intake *)
  MaxMentions, Golds, MaxK,                      (* inputs of the scoring *)
  Differences, PValues, MaxSamples,              (* inputs of the tests *)
  Replies, BatchRuns, MaxRuns,                   (* inputs of the reports *)
  Chunks, MaxChunks                              (* inputs of the CLI *)

ASSUME InputsAssumption ==
  /\ MaxPoints \in Nat /\ PointScores \subseteq Int /\ MaxResults \in Nat
  /\ \A metadata \in MetadataTables : \A m \in DOMAIN metadata : metadata[m] \in Int
  /\ MaxLines \in Nat /\ MaxTokens \in Nat /\ MaxRetries \in Nat
  /\ \A q \in Questions : q.limit \in Int
  /\ \A table \in Tables : IsFiniteSet(DOMAIN table)
  /\ MaxK \in Nat /\ 1..MaxK \subseteq DOMAIN Discount
  /\ \A gold \in Golds : gold \in Seq(Keys) /\ IsInjective(gold)
  /\ Differences \subseteq Int /\ MaxSamples \in Nat /\ PValues \subseteq Nat
  /\ MaxRuns \in Nat /\ \A runs \in 1..MaxRuns : Share % runs = 0
  /\ BatchRuns["reference"] \subseteq Run /\ BatchRuns["baseline"] \subseteq Run
  /\ MaxChunks \in Nat /\ \A c \in Chunks : c.score \in Int /\ c.downloads \in Int

VARIABLES call, result
vars == <<call, result>>

Init == call = [op |-> "none"] /\ result = <<>>

Ready == call.op = "none"

(* Qdrant returns the chunks it found by falling score. *)
Point == [model : Ids, score : PointScores, text : BOOLEAN]
Retrieved(points) == \A i, j \in 1..Len(points) : i < j => points[i].score >= points[j].score

Search ==
  /\ Ready
  /\ \E n \in 0..MaxPoints : \E points \in [1..n -> Point], metadata \in MetadataTables,
        limit \in 1..MaxResults :
       /\ Retrieved(points)
       /\ call' = [op |-> "search", points |-> points, metadata |-> metadata, limit |-> limit]
       /\ result' = SemanticSearch(points, metadata, limit)

Filter ==
  /\ Ready
  /\ \E q \in Questions, table \in Tables :
       /\ call' = [op |-> "filter", q |-> q, table |-> table]
       /\ result' \in FilterModels(q, table)

Parse ==
  /\ Ready
  /\ \E n \in 0..MaxLines : \E lines \in [1..n -> LineKinds] :
       /\ call' = [op |-> "parse", lines |-> lines]
       /\ result' = ParseReadme(lines)

Chunk ==
  /\ Ready
  /\ \E n \in 0..MaxTokens, size \in 1..MaxTokens : \E overlap \in 0..(size - 1) :
       /\ call' = [op |-> "chunk", n |-> n, size |-> size, overlap |-> overlap]
       /\ result' = Windows(n, size, overlap)

Fetch ==
  /\ Ready
  /\ \E retries \in 1..MaxRetries : \E outcomes \in [1..retries -> BOOLEAN] :
       /\ call' = [op |-> "retry", outcomes |-> outcomes, retries |-> retries]
       /\ result' = Retry(outcomes, retries)

Mention == [kind : {"id", "bare"}, key : Keys]

Score ==
  /\ Ready
  /\ \E n \in 0..MaxMentions : \E text \in [1..n -> Mention], gold \in Golds, k \in 0..MaxK,
        category \in {"ranked", "ambiguous", "unscored"} :
       /\ category # "ranked" => k = MaxK
       /\ call' = [op |-> "score", text |-> text, gold |-> gold, k |-> k, category |-> category]
       /\ result' = ScoreAnswer(category, text, gold, k)

Compare ==
  /\ Ready
  /\ \E n \in 1..MaxSamples : \E diffs \in [1..n -> Differences] :
       /\ call' = [op |-> "signflip", diffs |-> diffs]
       /\ result' = SignFlip(diffs)

Adjust ==
  /\ Ready
  /\ \E n \in 1..MaxSamples : \E p \in [1..n -> PValues] :
       /\ call' = [op |-> "holm", p |-> p]
       /\ result' = Holm(p)

Report ==
  /\ Ready
  /\ \E turns \in 1..2 : \E replies \in [1..turns -> Replies], gold \in Golds, k, newK \in 1..MaxK,
        category \in {"ranked", "ambiguous", "unscored"} :
       LET stored == EvaluateDialogue(category, gold, replies, k) IN
       /\ call' = [op |-> "report", replies |-> replies, gold |-> gold, k |-> newK, category |-> category]
       /\ result' = [stored |-> stored, rescored |-> Rescore(category, gold, stored, newK)]

(* The systems of a run are evaluated in turn: a batch that was stopped     *)
(* has one run of the reference more than of the other system.              *)
Pool ==
  /\ Ready
  /\ \E n \in 1..MaxRuns : \E m \in {n - 1, n} \ {0} :
       \E a \in [1..n -> BatchRuns["reference"]], b \in [1..m -> BatchRuns["baseline"]] :
         /\ call' = [op |-> "pool", a |-> a, b |-> b]
         /\ result' = PooledComparison(a, b)

QueryStore ==
  /\ Ready
  /\ \E n \in 0..MaxChunks : \E chunks \in [1..n -> Chunks], backend \in {"parquet", "qdrant"}, limit \in 1..2 :
       \/ \E threshold \in 1..2 :
            /\ call' = [op |-> "cli_search", chunks |-> chunks, limit |-> limit, threshold |-> threshold]
            /\ result' = SearchSemantic(chunks, limit, threshold)
       \/ /\ call' = [op |-> "cli_tag", backend |-> backend, chunks |-> chunks, limit |-> limit]
          /\ result' = SearchByTag(backend, chunks, limit)
       \/ /\ call' = [op |-> "cli_top", backend |-> backend, chunks |-> chunks, limit |-> limit]
          /\ result' = TopModels(backend, chunks, limit)

Next ==
  \/ Search \/ Filter \/ Parse \/ Chunk \/ Fetch
  \/ Score \/ Compare \/ Adjust \/ Report \/ Pool \/ QueryStore

Spec == Init /\ [][Next]_vars

-----------------------------------------------------------------------------
(* Properties *)

Found == {call.points[i].model : i \in 1..Len(call.points)} \ Artifacts
Best(m) == BestScore(call.points, m)
FamilyBest(m) == Max({Best(o) : o \in {x \in Found : Family[x] = Family[m]}})

(* "One representative per family, preferring the original checkpoint":    *)
(* no family is returned twice, no test artifact at all, an original is    *)
(* returned whenever one was found, and among its kind the one with most   *)
(* downloads; the excerpt beside a model is from a chunk of that model.    *)
OriginalsRepresent ==
  call.op = "search" =>
    \A i \in 1..Len(result) : LET m == result[i].model IN
      /\ m \in Found
      /\ \A j \in 1..Len(result) : Family[result[j].model] = Family[m] => i = j
      /\ \A o \in Found : Family[o] = Family[m] =>
           /\ o \notin Quantized => m \notin Quantized
           /\ (o \in Quantized <=> m \in Quantized) =>
                Downloads(call.metadata, o) <= Downloads(call.metadata, m)
      /\ result[i].excerpt # 0 => call.points[result[i].excerpt].model = m

(* "A family keeps the rank of its best-scoring member, whoever ends up    *)
(* representing it": the families returned are the best ones, in order,    *)
(* and they are the same whether or not PostgreSQL could be asked.         *)
FamiliesKeepTheirRank ==
  call.op = "search" =>
    /\ \A i, j \in 1..Len(result) :
         i < j => FamilyBest(result[i].model) >= FamilyBest(result[j].model)
    /\ \A o \in Found :
         (\A i \in 1..Len(result) : Family[result[i].model] # Family[o]) =>
           /\ Len(result) = call.limit
           /\ \A i \in 1..Len(result) : FamilyBest(result[i].model) >= FamilyBest(o)

(* semantic_search shows families as its docstring and the tool's promise. *)
FamiliesAreRepresented == OriginalsRepresent /\ FamiliesKeepTheirRank

Satisfiable(row) ==
  /\ Where(call.q, row)
  /\ row.params = Unknown \/ SizeFits(call.q, row)

(* tools.py tells the agent that "an empty result with no warnings means   *)
(* no catalog model satisfies the constraints": not even one whose size is *)
(* unknown.                                                                *)
EmptyMeansNone ==
  call.op = "filter" /\ result.models = <<>> /\ result.warnings = {} =>
    \A m \in DOMAIN call.table : ~Satisfiable(call.table[m])

(* total_matches is "how many catalog models satisfy the filters overall", *)
(* whatever limit the agent chose, and the page is full when it can be.    *)
TotalIgnoresLimit ==
  call.op = "filter" =>
    LET fits == {m \in DOMAIN call.table : Where(call.q, call.table[m]) /\ SizeFits(call.q, call.table[m])}
    IN  /\ result.total = Cardinality(fits)
        /\ Len(result.models) = Min({result.total, Max({1, Min({call.q.limit, MaxRows})})})

(* filter_models answers the agent truthfully, empty pages included. *)
FilterKeepsItsPromise == EmptyMeansNone /\ TotalIgnoresLimit

Visible(i) ==
  Cardinality({j \in 1..(i - 1) : call.lines[j] = "rule"}) % 2 = 0 /\ call.lines[i] # "rule"

(* The section line of a line of text, 0 before the first one. *)
Owner(i) == Max({0} \union {j \in 1..i : Visible(j) /\ call.lines[j] \in {"header", "bare"}})

(* Which lines of a README parse_readme keeps.  If some line of text stands *)
(* under a titled header, outside of a pair of ---, then exactly such lines *)
(* are kept, each in its own header's section and in no other, in the order *)
(* of the file: text before the first header, under an untitled header and  *)
(* between two --- is dropped without a warning (parsing.py:50-55, 72).     *)
(* Otherwise the whole file is one section, frontmatter included.           *)
SectionsKeepTheText ==
  call.op = "parse" =>
    LET texts == {i \in 1..Len(call.lines) : call.lines[i] = "text" /\ Visible(i)}
        titled == {i \in texts : Owner(i) # 0 /\ call.lines[Owner(i)] = "header"}
        all == FlattenSeq([s \in 1..Len(result) |-> result[s].lines])
    IN  /\ \A a, b \in 1..Len(all) : a < b => all[a] < all[b]
        /\ titled # {} =>
             /\ ToSet(all) = titled
             /\ \A s \in 1..Len(result) : \A i \in ToSet(result[s].lines) : result[s].header = Owner(i)
        /\ titled = {} => ToSet(all) = {i \in 1..Len(call.lines) : call.lines[i] # "blank"}

(* The windows cover every token, neighbours share exactly the overlap,    *)
(* and every window brings a token the one before it did not have.  This   *)
(* speaks of the windows before the test of parsing.py:120, which drops a  *)
(* window that decodes to blank text.                                      *)
WindowsCover ==
  call.op = "chunk" =>
    LET w == result IN
    /\ w = <<>> <=> call.n = 0
    /\ w # <<>> => w[1][1] = 1 /\ w[Len(w)][2] = call.n
    /\ \A i \in 1..Len(w) : w[i][2] - w[i][1] < call.size
    /\ \A i \in 1..(Len(w) - 1) :
         w[i][2] - w[i + 1][1] + 1 = call.overlap /\ w[i][2] < w[i + 1][2]

(* "Raises: Exception: If all retries fail": a download that never worked  *)
(* is reported, one that worked within its retries is not, and no time is  *)
(* spent sleeping after the last call.                                     *)
RetryReports ==
  call.op = "retry" =>
    /\ result.ends = IF \E i \in 1..call.retries : call.outcomes[i] THEN "value" ELSE "raise"
    /\ Len(result.waits) = result.calls - 1
    /\ \A i \in 1..(result.calls - 1) : ~call.outcomes[i]

(* From the Hub to the chunks: a failed download is reported, the titled   *)
(* text of a README, or else all of it, goes into sections once and in     *)
(* order, and the token windows of a section skip nothing.                 *)
IntakeKeepsTitledText == SectionsKeepTheText /\ WindowsCover /\ RetryReports

FirstMention(key) == Min(Mentions(call.text, call.gold, key))

(* The predictions are the creditable mentions without the umbrellas, in   *)
(* order of first mention.  Which ids are umbrellas does not depend on the *)
(* order in which the loop deletes them, although it counts what is left.  *)
PredictionsFollowTheAnswer ==
  call.op = "score" =>
    LET named == {key \in Keys : Mentions(call.text, call.gold, key) # {}}
        umbrella(key) == key \notin ToSet(call.gold)
                         /\ Cardinality({o \in named : <<o, key>> \in Extends}) >= 2
        p == result.predicted
    IN  /\ ToSet(p) = {key \in named : ~umbrella(key)}
        /\ \A i, j \in 1..Len(p) : i < j => FirstMention(p[i]) < FirstMention(p[j])

(* "A prediction that reproduces the gold order scores 1.0 and swapped     *)
(* positions are penalized", no score exceeds 1, and precision, recall,    *)
(* MRR and nDCG agree on whether the top k hold a gold model at all.       *)
ScoresAgree ==
  call.op = "score" /\ call.category = "ranked" /\ call.k > 0 /\ call.gold # <<>> =>
    LET p == TopK(result.predicted, call.k)
        g == TopK(call.gold, call.k)
    IN  /\ result.ndcg[1] <= result.ndcg[2]
        /\ result.ndcg[1] = result.ndcg[2] <=> Len(p) >= Len(g) /\ SubSeq(p, 1, Len(g)) = g
        /\ result.recall[1] <= result.recall[2]
        /\ result.precision[1] > 0 <=> result.firstHit \in 1..call.k
        /\ result.precision[1] > 0 <=> result.ndcg[1] > 0

(* What is predicted from an answer and how it is scored agree with it. *)
ScoresFollowTheAnswer == PredictionsFollowTheAnswer /\ ScoresAgree

(* Enumerating two halves counts the same assignments as enumerating all   *)
(* 2^n of them, the observed one included.                                 *)
SignFlipIsExact ==
  call.op = "signflip" =>
    LET n == Len(call.diffs)
        extreme == {signs \in [1..n -> {1, -1}] :
                      Abs(SumOver([i \in 1..n |-> signs[i] * call.diffs[i]])) >= Abs(SumOver(call.diffs))}
    IN  result[1] * 2 ^ n = Cardinality(extreme) * result[2]

(* An adjusted p-value is at most alpha exactly when Holm's step-down      *)
(* procedure at level alpha rejects: every hypothesis with a smaller       *)
(* p-value was rejected too.                                               *)
HolmIsStepDown ==
  call.op = "holm" =>
    LET p == call.p
        m == Len(p)
        others(i) == Cardinality({j \in 1..m : p[j] >= p[i]})
    IN  \A alpha \in 1..(Unit - 1), i \in 1..m :
          result[i] <= alpha <=> \A j \in 1..m : p[j] <= p[i] => others(j) * p[j] <= alpha

(* The p-values of pooled.py are the exact ones of the tests it names. *)
TestsAreExact == SignFlipIsExact /\ HolmIsStepDown

(* "Because raw answers are stored, scores can be recomputed": rescoring a  *)
(* stored dialogue at any k gives what evaluating it at that k would have   *)
(* given, failed dialogues and dialogues of several turns included.         *)
RescoreIsEvaluation ==
  call.op = "report" =>
    result.rescored = EvaluateDialogue(call.category, call.gold, call.replies, call.k)

Files(runs) == {ChosenFile(runs[i]) : i \in 1..Len(runs)}
ScoreSum(runs, q) == SumOver([i \in 1..Len(runs) |-> ChosenFile(runs[i]).score[q]])

(* A batch rescored as a whole, or not at all, is compared at its own k:    *)
(* each question's difference is that of the means over all runs of each    *)
(* system, composite and nDCG agree, and no run can be missing when each    *)
(* is left out in turn.  (With some runs rescored at another k it is not.)  *)
PooledBatchIsWhole ==
  call.op = "pool" =>
    LET runs == call.a \o call.b IN (\A f, g \in Files(runs) : f.k = g.k)
        /\ ((\E i \in 1..Len(runs) : runs[i].rescored # <<>>)
              => \A i \in 1..Len(runs) : runs[i].rescored # <<>>) =>
          /\ \A i \in 1..Len(runs) : runs[i].rescored # <<>> => result.k = runs[i].rescored[1].k
          /\ result.ndcg = result.composite
          /\ result.ndcg.ends = "row"
          /\ \A q \in DOMAIN call.a[1].original.score :
               result.ndcg.diffs[q] * Len(call.a) * Len(call.b)
                 = Share * (ScoreSum(call.a, q) * Len(call.b) - ScoreSum(call.b, q) * Len(call.a))

Stored == {call.chunks[i] : i \in 1..Len(call.chunks)}
Scores(m) == {c.score : c \in {d \in Stored : d.model = m}}

(* A search of the CLI lists each model once, by its best chunk, best       *)
(* first; a model above the threshold is left out only for a full list or   *)
(* when chunks of few models used up the chunks asked for.                  *)
CliSearchIsBestFirst ==
  call.op = "cli_search" =>
    LET models == {result[i].model : i \in 1..Len(result)} IN
    /\ \A i, j \in 1..Len(result) : i < j =>
         result[i].model # result[j].model /\ result[i].score >= result[j].score
    /\ \A i \in 1..Len(result) :
         result[i].score = Max(Scores(result[i].model)) /\ result[i].score >= call.threshold
    /\ \A c \in Stored : c.score >= call.threshold /\ c.model \notin models =>
         \/ Len(result) = call.limit
         \/ Quantify(1..Len(call.chunks), LAMBDA i : call.chunks[i].score >= c.score) > call.limit * Overfetch

FirstOf(m) == Min({i \in 1..Len(call.chunks) : call.chunks[i].model = m})

(* While the store fits the one page that is read, the tag and top commands *)
(* list as many models as there are, up to the limit, each once, and no     *)
(* model left out of the top has more downloads than one in it.  The tag    *)
(* command is meant on Qdrant alone: in a Parquet file it finds no tag.     *)
CliListsTheStore ==
  /\ call.op \in {"cli_tag", "cli_top"} /\ Len(call.chunks) <= PageSize
  /\ call.op = "cli_tag" => call.backend = "qdrant"
  =>
    LET models == {result[i].model : i \in 1..Len(result)}
        eligible == {c.model : c \in {d \in Stored : call.op = "cli_tag" => d.tagged}}
    IN  /\ models \subseteq eligible
        /\ Cardinality(models) = Len(result)
        /\ Len(result) = Min({call.limit, Cardinality(eligible)})
        /\ call.op = "cli_top" => \A m \in models, o \in eligible \ models :
             call.chunks[FirstOf(m)].downloads >= call.chunks[FirstOf(o)].downloads

(* The three commands of the CLI list the best of what the store holds. *)
CliListsTheBest == CliSearchIsBestFirst /\ CliListsTheStore
=============================================================================
