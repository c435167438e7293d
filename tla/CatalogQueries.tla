--------------------------- MODULE CatalogQueries ---------------------------
(***************************************************************************)
(* backend/src/catalog.py: what semantic_search and filter_models compute  *)
(* from the answers of Qdrant and PostgreSQL.                              *)
(*                                                                         *)
(* A point is one retrieved chunk: its model, its score and whether it has *)
(* text; Qdrant returns points by falling score.  An excerpt is the number *)
(* of the point it was taken from.  metadata gives the downloads of the    *)
(* models found in PostgreSQL, and is empty when it could not be asked.    *)
(* What _family_key, _is_quantized_reupload and _TEST_ARTIFACT_RE say of   *)
(* an id is given by the constants.                                        *)
(***************************************************************************)
EXTENDS Integers, Sequences, FiniteSets, FiniteSetsExt, SequencesExt

CONSTANTS
  Ids,
  Family,      (* _family_key of each id *)
  Quantized,   (* ids with a format marker *)
  Artifacts,   (* randomly-initialized test artifacts, and points without id *)
  SparseTag,   (* _SPARSE_TAG_THRESHOLD *)
  MaxRows      (* the 25 rows filter_models returns at most *)

ASSUME CatalogAssumption ==
  /\ DOMAIN Family = Ids
  /\ Quantized \subseteq Ids /\ Artifacts \subseteq Ids
  /\ SparseTag \in Nat /\ MaxRows \in Nat \ {0}

-----------------------------------------------------------------------------
(* semantic_search *)

Of(points, m) == {i \in 1..Len(points) : points[i].model = m}
BestScore(points, m) == Max({points[i].score : i \in Of(points, m)})

(* A chunk that scores no lower than the earlier ones of its model replaces *)
(* their excerpt if it has text; 0 stands for no excerpt.                   *)
Excerpt(points, m) ==
  Max({0} \union {i \in Of(points, m) :
         /\ points[i].text
         /\ \A j \in Of(points, m) : j < i => points[j].score <= points[i].score})

(* The points that put a model into agg. *)
Firsts(points) ==
  {i \in 1..Len(points) :
     points[i].model \notin Artifacts /\ \A j \in Of(points, points[i].model) : i <= j}

Ahead(points, i, j) ==
  LET best(k) == BestScore(points, points[k].model)
  IN  best(i) > best(j) \/ (best(i) = best(j) /\ i < j)

(* agg in order of first appearance, sorted (stably) by best score. *)
Ranked(points) ==
  LET places == 1..Cardinality(Firsts(points))
      order == CHOOSE s \in Bijection(places, Firsts(points)) :
                 \A r, t \in places : r < t => Ahead(points, s[r], s[t])
  IN  [r \in places |-> points[order[r]].model]

Downloads(metadata, m) == IF m \in DOMAIN metadata THEN metadata[m] ELSE 0

PreferredByDownloads(metadata, a, b) == Downloads(metadata, a) > Downloads(metadata, b)

(* _preference(a) < _preference(b) *)
Preferred(metadata, a, b) ==
  \/ a \notin Quantized /\ b \in Quantized
  \/ /\ a \in Quantized <=> b \in Quantized
     /\ Downloads(metadata, a) > Downloads(metadata, b)

CollapseByReordering(metadata, ranked) ==
  LET add(reps, m) ==
        LET same == {i \in 1..Len(reps) : Family[reps[i]] = Family[m]}
        IN  IF same = {} THEN Append(reps, m)
            ELSE LET i == Max(same)
                 IN  IF Preferred(metadata, m, reps[i])
                       THEN Append(RemoveAt(reps, i), m) ELSE reps
  IN  FoldLeft(add, <<>>, ranked)

(* The loop over families: a family stays where its first member put it. *)
Collapse(metadata, ranked) ==
  LET add(reps, m) ==
        LET same == {i \in 1..Len(reps) : Family[reps[i]] = Family[m]}
        IN  IF same = {} THEN Append(reps, m)
            ELSE LET i == Max(same)
                 IN  IF Preferred(metadata, m, reps[i]) THEN [reps EXCEPT ![i] = m] ELSE reps
  IN  FoldLeft(add, <<>>, ranked)

SemanticSearch(points, metadata, limit) ==
  LET reps == Collapse(metadata, Ranked(points))
  IN  [i \in 1..Min({limit, Len(reps)}) |->
         [model |-> reps[i], excerpt |-> Excerpt(points, reps[i])]]

-----------------------------------------------------------------------------
(* filter_models.  A row says whether it passes the task and name clauses  *)
(* (other), whether it carries the tag asked for, and its parameter count, *)
(* Unknown for NULL.  A question q says which clauses are present.         *)

Unknown == -1

Where(q, row) ==
  /\ ~row.artifact
  /\ q.other => row.other
  /\ q.tag => row.tagged

SizeAsked(q) == q.min # Unknown \/ q.max # Unknown

(* A comparison with NULL selects nothing. *)
SizeFits(q, row) ==
  /\ q.min # Unknown => row.params # Unknown /\ row.params >= q.min
  /\ q.max # Unknown => row.params # Unknown /\ row.params <= q.max

Matching(q, table) == {m \in DOMAIN table : Where(q, table[m]) /\ SizeFits(q, table[m])}

(* ORDER BY parameter_count ASC or DESC, NULLS LAST *)
Before(q, a, b) ==
  \/ a.params # Unknown /\ b.params = Unknown
  \/ /\ a.params # Unknown /\ b.params # Unknown
     /\ IF q.sort = "smallest" THEN a.params < b.params ELSE a.params > b.params

Limit(q) == Max({1, Min({q.limit, MaxRows})})

(* The sequences of rows LIMIT may keep: the order of equals is open. *)
Pages(q, table) ==
  LET found == Matching(q, table)
      size == Min({Limit(q), Cardinality(found)})
  IN  {s \in [1..size -> found] :
         /\ \A i, j \in 1..size : i < j => s[i] # s[j] /\ ~Before(q, table[s[j]], table[s[i]])
         /\ \A m \in found : (\A i \in 1..size : s[i] # m) =>
              \A i \in 1..size : ~Before(q, table[m], table[s[i]])}

TotalOfPage(q, table, page) == Len(page)

(* COUNT over the filtered set, read from the first row. *)
Total(q, table, page) == IF page = <<>> THEN 0 ELSE Cardinality(Matching(q, table))

UnknownInResult(q, table) ==
  {m \in DOMAIN table : Where(q, table[m]) /\ SizeFits(q, table[m]) /\ table[m].params = Unknown}

(* Models that only their unknown size keeps out. *)
UnknownSize(q, table) == {m \in DOMAIN table : Where(q, table[m]) /\ table[m].params = Unknown}

Warnings(q, table, total) ==
  {w \in {"sparse_tag", "unknown_size", "toy_models"} :
     CASE w = "sparse_tag" -> q.tag /\ total < SparseTag
       [] w = "unknown_size" -> SizeAsked(q) /\ UnknownSize(q, table) # {}
       [] w = "toy_models" -> q.sort = "smallest" /\ ~q.other /\ ~q.tag /\ q.min = Unknown}

(* The results filter_models can return for q. *)
FilterModels(q, table) ==
  {[models |-> page, total |-> Total(q, table, page),
    warnings |-> Warnings(q, table, Total(q, table, page))] : page \in Pages(q, table)}
=============================================================================
