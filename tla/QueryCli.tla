------------------------------ MODULE QueryCli ------------------------------
(***************************************************************************)
(* agentpick_data hf_vectorizer/query.py: the commands of the query CLI    *)
(* over a Parquet file or a Qdrant collection.  A stored chunk is its      *)
(* model, its score for the query at hand, the downloads in its payload    *)
(* and whether it carries the tag asked for.  Chunks are in store order.   *)
(***************************************************************************)
EXTENDS Integers, Sequences, FiniteSetsExt, SequencesExt

CONSTANTS
  PageSize,    (* scroll(limit=10000), the only page that is asked for *)
  Overfetch    (* chunks requested per model wanted, 3 in the code *)

ASSUME CliAssumption == PageSize \in Nat \ {0} /\ Overfetch \in Nat \ {0}

Cut(seq, n) == SubSeq(seq, 1, Min({n, Len(seq)}))

(* seen_models: the first of the wanted chunks of each model. *)
FirstOfEach(chunks, wanted) ==
  FoldLeft(LAMBDA found, c :
             IF c \in wanted /\ \A i \in 1..Len(found) : found[i].model # c.model
             THEN Append(found, c) ELSE found,
           <<>>, chunks)

(* seq by falling value; equals keep their order. *)
Falling(seq, value) ==
  LET places == 1..Len(seq)
      order == CHOOSE s \in Bijection(places, places) :
                 \A r, t \in places : r < t =>
                   \/ value[s[r]] > value[s[t]]
                   \/ value[s[r]] = value[s[t]] /\ s[r] < s[t]
  IN  [r \in places |-> seq[order[r]]]

ByScore(chunks) == Falling(chunks, [i \in 1..Len(chunks) |-> chunks[i].score])

(* What a command that lists the store goes through. *)
Listed(backend, chunks) == IF backend = "qdrant" THEN Cut(chunks, PageSize) ELSE chunks

SearchSemanticRepeating(chunks, limit, threshold) ==
  LET nearest == Cut(ByScore(chunks), limit * Overfetch)
      close == {i \in 1..Len(nearest) : nearest[i].score >= threshold}
  IN  [i \in 1..Min({limit, Cardinality(close)}) |-> nearest[i]]

(* search_semantic; the loop breaks at the first score below the threshold. *)
SearchSemantic(chunks, limit, threshold) ==
  LET nearest == Cut(ByScore(chunks), limit * Overfetch)
  IN  Cut(FirstOfEach(nearest, {c \in ToSet(nearest) : c.score >= threshold}), limit)

(* to_pandas gives a list column as numpy arrays, which _safe_get's "list" *)
(* answers with the default: on a Parquet file no chunk has any tag.       *)
HasTag(backend, c) == backend = "qdrant" /\ c.tagged

(* search_by_tag tests the limit after a row, so the first row always counts. *)
SearchByTag(backend, chunks, limit) ==
  LET rows == IF limit = 0 THEN Cut(chunks, 1) ELSE Listed(backend, chunks)
  IN  Cut(FirstOfEach(rows, {c \in ToSet(rows) : HasTag(backend, c)}), Max({1, limit}))

TopModelsAscending(backend, chunks, limit) ==
  LET models == FirstOfEach(Listed(backend, chunks), ToSet(chunks))
  IN  Cut(Falling(models, [i \in 1..Len(models) |-> -models[i].downloads]), limit)

(* get_top_models *)
TopModels(backend, chunks, limit) ==
  LET models == FirstOfEach(Listed(backend, chunks), ToSet(chunks))
  IN  Cut(Falling(models, [i \in 1..Len(models) |-> models[i].downloads]), limit)
=============================================================================
