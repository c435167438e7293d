---------------------------- MODULE MCAlgorithms ----------------------------
(* Instance of Algorithms for TLC. *)
EXTENDS Algorithms

(* Two originals and a quantized re-upload of one checkpoint, another      *)
(* checkpoint, and a test artifact.                                        *)
MCFamily == [original |-> 1, mirror |-> 1, gguf |-> 1, other |-> 2, tiny |-> 3]

(* PostgreSQL unavailable, every row present, and a missing row. *)
MCMetadata ==
  {<<>>, [original |-> 2, mirror |-> 1, gguf |-> 3, other |-> 1],
   [original |-> 1, mirror |-> 2, gguf |-> 0, other |-> 1], [gguf |-> 2, other |-> 1]}

MCRow == [artifact : {FALSE}, other : BOOLEAN, tagged : BOOLEAN, params : {Unknown, 1, 2}]
         \union {[artifact |-> TRUE, other |-> TRUE, tagged |-> TRUE, params |-> 1]}
MCTables == [1..2 -> MCRow] \union
            [1..3 -> {r \in MCRow : r.other /\ r.tagged}]
MCQuestions ==
  [other : BOOLEAN, tag : BOOLEAN, min : {Unknown, 2}, max : {Unknown, 1},
   sort : {"smallest", "largest"}, limit : {0, 2, 4}]

(* A family of four ids under two nested umbrellas, and prose. *)
MCExtends ==
  {<<"qwen-coder", "qwen">>, <<"qwen-coder-7b", "qwen">>, <<"qwen-coder-1b", "qwen">>,
   <<"qwen-coder-7b", "qwen-coder">>, <<"qwen-coder-1b", "qwen-coder">>}
MCGolds ==
  {<<>>, <<"qwen-coder">>, <<"qwen-coder-7b", "qwen-coder-1b">>, <<"qwen-coder-1b", "qwen">>}
MCDifferences == {-2, -1, 0, 1, 3}
MCDiscount == <<1000, 631, 500, 431, 387>>

(* Answers to a turn, and a failed call. *)
Said(text) == [failed |-> FALSE, text |-> text]
MCReplies ==
  {[failed |-> TRUE, text |-> <<>>], Said(<<>>),
   Said(<<[kind |-> "bare", key |-> "qwen-coder-1b"]>>),
   Said(<<[kind |-> "id", key |-> "qwen"], [kind |-> "id", key |-> "qwen-coder"]>>),
   Said(<<[kind |-> "id", key |-> "qwen-coder-1b"], [kind |-> "id", key |-> "qwen-coder-7b"]>>)}

(* Result files of one run over two questions, written at k = 1 and        *)
(* possibly rescored at k = 1 or k = 2, where other answers count.         *)
File(k, first, second) == [k |-> k, score |-> <<first, second>>]
Written(first) == [original |-> File(1, first, 1), rescored |-> <<>>]
Rescored(k, first, second) == [original |-> File(1, 0, 1), rescored |-> <<File(k, first, second)>>]
MCBatchRuns ==
  [reference |-> {Written(0), Written(1), Rescored(1, 1, 1), Rescored(2, 0, 1), Rescored(2, 1, 1)},
   baseline |-> {Written(0), Rescored(1, 1, 0), Rescored(2, 0, 0)}]

(* Three models; b's downloads differ between loads, only c has no tag.    *)
MCChunks ==
  {c \in [model : {"a", "b", "c"}, score : 1..2, downloads : 0..2, tagged : BOOLEAN] :
     /\ c.tagged = (c.model # "c")
     /\ c.downloads \in (CASE c.model = "a" -> {1} [] c.model = "b" -> {0, 2} [] OTHER -> {2})}
=============================================================================
