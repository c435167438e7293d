---------------------------- MODULE MCVectorizer ----------------------------
(* Instances of Vectorizer for TLC: three models with one, two and one      *)
(* chunks, one text per embedding batch.                                    *)
EXTENDS Vectorizer, TLC

CONSTANTS m1, m2, m3

MCOrder == <<m1, m2, m3>>
MCChunks == (m1 :> 1) @@ (m2 :> 2) @@ (m3 :> 1)
=============================================================================
