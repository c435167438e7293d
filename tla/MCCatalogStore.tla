--------------------------- MODULE MCCatalogStore ---------------------------
(* Instances of CatalogStore for TLC: two models; the first file lists      *)
(* model 2 before model 1, the second one, from a fresh data directory,     *)
(* gives an id of model 2 to model 1.                                       *)
EXTENDS CatalogStore, TLC

CONSTANTS upload, upload2, init, init2, enrich, backfill

First == (0 :> 2) @@ (1 :> 1) @@ (2 :> 1)
Second == 0 :> 1

OneFile == {First}
TwoFiles == {First, Second}

(* One terminal per script, and two terminals that run the PostgreSQL jobs. *)
Apart ==
  [j \in Jobs |-> CASE j \in {upload, upload2} -> {"upload"}
                    [] j = init -> {"init"}
                    [] j = init2 -> {"initOnly"}
                    [] j = enrich -> {"enrich"}
                    [] j = backfill -> {"backfill"}]
Together ==
  [j \in Jobs |-> CASE j = init -> {"init", "enrich"}
                    [] j = init2 -> {"initOnly", "backfill"}]
=============================================================================
