---------------------------- MODULE CatalogStore ----------------------------
(***************************************************************************)
(* The two stores of the catalog, Qdrant's collection and PostgreSQL's     *)
(* table models, and the jobs that fill them from embeddings.parquet and   *)
(* from the Hugging Face Hub (agentpick_data/src): the upload, the         *)
(* initialization with its upsert, the enrichment and the backfill.  Jobs  *)
(* run concurrently, fail or are killed at any point, and are run again.   *)
(*                                                                         *)
(* A model is a number, model_id order is the order of numbers.  A file is *)
(* a function from point ids to models; vectors, texts and metadata play   *)
(* no part in what the jobs do.  PostgreSQL (read committed, a row lock    *)
(* from the first write of a transaction to its end, the deadlock          *)
(* detector), Qdrant and the Hub are external.                             *)
(***************************************************************************)
EXTENDS Naturals, FiniteSets, FiniteSetsExt, Functions

CONSTANTS
  Models,
  Files,       (* what embeddings.parquet may contain over time *)
  NoFile,      (* there is no file *)
  Jobs,
  Scripts,     (* the scripts each job runs, one at a time *)
  Forced,       (* jobs whose enrichment runs with --force *)
  Sized,       (* models whose id contains a size, like 7b *)
  BatchSize    (* points per upsert call *)

Kinds == {"upload", "init", "initOnly", "enrich", "backfill"}
Ids == UNION {DOMAIN f : f \in Files}

ASSUME StoreAssumption ==
  /\ Models \subseteq Nat
  /\ \A f \in Files : IsFiniteSet(DOMAIN f) /\ DOMAIN f \subseteq Nat /\ Range(f) \subseteq Models
  /\ NoFile \notin Files
  /\ Scripts \in [Jobs -> SUBSET Kinds]
  /\ Forced \subseteq Jobs /\ Sized \subseteq Models
  /\ BatchSize \in Nat \ {0}

VARIABLES
  parquet,     (* the file *)
  collection,  (* the Qdrant collection exists *)
  points,      (* its points: point id -> model in the payload *)
  chunks,      (* models.chunk_ids, {} where there is no row *)
  count,       (* models.parameter_count: null, exact or nominal *)
  card,        (* models.model_card is not null *)
  job,         (* what each job is doing *)
  uploaded,    (* history: the file was uploaded since it was published *)
  loaded       (* history: the file was upserted since it was published *)

qdrant == <<collection, points, uploaded>>
table == <<chunks, count, card, loaded>>
vars == <<parquet, qdrant, table, job>>

Rows == {m \in Models : chunks[m] # {}}
IdsOf(f, m) == {i \in DOMAIN f : f[i] = m}

(* script: what the job runs; pc: where it is; source: the file it read; todo: ids or models   *)
(* it has still to handle; noCard, noCount: the models whose field it fills; *)
(* got: what it fetched; txn: its transaction has read or written models;   *)
(* written: the rows this transaction has written and holds locked.         *)
Idle == [script |-> "none", pc |-> "idle", source |-> NoFile, todo |-> {}, noCard |-> {}, noCount |-> {},
         got |-> <<>>, txn |-> FALSE, written |-> {}]

Init ==
  /\ parquet = NoFile
  /\ collection = FALSE /\ points = <<>> /\ uploaded = FALSE
  /\ chunks = [m \in Models |-> {}]
  /\ count = [m \in Models |-> "null"]
  /\ card = [m \in Models |-> FALSE]
  /\ loaded = FALSE
  /\ job = [j \in Jobs |-> Idle]

At(j, pc) == job[j].pc = pc
Become(j, state) == job' = [job EXCEPT ![j] = state]
Goto(j, pc) == Become(j, [job[j] EXCEPT !.pc = pc])

(* The job is started with a script. *)
CanStart(j, script) == At(j, "idle") /\ script \in Scripts[j]

(* A run of the vectorizer, or of a fresh data directory, puts a file there. *)
Publish ==
  /\ \E f \in Files \ {parquet} : parquet' = f
  /\ uploaded' = FALSE /\ loaded' = FALSE
  /\ UNCHANGED <<collection, points, chunks, count, card, job>>

-----------------------------------------------------------------------------
(* load_embeddings_to_qdrant.py *)

UploadStart(j) ==
  /\ CanStart(j, "upload")
  /\ parquet # NoFile
  /\ Become(j, [Idle EXCEPT !.script = "upload", !.pc = "find",
                            !.source = parquet, !.todo = DOMAIN parquet])
  /\ UNCHANGED <<parquet, qdrant, table>>

UploadFindRecreates(j) ==
  /\ At(j, "find")
  /\ Goto(j, "upload")
  /\ collection' = TRUE
  /\ points' = <<>>
  /\ UNCHANGED <<parquet, uploaded, table>>

UploadFind(j) ==
  /\ At(j, "find")
  /\ Goto(j, IF collection THEN "upload" ELSE "create")
  /\ UNCHANGED <<parquet, qdrant, table>>

(* Creating a collection that another upload created meanwhile raises. *)
UploadCreate(j) ==
  /\ At(j, "create")
  /\ IF collection THEN Become(j, Idle) ELSE Goto(j, "upload")
  /\ collection' = TRUE
  /\ UNCHANGED <<parquet, points, uploaded, table>>

UploadBatch(j) ==
  /\ At(j, "upload")
  /\ job[j].todo # {}
  /\ LET left == job[j].todo
         batch == {i \in left : Cardinality({k \in left : k < i}) < BatchSize}
     IN /\ points' = [i \in batch \union DOMAIN points |->
                        IF i \in batch THEN job[j].source[i] ELSE points[i]]
        /\ Become(j, [job[j] EXCEPT !.todo = left \ batch])
  /\ UNCHANGED <<parquet, collection, uploaded, table>>

UploadEnds(j) ==
  /\ At(j, "upload")
  /\ job[j].todo = {}
  /\ Become(j, Idle)
  /\ uploaded' = (uploaded \/ job[j].source = parquet)
  /\ UNCHANGED <<parquet, collection, points, table>>

-----------------------------------------------------------------------------
(* initialize_postgres.py *)

(* wait_for_postgres has a connection. *)
InitStart(j) ==
  /\ \E script \in {"init", "initOnly"} :
       /\ CanStart(j, script)
       /\ Become(j, [Idle EXCEPT !.script = script, !.pc = "schema"])
  /\ UNCHANGED <<parquet, qdrant, table>>

(* ALTER TABLE models waits for every transaction that has read or written  *)
(* the table, and whoever is to begin one queues behind it.                 *)
InitSchema(j) ==
  /\ At(j, "schema")
  /\ \A k \in Jobs \ {j} : ~job[k].txn
  /\ Goto(j, "read")
  /\ UNCHANGED <<parquet, qdrant, table>>

BeginTransaction(j) == job[j].txn \/ \A k \in Jobs \ {j} : ~At(k, "schema")

(* load_parquet and aggregate_by_model: everything is in memory, or there   *)
(* is no file and the script fails.                                         *)
InitRead(j) ==
  /\ At(j, "read")
  /\ Become(j, IF parquet = NoFile THEN Idle
               ELSE [job[j] EXCEPT !.pc = "upsert", !.source = parquet, !.todo = Range(parquet)])
  /\ UNCHANGED <<parquet, qdrant, table>>

(* Whether no other open transaction has written the row. *)
Free(j, m) == \A k \in Jobs \ {j} : m \notin job[k].written

(* Models are upserted in the order of their first row in the file, and     *)
(* updated by the backfill in the order of their ids.                       *)
NextModel(j) ==
  IF At(j, "upsert")
    THEN LET f == job[j].source
         IN f[Min({i \in DOMAIN f : f[i] \in job[j].todo})]
    ELSE Min(job[j].todo)

WriteRow(j) ==
  LET m == NextModel(j)
  IN /\ BeginTransaction(j)
     /\ Free(j, m)
     /\ Become(j, [job[j] EXCEPT !.todo = @ \ {m}, !.written = @ \union {m}, !.txn = TRUE])

InitUpsertCommits(j) ==
  /\ At(j, "upsert")
  /\ job[j].todo # {}
  /\ WriteRow(j)
  /\ chunks' = [chunks EXCEPT ![NextModel(j)] = IdsOf(job[j].source, NextModel(j))]
  /\ UNCHANGED <<parquet, qdrant, count, card, loaded>>

InitUpsert(j) ==
  /\ At(j, "upsert")
  /\ job[j].todo # {}
  /\ WriteRow(j)
  /\ UNCHANGED <<parquet, qdrant, table>>

InitCommitReplaces(j) ==
  /\ At(j, "upsert")
  /\ job[j].todo = {}
  /\ chunks' = [m \in Models |-> IF m \in job[j].written
                                   THEN IdsOf(job[j].source, m) ELSE chunks[m]]
  /\ count' = [m \in Models |-> IF m \in job[j].written THEN "null" ELSE count[m]]
  /\ card' = [m \in Models |-> card[m] /\ m \notin job[j].written]
  /\ loaded' = (loaded \/ job[j].source = parquet)
  /\ Become(j, IF job[j].script = "init"
                 THEN [Idle EXCEPT !.script = "init", !.pc = "select"] ELSE Idle)
  /\ UNCHANGED <<parquet, qdrant>>

(* One commit for all rows; count and card are not among the columns of the *)
(* upsert.                                                                  *)
InitCommit(j) ==
  /\ At(j, "upsert")
  /\ job[j].todo = {}
  /\ chunks' = [m \in Models |-> IF m \in job[j].written
                                   THEN IdsOf(job[j].source, m) ELSE chunks[m]]
  /\ loaded' = (loaded \/ job[j].source = parquet)
  /\ Become(j, IF job[j].script = "init"
                 THEN [Idle EXCEPT !.script = "init", !.pc = "select"] ELSE Idle)
  /\ UNCHANGED <<parquet, qdrant, count, card>>

-----------------------------------------------------------------------------
(* enrich_models *)

SelectAnyModel(j, script) ==
  /\ BeginTransaction(j)
  /\ Become(j, [Idle EXCEPT !.script = script, !.pc = "fetch", !.txn = TRUE, !.noCard = Models,
                            !.noCount = Models, !.todo = Models])
  /\ UNCHANGED <<parquet, qdrant, table>>

(* What is missing is read once, in a transaction that stays open until the *)
(* first row is committed.                                                  *)
SelectMissing(j, script) ==
  /\ BeginTransaction(j)
  /\ LET lacking(filled) == {m \in Rows : j \in Forced \/ ~filled[m]}
         noCard == lacking(card)
         noCount == lacking([m \in Models |-> count[m] # "null"])
     IN Become(j, [Idle EXCEPT !.script = script, !.pc = "fetch", !.txn = TRUE,
                               !.noCard = noCard, !.noCount = noCount,
                               !.todo = noCard \union noCount])
  /\ UNCHANGED <<parquet, qdrant, table>>

EnrichStart(j) == CanStart(j, "enrich") /\ SelectMissing(j, "enrich")

EnrichAfterInit(j) == At(j, "select") /\ SelectMissing(j, "init")

EnrichFetchRetries(j) ==
  /\ At(j, "fetch")
  /\ \E m \in job[j].todo, hasCard \in BOOLEAN, number \in {"null", "exact"} :
       Become(j, [job[j] EXCEPT !.pc = "write",
                                !.todo = IF hasCard THEN @ \ {m} ELSE @,
                                !.got = <<m, hasCard, number>>])
  /\ UNCHANGED <<parquet, qdrant, table>>

(* The Hub answers, or it has nothing, or all retries fail: None. *)
EnrichFetch(j) ==
  /\ At(j, "fetch")
  /\ \E m \in job[j].todo, hasCard \in BOOLEAN, number \in {"null", "exact"} :
       Become(j, [job[j] EXCEPT !.pc = "write", !.todo = @ \ {m},
                                !.got = <<m, hasCard, number>>])
  /\ UNCHANGED <<parquet, qdrant, table>>

(* UPDATE of the fields that were missing, and commit. *)
EnrichWrite(j) ==
  /\ At(j, "write")
  /\ BeginTransaction(j)
  /\ LET m == job[j].got[1] IN
       /\ Free(j, m)
       /\ card' = [card EXCEPT ![m] = IF m \in job[j].noCard THEN job[j].got[2] ELSE @]
       /\ count' = [count EXCEPT ![m] = IF m \in job[j].noCount THEN job[j].got[3] ELSE @]
  /\ Become(j, [job[j] EXCEPT !.pc = "fetch", !.got = <<>>, !.txn = FALSE])
  /\ UNCHANGED <<parquet, qdrant, chunks, loaded>>

EnrichEnds(j) ==
  /\ At(j, "fetch")
  /\ job[j].todo = {}
  /\ Become(j, Idle)
  /\ UNCHANGED <<parquet, qdrant, table>>

-----------------------------------------------------------------------------
(* backfill_param_counts.py *)

BackfillSelect(j) ==
  /\ CanStart(j, "backfill")
  /\ BeginTransaction(j)
  /\ Become(j, [Idle EXCEPT !.script = "backfill", !.pc = "update", !.txn = TRUE,
                            !.todo = {m \in Rows \intersect Sized : count[m] = "null"}])
  /\ UNCHANGED <<parquet, qdrant, table>>

BackfillUpdate(j) ==
  /\ At(j, "update")
  /\ job[j].todo # {}
  /\ WriteRow(j)
  /\ UNCHANGED <<parquet, qdrant, table>>

BackfillCommit(j) ==
  /\ At(j, "update")
  /\ job[j].todo = {}
  /\ count' = [m \in Models |-> IF m \in job[j].written THEN "nominal" ELSE count[m]]
  /\ Become(j, Idle)
  /\ UNCHANGED <<parquet, qdrant, chunks, card, loaded>>

-----------------------------------------------------------------------------
(* A script raises or is killed: its transaction is rolled back, what it    *)
(* sent to Qdrant or committed stays.                                       *)
Fail(j) ==
  /\ ~At(j, "idle")
  /\ Become(j, Idle)
  /\ UNCHANGED <<parquet, qdrant, table>>

(* The job is in a statement that waits for the row another job has written. *)
Waits(j) ==
  /\ At(j, "upsert") \/ At(j, "update")
  /\ job[j].todo # {}
  /\ ~Free(j, NextModel(j))

Blocker(j) == CHOOSE k \in Jobs \ {j} : NextModel(j) \in job[k].written

(* PostgreSQL aborts one transaction of a cycle; its script fails. *)
DeadlockVictim(j) ==
  /\ \E cycle \in SUBSET Jobs :
       /\ j \in cycle
       /\ \A k \in cycle : Waits(k)
       /\ {Blocker(k) : k \in cycle} = cycle
  /\ Become(j, Idle)
  /\ UNCHANGED <<parquet, qdrant, table>>

-----------------------------------------------------------------------------
Start(j) ==
  UploadStart(j) \/ InitStart(j) \/ EnrichStart(j) \/ BackfillSelect(j)

Proceed(j) ==
  \/ UploadFind(j) \/ UploadCreate(j) \/ UploadBatch(j) \/ UploadEnds(j)
  \/ InitSchema(j) \/ InitRead(j) \/ InitUpsert(j) \/ InitCommit(j)
  \/ EnrichAfterInit(j) \/ EnrichFetch(j) \/ EnrichWrite(j) \/ EnrichEnds(j)
  \/ BackfillUpdate(j) \/ BackfillCommit(j)
  \/ DeadlockVictim(j)

Next == Publish \/ \E j \in Jobs : Start(j) \/ Proceed(j) \/ Fail(j)

Spec == Init /\ [][Next]_vars

(* Scripts run on; PostgreSQL serves the waiters for a lock in turn, so who  *)
(* waits while others come and go is served in the end, and its deadlock    *)
(* detector finds every cycle.  Nobody has to run a script.                 *)
FairSpec == Spec /\ \A j \in Jobs : SF_vars(Proceed(j))

-----------------------------------------------------------------------------
Places == {"idle", "find", "create", "upload", "schema", "read", "upsert",
           "select", "fetch", "write", "update"}
Number == {"null", "exact", "nominal"}
JobType == [script : Kinds \union {"none"}, pc : Places, source : Files \union {NoFile},
            todo : SUBSET Nat, noCard : SUBSET Models, noCount : SUBSET Models,
            got : {<<>>} \union (Models \X BOOLEAN \X {"null", "exact"}),
            txn : BOOLEAN, written : SUBSET Models]

(* Every variable has its type. *)
TypeOK ==
  /\ parquet \in Files \union {NoFile}
  /\ collection \in BOOLEAN /\ uploaded \in BOOLEAN /\ loaded \in BOOLEAN
  /\ DOMAIN points \subseteq Ids /\ Range(points) \subseteq Models
  /\ chunks \in [Models -> SUBSET Ids]
  /\ count \in [Models -> Number]
  /\ card \in [Models -> BOOLEAN]
  /\ job \in [Jobs -> JobType]

(* A load is visible as a whole or not at all, whenever it fails: the rows  *)
(* of the table are those of some whole files, each with all the chunks it  *)
(* has in one of them (initialize_postgres.py:233-240).                     *)
LoadsAreWhole ==
  \E loads \in SUBSET Files :
    /\ Rows = UNION {Range(f) : f \in loads}
    /\ \A m \in Rows : \E f \in loads : chunks[m] = IdsOf(f, m)

(* init_postgres.sql:18-19: chunk_ids is the "stable mapping to semantic    *)
(* chunks in Qdrant", "all chunk IDs (Qdrant point IDs) belonging to this   *)
(* model": once the file has been loaded into both stores they agree, also  *)
(* while loaders run again, overlap or fail.                                *)
StoresAgree ==
  uploaded /\ loaded =>
    \A m \in Models : chunks[m] = {i \in DOMAIN points : points[i] = m}

(* What enrichment or backfill has stored survives every re-run of the      *)
(* loaders and of the enrichment (initialize_postgres.py:205-214,           *)
(* enrich_models.py:149-150).                                               *)
StoredStays ==
  [][\A m \in Models : /\ card[m] => card'[m]
                       /\ count[m] # "null" => count'[m] = count[m]]_vars

(* Every job that runs comes to its end: whatever order rows are locked in, *)
(* nobody waits for ever.                                                   *)
EveryJobEnds == \A j \in Jobs : ~At(j, "idle") ~> At(j, "idle")

-----------------------------------------------------------------------------
(* The inductive invariant behind them (CatalogStoreProofs). *)

(* What a job has in hand belongs to what it read: ids and models of its    *)
(* file, rows of the table.                                                 *)
JobAt(j) ==
  LET J == job[j]
  IN /\ J.pc \in {"find", "create", "upload", "upsert"} => J.source \in Files
     /\ J.pc \in {"find", "create", "upload"} => J.todo \subseteq DOMAIN J.source
     /\ J.pc = "upload" => collection
     /\ J.pc \in {"schema", "read"} => J.written = {}
     /\ J.pc = "upsert" => J.todo \union J.written = Range(J.source)
     /\ J.pc \in {"fetch", "write"} => J.todo \union J.noCard \union J.noCount \subseteq Rows
     /\ J.pc = "write" => J.got # <<>> /\ J.got[1] \in Rows
     /\ J.pc = "update" => J.todo \union J.written \subseteq Rows

JobInv == \A j \in Jobs : JobAt(j)

(* Only a collection that exists has points, and only rows of the table     *)
(* have been enriched or backfilled.                                        *)
FilledInv ==
  /\ points # <<>> => collection
  /\ \A m \in Models \ Rows : count[m] = "null" /\ ~card[m]

IInv == TypeOK /\ JobInv /\ FilledInv /\ LoadsAreWhole

(* embeddings.parquet is published once. *)
FileStays == \A f, g \in Files : f = g

(* What each store has of that file. *)
CopyInv ==
  /\ uploaded => parquet # NoFile
  /\ \A f \in Files :
       /\ \A i \in DOMAIN points : i \in DOMAIN f /\ points[i] = f[i]
       /\ uploaded => DOMAIN f \subseteq DOMAIN points
       /\ \A j \in Jobs : job[j].pc \in {"find", "create", "upload"} =>
            DOMAIN f \ job[j].todo \subseteq DOMAIN points
       /\ loaded => \A m \in Models : chunks[m] = IdsOf(f, m)

(* The scripts that fill count and card run in one terminal, without        *)
(* --force.                                                                 *)
Fillers == {"init", "enrich", "backfill"}
OneTerminal ==
  /\ Forced = {}
  /\ \A j, k \in Jobs :
       Scripts[j] \intersect Fillers # {} /\ Scripts[k] \intersect Fillers # {} => j = k

(* Then what a job has still to fill is still missing. *)
MissingAt(j) ==
  LET J == job[j]
      left == J.todo \union (IF J.pc = "write" THEN {J.got[1]} ELSE {})
  IN /\ J.pc # "idle" => J.script \in Scripts[j]
     /\ J.pc \in {"schema", "read", "upsert"} => J.script \in {"init", "initOnly"}
     /\ J.pc = "select" => J.script = "init"
     /\ J.pc \in {"fetch", "write", "update"} => J.script \in Fillers
     /\ J.pc \in {"fetch", "write"} =>
          \A m \in left : (m \in J.noCard => ~card[m]) /\ (m \in J.noCount => count[m] = "null")
     /\ J.pc = "write" => J.got # <<>> /\ J.got[1] \notin J.todo
     /\ J.pc = "update" => \A m \in J.todo \union J.written : count[m] = "null"

MissingInv == \A j \in Jobs : MissingAt(j)

-----------------------------------------------------------------------------
(* What the repository says of the jobs, and the code does not do.          *)

(* backfill_param_counts.py:9-10: "Only NULL rows are touched -- exact      *)
(* safetensors counts are never overwritten."                               *)
ExactCountsKept ==
  [][\A m \in Models : count[m] = "exact" => count'[m] # "nominal"]_vars
=============================================================================
