# AgentPick: TLA+ models, checks and proofs

AgentPick answers "which Hugging Face model should I use?" in a chat. A FastAPI
backend runs an LLM agent whose tools search a catalog held in PostgreSQL (metadata)
and Qdrant (vectors of README chunks); a set of scripts builds that catalog; an
evaluation harness scores the agent against baselines. This directory models the
parts of it whose correctness depends on interleavings, failures and re-runs,
checks them with TLC and proves the central results with TLAPS. The algorithms whose
results others rely on are checked against declarative statements of those results.

Paths below are relative to the repository root; line numbers are those of the
modelled commit. `PROJECT.json` lists every run, the code each definition stands
for, the hazards, the findings and the theorems.

## 1. Inventory

### Backend (`backend/`)

| Component | State | Operations | What is hard | What makes it correct |
|---|---|---|---|---|
| Connection pool (`src/catalog.py` 36-92) | `_pool`, `_pool_lock`; psycopg2's lists of idle and used connections; per thread the connection in hand | `_get_pool`, `_select`, `warm` | tool calls run in parallel threads; the warm-up races with the first request; PostgreSQL restarts unnoticed; `putconn` may raise in `finally` | one pool; a connection has one user; never more sessions than configured; no working session lost; every call ends |
| Chat request (`app/routes/chat.py`, `app/services/openai_io.py`, `src/agent.py`, `src/tools.py`) | per request: place in the handler, agent-loop turn, running tools, frames sent; process-wide client and agents | receive, stream frames, run the agent loop, run tools, fail, be cancelled | many requests on one loop, parallel tool tasks in threads, client disconnects, generators finalized late | an answer that looks complete is complete; every request ends |
| Activity log (`src/core/agent_activity_log.py`) | context variable, counters of `RequestContext`, the log file | attach/detach, `next_tool`, `next_llm_loop_turn`, `log_*` | lines are attributed through a context variable across tasks | START ... END per request, own id on every line, numbers unique, a successful trace is complete |
| Catalog queries (`src/catalog.py` 176-430) | none (reads) | `semantic_search`, `filter_models`, `get_model_details` | ranking with family collapse, totals and warnings | one representative per family, totals before LIMIT |
| Lazy resources (`src/core/llm.py`, `src/catalog.py` 140-173, `app/main.py`) | embedding model, LRU cache, pool, Qdrant client; the warm-up task; the executor's queue | first use, warm-up, shutdown | unlocked and double-checked lazy loads, any of which may fail while others wait; a warm-up cancelled half-way | the locked resources are opened once, the model at most once per thread; a warm-up that reports success warmed everything; every call ends |
| HTTP shell (`app/main.py`, `health.py`, `models.py`, `schemas/`) | none | constant answers | - | - |

### Data pipeline (`agentpick_data/`)

| Component | State | Operations | What is hard | What makes it correct |
|---|---|---|---|---|
| Vectorizer (`src/hf_vectorizer/vectorizer.py`, `storage.py`, `hf_client.py`, `embeddings.py`, `parsing.py`) | `embeddings.parquet`, `processed_models.txt`; in memory the counter, the buffer, the open writer and its schema | run, process a model, flush, mark, close | runs last hours on a cluster with a time limit: killed, interrupted, resumed; each step of a model can fail | ids unique and stable; a marked model is in the file; an interrupted run resumes |
| Loaders (`load_embeddings_to_qdrant.py`, `initialize_postgres.py`, `enrich_models.py`, `backfill_param_counts.py`, `init_postgres.sql`) | Qdrant collection, table `models` | upload, schema + upsert, enrichment, backfill | two stores with no common transaction, long read-fetch-update loops, re-runs, overlapping scripts, lock order | loads are atomic; the stores agree; exact counts and cards are kept; every script ends |
| Query CLI (`hf_vectorizer/query.py`) | none (reads) | search, tag, top, details, export | over-fetched chunks, one page of 10000 points | lists are full, distinct and in order |

### Evaluation (`evaluation/`)

| Component | State | Operations | Correct when |
|---|---|---|---|
| Metrics and statistics (`metrics.py`, `pooled.py`, `compare.py`, `report.py`) | none | extraction of predictions, precision, recall, MRR, nDCG, Holm, sign-flip test, pooling of a batch, bootstrap | the scores agree with each other and with their definitions; a batch is compared over all its runs |
| Drivers and baselines (`run.py`, `systems.py`, `dataset.py`) | report files, dialogue context | run dialogues, rescore | rescoring gives what evaluating would have given |
| Reporting (`thesis_stats.py`, `catalog_stats.py`) | none | queries, text | - |

`UI/` is a vendored copy of Open WebUI: an OpenAI-format HTTP client of the backend,
about 99% of the files of the repository, and not modelled.

### How they interact

* Open WebUI -> route -> agent loop -> tools: one asyncio task per request, one task
  per tool call; a tool body runs in a worker thread (`asyncio.to_thread`), where
  `_select` takes a connection from the pool. The contract between `AgentService`
  and `ConnectionPool` is that a tool body returns or raises: `CallsReturn` is what
  the pool gives, `FinishTool` what the service uses.
* Vectorizer -> `embeddings.parquet` -> loaders: a file. `CatalogStore` takes the
  contents of files as given (a function from ids to models, which is
  `Vectorizer`'s `IdsUnique`); what a resumed run does to the file is in `Vectorizer`.
* Loaders -> PostgreSQL and Qdrant -> backend: tables. The backend only reads.
* Request scope -> log: a context variable, copied into every task created inside.

## 2. Modules

| Module | Models | Definitions and the code |
|---|---|---|
| `ConnectionPool` | `_get_pool`, `_select`, `warm` | One action per step between which another thread may run: `CheckPool`, `RecheckPool` (the double-checked lock), `OpenConnection`/`PublishPool`/`BuildFails` (the constructor of the pool), `GetIdle`/`GetReplacement`/`GetExhausted`/... (`getconn`), `QuerySucceeds`/`StatementFails`/`SessionLost` (execute and fetchall), `PutBack`/`PutBackFails` (`putconn` in `finally`). `ServerStops` and `ServerStarts` may happen at any moment. psycopg2 is external: each of its pool operations holds the pool's own mutex and is one step. |
| `AgentService` | one chat request, any number of them on one event loop | A step is the code between two awaits or yields. `Start` enters `request_scope`; `CallReturns`/`CallFails` are the logging middleware; `RequestTools`, `StartTool`, `FinishTool`, `NextTurn` the loop with `_run_tool`; `SendRole` ... `SendDone` the generators of `openai_io`; `Disconnect`, `CancelRun`, `CancelSend`, `Finalize` what happens when the client goes. |
| `RequestLifecycle` | what the service promises of a request | `scope` (unopened, open, ok, error) and `answer` (none, partial, complete, refused). |
| `Vectorizer` | the pipeline over any number of runs | `StartRun`/`StartFails` (`__init__` and the resume part of `run`), `SkipModel`, `EmbedModel`, `FlushModel`(`Fails`), `MarkModel`(`Fails`) (`process_model`), `Write`/`WriteFails` (`ParquetWriter.flush`), `Finish`... (`run`'s end), `CloseFails` (`ParquetWriter.close` raises), `Exit` (the interpreter destroys the writer), `Interrupt`, `InterruptFlush`, `Kill`, `RemoveProcessed`, `RemoveData` (the two `rm` commands of the README). |
| `CatalogStore` | the loaders as concurrent jobs | `Upload*` (`load_parquet_to_qdrant`), `Init*` (`initialize_postgres.main`), `Enrich*` (`enrich_models`), `Backfill*` (`backfill`), `Fail` (exception or kill, with rollback), `DeadlockVictim` (PostgreSQL). |
| `LazyResources` | first uses, the warm-up and the shutdown | Calls run in a bounded number of executor threads (`Start`), each with a list of needs (`Job`). `Check`/`Recheck` are the unlocked and the locked test of each resource, `Open`/`OpenFails` its construction, `Use` encode, query or select, `CachedEmbedding` the `lru_cache`; `WarmClient`, `WarmPasses`, `WarmFails` the task of `lifespan`, `Shutdown` and `Stop` what follows its `yield`. |
| `OnceResource` | what a double-checked lock promises of its resource | `Begin`, `Publish`, `Abandon`. Implemented by the pool in `ConnectionPool` and by the pool and the Qdrant client in `LazyResources`. |
| `CatalogQueries` | `semantic_search` and `filter_models` | operators over a set of chunks and a table; `Collapse` is the loop over families, `Pages`/`Total`/`Warnings` what `filter_models` returns. |
| `ReadmeIntake` | `parse_readme`, `chunk_text_tokens`, `retry` | `ParseReadme` folds `ParseLine` over the lines, `Windows` are token ranges, `Retry` the outcomes of the calls. |
| `EvaluationScores` | `metrics.py`, `score_answer`, the tests of `pooled.py` | an answer is the sequence of model mentions in it. |
| `EvaluationReports` | `evaluate_system`, `rescore_report`, the pooling of a batch | what is stored of a dialogue, which file of a run counts, means, pairing and leave-one-out. |
| `QueryCli` | the search, tag and top commands | `Listed` is what a command reads of the store, per backend. `Falling` keeps the order of equals, as `sorted` does; `argsort` and Qdrant may order equal scores otherwise, which the property and its proof allow. |
| `Algorithms` | calls of the operators above | one action per entry point; a behavior is one call on one bounded input, its state the call and the result. |
| `ConnectionPoolProofs`, `LazyResourcesProofs`, `AgentServiceProofs`, `CatalogStoreProofs`, `VectorizerProofs` | proofs about the module of the same name | Its inductive invariant (stated in the module itself, so that TLC checks it too), one lemma per action or per part, and the theorems of section 4. |
| `DataLemmas` | - | What the library's operators on numbers, sets, folds and sequences return, for data of any size; induction in terms of sets. |
| `ReadmeIntakeProofs` | proofs about `ReadmeIntake` | What `Retry`, `Windows` and `ParseReadme` return, by induction over calls, tokens and lines. |
| `AlgorithmsProofs` | proofs about `Algorithms` | The theorems that those give, with the lemmas about `semantic_search`, `filter_models`, `rescore_report`, the query CLI and `holm`. |
| `MC*` | instances | model values, symmetry, the files and README sizes of the small instances. |

Definitions that stand directly before another one and differ from it in one point
(`GetIdleWithoutPop` before `GetIdle`, `MarkBeforeFlush` before `MarkModel`, ...) are
the plausible bugs that show a property has teeth: with the variant in place of the
definition TLC finds the property violated. They take no part in the specifications.

### Abstractions

* Data: a query, an argument, a result, a text, a prompt and a log message have no
  content. A log line is its kind, its number and the context it was written in. A
  vector is the number of the chunk it was computed from; a README a number of chunks.
* The LLM is nondeterministic: a call returns or raises, a reply is text or a batch of
  tool calls. The function-calling loop belongs to `agent_framework`: after
  `max_iterations` turns with tools it makes one more call without tools, which is why
  `turn` ranges to `MaxTurns + 1`.
* psycopg2's `putconn` rolls back a transaction before it removes the connection from
  its `_used` dictionary, and drops closed connections; `getconn` does not test a
  connection. Both are modelled as they behave, marked external.
* pyarrow's writer writes the footer on close and when the interpreter destroys it, so
  after an exception or an interrupt but not after a kill. Either may raise (a full disk,
  a quota) and then leave the file with or without its footer.
* PostgreSQL runs at read committed, keeps row locks to the end of a transaction, and
  aborts one member of a lock cycle. `ALTER TABLE` waits for all readers of the table and
  new transactions queue behind it. (So while an enrichment is in its first download,
  which keeps the transaction of its SELECT open, an initialization waits, and backend
  queries wait behind the initialization.)

* In `LazyResources` a resource opens or does not, and an embedding is a number: texts 1
  and 2 are those of `warmup`, the others queries. The `lru_cache` never holds 128 of them
  here, so nothing is evicted. `get_client` succeeds or raises.
* The algorithms keep what decides their control flow: of a README line its kind, of a
  token its position, of a catalog row whether it passes a clause, of an answer the
  mentions in order, of a model id its family and the ids that extend it. Ratios are
  pairs of integers, nDCG's discounts thousandths, p-values multiples of 1 / `Unit`,
  means multiples of 1 / `Share`; the code's 1e-12 and 1e-9 stand for exact comparisons.

## 3. Runs

Passing runs. Deadlock is checked where the system cannot stop (the pool, the jobs); it
is off where the requests, a run of the pipeline, the process or a call may be over.

| Run | Instance | What it shows |
|---|---|---|
| `pool_safety` | 3 threads, 3 connections, pool of 2, restarts; symmetric | `ExclusiveUse`, `SessionsBounded`, `NoLiveSessionLost`, and the inductive invariant `IInv` of the proofs (in every module its first conjunct is `TypeOK`) |
| `pool_liveness` | 2 threads, 2 connections, pool of 1, fair threads | `PoolBuiltOnce`, the refinement `PoolIsOnce`, `CallsReturn`, `LostSessionsFlushed` |
| `service_requests` | 2 requests of any kind, 1 tool turn of up to 2 calls, 1 text update, fair loop | `IInv`, the log (`LogIsWellFormed`, `TraceIsComplete`, `LinesCarryOwnId`), the answers (`AnswerMatchesEnd`), the refinement of `RequestLifecycle` (`ImplementsLifecycle`), and `EveryRequestEnds`, which includes that streams are completed |
| `vectorizer_runs` | 3 models with 1, 2, 1 chunks, the first without optional metadata, runs that start at ids up to 3; all faults | `IdsUnique`, `IdsStable`, `MarkedIsWritten`, `EndedRunsAreReadable`, `RunEnds`, `IInv` |
| `store_jobs` | 2 files, two operators: one runs initializations with enrichment and forced enrichments, the other plain initializations and backfills | `LoadsAreWhole`, `EveryJobEnds`, `IInv` |
| `store_rerun` | 1 file, two uploads, an initialization with enrichment | `StoresAgree`, `StoredStays` |
| `startup` | two requests, each a search or a filter, and the warm-up over two threads; any opening and any use may fail; shutdown at any moment | `IInv` (with `OpenedOnce` and `ModelLoadsBounded`), `WarmedMeansWarm`, `SearchDegrades`, the refinement `LockedAreOnce`, `NothingSubmittedAfterShutdown`, `CallsEnd` |
| `algorithms` | every input within the bounds below | queries: `FamiliesAreRepresented` (`OriginalsRepresent`, `FamiliesKeepTheirRank`), `FilterKeepsItsPromise` (`EmptyMeansNone`, `TotalIgnoresLimit`); intake: `IntakeKeepsTitledText` (`SectionsKeepTheText`, `WindowsCover`, `RetryReports`); evaluation: `ScoresFollowTheAnswer` (`PredictionsFollowTheAnswer`, `ScoresAgree`), `TestsAreExact` (`SignFlipIsExact`, `HolmIsStepDown`), `RescoreIsEvaluation`, `PooledBatchIsWhole`; CLI: `CliListsTheBest` (`CliSearchIsBestFirst`, `CliListsTheStore`) |

Runs that find a disagreement between the code and what the repository says of it:

| Run | Violated | What happens |
|---|---|---|
| `pool_exhausted` | `RefusedOnlyWhenAllInUse` | the server dies between fetchall and putconn; rollback raises in `finally`, the slot is stranded for ever and the pool refuses calls while nobody uses it |
| `vectorizer_truncates` | `ProcessedIsInFile` | the first flush of a resumed run truncates the file of the earlier runs |
| `vectorizer_batch` | `VectorIsOfItsText` | after a failed batch, vectors are paired with other chunks' texts |
| `store_backfill` | `ExactCountsKept` | a backfill overwrites an exact count committed after it read its list |

### Disagreements that the models contain and no run repeats

The models follow the code in these points too, and the passing properties are stated so
that they say what does hold.

* `getconn` and `putconn` raise `OperationalError` when PostgreSQL is away
  (`catalog.py:84, 92`), while `catalog.py:45` names `CatalogUnavailable`, the only
  exception that the fallback of `semantic_search` catches. In `ConnectionPool` both are
  outcomes of a call.
* An LLM call that raises or is cancelled has taken a turn number and leaves no line
  (`agent.py:107`), and tool calls cancelled with their request are counted and leave no
  line (`tools.py:41`), while `README.md:193` promises every turn and call.
  `TraceIsComplete` bounds what may be missing: one LLM line, and tool lines only when the
  client has left.
* A stream abandoned at its `yield` is closed by the async-generator finalizer in another
  context, so that its END line is unprefixed or carries another request's id
  (`agent.py:251`, against `agent_activity_log.py:144`). `LinesCarryOwnId` allows it for
  END lines of requests whose client has left, and for nothing else.
* A killed run leaves a file without footer and every later run exits
  (`vectorizer.py:218`, against `agentpick_data/README.md:303`). So may a run whose
  `writer.close()` raises, or whose close at the interpreter's exit does
  (`vectorizer.py:247`, 276-279). `EndedRunsAreReadable` says that nothing else does so,
  and that a run that leaves such a file has not reported completion. `MarkedIsWritten`
  still holds of that file, whose rows nobody can read.
* A Ctrl-C between opening the file anew and the first write (`storage.py:77-83`) leaves
  an empty file, from which the next run counts ids from 0 again (`InterruptFlush`).
* When `flush` or the resume log fails, the counter is returned unchanged and the next
  model takes the same ids (`vectorizer.py:197`, against `agentpick_data/README.md:304`).
  `IdsUnique` and `IdsStable` hold for a data directory in which neither has failed and
  no first flush was cut short (`failed`); `readable` is recorded only so long.
* The schema inferred from a first model without optional fields refuses later models
  (`storage.py:70`, against the comment at `storage.py:14`); `Fits` models it.
* After a file from a fresh data directory has been loaded, points and rows of the old one
  remain (`load_embeddings_to_qdrant.py:125`, `initialize_postgres.py:213`, against
  `init_postgres.sql:18-19`). `StoresAgree` is checked for re-runs over one file.
* An enrichment whose fetch fails writes NULL over a card that another enrichment stored
  after the first one read what was missing (`enrich_models.py:176`, against "Re-runs only
  fetch fields that are still empty"). `StoredStays` is checked with one enrichment.

* `embed` is "cached" with `lru_cache`, which holds no lock while it computes: two threads
  that miss together compute the same embedding twice, and both may load the model
  (`core/llm.py:18-31`). `ModelLoadsBounded` says how often at most.
* `parse_readme` toggles "frontmatter" at every `---` (`parsing.py:50`), not only at the
  top as the comment "Skip YAML frontmatter" has it: text between two horizontal rules is
  dropped. When no section is found the whole file, frontmatter included, becomes one.
* Once a README has one section, `parse_readme` drops all text before its first `## `
  header and under `## ` headers without a title, with no warning (`parsing.py:72`, against
  its docstring "Parse README into sections by ## headers"): the introduction under the
  `# ` title never reaches the catalog. `SectionsKeepTheText` states exactly this: the
  titled, unhidden text is kept and nothing else.
* A batch of which only some files were rescored at another k is pooled as if it were
  uniform: a file without nDCG at the reference's k counts 0.0 in the composite
  (`pooled.py:109`, against `evaluation/README.md`'s "nDCG@k for
  deterministic/ranking/multi_turn") and, when one run alone has the metric, leaving it
  out raises `KeyError` (`pooled.py:234`). The model reaches both; `PooledBatchIsWhole`
  is stated for batches rescored as a whole or not at all.
* On a Parquet file the CLI finds no model by tag: `to_pandas` turns the list column into
  numpy arrays, and `_safe_get` returns the default for anything that is not a `list`
  (`query.py:76`, against "List of models with this tag", `query.py:157`). On Qdrant,
  `tag`, `top`, `details` and `export` read one page of 10000 points (`query.py:391`).
  `CliListsTheStore` is stated for stores of one page, and for tags on Qdrant.
* `filter_models` counts the models of unknown size in a second statement
  (`catalog.py:385`): sizes filled in between the two are in neither, and the page is
  empty without a warning, which `tools.py` tells the agent to read as "no such model".
  `EmptyMeansNone` is checked over one table.

### Bounds, and why they are enough

What section 4 proves does not depend on these bounds.

* Pool: three threads and a pool of two give one thread more than connections
  (exhaustion), two holders at once and a replacement while another connection is held;
  the third connection object exists so that a fresh one is distinct from both.
* Service: requests interact only through the interleaving on the loop, the shared
  agent and the collector's context, all of which need two requests. Two calls per batch
  are the smallest parallel batch. One turn with tools and the final call reach
  `MaxTurns + 1`.
* Vectorizer: a model of two chunks has two batches, so that one can fail and one
  survive; three models give one before and one after a fault. `MaxPointId` bounds the
  ids at which a run may start: runs that would start later are not taken. Runs that
  start at 0, 1, 2 and 3 can follow each other in one data directory, each of which may be
  cut off anywhere.
* Store: two models in opposite file and id order are what a lock cycle needs; a model
  with two chunks and batches of two points make an upload of two batches. Two terminals
  are enough for every pair of scripts to overlap; each starts again when it is done.

* Startup: two requests and the warm-up make three calls that can want one resource; two
  threads are enough for two builders to race and for a third call to wait for a thread.
  One request asks the warm-up's text, the other a new one.
* Algorithms. `MaxPoints` = 3 chunks over five models of three families (two originals and
  a re-upload of one checkpoint, another one, a test artifact), with four tables of
  downloads, one of them empty, two scores (`PointScores`) and limits up to `MaxResults` = 2,
  so that ties and full answers occur; tables of up to 3 rows with `MaxRows` and `SparseTag`
  (25 in the code both) lowered to 3 and 2, so that both are crossed; `MaxLines` = 6 lines
  hold two rules around a header; `MaxTokens` = 9 with every window size and overlap below
  it; `MaxRetries` = 4; answers of `MaxMentions` = 4 mentions hold two nested umbrellas;
  samples of up to 4 differences have halves of two; up to 3 runs of two questions are the
  least for a leave-one-out test (`Asked` = 2 questions, `Share` = 6 a multiple of 1, 2 and 3); `PageSize` = 3 and `MaxChunks` = 4 overflow a page, and
  `Overfetch` = 1 (3 in the code) lets one model use up the chunks asked for.

### Fairness

* `ConnectionPool`: weak fairness of each thread's own steps (the operating system
  runs it). Nothing is assumed of the server, of new calls or of the order of the lock:
  no thread that waits for it needs more, because its holder leaves in a bounded number
  of steps and the others find the pool built, or fail, without holding it for ever.
* `AgentService`: weak fairness of the event loop for each request (ready tasks are
  run, calls and tool bodies end through client and driver time-outs, a cancellation
  is delivered). Clients, disconnects and the garbage collector are not fair: a request
  may stay an orphan for ever, and `EveryRequestEnds` says so.
* `Vectorizer`: weak fairness of the run's own steps; starts, kills and removals are not fair.
* `CatalogStore`: strong fairness of a job's own steps: PostgreSQL serves the waiters
  for a lock in order, so a job that waits while others come and go is served. Nobody has to start a job or a file.

* `LazyResources`: weak fairness of each call's steps (threads run), of the warm-up's task
  and of the end of the process. Weak fairness is enough although threads and locks are
  shared: there are finitely many calls and each takes finitely many steps, so a waiting
  call is in the end the only one left. Requests and the shutdown are not fair.

## 4. Proofs

Everything below holds for all values of the constants that satisfy the assumption named
in the module: any number of threads, requests, models, jobs, lines or calls.

| Module | Assumption | In words |
|---|---|---|
| `ConnectionPool` | `PoolAssumption` | finitely many connection objects, a pool size above 0; nothing of the server |
| `LazyResources` | `ResourcesAssumption` | finitely many requests, at least one worker thread, no search asks for one of the two texts of `warmup` |
| `AgentService` | `ServiceAssumption` | the bounds on turns, calls per batch and pieces of text are above 0 |
| `Vectorizer` | `VectorizerAssumption` | a finite order of visit, every model has a chunk, any subset of the faults |
| `CatalogStore` | `StoreAssumption` | files are finite maps from ids to models, batches are not empty |
| `CatalogQueries`, `QueryCli`, `Algorithms` | `CatalogAssumption`, `CliAssumption`, `InputsAssumption` | tables are finite, scores, downloads and a LIMIT are any integers, numbers of chunks and results are any naturals, `MaxRows`, `PageSize` and `Overfetch` are above 0 |
| `EvaluationScores`, `Algorithms` | `ScoresAssumption`, `InputsAssumption` | one id extends another with a hyphen: nothing extends itself, and what extends an extender extends what that extends; the discounts of the ranks up to `MaxK` are positive and fall, as 1 / log2(rank + 1) does; no gold list names a model twice (`dataset.json` has none that does); differences are integers, p-values naturals |
| `EvaluationReports`, `Algorithms` | `ReportsAssumption`, `InputsAssumption` | `Share` is a multiple of every number of runs, so that means are integers; a file scores the same questions, at least two, as every other (`dataset.json` has 20), and a run is such a file and perhaps its rescored copy |

### The pool (`ConnectionPoolProofs`)

| Theorem | States |
|---|---|
| `TypeCorrect` | `Spec => []TypeOK` |
| `Inductive` | `Spec => []IInv` |
| `ConnectionsAreExclusive` | `Spec => []ExclusiveUse` |
| `NoSessionLost` | `Spec => []NoLiveSessionLost` |
| `SessionsAreBounded` | `Spec => []SessionsBounded` |
| `OnlyOnePool` | `Spec => PoolBuiltOnce` |
| `PoolRefinesOnce` | `Spec => PoolIsOnce`, the refinement of `OnceResource` |

`TypeOK` is inductive alone (it includes that a thread has a connection exactly between
`getconn` and `putconn`). None of the others is. `ExclusiveUse` needs to know that a
connection in somebody's hands is in `used`, so that taking one from `idle` cannot give
it to a second thread: `HeldInv` and the disjointness in `SlotsInv`. That a fresh
connection is not somebody's needs the same. `SlotsInv` also bounds `idle` and `used`
together; it is kept by `GetReplacement` only because the pool compares the number of
used connections with its size when `idle` is empty. `SessionInv` says where a live
session can be: in `idle`, in a pool under construction or in a thread's hands, and that
a connection a client believes closed is dead, so that dropping it loses nothing.
`SessionsBounded` follows: before publication live sessions are those being built,
afterwards those among `idle` and `used`. `LockInv` ties building to the lock and rules it
out after publication, which gives `OnlyOnePool`; it also says that the thread that
publishes or gives up is the one inside the lock, which makes every step of the pool a
step of `OnceResource` or a stutter (`OnceStep`). Each part has a lemma with one step per
action of the system (`StepCases`).

### First uses and the warm-up (`LazyResourcesProofs`)

| Theorem | States |
|---|---|
| `Inductive` | `Spec => []IInv` |
| `WarmedIsWarm` | `Spec => []WarmedMeansWarm` |
| `SearchIsDegraded` | `Spec => []SearchDegrades` |
| `ShutdownSubmitsNothing` | `Spec => NothingSubmittedAfterShutdown` |
| `LocksRefineOnce` | `Spec => LockedAreOnce`: the pool and the Qdrant client each refine `OnceResource` |

`OpenedOnce` needs `LockInv`: who builds a locked resource holds its lock, nobody else
builds it and it is not published. The model has no lock. `ModelLoadsBounded` counts what
is being loaded with what has been loaded: a load in progress occupies a thread
that has seen the model missing, so when the first one is published there are at most
`Workers` of them (`ModelStep`). `WarmedMeansWarm` does not follow from the results of the
warm-up's calls alone, because `catalog.warm` swallows failures: it follows from
`TaskInv` (in which order the calls are awaited, and that only an `ok` is passed) and
`PassedInv` (what a call has got past is published, although a text may come from the
cache). It also gives `SearchDegrades`: at its last need a search uses only what is
published, so all it can meet is the failure to open the pool, which it tolerates
(`DegradeStep`).

### Requests and their log (`AgentServiceProofs`)

| Theorem | States |
|---|---|
| `Inductive` | `Spec => []IInv` |
| `LogsAreWellFormed` | `Spec => []LogIsWellFormed` |
| `TracesAreComplete` | `Spec => []TraceIsComplete` |
| `LinesCarryTheirId` | `Spec => []LinesCarryOwnId` |
| `AnswersMatch` | `Spec => []AnswerMatchesEnd` |
| `ServiceImplementsLifecycle` | `Spec => ImplementsLifecycle`, the refinement of `RequestLifecycle` |

`IInv` relates, for each request, the place where its handler is suspended to what the
log, the counters and the client have: `ScopeInv` (inside `request_scope` exactly between
START and END, and in which context), `TraceInv` (a tool number is that of a running task
or of one line, never of both; of the LLM turns at most the one in progress, or the one
that broke off, has no line), `AnswerInv` (which frames can have been sent). Each action has an
`...Effect` lemma that says what it writes for its own request; that it leaves the others
alone is shown once (`OthersStay`), and a step preserves each part because it does so for
the request that moves (`ScopeKept`, `LogKept`, `IdsKept`, `ToolsKept`, `CallsKept`,
`AnswerKept`). `TraceIsComplete` counts lines, so it needs that numbers are those of
distinct lines (`OneNumberEach`). For the refinement, `Allowed` is the abstract step of
one request: every `Move` is one (`MoveIsAllowed`) and changes the abstract state of one
request only.

### The stores (`CatalogStoreProofs`)

| Theorem | States |
|---|---|
| `Inductive` | `Spec => []IInv` |
| `LoadsWhole` | `Spec => []LoadsAreWhole` |
| `LoadersAgree` | `FileStays /\ Spec => []StoresAgree` |
| `FillersKeep` | `OneTerminal /\ Spec => StoredStays` |

`LoadsAreWhole` is inductive once `JobInv` says what the job in hand has written
and has still to write: together they are the file it read (and never two files), so a
commit stores a whole file. The other two have a hypothesis on the constants, because
without it the code does not do it (section 3): `FileStays` says that there is one
`embeddings.parquet`, `OneTerminal` that the scripts which fill columns run one after the
other and without `--force`. The instance of `store_rerun`, on which TLC checks both
properties, satisfies them. `CopyInv` is the invariant for the first: every
point is one of the file, an upload has uploaded what it no longer has to do, and a loaded
table lists the ids of the file. `MissingInv` is that for the second: what a job is
going to fill is still missing, which is exactly what a second terminal would break
between the read and the write.

### The vectorizer (`VectorizerProofs`)

| Theorem | States |
|---|---|
| `Inductive` | `Spec => []IInv` |
| `IdsAreUnique` | `Spec => []IdsUnique` |
| `IdsAreStable` | `Spec => []IdsStable` |
| `MarkedAreWritten` | `Spec => []MarkedIsWritten` |
| `EndedAreReadable` | `Spec => []EndedRunsAreReadable`, for any subset of the faults |

`IInv` is `TypeOK`, `FileInv` (while a run goes on, the file lacks its footer exactly when
the run has it open; afterwards only after a kill or a close that failed) and `MarkInv` (the model in hand has its rows in the buffer before the flush and in the
file before the mark). Closing is where a run may still fail when all is written:
`StopKeeps` says under which conditions an end keeps the invariant, and `CloseFailsKeeps`,
`ExitKeeps` and `ExitEmptyKeeps` meet them for a close that raises, for the interpreter's
exit and for a file that was opened and never written. The ids need more, as long as no
flush or mark has failed:
`IdsInv` keeps the counter above every id of the file and of all earlier files, the ids of
the buffer between it and the next counter, and the greatest id ever readable in the
file, which is what a resumed run starts from. That a next id exists needs that the ids
are bounded (`Bounded`), since `Max` of the file's ids must be one of them.

### The algorithms (`DataLemmas`, `ReadmeIntakeProofs`, `AlgorithmsProofs`)

| Theorem | States |
|---|---|
| `SearchesRepresent` | `Spec => []FamiliesAreRepresented`, for any chunks, downloads and limit |
| `CliListsBest` | `Spec => []CliListsTheBest`, for any store, threshold and limit |
| `HolmSteps` | `Spec => []HolmIsStepDown`, for any p-values and level |
| `TestsExact` | `Spec => []TestsAreExact`, for any p-values and any number of differences |
| `PooledWhole` | `Spec => []PooledBatchIsWhole`, for any number of runs and questions |
| `ScoresFollow` | `Spec => []ScoresFollowTheAnswer`, for any catalog, gold list, answer and cut-off |
| `FiltersAreTruthful` | `Spec => []FilterKeepsItsPromise`, for any table and question |
| `RescoringIsEvaluating` | `Spec => []RescoreIsEvaluation`, for dialogues of any length |
| `IntakeKeeps` | `Spec => []IntakeKeepsTitledText`, for any README, text and number of retries |

A behavior of `Algorithms` is one call, so the invariants say what is true of its result.
The intake is a loop over lines, a recursion over tokens and a loop over calls, and needs
induction. The provers cannot instantiate an induction rule for an operator, but they
can for a set: `SetInduction` says that a set of naturals with 0, and n + 1 whenever n,
has every natural, which follows from the least element of a non-empty set (`LeastIs`). A fold or a
recursive function is first shown to exist (`FoldExists`, `WindowsExist`,
`FlattenExists`: TLA+ defines them by CHOOSE), then unrolled (`ParsedIs`).
`ParseInv` is the invariant of the loop in `parse_readme`: the lines in hand are the ones
under the current header (`InHand`), the saved sections hold the titled lines under the
earlier ones, in order (`SavedTo`), and a line is hidden after an odd number of rules
(`HiddenBy`). `CoverFrom` is what `chunk_text_tokens` has still to do from a token on.

A search sorts its models and then folds them into families. `Ranked` is the CHOOSE of a
sorted enumeration, and `SortedExists` says that there is one: a finite set under a total
order can be enumerated in that order, one greatest element (`LastIs`) at a time.
`RepsInv` is the invariant of the loop over the ranked models: the representatives are of
distinct families, in the order in which the families were first seen, and no model seen
so far is preferred to the representative of its family (`AddKeeps`, `CollapseIs`). The
first model of a family has the family's best score (`TopIs`), so the representatives are
in the order of those scores (`RepsAre`).

The query CLI sorts in the same way (`Falling`, `FallingIs`). `FirstAt` is the invariant of
its loop over chunks: what was kept so far stands at ascending places of the store, each the
first wanted chunk of its model, and no wanted model is missing (`AddFirstKeeps`,
`FirstOfEachIs`). A model that a search leaves out is either behind a full list or behind
the chunks asked for, of which there are at least `limit * Overfetch` with its score or a
better one (`CliSearches`). A list has as many models as it has chunks (`ModelsCounted`),
which gives its length (`CliTags`, `CliTops`).

For `HolmSteps`, an adjusted p-value is at most alpha when all the scaled ones up to its rank
are (`AdjustedIs`); a scaled p-value counts the ranks from its own on (`RanksCounted`), which
are the hypotheses with a p-value not below it once ties are taken at their first rank, and
`StepDown` needs it only there.

Sums are folds over a set in an order nobody knows (`MapThenSumSet` takes elements by
CHOOSE). `SumsExist` shows that every set of indices has a sum that does not depend on the order:
it is any of its values plus the sum of the rest. `FirstSums` unrolls a sum from
the front. For `SignFlipIsExact`, the invariant of the loop in `_signed_sums` is a bijection
between the positions of its result and the sign assignments of the values so far
(`SignedSumsEnumerate`). An assignment to all the differences is one to each half, and its sum is the
sum of theirs (`SumSplits`, `PairsAreAssignments`); so the assignments at least as extreme are the
pairs of positions that the two searches count for each element of the left half
(`PairsCounted`). They count no pair twice, because the observed sum is not 0 (`BothTails`): the
early return is what makes the count exact.

`PooledWhole` needs that every chosen file is at one `k`: then each run has both metrics for
each question, the means are over all runs (`Share` divided by their number is exact), and
what is left after removing a run still has every question, which is why no `KeyError`
can happen. With files at two `k` none of this holds (section 3).

`ScoresFollow` has two parts. The loop that drops umbrellas deletes while it counts.
`DropInv` says that an id with two extenders among all the entries keeps two among those
left: if one of them is dropped as an umbrella, it had two extenders itself, which extend the
id as well and are still there (`DropKeeps`). So the loop drops what dropping all at
once would (`DropUmbrellasIs`), in whatever order the dict has them. For the scores, grades are
distinct and at most the length of the gold list, so that any `j` of them add up to at most the
`j` best (`PrefixIsBest`); since discounts fall, a lead in every prefix is a lead in the
discounted sum, and a strict one as soon as one prefix is strictly behind (`LeadGrows`, summation
by parts). So nDCG is at most 1, and 1 only for the gold order (`BestWeighsMost`,
`BestIsGoldFirst`, `GoldFirstIs`).

### What stays with TLC

* Liveness: `CallsReturn`, `LostSessionsFlushed`, `EveryRequestEnds`, `RunEnds`,
  `EveryJobEnds`, `CallsEnd`. TLAPS proves no property under fairness.
* What the code does not do: the four runs with an expected violation.

Every safety invariant, every action property and every refinement that the passing runs
check is the statement of a theorem.

## 5. Plan

What could be added, in order of worth:

1. A second table for the statement of `filter_models` that counts models of unknown size
   (`catalog.py:385`), and the promise that an empty page keeps when sizes are filled in
   between the two.
2. When the code behind one of the four `violation` runs is changed, its actions and the
   run's expectation change with it, and the property becomes a conjunct of its module's
   invariant to prove: `RefusedOnlyWhenAllInUse` beside `SlotsInv` in the pool,
   `ProcessedIsInFile` beside `MarkInv` in the vectorizer.

## 6. Not modelled

* The vendored UI. `src/UI` is a copy of Open WebUI: of about 95,000 lines of Python in
  the repository some 6,000 are AgentPick's own, and the models stand for about a third
  of those. The rest of AgentPick's lines are prompts, docstrings, argument parsing,
  printing, report text and tests.
* Prompt texts, message conversion and formatting; log file handling.
* `catalog_stats.py`, `thesis_stats.py`, `report.py`, random resampling
  (`bootstrap_ci`, `bootstrap_diff_ci`, the Monte Carlo test of `compare.py`),
  `out_of_catalog_rate`.
* `get_model_details` and the similar-tags hint of the catalog; `details`, `export` and
  `stats` of the query CLI; the plan parsing of the single-round baseline. They read and
  print, or turn text into keyword arguments.
* Numerical content of embeddings and scores, and floating-point rounding.
* `--dry-run` and `--limit` of the scripts, which select fewer steps of the same kind.
* A product of the tool calls of `AgentService` with `ConnectionPool`: they meet only in
  that a tool body returns or raises, which `CallsReturn` and `CallsEnd` state.

## 7. Running

    tlc -workers 2 -config PoolSafety.cfg MCConnectionPool.tla
    tlapm ConnectionPoolProofs.tla

`tlapm` is called for each of `DataLemmas` and `*Proofs` in the same way; a call ends within
ten minutes. Every run ends within two minutes on two workers; each `.cfg` names the module's instance
(`Pool*` with `MCConnectionPool`, `Service*` with `MCAgentService`, `Vectorizer*` with
`MCVectorizer`, `Store*` with `MCCatalogStore`, `Startup` with `MCLazyResources`,
`Algorithms` with `MCAlgorithms`).
