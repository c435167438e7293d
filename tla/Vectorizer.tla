----------------------------- MODULE Vectorizer -----------------------------
(***************************************************************************)
(* agentpick_data/src/hf_vectorizer: the pipeline that turns README files  *)
(* into data/embeddings.parquet (vectorizer.py, storage.py) and its resume *)
(* log data/processed_models.txt, over any number of runs that finish,     *)
(* fail, are interrupted or are killed between any two steps.              *)
(*                                                                         *)
(* A chunk of a README is its number; a vector is the number of the chunk  *)
(* it was computed from.  A Parquet file is readable only once its footer  *)
(* has been written, which pyarrow's writer does on close and also when    *)
(* the interpreter destroys it (so after an interrupt or sys.exit, but not *)
(* after a kill); either may fail, as any other write (a full disk).       *)
(* Hugging Face and the embedding model are external.                      *)
(***************************************************************************)
EXTENDS Naturals, Sequences, FiniteSets, FiniteSetsExt

CONSTANTS
  Models,
  Order,       (* fetch_all_models(): the models in the order of a run *)
  Chunks,      (* chunks of each model's README *)
  BatchSize,   (* texts per embedding batch *)
  NoField,     (* models whose optional metadata (library_name, ...) is None *)
  Faults,      (* the faults of this instance *)
  MaxPointId   (* no run starts beyond this id (bound of the model) *)

FaultKinds == {"kill", "interrupt", "batch", "flush", "mark", "close", "remove"}

ASSUME VectorizerAssumption ==
  /\ Order \in Seq(Models)
  /\ Chunks \in [Models -> Nat \ {0}]
  /\ BatchSize \in Nat \ {0}
  /\ NoField \subseteq Models
  /\ Faults \subseteq FaultKinds
  /\ MaxPointId \in Nat

VARIABLES
  file,        (* embeddings.parquet: absent, open (no footer) or closed *)
  rows,        (* the row groups in it *)
  processed,   (* processed_models.txt *)
  pc,          (* where the run is, or "off" *)
  todo,        (* models the run has still to visit *)
  known,       (* self.processed *)
  pointId,     (* point_id of run, point_id_counter of process_model *)
  added,       (* len(records) of the model in hand *)
  buffer,      (* ParquetWriter.buffer *)
  writing,     (* ParquetWriter.writer is not None *)
  schema,      (* type of the optional field in ParquetWriter.schema *)
  lastRun,     (* how the last run ended *)
  failed,      (* history: a flush or a mark has failed, or a flush was cut *)
               (* short, on this data directory *)
  unclosed,    (* history: closing the file failed at the end of the last run *)
  marked,      (* history: models this, or the last, run marked as processed *)
  readable     (* history: rows of the readable files of this data directory, *)
               (* as long as not failed *)

disk == <<file, rows, processed>>
memory == <<todo, known, pointId, added, buffer, writing, schema>>
history == <<failed, unclosed, marked, readable>>
vars == <<disk, pc, memory, lastRun, history>>

Row == [id : Nat, model : Models, chunk : Nat, vec : Nat]
RowsIn(s) == {s[i] : i \in 1..Len(s)}

Init ==
  /\ file = "absent" /\ rows = <<>> /\ processed = {}
  /\ pc = "off" /\ todo = <<>> /\ known = {} /\ pointId = 0 /\ added = 0
  /\ buffer = <<>> /\ writing = FALSE /\ schema = "unset"
  /\ lastRun = "none" /\ failed = FALSE /\ unclosed = FALSE
  /\ marked = {} /\ readable = {}

-----------------------------------------------------------------------------
(* HFModelVectorizer.__init__ and the start of run(). *)

NextPointIdIsMax ==
  IF file = "closed" /\ rows # <<>> THEN Max({r.id : r \in RowsIn(rows)}) ELSE 0

NextPointId ==
  IF file = "closed" /\ rows # <<>> THEN Max({r.id : r \in RowsIn(rows)}) + 1 ELSE 0

StartRun ==
  /\ pc = "off"
  /\ file # "open"
  /\ NextPointId <= MaxPointId
  /\ pc' = "visit"
  /\ todo' = Order
  /\ known' = processed
  /\ pointId' = NextPointId
  /\ added' = 0 /\ buffer' = <<>> /\ writing' = FALSE /\ schema' = "unset"
  /\ unclosed' = FALSE /\ marked' = {}
  /\ lastRun' = "running"
  /\ UNCHANGED <<disk, failed, readable>>

(* pq.ParquetFile raises on a file without footer: sys.exit(1). *)
StartFails ==
  /\ pc = "off"
  /\ file = "open"
  /\ lastRun' = "refused"
  /\ UNCHANGED <<disk, pc, memory, history>>

-----------------------------------------------------------------------------
(* process_model *)

NextModel ==
  /\ pc' = "visit"
  /\ todo' = Tail(todo)

(* Already processed, no metadata, too few downloads, no README, no section *)
(* or no embedding: the model leaves no trace.                              *)
SkipModel ==
  /\ pc = "visit" /\ todo # <<>>
  /\ NextModel
  /\ UNCHANGED <<disk, known, pointId, added, buffer, writing, schema, lastRun,
                 history>>

Batches(m) == 0..((Chunks[m] - 1) \div BatchSize)

(* The chunks whose batch was embedded... *)
Kept(m, lost) == {i \in 1..Chunks[m] : (i - 1) \div BatchSize \notin lost}

(* ... in order: the only such sequence. *)
Embedded(m, lost) ==
  {s \in [1..Cardinality(Kept(m, lost)) -> Kept(m, lost)] :
     \A i, j \in DOMAIN s : i < j => s[i] < s[j]}

RecordsFromZero(m, vectors) ==
  [i \in 1..Len(vectors) |->
     [id |-> pointId + i - 1, model |-> m, chunk |-> i - 1, vec |-> vectors[i]]]

(* zip(embeddings, chunk_metadata), with texts[i]: the i-th record describes *)
(* the i-th chunk and stores the i-th vector that was computed.              *)
Records(m, vectors) ==
  [i \in 1..Len(vectors) |->
     [id |-> pointId + i - 1, model |-> m, chunk |-> i, vec |-> vectors[i]]]

(* Embed the chunks batch by batch, skipping batches that fail, and add the *)
(* records to the writer's buffer.                                          *)
EmbedModel ==
  /\ pc = "visit" /\ todo # <<>>
  /\ LET m == Head(todo) IN
       /\ m \notin known
       /\ \E lost \in SUBSET Batches(m) :
            /\ lost # {} => "batch" \in Faults
            /\ Kept(m, lost) # {}
            /\ \E vectors \in Embedded(m, lost) : buffer' = buffer \o Records(m, vectors)
            /\ added' = Cardinality(Kept(m, lost))
  /\ pc' = "flush"
  /\ UNCHANGED <<disk, todo, known, pointId, writing, schema, lastRun, history>>

-----------------------------------------------------------------------------
(* ParquetWriter.flush *)

(* The schema is inferred from the first buffer: a field that is None in    *)
(* every row gets the null type, which holds no string.                     *)
SchemaOf(buf) ==
  IF schema # "unset" THEN schema
  ELSE IF \A r \in RowsIn(buf) : r.model \in NoField THEN "null" ELSE "string"

Fits(buf) ==
  SchemaOf(buf) = "null" => \A r \in RowsIn(buf) : r.model \in NoField

WriteKeepingBuffer ==
  /\ Fits(buffer)
  /\ schema' = SchemaOf(buffer)
  /\ writing' = TRUE
  /\ file' = "open"
  /\ rows' = (IF writing THEN rows ELSE <<>>) \o buffer
  /\ UNCHANGED buffer

(* The first write of a run creates the file anew, later ones extend it. *)
Write ==
  /\ Fits(buffer)
  /\ schema' = SchemaOf(buffer)
  /\ writing' = TRUE
  /\ file' = "open"
  /\ rows' = (IF writing THEN rows ELSE <<>>) \o buffer
  /\ buffer' = <<>>

(* A record that does not fit the schema, or an I/O error while the file is *)
(* opened or written: the buffer is kept.                                   *)
WriteFails ==
  /\ schema' = SchemaOf(buffer)
  /\ \/ ~Fits(buffer) /\ UNCHANGED <<file, rows, writing>>
     \/ "flush" \in Faults /\ UNCHANGED <<file, rows, writing>>
     \/ /\ "flush" \in Faults
        /\ Fits(buffer) /\ ~writing
        /\ file' = "open" /\ rows' = <<>> /\ writing' = TRUE
  /\ UNCHANGED buffer

(* A buffer of 1000 records or more is written by add() itself; flush() then *)
(* finds it empty, which is the same step.                                  *)
FlushModel ==
  /\ pc = "flush"
  /\ Write
  /\ pc' = "mark"
  /\ UNCHANGED <<processed, todo, known, pointId, added, lastRun, history>>

FlushModelRetries ==
  /\ pc = "flush"
  /\ WriteFails
  /\ failed' = TRUE
  /\ UNCHANGED <<processed, pc, todo, known, pointId, added, lastRun, unclosed, marked,
                 readable>>

(* process_model catches the exception and returns the counter unchanged. *)
FlushModelFails ==
  /\ pc = "flush"
  /\ WriteFails
  /\ NextModel
  /\ failed' = TRUE
  /\ UNCHANGED <<processed, known, pointId, added, lastRun, unclosed, marked, readable>>

MarkBeforeFlush ==
  /\ pc \in {"flush", "mark"}
  /\ processed' = processed \union {Head(todo)}
  /\ known' = known \union {Head(todo)}
  /\ marked' = marked \union {Head(todo)}
  /\ pointId' = pointId + added
  /\ NextModel
  /\ UNCHANGED <<file, rows, added, buffer, writing, schema, lastRun, failed,
                 unclosed, readable>>

(* The model is appended to the resume log, with fsync. *)
MarkModel ==
  /\ pc = "mark"
  /\ processed' = processed \union {Head(todo)}
  /\ known' = known \union {Head(todo)}
  /\ marked' = marked \union {Head(todo)}
  /\ pointId' = pointId + added
  /\ NextModel
  /\ UNCHANGED <<file, rows, added, buffer, writing, schema, lastRun, failed,
                 unclosed, readable>>

(* Opening, writing or syncing the resume log fails: the rows are written,  *)
(* the counter is not advanced.                                             *)
MarkModelFails ==
  /\ pc = "mark" /\ "mark" \in Faults
  /\ known' = known \union {Head(todo)}
  /\ processed' \in {processed, processed \union {Head(todo)}}
  /\ NextModel
  /\ failed' = TRUE
  /\ UNCHANGED <<file, rows, pointId, added, buffer, writing, schema, lastRun,
                 unclosed, marked, readable>>

-----------------------------------------------------------------------------
(* The end of a run. *)

Stop(how, state, final) ==
  /\ pc' = "off"
  /\ lastRun' = how
  /\ file' = state
  /\ rows' = final
  /\ readable' = IF state = "closed" /\ ~failed THEN readable \union RowsIn(final) ELSE readable
  /\ todo' = <<>> /\ known' = {} /\ pointId' = 0 /\ added' = 0
  /\ buffer' = <<>> /\ writing' = FALSE /\ schema' = "unset"
  /\ UNCHANGED <<processed, marked>>

(* The footer is written if the writer was ever opened. *)
Footer == IF writing THEN "closed" ELSE file

(* An I/O error while the file is closed: it may lack its footer. *)
CloseFails(how, final) ==
  /\ "close" \in Faults
  /\ unclosed' = TRUE
  /\ \E state \in {"open", "closed"} : Stop(how, state, final)

(* At its exit the interpreter destroys the writer, which closes the file. *)
Exit(how, opened, final) ==
  \/ Stop(how, IF opened THEN "closed" ELSE file, final) /\ unclosed' = FALSE
  \/ opened /\ CloseFails(how, final)

FinishWithoutClose ==
  /\ pc = "visit" /\ todo = <<>> /\ buffer = <<>>
  /\ Stop("finished", file, rows)
  /\ UNCHANGED <<failed, unclosed>>

(* Nothing is left in the buffer: close the writer.  If that raises, the    *)
(* run ends with sys.exit(1).                                               *)
Finish ==
  /\ pc = "visit" /\ todo = <<>> /\ buffer = <<>>
  /\ \/ Stop("finished", Footer, rows) /\ unclosed' = FALSE
     \/ writing /\ CloseFails("failed", rows)
  /\ UNCHANGED failed

(* What is in the file once the buffer is flushed. *)
Flushed == (IF writing THEN rows ELSE <<>>) \o buffer

(* The final flush writes what earlier failed flushes left in the buffer... *)
FinishFlushing ==
  /\ pc = "visit" /\ todo = <<>> /\ buffer # <<>>
  /\ Fits(buffer)
  /\ \/ Stop("finished", "closed", Flushed) /\ unclosed' = FALSE
     \/ CloseFails("failed", Flushed)
  /\ UNCHANGED failed

(* ... or fails once more, maybe after it has opened the file: sys.exit(1). *)
FinishFails ==
  /\ pc = "visit" /\ todo = <<>> /\ buffer # <<>>
  /\ \/ ~Fits(buffer) /\ Exit("failed", writing, rows)
     \/ "flush" \in Faults /\ Exit("failed", writing, rows)
     \/ "flush" \in Faults /\ Fits(buffer) /\ ~writing /\ Exit("failed", TRUE, <<>>)
  /\ UNCHANGED failed

(* Ctrl-C: KeyboardInterrupt passes both except clauses. *)
Interrupt ==
  /\ pc # "off" /\ "interrupt" \in Faults
  /\ Exit("interrupted", writing, rows)
  /\ UNCHANGED failed

(* Ctrl-C in the first flush, when the file has been opened anew and        *)
(* nothing written to it.                                                   *)
InterruptFlush ==
  /\ "interrupt" \in Faults
  /\ pc = "flush" \/ (pc = "visit" /\ todo = <<>> /\ buffer # <<>>)
  /\ Fits(buffer) /\ ~writing
  /\ Exit("interrupted", TRUE, <<>>)
  /\ failed' = TRUE

(* SIGKILL, SIGTERM at the job's time limit, out of memory. *)
Kill ==
  /\ pc # "off" /\ "kill" \in Faults
  /\ Stop("killed", file, rows)
  /\ unclosed' = FALSE /\ UNCHANGED failed

(* rm data/processed_models.txt, and rm -rf data/ (README.md:308-309).      *)
RemoveProcessed ==
  /\ pc = "off" /\ "remove" \in Faults
  /\ processed' = {}
  /\ UNCHANGED <<file, rows, pc, memory, lastRun, history>>

RemoveData ==
  /\ pc = "off" /\ "remove" \in Faults
  /\ file' = "absent" /\ rows' = <<>> /\ processed' = {}
  /\ lastRun' = "none" /\ failed' = FALSE /\ unclosed' = FALSE
  /\ marked' = {} /\ readable' = {}
  /\ UNCHANGED <<pc, memory>>

-----------------------------------------------------------------------------
Proceed ==
  \/ SkipModel \/ EmbedModel
  \/ FlushModel \/ FlushModelFails \/ MarkModel \/ MarkModelFails
  \/ Finish \/ FinishFlushing \/ FinishFails

Next ==
  \/ StartRun \/ StartFails \/ Proceed
  \/ Interrupt \/ InterruptFlush \/ Kill \/ RemoveProcessed \/ RemoveData

Spec == Init /\ [][Next]_vars

(* A run that is not stopped from outside goes on. *)
FairSpec == Spec /\ WF_vars(Proceed)

-----------------------------------------------------------------------------
(* Every variable has its type: ids, chunk numbers and vectors of a row     *)
(* stay within the model's README.                                          *)
TypeOK ==
  /\ file \in {"absent", "open", "closed"}
  /\ rows \in Seq(Row) /\ buffer \in Seq(Row)
  /\ \A r \in RowsIn(rows) \union RowsIn(buffer) :
       r.chunk \in 1..Chunks[r.model] /\ r.vec \in 1..Chunks[r.model]
  /\ processed \subseteq Models /\ known \subseteq Models /\ marked \subseteq Models
  /\ pc \in {"off", "visit", "flush", "mark"}
  /\ todo \in Seq(Models)
  /\ pointId \in Nat /\ added \in Nat
  /\ writing \in BOOLEAN
  /\ schema \in {"unset", "null", "string"}
  /\ lastRun \in {"none", "running", "finished", "failed", "interrupted",
                  "killed", "refused"}
  /\ failed \in BOOLEAN /\ unclosed \in BOOLEAN /\ readable \subseteq Row

DistinctIds(s) == \A i, j \in 1..Len(s) : s[i].id = s[j].id => i = j

(* No two rows of the file and the buffer share a point id (the Qdrant      *)
(* loader would overwrite one by the other): vectorizer.py:163, 192.  A      *)
(* failed flush or mark is the exception: process_model then returns the    *)
(* counter it was given, and the next model takes the same ids.             *)
IdsUnique == writing /\ ~failed => DistinctIds(rows \o buffer)

(* Point ids stay what they are over all runs of a data directory: an id    *)
(* that was once readable never comes back for another chunk, although each *)
(* run recomputes the counter from the file (vectorizer.py:214-226).  The    *)
(* exception is a failed flush or mark, or a first flush cut short by        *)
(* Ctrl-C: it leaves an empty file, from which the counter restarts at 0.   *)
IdsStable ==
  ~failed => \A r, s \in readable :
               r.id = s.id => r.model = s.model /\ r.chunk = s.chunk

(* Flush comes before mark: at every moment of a run and after its end,     *)
(* each model it marked as processed has its rows in the file, whether or   *)
(* not the file got its footer (vectorizer.py:178-189, 246-247).            *)
MarkedIsWritten ==
  \A m \in marked : \E r \in RowsIn(rows) : r.model = m

(* A run that reports its completion leaves a file the next run can open,   *)
(* and so does one that ends with an error or by Ctrl-C.  A file without    *)
(* footer, by which every later run is refused, comes only from a kill or   *)
(* from a close that failed, and no run that leaves one has reported        *)
(* completion (vectorizer.py:218, 246-247, 276-279).                        *)
EndedRunsAreReadable ==
  pc = "off" /\ file = "open" =>
    \/ lastRun \in {"killed", "refused"}
    \/ lastRun \in {"failed", "interrupted"} /\ unclosed

(* A run ends, whatever fails on its way (vectorizer.py:231-243).           *)
RunEnds == pc # "off" ~> pc = "off"

-----------------------------------------------------------------------------
(* The inductive invariant behind them (VectorizerProofs). *)

(* The file lacks its footer exactly while a run has opened it. *)
FileInv ==
  /\ pc # "off" => (file = "open" <=> writing)
  /\ pc = "off" => ~writing /\ buffer = <<>>
  /\ file = "absent" => readable = {}
  /\ EndedRunsAreReadable

(* The model in hand has its rows in the buffer, then in the file. *)
MarkInv ==
  /\ pc \in {"flush", "mark"} => todo # <<>>
  /\ pc = "flush" => \E r \in RowsIn(buffer) : r.model = Head(todo)
  /\ pc = "mark" => writing /\ \E r \in RowsIn(rows) : r.model = Head(todo)
  /\ pc # "off" /\ marked # {} => writing
  /\ MarkedIsWritten

IInv == TypeOK /\ FileInv /\ MarkInv

(* Without a failed flush or mark: the counter is above all the ids of the  *)
(* file and of all earlier files, the ids of the buffer start at it, the    *)
(* ids of a file being written are above those of all earlier files, and    *)
(* the last readable file still has the greatest of them.                   *)
IdsInv ==
  ~failed =>
    /\ pc # "flush" => buffer = <<>>
    /\ \A r \in RowsIn(buffer) : pointId <= r.id /\ r.id < pointId + added
    /\ DistinctIds(buffer)
    /\ writing =>
         /\ rows # <<>> /\ DistinctIds(rows)
         /\ \A r \in RowsIn(rows) : r.id < (IF pc = "mark" THEN pointId + added ELSE pointId)
         /\ \A r \in readable, s \in RowsIn(rows) : r.id < s.id
    /\ pc # "off" => \A r \in readable : r.id < pointId
    /\ file = "closed" =>
         /\ RowsIn(rows) \subseteq readable
         /\ \A r \in readable : \E s \in RowsIn(rows) : r.id <= s.id
    /\ IdsStable

-----------------------------------------------------------------------------
(* What the repository says of the pipeline, and the code does not do.      *)

(* agentpick_data/README.md:304: "New chunks are appended".  So a model in  *)
(* the resume log has its rows in the file.                                 *)
ProcessedIsInFile ==
  file = "closed" /\ pc = "off" =>
    \A m \in processed : \E r \in RowsIn(rows) : r.model = m

(* agentpick_data/README.md:179: "Each Parquet row is one README chunk": its *)
(* vector is the embedding of its own text.                                 *)
VectorIsOfItsText == \A r \in RowsIn(rows) : r.vec = r.chunk
=============================================================================
