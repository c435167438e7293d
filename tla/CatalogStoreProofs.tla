------------------------- MODULE CatalogStoreProofs -------------------------
(***************************************************************************)
(* Proofs about CatalogStore, for any models, files, jobs and scripts:     *)
(* loads are whole; as long as the file is not replaced the two stores     *)
(* agree once it has been loaded into both; as long as the scripts that    *)
(* fill columns run one at a time, what they have stored stays.            *)
(***************************************************************************)
EXTENDS CatalogStore, WellFoundedInduction, TLAPS

(* A non-empty set of naturals has its minimum. *)
LEMMA LessIs == \A x, y \in Nat : x < y => <<x, y>> \in OpToRel(<, Nat)
  <1>1. ASSUME NEW x \in Nat, NEW y \in Nat, x < y
        PROVE  <<x, y>> \in OpToRel(<, Nat)
    <2>1. <<x, y>> \in Nat \X Nat /\ <<x, y>>[1] = x /\ <<x, y>>[2] = y
      OBVIOUS
    <2>2. <<x, y>>[1] < <<x, y>>[2]
      BY <1>1, <2>1
    <2> QED
      BY <2>1, <2>2, Zenon DEF OpToRel
  <1> QED
    BY <1>1, Zenon

LEMMA MinIn ==
  ASSUME NEW S \in SUBSET Nat, S # {}
  PROVE  Min(S) \in S
  <1>1. \E n \in S : \A y \in S : <<y, n>> \notin OpToRel(<, Nat)
    BY NatLessThanWellFounded, WFMin, Zenon
  <1>2. PICK n \in S : \A y \in S : ~(y < n)
    <2>1. \A x, y \in S : x < y => <<x, y>> \in OpToRel(<, Nat)
      BY LessIs, Zenon
    <2> QED
      BY <1>1, <2>1, Zenon
  <1>3. \A y \in S : n <= y
    BY <1>2
  <1> QED
    BY <1>3 DEF Min

-----------------------------------------------------------------------------
(* A job's state, field by field. *)
LEMMA JobFields ==
  ASSUME NEW J \in JobType
  PROVE  /\ J.script \in Kinds \union {"none"} /\ J.pc \in Places /\ J.source \in Files \union {NoFile}
         /\ J.todo \subseteq Nat /\ J.noCard \subseteq Models /\ J.noCount \subseteq Models
         /\ J.got \in {<<>>} \union (Models \X BOOLEAN \X {"null", "exact"})
         /\ J.txn \in BOOLEAN /\ J.written \subseteq Models
  BY DEF JobType

LEMMA IdleType ==
  /\ Idle \in JobType
  /\ Idle.pc = "idle" /\ Idle.todo = {} /\ Idle.written = {} /\ Idle.script = "none"
  BY DEF Idle, JobType, Places

(* What a step of one job writes, and that it leaves the others alone. *)
LEMMA Becomes ==
  ASSUME TypeOK, NEW j \in Jobs, NEW J, Become(j, J)
  PROVE  /\ job'[j] = J /\ \A k \in Jobs \ {j} : job'[k] = job[k]
         /\ J \in JobType => job' \in [Jobs -> JobType]
  BY DEF TypeOK, Become

LEMMA Goes ==
  ASSUME NEW J \in JobType, NEW pc \in Places
  PROVE  LET K == [J EXCEPT !.pc = pc]
         IN /\ K \in JobType /\ K.pc = pc /\ K.script = J.script /\ K.source = J.source
            /\ K.todo = J.todo /\ K.noCard = J.noCard /\ K.noCount = J.noCount /\ K.got = J.got
            /\ K.txn = J.txn /\ K.written = J.written
  BY DEF JobType

(* The states the jobs go to. *)
Took(J, todo, written) == [J EXCEPT !.todo = todo, !.written = written, !.txn = TRUE]
Begun(script, noCard, noCount, todo) ==
  [Idle EXCEPT !.script = script, !.pc = "fetch", !.txn = TRUE, !.noCard = noCard,
               !.noCount = noCount, !.todo = todo]
BegunUpdate(todo) == [Idle EXCEPT !.script = "backfill", !.pc = "update", !.txn = TRUE, !.todo = todo]
Fetched(J, todo, got) == [J EXCEPT !.pc = "write", !.todo = todo, !.got = got]

LEMMA Takes ==
  ASSUME NEW J \in JobType, NEW todo \in SUBSET Nat, NEW written \in SUBSET Models
  PROVE  LET K == Took(J, todo, written)
         IN /\ K \in JobType /\ K.pc = J.pc /\ K.script = J.script /\ K.source = J.source
            /\ K.todo = todo /\ K.noCard = J.noCard /\ K.noCount = J.noCount /\ K.got = J.got
            /\ K.txn /\ K.written = written
  BY DEF JobType, Took

LEMMA BeginsUpdate ==
  ASSUME NEW todo \in SUBSET Nat
  PROVE  LET K == BegunUpdate(todo)
         IN /\ K \in JobType /\ K.pc = "update" /\ K.script = "backfill" /\ K.todo = todo
            /\ K.written = {}
  BY DEF Idle, JobType, Places, Kinds, BegunUpdate

LEMMA Fetches ==
  ASSUME NEW J \in JobType, NEW todo \in SUBSET Nat,
         NEW got \in {<<>>} \union (Models \X BOOLEAN \X {"null", "exact"})
  PROVE  LET K == Fetched(J, todo, got)
         IN /\ K \in JobType /\ K.pc = "write" /\ K.script = J.script /\ K.source = J.source
            /\ K.todo = todo /\ K.noCard = J.noCard /\ K.noCount = J.noCount /\ K.got = got
            /\ K.txn = J.txn /\ K.written = J.written
  BY DEF JobType, Places, Fetched

(* A file lists ids, and models of the catalog. *)
LEMMA FileFacts ==
  ASSUME NEW f \in Files
  PROVE  DOMAIN f \subseteq Nat /\ DOMAIN f \subseteq Ids /\ Range(f) \subseteq Models
         /\ Models \subseteq Nat /\ f # NoFile
  BY StoreAssumption DEF Ids

(* What a job writes next is one of what it has still to write. *)
LEMMA NextIsTodo ==
  ASSUME TypeOK, NEW j \in Jobs, JobAt(j), job[j].todo # {}, At(j, "upsert") \/ At(j, "update")
  PROVE  NextModel(j) \in job[j].todo
  <1>1. job[j] \in JobType
    BY DEF TypeOK
  <1>2. job[j].todo \subseteq Nat
    BY <1>1, JobFields
  <1>3. CASE At(j, "upsert")
    <2> DEFINE f == job[j].source
               left == {i \in DOMAIN f : f[i] \in job[j].todo}
    <2>1. f \in Files /\ job[j].todo \subseteq Range(f)
      BY <1>3 DEF JobAt, At
    <2>2. left \subseteq Nat
      BY <2>1, FileFacts
    <2>3. left # {}
      BY <2>1 DEF Range
    <2>4. Min(left) \in left
      BY <2>2, <2>3, MinIn
    <2> QED
      BY <1>3, <2>4 DEF NextModel
  <1>4. CASE ~At(j, "upsert")
    BY <1>2, <1>4, MinIn DEF NextModel
  <1> QED
    BY <1>3, <1>4

-----------------------------------------------------------------------------
(* What every step keeps of every job: collections and rows do not go away. *)
LEMMA OthersKeep ==
  ASSUME NEW k \in Jobs, JobAt(k), job'[k] = job[k], collection => collection', Rows \subseteq Rows'
  PROVE  JobAt(k)'
  BY DEF JobAt

(* The job uploads a file. *)
Uploads(j) == job[j].pc \in {"find", "create", "upload"}

(* Each action keeps what its job has in hand to what it read. *)
LEMMA UploadKeeps ==
  ASSUME TypeOK, NEW j \in Jobs, JobAt(j),
         \/ UploadStart(j) \/ UploadFind(j) \/ UploadCreate(j) \/ UploadBatch(j) \/ UploadEnds(j)
  PROVE  job'[j] \in JobType /\ JobAt(j)'
  <1>0. job[j] \in JobType
    BY DEF TypeOK
  <1>1. CASE UploadStart(j)
    <2> DEFINE J == [Idle EXCEPT !.script = "upload", !.pc = "find",
                                 !.source = parquet, !.todo = DOMAIN parquet]
    <2>1. job'[j] = J /\ parquet \in Files
      BY <1>1, Becomes DEF UploadStart, TypeOK
    <2>2. J \in JobType /\ J.pc = "find" /\ J.source = parquet /\ J.todo = DOMAIN parquet
      BY <2>1, FileFacts DEF Idle, JobType, Places, Kinds
    <2> HIDE DEF J
    <2> QED
      BY <2>1, <2>2 DEF JobAt
  <1>2. CASE UploadFind(j)
    <2> DEFINE pc == IF collection THEN "upload" ELSE "create"
    <2>1. job'[j] = [job[j] EXCEPT !.pc = pc] /\ pc \in Places /\ At(j, "find")
          /\ collection' = collection
      BY <1>2, Becomes DEF UploadFind, Goto, Places, qdrant
    <2>2. /\ job'[j] \in JobType /\ job'[j].pc = pc /\ job'[j].source = job[j].source
          /\ job'[j].todo = job[j].todo
      BY <1>0, <2>1, Goes
    <2> QED
      BY <2>1, <2>2 DEF JobAt, At
  <1>3. CASE UploadCreate(j) /\ ~collection
    <2>1. job'[j] = [job[j] EXCEPT !.pc = "upload"] /\ "upload" \in Places /\ At(j, "create")
          /\ collection'
      BY <1>3, Becomes DEF UploadCreate, Goto, Places
    <2>2. /\ job'[j] \in JobType /\ job'[j].pc = "upload" /\ job'[j].source = job[j].source
          /\ job'[j].todo = job[j].todo
      BY <1>0, <2>1, Goes
    <2> QED
      BY <2>1, <2>2 DEF JobAt, At
  <1>4. CASE UploadBatch(j)
    <2>1. PICK batch : job'[j] = [job[j] EXCEPT !.todo = job[j].todo \ batch]
      BY <1>4, Becomes DEF UploadBatch
    <2>2. At(j, "upload") /\ collection' = collection
      BY <1>4 DEF UploadBatch
    <2>3. /\ job'[j] \in JobType /\ job'[j].pc = "upload" /\ job'[j].source = job[j].source
          /\ job'[j].todo = job[j].todo \ batch
      BY <1>0, <2>1, <2>2 DEF JobType, At
    <2> QED
      BY <2>2, <2>3 DEF JobAt, At
  <1>5. CASE UploadEnds(j) \/ (UploadCreate(j) /\ collection)
    <2>1. job'[j] = Idle
      BY <1>5, Becomes DEF UploadEnds, UploadCreate
    <2> QED
      BY <2>1, IdleType DEF JobAt
  <1> QED
    BY <1>1, <1>2, <1>3, <1>4, <1>5

LEMMA InitKeeps ==
  ASSUME TypeOK, NEW j \in Jobs, JobAt(j),
         InitStart(j) \/ InitSchema(j) \/ InitRead(j) \/ InitUpsert(j) \/ InitCommit(j)
  PROVE  job'[j] \in JobType /\ JobAt(j)' /\ ~Uploads(j)'
  <1>0. job[j] \in JobType
    BY DEF TypeOK
  <1>1. CASE InitStart(j)
    <2>1. PICK script \in {"init", "initOnly"} :
            job'[j] = [Idle EXCEPT !.script = script, !.pc = "schema"]
      BY <1>1, Becomes DEF InitStart
    <2>2. job'[j] \in JobType /\ job'[j].pc = "schema" /\ job'[j].written = {}
      BY <2>1 DEF Idle, JobType, Places, Kinds
    <2> QED
      BY <2>2 DEF JobAt, Uploads
  <1>2. CASE InitSchema(j)
    <2>1. job'[j] = [job[j] EXCEPT !.pc = "read"] /\ "read" \in Places /\ At(j, "schema")
      BY <1>2, Becomes DEF InitSchema, Goto, Places
    <2>2. job'[j] \in JobType /\ job'[j].pc = "read" /\ job'[j].written = job[j].written
      BY <1>0, <2>1, Goes
    <2> QED
      BY <2>1, <2>2 DEF JobAt, At, Uploads
  <1>3. CASE InitRead(j) /\ parquet # NoFile
    <2>1. /\ job'[j] = [job[j] EXCEPT !.pc = "upsert", !.source = parquet, !.todo = Range(parquet)]
          /\ parquet \in Files /\ At(j, "read")
      BY <1>3, Becomes DEF InitRead, TypeOK
    <2>2. Range(parquet) \subseteq Nat
      BY <2>1, FileFacts
    <2>3. /\ job'[j] \in JobType /\ job'[j].pc = "upsert" /\ job'[j].source = parquet
          /\ job'[j].todo = Range(parquet) /\ job'[j].written = job[j].written
      BY <1>0, <2>1, <2>2, ZenonT(40) DEF JobType, Places
    <2>4. job[j].written = {}
      BY <2>1 DEF JobAt, At, Uploads
    <2> QED
      BY <2>1, <2>3, <2>4 DEF JobAt, Uploads
  <1>4. CASE InitUpsert(j)
    <2> DEFINE m == NextModel(j)
    <2>1. /\ job'[j] = Took(job[j], job[j].todo \ {m}, job[j].written \union {m})
          /\ At(j, "upsert") /\ job[j].todo # {}
      BY <1>4, Becomes DEF InitUpsert, WriteRow, Took
    <2>2. m \in job[j].todo
      BY <2>1, NextIsTodo
    <2>3. job[j].source \in Files /\ job[j].todo \union job[j].written = Range(job[j].source)
      BY <2>1 DEF JobAt, At, Uploads
    <2>4. m \in Models
      BY <2>2, <2>3, FileFacts
    <2> HIDE DEF m
    <2>5. /\ job'[j] \in JobType /\ job'[j].pc = "upsert" /\ job'[j].source = job[j].source
          /\ job'[j].todo = job[j].todo \ {m} /\ job'[j].written = job[j].written \union {m}
      <3>1. /\ job[j].todo \ {m} \in SUBSET Nat /\ job[j].written \union {m} \in SUBSET Models
        BY <1>0, <2>4, JobFields
      <3> QED
        BY <1>0, <2>1, <3>1, Takes DEF At
    <2> QED
      BY <2>2, <2>3, <2>5 DEF JobAt, Uploads
  <1>5. CASE InitCommit(j) /\ job[j].script = "init"
    <2>1. job'[j] = [Idle EXCEPT !.script = "init", !.pc = "select"]
      BY <1>5, Becomes DEF InitCommit
    <2>2. job'[j] \in JobType /\ job'[j].pc = "select"
      BY <2>1 DEF Idle, JobType, Places, Kinds
    <2> QED
      BY <2>2 DEF JobAt, Uploads
  <1>6. CASE (InitCommit(j) /\ job[j].script # "init") \/ (InitRead(j) /\ parquet = NoFile)
    <2>1. job'[j] = Idle
      BY <1>6, Becomes DEF InitCommit, InitRead
    <2> QED
      BY <2>1, IdleType DEF JobAt, Uploads
  <1> QED
    BY <1>1, <1>2, <1>3, <1>4, <1>5, <1>6

LEMMA EnrichKeeps ==
  ASSUME TypeOK, NEW j \in Jobs, JobAt(j),
         \/ EnrichStart(j) \/ EnrichAfterInit(j) \/ EnrichFetch(j) \/ EnrichWrite(j) \/ EnrichEnds(j)
  PROVE  job'[j] \in JobType /\ JobAt(j)' /\ ~Uploads(j)'
  <1>0. job[j] \in JobType /\ Models \subseteq Nat /\ Rows \subseteq Models
    BY StoreAssumption DEF TypeOK, Rows
  <1>1. ASSUME NEW script \in {"init", "enrich"}, SelectMissing(j, script)
        PROVE  job'[j] \in JobType /\ JobAt(j)' /\ ~Uploads(j)'
    <2>1. PICK a \in SUBSET Rows, b \in SUBSET Rows, c \in SUBSET Rows :
            job'[j] = Begun(script, a, b, c) /\ c = a \union b
      <3> DEFINE noCard == {m \in Rows : j \in Forced \/ ~card[m]}
                 noCount == {m \in Rows : j \in Forced \/ ~[n \in Models |-> count[n] # "null"][m]}
      <3>1. job'[j] = Begun(script, noCard, noCount, noCard \union noCount)
        BY <1>1, Becomes DEF SelectMissing, Begun
      <3>2. noCard \in SUBSET Rows /\ noCount \in SUBSET Rows /\ noCard \union noCount \in SUBSET Rows
        OBVIOUS
      <3> HIDE DEF noCard, noCount
      <3> QED
        BY <3>1, <3>2
    <2>2. /\ job'[j] \in JobType /\ job'[j].pc = "fetch" /\ job'[j].noCard = a
          /\ job'[j].noCount = b /\ job'[j].todo = c
      <3>1. /\ a \in SUBSET Models /\ b \in SUBSET Models
            /\ c \in SUBSET Nat
            /\ script \in Kinds
        BY <1>0 DEF Kinds
      <3>2. /\ Begun(script, a, b, c) \in JobType /\ Begun(script, a, b, c).pc = "fetch"
            /\ Begun(script, a, b, c).noCard = a /\ Begun(script, a, b, c).noCount = b
            /\ Begun(script, a, b, c).todo = c
        BY <3>1 DEF Begun, Idle, JobType, Places
      <3> QED
        BY <2>1, <3>2, Zenon
    <2>3. Rows' = Rows
      BY <1>1 DEF SelectMissing, table, Rows
    <2> QED
      BY <2>1, <2>2, <2>3 DEF JobAt, Uploads
  <1>2. CASE EnrichFetch(j)
    <2>1. PICK m \in job[j].todo, hasCard \in BOOLEAN, number \in {"null", "exact"} :
            job'[j] = Fetched(job[j], job[j].todo \ {m}, <<m, hasCard, number>>)
      BY <1>2, Becomes DEF EnrichFetch, Fetched
    <2>2. At(j, "fetch") /\ Rows' = Rows
      BY <1>2 DEF EnrichFetch, table, Rows
    <2>3. m \in Rows
      BY <2>2 DEF JobAt, At, Uploads
    <2>4. /\ <<m, hasCard, number>> \in Models \X BOOLEAN \X {"null", "exact"}
          /\ <<m, hasCard, number>>[1] = m /\ <<m, hasCard, number>> # <<>>
      BY <1>0, <2>3
    <2>5. /\ job'[j] \in JobType /\ job'[j].pc = "write" /\ job'[j].todo = job[j].todo \ {m}
          /\ job'[j].noCard = job[j].noCard /\ job'[j].noCount = job[j].noCount
          /\ job'[j].got = <<m, hasCard, number>>
      <3>1. job[j].todo \ {m} \in SUBSET Nat
        BY <1>0, JobFields
      <3>2. <<m, hasCard, number>> \in {<<>>} \union (Models \X BOOLEAN \X {"null", "exact"})
        BY <2>4
      <3> QED
        BY <1>0, <2>1, <3>1, <3>2, Fetches
    <2> QED
      BY <2>2, <2>3, <2>4, <2>5 DEF JobAt, At, Uploads
  <1>3. CASE EnrichWrite(j)
    <2>1. /\ job'[j] = [job[j] EXCEPT !.pc = "fetch", !.got = <<>>, !.txn = FALSE]
          /\ At(j, "write") /\ Rows' = Rows
      BY <1>3, Becomes DEF EnrichWrite, Rows
    <2>2. /\ job'[j] \in JobType /\ job'[j].pc = "fetch" /\ job'[j].todo = job[j].todo
          /\ job'[j].noCard = job[j].noCard /\ job'[j].noCount = job[j].noCount
      BY <1>0, <2>1 DEF JobType, Places
    <2> QED
      BY <2>1, <2>2 DEF JobAt, At, Uploads
  <1>4. CASE EnrichEnds(j)
    <2>1. job'[j] = Idle
      BY <1>4, Becomes DEF EnrichEnds
    <2> QED
      BY <2>1, IdleType DEF JobAt, Uploads
  <1> QED
    BY <1>1, <1>2, <1>3, <1>4 DEF EnrichStart, EnrichAfterInit

LEMMA BackfillKeeps ==
  ASSUME TypeOK, NEW j \in Jobs, JobAt(j),
         BackfillSelect(j) \/ BackfillUpdate(j) \/ BackfillCommit(j)
  PROVE  job'[j] \in JobType /\ JobAt(j)' /\ ~Uploads(j)'
  <1>0. job[j] \in JobType /\ Models \subseteq Nat /\ Rows \subseteq Models
    BY StoreAssumption DEF TypeOK, Rows
  <1>1. CASE BackfillSelect(j)
    <2>1. PICK todo \in SUBSET Rows :
            job'[j] = BegunUpdate(todo)
      BY <1>1, Becomes DEF BackfillSelect, BegunUpdate
    <2>2. /\ job'[j] \in JobType /\ job'[j].pc = "update" /\ job'[j].todo = todo
          /\ job'[j].written = {}
      <3>1. todo \in SUBSET Nat
        BY <1>0
      <3> QED
        BY <2>1, <3>1, BeginsUpdate
    <2>3. Rows' = Rows
      BY <1>1 DEF BackfillSelect, table, Rows
    <2> QED
      BY <2>2, <2>3 DEF JobAt, Uploads
  <1>2. CASE BackfillUpdate(j)
    <2> DEFINE m == NextModel(j)
    <2>1. /\ job'[j] = Took(job[j], job[j].todo \ {m}, job[j].written \union {m})
          /\ At(j, "update") /\ job[j].todo # {} /\ Rows' = Rows
      BY <1>2, Becomes DEF BackfillUpdate, WriteRow, Took, table, Rows
    <2>2. m \in job[j].todo
      BY <2>1, NextIsTodo
    <2>3. m \in Rows /\ job[j].todo \union job[j].written \subseteq Rows
      BY <2>1, <2>2 DEF JobAt, At, Uploads
    <2> HIDE DEF m
    <2>4. /\ job'[j] \in JobType /\ job'[j].pc = "update" /\ job'[j].todo = job[j].todo \ {m}
          /\ job'[j].written = job[j].written \union {m}
      <3>1. /\ job[j].todo \ {m} \in SUBSET Nat /\ job[j].written \union {m} \in SUBSET Models
        BY <1>0, <2>3, JobFields
      <3> QED
        BY <1>0, <2>1, <3>1, Takes DEF At
    <2> QED
      BY <2>1, <2>3, <2>4 DEF JobAt, Uploads
  <1>3. CASE BackfillCommit(j)
    <2>1. job'[j] = Idle
      BY <1>3, Becomes DEF BackfillCommit
    <2> QED
      BY <2>1, IdleType DEF JobAt, Uploads
  <1> QED
    BY <1>1, <1>2, <1>3

-----------------------------------------------------------------------------
(* The two stores, as every step leaves them. *)
StoreType ==
  /\ collection \in BOOLEAN /\ uploaded \in BOOLEAN /\ loaded \in BOOLEAN
  /\ DOMAIN points \subseteq Ids /\ Range(points) \subseteq Models
  /\ chunks \in [Models -> SUBSET Ids]
  /\ count \in [Models -> Number]
  /\ card \in [Models -> BOOLEAN]

StoreKept ==
  /\ StoreType' /\ FilledInv' /\ LoadsAreWhole'
  /\ Rows \subseteq Rows' /\ (collection => collection')

LEMMA UntouchedKept ==
  ASSUME IInv, UNCHANGED <<points, table>>, collection' \in BOOLEAN, collection => collection',
         uploaded' \in BOOLEAN
  PROVE  StoreKept
  <1>1. Rows' = Rows
    BY DEF Rows, table
  <1>2. LoadsAreWhole'
    BY <1>1 DEF IInv, LoadsAreWhole, table
  <1> QED
    BY <1>1, <1>2 DEF StoreKept, StoreType, IInv, TypeOK, FilledInv, table

LEMMA BatchKept ==
  ASSUME IInv, NEW j \in Jobs, UploadBatch(j)
  PROVE  StoreKept
  <1> DEFINE f == job[j].source
  <1>1. PICK batch \in SUBSET job[j].todo :
          points' = [i \in batch \union DOMAIN points |-> IF i \in batch THEN f[i] ELSE points[i]]
    BY DEF UploadBatch
  <1>2. f \in Files /\ job[j].todo \subseteq DOMAIN f /\ collection
    BY DEF IInv, JobInv, JobAt, UploadBatch, At
  <1>3. UNCHANGED <<parquet, collection, uploaded, table>>
    BY DEF UploadBatch
  <1>4. DOMAIN f \subseteq Ids /\ Range(f) \subseteq Models
    BY <1>2, FileFacts
  <1>5. DOMAIN points \subseteq Ids /\ Range(points) \subseteq Models
    BY DEF IInv, TypeOK
  <1> HIDE DEF f
  <1>6. DOMAIN points' \subseteq Ids
    BY <1>1, <1>2, <1>4, <1>5
  <1>7. Range(points') \subseteq Models
    <2>1. ASSUME NEW i \in DOMAIN points'  PROVE points'[i] \in Models
      <3>1. CASE i \in batch
        BY <1>1, <1>2, <1>4, <3>1 DEF Range
      <3>2. CASE i \notin batch
        BY <1>1, <1>5, <2>1, <3>2 DEF Range
      <3> QED
        BY <3>1, <3>2
    <2> QED
      BY <2>1 DEF Range
  <1>8. Rows' = Rows
    BY <1>3 DEF Rows, table
  <1>9. LoadsAreWhole'
    BY <1>3, <1>8 DEF IInv, LoadsAreWhole, table
  <1>10. FilledInv'
    BY <1>2, <1>3, <1>8 DEF FilledInv, IInv, table
  <1> QED
    BY <1>3, <1>6, <1>7, <1>8, <1>9, <1>10 DEF StoreKept, StoreType, IInv, TypeOK, table

(* A committed load is one more whole file in the table. *)
LEMMA CommitKept ==
  ASSUME IInv, NEW j \in Jobs, InitCommit(j)
  PROVE  StoreKept
  <1> DEFINE f == job[j].source
             W == job[j].written
  <1>1. f \in Files /\ W = Range(f)
    BY DEF IInv, JobInv, JobAt, InitCommit, At
  <1>2. /\ chunks' = [m \in Models |-> IF m \in W THEN IdsOf(f, m) ELSE chunks[m]]
        /\ UNCHANGED <<collection, points, uploaded, count, card>>
        /\ loaded' = (loaded \/ f = parquet)
    BY DEF InitCommit, qdrant
  <1>3. DOMAIN f \subseteq Ids /\ Range(f) \subseteq Models
    BY <1>1, FileFacts
  <1> HIDE DEF f, W
  <1>4. \A m \in Models : IdsOf(f, m) \in SUBSET Ids
    BY <1>3 DEF IdsOf
  <1>5. chunks' \in [Models -> SUBSET Ids]
    BY <1>2, <1>4 DEF IInv, TypeOK
  <1>6. \A m \in W : m \in Models /\ IdsOf(f, m) # {}
    BY <1>1, <1>3 DEF IdsOf, Range
  <1>7. \A m \in Models : (m \in Rows' <=> m \in Rows \/ m \in W)
    BY <1>2, <1>6 DEF Rows
  <1>8. Rows' = Rows \union W
    BY <1>6, <1>7 DEF Rows
  <1>9. LoadsAreWhole'
    <2>1. PICK loads \in SUBSET Files :
            /\ Rows = UNION {Range(g) : g \in loads}
            /\ \A m \in Rows : \E g \in loads : chunks[m] = IdsOf(g, m)
      BY DEF IInv, LoadsAreWhole
    <2>2. loads \union {f} \in SUBSET Files
      BY <1>1
    <2>3. Rows' = UNION {Range(g) : g \in loads \union {f}}
      BY <1>1, <1>8, <2>1
    <2>4. ASSUME NEW m \in Rows'  PROVE \E g \in loads \union {f} : chunks'[m] = IdsOf(g, m)
      <3>0. m \in Models
        BY DEF Rows
      <3>1. CASE m \in W
        BY <1>2, <3>0, <3>1
      <3>2. CASE m \notin W
        <4>1. m \in Rows /\ chunks'[m] = chunks[m]
          BY <1>2, <1>8, <3>0, <3>2
        <4>2. PICK g \in loads : chunks[m] = IdsOf(g, m)
          BY <2>1, <4>1
        <4> QED
          BY <4>1, <4>2
      <3> QED
        BY <3>1, <3>2
    <2>5. /\ Rows' = UNION {Range(g) : g \in loads \union {f}}
          /\ \A m \in Rows' : \E g \in loads \union {f} : chunks'[m] = IdsOf(g, m)
      BY <2>3, <2>4
    <2> QED
      BY <2>2, <2>5, Zenon DEF LoadsAreWhole, IdsOf
  <1>10. FilledInv'
    BY <1>2, <1>8 DEF FilledInv, IInv
  <1> QED
    BY <1>2, <1>5, <1>8, <1>9, <1>10 DEF StoreKept, StoreType, IInv, TypeOK

(* Enrichment and backfill write rows of the table. *)
LEMMA WriteKept ==
  ASSUME IInv, NEW j \in Jobs, EnrichWrite(j)
  PROVE  StoreKept
  <1> DEFINE m == job[j].got[1]
  <1>0. job[j] \in JobType /\ JobAt(j) /\ At(j, "write")
    BY DEF IInv, TypeOK, JobInv, EnrichWrite
  <1>1. m \in Rows /\ job[j].got # <<>>
    BY <1>0 DEF JobAt, At
  <1>2. job[j].got \in Models \X BOOLEAN \X {"null", "exact"}
    BY <1>0, <1>1, JobFields, Zenon
  <1>3. job[j].got[2] \in BOOLEAN /\ job[j].got[3] \in {"null", "exact"}
    BY <1>2
  <1>4. /\ card' = [card EXCEPT ![m] = IF m \in job[j].noCard THEN job[j].got[2] ELSE @]
        /\ count' = [count EXCEPT ![m] = IF m \in job[j].noCount THEN job[j].got[3] ELSE @]
        /\ UNCHANGED <<collection, points, uploaded, chunks, loaded>>
    BY DEF EnrichWrite, qdrant
  <1> HIDE DEF m
  <1>5. Rows' = Rows /\ m \in Models
    BY <1>1, <1>4 DEF Rows
  <1>6. LoadsAreWhole'
    BY <1>4, <1>5 DEF IInv, LoadsAreWhole
  <1>7. card' \in [Models -> BOOLEAN] /\ count' \in [Models -> Number]
    BY <1>3, <1>4, <1>5 DEF IInv, TypeOK, Number
  <1>8. FilledInv'
    BY <1>1, <1>4, <1>5 DEF FilledInv, IInv, TypeOK
  <1> QED
    BY <1>4, <1>5, <1>6, <1>7, <1>8 DEF StoreKept, StoreType, IInv, TypeOK

LEMMA BackfillKept ==
  ASSUME IInv, NEW j \in Jobs, BackfillCommit(j)
  PROVE  StoreKept
  <1> DEFINE W == job[j].written
  <1>1. W \subseteq Rows
    BY DEF IInv, JobInv, JobAt, BackfillCommit, At
  <1>2. /\ count' = [m \in Models |-> IF m \in W THEN "nominal" ELSE count[m]]
        /\ UNCHANGED <<collection, points, uploaded, chunks, card, loaded>>
    BY DEF BackfillCommit, qdrant
  <1> HIDE DEF W
  <1>3. Rows' = Rows
    BY <1>2 DEF Rows
  <1>4. LoadsAreWhole'
    BY <1>2, <1>3 DEF IInv, LoadsAreWhole
  <1>5. count' \in [Models -> Number]
    BY <1>2 DEF IInv, TypeOK, Number
  <1>6. FilledInv'
    BY <1>1, <1>2, <1>3 DEF FilledInv, IInv
  <1> QED
    BY <1>2, <1>3, <1>4, <1>5, <1>6 DEF StoreKept, StoreType, IInv, TypeOK

-----------------------------------------------------------------------------
(* Every step. *)
LEMMA IdleKeeps ==
  ASSUME TypeOK, NEW j \in Jobs, Become(j, Idle)
  PROVE  job'[j] \in JobType /\ JobAt(j)' /\ ~Uploads(j)'
  <1>1. job'[j] = Idle
    BY Becomes
  <1> QED
    BY <1>1, IdleType DEF JobAt, Uploads

LEMMA StepKeeps ==
  ASSUME IInv, NEW j \in Jobs, Start(j) \/ Proceed(j) \/ Fail(j)
  PROVE  /\ job'[j] \in JobType /\ JobAt(j)'
         /\ job' = [job EXCEPT ![j] = job'[j]]
         /\ StoreKept /\ parquet' = parquet
  <1> USE DEF qdrant
  <1>0. TypeOK /\ JobAt(j) /\ collection \in BOOLEAN /\ uploaded \in BOOLEAN
    BY DEF IInv, JobInv, TypeOK
  <1>1. ASSUME NEW J, Become(j, J)
        PROVE  job' = [job EXCEPT ![j] = job'[j]]
    BY <1>0, <1>1 DEF Become, TypeOK
  <1>2. CASE UploadStart(j)
    <2>1. UNCHANGED <<parquet, qdrant, table>>
          /\ job' = [job EXCEPT ![j] = job'[j]]
      BY <1>1, <1>2 DEF UploadStart
    <2> QED
      BY <1>0, <1>2, <2>1, UploadKeeps, UntouchedKept
  <1>3. CASE UploadFind(j)
    <2>1. UNCHANGED <<parquet, qdrant, table>>
          /\ job' = [job EXCEPT ![j] = job'[j]]
      BY <1>1, <1>3 DEF UploadFind, Goto
    <2> QED
      BY <1>0, <1>3, <2>1, UploadKeeps, UntouchedKept
  <1>4. CASE UploadCreate(j)
    <2>1. UNCHANGED <<parquet, points, uploaded, table>> /\ collection'
          /\ job' = [job EXCEPT ![j] = job'[j]]
      BY <1>1, <1>4 DEF UploadCreate, Goto
    <2> QED
      BY <1>0, <1>4, <2>1, UploadKeeps, UntouchedKept
  <1>5. CASE UploadBatch(j)
    <2>1. parquet' = parquet /\ job' = [job EXCEPT ![j] = job'[j]]
      BY <1>1, <1>5 DEF UploadBatch
    <2> QED
      BY <1>0, <1>5, <2>1, UploadKeeps, BatchKept
  <1>6. CASE UploadEnds(j)
    <2>1. UNCHANGED <<parquet, collection, points, table>> /\ uploaded' \in BOOLEAN
          /\ job' = [job EXCEPT ![j] = job'[j]]
      BY <1>0, <1>1, <1>6 DEF UploadEnds
    <2> QED
      BY <1>0, <1>6, <2>1, UploadKeeps, UntouchedKept
  <1>7. CASE InitStart(j) \/ InitSchema(j) \/ InitRead(j) \/ InitUpsert(j)
    <2>1. UNCHANGED <<parquet, qdrant, table>>
          /\ job' = [job EXCEPT ![j] = job'[j]]
      BY <1>1, <1>7 DEF InitStart, InitSchema, InitRead, InitUpsert, WriteRow, Goto
    <2> QED
      BY <1>0, <1>7, <2>1, InitKeeps, UntouchedKept
  <1>8. CASE InitCommit(j)
    <2>1. parquet' = parquet /\ job' = [job EXCEPT ![j] = job'[j]]
      BY <1>1, <1>8 DEF InitCommit
    <2> QED
      BY <1>0, <1>8, <2>1, InitKeeps, CommitKept
  <1>9. CASE EnrichStart(j) \/ EnrichAfterInit(j) \/ EnrichFetch(j) \/ EnrichEnds(j)
    <2>1. UNCHANGED <<parquet, qdrant, table>>
          /\ job' = [job EXCEPT ![j] = job'[j]]
      BY <1>1, <1>9 DEF EnrichStart, EnrichAfterInit, EnrichFetch, EnrichEnds, SelectMissing
    <2> QED
      BY <1>0, <1>9, <2>1, EnrichKeeps, UntouchedKept
  <1>10. CASE EnrichWrite(j)
    <2>1. parquet' = parquet /\ job' = [job EXCEPT ![j] = job'[j]]
      BY <1>1, <1>10 DEF EnrichWrite
    <2> QED
      BY <1>0, <1>10, <2>1, EnrichKeeps, WriteKept
  <1>11. CASE BackfillSelect(j) \/ BackfillUpdate(j)
    <2>1. UNCHANGED <<parquet, qdrant, table>>
          /\ job' = [job EXCEPT ![j] = job'[j]]
      BY <1>1, <1>11 DEF BackfillSelect, BackfillUpdate, WriteRow
    <2> QED
      BY <1>0, <1>11, <2>1, BackfillKeeps, UntouchedKept
  <1>12. CASE BackfillCommit(j)
    <2>1. parquet' = parquet /\ job' = [job EXCEPT ![j] = job'[j]]
      BY <1>1, <1>12 DEF BackfillCommit
    <2> QED
      BY <1>0, <1>12, <2>1, BackfillKeeps, BackfillKept
  <1>13. CASE Fail(j) \/ DeadlockVictim(j)
    <2>1. UNCHANGED <<parquet, qdrant, table>> /\ Become(j, Idle)
          /\ job' = [job EXCEPT ![j] = job'[j]]
      BY <1>1, <1>13 DEF Fail, DeadlockVictim
    <2> QED
      BY <1>0, <1>13, <2>1, IdleKeeps, UntouchedKept
  <1> QED
    BY <1>2, <1>3, <1>4, <1>5, <1>6, <1>7, <1>8, <1>9, <1>10, <1>11, <1>12, <1>13
    DEF Start, Proceed

LEMMA InitIInv == Init => IInv
  <1> SUFFICES ASSUME Init PROVE IInv
    OBVIOUS
  <1>1. TypeOK
    <2>1. DOMAIN points = {} /\ Range(points) = {}
      BY DEF Init, Range
    <2>2. chunks \in [Models -> SUBSET Ids] /\ count \in [Models -> Number] /\ card \in [Models -> BOOLEAN]
      BY DEF Init, Number
    <2>3. job \in [Jobs -> JobType]
      BY IdleType DEF Init
    <2>4. /\ parquet \in Files \union {NoFile}
          /\ collection \in BOOLEAN /\ uploaded \in BOOLEAN /\ loaded \in BOOLEAN
      BY DEF Init
    <2> QED
      BY <2>1, <2>2, <2>3, <2>4 DEF TypeOK
  <1>2. JobInv
    BY IdleType DEF Init, JobInv, JobAt
  <1>3. Rows = {}
    BY DEF Init, Rows
  <1>4. FilledInv
    BY <1>3 DEF Init, FilledInv
  <1>5. LoadsAreWhole
    <2>1. {} \in SUBSET Files /\ Rows = UNION {Range(f) : f \in {}}
      BY <1>3
    <2> QED
      BY <1>3, <2>1 DEF LoadsAreWhole
  <1> QED
    BY <1>1, <1>2, <1>4, <1>5 DEF IInv

LEMMA NextIInv == IInv /\ [Next]_vars => IInv'
  <1> SUFFICES ASSUME IInv, [Next]_vars PROVE IInv'
    OBVIOUS
  <1>1. ASSUME NEW j \in Jobs, Start(j) \/ Proceed(j) \/ Fail(j)
        PROVE  IInv'
    <2>1. /\ job'[j] \in JobType /\ JobAt(j)'
          /\ job' = [job EXCEPT ![j] = job'[j]]
          /\ StoreKept /\ parquet' = parquet
      BY <1>1, StepKeeps
    <2>2. job' \in [Jobs -> JobType]
      BY <2>1 DEF IInv, TypeOK
    <2>3. TypeOK'
      BY <2>1, <2>2 DEF IInv, TypeOK, StoreKept, StoreType
    <2>4. ASSUME NEW k \in Jobs PROVE JobAt(k)'
      <3>1. CASE k = j
        BY <2>1, <3>1
      <3>2. CASE k # j
        <4>1. job'[k] = job[k] /\ JobAt(k) /\ Rows \subseteq Rows' /\ (collection => collection')
          BY <2>1, <3>2 DEF IInv, TypeOK, JobInv, StoreKept
        <4> QED
          BY <4>1, OthersKeep
      <3> QED
        BY <3>1, <3>2
    <2> QED
      BY <2>1, <2>3, <2>4 DEF IInv, JobInv, StoreKept
  <1>2. CASE Publish \/ UNCHANGED vars
    <2>1. /\ parquet' \in Files \union {NoFile} /\ uploaded' \in BOOLEAN /\ loaded' \in BOOLEAN
          /\ UNCHANGED <<collection, points, chunks, count, card, job>>
      BY <1>2 DEF Publish, vars, qdrant, table, IInv, TypeOK
    <2>2. Rows' = Rows
      BY <2>1 DEF Rows
    <2>3. TypeOK' /\ FilledInv'
      BY <2>1, <2>2 DEF IInv, TypeOK, FilledInv
    <2>4. LoadsAreWhole'
      BY <2>1, <2>2 DEF IInv, LoadsAreWhole
    <2>5. JobInv'
      BY <2>1, <2>2 DEF IInv, JobInv, JobAt
    <2> QED
      BY <2>3, <2>4, <2>5 DEF IInv
  <1> QED
    BY <1>1, <1>2 DEF Next

(* The state of the stores and of every job is always of its type, what a   *)
(* job has in hand belongs to what it read, only rows of the table are      *)
(* filled, and the table holds whole loads.                                 *)
THEOREM Inductive == Spec => []IInv
  BY InitIInv, NextIInv, PTL DEF Spec

(* A load is visible as a whole or not at all, however many loaders run,    *)
(* overlap, fail or are killed.                                             *)
THEOREM LoadsWhole == Spec => []LoadsAreWhole
  <1>1. IInv => LoadsAreWhole
    BY DEF IInv
  <1> QED
    BY <1>1, Inductive, PTL

-----------------------------------------------------------------------------
(* One file. *)
LEMMA CopiedChunks ==
  ASSUME FileStays, IInv, NEW f \in Files, NEW m \in Models
  PROVE  chunks[m] = {} \/ chunks[m] = IdsOf(f, m)
  <1>1. CASE m \in Rows
    <2>1. PICK g \in Files : chunks[m] = IdsOf(g, m)
      BY <1>1 DEF IInv, LoadsAreWhole
    <2>2. g = f
      BY DEF FileStays
    <2> QED
      BY <2>1, <2>2
  <1>2. CASE m \notin Rows
    BY <1>2 DEF Rows
  <1> QED
    BY <1>1, <1>2

(* What a step that writes no point, creates no upload and loads no file    *)
(* keeps of the copies.                                                     *)
LEMMA CopyStays ==
  ASSUME CopyInv, UNCHANGED <<parquet, points, chunks>>,
         uploaded' => uploaded, loaded' => loaded,
         \A k \in Jobs : Uploads(k)' => Uploads(k) /\ job'[k].todo = job[k].todo
  PROVE  CopyInv'
  BY DEF CopyInv, Uploads

LEMMA CopyUpload ==
  ASSUME FileStays, IInv, CopyInv, NEW j \in Jobs,
         \/ UploadStart(j) \/ UploadFind(j) \/ UploadCreate(j) \/ UploadBatch(j) \/ UploadEnds(j),
         job' = [job EXCEPT ![j] = job'[j]]
  PROVE  CopyInv'
  <1>0. /\ TypeOK /\ job[j] \in JobType /\ JobAt(j)
        /\ \A k \in Jobs \ {j} : job'[k] = job[k]
    BY DEF IInv, TypeOK, JobInv
  <1>1. CASE UploadStart(j)
    <2> DEFINE J == [Idle EXCEPT !.script = "upload", !.pc = "find",
                                 !.source = parquet, !.todo = DOMAIN parquet]
    <2>1. job'[j] = J /\ parquet \in Files /\ UNCHANGED <<parquet, qdrant, table>>
      BY <1>0, <1>1, Becomes DEF UploadStart, TypeOK
    <2>2. J.todo = DOMAIN parquet
      BY DEF Idle
    <2> HIDE DEF J
    <2>3. ASSUME NEW f \in Files PROVE DOMAIN f \ job'[j].todo = {}
      BY <2>1, <2>2, <2>3 DEF FileStays
    <2> QED
      BY <1>0, <2>1, <2>3 DEF CopyInv, qdrant, table
  <1>2. CASE UploadFind(j)
    <2> DEFINE pc == IF collection THEN "upload" ELSE "create"
    <2>1. job'[j] = [job[j] EXCEPT !.pc = pc] /\ pc \in Places /\ At(j, "find")
          /\ UNCHANGED <<parquet, qdrant, table>>
      BY <1>0, <1>2, Becomes DEF UploadFind, Goto, Places
    <2>2. job'[j].todo = job[j].todo
      BY <1>0, <2>1, Goes
    <2>3. Uploads(j)
      BY <2>1 DEF At, Uploads
    <2> QED
      BY <1>0, <2>1, <2>2, <2>3, CopyStays DEF qdrant, table, Uploads
  <1>3. CASE UploadCreate(j) /\ ~collection
    <2>1. job'[j] = [job[j] EXCEPT !.pc = "upload"] /\ "upload" \in Places /\ At(j, "create")
          /\ UNCHANGED <<parquet, points, uploaded, table>>
      BY <1>0, <1>3, Becomes DEF UploadCreate, Goto, Places
    <2>2. job'[j].todo = job[j].todo
      BY <1>0, <2>1, Goes
    <2>3. Uploads(j)
      BY <2>1 DEF At, Uploads
    <2> QED
      BY <1>0, <2>1, <2>2, <2>3, CopyStays DEF table, Uploads
  <1>4. CASE UploadBatch(j)
    <2>1. PICK batch \in SUBSET job[j].todo :
            /\ job'[j] = [job[j] EXCEPT !.todo = job[j].todo \ batch]
            /\ points' = [i \in batch \union DOMAIN points |->
                            IF i \in batch THEN job[j].source[i] ELSE points[i]]
      BY <1>0, <1>4, Becomes, ZenonT(40) DEF UploadBatch
    <2>2. At(j, "upload") /\ UNCHANGED <<parquet, collection, uploaded, table>>
      BY <1>4 DEF UploadBatch
    <2>3. job'[j].todo = job[j].todo \ batch
      BY <1>0, <2>1 DEF JobType
    <2>4. job[j].source \in Files /\ job[j].todo \subseteq DOMAIN job[j].source
      BY <1>0, <2>2 DEF JobAt, At
    <2>5. ASSUME NEW f \in Files
          PROVE  /\ \A i \in DOMAIN points' : i \in DOMAIN f /\ points'[i] = f[i]
                 /\ DOMAIN points \subseteq DOMAIN points'
                 /\ DOMAIN f \ job'[j].todo \subseteq DOMAIN points'
      <3>1. f = job[j].source
        BY <2>4 DEF FileStays
      <3>2. \A i \in DOMAIN points : i \in DOMAIN f /\ points[i] = f[i]
        BY DEF CopyInv
      <3>3. DOMAIN f \ job[j].todo \subseteq DOMAIN points
        BY <2>2 DEF CopyInv, At
      <3>4. DOMAIN points' = batch \union DOMAIN points
        BY <2>1
      <3>5. ASSUME NEW i \in DOMAIN points' PROVE i \in DOMAIN f /\ points'[i] = f[i]
        BY <2>1, <2>4, <3>1, <3>2, <3>4
      <3> QED
        BY <2>3, <3>3, <3>4, <3>5
    <2>6. ASSUME NEW f \in Files, NEW k \in Jobs, Uploads(k)'
          PROVE  DOMAIN f \ job'[k].todo \subseteq DOMAIN points'
      <3>1. CASE k = j
        BY <2>5, <3>1
      <3>2. CASE k # j
        BY <1>0, <2>5, <2>6, <3>2 DEF CopyInv, Uploads
      <3> QED
        BY <3>1, <3>2
    <2> QED
      BY <2>2, <2>5, <2>6 DEF CopyInv, table, Uploads
  <1>5. CASE UploadEnds(j)
    <2>1. job'[j] = Idle /\ At(j, "upload") /\ job[j].todo = {}
          /\ UNCHANGED <<parquet, collection, points, table>>
          /\ (uploaded' => uploaded \/ job[j].source = parquet)
      BY <1>0, <1>5, Becomes DEF UploadEnds
    <2>2. job[j].source # NoFile
      BY <1>0, <2>1, FileFacts DEF JobAt, At
    <2>3. \A k \in Jobs : Uploads(k)' => Uploads(k) /\ job'[k].todo = job[k].todo
      BY <1>0, <2>1, IdleType DEF Uploads
    <2>4. \A f \in Files : DOMAIN f \subseteq DOMAIN points
      BY <2>1 DEF CopyInv, At
    <2> QED
      BY <2>1, <2>2, <2>3, <2>4 DEF CopyInv, table, Uploads
  <1>6. CASE UploadCreate(j) /\ collection
    <2>1. job'[j] = Idle /\ UNCHANGED <<parquet, points, uploaded, table>>
      BY <1>0, <1>6, Becomes DEF UploadCreate
    <2>2. \A k \in Jobs : Uploads(k)' => Uploads(k) /\ job'[k].todo = job[k].todo
      BY <1>0, <2>1, IdleType DEF Uploads
    <2> QED
      BY <2>1, <2>2, CopyStays DEF table
  <1> QED
    BY <1>1, <1>2, <1>3, <1>4, <1>5, <1>6

LEMMA CopyCommit ==
  ASSUME FileStays, IInv, CopyInv, NEW j \in Jobs, InitCommit(j),
         \A k \in Jobs : Uploads(k)' => Uploads(k) /\ job'[k].todo = job[k].todo
  PROVE  CopyInv'
  <1> DEFINE W == job[j].written
             g == job[j].source
  <1>1. g \in Files /\ W = Range(g)
    BY DEF IInv, JobInv, JobAt, InitCommit, At
  <1>2. /\ chunks' = [m \in Models |-> IF m \in W THEN IdsOf(g, m) ELSE chunks[m]]
        /\ UNCHANGED <<parquet, points, uploaded>>
    BY DEF InitCommit, qdrant
  <1> HIDE DEF W, g
  <1>3. ASSUME NEW f \in Files, NEW m \in Models PROVE chunks'[m] = IdsOf(f, m)
    <2>1. f = g
      BY <1>1 DEF FileStays
    <2>2. CASE m \in W
      BY <1>2, <2>1, <2>2
    <2>3. CASE m \notin W
      <3>1. IdsOf(f, m) = {}
        BY <1>1, <2>1, <2>3 DEF IdsOf, Range
      <3> QED
        BY <1>2, <2>3, <3>1, CopiedChunks
    <2> QED
      BY <2>2, <2>3
  <1> QED
    BY <1>2, <1>3 DEF CopyInv, Uploads

LEMMA InitCopy == Init => CopyInv
  <1> SUFFICES ASSUME Init PROVE CopyInv
    OBVIOUS
  <1>1. DOMAIN points = {} /\ ~uploaded /\ ~loaded
    BY DEF Init
  <1>2. \A j \in Jobs : job[j].pc = "idle"
    BY IdleType DEF Init
  <1> QED
    BY <1>1, <1>2 DEF CopyInv

LEMMA NextCopy ==
  ASSUME FileStays, IInv, CopyInv, [Next]_vars
  PROVE  CopyInv'
  <1>1. ASSUME NEW j \in Jobs, Start(j) \/ Proceed(j) \/ Fail(j)
        PROVE  CopyInv'
    <2>1. TypeOK /\ JobAt(j)
      BY DEF IInv, JobInv
    <2>2. job' = [job EXCEPT ![j] = job'[j]] /\ \A k \in Jobs \ {j} : job'[k] = job[k]
      BY <1>1, <2>1, StepKeeps DEF TypeOK
    <2>3. CASE \/ UploadStart(j) \/ UploadFind(j) \/ UploadCreate(j) \/ UploadBatch(j) \/ UploadEnds(j)
      BY <2>2, <2>3, CopyUpload
    <2>4. ASSUME ~Uploads(j)'
          PROVE  \A k \in Jobs : Uploads(k)' => Uploads(k) /\ job'[k].todo = job[k].todo
      BY <2>2, <2>4 DEF Uploads
    <2>5. CASE InitCommit(j)
      BY <2>1, <2>4, <2>5, InitKeeps, CopyCommit
    <2>6. CASE InitStart(j) \/ InitSchema(j) \/ InitRead(j) \/ InitUpsert(j)
      <3>1. UNCHANGED <<parquet, qdrant, table>>
        BY <2>6 DEF InitStart, InitSchema, InitRead, InitUpsert
      <3> QED
        BY <2>1, <2>4, <2>6, <3>1, InitKeeps, CopyStays DEF qdrant, table
    <2>7. CASE \/ EnrichStart(j) \/ EnrichAfterInit(j) \/ EnrichFetch(j) \/ EnrichWrite(j)
               \/ EnrichEnds(j)
      <3>1. UNCHANGED <<parquet, qdrant, chunks, loaded>>
        BY <2>7 DEF EnrichStart, EnrichAfterInit, EnrichFetch, EnrichWrite, EnrichEnds,
                    SelectMissing, table
      <3> QED
        BY <2>1, <2>4, <2>7, <3>1, EnrichKeeps, CopyStays DEF qdrant
    <2>8. CASE BackfillSelect(j) \/ BackfillUpdate(j) \/ BackfillCommit(j)
      <3>1. UNCHANGED <<parquet, qdrant, chunks, loaded>>
        BY <2>8 DEF BackfillSelect, BackfillUpdate, BackfillCommit, table
      <3> QED
        BY <2>1, <2>4, <2>8, <3>1, BackfillKeeps, CopyStays DEF qdrant
    <2>9. CASE Fail(j) \/ DeadlockVictim(j)
      <3>1. UNCHANGED <<parquet, qdrant, table>> /\ Become(j, Idle)
        BY <2>9 DEF Fail, DeadlockVictim
      <3> QED
        BY <2>1, <2>4, <3>1, IdleKeeps, CopyStays DEF qdrant, table
    <2> QED
      BY <1>1, <2>3, <2>5, <2>6, <2>7, <2>8, <2>9 DEF Start, Proceed
  <1>2. CASE Publish
    <2>1. UNCHANGED <<points, job>> /\ ~uploaded' /\ ~loaded'
      BY <1>2 DEF Publish
    <2> QED
      BY <2>1 DEF CopyInv
  <1>3. CASE UNCHANGED vars
    BY <1>3 DEF CopyInv, vars, qdrant, table
  <1> QED
    BY <1>1, <1>2, <1>3 DEF Next

LEMMA CopiesAgree ==
  ASSUME IInv, CopyInv
  PROVE  StoresAgree
  <1> SUFFICES ASSUME uploaded, loaded, NEW m \in Models
               PROVE  chunks[m] = {i \in DOMAIN points : points[i] = m}
    BY DEF StoresAgree
  <1>1. parquet \in Files
    BY DEF CopyInv, IInv, TypeOK
  <1>2. /\ \A i \in DOMAIN points : i \in DOMAIN parquet /\ points[i] = parquet[i]
        /\ DOMAIN parquet \subseteq DOMAIN points
        /\ chunks[m] = IdsOf(parquet, m)
    BY <1>1 DEF CopyInv
  <1> QED
    BY <1>2 DEF IdsOf

(* As long as the file is not replaced, the point ids PostgreSQL lists for  *)
(* a model are the points Qdrant has of it, once the file has been loaded   *)
(* into both, while loaders overlap, fail and run again.                    *)
THEOREM LoadersAgree == FileStays /\ Spec => []StoresAgree
  <1> SUFFICES ASSUME FileStays PROVE Spec => []StoresAgree
    OBVIOUS
  <1>1. IInv /\ CopyInv /\ [Next]_vars => CopyInv'
    BY NextCopy
  <1>2. IInv /\ CopyInv => StoresAgree
    BY CopiesAgree
  <1> QED
    BY <1>1, <1>2, InitCopy, InitIInv, NextIInv, PTL DEF Spec

-----------------------------------------------------------------------------
(* One terminal for the scripts that fill columns. *)
(* A job that fills no column has nothing to lose by what others write. *)
LEMMA MissingStays ==
  ASSUME NEW k \in Jobs, MissingAt(k), job'[k] = job[k],
         UNCHANGED <<count, card>> \/ job[k].script \notin Fillers
  PROVE  MissingAt(k)'
  BY DEF MissingAt

LEMMA MissingUpload ==
  ASSUME TypeOK, NEW j \in Jobs, MissingAt(j),
         \/ UploadStart(j) \/ UploadFind(j) \/ UploadCreate(j) \/ UploadBatch(j) \/ UploadEnds(j)
  PROVE  MissingAt(j)'
  <1>0. job[j] \in JobType
    BY DEF TypeOK
  <1>1. CASE UploadStart(j)
    <2> DEFINE J == [Idle EXCEPT !.script = "upload", !.pc = "find",
                                 !.source = parquet, !.todo = DOMAIN parquet]
    <2>1. job'[j] = J /\ "upload" \in Scripts[j]
      BY <1>1, Becomes DEF UploadStart, CanStart
    <2>2. J.pc = "find" /\ J.script = "upload"
      BY DEF Idle
    <2> HIDE DEF J
    <2> QED
      BY <2>1, <2>2 DEF MissingAt
  <1>2. CASE UploadFind(j) \/ (UploadCreate(j) /\ ~collection)
    <2>1. PICK pc \in {"create", "upload"} : job'[j] = [job[j] EXCEPT !.pc = pc]
      BY <1>2, Becomes DEF UploadFind, UploadCreate, Goto
    <2>2. job[j].pc # "idle"
      BY <1>2 DEF UploadFind, UploadCreate, At
    <2>3. job'[j].pc = pc /\ job'[j].script = job[j].script
      BY <1>0, <2>1, Goes DEF Places
    <2> QED
      BY <2>2, <2>3 DEF MissingAt
  <1>3. CASE UploadBatch(j)
    <2>1. PICK batch : job'[j] = [job[j] EXCEPT !.todo = job[j].todo \ batch]
      BY <1>3, Becomes DEF UploadBatch
    <2>2. job[j].pc = "upload"
      BY <1>3 DEF UploadBatch, At
    <2>3. job'[j].pc = "upload" /\ job'[j].script = job[j].script
      BY <1>0, <2>1, <2>2 DEF JobType
    <2> QED
      BY <2>2, <2>3 DEF MissingAt
  <1>4. CASE UploadEnds(j) \/ (UploadCreate(j) /\ collection)
    <2>1. job'[j] = Idle
      BY <1>4, Becomes DEF UploadEnds, UploadCreate
    <2> QED
      BY <2>1, IdleType DEF MissingAt
  <1> QED
    BY <1>1, <1>2, <1>3, <1>4

LEMMA MissingInit ==
  ASSUME TypeOK, NEW j \in Jobs, JobAt(j), MissingAt(j),
         InitStart(j) \/ InitSchema(j) \/ InitRead(j) \/ InitUpsert(j) \/ InitCommit(j)
  PROVE  MissingAt(j)'
  <1>0. job[j] \in JobType
    BY DEF TypeOK
  <1>1. CASE InitStart(j)
    <2>1. PICK script \in {"init", "initOnly"} :
            job'[j] = [Idle EXCEPT !.script = script, !.pc = "schema"] /\ script \in Scripts[j]
      BY <1>1, Becomes DEF InitStart, CanStart
    <2>2. job'[j].pc = "schema" /\ job'[j].script = script
      BY <2>1 DEF Idle
    <2> QED
      BY <2>1, <2>2 DEF MissingAt
  <1>2. CASE InitSchema(j)
    <2>1. job'[j] = [job[j] EXCEPT !.pc = "read"] /\ At(j, "schema")
      BY <1>2, Becomes DEF InitSchema, Goto
    <2>2. job'[j].pc = "read" /\ job'[j].script = job[j].script
      BY <1>0, <2>1, Goes DEF Places
    <2> QED
      BY <2>1, <2>2 DEF MissingAt, At
  <1>3. CASE InitRead(j) /\ parquet # NoFile
    <2>1. /\ job'[j] = [job[j] EXCEPT !.pc = "upsert", !.source = parquet, !.todo = Range(parquet)]
          /\ At(j, "read")
      BY <1>3, Becomes DEF InitRead
    <2>2. job'[j].pc = "upsert" /\ job'[j].script = job[j].script
      BY <1>0, <2>1 DEF JobType
    <2> QED
      BY <2>1, <2>2 DEF MissingAt, At
  <1>4. CASE InitUpsert(j)
    <2>1. PICK m : /\ job'[j] = Took(job[j], job[j].todo \ {m}, job[j].written \union {m})
                   /\ At(j, "upsert")
      BY <1>4, Becomes DEF InitUpsert, WriteRow, Took
    <2>2. job'[j].pc = "upsert" /\ job'[j].script = job[j].script
      BY <1>0, <2>1 DEF JobType, Took, At
    <2> QED
      BY <2>1, <2>2 DEF MissingAt, At
  <1>5. CASE InitCommit(j) /\ job[j].script = "init"
    <2>1. job'[j] = [Idle EXCEPT !.script = "init", !.pc = "select"] /\ At(j, "upsert")
      BY <1>5, Becomes DEF InitCommit
    <2>2. job'[j].pc = "select" /\ job'[j].script = "init"
      BY <2>1 DEF Idle
    <2>3. "init" \in Scripts[j]
      BY <1>5, <2>1 DEF MissingAt, At
    <2> QED
      BY <2>2, <2>3 DEF MissingAt, Fillers
  <1>6. CASE (InitCommit(j) /\ job[j].script # "init") \/ (InitRead(j) /\ parquet = NoFile)
    <2>1. job'[j] = Idle
      BY <1>6, Becomes DEF InitCommit, InitRead
    <2> QED
      BY <2>1, IdleType DEF MissingAt
  <1> QED
    BY <1>1, <1>2, <1>3, <1>4, <1>5, <1>6

LEMMA MissingEnrich ==
  ASSUME OneTerminal, TypeOK, NEW j \in Jobs, JobAt(j), MissingAt(j),
         \/ EnrichStart(j) \/ EnrichAfterInit(j) \/ EnrichFetch(j) \/ EnrichWrite(j) \/ EnrichEnds(j)
  PROVE  MissingAt(j)'
  <1>0. job[j] \in JobType /\ Rows \subseteq Models
    BY DEF TypeOK, Rows
  <1>1. ASSUME NEW script \in {"init", "enrich"}, SelectMissing(j, script), script \in Scripts[j]
        PROVE  MissingAt(j)'
    <2>1. PICK a \in SUBSET Rows, b \in SUBSET Rows, c \in SUBSET Rows :
            /\ job'[j] = Begun(script, a, b, c)
            /\ \A m \in a : ~card[m]
            /\ \A m \in b : count[m] = "null"
      <3> DEFINE noCard == {m \in Rows : j \in Forced \/ ~card[m]}
                 noCount == {m \in Rows : j \in Forced \/ ~[n \in Models |-> count[n] # "null"][m]}
      <3>1. job'[j] = Begun(script, noCard, noCount, noCard \union noCount)
        BY <1>1, Becomes DEF SelectMissing, Begun
      <3>2. /\ noCard \in SUBSET Rows /\ noCount \in SUBSET Rows /\ noCard \union noCount \in SUBSET Rows
            /\ \A m \in noCard : ~card[m]
            /\ \A m \in noCount : count[m] = "null"
        BY <1>0 DEF OneTerminal
      <3> HIDE DEF noCard, noCount
      <3> QED
        BY <3>1, <3>2
    <2>2. /\ job'[j].pc = "fetch" /\ job'[j].noCard = a /\ job'[j].noCount = b
          /\ job'[j].script = script
      BY <2>1 DEF Begun, Idle
    <2>3. UNCHANGED <<count, card>>
      BY <1>1 DEF SelectMissing, table
    <2> QED
      BY <1>1, <2>1, <2>2, <2>3 DEF MissingAt, Fillers
  <1>2. CASE EnrichFetch(j)
    <2>1. PICK m \in job[j].todo, hasCard \in BOOLEAN, number \in {"null", "exact"} :
            job'[j] = Fetched(job[j], job[j].todo \ {m}, <<m, hasCard, number>>)
      BY <1>2, Becomes DEF EnrichFetch, Fetched
    <2>2. At(j, "fetch") /\ UNCHANGED <<count, card>>
      BY <1>2 DEF EnrichFetch, table
    <2>3. m \in Rows
      BY <2>2 DEF JobAt, At
    <2>4. /\ <<m, hasCard, number>> \in Models \X BOOLEAN \X {"null", "exact"}
          /\ <<m, hasCard, number>>[1] = m /\ <<m, hasCard, number>> # <<>>
      BY <1>0, <2>3
    <2>5. /\ job'[j].pc = "write" /\ job'[j].todo = job[j].todo \ {m}
          /\ job'[j].noCard = job[j].noCard /\ job'[j].noCount = job[j].noCount
          /\ job'[j].script = job[j].script
          /\ job'[j].got # <<>> /\ job'[j].got[1] = m
      BY <1>0, <2>1, <2>4 DEF JobType, Fetched
    <2>6. /\ job[j].script \in Scripts[j] /\ job[j].script \in Fillers
          /\ \A n \in job[j].todo : /\ n \in job[j].noCard => ~card[n]
                                    /\ n \in job[j].noCount => count[n] = "null"
      BY <2>2 DEF MissingAt, At
    <2> QED
      BY <2>1, <2>2, <2>5, <2>6 DEF MissingAt
  <1>3. CASE EnrichWrite(j)
    <2> DEFINE m == job[j].got[1]
    <2>1. /\ job'[j] = [job[j] EXCEPT !.pc = "fetch", !.got = <<>>, !.txn = FALSE]
          /\ At(j, "write")
          /\ card' = [card EXCEPT ![m] = IF m \in job[j].noCard THEN job[j].got[2] ELSE @]
          /\ count' = [count EXCEPT ![m] = IF m \in job[j].noCount THEN job[j].got[3] ELSE @]
      BY <1>3, Becomes DEF EnrichWrite
    <2>2. /\ job'[j].pc = "fetch" /\ job'[j].todo = job[j].todo
          /\ job'[j].noCard = job[j].noCard /\ job'[j].noCount = job[j].noCount
          /\ job'[j].script = job[j].script
      BY <1>0, <2>1 DEF JobType
    <2>3. /\ job[j].script \in Scripts[j] /\ job[j].script \in Fillers
          /\ m \notin job[j].todo
          /\ \A n \in job[j].todo : /\ n \in job[j].noCard => ~card[n]
                                    /\ n \in job[j].noCount => count[n] = "null"
      BY <2>1 DEF MissingAt, At
    <2> HIDE DEF m
    <2>4. \A n \in job[j].todo : n \in Models
      BY <1>0, <2>1 DEF JobAt, At
    <2>5. \A n \in job[j].todo : card'[n] = card[n] /\ count'[n] = count[n]
      BY <2>1, <2>3, <2>4 DEF TypeOK
    <2> QED
      BY <2>2, <2>3, <2>5 DEF MissingAt
  <1>4. CASE EnrichEnds(j)
    <2>1. job'[j] = Idle
      BY <1>4, Becomes DEF EnrichEnds
    <2> QED
      BY <2>1, IdleType DEF MissingAt
  <1>5. CASE EnrichStart(j)
    BY <1>1, <1>5 DEF EnrichStart, CanStart
  <1>6. CASE EnrichAfterInit(j)
    BY <1>1, <1>6 DEF EnrichAfterInit, MissingAt, At
  <1> QED
    BY <1>2, <1>3, <1>4, <1>5, <1>6

LEMMA MissingBackfill ==
  ASSUME TypeOK, NEW j \in Jobs, JobAt(j), MissingAt(j),
         BackfillSelect(j) \/ BackfillUpdate(j) \/ BackfillCommit(j)
  PROVE  MissingAt(j)'
  <1>0. job[j] \in JobType
    BY DEF TypeOK
  <1>1. CASE BackfillSelect(j)
    <2>1. PICK todo \in SUBSET Rows :
            job'[j] = BegunUpdate(todo) /\ \A m \in todo : count[m] = "null"
      <3> DEFINE null == {m \in Rows \intersect Sized : count[m] = "null"}
      <3>1. job'[j] = BegunUpdate(null)
        BY <1>1, Becomes DEF BackfillSelect, BegunUpdate
      <3>2. null \in SUBSET Rows /\ \A m \in null : count[m] = "null"
        OBVIOUS
      <3> HIDE DEF null
      <3> QED
        BY <3>1, <3>2
    <2>2. /\ job'[j].pc = "update" /\ job'[j].todo = todo /\ job'[j].written = {}
          /\ job'[j].script = "backfill"
      BY <2>1 DEF BegunUpdate, Idle
    <2>3. UNCHANGED <<count, card>> /\ "backfill" \in Scripts[j]
      BY <1>1 DEF BackfillSelect, CanStart, table
    <2> QED
      BY <2>1, <2>2, <2>3 DEF MissingAt, Fillers
  <1>2. CASE BackfillUpdate(j)
    <2> DEFINE m == NextModel(j)
    <2>1. /\ job'[j] = Took(job[j], job[j].todo \ {m}, job[j].written \union {m})
          /\ At(j, "update") /\ job[j].todo # {} /\ UNCHANGED <<count, card>>
      BY <1>2, Becomes DEF BackfillUpdate, WriteRow, Took, table
    <2>2. m \in job[j].todo
      BY <2>1, NextIsTodo
    <2> HIDE DEF m
    <2>3. /\ job'[j].pc = "update" /\ job'[j].todo = job[j].todo \ {m}
          /\ job'[j].written = job[j].written \union {m} /\ job'[j].script = job[j].script
      BY <1>0, <2>1 DEF JobType, Took, At
    <2>4. /\ job[j].script \in Scripts[j] /\ job[j].script \in Fillers
          /\ \A n \in job[j].todo \union job[j].written : count[n] = "null"
      BY <2>1 DEF MissingAt, At
    <2> QED
      BY <2>1, <2>2, <2>3, <2>4 DEF MissingAt
  <1>3. CASE BackfillCommit(j)
    <2>1. job'[j] = Idle
      BY <1>3, Becomes DEF BackfillCommit
    <2> QED
      BY <2>1, IdleType DEF MissingAt
  <1> QED
    BY <1>1, <1>2, <1>3

(* Only a job that fills columns writes them, and only what was missing.    *)
Stays == \A m \in Models : /\ card[m] => card'[m]
                           /\ count[m] # "null" => count'[m] = count[m]

LEMMA StepFills ==
  ASSUME IInv, NEW j \in Jobs, MissingAt(j), Start(j) \/ Proceed(j) \/ Fail(j)
  PROVE  /\ UNCHANGED <<count, card>> \/ job[j].script \in Fillers \intersect Scripts[j]
         /\ Stays
  <1>1. CASE EnrichWrite(j)
    <2> DEFINE m == job[j].got[1]
    <2>1. /\ At(j, "write")
          /\ card' = [card EXCEPT ![m] = IF m \in job[j].noCard THEN job[j].got[2] ELSE @]
          /\ count' = [count EXCEPT ![m] = IF m \in job[j].noCount THEN job[j].got[3] ELSE @]
      BY <1>1 DEF EnrichWrite
    <2>2. /\ job[j].script \in Scripts[j] /\ job[j].script \in Fillers
          /\ m \in job[j].noCard => ~card[m]
          /\ m \in job[j].noCount => count[m] = "null"
      BY <2>1 DEF MissingAt, At
    <2> HIDE DEF m
    <2>3. card \in [Models -> BOOLEAN] /\ count \in [Models -> Number]
      BY DEF IInv, TypeOK
    <2> QED
      BY <2>1, <2>2, <2>3 DEF Stays
  <1>2. CASE BackfillCommit(j)
    <2>1. /\ At(j, "update")
          /\ count' = [m \in Models |-> IF m \in job[j].written THEN "nominal" ELSE count[m]]
          /\ card' = card
      BY <1>2 DEF BackfillCommit
    <2>2. /\ job[j].script \in Scripts[j] /\ job[j].script \in Fillers
          /\ \A m \in job[j].written : count[m] = "null"
      BY <2>1 DEF MissingAt, At
    <2> QED
      BY <2>1, <2>2 DEF Stays
  <1>3. CASE UNCHANGED <<count, card>>
    BY <1>3 DEF Stays
  <1>4. EnrichWrite(j) \/ BackfillCommit(j) \/ UNCHANGED <<count, card>>
    <2> USE DEF table
    <2>1. CASE Start(j)
      BY <2>1 DEF Start, UploadStart, InitStart, EnrichStart, BackfillSelect, SelectMissing
    <2>2. CASE \/ UploadFind(j) \/ UploadCreate(j) \/ UploadBatch(j) \/ UploadEnds(j)
               \/ InitSchema(j) \/ InitRead(j) \/ InitUpsert(j) \/ InitCommit(j)
      BY <2>2 DEF UploadFind, UploadCreate, UploadBatch, UploadEnds, InitSchema, InitRead,
                  InitUpsert, InitCommit
    <2>3. CASE \/ EnrichAfterInit(j) \/ EnrichFetch(j) \/ EnrichWrite(j) \/ EnrichEnds(j)
               \/ BackfillUpdate(j) \/ BackfillCommit(j) \/ DeadlockVictim(j) \/ Fail(j)
      BY <2>3 DEF EnrichAfterInit, SelectMissing, EnrichFetch, EnrichEnds, BackfillUpdate,
                  DeadlockVictim, Fail
    <2> QED
      BY <2>1, <2>2, <2>3 DEF Proceed
  <1> QED
    BY <1>1, <1>2, <1>3, <1>4

LEMMA InitMissing == Init => MissingInv
  BY IdleType DEF Init, MissingInv, MissingAt

LEMMA NextMissing ==
  ASSUME OneTerminal, IInv, MissingInv, [Next]_vars
  PROVE  MissingInv' /\ Stays
  <1>1. ASSUME NEW j \in Jobs, Start(j) \/ Proceed(j) \/ Fail(j)
        PROVE  MissingInv' /\ Stays
    <2>1. TypeOK /\ JobAt(j) /\ MissingAt(j)
      BY DEF IInv, JobInv, MissingInv
    <2>2. /\ UNCHANGED <<count, card>> \/ job[j].script \in Fillers \intersect Scripts[j]
          /\ Stays
      BY <1>1, <2>1, StepFills
    <2>3. \A k \in Jobs \ {j} : job'[k] = job[k]
      BY <1>1, <2>1, StepKeeps DEF TypeOK
    <2>4. MissingAt(j)'
      <3>1. CASE Become(j, Idle)
        <4>1. job'[j] = Idle
          BY <2>1, <3>1, Becomes
        <4> QED
          BY <4>1, IdleType DEF MissingAt
      <3>2. CASE Fail(j) \/ DeadlockVictim(j)
        BY <3>1, <3>2 DEF Fail, DeadlockVictim
      <3> QED
        BY <1>1, <2>1, <3>2, MissingUpload, MissingInit, MissingEnrich, MissingBackfill
        DEF Start, Proceed
    <2>5. ASSUME NEW k \in Jobs \ {j} PROVE MissingAt(k)'
      <3>1. MissingAt(k) /\ job'[k] = job[k]
        BY <2>3 DEF MissingInv
      <3>2. CASE UNCHANGED <<count, card>>
        BY <3>1, <3>2, MissingStays
      <3>3. CASE job[j].script \in Fillers \intersect Scripts[j]
        <4>1. Scripts[k] \intersect Fillers = {}
          BY <3>3 DEF OneTerminal
        <4>2. CASE job[k].pc = "idle"
          BY <3>1, <4>2 DEF MissingAt
        <4>3. CASE job[k].pc # "idle"
          <5>1. job[k].script \notin Fillers
            BY <3>1, <4>1, <4>3 DEF MissingAt
          <5> QED
            BY <3>1, <5>1, MissingStays
        <4> QED
          BY <4>2, <4>3
      <3> QED
        BY <2>2, <3>2, <3>3
    <2> QED
      BY <2>2, <2>4, <2>5 DEF MissingInv
  <1>2. CASE Publish \/ UNCHANGED vars
    <2>1. UNCHANGED <<count, card, job>>
      BY <1>2 DEF Publish, vars, table
    <2> QED
      BY <2>1 DEF MissingInv, MissingAt, Stays
  <1> QED
    BY <1>1, <1>2 DEF Next

(* As long as the scripts that fill columns run in one terminal, without    *)
(* --force, no load, enrichment or backfill takes away or changes a card or *)
(* a count that is stored.                                                  *)
THEOREM FillersKeep == OneTerminal /\ Spec => StoredStays
  <1> SUFFICES ASSUME OneTerminal PROVE Spec => StoredStays
    OBVIOUS
  <1>1. IInv /\ MissingInv /\ [Next]_vars => MissingInv'
    BY NextMissing
  <1>2. IInv /\ MissingInv /\ [Next]_vars => [Stays]_vars
    BY NextMissing
  <1>3. Spec => [][Stays]_vars
    BY <1>1, <1>2, InitMissing, InitIInv, NextIInv, PTL DEF Spec
  <1> QED
    BY <1>3, PTL DEF StoredStays, Stays

=============================================================================
