------------------------------ MODULE Ingestion ------------------------------
(***************************************************************************)
(* backend/ingestion/pipeline.py over its two stores: the documents,       *)
(* chunks and document_versions tables of SQLite (every statement commits  *)
(* by itself) and the vectors of Qdrant.  Requests run as coroutines of    *)
(* one event loop: a task is one request in flight, and an action is the   *)
(* code from one await to the next.                                        *)
(*                                                                         *)
(* Contents stand for file hashes; the i-th chunk of content c that        *)
(* survives chunking, scanning and deduplication is <<c, i>>.  A document  *)
(* is embedded once, so <<c, i>> of document d also names its vector.      *)
(*                                                                         *)
(* The field torn of a request and of the row it creates is auxiliary: the *)
(* file was written between the request's hash and its parse.              *)
(***************************************************************************)
EXTENDS Integers

CONSTANTS Task,         \* requests that may be in flight at once
          FilePath,     \* files on disk that clients ingest
          TextPath,     \* virtual:// paths of ingest_text
          Content,      \* file and text contents, identified with their hash
          NChunks,      \* [Content -> Nat]: chunks left to store
          Absent,       \* no such file, no content
          Versioning,   \* IngestionSettings.versioning_enabled
          Ops,          \* request kinds the clients send
          Faults,       \* what the environment may do wrong
          MaxRequests   \* bound on the requests of a behaviour

ASSUME NChunksAssumption == NChunks \in [Content -> Nat]
ASSUME ContentAssumption == Absent \notin Content
ASSUME PathAssumption    == FilePath \cap TextPath = {}
ASSUME BoundAssumption   == MaxRequests \in Nat \ {0}
ASSUME SettingAssumption ==
    /\ Versioning \in BOOLEAN
    /\ Ops \subseteq {"file", "text", "refresh", "delete"}
    /\ Faults \subseteq {"parse", "embed", "store", "crash"}

VARIABLES disk,      \* file contents
          docs,      \* documents rows; status "absent" where there is no row
          chunks,    \* chunks rows of each document
          vectors,   \* Qdrant points whose payload names the document
          versions,  \* number of document_versions rows of each document
          nextDoc,   \* next row to be inserted: rowid order
          requests,  \* requests accepted so far
          task       \* the coroutine of each task

stores == <<docs, chunks, vectors, versions, nextDoc>>
vars   == <<disk, stores, requests, task>>

Path   == FilePath \cup TextPath
DocId  == 1..MaxRequests
NoDoc  == 0
NoPath == Absent
Chunk  == Content \X Nat

ChunksOf(c)    == {<<c, i>> : i \in 1..NChunks[c]}
FirstOf(c, n)  == {<<c, i>> : i \in 1..n}

NoRow == [status |-> "absent", path |-> NoPath, hash |-> Absent, count |-> 0,
          torn |-> FALSE]
Idle  == [pc |-> "idle", op |-> "none", path |-> NoPath, hash |-> Absent,
          body |-> Absent, own |-> NoDoc, target |-> NoDoc, added |-> 0,
          torn |-> FALSE, outcome |-> "none", ret |-> NoDoc]

Live(d)     == docs[d].status # "absent"
Created     == {d \in DocId : d < nextDoc}
RowsAt(p)   == {d \in DocId : Live(d) /\ docs[d].path = p}
FirstRow(p) == CHOOSE d \in RowsAt(p) : \A e \in RowsAt(p) : d <= e

Init == /\ disk \in [FilePath -> Content \cup {Absent}]
        /\ docs = [d \in DocId |-> NoRow]
        /\ chunks = [d \in DocId |-> {}]
        /\ vectors = [d \in DocId |-> {}]
        /\ versions = [d \in DocId |-> 0]
        /\ nextDoc = 1
        /\ requests = 0
        /\ task = [t \in Task |-> Idle]

(***************************************************************************)
(* Statements of DocumentRepository and QdrantStore.                       *)
(***************************************************************************)
\* Mutant: an upsert instead of an UPDATE ... WHERE id = ?.
SetStatusOfMissingRow(d, s) == docs' = [docs EXCEPT ![d].status = s]

SetStatus(d, s) ==
    docs' = [docs EXCEPT ![d] = IF Live(d) THEN [@ EXCEPT !.status = s] ELSE @]

SetChunkCount(d, n) ==
    docs' = [docs EXCEPT ![d] =
                IF Live(d) THEN [@ EXCEPT !.status = "ready", !.count = n] ELSE @]

DeleteVectors(d) == vectors' = [vectors EXCEPT ![d] = {}]

(***************************************************************************)
(* Control of a coroutine.                                                 *)
(***************************************************************************)
At(t, where)    == task[t].pc = where
Goto(t, where)  == task' = [task EXCEPT ![t].pc = where]
Finish(t, how, d) ==
    task' = [task EXCEPT ![t] =
                [Idle EXCEPT !.op = task[t].op, !.hash = task[t].hash,
                             !.outcome = how, !.ret = d]]

\* Mutant: no except branch in _process.
RaiseUnmarked(t) == Finish(t, "error", NoDoc)

\* An exception: _process marks the document failed before it re-raises;
\* everywhere else, and in all of ingest_text, it just propagates.
Raise(t) ==
    IF task[t].own # NoDoc /\ task[t].op # "text"
    THEN Goto(t, "abort")
    ELSE Finish(t, "error", NoDoc)

\* Where a coroutine goes once the rows of the old version are out of the way.
AfterRetiring(op) == CASE op = "text"    -> "create"
                       [] op = "refresh" -> "rehash"
                       [] OTHER          -> "parse"

(***************************************************************************)
(* Requests.                                                               *)
(***************************************************************************)
Accept(t, r) ==
    /\ At(t, "idle")
    /\ requests < MaxRequests
    /\ requests' = requests + 1
    /\ task' = [task EXCEPT ![t] = r]
    /\ UNCHANGED <<disk, stores>>

StartIngestFile(t, p) ==
    /\ "file" \in Ops
    /\ disk[p] # Absent
    /\ Accept(t, [Idle EXCEPT !.pc = "lookup", !.op = "file",
                              !.path = p, !.hash = disk[p]])

StartIngestText(t, p, c) ==
    /\ "text" \in Ops
    /\ Accept(t, [Idle EXCEPT !.pc = "lookup", !.op = "text",
                              !.path = p, !.hash = c, !.body = c])

StartRefresh(t, d) ==
    /\ "refresh" \in Ops
    /\ Accept(t, [Idle EXCEPT !.pc = "fetch", !.op = "refresh", !.target = d])

StartDelete(t, d) ==
    /\ "delete" \in Ops
    /\ Accept(t, [Idle EXCEPT !.pc = "fetch", !.op = "delete", !.target = d])

(***************************************************************************)
(* get_document of delete_document and refresh_document; a refresh then    *)
(* wants the original file, which a virtual path never has.                *)
(***************************************************************************)
FileExists(p) == p \in FilePath /\ disk[p] # Absent

Fetch(t) ==
    LET d == task[t].target IN
    /\ At(t, "fetch")
    /\ \/ /\ task[t].op = "delete" /\ Live(d)
          /\ Goto(t, "drop_vectors")
       \/ /\ task[t].op = "refresh" /\ Live(d) /\ FileExists(docs[d].path)
          /\ task' = [task EXCEPT ![t].pc = "retire_version",
                                  ![t].path = docs[d].path]
       \/ /\ \/ ~Live(d)
             \/ task[t].op = "refresh" /\ ~FileExists(docs[d].path)
          /\ Finish(t, "error", NoDoc)
    /\ UNCHANGED <<disk, stores, requests>>

(***************************************************************************)
(* get_document_by_path returns the first matching row.  An unchanged      *)
(* ready document ends the request; any other is retired or dropped.       *)
(***************************************************************************)
Unchanged(t, d) == docs[d].status = "ready" /\ docs[d].hash = task[t].hash

\* Mutant: the path is looked up in another form than it was stored.
LookupMissesRow(t) ==
    /\ At(t, "lookup")
    /\ Goto(t, AfterRetiring(task[t].op))
    /\ UNCHANGED <<disk, stores, requests>>

Lookup(t) ==
    LET p == task[t].path
        d == FirstRow(p)
        retire == Versioning \/ task[t].op = "text"
    IN
    /\ At(t, "lookup")
    /\ \/ /\ RowsAt(p) = {}
          /\ Goto(t, AfterRetiring(task[t].op))
       \/ /\ RowsAt(p) # {} /\ Unchanged(t, d)
          /\ Finish(t, "ok", d)
       \/ /\ RowsAt(p) # {} /\ ~Unchanged(t, d)
          /\ task' = [task EXCEPT
                ![t].target = d,
                ![t].pc = IF retire THEN "retire_version" ELSE "drop_vectors"]
    /\ UNCHANGED <<disk, stores, requests>>

\* _retire_version: the version row, then the vectors, then the chunk rows.
\* The documents row itself stays as it is.
RetireVersion(t) ==
    /\ At(t, "retire_version")
    /\ versions' = [versions EXCEPT ![task[t].target] = @ + 1]
    /\ Goto(t, "retire_vectors")
    /\ UNCHANGED <<disk, docs, chunks, vectors, nextDoc, requests>>

RetireVectors(t) ==
    /\ At(t, "retire_vectors")
    /\ DeleteVectors(task[t].target)
    /\ Goto(t, "retire_chunks")
    /\ UNCHANGED <<disk, docs, chunks, versions, nextDoc, requests>>

RetireChunks(t) ==
    /\ At(t, "retire_chunks")
    /\ chunks' = [chunks EXCEPT ![task[t].target] = {}]
    /\ Goto(t, AfterRetiring(task[t].op))
    /\ UNCHANGED <<disk, docs, vectors, versions, nextDoc, requests>>

\* Mutant: the call of the vector store is not awaited.
DropVectorsUnawaited(t) ==
    /\ At(t, "drop_vectors")
    /\ Goto(t, "drop_row")
    /\ UNCHANGED <<disk, docs, chunks, vectors, versions, nextDoc, requests>>

\* delete_document, and the re-ingest of a changed file without versioning.
DropVectors(t) ==
    /\ At(t, "drop_vectors")
    /\ DeleteVectors(task[t].target)
    /\ Goto(t, "drop_row")
    /\ UNCHANGED <<disk, docs, chunks, versions, nextDoc, requests>>

\* Mutant: foreign keys are off, so nothing cascades.
DropRowWithoutCascade(t) ==
    /\ At(t, "drop_row")
    /\ docs' = [docs EXCEPT ![task[t].target] = NoRow]
    /\ IF task[t].op = "delete" THEN Finish(t, "ok", NoDoc) ELSE Goto(t, "parse")
    /\ UNCHANGED <<disk, chunks, vectors, versions, nextDoc, requests>>

DropRow(t) ==
    /\ At(t, "drop_row")
    /\ docs' = [docs EXCEPT ![task[t].target] = NoRow]
    /\ chunks' = [chunks EXCEPT ![task[t].target] = {}]
    /\ IF task[t].op = "delete" THEN Finish(t, "ok", NoDoc) ELSE Goto(t, "parse")
    /\ UNCHANGED <<disk, vectors, versions, nextDoc, requests>>

\* Mutant: refresh reuses the hash of the row it retires.
RehashFromRow(t) ==
    /\ At(t, "rehash")
    /\ task' = [task EXCEPT ![t].pc = "lookup", ![t].op = "reingest",
                            ![t].hash = docs[task[t].target].hash,
                            ![t].target = NoDoc]
    /\ UNCHANGED <<disk, stores, requests>>

\* refresh_document calls ingest_file, which hashes the file again.
Rehash(t) ==
    LET p == task[t].path IN
    /\ At(t, "rehash")
    /\ IF disk[p] = Absent
       THEN Finish(t, "error", NoDoc)
       ELSE task' = [task EXCEPT ![t].pc = "lookup", ![t].op = "reingest",
                                 ![t].hash = disk[p], ![t].target = NoDoc]
    /\ UNCHANGED <<disk, stores, requests>>

\* parse_file reads the file in a worker thread, after the hash was taken.
Parse(t) ==
    LET p == task[t].path IN
    /\ At(t, "parse")
    /\ IF disk[p] = Absent
       THEN Finish(t, "error", NoDoc)
       ELSE task' = [task EXCEPT ![t].pc = "create", ![t].body = disk[p]]
    /\ UNCHANGED <<disk, stores, requests>>

\* create_document; a text without chunks is marked failed straight away.
\* The bound never blocks: a request creates at most one document.
Create(t) ==
    /\ At(t, "create")
    /\ nextDoc \in DocId
    /\ nextDoc' = nextDoc + 1
    /\ docs' = [docs EXCEPT ![nextDoc] =
                  [status |-> "pending", path |-> task[t].path,
                   hash |-> task[t].hash, count |-> 0, torn |-> task[t].torn]]
    /\ \E next \in {"begin", "no_chunks"} :
          /\ next = "no_chunks" => task[t].op = "text" /\ NChunks[task[t].body] = 0
          /\ task' = [task EXCEPT ![t].pc = next, ![t].own = nextDoc]
    /\ UNCHANGED <<disk, chunks, vectors, versions, requests>>

\* set_status "processing" (_process and _embed_and_store write it twice),
\* then chunking and scanning, which run without an await.
Begin(t) ==
    /\ At(t, "begin")
    /\ SetStatus(task[t].own, "processing")
    /\ Goto(t, IF NChunks[task[t].body] = 0 THEN "no_chunks" ELSE "embed")
    /\ UNCHANGED <<disk, chunks, vectors, versions, nextDoc, requests>>

NothingToStore(t) ==
    /\ At(t, "no_chunks")
    /\ SetStatus(task[t].own, "failed")
    /\ Finish(t, "ok", task[t].own)
    /\ UNCHANGED <<disk, chunks, vectors, versions, nextDoc, requests>>

Embed(t) ==
    /\ At(t, "embed")
    /\ Goto(t, "upsert")
    /\ UNCHANGED <<disk, stores, requests>>

\* Mutant: only the first point of the batch is sent.
UpsertFirstOnly(t) ==
    /\ At(t, "upsert")
    /\ vectors' = [vectors EXCEPT ![task[t].own] = @ \cup FirstOf(task[t].body, 1)]
    /\ Goto(t, "add_chunk")
    /\ UNCHANGED <<disk, docs, chunks, versions, nextDoc, requests>>

\* All vectors of the document in one batch, whether or not its row still exists.
Upsert(t) ==
    /\ At(t, "upsert")
    /\ vectors' = [vectors EXCEPT ![task[t].own] = @ \cup ChunksOf(task[t].body)]
    /\ Goto(t, "add_chunk")
    /\ UNCHANGED <<disk, docs, chunks, versions, nextDoc, requests>>

\* Mutant: zip of unequal lists, the last row is lost.
AddChunkShort(t) ==
    LET d == task[t].own
        n == task[t].added + 1
    IN
    /\ At(t, "add_chunk")
    /\ Live(d)
    /\ chunks' = [chunks EXCEPT ![d] = @ \cup {<<task[t].body, n>>}]
    /\ task' = [task EXCEPT ![t].added = n,
                  ![t].pc = IF n >= NChunks[task[t].body] - 1 THEN "complete" ELSE @]
    /\ UNCHANGED <<disk, docs, vectors, versions, nextDoc, requests>>

\* add_chunk, one row per step; the foreign key refuses a row of a document
\* that was deleted in the meantime.
AddChunk(t) ==
    LET d == task[t].own
        n == task[t].added + 1
    IN
    /\ At(t, "add_chunk")
    /\ \/ /\ Live(d)
          /\ chunks' = [chunks EXCEPT ![d] = @ \cup {<<task[t].body, n>>}]
          /\ task' = [task EXCEPT ![t].added = n,
                        ![t].pc = IF n = NChunks[task[t].body] THEN "complete" ELSE @]
       \/ /\ ~Live(d)
          /\ Raise(t)
          /\ UNCHANGED chunks
    /\ UNCHANGED <<disk, docs, vectors, versions, nextDoc, requests>>

\* Mutant: completion waits for a row that may be gone.
CompleteLiveRow(t) ==
    /\ At(t, "complete")
    /\ Live(task[t].own)
    /\ SetChunkCount(task[t].own, NChunks[task[t].body])
    /\ Finish(t, "ok", task[t].own)
    /\ UNCHANGED <<disk, chunks, vectors, versions, nextDoc, requests>>

Complete(t) ==
    /\ At(t, "complete")
    /\ SetChunkCount(task[t].own, NChunks[task[t].body])
    /\ Finish(t, "ok", task[t].own)
    /\ UNCHANGED <<disk, chunks, vectors, versions, nextDoc, requests>>

Abort(t) ==
    /\ At(t, "abort")
    /\ SetStatus(task[t].own, "failed")
    /\ Finish(t, "error", NoDoc)
    /\ UNCHANGED <<disk, chunks, vectors, versions, nextDoc, requests>>

(***************************************************************************)
(* What may go wrong around the code.                                      *)
(***************************************************************************)
ParserFails(t) ==
    /\ "parse" \in Faults
    /\ At(t, "parse")
    /\ Finish(t, "error", NoDoc)
    /\ UNCHANGED <<disk, stores, requests>>

EmbedderFails(t) ==
    /\ "embed" \in Faults
    /\ At(t, "embed")
    /\ Raise(t)
    /\ UNCHANGED <<disk, stores, requests>>

\* A call of Qdrant raises (refused, timed out): it may have been applied or not.
StoreFails(t) ==
    /\ "store" \in Faults
    /\ \/ /\ At(t, "upsert")
          /\ \/ vectors' = [vectors EXCEPT
                              ![task[t].own] = @ \cup ChunksOf(task[t].body)]
             \/ UNCHANGED vectors
       \/ /\ At(t, "retire_vectors") \/ At(t, "drop_vectors")
          /\ DeleteVectors(task[t].target) \/ UNCHANGED vectors
    /\ Raise(t)
    /\ UNCHANGED <<disk, docs, chunks, versions, nextDoc, requests>>

\* The process dies and is started again: the stores survive, and startup
\* touches none of them.
Crash ==
    /\ "crash" \in Faults
    /\ task' = [t \in Task |-> Idle]
    /\ UNCHANGED <<disk, stores, requests>>

\* Between the hash and the parse of the file at p.
BeforeParse(t, p) ==
    /\ task[t].path = p /\ task[t].op \in {"file", "reingest"}
    /\ task[t].pc \in {"lookup", "retire_version", "retire_vectors",
                      "retire_chunks", "drop_vectors", "drop_row", "parse"}

\* A file is truncated, written or removed by an upload of the same name, which
\* takes no lock, or by an editor: at any time, under whoever reads it.
Edit(p, c) ==
    /\ disk[p] # c
    /\ disk' = [disk EXCEPT ![p] = c]
    /\ task' = [t \in Task |-> [task[t] EXCEPT !.torn = @ \/ BeforeParse(t, p)]]
    /\ UNCHANGED <<stores, requests>>

(***************************************************************************)
(* The system.                                                             *)
(***************************************************************************)
Start(t) ==
    \/ \E p \in FilePath : StartIngestFile(t, p)
    \/ \E p \in TextPath, c \in Content : StartIngestText(t, p, c)
    \/ \E d \in Created : StartRefresh(t, d) \/ StartDelete(t, d)

Step(t) ==
    \/ Fetch(t) \/ Lookup(t)
    \/ RetireVersion(t) \/ RetireVectors(t) \/ RetireChunks(t)
    \/ DropVectors(t) \/ DropRow(t)
    \/ Rehash(t) \/ Parse(t) \/ Create(t) \/ Begin(t) \/ NothingToStore(t)
    \/ Embed(t) \/ Upsert(t) \/ AddChunk(t) \/ Complete(t) \/ Abort(t)

Fault(t) == ParserFails(t) \/ EmbedderFails(t) \/ StoreFails(t)

Next == \/ \E t \in Task : Start(t) \/ Step(t) \/ Fault(t)
        \/ Crash
        \/ \E p \in FilePath, c \in Content \cup {Absent} : Edit(p, c)

Spec == Init /\ [][Next]_vars

\* The event loop resumes every coroutine whose await has completed; clients,
\* failures and writers of files owe nothing.
FairSpec == Spec /\ \A t \in Task : WF_vars(Step(t))
-----------------------------------------------------------------------------
(***************************************************************************)
(* Properties.                                                             *)
(***************************************************************************)
Retired(d)  == versions[d] > 0
Dropping(d) == \E t \in Task : At(t, "drop_row") /\ task[t].target = d
Working(t)  == ~At(t, "idle")
Ready(d)    == docs[d].status = "ready"
Unsettled(d) == /\ docs[d].status \in {"pending", "processing"}
                /\ docs[d].path \in FilePath
Steady      == Faults \cap {"crash", "store"} = {}

RowSet  == [status : {"absent", "pending", "processing", "ready", "failed"},
            path : Path \cup {NoPath}, hash : Content \cup {Absent}, count : Nat,
            torn : BOOLEAN]
TaskSet == [pc : {"idle", "fetch", "lookup", "retire_version", "retire_vectors",
                  "retire_chunks", "drop_vectors", "drop_row", "rehash", "parse",
                  "create", "begin", "no_chunks", "embed", "upsert", "add_chunk",
                  "complete", "abort"},
            op : {"none", "file", "text", "refresh", "reingest", "delete"},
            path : Path \cup {NoPath}, hash : Content \cup {Absent},
            body : Content \cup {Absent}, own : DocId \cup {NoDoc},
            target : DocId \cup {NoDoc}, added : Nat,
            torn : BOOLEAN, outcome : {"none", "ok", "error"}, ret : DocId \cup {NoDoc}]

\* The shape of the tables, of the vector store and of every coroutine.
TypeOK == /\ disk \in [FilePath -> Content \cup {Absent}]
          /\ docs \in [DocId -> RowSet]
          /\ chunks \in [DocId -> SUBSET Chunk]
          /\ vectors \in [DocId -> SUBSET Chunk]
          /\ versions \in [DocId -> Nat]
          /\ nextDoc \in 1..(MaxRequests + 1)
          /\ requests \in 0..MaxRequests
          /\ task \in [Task -> TaskSet]

\* A document reported ready that was never retired has exactly the chunk rows
\* of one parsed content, as many as chunk_count says: whatever re-ingestion,
\* refresh, deletion, failure or crash runs beside its ingestion.
ReadyRowsComplete ==
    \A d \in DocId : Ready(d) /\ ~Retired(d) =>
        \E c \in Content : chunks[d] = ChunksOf(c) /\ docs[d].count = NChunks[c]

\* Such a document is searchable as a whole or not at all, and not at all only
\* while a deletion is between its vectors and its row, or was cut short there.
ReadySearchable ==
    \A d \in DocId : Ready(d) /\ ~Retired(d) =>
        \/ vectors[d] = chunks[d]
        \/ vectors[d] = {} /\ (Steady => Dropping(d))

\* The rows of a ready document are those of the content whose hash it records,
\* the hash that decides later whether an ingestion is skipped: unless its file
\* was written while it was being ingested.
ReadyMatchesHash ==
    \A d \in DocId : Ready(d) /\ ~Retired(d) /\ ~docs[d].torn =>
        chunks[d] = ChunksOf(docs[d].hash)

\* Violated.  "SHA-256 hex digest of file contents (for change detection)": the recorded
\* hash always is that of the content which was stored.  A second upload of the
\* name writes the file between the hash and the parse of the first.
HashNamesRows ==
    \A d \in DocId : Ready(d) /\ ~Retired(d) => chunks[d] = ChunksOf(docs[d].hash)

\* Without crashes a file's document that is pending or processing has a
\* coroutine working on it: _process leaves it ready or failed on every path.
UnsettledHasWorker ==
    \A d \in DocId : Unsettled(d) =>
        \E t \in Task : Working(t) /\ task[t].own = d

\* What overlapping requests and uploads do to no document: a ready one is
\* searchable as a whole, recorded under the hash of its rows unless its own file
\* was written under it, and an unsettled one is being worked on.
RacesLeaveWhole ==
    TypeOK /\ ReadySearchable /\ ReadyMatchesHash /\ UnsettledHasWorker

\* A row that is gone took its chunk rows along (ON DELETE CASCADE), and the
\* ingestion that still held its id adds none afterwards.
NoOrphanRows == \A d \in DocId : ~Live(d) => chunks[d] = {}

\* DELETE /api/documents/{id} removes the document from both stores: with no
\* request in flight, every vector belongs to a document that exists.
DeletedLeavesNothing ==
    (\A t \in Task : ~Working(t)) => \A d \in DocId : ~Live(d) => vectors[d] = {}

Finished(t, op) == At(t, "idle") /\ task[t].op = op /\ task[t].outcome = "ok"

\* ingest_file returns a document that holds the content that was ingested,
\* unless the file was written while that document was ingested.
IngestedIsSearchable ==
    \A t \in Task : Finished(t, "file") /\ ~docs[task[t].ret].torn =>
        vectors[task[t].ret] = ChunksOf(task[t].hash)

\* "Changed files retire old chunks and replace them": after ingest_file no
\* other document of the same file is searchable beside the one it returns.
OldChunksReplaced ==
    \A t \in Task : Finished(t, "file") =>
        \A e \in DocId : /\ docs[e].path = docs[task[t].ret].path
                         /\ vectors[e] # {} /\ vectors[task[t].ret] # {}
                         => e = task[t].ret

\* "Idempotent on hash match": the same file content is never searchable twice.
IdempotentOnHash ==
    \A d, e \in DocId :
        /\ Ready(d) /\ Ready(e) /\ docs[d].path = docs[e].path
        /\ docs[d].hash = docs[e].hash /\ vectors[d] # {} /\ vectors[e] # {}
        => d = e

\* What was ingested is searchable, in one version of its file, and that once.
OneCopySearchable == IngestedIsSearchable /\ OldChunksReplaced /\ IdempotentOnHash

\* "Force re-ingest from original file path": a refresh that succeeds returns a
\* document with the chunks of the file.
RefreshReingests ==
    \A t \in Task : Finished(t, "reingest") /\ ~docs[task[t].ret].torn =>
        chunks[task[t].ret] = ChunksOf(task[t].hash)

\* Every accepted request is answered.
RequestsFinish == \A t \in Task : Working(t) ~> ~Working(t)

\* Every row of a file ends up ready, failed or deleted (ingest_text is not in
\* a try block: a text whose embedding fails stays in processing).
DocumentsSettle == \A d \in DocId : Unsettled(d) ~> ~Unsettled(d)

(***************************************************************************)
(* The rows implement the lifecycle DocumentLifecycle promises.            *)
(***************************************************************************)
Phase(d) == IF ~(d < nextDoc) THEN "unborn"
            ELSE IF Live(d) THEN docs[d].status ELSE "deleted"

Lifecycle == INSTANCE DocumentLifecycle WITH
    Doc     <- DocId,
    Whole   <- {ChunksOf(c) : c \in Content},
    phase   <- [d \in DocId |-> Phase(d)],
    rows    <- chunks,
    retired <- [d \in DocId |-> Retired(d)]

\* Every step of the ingestion service is a step of the lifecycle or changes
\* no row: documents settle once, by their own ingestion, with all their rows.
ImplementsLifecycle == Lifecycle!Spec
=============================================================================
