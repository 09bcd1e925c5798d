--------------------------- MODULE IngestionProofs ---------------------------
(***************************************************************************)
(* Safety of Ingestion for any number of tasks, documents and contents:    *)
(* the rows of a document and how they implement DocumentLifecycle         *)
(* (RowInv), its vectors, hash and coroutine (WholeInv), and what a client *)
(* that sends one request at a time can rely on (AloneInv).                *)
(***************************************************************************)
EXTENDS Ingestion, TLAPS, WellFoundedInduction

(***************************************************************************)
(* The inductive invariant.  The owner of a document is the one coroutine  *)
(* whose ingestion created it; what the document's rows are                *)
(* while it is being filled is known from the owner's program counter,     *)
(* unless somebody retired it meanwhile.                                   *)
(***************************************************************************)
\* Ids that were not handed out name nothing.
FreshIds ==
    /\ \A d \in DocId : ~(d < nextDoc) =>
          /\ docs[d] = NoRow /\ chunks[d] = {} /\ vectors[d] = {} /\ versions[d] = 0
    /\ \A t \in Task : task[t].own < nextDoc /\ task[t].target < nextDoc

OwnerPcs == {"begin", "no_chunks", "embed", "upsert", "add_chunk", "complete", "abort"}

OneOwner ==
    \A t, u \in Task : task[t].own = task[u].own /\ task[t].own # NoDoc => t = u

\* What a coroutine knows where it stands.
Control ==
    \A t \in Task :
        /\ task[t].own # NoDoc <=> task[t].pc \in OwnerPcs
        /\ task[t].pc \in OwnerPcs \cup {"create"} => task[t].body \in Content
        /\ task[t].op = "text" /\ ~At(t, "idle") => task[t].body \in Content
        /\ task[t].pc \in {"fetch", "retire_version", "retire_vectors",
                           "retire_chunks", "drop_vectors", "drop_row"}
              => task[t].target \in DocId
        /\ task[t].pc \in {"retire_vectors", "retire_chunks"} => Retired(task[t].target)
        /\ ~At(t, "add_chunk") /\ ~At(t, "complete") /\ ~At(t, "abort") => task[t].added = 0
        /\ task[t].pc \in {"embed", "upsert"} => NChunks[task[t].body] > 0
        /\ At(t, "add_chunk") => task[t].added < NChunks[task[t].body]

\* Which requests pass where, and the kind of path they carry.
RouteOK(r) ==
    /\ r.op \in {"file", "refresh", "reingest"} /\ r.pc \notin {"idle", "fetch"}
          => r.path \in FilePath
    /\ r.op = "text" /\ r.pc # "idle" => r.path \in TextPath
    /\ r.pc \in {"lookup", "create"} \cup OwnerPcs => r.op \in {"file", "text", "reingest"}
    /\ r.pc \in {"retire_version", "retire_vectors", "retire_chunks"}
          => r.op \in {"file", "text", "refresh", "reingest"}
    /\ r.pc \in {"drop_vectors", "drop_row"} => r.op \in {"delete", "file", "reingest"}
    /\ r.pc = "rehash" => r.op = "refresh"
    /\ r.pc = "parse" => r.op \in {"file", "reingest"}

Routes == \A t \in Task : RouteOK(task[t])

OwnerStatus ==
    \A t \in Task : task[t].own # NoDoc /\ Live(task[t].own) =>
        /\ At(t, "begin") => docs[task[t].own].status = "pending"
        /\ task[t].pc \in {"embed", "upsert", "add_chunk", "complete"}
              => docs[task[t].own].status = "processing"
        /\ docs[task[t].own].status \in {"pending", "processing"}

OwnerRows ==
    \A t \in Task : task[t].own # NoDoc /\ Live(task[t].own) /\ ~Retired(task[t].own) =>
        /\ task[t].pc \in {"begin", "no_chunks", "embed", "upsert"}
              => chunks[task[t].own] = {}
        /\ At(t, "add_chunk")
              => chunks[task[t].own] = FirstOf(task[t].body, task[t].added)
        /\ At(t, "complete") => chunks[task[t].own] = ChunksOf(task[t].body)

RowInv == /\ TypeOK /\ FreshIds /\ OneOwner /\ Control /\ Routes
          /\ NoOrphanRows /\ OwnerStatus /\ OwnerRows /\ ReadyRowsComplete
-----------------------------------------------------------------------------

(* Lemmas about the operators of the model. *)

\* get_document_by_path returns one of the matching rows: the oldest.
LEMMA FirstRowFound ==
    ASSUME NEW p, RowsAt(p) # {}
    PROVE  FirstRow(p) \in RowsAt(p)
<1>1. RowsAt(p) \subseteq Nat
  BY BoundAssumption DEF RowsAt, DocId
<1>2. PICK d \in RowsAt(p) : \A e \in RowsAt(p) : <<e, d>> \notin OpToRel(<, Nat)
  BY <1>1, NatLessThanWellFounded, WFMin
<1>3. \A e \in RowsAt(p) : d <= e
  <2>1. SUFFICES ASSUME NEW e \in RowsAt(p), ~(d <= e)  PROVE FALSE
    OBVIOUS
  <2>2. e \in Nat /\ d \in Nat /\ e < d
    BY <1>1, <2>1
  <2>3. <<e, d>> \in OpToRel(<, Nat)
    BY <2>2 DEF OpToRel
  <2> QED  BY <1>2, <2>3
<1> QED  BY <1>2, <1>3 DEF FirstRow

(* Types: what the building blocks of the actions return. *)

\* A free slot is a well-formed coroutine record.
LEMMA IdleType == Idle \in TaskSet
  BY DEF Idle, TaskSet, NoPath, NoDoc

\* Answering a request leaves every slot well formed.
LEMMA FinishType ==
  ASSUME TypeOK, NEW t \in Task, NEW how \in {"ok", "error"},
         NEW d \in DocId \cup {NoDoc}, Finish(t, how, d)
  PROVE  task' \in [Task -> TaskSet]
<1>1. /\ task[t].op \in {"none", "file", "text", "refresh", "reingest", "delete"}
      /\ task[t].hash \in Content \cup {Absent}
  BY DEF TypeOK, TaskSet
<1>2. [Idle EXCEPT !.op = task[t].op, !.hash = task[t].hash,
                   !.outcome = how, !.ret = d] \in TaskSet
  BY <1>1 DEF Idle, TaskSet, NoPath, NoDoc
<1> QED  BY <1>2 DEF Finish, TypeOK

\* Accepting a request keeps the type invariant: only the slot and the budget change.
LEMMA AcceptType ==
  ASSUME TypeOK, NEW t \in Task, NEW r \in TaskSet, Accept(t, r)
  PROVE  TypeOK'
<1>1. task' \in [Task -> TaskSet]
  BY DEF Accept, TypeOK
<1> QED  BY <1>1, BoundAssumption DEF Accept, TypeOK, stores

\* Moving to another await keeps every slot well formed.
LEMMA GotoType ==
  ASSUME TypeOK, NEW t \in Task, Goto(t, "abort") \/ \E c \in OwnerPcs \cup
           {"create", "parse", "rehash", "retire_vectors", "retire_chunks",
            "drop_vectors", "drop_row"} : Goto(t, c)
  PROVE  task' \in [Task -> TaskSet]
  BY DEF Goto, TypeOK, TaskSet, OwnerPcs

\* set_status writes a legal row, or none at all where the row is gone.
LEMMA SetStatusType ==
  ASSUME TypeOK, NEW d,
         NEW s \in {"pending", "processing", "ready", "failed"}, SetStatus(d, s)
  PROVE  docs' \in [DocId -> RowSet]
  BY ZenonT(40) DEF SetStatus, TypeOK, RowSet, Live

\* set_chunk_count writes a legal row, or none at all where the row is gone.
LEMMA SetChunkCountType ==
  ASSUME TypeOK, NEW d, NEW n \in Nat, SetChunkCount(d, n)
  PROVE  docs' \in [DocId -> RowSet]
  BY ZenonT(40) DEF SetChunkCount, TypeOK, RowSet, Live

(* One lemma per action: it keeps the row invariant. *)

\* The end of a request that touches neither store.
LEMMA FinishKeeps ==
  ASSUME RowInv, NEW t \in Task, NEW how \in {"ok", "error"},
         NEW d \in DocId \cup {NoDoc}, Finish(t, how, d),
         UNCHANGED <<disk, stores, requests>>
  PROVE  RowInv'
<1>1. TypeOK'
  BY FinishType DEF RowInv, TypeOK, stores
<1>2. FreshIds'
  BY SMTT(30) DEF Finish, Idle, stores, RowInv, TypeOK, NoDoc, FreshIds
<1>3. OneOwner'
  BY SMTT(30) DEF Finish, Idle, RowInv, OneOwner
<1>4. Control'
  BY SMTT(30) DEF Finish, Idle, stores, RowInv, At, Control, OwnerPcs, Retired
<1>5. Routes'
  BY SMTT(30) DEF Finish, Idle, RowInv, Routes, RouteOK, OwnerPcs
<1>6. NoOrphanRows'
  BY SMTT(30) DEF stores, RowInv, NoOrphanRows, Live
<1>7. OwnerStatus'
  BY SMTT(30) DEF Finish, Idle, stores, RowInv, At, OwnerStatus, Live
<1>8. OwnerRows'
  BY SMTT(30) DEF Finish, Idle, stores, RowInv, At, OwnerRows, Live, Retired
<1>9. ReadyRowsComplete'
  BY SMTT(30) DEF stores, RowInv, ReadyRowsComplete, Ready, Retired
<1> QED  BY <1>1, <1>2, <1>3, <1>4, <1>5, <1>6, <1>7, <1>8, <1>9 DEF RowInv

\* An exception inside the try block of _process.
LEMMA AbortedKeeps ==
  ASSUME RowInv, NEW t \in Task,
         task[t].own # NoDoc, task[t].pc \in {"embed", "upsert", "add_chunk"},
         Goto(t, "abort"),
         UNCHANGED <<disk, docs, chunks, versions, nextDoc, requests>>,
         vectors' \in [DocId -> SUBSET Chunk],
         \A d \in DocId : ~(d < nextDoc) => vectors'[d] = {}
  PROVE  RowInv'
<1>1. TypeOK'
  BY GotoType DEF RowInv, TypeOK
<1>2. FreshIds'
  BY SMTT(30) DEF Goto, RowInv, FreshIds
<1>3. OneOwner'
  BY SMTT(30) DEF Goto, RowInv, OneOwner
<1>4. Control'
  BY SMTT(30) DEF Goto, RowInv, At, Control, OwnerPcs, Retired
<1>5. Routes'
  BY SMTT(30) DEF Goto, RowInv, Routes, RouteOK, OwnerPcs
<1>6. NoOrphanRows'
  BY SMTT(30) DEF RowInv, NoOrphanRows, Live
<1>7. OwnerStatus'
  BY SMTT(30) DEF Goto, RowInv, At, OwnerStatus, Live
<1>8. OwnerRows'
  BY SMTT(30) DEF Goto, RowInv, At, OwnerRows, Live, Retired
<1>9. ReadyRowsComplete'
  BY SMTT(30) DEF RowInv, ReadyRowsComplete, Ready, Retired
<1> QED  BY <1>1, <1>2, <1>3, <1>4, <1>5, <1>6, <1>7, <1>8, <1>9 DEF RowInv

\* An exception anywhere else.
LEMMA PropagatedKeeps ==
  ASSUME RowInv, NEW t \in Task,
         Finish(t, "error", NoDoc),
         UNCHANGED <<disk, docs, chunks, versions, nextDoc, requests>>,
         vectors' \in [DocId -> SUBSET Chunk],
         \A d \in DocId : ~(d < nextDoc) => vectors'[d] = {}
  PROVE  RowInv'
<1>1. TypeOK'
  BY FinishType DEF RowInv, TypeOK
<1>2. FreshIds'
  BY SMTT(30) DEF Finish, Idle, RowInv, TypeOK, NoDoc, FreshIds
<1>3. OneOwner'
  BY SMTT(30) DEF Finish, Idle, RowInv, OneOwner
<1>4. Control'
  BY SMTT(30) DEF Finish, Idle, RowInv, At, Control, OwnerPcs, Retired
<1>5. Routes'
  BY SMTT(30) DEF Finish, Idle, RowInv, Routes, RouteOK, OwnerPcs
<1>6. NoOrphanRows'
  BY SMTT(30) DEF RowInv, NoOrphanRows, Live
<1>7. OwnerStatus'
  BY SMTT(30) DEF Finish, Idle, RowInv, At, OwnerStatus, Live
<1>8. OwnerRows'
  BY SMTT(30) DEF Finish, Idle, RowInv, TypeOK, At, OwnerRows, Live, Retired
<1>9. ReadyRowsComplete'
  BY SMTT(30) DEF RowInv, ReadyRowsComplete, Ready, Retired
<1> QED  BY <1>1, <1>2, <1>3, <1>4, <1>5, <1>6, <1>7, <1>8, <1>9 DEF RowInv

\* POST /upload and ingest-file.
LEMMA StartIngestFileKeeps ==
  ASSUME RowInv, NEW t \in Task, NEW p \in FilePath, StartIngestFile(t, p)
  PROVE  RowInv'
<1>1. TypeOK'
  <2>1. [Idle EXCEPT !.pc = "lookup", !.op = "file",
                     !.path = p, !.hash = disk[p]] \in TaskSet
    BY DEF Idle, TaskSet, NoPath, NoDoc, Path, RowInv, TypeOK
  <2> QED
    BY <2>1, AcceptType DEF RowInv, StartIngestFile
<1>2. FreshIds'
  BY SMTT(30) DEF StartIngestFile, Accept, Idle, stores, RowInv, TypeOK,
     NoDoc, FreshIds
<1>3. OneOwner'
  BY SMTT(30) DEF StartIngestFile, Accept, Idle, RowInv, OneOwner
<1>4. Control'
  BY SMTT(30) DEF StartIngestFile, Accept, Idle, stores, RowInv, At, Control,
     OwnerPcs, Retired
<1>5. Routes'
  BY SMTT(30) DEF StartIngestFile, Accept, RowInv, Routes, RouteOK
<1>6. NoOrphanRows'
  BY SMTT(30) DEF StartIngestFile, Accept, stores, RowInv, NoOrphanRows, Live
<1>7. OwnerStatus'
  BY SMTT(30) DEF StartIngestFile, Accept, Idle, stores, RowInv, At,
     OwnerStatus, Live
<1>8. OwnerRows'
  BY SMTT(30) DEF StartIngestFile, Accept, stores, RowInv, At, OwnerRows,
     Live, Retired
<1>9. ReadyRowsComplete'
  BY SMTT(30) DEF StartIngestFile, Accept, stores, RowInv, ReadyRowsComplete,
     Ready, Retired
<1> QED  BY <1>1, <1>2, <1>3, <1>4, <1>5, <1>6, <1>7, <1>8, <1>9 DEF RowInv

\* POST /ingest-text.
LEMMA StartIngestTextKeeps ==
  ASSUME RowInv, NEW t \in Task, NEW p \in TextPath, NEW c \in Content,
         StartIngestText(t, p, c)
  PROVE  RowInv'
<1>1. TypeOK'
  <2>1. [Idle EXCEPT !.pc = "lookup", !.op = "text",
                     !.path = p, !.hash = c, !.body = c] \in TaskSet
    BY DEF Idle, TaskSet, NoPath, NoDoc, Path
  <2> QED
    BY <2>1, AcceptType DEF RowInv, StartIngestText
<1>2. FreshIds'
  BY SMTT(30) DEF StartIngestText, Accept, Idle, stores, RowInv, TypeOK,
     NoDoc, FreshIds
<1>3. OneOwner'
  BY SMTT(30) DEF StartIngestText, Accept, Idle, RowInv, OneOwner
<1>4. Control'
  BY SMTT(30) DEF StartIngestText, Accept, Idle, stores, RowInv, At, Control,
     OwnerPcs, Retired
<1>5. Routes'
  BY SMTT(30) DEF StartIngestText, Accept, RowInv, Routes, RouteOK
<1>6. NoOrphanRows'
  BY SMTT(30) DEF StartIngestText, Accept, stores, RowInv, NoOrphanRows, Live
<1>7. OwnerStatus'
  BY SMTT(30) DEF StartIngestText, Accept, Idle, stores, RowInv, At,
     OwnerStatus, Live
<1>8. OwnerRows'
  BY SMTT(30) DEF StartIngestText, Accept, Idle, stores, RowInv, At,
     OwnerRows, Live, Retired
<1>9. ReadyRowsComplete'
  BY SMTT(30) DEF StartIngestText, Accept, stores, RowInv, ReadyRowsComplete,
     Ready, Retired
<1> QED  BY <1>1, <1>2, <1>3, <1>4, <1>5, <1>6, <1>7, <1>8, <1>9 DEF RowInv

\* POST /refresh.
LEMMA StartRefreshKeeps ==
  ASSUME RowInv, NEW t \in Task, NEW d \in Created, StartRefresh(t, d)
  PROVE  RowInv'
<1>1. TypeOK'
  <2>1. [Idle EXCEPT !.pc = "fetch", !.op = "refresh", !.target = d] \in TaskSet
    BY DEF Idle, TaskSet, NoPath, NoDoc, Path, Created
  <2> QED
    BY <2>1, AcceptType DEF RowInv, StartRefresh
<1>2. FreshIds'
  BY SMTT(30) DEF StartRefresh, Accept, Idle, stores, Created, RowInv, TypeOK,
     NoDoc, FreshIds
<1>3. OneOwner'
  BY SMTT(30) DEF StartRefresh, Accept, Idle, RowInv, OneOwner
<1>4. Control'
  BY SMTT(30) DEF StartRefresh, Accept, Idle, stores, Created, RowInv, At,
     Control, OwnerPcs, Retired
<1>5. Routes'
  BY SMTT(30) DEF StartRefresh, Accept, RowInv, Routes, RouteOK, OwnerPcs
<1>6. NoOrphanRows'
  BY SMTT(30) DEF StartRefresh, Accept, stores, RowInv, NoOrphanRows, Live
<1>7. OwnerStatus'
  BY SMTT(30) DEF StartRefresh, Accept, Idle, stores, RowInv, At, OwnerStatus,
     Live
<1>8. OwnerRows'
  BY SMTT(30) DEF StartRefresh, Accept, stores, RowInv, At, OwnerRows, Live,
     Retired
<1>9. ReadyRowsComplete'
  BY SMTT(30) DEF StartRefresh, Accept, stores, RowInv, ReadyRowsComplete,
     Ready, Retired
<1> QED  BY <1>1, <1>2, <1>3, <1>4, <1>5, <1>6, <1>7, <1>8, <1>9 DEF RowInv

\* DELETE.
LEMMA StartDeleteKeeps ==
  ASSUME RowInv, NEW t \in Task, NEW d \in Created, StartDelete(t, d)
  PROVE  RowInv'
<1>1. TypeOK'
  <2>1. [Idle EXCEPT !.pc = "fetch", !.op = "delete", !.target = d] \in TaskSet
    BY DEF Idle, TaskSet, NoPath, NoDoc, Path, Created
  <2> QED
    BY <2>1, AcceptType DEF RowInv, StartDelete
<1>2. FreshIds'
  BY SMTT(30) DEF StartDelete, Accept, Idle, stores, Created, RowInv, TypeOK,
     NoDoc, FreshIds
<1>3. OneOwner'
  BY SMTT(30) DEF StartDelete, Accept, Idle, RowInv, OneOwner
<1>4. Control'
  BY SMTT(30) DEF StartDelete, Accept, Idle, stores, Created, RowInv, At,
     Control, OwnerPcs, Retired
<1>5. Routes'
  BY SMTT(30) DEF StartDelete, Accept, RowInv, Routes, RouteOK, OwnerPcs
<1>6. NoOrphanRows'
  BY SMTT(30) DEF StartDelete, Accept, stores, RowInv, NoOrphanRows, Live
<1>7. OwnerStatus'
  BY SMTT(30) DEF StartDelete, Accept, Idle, stores, RowInv, At, OwnerStatus,
     Live
<1>8. OwnerRows'
  BY SMTT(30) DEF StartDelete, Accept, stores, RowInv, At, OwnerRows, Live,
     Retired
<1>9. ReadyRowsComplete'
  BY SMTT(30) DEF StartDelete, Accept, stores, RowInv, ReadyRowsComplete,
     Ready, Retired
<1> QED  BY <1>1, <1>2, <1>3, <1>4, <1>5, <1>6, <1>7, <1>8, <1>9 DEF RowInv

\* INSERT INTO document_versions.
LEMMA RetireVersionKeeps ==
  ASSUME RowInv, NEW t \in Task, RetireVersion(t)
  PROVE  RowInv'
<1>1. TypeOK'
  <2>1. task' \in [Task -> TaskSet]
    BY GotoType DEF RowInv, OwnerPcs, RetireVersion
  <2>2. versions' \in [DocId -> Nat]
    BY DEF RowInv, TypeOK, Control, At, RetireVersion, TaskSet
  <2> QED
    BY <2>1, <2>2 DEF RowInv, TypeOK, RetireVersion
<1>2. FreshIds'
  BY SMTT(30) DEF RetireVersion, Goto, RowInv, FreshIds
<1>3. OneOwner'
  BY SMTT(30) DEF RetireVersion, Goto, RowInv, OneOwner
<1>4. Control'
  BY SMTT(30) DEF RetireVersion, Goto, RowInv, TypeOK, At, Control, OwnerPcs,
     Retired
<1>5. Routes'
  BY SMTT(30) DEF RetireVersion, Goto, RowInv, At, Routes, RouteOK, OwnerPcs
<1>6. NoOrphanRows'
  BY SMTT(30) DEF RetireVersion, RowInv, NoOrphanRows, Live
<1>7. OwnerStatus'
  BY SMTT(30) DEF RetireVersion, Goto, RowInv, At, OwnerStatus, Live
<1>8. OwnerRows'
  BY SMTT(30) DEF RetireVersion, Goto, RowInv, TypeOK, At, OwnerRows, Live,
     Retired
<1>9. ReadyRowsComplete'
  BY SMTT(30) DEF RetireVersion, RowInv, TypeOK, ReadyRowsComplete, Ready,
     Retired
<1> QED  BY <1>1, <1>2, <1>3, <1>4, <1>5, <1>6, <1>7, <1>8, <1>9 DEF RowInv

\* Qdrant forgets the old vectors.
LEMMA RetireVectorsKeeps ==
  ASSUME RowInv, NEW t \in Task, RetireVectors(t)
  PROVE  RowInv'
<1>1. TypeOK'
  <2>1. task' \in [Task -> TaskSet]
    BY GotoType DEF RowInv, OwnerPcs, RetireVectors
  <2>2. vectors' \in [DocId -> SUBSET Chunk]
    BY DEF RowInv, TypeOK, Control, At, RetireVectors, DeleteVectors
  <2> QED
    BY <2>1, <2>2 DEF RowInv, TypeOK, RetireVectors
<1>2. FreshIds'
  BY SMTT(30) DEF RetireVectors, Goto, DeleteVectors, RowInv, FreshIds
<1>3. OneOwner'
  BY SMTT(30) DEF RetireVectors, Goto, RowInv, OneOwner
<1>4. Control'
  BY SMTT(30) DEF RetireVectors, Goto, RowInv, At, Control, OwnerPcs, Retired
<1>5. Routes'
  BY SMTT(30) DEF RetireVectors, Goto, RowInv, At, Routes, RouteOK, OwnerPcs
<1>6. NoOrphanRows'
  BY SMTT(30) DEF RetireVectors, RowInv, NoOrphanRows, Live
<1>7. OwnerStatus'
  BY SMTT(30) DEF RetireVectors, Goto, RowInv, At, OwnerStatus, Live
<1>8. OwnerRows'
  BY SMTT(30) DEF RetireVectors, Goto, RowInv, TypeOK, At, OwnerRows, Live,
     Retired
<1>9. ReadyRowsComplete'
  BY SMTT(30) DEF RetireVectors, RowInv, ReadyRowsComplete, Ready, Retired
<1> QED  BY <1>1, <1>2, <1>3, <1>4, <1>5, <1>6, <1>7, <1>8, <1>9 DEF RowInv

\* DELETE FROM chunks.
LEMMA RetireChunksKeeps ==
  ASSUME RowInv, NEW t \in Task, RetireChunks(t)
  PROVE  RowInv'
<1>1. TypeOK'
  <2>1. task' \in [Task -> TaskSet]
    BY GotoType DEF RowInv, OwnerPcs, RetireChunks, AfterRetiring
  <2>2. chunks' \in [DocId -> SUBSET Chunk]
    BY DEF RowInv, TypeOK, Control, At, RetireChunks, DeleteVectors
  <2> QED
    BY <2>1, <2>2 DEF RowInv, TypeOK, RetireChunks, AfterRetiring
<1>2. FreshIds'
  BY SMTT(30) DEF RetireChunks, Goto, RowInv, FreshIds
<1>3. OneOwner'
  BY SMTT(30) DEF RetireChunks, Goto, RowInv, OneOwner
<1>4. Control'
  BY SMTT(30) DEF RetireChunks, Goto, AfterRetiring, RowInv, At, Control,
     OwnerPcs, Retired
<1>5. Routes'
  BY SMTT(30) DEF RetireChunks, Goto, AfterRetiring, RowInv, At, Routes,
     RouteOK, OwnerPcs
<1>6. NoOrphanRows'
  BY SMTT(30) DEF RetireChunks, RowInv, NoOrphanRows, Live
<1>7. OwnerStatus'
  BY SMTT(30) DEF RetireChunks, Goto, AfterRetiring, RowInv, At, OwnerStatus,
     Live
<1>8. OwnerRows'
  BY SMTT(30) DEF RetireChunks, Goto, AfterRetiring, RowInv, TaskSet, At,
     OwnerRows, Control, Live, Retired
<1>9. ReadyRowsComplete'
  BY SMTT(30) DEF RetireChunks, RowInv, At, ReadyRowsComplete, Control, Ready,
     Retired
<1> QED  BY <1>1, <1>2, <1>3, <1>4, <1>5, <1>6, <1>7, <1>8, <1>9 DEF RowInv

\* The vectors of a document about to be deleted.
LEMMA DropVectorsKeeps ==
  ASSUME RowInv, NEW t \in Task, DropVectors(t)
  PROVE  RowInv'
<1>1. TypeOK'
  <2>1. task' \in [Task -> TaskSet]
    BY GotoType DEF RowInv, OwnerPcs, DropVectors
  <2>2. vectors' \in [DocId -> SUBSET Chunk]
    BY DEF RowInv, TypeOK, Control, At, DropVectors, DeleteVectors
  <2> QED
    BY <2>1, <2>2 DEF RowInv, TypeOK, DropVectors
<1>2. FreshIds'
  BY SMTT(30) DEF DropVectors, Goto, DeleteVectors, RowInv, FreshIds
<1>3. OneOwner'
  BY SMTT(30) DEF DropVectors, Goto, RowInv, OneOwner
<1>4. Control'
  BY SMTT(30) DEF DropVectors, Goto, RowInv, At, Control, OwnerPcs, Retired
<1>5. Routes'
  BY SMTT(30) DEF DropVectors, Goto, RowInv, At, Routes, RouteOK, OwnerPcs
<1>6. NoOrphanRows'
  BY SMTT(30) DEF DropVectors, RowInv, NoOrphanRows, Live
<1>7. OwnerStatus'
  BY SMTT(30) DEF DropVectors, Goto, RowInv, At, OwnerStatus, Live
<1>8. OwnerRows'
  BY SMTT(30) DEF DropVectors, Goto, RowInv, TypeOK, At, OwnerRows, Live,
     Retired
<1>9. ReadyRowsComplete'
  BY SMTT(30) DEF DropVectors, RowInv, ReadyRowsComplete, Ready, Retired
<1> QED  BY <1>1, <1>2, <1>3, <1>4, <1>5, <1>6, <1>7, <1>8, <1>9 DEF RowInv

\* set_status processing.
LEMMA BeginKeeps ==
  ASSUME RowInv, NEW t \in Task, Begin(t)
  PROVE  RowInv'
<1>1. TypeOK'
  <2>1. task' \in [Task -> TaskSet]
    BY GotoType DEF RowInv, OwnerPcs, Begin
  <2>2. docs' \in [DocId -> RowSet]
    BY SetStatusType DEF RowInv, Begin
  <2> QED
    BY <2>1, <2>2 DEF RowInv, TypeOK, Begin
<1>2. FreshIds'
  BY SMTT(30) DEF Begin, SetStatus, Goto, RowInv, FreshIds
<1>3. OneOwner'
  BY SMTT(30) DEF Begin, Goto, RowInv, OneOwner
<1>4. Control'
  BY NChunksAssumption, SMTT(30) DEF Begin, Goto, RowInv, At, Control,
     OwnerPcs, Retired
<1>5. Routes'
  BY SMTT(30) DEF Begin, Goto, RowInv, At, Routes, RouteOK, OwnerPcs
<1>6. NoOrphanRows'
  BY SMTT(30) DEF Begin, SetStatus, RowInv, NoOrphanRows, Live
<1>7. OwnerStatus'
  BY SMTT(30) DEF Begin, SetStatus, Goto, RowInv, TypeOK, TaskSet, At,
     OwnerStatus, OneOwner, Live
<1>8. OwnerRows'
  BY SMTT(30) DEF Begin, SetStatus, Goto, RowInv, TypeOK, TaskSet, At,
     OwnerRows, Live, Retired
<1>9. ReadyRowsComplete'
  BY SMTT(30) DEF Begin, SetStatus, RowInv, ReadyRowsComplete, OwnerStatus,
     OwnerRows, Ready, Retired
<1> QED  BY <1>1, <1>2, <1>3, <1>4, <1>5, <1>6, <1>7, <1>8, <1>9 DEF RowInv

\* set_status failed: no chunk is left.
LEMMA NothingToStoreKeeps ==
  ASSUME RowInv, NEW t \in Task, NothingToStore(t)
  PROVE  RowInv'
<1>1. TypeOK'
  <2>0. task[t].own \in DocId /\ task[t].body \in Content
    BY DEF RowInv, Control, OwnerPcs, TypeOK, TaskSet, At, NoDoc, NothingToStore
  <2>1. task' \in [Task -> TaskSet]
    BY <2>0, FinishType DEF RowInv, NoDoc, NothingToStore
  <2>2. docs' \in [DocId -> RowSet]
    BY <2>0, NChunksAssumption, SetStatusType DEF RowInv, NothingToStore
  <2> QED
    BY <2>1, <2>2 DEF RowInv, TypeOK, NothingToStore
<1>2. FreshIds'
  BY SMTT(30) DEF NothingToStore, SetStatus, Finish, Idle, RowInv, TypeOK,
     NoDoc, FreshIds
<1>3. OneOwner'
  BY SMTT(30) DEF NothingToStore, Finish, Idle, RowInv, OneOwner
<1>4. Control'
  BY SMTT(30) DEF NothingToStore, Finish, Idle, RowInv, At, Control, OwnerPcs,
     Retired
<1>5. Routes'
  BY SMTT(30) DEF NothingToStore, Finish, Idle, RowInv, Routes, RouteOK,
     OwnerPcs
<1>6. NoOrphanRows'
  BY SMTT(30) DEF NothingToStore, SetStatus, RowInv, NoOrphanRows, Live
<1>7. OwnerStatus'
  BY SMTT(30) DEF NothingToStore, SetStatus, Finish, Idle, RowInv, TypeOK, At,
     OwnerStatus, OneOwner, Live
<1>8. OwnerRows'
  BY SMTT(30) DEF NothingToStore, SetStatus, Finish, Idle, RowInv, TypeOK, At,
     OwnerRows, Live, Retired
<1>9. ReadyRowsComplete'
  BY SMTT(30) DEF NothingToStore, SetStatus, RowInv, ReadyRowsComplete,
     OwnerStatus, Ready, Retired
<1> QED  BY <1>1, <1>2, <1>3, <1>4, <1>5, <1>6, <1>7, <1>8, <1>9 DEF RowInv

\* The vectors are computed.
LEMMA EmbedKeeps ==
  ASSUME RowInv, NEW t \in Task, Embed(t)
  PROVE  RowInv'
<1>1. TypeOK'
  <2>1. task' \in [Task -> TaskSet]
    BY GotoType DEF RowInv, OwnerPcs, Embed
  <2> QED
    BY <2>1 DEF RowInv, TypeOK, stores, Embed
<1>2. FreshIds'
  BY SMTT(30) DEF Embed, Goto, stores, RowInv, FreshIds
<1>3. OneOwner'
  BY SMTT(30) DEF Embed, Goto, RowInv, OneOwner
<1>4. Control'
  BY SMTT(30) DEF Embed, Goto, stores, RowInv, At, Control, OwnerPcs, Retired
<1>5. Routes'
  BY SMTT(30) DEF Embed, Goto, RowInv, At, Routes, RouteOK, OwnerPcs
<1>6. NoOrphanRows'
  BY SMTT(30) DEF Embed, stores, RowInv, NoOrphanRows, Live
<1>7. OwnerStatus'
  BY SMTT(30) DEF Embed, Goto, stores, RowInv, At, OwnerStatus, Live
<1>8. OwnerRows'
  BY SMTT(30) DEF Embed, Goto, stores, RowInv, TaskSet, At, OwnerRows, Live,
     Retired
<1>9. ReadyRowsComplete'
  BY SMTT(30) DEF Embed, stores, RowInv, ReadyRowsComplete, Ready, Retired
<1> QED  BY <1>1, <1>2, <1>3, <1>4, <1>5, <1>6, <1>7, <1>8, <1>9 DEF RowInv

\* The vectors are stored.
LEMMA UpsertKeeps ==
  ASSUME RowInv, NEW t \in Task, Upsert(t)
  PROVE  RowInv'
<1>1. TypeOK'
  <2>0. task[t].own \in DocId /\ task[t].body \in Content
    BY DEF RowInv, Control, OwnerPcs, TypeOK, TaskSet, At, NoDoc, Upsert
  <2>3. ChunksOf(task[t].body) \subseteq Chunk
    BY <2>0 DEF ChunksOf, Chunk
  <2>1. task' \in [Task -> TaskSet]
    BY GotoType DEF RowInv, OwnerPcs, Upsert
  <2>2. vectors' \in [DocId -> SUBSET Chunk]
    BY <2>0, <2>3 DEF RowInv, TypeOK, Upsert
  <2> QED
    BY <2>1, <2>2 DEF RowInv, TypeOK, Upsert
<1>2. FreshIds'
  BY SMTT(30) DEF Upsert, Goto, RowInv, FreshIds
<1>3. OneOwner'
  BY SMTT(30) DEF Upsert, Goto, RowInv, OneOwner
<1>4. Control'
  BY SMTT(30) DEF Upsert, Goto, RowInv, At, Control, OwnerPcs, Retired
<1>5. Routes'
  BY SMTT(30) DEF Upsert, Goto, RowInv, At, Routes, RouteOK, OwnerPcs
<1>6. NoOrphanRows'
  BY SMTT(30) DEF Upsert, RowInv, NoOrphanRows, Live
<1>7. OwnerStatus'
  BY SMTT(30) DEF Upsert, Goto, RowInv, At, OwnerStatus, Live
<1>8. OwnerRows'
  BY SMTT(30) DEF Upsert, Goto, RowInv, TaskSet, At, OwnerRows, Control, Live,
     Retired, FirstOf
<1>9. ReadyRowsComplete'
  BY SMTT(30) DEF Upsert, RowInv, ReadyRowsComplete, Ready, Retired
<1> QED  BY <1>1, <1>2, <1>3, <1>4, <1>5, <1>6, <1>7, <1>8, <1>9 DEF RowInv

\* set_chunk_count.
LEMMA CompleteKeeps ==
  ASSUME RowInv, NEW t \in Task, Complete(t)
  PROVE  RowInv'
<1>1. TypeOK'
  <2>0. task[t].own \in DocId /\ task[t].body \in Content
    BY DEF RowInv, Control, OwnerPcs, TypeOK, TaskSet, At, NoDoc, Complete
  <2>1. task' \in [Task -> TaskSet]
    BY <2>0, FinishType DEF RowInv, NoDoc, Complete
  <2>2. docs' \in [DocId -> RowSet]
    BY <2>0, NChunksAssumption, SetChunkCountType DEF RowInv, Complete
  <2> QED
    BY <2>1, <2>2 DEF RowInv, TypeOK, Complete
<1>2. FreshIds'
  BY SMTT(30) DEF Complete, SetChunkCount, Finish, Idle, RowInv, TypeOK,
     NoDoc, FreshIds
<1>3. OneOwner'
  BY SMTT(30) DEF Complete, Finish, Idle, RowInv, OneOwner
<1>4. Control'
  BY SMTT(30) DEF Complete, Finish, Idle, RowInv, At, Control, OwnerPcs,
     Retired
<1>5. Routes'
  BY SMTT(30) DEF Complete, Finish, Idle, RowInv, Routes, RouteOK, OwnerPcs
<1>6. NoOrphanRows'
  BY SMTT(30) DEF Complete, SetChunkCount, RowInv, NoOrphanRows, Live
<1>7. OwnerStatus'
  BY SMTT(30) DEF Complete, SetChunkCount, Finish, Idle, RowInv, TypeOK, At,
     OwnerStatus, OneOwner, Live
<1>8. OwnerRows'
  BY SMTT(30) DEF Complete, SetChunkCount, Finish, Idle, RowInv, At,
     OwnerRows, Live, Retired
<1>9. ReadyRowsComplete'
  BY SMTT(30) DEF Complete, SetChunkCount, RowInv, NoDoc, DocId,
     ReadyRowsComplete, OwnerRows, Control, OwnerPcs, Ready, Retired
<1> QED  BY <1>1, <1>2, <1>3, <1>4, <1>5, <1>6, <1>7, <1>8, <1>9 DEF RowInv

\* The except clause of _process.
LEMMA AbortKeeps ==
  ASSUME RowInv, NEW t \in Task, Abort(t)
  PROVE  RowInv'
<1>1. TypeOK'
  <2>0. task[t].own \in DocId /\ task[t].body \in Content
    BY DEF RowInv, Control, OwnerPcs, TypeOK, TaskSet, At, NoDoc, Abort
  <2>1. task' \in [Task -> TaskSet]
    BY <2>0, FinishType DEF RowInv, NoDoc, Abort
  <2>2. docs' \in [DocId -> RowSet]
    BY <2>0, NChunksAssumption, SetStatusType DEF RowInv, Abort
  <2> QED
    BY <2>1, <2>2 DEF RowInv, TypeOK, Abort
<1>2. FreshIds'
  BY SMTT(30) DEF Abort, SetStatus, Finish, Idle, RowInv, TypeOK, NoDoc,
     FreshIds
<1>3. OneOwner'
  BY SMTT(30) DEF Abort, Finish, Idle, RowInv, OneOwner
<1>4. Control'
  BY SMTT(30) DEF Abort, Finish, Idle, RowInv, At, Control, OwnerPcs, Retired
<1>5. Routes'
  BY SMTT(30) DEF Abort, Finish, Idle, RowInv, Routes, RouteOK, OwnerPcs
<1>6. NoOrphanRows'
  BY SMTT(30) DEF Abort, SetStatus, RowInv, NoOrphanRows, Live
<1>7. OwnerStatus'
  BY SMTT(30) DEF Abort, SetStatus, Finish, Idle, RowInv, TypeOK, At,
     OwnerStatus, OneOwner, Live
<1>8. OwnerRows'
  BY SMTT(30) DEF Abort, SetStatus, Finish, Idle, RowInv, TypeOK, At,
     OwnerRows, Live, Retired
<1>9. ReadyRowsComplete'
  BY SMTT(30) DEF Abort, SetStatus, RowInv, ReadyRowsComplete, OwnerStatus,
     Ready, Retired
<1> QED  BY <1>1, <1>2, <1>3, <1>4, <1>5, <1>6, <1>7, <1>8, <1>9 DEF RowInv

\* A coroutine that has created nothing yet moves on without a write.
LEMMA MoveKeeps ==
  ASSUME RowInv, NEW t \in Task, NEW r \in TaskSet,
         task' = [task EXCEPT ![t] = r], UNCHANGED <<disk, stores, requests>>,
         task[t].own = NoDoc, r.own = NoDoc, r.target < nextDoc, r.added = 0,
         r.pc \in {"lookup", "retire_version", "drop_vectors", "rehash", "parse",
                   "create"},
         RouteOK(r),
         r.pc = "create" \/ r.op = "text" => r.body \in Content,
         r.pc \in {"retire_version", "drop_vectors"} => r.target \in DocId
  PROVE  RowInv'
<1>1. TypeOK'
  <2>1. task' \in [Task -> TaskSet]
    BY DEF RowInv, TypeOK
  <2> QED
    BY <2>1 DEF RowInv, TypeOK, stores
<1>2. FreshIds'
  BY SMTT(30) DEF stores, RowInv, FreshIds
<1>3. OneOwner'
  BY SMTT(30) DEF RowInv, OneOwner
<1>4. Control'
  BY SMTT(30) DEF stores, RowInv, At, Control, OwnerPcs, Retired
<1>5. Routes'
  BY SMTT(30) DEF RowInv, Routes
<1>6. NoOrphanRows'
  BY SMTT(30) DEF stores, RowInv, NoOrphanRows, Live
<1>7. OwnerStatus'
  BY SMTT(30) DEF stores, RowInv, At, OwnerStatus, Live
<1>8. OwnerRows'
  BY SMTT(30) DEF stores, RowInv, TaskSet, At, OwnerRows, Live, Retired
<1>9. ReadyRowsComplete'
  BY SMTT(30) DEF stores, RowInv, ReadyRowsComplete, Ready, Retired
<1> QED  BY <1>1, <1>2, <1>3, <1>4, <1>5, <1>6, <1>7, <1>8, <1>9 DEF RowInv

\* A slot that has just created a document stays well formed.
LEMMA OwnType ==
  ASSUME NEW x \in TaskSet, NEW d \in DocId, NEW where \in {"begin", "no_chunks"}
  PROVE  [x EXCEPT !.pc = where, !.own = d] \in TaskSet
  BY DEF TaskSet

\* A slot that has added one more chunk row stays well formed.
LEMMA CountType ==
  ASSUME NEW x \in TaskSet, NEW n \in Nat, NEW where \in {"add_chunk", "complete"}
  PROVE  [x EXCEPT !.added = n, !.pc = where] \in TaskSet
  BY ZenonT(40) DEF TaskSet

\* A slot that was pointed at another document stays well formed.
LEMMA RetargetType ==
  ASSUME NEW x \in TaskSet, NEW d \in DocId \cup {NoDoc},
         NEW where \in {"retire_version", "drop_vectors", "create", "rehash", "parse"}
  PROVE  [x EXCEPT !.pc = where, !.target = d] \in TaskSet
  BY DEF TaskSet

\* A slot that restarts as ingest_file stays well formed.
LEMMA RehashType ==
  ASSUME NEW x \in TaskSet, NEW h \in Content
  PROVE  [x EXCEPT !.pc = "lookup", !.op = "reingest", !.hash = h,
                   !.target = NoDoc] \in TaskSet
  BY ZenonT(40) DEF TaskSet

\* Where the control stands before a document is created.
LEMMA NoOwnerYet ==
  ASSUME RowInv, NEW t \in Task, task[t].pc \notin OwnerPcs
  PROVE  /\ task[t].own = NoDoc
         /\ task[t].target < nextDoc /\ task[t].target \in DocId \cup {NoDoc}
         /\ task[t].pc # "abort" => task[t].added = 0
         /\ task[t] \in TaskSet
         /\ nextDoc \in Nat /\ NoDoc < nextDoc
  BY BoundAssumption DEF RowInv, TypeOK, Control, OwnerPcs, At, FreshIds, TaskSet,
     NoDoc

\* get_document.
LEMMA FetchKeeps ==
  ASSUME RowInv, NEW t \in Task, Fetch(t)
  PROVE  RowInv'
<1> DEFINE r(where, p) == [task[t] EXCEPT !.pc = where, !.path = p]
<1>1. /\ task[t].own = NoDoc /\ task[t].target < nextDoc /\ task[t].added = 0
      /\ task[t].target \in DocId /\ task[t] \in TaskSet
  BY NoOwnerYet DEF RowInv, Control, Fetch, At, OwnerPcs
<1>2. CASE Finish(t, "error", NoDoc)
  BY <1>2, FinishKeeps DEF Fetch
<1>3. CASE task[t].op = "delete" /\ Goto(t, "drop_vectors")
  <2>1. r("drop_vectors", task[t].path) \in TaskSet
    BY <1>1, ZenonT(40) DEF TaskSet
  <2>2. task' = [task EXCEPT ![t] = r("drop_vectors", task[t].path)]
    BY <1>1, <1>3 DEF Goto, RowInv, TypeOK, TaskSet
  <2> QED
    <3>1. RouteOK(r("drop_vectors", task[t].path))
      BY <1>1, <1>3 DEF TaskSet, RouteOK, OwnerPcs
    <3>2. /\ r("drop_vectors", task[t].path).own = NoDoc
          /\ r("drop_vectors", task[t].path).target = task[t].target
          /\ r("drop_vectors", task[t].path).added = 0
          /\ r("drop_vectors", task[t].path).pc = "drop_vectors"
          /\ r("drop_vectors", task[t].path).op = "delete"
      BY <1>1, <1>3 DEF TaskSet
    <3> HIDE DEF r
    <3> QED  BY <1>1, <2>1, <2>2, <3>1, <3>2, MoveKeeps DEF Fetch
<1>4. CASE /\ task[t].op = "refresh" /\ FileExists(docs[task[t].target].path)
           /\ task' = [task EXCEPT ![t].pc = "retire_version",
                                   ![t].path = docs[task[t].target].path]
  <2>0. docs[task[t].target].path \in Path \cup {NoPath}
    BY <1>1 DEF RowInv, TypeOK, RowSet
  <2>1. r("retire_version", docs[task[t].target].path) \in TaskSet
    BY <1>1, <2>0, ZenonT(40) DEF TaskSet
  <2>2. task' = [task EXCEPT ![t] = r("retire_version", docs[task[t].target].path)]
    BY <1>1, <1>4 DEF RowInv, TypeOK, TaskSet
  <2> QED
    <3>2. /\ r("retire_version", docs[task[t].target].path).own = NoDoc
          /\ r("retire_version", docs[task[t].target].path).target = task[t].target
          /\ r("retire_version", docs[task[t].target].path).added = 0
          /\ r("retire_version", docs[task[t].target].path).pc = "retire_version"
          /\ r("retire_version", docs[task[t].target].path).op = "refresh"
          /\ r("retire_version", docs[task[t].target].path).path
                = docs[task[t].target].path
      BY <1>1, <1>4 DEF TaskSet
    <3> HIDE DEF r
    <3>1. RouteOK(r("retire_version", docs[task[t].target].path))
      BY <1>4, <3>2 DEF FileExists, RouteOK, OwnerPcs
    <3> QED  BY <1>1, <2>1, <2>2, <3>1, <3>2, MoveKeeps DEF Fetch
<1> QED  BY <1>2, <1>3, <1>4 DEF Fetch

\* get_document_by_path and the decision what to do with what it found.
LEMMA LookupKeeps ==
  ASSUME RowInv, NEW t \in Task, Lookup(t)
  PROVE  RowInv'
<1> DEFINE d == FirstRow(task[t].path)
           r(where, x) == [task[t] EXCEPT !.pc = where, !.target = x]
<1>1. /\ task[t].own = NoDoc /\ task[t].target < nextDoc /\ task[t].added = 0
      /\ task[t] \in TaskSet /\ At(t, "lookup")
      /\ task[t].target \in DocId \cup {NoDoc}
  BY NoOwnerYet DEF Lookup, At, OwnerPcs
<1>2. task[t].op = "text" => task[t].body \in Content
  BY <1>1 DEF RowInv, Control, At
<1>3. RowsAt(task[t].path) # {} => d \in DocId /\ d < nextDoc
  BY FirstRowFound DEF RowInv, FreshIds, RowsAt, Live, NoRow
<1>4. CASE RowsAt(task[t].path) = {}
  <2> DEFINE next == AfterRetiring(task[t].op)
  <2>1. next \in {"create", "rehash", "parse"} /\ (next = "create" <=> task[t].op = "text")
       /\ (next = "rehash" <=> task[t].op = "refresh")
    BY DEF AfterRetiring
  <2>2. r(next, task[t].target) \in TaskSet
    BY <1>1, <2>1, RetargetType
  <2>3. task' = [task EXCEPT ![t] = r(next, task[t].target)]
    BY <1>1, <1>4 DEF Lookup, Goto, RowInv, TypeOK, TaskSet
  <2> HIDE DEF next
  <2> QED
    <3>2. /\ r(next, task[t].target).own = NoDoc
          /\ r(next, task[t].target).target = task[t].target
          /\ r(next, task[t].target).added = 0
          /\ r(next, task[t].target).pc = next
          /\ r(next, task[t].target).op = task[t].op
          /\ r(next, task[t].target).body = task[t].body
          /\ r(next, task[t].target).path = task[t].path
      BY <1>1 DEF TaskSet
    <3> HIDE DEF r
    <3>1. RouteOK(r(next, task[t].target))
      BY <1>1, <2>1, <3>2 DEF RowInv, Routes, RouteOK, OwnerPcs, At
    <3> QED  BY <1>1, <1>2, <2>1, <2>2, <2>3, <3>1, <3>2, MoveKeeps DEF Lookup
<1>5. CASE RowsAt(task[t].path) # {} /\ Unchanged(t, d)
  BY <1>3, <1>5, FinishKeeps DEF Lookup
<1>6. CASE RowsAt(task[t].path) # {} /\ ~Unchanged(t, d)
  <2> HIDE DEF d
  <2>1. PICK next \in {"retire_version", "drop_vectors"} :
           /\ task' = [task EXCEPT ![t].target = d, ![t].pc = next]
           /\ task[t].op = "text" => next = "retire_version"
    BY <1>6 DEF Lookup, d
  <2>2. r(next, d) \in TaskSet
    BY <1>1, <1>3, <1>6, <2>1, RetargetType
  <2>3. task' = [task EXCEPT ![t] = r(next, d)]
    BY <1>1, <2>1 DEF RowInv, TypeOK, TaskSet
  <2> QED
    <3>1. RouteOK(r(next, d))
      BY <1>1, <1>6, <2>1 DEF Lookup, RowInv, Routes, RouteOK, OwnerPcs, TaskSet, At
    <3>2. /\ r(next, d).own = NoDoc /\ r(next, d).target = d
          /\ r(next, d).added = 0 /\ r(next, d).pc = next
          /\ r(next, d).op = task[t].op /\ r(next, d).body = task[t].body
      BY <1>1 DEF TaskSet
    <3>3. UNCHANGED <<disk, stores, requests>>
      BY DEF Lookup
    <3>4. d \in DocId /\ d < nextDoc
      BY <1>3, <1>6
    <3> HIDE DEF r
    <3> QED
      BY <1>1, <1>2, <2>1, <2>2, <2>3, <3>1, <3>2, <3>3, <3>4, MoveKeeps
<1> QED  BY <1>4, <1>5, <1>6 DEF Lookup

\* The hash ingest_file takes when refresh_document calls it.
LEMMA RehashKeeps ==
  ASSUME RowInv, NEW t \in Task, Rehash(t)
  PROVE  RowInv'
<1> DEFINE h == disk[task[t].path]
           r == [task[t] EXCEPT !.pc = "lookup", !.op = "reingest",
                                !.hash = h, !.target = NoDoc]
<1>1. /\ task[t].own = NoDoc /\ task[t].added = 0 /\ task[t] \in TaskSet
      /\ nextDoc \in Nat /\ NoDoc < nextDoc
  BY NoOwnerYet DEF Rehash, At, OwnerPcs
<1>2. CASE h = Absent
  BY <1>2, FinishKeeps DEF Rehash
<1>3. CASE h # Absent
  <2>1. CASE h \in Content
    <3>1. r \in TaskSet
      BY <1>1, <2>1, RehashType
    <3>2. task' = [task EXCEPT ![t] = r]
      BY <1>1, <1>3 DEF Rehash, RowInv, TypeOK, TaskSet
    <3> QED
      <4>1. RouteOK(r)
        BY <1>1 DEF Rehash, RowInv, Routes, RouteOK, OwnerPcs, TaskSet, At
      <4>2. /\ r.own = NoDoc /\ r.target = NoDoc /\ r.added = 0
            /\ r.pc = "lookup" /\ r.op = "reingest"
        BY <1>1 DEF TaskSet
      <4> HIDE DEF r
      <4> QED  BY <1>1, <3>1, <3>2, <4>1, <4>2, MoveKeeps DEF Rehash
  <2>2. h \in Content
    BY <1>3 DEF Rehash, At, RowInv, Routes, RouteOK, TypeOK
  <2> QED  BY <2>1, <2>2
<1> QED  BY <1>2, <1>3

\* parse_file.
LEMMA ParseKeeps ==
  ASSUME RowInv, NEW t \in Task, Parse(t)
  PROVE  RowInv'
<1> DEFINE h == disk[task[t].path]
           r == [task[t] EXCEPT !.pc = "create", !.body = h]
<1>1. /\ task[t].own = NoDoc /\ task[t].added = 0 /\ task[t] \in TaskSet
      /\ task[t].target < nextDoc
  BY NoOwnerYet DEF Parse, At, OwnerPcs
<1>2. CASE h = Absent
  BY <1>2, FinishKeeps DEF Parse
<1>3. CASE h # Absent
  <2>1. h \in Content
    BY <1>3 DEF Parse, At, RowInv, Routes, RouteOK, TypeOK
  <2>2. r \in TaskSet
    BY <1>1, <2>1, ZenonT(40) DEF TaskSet
  <2>3. task' = [task EXCEPT ![t] = r]
    BY <1>1, <1>3 DEF Parse, RowInv, TypeOK, TaskSet
  <2> QED
    <3>1. RouteOK(r)
      BY <1>1 DEF Parse, RowInv, Routes, RouteOK, OwnerPcs, TaskSet, At
    <3>2. /\ r.own = NoDoc /\ r.target = task[t].target /\ r.added = 0
          /\ r.pc = "create" /\ r.body = h
      BY <1>1 DEF TaskSet
    <3> HIDE DEF r
    <3> QED  BY <1>1, <2>1, <2>2, <2>3, <3>1, <3>2, MoveKeeps DEF Parse
<1> QED  BY <1>2, <1>3

\* parse_file raises before a document exists: the request ends with an error.
LEMMA ParserFailsKeeps ==
  ASSUME RowInv, NEW t \in Task, ParserFails(t)
  PROVE  RowInv'
  BY FinishKeeps DEF ParserFails

\* An exception while the document is being filled: both ways out.
LEMMA RaiseKeeps ==
  ASSUME RowInv, NEW t \in Task, Raise(t),
         task[t].own # NoDoc => task[t].pc \in {"embed", "upsert", "add_chunk"},
         UNCHANGED <<disk, docs, chunks, versions, nextDoc, requests>>,
         vectors' \in [DocId -> SUBSET Chunk],
         \A d \in DocId : ~(d < nextDoc) => vectors'[d] = {}
  PROVE  RowInv'
  BY AbortedKeeps, PropagatedKeeps DEF Raise

\* embed raises: nothing was stored yet.
LEMMA EmbedderFailsKeeps ==
  ASSUME RowInv, NEW t \in Task, EmbedderFails(t)
  PROVE  RowInv'
  BY RaiseKeeps DEF EmbedderFails, RowInv, TypeOK, FreshIds, At, stores

\* A call of the vector store raises, applied or not: only vectors of existing documents change.
LEMMA StoreFailsKeeps ==
  ASSUME RowInv, NEW t \in Task, StoreFails(t)
  PROVE  RowInv'
<1>1. task[t].own # NoDoc => task[t].pc \in {"embed", "upsert", "add_chunk"}
  BY DEF StoreFails, RowInv, Control, OwnerPcs, At
<1>2. /\ vectors' \in [DocId -> SUBSET Chunk]
      /\ \A d \in DocId : ~(d < nextDoc) => vectors'[d] = {}
  <2>0. vectors \in [DocId -> SUBSET Chunk] /\ \A d \in DocId : ~(d < nextDoc) => vectors[d] = {}
    BY DEF RowInv, TypeOK, FreshIds
  <2>1. CASE UNCHANGED vectors
    BY <2>0, <2>1
  <2>2. CASE vectors' = [vectors EXCEPT ![task[t].target] = {}]
    BY <2>0, <2>2
  <2>3. CASE /\ At(t, "upsert")
             /\ vectors' = [vectors EXCEPT ![task[t].own] = @ \cup ChunksOf(task[t].body)]
    <3>1. task[t].own \in DocId /\ task[t].own < nextDoc /\ task[t].body \in Content
      BY <2>3 DEF RowInv, Control, OwnerPcs, TypeOK, TaskSet, At, NoDoc, FreshIds
    <3>2. ChunksOf(task[t].body) \subseteq Chunk
      BY <3>1 DEF ChunksOf, Chunk
    <3> QED  BY <2>0, <2>3, <3>1, <3>2
  <2> QED  BY <2>1, <2>2, <2>3 DEF StoreFails, DeleteVectors
<1> QED  BY <1>1, <1>2, RaiseKeeps DEF StoreFails

\* DELETE FROM documents at the end of delete_document.
LEMMA DropRowDeleteKeeps ==
  ASSUME RowInv, NEW t \in Task, At(t, "drop_row"), Finish(t, "ok", NoDoc),
         docs' = [docs EXCEPT ![task[t].target] = NoRow],
         chunks' = [chunks EXCEPT ![task[t].target] = {}],
         UNCHANGED <<disk, vectors, versions, nextDoc, requests>>
  PROVE  RowInv'
<1>1. TypeOK'
  <2>1. task' \in [Task -> TaskSet]
    BY FinishType DEF RowInv, NoDoc
  <2>2. docs' \in [DocId -> RowSet] /\ chunks' \in [DocId -> SUBSET Chunk]
    BY DEF RowInv, TypeOK, NoRow, RowSet
  <2> QED
    BY <2>1, <2>2 DEF RowInv, TypeOK
<1>2. FreshIds'
  BY SMTT(30) DEF Finish, Idle, RowInv, TypeOK, NoDoc, FreshIds
<1>3. OneOwner'
  BY SMTT(30) DEF Finish, Idle, RowInv, OneOwner
<1>4. Control'
  BY SMTT(30) DEF Finish, Idle, RowInv, At, Control, OwnerPcs, Retired
<1>5. Routes'
  BY SMTT(30) DEF Finish, Idle, RowInv, Routes, RouteOK, OwnerPcs
<1>6. NoOrphanRows'
  BY SMTT(30) DEF RowInv, TypeOK, NoOrphanRows, Live
<1>7. OwnerStatus'
  BY SMTT(30) DEF Finish, Idle, NoRow, RowInv, At, OwnerStatus, Live
<1>8. OwnerRows'
  BY SMTT(30) DEF Finish, Idle, NoRow, RowInv, TypeOK, TaskSet, At, OwnerRows,
     Live, Retired
<1>9. ReadyRowsComplete'
  BY SMTT(30) DEF NoRow, RowInv, TypeOK, ReadyRowsComplete, Ready, Retired
<1> QED  BY <1>1, <1>2, <1>3, <1>4, <1>5, <1>6, <1>7, <1>8, <1>9 DEF RowInv

\* DELETE FROM documents before a changed file is ingested again.
LEMMA DropRowReingestKeeps ==
  ASSUME RowInv, NEW t \in Task, At(t, "drop_row"), Goto(t, "parse"),
         task[t].op # "delete",
         docs' = [docs EXCEPT ![task[t].target] = NoRow],
         chunks' = [chunks EXCEPT ![task[t].target] = {}],
         UNCHANGED <<disk, vectors, versions, nextDoc, requests>>
  PROVE  RowInv'
<1>1. TypeOK'
  <2>1. task' \in [Task -> TaskSet]
    BY GotoType DEF RowInv
  <2>2. docs' \in [DocId -> RowSet] /\ chunks' \in [DocId -> SUBSET Chunk]
    BY DEF RowInv, TypeOK, NoRow, RowSet
  <2> QED
    BY <2>1, <2>2 DEF RowInv, TypeOK
<1>2. FreshIds'
  BY SMTT(30) DEF Goto, RowInv, FreshIds
<1>3. OneOwner'
  BY SMTT(30) DEF Goto, RowInv, OneOwner
<1>4. Control'
  BY SMTT(30) DEF Goto, RowInv, At, Control, OwnerPcs, Retired
<1>5. Routes'
  BY SMTT(30) DEF Goto, RowInv, At, Routes, RouteOK
<1>6. NoOrphanRows'
  BY SMTT(30) DEF RowInv, TypeOK, NoOrphanRows, Live
<1>7. OwnerStatus'
  BY SMTT(30) DEF Goto, NoRow, RowInv, At, OwnerStatus, Live
<1>8. OwnerRows'
  BY SMTT(30) DEF Goto, NoRow, RowInv, TypeOK, TaskSet, At, OwnerRows, Live,
     Retired
<1>9. ReadyRowsComplete'
  BY SMTT(30) DEF NoRow, RowInv, TypeOK, ReadyRowsComplete, Ready, Retired
<1> QED  BY <1>1, <1>2, <1>3, <1>4, <1>5, <1>6, <1>7, <1>8, <1>9 DEF RowInv

\* create_document.
LEMMA CreateKeeps ==
  ASSUME RowInv, NEW t \in Task, NEW next \in {"begin", "no_chunks"}, Create(t),
         task' = [task EXCEPT ![t].pc = next, ![t].own = nextDoc]
  PROVE  RowInv'
<1>1. TypeOK'
  <2>0. nextDoc \in DocId /\ task[t] \in TaskSet
    BY DEF RowInv, Create, TypeOK
  <2>5. task' = [task EXCEPT ![t] = [task[t] EXCEPT !.pc = next, !.own = nextDoc]]
    BY <2>0 DEF RowInv, TypeOK, TaskSet
  <2>6. [task[t] EXCEPT !.pc = next, !.own = nextDoc] \in TaskSet
    BY <2>0, OwnType
  <2>1. task' \in [Task -> TaskSet]
    BY <2>5, <2>6 DEF RowInv, TypeOK
  <2>2. /\ task[t].path \in Path \cup {NoPath}
        /\ task[t].hash \in Content \cup {Absent} /\ task[t].torn \in BOOLEAN
    BY <2>0 DEF TaskSet
  <2>3. docs' \in [DocId -> RowSet]
    <3>1. PICK r : r = [status |-> "pending", path |-> task[t].path,
                        hash |-> task[t].hash, count |-> 0, torn |-> task[t].torn]
      OBVIOUS
    <3>2. r \in RowSet
      BY <2>2, <3>1 DEF RowSet
    <3>3. docs' = [docs EXCEPT ![nextDoc] = r]
      BY <3>1 DEF Create
    <3> QED  BY <2>0, <3>2, <3>3 DEF RowInv, TypeOK
  <2>4. nextDoc' \in 1..(MaxRequests + 1)
    BY BoundAssumption DEF RowInv, Create, TypeOK, DocId
  <2> QED
    BY <2>1, <2>3, <2>4 DEF RowInv, TypeOK, Create
<1>2. FreshIds'
  BY BoundAssumption, NChunksAssumption, SMTT(30) DEF RowInv, TypeOK, TaskSet,
     At, FreshIds, NoRow
<1>3. OneOwner'
  BY SMTT(30) DEF RowInv, TypeOK, TaskSet, OneOwner
<1>4. Control'
  BY SMTT(30) DEF Create, RowInv, TypeOK, TaskSet, NoDoc, At, Control,
     OwnerPcs
<1>5. Routes'
  BY SMTT(30) DEF Create, RowInv, TypeOK, At, Routes, RouteOK
<1>6. NoOrphanRows'
  BY SMTT(30) DEF Create, RowInv, NoOrphanRows, Live
<1>7. OwnerStatus'
  BY SMTT(30) DEF Create, RowInv, TypeOK, TaskSet, At, OwnerStatus, OneOwner,
     Live
<1>8. OwnerRows'
  BY SMTT(30) DEF Create, RowInv, TypeOK, TaskSet, NoDoc, At, OwnerRows,
     Control, OwnerPcs, Live
<1>9. ReadyRowsComplete'
  BY SMTT(30) DEF Create, RowInv, ReadyRowsComplete, Ready, Retired
<1> QED  BY <1>1, <1>2, <1>3, <1>4, <1>5, <1>6, <1>7, <1>8, <1>9 DEF RowInv

\* INSERT INTO chunks.
LEMMA AddRowKeeps ==
  ASSUME RowInv, NEW t \in Task, NEW next \in {"add_chunk", "complete"},
         At(t, "add_chunk"), Live(task[t].own),
         next = "complete" <=> task[t].added + 1 = NChunks[task[t].body],
         chunks' = [chunks EXCEPT ![task[t].own] =
                      @ \cup {<<task[t].body, task[t].added + 1>>}],
         task' = [task EXCEPT ![t].added = task[t].added + 1, ![t].pc = next],
         UNCHANGED <<disk, docs, vectors, versions, nextDoc, requests>>
  PROVE  RowInv'
<1>1. TypeOK'
  <2>0. task[t].own \in DocId /\ task[t].body \in Content /\ task[t].added \in Nat
    BY DEF RowInv, Control, OwnerPcs, TypeOK, TaskSet, At, NoDoc
  <2>3. task[t] \in TaskSet
    BY DEF RowInv, TypeOK
  <2>4. task' = [task EXCEPT ![t] = [task[t] EXCEPT !.added = task[t].added + 1,
                                                    !.pc = next]]
    BY <2>3 DEF RowInv, TypeOK, TaskSet
  <2>5. task[t].added + 1 \in Nat
    BY <2>0
  <2>6. [task[t] EXCEPT !.added = task[t].added + 1, !.pc = next] \in TaskSet
    BY <2>3, <2>5, CountType
  <2>1. task' \in [Task -> TaskSet]
    BY <2>4, <2>6 DEF RowInv, TypeOK
  <2>2. chunks' \in [DocId -> SUBSET Chunk]
    BY <2>0 DEF RowInv, TypeOK, Chunk
  <2> QED
    BY <2>1, <2>2 DEF RowInv, TypeOK
<1>2. FreshIds'
  BY SMTT(30) DEF RowInv, TypeOK, FreshIds
<1>3. OneOwner'
  BY SMTT(30) DEF RowInv, TypeOK, OneOwner
<1>4. Control'
  BY NChunksAssumption, SMTT(30) DEF RowInv, TypeOK, TaskSet, DocId, At,
     Control, OwnerPcs, Retired
<1>5. Routes'
  BY SMTT(30) DEF RowInv, TypeOK, TaskSet, At, Routes, RouteOK
<1>6. NoOrphanRows'
  BY SMTT(30) DEF RowInv, NoOrphanRows, Live
<1>7. OwnerStatus'
  BY SMTT(30) DEF RowInv, TypeOK, At, OwnerStatus, Live
<1>8. OwnerRows'
  <2>1. /\ task[t] \in TaskSet /\ task[t].own \in DocId
        /\ task[t].body \in Content /\ task[t].added \in Nat
    BY DEF RowInv, Control, OwnerPcs, TypeOK, TaskSet, At, NoDoc
  <2>2. task[t].own # NoDoc /\ At(t, "add_chunk")
    BY <2>1 DEF NoDoc, DocId
  <2>3. \A u \in Task : u # t => task'[u] = task[u]
    BY DEF RowInv, TypeOK
  <2>4. /\ task'[t].own = task[t].own /\ task'[t].body = task[t].body
        /\ task'[t].added = task[t].added + 1 /\ task'[t].pc = next
    BY <2>1 DEF RowInv, TypeOK, TaskSet
  <2>5. FirstOf(task[t].body, task[t].added) \cup {<<task[t].body, task[t].added + 1>>}
           = FirstOf(task[t].body, task[t].added + 1)
    <3>1. 1..(task[t].added + 1) = (1..task[t].added) \cup {task[t].added + 1}
      BY <2>1
    <3> QED
      BY <3>1 DEF FirstOf
  <2>6. chunks'[task[t].own] =
           chunks[task[t].own] \cup {<<task[t].body, task[t].added + 1>>}
    BY <2>1 DEF RowInv, TypeOK
  <2>7. \A d : d # task[t].own => chunks'[d] = chunks[d]
    BY DEF RowInv, TypeOK
  <2> SUFFICES ASSUME NEW u \in Task, task'[u].own # NoDoc,
                      Live(task[u].own)', ~Retired(task[u].own)'
               PROVE  /\ task'[u].pc \in {"begin", "no_chunks", "embed", "upsert"}
                            => chunks'[task'[u].own] = {}
                      /\ At(u, "add_chunk")' => chunks'[task'[u].own]
                                                = FirstOf(task'[u].body, task'[u].added)
                      /\ At(u, "complete")' => chunks'[task'[u].own]
                                                = ChunksOf(task'[u].body)
    BY DEF OwnerRows, FirstOf, ChunksOf
  <2>8. CASE u = t
    <3>1. chunks[task[t].own] = FirstOf(task[t].body, task[t].added)
      BY <2>2, <2>4, <2>8 DEF RowInv, OwnerRows, Live, Retired
    <3>2. chunks'[task'[t].own] = FirstOf(task'[t].body, task'[t].added)
      BY <2>4, <2>5, <2>6, <3>1
    <3>3. next = "complete" => FirstOf(task'[t].body, task'[t].added) = ChunksOf(task'[t].body)
      BY <2>4 DEF FirstOf, ChunksOf
    <3> QED
      BY <2>4, <2>8, <3>2, <3>3 DEF At
  <2>9. CASE u # t
    <3>1. task'[u] = task[u] /\ task[u].own # task[t].own
      BY <2>2, <2>3, <2>9 DEF RowInv, OneOwner
    <3>2. chunks'[task[u].own] = chunks[task[u].own]
      BY <2>7, <3>1
    <3> QED
      BY <3>1, <3>2 DEF RowInv, OwnerRows, Live, Retired, At
  <2> QED
    BY <2>8, <2>9
<1>9. ReadyRowsComplete'
  BY SMTT(30) DEF RowInv, NoDoc, DocId, ReadyRowsComplete, OwnerStatus, Ready,
     Retired
<1> QED  BY <1>1, <1>2, <1>3, <1>4, <1>5, <1>6, <1>7, <1>8, <1>9 DEF RowInv

\* add_chunk: one more row, or a foreign-key error when the document is gone.
LEMMA AddChunkKeeps ==
  ASSUME RowInv, NEW t \in Task, AddChunk(t)
  PROVE  RowInv'
<1>1. At(t, "add_chunk") /\ task[t].pc = "add_chunk"
  BY DEF AddChunk, At
<1>2. CASE Live(task[t].own) /\ task[t].added + 1 = NChunks[task[t].body]
  BY <1>1, <1>2, AddRowKeeps DEF AddChunk
<1>3. CASE Live(task[t].own) /\ task[t].added + 1 # NChunks[task[t].body]
  <2>1. task' = [task EXCEPT ![t].added = task[t].added + 1, ![t].pc = "add_chunk"]
    BY <1>1, <1>3 DEF AddChunk, RowInv, TypeOK, TaskSet
  <2> QED  BY <1>1, <1>3, <2>1, AddRowKeeps DEF AddChunk
<1>4. CASE ~Live(task[t].own)
  BY <1>1, <1>4, RaiseKeeps DEF AddChunk, RowInv, TypeOK, FreshIds
<1> QED  BY <1>2, <1>3, <1>4

\* delete_document, at the end of a deletion or before a changed file is ingested again.
LEMMA DropRowKeeps ==
  ASSUME RowInv, NEW t \in Task, DropRow(t)
  PROVE  RowInv'
  BY DropRowDeleteKeeps, DropRowReingestKeeps DEF DropRow

\* The process dies and restarts: the stores are as they were, the coroutines are gone.
LEMMA CrashKeeps ==
  ASSUME RowInv, Crash
  PROVE  RowInv'
<1>1. TypeOK'
  BY IdleType DEF RowInv, TypeOK, Crash, stores
<1>2. FreshIds'
  BY DEF RowInv, FreshIds, Crash, stores, Idle, NoDoc, TypeOK, NoRow
<1>3. OneOwner' /\ Routes' /\ OwnerStatus' /\ OwnerRows'
  BY DEF Crash, OneOwner, Routes, RouteOK, OwnerStatus, OwnerRows, Idle, OwnerPcs,
     NoDoc
<1>4. Control'
  BY DEF Crash, Control, OwnerPcs, Idle, At
<1>5. NoOrphanRows' /\ ReadyRowsComplete'
  BY DEF RowInv, Crash, stores, NoOrphanRows, ReadyRowsComplete, Live, Ready, Retired
<1> QED  BY <1>1, <1>2, <1>3, <1>4, <1>5 DEF RowInv

\* Somebody writes or removes a file on disk: whoever is between its hash and its
\* parse carries on with a torn file, and knows nothing of it.
LEMMA EditTears ==
  ASSUME RowInv, NEW p \in FilePath, NEW c, Edit(p, c), NEW t \in Task
  PROVE  /\ task'[t].torn = (task[t].torn \/ BeforeParse(t, p))
         /\ task'[t].pc = task[t].pc /\ task'[t].op = task[t].op
         /\ task'[t].path = task[t].path /\ task'[t].hash = task[t].hash
         /\ task'[t].body = task[t].body /\ task'[t].own = task[t].own
         /\ task'[t].target = task[t].target /\ task'[t].added = task[t].added
         /\ task'[t].outcome = task[t].outcome /\ task'[t].ret = task[t].ret
<1> DEFINE b == task[t].torn \/ BeforeParse(t, p)
<1>1. task'[t] = [task[t] EXCEPT !.torn = b]
  BY DEF Edit
<1>2. task[t] \in TaskSet
  BY DEF RowInv, TypeOK
<1> HIDE DEF b
<1>3. task'[t].torn = b
  BY <1>1, <1>2 DEF TaskSet
<1> QED  BY <1>1, <1>2, <1>3 DEF TaskSet, b

LEMMA EditKeeps ==
  ASSUME RowInv, NEW p \in FilePath, NEW c \in Content \cup {Absent}, Edit(p, c)
  PROVE  RowInv'
<1>1. TypeOK'
  <2>1. ASSUME NEW t \in Task PROVE task'[t] \in TaskSet
    <3>1. task'[t] = [task[t] EXCEPT !.torn = (task[t].torn \/ BeforeParse(t, p))]
      BY DEF Edit
    <3>2. task[t] \in TaskSet /\ (task[t].torn \/ BeforeParse(t, p)) \in BOOLEAN
      BY DEF RowInv, TypeOK, TaskSet, BeforeParse
    <3> QED  BY <3>1, <3>2 DEF TaskSet
  <2>2. task' \in [Task -> TaskSet]
    BY <2>1 DEF Edit
  <2> QED  BY <2>2 DEF RowInv, TypeOK, Edit, stores
<1>2. \A t \in Task :
          /\ task'[t].pc = task[t].pc /\ task'[t].op = task[t].op
          /\ task'[t].path = task[t].path /\ task'[t].body = task[t].body
          /\ task'[t].own = task[t].own /\ task'[t].target = task[t].target
          /\ task'[t].added = task[t].added
  BY EditTears
<1>3. UNCHANGED stores
  BY DEF Edit
<1>4. FreshIds' /\ OneOwner'
  BY <1>2, <1>3 DEF RowInv, FreshIds, OneOwner, stores
<1>5. Control'
  BY <1>2, <1>3 DEF RowInv, Control, stores, At, Retired
<1>6. Routes'
  BY <1>2 DEF RowInv, Routes, RouteOK
<1>7. OwnerStatus' /\ OwnerRows'
  BY <1>2, <1>3 DEF RowInv, OwnerStatus, OwnerRows, stores, At, Retired, Live
<1>8. NoOrphanRows' /\ ReadyRowsComplete'
  BY <1>3 DEF RowInv, NoOrphanRows, ReadyRowsComplete, stores, Retired, Live, Ready
<1> QED  BY <1>1, <1>4, <1>5, <1>6, <1>7, <1>8 DEF RowInv

\* The service starts with empty stores and no request.
LEMMA InitEstablishes == Init => RowInv
<1> SUFFICES ASSUME Init PROVE RowInv
  OBVIOUS
<1>1. TypeOK
  BY IdleType, BoundAssumption DEF Init, TypeOK, NoRow, RowSet
<1>2. FreshIds /\ OneOwner /\ Control /\ Routes
  BY DEF Init, FreshIds, OneOwner, Control, Routes, RouteOK, OwnerPcs, Idle, NoDoc, At
<1>3. NoOrphanRows /\ OwnerStatus /\ OwnerRows /\ ReadyRowsComplete
  BY DEF Init, NoOrphanRows, OwnerStatus, OwnerRows, ReadyRowsComplete, Idle, NoDoc,
     Ready, NoRow
<1> QED  BY <1>1, <1>2, <1>3 DEF RowInv

\* Every step of the service keeps the row invariant.
LEMMA StepKeeps == RowInv /\ [Next]_vars => RowInv'
<1> SUFFICES ASSUME RowInv, [Next]_vars PROVE RowInv'
  OBVIOUS
<1>1. ASSUME NEW t \in Task, Start(t) PROVE RowInv'
  BY <1>1, StartIngestFileKeeps, StartIngestTextKeeps, StartRefreshKeeps,
     StartDeleteKeeps DEF Start
<1>2. ASSUME NEW t \in Task, Step(t) PROVE RowInv'
  <2>1. CASE Create(t)
    BY <2>1, CreateKeeps DEF Create
  <2> QED
    BY <1>2, <2>1, FetchKeeps, LookupKeeps, RetireVersionKeeps, RetireVectorsKeeps,
       RetireChunksKeeps, DropVectorsKeeps, DropRowKeeps, RehashKeeps, ParseKeeps,
       BeginKeeps, NothingToStoreKeeps, EmbedKeeps, UpsertKeeps, AddChunkKeeps,
       CompleteKeeps, AbortKeeps DEF Step
<1>3. ASSUME NEW t \in Task, Fault(t) PROVE RowInv'
  BY <1>3, ParserFailsKeeps, EmbedderFailsKeeps, StoreFailsKeeps DEF Fault
<1>4. CASE Crash
  BY <1>4, CrashKeeps
<1>5. CASE \E p \in FilePath, c \in Content \cup {Absent} : Edit(p, c)
  BY <1>5, EditKeeps
<1>6. CASE UNCHANGED vars
  <2>1. /\ TypeOK' /\ FreshIds' /\ OneOwner' /\ Control' /\ Routes'
    BY <1>6 DEF RowInv, vars, stores, TypeOK, FreshIds, OneOwner, Control, Routes,
       At, Retired
  <2>2. OwnerStatus' /\ OwnerRows' /\ NoOrphanRows' /\ ReadyRowsComplete'
    BY <1>6 DEF RowInv, vars, stores, OwnerStatus, OwnerRows, NoOrphanRows,
       ReadyRowsComplete, At, Retired, Live, Ready
  <2> QED  BY <2>1, <2>2 DEF RowInv
<1> QED  BY <1>1, <1>2, <1>3, <1>4, <1>5, <1>6 DEF Next

\* The row invariant holds in every reachable state.
LEMMA RowInvariant == Spec => []RowInv
<1> QED  BY InitEstablishes, StepKeeps, PTL DEF Spec

\* Type correctness of both stores and of every coroutine.
THEOREM TypeCorrect == Spec => []TypeOK
<1>1. RowInv => TypeOK
  BY DEF RowInv
<1> QED  BY <1>1, RowInvariant, PTL

\* A ready document that was never retired has all its chunk rows, as many as
\* it says: for any number of concurrent requests, failures and crashes.
THEOREM ReadyMeansComplete == Spec => []ReadyRowsComplete
<1>1. RowInv => ReadyRowsComplete
  BY DEF RowInv
<1> QED  BY <1>1, RowInvariant, PTL

\* No chunk row survives its document, and none is added after its deletion.
THEOREM NoRowWithoutDocument == Spec => []NoOrphanRows
<1>1. RowInv => NoOrphanRows
  BY DEF RowInv
<1> QED  BY <1>1, RowInvariant, PTL

-----------------------------------------------------------------------------
(***************************************************************************)
(* Ingestion implements DocumentLifecycle: the document rows, whatever     *)
(* requests, failures and crashes produce them, live the life promised.    *)
(* The inductive invariant says what the owner of a document knows about   *)
(* it at each write; from it, each statement that writes a row is one step *)
(* of the lifecycle.                                                       *)
(***************************************************************************)
\* The state function the phases of the lifecycle stand for.
Phases == [d \in DocId |-> Phase(d)]

\* A step that writes no table is a stutter of the lifecycle.
LEMMA NothingWritten ==
  ASSUME UNCHANGED <<docs, chunks, versions, nextDoc>>
  PROVE  UNCHANGED Lifecycle!vars
<1>1. \A d \in DocId : Phase(d)' = Phase(d) /\ Retired(d)' = Retired(d)
  BY DEF Phase, Live, Retired
<1> QED  BY <1>1 DEF Lifecycle!vars

\* A write to the row of one existing document changes the phase of that one.
LEMMA PhaseOfWrite ==
  ASSUME TypeOK, NEW d \in DocId, d < nextDoc, NEW row \in RowSet,
         docs' = [docs EXCEPT ![d] = row], nextDoc' = nextDoc,
         NEW p, p = IF row.status # "absent" THEN row.status ELSE "deleted"
  PROVE  Phases' = [Phases EXCEPT ![d] = p]
<1>1. \A e \in DocId : Phase(e)' = IF e = d THEN p ELSE Phase(e)
  BY DEF TypeOK, Phase, Live
<1> QED  BY <1>1 DEF Phases

\* A step that writes no version row leaves every document as retired as it was.
LEMMA RetiredKept ==
  ASSUME UNCHANGED versions
  PROVE  [d \in DocId |-> Retired(d)]' = [d \in DocId |-> Retired(d)]
  BY DEF Retired

\* set_status on the document of the coroutine: the move it stands for, or
\* nothing where the row is gone.
LEMMA StatusMoves ==
  ASSUME TypeOK, NEW d \in DocId, d < nextDoc,
         NEW from \in SUBSET {"pending", "processing"},
         NEW s \in {"processing", "failed"},
         SetStatus(d, s), Live(d) => docs[d].status \in from,
         UNCHANGED <<chunks, versions, nextDoc>>
  PROVE  Lifecycle!Move(d, from, s) \/ UNCHANGED Lifecycle!vars
<1>1. CASE ~Live(d)
  <2>1. docs' = docs
    BY <1>1 DEF SetStatus, TypeOK
  <2> QED  BY <2>1, NothingWritten
<1>2. CASE Live(d)
  <2> DEFINE row == [docs[d] EXCEPT !.status = s]
  <2>1. row \in RowSet /\ row.status = s /\ s # "absent"
    BY DEF TypeOK, RowSet
  <2>2. docs' = [docs EXCEPT ![d] = row]
    BY <1>2 DEF SetStatus
  <2> HIDE DEF row
  <2>3. Phases' = [Phases EXCEPT ![d] = s]
    BY <2>1, <2>2, PhaseOfWrite
  <2>4. Phases[d] \in from
    BY <1>2 DEF Phases, Phase
  <2> QED  BY <2>3, <2>4, RetiredKept DEF Lifecycle!Move, Phases
<1> QED  BY <1>1, <1>2
(* One lemma per statement that writes a table. *)

\* create_document inserts a pending row under an id never used before.
LEMMA CreateInserts ==
  ASSUME RowInv, NEW t \in Task, Create(t)
  PROVE  Lifecycle!Insert(nextDoc)
<1>1. nextDoc \in DocId /\ nextDoc \in Nat /\ ~(nextDoc < nextDoc)
  BY DEF Create, DocId
<1>2. \A d \in DocId : d < nextDoc' <=> d < nextDoc \/ d = nextDoc
  BY <1>1 DEF Create, DocId
<1>3. docs' = [docs EXCEPT ![nextDoc] =
                 [status |-> "pending", path |-> task[t].path,
                  hash |-> task[t].hash, count |-> 0, torn |-> task[t].torn]]
  BY DEF Create
<1>4. \A d \in DocId : Phase(d)' = IF d = nextDoc THEN "pending" ELSE Phase(d)
  BY <1>1, <1>2, <1>3 DEF RowInv, TypeOK, Phase, Live
<1>5. Phases' = [Phases EXCEPT ![nextDoc] = "pending"] /\ Phases[nextDoc] = "unborn"
  BY <1>1, <1>4 DEF Phases, Phase
<1> QED  BY <1>1, <1>5, RetiredKept DEF Create, Lifecycle!Insert, Lifecycle!Move, Phases

\* What the invariant says of the document a coroutine owns.
LEMMA OwnedDocument ==
  ASSUME RowInv, NEW t \in Task, task[t].pc \in OwnerPcs
  PROVE  /\ task[t].own \in DocId /\ task[t].own < nextDoc
         /\ task[t].own # NoDoc /\ task[t].body \in Content
  BY DEF RowInv, Control, FreshIds, TypeOK, TaskSet

\* _process starts on the document it has just created.
LEMMA BeginBegins ==
  ASSUME RowInv, NEW t \in Task, Begin(t)
  PROVE  Lifecycle!Begin(task[t].own) \/ UNCHANGED Lifecycle!vars
<1>1. /\ task[t].own \in DocId /\ task[t].own < nextDoc
      /\ Live(task[t].own) => docs[task[t].own].status \in {"pending"}
  BY OwnedDocument DEF Begin, At, OwnerPcs, RowInv, OwnerStatus
<1> QED  BY <1>1, StatusMoves DEF Begin, RowInv, Lifecycle!Begin

\* set_status "failed", by the coroutine that owns the document.
LEMMA FailureFails ==
  ASSUME RowInv, NEW t \in Task, NothingToStore(t) \/ Abort(t)
  PROVE  Lifecycle!Fail(task[t].own) \/ UNCHANGED Lifecycle!vars
<1>1. /\ task[t].own \in DocId /\ task[t].own < nextDoc
      /\ Live(task[t].own) => docs[task[t].own].status \in {"pending", "processing"}
  BY OwnedDocument DEF NothingToStore, Abort, At, OwnerPcs, RowInv, OwnerStatus
<1> QED  BY <1>1, StatusMoves DEF NothingToStore, Abort, RowInv, Lifecycle!Fail

\* set_chunk_count makes a document ready when all its rows are there.
LEMMA CompletePublishes ==
  ASSUME RowInv, NEW t \in Task, Complete(t)
  PROVE  Lifecycle!Publish(task[t].own) \/ UNCHANGED Lifecycle!vars
<1> DEFINE d == task[t].own
           row == [docs[d] EXCEPT !.status = "ready", !.count = NChunks[task[t].body]]
<1>1. d \in DocId /\ d < nextDoc /\ d # NoDoc /\ task[t].body \in Content
  BY OwnedDocument DEF Complete, At, OwnerPcs
<1>2. CASE ~Live(d)
  <2>1. docs' = docs
    BY <1>2 DEF Complete, SetChunkCount, RowInv, TypeOK
  <2> QED  BY <2>1, NothingWritten DEF Complete
<1>3. CASE Live(d)
  <2>1. row \in RowSet /\ row.status = "ready"
    <3>1. docs[d] \in RowSet
      BY <1>1 DEF RowInv, TypeOK, Live
    <3>2. NChunks[task[t].body] \in Nat
      BY <1>1, NChunksAssumption
    <3> QED  BY <3>1, <3>2 DEF RowSet
  <2>2. docs' = [docs EXCEPT ![d] = row]
    BY <1>3 DEF Complete, SetChunkCount
  <2>3. Phases[d] = "processing"
    BY <1>1, <1>3 DEF Complete, At, RowInv, OwnerStatus, Phases, Phase
  <2>4. Retired(d) \/ chunks[d] = ChunksOf(task[t].body)
    BY <1>1, <1>3 DEF Complete, RowInv, OwnerRows
  <2> HIDE DEF row
  <2>5. Phases' = [Phases EXCEPT ![d] = "ready"]
    BY <1>1, <2>1, <2>2, PhaseOfWrite DEF Complete, RowInv
  <2> QED
    BY <1>1, <2>3, <2>4, <2>5, RetiredKept
    DEF Complete, Lifecycle!Publish, Lifecycle!Move, Phases
<1> QED  BY <1>2, <1>3

\* add_chunk adds rows to a document in processing only.
LEMMA AddChunkAdds ==
  ASSUME RowInv, NEW t \in Task, AddChunk(t)
  PROVE  \/ \E r \in UNION {ChunksOf(c) : c \in Content} : Lifecycle!AddRow(task[t].own, r)
         \/ UNCHANGED Lifecycle!vars
<1> DEFINE d == task[t].own
           r == <<task[t].body, task[t].added + 1>>
<1>1. d \in DocId /\ d < nextDoc /\ d # NoDoc /\ task[t].body \in Content
  BY OwnedDocument DEF AddChunk, At, OwnerPcs
<1>2. CASE ~Live(d)
  BY <1>2, NothingWritten DEF AddChunk
<1>3. CASE Live(d)
  <2>1. r \in ChunksOf(task[t].body)
    <3>1. task[t].added \in Nat /\ task[t].added < NChunks[task[t].body]
      BY DEF AddChunk, RowInv, Control, TypeOK, TaskSet
    <3>2. NChunks[task[t].body] \in Nat
      BY <1>1, NChunksAssumption
    <3> QED  BY <3>1, <3>2 DEF ChunksOf
  <2>2. Phases[d] = "processing" /\ chunks' = [chunks EXCEPT ![d] = @ \cup {r}]
    BY <1>1, <1>3 DEF AddChunk, At, RowInv, OwnerStatus, Phases, Phase
  <2>3. Phases' = Phases
    BY DEF AddChunk, Phases, Phase, Live
  <2>4. Lifecycle!AddRow(d, r)
    BY <2>2, <2>3, RetiredKept DEF AddChunk, Lifecycle!AddRow, Phases
  <2> QED  BY <1>1, <2>1, <2>4
<1> QED  BY <1>2, <1>3

\* The version row marks the document retired.
LEMMA RetireVersionRetires ==
  ASSUME RowInv, NEW t \in Task, RetireVersion(t)
  PROVE  Lifecycle!Retire(task[t].target)
<1> DEFINE d == task[t].target
<1>1. d \in DocId /\ d < nextDoc
  BY DEF RetireVersion, At, RowInv, Control, FreshIds
<1>2. versions' = [versions EXCEPT ![d] = versions[d] + 1] /\ versions[d] \in Nat
  BY <1>1 DEF RetireVersion, RowInv, TypeOK
<1>3. [e \in DocId |-> Retired(e)]' = [[e \in DocId |-> Retired(e)] EXCEPT ![d] = TRUE]
  <2>1. versions'[d] > 0
    BY <1>1, <1>2 DEF RowInv, TypeOK
  <2>2. \A e \in DocId : e # d => versions'[e] = versions[e]
    BY <1>2 DEF RowInv, TypeOK
  <2>3. \A e \in DocId : Retired(e)' <=> e = d \/ Retired(e)
    BY <2>1, <2>2 DEF Retired
  <2>4. \A e \in DocId : Retired(e) \in BOOLEAN /\ Retired(e)' \in BOOLEAN
    BY DEF Retired
  <2> HIDE DEF d
  <2> QED  BY <2>3, <2>4, Zenon
<1>4. Phases' = Phases /\ Phases[d] # "unborn"
  BY <1>1 DEF RetireVersion, RowInv, TypeOK, RowSet, Phases, Phase, Live
<1> QED  BY <1>3, <1>4 DEF RetireVersion, Lifecycle!Retire, Phases

\* DELETE FROM chunks, after the version row.
LEMMA RetireChunksEmpties ==
  ASSUME RowInv, NEW t \in Task, RetireChunks(t)
  PROVE  Lifecycle!Empty(task[t].target)
<1>1. task[t].target \in DocId /\ Retired(task[t].target)
  BY DEF RetireChunks, At, RowInv, Control
<1>2. Phases' = Phases
  BY DEF RetireChunks, Phases, Phase, Live
<1> QED  BY <1>1, <1>2, RetiredKept DEF RetireChunks, Lifecycle!Empty, Phases

\* DELETE FROM documents, with the cascade.
LEMMA DropRowDeletes ==
  ASSUME RowInv, NEW t \in Task, DropRow(t)
  PROVE  Lifecycle!Delete(task[t].target) \/ UNCHANGED Lifecycle!vars
<1> DEFINE d == task[t].target
<1>1. d \in DocId /\ d < nextDoc
  BY DEF DropRow, At, RowInv, Control, FreshIds
<1>2. NoRow \in RowSet /\ NoRow.status = "absent"
  BY DEF NoRow, RowSet
<1>3. Phases' = [Phases EXCEPT ![d] = "deleted"]
  BY <1>1, <1>2, PhaseOfWrite DEF DropRow, RowInv
<1>4. chunks' = [chunks EXCEPT ![d] = {}]
  BY DEF DropRow
<1>5. CASE Live(d)
  <2>1. Phases[d] \notin {"unborn", "deleted"}
    BY <1>1, <1>5 DEF RowInv, TypeOK, RowSet, Phases, Phase
  <2> QED
    BY <1>3, <1>4, <2>1, RetiredKept
    DEF DropRow, Lifecycle!Delete, Lifecycle!Born, Phases
<1>6. CASE ~Live(d)
  <2>1. chunks' = chunks
    BY <1>1, <1>4, <1>6 DEF RowInv, NoOrphanRows, TypeOK
  <2>2. Phases' = Phases
    BY <1>1, <1>3, <1>6 DEF Phases, Phase
  <2> QED  BY <2>1, <2>2, RetiredKept DEF DropRow, Lifecycle!vars, Phases
<1> QED  BY <1>5, <1>6

\* Every other step writes no table.
LEMMA OtherStepsWriteNothing ==
  ASSUME NEW t \in Task,
         \/ Start(t) \/ Fault(t) \/ Fetch(t) \/ Lookup(t) \/ RetireVectors(t)
         \/ DropVectors(t) \/ Rehash(t) \/ Parse(t) \/ Embed(t) \/ Upsert(t)
  PROVE  UNCHANGED <<docs, chunks, versions, nextDoc>>
<1>1. CASE Start(t)
  BY <1>1 DEF Start, StartIngestFile, StartIngestText, StartRefresh, StartDelete,
     Accept, stores
<1>2. CASE Fault(t)
  BY <1>2 DEF Fault, ParserFails, EmbedderFails, StoreFails, stores
<1>3. CASE Fetch(t) \/ Lookup(t) \/ Rehash(t) \/ Parse(t) \/ Embed(t)
  BY <1>3 DEF Fetch, Lookup, Rehash, Parse, Embed, stores
<1>4. CASE RetireVectors(t) \/ DropVectors(t) \/ Upsert(t)
  BY <1>4 DEF RetireVectors, DropVectors, Upsert
<1> QED  BY <1>1, <1>2, <1>3, <1>4

\* Every step of the service is a step of the lifecycle or a stutter.
LEMMA StepImplements ==
  ASSUME RowInv, [Next]_vars
  PROVE  [Lifecycle!Next]_(Lifecycle!vars)
<1>1. ASSUME NEW t \in Task, Create(t)
      PROVE  Lifecycle!Next
  BY <1>1, CreateInserts DEF Lifecycle!Next, Create
<1>2. ASSUME NEW t \in Task,
             Begin(t) \/ NothingToStore(t) \/ Abort(t) \/ Complete(t) \/ AddChunk(t)
      PROVE  Lifecycle!Next \/ UNCHANGED Lifecycle!vars
  <2>1. task[t].own \in DocId
    BY <1>2, OwnedDocument
    DEF Begin, NothingToStore, Abort, Complete, AddChunk, At, OwnerPcs
  <2> QED
    BY <1>2, <2>1, BeginBegins, FailureFails, CompletePublishes, AddChunkAdds
    DEF Lifecycle!Next
<1>3. ASSUME NEW t \in Task, RetireVersion(t) \/ RetireChunks(t) \/ DropRow(t)
      PROVE  Lifecycle!Next \/ UNCHANGED Lifecycle!vars
  <2>1. task[t].target \in DocId
    BY <1>3 DEF RetireVersion, RetireChunks, DropRow, At, RowInv, Control
  <2> QED
    BY <1>3, <2>1, RetireVersionRetires, RetireChunksEmpties, DropRowDeletes
    DEF Lifecycle!Next
<1>4. ASSUME NEW t \in Task, Start(t) \/ Step(t) \/ Fault(t)
      PROVE  Lifecycle!Next \/ UNCHANGED Lifecycle!vars
  BY <1>1, <1>2, <1>3, <1>4, OtherStepsWriteNothing, NothingWritten DEF Step
<1>5. CASE Crash \/ (\E p \in FilePath, c \in Content \cup {Absent} : Edit(p, c))
           \/ UNCHANGED vars
  BY <1>5, NothingWritten DEF Crash, Edit, stores, vars
<1> QED  BY <1>4, <1>5 DEF Next

\* The service starts as the lifecycle does: no document was born.
LEMMA InitImplements ==
  ASSUME Init
  PROVE  Lifecycle!Init
<1>1. \A d \in DocId : Phase(d) = "unborn" /\ Retired(d) = FALSE /\ chunks[d] = {}
  BY BoundAssumption DEF Init, Phase, Retired, DocId
<1> QED  BY <1>1 DEF Init, Lifecycle!Init

\* The ingestion service implements the lifecycle of its documents, for every
\* number of requests, documents and contents and every combination of faults.
THEOREM Refinement == Spec => ImplementsLifecycle
<1>1. Init => Lifecycle!Init
  BY InitImplements
<1>2. RowInv /\ [Next]_vars => [Lifecycle!Next]_(Lifecycle!vars)
  BY StepImplements
<1> QED  BY <1>1, <1>2, RowInvariant, PTL DEF Spec, ImplementsLifecycle, Lifecycle!Spec

-----------------------------------------------------------------------------
(***************************************************************************)
(* What overlapping requests do to no document: the vectors, the recorded  *)
(* hash and the coroutine that is responsible.  As with the rows, what is  *)
(* true of a ready document was true of what its owner had done so far.    *)
(***************************************************************************)
BeforeUpsert == {"begin", "no_chunks", "embed", "upsert"}
AfterUpsert  == {"add_chunk", "complete"}

\* A document is in the vector store as a whole, or somebody took it out.
Shown(d, S) == \/ vectors[d] = S
               \/ vectors[d] = {} /\ (Steady => Dropping(d))

OwnerVectors ==
    \A t \in Task : task[t].own # NoDoc /\ Live(task[t].own) /\ ~Retired(task[t].own) =>
        /\ task[t].pc \in BeforeUpsert => vectors[task[t].own] = {}
        /\ task[t].pc \in AfterUpsert => Shown(task[t].own, ChunksOf(task[t].body))

VectorInv == OwnerVectors /\ ReadySearchable

\* A document is filed where its owner files it.
OwnerPath ==
    \A t \in Task : task[t].own # NoDoc /\ Live(task[t].own) =>
        docs[task[t].own].path = task[t].path

WorkerInv == OwnerPath /\ ("crash" \notin Faults => UnsettledHasWorker)

ReadingPcs == {"lookup", "retire_version", "retire_vectors", "retire_chunks",
               "drop_vectors", "drop_row", "parse"}

\* Unless somebody wrote the file in between, it is the one that was hashed from the
\* hash to the parse, and afterwards the body is.
Hashed(t) ==
    ~task[t].torn =>
        /\ task[t].op \in {"file", "reingest"} /\ task[t].pc \in ReadingPcs =>
              disk[task[t].path] = task[t].hash
        /\ \/ task[t].pc \in OwnerPcs \cup {"create"}
           \/ task[t].op = "text" /\ ~At(t, "idle")
           => task[t].body = task[t].hash

HashedBody == \A t \in Task : Hashed(t)

\* The row says of the file what its owner knows, and what neither of them sees.
OwnerHash ==
    \A t \in Task : task[t].own # NoDoc /\ Live(task[t].own) =>
        /\ docs[task[t].own].hash = task[t].hash
        /\ docs[task[t].own].torn = task[t].torn

HashInv == HashedBody /\ OwnerHash /\ ReadyMatchesHash

WholeInv == VectorInv /\ WorkerInv /\ HashInv

\* A deletion that does not move stays between the vectors and the row.
LEMMA DroppingStays ==
  ASSUME NEW t \in Task, ~At(t, "drop_row"),
         \A u \in Task : u # t => task'[u] = task[u],
         NEW d, Dropping(d)
  PROVE  Dropping(d)'
  BY DEF Dropping, At

\* A step of a coroutine that owns no document: it may retire one, or take its
\* vectors out before it deletes it.
LEMMA NoOwnerMoves ==
  ASSUME RowInv, WholeInv, TypeOK', NEW t \in Task,
         ~At(t, "drop_row"), task[t].own = NoDoc, task'[t].own = NoDoc,
         \A u \in Task : u # t => task'[u] = task[u],
         UNCHANGED <<disk, docs>>,
         \A d \in DocId : Retired(d) => Retired(d)',
         \A d \in DocId : ~Retired(d)' => chunks'[d] = chunks[d],
         \A d \in DocId : ~Retired(d)' =>
            \/ vectors'[d] = vectors[d]
            \/ vectors'[d] = {} /\ (Steady => Dropping(d)'),
         Hashed(t)'
  PROVE  WholeInv'
<1>1. \A d \in DocId : (Live(d)' <=> Live(d)) /\ (Ready(d)' <=> Ready(d))
  BY DEF Live, Ready
<1>2. \A d : Dropping(d) => Dropping(d)'
  BY DroppingStays
<1>3. \A u \in Task : task'[u].own # NoDoc => u # t /\ task'[u] = task[u] /\ task[u].own \in DocId
  BY DEF RowInv, TypeOK, TaskSet
<1>4. OwnerVectors'
  <2> SUFFICES ASSUME NEW u \in Task, task'[u].own # NoDoc, Live(task[u].own)',
                      ~Retired(task[u].own)'
               PROVE  /\ task'[u].pc \in BeforeUpsert => vectors'[task'[u].own] = {}
                      /\ task'[u].pc \in AfterUpsert =>
                            Shown(task[u].own, ChunksOf(task[u].body))'
    BY DEF OwnerVectors
  <2>1. PICK d \in DocId : d = task[u].own /\ task'[u] = task[u]
    BY <1>3
  <2>2. Live(d) /\ ~Retired(d)
    BY <1>1, <1>3, <2>1
  <2> QED
    BY <1>2, <1>3, <2>1, <2>2 DEF WholeInv, VectorInv, OwnerVectors, Shown, ChunksOf
<1>5. ReadySearchable'
  BY <1>1, <1>2 DEF WholeInv, VectorInv, ReadySearchable
<1>6. WorkerInv'
  <2>1. OwnerPath'
    BY <1>1, <1>3 DEF WholeInv, WorkerInv, OwnerPath
  <2>2. ASSUME "crash" \notin Faults, NEW d \in DocId, Unsettled(d)'
        PROVE  \E u \in Task : Working(u)' /\ task'[u].own = d
    <3>1. PICK u \in Task : Working(u) /\ task[u].own = d
      BY <2>2 DEF WholeInv, WorkerInv, UnsettledHasWorker, Unsettled
    <3>2. u # t /\ task'[u] = task[u]
      BY <3>1 DEF DocId, NoDoc
    <3> QED  BY <3>1, <3>2 DEF Working, At
  <2> QED  BY <2>1, <2>2 DEF WorkerInv, UnsettledHasWorker
<1>7. HashInv'
  <2>1. HashedBody /\ OwnerHash /\ ReadyMatchesHash /\ Hashed(t)'
    BY DEF WholeInv, HashInv
  <2>2. HashedBody'
    BY <2>1 DEF HashedBody, Hashed, At
  <2>3. OwnerHash'
    BY <1>1, <1>3, <2>1 DEF OwnerHash
  <2>4. ReadyMatchesHash'
    BY <1>1, <2>1 DEF ReadyMatchesHash, ChunksOf
  <2> QED  BY <2>2, <2>3, <2>4 DEF HashInv
<1> QED  BY <1>4, <1>5, <1>6, <1>7 DEF WholeInv, VectorInv

\* A step of the coroutine that owns document d: it writes this document only.
LEMMA OwnerMoves ==
  ASSUME RowInv, WholeInv, TypeOK', NEW t \in Task, NEW d \in DocId, task[t].own = d,
         \A u \in Task : u # t => task'[u] = task[u],
         UNCHANGED <<disk, versions>>,
         \A e \in DocId : e # d =>
            docs'[e] = docs[e] /\ chunks'[e] = chunks[e] /\ vectors'[e] = vectors[e],
         docs'[d].path = docs[d].path, docs'[d].hash = docs[d].hash,
         docs'[d].torn = docs[d].torn, Live(d)' <=> Live(d),
         \/ /\ task'[t].own = d /\ task'[t].pc \in OwnerPcs
            /\ task'[t].path = task[t].path /\ task'[t].hash = task[t].hash
            /\ task'[t].body = task[t].body /\ task'[t].op = task[t].op
            /\ task'[t].torn = task[t].torn
         \/ task'[t].own = NoDoc /\ task'[t].pc = "idle" /\ ~Unsettled(d)',
         task'[t].pc \in BeforeUpsert =>
            task[t].pc \in BeforeUpsert /\ vectors'[d] = vectors[d],
         task'[t].pc \in AfterUpsert =>
            \/ task[t].pc \in AfterUpsert /\ vectors'[d] = vectors[d]
            \/ task[t].pc = "upsert" /\ vectors'[d] = vectors[d] \cup ChunksOf(task[t].body),
         Ready(d)' => /\ Live(d) /\ At(t, "complete")
                      /\ chunks'[d] = chunks[d] /\ vectors'[d] = vectors[d]
  PROVE  WholeInv'
<1>1. d # NoDoc /\ task[t].pc \in OwnerPcs
  BY DEF DocId, NoDoc, RowInv, Control
<1>2. \A e : Dropping(e) => Dropping(e)'
  <2>1. ~At(t, "drop_row")
    BY <1>1 DEF At, OwnerPcs
  <2> QED  BY <2>1, DroppingStays
<1>3. \A u \in Task : u # t /\ task'[u].own # NoDoc =>
          /\ task'[u] = task[u] /\ task[u].own \in DocId /\ task[u].own # d
  BY <1>1 DEF RowInv, TypeOK, TaskSet, OneOwner
<1>4. \A e \in DocId : e # d =>
          (Live(e)' <=> Live(e)) /\ (Ready(e)' <=> Ready(e)) /\ (Unsettled(e)' <=> Unsettled(e))
  BY DEF Live, Ready, Unsettled
<1>5. \A e \in DocId : Retired(e)' <=> Retired(e)
  BY DEF Retired
<1>6. OwnerVectors'
  <2> SUFFICES ASSUME NEW u \in Task, task'[u].own # NoDoc, Live(task[u].own)',
                      ~Retired(task[u].own)'
               PROVE  /\ task'[u].pc \in BeforeUpsert => vectors'[task'[u].own] = {}
                      /\ task'[u].pc \in AfterUpsert =>
                            Shown(task[u].own, ChunksOf(task[u].body))'
    BY DEF OwnerVectors
  <2>1. CASE u = t
    <3>1. task'[t].own = d /\ task'[t].body = task[t].body /\ Live(d) /\ ~Retired(d)
      BY <1>5, <2>1
    <3>2. /\ task[t].pc \in BeforeUpsert => vectors[d] = {}
          /\ task[t].pc \in AfterUpsert => Shown(d, ChunksOf(task[t].body))
      BY <1>1, <3>1 DEF WholeInv, VectorInv, OwnerVectors
    <3>3. ASSUME task'[t].pc \in AfterUpsert
          PROVE  Shown(d, ChunksOf(task[t].body))'
      <4>1. CASE task[t].pc \in AfterUpsert /\ vectors'[d] = vectors[d]
        BY <1>2, <3>1, <3>2, <4>1 DEF Shown, ChunksOf
      <4>2. CASE task[t].pc = "upsert" /\ vectors'[d] = vectors[d] \cup ChunksOf(task[t].body)
        BY <3>1, <3>2, <4>2 DEF BeforeUpsert, Shown, ChunksOf
      <4> QED  BY <3>3, <4>1, <4>2
    <3>4. task'[t].pc \in BeforeUpsert => vectors'[d] = {}
      BY <3>2
    <3> QED  BY <2>1, <3>1, <3>3, <3>4
  <2>2. CASE u # t
    <3>1. PICK e \in DocId : e = task[u].own /\ e # d /\ task'[u] = task[u]
      BY <1>3, <2>2
    <3>2. Live(e) /\ ~Retired(e) /\ task[u].own # NoDoc
      BY <1>4, <1>5, <3>1
    <3>3. /\ task[u].pc \in BeforeUpsert => vectors[e] = {}
          /\ task[u].pc \in AfterUpsert => Shown(e, ChunksOf(task[u].body))
      BY <3>1, <3>2 DEF WholeInv, VectorInv, OwnerVectors
    <3>4. vectors'[e] = vectors[e]
      BY <1>2, <3>1
    <3>5. Shown(e, ChunksOf(task[u].body)) => Shown(e, ChunksOf(task[u].body))'
      BY <1>2, <3>1, <3>4 DEF Shown, ChunksOf
    <3> QED
      BY <3>1, <3>3, <3>4, <3>5
  <2> QED  BY <2>1, <2>2
<1>7. ReadySearchable'
  <2> SUFFICES ASSUME NEW e \in DocId, Ready(e)', ~Retired(e)'
               PROVE  \/ vectors'[e] = chunks'[e]
                      \/ vectors'[e] = {} /\ (Steady => Dropping(e)')
    BY DEF ReadySearchable, Steady
  <2>1. CASE e = d
    <3>1. Live(d) /\ ~Retired(d) /\ At(t, "complete") /\ task[t].own # NoDoc
      BY <1>1, <1>5, <2>1
    <3>2. chunks[d] = ChunksOf(task[t].body)
      BY <3>1 DEF RowInv, OwnerRows
    <3>3. Shown(d, ChunksOf(task[t].body))
      BY <3>1 DEF WholeInv, VectorInv, OwnerVectors, AfterUpsert, At
    <3> QED  BY <1>2, <2>1, <3>2, <3>3 DEF Shown
  <2>2. CASE e # d
    BY <1>2, <1>4, <1>5, <2>2 DEF WholeInv, VectorInv, ReadySearchable
  <2> QED  BY <2>1, <2>2
<1>8. OwnerPath'
  <2> SUFFICES ASSUME NEW u \in Task, task'[u].own # NoDoc, Live(task[u].own)'
               PROVE  docs'[task'[u].own].path = task'[u].path
    BY DEF OwnerPath
  <2>1. CASE u = t
    BY <1>1, <2>1 DEF WholeInv, WorkerInv, OwnerPath
  <2>2. CASE u # t
    <3>1. PICK e \in DocId : e = task[u].own /\ e # d /\ task'[u] = task[u]
      BY <1>3, <2>2
    <3> QED  BY <1>4, <3>1 DEF WholeInv, WorkerInv, OwnerPath
  <2> QED  BY <2>1, <2>2
<1>9. ASSUME "crash" \notin Faults PROVE UnsettledHasWorker'
  <2> SUFFICES ASSUME NEW e \in DocId, Unsettled(e)'
               PROVE  \E u \in Task : Working(u)' /\ task'[u].own = e
    BY DEF UnsettledHasWorker
  <2>1. CASE e = d
    <3>1. task'[t].own = d /\ task'[t].pc # "idle"
      BY <2>1 DEF OwnerPcs
    <3> QED  BY <2>1, <3>1 DEF Working, At
  <2>2. CASE e # d
    <3>1. PICK u \in Task : Working(u) /\ task[u].own = e
      BY <1>4, <1>9, <2>2 DEF WholeInv, WorkerInv, UnsettledHasWorker
    <3> QED  BY <2>2, <3>1 DEF Working, At
  <2> QED  BY <2>1, <2>2
<1>10. HashedBody' /\ OwnerHash' /\ ReadyMatchesHash'
  <2>1. HashedBody /\ OwnerHash /\ ReadyMatchesHash
    BY DEF WholeInv, HashInv
  <2>2. HashedBody'
    <3> SUFFICES ASSUME NEW u \in Task  PROVE Hashed(u)'
      BY DEF HashedBody, Hashed, At
    <3>1. CASE u = t
      BY <1>1, <2>1, <3>1 DEF HashedBody, Hashed, At, OwnerPcs, ReadingPcs
    <3>2. CASE u # t
      BY <2>1, <3>2 DEF HashedBody, Hashed, At
    <3> QED  BY <3>1, <3>2
  <2>3. OwnerHash'
    <3> SUFFICES ASSUME NEW u \in Task, task'[u].own # NoDoc, Live(task[u].own)'
                 PROVE  /\ docs'[task'[u].own].hash = task'[u].hash
                        /\ docs'[task'[u].own].torn = task'[u].torn
      BY DEF OwnerHash
    <3>1. CASE u = t
      BY <1>1, <2>1, <3>1 DEF OwnerHash
    <3>2. CASE u # t
      <4>1. PICK e \in DocId : e = task[u].own /\ e # d /\ task'[u] = task[u]
        BY <1>3, <3>2
      <4> QED  BY <1>4, <2>1, <4>1 DEF OwnerHash
    <3> QED  BY <3>1, <3>2
  <2>4. ReadyMatchesHash'
    <3> SUFFICES ASSUME NEW e \in DocId, Ready(e)', ~Retired(e)', ~docs'[e].torn
                 PROVE  chunks'[e] = ChunksOf(docs'[e].hash)
      BY DEF ReadyMatchesHash, ChunksOf
    <3>1. CASE e = d
      <4>1. Live(d) /\ ~Retired(d) /\ At(t, "complete") /\ task[t].own # NoDoc
        BY <1>1, <1>5, <3>1
      <4>2. chunks[d] = ChunksOf(task[t].body)
        BY <4>1 DEF RowInv, OwnerRows
      <4>3. task[t].body = task[t].hash /\ docs[d].hash = task[t].hash
        BY <1>1, <2>1, <3>1, <4>1 DEF HashedBody, Hashed, OwnerHash
      <4> QED  BY <3>1, <4>2, <4>3
    <3>2. CASE e # d
      BY <1>4, <1>5, <2>1, <3>2 DEF ReadyMatchesHash
    <3> QED  BY <3>1, <3>2
  <2> QED  BY <2>2, <2>3, <2>4
<1> QED
  BY <1>6, <1>7, <1>8, <1>9, <1>10 DEF WholeInv, VectorInv, WorkerInv, HashInv

\* The document a request creates is new to everybody.
LEMMA CreateMoves ==
  ASSUME RowInv, WholeInv, TypeOK', NEW t \in Task, Create(t)
  PROVE  WholeInv'
<1>1. PICK d \in DocId : /\ d = nextDoc
                         /\ docs[d] = NoRow /\ vectors[d] = {} /\ chunks[d] = {}
  <2>1. nextDoc \in DocId /\ ~(nextDoc < nextDoc)
    BY DEF Create, DocId
  <2>2. docs[nextDoc] = NoRow /\ vectors[nextDoc] = {} /\ chunks[nextDoc] = {}
    BY <2>1 DEF RowInv, FreshIds
  <2> QED  BY <2>1, <2>2
<1>2. /\ task'[t].own = d /\ task'[t].pc \in {"begin", "no_chunks"}
      /\ task'[t].path = task[t].path /\ task'[t].hash = task[t].hash
      /\ task'[t].body = task[t].body /\ task'[t].op = task[t].op
      /\ task'[t].torn = task[t].torn
      /\ \A u \in Task : u # t => task'[u] = task[u]
  BY <1>1 DEF Create, RowInv, TypeOK, TaskSet
<1>3. /\ docs'[d] = [status |-> "pending", path |-> task[t].path,
                     hash |-> task[t].hash, count |-> 0, torn |-> task[t].torn]
      /\ \A e \in DocId : e # d => docs'[e] = docs[e]
      /\ UNCHANGED <<disk, chunks, vectors, versions>>
  BY <1>1 DEF Create, RowInv, TypeOK
<1>4. At(t, "create") /\ task[t].own = NoDoc /\ d # NoDoc
  BY DEF Create, At, RowInv, Control, OwnerPcs, DocId, NoDoc
<1>5. \A e : Dropping(e) => Dropping(e)'
  BY <1>2, <1>4, DroppingStays DEF At
<1>6. \A e \in DocId : e # d =>
          (Live(e)' <=> Live(e)) /\ (Ready(e)' <=> Ready(e)) /\ (Unsettled(e)' <=> Unsettled(e))
  BY <1>3 DEF Live, Ready, Unsettled
<1>7. ~Ready(d)'
  BY <1>3 DEF Ready
<1>8. \A u \in Task : u # t /\ task'[u].own # NoDoc =>
          /\ task'[u] = task[u] /\ task[u].own \in DocId /\ task[u].own # d
  BY <1>1, <1>2 DEF RowInv, FreshIds, TypeOK, TaskSet
<1>9. \A e \in DocId : Retired(e)' <=> Retired(e)
  BY <1>3 DEF Retired
<1>10. OwnerVectors'
  <2> SUFFICES ASSUME NEW u \in Task, task'[u].own # NoDoc, Live(task[u].own)',
                      ~Retired(task[u].own)'
               PROVE  /\ task'[u].pc \in BeforeUpsert => vectors'[task'[u].own] = {}
                      /\ task'[u].pc \in AfterUpsert =>
                            Shown(task[u].own, ChunksOf(task[u].body))'
    BY DEF OwnerVectors
  <2>1. CASE u = t
    BY <1>1, <1>2, <1>3, <2>1 DEF AfterUpsert
  <2>2. CASE u # t
    <3>1. PICK e \in DocId : e = task[u].own /\ e # d /\ task'[u] = task[u]
      BY <1>8, <2>2
    <3>2. Live(e) /\ ~Retired(e) /\ task[u].own # NoDoc
      BY <1>6, <1>9, <3>1
    <3> QED
      BY <1>3, <1>5, <3>1, <3>2 DEF WholeInv, VectorInv, OwnerVectors, Shown, ChunksOf
  <2> QED  BY <2>1, <2>2
<1>11. ReadySearchable'
  BY <1>3, <1>5, <1>6, <1>7, <1>9 DEF WholeInv, VectorInv, ReadySearchable
<1>12. OwnerPath'
  <2> SUFFICES ASSUME NEW u \in Task, task'[u].own # NoDoc, Live(task[u].own)'
               PROVE  docs'[task'[u].own].path = task'[u].path
    BY DEF OwnerPath
  <2>1. CASE u = t
    BY <1>2, <1>3, <2>1
  <2>2. CASE u # t
    <3>1. PICK e \in DocId : e = task[u].own /\ e # d /\ task'[u] = task[u]
      BY <1>8, <2>2
    <3> QED  BY <1>3, <1>6, <3>1 DEF WholeInv, WorkerInv, OwnerPath
  <2> QED  BY <2>1, <2>2
<1>13. ASSUME "crash" \notin Faults PROVE UnsettledHasWorker'
  <2> SUFFICES ASSUME NEW e \in DocId, Unsettled(e)'
               PROVE  \E u \in Task : Working(u)' /\ task'[u].own = e
    BY DEF UnsettledHasWorker
  <2>1. CASE e = d
    BY <1>2, <2>1 DEF Working, At
  <2>2. CASE e # d
    <3>1. PICK u \in Task : Working(u) /\ task[u].own = e
      BY <1>6, <1>13, <2>2 DEF WholeInv, WorkerInv, UnsettledHasWorker
    <3>2. u # t
      BY <1>4, <3>1 DEF DocId, NoDoc
    <3> QED  BY <1>2, <3>1, <3>2 DEF Working, At
  <2> QED  BY <2>1, <2>2
<1>14. HashedBody' /\ OwnerHash' /\ ReadyMatchesHash'
  <2>1. HashedBody /\ OwnerHash /\ ReadyMatchesHash
    BY DEF WholeInv, HashInv
  <2>2. HashedBody'
    <3> SUFFICES ASSUME NEW u \in Task  PROVE Hashed(u)'
      BY DEF HashedBody, Hashed, At
    <3>1. CASE u = t
      BY <1>2, <1>4, <2>1, <3>1 DEF HashedBody, Hashed, At, OwnerPcs, ReadingPcs
    <3>2. CASE u # t
      BY <1>2, <1>3, <2>1, <3>2 DEF HashedBody, Hashed, At
    <3> QED  BY <3>1, <3>2
  <2>3. OwnerHash'
    <3> SUFFICES ASSUME NEW u \in Task, task'[u].own # NoDoc, Live(task[u].own)'
                 PROVE  /\ docs'[task'[u].own].hash = task'[u].hash
                        /\ docs'[task'[u].own].torn = task'[u].torn
      BY DEF OwnerHash
    <3>1. CASE u = t
      BY <1>2, <1>3, <3>1
    <3>2. CASE u # t
      <4>1. PICK e \in DocId : e = task[u].own /\ e # d /\ task'[u] = task[u]
        BY <1>8, <3>2
      <4> QED  BY <1>3, <1>6, <2>1, <4>1 DEF OwnerHash
    <3> QED  BY <3>1, <3>2
  <2>4. ReadyMatchesHash'
    BY <1>3, <1>6, <1>7, <1>9, <2>1 DEF ReadyMatchesHash, ChunksOf
  <2> QED  BY <2>2, <2>3, <2>4
<1> QED
  BY <1>10, <1>11, <1>12, <1>13, <1>14 DEF WholeInv, VectorInv, WorkerInv, HashInv

\* A row that is deleted is nobody's any more, and its vectors are nobody's case.
LEMMA DropRowMoves ==
  ASSUME RowInv, WholeInv, TypeOK', NEW t \in Task, DropRow(t)
  PROVE  WholeInv'
<1>1. PICK d \in DocId : d = task[t].target
  BY DEF DropRow, At, RowInv, Control
<1>2. /\ At(t, "drop_row") /\ task[t].own = NoDoc /\ task'[t].own = NoDoc
      /\ \A u \in Task : u # t => task'[u] = task[u]
  <2>1. At(t, "drop_row") /\ task[t].own = NoDoc
    BY DEF DropRow, At, RowInv, Control, OwnerPcs
  <2>2. Finish(t, "ok", NoDoc) \/ Goto(t, "parse")
    BY DEF DropRow
  <2>3. task'[t].own = NoDoc /\ \A u \in Task : u # t => task'[u] = task[u]
    <3>1. CASE Finish(t, "ok", NoDoc)
      BY <3>1 DEF Finish, Idle, RowInv, TypeOK
    <3>2. CASE Goto(t, "parse")
      BY <2>1, <3>2 DEF Goto, RowInv, TypeOK, TaskSet
    <3> QED  BY <2>2, <3>1, <3>2
  <2> QED  BY <2>1, <2>3
<1>3. /\ docs'[d] = NoRow
      /\ \A e \in DocId : e # d => docs'[e] = docs[e] /\ chunks'[e] = chunks[e]
      /\ UNCHANGED <<disk, vectors, versions>>
  BY <1>1 DEF DropRow, RowInv, TypeOK
<1>4. ~Live(d)' /\ ~Ready(d)' /\ ~Unsettled(d)'
  BY <1>3 DEF Live, Ready, Unsettled, NoRow
<1>5. \A e \in DocId : e # d =>
          (Live(e)' <=> Live(e)) /\ (Ready(e)' <=> Ready(e)) /\ (Unsettled(e)' <=> Unsettled(e))
  BY <1>3 DEF Live, Ready, Unsettled
<1>6. \A e \in DocId : e # d /\ Dropping(e) => Dropping(e)'
  BY <1>1, <1>2 DEF Dropping, At
<1>7. \A e \in DocId : Retired(e)' <=> Retired(e)
  BY <1>3 DEF Retired
<1>8. \A u \in Task : task'[u].own # NoDoc =>
          u # t /\ task'[u] = task[u] /\ task[u].own \in DocId
  BY <1>2 DEF RowInv, TypeOK, TaskSet
<1>9. OwnerVectors'
  <2> SUFFICES ASSUME NEW u \in Task, task'[u].own # NoDoc, Live(task[u].own)',
                      ~Retired(task[u].own)'
               PROVE  /\ task'[u].pc \in BeforeUpsert => vectors'[task'[u].own] = {}
                      /\ task'[u].pc \in AfterUpsert =>
                            Shown(task[u].own, ChunksOf(task[u].body))'
    BY DEF OwnerVectors
  <2>1. PICK e \in DocId : e = task[u].own /\ task'[u] = task[u]
    BY <1>8
  <2>2. e # d /\ Live(e) /\ ~Retired(e) /\ task[u].own # NoDoc
    BY <1>4, <1>5, <1>7, <2>1
  <2> QED
    BY <1>3, <1>6, <2>1, <2>2 DEF WholeInv, VectorInv, OwnerVectors, Shown, ChunksOf
<1>10. ReadySearchable'
  BY <1>3, <1>4, <1>5, <1>6, <1>7 DEF WholeInv, VectorInv, ReadySearchable
<1>11. OwnerPath'
  <2> SUFFICES ASSUME NEW u \in Task, task'[u].own # NoDoc, Live(task[u].own)'
               PROVE  docs'[task'[u].own].path = task'[u].path
    BY DEF OwnerPath
  <2>1. PICK e \in DocId : e = task[u].own /\ e # d /\ task'[u] = task[u]
    BY <1>4, <1>8
  <2> QED  BY <1>3, <1>5, <2>1 DEF WholeInv, WorkerInv, OwnerPath
<1>12. ASSUME "crash" \notin Faults PROVE UnsettledHasWorker'
  <2> SUFFICES ASSUME NEW e \in DocId, Unsettled(e)'
               PROVE  \E u \in Task : Working(u)' /\ task'[u].own = e
    BY DEF UnsettledHasWorker
  <2>1. PICK u \in Task : Working(u) /\ task[u].own = e
    BY <1>4, <1>5, <1>12 DEF WholeInv, WorkerInv, UnsettledHasWorker
  <2>2. u # t
    BY <1>2, <2>1 DEF DocId, NoDoc
  <2> QED  BY <1>2, <2>1, <2>2 DEF Working, At
<1>13. HashedBody' /\ OwnerHash' /\ ReadyMatchesHash'
  <2>1. HashedBody /\ OwnerHash /\ ReadyMatchesHash
    BY DEF WholeInv, HashInv
  <2>2. HashedBody'
    <3> SUFFICES ASSUME NEW u \in Task  PROVE Hashed(u)'
      BY DEF HashedBody, Hashed, At
    <3>1. CASE u = t /\ task[t].op = "delete"
      <4>1. Finish(t, "ok", NoDoc)
        BY <3>1 DEF DropRow
      <4>2. task'[t].pc = "idle"
        BY <4>1 DEF Finish, Idle, RowInv, TypeOK
      <4> QED  BY <3>1, <4>2 DEF Hashed, At, OwnerPcs, ReadingPcs
    <3>2. CASE u = t /\ task[t].op # "delete"
      <4>1. Goto(t, "parse") /\ task[t].op # "text"
        BY <1>2, <3>2 DEF DropRow, At, RowInv, Routes, RouteOK
      <4>2. task'[t] = [task[t] EXCEPT !.pc = "parse"] /\ task[t] \in TaskSet
        BY <4>1 DEF Goto, RowInv, TypeOK
      <4>3. /\ task'[t].pc = "parse" /\ task'[t].op = task[t].op
            /\ task'[t].torn = task[t].torn
            /\ task'[t].path = task[t].path /\ task'[t].hash = task[t].hash
        BY <4>2 DEF TaskSet
      <4>4. task[t].op \in {"file", "reingest"} /\ ~task[t].torn =>
               disk[task[t].path] = task[t].hash
        BY <1>2, <2>1 DEF HashedBody, Hashed, At, ReadingPcs
      <4> QED  BY <1>3, <3>2, <4>1, <4>3, <4>4 DEF Hashed, At, OwnerPcs
    <3>3. CASE u # t
      BY <1>2, <1>3, <2>1, <3>3 DEF HashedBody, Hashed, At
    <3> QED  BY <3>1, <3>2, <3>3
  <2>3. OwnerHash'
    <3> SUFFICES ASSUME NEW u \in Task, task'[u].own # NoDoc, Live(task[u].own)'
                 PROVE  /\ docs'[task'[u].own].hash = task'[u].hash
                        /\ docs'[task'[u].own].torn = task'[u].torn
      BY DEF OwnerHash
    <3>1. PICK e \in DocId : e = task[u].own /\ e # d /\ task'[u] = task[u]
      BY <1>4, <1>8
    <3> QED  BY <1>3, <1>5, <2>1, <3>1 DEF OwnerHash
  <2>4. ReadyMatchesHash'
    BY <1>3, <1>4, <1>5, <1>7, <2>1 DEF ReadyMatchesHash, ChunksOf
  <2> QED  BY <2>2, <2>3, <2>4
<1> QED
  BY <1>9, <1>10, <1>11, <1>12, <1>13 DEF WholeInv, VectorInv, WorkerInv, HashInv

(* The steps, by who makes them. *)

\* The end of a request that owned no document.
LEMMA FinishMoves ==
  ASSUME RowInv, NEW t \in Task, NEW how, NEW d, Finish(t, how, d)
  PROVE  /\ task'[t].own = NoDoc /\ task'[t].pc = "idle"
         /\ \A u \in Task : u # t => task'[u] = task[u]
         /\ Hashed(t)'
<1>1. /\ task'[t].own = NoDoc /\ task'[t].pc = "idle"
      /\ \A u \in Task : u # t => task'[u] = task[u]
  BY DEF Finish, Idle, RowInv, TypeOK
<1> QED  BY <1>1 DEF Hashed, At, OwnerPcs, ReadingPcs

\* A coroutine that moves to another await keeps what it carries.
LEMMA GotoMoves ==
  ASSUME RowInv, NEW t \in Task, NEW where, Goto(t, where)
  PROVE  /\ task'[t].pc = where
         /\ task'[t].own = task[t].own /\ task'[t].op = task[t].op
         /\ task'[t].path = task[t].path /\ task'[t].hash = task[t].hash
         /\ task'[t].body = task[t].body /\ task'[t].target = task[t].target
         /\ task'[t].torn = task[t].torn
         /\ \A u \in Task : u # t => task'[u] = task[u]
  BY DEF Goto, RowInv, TypeOK, TaskSet

\* A request that is accepted knows the hash of the file it found.
LEMMA StartMoves ==
  ASSUME RowInv, WholeInv, TypeOK', NEW t \in Task, Start(t)
  PROVE  WholeInv'
<1>1. At(t, "idle") /\ UNCHANGED <<disk, stores>>
  <2>1. PICK r : Accept(t, r)
    BY Zenon DEF Start, StartIngestFile, StartIngestText, StartRefresh, StartDelete
  <2> QED  BY <2>1 DEF Accept
<1>2. task[t].own = NoDoc /\ ~At(t, "drop_row")
  BY <1>1 DEF At, RowInv, Control, OwnerPcs
<1>3. /\ task'[t].own = NoDoc /\ \A u \in Task : u # t => task'[u] = task[u]
      /\ Hashed(t)'
  <2>1. CASE \E p \in FilePath : StartIngestFile(t, p)
    BY <1>1, <2>1 DEF StartIngestFile, Accept, Idle, RowInv, TypeOK, Hashed, At, OwnerPcs
  <2>2. CASE \E p \in TextPath, c \in Content : StartIngestText(t, p, c)
    BY <2>2 DEF StartIngestText, Accept, Idle, RowInv, TypeOK, Hashed
  <2>3. CASE \E d \in Created : StartRefresh(t, d)
    BY <2>3 DEF StartRefresh, Accept, Idle, RowInv, TypeOK, Hashed, At, OwnerPcs
  <2>4. CASE \E d \in Created : StartDelete(t, d)
    BY <2>4 DEF StartDelete, Accept, Idle, RowInv, TypeOK, Hashed, At, OwnerPcs
  <2> QED  BY <2>1, <2>2, <2>3, <2>4 DEF Start
<1> QED  BY <1>1, <1>2, <1>3, NoOwnerMoves DEF stores, Retired

\* A request before it owns a document keeps what it knows of the file.
LEMMA StillHashed ==
  ASSUME RowInv, WholeInv, NEW t \in Task, UNCHANGED disk,
         NEW where, Goto(t, where),
         \/ /\ where \in {"retire_vectors", "retire_chunks", "drop_row", "parse"}
            /\ task[t].pc \in ReadingPcs
         \/ where \in {"drop_vectors", "rehash"} /\ task[t].op \in {"delete", "refresh"}
         \/ where = "create" /\ task[t].op = "text" /\ ~At(t, "idle")
  PROVE  Hashed(t)'
<1>1. Hashed(t)
  BY DEF WholeInv, HashInv, HashedBody, Hashed, At
<1>2. /\ task'[t].pc = where /\ task'[t].op = task[t].op
      /\ task'[t].path = task[t].path /\ task'[t].hash = task[t].hash
      /\ task'[t].body = task[t].body /\ task'[t].torn = task[t].torn
  BY GotoMoves
<1> QED
  BY <1>1, <1>2 DEF Hashed, At, ReadingPcs, OwnerPcs

\* Where a coroutine stands that looks up, retires or parses.
BeforeOwning == {"fetch", "lookup", "rehash", "parse", "retire_version",
                 "retire_vectors", "retire_chunks", "drop_vectors"}

\* A step of such a coroutine before it owns a document.
LEMMA BeforeOwningMoves ==
  ASSUME RowInv, WholeInv, TypeOK', NEW t \in Task,
         task[t].pc \in BeforeOwning,
         \A u \in Task : u # t => task'[u] = task[u],
         task'[t].own = task[t].own,
         Hashed(t)',
         UNCHANGED <<disk, docs>>,
         \/ UNCHANGED <<chunks, vectors, versions>>
         \/ UNCHANGED <<chunks, vectors>> /\ versions' = [versions EXCEPT ![task[t].target] = @ + 1]
         \/ /\ Retired(task[t].target) \/ task'[t].pc = "drop_row"
            /\ task'[t].target = task[t].target
            /\ UNCHANGED <<chunks, versions>> /\ DeleteVectors(task[t].target)
         \/ /\ Retired(task[t].target)
            /\ UNCHANGED <<vectors, versions>>
            /\ chunks' = [chunks EXCEPT ![task[t].target] = {}]
  PROVE  WholeInv'
<1>1. task[t].own = NoDoc /\ ~At(t, "drop_row")
  BY DEF At, RowInv, Control, OwnerPcs, BeforeOwning
<1>2. \A d \in DocId : Retired(d) => Retired(d)'
  BY DEF Retired, RowInv, TypeOK
<1>3. \A d \in DocId : ~Retired(d)' => chunks'[d] = chunks[d]
  BY DEF Retired, RowInv, TypeOK
<1>4. ASSUME NEW d \in DocId, ~Retired(d)', vectors'[d] # vectors[d]
      PROVE  vectors'[d] = {} /\ (Steady => Dropping(d)')
  <2>1. /\ Retired(task[t].target) \/ task'[t].pc = "drop_row"
        /\ task'[t].target = task[t].target
        /\ UNCHANGED versions /\ DeleteVectors(task[t].target)
    BY <1>4
  <2>2. d = task[t].target /\ vectors'[d] = {}
    BY <1>4, <2>1 DEF DeleteVectors, RowInv, TypeOK
  <2>3. ~Retired(d)
    BY <1>2, <1>4
  <2> QED  BY <2>1, <2>2, <2>3 DEF Dropping, At
<1> QED  BY <1>1, <1>2, <1>3, <1>4, NoOwnerMoves

\* The actions of such a coroutine.
LEMMA FetchMoves ==
  ASSUME RowInv, WholeInv, TypeOK', NEW t \in Task, Fetch(t)
  PROVE  WholeInv'
<1>1. task[t].pc \in BeforeOwning /\ task[t].own = NoDoc /\ UNCHANGED <<disk, stores>>
  BY DEF Fetch, At, BeforeOwning, RowInv, Control, OwnerPcs
<1>2. /\ task'[t].own = NoDoc /\ \A u \in Task : u # t => task'[u] = task[u]
      /\ Hashed(t)'
  <2>1. CASE task[t].op = "delete" /\ Goto(t, "drop_vectors")
    BY <1>1, <2>1, GotoMoves, StillHashed
  <2>2. CASE /\ task[t].op = "refresh"
             /\ task' = [task EXCEPT ![t].pc = "retire_version",
                                     ![t].path = docs[task[t].target].path]
    <3>1. task'[t].own = NoDoc /\ task'[t].op = "refresh" /\ task'[t].pc = "retire_version"
      BY <1>1, <2>2 DEF RowInv, TypeOK, TaskSet
    <3>2. \A u \in Task : u # t => task'[u] = task[u]
      BY <2>2 DEF RowInv, TypeOK
    <3> QED  BY <3>1, <3>2 DEF Hashed, OwnerPcs
  <2>3. CASE Finish(t, "error", NoDoc)
    BY <2>3, FinishMoves
  <2> QED  BY <2>1, <2>2, <2>3 DEF Fetch
<1> QED  BY <1>1, <1>2, BeforeOwningMoves DEF stores

LEMMA LookupMoves ==
  ASSUME RowInv, WholeInv, TypeOK', NEW t \in Task, Lookup(t)
  PROVE  WholeInv'
<1>1. /\ At(t, "lookup") /\ task[t].own = NoDoc /\ UNCHANGED <<disk, stores>>
      /\ task[t].op \in {"file", "text", "reingest"}
  BY DEF Lookup, At, RowInv, Control, OwnerPcs, Routes, RouteOK
<1>2. /\ task'[t].own = NoDoc /\ \A u \in Task : u # t => task'[u] = task[u]
      /\ Hashed(t)'
  <2>1. CASE Goto(t, AfterRetiring(task[t].op))
    <3>1. CASE task[t].op = "text" /\ Goto(t, "create")
      BY <1>1, <3>1, GotoMoves, StillHashed DEF At
    <3>2. CASE task[t].op # "text" /\ Goto(t, "parse")
      BY <1>1, <3>2, GotoMoves, StillHashed DEF At, ReadingPcs
    <3> QED  BY <1>1, <2>1, <3>1, <3>2 DEF AfterRetiring
  <2>2. CASE \E d : Finish(t, "ok", d)
    BY <2>2, FinishMoves
  <2>3. CASE \E d : \E where \in {"retire_version", "drop_vectors"} :
               task' = [task EXCEPT ![t].target = d, ![t].pc = where]
    <3>1. PICK d : \E where \in {"retire_version", "drop_vectors"} :
               task' = [task EXCEPT ![t].target = d, ![t].pc = where]
      BY <2>3
    <3>2. /\ task'[t].pc \in ReadingPcs
          /\ task'[t].own = task[t].own /\ task'[t].op = task[t].op
          /\ task'[t].path = task[t].path /\ task'[t].hash = task[t].hash
          /\ task'[t].body = task[t].body /\ task'[t].torn = task[t].torn
      BY <3>1 DEF ReadingPcs, RowInv, TypeOK, TaskSet
    <3>3. \A u \in Task : u # t => task'[u] = task[u]
      BY <3>1 DEF RowInv, TypeOK
    <3>4. Hashed(t)
      BY DEF WholeInv, HashInv, HashedBody, Hashed, At
    <3>5. Hashed(t)'
      BY <1>1, <3>2, <3>4 DEF Hashed, At, ReadingPcs, OwnerPcs
    <3> QED  BY <1>1, <3>2, <3>3, <3>5
  <2> QED  BY <2>1, <2>2, <2>3 DEF Lookup
<1> QED  BY <1>1, <1>2, BeforeOwningMoves DEF stores, At, BeforeOwning

LEMMA RehashMoves ==
  ASSUME RowInv, WholeInv, TypeOK', NEW t \in Task, Rehash(t)
  PROVE  WholeInv'
<1>1. At(t, "rehash") /\ task[t].own = NoDoc /\ UNCHANGED <<disk, stores>>
  BY DEF Rehash, At, RowInv, Control, OwnerPcs
<1>2. task'[t].own = NoDoc /\ (\A u \in Task : u # t => task'[u] = task[u]) /\ Hashed(t)'
  <2>1. CASE Finish(t, "error", NoDoc)
    BY <2>1, FinishMoves
  <2>2. CASE task' = [task EXCEPT ![t].pc = "lookup", ![t].op = "reingest",
                                  ![t].hash = disk[task[t].path], ![t].target = NoDoc]
    <3>1. /\ task'[t].pc = "lookup" /\ task'[t].op = "reingest" /\ task'[t].own = NoDoc
          /\ task'[t].path = task[t].path /\ task'[t].hash = disk[task[t].path]
      <4>1. PICK c : c = disk[task[t].path]
        OBVIOUS
      <4>2. task'[t] = [task[t] EXCEPT !.pc = "lookup", !.op = "reingest",
                                       !.hash = c, !.target = NoDoc]
        BY <2>2, <4>1, Zenon DEF RowInv, TypeOK
      <4>3. task[t] \in TaskSet
        BY DEF RowInv, TypeOK
      <4> QED  BY <1>1, <4>1, <4>2, <4>3 DEF TaskSet
    <3>2. \A u \in Task : u # t => task'[u] = task[u]
      BY <2>2 DEF RowInv, TypeOK
    <3> QED  BY <1>1, <3>1, <3>2 DEF Hashed, OwnerPcs
  <2> QED  BY <2>1, <2>2 DEF Rehash
<1> QED  BY <1>1, <1>2, BeforeOwningMoves DEF stores, At, BeforeOwning

LEMMA ParseMoves ==
  ASSUME RowInv, WholeInv, TypeOK', NEW t \in Task, Parse(t) \/ ParserFails(t)
  PROVE  WholeInv'
<1>1. /\ At(t, "parse") /\ task[t].own = NoDoc /\ UNCHANGED <<disk, stores>>
      /\ task[t].op \in {"file", "reingest"}
  BY DEF Parse, ParserFails, At, RowInv, Control, OwnerPcs, Routes, RouteOK
<1>2. /\ task'[t].own = NoDoc /\ \A u \in Task : u # t => task'[u] = task[u]
      /\ Hashed(t)'
  <2>1. CASE Finish(t, "error", NoDoc)
    BY <2>1, FinishMoves
  <2>2. CASE task' = [task EXCEPT ![t].pc = "create", ![t].body = disk[task[t].path]]
    <3>1. /\ task'[t].pc = "create" /\ task'[t].op = task[t].op /\ task'[t].own = NoDoc
          /\ task'[t].path = task[t].path /\ task'[t].hash = task[t].hash
          /\ task'[t].body = disk[task[t].path] /\ task'[t].torn = task[t].torn
      BY <1>1, <2>2 DEF RowInv, TypeOK, TaskSet
    <3>2. \A u \in Task : u # t => task'[u] = task[u]
      BY <2>2 DEF RowInv, TypeOK
    <3>3. ~task[t].torn => disk[task[t].path] = task[t].hash
      BY <1>1 DEF WholeInv, HashInv, HashedBody, Hashed, At, ReadingPcs
    <3> QED  BY <3>1, <3>2, <3>3 DEF Hashed, ReadingPcs
  <2> QED  BY <2>1, <2>2 DEF Parse, ParserFails
<1> QED  BY <1>1, <1>2, BeforeOwningMoves DEF stores, At, BeforeOwning

LEMMA RetireVersionMoves ==
  ASSUME RowInv, WholeInv, TypeOK', NEW t \in Task, RetireVersion(t)
  PROVE  WholeInv'
<1>1. task[t].pc \in BeforeOwning /\ task[t].pc \in ReadingPcs
  BY DEF RetireVersion, At, BeforeOwning, ReadingPcs
<1>2. Hashed(t)'
  BY <1>1, StillHashed DEF RetireVersion
<1> QED
  BY <1>1, <1>2, GotoMoves, BeforeOwningMoves DEF RetireVersion

LEMMA RetireVectorsMoves ==
  ASSUME RowInv, WholeInv, TypeOK', NEW t \in Task, RetireVectors(t)
  PROVE  WholeInv'
<1>1. task[t].pc \in BeforeOwning /\ task[t].pc \in ReadingPcs /\ Retired(task[t].target)
  BY DEF RetireVectors, At, BeforeOwning, ReadingPcs, RowInv, Control
<1>2. Hashed(t)'
  BY <1>1, StillHashed DEF RetireVectors
<1> QED
  BY <1>1, <1>2, GotoMoves, BeforeOwningMoves DEF RetireVectors

LEMMA RetireChunksMoves ==
  ASSUME RowInv, WholeInv, TypeOK', NEW t \in Task, RetireChunks(t)
  PROVE  WholeInv'
<1>1. /\ At(t, "retire_chunks") /\ Retired(task[t].target)
      /\ task[t].op \in {"file", "text", "refresh", "reingest"}
  BY DEF RetireChunks, At, RowInv, Control, Routes, RouteOK
<1>2. Hashed(t)'
  <2>1. CASE task[t].op = "text" /\ Goto(t, "create")
    BY <1>1, <2>1, StillHashed DEF RetireChunks, At
  <2>2. CASE task[t].op = "refresh" /\ Goto(t, "rehash")
    BY <2>2, StillHashed DEF RetireChunks
  <2>3. CASE task[t].op \in {"file", "reingest"} /\ Goto(t, "parse")
    BY <1>1, <2>3, StillHashed DEF RetireChunks, At, ReadingPcs
  <2> QED  BY <1>1, <2>1, <2>2, <2>3 DEF RetireChunks, AfterRetiring
<1> QED
  BY <1>1, <1>2, GotoMoves, BeforeOwningMoves DEF RetireChunks, At, BeforeOwning

LEMMA DropVectorsMoves ==
  ASSUME RowInv, WholeInv, TypeOK', NEW t \in Task, DropVectors(t)
  PROVE  WholeInv'
<1>1. task[t].pc \in BeforeOwning /\ task[t].pc \in ReadingPcs
  BY DEF DropVectors, At, BeforeOwning, ReadingPcs
<1>2. Hashed(t)'
  BY <1>1, StillHashed DEF DropVectors
<1> QED
  BY <1>1, <1>2, GotoMoves, BeforeOwningMoves DEF DropVectors

\* A vector store that raises before a document is owned: nobody goes on to drop
\* the row, so the run is not a steady one.
LEMMA RetireFailsMoves ==
  ASSUME RowInv, WholeInv, TypeOK', NEW t \in Task, StoreFails(t), ~At(t, "upsert")
  PROVE  WholeInv'
<1>1. /\ task[t].pc \in BeforeOwning /\ task[t].own = NoDoc /\ ~Steady
      /\ DeleteVectors(task[t].target) \/ UNCHANGED vectors
      /\ UNCHANGED <<disk, docs, chunks, versions>>
  BY DEF StoreFails, At, BeforeOwning, Steady, RowInv, Control, OwnerPcs
<1>2. Finish(t, "error", NoDoc)
  BY <1>1 DEF StoreFails, Raise
<1>3. task'[t].own = NoDoc /\ (\A u \in Task : u # t => task'[u] = task[u]) /\ Hashed(t)'
  BY <1>2, FinishMoves
<1>4. \A d \in DocId : vectors'[d] = vectors[d] \/ vectors'[d] = {}
  BY <1>1 DEF DeleteVectors, RowInv, TypeOK
<1> QED
  BY <1>1, <1>3, <1>4, NoOwnerMoves DEF Retired, At, BeforeOwning

(* The steps of a coroutine that owns a document. *)

\* What every owner starts from.
LEMMA OwnerStands ==
  ASSUME RowInv, WholeInv, NEW t \in Task, task[t].pc \in OwnerPcs
  PROVE  /\ task[t].own \in DocId /\ task[t].own # NoDoc
         /\ docs[task[t].own].status \in {"absent", "pending", "processing"}
         /\ Live(task[t].own) => docs[task[t].own].path = task[t].path
  BY DEF RowInv, TypeOK, TaskSet, Control, OwnerStatus, Live, WholeInv, WorkerInv, OwnerPath

\* set_status of the row the coroutine filed.
LEMMA SetStatusMoves ==
  ASSUME RowInv, NEW d \in DocId, NEW s \in {"processing", "failed"}, SetStatus(d, s)
  PROVE  /\ docs'[d].path = docs[d].path /\ docs'[d].hash = docs[d].hash
         /\ docs'[d].torn = docs[d].torn
         /\ Live(d)' <=> Live(d)
         /\ docs'[d].status \in {"absent", s}
         /\ \A e \in DocId : e # d => docs'[e] = docs[e]
<1>1. docs[d] \in RowSet
  BY DEF RowInv, TypeOK
<1>2. docs'[d] = IF Live(d) THEN [docs[d] EXCEPT !.status = s] ELSE docs[d]
  BY DEF SetStatus, RowInv, TypeOK
<1>3. \A e \in DocId : e # d => docs'[e] = docs[e]
  BY DEF SetStatus, RowInv, TypeOK
<1> QED  BY <1>1, <1>2, <1>3 DEF RowSet, Live

\* set_chunk_count of the row the coroutine filed.
LEMMA SetChunkCountMoves ==
  ASSUME RowInv, NEW d \in DocId, NEW n \in Nat, SetChunkCount(d, n)
  PROVE  /\ docs'[d].path = docs[d].path /\ docs'[d].hash = docs[d].hash
         /\ docs'[d].torn = docs[d].torn
         /\ Live(d)' <=> Live(d)
         /\ docs'[d].status \in {"absent", "ready"}
         /\ Ready(d)' => Live(d)
         /\ \A e \in DocId : e # d => docs'[e] = docs[e]
<1>1. docs[d] \in RowSet
  BY DEF RowInv, TypeOK
<1>2. docs'[d] = IF Live(d) THEN [docs[d] EXCEPT !.status = "ready", !.count = n] ELSE docs[d]
  BY DEF SetChunkCount, RowInv, TypeOK
<1>3. \A e \in DocId : e # d => docs'[e] = docs[e]
  BY DEF SetChunkCount, RowInv, TypeOK
<1> QED  BY <1>1, <1>2, <1>3 DEF RowSet, Live, Ready

LEMMA BeginMoves ==
  ASSUME RowInv, WholeInv, TypeOK', NEW t \in Task, Begin(t)
  PROVE  WholeInv'
<1>1. PICK d \in DocId : d = task[t].own
  BY OwnerStands DEF Begin, At, OwnerPcs
<1>2. PICK where \in {"no_chunks", "embed"} : Goto(t, where)
  BY DEF Begin
<1>3. SetStatus(d, "processing") /\ task[t].pc = "begin"
      /\ UNCHANGED <<disk, chunks, vectors, versions>>
  BY <1>1 DEF Begin, At
<1>4. ~Ready(d)'
  BY <1>3, SetStatusMoves DEF Ready
<1> QED
  BY <1>1, <1>2, <1>3, <1>4, GotoMoves, SetStatusMoves, OwnerMoves
     DEF OwnerPcs, BeforeUpsert, AfterUpsert

LEMMA SettleMoves ==
  ASSUME RowInv, WholeInv, TypeOK', NEW t \in Task, NothingToStore(t) \/ Abort(t)
  PROVE  WholeInv'
<1>1. PICK d \in DocId : d = task[t].own
  BY OwnerStands DEF NothingToStore, Abort, At, OwnerPcs
<1>2. PICK how, e : Finish(t, how, e)
  BY DEF NothingToStore, Abort
<1>3. SetStatus(d, "failed") /\ UNCHANGED <<disk, chunks, vectors, versions>>
  BY <1>1 DEF NothingToStore, Abort
<1>4. ~Ready(d)' /\ ~Unsettled(d)'
  BY <1>3, SetStatusMoves DEF Ready, Unsettled
<1> QED
  BY <1>1, <1>2, <1>3, <1>4, FinishMoves, SetStatusMoves, OwnerMoves
     DEF BeforeUpsert, AfterUpsert

LEMMA CompleteMoves ==
  ASSUME RowInv, WholeInv, TypeOK', NEW t \in Task, Complete(t)
  PROVE  WholeInv'
<1>1. PICK d \in DocId : d = task[t].own
  BY OwnerStands DEF Complete, At, OwnerPcs
<1>2. NChunks[task[t].body] \in Nat
  BY NChunksAssumption DEF Complete, At, RowInv, Control, OwnerPcs
<1>3. /\ SetChunkCount(d, NChunks[task[t].body]) /\ At(t, "complete")
      /\ UNCHANGED <<disk, chunks, vectors, versions>>
  BY <1>1 DEF Complete
<1>4. ~Unsettled(d)' /\ (Ready(d)' => Live(d))
  BY <1>2, <1>3, SetChunkCountMoves DEF Unsettled
<1>5. Finish(t, "ok", task[t].own)
  BY DEF Complete
<1> QED
  BY <1>1, <1>2, <1>3, <1>4, <1>5, FinishMoves, SetChunkCountMoves, OwnerMoves
     DEF BeforeUpsert, AfterUpsert

LEMMA EmbedMoves ==
  ASSUME RowInv, WholeInv, TypeOK', NEW t \in Task, Embed(t)
  PROVE  WholeInv'
<1>1. PICK d \in DocId : d = task[t].own
  BY OwnerStands DEF Embed, At, OwnerPcs
<1>2. Goto(t, "upsert") /\ task[t].pc = "embed" /\ UNCHANGED <<disk, stores>>
  BY DEF Embed, At
<1>3. ~Ready(d)'
  BY <1>1, <1>2, OwnerStands DEF Ready, OwnerPcs, stores
<1> QED
  BY <1>1, <1>2, <1>3, GotoMoves, OwnerMoves
     DEF OwnerPcs, BeforeUpsert, AfterUpsert, stores, Live

LEMMA UpsertMoves ==
  ASSUME RowInv, WholeInv, TypeOK', NEW t \in Task, Upsert(t)
  PROVE  WholeInv'
<1>1. PICK d \in DocId : d = task[t].own
  BY OwnerStands DEF Upsert, At, OwnerPcs
<1>2. /\ Goto(t, "add_chunk") /\ task[t].pc = "upsert"
      /\ UNCHANGED <<disk, docs, chunks, versions>>
  BY DEF Upsert, At
<1>3. /\ vectors'[d] = vectors[d] \cup ChunksOf(task[t].body)
      /\ \A e \in DocId : e # d => vectors'[e] = vectors[e]
  BY <1>1 DEF Upsert, RowInv, TypeOK
<1>4. ~Ready(d)'
  BY <1>1, <1>2, OwnerStands DEF Ready, OwnerPcs
<1> QED
  BY <1>1, <1>2, <1>3, <1>4, GotoMoves, OwnerMoves
     DEF OwnerPcs, BeforeUpsert, AfterUpsert, Live

\* An exception in the hands of an owner: a file's document is marked next, a text's
\* document is no file's.
LEMMA RaiseMoves ==
  ASSUME RowInv, WholeInv, TypeOK', NEW t \in Task, Raise(t), task[t].pc \in OwnerPcs,
         UNCHANGED <<disk, docs, chunks, versions>>,
         \A e \in DocId : e # task[t].own => vectors'[e] = vectors[e]
  PROVE  WholeInv'
<1>1. PICK d \in DocId : d = task[t].own
  BY OwnerStands
<1>2. ~Ready(d)' /\ (Live(d)' <=> Live(d))
  BY <1>1, OwnerStands DEF Ready, Live
<1>3. CASE Goto(t, "abort")
  BY <1>1, <1>2, <1>3, GotoMoves, OwnerMoves DEF OwnerPcs, BeforeUpsert, AfterUpsert
<1>4. CASE task[t].op = "text" /\ Finish(t, "error", NoDoc)
  <2>1. task[t].path \notin FilePath
    BY <1>4, PathAssumption DEF RowInv, Routes, RouteOK, OwnerPcs
  <2>2. ~Unsettled(d)'
    BY <1>1, <2>1, OwnerStands DEF Unsettled, Live
  <2> QED  BY <1>1, <1>2, <1>4, <2>2, FinishMoves, OwnerMoves DEF BeforeUpsert, AfterUpsert
<1> QED  BY <1>1, <1>3, <1>4, OwnerStands DEF Raise

LEMMA AddChunkMoves ==
  ASSUME RowInv, WholeInv, TypeOK', NEW t \in Task, AddChunk(t)
  PROVE  WholeInv'
<1>1. PICK d \in DocId : d = task[t].own
  BY OwnerStands DEF AddChunk, At, OwnerPcs
<1>2. task[t].pc = "add_chunk" /\ UNCHANGED <<disk, docs, vectors, versions>>
  BY DEF AddChunk, At
<1>3. CASE Raise(t) /\ UNCHANGED chunks
  BY <1>2, <1>3, RaiseMoves DEF OwnerPcs
<1>4. CASE /\ chunks' = [chunks EXCEPT ![d] = @ \cup {<<task[t].body, task[t].added + 1>>}]
           /\ \E n : \E where \in {"add_chunk", "complete"} :
                 task' = [task EXCEPT ![t].added = n, ![t].pc = where]
  <2>1. PICK n : \E where \in {"add_chunk", "complete"} :
             task' = [task EXCEPT ![t].added = n, ![t].pc = where]
    BY <1>4
  <2>2. /\ task'[t].pc \in AfterUpsert /\ task'[t].own = task[t].own /\ task'[t].op = task[t].op
        /\ task'[t].path = task[t].path /\ task'[t].hash = task[t].hash
        /\ task'[t].body = task[t].body /\ task'[t].torn = task[t].torn
    BY <2>1 DEF AfterUpsert, RowInv, TypeOK, TaskSet
  <2>3. \A u \in Task : u # t => task'[u] = task[u]
    BY <2>1 DEF RowInv, TypeOK
  <2>4. \A e \in DocId : e # d => chunks'[e] = chunks[e]
    BY <1>4 DEF RowInv, TypeOK
  <2>5. ~Ready(d)' /\ (Live(d)' <=> Live(d))
    BY <1>1, <1>2, OwnerStands DEF Ready, Live, OwnerPcs
  <2> QED
    BY <1>1, <1>2, <2>2, <2>3, <2>4, <2>5, OwnerMoves
       DEF OwnerPcs, BeforeUpsert, AfterUpsert
<1> QED  BY <1>1, <1>2, <1>3, <1>4 DEF AddChunk, At

\* A crash forgets the coroutines and keeps what they wrote.
LEMMA CrashMoves ==
  ASSUME RowInv, WholeInv, Crash
  PROVE  WholeInv'
<1>1. /\ \A t \in Task : task'[t].own = NoDoc /\ task'[t].pc = "idle"
      /\ UNCHANGED <<disk, stores>> /\ ~Steady /\ "crash" \in Faults
  BY DEF Crash, Idle, Steady
<1>2. OwnerVectors' /\ OwnerPath' /\ OwnerHash'
  BY <1>1 DEF OwnerVectors, OwnerPath, OwnerHash
<1>3. ReadySearchable'
  BY <1>1 DEF WholeInv, VectorInv, ReadySearchable, Ready, Retired, stores
<1>4. HashedBody'
  BY <1>1 DEF HashedBody, Hashed, At, OwnerPcs, ReadingPcs
<1>5. ReadyMatchesHash' <=> ReadyMatchesHash
  BY <1>1 DEF ReadyMatchesHash, Ready, Retired, ChunksOf, stores
<1> QED
  BY <1>1, <1>2, <1>3, <1>4, <1>5 DEF WholeInv, VectorInv, WorkerInv, HashInv

\* A file is written: whoever hashed it and has not parsed it is torn from now on,
\* and no owner of a document is among them.
LEMMA EditMoves ==
  ASSUME RowInv, WholeInv, NEW p \in FilePath, NEW c, Edit(p, c)
  PROVE  WholeInv'
<1>1. UNCHANGED <<stores, requests>>
  BY DEF Edit
<1>2. VectorInv' /\ WorkerInv'
  BY <1>1, EditTears DEF WholeInv, VectorInv, OwnerVectors, Shown, ReadySearchable, WorkerInv,
     OwnerPath, UnsettledHasWorker, Unsettled, Working, Dropping, At, Live, Ready, Retired, stores
<1>3. HashedBody'
  <2> SUFFICES ASSUME NEW t \in Task, ~task'[t].torn PROVE Hashed(t)'
    BY DEF HashedBody, Hashed
  <2>1. Hashed(t) /\ ~task[t].torn /\ ~BeforeParse(t, p)
    BY EditTears DEF WholeInv, HashInv, HashedBody
  <2>2. ASSUME task[t].op \in {"file", "reingest"}, task[t].pc \in ReadingPcs
        PROVE  disk'[task[t].path] = disk[task[t].path]
    <3>1. task[t].path # p
      BY <2>1, <2>2 DEF BeforeParse, ReadingPcs
    <3> QED  BY <3>1, <2>2 DEF Edit, RowInv, TypeOK, Routes, RouteOK, ReadingPcs
  <2> QED  BY <2>1, <2>2, EditTears DEF Hashed, At
<1>4. OwnerHash'
  <2> SUFFICES ASSUME NEW t \in Task, task[t].own # NoDoc PROVE task'[t].torn = task[t].torn
    BY <1>1, EditTears DEF WholeInv, HashInv, OwnerHash, Live, stores
  <2>1. task[t].pc \in OwnerPcs /\ task[t].torn \in BOOLEAN
    BY DEF RowInv, Control, TypeOK, TaskSet
  <2> QED  BY <2>1, EditTears DEF BeforeParse, OwnerPcs
<1>5. ReadyMatchesHash'
  BY <1>1 DEF WholeInv, HashInv, ReadyMatchesHash, ChunksOf, Ready, Retired, stores
<1> QED  BY <1>2, <1>3, <1>4, <1>5 DEF WholeInv, HashInv

\* In the initial state there is nothing to say.
LEMMA InitIsWhole == Init => WholeInv
<1> SUFFICES ASSUME Init PROVE WholeInv
  OBVIOUS
<1>1. /\ \A d \in DocId : ~Live(d) /\ ~Ready(d) /\ ~Unsettled(d)
      /\ \A t \in Task : task[t].own = NoDoc /\ task[t].pc = "idle"
  BY DEF Init, NoRow, Idle, Live, Ready, Unsettled
<1>2. VectorInv /\ WorkerInv
  BY <1>1 DEF VectorInv, OwnerVectors, ReadySearchable, WorkerInv, OwnerPath, UnsettledHasWorker
<1>3. HashInv
  BY <1>1 DEF HashInv, HashedBody, Hashed, OwnerHash, ReadyMatchesHash, At, OwnerPcs, ReadingPcs
<1> QED  BY <1>2, <1>3 DEF WholeInv

\* Every step keeps the documents whole.
LEMMA StepKeepsWhole == RowInv /\ WholeInv /\ TypeOK' /\ [Next]_vars => WholeInv'
<1> SUFFICES ASSUME RowInv, WholeInv, TypeOK', [Next]_vars PROVE WholeInv'
  OBVIOUS
<1>1. ASSUME NEW t \in Task, Start(t) PROVE WholeInv'
  BY <1>1, StartMoves
<1>2. ASSUME NEW t \in Task, Step(t) PROVE WholeInv'
  <2>1. CASE Fetch(t) \/ Lookup(t) \/ Rehash(t) \/ Parse(t)
    BY <2>1, FetchMoves, LookupMoves, RehashMoves, ParseMoves
  <2>2. CASE RetireVersion(t) \/ RetireVectors(t) \/ RetireChunks(t)
    BY <2>2, RetireVersionMoves, RetireVectorsMoves, RetireChunksMoves
  <2>3. CASE DropVectors(t) \/ DropRow(t) \/ Create(t)
    BY <2>3, DropVectorsMoves, DropRowMoves, CreateMoves
  <2>4. CASE Begin(t) \/ NothingToStore(t) \/ Abort(t) \/ Complete(t)
    BY <2>4, BeginMoves, SettleMoves, CompleteMoves
  <2>5. CASE Embed(t) \/ Upsert(t) \/ AddChunk(t)
    BY <2>5, EmbedMoves, UpsertMoves, AddChunkMoves
  <2> QED  BY <1>2, <2>1, <2>2, <2>3, <2>4, <2>5 DEF Step
<1>3. ASSUME NEW t \in Task, Fault(t) PROVE WholeInv'
  <2>1. CASE ParserFails(t)
    BY <2>1, ParseMoves
  <2>2. CASE EmbedderFails(t)
    BY <2>2, RaiseMoves DEF EmbedderFails, At, OwnerPcs, stores
  <2>3. CASE StoreFails(t) /\ ~At(t, "upsert")
    BY <2>3, RetireFailsMoves
  <2>4. CASE StoreFails(t) /\ At(t, "upsert")
    <3>1. task[t].pc \in OwnerPcs
      BY <2>4 DEF At, OwnerPcs
    <3>2. \A e \in DocId : e # task[t].own => vectors'[e] = vectors[e]
      BY <2>4 DEF StoreFails, At, RowInv, TypeOK
    <3> QED  BY <2>4, <3>1, <3>2, RaiseMoves DEF StoreFails
  <2> QED  BY <1>3, <2>1, <2>2, <2>3, <2>4 DEF Fault
<1>4. CASE Crash
  BY <1>4, CrashMoves
<1>5. ASSUME NEW p \in FilePath, NEW c, Edit(p, c) PROVE WholeInv'
  BY <1>5, EditMoves
<1>6. CASE UNCHANGED vars
  BY <1>6 DEF vars, stores, WholeInv, VectorInv, OwnerVectors, Shown, ReadySearchable,
     WorkerInv, OwnerPath, UnsettledHasWorker, Unsettled, Working, Dropping, HashInv,
     HashedBody, Hashed, OwnerHash, ReadyMatchesHash, ChunksOf, At, Live, Ready, Retired
<1> QED  BY <1>1, <1>2, <1>3, <1>4, <1>5, <1>6 DEF Next

\* What holds of the documents in every reachable state.
LEMMA WholeInvariant == Spec => []WholeInv
<1>1. RowInv => TypeOK
  BY DEF RowInv
<1> QED  BY <1>1, InitIsWhole, StepKeepsWhole, RowInvariant, PTL DEF Spec

\* A ready document that was never retired is searchable as a whole or not at all,
\* whatever fails, crashes or is edited; unless the process crashes or the vector
\* store fails, not at all only while a deletion is between its vectors and its row.
THEOREM VectorsStayWhole == Spec => []ReadySearchable
<1>1. WholeInv => ReadySearchable
  BY DEF WholeInv, VectorInv
<1> QED  BY <1>1, WholeInvariant, PTL

\* When the process does not crash, requests that overlap in any way, with files
\* that are written at any time and components that fail, leave every ready document
\* whole, under the hash of its rows unless its own file was written between hash
\* and parse, and every unsettled one of a file in the hands of its coroutine.
THEOREM RacesLeaveWholeAlways ==
  "crash" \notin Faults => (Spec => []RacesLeaveWhole)
<1>1. ASSUME "crash" \notin Faults
      PROVE  RowInv /\ WholeInv => RacesLeaveWhole
  BY <1>1 DEF RowInv, WholeInv, VectorInv, WorkerInv, HashInv, RacesLeaveWhole
<1>2. CASE "crash" \notin Faults
  <2>1. RowInv /\ WholeInv => RacesLeaveWhole
    BY <1>1, <1>2
  <2> QED  BY <2>1, RowInvariant, WholeInvariant, PTL
<1>3. CASE "crash" \in Faults
  BY <1>3
<1> QED  BY <1>2, <1>3

-----------------------------------------------------------------------------
(***************************************************************************)
(* What a client that sends one request at a time can rely on.  Overlap,   *)
(* failures and versioning break each of these promises somewhere, so they *)
(* are promised to that client only; for it they hold however many files   *)
(* and documents there are.                                                *)
(***************************************************************************)
OneAtATime ==
    /\ \A t, u \in Task : t = u
    /\ Versioning = FALSE
    /\ Ops \subseteq {"file", "delete"}
    /\ Faults = {}

NeverRetired == \A d \in DocId : ~Retired(d)

OneRow ==
    \A d, e \in DocId : Live(d) /\ Live(e) /\ docs[d].path = docs[e].path => d = e

NoStrayVectors == \A d \in DocId : ~Live(d) => vectors[d] = {}

\* The coroutine of the only request: no row of its file is left once it parses.
Alone(t) ==
    /\ task[t].op \in {"none", "file", "delete"}
    /\ ~At(t, "retire_version") /\ ~At(t, "abort")
    /\ task[t].own # NoDoc => Live(task[t].own)
    /\ At(t, "no_chunks") => NChunks[task[t].body] = 0
    /\ task[t].pc \in {"drop_vectors", "drop_row"} /\ task[t].op = "file" =>
          Live(task[t].target) /\ docs[task[t].target].path = task[t].path
    /\ At(t, "drop_row") => vectors[task[t].target] = {}
    /\ task[t].pc \in {"parse", "create"} => RowsAt(task[t].path) = {}
    /\ Finished(t, "file") => task[t].ret \in DocId

AloneInv == /\ NeverRetired /\ OneRow /\ NoStrayVectors
            /\ (\A t \in Task : Alone(t))
            /\ IngestedIsSearchable

AllInv == RowInv /\ WholeInv /\ AloneInv

\* Outside a deletion, a ready document has the vectors of the hash it records,
\* unless its file was written under it.
LEMMA ReadyIsSearchable ==
  ASSUME OneAtATime, AllInv, NEW t \in Task, ~At(t, "drop_row"),
         NEW d \in DocId, Ready(d), ~docs[d].torn
  PROVE  vectors[d] = ChunksOf(docs[d].hash)
<1>1. ~Retired(d) /\ Steady /\ ~Dropping(d)
  BY DEF OneAtATime, AllInv, AloneInv, NeverRetired, Steady, Dropping, At
<1>2. vectors[d] = chunks[d]
  BY <1>1 DEF AllInv, WholeInv, VectorInv, ReadySearchable
<1>3. chunks[d] = ChunksOf(docs[d].hash)
  BY <1>1 DEF OneAtATime, AllInv, WholeInv, HashInv, ReadyMatchesHash
<1> QED  BY <1>2, <1>3

\* A step that writes to neither store.
LEMMA AloneRests ==
  ASSUME OneAtATime, AllInv, NEW t \in Task, UNCHANGED stores, Alone(t)',
         Finished(t, "file")' /\ ~docs'[task'[t].ret].torn =>
            vectors[task'[t].ret] = ChunksOf(task'[t].hash)
  PROVE  AloneInv'
<1>1. NeverRetired' /\ OneRow' /\ NoStrayVectors'
  BY DEF stores, AllInv, AloneInv, NeverRetired, OneRow, NoStrayVectors, Live, Retired
<1>2. \A u \in Task : u = t
  BY DEF OneAtATime
<1>3. IngestedIsSearchable'
  BY <1>2 DEF IngestedIsSearchable, stores, ChunksOf
<1> QED  BY <1>1, <1>2, <1>3 DEF AloneInv

\* A request that ends without a document to show.
LEMMA AloneEnds ==
  ASSUME RowInv, NEW t \in Task, Alone(t), NEW how, NEW d, Finish(t, how, d),
         how = "ok" /\ task[t].op = "file" => d \in DocId
  PROVE  /\ Alone(t)'
         /\ task'[t].outcome = how /\ task'[t].op = task[t].op
         /\ task'[t].hash = task[t].hash /\ task'[t].ret = d
<1>1. /\ task'[t].own = NoDoc /\ task'[t].pc = "idle" /\ task'[t].op = task[t].op
      /\ task'[t].outcome = how /\ task'[t].hash = task[t].hash /\ task'[t].ret = d
  BY DEF Finish, Idle, RowInv, TypeOK
<1> QED  BY <1>1 DEF Alone, At, Finished

\* Accepting, looking at a document before its deletion, and looking up a path.
LEMMA AloneStarts ==
  ASSUME OneAtATime, AllInv, NEW t \in Task, Start(t)
  PROVE  AloneInv'
<1>1. UNCHANGED stores
  BY Zenon DEF Start, StartIngestFile, StartIngestText, StartRefresh, StartDelete, Accept
<1>2. /\ task'[t].op \in {"file", "delete"} /\ task'[t].own = NoDoc
      /\ task'[t].pc \in {"lookup", "fetch"}
  <2>1. CASE \E p \in FilePath : StartIngestFile(t, p)
    BY <2>1 DEF StartIngestFile, Accept, Idle, AllInv, RowInv, TypeOK
  <2>2. CASE \E d \in Created : StartDelete(t, d)
    BY <2>2 DEF StartDelete, Accept, Idle, AllInv, RowInv, TypeOK
  <2>3. "text" \notin Ops /\ "refresh" \notin Ops
    BY DEF OneAtATime
  <2> QED  BY <2>1, <2>2, <2>3, Zenon DEF Start, StartIngestText, StartRefresh
<1>3. Alone(t)' /\ ~Finished(t, "file")'
  BY <1>2 DEF Alone, At, Finished
<1> QED  BY <1>1, <1>3, AloneRests

LEMMA AloneFetches ==
  ASSUME OneAtATime, AllInv, NEW t \in Task, Fetch(t)
  PROVE  AloneInv'
<1>1. /\ At(t, "fetch") /\ UNCHANGED stores /\ Alone(t)
      /\ task[t].own = NoDoc /\ task[t].op # "refresh"
  BY DEF Fetch, At, AllInv, RowInv, Control, OwnerPcs, AloneInv, Alone
<1>2. CASE task[t].op = "delete" /\ Goto(t, "drop_vectors")
  BY <1>1, <1>2, GotoMoves, AloneRests DEF AllInv, Alone, At, Finished
<1>3. CASE Finish(t, "error", NoDoc)
  BY <1>1, <1>3, AloneEnds, AloneRests DEF AllInv, Finished
<1> QED  BY <1>1, <1>2, <1>3 DEF Fetch

\* An unchanged file is answered with the document that has its vectors.
LEMMA AloneLooksUp ==
  ASSUME OneAtATime, AllInv, NEW t \in Task, Lookup(t)
  PROVE  AloneInv'
<1>1. /\ At(t, "lookup") /\ UNCHANGED stores /\ Alone(t)
      /\ task[t].own = NoDoc /\ task[t].op = "file"
  BY DEF Lookup, At, AllInv, RowInv, Control, OwnerPcs, Routes, RouteOK, AloneInv, Alone
<1>2. CASE RowsAt(task[t].path) = {} /\ Goto(t, "parse")
  <2>1. /\ task'[t].pc = "parse" /\ task'[t].op = "file" /\ task'[t].own = NoDoc
        /\ task'[t].path = task[t].path
    BY <1>1, <1>2, GotoMoves DEF AllInv
  <2>2. RowsAt(task[t].path)' = {}
    BY <1>1, <1>2, <2>1 DEF RowsAt, Live, stores
  <2> QED  BY <1>1, <2>1, <2>2, AloneRests DEF Alone, At, Finished
<1>3. CASE RowsAt(task[t].path) # {} /\ Unchanged(t, FirstRow(task[t].path))
           /\ Finish(t, "ok", FirstRow(task[t].path))
  <2>1. PICK d \in DocId : d = FirstRow(task[t].path)
    BY <1>3, FirstRowFound DEF RowsAt
  <2>2. ~docs[d].torn => vectors[d] = ChunksOf(task[t].hash)
    BY <1>1, <1>3, <2>1, ReadyIsSearchable DEF Unchanged, Ready, At
  <2>3. task'[t].ret = d /\ task'[t].hash = task[t].hash /\ Alone(t)'
    BY <1>1, <1>3, <2>1, AloneEnds DEF AllInv
  <2> QED  BY <1>1, <2>2, <2>3, AloneRests DEF stores
<1>4. CASE /\ RowsAt(task[t].path) # {}
           /\ task' = [task EXCEPT ![t].target = FirstRow(task[t].path),
                                   ![t].pc = "drop_vectors"]
  <2>1. PICK d \in DocId : /\ d = FirstRow(task[t].path)
                           /\ Live(d) /\ docs[d].path = task[t].path
    BY <1>4, FirstRowFound DEF RowsAt
  <2>2. task' = [task EXCEPT ![t].target = d, ![t].pc = "drop_vectors"]
    BY <1>4, <2>1
  <2>3. /\ task'[t].pc = "drop_vectors" /\ task'[t].op = "file" /\ task'[t].own = NoDoc
        /\ task'[t].path = task[t].path /\ task'[t].target = d
    BY <1>1, <2>2 DEF AllInv, RowInv, TypeOK, TaskSet
  <2> QED  BY <1>1, <2>1, <2>3, AloneRests DEF Alone, At, Finished, Live, stores
<1> QED
  BY <1>1, <1>2, <1>3, <1>4 DEF Lookup, AfterRetiring, OneAtATime

LEMMA AloneParses ==
  ASSUME OneAtATime, AllInv, NEW t \in Task, Parse(t)
  PROVE  AloneInv'
<1>1. At(t, "parse") /\ UNCHANGED stores /\ Alone(t) /\ task[t].own = NoDoc
  BY DEF Parse, At, AllInv, RowInv, Control, OwnerPcs, AloneInv
<1>2. CASE Finish(t, "error", NoDoc)
  BY <1>1, <1>2, AloneEnds, AloneRests DEF AllInv, Finished
<1>3. CASE task' = [task EXCEPT ![t].pc = "create", ![t].body = disk[task[t].path]]
  <2>1. /\ task'[t].pc = "create" /\ task'[t].op = task[t].op /\ task'[t].own = NoDoc
        /\ task'[t].path = task[t].path
    BY <1>1, <1>3 DEF AllInv, RowInv, TypeOK, TaskSet
  <2>2. RowsAt(task[t].path)' = {}
    BY <1>1, <2>1 DEF RowsAt, Live, stores, Alone, At
  <2> QED  BY <1>1, <2>1, <2>2, AloneRests DEF Alone, At, Finished
<1> QED  BY <1>2, <1>3 DEF Parse

LEMMA AloneEmbeds ==
  ASSUME OneAtATime, AllInv, NEW t \in Task, Embed(t)
  PROVE  AloneInv'
<1>1. /\ task[t].pc = "embed" /\ Goto(t, "upsert") /\ UNCHANGED stores
      /\ Alone(t) /\ task[t].own # NoDoc
  BY DEF Embed, At, AllInv, RowInv, Control, OwnerPcs, AloneInv
<1>2. /\ task'[t].pc = "upsert" /\ task'[t].op = task[t].op /\ task'[t].own = task[t].own
  BY <1>1, GotoMoves DEF AllInv
<1> QED  BY <1>1, <1>2, AloneRests DEF Alone, At, Finished, Live, stores

\* A step that writes, but moves nobody's path: what a document loses or gains.
LEMMA AloneWrites ==
  ASSUME OneAtATime, AllInv, NEW t \in Task, Alone(t)',
         \A d \in DocId : (Live(d)' <=> Live(d)) /\ docs'[d].path = docs[d].path,
         \A d \in DocId : ~Live(d) => vectors'[d] = {},
         UNCHANGED versions,
         Finished(t, "file")' /\ ~docs'[task'[t].ret].torn =>
            vectors'[task'[t].ret] = ChunksOf(task'[t].hash)
  PROVE  AloneInv'
<1>1. NeverRetired' /\ OneRow' /\ NoStrayVectors'
  BY DEF AllInv, AloneInv, NeverRetired, OneRow, NoStrayVectors, Retired
<1>2. \A u \in Task : u = t
  BY DEF OneAtATime
<1>3. IngestedIsSearchable'
  BY <1>2 DEF IngestedIsSearchable, ChunksOf
<1> QED  BY <1>1, <1>2, <1>3 DEF AloneInv

LEMMA AloneDropsVectors ==
  ASSUME OneAtATime, AllInv, NEW t \in Task, DropVectors(t)
  PROVE  AloneInv'
<1>1. PICK d \in DocId : d = task[t].target
  BY DEF DropVectors, At, AllInv, RowInv, Control
<1>2. /\ At(t, "drop_vectors") /\ Alone(t) /\ task[t].own = NoDoc /\ NoStrayVectors
      /\ UNCHANGED <<docs, versions>> /\ Goto(t, "drop_row")
  BY DEF DropVectors, At, AllInv, RowInv, Control, OwnerPcs, AloneInv
<1>3. /\ vectors'[d] = {}
      /\ \A e \in DocId : e # d => vectors'[e] = vectors[e]
  BY <1>1 DEF DropVectors, DeleteVectors, AllInv, RowInv, TypeOK
<1>4. /\ task'[t].pc = "drop_row" /\ task'[t].op = task[t].op /\ task'[t].own = NoDoc
      /\ task'[t].path = task[t].path /\ task'[t].target = d
  BY <1>1, <1>2, GotoMoves DEF AllInv
<1>5. Alone(t)'
  BY <1>1, <1>2, <1>3, <1>4 DEF Alone, At, Live, Finished
<1>6. \A e \in DocId : ~Live(e) => vectors'[e] = {}
  BY <1>2, <1>3 DEF NoStrayVectors
<1> QED  BY <1>2, <1>4, <1>5, <1>6, AloneWrites DEF Live, Finished, At

\* The row that goes was the only one of its file, and its vectors are gone.
LEMMA AloneDropsRow ==
  ASSUME OneAtATime, AllInv, NEW t \in Task, DropRow(t)
  PROVE  AloneInv'
<1>1. PICK d \in DocId : d = task[t].target
  BY DEF DropRow, At, AllInv, RowInv, Control
<1>2. /\ At(t, "drop_row") /\ Alone(t) /\ task[t].own = NoDoc
      /\ UNCHANGED <<vectors, versions>>
  BY DEF DropRow, At, AllInv, RowInv, Control, OwnerPcs, AloneInv
<1>3. /\ docs'[d] = NoRow
      /\ \A e \in DocId : e # d => docs'[e] = docs[e]
  BY <1>1 DEF DropRow, AllInv, RowInv, TypeOK
<1>4. /\ ~Live(d)' /\ vectors'[d] = {}
      /\ \A e \in DocId : e # d => (Live(e)' <=> Live(e)) /\ docs'[e].path = docs[e].path
  BY <1>1, <1>2, <1>3 DEF Live, NoRow, Alone
<1>5. NeverRetired' /\ OneRow' /\ NoStrayVectors'
  BY <1>2, <1>4 DEF AllInv, AloneInv, NeverRetired, OneRow, NoStrayVectors, Retired
<1>6. Alone(t)' /\ ~Finished(t, "file")'
  <2>1. CASE task[t].op = "delete" /\ Finish(t, "ok", NoDoc)
    BY <1>2, <2>1, AloneEnds DEF AllInv, Finished
  <2>2. CASE task[t].op # "delete" /\ Goto(t, "parse")
    <3>1. /\ task'[t].pc = "parse" /\ task'[t].op = task[t].op /\ task'[t].own = NoDoc
          /\ task'[t].path = task[t].path
      BY <1>2, <2>2, GotoMoves DEF AllInv
    <3>2. task[t].op = "file"
      BY <1>2, <2>2 DEF AllInv, RowInv, Routes, RouteOK, At, Alone
    <3>3. Live(d) /\ docs[d].path = task[t].path
      BY <1>1, <1>2, <3>2 DEF Alone, At
    <3>4. \A e \in DocId : ~(Live(e)' /\ docs'[e].path = task[t].path)
      BY <1>4, <3>3 DEF AllInv, AloneInv, OneRow
    <3>5. RowsAt(task[t].path)' = {}
      BY <3>1, <3>4 DEF RowsAt
    <3> QED  BY <3>1, <3>2, <3>5 DEF Alone, At, Finished
  <2> QED  BY <2>1, <2>2 DEF DropRow
<1>7. \A u \in Task : u = t
  BY DEF OneAtATime
<1> QED  BY <1>5, <1>6, <1>7 DEF AloneInv, IngestedIsSearchable

\* The file's rows were gone when its document is filed.
LEMMA AloneCreates ==
  ASSUME OneAtATime, AllInv, NEW t \in Task, Create(t)
  PROVE  AloneInv'
<1>1. PICK d \in DocId : d = nextDoc
  BY DEF Create
<1>2. /\ At(t, "create") /\ Alone(t) /\ task[t].op = "file" /\ RowsAt(task[t].path) = {}
  BY DEF Create, At, AllInv, RowInv, Routes, RouteOK, AloneInv, Alone
<1>3. /\ docs'[d] = [status |-> "pending", path |-> task[t].path,
                     hash |-> task[t].hash, count |-> 0, torn |-> task[t].torn]
      /\ \A e \in DocId : e # d => docs'[e] = docs[e]
      /\ UNCHANGED <<vectors, versions>>
  BY <1>1 DEF Create, AllInv, RowInv, TypeOK
<1>4. /\ task'[t].own = d /\ task'[t].pc = "begin" /\ task'[t].op = task[t].op
  <2>1. task' = [task EXCEPT ![t].pc = "begin", ![t].own = d]
    BY <1>1, <1>2 DEF Create
  <2> QED  BY <2>1 DEF AllInv, RowInv, TypeOK, TaskSet
<1>5. /\ Live(d)' /\ docs'[d].path = task[t].path
      /\ \A e \in DocId : e # d => (Live(e)' <=> Live(e)) /\ docs'[e].path = docs[e].path
  BY <1>3 DEF Live
<1>6. \A e \in DocId : ~(Live(e) /\ docs[e].path = task[t].path)
  BY <1>2 DEF RowsAt
<1>7. NeverRetired' /\ OneRow' /\ NoStrayVectors'
  BY <1>3, <1>5, <1>6 DEF AllInv, AloneInv, NeverRetired, OneRow, NoStrayVectors, Retired
<1>8. Alone(t)' /\ ~Finished(t, "file")'
  BY <1>2, <1>4, <1>5 DEF Alone, At, Finished
<1>9. \A u \in Task : u = t
  BY DEF OneAtATime
<1> QED  BY <1>7, <1>8, <1>9 DEF AloneInv, IngestedIsSearchable

LEMMA AloneBegins ==
  ASSUME OneAtATime, AllInv, NEW t \in Task, Begin(t)
  PROVE  AloneInv'
<1>1. PICK d \in DocId : d = task[t].own
  BY OwnerStands DEF AllInv, Begin, At, OwnerPcs
<1>2. /\ task[t].pc = "begin" /\ Alone(t) /\ SetStatus(d, "processing")
      /\ UNCHANGED <<vectors, versions>> /\ NoStrayVectors
      /\ Goto(t, IF NChunks[task[t].body] = 0 THEN "no_chunks" ELSE "embed")
  BY <1>1 DEF Begin, At, AllInv, AloneInv
<1>3. /\ task'[t].pc = IF NChunks[task[t].body] = 0 THEN "no_chunks" ELSE "embed"
      /\ task'[t].op = task[t].op /\ task'[t].own = d /\ task'[t].body = task[t].body
  BY <1>1, <1>2, GotoMoves DEF AllInv
<1>4. \A e \in DocId : (Live(e)' <=> Live(e)) /\ docs'[e].path = docs[e].path
  BY <1>2, SetStatusMoves DEF AllInv, Live
<1>5. Alone(t)' /\ ~Finished(t, "file")'
  BY <1>1, <1>2, <1>3, <1>4 DEF Alone, At, Finished
<1> QED  BY <1>2, <1>4, <1>5, AloneWrites DEF NoStrayVectors

\* A file without chunks is answered with a document without vectors.
LEMMA AloneStoresNothing ==
  ASSUME OneAtATime, AllInv, NEW t \in Task, NothingToStore(t)
  PROVE  AloneInv'
<1>1. PICK d \in DocId : d = task[t].own
  BY OwnerStands DEF AllInv, NothingToStore, At, OwnerPcs
<1>2. /\ task[t].pc = "no_chunks" /\ Alone(t) /\ SetStatus(d, "failed")
      /\ UNCHANGED <<vectors, versions>> /\ NoStrayVectors
      /\ Finish(t, "ok", d) /\ NChunks[task[t].body] = 0 /\ Live(d) /\ task[t].own # NoDoc
  BY <1>1, OwnerStands DEF NothingToStore, At, OwnerPcs, AllInv, AloneInv, Alone
<1>3. vectors[d] = {}
  BY <1>1, <1>2
     DEF AllInv, WholeInv, VectorInv, OwnerVectors, BeforeUpsert, AloneInv, NeverRetired
<1>4. ~docs'[d].torn => task[t].body = task[t].hash
  BY <1>1, <1>2, SetStatusMoves
     DEF OneAtATime, AllInv, WholeInv, HashInv, HashedBody, Hashed, OwnerHash, OwnerPcs
<1>5. ~docs'[d].torn => ChunksOf(task[t].hash) = {}
  BY <1>2, <1>4 DEF ChunksOf
<1>6. Alone(t)' /\ task'[t].ret = d /\ task'[t].hash = task[t].hash
  BY <1>2, AloneEnds DEF AllInv
<1>7. \A e \in DocId : (Live(e)' <=> Live(e)) /\ docs'[e].path = docs[e].path
  BY <1>2, SetStatusMoves DEF AllInv, Live
<1> QED  BY <1>2, <1>3, <1>5, <1>6, <1>7, AloneWrites DEF NoStrayVectors

LEMMA AloneUpserts ==
  ASSUME OneAtATime, AllInv, NEW t \in Task, Upsert(t)
  PROVE  AloneInv'
<1>1. PICK d \in DocId : d = task[t].own
  BY OwnerStands DEF AllInv, Upsert, At, OwnerPcs
<1>2. /\ task[t].pc = "upsert" /\ Alone(t) /\ Goto(t, "add_chunk")
      /\ UNCHANGED <<docs, versions>> /\ NoStrayVectors /\ Live(d) /\ task[t].own # NoDoc
  BY <1>1, OwnerStands DEF Upsert, At, OwnerPcs, AllInv, AloneInv, Alone
<1>3. /\ task'[t].pc = "add_chunk" /\ task'[t].op = task[t].op /\ task'[t].own = d
  BY <1>1, <1>2, GotoMoves DEF AllInv
<1>4. \A e \in DocId : e # d => vectors'[e] = vectors[e]
  BY <1>1 DEF Upsert, AllInv, RowInv, TypeOK
<1>5. Alone(t)' /\ ~Finished(t, "file")'
  BY <1>1, <1>2, <1>3 DEF Alone, At, Finished, Live
<1> QED  BY <1>2, <1>4, <1>5, AloneWrites DEF NoStrayVectors, Live

LEMMA AloneAddsChunks ==
  ASSUME OneAtATime, AllInv, NEW t \in Task, AddChunk(t)
  PROVE  AloneInv'
<1>1. PICK d \in DocId : d = task[t].own
  BY OwnerStands DEF AllInv, AddChunk, At, OwnerPcs
<1>2. /\ task[t].pc = "add_chunk" /\ Alone(t) /\ Live(d) /\ task[t].own # NoDoc
      /\ UNCHANGED <<docs, vectors, versions>> /\ NoStrayVectors
  BY <1>1, OwnerStands DEF AddChunk, At, OwnerPcs, AllInv, AloneInv, Alone
<1>3. PICK n : \E where \in {"add_chunk", "complete"} :
           task' = [task EXCEPT ![t].added = n, ![t].pc = where]
  BY <1>1, <1>2 DEF AddChunk, At
<1>4. /\ task'[t].pc \in {"add_chunk", "complete"}
      /\ task'[t].op = task[t].op /\ task'[t].own = d
  BY <1>1, <1>3 DEF AllInv, RowInv, TypeOK, TaskSet
<1>5. Alone(t)' /\ ~Finished(t, "file")'
  BY <1>1, <1>2, <1>4 DEF Alone, At, Finished, Live
<1> QED  BY <1>2, <1>5, AloneWrites DEF NoStrayVectors, Live

\* A file that was stored is answered with the document that has its vectors.
LEMMA AloneCompletes ==
  ASSUME OneAtATime, AllInv, NEW t \in Task, Complete(t)
  PROVE  AloneInv'
<1>1. PICK d \in DocId : d = task[t].own
  BY OwnerStands DEF AllInv, Complete, At, OwnerPcs
<1>2. /\ task[t].pc = "complete" /\ Alone(t) /\ SetChunkCount(d, NChunks[task[t].body])
      /\ UNCHANGED <<vectors, versions>> /\ NoStrayVectors
      /\ Finish(t, "ok", d) /\ Live(d) /\ task[t].own # NoDoc
  BY <1>1, OwnerStands DEF Complete, At, OwnerPcs, AllInv, AloneInv, Alone
<1>3. Shown(d, ChunksOf(task[t].body))
  BY <1>1, <1>2
     DEF AllInv, WholeInv, VectorInv, OwnerVectors, AfterUpsert, AloneInv, NeverRetired
<1>4. Steady /\ ~Dropping(d)
  BY <1>2 DEF OneAtATime, Steady, Dropping, At
<1>5. NChunks[task[t].body] \in Nat
  BY <1>2, NChunksAssumption DEF AllInv, RowInv, Control, OwnerPcs
<1>6. ~docs'[d].torn => vectors[d] = ChunksOf(task[t].hash)
  <2>1. ~docs'[d].torn => task[t].body = task[t].hash
    BY <1>1, <1>2, <1>5, SetChunkCountMoves
       DEF AllInv, WholeInv, HashInv, HashedBody, Hashed, OwnerHash, OwnerPcs
  <2> QED  BY <1>3, <1>4, <2>1 DEF Shown
<1>7. Alone(t)' /\ task'[t].ret = d /\ task'[t].hash = task[t].hash
  BY <1>2, AloneEnds DEF AllInv
<1>8. \A e \in DocId : (Live(e)' <=> Live(e)) /\ docs'[e].path = docs[e].path
  BY <1>2, <1>5, SetChunkCountMoves DEF AllInv, Live
<1> QED  BY <1>2, <1>6, <1>7, <1>8, AloneWrites DEF NoStrayVectors

LEMMA InitIsAlone == Init => AloneInv
<1> SUFFICES ASSUME Init PROVE AloneInv
  OBVIOUS
<1>1. /\ \A d \in DocId : ~Live(d) /\ ~Retired(d) /\ vectors[d] = {}
      /\ \A t \in Task : task[t].own = NoDoc /\ task[t].pc = "idle" /\ task[t].op = "none"
  BY DEF Init, NoRow, Idle, Live, Retired
<1> QED
  BY <1>1 DEF AloneInv, NeverRetired, OneRow, NoStrayVectors, Alone, At,
     IngestedIsSearchable, Finished

\* Files may be written whenever their owner likes.
LEMMA EditMovesAlone ==
  ASSUME AllInv, NEW p \in FilePath, NEW c, Edit(p, c)
  PROVE  AloneInv'
<1>1. UNCHANGED stores /\ RowInv
  BY DEF Edit, AllInv
<1>2. NeverRetired' /\ OneRow' /\ NoStrayVectors'
  BY <1>1 DEF stores, AllInv, AloneInv, NeverRetired, OneRow, NoStrayVectors, Live, Retired
<1>3. ASSUME NEW t \in Task PROVE Alone(t)'
  BY <1>1, EditTears DEF AllInv, AloneInv, Alone, At, Finished, RowsAt, Live, stores
<1>4. IngestedIsSearchable'
  BY <1>1, EditTears DEF AllInv, AloneInv, IngestedIsSearchable, Finished, At, ChunksOf, stores
<1> QED  BY <1>2, <1>3, <1>4 DEF AloneInv

\* Alone, a request does what it promises.
LEMMA StepKeepsAlone == OneAtATime /\ AllInv /\ [Next]_vars => AloneInv'
<1> SUFFICES ASSUME OneAtATime, AllInv, [Next]_vars PROVE AloneInv'
  OBVIOUS
<1>1. ASSUME NEW t \in Task, Start(t) PROVE AloneInv'
  BY <1>1, AloneStarts
<1>2. ASSUME NEW t \in Task, Step(t) PROVE AloneInv'
  <2>1. CASE Fetch(t) \/ Lookup(t) \/ Parse(t) \/ Embed(t)
    BY <2>1, AloneFetches, AloneLooksUp, AloneParses, AloneEmbeds
  <2>2. CASE DropVectors(t) \/ DropRow(t) \/ Create(t)
    BY <2>2, AloneDropsVectors, AloneDropsRow, AloneCreates
  <2>3. CASE Begin(t) \/ NothingToStore(t) \/ Upsert(t) \/ AddChunk(t) \/ Complete(t)
    BY <2>3, AloneBegins, AloneStoresNothing, AloneUpserts, AloneAddsChunks, AloneCompletes
  <2>4. ~Abort(t) /\ ~Rehash(t) /\ ~RetireVersion(t)
    BY DEF Abort, Rehash, RetireVersion, At, AllInv, AloneInv, Alone, RowInv, Routes, RouteOK
  <2>5. ~RetireVectors(t) /\ ~RetireChunks(t)
    BY DEF RetireVectors, RetireChunks, At, AllInv, RowInv, Control, AloneInv, NeverRetired
  <2> QED  BY <1>2, <2>1, <2>2, <2>3, <2>4, <2>5 DEF Step
<1>3. ASSUME NEW t \in Task, Fault(t) PROVE AloneInv'
  BY <1>3 DEF OneAtATime, Fault, ParserFails, EmbedderFails, StoreFails
<1>4. CASE Crash
  BY <1>4 DEF OneAtATime, Crash
<1>5. ASSUME NEW p \in FilePath, NEW c, Edit(p, c) PROVE AloneInv'
  BY <1>5, EditMovesAlone
<1>6. CASE UNCHANGED vars
  BY <1>6 DEF vars, stores, AllInv, AloneInv, NeverRetired, OneRow, NoStrayVectors, Alone, At,
     IngestedIsSearchable, Finished, RowsAt, Live, Retired, ChunksOf
<1> QED  BY <1>1, <1>2, <1>3, <1>4, <1>5, <1>6 DEF Next

LEMMA AloneInvariant == OneAtATime => (Spec => [](RowInv /\ AloneInv))
<1>1. CASE OneAtATime
  <2>1. RowInv /\ WholeInv /\ AloneInv /\ [Next]_vars => AloneInv'
    BY <1>1, StepKeepsAlone DEF AllInv
  <2> QED
    BY <2>1, InitIsAlone, RowInvariant, WholeInvariant, PTL DEF Spec
<1>2. CASE ~OneAtATime
  BY <1>2
<1> QED  BY <1>1, <1>2

\* A client that waits for one answer before it asks for more finds no vector of what it
\* has deleted.
THEOREM DeletionLeavesNothing == OneAtATime => (Spec => []DeletedLeavesNothing)
<1>1. AloneInv => DeletedLeavesNothing
  BY DEF AloneInv, NoStrayVectors, DeletedLeavesNothing
<1> QED  BY <1>1, AloneInvariant, PTL

\* What an ingestion that answered has stored is what that client finds, unless the file
\* was written meanwhile, and never two versions of a file, nor one version twice.
THEOREM OneCopyIsSearchable == OneAtATime => (Spec => []OneCopySearchable)
<1>1. RowInv /\ AloneInv => OneCopySearchable
  <2> SUFFICES ASSUME RowInv, AloneInv PROVE OldChunksReplaced /\ IdempotentOnHash
    BY DEF OneCopySearchable, AloneInv
  <2>1. ASSUME NEW t \in Task, Finished(t, "file"), NEW e \in DocId,
               docs[e].path = docs[task[t].ret].path,
               vectors[e] # {}, vectors[task[t].ret] # {}
        PROVE  e = task[t].ret
    <3>1. task[t].ret \in DocId
      BY <2>1 DEF AloneInv, Alone
    <3> QED  BY <2>1, <3>1 DEF AloneInv, OneRow, NoStrayVectors
  <2>2. IdempotentOnHash
    BY DEF IdempotentOnHash, AloneInv, OneRow, Ready, Live
  <2> QED  BY <2>1, <2>2 DEF OldChunksReplaced
<1> QED  BY <1>1, AloneInvariant, PTL
=============================================================================
