# A verification of PAEKA in TLA+

PAEKA is a self-hosted assistant: a FastAPI application that ingests documents,
answers chat turns with retrieval and memory, builds a knowledge graph, and
runs tool-calling loops around a language model.  This directory holds TLA+
models of its stateful parts, the TLC configurations that check them on small
instances, and proofs, checked by TLAPS, of what matters most about them for
every instance.

Paths are relative to the repository; "file.py:12" is a line of it.

## 1. The system

### 1.1 Execution model

One process, one asyncio event loop (granian with one worker).  Requests, their
background tasks and the gathered tool calls of an agent are coroutines:
between two awaits a coroutine runs alone, at an await any other may run.  So
the grain of every concurrent module is **one action per stretch of code
between two awaits that touches shared state**.

State lives in

* SQLite (`backend/shared/database.py`): one aiosqlite connection.  A repository
  method awaits `execute` and then `commit`; there are no multi-statement
  transactions, so another coroutine may run between any two statements.
  Foreign keys are on, and deletions cascade.
* Qdrant (`backend/retrieval/qdrant_store.py`): vectors with the document id in
  their payload.  Two stores without a common transaction.
* FalkorDB (`backend/knowledge/falkor_store.py`): a rebuildable mirror of the
  knowledge graph, optional.
* memory: the guard of one agent run, LangGraph states, sessions of the chat
  control panel, download states, rate limiter buckets, MCP schema cache, and
  the checkpoints of the deep orchestrator.  All of it is lost at a restart.

The language model, the parsers, the embedder and the tools are outside: they
return anything, or fail.

### 1.2 Inventory

| component | state | operations | hard behaviour | what makes it correct |
|---|---|---|---|---|
| ingestion (`ingestion/pipeline.py`, `ingestion/repository.py`, `routes/documents.py`) | documents, chunks, document_versions; vectors | ingest file, ingest text, refresh, delete | overlapping requests on one path, two stores, failures and crashes between statements, files that change under an ingestion | a ready document is whole and searchable as a whole, its hash is the hash of what is stored unless its file was written under it, nothing is left of a deleted one, every request ends |
| ReAct loop (`agent/react_graph.py`, `agent/guardrails.py`) | messages of a run, guard | agent node, gathered tool calls, router | calls of a batch complete in any order and share the guard | memoization, circuit breaker, round limit |
| other agent graphs (`agent/tool_graph.py`, `agent/iteration_graph.py`, `agent/graph.py`, `agent/nodes/`) | state of one run | nodes and routers | any model answer, any failure, limits set by clients | bounded, answered, permanent failures not repeated, converged means accepted |
| agent endpoints (`routes/agent.py`) | none | iterate, tools/execute, react, deep | refusals, failures inside a graph | every request is answered once |
| conversations and memory (`memory/`, `routes/chat.py`, `routes/conversations.py`, `routes/memory.py`) | conversations, messages, memory rows | chat turn, background summary and fact extraction, rename, delete, clear | turns of one conversation overlap, clients hang up, conversations vanish under a turn | log and prompts consistent, summaries about whole blocks, deletion final |
| knowledge graph (`knowledge/`, `routes/knowledge.py`) | kg_nodes, kg_edges, mirror | extract, refine in three passes, delete node, resync | jobs overlap, a merge is three statements, the mirror is rebuilt from two readings | no dangling edges, one row per label, merges keep edges, mirror current |
| MCP client and server (`mcp/`) | tool schema cache | call_tool, get_tool_schemas | cache filled under a lock; a call is repeated over HTTP after a local failure, whose answer may be lost too | a failed refresh takes the known tools from nobody, whoever waits is answered |
| deep orchestrator (`agent/deep_orchestrator.py`) | checkpoints by thread | run, resume | approval arrives late, twice, or after a restart | a request stores only what its own client approved, each call at most once |
| model downloads (`models/downloader.py`, `routes/models.py`) | download states, .part files | start, poll, scan | two downloads of one file, leftovers of failures and restarts | a file with its final name is whole, every download settles |
| rate limiter (`security/ratelimit.py`) | a token bucket per client and route group | check | clock read before the lock | at most the burst plus the refill is admitted |
| OpenAI-compatible API (`routes/openai_compat.py`) | none | one completion, whole or streamed | refused, retried with another model, broken off or hung up at any line | the client gets the lines of one attempt, once and in order |
| chat control (`routes/chat_control.py`) | sessions, the active one | create, activate, reset, delete | an await on llama.cpp inside reset and delete | the active session exists |
| application start-up (`api/app.py`) | app.state, connections | lifespan | each service may fail to initialise, halfway through its block | what is served has its stores open, the database is closed last |
| file parsers (`ingestion/parsers/`) | the Docling converter, shared by threads | parse_file, the Markdown walk | a double-checked lock; blocks closed by the line that opens the next | one converter for all files, each line in one element |
| chunking (`retrieval/chunker.py`, `pipeline.py:263-386`) | none | chunk_text, chunk_document, scan, _deduplicate | windows drawn back to a sentence and then by the overlap; buffers flushed at headings but not at an element's own heading, and cut off at the chunk size | the windows lose no word; a chunk keeps tables and what fits of a text, is not too long and crosses no heading; only duplicates dropped |
| retrieval (`retrieval/engine.py`, `retrieval/reranker.py`, `agent/nodes/retriever.py`, `tools/websearch.py`) | none | parallel sub-queries, rerank, merge | any of them fails or comes last, passages found twice or beginning alike | the best first, one of each beginning, nothing the scanner blocked |
| content scanner, authentication (`security/`) | none | scan, dispatch | - | taken as any verdict, in the modules of the callers |
| read-only or external parts | none | graph retriever, LLM providers, skills, export, code tools, health, web client, scripts | formats and I/O | left to unit tests |

How they interact: the chat route calls the RAG pipeline, which calls retrieval
(vectors written by ingestion, the graph written by extraction) and the model;
then it appends to the conversation and starts the memory task.  The ReAct
endpoint calls tools through the MCP client, and some tools (qdrant_ingest,
graph_search) reach the same stores.  Extraction reads the chunk rows of
ingestion and writes the graph.  The stores are the only state these components share,
so they are modelled separately, each with the whole of its own writers, and
what a component reads of another is arbitrary data in its model.  The services
beside them (section 2.5) and the stages a text passes (section 2.6) hand each
other values and share no state at all: one composing module holds all of them,
and each of its behaviours is the life of one.

## 2. The modules

| module | models | composed with |
|---|---|---|
| `Ingestion` | the ingestion service, await by await | `DocumentLifecycle` (abstract), shown to be implemented |
| `DocumentLifecycle` | what the rows of a document promise | - |
| `ReActLoop` | one ReAct run with its guard | instantiated by `AgentRoutes` |
| `ToolGraph`, `IterationGraph`, `RagPipeline` | one run of each of the other graphs | instantiated by `AgentRoutes` |
| `AgentRoutes` | a request to one of the four endpoints, from its check to its answer | `BoundedRun` (abstract), shown to be implemented |
| `BoundedRun` | what every agent endpoint promises | - |
| `Conversation` | chat turns, their background tasks and the memory tables | - |
| `KnowledgeGraph` | extraction and refinement jobs, the two tables, the mirror | - |
| `Lifespan`, `Admission`, `ChatSessions`, `ModelDownload`, `CompletionProxy`, `ToolSchemas`, `DeepOrchestrator` | one service each | instantiated by `ApiServices` |
| `ToolServer` | a tool call, locally and over HTTP | extended by `DeepOrchestrator` |
| `FileParsing`, `MarkdownLines`, `TextWindows`, `SectionChunks`, `PassageRetrieval` | one stage of a text each | instantiated by `TextPipeline` |
| `...Proofs` (eight) | theorems and proofs | extend the module they are named after; `ApiServicesProofs` and `TextPipelineProofs` prove about the instances of their parts, the former with `ModelDownloadProofs` instantiated |
| `MC...` | constants for TLC | one per model |

Definitions that begin with a "Mutant:" comment are wrong variants of the
definition below them.  Nothing uses them; they record which programming
mistake each property detects, and PROJECT.json pairs them.

### 2.1 Ingestion

`task[t]` is the coroutine of a request in flight: `pc` is the await it stands
at, the other fields are its local variables (`hash` as computed at the start,
`body` as parsed later, `own` the document it created, `target` the one it
retires or deletes, `added` the chunk rows inserted so far,
`torn` an auxiliary mark: the file was written between this request's hash and its
parse, which the row it creates inherits).  `docs`, `chunks`,
`versions` are the tables, `vectors` the points in Qdrant; a content stands for
its hash and has `NChunks` chunks left after chunking, scanning and
deduplication (possibly none).

| action | code |
|---|---|
| `StartIngestFile`, `StartIngestText`, `StartRefresh`, `StartDelete` | the routes; the file is hashed here (pipeline.py:92-96) |
| `Fetch` | get_document of delete and refresh, with the 404 paths |
| `Lookup` | get_document_by_path: first row that matches, skip if ready and unchanged |
| `RetireVersion`, `RetireVectors`, `RetireChunks` | _retire_version, three awaits |
| `DropVectors`, `DropRow` | delete_document, vectors first, then the row and what cascades |
| `Rehash` | refresh calls ingest_file |
| `Parse`, `Create`, `Begin`, `NothingToStore`, `Embed`, `Upsert`, `AddChunk`, `Complete`, `Abort` | the rest of an ingestion; a chunk row is one insert |
| `ParserFails`, `EmbedderFails`, `StoreFails` | exceptions; a store call that raises may have been applied |
| `Crash` | the process dies and restarts: coroutines vanish, rows and vectors stay |
| `Edit` | the file on disk is written, at any moment: the route of an upload does so without a lock (documents.py:158-188), and so may a user |

Where an exception goes is `Raise`: inside `_process` the document is marked
failed and the exception re-raised, in `ingest_text` nothing is marked.

### 2.2 ReAct loop and agent endpoints

`trace[r][i]` is the i-th call of the r-th message with tool calls and how it
ended; `counts`, `cache`, `fails`, `disabled` are the guard's dictionaries.  A
gathered call checks the guard (`Block`, `Memoize`, `Dispatch`) and, when the
tool returns, records its result (`Return`, or `AnswerAtOnce` where call_tool
answers without awaiting); `Gathered` closes the batch when all its calls are
settled.

`ToolGraph`, `IterationGraph` and `RagPipeline` keep the LangGraph state of a
run in one record with the node that runs next; one action per node and per way
it can fail, with the router in the action of the node before it.  Two things
LangGraph does matter and are modelled: keys that the state schema does not
declare are dropped (`already_good` of the iteration graph never reaches its
router), and an exception that leaves a node discards the whole state.
`AgentRoutes` picks an endpoint, refuses or runs its graph, and answers with the
status code the route gives.

### 2.3 Conversation

`turn[t]` is a chat request and then its background task.  The log of a
conversation is a sequence of <<turn, role>>; a prompt is what was read from
the log.  Actions follow `generate` in routes/chat.py (history, pipeline or
stream, question stored, reply stored, title, done) and `process_turn` in
memory/service.py (summary of the block before, replacement of the old summary,
fact extraction); `Pipeline` selects the route's two branches, which store the
question at different times.  Renames, deletion and both ways of clearing
memory interleave, model calls fail, clients hang up, the process restarts.

### 2.4 KnowledgeGraph

Two workers run jobs: an extraction is a list of entities and relations, each
looked up and written in separate awaits; a refinement merges (listing once,
comparing pairs, re-pointing sources, then targets, then dropping), prunes and
validates types.  After either the mirror is rebuilt from two readings.
Labels are numbers so that they can be ordered as the code orders its rows.
Two auxiliary variables serve only the properties: `clean` is true while no two
jobs have overlapped and none has failed, `removed` holds what was deleted by
hand.

### 2.5 API services

`ApiServices` instantiates the seven modules below and picks one of them in its
initial state; the fault models are theirs.

* `Lifespan`: one action per block of `lifespan` in api/app.py.  A guarded block
  ends after any prefix of its assignments, so `fields` (app.state) and `open`
  (connections, the provider, the database file) can part; an unguarded one ends
  the start-up.  `injected` is what configure() gave to the tools, `closing` the set of
  what shutdown still has to close; a close() that raises skips the rest.
* `Admission`: the token bucket of ratelimit.py and the authentication behind it.
  `Check` is the critical section, with the clock read before the bucket is
  made.  Tokens are counted in parts of 1/Ticks, so all numbers are integers; a
  minute is `Ticks` ticks.  `since` and `admitted` are auxiliary: a window that
  `Watch` begins anywhere.
* `ChatSessions`: the session store; `Begin` or `ResetActive` before the awaited
  erasure of a llama.cpp slot, `Erased` after it.
* `ModelDownload`: POST /models/download (`Request`), the background task from
  `Start` over `Connect` (open of the .part file), `Write` (a chunk at the task's own offset),
  `EndOfStream`, `Finish` (verify, rename) or `Fail` (unlink), `Scan` of the
  registry and `Restart`.  Files are named after the task that created them, as
  inodes are: tasks on one path write one file, rename takes whatever has the
  name, unlink leaves the file to whoever has it open (POSIX).
* `CompletionProxy`: one request to /v1/chat/completions from its refusals over
  the retry with the configured model to the last event, with breaks and
  clients that hang up between any two lines.
* `ToolSchemas`: get_tool_schemas under its asyncio.Lock; a fetch over HTTP keeps
  the lock while it is awaited and may fail.
* `DeepOrchestrator` over `ToolServer`: `Run`, `Model` (interrupts with calls to
  approve), `Resume` (reads the checkpoint when the request begins), `Decide`
  (one decision per call: approve, edit, reject), `CallTools`, `ToolsReturn`,
  `Fails`, `Restart` (the MemorySaver is lost).  A call is answered locally, or
  falls back to HTTP where it may run and its answer be lost.

### 2.6 The way of a text

* `FileParsing`: parse_file in worker threads, step by step at each access to
  the shared converter (`FastPath` reads it without the lock, `SlowPath`, `Lock`,
  `Recheck`, `Build`), the retry with OCR, fall-backs and the choice of the chunker.
* `MarkdownLines`: the walk of _parse_markdown; a line is the class its regular
  expressions put it in, one action takes one line.
* `TextWindows`: chunk_text on texts of full stops, spaces and other characters;
  `Slide` is one turn of the loop, `End` draws the window back to a sentence.
* `SectionChunks`: chunk_document element by element, of any length and with or
  without a heading of its own (`Headed`, which flushes nothing); `Flushed` cuts off what
  exceeds the chunk size.  Then the content scan and
  _deduplicate with any relation of closeness, one chunk a step: the first that
  waits (`waiting`) is kept or not.
* `PassageRetrieval`: gathered sub-queries (vector, graph, web), each of which
  may fail, the reranker's order, and the merge: `Collect` takes the result at
  `place` and remembers it in `seen` unless one that begins alike
  is there (`DedupKey`, the first 120 characters, is any function of the text), `ByScore` sorts what was
  collected.

## 3. What the runs check

Every passing run is complete: TLC exhausts the state space of the instance.  Deadlock
is not reported because each instance does stop: requests, turns, jobs and
rounds are bounded, and a finished run has nothing left to do.

| run | instance | shows |
|---|---|---|
| ingestion_races | 2 coroutines, 1 file, contents of 1 and 2 chunks, 3 requests, versioning on, no faults, the file written at any moment | `RacesLeaveWhole`: every interleaving of uploads, refreshes and deletions leaves ready documents whole, under the hash of their rows unless their own file was written between hash and parse, and no orphaned work |
| ingestion_faults | 2 coroutines, 1 file, 1 text, 2 requests, parser, embedder and store failures, crashes | `ReadyRowsComplete`, `ReadySearchable`, `NoOrphanRows` and `ImplementsLifecycle`: failures change none of that, and the rows refine `DocumentLifecycle` |
| ingestion_live | the same without crashes, weak fairness | `RequestsFinish`, `DocumentsSettle` |
| ingestion_sequential | 1 coroutine, 4 requests, versioning off | `OneCopySearchable` (`IngestedIsSearchable` and no second copy), `DeletedLeavesNothing`: the documented behaviour of re-ingestion and deletion, request after request |
| react_guard | 1 tool, 3 arguments, 4 rounds of up to 2 calls, breaker at 2 | memoization and breaker: `ExecutedInOneRound`, `MemoRepeatsResult`, `BreakerIsExact`, `DisabledStays` |
| agent_graphs | one request to any endpoint; 3 calls of 2 tools, 3 rounds, retries, attempts; 2 hops | `PermanentNotRetried`, `ConvergedWasAccepted`, `RunsEnd`, and `ImplementsBoundedRun` |
| conversation_turns | 2 turns of 1 conversation, window and summary block of 2, all faults | `LogIsConsistent`, `QuestionSentOnce`, `SummariesAreBlocks`, `DeletedStaysEmpty`, `DoneIsStored`, `TurnsEnd` |
| knowledge_graph | 2 workers, 3 labels, 2 jobs, 2 items, 1 deletion by hand, mirror on, model failures | `GraphIsConsistent` (no dangling edge, one row per label), `MirrorCurrent`, `JobsLoseNothing` (merges keep edges, stale pairs of one pass included; confidences do not fall) |
| api_services | start-up with 2 parts that may be disabled; 1 client, 2 groups at 1 and 2 per minute, 3 ticks a minute, 4 ticks; 3 sessions, 2 handlers; 2 downloads of 2 keys on one path, 2 chunks, 1 restart; streams of 3 lines of 2 kinds; 2 askers, 2 schemas; 3 requests on 1 thread, 1 call, 1 restart | `ServicesBacked`, `WithinBudget`, `ActiveExists`, `PublishedIsWhole`, `StreamIsRelayed`, `StoredOnApproval`, `KnownToolsStay`, and `ServicesSettle`: downloads settle, askers and requests are answered |
| text_pipeline | 2 threads; files of 4 lines of 10 classes; texts of up to 14 characters, of which up to 3 are full stops or spaces, window 11, overlaps 0, 2 and 12; documents of 3 elements of 1, 3 or 6 characters, 2 headings, chunks of 5, overlap 2; 2 sub-queries, 3 passages of which 2 begin alike, scores 1 and 3, best 2, 1 web result | `WindowsCoverText`, `ChunksKeepText`, `LinesKept`, `OneConverter`, `PassagesRanked`, and `TextArrives`: files, windows and sub-queries end |
| ingestion_refresh, conversation_window | small | one documented statement each that the code does not meet (section 6) |

**Why the bounds suffice to be interesting.**  Races on documents are between
two coroutines on one path; the third request of ingestion_races lets a row be
left by a finished request before two others meet on it.  Contents of one and two
chunks reach "first row is the last row" and "between two rows", the content of none
in the other runs "all chunks blocked".  The breaker needs its limit of failures plus one more
call; four rounds allow a success between failures, a trip and a call
afterwards; real limits (3 failures, 10 rounds, 15 at most) only lengthen that.
A window and a block of two messages make the second turn overflow both.  Two
jobs suffice for duplicates, merges and overlapping rebuilds.  A stale pair, whose
kept or dropped node an earlier merge of the same pass took, needs three nodes of
one type, and while jobs do not overlap these need three labels; the two items, a
relation and an entity, make three nodes and an edge.  Where these arguments
are not enough the theorems of section 5 do not depend on a bound.

A minute of three ticks with limits of one and two makes a refill smaller than, equal to
and larger than a token; four ticks let a bucket fill beyond its cap.  Two
handlers and three sessions reach a deletion of the active session while a
reset and another deletion are waiting.  Two downloads on one path meet in
every phase, with the leftover of a restart between them.  Three lines reach a
break before, between and after data.  Three requests are a run and two resumes
of what it left.  Four lines open a block, interrupt it by the next, and close
that one.  The last fifth of a window of eleven begins at eight and has
room for a full stop and a space before the window's end, for two overlapping
places even; fourteen characters give a second and a third window behind one that
was drawn back, with an overlap below and above the window's length.  Three
elements fill a buffer, flush it into the next and meet a heading or a table;
elements of three characters still fit a chunk but not beside the two carried over
and the blank, those of six fit none.  Two sub-queries of three passages overlap in
one, and find two that begin alike in either order.

**Symmetry** (coroutines, arguments of a tool, workers) is used in runs of
invariants and action properties only, never with liveness.

## 4. Fairness

Liveness assumes what the event loop provides: a coroutine that can continue
eventually does (weak fairness of every task's step, of the turn's step, of the
work of an accepted request), and every awaited call returns or raises.  The
code gives its network calls timeouts, so the latter is an assumption about
libraries rather than about other requests.  Nothing is assumed about clients
(they need not call), about which failure happens, or about which of several
ready coroutines runs first.  Crashes have no fairness and are absent from
ingestion_live, where a restart would simply abandon the request.

Of the services: a download has no timeout (downloader.py opens its client with
timeout=None), so that it settles assumes of the *server* that its stream
delivers, ends or breaks; `WF_vars(Run(t))` says that and no more.  An
asyncio.Lock serves its waiters in the order they came, so a waiter that finds
the lock free again and again gets it: strong fairness of `Acquire`.  Worker threads
are scheduled and a Docling conversion returns or raises (weak fairness of
`Step`); sub-queries have timeouts in httpx.  Nothing is assumed of the admission, the panel
or the proxy, whose properties are about safety.

## 5. What is proved

TLAPS checks the following for every value of the constants that satisfies the
modules' ASSUMEs: any number of coroutines, files, contents and chunks, tools,
calls, rounds, batch sizes and requests.

| theorem | statement |
|---|---|
| `IngestionProofs!TypeCorrect` | the type invariant of Ingestion |
| `IngestionProofs!ReadyMeansComplete` | `Spec => []ReadyRowsComplete` |
| `IngestionProofs!NoRowWithoutDocument` | `Spec => []NoOrphanRows` |
| `IngestionProofs!Refinement` | `Spec => ImplementsLifecycle` |
| `IngestionProofs!VectorsStayWhole` | `Spec => []ReadySearchable` |
| `IngestionProofs!RacesLeaveWholeAlways` | without crashes, `Spec => []RacesLeaveWhole` |
| `IngestionProofs!DeletionLeavesNothing` | one request at a time, `Spec => []DeletedLeavesNothing` |
| `IngestionProofs!OneCopyIsSearchable` | one request at a time, `Spec => []OneCopySearchable` |
| `ReActLoopProofs!TypeCorrect` | the type invariant of ReActLoop |
| `ReActLoopProofs!NoReexecution` | `Spec => []ExecutedInOneRound` |
| `ReActLoopProofs!MemoIsGenuine` | `Spec => []MemoRepeatsResult` |
| `ReActLoopProofs!BreakerHolds` | `Spec => DisabledStays` |
| `ReActLoopProofs!BreakerIsAlwaysExact` | `Spec => []BreakerIsExact` |
| `AgentRoutesProofs!Bounds` | `Spec => ImplementsBoundedRun` |
| `AgentRoutesProofs!PermanentFailureStops` | `Spec => []PermanentNotRetried` |
| `AgentRoutesProofs!ConvergedIsAccepted` | `Spec => []ConvergedWasAccepted` |
| `ConversationProofs!ConversationInvariant` | the inductive invariant of Conversation |
| `ConversationProofs!LogsStayConsistent` | `Spec => []LogIsConsistent` |
| `ConversationProofs!QuestionsAreSentOnce` | `Spec => []QuestionSentOnce` |
| `ConversationProofs!SummariesStayBlocks` | `Spec => []SummariesAreBlocks` |
| `ConversationProofs!DeletionIsFinal` | `Spec => []DeletedStaysEmpty` |
| `ConversationProofs!AnnouncedIsStored` | `Spec => []DoneIsStored` |
| `KnowledgeGraphProofs!GraphInvariant` | the inductive invariant of KnowledgeGraph |
| `KnowledgeGraphProofs!GraphStaysConsistent` | `Spec => []GraphIsConsistent` |
| `KnowledgeGraphProofs!MirrorIsRebuilt` | `Spec => []MirrorCurrent` |
| `KnowledgeGraphProofs!JobsLoseNothingAtAll` | `Spec => JobsLoseNothing` |
| `ApiServicesProofs!ApiServicesStayBacked` | `Spec => []ServicesBacked` |
| `ApiServicesProofs!ApiKeepsBudget` | `Spec => []WithinBudget` |
| `ApiServicesProofs!ApiRespectsApproval` | `Spec => []StoredOnApproval` |
| `ApiServicesProofs!ApiKeepsActiveSession` | `Spec => []ActiveExists` |
| `ApiServicesProofs!ApiRelaysStreams` | `Spec => []StreamIsRelayed` |
| `ApiServicesProofs!ApiKeepsTools` | `Spec => KnownToolsStay` |
| `ApiServicesProofs!ApiPublishesWholeFiles` | `Spec => []PublishedIsWhole`; of the downloads alone, `ModelDownloadProofs!PublishedFilesAreWhole` |
| `TextPipelineProofs!ConverterIsShared` | `Spec => []OneConverter` |
| `TextPipelineProofs!LinesAreKept` | `Spec => []LinesKept` |
| `TextPipelineProofs!TextIsCovered` | `Spec => []WindowsCoverText` |
| `TextPipelineProofs!TextIsKept` | `Spec => []ChunksKeepText` |
| `TextPipelineProofs!PassagesAreRanked` | `Spec => []PassagesRanked` |

With these, every safety property that a passing run checks is a theorem.

*Ingestion.*  `ReadyRowsComplete` is not inductive: that `Complete` may publish
the row depends on what the same coroutine did many awaits ago.  `RowInv` adds
the argument a reader of pipeline.py would give.  Ids are handed out once
(`FreshIds`), so a document has one owner, the coroutine that created it
(`OneOwner`); the owner's program counter determines the status of a live
document (`OwnerStatus`) and, unless it was retired, its chunk rows
(`OwnerRows`: none before the first insert, the first n after n of them);
`Control` and `Routes` say which local variables are set where.  Nobody but the
owner adds rows, a retirement records itself in document_versions before it
touches the rows, and a deletion takes the row with its chunks.  One lemma per
action shows that it keeps `RowInv`; crashes and failures only remove owners.

*The two stores.*  `WholeInv` stands on `RowInv` and says the same of the vectors
(`OwnerVectors`: none before the upsert, all chunks of the body after it, unless
somebody took them out), of the path and the coroutine of an unsettled document
(`WorkerInv`) and of its hash (`HashInv`: from the hash to the parse the file is
the one that was hashed, or was written meanwhile, which `torn` records).  Files
are written at any moment, since an upload does so beside every other request; the
property excepts the documents whose own file was written between their hash
and their parse, and those do end up under the wrong hash (section 6).  `WorkerInv`
is false when a restart leaves a document "processing"; hence the hypothesis
`"crash" \notin Faults`, which the run ingestion_races satisfies.  Failures of the
parser, the embedder and the stores are allowed.

*One request at a time.*  The promises of ingestion_sequential are broken by
overlap, by versioning and by failures (section 6), so their theorems assume
`OneAtATime`: at most one coroutine, versioning off, files and deletions, no
fault; any number of files, contents, chunks and requests.  A file may still be
written at any moment, and `IngestedIsSearchable` excepts what was torn by that.  `AloneInv` is then
inductive: nothing is ever retired, a path has one live row (`OneRow`), only
live documents have vectors (`NoStrayVectors`), and where the one coroutine
parses or creates, the lookup has left no row on its path (`Alone`).

*Refinement.*  With `RowInv` every statement that writes a table is one step of
`DocumentLifecycle`, and every other step is a stutter; the module has a
lemma per writing statement.  The mapping takes the phase from the row (unborn
before its id is used, deleted once it is gone), the chunk rows as they are, and
"retired" from the version rows.

*ReAct loop.*  `GuardInv` ties the guard to the messages: open calls are in the
last batch (`OpenCallsAreLast`), every reported execution is counted
(`ExecutionsCounted`) and the cache holds the result of one (`CacheFromMessages`).
A call is dispatched only when its count is zero, hence in no later round than
its first execution; what is served from the cache is therefore in the messages.

*Breaker.*  `BreakerIsExact` compares the guard, which counts failures in the order
in which results come back, with the messages, which keep the order in which
calls were asked for; the two agree up to the order within a round.
`BreakerInv`: the current streak is a set of failures in the messages with no
success in a later round than one of them (`StreakInMessages`), every failure
after the last round with a success is in the streak (`FailuresCounted`), and
whoever tripped the breaker left such a set of FailLimit failures (`TrippedBy`).
The sizes are cardinalities of finite sets of slots.

*Agent endpoints.*  What keeps a graph within its limit is a check made two or
three nodes before the round is counted.  `RunInv` carries it over those nodes:
a node that may count one more round (selector and executor, generator,
retriever) is reached only below the limit, or in the first round, which
happens whatever the limit is; and in the tool graph retries and rounds differ
by one exactly between the execution and the reflection.  `ToolStep`,
`AttemptStep`, `RagStep` and `ReactStep` show that a step of each graph keeps
this and counts at most one round; `RouteStep` maps every step of a request to
a step of `BoundedRun` or a stutter.  `PermanentInv` follows a permanent failure
through the tool graph: among the latest results until the evaluator judges
them, among the failed ones until the reflector looks, and nowhere where calls
are selected or executed.  `AcceptedInv`: an attempt that is kept as
converged was accepted by the evaluator, unless it was an empty one.

*Conversations.*  `ConversationInv` ties a turn to the tables by its place
(`TurnSound`): its question and its reply are in the log exactly from the await
that stores them on, as long as the conversation exists (`Stored`); no message of
its own is in the prompt it carries, and the block it summarises is a block of the
log (`Carried`).  `LogSound`: a log holds messages of its own turns, each once,
an answer after its question.  Deletion is the hard step: it empties the log of
turns that go on, and what they write afterwards has no conversation to go to.

*Knowledge graph.*  `GraphInv` separates what is true whatever other jobs do
from what needs them absent.  `Carries`: the ids and rows in a coroutine's hands are
ones that were given out, the pairs of a merge are distinct.  `Informed`, claimed
only while `clean`: the row an upsert is about to write is still as it was read,
after `move_sources` no edge leaves the node that is merged away, and the mirror
is built as far as the rebuild has come (`MirrorAsBuilt`).  `NoDanglingEdges` is
true always, since SQLite refuses the statement that would break it; one row per
label, the mirror and `JobsLoseNothing` are true of clean histories.  An entity makes
at most one row, a relation at most two and an edge, so the bounds on ids exclude no
step that `MaxItems` allows.

*Start-up.*  `LifeInv`: until the shutdown, a field that is set stands for something
open, and whoever works on the vector store has one with an embedder
(`Standing`); the tools and the pipeline were handed only such things
(`HandedOut`).  During the shutdown whatever is open and has a field is still to
be closed, with the database among it.

*Chat panel, proxy, tool discovery.*  `PanelInv` is the type invariant with
`ActiveExists`: when the active session is deleted the newest of the others
takes its place, which is one of them because a non-empty set of numbers below
a bound has a greatest.  `RelayInv`: the client has the lines the model server has
sent, and at the end at most one event more.  `AskInv`: who waits for the lock or
holds it has no reply, so that a failed refresh can only hand out what was known.

*Rate limiter.*  `WithinBudget` speaks of admissions up to now, the code of
tokens at the last refill.  `SlotInv` ties them: a bucket holds at most its
burst and was refilled at or before now, what was admitted since the window
began plus what is left is at most the burst plus the refill from then to the
last refill, and a bucket not touched since then has admitted nothing.  The
bucket made "after now" is the case that needs care: its first elapsed time is
negative and takes tokens away, never adds any.

*Deep agent.*  `CallInv`: a call without an answer has stored nothing, a call
that was begun was approved by the client of its own request, and a request
that is idle or not yet decided has begun none.  Hence a repetition over HTTP
and a second resume, which is another request, store on their own account only.

*Downloads.*  Files outlive tasks, so `DownloadInv` follows the files: whatever
carries a .part or a final name was created by a task of that very path, and the
two names never share a file; while a path is not tainted, one running task uses it,
its hash was given, the .part name is on the file it has open, and as long as
every chunk was right, that file holds what was written so far.  `Finish` then
renames a whole file.  A restart ends the tasks and leaves all this to the
files.

*Composition.*  A step of the API is a step of one service and leaves the
variables of the others alone, so each inductive invariant, stated about its
instance (`Limiter!...`, `Panel!...`), is one of the composition; likewise the
stages of a text.  The properties proved are the ones the runs check.

*Docling converter.*  `ConverterInv`: whoever is past the lock holds it, whoever
builds without OCR found no converter there, the converters without OCR are the
one that is kept, and a converter with OCR is newer than every number another
thread holds.

*Lines.*  A ledger says where each line read so far is: in an element, in the open
block, or left out on purpose.  The walk does three things to it (it closes or
forgets the block, and a new line extends the block, is left out or is a
heading), each a lemma, and every action of `MarkdownLines` is one or two of them.

*Windows.*  `WindowInv`: the next start is beyond the last window's start and no
further before its end than the overlap, so that no text falls between two windows and
the loop moves on; every character before it that is not a space is in a window.  It
needs of `End` only that a window drawn back to a sentence still ends behind its
start and not behind the limit, which holds for every size.

*Chunks.*  `SectionInv`: the buffer and every chunk hold characters of elements
read so far, in order and all after one heading element (`Between`, `OneSection`),
under that heading or one that an element behind it carries (`NamesIn`); tables, and
of every text the first `Room` characters, are in a chunk or in the front of the
buffer that its flush will keep (`AllHeld`).  A flush cuts the buffer at the chunk
size, and the overlap carried over is a suffix of it, so an element begins at most
that and one blank behind the buffer's start: what is lost is the end of an element,
never a beginning that fits there.  That nothing at all is lost, and that the
heading is always the section's, is not what the code does (section 6).  `DedupInv`:
chunks are compared in their order, those that wait come after those kept, and every
other one is kept or close to a kept one.

*Passages.*  `QueryInv` says what each sub-query brings on its own (`Brings`:
sorted, without duplicates, nothing the scanner blocked, the best found).  The
merge has passed the results before `place`: for every one of them one that begins
alike is in `seen`, and each in `seen` is of the first sub-query that found such a
one (`MergeInv`, `FirstOfItsKey`); sorting keeps this (`SoundMerge`).  Nothing is
assumed of `PrefixOf`, so the theorem holds of a key that tells all texts apart as
well as of the code's.

Assumptions used, each named in the module that declares the constants and
evaluated by TLC in every run:

* `Ingestion`: chunk counts are natural numbers, no content is the value for "no
  file", real and virtual paths differ, at least one request may arrive.
* `ReActLoop`: every call belongs to a tool, the limits are positive.
* `AgentRoutes`: every call belongs to a tool, rounds and iterations have a positive
  cap, hops a natural one, retries and attempts of a request are any integers.
* `Conversation`: the window, the summary block and the number of messages between
  two extractions are positive.
* `KnowledgeGraph`: labels are ordered numbers, "concept" is a type, confidences
  are numbers.
* `ApiServices`: rates are natural numbers and a minute has a tick; every key of
  the downloads has a path, a file a chunk, and the value for "no file" is no
  task; the values for "no schemas" and "empty" are no schemas.
* `TextPipeline`: the value for "nobody" is no thread; window and chunk sizes are
  numbers, a window is not empty; the overlap of chunk_document is at least 1 and at
  most two less than the chunk size (0 carries the whole buffer over, section 6;
  a larger one leaves no room for an element beside it); the retrieval constants are natural numbers.

Only model-checked: what holds under fairness (`RequestsFinish`, `DocumentsSettle`,
`RunsEnd`, `TurnsEnd`, `ServicesSettle`, `TextArrives`), because TLAPS does not
reason about ENABLED here; and the two expected violations, which are
counterexamples.  Where the code loops over a list inside one await (the
deduplication, the merge of passages) the model takes one element a step, so that an
inductive invariant takes the place of an induction over data, which the
installed provers lack.  What no module models is listed in section 7.

## 6. Where code and documentation disagree

Checked by a run that expects the violation:

* **Refresh of an unchanged file empties it** (`RefreshReingests`).
  refresh_document retires the version and then calls ingest_file, which finds
  the same row ready with the same hash and skips it.
* **The window is the oldest messages** (`WindowIsRecent`).  get_messages orders
  ascending and then limits.

Seen while modelling; each can be reproduced by adding the named definition to
the configuration given:

* `Ingestion!HashNamesRows` (IngestionRaces.cfg): a recorded hash may be of another
  content, although dispatcher.py:114 calls it the "SHA-256 hex digest of file
  contents".  It is taken when a request begins and the file is parsed awaits later;
  an overlapping upload of the name writes it in between, without a lock.
* `Ingestion!IdempotentOnHash` (IngestionRaces.cfg): two overlapping uploads each look the
  path up before the other has created its row, so a file is stored twice, against
  documents.py:139, "Idempotent on hash match".
* `Ingestion!DeletedLeavesNothing` (IngestionRaces.cfg): an ingestion stores vectors
  between the deletion of the vectors and that of the row; they stay although
  documents.py:28 says "delete document (Weaviate + SQLite)".
* `KnowledgeGraph!MergeLosesNoEdge` (KnowledgeGraphJobs.cfg): an overlapping extraction
  adds an edge to the dropped node behind the two updates, which its deletion takes
  along, against graph.py:148, "re-pointing all edges".
* `KnowledgeGraph!LabelsUnique` and `HighestKept` (KnowledgeGraphJobs.cfg): two extractions
  look a label up before either writes, so that it has two rows or a confidence
  falls, against graph.py:80, "if label already exists", and graph.py:85, "keep highest
  confidence".
* `TextPipeline!TextIsSplit` (TextPipeline.cfg): chunker.py:83 says that long chunks
  "are split"; the end of an element that is longer than a chunk, or than what the
  carried overlap leaves of one, is cut off and in no chunk.
* `TextPipeline!UnderSectionHeading` (TextPipeline.cfg): chunker.py:82 says that elements
  are grouped "under their section heading"; a heading that an element carries is kept for
  those behind it that carry none, as the prose behind a LaTeX abstract
  (latex_parser.py:125-130).
* `TextPipeline!EveryTextPassedOn` (TextPipeline.cfg): retriever.py:52 says "deduplicate by
  content hash"; the key is the first 120 characters, so that of passages that begin alike
  one is passed on.
* `ReActLoop!ThirdIdenticalBlocked` (ReActGuard.cfg): guardrails.py:45 says "3rd+ is
  blocked"; a memoized call is not counted (guardrails.py:98), so the count
  stays at one.
* `ReActLoop!ResponseIsOfThisRun` (ReActGuard.cfg): a run without text of its own
  searches the history too (react_graph.py:210 against routes/agent.py:260).
* `ReActLoop!IdenticalRunsOnce` (ReActGuard.cfg): two identical calls in one batch
  both run, because both are checked before either is recorded.
* `ReActLoop!MaxRoundsForcesAnswer` (ReActGuard.cfg): at the limit the loop ends
  with the message that asked for tools; no final answer is requested.
* `AgentRoutes!ScoreIsOfOutput` (AgentRoutes.cfg): without convergence final_output
  stays the first attempt while final_score is that of the last.
* `Conversation!OneSummary` (ConversationTurns.cfg): two background tasks can leave
  two summaries.
* `KnowledgeGraph!NoSelfLoops` (KnowledgeGraphJobs.cfg): merging two nodes joined by
  an edge makes a self-loop, which graph.py:179 refuses elsewhere.
* `Ingestion!OldChunksReplaced` and `IngestedIsSearchable` with Versioning = TRUE
  (IngestionSequential.cfg): retired documents keep their row and the lookup
  returns the oldest one, so after two changes the middle version stays
  searchable, and a file changed back is skipped although its chunks are gone.
* `ModelDownload!OneWriter` (ApiServices.cfg, as `Download!OneWriter`): two downloads
  of one file write one .part, since a pending one is not refused and two keys may
  share a path.  The hash is over the chunks as they came, not over the file, so
  a mixture may be published.
* `DeepOrchestrator!StoredOnce` (ApiServices.cfg, as `Deep!StoredOnce`): overlapping
  resumes of one thread run an approved call twice.
* A document whose chunks a retirement takes while its own ingestion still adds them
  is marked ready with some of its rows, and a text whose embedding fails stays in
  processing: `ReadyRowsComplete` and `DocumentsSettle` except them.
* The tool graph discards the corrections of its reflector, because the
  selector plans again over them (tool_graph.py:263-305 against its prompt,
  "Previous failures and corrections"), and an exception in a late round
  returns no results although tools ran (tool_graph.py:187-195).
* The iteration graph goes on although the evaluator said already_good: the key
  is not in IterationState.  A failing generator is still evaluated.
* The second hop of the RAG pipeline replaces the passages of the first, and is
  taken even when it adds no query.
* A stream that fails leaves an odd number of messages, after which the count
  is never a multiple of an even summary threshold at the end of a turn.
* The title generated in the first turn overwrites a rename made meanwhile.
* An overlapping knowledge graph job can re-point edges to a node that another
  merge has dropped, which SQLite refuses and fails the pass; and the mirror may be
  rebuilt last from the older of two readings.
* A background task that a crash or a hung-up client takes away after "done" is not
  repeated: its summary and its facts are missing.
* A reset of a chat session looks it up, awaits llama.cpp and then acts on it
  although it may be deleted by then.

* Services.  With a limit of one request per minute the first request is refused
  (the bucket is made after the clock was read, ratelimit.py:127), and requests
  are counted before they are authenticated.  A close() that raises skips the
  rest of the shutdown; a store whose connect() failed and a FalkorDB whose first
  sync failed stay open and are in no field.  app.py gives the MCP client its
  URL without the trailing slash client.py:46 asks for.  WeaviateIngestArgs drops the metadata of
  qdrant_ingest.  Sessions of the chat panel all have slot 0, and append_message
  has no caller.  Streamed completions are not scanned, and a stream that ends
  without [DONE] ends silently for the client too.
* Texts.  An overlap of 0 carries the whole buffer over (chunker.py:169), and
  token_aware_chunk does not end with an overlap (it has no
  caller).  .py, .c, .js and .html have a text/* MIME type and are parsed as plain text
  before the parser for code or Docling is asked.  A Markdown paragraph takes in a fence, so that
  the closing fence opens a block; LaTeX text between environments can be lost.
* Retrieval.  _run_graph asks the graph retriever for a method it has not: a graph
  sub-query never finds anything.  A passage found twice keeps the score of the
  sub-query that comes first, not the better one.
* Deleting a node by hand (routes/knowledge.py:180) does not rebuild the mirror.

## 7. What is not modelled, and why

Text: prompts, parsing of model answers, contents, citations and scores
are reduced to what the control flow asks of them; what the scanner's patterns
match and how it redacts is any verdict.  Read-only routes and the graph
retriever.  LLM providers and external services, which return anything or fail.
The walks over LaTeX, syntax trees, sheets and Docling items, which map one
element to one; pymupdf_parser.py, weaviate_store.py and token_aware_chunk, which
nothing calls.  The loader, which only resolves a name to a file.  Skills,
export, health, configuration, the web client and the scripts: no state another
component sees.  Migration and pragmas of SQLite, and locking below one
statement.  An upload is a write of the file (`Edit`) followed by an
ingestion; a file is one of its contents at any time, so that a parser never sees
half of a stream of bytes.  A .part file is identified with its final path: with_suffix
(downloader.py:95) would give one to two final names that differ in their suffix only,
which models, all of them .gguf, do not have.  Components of the inventory that no module
models are listed with their reason in PROJECT.json.

## 8. Plan

Done: all models of section 2, and proofs of every safety property their runs
check, with the refinements of `DocumentLifecycle` and `BoundedRun`.

Left, in this order:

1. Abstract specifications of `Conversation` (per turn a question and a reply,
   appended in that order to a log that a deletion empties for good) and of
   `ModelDownload` (an atomic register per path), and the proofs that the models
   implement them.
2. The chat route's requests composed with `PassageRetrieval` in place of
   arbitrary passages.
3. Shorter proofs: the row invariant of ingestion and the graph's are proved
   action by action where a few kinds of step would do, as in `WholeInv`.

## 9. How to run

    tlc -config IngestionRaces.cfg MCIngestion
    tlapm IngestionProofs.tla

PROJECT.json lists every run with its module and configuration, the source
lines behind every definition, the mutants, the hazards and the theorems.
