------------------------------- MODULE Lifespan -------------------------------
(***************************************************************************)
(* Start-up and shutdown (lifespan in backend/api/app.py).  The database,  *)
(* the model provider and the skills are obligatory: an exception there    *)
(* ends the start-up and nothing is closed.  Retrieval, knowledge graph,   *)
(* tool server and deep agent each sit in a try block that leaves behind   *)
(* what it had set when it failed.                                         *)
(***************************************************************************)
EXTENDS Integers, Sequences

CONSTANT Configurable  \* parts that may be disabled, the others are enabled

VARIABLES phase,     \* what lifespan does next
          settings,  \* the optional parts that are enabled
          fields,    \* app.state fields that are not None
          open,      \* what holds a connection, a file or a child process
          injected,  \* services configure() gave to the MCP tools
          wired,     \* the pipeline has the graph retriever
          closing    \* what shutdown still has to close

vars == <<phase, settings, fields, open, injected, wired, closing>>

Optional == {"web", "retrieval", "memory", "graph", "falkor", "skills"}
Resource == {"db", "llm", "web", "store", "falkor"}
Always   == {"db", "model_registry", "llm", "chat_ollama", "scanner"}

\* The fields in the order in which the two guarded blocks set them.
RetrievalFields == <<"embedder", "vector_store", "weaviate", "retrieval", "ingestion", "agent_pipeline">>
GraphFields     == <<"kg_repo", "kg_extractor", "kg_refiner", "kg_retriever">>

Firsts(s, n) == {s[i] : i \in 1..n}
FieldOf == [r \in Resource |-> CASE r = "store"  -> "vector_store"
                                 [] r = "web"    -> "web_client"
                                 [] r = "falkor" -> "kg_falkor"
                                 [] OTHER        -> r]

TypeOK ==
    /\ phase \in {"database", "provider", "retrieval", "memory", "graph", "skills", "mcp",
                  "deep", "ready", "serving", "closing", "stopped", "failed"}
    /\ settings \subseteq Optional /\ open \subseteq Resource /\ injected \subseteq Resource \cup {"embedder"}
    /\ wired \in BOOLEAN

Init == /\ phase = "database" /\ settings \in {Optional \ off : off \in SUBSET Configurable}
        /\ fields = {} /\ open = {} /\ injected = {} /\ wired = FALSE /\ closing = {}

Step(from, to) == phase = from /\ phase' = to /\ UNCHANGED <<settings, closing>>
Sets(fs, rs)   == fields' = fields \cup fs /\ open' = open \cup rs

\* Database.connect: the file may be open when a pragma or the schema fails.
ConnectDatabase ==
    /\ \/ Step("database", "provider") /\ Sets({"db"}, {"db"})
       \/ \E rs \in SUBSET {"db"} : Step("database", "failed") /\ Sets({}, rs)
    /\ UNCHANGED <<injected, wired>>

\* Registry, provider, ChatOllama, scanner, web client.  A provider that cannot
\* be reached is only logged, an unknown one raises.
CreateProvider ==
    /\ \/ /\ Step("provider", "retrieval")
          /\ Sets(Always \cup IF "web" \in settings THEN {"web_client"} ELSE {},
                  {"llm"} \cup ({"web"} \cap settings))
       \/ \E rs \in SUBSET {"llm"} : Step("provider", "failed") /\ Sets({}, rs)
    /\ UNCHANGED <<injected, wired>>

\* Mutant: the fields are set before the store is connected.
BeforeConnect(n) == n >= 3

\* The store is connected after the embedder and before its first field.
AfterConnect(n) == n >= 2

\* The block ends after n fields.  A store whose connect() failed keeps its
\* client and has no field.
InitRetrieval ==
    /\ Step("retrieval", "memory")
    /\ \/ "retrieval" \notin settings /\ Sets({}, {})
       \/ /\ "retrieval" \in settings
          /\ \E n \in 0..Len(RetrievalFields) :
                \/ Sets(Firsts(RetrievalFields, n), IF AfterConnect(n) THEN {"store"} ELSE {})
                \/ n = 1 /\ Sets(Firsts(RetrievalFields, n), {"store"})
    /\ UNCHANGED <<injected, wired>>

InitMemory ==
    /\ Step("memory", "graph")
    /\ Sets({"memory"} \cap settings, {})
    /\ UNCHANGED <<injected, wired>>

\* FalkorDB is disabled, not installed, fails, fails in its first sync (running
\* and in no field), or is there; the block ends after n of its other fields.
InitGraph ==
    /\ Step("graph", "skills")
    /\ \/ "graph" \notin settings /\ Sets({}, {}) /\ UNCHANGED wired
       \/ /\ "graph" \in settings
          /\ \/ Sets({}, {}) /\ UNCHANGED wired
             \/ \E rs \in SUBSET ({"falkor"} \cap settings) :
                   Sets({"kg_repo"}, rs) /\ UNCHANGED wired
             \/ \E n \in 1..Len(GraphFields), there \in BOOLEAN :
                   /\ there => "falkor" \in settings
                   /\ Sets(Firsts(GraphFields, n) \cup IF there THEN {"kg_falkor"} ELSE {},
                           IF there THEN {"falkor"} ELSE {})
                   /\ wired' = (n = Len(GraphFields) /\ "agent_pipeline" \in fields)
    /\ UNCHANGED injected

\* A skill that cannot be loaded is left out; a directory that cannot be
\* listed raises.
LoadSkills ==
    /\ \/ Step("skills", "mcp") /\ Sets({"skills"} \cap settings, {})
       \/ "skills" \in settings /\ Step("skills", "failed") /\ Sets({}, {})
    /\ UNCHANGED <<injected, wired>>

\* configure() takes the fields as they are; without it there is no tool server.
ConfigureMcp ==
    /\ Step("mcp", "deep") /\ Sets({}, {})
    /\ injected' \in {{}, {r \in Resource \ {"db"} : FieldOf[r] \in fields}
                          \cup (fields \cap {"embedder"})}
    /\ UNCHANGED wired

CreateDeepAgent ==
    /\ Step("deep", "ready")
    /\ \E made \in SUBSET {"deep_orchestrator"} : Sets(made, {})
    /\ UNCHANGED <<injected, wired>>

\* The session manager of the tool server is entered first; that may fail.
Serve ==
    /\ Step("ready", "serving") \/ Step("ready", "failed")
    /\ UNCHANGED <<fields, open, injected, wired>>

\* Mutant: the database is closed with the first, before what still uses it.
DatabaseFirst == <<"store", "db", "web", "falkor", "llm">>

CloseOrder == <<"store", "web", "falkor", "llm", "db">>

Tracked == {r \in Resource : FieldOf[r] \in fields}

Shutdown ==
    /\ phase = "serving" /\ phase' = "closing"
    /\ closing' = Tracked
    /\ UNCHANGED <<settings, fields, open, injected, wired>>

\* One close() after the other; one that raises ends the shutdown.
Close ==
    /\ phase = "closing"
    /\ \E i \in 1..Len(CloseOrder) :
          /\ CloseOrder[i] \in closing
          /\ \A j \in 1..(i - 1) : CloseOrder[j] \notin closing
          /\ \/ /\ open' = open \ {CloseOrder[i]} /\ closing' = closing \ {CloseOrder[i]}
                /\ phase' = IF closing' = {} THEN "stopped" ELSE phase
             \/ phase' = "failed" /\ UNCHANGED <<open, closing>>
    /\ UNCHANGED <<settings, fields, injected, wired>>

Next == \/ ConnectDatabase \/ CreateProvider \/ InitRetrieval \/ InitMemory \/ InitGraph
        \/ LoadSkills \/ ConfigureMcp \/ CreateDeepAgent \/ Serve \/ Shutdown \/ Close

Spec == Init /\ [][Next]_vars
-----------------------------------------------------------------------------
\* Which of its resources a service needs for as long as it is served.
Backing == [f \in {"memory"} \cup Firsts(RetrievalFields, 6) \cup Firsts(GraphFields, 4) |->
    CASE f = "embedder"                   -> {}
      [] f \in {"vector_store", "weaviate", "retrieval"} -> {"store"}
      [] f = "ingestion"                  -> {"db", "store"}
      [] f = "agent_pipeline"             -> {"llm", "store"}
      [] f \in {"kg_repo", "kg_retriever"} -> {"db"}
      [] OTHER                            -> {"db", "llm"}]

\* Whatever part of the start-up failed, no request meets a service whose store,
\* database or provider is not open, the tools and the pipeline have the very
\* services of the fields; and the database outlives everything that writes to
\* it: once it is closed, so is whatever the shutdown knows of.
ServicesBacked ==
    /\ phase = "serving" =>
          /\ Tracked \subseteq open /\ {"db", "llm"} \subseteq open
          /\ \A f \in fields \cap DOMAIN Backing : Backing[f] \subseteq open
          /\ injected \cap Resource \subseteq open /\ ("store" \in injected => "embedder" \in injected)
          /\ wired => {"agent_pipeline", "kg_retriever"} \subseteq fields
    /\ phase \in {"closing", "stopped"} /\ "db" \notin open => open \cap Tracked = {}
    /\ phase = "stopped" => "db" \notin open
=============================================================================
