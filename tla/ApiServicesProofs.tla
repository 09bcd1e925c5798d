--------------------------- MODULE ApiServicesProofs ---------------------------
(***************************************************************************)
(* What the services of the API keep, for every number of clients,         *)
(* sessions, callers and threads, and whatever else the API serves.  Each  *)
(* service has an inductive invariant, stated about its instance           *)
(* (Limiter!..., Deep!...); a step of the API is a step of one service and *)
(* leaves the variables of the others alone.                               *)
(***************************************************************************)
EXTENDS ApiServices, WellFoundedInduction, TLAPS

DownloadFacts == INSTANCE ModelDownloadProofs

\* A step of the API is a step of a service or leaves its variables alone.
LEMMA OneServiceMoves ==
    ASSUME [Next]_vars
    PROVE  /\ Start!Next \/ UNCHANGED start
           /\ Limiter!Next \/ UNCHANGED limiter
           /\ Panel!Next \/ UNCHANGED panel
           /\ Download!Next \/ UNCHANGED downloads
           /\ Proxy!Next \/ UNCHANGED call
           /\ Tools!Next \/ UNCHANGED schemas
           /\ Deep!Next \/ UNCHANGED deep
  <1>1. CASE UNCHANGED vars
    BY <1>1 DEF vars
  <1>2. CASE Next
    BY <1>2 DEF Next, RunStart, RunLimiter, RunPanel, RunDownloads, RunProxy,
       RunSchemas, RunDeep
  <1> QED
    BY <1>1, <1>2
-----------------------------------------------------------------------------
(***************************************************************************)
(* Start-up and shutdown.  A field is set when what it stands for is open, *)
(* and the shutdown closes the database when nothing else is left.         *)
(***************************************************************************)
\* The fields of services that work on the vector store.
OnStore == {"vector_store", "weaviate", "retrieval", "ingestion", "agent_pipeline"}

\* What holds as soon as a step of the start-up has set a field: what the field
\* stands for is open, and with the store there is an embedder.
Standing ==
    /\ fields \cap OnStore # {} => "store" \in resources
    /\ "vector_store" \in fields => "embedder" \in fields
    /\ "web_client" \in fields => "web" \in resources
    /\ "kg_falkor" \in fields => "falkor" \in resources
    /\ "db" \in fields => "db" \in resources
    /\ "llm" \in fields => "llm" \in resources

\* The tools and the pipeline have what the fields have.
HandedOut ==
    /\ injected \cap Start!Resource \subseteq Start!Tracked
    /\ "store" \in injected => "embedder" \in injected
    /\ wired => {"agent_pipeline", "kg_retriever"} \subseteq fields

Ended == {"closing", "stopped", "failed"}

LifeInv ==
    /\ closing \subseteq Start!Resource
    /\ phase \notin Ended =>
          /\ Standing /\ HandedOut
          /\ phase # "database" => "db" \in fields
          /\ phase \notin {"database", "provider"} => "llm" \in fields
    /\ phase = "closing" =>
          /\ "db" \in closing \cap resources \cap Start!Tracked
          /\ Start!Tracked \cap resources \subseteq closing
    /\ phase = "stopped" => "db" \in Start!Tracked /\ Start!Tracked \cap resources = {}

\* What has a connection, by its field.
LEMMA TrackedIs ==
    /\ "db" \in Start!Tracked <=> "db" \in fields
    /\ "llm" \in Start!Tracked <=> "llm" \in fields
    /\ "web" \in Start!Tracked <=> "web_client" \in fields
    /\ "store" \in Start!Tracked <=> "vector_store" \in fields
    /\ "falkor" \in Start!Tracked <=> "kg_falkor" \in fields
    /\ Start!Tracked \subseteq Start!Resource
  BY DEF Start!Tracked, Start!FieldOf, Start!Resource

\* The fields of the retrieval block, in their order.
LEMMA RetrievalFirsts ==
    ASSUME NEW n \in 0..Len(Start!RetrievalFields)
    PROVE  /\ Start!Firsts(Start!RetrievalFields, n) \subseteq OnStore \cup {"embedder"}
           /\ n <= 1 => Start!Firsts(Start!RetrievalFields, n) \cap OnStore = {}
           /\ n >= 1 => "embedder" \in Start!Firsts(Start!RetrievalFields, n)
           /\ n = 0 => Start!Firsts(Start!RetrievalFields, n) = {}
  BY DEF Start!Firsts, Start!RetrievalFields, OnStore

\* The fields of the graph block, in their order.
LEMMA GraphFirsts ==
    ASSUME NEW n \in 1..Len(Start!GraphFields)
    PROVE  /\ Start!Firsts(Start!GraphFields, n)
                 \subseteq {"kg_repo", "kg_extractor", "kg_refiner", "kg_retriever"}
           /\ n = Len(Start!GraphFields) => "kg_retriever" \in Start!Firsts(Start!GraphFields, n)
  BY DEF Start!Firsts, Start!GraphFields

\* Only the services on the store need more than database and provider.
LEMMA BackingIs ==
    ASSUME NEW f \in DOMAIN Start!Backing
    PROVE  /\ Start!Backing[f] \subseteq {"db", "llm", "store"}
           /\ "store" \in Start!Backing[f] => f \in OnStore
  <1>1. f \in OnStore \cup {"memory", "embedder", "kg_repo", "kg_extractor", "kg_refiner",
                           "kg_retriever"}
    BY DEF Start!Backing, Start!Firsts, Start!RetrievalFields, Start!GraphFields, OnStore
  <1> QED
    BY <1>1 DEF Start!Backing, OnStore

\* A step of the start-up that sets fields with what they stand for, and none that
\* needs the store without it.
LEMMA SetsKeeps ==
    ASSUME Standing, HandedOut, NEW fs, NEW rs, Start!Sets(fs, rs), UNCHANGED <<injected, wired>>,
           fs \cap OnStore # {} => "store" \in rs,
           "vector_store" \in fs => "embedder" \in fs,
           "web_client" \in fs => "web" \in rs,
           "kg_falkor" \in fs => "falkor" \in rs,
           "db" \in fs => "db" \in rs \cup resources,
           "llm" \in fs => "llm" \in rs \cup resources
    PROVE  Standing' /\ HandedOut'
  <1>1. Standing'
    BY DEF Standing, Start!Sets
  <1>2. Start!Tracked \subseteq Start!Tracked'
    BY DEF Start!Tracked, Start!Sets
  <1>3. HandedOut'
    BY <1>2 DEF HandedOut, Start!Sets
  <1> QED
    BY <1>1, <1>3

\* Nothing stands before the database does.
LEMMA LifeInvInit == Start!Init => LifeInv
  BY DEF Start!Init, LifeInv, Standing, HandedOut, Ended, Start!Tracked

LEMMA ConnectKeeps == ASSUME LifeInv, Start!ConnectDatabase PROVE LifeInv'
  <1>1. CASE Start!Step("database", "provider") /\ Start!Sets({"db"}, {"db"})
    <2>1. Standing' /\ HandedOut'
      BY <1>1, SetsKeeps DEF LifeInv, Start!Step, Ended, Start!ConnectDatabase, OnStore
    <2> QED
      BY <1>1, <2>1 DEF LifeInv, Start!Step, Start!Sets, Ended
  <1>2. CASE \E rs \in SUBSET {"db"} : Start!Step("database", "failed") /\ Start!Sets({}, rs)
    BY <1>2 DEF LifeInv, Start!Step, Ended
  <1> QED
    BY <1>1, <1>2 DEF Start!ConnectDatabase

LEMMA ProviderKeeps == ASSUME LifeInv, Start!CreateProvider PROVE LifeInv'
  <1> DEFINE fs == Start!Always \cup IF "web" \in settings THEN {"web_client"} ELSE {}
             rs == {"llm"} \cup ({"web"} \cap settings)
  <1>1. CASE Start!Step("provider", "retrieval") /\ Start!Sets(fs, rs)
    <2>1. Standing /\ HandedOut /\ "db" \in fields /\ "db" \in resources
      BY <1>1 DEF LifeInv, Start!Step, Ended, Standing
    <2>2. Standing' /\ HandedOut'
      BY <1>1, <2>1, SetsKeeps DEF Start!CreateProvider, Start!Always, OnStore
    <2> QED
      BY <1>1, <2>1, <2>2 DEF LifeInv, Start!Step, Start!Sets, Ended, Start!Always
  <1>2. CASE \E rs0 \in SUBSET {"llm"} : Start!Step("provider", "failed") /\ Start!Sets({}, rs0)
    BY <1>2 DEF LifeInv, Start!Step, Ended
  <1> QED
    BY <1>1, <1>2 DEF Start!CreateProvider

\* The phases between the provider and the end of the start-up.
Middle == {"retrieval", "memory", "graph", "skills", "mcp", "deep", "ready", "serving"}

\* A step between them that keeps what stands and what was handed out.
LEMMA MiddleKeeps ==
    ASSUME LifeInv, NEW from \in Middle, NEW to \in Middle, Start!Step(from, to),
           NEW fs, NEW rs, Start!Sets(fs, rs), Standing /\ HandedOut => Standing' /\ HandedOut'
    PROVE  LifeInv'
  <1>1. phase = from /\ phase' = to /\ closing' = closing
    BY DEF Start!Step
  <1>2. Standing /\ HandedOut /\ "db" \in fields /\ "llm" \in fields
    BY <1>1 DEF LifeInv, Ended, Middle
  <1>3. "db" \in fields' /\ "llm" \in fields'
    BY <1>2 DEF Start!Sets
  <1> QED
    BY <1>1, <1>2, <1>3 DEF LifeInv, Ended, Middle

LEMMA RetrievalKeeps == ASSUME LifeInv, Start!InitRetrieval PROVE LifeInv'
  <1> DEFINE fs(n) == Start!Firsts(Start!RetrievalFields, n)
  <1>1. PICK n \in 0..Len(Start!RetrievalFields), rs \in SUBSET {"store"} :
           Start!Sets(fs(n), rs) /\ (fs(n) \cap OnStore # {} => "store" \in rs)
    <2>1. 0 \in 0..Len(Start!RetrievalFields) /\ 1 \in 0..Len(Start!RetrievalFields)
      BY DEF Start!RetrievalFields
    <2>2. CASE Start!Sets({}, {})
      BY <2>1, <2>2, RetrievalFirsts
    <2>3. ASSUME NEW n \in 0..Len(Start!RetrievalFields),
                 Start!Sets(fs(n), IF Start!AfterConnect(n) THEN {"store"} ELSE {})
          PROVE  \E rs \in SUBSET {"store"} :
                    Start!Sets(fs(n), rs) /\ (fs(n) \cap OnStore # {} => "store" \in rs)
      BY <2>3, RetrievalFirsts DEF Start!AfterConnect
    <2>4. CASE Start!Sets(fs(1), {"store"})
      BY <2>1, <2>4
    <2> QED
      BY <2>2, <2>3, <2>4 DEF Start!InitRetrieval
  <1>2. fs(n) \subseteq OnStore \cup {"embedder"}
        /\ (fs(n) \cap OnStore # {} => "embedder" \in fs(n))
    BY RetrievalFirsts
  <1>3. Standing /\ HandedOut => Standing' /\ HandedOut'
    BY <1>1, <1>2, SetsKeeps DEF Start!InitRetrieval, OnStore
  <1> QED
    BY <1>1, <1>3, MiddleKeeps DEF Start!InitRetrieval, Middle

LEMMA MemoryKeeps == ASSUME LifeInv, Start!InitMemory PROVE LifeInv'
  <1>1. Standing /\ HandedOut => Standing' /\ HandedOut'
    BY SetsKeeps DEF Start!InitMemory, OnStore
  <1> QED
    BY <1>1, MiddleKeeps DEF Start!InitMemory, Middle

LEMMA GraphKeeps == ASSUME LifeInv, Start!InitGraph PROVE LifeInv'
  <1>1. CASE \E fs, rs : /\ Start!Sets(fs, rs) /\ UNCHANGED <<injected, wired>>
                         /\ fs \subseteq {"kg_repo"}
    <2>1. PICK fs, rs : /\ Start!Sets(fs, rs) /\ UNCHANGED <<injected, wired>>
                        /\ fs \subseteq {"kg_repo"}
      BY <1>1
    <2>2. Standing /\ HandedOut => Standing' /\ HandedOut'
      BY <2>1, SetsKeeps DEF OnStore
    <2> QED
      BY <2>1, <2>2, MiddleKeeps DEF Start!InitGraph, Middle
  <1>2. CASE \E n \in 1..Len(Start!GraphFields), there \in BOOLEAN :
                /\ Start!Sets(Start!Firsts(Start!GraphFields, n)
                                 \cup IF there THEN {"kg_falkor"} ELSE {},
                              IF there THEN {"falkor"} ELSE {})
                /\ wired' = (n = Len(Start!GraphFields) /\ "agent_pipeline" \in fields)
    <2>1. PICK n \in 1..Len(Start!GraphFields), there \in BOOLEAN :
                /\ Start!Sets(Start!Firsts(Start!GraphFields, n)
                                 \cup IF there THEN {"kg_falkor"} ELSE {},
                              IF there THEN {"falkor"} ELSE {})
                /\ wired' = (n = Len(Start!GraphFields) /\ "agent_pipeline" \in fields)
      BY <1>2
    <2> DEFINE fs == Start!Firsts(Start!GraphFields, n) \cup IF there THEN {"kg_falkor"} ELSE {}
               rs == IF there THEN {"falkor"} ELSE {}
    <2>2. /\ fs \subseteq {"kg_repo", "kg_extractor", "kg_refiner", "kg_retriever", "kg_falkor"}
          /\ "kg_falkor" \in fs => "falkor" \in rs
          /\ n = Len(Start!GraphFields) => "kg_retriever" \in fs
      BY GraphFirsts
    <2>3. Start!Sets(fs, rs) /\ injected' = injected
      BY <2>1 DEF Start!InitGraph
    <2> HIDE DEF fs, rs
    <2>4. ASSUME Standing, HandedOut PROVE Standing' /\ HandedOut'
      <3>1. Standing'
        BY <2>2, <2>3, <2>4 DEF Standing, Start!Sets, OnStore
      <3>2. Start!Tracked \subseteq Start!Tracked'
        BY <2>3 DEF Start!Tracked, Start!Sets
      <3>3. wired' => {"agent_pipeline", "kg_retriever"} \subseteq fields'
        BY <2>1, <2>2, <2>3 DEF Start!Sets
      <3> QED
        BY <3>1, <3>2, <3>3, <2>3, <2>4 DEF HandedOut
    <2> QED
      BY <2>3, <2>4, MiddleKeeps DEF Start!InitGraph, Middle
  <1>3. CASE \/ Start!Sets({}, {}) /\ UNCHANGED wired
             \/ \E rs \in SUBSET ({"falkor"} \cap settings) :
                   Start!Sets({"kg_repo"}, rs) /\ UNCHANGED wired
    <2>1. injected' = injected
      BY DEF Start!InitGraph
    <2> QED
      BY <1>1, <1>3, <2>1
  <1> QED
    BY <1>2, <1>3 DEF Start!InitGraph

LEMMA SkillsKeeps == ASSUME LifeInv, Start!LoadSkills PROVE LifeInv'
  <1>1. CASE Start!Step("skills", "mcp") /\ Start!Sets({"skills"} \cap settings, {})
    <2>1. Standing /\ HandedOut => Standing' /\ HandedOut'
      BY <1>1, SetsKeeps DEF Start!LoadSkills, OnStore
    <2> QED
      BY <1>1, <2>1, MiddleKeeps DEF Middle
  <1>2. CASE Start!Step("skills", "failed")
    BY <1>2 DEF LifeInv, Start!Step, Ended
  <1> QED
    BY <1>1, <1>2 DEF Start!LoadSkills

LEMMA ConfigureKeeps == ASSUME LifeInv, Start!ConfigureMcp PROVE LifeInv'
  <1>1. fields' = fields /\ resources' = resources /\ wired' = wired
    BY DEF Start!ConfigureMcp, Start!Sets
  <1>2. CASE injected' = {}
    <2>1. Standing /\ HandedOut => Standing' /\ HandedOut'
      BY <1>1, <1>2 DEF Standing, HandedOut
    <2> QED
      BY <2>1, MiddleKeeps DEF Start!ConfigureMcp, Middle
  <1>3. CASE injected' = {r \in Start!Resource \ {"db"} : Start!FieldOf[r] \in fields}
                           \cup (fields \cap {"embedder"})
    <2>1. Start!Tracked' = Start!Tracked
      BY <1>1 DEF Start!Tracked
    <2>2. injected' \cap Start!Resource \subseteq Start!Tracked'
      BY <1>3, <2>1 DEF Start!Tracked, Start!Resource
    <2>3. Standing => ("store" \in injected' => "embedder" \in injected')
      <3>1. "store" \in injected' => "store" \in Start!Tracked
        BY <2>1, <2>2 DEF Start!Resource
      <3> QED
        BY <1>3, <3>1, TrackedIs DEF Standing
    <2>4. Standing /\ HandedOut => Standing' /\ HandedOut'
      BY <1>1, <2>2, <2>3 DEF Standing, HandedOut
    <2> QED
      BY <2>4, MiddleKeeps DEF Start!ConfigureMcp, Middle
  <1> QED
    BY <1>2, <1>3 DEF Start!ConfigureMcp

LEMMA DeepAgentKeeps == ASSUME LifeInv, Start!CreateDeepAgent PROVE LifeInv'
  <1>1. PICK made \in SUBSET {"deep_orchestrator"} : Start!Sets(made, {})
    BY DEF Start!CreateDeepAgent
  <1>2. Standing /\ HandedOut => Standing' /\ HandedOut'
    BY <1>1, SetsKeeps DEF Start!CreateDeepAgent, OnStore
  <1> QED
    BY <1>1, <1>2, MiddleKeeps DEF Start!CreateDeepAgent, Middle

LEMMA ServeKeepsLife == ASSUME LifeInv, Start!Serve PROVE LifeInv'
  <1>1. fields' = fields /\ resources' = resources /\ injected' = injected /\ wired' = wired
    BY DEF Start!Serve
  <1>2. Standing' = Standing /\ HandedOut' = HandedOut
    BY <1>1 DEF Standing, HandedOut, Start!Tracked
  <1> QED
    BY <1>1, <1>2 DEF Start!Serve, Start!Step, LifeInv, Ended

LEMMA ShutdownKeeps == ASSUME LifeInv, Start!Shutdown PROVE LifeInv'
  <1>1. "db" \in fields /\ "db" \in resources
    BY DEF LifeInv, Start!Shutdown, Ended, Standing
  <1>2. Start!Tracked' = Start!Tracked
    BY DEF Start!Shutdown, Start!Tracked
  <1> QED
    BY <1>1, <1>2, TrackedIs DEF LifeInv, Start!Shutdown, Ended

\* The database is the last to be closed: as long as it is to be closed and
\* something else too, it is not its turn.
LEMMA CloseKeeps == ASSUME LifeInv, Start!Close PROVE LifeInv'
  <1>1. PICK i \in 1..Len(Start!CloseOrder) :
           /\ Start!CloseOrder[i] \in closing
           /\ \A j \in 1..(i - 1) : Start!CloseOrder[j] \notin closing
           /\ \/ /\ resources' = resources \ {Start!CloseOrder[i]}
                 /\ closing' = closing \ {Start!CloseOrder[i]}
                 /\ phase' = IF closing' = {} THEN "stopped" ELSE phase
              \/ phase' = "failed" /\ UNCHANGED <<resources, closing>>
    BY DEF Start!Close
  <1>2. phase = "closing" /\ fields' = fields
    BY DEF Start!Close
  <1>3. closing \subseteq Start!Resource /\ "db" \in closing \cap resources \cap Start!Tracked
        /\ Start!Tracked \cap resources \subseteq closing
    BY <1>2 DEF LifeInv
  <1>4. Start!Tracked' = Start!Tracked
    BY <1>2 DEF Start!Tracked
  <1>5. CASE phase' = "failed" /\ UNCHANGED <<resources, closing>>
    BY <1>5, <1>3 DEF LifeInv, Ended
  <1>6. CASE /\ resources' = resources \ {Start!CloseOrder[i]}
             /\ closing' = closing \ {Start!CloseOrder[i]}
             /\ phase' = IF closing' = {} THEN "stopped" ELSE phase
    <2>1. Start!CloseOrder[i] = "db" => closing' = {}
      <3>1. i \in 1..5 /\ \A r \in Start!Resource : \E j \in 1..5 : Start!CloseOrder[j] = r
        BY DEF Start!CloseOrder, Start!Resource
      <3>2. Start!CloseOrder[i] = "db" => i = 5
        BY <3>1 DEF Start!CloseOrder
      <3>3. i = 5 => closing \subseteq {Start!CloseOrder[i]}
        BY <3>1, <1>1, <1>3 DEF Start!CloseOrder, Start!Resource
      <3> QED
        BY <3>2, <3>3, <1>6
    <2>2. closing' \subseteq Start!Resource /\ Start!Tracked' \cap resources' \subseteq closing'
      BY <1>3, <1>4, <1>6
    <2>3. CASE closing' = {}
      BY <2>2, <2>3, <1>3, <1>4, <1>6 DEF LifeInv, Ended
    <2>4. CASE closing' # {}
      BY <2>1, <2>2, <2>4, <1>2, <1>3, <1>4, <1>6 DEF LifeInv, Ended
    <2> QED
      BY <2>3, <2>4
  <1> QED
    BY <1>1, <1>5, <1>6

\* A step of the life keeps it.
LEMMA LifeInvStep == ASSUME LifeInv, Start!Next \/ UNCHANGED start PROVE LifeInv'
  <1>1. CASE UNCHANGED start
    BY <1>1 DEF start, LifeInv, Standing, HandedOut, Start!Tracked
  <1> QED
    BY <1>1, ConnectKeeps, ProviderKeeps, RetrievalKeeps, MemoryKeeps, GraphKeeps, SkillsKeeps,
       ConfigureKeeps, DeepAgentKeeps, ServeKeepsLife, ShutdownKeeps, CloseKeeps DEF Start!Next

\* What stands and what was handed out is what a request needs.
LEMMA LifeInvBacked == ASSUME LifeInv PROVE Start!ServicesBacked
  <1>1. ASSUME phase = "serving"
        PROVE  /\ Start!Tracked \subseteq resources /\ {"db", "llm"} \subseteq resources
               /\ \A f \in fields \cap DOMAIN Start!Backing : Start!Backing[f] \subseteq resources
               /\ injected \cap Start!Resource \subseteq resources
               /\ "store" \in injected => "embedder" \in injected
               /\ wired => {"agent_pipeline", "kg_retriever"} \subseteq fields
    <2>1. Standing /\ HandedOut /\ "db" \in fields /\ "llm" \in fields
      BY <1>1 DEF LifeInv, Ended
    <2>2. {"db", "llm"} \subseteq resources
      BY <2>1 DEF Standing
    <2>3. Start!Tracked \subseteq resources
      BY <2>1, TrackedIs DEF Standing, OnStore, Start!Resource
    <2>4. ASSUME NEW f \in fields \cap DOMAIN Start!Backing
          PROVE  Start!Backing[f] \subseteq resources
      BY <2>1, <2>2, BackingIs DEF Standing
    <2> QED
      BY <2>1, <2>2, <2>3, <2>4 DEF HandedOut
  <1>2. phase = "closing" => "db" \in resources
    BY DEF LifeInv
  <1>3. phase = "stopped" => "db" \notin resources /\ resources \cap Start!Tracked = {}
    BY DEF LifeInv
  <1> QED
    BY <1>1, <1>2, <1>3 DEF Start!ServicesBacked

\* Whatever part of the start-up failed, no request meets a service whose store,
\* database or provider is not open, the tools and the pipeline were given what
\* the fields hold, and the database is closed last (lifespan).
THEOREM ApiServicesStayBacked == Spec => []ServicesBacked
  <1>1. Init => LifeInv
    BY LifeInvInit DEF Init
  <1>2. LifeInv /\ [Next]_vars => LifeInv'
    BY OneServiceMoves, LifeInvStep
  <1>3. LifeInv => ServicesBacked
    BY LifeInvBacked DEF ServicesBacked
  <1> QED
    BY <1>1, <1>2, <1>3, PTL DEF Spec
-----------------------------------------------------------------------------
(***************************************************************************)
(* The rate limiter.                                                       *)
(***************************************************************************)
\* A bucket holds at most a burst and was filled at the latest now.  What was let
\* through since somebody began to count, and what is left, has come from one
\* burst and the refills up to the last one; a bucket that was not used since
\* then has let nothing through, one that does not exist least of all.
Sound(l) ==
    /\ bucket[l].last <= now /\ bucket[l].tokens <= Limiter!Full(l[2])
    /\ bucket[l] = Limiter!NoBucket \/ bucket[l].tokens >= 0
    /\ bucket[l].last < since => admitted[l] = 0
    /\ bucket[l].last >= since =>
          admitted[l] * Ticks + bucket[l].tokens
              <= Limiter!Full(l[2]) + (bucket[l].last - since) * Rpm[l[2]]

SlotInv == Limiter!TypeOK /\ \A l \in Limiter!Slot : Sound(l)

\* Multiplication keeps the order.
LEMMA TimesMonotone ==
    \A a, b \in Int, r \in Nat : a <= b => a * r <= b * r
  OBVIOUS

\* Refills of two stretches of time are the refill of both.
LEMMA TimesDistributes ==
    \A a, b, r \in Int : (a + b) * r = a * r + b * r
  OBVIOUS

\* Rates and bursts are natural numbers.
LEMMA RateIsNat ==
    ASSUME Limiter!AdmissionAssumption, NEW l \in Limiter!Slot
    PROVE  Rpm[l[2]] \in Nat /\ Limiter!Full(l[2]) \in Nat /\ Ticks \in Nat \ {0} /\ l[2] \in Group
  <1>1. l[2] \in Group
    BY DEF Limiter!Slot
  <1>2. Rpm[l[2]] \in Nat /\ Ticks \in Nat \ {0}
    BY <1>1 DEF Limiter!AdmissionAssumption
  <1> QED
    BY <1>1, <1>2 DEF Limiter!Full

\* At start no bucket exists.
LEMMA SlotInvInit == ASSUME Limiter!AdmissionAssumption PROVE Limiter!Init => SlotInv
  <1> SUFFICES ASSUME Limiter!Init PROVE SlotInv
    OBVIOUS
  <1>1. Limiter!TypeOK
    BY DEF Limiter!Init, Limiter!TypeOK, Limiter!NoBucket
  <1>2. ASSUME NEW l \in Limiter!Slot PROVE Sound(l)
    BY <1>2, RateIsNat DEF Limiter!Init, Sound, Limiter!NoBucket
  <1> QED
    BY <1>1, <1>2 DEF SlotInv

\* What the refill of a bucket yields: a bucket of now, between empty and full,
\* and within the budget up to now.
LEMMA RefillSound ==
    ASSUME Limiter!AdmissionAssumption, SlotInv, NEW l \in Limiter!Slot, NEW made \in now..(now + 1)
    PROVE  LET b == Limiter!Refilled(l, Limiter!BucketOf(l, made)) IN
           /\ b = [tokens |-> b.tokens, last |-> now]
           /\ b.tokens \in Nat /\ b.tokens <= Limiter!Full(l[2])
           /\ admitted[l] * Ticks + b.tokens <= Limiter!Full(l[2]) + (now - since) * Rpm[l[2]]
  <1> DEFINE R == Rpm[l[2]]
             F == Limiter!Full(l[2])
             old == bucket[l]
             b == Limiter!Refilled(l, Limiter!BucketOf(l, made))
  <1>1. R \in Nat /\ F \in Nat /\ Ticks \in Nat \ {0} /\ F = R * Ticks
    BY RateIsNat DEF Limiter!Full
  <1>2. now \in Nat /\ since \in Nat /\ since <= now /\ admitted[l] \in Nat
        /\ old.tokens \in Int /\ old.last \in Int /\ made \in Int
    BY DEF SlotInv, Limiter!TypeOK
  <1>3. Sound(l)
    BY DEF SlotInv
  <1>4. 0 <= (now - since) * R
    BY <1>1, <1>2, TimesMonotone
  <1>5. CASE old = Limiter!NoBucket
    <2>1. b = [tokens |-> Limiter!Least(F, F + (now - made) * R), last |-> now]
      BY <1>5 DEF Limiter!Refilled, Limiter!BucketOf
    <2>2. admitted[l] = 0
      BY <1>2, <1>3, <1>5 DEF Sound, Limiter!NoBucket
    <2>3. (now - made) * R \in Int /\ 0 <= F + (now - made) * R
      <3>1. CASE made = now
        BY <3>1, <1>1, <1>2
      <3>2. CASE made = now + 1
        <4>1. (now - made) * R = 0 - R
          BY <3>2, <1>1, <1>2
        <4>2. 1 * R <= Ticks * R
          BY <1>1, TimesMonotone
        <4> QED
          BY <4>1, <4>2, <1>1
      <3> QED
        BY <3>1, <3>2, <1>2
    <2>4. b.tokens \in Nat /\ b.tokens <= F
      BY <2>1, <2>3, <1>1 DEF Limiter!Least
    <2>5. admitted[l] * Ticks = 0
      BY <2>2, <1>1
    <2> QED
      BY <2>1, <2>4, <2>5, <1>1, <1>2, <1>4
  <1>6. CASE old # Limiter!NoBucket
    <2> DEFINE gain == (now - old.last) * R
    <2>1. b = [tokens |-> Limiter!Least(F, old.tokens + gain), last |-> now]
      BY <1>6 DEF Limiter!Refilled, Limiter!BucketOf
    <2>2. old.tokens >= 0 /\ old.last <= now
      BY <1>3, <1>6 DEF Sound
    <2>3. gain \in Int /\ 0 <= gain
      BY <2>2, <1>1, <1>2, TimesMonotone
    <2> HIDE DEF gain
    <2>4. b.tokens \in Nat /\ b.tokens <= F /\ b.tokens <= old.tokens + gain
      BY <2>1, <2>2, <2>3, <1>1, <1>2 DEF Limiter!Least
    <2>5. CASE old.last < since
      <3>1. admitted[l] = 0
        BY <2>5, <1>3 DEF Sound
      <3>2. admitted[l] * Ticks = 0
        BY <3>1, <1>1
      <3> QED
        BY <3>2, <2>1, <2>4, <1>1, <1>2, <1>4
    <2>6. CASE old.last >= since
      <3> DEFINE x == admitted[l] * Ticks
                 y == (old.last - since) * R
                 z == (now - since) * R
      <3>1. x \in Int /\ y \in Int /\ z \in Int
        BY <1>1, <1>2
      <3>2. x + old.tokens <= F + y
        BY <2>6, <1>3 DEF Sound
      <3>3. y + gain = z
        <4>1. (old.last - since) + (now - old.last) = now - since
          BY <1>2
        <4> QED
          BY <4>1, <1>1, <1>2, TimesDistributes DEF gain
      <3> HIDE DEF x, y, z
      <3>4. x + b.tokens <= F + z
        BY <3>1, <3>2, <3>3, <2>3, <2>4, <1>1, <1>2
      <3> QED
        BY <3>4, <2>1, <2>4 DEF x, z
    <2> QED
      BY <2>5, <2>6, <1>2
  <1> QED
    BY <1>5, <1>6

\* A request at one bucket leaves the others alone.
LEMMA ServeKeeps ==
    ASSUME Limiter!AdmissionAssumption, SlotInv, NEW m \in Limiter!Slot, Limiter!Serve(m)
    PROVE  SlotInv'
  <1>1. PICK made \in now..(now + 1) : Limiter!Check(m, made) /\ UNCHANGED <<now, since>>
    BY DEF Limiter!Serve
  <1> DEFINE b == Limiter!Refilled(m, Limiter!BucketOf(m, made))
  <1>2. /\ b = [tokens |-> b.tokens, last |-> now]
        /\ b.tokens \in Nat /\ b.tokens <= Limiter!Full(m[2])
        /\ admitted[m] * Ticks + b.tokens <= Limiter!Full(m[2]) + (now - since) * Rpm[m[2]]
    BY RefillSound
  <1>3. now \in Nat /\ since \in Nat /\ since <= now /\ admitted \in [Limiter!Slot -> Nat]
        /\ bucket \in [Limiter!Slot -> [tokens : Int, last : Int]] /\ admitted[m] \in Nat
    BY DEF SlotInv, Limiter!TypeOK
  <1>4. Rpm[m[2]] \in Nat /\ Limiter!Full(m[2]) \in Nat /\ Ticks \in Nat \ {0}
    BY RateIsNat
  <1>5. CASE b.tokens >= Ticks
    <2>1. /\ bucket' = [bucket EXCEPT ![m] = [tokens |-> b.tokens - Ticks, last |-> now]]
          /\ admitted' = [admitted EXCEPT ![m] = admitted[m] + 1]
      <3>1. [b EXCEPT !.tokens = @ - Ticks] = [tokens |-> b.tokens - Ticks, last |-> now]
        BY <1>2
      <3> QED
        BY <1>1, <1>5, <3>1 DEF Limiter!Check
    <2>2. b.tokens - Ticks \in Nat /\ b.tokens - Ticks <= Limiter!Full(m[2])
      BY <1>2, <1>4, <1>5
    <2>3. Limiter!TypeOK'
      BY <1>1, <1>3, <2>1, <2>2 DEF Limiter!TypeOK
    <2>4. ASSUME NEW l \in Limiter!Slot PROVE Sound(l)'
      <3>1. CASE l = m
        <4>1. /\ bucket'[l] = [tokens |-> b.tokens - Ticks, last |-> now]
              /\ admitted'[l] = admitted[m] + 1
          BY <3>1, <2>1, <1>3
        <4>2. (admitted[m] + 1) * Ticks = admitted[m] * Ticks + Ticks
          BY <1>3, <1>4
        <4>3. admitted[m] * Ticks \in Int /\ (now - since) * Rpm[m[2]] \in Int
          BY <1>3, <1>4
        <4>4. (admitted[m] + 1) * Ticks + (b.tokens - Ticks)
                 <= Limiter!Full(m[2]) + (now - since) * Rpm[m[2]]
          BY <4>2, <4>3, <1>2, <1>4
        <4> QED
          BY <3>1, <4>1, <4>4, <2>2, <1>1, <1>3 DEF Sound, Limiter!Full
      <3>2. CASE l # m
        <4>1. bucket'[l] = bucket[l] /\ admitted'[l] = admitted[l]
          BY <3>2, <2>1, <1>3
        <4>2. Sound(l)
          BY DEF SlotInv
        <4> QED
          BY <4>1, <4>2, <1>1 DEF Sound, Limiter!Full
      <3> QED
        BY <3>1, <3>2
    <2> QED
      BY <2>3, <2>4 DEF SlotInv
  <1>6. CASE ~(b.tokens >= Ticks)
    <2>1. /\ bucket' = [bucket EXCEPT ![m] = [tokens |-> b.tokens, last |-> now]]
          /\ admitted' = admitted
      BY <1>1, <1>2, <1>6 DEF Limiter!Check
    <2>2. Limiter!TypeOK'
      BY <1>1, <1>2, <1>3, <2>1 DEF Limiter!TypeOK
    <2>3. ASSUME NEW l \in Limiter!Slot PROVE Sound(l)'
      <3>1. CASE l = m
        <4>1. bucket'[l] = [tokens |-> b.tokens, last |-> now] /\ admitted'[l] = admitted[m]
          BY <3>1, <2>1, <1>3
        <4> QED
          BY <3>1, <4>1, <1>1, <1>2, <1>3 DEF Sound, Limiter!Full
      <3>2. CASE l # m
        <4>1. bucket'[l] = bucket[l] /\ admitted'[l] = admitted[l]
          BY <3>2, <2>1, <1>3
        <4>2. Sound(l)
          BY DEF SlotInv
        <4> QED
          BY <4>1, <4>2, <1>1 DEF Sound, Limiter!Full
      <3> QED
        BY <3>1, <3>2
    <2> QED
      BY <2>2, <2>3 DEF SlotInv
  <1> QED
    BY <1>5, <1>6

\* Time passes, and somebody may begin to count.
LEMMA SlotInvStep ==
    ASSUME Limiter!AdmissionAssumption, SlotInv, Limiter!Next \/ UNCHANGED limiter
    PROVE  SlotInv'
  <1>1. CASE Limiter!Tick
    <2>1. Limiter!TypeOK'
      BY <1>1 DEF Limiter!Tick, SlotInv, Limiter!TypeOK
    <2>2. ASSUME NEW l \in Limiter!Slot PROVE Sound(l)'
      <3>1. Sound(l) /\ bucket[l].last \in Int /\ now \in Nat
        BY DEF SlotInv, Limiter!TypeOK
      <3> QED
        BY <3>1, <1>1 DEF Limiter!Tick, Sound, Limiter!Full
    <2> QED
      BY <2>1, <2>2 DEF SlotInv
  <1>2. CASE Limiter!Watch
    <2>1. Limiter!TypeOK'
      BY <1>2 DEF Limiter!Watch, SlotInv, Limiter!TypeOK
    <2>2. ASSUME NEW l \in Limiter!Slot PROVE Sound(l)'
      <3>1. Sound(l) /\ bucket[l].last \in Int /\ bucket[l].tokens \in Int /\ now \in Nat
        BY DEF SlotInv, Limiter!TypeOK
      <3>2. bucket' = bucket /\ now' = now /\ since' = now /\ admitted'[l] = 0
        BY <1>2 DEF Limiter!Watch
      <3>3. bucket[l].last >= now => bucket[l].last - now = 0
        BY <3>1 DEF Sound
      <3>4. 0 * Ticks = 0 /\ 0 * Rpm[l[2]] = 0 /\ Limiter!Full(l[2]) \in Nat
        BY RateIsNat
      <3> QED
        BY <3>1, <3>2, <3>3, <3>4 DEF Sound, Limiter!Full
    <2> QED
      BY <2>1, <2>2 DEF SlotInv
  <1>3. ASSUME NEW l \in Limiter!Slot, Limiter!Serve(l) PROVE SlotInv'
    BY <1>3, ServeKeeps
  <1>4. CASE UNCHANGED limiter
    BY <1>4 DEF limiter, SlotInv, Limiter!TypeOK, Sound, Limiter!Full
  <1> QED
    BY <1>1, <1>2, <1>3, <1>4 DEF Limiter!Next

\* What is left in a bucket is not negative, and the last refill is not after now.
LEMMA SlotInvBudget ==
    ASSUME Limiter!AdmissionAssumption, SlotInv
    PROVE  Limiter!WithinBudget
  <1> SUFFICES ASSUME NEW l \in Limiter!Slot
               PROVE  admitted[l] * Ticks <= Limiter!Full(l[2]) + (now - since) * Rpm[l[2]]
    BY DEF Limiter!WithinBudget
  <1>1. now \in Nat /\ since \in Nat /\ since <= now /\ admitted[l] \in Nat
        /\ bucket[l].last \in Int /\ bucket[l].tokens \in Int /\ Sound(l)
    BY DEF SlotInv, Limiter!TypeOK
  <1>2. Rpm[l[2]] \in Nat /\ Limiter!Full(l[2]) \in Nat /\ Ticks \in Nat \ {0}
    BY RateIsNat
  <1>3. 0 <= (now - since) * Rpm[l[2]] /\ (now - since) * Rpm[l[2]] \in Int
    BY <1>1, <1>2, TimesMonotone
  <1>4. CASE bucket[l].last < since
    <2>1. admitted[l] * Ticks = 0
      BY <1>1, <1>2, <1>4 DEF Sound
    <2> QED
      BY <2>1, <1>2, <1>3
  <1>5. CASE bucket[l].last >= since
    <2>1. bucket[l].tokens >= 0
      BY <1>1, <1>5 DEF Sound, Limiter!NoBucket
    <2>2. bucket[l].last - since <= now - since
      BY <1>1 DEF Sound
    <2>3. (bucket[l].last - since) * Rpm[l[2]] <= (now - since) * Rpm[l[2]]
      BY <2>2, <1>1, <1>2, TimesMonotone
    <2>4. admitted[l] * Ticks + bucket[l].tokens
             <= Limiter!Full(l[2]) + (bucket[l].last - since) * Rpm[l[2]]
      BY <1>1, <1>5 DEF Sound
    <2>5. admitted[l] * Ticks \in Int /\ (bucket[l].last - since) * Rpm[l[2]] \in Int
      BY <1>1, <1>2
    <2> QED
      BY <2>1, <2>3, <2>4, <2>5, <1>1, <1>2, <1>3
  <1> QED
    BY <1>4, <1>5, <1>1

\* No window of time, whenever it begins, lets more than the burst and what the
\* rate refills in it through (RateLimitMiddleware, _check), the first request of
\* a bucket with its negative elapsed time included.
THEOREM ApiKeepsBudget == Spec => []WithinBudget
  <1>1. Limiter!AdmissionAssumption
    BY ServiceAssumption
  <1>2. Init => SlotInv
    BY <1>1, SlotInvInit DEF Init
  <1>3. SlotInv /\ [Next]_vars => SlotInv'
    BY <1>1, OneServiceMoves, SlotInvStep
  <1>4. SlotInv => WithinBudget
    BY <1>1, SlotInvBudget DEF WithinBudget
  <1> QED
    BY <1>2, <1>3, <1>4, PTL DEF Spec
-----------------------------------------------------------------------------
(***************************************************************************)
(* The deep agent and the tool server.                                     *)
(***************************************************************************)
Unsettled == {"none", "local", "http"}

\* How far a call is, what it has stored and what the client said fit together: a
\* call that has no answer yet has stored nothing, and one that was begun was
\* approved.
CallSound(r, c) ==
    /\ points[<<r, c>>] <= 1
    /\ job[<<r, c>>] \in Unsettled => points[<<r, c>>] = 0
    /\ job[<<r, c>>] # "none" => c \in approved[r]

\* A request begins no call before its client has decided.
Undecided(r) ==
    request[r].pc \in {"idle", "decide"} => \A c \in Call : job[<<r, c>>] = "none"

DeepType ==
    /\ job \in [Caller \X Call -> Deep!Job] /\ points \in [Caller \X Call -> Nat]
    /\ approved \in [Caller -> SUBSET Call]
    /\ open \in [Thread -> SUBSET Call]
    /\ request \in [Caller -> [pc : {"idle", "model", "decide", "tools", "done"},
                               thread : Thread \cup {"none"}, seen : SUBSET Call]]

CallInv ==
    /\ DeepType
    /\ \A r \in Caller : Undecided(r)
    /\ \A r \in Caller, c \in Call : CallSound(r, c)

\* Nothing was asked of anybody.
LEMMA CallInvInit == Deep!Init => CallInv
  <1> SUFFICES ASSUME Deep!Init PROVE CallInv
    OBVIOUS
  <1>1. DeepType
    BY DEF Deep!Init, Deep!ToolInit, DeepType, Deep!Fresh, Deep!Job
  <1>2. \A r \in Caller : Undecided(r)
    BY DEF Deep!Init, Deep!ToolInit, Undecided
  <1>3. \A r \in Caller, c \in Call : CallSound(r, c)
    BY DEF Deep!Init, Deep!ToolInit, CallSound
  <1> QED
    BY <1>1, <1>2, <1>3 DEF CallInv

\* A step that touches neither calls nor vectors nor approvals, and sends nobody to
\* his decision who was not idle.
LEMMA CallsUntouched ==
    ASSUME CallInv, UNCHANGED <<job, points, approved>>, DeepType',
           \A r \in Caller : request'[r].pc \in {"idle", "decide"} =>
                                request[r].pc \in {"idle", "decide"}
    PROVE  CallInv'
  <1>1. \A r \in Caller : Undecided(r)'
    BY DEF CallInv, Undecided
  <1>2. \A r \in Caller, c \in Call : CallSound(r, c)'
    BY DEF CallInv, CallSound
  <1> QED
    BY <1>1, <1>2 DEF CallInv

LEMMA RunKeeps ==
    ASSUME CallInv, NEW r \in Caller, NEW t \in Thread, Deep!Run(r, t)
    PROVE  CallInv'
  <1>1. DeepType'
    BY DEF CallInv, DeepType, Deep!Run, Deep!tvars, Deep!Fresh
  <1>2. \A q \in Caller : request'[q].pc \in {"idle", "decide"} =>
                           request[q].pc \in {"idle", "decide"}
    BY DEF CallInv, DeepType, Deep!Run, Deep!Fresh
  <1> QED
    BY <1>1, <1>2, CallsUntouched DEF Deep!Run, Deep!tvars

LEMMA ModelKeeps ==
    ASSUME CallInv, NEW r \in Caller, Deep!Model(r)
    PROVE  CallInv'
  <1>1. PICK calls \in SUBSET (Call \ Deep!Proposed) :
           open' = [open EXCEPT ![request[r].thread] = calls]
    BY DEF Deep!Model
  <1>2. open' \in [Thread -> SUBSET Call]
    BY <1>1 DEF CallInv, DeepType
  <1>3. DeepType'
    BY <1>2, ZenonT(40) DEF CallInv, DeepType, Deep!Model, Deep!Goes, Deep!tvars
  <1>4. \A q \in Caller : request'[q].pc \in {"idle", "decide"} =>
                           request[q].pc \in {"idle", "decide"}
    BY DEF CallInv, DeepType, Deep!Model, Deep!Goes
  <1> QED
    BY <1>3, <1>4, CallsUntouched DEF Deep!Model, Deep!tvars

LEMMA ResumeKeeps ==
    ASSUME CallInv, NEW r \in Caller, NEW t \in Thread, Deep!Resume(r, t)
    PROVE  CallInv'
  <1>1. DeepType'
    BY DEF CallInv, DeepType, Deep!Resume, Deep!tvars
  <1>2. \A q \in Caller : request'[q].pc \in {"idle", "decide"} =>
                           request[q].pc \in {"idle", "decide"}
    BY DEF CallInv, DeepType, Deep!Resume
  <1> QED
    BY <1>1, <1>2, CallsUntouched DEF Deep!Resume, Deep!tvars

\* Before the decision none of the request's calls was begun; after it those that
\* were approved are begun or refused.
LEMMA DecideKeeps ==
    ASSUME CallInv, NEW r \in Caller, Deep!Decide(r)
    PROVE  CallInv'
  <1>1. PICK yes \in SUBSET request[r].seen, invalid \in SUBSET request[r].seen :
           /\ approved' = [approved EXCEPT ![r] = yes]
           /\ job' = [j \in DOMAIN job |->
                 IF j[1] # r \/ j[2] \notin yes THEN job[j]
                 ELSE IF j[2] \in invalid THEN "error" ELSE "local"]
    BY DEF Deep!Decide, Deep!Runs, Deep!Refuse, Deep!Enter
  <1>2. /\ job \in [Caller \X Call -> Deep!Job] /\ approved \in [Caller -> SUBSET Call]
        /\ request[r].pc = "decide" /\ request[r].seen \subseteq Call
        /\ points' = points /\ points \in [Caller \X Call -> Nat]
    BY DEF CallInv, DeepType, Deep!Decide
  <1>3. ASSUME NEW q \in Caller, NEW c \in Call
        PROVE  /\ job'[<<q, c>>] = IF q # r \/ c \notin yes THEN job[<<q, c>>]
                                   ELSE IF c \in invalid THEN "error" ELSE "local"
               /\ approved'[q] = IF q = r THEN yes ELSE approved[q]
    BY <1>1, <1>2
  <1>4. DeepType'
    <2>1. job' \in [Caller \X Call -> Deep!Job]
      <3>1. DOMAIN job = Caller \X Call /\ \A j \in Caller \X Call : job[j] \in Deep!Job
        BY <1>2
      <3>2. ASSUME NEW j \in Caller \X Call
            PROVE  (IF j[1] # r \/ j[2] \notin yes THEN job[j]
                    ELSE IF j[2] \in invalid THEN "error" ELSE "local") \in Deep!Job
        BY <3>1 DEF Deep!Job
      <3> HIDE DEF Deep!Job
      <3> QED
        BY <1>1, <3>1, <3>2
    <2>2. approved' \in [Caller -> SUBSET Call]
      BY <1>1, <1>2
    <2>3. request' \in [Caller -> [pc : {"idle", "model", "decide", "tools", "done"},
                                   thread : Thread \cup {"none"}, seen : SUBSET Call]]
      BY DEF CallInv, DeepType, Deep!Decide, Deep!Goes
    <2>4. open' \in [Thread -> SUBSET Call]
      <3>1. open' = [open EXCEPT ![request[r].thread] = {}]
        BY DEF Deep!Decide
      <3> QED
        BY <3>1 DEF CallInv, DeepType
    <2> QED
      BY <2>1, <2>2, <2>3, <2>4, <1>2 DEF DeepType
  <1>5. ASSUME NEW q \in Caller PROVE Undecided(q)'
    <2>1. CASE q = r
      BY <2>1 DEF CallInv, DeepType, Deep!Decide, Deep!Goes, Undecided
    <2>2. CASE q # r
      <3>1. request'[q] = request[q]
        BY <2>2 DEF CallInv, DeepType, Deep!Decide, Deep!Goes
      <3>2. \A c \in Call : job'[<<q, c>>] = job[<<q, c>>]
        BY <2>2, <1>3
      <3> QED
        BY <3>1, <3>2 DEF CallInv, Undecided
    <2> QED
      BY <2>1, <2>2
  <1>6. ASSUME NEW q \in Caller, NEW c \in Call PROVE CallSound(q, c)'
    <2>1. CASE q = r
      <3>1. job[<<q, c>>] = "none"
        BY <2>1, <1>2 DEF CallInv, Undecided
      <3>2. points[<<q, c>>] = 0
        BY <3>1 DEF CallInv, CallSound, Unsettled
      <3> QED
        BY <2>1, <1>2, <1>3, <3>1, <3>2 DEF CallSound
    <2>2. CASE q # r
      BY <2>2, <1>2, <1>3 DEF CallInv, CallSound
    <2> QED
      BY <2>1, <2>2
  <1> QED
    BY <1>4, <1>5, <1>6 DEF CallInv

\* A call leaves at most one vector, with its answer or with a lost one.
LEMMA CallToolsKeeps ==
    ASSUME CallInv, NEW r \in Caller, Deep!CallTools(r)
    PROVE  CallInv'
  <1>1. PICK c \in Call : Deep!CallTool(<<r, c>>)
    BY DEF Deep!CallTools
  <1> DEFINE j == <<r, c>>
  <1>2. /\ job \in [Caller \X Call -> Deep!Job] /\ points \in [Caller \X Call -> Nat]
        /\ j \in Caller \X Call /\ UNCHANGED <<open, request, approved>>
        /\ request[r].pc = "tools"
    BY DEF CallInv, DeepType, Deep!CallTools
  <1>3. job[j] \in {"local", "http"} /\ points[j] = 0 /\ c \in approved[r]
    BY <1>1, <1>2 DEF Deep!CallTool, Deep!RunLocally, Deep!FallBack, Deep!RunRemotely,
                       CallInv, CallSound, Unsettled
  <1>4. PICK end \in {"text", "http", "error"} :
           /\ job' = [job EXCEPT ![j] = end]
           /\ points' = points \/ (end # "http" /\ points' = [points EXCEPT ![j] = points[j] + 1])
    <2>1. CASE Deep!RunLocally(j)
      <3>1. job' = [job EXCEPT ![j] = "text"]
        BY <2>1 DEF Deep!RunLocally, Deep!Answers
      <3>2. points' = points \/ points' = [points EXCEPT ![j] = points[j] + 1]
        BY <2>1 DEF Deep!RunLocally, Deep!Answers, Deep!Applied
      <3> QED
        BY <3>1, <3>2
    <2>2. CASE Deep!FallBack(j)
      BY <2>2 DEF Deep!FallBack
    <2>3. CASE Deep!RunRemotely(j)
      <3>1. job' = [job EXCEPT ![j] = "text"] \/ job' = [job EXCEPT ![j] = "error"]
        BY <2>3 DEF Deep!RunRemotely, Deep!Answers
      <3>2. points' = points \/ points' = [points EXCEPT ![j] = points[j] + 1]
        BY <2>3 DEF Deep!RunRemotely, Deep!Answers, Deep!Applied
      <3> QED
        BY <3>1, <3>2
    <2> QED
      BY <1>1, <2>1, <2>2, <2>3 DEF Deep!CallTool
  <1>5. DeepType'
    <2>1. end \in Deep!Job
      BY <1>4 DEF Deep!Job
    <2>2. job' \in [Caller \X Call -> Deep!Job]
      BY <2>1, <1>2, <1>4
    <2>3. points' \in [Caller \X Call -> Nat]
      BY <1>2, <1>4
    <2> QED
      BY <2>2, <2>3, <1>2 DEF CallInv, DeepType
  <1>6. ASSUME NEW q \in Caller PROVE Undecided(q)'
    <2>1. CASE q = r
      BY <2>1, <1>2 DEF Undecided
    <2>2. CASE q # r
      <3>1. \A d \in Call : <<q, d>> # j /\ <<q, d>> \in Caller \X Call
        BY <2>2
      <3>2. \A d \in Call : job'[<<q, d>>] = job[<<q, d>>]
        BY <3>1, <1>2, <1>4
      <3> QED
        BY <3>2, <1>2 DEF CallInv, Undecided
    <2> QED
      BY <2>1, <2>2
  <1>7. ASSUME NEW q \in Caller, NEW d \in Call PROVE CallSound(q, d)'
    <2>1. CASE <<q, d>> = j
      <3>1. q = r /\ d = c
        BY <2>1
      <3>2. job'[j] = end /\ points'[j] <= 1 /\ (end = "http" => points'[j] = 0)
        BY <1>2, <1>3, <1>4
      <3> QED
        BY <3>1, <3>2, <1>2, <1>3 DEF CallSound, Unsettled
    <2>2. CASE <<q, d>> # j
      <3>1. job'[<<q, d>>] = job[<<q, d>>] /\ points'[<<q, d>>] = points[<<q, d>>]
        BY <2>2, <1>2, <1>4
      <3> QED
        BY <3>1, <1>2 DEF CallInv, CallSound
    <2> QED
      BY <2>1, <2>2
  <1> QED
    BY <1>5, <1>6, <1>7 DEF CallInv

LEMMA ToolsReturnKeeps ==
    ASSUME CallInv, NEW r \in Caller, Deep!ToolsReturn(r) \/ Deep!Fails(r)
    PROVE  CallInv'
  <1>1. DeepType'
    BY SMTT(20) DEF CallInv, DeepType, Deep!ToolsReturn, Deep!Fails, Deep!Goes, Deep!tvars
  <1>2. \A q \in Caller : request'[q].pc \in {"idle", "decide"} =>
                           request[q].pc \in {"idle", "decide"}
    BY DEF CallInv, DeepType, Deep!ToolsReturn, Deep!Fails, Deep!Goes
  <1> QED
    BY <1>1, <1>2, CallsUntouched DEF Deep!ToolsReturn, Deep!Fails, Deep!tvars

\* A call that was running may have stored its vector; it has an answer no more.
LEMMA RestartKeeps ==
    ASSUME CallInv, Deep!Restart
    PROVE  CallInv'
  <1>1. PICK lost \in SUBSET {j \in DOMAIN job : /\ job[j] \notin Deep!Settled
                                                  /\ Deep!Effective(j[2])} :
           points' = [j \in DOMAIN points |-> points[j] + IF j \in lost THEN 1 ELSE 0]
    BY DEF Deep!Restart
  <1>2. /\ job \in [Caller \X Call -> Deep!Job] /\ points \in [Caller \X Call -> Nat]
        /\ job' = [j \in DOMAIN job |-> IF job[j] \in Deep!Settled THEN job[j] ELSE "error"]
        /\ approved' = approved
        /\ request' = [r \in Caller |-> IF request[r].pc = "idle" THEN Deep!Fresh
                                        ELSE [request[r] EXCEPT !.pc = "done"]]
    BY DEF CallInv, DeepType, Deep!Restart
  <1>3. ASSUME NEW q \in Caller, NEW c \in Call
        PROVE  /\ job'[<<q, c>>] = IF job[<<q, c>>] \in Deep!Settled THEN job[<<q, c>>] ELSE "error"
               /\ points'[<<q, c>>] = points[<<q, c>>] + IF <<q, c>> \in lost THEN 1 ELSE 0
               /\ <<q, c>> \in lost => job[<<q, c>>] \in {"local", "http"}
    BY <1>1, <1>2 DEF Deep!Job, Deep!Settled
  <1>4. DeepType'
    <2>1. job' \in [Caller \X Call -> Deep!Job]
      BY <1>2 DEF Deep!Job
    <2>2. points' \in [Caller \X Call -> Nat]
      BY <1>1, <1>2
    <2>3. request' \in [Caller -> [pc : {"idle", "model", "decide", "tools", "done"},
                                   thread : Thread \cup {"none"}, seen : SUBSET Call]]
      <3> DEFINE Request == [pc : {"idle", "model", "decide", "tools", "done"},
                             thread : Thread \cup {"none"}, seen : SUBSET Call]
      <3>1. Deep!Fresh \in Request
        BY DEF Deep!Fresh
      <3>2. ASSUME NEW r \in Caller PROVE [request[r] EXCEPT !.pc = "done"] \in Request
        <4>1. request[r] \in Request
          BY DEF CallInv, DeepType
        <4> QED
          BY <4>1
      <3> HIDE DEF Request
      <3>3. request' \in [Caller -> Request]
        BY <1>2, <3>1, <3>2
      <3> QED
        BY <3>3 DEF Request
    <2>4. open' \in [Thread -> SUBSET Call] /\ approved' \in [Caller -> SUBSET Call]
      BY <1>2 DEF CallInv, DeepType, Deep!Restart
    <2> QED
      BY <2>1, <2>2, <2>3, <2>4 DEF DeepType
  <1>5. ASSUME NEW q \in Caller PROVE Undecided(q)'
    <2>1. request'[q].pc \in {"idle", "decide"} => request[q].pc = "idle"
      BY <1>2 DEF CallInv, DeepType
    <2> QED
      BY <2>1, <1>3 DEF CallInv, Undecided, Deep!Settled
  <1>6. ASSUME NEW q \in Caller, NEW c \in Call PROVE CallSound(q, c)'
    <2>1. CallSound(q, c) /\ points[<<q, c>>] \in Nat
      BY <1>2 DEF CallInv
    <2>2. job[<<q, c>>] # "none" => c \in approved'[q]
      BY <2>1, <1>2 DEF CallSound
    <2>3. CASE <<q, c>> \in lost
      <3>1. job[<<q, c>>] \in {"local", "http"} /\ points[<<q, c>>] = 0
        BY <2>1, <2>3, <1>3 DEF CallSound, Unsettled
      <3>2. job'[<<q, c>>] = "error" /\ points'[<<q, c>>] = 1
        BY <2>3, <3>1, <1>3 DEF Deep!Settled
      <3> QED
        BY <2>2, <3>1, <3>2 DEF CallSound, Unsettled
    <2>4. CASE <<q, c>> \notin lost
      <3>1. points'[<<q, c>>] = points[<<q, c>>]
        BY <2>1, <2>4, <1>3
      <3>2. job'[<<q, c>>] \in {job[<<q, c>>], "error"}
            /\ (job'[<<q, c>>] = "error" => job[<<q, c>>] # "none")
        BY <1>3 DEF Deep!Settled
      <3> QED
        BY <2>1, <2>2, <3>1, <3>2 DEF CallSound, Unsettled
    <2> QED
      BY <2>3, <2>4
  <1> QED
    BY <1>4, <1>5, <1>6 DEF CallInv

LEMMA CallInvStep ==
    ASSUME CallInv, Deep!Next \/ UNCHANGED deep
    PROVE  CallInv'
  <1>1. CASE Deep!Restart
    BY <1>1, RestartKeeps
  <1>2. ASSUME NEW r \in Caller, Deep!Serve(r) PROVE CallInv'
    BY <1>2, ModelKeeps, DecideKeeps, CallToolsKeeps, ToolsReturnKeeps DEF Deep!Serve
  <1>3. ASSUME NEW r \in Caller, NEW t \in Thread, Deep!Run(r, t) PROVE CallInv'
    BY <1>3, RunKeeps
  <1>4. ASSUME NEW r \in Caller, NEW t \in Thread, Deep!Resume(r, t) PROVE CallInv'
    BY <1>4, ResumeKeeps
  <1>5. CASE UNCHANGED deep
    BY <1>5 DEF deep, CallInv, DeepType, Undecided, CallSound
  <1> QED
    BY <1>1, <1>2, <1>3, <1>4, <1>5 DEF Deep!Next

\* A call that stored something was begun, so it was approved.
LEMMA CallInvApproval == CallInv => Deep!StoredOnApproval
  <1> SUFFICES ASSUME CallInv, NEW r \in Caller, NEW c \in Call
               PROVE  points[<<r, c>>] <= IF c \in approved[r] THEN 1 ELSE 0
    BY DEF Deep!StoredOnApproval
  <1>1. CallSound(r, c) /\ job[<<r, c>>] \in Deep!Job /\ points[<<r, c>>] \in Nat
    BY DEF CallInv, DeepType
  <1> QED
    BY <1>1 DEF CallSound, Unsettled

\* "Human approval is required before this executes": however requests to a thread
\* overlap, calls fall over to HTTP and answers get lost, a request stores the
\* content of a call at most once, and only if its own client approved the call
\* (interrupt_on, resume).
THEOREM ApiRespectsApproval == Spec => []StoredOnApproval
  <1>1. Init => CallInv
    BY CallInvInit DEF Init
  <1>2. CallInv /\ [Next]_vars => CallInv'
    BY OneServiceMoves, CallInvStep
  <1>3. CallInv => StoredOnApproval
    BY CallInvApproval DEF StoredOnApproval
  <1> QED
    BY <1>1, <1>2, <1>3, PTL DEF Spec
-----------------------------------------------------------------------------
(***************************************************************************)
(* The chat panel.                                                         *)
(***************************************************************************)
PanelInv == Panel!TypeOK /\ Panel!ActiveExists

\* The newest of some sessions is one of them.
LEMMA NewestIsThere ==
    ASSUME MaxSessions \in Nat, NEW S, S \subseteq Panel!Id, S # {}
    PROVE  Panel!Max(S) \in S
  <1> DEFINE R == {p \in Nat \X Nat : p[1] < p[2]}
             T == {MaxSessions - x : x \in S}
  <1>1. IsWellFoundedOn(R, Nat)
    BY NatLessThanWellFounded DEF OpToRel
  <1>2. \A x \in S : x \in Nat /\ x <= MaxSessions
    BY DEF Panel!Id
  <1>3. T \subseteq Nat /\ T # {}
    BY <1>2
  <1>4. PICK t \in T : \A u \in T : <<u, t>> \notin R
    BY <1>1, <1>3, WFMin
  <1>5. PICK x \in S : t = MaxSessions - x
    BY <1>4
  <1>6. ASSUME NEW y \in S PROVE x >= y
    <2>1. <<MaxSessions - y, t>> \notin R /\ MaxSessions - y \in Nat /\ t \in Nat
      BY <1>3, <1>4
    <2> QED
      BY <1>2, <1>5, <2>1
  <1> QED
    BY <1>5, <1>6 DEF Panel!Max

LEMMA PanelInvInit ==
    ASSUME MaxSessions \in Nat, Panel!Init
    PROVE  PanelInv
  BY DEF Panel!Init, PanelInv, Panel!TypeOK, Panel!ActiveExists

LEMMA PanelInvStep ==
    ASSUME MaxSessions \in Nat, PanelInv, Panel!Next \/ UNCHANGED panel
    PROVE  PanelInv'
  <1>1. /\ sessions \subseteq Panel!Id /\ created \in 0..MaxSessions
        /\ active \in 0..MaxSessions
        /\ waiting \in [Handler -> {Panel!Idle} \cup [op : Panel!Ops, id : Panel!Id]]
        /\ IF sessions = {} THEN active = 0 ELSE active \in sessions
    BY DEF PanelInv, Panel!TypeOK, Panel!ActiveExists
  <1>2. ASSUME Panel!NewSession
        PROVE  /\ sessions' \subseteq Panel!Id /\ sessions' # {} /\ active' \in sessions'
               /\ created' \in 0..MaxSessions /\ active' \in Panel!Id
    BY <1>1, <1>2 DEF Panel!NewSession, Panel!Id
  <1>3. CASE UNCHANGED panel
    BY <1>3 DEF panel, PanelInv, Panel!TypeOK, Panel!ActiveExists
  <1>4. CASE Panel!Create
    BY <1>1, <1>2, <1>4 DEF Panel!Create, PanelInv, Panel!TypeOK, Panel!ActiveExists, Panel!Id
  <1>5. ASSUME NEW i \in Panel!Id, Panel!Activate(i) PROVE PanelInv'
    BY <1>1, <1>5 DEF Panel!Activate, PanelInv, Panel!TypeOK, Panel!ActiveExists, Panel!Id
  <1>6. ASSUME NEW h \in Handler, NEW i \in Panel!Id, NEW op \in Panel!Ops,
               Panel!Begin(h, op, i)
        PROVE  PanelInv'
    <2>1. [op |-> op, id |-> i] \in [op : Panel!Ops, id : Panel!Id]
      OBVIOUS
    <2>2. waiting' \in [Handler -> {Panel!Idle} \cup [op : Panel!Ops, id : Panel!Id]]
      BY <1>1, <1>6, <2>1 DEF Panel!Begin
    <2> QED
      BY <1>1, <1>6, <2>2 DEF Panel!Begin, PanelInv, Panel!TypeOK, Panel!ActiveExists
  <1>7. ASSUME NEW h \in Handler, Panel!ResetActive(h) PROVE PanelInv'
    <2>1. /\ sessions' \subseteq Panel!Id /\ created' \in 0..MaxSessions
          /\ active' \in Panel!Id /\ active' \in sessions'
      <3>1. CASE active # 0 /\ UNCHANGED <<sessions, active, created>>
        BY <1>1, <3>1 DEF Panel!Id
      <3>2. CASE Panel!NewSession
        BY <1>2, <3>2
      <3> QED
        BY <1>7, <3>1, <3>2 DEF Panel!ResetActive
    <2>2. [op |-> "reset", id |-> active'] \in [op : Panel!Ops, id : Panel!Id]
      BY <2>1 DEF Panel!Ops
    <2>3. waiting' \in [Handler -> {Panel!Idle} \cup [op : Panel!Ops, id : Panel!Id]]
      BY <1>1, <1>7, <2>2 DEF Panel!ResetActive
    <2>4. active' \in 0..MaxSessions
      BY <2>1 DEF Panel!Id
    <2> QED
      BY <2>1, <2>3, <2>4 DEF PanelInv, Panel!TypeOK, Panel!ActiveExists
  <1>8. ASSUME NEW h \in Handler, Panel!Erased(h) PROVE PanelInv'
    <2>1. /\ waiting' \in [Handler -> {Panel!Idle} \cup [op : Panel!Ops, id : Panel!Id]]
          /\ created' = created
      BY <1>1, <1>8 DEF Panel!Erased
    <2>2. CASE UNCHANGED <<sessions, active>>
      BY <1>1, <2>1, <2>2 DEF PanelInv, Panel!TypeOK, Panel!ActiveExists
    <2>3. ASSUME NEW i, Panel!Forget(i) PROVE PanelInv'
      <3>1. /\ sessions' = sessions \ {i} /\ sessions' \subseteq Panel!Id
            /\ active' = IF i \in sessions /\ active = i THEN Panel!Fallback(sessions') ELSE active
        BY <1>1, <2>3 DEF Panel!Forget
      <3>2. IF sessions' = {} THEN active' = 0 ELSE active' \in sessions'
        <4>1. CASE i \in sessions /\ active = i
          BY <3>1, <4>1, NewestIsThere DEF Panel!Fallback
        <4>2. CASE ~(i \in sessions /\ active = i)
          BY <1>1, <3>1, <4>2
        <4> QED
          BY <4>1, <4>2
      <3>3. active' \in 0..MaxSessions
        BY <3>1, <3>2 DEF Panel!Id
      <3> QED
        BY <1>1, <2>1, <3>1, <3>2, <3>3 DEF PanelInv, Panel!TypeOK, Panel!ActiveExists
    <2> QED
      BY <1>8, <2>2, <2>3 DEF Panel!Erased
  <1> QED
    BY <1>3, <1>4, <1>5, <1>6, <1>7, <1>8 DEF Panel!Next

\* However resets, deletions and activations overlap their requests to llama.cpp,
\* the active session is one of the sessions as long as there is one (SessionStore).
THEOREM ApiKeepsActiveSession == Spec => []ActiveExists
  <1>1. MaxSessions \in Nat
    BY ServiceAssumption DEF Panel!SessionAssumption
  <1>2. Init => PanelInv
    BY <1>1, PanelInvInit DEF Init
  <1>3. PanelInv /\ [Next]_vars => PanelInv'
    BY <1>1, OneServiceMoves, PanelInvStep
  <1>4. PanelInv => ActiveExists
    BY DEF PanelInv, ActiveExists
  <1> QED
    BY <1>2, <1>3, <1>4, PTL DEF Spec
-----------------------------------------------------------------------------
(***************************************************************************)
(* The OpenAI-compatible API.                                              *)
(***************************************************************************)
CallShape == [node : {"check", "post", "relay", "end"}, stream : BOOLEAN,
              model : Proxy!Model, attempts : Nat,
              upstream : Seq(Line), out : Seq(Line \cup {"DONE", "error"}),
              status : Nat, scanned : BOOLEAN, tried : SUBSET Proxy!Model]

\* The client has what the model server has sent, and at the end one event more.
RelayInv ==
    /\ call \in CallShape
    /\ call.node # "end" => call.out = call.upstream
    /\ call.node = "end" =>
          \/ call.out = call.upstream
          \/ \E e \in {"DONE", "error"} : call.out = Append(call.upstream, e)

LEMMA RelayInvInit ==
    ASSUME Proxy!Init
    PROVE  RelayInv
  <1>1. /\ call.out = <<>> /\ call.upstream = <<>> /\ call.node = "check"
    BY DEF Proxy!Init, Proxy!Start
  <1>2. call \in CallShape
    BY DEF Proxy!Init, Proxy!Start, CallShape, Proxy!Model
  <1> QED
    BY <1>1, <1>2 DEF RelayInv

LEMMA EndsWell ==
    ASSUME NEW c \in CallShape, NEW s \in Nat
    PROVE  LET d == Proxy!End(s, c) IN
           /\ d \in CallShape /\ d.node = "end"
           /\ d.out = c.out /\ d.upstream = c.upstream
  BY DEF Proxy!End, CallShape

LEMMA FailsWell ==
    ASSUME NEW c \in CallShape, c.out = c.upstream
    PROVE  LET d == Proxy!Failure(c) IN
           /\ d \in CallShape /\ d.node = "end"
           /\ d.out = d.upstream \/ d.out = Append(d.upstream, "error")
  <1>1. CASE ~c.stream
    BY <1>1, EndsWell DEF Proxy!Failure
  <1>2. CASE c.stream
    <2>1. PICK o : o = Append(c.out, "error")
      OBVIOUS
    <2>2. o \in Seq(Line \cup {"DONE", "error"})
      BY <2>1 DEF CallShape
    <2>3. PICK d : d = [c EXCEPT !.out = o]
      OBVIOUS
    <2>4. d \in CallShape /\ d.out = o /\ d.upstream = c.upstream
      BY <2>2, <2>3 DEF CallShape
    <2>5. Proxy!Failure(c) = Proxy!End(200, d)
      BY <1>2, <2>1, <2>3 DEF Proxy!Failure
    <2>6. PICK e : e = Proxy!End(200, d)
      OBVIOUS
    <2>7. e \in CallShape /\ e.node = "end" /\ e.out = o /\ e.upstream = c.upstream
      BY <2>4, <2>6, EndsWell
    <2>8. o = Append(c.upstream, "error")
      BY <2>1
    <2> QED
      BY <2>5, <2>6, <2>7, <2>8
  <1> QED
    BY <1>1, <1>2

LEMMA RelayInvStep ==
    ASSUME RelayInv, Proxy!Next \/ UNCHANGED call
    PROVE  RelayInv'
  <1>1. call \in CallShape
    BY DEF RelayInv
  <1>2. PICK p : p = Proxy!Posted
    OBVIOUS
  <1>3. /\ p \in CallShape /\ p.node = call.node /\ p.upstream = call.upstream
        /\ p.out = call.out /\ p.stream = call.stream
    <2>1. PICK n, asked : n = call.attempts + 1 /\ asked = call.tried \cup {call.model}
      OBVIOUS
    <2>2. n \in Nat /\ asked \in SUBSET Proxy!Model
      BY <1>1, <2>1 DEF CallShape
    <2>3. p = [call EXCEPT !.attempts = n, !.tried = asked]
      BY <1>1, <1>2, <2>1 DEF Proxy!Posted
    <2> QED
      BY <1>1, <2>2, <2>3 DEF CallShape
  <1>4. CASE Proxy!Refuse
    BY <1>1, <1>4, EndsWell DEF Proxy!Refuse, RelayInv
  <1>5. CASE Proxy!Accept
    <2>1. PICK s \in BOOLEAN, m \in Proxy!Model :
             call' = [call EXCEPT !.node = "post", !.stream = s, !.model = m]
      BY <1>5 DEF Proxy!Accept
    <2>2. /\ call' \in CallShape /\ call'.node = "post" /\ call'.out = call.out
          /\ call'.upstream = call.upstream
      BY <1>1, <2>1 DEF CallShape
    <2> QED
      BY <1>5, <2>2 DEF Proxy!Accept, RelayInv
  <1>6. CASE Proxy!ErrorStatus
    <2>1. call.node = "post" /\ call.out = call.upstream
      BY <1>6 DEF Proxy!ErrorStatus, RelayInv
    <2>2. call' = [p EXCEPT !.model = "configured"] \/ call' = Proxy!Failure(p)
      BY <1>2, <1>6 DEF Proxy!ErrorStatus
    <2>3. CASE call' = [p EXCEPT !.model = "configured"]
      <3>1. /\ call' \in CallShape /\ call'.node = p.node /\ call'.out = p.out
            /\ call'.upstream = p.upstream
        BY <1>3, <2>3 DEF CallShape, Proxy!Model
      <3> QED
        BY <1>3, <2>1, <3>1 DEF RelayInv
    <2>4. CASE call' = Proxy!Failure(p)
      BY <1>3, <2>1, <2>4, FailsWell DEF RelayInv
    <2> QED
      BY <2>2, <2>3, <2>4
  <1>7. CASE Proxy!Breaks
    <2>1. call.out = call.upstream
      BY <1>7 DEF Proxy!Breaks, RelayInv
    <2>2. call' = Proxy!Failure(p) \/ call' = Proxy!Failure(call)
      BY <1>2, <1>7 DEF Proxy!Breaks
    <2> QED
      BY <1>1, <1>3, <2>1, <2>2, FailsWell DEF RelayInv
  <1>8. CASE Proxy!Answered
    <2>1. PICK c : c = [p EXCEPT !.scanned = TRUE]
      OBVIOUS
    <2>2. c \in CallShape /\ c.out = p.out /\ c.upstream = p.upstream
      BY <1>3, <2>1 DEF CallShape
    <2>3. call.out = call.upstream /\ call' = Proxy!End(200, c)
      BY <1>2, <1>8, <2>1 DEF Proxy!Answered, RelayInv
    <2> QED
      BY <1>3, <2>2, <2>3, EndsWell DEF RelayInv
  <1>9. CASE Proxy!Streaming
    <2>1. call.out = call.upstream /\ call' = [p EXCEPT !.node = "relay"]
      BY <1>2, <1>9 DEF Proxy!Streaming, RelayInv
    <2>2. /\ call' \in CallShape /\ call'.node = "relay" /\ call'.out = p.out
          /\ call'.upstream = p.upstream
      BY <1>3, <2>1 DEF CallShape
    <2> QED
      BY <1>3, <2>1, <2>2 DEF RelayInv
  <1>10. CASE Proxy!Relay
    <2>1. PICK line \in Line : call' = Proxy!Relayed(line)
      BY <1>10 DEF Proxy!Relay
    <2>2. call.node = "relay" /\ call.out = call.upstream
      BY <1>10 DEF Proxy!Relay, RelayInv
    <2>3. PICK u : u = Append(call.upstream, line)
      OBVIOUS
    <2>4. u \in Seq(Line) /\ u \in Seq(Line \cup {"DONE", "error"})
      BY <1>1, <2>3 DEF CallShape
    <2>5. call' = [call EXCEPT !.upstream = u, !.out = u]
      BY <2>1, <2>2, <2>3 DEF Proxy!Relayed
    <2>6. /\ call' \in CallShape /\ call'.node = "relay" /\ call'.out = u
          /\ call'.upstream = u
      BY <1>1, <2>2, <2>4, <2>5 DEF CallShape
    <2> QED
      BY <2>6 DEF RelayInv
  <1>11. CASE Proxy!Done
    <2>1. PICK o \in {call.out, Append(call.out, "DONE")} :
             call' = Proxy!End(200, [call EXCEPT !.out = o])
      BY <1>11 DEF Proxy!Done
    <2>2. call.out = call.upstream /\ o \in Seq(Line \cup {"DONE", "error"})
      BY <1>1, <1>11, <2>1 DEF Proxy!Done, RelayInv, CallShape
    <2>3. PICK c : c = [call EXCEPT !.out = o]
      OBVIOUS
    <2>4. c \in CallShape /\ c.out = o /\ c.upstream = call.upstream
      BY <1>1, <2>2, <2>3 DEF CallShape
    <2>5. call' = Proxy!End(200, c)
      BY <2>1, <2>3
    <2>6. /\ call' \in CallShape /\ call'.node = "end" /\ call'.out = o
          /\ call'.upstream = call.upstream
      BY <2>4, <2>5, EndsWell
    <2>7. o = call.upstream \/ o = Append(call.upstream, "DONE")
      BY <2>2
    <2> QED
      BY <2>6, <2>7 DEF RelayInv
  <1>12. CASE Proxy!HangUp
    BY <1>1, <1>12, EndsWell DEF Proxy!HangUp, RelayInv
  <1>13. CASE UNCHANGED call
    BY <1>13 DEF RelayInv
  <1> QED
    BY <1>4, <1>5, <1>6, <1>7, <1>8, <1>9, <1>10, <1>11, <1>12, <1>13 DEF Proxy!Next

LEMMA RelayInvPrefix ==
    ASSUME RelayInv
    PROVE  StreamIsRelayed
  <1>1. call.upstream \in Seq(Line)
    BY DEF RelayInv, CallShape
  <1>2. CASE call.out = call.upstream
    BY <1>1, <1>2 DEF StreamIsRelayed, Proxy!StreamIsRelayed, Proxy!IsPrefix
  <1>3. ASSUME NEW e \in {"DONE", "error"}, call.node = "end",
               call.out = Append(call.upstream, e)
        PROVE  StreamIsRelayed
    <2>1. PICK u, o : u = call.upstream /\ o = call.out
      OBVIOUS
    <2>2. u \in Seq(Line) /\ u \in Seq(Line \cup {"DONE", "error"}) /\ o = Append(u, e)
      BY <1>1, <1>3, <2>1
    <2>3. /\ Len(o) = Len(u) + 1 /\ o[Len(o)] = e /\ Len(u) \in Nat
          /\ SubSeq(o, 1, Len(u)) = SubSeq(u, 1, Len(u))
      BY <2>2
    <2> QED
      BY <1>3, <2>1, <2>3 DEF StreamIsRelayed, Proxy!StreamIsRelayed, Proxy!IsPrefix,
                              Proxy!Last
  <1> QED
    BY <1>2, <1>3 DEF RelayInv

\* A client of a stream has the lines of the accepted attempt, each once and in
\* their order, and at the end one closing event at most, whatever breaks
\* (chat_completions).
THEOREM ApiRelaysStreams == Spec => []StreamIsRelayed
  <1>1. Init => RelayInv
    BY RelayInvInit DEF Init
  <1>2. RelayInv /\ [Next]_vars => RelayInv'
    BY OneServiceMoves, RelayInvStep
  <1>3. RelayInv => StreamIsRelayed
    BY RelayInvPrefix
  <1> QED
    BY <1>1, <1>2, <1>3, PTL DEF Spec
-----------------------------------------------------------------------------
(***************************************************************************)
(* Tool discovery.                                                         *)
(***************************************************************************)
AskShape == [pc : {"idle", "queued", "fetching", "replied"}, force : BOOLEAN,
             reply : Schemas \cup {Tools!None, "empty"}]

\* Who waits for the lock or holds it has not been answered.
AskInv == /\ cache \in Schemas \cup {Tools!None}
          /\ ask \in [Agent -> AskShape]
          /\ \A a \in Agent : ask[a].pc \in {"queued", "fetching"} => ask[a].reply = Tools!None

\* What a step may do to the cache and to the replies once the tools are known.
NobodyIsEmptied ==
    cache # Tools!None =>
        /\ cache' # Tools!None
        /\ \A a \in Agent : ask'[a].reply = "empty" => ask[a] = ask'[a]

LEMMA AskInvInit == Tools!Init => AskInv
  BY DEF Tools!Init, Tools!Idle, AskInv, AskShape

\* One agent's record changes, to one that is not answered with nothing unless
\* nothing was known.
LEMMA OneAsks ==
    ASSUME AskInv, NEW a \in Agent, NEW r \in AskShape, ask' = [ask EXCEPT ![a] = r],
           r.pc \in {"queued", "fetching"} => r.reply = Tools!None,
           cache' \in Schemas \cup {Tools!None},
           cache # Tools!None => cache' # Tools!None /\ r.reply # "empty"
    PROVE  AskInv' /\ NobodyIsEmptied
  BY DEF AskInv, NobodyIsEmptied

LEMMA RepliesOne ==
    ASSUME AskInv, NEW a \in Agent, NEW s \in Schemas \cup {Tools!None, "empty"},
           Tools!Reply(a, s), cache' \in Schemas \cup {Tools!None},
           cache # Tools!None => cache' # Tools!None /\ s # "empty"
    PROVE  AskInv' /\ NobodyIsEmptied
  <1> DEFINE r == [ask[a] EXCEPT !.pc = "replied", !.reply = s]
  <1>1. r \in AskShape /\ r.pc = "replied" /\ r.reply = s
    BY DEF AskInv, AskShape
  <1>2. ask' = [ask EXCEPT ![a] = r]
    BY DEF Tools!Reply
  <1> HIDE DEF r
  <1> QED
    BY <1>1, <1>2, OneAsks

LEMMA AskInvStep ==
    ASSUME Tools!SchemaAssumption, AskInv, Tools!Next \/ UNCHANGED schemas
    PROVE  AskInv' /\ NobodyIsEmptied
  <1>1. /\ \A s \in Schemas : s # Tools!None /\ s # "empty"
        /\ Tools!None # "empty"
    BY DEF Tools!SchemaAssumption, Tools!None
  <1>2. CASE UNCHANGED schemas
    BY <1>2 DEF schemas, AskInv, NobodyIsEmptied
  <1>3. ASSUME NEW a \in Agent, NEW force \in BOOLEAN, Tools!Ask(a, force)
        PROVE  AskInv' /\ NobodyIsEmptied
    <2>1. PICK i \in AskShape : i = Tools!Idle /\ i.reply = Tools!None
      <3>1. Tools!Idle \in AskShape /\ Tools!Idle.reply = Tools!None
        BY DEF AskShape, Tools!Idle
      <3> QED
        BY <3>1
    <2> DEFINE r == [i EXCEPT !.pc = "queued", !.force = force]
    <2>2. r \in AskShape /\ r.reply = Tools!None
      BY <2>1 DEF AskShape
    <2>3. ask' = [ask EXCEPT ![a] = r] /\ UNCHANGED cache
      BY <1>3, <2>1 DEF Tools!Ask
    <2> HIDE DEF r
    <2> QED
      BY <1>1, <2>2, <2>3, OneAsks DEF AskInv
  <1>4. ASSUME NEW a \in Agent, Tools!Acquire(a)
        PROVE  AskInv' /\ NobodyIsEmptied
    <2>1. CASE cache # Tools!None /\ Tools!Reply(a, cache) /\ UNCHANGED cache
      BY <1>1, <2>1, RepliesOne DEF AskInv
    <2>2. CASE \E s \in Schemas : cache' = s /\ Tools!Reply(a, s)
      BY <1>1, <2>2, RepliesOne
    <2>3. CASE ask[a].pc = "queued" /\ ask' = [ask EXCEPT ![a].pc = "fetching"] /\ UNCHANGED cache
      <3>1. PICK r \in AskShape : /\ r = [ask[a] EXCEPT !.pc = "fetching"]
                                  /\ r.reply = Tools!None
        BY <2>3 DEF AskInv, AskShape
      <3>2. ask' = [ask EXCEPT ![a] = r]
        BY <2>3, <3>1
      <3> QED
        BY <1>1, <2>3, <3>1, <3>2, OneAsks DEF AskInv
    <2> QED
      BY <1>4, <2>1, <2>2, <2>3 DEF Tools!Acquire
  <1>5. ASSUME NEW a \in Agent, Tools!Fetched(a)
        PROVE  AskInv' /\ NobodyIsEmptied
    <2>1. CASE \E s \in Schemas : cache' = s /\ Tools!Reply(a, s)
      BY <1>1, <2>1, RepliesOne
    <2>2. CASE /\ UNCHANGED cache
               /\ Tools!Reply(a, IF cache = Tools!None THEN "empty" ELSE cache)
      <3>1. PICK s \in Schemas \cup {Tools!None, "empty"} :
               s = IF cache = Tools!None THEN "empty" ELSE cache
        BY DEF AskInv
      <3>2. cache # Tools!None => s # "empty"
        BY <1>1, <3>1 DEF AskInv
      <3> QED
        BY <2>2, <3>1, <3>2, RepliesOne DEF AskInv
    <2> QED
      BY <1>5, <2>1, <2>2 DEF Tools!Fetched, Tools!KeptOnFailure
  <1> QED
    BY <1>2, <1>3, <1>4, <1>5 DEF Tools!Next

\* Once the tools are known, a failed refresh leaves nobody without them, whoever
\* waits for the lock meanwhile (get_tool_schemas).
THEOREM ApiKeepsTools == Spec => KnownToolsStay
  <1>1. Init => AskInv
    BY AskInvInit DEF Init
  <1>2. AskInv /\ [Next]_vars => AskInv' /\ NobodyIsEmptied
    BY OneServiceMoves, AskInvStep, ServiceAssumption
  <1>3. NobodyIsEmptied =>
           [cache # Tools!None =>
              /\ cache' # Tools!None
              /\ \A a \in Agent : ask'[a].reply = "empty" => ask[a] = ask'[a]]_Tools!vars
    BY DEF NobodyIsEmptied
  <1> QED
    BY <1>1, <1>2, <1>3, PTL DEF Spec, KnownToolsStay, Tools!KnownToolsStay
-----------------------------------------------------------------------------
(***************************************************************************)
(* The model downloader: ModelDownloadProofs proves its invariant.         *)
(***************************************************************************)
\* The service is the one the proofs are about: the two instances of its module
\* have the same definitions.
LEMMA SameDownload ==
    /\ Download!DownloadAssumption => DownloadFacts!DownloadAssumption
    /\ Download!Init => DownloadFacts!Init
    /\ Download!Next => DownloadFacts!Next
    /\ DownloadFacts!PublishedIsWhole => PublishedIsWhole
  <1>1. Download!DownloadAssumption => DownloadFacts!DownloadAssumption
    BY DEF Download!DownloadAssumption, DownloadFacts!DownloadAssumption,
       Download!Missing, DownloadFacts!Missing
  <1>2. Download!Init => DownloadFacts!Init
    BY DEF Download!Init, DownloadFacts!Init, Download!Fresh,
       DownloadFacts!Fresh, Download!Missing, DownloadFacts!Missing,
       Download!Hole, DownloadFacts!Hole
  <1>3. Download!Next => DownloadFacts!Next
    BY ZenonT(40) DEF Download!Next, DownloadFacts!Next, Download!Run, DownloadFacts!Run,
       Download!Request, DownloadFacts!Request, Download!Start,
       DownloadFacts!Start, Download!Present, DownloadFacts!Present,
       Download!Connect, DownloadFacts!Connect, Download!OpenPart,
       DownloadFacts!OpenPart, Download!Write, DownloadFacts!Write,
       Download!EndOfStream, DownloadFacts!EndOfStream, Download!Finish,
       DownloadFacts!Finish, Download!Verified, DownloadFacts!Verified,
       Download!Fail, DownloadFacts!Fail, Download!Settle, DownloadFacts!Settle,
       Download!Scan, DownloadFacts!Scan, Download!Restart,
       DownloadFacts!Restart, Download!Found, DownloadFacts!Found,
       Download!Busy, DownloadFacts!Busy, Download!PathFor,
       DownloadFacts!PathFor, Download!Whole, DownloadFacts!Whole,
       Download!Running, DownloadFacts!Running, Download!Fresh,
       DownloadFacts!Fresh, Download!Missing, DownloadFacts!Missing,
       Download!Hole, DownloadFacts!Hole
  <1>4. DownloadFacts!PublishedIsWhole => PublishedIsWhole
    BY DEF Download!PublishedIsWhole, DownloadFacts!PublishedIsWhole,
       Download!Whole, DownloadFacts!Whole, Download!Missing,
       DownloadFacts!Missing, PublishedIsWhole
  <1> QED
    BY <1>1, <1>2, <1>3, <1>4

\* A model file under its final name is whole, through failures, leftovers and
\* restarts (download_gguf).
THEOREM ApiPublishesWholeFiles == Spec => []PublishedIsWhole
  <1>1. DownloadFacts!DownloadAssumption
    BY ServiceAssumption, SameDownload
  <1>2. Init => DownloadFacts!DownloadInv
    BY <1>1, SameDownload, DownloadFacts!DownloadInvInit DEF Init
  <1>3. DownloadFacts!DownloadInv /\ [Next]_vars => DownloadFacts!DownloadInv'
    <2>1. UNCHANGED downloads => UNCHANGED DownloadFacts!vars
      BY DEF downloads, DownloadFacts!vars
    <2> QED
      BY <1>1, <2>1, SameDownload, OneServiceMoves, DownloadFacts!NextKeeps
  <1>4. DownloadFacts!DownloadInv => PublishedIsWhole
    BY SameDownload, DownloadFacts!DownloadInvWhole
  <1> QED
    BY <1>2, <1>3, <1>4, PTL DEF Spec
=============================================================================
