------------------------------ MODULE ToolSchemas ------------------------------
(***************************************************************************)
(* Discovery of the tools (get_tool_schemas of backend/mcp/client.py): one *)
(* cache for the process, read and filled under an asyncio lock.           *)
(***************************************************************************)
EXTENDS Integers, FiniteSets

CONSTANTS Agent,   \* coroutines that ask for the schemas
          Schemas  \* what the server may list, at different times

VARIABLES cache,   \* _schema_cache
          ask      \* per agent: where it is, whether it forces a refresh, its reply

vars == <<cache, ask>>

None == "none"

\* A list of tools is neither what stands for no list nor the empty list.
SchemaAssumption == Schemas \cap {None, "empty"} = {}

Idle == [pc |-> "idle", force |-> FALSE, reply |-> None]

TypeOK ==
    /\ cache \in Schemas \cup {None}
    /\ ask \in [Agent -> [pc : {"idle", "queued", "fetching", "replied"}, force : BOOLEAN,
                          reply : Schemas \cup {None, "empty"}]]

Init == cache = None /\ ask = [a \in Agent |-> Idle]

\* The ReAct loop takes what is cached; list_available_tools asks anew.
Ask(a, force) ==
    /\ ask[a].pc \in {"idle", "replied"}
    /\ ask' = [ask EXCEPT ![a] = [Idle EXCEPT !.pc = "queued", !.force = force]]
    /\ UNCHANGED cache

Held == \E a \in Agent : ask[a].pc = "fetching"

Reply(a, s) == ask' = [ask EXCEPT ![a].pc = "replied", ![a].reply = s]

\* The lock is free: the cache, or the tools of the same process, or a request
\* over HTTP that keeps the lock while it is awaited.
Acquire(a) ==
    /\ ask[a].pc = "queued" /\ ~Held
    /\ \/ /\ cache # None /\ ~ask[a].force
          /\ Reply(a, cache) /\ UNCHANGED cache
       \/ /\ cache = None \/ ask[a].force
          /\ \E s \in Schemas : cache' = s /\ Reply(a, s)
       \/ /\ cache = None \/ ask[a].force
          /\ ask' = [ask EXCEPT ![a].pc = "fetching"] /\ UNCHANGED cache

\* Mutant: a refresh that fails clears the cache.
AfterFailure == None

\* The cache stays as it is.
KeptOnFailure == cache

Fetched(a) ==
    /\ ask[a].pc = "fetching"
    /\ \/ \E s \in Schemas : cache' = s /\ Reply(a, s)
       \/ /\ cache' = KeptOnFailure
          /\ Reply(a, IF cache = None THEN "empty" ELSE cache)

Next == \E a \in Agent : \/ Acquire(a) \/ Fetched(a)
                         \/ \E force \in BOOLEAN : Ask(a, force)

Spec == Init /\ [][Next]_vars

Fairness == \A a \in Agent : WF_vars(Fetched(a)) /\ SF_vars(Acquire(a))
-----------------------------------------------------------------------------
\* Once the tools are known a failed refresh, even one in flight when others ask,
\* leaves nobody without tools: everyone gets the last known ones.
KnownToolsStay ==
    [][cache # None =>
          /\ cache' # None
          /\ \A a \in Agent : ask'[a].reply = "empty" => ask[a] = ask'[a]]_vars

\* Whoever asks is answered, however many wait for the lock.
AskersAnswered == \A a \in Agent : ask[a].pc = "queued" ~> ask[a].pc = "replied"
=============================================================================
