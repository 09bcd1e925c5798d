------------------------------ MODULE AgentRoutes ------------------------------
(***************************************************************************)
(* The agent endpoints (backend/api/routes/agent.py and the pipeline of    *)
(* routes/chat.py): a request is checked, runs one of the four graphs, and *)
(* is answered with what the graph returned.  Runs share no state, so one  *)
(* request is enough: a behaviour is its life.                             *)
(***************************************************************************)
EXTENDS Integers, FiniteSets

CONSTANTS Call, Tool, ToolOf, FailLimit, MaxRounds, MaxBatch, History,
          Known, MaxRetries, MaxIterations,
          MaxAttempts, HalfPasses,
          Query, Question, Passage, MaxHops

\* The limits come from the client (one of them may be negative) or from the
\* settings, and Python's min caps them, so any value below the cap is possible.
ASSUME RouteAssumption ==
    /\ ToolOf \in [Call -> Tool] /\ Known \subseteq Call
    /\ MaxRounds \in Nat \ {0} /\ MaxIterations \in Nat \ {0} /\ MaxHops \in Nat
    /\ MaxRetries \in Int /\ MaxAttempts \in Int
    /\ HalfPasses \in BOOLEAN
    /\ Question \in Query

VARIABLES kind,     \* which endpoint was called
          status,   \* HTTP status of the answer, 0 until there is one
          node, round, trace, answer, counts, cache, fails, disabled,
          tools, attempts, rag

react == <<node, round, trace, answer, counts, cache, fails, disabled>>
vars  == <<kind, status, react, tools, attempts, rag>>

React   == INSTANCE ReActLoop
Tools   == INSTANCE ToolGraph WITH run <- tools
Iterate == INSTANCE IterationGraph WITH run <- attempts
Rag     == INSTANCE RagPipeline WITH run <- rag

Kind == {"react", "tools", "iterate", "chat"}

Init == /\ kind = "none" /\ status = 0
        /\ React!Init /\ Tools!Init /\ Iterate!Init /\ Rag!Init

Accept == /\ kind = "none"
          /\ kind' \in Kind
          /\ UNCHANGED <<status, react, tools, attempts, rag>>

Open(k) == kind = k /\ status = 0

\* Refused before a graph is built: no usable body, no provider, no tool left.
Refuse ==
    /\ \/ /\ Open("react") /\ node = "agent" /\ round = 0
          /\ status' \in {422, 503}
       \/ /\ Open("tools") /\ tools = Tools!Start
          /\ status' = 400
    /\ UNCHANGED <<kind, react, tools, attempts, rag>>

RunReact   == Open("react") /\ React!Next /\ UNCHANGED <<kind, status, tools, attempts, rag>>
RunTools   == Open("tools") /\ Tools!Next /\ UNCHANGED <<kind, status, react, attempts, rag>>
RunIterate == Open("iterate") /\ Iterate!Next /\ UNCHANGED <<kind, status, react, tools, rag>>
RunRag     == Open("chat") /\ Rag!Next /\ UNCHANGED <<kind, status, react, tools, attempts>>

\* A graph that failed inside is a 200 all the same, except the iteration
\* graph, which raises, and a loop that leaves no text.
Respond ==
    /\ \/ /\ Open("react") /\ node = "end"
          /\ status' = IF answer = "none" THEN 502 ELSE 200
       \/ Open("tools") /\ tools.node = "end" /\ status' = 200
       \/ Open("iterate") /\ attempts.node = "end" /\ status' = 200
       \/ Open("iterate") /\ attempts.node = "raised" /\ status' = 500
       \/ Open("chat") /\ rag.node = "end" /\ status' = 200
    /\ UNCHANGED <<kind, react, tools, attempts, rag>>

Work == Refuse \/ RunReact \/ RunTools \/ RunIterate \/ RunRag \/ Respond

Next == Accept \/ Work

Spec == Init /\ [][Next]_vars

\* The model, the tools and the stores answer or time out, and the event loop
\* resumes whoever waited for them; nothing obliges a client to call.
FairSpec == Spec /\ WF_vars(Work)
-----------------------------------------------------------------------------
(***************************************************************************)
(* Properties.                                                             *)
(***************************************************************************)
\* "Permanent failures (auth errors, missing tools) are not retried": once a
\* call has failed for good, nothing is selected or executed any more.
PermanentNotRetried ==
    tools.node \in {"selector", "executor"} =>
        \A r \in tools.results : r[2] # "permanent"

\* A response that says it converged returns an attempt the evaluator accepted,
\* not one of a later round that could not be evaluated.  (An accepted empty
\* attempt counts as none: run() falls back to the latest one.)
ConvergedWasAccepted ==
    attempts.node = "end" /\ attempts.converged =>
        Iterate!Returned \in attempts.accepted \/ 0 \in attempts.accepted

\* Every accepted request is answered, and the loop leaves no batch of calls
\* half executed behind.
RunsEnd ==
    kind # "none" ~> /\ status # 0
                     /\ \A s \in React!Slot :
                           React!Asked(s) /\ s[1] < round => React!StateOf(s) \in React!Settled

\* "response" and "final_score" describe one attempt: the returned output is
\* the one the score was given to.
ScoreIsOfOutput ==
    attempts.node = "end" => attempts.scored = Iterate!Returned

(***************************************************************************)
(* The endpoints implement BoundedRun.                                     *)
(***************************************************************************)
AtLeastOne(n) == IF n < 1 THEN 1 ELSE n
Smaller(m, n) == IF m < n THEN m ELSE n

\* min(max_rounds, 15), the five executions with at most max_retries repeats,
\* min(max_iterations, 6) attempts but always one, max_hops.
RoundLimit == [k \in Kind |->
    CASE k = "react"   -> MaxRounds
      [] k = "tools"   -> Smaller(MaxIterations, AtLeastOne(MaxRetries + 1))
      [] k = "iterate" -> AtLeastOne(MaxAttempts)
      [] OTHER         -> AtLeastOne(MaxHops)]

Rounds == CASE kind = "react"   -> round
            [] kind = "tools"   -> tools.rounds
            [] kind = "iterate" -> attempts.round
            [] kind = "chat"    -> rag.hops
            [] OTHER            -> 0

Bounded == INSTANCE BoundedRun WITH
    Limit  <- RoundLimit,
    rounds <- Rounds,
    phase  <- IF kind = "none" THEN "idle"
              ELSE IF status = 0 THEN "working" ELSE "answered"

\* Whatever the model asks for, a request takes at most the rounds of its kind
\* and nothing is done for it once it is answered.
ImplementsBoundedRun == Bounded!Spec
=============================================================================
