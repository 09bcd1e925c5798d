------------------------------ MODULE ToolServer ------------------------------
(***************************************************************************)
(* Tool calls through backend/mcp/client.py: a call goes to the tool       *)
(* manager of the same process and, if that raises, once more over HTTP to *)
(* the same server.  The tools of backend/mcp/server.py turn their own     *)
(* failures into text, which is an answer like any other.                  *)
(***************************************************************************)
EXTENDS Integers

CONSTANTS Caller, Call,  \* who calls; tool calls with their name and arguments
          ToolOf         \* [Call -> Tool]

Tool     == {"qdrant_ingest", "web_search", "graph_search"}
Services == {"store", "embedder", "web", "falkor"}

ToolAssumption == ToolOf \in [Call -> Tool]

VARIABLES services,  \* what configure() injected at start-up
          job,       \* per caller and call: where the call stands
          points     \* per caller and call: vectors it has left in Qdrant

tvars == <<services, job, points>>

Job == {"none", "local", "http", "text", "error"}
Settled == {"none", "text", "error"}

ToolTypeOK == /\ services \subseteq Services
              /\ job \in [Caller \X Call -> Job]
              /\ points \in [Caller \X Call -> Nat]

ToolInit == /\ services \in {Services, {"embedder", "web"}}
            /\ job = [j \in Caller \X Call |-> "none"]
            /\ points = [j \in Caller \X Call |-> 0]

\* The availability test at the head of each tool.
Needs == [t \in Tool |-> CASE t = "qdrant_ingest" -> {"store", "embedder"}
                           [] t = "web_search"    -> {"web"}
                           [] OTHER               -> {"falkor"}]

Effective(c) == ToolOf[c] = "qdrant_ingest" /\ Needs[ToolOf[c]] \subseteq services

\* call_tool up to its first await: a tool outside the caller's groups, or
\* arguments its schema refuses, are answered at once.
Enter(j) == "local"
Refuse(j) == "error"

\* The tool ran: the point is in the store if it could be, and sometimes although
\* the store's answer was an error; the caller gets text.
Applied(j) ==
    \/ UNCHANGED points
    \/ Effective(j[2]) /\ points' = [points EXCEPT ![j] = @ + 1]

\* Mutant: an error of the store leaves the tool as an exception.
AnswersOrRaises(j) ==
    /\ Applied(j)
    /\ \E end \in {"text", "http"} : job' = [job EXCEPT ![j] = end]

Answers(j) == Applied(j) /\ job' = [job EXCEPT ![j] = "text"]

RunLocally(j) == job[j] = "local" /\ Answers(j) /\ UNCHANGED services

\* The tool manager raises before the tool runs: no such tool, arguments the
\* tool's signature refuses, no manager at all.
FallBack(j) == /\ job[j] = "local"
               /\ job' = [job EXCEPT ![j] = "http"]
               /\ UNCHANGED <<services, points>>

\* Over HTTP the tool may run and its answer be lost.
RunRemotely(j) ==
    /\ job[j] = "http"
    /\ \/ Answers(j)
       \/ Applied(j) /\ job' = [job EXCEPT ![j] = "error"]
    /\ UNCHANGED services

CallTool(j) == RunLocally(j) \/ FallBack(j) \/ RunRemotely(j)
=============================================================================
