------------------------------ MODULE RagPipeline ------------------------------
(***************************************************************************)
(* One AgenticRAGPipeline.run() (backend/agent/graph.py and nodes/):       *)
(* planner, retriever, critic and synthesiser over the state of one query. *)
(***************************************************************************)
EXTENDS Integers

CONSTANTS Query,      \* sub-queries, the user's question among them
          Question,   \* the user's question
          Passage,    \* what retrieval may return
          MaxHops     \* max_hops

VARIABLE run

Start == [node |-> "planner", queries |-> {}, passages |-> {}, approved |-> {},
          hops |-> 0, more |-> FALSE, reply |-> "none"]

Init == run = Start

\* At most six sub-queries and always the question itself; the question alone
\* when the model fails.
Plan ==
    /\ run.node = "planner"
    /\ \E planned \in SUBSET Query :
          run' = [run EXCEPT !.queries = planned \cup {Question}, !.node = "retriever"]

\* A priority that is no number, or a verdict that is no object, raises out of
\* the graph: run() answers "Pipeline error".
Raises ==
    /\ run.node \in {"planner", "critic"}
    /\ run.node = "critic" => run.passages # {} /\ run.hops < MaxHops
    /\ run' = [run EXCEPT !.node = "end", !.reply = "error"]

\* Every sub-query of every hop runs again, concurrently; one that fails finds
\* nothing.  The passages of the hop before are replaced.
Retrieve ==
    /\ run.node = "retriever"
    /\ \E found \in SUBSET Passage :
          run' = [run EXCEPT !.passages = found, !.hops = @ + 1, !.node = "critic"]

Route(more) ==
    IF more /\ run.hops < MaxHops THEN "retriever" ELSE "synthesiser"

\* No passages, the hop limit or no usable verdict: on with what there is.
Settle ==
    /\ run.node = "critic"
    /\ run' = [run EXCEPT !.approved = run.passages, !.more = FALSE,
                          !.node = Route(FALSE)]

\* The critic's verdict; topics asked before are not added again, but the hop
\* is taken even when none is new.
Judge ==
    /\ run.node = "critic"
    /\ run.passages # {} /\ run.hops < MaxHops
    /\ \E kept \in SUBSET run.passages \ {{}}, missing \in SUBSET Query :
          LET more == missing # {} IN
          run' = [run EXCEPT !.approved = kept, !.more = more,
                             !.queries = @ \cup missing, !.node = Route(more)]

Synthesise ==
    /\ run.node = "synthesiser"
    /\ run' = [run EXCEPT !.node = "end", !.reply = "answer"]

Next == Plan \/ Raises \/ Retrieve \/ Settle \/ Judge \/ Synthesise
=============================================================================
