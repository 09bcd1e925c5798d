------------------------------- MODULE ToolGraph -------------------------------
(***************************************************************************)
(* One SelfHealingToolGraph.run() (backend/agent/tool_graph.py): selector, *)
(* executor, evaluator, reflector and synthesiser over the state of one    *)
(* request.  A call is a tool name with its arguments; the node functions  *)
(* await the model and the tools, but nobody else touches their state.     *)
(***************************************************************************)
EXTENDS Integers

CONSTANTS Call,           \* calls the model may ask for
          Known,          \* those that name a tool of the request
          MaxRetries,     \* max_retries
          MaxIterations   \* max_iterations

VARIABLE run

\* How a call ends: with output, with an error that other arguments may heal,
\* or with one that carries a permanent signal.
Outcome == {"ok", "failed", "permanent"}

Start == [node |-> "selector", calls |-> {}, latest |-> {}, results |-> {},
          failed |-> {}, rounds |-> 0, retries |-> 0, gaveUp |-> FALSE,
          reply |-> "none"]

Init == run = Start

\* Whatever the model's text parses to; nothing when the model fails.
Select ==
    /\ run.node = "selector"
    /\ \E asked \in SUBSET Call :
          run' = [run EXCEPT !.calls = asked, !.failed = {}, !.node = "executor"]

\* Arguments that are no dict, or corrections that are no list, raise out of
\* the node: run() keeps nothing of what was executed.
Lost ==
    /\ run.node \in {"selector", "reflector"}
    /\ run' = [run EXCEPT !.node = "end", !.reply = "lost"]

\* Calls run one after the other, and a failing one does not stop the rest.
Execute ==
    /\ run.node = "executor"
    /\ \E how \in [run.calls -> Outcome] :
          /\ \A c \in run.calls \ Known : how[c] = "permanent"
          /\ LET ran == {<<c, how[c]>> : c \in run.calls} IN
             run' = [run EXCEPT !.latest = ran, !.results = @ \cup ran,
                                !.rounds = @ + 1, !.node = "evaluator"]

\* The results of this round that are no success.
Failing(results) == {r \in results : r[2] # "ok"}

Evaluate ==
    /\ run.node = "evaluator"
    /\ LET failed == Failing(run.latest) IN
       run' = [run EXCEPT !.failed = failed,
                  !.node = IF failed # {} /\ run.retries < MaxRetries
                           THEN "reflector" ELSE "synthesiser"]

\* Mutant: the model alone decides whether to give up.
PermanentIgnored(failed) == FALSE
Permanent(failed)        == \E r \in failed : r[2] = "permanent"

\* The corrected calls replace the planned ones, and the selector plans anew
\* over them: only the diagnosis reaches it.
Reflect ==
    /\ run.node = "reflector"
    /\ \E corrections \in SUBSET Call, giveUp \in BOOLEAN :
          LET stop == giveUp \/ Permanent(run.failed) IN
          run' = [run EXCEPT !.calls = corrections, !.retries = @ + 1,
                     !.gaveUp = stop,
                     !.node = IF stop \/ run.rounds >= MaxIterations
                              THEN "synthesiser" ELSE "selector"]

Synthesise ==
    /\ run.node = "synthesiser"
    /\ run' = [run EXCEPT !.node = "end",
                  !.reply = IF \E c \in Call : <<c, "ok">> \in run.results
                            THEN "succeeded" ELSE "failed"]

Next == Select \/ Lost \/ Execute \/ Evaluate \/ Reflect \/ Synthesise
=============================================================================
