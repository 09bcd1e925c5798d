---------------------------- MODULE IterationGraph ----------------------------
(***************************************************************************)
(* One AutonomousIterationGraph.run() (backend/agent/iteration_graph.py):  *)
(* generator, evaluator and reflector over the state of one request.  The  *)
(* n-th attempt is the number n, an empty one 0.  The graph keeps only the *)
(* keys IterationState declares: already_good does not reach the router.   *)
(***************************************************************************)
EXTENDS Integers

CONSTANTS MaxAttempts,   \* max_iterations, which a client may make negative
          HalfPasses     \* score_threshold <= 0.5, the score of a failed evaluation

VARIABLE run

\* The attempts the evaluator accepted; the attempt the score belongs to.
Start == [node |-> "generator", round |-> 0, output |-> 0, final |-> 0,
          passed |-> FALSE, converged |-> FALSE, error |-> FALSE,
          accepted |-> {}, scored |-> 0]

Init == run = Start

Generate ==
    /\ run.node = "generator"
    /\ \E output \in {0, run.round + 1} :
          run' = [run EXCEPT !.node = "evaluator", !.round = @ + 1,
                             !.output = output, !.error = FALSE]

\* A failing generator keeps the old attempt, and that is evaluated once more.
GeneratorFails ==
    /\ run.node = "generator"
    /\ run' = [run EXCEPT !.node = "evaluator", !.error = TRUE]

\* Mutant: one attempt too many.
ExhaustedLate == run.round > MaxAttempts
Exhausted     == run.round >= MaxAttempts

After(passed) ==
    IF run.error \/ passed \/ Exhausted THEN "end" ELSE "reflector"

\* final_output is the accepted attempt, or the first one that was evaluated.
Final(converged) ==
    LET kept == IF converged THEN run.output ELSE run.final
    IN  IF kept = 0 THEN run.output ELSE kept

Evaluate ==
    /\ run.node = "evaluator"
    /\ \E passed, good \in BOOLEAN :
          LET converged == passed \/ good IN
          run' = [run EXCEPT !.node = After(passed), !.passed = passed,
                     !.converged = converged, !.final = Final(converged),
                     !.accepted = IF converged THEN @ \cup {run.output} ELSE @,
                     !.scored = run.output]

\* The score becomes 0.5; the verdict of an earlier round stands.
EvaluatorFails ==
    /\ run.node = "evaluator"
    /\ run' = [run EXCEPT !.node = After(HalfPasses), !.passed = HalfPasses,
                          !.scored = run.output]

\* A score that is no number raises out of run(), which has no try block.
Malformed ==
    /\ run.node = "evaluator"
    /\ run' = [run EXCEPT !.node = "raised"]

\* A failing reflector becomes the critique.
Reflect ==
    /\ run.node = "reflector"
    /\ run' = [run EXCEPT !.node = "generator"]

Next == \/ Generate \/ GeneratorFails \/ Evaluate \/ EvaluatorFails
        \/ Malformed \/ Reflect

\* Mutant: run() returns the current attempt.
ReturnedLatest == run.output

\* What run() returns as final_output.
Returned == IF run.final # 0 THEN run.final ELSE run.output
=============================================================================
