--------------------------- MODULE AgentRoutesProofs ---------------------------
(***************************************************************************)
(* The agent endpoints implement BoundedRun, whatever limits the clients   *)
(* send and whatever the model and the tools answer; nothing is repeated   *)
(* after a permanent failure, and what is said to converge was accepted.   *)
(***************************************************************************)
EXTENDS AgentRoutes, TLAPS

(***************************************************************************)
(* The inductive invariant: what each graph knows about its counter at the *)
(* node that runs next.  A node that may count one more round is reached   *)
(* only below the limit, which its router checked two or three nodes ago.  *)
(***************************************************************************)
ToolRun == [node : {"selector", "executor", "evaluator", "reflector",
                    "synthesiser", "end"},
            calls : SUBSET Call,
            latest : SUBSET (Call \X Tools!Outcome),
            results : SUBSET (Call \X Tools!Outcome),
            failed : SUBSET (Call \X Tools!Outcome),
            rounds : Nat, retries : Nat, gaveUp : BOOLEAN,
            reply : {"none", "lost", "succeeded", "failed"}]

ToolInv ==
    /\ tools \in ToolRun
    /\ tools.node \in {"selector", "executor"} =>
          /\ tools.rounds = tools.retries /\ tools.rounds < MaxIterations
          /\ tools.rounds = 0 \/ tools.rounds <= MaxRetries
    /\ tools.node \in {"evaluator", "reflector"} =>
          tools.rounds = tools.retries + 1
    /\ tools.node = "reflector" => tools.retries < MaxRetries

\* Where a permanent failure can be: nowhere before a call is selected or executed,
\* among the latest results before they are judged, among the failed ones before
\* the reflector looks at them.
NonePermanent(results) == \A r \in results : r[2] # "permanent"

PermanentInv ==
    /\ tools.node \in {"selector", "executor"} => NonePermanent(tools.results)
    /\ tools.node = "evaluator" => NonePermanent(tools.results \ tools.latest)
    /\ tools.node = "reflector" => NonePermanent(tools.results \ tools.failed)

AttemptRun == [node : {"generator", "evaluator", "reflector", "end", "raised"},
               round : Nat, output : Nat, final : Nat, passed : BOOLEAN,
               converged : BOOLEAN, error : BOOLEAN, accepted : SUBSET Nat,
               scored : Nat]

AttemptInv ==
    /\ attempts \in AttemptRun
    /\ attempts.node = "generator" =>
          attempts.round = 0 \/ attempts.round < MaxAttempts
    /\ attempts.node = "reflector" => attempts.round < MaxAttempts

\* The verdict that stands belongs to the attempt that was kept with it, or to an
\* empty one.
AcceptedInv ==
    attempts.converged => attempts.final \in attempts.accepted \/ 0 \in attempts.accepted

RagRun == [node : {"planner", "retriever", "critic", "synthesiser", "end"},
           queries : SUBSET Query, passages : SUBSET Passage,
           approved : SUBSET Passage, hops : Nat, more : BOOLEAN,
           reply : {"none", "error", "answer"}]

RagInv ==
    /\ rag \in RagRun
    /\ rag.node = "planner" => rag.hops = 0
    /\ rag.node = "retriever" => rag.hops = 0 \/ rag.hops < MaxHops

\* No graph moves before its endpoint is called, and none after the answer.
RunInv ==
    /\ kind \in Kind \cup {"none"}
    /\ kind = "none" => status = 0
    /\ kind # "react" => round = 0
    /\ kind # "tools" => tools = Tools!Start
    /\ kind # "iterate" => attempts = Iterate!Start
    /\ kind # "chat" => rag = Rag!Start
    /\ round \in Nat
    /\ ToolInv /\ AttemptInv /\ RagInv
    /\ PermanentInv /\ AcceptedInv

Counts(before, after, limit) ==
    after = before \/ (after = before + 1 /\ before < limit)
-----------------------------------------------------------------------------
(***************************************************************************)
(* One lemma per graph: a step keeps what the graph knows, and counts at   *)
(* most one round, below the limit.                                        *)
(***************************************************************************)

\* The tool graph executes at most MaxIterations times, and at most once more
\* than it retries.
LEMMA ToolStep ==
  ASSUME ToolInv, Tools!Next
  PROVE  ToolInv' /\ Counts(tools.rounds, tools'.rounds, RoundLimit["tools"])
<1> USE RouteAssumption DEF ToolInv, ToolRun
<1>1. CASE Tools!Select
  <2>1. PICK asked \in SUBSET Call :
           tools' = [tools EXCEPT !.calls = asked, !.failed = {}, !.node = "executor"]
    BY <1>1 DEF Tools!Select
  <2> QED  BY <1>1, <2>1 DEF Tools!Select, Counts
<1>2. CASE Tools!Lost
  BY <1>2 DEF Tools!Lost, Counts
<1>3. CASE Tools!Execute
  <2>1. PICK how \in [tools.calls -> Tools!Outcome] :
           LET ran == {<<c, how[c]>> : c \in tools.calls} IN
           tools' = [tools EXCEPT !.latest = ran, !.results = @ \cup ran,
                                  !.rounds = @ + 1, !.node = "evaluator"]
    BY <1>3 DEF Tools!Execute
  <2> DEFINE ran == {<<c, how[c]>> : c \in tools.calls}
  <2>2. ran \in SUBSET (Call \X Tools!Outcome)
    OBVIOUS
  <2>3. tools' = [tools EXCEPT !.latest = ran, !.results = @ \cup ran,
                               !.rounds = @ + 1, !.node = "evaluator"]
    BY <2>1
  <2> HIDE DEF ran
  <2>4. /\ tools'.node = "evaluator" /\ tools'.retries = tools.retries
        /\ tools'.rounds = tools.rounds + 1
    BY <2>3
  <2> DEFINE all == tools.results \cup ran
             next == tools.rounds + 1
  <2>5. all \in SUBSET (Call \X Tools!Outcome) /\ next \in Nat
    BY <2>2
  <2>6. tools' \in ToolRun
    <3>1. tools' = [tools EXCEPT !.latest = ran, !.results = all,
                                 !.rounds = next, !.node = "evaluator"]
      BY <2>3
    <3> HIDE DEF all, next
    <3> QED  BY <2>2, <2>5, <3>1
  <2>7. ToolInv'
    <3>1. tools.rounds = tools.retries
      BY <1>3 DEF Tools!Execute
    <3>2. tools'.rounds = tools'.retries + 1
      BY <2>4, <3>1
    <3> QED  BY <2>4, <2>6, <3>2
  <2>8. tools.rounds < RoundLimit["tools"]
    BY <1>3 DEF Tools!Execute, RoundLimit, Kind, Smaller, AtLeastOne
  <2> QED  BY <2>4, <2>7, <2>8 DEF Counts
<1>4. CASE Tools!Evaluate
  <2>1. Tools!Failing(tools.latest) \in SUBSET (Call \X Tools!Outcome)
    BY DEF Tools!Failing
  <2> QED  BY <1>4, <2>1 DEF Tools!Evaluate, Counts
<1>5. CASE Tools!Reflect
  <2>1. PICK corrections \in SUBSET Call, stop \in BOOLEAN :
           tools' = [tools EXCEPT !.calls = corrections, !.retries = @ + 1,
                        !.gaveUp = stop,
                        !.node = IF stop \/ tools.rounds >= MaxIterations
                                 THEN "synthesiser" ELSE "selector"]
    <3>1. PICK corrections \in SUBSET Call, giveUp \in BOOLEAN :
             LET stop == giveUp \/ Tools!Permanent(tools.failed) IN
             tools' = [tools EXCEPT !.calls = corrections, !.retries = @ + 1,
                          !.gaveUp = stop,
                          !.node = IF stop \/ tools.rounds >= MaxIterations
                                   THEN "synthesiser" ELSE "selector"]
      BY <1>5 DEF Tools!Reflect
    <3> DEFINE stop == giveUp \/ Tools!Permanent(tools.failed)
    <3>2. stop \in BOOLEAN
      BY DEF Tools!Permanent
    <3> QED  BY <3>1, <3>2, Zenon
  <2> DEFINE next == tools.retries + 1
             then == IF stop \/ tools.rounds >= MaxIterations
                     THEN "synthesiser" ELSE "selector"
  <2>2. next \in Nat /\ then \in {"selector", "synthesiser"}
    OBVIOUS
  <2>3. tools' = [tools EXCEPT !.calls = corrections, !.retries = next,
                               !.gaveUp = stop, !.node = then]
    BY <2>1
  <2>4. then = "selector" => tools.rounds < MaxIterations
    OBVIOUS
  <2>5. /\ tools.node = "reflector" /\ tools.rounds = next
        /\ tools.rounds <= MaxRetries
    BY <1>5 DEF Tools!Reflect
  <2> HIDE DEF next, then
  <2>6. tools' \in ToolRun
    BY <2>2, <2>3
  <2>7. /\ tools'.rounds = tools.rounds /\ tools'.retries = next
        /\ tools'.node = then
    BY <2>3
  <2> QED  BY <2>2, <2>4, <2>5, <2>6, <2>7 DEF Counts
<1>6. CASE Tools!Synthesise
  BY <1>6 DEF Tools!Synthesise, Counts
<1> QED  BY <1>1, <1>2, <1>3, <1>4, <1>5, <1>6 DEF Tools!Next

\* The iteration graph makes at most MaxAttempts attempts, and always one.
LEMMA AttemptStep ==
  ASSUME AttemptInv, Iterate!Next
  PROVE  AttemptInv' /\ Counts(attempts.round, attempts'.round, RoundLimit["iterate"])
<1> USE RouteAssumption DEF AttemptInv, AttemptRun
<1>1. CASE Iterate!Generate
  <2>1. attempts.round < RoundLimit["iterate"]
    BY <1>1 DEF Iterate!Generate, RoundLimit, Kind, AtLeastOne
  <2>2. PICK output \in {0, attempts.round + 1} :
           attempts' = [attempts EXCEPT !.node = "evaluator", !.round = @ + 1,
                                        !.output = output, !.error = FALSE]
    BY <1>1 DEF Iterate!Generate
  <2> DEFINE next == attempts.round + 1
  <2>3. next \in Nat /\ output \in Nat
    OBVIOUS
  <2>4. attempts' = [attempts EXCEPT !.node = "evaluator", !.round = next,
                                     !.output = output, !.error = FALSE]
    BY <2>2
  <2>5. attempts'.round = next /\ attempts'.node = "evaluator"
    BY <2>4
  <2>6. attempts' \in AttemptRun
    <3> HIDE DEF next
    <3> QED  BY <2>3, <2>4
  <2> QED  BY <2>1, <2>5, <2>6 DEF Counts
<1>2. CASE Iterate!GeneratorFails
  BY <1>2 DEF Iterate!GeneratorFails, Counts
<1>3. CASE Iterate!Evaluate
  <2>1. PICK passed \in BOOLEAN, good \in BOOLEAN :
           LET converged == passed \/ good IN
           attempts' = [attempts EXCEPT !.node = Iterate!After(passed),
              !.passed = passed, !.converged = converged,
              !.final = Iterate!Final(converged),
              !.accepted = IF converged THEN @ \cup {attempts.output} ELSE @,
              !.scored = attempts.output]
    BY <1>3 DEF Iterate!Evaluate
  <2> DEFINE converged == passed \/ good
  <2>2. /\ converged \in BOOLEAN
        /\ Iterate!Final(converged) \in Nat
        /\ Iterate!After(passed) \in {"end", "reflector"}
    BY DEF Iterate!Final, Iterate!After
  <2>3. attempts' = [attempts EXCEPT !.node = Iterate!After(passed),
              !.passed = passed, !.converged = converged,
              !.final = Iterate!Final(converged),
              !.accepted = IF converged THEN @ \cup {attempts.output} ELSE @,
              !.scored = attempts.output]
    BY <2>1
  <2> HIDE DEF converged
  <2>4. attempts' \in AttemptRun
    BY <2>2, <2>3
  <2>5. attempts'.round = attempts.round /\ attempts'.node = Iterate!After(passed)
    BY <2>3
  <2>6. Iterate!After(passed) = "reflector" => attempts.round < MaxAttempts
    BY DEF Iterate!After, Iterate!Exhausted
  <2> QED  BY <2>2, <2>4, <2>5, <2>6 DEF Counts
<1>4. CASE Iterate!EvaluatorFails
  <2>1. /\ Iterate!After(HalfPasses) \in {"end", "reflector"}
        /\ Iterate!After(HalfPasses) = "reflector" => attempts.round < MaxAttempts
    BY DEF Iterate!After, Iterate!Exhausted
  <2> QED  BY <1>4, <2>1 DEF Iterate!EvaluatorFails, Counts
<1>5. CASE Iterate!Malformed
  BY <1>5 DEF Iterate!Malformed, Counts
<1>6. CASE Iterate!Reflect
  BY <1>6 DEF Iterate!Reflect, Counts
<1> QED  BY <1>1, <1>2, <1>3, <1>4, <1>5, <1>6 DEF Iterate!Next

\* A permanent failure reaches the reflector, and the reflector stops.
LEMMA PermanentStep ==
  ASSUME ToolInv, PermanentInv, Tools!Next
  PROVE  PermanentInv'
<1> USE DEF PermanentInv, NonePermanent
<1>1. tools \in ToolRun
  BY DEF ToolInv
<1>2. CASE Tools!Select \/ Tools!Lost \/ Tools!Synthesise
  BY <1>1, <1>2 DEF Tools!Select, Tools!Lost, Tools!Synthesise, ToolRun
<1>3. CASE Tools!Execute
  <2>1. tools.node = "executor"
    BY <1>3 DEF Tools!Execute
  <2>2. PICK how \in [tools.calls -> Tools!Outcome] :
           LET ran == {<<c, how[c]>> : c \in tools.calls} IN
           tools' = [tools EXCEPT !.latest = ran, !.results = @ \cup ran,
                                  !.rounds = @ + 1, !.node = "evaluator"]
    BY <1>3 DEF Tools!Execute
  <2>3. PICK ran : ran = {<<c, how[c]>> : c \in tools.calls}
    OBVIOUS
  <2>4. /\ tools'.latest = ran /\ tools'.results = tools.results \cup ran
        /\ tools'.node = "evaluator"
    BY <1>1, <2>2, <2>3 DEF ToolRun
  <2> QED  BY <2>1, <2>4
<1>4. CASE Tools!Evaluate
  <2>1. /\ tools'.failed = Tools!Failing(tools.latest) /\ tools'.results = tools.results
        /\ tools'.node \in {"reflector", "synthesiser"} /\ tools.node = "evaluator"
    BY <1>1, <1>4 DEF Tools!Evaluate, ToolRun
  <2> QED  BY <2>1 DEF Tools!Failing
<1>5. CASE Tools!Reflect
  <2>1. PICK corrections \in SUBSET Call, giveUp \in BOOLEAN :
           LET stop == giveUp \/ Tools!Permanent(tools.failed) IN
           tools' = [tools EXCEPT !.calls = corrections, !.retries = @ + 1,
                        !.gaveUp = stop,
                        !.node = IF stop \/ tools.rounds >= MaxIterations
                                 THEN "synthesiser" ELSE "selector"]
    BY <1>5 DEF Tools!Reflect
  <2>2. /\ tools.node = "reflector" /\ tools'.results = tools.results
        /\ tools'.node \in {"synthesiser", "selector"}
        /\ tools'.node = "selector" => ~Tools!Permanent(tools.failed)
    BY <1>1, <1>5, <2>1 DEF Tools!Reflect, ToolRun
  <2> QED  BY <2>2 DEF Tools!Permanent
<1> QED  BY <1>2, <1>3, <1>4, <1>5 DEF Tools!Next

\* A verdict is replaced with the attempt it is about, and a failing evaluator
\* replaces neither.
LEMMA AcceptedStep ==
  ASSUME AttemptInv, AcceptedInv, Iterate!Next
  PROVE  AcceptedInv'
<1> USE DEF AcceptedInv
<1>1. attempts \in AttemptRun
  BY DEF AttemptInv
<1>2. CASE Iterate!Evaluate
  <2>1. PICK passed \in BOOLEAN, good \in BOOLEAN :
           LET converged == passed \/ good IN
           attempts' = [attempts EXCEPT !.node = Iterate!After(passed),
              !.passed = passed, !.converged = converged,
              !.final = Iterate!Final(converged),
              !.accepted = IF converged THEN @ \cup {attempts.output} ELSE @,
              !.scored = attempts.output]
    BY <1>2 DEF Iterate!Evaluate
  <2>2. PICK converged : converged = (passed \/ good)
    OBVIOUS
  <2>3. /\ attempts'.converged = converged
        /\ attempts'.final = Iterate!Final(converged)
        /\ attempts'.accepted = IF converged THEN attempts.accepted \cup {attempts.output}
                                ELSE attempts.accepted
    BY <1>1, <2>1, <2>2, Zenon DEF AttemptRun
  <2>4. converged => Iterate!Final(converged) = attempts.output
    BY <2>2 DEF Iterate!Final
  <2> QED  BY <2>3, <2>4
<1>3. CASE \/ Iterate!Generate \/ Iterate!GeneratorFails \/ Iterate!EvaluatorFails
           \/ Iterate!Malformed \/ Iterate!Reflect
  <2>1. UNCHANGED <<attempts.converged, attempts.final, attempts.accepted>>
    BY <1>1, <1>3 DEF Iterate!Generate, Iterate!GeneratorFails, Iterate!EvaluatorFails,
       Iterate!Malformed, Iterate!Reflect, AttemptRun
  <2> QED  BY <2>1
<1> QED  BY <1>2, <1>3 DEF Iterate!Next

\* The pipeline retrieves at most MaxHops times, and always once.
LEMMA RagStep ==
  ASSUME RagInv, Rag!Next
  PROVE  RagInv' /\ Counts(rag.hops, rag'.hops, RoundLimit["chat"])
<1> USE RouteAssumption DEF RagInv, RagRun
<1>1. CASE Rag!Plan
  <2>1. PICK planned \in SUBSET Query :
           rag' = [rag EXCEPT !.queries = planned \cup {Question}, !.node = "retriever"]
    BY <1>1 DEF Rag!Plan
  <2>2. planned \cup {Question} \in SUBSET Query
    OBVIOUS
  <2> QED  BY <1>1, <2>1, <2>2 DEF Rag!Plan, Counts
<1>2. CASE Rag!Raises
  BY <1>2 DEF Rag!Raises, Counts
<1>3. CASE Rag!Retrieve
  <2>1. rag.hops < RoundLimit["chat"]
    BY <1>3 DEF Rag!Retrieve, RoundLimit, Kind, AtLeastOne
  <2>2. PICK found \in SUBSET Passage :
           rag' = [rag EXCEPT !.passages = found, !.hops = @ + 1, !.node = "critic"]
    BY <1>3 DEF Rag!Retrieve
  <2> DEFINE next == rag.hops + 1
  <2>3. next \in Nat
    OBVIOUS
  <2>4. rag' = [rag EXCEPT !.passages = found, !.hops = next, !.node = "critic"]
    BY <2>2
  <2>5. rag'.hops = next /\ rag'.node = "critic"
    BY <2>4
  <2>6. rag' \in RagRun
    <3> HIDE DEF next
    <3> QED  BY <2>3, <2>4
  <2> QED  BY <2>1, <2>5, <2>6 DEF Counts
<1>4. CASE Rag!Settle
  BY <1>4 DEF Rag!Settle, Rag!Route, Counts
<1>5. CASE Rag!Judge
  <2>1. PICK kept \in SUBSET rag.passages, missing \in SUBSET Query, more \in BOOLEAN :
           rag' = [rag EXCEPT !.approved = kept, !.more = more,
                      !.queries = @ \cup missing, !.node = Rag!Route(more)]
    BY <1>5, Zenon DEF Rag!Judge
  <2> QED  BY <1>5, <2>1 DEF Rag!Judge, Rag!Route, Counts
<1>6. CASE Rag!Synthesise
  BY <1>6 DEF Rag!Synthesise, Counts
<1> QED  BY <1>1, <1>2, <1>3, <1>4, <1>5, <1>6 DEF Rag!Next
-----------------------------------------------------------------------------
(***************************************************************************)
(* The endpoints.                                                          *)
(***************************************************************************)

\* The loop counts a round when the model asks for tools, and only below its
\* limit.
LEMMA ReactStep ==
  ASSUME round \in Nat, React!Next
  PROVE  round' \in Nat /\ Counts(round, round', RoundLimit["react"])
<1>1. ASSUME NEW n \in React!Place, NEW asked \in [1..n -> Call],
             React!AskTools(n, asked)
      PROVE  round' \in Nat /\ Counts(round, round', RoundLimit["react"])
  BY <1>1, RouteAssumption DEF React!AskTools, RoundLimit, Kind, Counts
<1>2. CASE React!Reply
  BY <1>2 DEF React!Reply, Counts
<1>3. CASE React!Gathered
  BY <1>3 DEF React!Gathered, Counts
<1>4. ASSUME NEW i \in React!Place, React!CallStep(i)
      PROVE  round' = round
  BY <1>4 DEF React!CallStep, React!Block, React!Memoize, React!Dispatch,
     React!AnswerAtOnce, React!Return
<1> QED  BY <1>1, <1>2, <1>3, <1>4 DEF React!Next, React!AskSome, Counts

\* A fresh request has counted nothing.
LEMMA RunInvInit == Init => RunInv /\ Bounded!Init
<1> SUFFICES ASSUME Init PROVE RunInv /\ Bounded!Init
  OBVIOUS
<1>1. kind = "none" /\ status = 0 /\ round = 0
  BY DEF Init, React!Init
<1>2. tools = Tools!Start /\ attempts = Iterate!Start /\ rag = Rag!Start
  BY DEF Init, Tools!Init, Iterate!Init, Rag!Init
<1>3. ToolInv
  BY <1>2, RouteAssumption DEF ToolInv, ToolRun, Tools!Start
<1>4. AttemptInv
  BY <1>2 DEF AttemptInv, AttemptRun, Iterate!Start
<1>5. RagInv /\ PermanentInv /\ AcceptedInv
  BY <1>2 DEF PermanentInv, NonePermanent, Tools!Start, AcceptedInv, Iterate!Start,
     RagInv, RagRun, Rag!Start
<1>6. Rounds = 0
  BY <1>1 DEF Rounds
<1> QED
  BY <1>1, <1>2, <1>3, <1>4, <1>5, <1>6 DEF RunInv, Bounded!Init

\* A step of the endpoint's own graph counts one round below the limit or none.
LEMMA CountedStep ==
  ASSUME kind \in Kind, status = 0, UNCHANGED <<kind, status>>,
         Counts(Rounds, Rounds', RoundLimit[kind])
  PROVE  Bounded!Round \/ UNCHANGED Bounded!vars
<1>1. CASE Rounds' = Rounds
  BY <1>1 DEF Bounded!vars
<1>2. CASE Rounds' = Rounds + 1 /\ Rounds < RoundLimit[kind]
  BY <1>2 DEF Bounded!Round, Kind
<1> QED  BY <1>1, <1>2 DEF Counts

\* Every step keeps the invariant, and is a step of BoundedRun or a stutter.
LEMMA RouteStep ==
  ASSUME RunInv, [Next]_vars
  PROVE  RunInv' /\ (Bounded!Next \/ UNCHANGED Bounded!vars)
<1> USE DEF RunInv, Kind
<1>1. CASE Accept
  <2>1. kind' \in Kind /\ kind = "none" /\ UNCHANGED <<status, react, tools, attempts, rag>>
    BY <1>1 DEF Accept
  <2>2. RunInv'
    BY <2>1 DEF react, ToolInv, AttemptInv, RagInv, PermanentInv, AcceptedInv
  <2>3. round = 0 /\ tools.rounds = 0 /\ attempts.round = 0 /\ rag.hops = 0
    BY <2>1 DEF Tools!Start, Iterate!Start, Rag!Start
  <2>4. Rounds = 0 /\ Rounds' = 0
    BY <2>1, <2>3 DEF Rounds, react
  <2> QED  BY <2>1, <2>2, <2>4 DEF Bounded!Next, Bounded!Accept
<1>2. CASE Refuse \/ Respond
  <2>1. /\ kind \in Kind /\ status = 0 /\ status' # 0
        /\ UNCHANGED <<kind, react, tools, attempts, rag>>
    BY <1>2 DEF Refuse, Respond, Open
  <2>2. RunInv'
    BY <2>1 DEF react, ToolInv, AttemptInv, RagInv, PermanentInv, AcceptedInv
  <2>3. Rounds' = Rounds
    BY <2>1 DEF Rounds, react
  <2> QED  BY <2>1, <2>2, <2>3 DEF Bounded!Next, Bounded!Answer
<1>3. CASE RunReact
  <2>1. /\ kind = "react" /\ status = 0 /\ React!Next
        /\ UNCHANGED <<kind, status, tools, attempts, rag>>
    BY <1>3 DEF RunReact, Open
  <2>2. round' \in Nat /\ Counts(round, round', RoundLimit["react"])
    BY <2>1, ReactStep
  <2>3. RunInv'
    BY <2>1, <2>2 DEF ToolInv, AttemptInv, RagInv, PermanentInv, AcceptedInv
  <2>4. Rounds = round /\ Rounds' = round'
    BY <2>1 DEF Rounds
  <2> QED  BY <2>1, <2>2, <2>3, <2>4, CountedStep DEF Bounded!Next
<1>4. CASE RunTools
  <2>1. /\ kind = "tools" /\ status = 0 /\ Tools!Next
        /\ UNCHANGED <<kind, status, react, attempts, rag>>
    BY <1>4 DEF RunTools, Open
  <2>2. ToolInv' /\ Counts(tools.rounds, tools'.rounds, RoundLimit["tools"])
    BY <2>1, ToolStep
  <2>3. RunInv'
    BY <2>1, <2>2, PermanentStep DEF react, AttemptInv, RagInv, AcceptedInv
  <2>4. Rounds = tools.rounds /\ Rounds' = tools'.rounds
    BY <2>1 DEF Rounds
  <2> QED  BY <2>1, <2>2, <2>3, <2>4, CountedStep DEF Bounded!Next
<1>5. CASE RunIterate
  <2>1. /\ kind = "iterate" /\ status = 0 /\ Iterate!Next
        /\ UNCHANGED <<kind, status, react, tools, rag>>
    BY <1>5 DEF RunIterate, Open
  <2>2. AttemptInv' /\ Counts(attempts.round, attempts'.round, RoundLimit["iterate"])
    BY <2>1, AttemptStep
  <2>3. RunInv'
    BY <2>1, <2>2, AcceptedStep DEF react, ToolInv, RagInv, PermanentInv
  <2>4. Rounds = attempts.round /\ Rounds' = attempts'.round
    BY <2>1 DEF Rounds
  <2> QED  BY <2>1, <2>2, <2>3, <2>4, CountedStep DEF Bounded!Next
<1>6. CASE RunRag
  <2>1. /\ kind = "chat" /\ status = 0 /\ Rag!Next
        /\ UNCHANGED <<kind, status, react, tools, attempts>>
    BY <1>6 DEF RunRag, Open
  <2>2. RagInv' /\ Counts(rag.hops, rag'.hops, RoundLimit["chat"])
    BY <2>1, RagStep
  <2>3. RunInv'
    BY <2>1, <2>2 DEF react, ToolInv, AttemptInv, PermanentInv, AcceptedInv
  <2>4. Rounds = rag.hops /\ Rounds' = rag'.hops
    BY <2>1 DEF Rounds
  <2> QED  BY <2>1, <2>2, <2>3, <2>4, CountedStep DEF Bounded!Next
<1>7. CASE UNCHANGED vars
  <2>1. Rounds' = Rounds
    BY <1>7 DEF vars, react, Rounds
  <2>2. RunInv'
    BY <1>7 DEF vars, react, ToolInv, AttemptInv, RagInv, PermanentInv, AcceptedInv
  <2> QED  BY <1>7, <2>1, <2>2 DEF vars, Bounded!vars
<1> QED  BY <1>1, <1>2, <1>3, <1>4, <1>5, <1>6, <1>7 DEF Next, Work

\* Whatever a client sends, the model answers and the tools do, a request takes
\* at most the rounds of its kind and is answered once.
THEOREM Bounds == Spec => ImplementsBoundedRun
<1>1. RunInv /\ [Next]_vars => RunInv' /\ [Bounded!Next]_(Bounded!vars)
  BY RouteStep
<1> QED  BY <1>1, RunInvInit, PTL DEF Spec, ImplementsBoundedRun, Bounded!Spec

\* The invariant of a request.
LEMMA RunInvariant == Spec => []RunInv
  BY RunInvInit, RouteStep, PTL DEF Spec

\* "Permanent failures are not retried": once a call has failed for good nothing is
\* selected or executed any more (SelfHealingToolGraph, _reflector_node).
THEOREM PermanentFailureStops == Spec => []PermanentNotRetried
<1>1. RunInv => PermanentNotRetried
  BY DEF RunInv, PermanentInv, NonePermanent, PermanentNotRetried
<1> QED  BY <1>1, RunInvariant, PTL

\* A response that says it converged returns an attempt the evaluator accepted
\* (AutonomousIterationGraph.run), whatever failed after the acceptance.
THEOREM ConvergedIsAccepted == Spec => []ConvergedWasAccepted
<1>1. RunInv => ConvergedWasAccepted
  BY DEF RunInv, AttemptInv, AttemptRun, AcceptedInv, ConvergedWasAccepted, Iterate!Returned
<1> QED  BY <1>1, RunInvariant, PTL
=============================================================================
