------------------------------ MODULE ReActLoop ------------------------------
(***************************************************************************)
(* One ReActGraph.run(): the loop of agent node and tool node in           *)
(* backend/agent/react_graph.py, with the ToolCallGuard of                 *)
(* backend/agent/guardrails.py that lives as long as the run.              *)
(*                                                                         *)
(* The model asks for a batch of tool calls, the tool node gathers one     *)
(* coroutine per call, and the messages of the run accumulate.  A call is  *)
(* a (tool, arguments) pair, identified with its hash; trace[r][i] is the  *)
(* i-th call of the r-th AIMessage with tool calls and what its            *)
(* ToolMessage says.                                                       *)
(***************************************************************************)
EXTENDS Integers, FiniteSets

CONSTANTS Call, Tool,   \* (tool, arguments) pairs; tools
          ToolOf,       \* [Call -> Tool]
          FailLimit,    \* CONSECUTIVE_FAILURE_LIMIT
          MaxRounds,    \* max_rounds of the run; anything below 1 acts as 1
          MaxBatch,     \* bound on the calls of one AIMessage
          History       \* the request carries an earlier assistant turn

ASSUME CallAssumption  == ToolOf \in [Call -> Tool]
ASSUME LimitAssumption == FailLimit \in Nat \ {0} /\ MaxRounds \in Nat \ {0}
ASSUME BatchAssumption == MaxBatch \in Nat \ {0} /\ History \in BOOLEAN

VARIABLES node,      \* where the graph is
          round,     \* AIMessages with tool calls so far
          trace,     \* their calls and results
          answer,    \* who wrote the last non-empty text: what run() returns
          counts,    \* guard._call_counts
          cache,     \* guard._call_cache
          fails,     \* guard._consec_fail
          disabled   \* guard._disabled_tools

guard == <<counts, cache, fails, disabled>>
vars  == <<node, round, trace, answer, guard>>

Round == 1..MaxRounds
Place == 1..MaxBatch
Slot  == Round \X Place

Executed == {"ok", "error"}
Memo     == {"memo_ok", "memo_error"}
Settled  == Executed \cup Memo \cup {"blocked"}
Outcome  == Settled \cup {"new", "running"}

Nothing == [call |-> "none", state |-> "absent"]
CallOf(s)  == trace[s[1]][s[2]].call
StateOf(s) == trace[s[1]][s[2]].state
Asked(s)   == StateOf(s) # "absent"

Init == /\ node = "agent"
        /\ round = 0
        /\ trace = [r \in Round |-> [i \in Place |-> Nothing]]
        /\ answer = IF History THEN "history" ELSE "none"
        /\ counts = [c \in Call |-> 0]
        /\ cache = [c \in Call |-> "none"]
        /\ fails = [t \in Tool |-> 0]
        /\ disabled = {}

(***************************************************************************)
(* The agent node and _should_continue.  A message with tool calls may     *)
(* carry text too; one that is the max_rounds-th ends the run with its     *)
(* calls unexecuted.                                                       *)
(***************************************************************************)
AskTools(n, asked) ==
    /\ node = "agent"
    /\ round < MaxRounds
    /\ round' = round + 1
    /\ trace' = [trace EXCEPT ![round + 1] =
                    [i \in Place |-> IF i <= n
                                     THEN [call |-> asked[i], state |-> "new"]
                                     ELSE Nothing]]
    /\ answer' \in {answer, "draft"}
    /\ node' = IF round + 1 >= MaxRounds THEN "end" ELSE "tools"
    /\ UNCHANGED guard

\* A message without tool calls ends the run.  An LLM failure becomes the text
\* "I encountered an error: ..."; an empty message leaves the earlier text.
Reply ==
    /\ node = "agent"
    /\ node' = "end"
    /\ answer' \in {answer, "final"}
    /\ UNCHANGED <<round, trace, guard>>

(***************************************************************************)
(* The tool node.  gather starts the coroutines in order, and every one    *)
(* runs to its first suspension before a suspended call can come back; a   *)
(* call refused or answered without suspending is recorded on the spot.    *)
(***************************************************************************)
Here(i) == trace[round][i]

Settle(i, state) == trace' = [trace EXCEPT ![round][i].state = state]

\* Mutant: failures are counted over the whole run.
StreakCumulative(t, result) == IF result = "ok" THEN fails[t] ELSE fails[t] + 1
Streak(t, result)           == IF result = "ok" THEN 0 ELSE fails[t] + 1

Trips(t, result)     == result = "error" /\ fails[t] + 1 >= FailLimit

\* Mutant: the breaker follows the latest result.
DisabledAfterLatest(t, result) ==
    IF Trips(t, result) THEN disabled \cup {t} ELSE disabled \ {t}
DisabledAfter(t, result) ==
    IF Trips(t, result) THEN disabled \cup {t} ELSE disabled

Record(c, result) ==
    LET t == ToolOf[c] IN
    /\ counts' = [counts EXCEPT ![c] = @ + 1]
    /\ cache' = [cache EXCEPT ![c] = IF @ = "none" THEN result ELSE @]
    /\ fails' = [fails EXCEPT ![t] = Streak(t, result)]
    /\ disabled' = DisabledAfter(t, result)

\* ToolCallGuard.check: blocked, answered from the cache, or executed.
Refuses(c)  == ToolOf[c] \in disabled \/ counts[c] >= 2
\* Mutant: the first call already counts as a duplicate.
MemoizesFirst(c) == ToolOf[c] \notin disabled /\ counts[c] <= 1
Memoizes(c)      == ToolOf[c] \notin disabled /\ counts[c] = 1

\* Mutant: the count is not looked at.
AdmitsRepeated(c) == ToolOf[c] \notin disabled
Admits(c)         == ToolOf[c] \notin disabled /\ counts[c] = 0

Turn(i) == /\ node = "tools"
           /\ Here(i).state = "new"
           /\ \A j \in Place : j < i => Here(j).state # "new"

Block(i) ==
    /\ Turn(i)
    /\ Refuses(Here(i).call)
    /\ Settle(i, "blocked")
    /\ UNCHANGED <<node, round, answer, guard>>

Memoize(i) ==
    /\ Turn(i)
    /\ Memoizes(Here(i).call)
    /\ Settle(i, IF cache[Here(i).call] = "ok" THEN "memo_ok" ELSE "memo_error")
    /\ UNCHANGED <<node, round, answer, guard>>

Dispatch(i) ==
    /\ Turn(i)
    /\ Admits(Here(i).call)
    /\ Settle(i, "running")
    /\ UNCHANGED <<node, round, answer, guard>>

AnswerAtOnce(i) ==
    /\ Turn(i)
    /\ Admits(Here(i).call)
    /\ \E result \in Executed : Settle(i, result) /\ Record(Here(i).call, result)
    /\ UNCHANGED <<node, round, answer>>

Return(i) ==
    /\ node = "tools"
    /\ Here(i).state = "running"
    /\ \A j \in Place : Here(j).state # "new"
    /\ \E result \in Executed : Settle(i, result) /\ Record(Here(i).call, result)
    /\ UNCHANGED <<node, round, answer>>

\* Mutant: the round ends with the first result.
GatheredEarly ==
    /\ node = "tools"
    /\ \E i \in Place : Here(i).state \in Settled
    /\ node' = "agent"
    /\ UNCHANGED <<round, trace, answer, guard>>

Gathered ==
    /\ node = "tools"
    /\ \A i \in Place : Here(i).state \notin {"new", "running"}
    /\ node' = "agent"
    /\ UNCHANGED <<round, trace, answer, guard>>

AskSome == \E n \in Place : \E asked \in [1..n -> Call] : AskTools(n, asked)

CallStep(i) == Block(i) \/ Memoize(i) \/ Dispatch(i) \/ AnswerAtOnce(i) \/ Return(i)

Next == \/ AskSome \/ Reply \/ Gathered
        \/ \E i \in Place : CallStep(i)

Spec == Init /\ [][Next]_vars
-----------------------------------------------------------------------------
(***************************************************************************)
(* Properties.                                                             *)
(***************************************************************************)
\* The shape of the run's messages and of the guard.
TypeOK ==
    /\ node \in {"agent", "tools", "end"}
    /\ round \in 0..MaxRounds
    /\ trace \in [Round -> [Place ->
          [call : Call, state : Outcome] \cup {Nothing}]]
    /\ answer \in {"none", "history", "draft", "final"}
    /\ counts \in [Call -> Nat]
    /\ cache \in [Call -> Executed \cup {"none"}]
    /\ fails \in [Tool -> Nat]
    /\ disabled \in SUBSET Tool

\* Memoization across rounds: whatever the tools answer and however the calls
\* of a batch overlap, all executions of one call are in one round.
ExecutedInOneRound ==
    \A s, u \in Slot :
        /\ StateOf(s) \in Executed \cup {"running"}
        /\ StateOf(u) \in Executed \cup {"running"}
        /\ CallOf(s) = CallOf(u)
        => s[1] = u[1]

\* A memoized answer repeats the result of an execution the messages already
\* hold: the "(no cached result available)" default is never served.
MemoRepeatsResult ==
    \A s \in Slot : StateOf(s) \in Memo =>
        \E u \in Slot : /\ CallOf(u) = CallOf(s)
                        /\ StateOf(u) = IF StateOf(s) = "memo_ok" THEN "ok" ELSE "error"

Failures(t) == {s \in Slot : StateOf(s) = "error" /\ ToolOf[CallOf(s)] = t}
Successes(t) == {s \in Slot : StateOf(s) = "ok" /\ ToolOf[CallOf(s)] = t}

\* The breaker trips only on consecutive failures: a disabled tool failed
\* FailLimit times with no success in a round between the first and the last.
TrippedByConsecutiveFailures ==
    \A t \in disabled : \E F \in SUBSET Failures(t) :
        /\ Cardinality(F) = FailLimit
        /\ \A s, u \in F, w \in Successes(t) : ~(s[1] < w[1] /\ w[1] < u[1])

\* The breaker does trip: from any round on, a tool that failed FailLimit times
\* and did not succeed is disabled.
ConsecutiveFailuresTrip ==
    \A t \in Tool, r \in Round :
        /\ Cardinality({s \in Failures(t) : s[1] >= r}) >= FailLimit
        /\ \A w \in Successes(t) : w[1] < r
        => t \in disabled

\* FailLimit consecutive failures trip the breaker, and nothing else does.
BreakerIsExact == TrippedByConsecutiveFailures /\ ConsecutiveFailuresTrip

\* A tool stays disabled for the remainder of the run and none of its calls
\* starts: a tripped breaker and a started call never come in that order.
DisabledStays ==
    [][/\ disabled \subseteq disabled'
       /\ \A s \in Slot : /\ StateOf(s) = "new"
                          /\ StateOf(s)' \in Executed \cup {"running"}
                          => ToolOf[CallOf(s)] \notin disabled]_vars

\* "3rd+ is blocked": of three identical calls made in different rounds the
\* last one is blocked.
ThirdIdenticalBlocked ==
    \A s, u, w \in Slot :
        /\ StateOf(s) \in Settled /\ StateOf(u) \in Settled /\ StateOf(w) \in Settled
        /\ CallOf(s) = CallOf(u) /\ CallOf(u) = CallOf(w)
        /\ s[1] < u[1] /\ u[1] < w[1]
        => StateOf(w) = "blocked"

\* "The exact same (tool, args) pair seen again returns the cached result": no
\* two executions of one call.
IdenticalRunsOnce ==
    \A s, u \in Slot :
        /\ StateOf(s) \in Executed /\ StateOf(u) \in Executed
        /\ CallOf(s) = CallOf(u)
        => s = u

\* "ReAct loop hit max_rounds -- forcing final answer": a run that used up its
\* rounds returns a final answer, not the text of a message that wanted tools.
MaxRoundsForcesAnswer ==
    node = "end" /\ round = MaxRounds => answer = "final"

\* "ReAct loop completed with no final text response": the response of a run is
\* a text of that run, or the empty one that the route answers with 502.
ResponseIsOfThisRun == node = "end" => answer # "history"
=============================================================================
