--------------------------- MODULE ReActLoopProofs ---------------------------
(***************************************************************************)
(* What one run of the ReAct loop keeps for every set of tools and calls,  *)
(* every number of rounds and every batch size: the messages and the guard *)
(* agree, so an identical call is executed in one round only, and what is  *)
(* served from the cache is the result of an execution in the messages;    *)
(* and the breaker trips on FailLimit consecutive failures, not otherwise. *)
(***************************************************************************)
EXTENDS ReActLoop, FiniteSetTheorems, TLAPS

Pending == {"new", "running"}

\* The tool node works on the last batch of calls; only there are calls open.
OpenCallsAreLast ==
    /\ node = "tools" => round \in Round
    /\ \A s \in Slot : Asked(s) => s[1] <= round
    /\ \A s \in Slot : StateOf(s) \in Pending => s[1] = round /\ node # "agent"

\* The guard counts every execution the messages report.
ExecutionsCounted ==
    \A s \in Slot : StateOf(s) \in Executed => counts[CallOf(s)] > 0

\* What the guard has cached is the result of an execution in the messages.
CacheFromMessages ==
    \A c \in Call :
        /\ counts[c] = 0 => cache[c] = "none"
        /\ counts[c] > 0 => \E s \in Slot : /\ CallOf(s) = c
                                            /\ StateOf(s) = cache[c]
                                            /\ StateOf(s) \in Executed

GuardInv == /\ TypeOK
            /\ OpenCallsAreLast
            /\ ExecutionsCounted
            /\ CacheFromMessages
            /\ ExecutedInOneRound
            /\ MemoRepeatsResult

Entry == [call : Call, state : Outcome] \cup {Nothing}

-----------------------------------------------------------------------------
(***************************************************************************)
(* Slots: how a step of the loop changes the messages.                     *)
(***************************************************************************)

\* Every slot holds nothing or a call with its outcome.
LEMMA SlotTypes ==
    ASSUME TypeOK, NEW s \in Slot
    PROVE  /\ StateOf(s) \in Outcome \cup {"absent"}
           /\ Asked(s) => CallOf(s) \in Call
<1>1. s[1] \in Round /\ s[2] \in Place
  BY DEF Slot
<1>2. trace[s[1]][s[2]] \in Entry
  BY <1>1 DEF TypeOK, Entry
<1> QED
  BY <1>2 DEF Entry, Nothing, StateOf, CallOf, Asked, Outcome, Settled, Executed, Memo

\* Settle rewrites the state of one call of the current batch.
LEMMA SettleEffect ==
    ASSUME TypeOK, round \in Round, NEW i \in Place, NEW st \in Outcome,
           Here(i).state # "absent", Settle(i, st), UNCHANGED round
    PROVE  /\ trace' \in [Round -> [Place -> Entry]]
           /\ <<round, i>> \in Slot
           /\ StateOf(<<round, i>>) = Here(i).state
           /\ CallOf(<<round, i>>) = Here(i).call
           /\ Here(i).call \in Call
           /\ \A s \in Slot : CallOf(s)' = CallOf(s)
           /\ \A s \in Slot : s # <<round, i>> => StateOf(s)' = StateOf(s)
           /\ StateOf(<<round, i>>)' = st
<1>1. trace \in [Round -> [Place -> Entry]]
  BY DEF TypeOK, Entry
<1>2. Here(i) \in [call : Call, state : Outcome]
  <2>1. Here(i) \in Entry
    BY <1>1 DEF Here
  <2> QED
    BY <2>1 DEF Entry, Nothing
<1> DEFINE e == [Here(i) EXCEPT !.state = st]
<1>3. e \in Entry /\ e.state = st /\ e.call = Here(i).call
  BY <1>2 DEF Entry
<1>4. trace' = [trace EXCEPT ![round][i] = e]
  BY <1>1, <1>2 DEF Settle, Here
<1> HIDE DEF e
<1>5. trace' \in [Round -> [Place -> Entry]]
  BY <1>1, <1>3, <1>4
<1>6. ASSUME NEW s \in Slot
      PROVE  /\ s[1] \in Round /\ s[2] \in Place /\ s = <<s[1], s[2]>>
             /\ trace'[s[1]][s[2]] = IF s = <<round, i>> THEN e
                                      ELSE trace[s[1]][s[2]]
  BY <1>1, <1>4 DEF Slot
<1>7. \A s \in Slot : CallOf(s)' = CallOf(s)
  BY <1>3, <1>6 DEF CallOf, Here
<1>8. \A s \in Slot : s # <<round, i>> => StateOf(s)' = StateOf(s)
  BY <1>6 DEF StateOf
<1>9. <<round, i>> \in Slot
  BY DEF Slot
<1>10. StateOf(<<round, i>>)' = st
  BY <1>3, <1>6, <1>9 DEF StateOf
<1> QED
  BY <1>2, <1>5, <1>7, <1>8, <1>9, <1>10 DEF StateOf, CallOf, Here

\* AskTools opens a batch in a round that held none.
LEMMA AskEffect ==
    ASSUME TypeOK, NEW n \in Place, NEW asked \in [1..n -> Call], AskTools(n, asked)
    PROVE  /\ trace' \in [Round -> [Place -> Entry]]
           /\ round' = round + 1 /\ round' \in Round
           /\ \A s \in Slot : s[1] # round' =>
                 StateOf(s)' = StateOf(s) /\ CallOf(s)' = CallOf(s)
           /\ \A s \in Slot : s[1] = round' => StateOf(s)' \in {"new", "absent"}
<1>1. trace \in [Round -> [Place -> Entry]] /\ round \in 0..MaxRounds
  BY DEF TypeOK, Entry
<1> DEFINE batch == [i \in Place |-> IF i <= n THEN [call |-> asked[i], state |-> "new"]
                                      ELSE Nothing]
<1>2. batch \in [Place -> Entry]
      /\ \A i \in Place : batch[i].state \in {"new", "absent"}
  BY BatchAssumption DEF Entry, Nothing, Place, Outcome
<1>3. round' = round + 1 /\ round' \in Round
  BY <1>1, LimitAssumption DEF AskTools, Round
<1>4. trace' = [trace EXCEPT ![round'] = batch]
  BY <1>3 DEF AskTools
<1> HIDE DEF batch
<1>5. ASSUME NEW s \in Slot
      PROVE  trace'[s[1]][s[2]] = IF s[1] = round' THEN batch[s[2]]
                                  ELSE trace[s[1]][s[2]]
  BY <1>1, <1>3, <1>4 DEF Slot
<1>6. \A s \in Slot : s[2] \in Place
  BY DEF Slot
<1> QED
  BY <1>1, <1>2, <1>3, <1>4, <1>5, <1>6 DEF StateOf, CallOf

-----------------------------------------------------------------------------
(***************************************************************************)
(* The invariant.                                                          *)
(***************************************************************************)

\* A run starts with a fresh guard and no call.
LEMMA GuardInvInit == Init => GuardInv
<1> SUFFICES ASSUME Init PROVE GuardInv
  OBVIOUS
<1>1. \A s \in Slot : StateOf(s) = "absent"
  BY DEF Init, Slot, StateOf, Nothing
<1>2. TypeOK
  BY LimitAssumption DEF Init, TypeOK, Nothing, Outcome, Settled, Executed, Memo
<1>3. OpenCallsAreLast /\ ExecutionsCounted /\ ExecutedInOneRound /\ MemoRepeatsResult
  BY <1>1 DEF Init, OpenCallsAreLast, Asked, Pending, ExecutionsCounted, Executed,
              ExecutedInOneRound, MemoRepeatsResult, Memo
<1>4. CacheFromMessages
  BY DEF Init, CacheFromMessages
<1> QED
  BY <1>2, <1>3, <1>4 DEF GuardInv

\* Asking for tools opens calls in a new round and executes none.
LEMMA AskKeeps ==
    ASSUME GuardInv, NEW n \in Place, NEW asked \in [1..n -> Call], AskTools(n, asked)
    PROVE  GuardInv'
<1>1. /\ round' = round + 1 /\ round' \in Round
      /\ \A s \in Slot : s[1] # round' =>
            StateOf(s)' = StateOf(s) /\ CallOf(s)' = CallOf(s)
      /\ \A s \in Slot : s[1] = round' => StateOf(s)' \in {"new", "absent"}
      /\ trace' \in [Round -> [Place -> Entry]]
  BY AskEffect DEF GuardInv
<1>2. round \in 0..MaxRounds /\ \A s \in Slot : s[1] \in Nat
  BY LimitAssumption DEF GuardInv, TypeOK, Slot, Round
<1>3. \A s \in Slot : Asked(s) => s[1] <= round /\ StateOf(s) \notin Pending
  BY DEF GuardInv, OpenCallsAreLast, AskTools
<1>4. \A s \in Slot : s[1] = round' => ~Asked(s)
  BY <1>1, <1>2, <1>3
<1>5. TypeOK'
  BY <1>1, <1>2 DEF GuardInv, TypeOK, AskTools, guard, Entry, Round
<1>6. OpenCallsAreLast'
  BY <1>1, <1>2, <1>3 DEF OpenCallsAreLast, AskTools, Asked, Pending
<1>7. ExecutionsCounted'
  BY <1>1 DEF GuardInv, ExecutionsCounted, Executed, AskTools, guard
<1>8. CacheFromMessages'
  BY <1>1, <1>4 DEF GuardInv, CacheFromMessages, AskTools, guard, Asked, Executed
<1>9. ExecutedInOneRound'
  BY <1>1 DEF GuardInv, ExecutedInOneRound, Executed
<1>10. MemoRepeatsResult'
  BY <1>1, <1>4 DEF GuardInv, MemoRepeatsResult, Memo, Asked
<1> QED
  BY <1>5, <1>6, <1>7, <1>8, <1>9, <1>10 DEF GuardInv

\* A call that is blocked, memoized or dispatched leaves the guard as it is.
LEMMA UnrecordedKeeps ==
    ASSUME GuardInv, NEW i \in Place, Block(i) \/ Memoize(i) \/ Dispatch(i)
    PROVE  GuardInv'
<1> DEFINE here == <<round, i>>
           c == Here(i).call
<1>1. PICK st \in {"blocked", "memo_ok", "memo_error", "running"} :
         /\ Settle(i, st)
         /\ st = "running" => Admits(c)
         /\ st \in Memo => Memoizes(c) /\ (st = "memo_ok") = (cache[c] = "ok")
  BY DEF Block, Memoize, Dispatch, Memo
<1>2. /\ node = "tools" /\ Here(i).state = "new" /\ round \in Round
      /\ UNCHANGED <<node, round, answer, guard>>
  BY DEF Block, Memoize, Dispatch, Turn, GuardInv, OpenCallsAreLast
<1>3. /\ trace' \in [Round -> [Place -> Entry]]
      /\ here \in Slot /\ StateOf(here) = "new" /\ CallOf(here) = c /\ c \in Call
      /\ \A s \in Slot : CallOf(s)' = CallOf(s)
      /\ \A s \in Slot : s # here => StateOf(s)' = StateOf(s)
      /\ \A s \in Slot : s = here => StateOf(s)' = st
  <2>1. st \in Outcome
    BY DEF Outcome, Settled, Memo
  <2> QED
    BY <1>1, <1>2, <2>1, SettleEffect DEF GuardInv
<1>4. counts \in [Call -> Nat] /\ cache \in [Call -> Executed \cup {"none"}]
  BY DEF GuardInv, TypeOK
<1> HIDE DEF here, c
<1>5. TypeOK'
  BY <1>2, <1>3 DEF GuardInv, TypeOK, guard, Entry
<1>6. OpenCallsAreLast'
  BY <1>2, <1>3, here[1] = round DEF GuardInv, OpenCallsAreLast, Asked, Pending, here
<1>7. ExecutionsCounted'
  BY <1>1, <1>2, <1>3 DEF GuardInv, ExecutionsCounted, guard, Executed
<1>8. CacheFromMessages'
  BY <1>2, <1>3 DEF GuardInv, CacheFromMessages, guard, Executed
<1>9. ExecutedInOneRound'
  <2>1. st = "running" => \A s \in Slot : /\ CallOf(s) = c
                                          /\ StateOf(s) \in Executed \cup {"running"}
                                          => s[1] = round
    BY <1>1, <1>3, <1>4 DEF Admits, GuardInv, ExecutionsCounted, OpenCallsAreLast, Pending
  <2>2. here[1] = round
    BY DEF here
  <2> QED
    BY <1>1, <1>3, <2>1, <2>2 DEF GuardInv, ExecutedInOneRound, Executed
<1>10. MemoRepeatsResult'
  <2>1. st \in Memo => \E u \in Slot : /\ CallOf(u) = c
                                       /\ StateOf(u) = IF st = "memo_ok" THEN "ok"
                                                        ELSE "error"
    BY <1>1, <1>3, <1>4 DEF Memoizes, GuardInv, CacheFromMessages, Executed, Memo
  <2> QED
    BY <1>3, <2>1 DEF GuardInv, MemoRepeatsResult, Memo
<1> QED
  BY <1>5, <1>6, <1>7, <1>8, <1>9, <1>10 DEF GuardInv

\* A call that comes back is recorded with its result.
LEMMA RecordedKeeps ==
    ASSUME GuardInv, NEW i \in Place, AnswerAtOnce(i) \/ Return(i)
    PROVE  GuardInv'
<1> DEFINE here == <<round, i>>
           c == Here(i).call
<1>1. PICK result \in Executed : Settle(i, result) /\ Record(c, result)
  BY DEF AnswerAtOnce, Return
<1>2. /\ node = "tools" /\ round \in Round
      /\ UNCHANGED <<node, round, answer>>
      /\ \/ Here(i).state = "new" /\ Admits(c)
         \/ Here(i).state = "running"
  BY DEF AnswerAtOnce, Return, Turn, GuardInv, OpenCallsAreLast
<1>3. /\ trace' \in [Round -> [Place -> Entry]]
      /\ here \in Slot /\ StateOf(here) = Here(i).state /\ CallOf(here) = c
      /\ c \in Call
      /\ \A s \in Slot : CallOf(s)' = CallOf(s)
      /\ \A s \in Slot : s # here => StateOf(s)' = StateOf(s)
      /\ \A s \in Slot : s = here => StateOf(s)' = result
  <2>1. result \in Outcome
    BY DEF Outcome, Settled
  <2> QED
    BY <1>1, <1>2, <2>1, SettleEffect DEF GuardInv
<1>4. /\ counts \in [Call -> Nat] /\ cache \in [Call -> Executed \cup {"none"}]
      /\ fails \in [Tool -> Nat] /\ disabled \in SUBSET Tool /\ ToolOf[c] \in Tool
  BY <1>3, CallAssumption DEF GuardInv, TypeOK
<1> HIDE DEF here, c
<1>5. /\ counts' \in [Call -> Nat] /\ counts'[c] > 0
      /\ \A e \in Call : e # c => counts'[e] = counts[e] /\ cache'[e] = cache[e]
      /\ cache'[c] = IF cache[c] = "none" THEN result ELSE cache[c]
      /\ cache' \in [Call -> Executed \cup {"none"}]
      /\ fails' \in [Tool -> Nat] /\ disabled' \in SUBSET Tool
  BY <1>1, <1>3, <1>4 DEF Record, Streak, DisabledAfter
<1>6. TypeOK'
  BY <1>2, <1>3, <1>5 DEF GuardInv, TypeOK, Entry
<1>7. OpenCallsAreLast'
  BY <1>2, <1>3, here[1] = round DEF GuardInv, OpenCallsAreLast, Asked, Pending,
     Executed, here
<1>8. ExecutionsCounted'
  BY <1>3, <1>5, SlotTypes DEF GuardInv, ExecutionsCounted, Executed, Asked
<1>9. CacheFromMessages'
  <2>1. /\ \A s \in Slot : StateOf(s) \in Executed => StateOf(s)' = StateOf(s)
        /\ StateOf(here) \notin Executed
    BY <1>2, <1>3 DEF Executed
  <2> SUFFICES ASSUME NEW e \in Call
               PROVE  (/\ counts[e] = 0 => cache[e] = "none"
                       /\ counts[e] > 0 => \E s \in Slot : /\ CallOf(s) = e
                                                          /\ StateOf(s) = cache[e]
                                                          /\ StateOf(s) \in Executed)'
    BY DEF CacheFromMessages
  <2>2. CASE e # c
    BY <1>3, <1>5, <2>1, <2>2 DEF GuardInv, CacheFromMessages
  <2>3. CASE e = c /\ cache[c] = "none"
    BY <1>3, <1>5, <2>3
  <2>4. CASE e = c /\ cache[c] # "none"
    BY <1>3, <1>4, <1>5, <2>1, <2>4 DEF GuardInv, CacheFromMessages
  <2> QED
    BY <2>2, <2>3, <2>4
<1>10. ExecutedInOneRound'
  <2>1. \A s \in Slot : /\ CallOf(s) = c
                        /\ StateOf(s) \in Executed \cup {"running"}
                        => s[1] = round
    BY <1>2, <1>3, <1>4 DEF Admits, GuardInv, ExecutionsCounted, OpenCallsAreLast,
       Pending, ExecutedInOneRound, here
  <2>2. here[1] = round
    BY DEF here
  <2> QED
    BY <1>3, <2>1, <2>2 DEF GuardInv, ExecutedInOneRound
<1>11. MemoRepeatsResult'
  BY <1>2, <1>3 DEF GuardInv, MemoRepeatsResult, Memo, Executed
<1> QED
  BY <1>6, <1>7, <1>8, <1>9, <1>10, <1>11 DEF GuardInv

\* Every step of the run keeps the invariant.
LEMMA GuardInvStep == GuardInv /\ [Next]_vars => GuardInv'
<1> SUFFICES ASSUME GuardInv, [Next]_vars PROVE GuardInv'
  OBVIOUS
<1>1. CASE AskSome
  BY <1>1, AskKeeps DEF AskSome
<1>2. CASE Reply
  BY <1>2, SMTT(20) DEF Reply, GuardInv, TypeOK, OpenCallsAreLast, ExecutionsCounted,
     CacheFromMessages, ExecutedInOneRound, MemoRepeatsResult, StateOf, CallOf,
     Asked, Pending, guard
<1>3. CASE Gathered
  <2>1. \A s \in Slot : StateOf(s) \notin Pending
    BY <1>3 DEF Gathered, GuardInv, OpenCallsAreLast, Pending, Slot, StateOf, Here
  <2> QED
    BY <1>3, <2>1, SMTT(20) DEF Gathered, GuardInv, TypeOK, OpenCallsAreLast, ExecutionsCounted,
       CacheFromMessages, ExecutedInOneRound, MemoRepeatsResult, StateOf, CallOf,
       Asked, Pending, guard
<1>4. ASSUME NEW i \in Place, CallStep(i) PROVE GuardInv'
  BY <1>4, UnrecordedKeeps, RecordedKeeps DEF CallStep
<1>5. CASE UNCHANGED vars
  BY <1>5, SMTT(20) DEF vars, guard, GuardInv, TypeOK, OpenCallsAreLast, ExecutionsCounted,
     CacheFromMessages, ExecutedInOneRound, MemoRepeatsResult, StateOf, CallOf,
     Asked, Pending
<1> QED
  BY <1>1, <1>2, <1>3, <1>4, <1>5 DEF Next

\* The messages and the guard agree throughout the run.
LEMMA GuardInvariant == Spec => []GuardInv
  BY GuardInvInit, GuardInvStep, PTL DEF Spec

-----------------------------------------------------------------------------
\* Every reachable state has the declared shape.
THEOREM TypeCorrect == Spec => []TypeOK
<1>1. GuardInv => TypeOK
  BY DEF GuardInv
<1> QED
  BY <1>1, GuardInvariant, PTL

\* Memoization: an identical call is executed in one round of the run only,
\* however the calls of a round overlap and whatever they return.
THEOREM NoReexecution == Spec => []ExecutedInOneRound
<1>1. GuardInv => ExecutedInOneRound
  BY DEF GuardInv
<1> QED
  BY <1>1, GuardInvariant, PTL

\* A memoized answer is always the result of an execution of that very call.
THEOREM MemoIsGenuine == Spec => []MemoRepeatsResult
<1>1. GuardInv => MemoRepeatsResult
  BY DEF GuardInv
<1> QED
  BY <1>1, GuardInvariant, PTL

\* A tripped breaker stays tripped, and no call of its tool starts behind it.
THEOREM BreakerHolds == Spec => DisabledStays
<1> DEFINE Stays == /\ disabled \subseteq disabled'
                    /\ \A s \in Slot : /\ StateOf(s) = "new"
                                       /\ StateOf(s)' \in Executed \cup {"running"}
                                       => ToolOf[CallOf(s)] \notin disabled
<1>1. GuardInv /\ [Next]_vars => [Stays]_vars
  <2> SUFFICES ASSUME GuardInv, Next PROVE Stays
    OBVIOUS
  <2>1. CASE AskSome
    <3>1. PICK n \in Place : \E asked \in [1..n -> Call] : AskTools(n, asked)
      BY <2>1 DEF AskSome
    <3>2. PICK asked \in [1..n -> Call] : AskTools(n, asked)
      BY <3>1
    <3>3. \A s \in Slot : StateOf(s)' \in {"new", "absent"} \/ StateOf(s)' = StateOf(s)
      BY <3>2, AskEffect DEF GuardInv
    <3> QED
      BY <3>2, <3>3 DEF AskTools, guard, Executed
  <2>2. CASE Reply \/ Gathered
    BY <2>2 DEF Reply, Gathered, guard, StateOf, Executed
  <2>3. ASSUME NEW i \in Place, Block(i) \/ Memoize(i) \/ Dispatch(i) PROVE Stays
    <3>1. PICK st \in {"blocked", "memo_ok", "memo_error", "running"} :
             Settle(i, st) /\ (st = "running" => Admits(Here(i).call))
      BY <2>3 DEF Block, Memoize, Dispatch
    <3>2. /\ Here(i).state = "new" /\ round \in Round
          /\ UNCHANGED <<round, guard>> /\ st \in Outcome
      BY <2>3 DEF Block, Memoize, Dispatch, Turn, GuardInv, OpenCallsAreLast,
         Outcome, Settled, Memo
    <3>3. /\ \A s \in Slot : s # <<round, i>> => StateOf(s)' = StateOf(s)
          /\ StateOf(<<round, i>>)' = st
          /\ CallOf(<<round, i>>) = Here(i).call
      BY <3>1, <3>2, SettleEffect DEF GuardInv
    <3> QED
      BY <3>1, <3>2, <3>3 DEF guard, Executed, Admits
  <2>4. ASSUME NEW i \in Place, AnswerAtOnce(i) \/ Return(i) PROVE Stays
    <3>1. PICK result \in Executed :
             Settle(i, result) /\ Record(Here(i).call, result)
      BY <2>4 DEF AnswerAtOnce, Return
    <3>2. /\ round \in Round /\ UNCHANGED round /\ result \in Outcome
          /\ \/ Here(i).state = "new" /\ Admits(Here(i).call)
             \/ Here(i).state = "running"
      BY <2>4 DEF AnswerAtOnce, Return, Turn, GuardInv, OpenCallsAreLast,
         Outcome, Settled
    <3>3. /\ \A s \in Slot : s # <<round, i>> => StateOf(s)' = StateOf(s)
          /\ StateOf(<<round, i>>) = Here(i).state
          /\ CallOf(<<round, i>>) = Here(i).call
      BY <3>1, <3>2, SettleEffect DEF GuardInv
    <3>4. disabled \subseteq disabled'
      BY <3>1 DEF Record, DisabledAfter
    <3> QED
      BY <3>2, <3>3, <3>4 DEF Executed, Admits
  <2> QED
    BY <2>1, <2>2, <2>3, <2>4 DEF Next, CallStep
<1> QED
  BY <1>1, GuardInvariant, PTL DEF Spec, DisabledStays

-----------------------------------------------------------------------------
(***************************************************************************)
(* The breaker.  The guard counts failures as results come back, the       *)
(* messages keep their calls in the order in which they were asked for;    *)
(* the two agree up to the order within a round.                           *)
(***************************************************************************)

\* The failures of the current streak are in the messages, and no success is of a
\* later round than one of them.
StreakInMessages(t) ==
    \E F \in SUBSET Failures(t) :
        /\ Cardinality(F) = fails[t]
        /\ \A u \in F, w \in Successes(t) : w[1] <= u[1]

\* No failure the messages report after the last success is missing in the streak.
FailuresCounted(t) ==
    \A r \in Round : (\A w \in Successes(t) : w[1] < r) =>
        Cardinality({s \in Failures(t) : s[1] >= r}) <= fails[t]

\* The failures that trip the breaker of a tool.
TrippedBy(t, F) ==
    /\ Cardinality(F) = FailLimit
    /\ \A s, u \in F, w \in Successes(t) : ~(s[1] < w[1] /\ w[1] < u[1])

BreakerInv ==
    \A t \in Tool :
        /\ StreakInMessages(t) /\ FailuresCounted(t)
        /\ fails[t] >= FailLimit => t \in disabled
        /\ t \in disabled => \E F \in SUBSET Failures(t) : TrippedBy(t, F)

\* A run has finitely many slots, so a set of failures has a size.
LEMMA FailuresFinite ==
    ASSUME NEW t, NEW F \in SUBSET Failures(t)
    PROVE  IsFiniteSet(F) /\ Cardinality(F) \in Nat
<1>1. IsFiniteSet(Round) /\ IsFiniteSet(Place)
  BY LimitAssumption, BatchAssumption, FS_Interval DEF Round, Place
<1>2. IsFiniteSet(Slot)
  BY <1>1, FS_Product DEF Slot
<1>3. F \in SUBSET Slot
  BY DEF Failures
<1>4. IsFiniteSet(F)
  BY <1>2, <1>3, FS_Subset
<1> QED
  BY <1>4, FS_CardinalityType

\* Results are of rounds that have begun.
LEMMA ResultRounds ==
    ASSUME GuardInv, NEW t, NEW s \in Failures(t) \cup Successes(t)
    PROVE  s[1] \in Nat /\ round \in Nat /\ s[1] <= round
  BY LimitAssumption DEF GuardInv, TypeOK, OpenCallsAreLast, Asked, Failures, Successes,
     Slot, Round

\* What leaves the results and the guard alone keeps it.
LEMMA BreakerUntouched ==
    ASSUME BreakerInv, UNCHANGED <<fails, disabled>>,
           \A t \in Tool : Failures(t)' = Failures(t) /\ Successes(t)' = Successes(t)
    PROVE  BreakerInv'
  BY DEF BreakerInv, StreakInMessages, FailuresCounted, TrippedBy

\* Slots that hold no result before and after a step change no result.
LEMMA ResultsUntouched ==
    ASSUME \A s \in Slot : \/ StateOf(s)' = StateOf(s) /\ CallOf(s)' = CallOf(s)
                           \/ StateOf(s) \notin Executed /\ StateOf(s)' \notin Executed
    PROVE  \A t \in Tool : Failures(t)' = Failures(t) /\ Successes(t)' = Successes(t)
  BY DEF Failures, Successes, Executed

\* A result that comes back is one success or one failure more, of the last round.
LEMMA ResultEffect ==
    ASSUME GuardInv, NEW i \in Place, AnswerAtOnce(i) \/ Return(i)
    PROVE  \E x \in Slot, g \in Tool, result \in Executed :
              /\ x[1] = round /\ UNCHANGED round
              /\ \A t \in Tool : x \notin Failures(t) \cup Successes(t)
              /\ \A t \in Tool :
                    /\ Failures(t)' = Failures(t) \cup
                          IF t = g /\ result = "error" THEN {x} ELSE {}
                    /\ Successes(t)' = Successes(t) \cup
                          IF t = g /\ result = "ok" THEN {x} ELSE {}
                    /\ fails'[t] = IF t = g THEN Streak(t, result) ELSE fails[t]
              /\ disabled' = DisabledAfter(g, result)
<1> DEFINE x == <<round, i>>
           c == Here(i).call
<1>1. PICK result \in Executed : Settle(i, result) /\ Record(c, result)
  BY DEF AnswerAtOnce, Return
<1>2. /\ round \in Round /\ UNCHANGED round
      /\ Here(i).state \in Pending
  BY DEF AnswerAtOnce, Return, Turn, Pending, GuardInv, OpenCallsAreLast
<1>3. /\ x \in Slot /\ StateOf(x) \in Pending /\ CallOf(x) = c /\ c \in Call
      /\ \A s \in Slot : CallOf(s)' = CallOf(s)
      /\ \A s \in Slot : s # x => StateOf(s)' = StateOf(s)
      /\ \A s \in Slot : s = x => StateOf(s)' = result
  <2>1. result \in Outcome /\ Here(i).state # "absent"
    BY <1>2 DEF Outcome, Settled, Pending
  <2> QED
    BY <1>1, <1>2, <2>1, SettleEffect DEF GuardInv
<1>4. ToolOf[c] \in Tool /\ x[1] = round
  BY <1>3, CallAssumption
<1>5. /\ \A t \in Tool : fails'[t] = IF t = ToolOf[c] THEN Streak(t, result) ELSE fails[t]
      /\ disabled' = DisabledAfter(ToolOf[c], result)
  BY <1>1, <1>4 DEF Record, GuardInv, TypeOK
<1> HIDE DEF x, c
<1>6. \A t \in Tool : x \notin Failures(t) \cup Successes(t)
  BY <1>3 DEF Failures, Successes, Pending
<1>7. ASSUME NEW t \in Tool
      PROVE  /\ Failures(t)' = Failures(t) \cup
                   IF t = ToolOf[c] /\ result = "error" THEN {x} ELSE {}
             /\ Successes(t)' = Successes(t) \cup
                   IF t = ToolOf[c] /\ result = "ok" THEN {x} ELSE {}
  <2>1. /\ Failures(t)' = {s \in Slot : StateOf(s)' = "error" /\ ToolOf[CallOf(s)] = t}
        /\ Successes(t)' = {s \in Slot : StateOf(s)' = "ok" /\ ToolOf[CallOf(s)] = t}
    BY <1>3 DEF Failures, Successes
  <2>2. StateOf(x) # "error" /\ StateOf(x) # "ok"
    BY <1>3 DEF Pending
  <2>3. CASE result = "error"
    BY <1>3, <2>1, <2>2, <2>3 DEF Failures, Successes
  <2>4. CASE result = "ok"
    BY <1>3, <2>1, <2>2, <2>4 DEF Failures, Successes
  <2> QED
    BY <2>3, <2>4 DEF Executed
<1> QED
  BY <1>2, <1>3, <1>4, <1>5, <1>6, <1>7

\* A result is counted into the streak of its tool, in the messages and the guard.
LEMMA RecordedBreaker ==
    ASSUME GuardInv, BreakerInv, NEW i \in Place, AnswerAtOnce(i) \/ Return(i)
    PROVE  BreakerInv'
<1>1. PICK x \in Slot, g \in Tool, result \in Executed :
         /\ x[1] = round /\ UNCHANGED round
         /\ \A t \in Tool : x \notin Failures(t) \cup Successes(t)
         /\ \A t \in Tool :
               /\ Failures(t)' = Failures(t) \cup
                     IF t = g /\ result = "error" THEN {x} ELSE {}
               /\ Successes(t)' = Successes(t) \cup
                     IF t = g /\ result = "ok" THEN {x} ELSE {}
               /\ fails'[t] = IF t = g THEN Streak(t, result) ELSE fails[t]
         /\ disabled' = DisabledAfter(g, result)
  BY ResultEffect
<1>2. FailLimit \in Nat \ {0} /\ fails \in [Tool -> Nat] /\ round \in Nat
  BY LimitAssumption DEF GuardInv, TypeOK
<1> SUFFICES ASSUME NEW t \in Tool
             PROVE  (/\ StreakInMessages(t) /\ FailuresCounted(t)
                     /\ fails[t] >= FailLimit => t \in disabled
                     /\ t \in disabled => \E F \in SUBSET Failures(t) : TrippedBy(t, F))'
  BY DEF BreakerInv
<1>3. /\ StreakInMessages(t) /\ FailuresCounted(t)
      /\ fails[t] >= FailLimit => t \in disabled
      /\ t \in disabled => \E F \in SUBSET Failures(t) : TrippedBy(t, F)
  BY DEF BreakerInv
<1>4. CASE t # g
  <2>1. /\ Failures(t)' = Failures(t) /\ Successes(t)' = Successes(t) /\ fails'[t] = fails[t]
        /\ t \in disabled' <=> t \in disabled
    BY <1>1, <1>4 DEF DisabledAfter
  <2> QED
    BY <1>3, <2>1 DEF StreakInMessages, FailuresCounted, TrippedBy
<1>5. CASE t = g /\ result = "ok"
  <2>1. /\ Failures(t)' = Failures(t) /\ Successes(t)' = Successes(t) \cup {x}
        /\ fails'[t] = 0 /\ disabled' = disabled
    BY <1>1, <1>5 DEF Streak, DisabledAfter, Trips
  <2>2. StreakInMessages(t)'
    <3>1. {} \in SUBSET Failures(t)' /\ Cardinality({}) = 0
      BY FS_EmptySet
    <3> QED
      BY <2>1, <3>1 DEF StreakInMessages
  <2>3. FailuresCounted(t)'
    <3> SUFFICES ASSUME NEW r \in Round, \A w \in Successes(t)' : w[1] < r
                 PROVE  Cardinality({s \in Failures(t)' : s[1] >= r}) <= fails'[t]
      BY DEF FailuresCounted
    <3>1. round < r /\ r \in Nat
      BY <1>1, <2>1, LimitAssumption DEF Round
    <3>2. {s \in Failures(t)' : s[1] >= r} = {}
      <4> SUFFICES ASSUME NEW s \in Failures(t), s[1] >= r PROVE FALSE
        BY <2>1
      <4>1. s[1] \in Nat /\ s[1] <= round
        BY ResultRounds
      <4> QED
        BY <1>2, <3>1, <4>1
    <3>3. Cardinality({s \in Failures(t)' : s[1] >= r}) = 0
      BY <3>2, FS_EmptySet, Zenon
    <3> QED
      BY <2>1, <3>3
  <2>4. ASSUME t \in disabled' PROVE \E F \in SUBSET Failures(t)' : TrippedBy(t, F)'
    <3>1. PICK F \in SUBSET Failures(t) : TrippedBy(t, F)
      BY <1>3, <2>1, <2>4
    <3>2. \A u \in F : ~(x[1] < u[1])
      BY <1>1, ResultRounds
    <3>3. TrippedBy(t, F)'
      BY <2>1, <3>1, <3>2 DEF TrippedBy
    <3> QED
      BY <2>1, <3>1, <3>3
  <2> QED
    BY <1>2, <2>1, <2>2, <2>3, <2>4
<1>6. CASE t = g /\ result = "error"
  <2>1. /\ Failures(t)' = Failures(t) \cup {x} /\ Successes(t)' = Successes(t)
        /\ fails'[t] = fails[t] + 1 /\ x \notin Failures(t)
        /\ disabled' = IF fails[t] + 1 >= FailLimit THEN disabled \cup {t} ELSE disabled
    BY <1>1, <1>6 DEF Streak, DisabledAfter, Trips
  <2>2. PICK F \in SUBSET Failures(t) :
           /\ Cardinality(F) = fails[t]
           /\ \A u \in F, w \in Successes(t) : w[1] <= u[1]
    BY <1>3 DEF StreakInMessages
  <2>3. PICK G : G = F \cup {x}
    OBVIOUS
  <2>4. G \in SUBSET Failures(t)' /\ Cardinality(G) = fails[t] + 1
    BY <2>1, <2>2, <2>3, FailuresFinite, FS_AddElement
  <2>5. \A u \in G, w \in Successes(t)' : w[1] <= u[1] /\ w[1] \in Nat /\ u[1] \in Nat
    BY <1>1, <1>2, <2>1, <2>2, <2>3, ResultRounds
  <2>6. StreakInMessages(t)'
    BY <2>1, <2>4, <2>5 DEF StreakInMessages
  <2>7. FailuresCounted(t)'
    <3> SUFFICES ASSUME NEW r \in Round, \A w \in Successes(t)' : w[1] < r
                 PROVE  Cardinality({s \in Failures(t)' : s[1] >= r}) <= fails'[t]
      BY DEF FailuresCounted
    <3>1. PICK A \in SUBSET Failures(t) : A = {s \in Failures(t) : s[1] >= r}
      OBVIOUS
    <3>2. Cardinality(A) <= fails[t]
      BY <1>3, <2>1, <3>1 DEF FailuresCounted
    <3>3. IsFiniteSet(A \cup {x}) /\ Cardinality(A \cup {x}) <= Cardinality(A) + 1
          /\ Cardinality(A) \in Nat
      <4>1. IsFiniteSet(A) /\ Cardinality(A) \in Nat
        BY FailuresFinite
      <4>2. /\ IsFiniteSet(A \cup {x})
            /\ Cardinality(A \cup {x}) = IF x \in A THEN Cardinality(A) ELSE Cardinality(A) + 1
        BY <4>1, FS_AddElement, Zenon
      <4> QED
        BY <4>1, <4>2
    <3>4. {s \in Failures(t)' : s[1] >= r} \in SUBSET (A \cup {x})
      BY <2>1, <3>1
    <3>5. /\ Cardinality({s \in Failures(t)' : s[1] >= r}) <= Cardinality(A \cup {x})
          /\ Cardinality({s \in Failures(t)' : s[1] >= r}) \in Nat
          /\ Cardinality(A \cup {x}) \in Nat
      BY <3>3, <3>4, FS_Subset, FS_CardinalityType
    <3> QED
      BY <1>2, <2>1, <3>2, <3>3, <3>5
  <2>8. fails'[t] >= FailLimit => t \in disabled'
    BY <2>1
  <2>9. ASSUME t \in disabled' PROVE \E E \in SUBSET Failures(t)' : TrippedBy(t, E)'
    <3>1. CASE t \in disabled
      <4>1. PICK E \in SUBSET Failures(t) : TrippedBy(t, E)
        BY <1>3, <3>1
      <4>2. TrippedBy(t, E)'
        BY <2>1, <4>1 DEF TrippedBy
      <4> QED
        BY <2>1, <4>2
    <3>2. CASE t \notin disabled
      <4>1. fails[t] + 1 = FailLimit
        BY <1>2, <1>3, <2>1, <2>9, <3>2
      <4>2. TrippedBy(t, G)'
        BY <2>4, <2>5, <4>1 DEF TrippedBy
      <4> QED
        BY <2>4, <4>2
    <3> QED
      BY <3>1, <3>2
  <2> QED
    BY <2>6, <2>7, <2>8, <2>9
<1> QED
  BY <1>1, <1>4, <1>5, <1>6 DEF Executed

\* A run starts without results.
LEMMA BreakerInvInit == Init => BreakerInv
<1> SUFFICES ASSUME Init, NEW t \in Tool
             PROVE  /\ StreakInMessages(t) /\ FailuresCounted(t)
                    /\ ~(fails[t] >= FailLimit) /\ t \notin disabled
  BY DEF BreakerInv
<1>1. \A s \in Slot : StateOf(s) = "absent"
  BY DEF Init, Slot, StateOf, Nothing
<1>2. Failures(t) = {} /\ Successes(t) = {} /\ fails[t] = 0 /\ disabled = {}
  BY <1>1 DEF Init, Failures, Successes
<1>3. \A r \in Round : {s \in Failures(t) : s[1] >= r} = {}
  BY <1>2
<1> QED
  BY <1>2, <1>3, FS_EmptySet, LimitAssumption DEF StreakInMessages, FailuresCounted

\* Every other step changes no result and leaves the breaker alone.
LEMMA BreakerInvStep == GuardInv /\ BreakerInv /\ [Next]_vars => BreakerInv'
<1> SUFFICES ASSUME GuardInv, BreakerInv, [Next]_vars PROVE BreakerInv'
  OBVIOUS
<1>1. CASE AskSome
  <2>1. PICK n \in Place : \E asked \in [1..n -> Call] : AskTools(n, asked)
    BY <1>1 DEF AskSome
  <2>2. PICK asked \in [1..n -> Call] : AskTools(n, asked)
    BY <2>1
  <2>3. /\ round' = round + 1 /\ round' \in Round
        /\ \A s \in Slot : s[1] # round' =>
              StateOf(s)' = StateOf(s) /\ CallOf(s)' = CallOf(s)
        /\ \A s \in Slot : s[1] = round' => StateOf(s)' \in {"new", "absent"}
    BY <2>2, AskEffect DEF GuardInv
  <2>4. \A s \in Slot : s[1] = round' => StateOf(s) \notin Executed
    <3>1. round \in Nat /\ \A s \in Slot : Asked(s) => s[1] <= round
      BY DEF GuardInv, TypeOK, OpenCallsAreLast
    <3> QED
      BY <2>3, <3>1 DEF Asked, Executed
  <2>5. \A s \in Slot : \/ StateOf(s)' = StateOf(s) /\ CallOf(s)' = CallOf(s)
                        \/ StateOf(s) \notin Executed /\ StateOf(s)' \notin Executed
    BY <2>3, <2>4 DEF Executed
  <2>6. \A t \in Tool : Failures(t)' = Failures(t) /\ Successes(t)' = Successes(t)
    BY <2>5, ResultsUntouched
  <2> QED
    BY <2>2, <2>6, BreakerUntouched DEF AskTools, guard
<1>2. CASE Reply \/ Gathered \/ UNCHANGED vars
  <2>1. UNCHANGED <<trace, fails, disabled>>
    BY <1>2 DEF Reply, Gathered, vars, guard
  <2>2. \A t \in Tool : Failures(t)' = Failures(t) /\ Successes(t)' = Successes(t)
    BY <2>1 DEF Failures, Successes, StateOf, CallOf
  <2> QED
    BY <2>1, <2>2, BreakerUntouched
<1>3. ASSUME NEW i \in Place, Block(i) \/ Memoize(i) \/ Dispatch(i) PROVE BreakerInv'
  <2>1. PICK st \in {"blocked", "memo_ok", "memo_error", "running"} : Settle(i, st)
    BY <1>3 DEF Block, Memoize, Dispatch
  <2>2. /\ Here(i).state = "new" /\ round \in Round
        /\ UNCHANGED <<round, guard>> /\ st \in Outcome
    BY <1>3 DEF Block, Memoize, Dispatch, Turn, GuardInv, OpenCallsAreLast,
       Outcome, Settled, Memo
  <2> DEFINE x == <<round, i>>
  <2>3. /\ \A s \in Slot : CallOf(s)' = CallOf(s)
        /\ \A s \in Slot : s # x => StateOf(s)' = StateOf(s)
        /\ \A s \in Slot : s = x => StateOf(s) = "new" /\ StateOf(s)' = st
    BY <2>1, <2>2, SettleEffect DEF GuardInv
  <2> HIDE DEF x
  <2>4. \A s \in Slot : \/ StateOf(s)' = StateOf(s) /\ CallOf(s)' = CallOf(s)
                        \/ StateOf(s) \notin Executed /\ StateOf(s)' \notin Executed
    BY <2>3 DEF Executed
  <2>5. \A t \in Tool : Failures(t)' = Failures(t) /\ Successes(t)' = Successes(t)
    BY <2>4, ResultsUntouched
  <2> QED
    BY <2>2, <2>5, BreakerUntouched DEF guard
<1>4. ASSUME NEW i \in Place, AnswerAtOnce(i) \/ Return(i) PROVE BreakerInv'
  BY <1>4, RecordedBreaker
<1> QED
  BY <1>1, <1>2, <1>3, <1>4 DEF Next, CallStep

\* A long enough streak has tripped the breaker, and what tripped it is a streak.
LEMMA BreakerInvExact ==
    ASSUME GuardInv, BreakerInv
    PROVE  BreakerIsExact
<1>1. TrippedByConsecutiveFailures
  BY DEF BreakerInv, TrippedBy, TrippedByConsecutiveFailures, GuardInv, TypeOK
<1>2. ConsecutiveFailuresTrip
  <2> SUFFICES ASSUME NEW t \in Tool, NEW r \in Round,
                      Cardinality({s \in Failures(t) : s[1] >= r}) >= FailLimit,
                      \A w \in Successes(t) : w[1] < r
               PROVE  t \in disabled
    BY DEF ConsecutiveFailuresTrip
  <2>1. {s \in Failures(t) : s[1] >= r} \in SUBSET Failures(t)
    OBVIOUS
  <2>2. Cardinality({s \in Failures(t) : s[1] >= r}) \in Nat
    BY <2>1, FailuresFinite
  <2>3. fails[t] \in Nat /\ FailLimit \in Nat
    BY LimitAssumption DEF GuardInv, TypeOK
  <2> QED
    BY <2>2, <2>3 DEF BreakerInv, FailuresCounted
<1> QED
  BY <1>1, <1>2 DEF BreakerIsExact

\* A tool is disabled by FailLimit consecutive failures and by nothing else,
\* however the results of a round come back (ToolCallGuard.record).
THEOREM BreakerIsAlwaysExact == Spec => []BreakerIsExact
<1>1. Init => GuardInv /\ BreakerInv
  BY GuardInvInit, BreakerInvInit
<1>2. GuardInv /\ BreakerInv /\ [Next]_vars => (GuardInv /\ BreakerInv)'
  BY GuardInvStep, BreakerInvStep
<1>3. GuardInv /\ BreakerInv => BreakerIsExact
  BY BreakerInvExact
<1> QED
  BY <1>1, <1>2, <1>3, PTL DEF Spec
=============================================================================
