-------------------------- MODULE ConversationProofs --------------------------
(***************************************************************************)
(* What the tables of a conversation hold, for any number of conversations *)
(* and overlapping turns, any sizes and any of the faults.  One inductive  *)
(* invariant: the place of a turn says which of its messages are stored    *)
(* (TurnSound), a log holds messages of its own turns in order (LogSound)  *)
(* and the summaries are blocks of the log (SummariesAreBlocks).           *)
(***************************************************************************)
EXTENDS Conversation, SequenceTheorems, TLAPS

InLog(c, m) == \E i \in 1..Len(log[c]) : log[c][i] = m

\* Where a turn is before its message, and before its reply, is stored.
Unasked(r)   == \/ r.pc \in {"idle", "history", "ask"}
                \/ Pipeline /\ r.pc = "answer"
Unreplied(r) == r.pc \in {"idle", "history", "ask", "answer", "reply"}
Asked(r)     == \/ r.pc = "reply"
                \/ ~Pipeline /\ r.pc = "answer"
Replied(r)   == \/ r.pc \in {"title", "done", "memory", "summarise", "replace",
                             "store", "extract", "fact"}
                \/ r.outcome = "done"

LogSound(c) ==
    /\ \A i \in 1..Len(log[c]) : ConvOf(log[c][i][1]) = c
    /\ \A i, j \in 1..Len(log[c]) : log[c][i] = log[c][j] => i = j
    /\ \A i \in 1..Len(log[c]) : log[c][i][2] = "assistant" =>
          \E j \in 1..(i - 1) : log[c][j] = <<log[c][i][1], "user">>

\* The conversation of a turn, and that it is there as long as nobody deletes it.
Placed(t) ==
    /\ turn[t].pc # "idle" => ConvOf(t) \in Conv
    /\ turn[t].pc = "idle" => turn[t].outcome # "done"
    /\ turn[t].pc \notin {"idle", "end"} \/ turn[t].outcome = "done" =>
          title[ConvOf(t)] # "absent"
    /\ turn[t].pc = "fact" => turn[t].left # 0

\* What a turn has stored, and nothing else of it is stored.
Stored(t) ==
    /\ \A c \in Conv : /\ Unasked(turn[t]) => ~InLog(c, <<t, "user">>)
                       /\ Unreplied(turn[t]) => ~InLog(c, <<t, "assistant">>)
    /\ (Asked(turn[t]) \/ Replied(turn[t])) /\ Exists(ConvOf(t)) =>
          InLog(ConvOf(t), <<t, "user">>)
    /\ Replied(turn[t]) /\ Exists(ConvOf(t)) => InLog(ConvOf(t), <<t, "assistant">>)

\* What a turn carries.
Carried(t) ==
    /\ \A i \in 1..Len(turn[t].prompt) : turn[t].prompt[i][1] # t
    /\ turn[t].pc \in {"summarise", "replace", "store"} /\ Exists(ConvOf(t)) =>
          turn[t].block \in Blocks(ConvOf(t))

TurnSound(t) == Placed(t) /\ Stored(t) /\ Carried(t)

ConversationInv ==
    /\ TypeOK
    /\ \A c \in Conv : LogSound(c)
    /\ SummariesAreBlocks
    /\ DeletedStaysEmpty
    /\ \A t \in Turn : TurnSound(t)
-----------------------------------------------------------------------------
(***************************************************************************)
(* Blocks of a log.                                                        *)
(***************************************************************************)
\* Full blocks lie inside the log.
LEMMA BlockFits ==
    ASSUME NEW n \in Nat, NEW size \in Nat \ {0}, NEW k \in 0..((n \div size) - 1)
    PROVE  /\ k * size + 1 \in Nat \ {0}
           /\ (k + 1) * size \in Nat
           /\ (k + 1) * size <= n
           /\ k \in 0..(((n + 1) \div size) - 1)
  <1>1. n \div size \in Nat /\ (n \div size) * size <= n
    OBVIOUS
  <1>2. n \div size <= (n + 1) \div size /\ (n + 1) \div size \in Nat
    OBVIOUS
  <1> QED
    BY <1>1, <1>2

\* A new message changes nothing before it.
LEMMA AppendKeepsParts ==
    ASSUME NEW s \in Seq(Message), NEW m \in Message,
           NEW from \in Nat \ {0}, NEW to \in Nat, to <= Len(s)
    PROVE  SubSeq(Append(s, m), from, to) = SubSeq(s, from, to)
  OBVIOUS

\* A new message ends no block that was there.
LEMMA AppendKeepsBlocks ==
    ASSUME SizeAssumption, NEW c \in Conv, NEW d \in Conv, NEW m \in Message,
           log \in [Conv -> Seq(Message)],
           log' = [log EXCEPT ![d] = Append(@, m)]
    PROVE  Blocks(c) \subseteq Blocks(c)'
  <1>1. CASE c # d
    <2>1. log'[c] = log[c]
      BY <1>1
    <2> QED
      BY <2>1 DEF Blocks
  <1>2. CASE c = d
    <2>1. ASSUME NEW k \in 0..((Len(log[c]) \div SummaryThreshold) - 1)
          PROVE  SubSeq(log[c], k * SummaryThreshold + 1, (k + 1) * SummaryThreshold)
                    \in Blocks(c)'
      <3> DEFINE from == k * SummaryThreshold + 1
                 to   == (k + 1) * SummaryThreshold
      <3>1. log[c] \in Seq(Message) /\ Len(log[c]) \in Nat
        OBVIOUS
      <3>2. log'[c] = Append(log[c], m) /\ Len(log'[c]) = Len(log[c]) + 1
        BY <1>2, <3>1
      <3>3. /\ from \in Nat \ {0} /\ to \in Nat /\ to <= Len(log[c])
            /\ k \in 0..(((Len(log[c]) + 1) \div SummaryThreshold) - 1)
        BY <3>1, BlockFits DEF SizeAssumption
      <3> HIDE DEF from, to
      <3>4. SubSeq(Append(log[c], m), from, to) = SubSeq(log[c], from, to)
        BY <3>1, <3>3, AppendKeepsParts
      <3> USE DEF from, to
      <3> QED
        BY <3>2, <3>3, <3>4 DEF Blocks
    <2> QED
      BY <2>1 DEF Blocks
  <1> QED
    BY <1>1, <1>2

\* When a summary is due, the last messages are the last block.
LEMMA DueBlock ==
    ASSUME SizeAssumption, NEW c \in Conv, log \in [Conv -> Seq(Message)],
           SummaryDue(Len(log[c]))
    PROVE  LastOf(log[c], SummaryThreshold) \in Blocks(c)
  <1> DEFINE n == Len(log[c])
             k == (n \div SummaryThreshold) - 1
  <1>1. n \in Nat \ {0} /\ n % SummaryThreshold = 0
    BY DEF SummaryDue
  <1>2. n = (n \div SummaryThreshold) * SummaryThreshold /\ n \div SummaryThreshold \in Nat
    BY <1>1 DEF SizeAssumption
  <1>3. n \div SummaryThreshold >= 1
    BY <1>1, <1>2
  <1>4. k \in 0..k /\ k * SummaryThreshold + 1 = n - SummaryThreshold + 1
        /\ (k + 1) * SummaryThreshold = n
    BY SMTT(20), <1>1, <1>2, <1>3 DEF SizeAssumption
  <1>5. n >= SummaryThreshold
    BY <1>1, <1>2, <1>3 DEF SizeAssumption
  <1>6. LastOf(log[c], SummaryThreshold) = SubSeq(log[c], n - SummaryThreshold + 1, n)
    <2>1. (IF SummaryThreshold < n THEN n - SummaryThreshold + 1 ELSE 1)
             = n - SummaryThreshold + 1
      BY <1>1, <1>5 DEF SizeAssumption
    <2> QED
      BY <2>1 DEF LastOf
  <1> HIDE DEF k
  <1>7. LastOf(log[c], SummaryThreshold)
           = SubSeq(log[c], k * SummaryThreshold + 1, (k + 1) * SummaryThreshold)
    BY <1>4, <1>6
  <1> QED
    BY <1>4, <1>7 DEF Blocks, k

\* The prefix of a log that a prompt takes is made of its messages.
LEMMA PrefixIsOfLog ==
    ASSUME NEW s \in Seq(Message), NEW n \in Nat \ {0}
    PROVE  /\ FirstOf(s, n) \in Seq(Message)
           /\ \A i \in 1..Len(FirstOf(s, n)) : \E j \in 1..Len(s) : FirstOf(s, n)[i] = s[j]
  BY DEF FirstOf

LEMMA SuffixIsOfLog ==
    ASSUME NEW s \in Seq(Message), NEW n \in Nat \ {0}
    PROVE  LastOf(s, n) \in Seq(Message)
  BY DEF LastOf
-----------------------------------------------------------------------------
(***************************************************************************)
(* What a step may do to the tables without disturbing a turn: a row comes *)
(* back from nothing only, and what is in the log of a conversation that   *)
(* is still there stays there.                                             *)
(***************************************************************************)
TablesKeep ==
    \A c \in Conv :
        /\ title[c] # "absent" => title'[c] # "absent" /\ (Exists(c)' => Exists(c))
        /\ Exists(c)' => /\ \A m \in Message : InLog(c, m) => InLog(c, m)'
                         /\ Blocks(c) \subseteq Blocks(c)'

NothingAdded(u) ==
    \A c \in Conv : \A role \in {"user", "assistant"} :
        InLog(c, <<u, role>>)' => InLog(c, <<u, role>>)

ConvsKept == \A u \in Turn : ConvOf(u)' = ConvOf(u) \/ turn[u].pc = "idle"

LEMMA QuietTables ==
    ASSUME UNCHANGED <<title, log>>
    PROVE  TablesKeep /\ \A u \in Turn : NothingAdded(u)
  BY DEF TablesKeep, NothingAdded, InLog, Blocks, Exists

\* A turn that does not move stays sound.
LEMMA KeptTurn ==
    ASSUME ConversationInv, NEW u \in Turn, TablesKeep, NothingAdded(u),
           turn'[u] = turn[u]
    PROVE  TurnSound(u)'
  <1>1. TurnSound(u)
    BY DEF ConversationInv
  <1>2. <<u, "user">> \in Message /\ <<u, "assistant">> \in Message
    BY DEF Message
  <1>3. turn[u].pc # "idle" => ConvOf(u) \in Conv
    BY <1>1 DEF TurnSound, Placed
  <1>4. Placed(u)'
    BY <1>1, <1>3 DEF TurnSound, Placed, TablesKeep, ConvOf
  <1>5. Asked(turn[u]) \/ Replied(turn[u]) =>
           turn[u].pc \notin {"idle", "end"} \/ turn[u].outcome = "done"
    BY DEF Asked, Replied
  <1>6. (Asked(turn[u]) \/ Replied(turn[u])) /\ Exists(ConvOf(u))' =>
           Exists(ConvOf(u)) /\ ConvOf(u) \in Conv
    <2> SUFFICES ASSUME Asked(turn[u]) \/ Replied(turn[u]), Exists(ConvOf(u))'
                 PROVE  Exists(ConvOf(u)) /\ ConvOf(u) \in Conv
      OBVIOUS
    <2>1. ConvOf(u) \in Conv /\ title[ConvOf(u)] # "absent"
      BY <1>1, <1>5 DEF TurnSound, Placed
    <2>2. ConvOf(u)' = ConvOf(u)
      BY DEF ConvOf
    <2> QED
      BY <2>1, <2>2 DEF TablesKeep, Exists
  <1>7. Stored(u)'
    <2>1. /\ Unasked(turn[u])' = Unasked(turn[u])
          /\ Unreplied(turn[u])' = Unreplied(turn[u])
          /\ Asked(turn[u])' = Asked(turn[u])
          /\ Replied(turn[u])' = Replied(turn[u])
          /\ ConvOf(u)' = ConvOf(u)
      BY DEF Unasked, Unreplied, Asked, Replied, ConvOf
    <2>2. \A c \in Conv : /\ Unasked(turn[u]) => ~InLog(c, <<u, "user">>)'
                          /\ Unreplied(turn[u]) => ~InLog(c, <<u, "assistant">>)'
      BY <1>1 DEF TurnSound, Stored, NothingAdded
    <2>3. (Asked(turn[u]) \/ Replied(turn[u])) /\ Exists(ConvOf(u))' =>
             InLog(ConvOf(u), <<u, "user">>)'
      BY <1>1, <1>2, <1>6, <2>1 DEF TurnSound, Stored, TablesKeep
    <2>4. Replied(turn[u]) /\ Exists(ConvOf(u))' => InLog(ConvOf(u), <<u, "assistant">>)'
      BY <1>1, <1>2, <1>6, <2>1 DEF TurnSound, Stored, TablesKeep
    <2> QED
      BY <2>1, <2>2, <2>3, <2>4 DEF Stored
  <1>8. Carried(u)'
    <2>1. ConvOf(u)' = ConvOf(u)
      BY DEF ConvOf
    <2>2. turn[u].pc \in {"summarise", "replace", "store"} => Replied(turn[u])
      BY DEF Replied
    <2> QED
      BY <1>1, <1>6, <2>1, <2>2 DEF TurnSound, Carried, TablesKeep
  <1> QED
    BY <1>4, <1>7, <1>8 DEF TurnSound

\* A log that stays or is emptied stays sound.
LEMMA KeptLog ==
    ASSUME ConversationInv, NEW c \in Conv, log'[c] = log[c] \/ log'[c] = <<>>, ConvsKept
    PROVE  LogSound(c)'
  <1>1. CASE log'[c] = <<>>
    BY <1>1 DEF LogSound
  <1>2. CASE log'[c] = log[c]
    <2>1. LogSound(c) /\ log[c] \in Seq(Message)
      BY DEF ConversationInv, TypeOK
    <2>2. ASSUME NEW i \in 1..Len(log[c])
          PROVE  ConvOf(log[c][i][1])' = c
      <3>1. log[c][i] \in Message
        BY <2>1, ElementOfSeq
      <3>2. log[c][i] = <<log[c][i][1], log[c][i][2]>> /\ log[c][i][1] \in Turn
             /\ log[c][i][2] \in {"user", "assistant"}
        BY <3>1 DEF Message
      <3> DEFINE u == log[c][i][1]
      <3>3. InLog(c, log[c][i])
        BY DEF InLog
      <3>4. TurnSound(u)
        BY <3>2 DEF ConversationInv
      <3>5. turn[u].pc # "idle"
        BY <3>2, <3>3, <3>4 DEF TurnSound, Stored, Unasked, Unreplied
      <3> QED
        BY <1>2, <2>1, <3>2, <3>5 DEF ConvsKept, LogSound, ConvOf
    <2> QED
      BY <1>2, <2>1, <2>2 DEF LogSound, ConvOf
  <1> QED
    BY <1>1, <1>2

LEMMA KeptSummaries ==
    ASSUME ConversationInv, UNCHANGED summaries,
           \A c \in Conv : summaries[c] # <<>> => Blocks(c) \subseteq Blocks(c)'
    PROVE  SummariesAreBlocks'
  BY DEF ConversationInv, SummariesAreBlocks

\* A step of one turn that leaves the tables alone.
LEMMA TurnMoves ==
    ASSUME ConversationInv, UNCHANGED tables, NEW t \in Turn, NEW r \in TurnSet,
           turn' = [turn EXCEPT ![t] = r],
           r.conv = turn[t].conv \/ turn[t].pc = "idle",
           TurnSound(t)'
    PROVE  ConversationInv'
  <1>1. TablesKeep /\ \A u \in Turn : NothingAdded(u)
    BY QuietTables DEF tables
  <1>2. turn \in [Turn -> TurnSet]
    BY DEF ConversationInv, TypeOK
  <1>3. /\ turn' \in [Turn -> TurnSet]
        /\ turn'[t] = r
        /\ \A u \in Turn \ {t} : turn'[u] = turn[u]
    BY <1>2
  <1>4. TypeOK'
    BY <1>3 DEF ConversationInv, TypeOK, tables
  <1>5. ConvsKept
    BY <1>3 DEF ConvsKept, ConvOf
  <1>6. \A c \in Conv : LogSound(c)'
    BY <1>5, KeptLog DEF tables
  <1>7. SummariesAreBlocks'
    BY DEF ConversationInv, SummariesAreBlocks, tables, Blocks
  <1>8. DeletedStaysEmpty'
    BY DEF ConversationInv, DeletedStaysEmpty, tables, Exists
  <1>9. \A u \in Turn : TurnSound(u)'
    BY <1>1, <1>3, KeptTurn
  <1> QED
    BY <1>4, <1>6, <1>7, <1>8, <1>9 DEF ConversationInv

-----------------------------------------------------------------------------
(***************************************************************************)
(* The steps of a turn that leave the tables alone.                        *)
(***************************************************************************)
\* The place of a turn afterwards claims nothing new about its messages.
ClaimsLess(r, s) ==
    /\ Unasked(r) => Unasked(s)
    /\ Unreplied(r) => Unreplied(s)
    /\ Asked(r) \/ Replied(r) => Asked(s) \/ Replied(s)
    /\ Replied(r) => Replied(s)

LEMMA StoredByPlace ==
    ASSUME ConversationInv, UNCHANGED tables, NEW t \in Turn, NEW r,
           turn'[t] = r, r.conv = turn[t].conv, ClaimsLess(r, turn[t])
    PROVE  Stored(t)'
  <1>1. Stored(t)
    BY DEF ConversationInv, TurnSound
  <1>2. \A c \in Conv, m \in Message : InLog(c, m)' = InLog(c, m)
    BY DEF InLog, tables
  <1>3. <<t, "user">> \in Message /\ <<t, "assistant">> \in Message
    BY DEF Message
  <1>4. /\ Exists(ConvOf(t))' = Exists(ConvOf(t))
        /\ InLog(ConvOf(t), <<t, "user">>)' = InLog(ConvOf(t), <<t, "user">>)
        /\ InLog(ConvOf(t), <<t, "assistant">>)' = InLog(ConvOf(t), <<t, "assistant">>)
    BY DEF Exists, InLog, tables, ConvOf
  <1>5. /\ Unasked(turn[t])' = Unasked(r) /\ Unreplied(turn[t])' = Unreplied(r)
        /\ Asked(turn[t])' = Asked(r) /\ Replied(turn[t])' = Replied(r)
    BY DEF Unasked, Unreplied, Asked, Replied
  <1> QED
    BY <1>1, <1>2, <1>3, <1>4, <1>5 DEF Stored, ClaimsLess

\* A turn that goes on, or ends, with what it carried.
LEMMA PlainMove ==
    ASSUME ConversationInv, UNCHANGED tables, NEW t \in Turn, NEW r \in TurnSet,
           turn' = [turn EXCEPT ![t] = r],
           r.conv = turn[t].conv, r.prompt = turn[t].prompt, r.block = turn[t].block,
           turn[t].pc \notin {"idle", "end"}, r.pc # "idle",
           r.pc = "fact" => r.left # 0,
           r.pc \in {"summarise", "replace", "store"} =>
              turn[t].pc \in {"summarise", "replace", "store"},
           ClaimsLess(r, turn[t])
    PROVE  ConversationInv'
  <1>1. TurnSound(t)
    BY DEF ConversationInv
  <1>2. turn'[t] = r
    BY DEF ConversationInv, TypeOK
  <1>3. ConvOf(t)' = ConvOf(t)
    BY <1>2 DEF ConvOf
  <1>4. Placed(t)'
    BY <1>1, <1>2, <1>3 DEF TurnSound, Placed, tables
  <1>5. Stored(t)'
    BY <1>2, StoredByPlace
  <1>6. Carried(t)'
    BY <1>1, <1>2, <1>3 DEF TurnSound, Carried, Exists, Blocks, tables
  <1> QED
    BY <1>4, <1>5, <1>6, TurnMoves DEF TurnSound

LEMMA AnswerKeeps ==
    ASSUME ConversationInv, NEW t \in Turn, Answer(t)
    PROVE  ConversationInv'
  <1>1. turn[t] \in TurnSet
    BY DEF ConversationInv, TypeOK
  <1> DEFINE r == [turn[t] EXCEPT !.pc = AfterAnswer]
  <1>2. turn[t].pc = "answer" /\ AfterAnswer = IF Pipeline THEN "ask" ELSE "reply"
    BY DEF Answer, At, AfterAnswer
  <1>3. UNCHANGED tables /\ turn' = [turn EXCEPT ![t] = r]
    BY DEF Answer, Goto
  <1>4. r \in TurnSet
    BY <1>1, <1>2 DEF TurnSet
  <1>5. ClaimsLess(r, turn[t])
    BY <1>1, <1>2 DEF ClaimsLess, Unasked, Unreplied, Asked, Replied, TurnSet
  <1>6. /\ r.pc = AfterAnswer /\ r.conv = turn[t].conv
        /\ r.prompt = turn[t].prompt /\ r.block = turn[t].block
    BY <1>1 DEF TurnSet
  <1> HIDE DEF r
  <1> QED
    BY <1>2, <1>3, <1>4, <1>5, <1>6, PlainMove

LEMMA DoneKeeps ==
    ASSUME ConversationInv, NEW t \in Turn, Done(t)
    PROVE  ConversationInv'
  <1>1. turn[t] \in TurnSet
    BY DEF ConversationInv, TypeOK
  <1> DEFINE r == [turn[t] EXCEPT !.pc = "memory", !.outcome = "done"]
  <1>2. turn[t].pc = "done"
    BY DEF Done, At
  <1>3. UNCHANGED tables /\ turn' = [turn EXCEPT ![t] = r]
    BY DEF Done
  <1>4. r \in TurnSet
    BY <1>1 DEF TurnSet
  <1>5. ClaimsLess(r, turn[t])
    BY <1>1, <1>2 DEF ClaimsLess, Unasked, Unreplied, Asked, Replied, TurnSet
  <1> QED
    BY <1>1, <1>2, <1>3, <1>4, <1>5, PlainMove DEF TurnSet

LEMMA SummariseKeeps ==
    ASSUME ConversationInv, NEW t \in Turn, Summarise(t)
    PROVE  ConversationInv'
  <1>1. turn[t] \in TurnSet
    BY DEF ConversationInv, TypeOK
  <1>2. PICK next \in {"replace", "extract", "end"} : turn' = [turn EXCEPT ![t].pc = next]
    BY DEF Summarise, Goto, AfterSummary
  <1> DEFINE r == [turn[t] EXCEPT !.pc = next]
  <1>3. turn[t].pc = "summarise" /\ UNCHANGED tables /\ turn' = [turn EXCEPT ![t] = r]
    BY <1>2 DEF Summarise, At
  <1>4. r \in TurnSet
    BY <1>1 DEF TurnSet
  <1>5. ClaimsLess(r, turn[t])
    BY <1>1, <1>3 DEF ClaimsLess, Unasked, Unreplied, Asked, Replied, TurnSet
  <1> QED
    BY <1>1, <1>3, <1>4, <1>5, PlainMove DEF TurnSet

LEMMA ExtractKeeps ==
    ASSUME SizeAssumption, ConversationInv, NEW t \in Turn, Extract(t)
    PROVE  ConversationInv'
  <1>1. turn[t] \in TurnSet
    BY DEF ConversationInv, TypeOK
  <1>2. PICK n \in 0..MaxFacts, next \in {"end", "fact"} :
           /\ turn' = [turn EXCEPT ![t].left = n, ![t].pc = next]
           /\ next = "fact" => n # 0
    BY DEF Extract
  <1> DEFINE r == [turn[t] EXCEPT !.left = n, !.pc = next]
  <1>3. turn[t].pc = "extract" /\ UNCHANGED tables /\ turn' = [turn EXCEPT ![t] = r]
    BY <1>2 DEF Extract, At
  <1>4. n \in Nat
    BY DEF SizeAssumption
  <1>5. r \in TurnSet
    BY <1>1, <1>4 DEF TurnSet
  <1>6. ClaimsLess(r, turn[t])
    BY <1>1, <1>3 DEF ClaimsLess, Unasked, Unreplied, Asked, Replied, TurnSet
  <1>7. /\ r.pc = next /\ r.left = n /\ r.conv = turn[t].conv
        /\ r.prompt = turn[t].prompt /\ r.block = turn[t].block
    BY <1>1 DEF TurnSet
  <1> HIDE DEF r
  <1> QED
    BY <1>2, <1>3, <1>5, <1>6, <1>7, PlainMove

\* An unreachable model or a client that goes away.
LEMMA FaultKeeps ==
    ASSUME ConversationInv, NEW t \in Turn, LLMFails(t) \/ Disconnect(t)
    PROVE  ConversationInv'
  <1>1. turn[t] \in TurnSet
    BY DEF ConversationInv, TypeOK
  <1>2. PICK how \in {turn[t].outcome, "error", "cancelled"} :
           /\ turn' = [turn EXCEPT ![t] = [turn[t] EXCEPT !.pc = "end", !.outcome = how]]
           /\ turn[t].pc \in {"summarise", "extract"} \/ how # turn[t].outcome
              \/ how # "done"
    <2>1. CASE Disconnect(t)
      BY <2>1 DEF Disconnect, End
    <2>2. CASE LLMFails(t) /\ End(t, "error")
      BY <2>2 DEF End
    <2>3. CASE LLMFails(t) /\ ~End(t, "error")
      <3>1. turn[t].pc \in {"summarise", "extract"} /\ turn' = [turn EXCEPT ![t].pc = "end"]
        BY <2>3 DEF LLMFails, At, Goto
      <3>2. [turn[t] EXCEPT !.pc = "end"]
               = [turn[t] EXCEPT !.pc = "end", !.outcome = turn[t].outcome]
        BY <1>1 DEF TurnSet
      <3> QED
        BY <3>1, <3>2
    <2> QED
      BY <2>1, <2>2, <2>3
  <1> DEFINE r == [turn[t] EXCEPT !.pc = "end", !.outcome = how]
  <1>3. UNCHANGED tables /\ turn[t].pc \notin {"idle", "end"}
    BY DEF LLMFails, Disconnect, Streaming, At
  <1>4. r \in TurnSet
    BY <1>1 DEF TurnSet
  <1>5. ClaimsLess(r, turn[t])
    BY <1>1, <1>2 DEF ClaimsLess, Unasked, Unreplied, Asked, Replied, TurnSet
  <1> QED
    BY <1>1, <1>2, <1>3, <1>4, <1>5, PlainMove DEF TurnSet

-----------------------------------------------------------------------------
(***************************************************************************)
(* The steps of a turn that fill what it carries, and the crash.           *)
(***************************************************************************)
LEMMA FreshIsTurn ==
    /\ Fresh \in TurnSet
    /\ Fresh.outcome = "none" /\ Fresh.untitled = FALSE /\ Fresh.prompt = <<>>
  BY EmptySeq DEF Fresh, TurnSet

LEMMA SendKeeps ==
    ASSUME ConversationInv, NEW t \in Turn, NEW c \in Conv, Send(t, c)
    PROVE  ConversationInv'
  <1>1. /\ TurnSound(t) /\ turn[t] \in TurnSet /\ turn[t].pc = "idle"
        /\ UNCHANGED tables
    BY DEF ConversationInv, TypeOK, Send, At
  <1>2. PICK next \in {"history", "end"}, untitled \in BOOLEAN, how \in {"none", "rejected"} :
           /\ next = "history" => Exists(c)
           /\ turn' = [turn EXCEPT ![t] = [Fresh EXCEPT !.pc = next, !.conv = c,
                          !.untitled = untitled, !.outcome = how]]
    <2>1. CASE Exists(c) /\ \E untitled \in {FALSE, title[c] = "New Conversation"} :
                  turn' = [turn EXCEPT ![t] = [Fresh EXCEPT
                              !.pc = "history", !.conv = c, !.untitled = untitled]]
      <3>1. PICK untitled \in {FALSE, title[c] = "New Conversation"} :
               turn' = [turn EXCEPT ![t] = [Fresh EXCEPT
                           !.pc = "history", !.conv = c, !.untitled = untitled]]
        BY <2>1
      <3>2. untitled \in BOOLEAN
        OBVIOUS
      <3>3. [Fresh EXCEPT !.pc = "history", !.conv = c, !.untitled = untitled]
               = [Fresh EXCEPT !.pc = "history", !.conv = c, !.untitled = untitled,
                               !.outcome = "none"]
        BY FreshIsTurn DEF TurnSet
      <3> QED
        BY <2>1, <3>1, <3>2, <3>3
    <2>2. CASE turn' = [turn EXCEPT ![t] = [Fresh EXCEPT
                            !.pc = "end", !.conv = c, !.outcome = "rejected"]]
      <3>1. [Fresh EXCEPT !.pc = "end", !.conv = c, !.outcome = "rejected"]
               = [Fresh EXCEPT !.pc = "end", !.conv = c, !.untitled = FALSE,
                               !.outcome = "rejected"]
        BY FreshIsTurn DEF TurnSet
      <3> QED
        BY <2>2, <3>1
    <2> QED
      BY <2>1, <2>2 DEF Send
  <1> DEFINE r == [Fresh EXCEPT !.pc = next, !.conv = c, !.untitled = untitled,
                                !.outcome = how]
  <1>3. r \in TurnSet
    BY EmptySeq DEF Fresh, TurnSet
  <1>4. turn'[t] = r /\ r.pc = next /\ r.outcome = how /\ r.prompt = <<>>
    BY <1>2 DEF ConversationInv, TypeOK, Fresh
  <1>5. ConvOf(t)' = c
    BY <1>4 DEF ConvOf, Fresh
  <1>6. Placed(t)'
    BY <1>1, <1>2, <1>4, <1>5 DEF Placed, Exists, tables
  <1>7. Stored(t)'
    <2>1. \A d \in Conv : ~InLog(d, <<t, "user">>)' /\ ~InLog(d, <<t, "assistant">>)'
      BY <1>1 DEF TurnSound, Stored, Unasked, Unreplied, InLog, tables
    <2>2. ~Asked(turn[t])' /\ ~Replied(turn[t])'
      BY <1>4 DEF Asked, Replied
    <2> QED
      BY <2>1, <2>2 DEF Stored
  <1>8. Carried(t)'
    BY <1>4 DEF Carried
  <1> QED
    BY <1>1, <1>2, <1>3, <1>6, <1>7, <1>8, TurnMoves DEF TurnSound

\* The message of the turn is not in the log yet, so it is not in the prompt.
LEMMA BuildMessagesKeeps ==
    ASSUME SizeAssumption, ConversationInv, NEW t \in Turn, BuildMessages(t)
    PROVE  ConversationInv'
  <1>1. /\ TurnSound(t) /\ turn[t] \in TurnSet /\ turn[t].pc = "history"
        /\ UNCHANGED tables
    BY DEF ConversationInv, TypeOK, BuildMessages, At
  <1>2. ConvOf(t) \in Conv /\ log[ConvOf(t)] \in Seq(Message)
    BY <1>1 DEF TurnSound, Placed, ConversationInv, TypeOK
  <1> DEFINE taken == FirstOf(log[ConvOf(t)], MaxSession)
             r     == [turn[t] EXCEPT !.prompt = taken, !.pc = AfterHistory]
  <1>3. /\ taken \in Seq(Message)
        /\ \A i \in 1..Len(taken) : \E j \in 1..Len(log[ConvOf(t)]) :
              taken[i] = log[ConvOf(t)][j]
    BY <1>2, PrefixIsOfLog DEF SizeAssumption
  <1>4. \A i \in 1..Len(taken) : taken[i][1] # t
    <2> SUFFICES ASSUME NEW i \in 1..Len(taken), taken[i][1] = t
                 PROVE  FALSE
      OBVIOUS
    <2>1. PICK j \in 1..Len(log[ConvOf(t)]) : taken[i] = log[ConvOf(t)][j]
      BY <1>3
    <2>2. log[ConvOf(t)][j] \in Message
      BY <1>2, ElementOfSeq
    <2>3. \E role \in {"user", "assistant"} : log[ConvOf(t)][j] = <<t, role>>
      BY <2>1, <2>2 DEF Message
    <2>4. Unasked(turn[t]) /\ Unreplied(turn[t])
      BY <1>1 DEF Unasked, Unreplied
    <2> QED
      BY <1>1, <1>2, <2>3, <2>4 DEF TurnSound, Stored, InLog
  <1> HIDE DEF taken
  <1>5. AfterHistory = IF Pipeline THEN "answer" ELSE "ask"
    BY DEF AfterHistory
  <1>6. r \in TurnSet
    BY <1>1, <1>3, <1>5 DEF TurnSet
  <1>7. turn' = [turn EXCEPT ![t] = r] /\ turn'[t] = r
    BY DEF BuildMessages, taken, ConversationInv, TypeOK
  <1>8. /\ r.pc = AfterHistory /\ r.prompt = taken /\ r.conv = turn[t].conv
        /\ r.outcome = turn[t].outcome
    BY <1>1 DEF TurnSet
  <1>9. ConvOf(t)' = ConvOf(t)
    BY <1>7, <1>8 DEF ConvOf
  <1>10. ClaimsLess(r, turn[t])
    BY <1>1, <1>5, <1>8 DEF ClaimsLess, Unasked, Unreplied, Asked, Replied
  <1>11. Placed(t)'
    BY <1>1, <1>2, <1>5, <1>7, <1>8, <1>9 DEF TurnSound, Placed, tables
  <1>12. Stored(t)'
    BY <1>1, <1>7, <1>8, <1>10, StoredByPlace
  <1> HIDE DEF r
  <1>13. Carried(t)'
    BY <1>4, <1>5, <1>7, <1>8 DEF Carried
  <1> QED
    BY <1>1, <1>6, <1>7, <1>8, <1>11, <1>12, <1>13, TurnMoves DEF TurnSound

LEMMA ProcessTurnKeeps ==
    ASSUME SizeAssumption, ConversationInv, NEW t \in Turn, ProcessTurn(t)
    PROVE  ConversationInv'
  <1>1. /\ TurnSound(t) /\ turn[t] \in TurnSet /\ turn[t].pc = "memory"
        /\ UNCHANGED tables
    BY DEF ConversationInv, TypeOK, ProcessTurn, At
  <1>2. /\ ConvOf(t) \in Conv /\ log \in [Conv -> Seq(Message)]
        /\ log[ConvOf(t)] \in Seq(Message) /\ Len(log[ConvOf(t)]) \in Nat
    <2>1. ConvOf(t) \in Conv
      BY <1>1 DEF TurnSound, Placed
    <2>2. log \in [Conv -> Seq(Message)]
      BY DEF ConversationInv, TypeOK
    <2> QED
      BY <2>1, <2>2
  <1> DEFINE n == Len(log[ConvOf(t)])
  <1>3. PICK block \in Seq(Message), next \in {"summarise", "extract", "end"} :
           /\ turn' = [turn EXCEPT ![t] =
                          [turn[t] EXCEPT !.total = n, !.block = block, !.pc = next]]
           /\ next = "summarise" => block \in Blocks(ConvOf(t))
    <2>1. CASE SummaryDue(n)
      <3> DEFINE block == LastOf(log[ConvOf(t)], SummaryThreshold)
      <3>1. block \in Seq(Message) /\ block \in Blocks(ConvOf(t))
        BY <1>2, <2>1, DueBlock, SuffixIsOfLog DEF SizeAssumption
      <3>2. turn' = [turn EXCEPT ![t] =
                        [turn[t] EXCEPT !.total = n, !.block = block, !.pc = "summarise"]]
        BY <2>1 DEF ProcessTurn
      <3> QED
        BY <3>1, <3>2
    <2>2. CASE ~SummaryDue(n)
      <3>1. turn' = [turn EXCEPT ![t] =
                        [turn[t] EXCEPT !.total = n, !.block = <<>>, !.pc = AfterSummary(n)]]
        BY <2>2 DEF ProcessTurn
      <3>2. AfterSummary(n) \in {"extract", "end"} /\ <<>> \in Seq(Message)
        BY EmptySeq DEF AfterSummary
      <3> QED
        BY <3>1, <3>2
    <2> QED
      BY <2>1, <2>2
  <1> DEFINE r == [turn[t] EXCEPT !.total = n, !.block = block, !.pc = next]
  <1>4. r \in TurnSet
    BY <1>1, <1>2 DEF TurnSet
  <1>5. turn' = [turn EXCEPT ![t] = r] /\ turn'[t] = r
    BY <1>3 DEF ConversationInv, TypeOK
  <1>6. /\ r.pc = next /\ r.block = block /\ r.conv = turn[t].conv
        /\ r.prompt = turn[t].prompt /\ r.outcome = turn[t].outcome
    BY <1>1 DEF TurnSet
  <1>7. ConvOf(t)' = ConvOf(t)
    BY <1>5, <1>6 DEF ConvOf
  <1>8. ClaimsLess(r, turn[t])
    BY <1>1, <1>6 DEF ClaimsLess, Unasked, Unreplied, Asked, Replied
  <1>9. Placed(t)'
    BY <1>1, <1>2, <1>5, <1>6, <1>7 DEF TurnSound, Placed, tables
  <1>10. Stored(t)'
    BY <1>1, <1>5, <1>6, <1>8, StoredByPlace
  <1>11. Carried(t)'
    BY <1>1, <1>3, <1>5, <1>6, <1>7 DEF TurnSound, Carried, Blocks, tables
  <1> QED
    BY <1>1, <1>4, <1>5, <1>6, <1>9, <1>10, <1>11, TurnMoves DEF TurnSound

LEMMA CrashKeeps ==
    ASSUME ConversationInv, Crash
    PROVE  ConversationInv'
  <1> DEFINE after(u) ==
        CASE Streaming(u)  -> [turn[u] EXCEPT !.pc = "end", !.outcome = "cancelled"]
          [] Processing(u) -> [turn[u] EXCEPT !.pc = "end"]
          [] OTHER         -> turn[u]
  <1>1. /\ UNCHANGED tables /\ turn \in [Turn -> TurnSet]
        /\ turn' = [u \in Turn |-> after(u)]
    BY DEF ConversationInv, TypeOK, Crash
  <1>2. ASSUME NEW u \in Turn
        PROVE  /\ turn'[u] \in TurnSet /\ turn'[u].conv = turn[u].conv
               /\ turn'[u].prompt = turn[u].prompt
               /\ \/ turn'[u] = turn[u]
                  \/ /\ turn'[u].pc = "end" /\ turn[u].pc \notin {"idle", "end"}
                     /\ ClaimsLess(turn'[u], turn[u])
    <2>1. turn[u] \in TurnSet /\ turn'[u] = after(u)
      BY <1>1
    <2>2. CASE Streaming(u)
      <3>1. turn'[u] = [turn[u] EXCEPT !.pc = "end", !.outcome = "cancelled"]
        BY <2>1, <2>2 DEF Streaming, Processing
      <3> QED
        BY <2>1, <2>2, <3>1 DEF TurnSet, Streaming, ClaimsLess, Unasked, Unreplied,
                                Asked, Replied
    <2>3. CASE Processing(u)
      <3>1. turn'[u] = [turn[u] EXCEPT !.pc = "end"]
        BY <2>1, <2>3 DEF Streaming, Processing
      <3> QED
        BY <2>1, <2>3, <3>1 DEF TurnSet, Processing, ClaimsLess, Unasked, Unreplied,
                                Asked, Replied
    <2>4. CASE ~Streaming(u) /\ ~Processing(u)
      BY <2>1, <2>4 DEF TurnSet
    <2> QED
      BY <2>2, <2>3, <2>4
  <1> HIDE DEF after
  <1>3. TablesKeep /\ \A u \in Turn : NothingAdded(u)
    BY <1>1, QuietTables DEF tables
  <1>4. TypeOK'
    <2>1. turn' \in [Turn -> TurnSet]
      BY <1>1, <1>2
    <2> QED
      BY <1>1, <2>1 DEF ConversationInv, TypeOK, tables
  <1>5. ConvsKept
    BY <1>2 DEF ConvsKept, ConvOf
  <1>6. \A c \in Conv : LogSound(c)'
    BY <1>1, <1>5, KeptLog DEF tables
  <1>7. SummariesAreBlocks'
    BY <1>1 DEF ConversationInv, SummariesAreBlocks, tables, Blocks
  <1>8. DeletedStaysEmpty'
    BY <1>1 DEF ConversationInv, DeletedStaysEmpty, tables, Exists
  <1>9. ASSUME NEW u \in Turn PROVE TurnSound(u)'
    <2>1. CASE turn'[u] = turn[u]
      BY <1>3, <2>1, KeptTurn
    <2>2. CASE turn'[u] # turn[u]
      <3>1. TurnSound(u) /\ ConvOf(u)' = ConvOf(u)
        BY <1>2 DEF ConversationInv, ConvOf
      <3>2. Placed(u)'
        BY <1>1, <1>2, <2>2, <3>1 DEF TurnSound, Placed, ClaimsLess, Replied, tables
      <3>3. Stored(u)'
        BY <1>1, <1>2, <2>2, StoredByPlace
      <3>4. Carried(u)'
        BY <1>2, <2>2, <3>1 DEF TurnSound, Carried
      <3> QED
        BY <3>2, <3>3, <3>4 DEF TurnSound
    <2> QED
      BY <2>1, <2>2
  <1> QED
    BY <1>4, <1>6, <1>7, <1>8, <1>9 DEF ConversationInv

-----------------------------------------------------------------------------
(***************************************************************************)
(* The routes.                                                             *)
(***************************************************************************)
\* A route moves no turn.
LEMMA RouteKeeps ==
    ASSUME ConversationInv, UNCHANGED turn, TablesKeep,
           \A u \in Turn : NothingAdded(u),
           \A c \in Conv : log'[c] = log[c] \/ log'[c] = <<>>,
           TypeOK', SummariesAreBlocks', DeletedStaysEmpty'
    PROVE  ConversationInv'
  <1>1. ConvsKept
    BY DEF ConvsKept, ConvOf
  <1>2. \A c \in Conv : LogSound(c)'
    BY <1>1, KeptLog
  <1>3. \A u \in Turn : TurnSound(u)'
    BY KeptTurn
  <1> QED
    BY <1>2, <1>3 DEF ConversationInv

LEMMA TitleRouteKeeps ==
    ASSUME ConversationInv, NEW c \in Conv, Create(c) \/ Rename(c)
    PROVE  ConversationInv'
  <1>1. PICK name \in Names : title' = [title EXCEPT ![c] = name]
    BY DEF Create, Rename
  <1>2. /\ UNCHANGED <<log, summaries, facts, turn>>
        /\ title \in [Conv -> {"absent", "New Conversation", "given", "first message",
                               "deleted"}]
        /\ title[c] # "deleted"
    BY DEF Create, Rename, Exists, ConversationInv, TypeOK
  <1>3. title' \in [Conv -> {"absent", "New Conversation", "given", "first message",
                             "deleted"}]
    BY <1>1, <1>2 DEF Names
  <1>4. TypeOK'
    BY <1>2, <1>3 DEF ConversationInv, TypeOK
  <1>5. /\ \A d \in Conv : Exists(d)' => title[d] = "absent" \/ Exists(d)
        /\ \A d \in Conv : Exists(d) => Exists(d)'
    BY <1>1, <1>2 DEF Names, Exists
  <1>6. TablesKeep
    BY <1>1, <1>2, <1>5 DEF TablesKeep, InLog, Blocks, Names
  <1>7. \A u \in Turn : NothingAdded(u)
    BY <1>2 DEF NothingAdded, InLog
  <1>8. SummariesAreBlocks'
    BY <1>2 DEF ConversationInv, SummariesAreBlocks, Blocks
  <1>9. DeletedStaysEmpty'
    BY <1>2, <1>5 DEF ConversationInv, DeletedStaysEmpty
  <1> QED
    BY <1>2, <1>4, <1>6, <1>7, <1>8, <1>9, RouteKeeps

LEMMA DeleteKeeps ==
    ASSUME ConversationInv, NEW c \in Conv, Delete(c)
    PROVE  ConversationInv'
  <1>1. /\ title \in [Conv -> {"absent", "New Conversation", "given", "first message",
                               "deleted"}]
        /\ log \in [Conv -> Seq(Message)] /\ summaries \in [Conv -> Seq(Seq(Message))]
        /\ facts \in [Conv -> Nat] /\ UNCHANGED turn
    BY DEF ConversationInv, TypeOK, Delete
  <1>2. /\ title' = [title EXCEPT ![c] = "deleted"] /\ log' = [log EXCEPT ![c] = <<>>]
        /\ summaries' = [summaries EXCEPT ![c] = <<>>] /\ facts' = [facts EXCEPT ![c] = 0]
    BY DEF Delete
  <1>3. /\ title' \in [Conv -> {"absent", "New Conversation", "given", "first message",
                                "deleted"}]
        /\ log' \in [Conv -> Seq(Message)] /\ summaries' \in [Conv -> Seq(Seq(Message))]
        /\ facts' \in [Conv -> Nat]
    BY <1>1, <1>2, EmptySeq
  <1>4. TypeOK'
    BY <1>1, <1>3 DEF ConversationInv, TypeOK
  <1>5. /\ title'[c] = "deleted" /\ log'[c] = <<>> /\ summaries'[c] = <<>> /\ facts'[c] = 0
        /\ \A d \in Conv \ {c} : /\ title'[d] = title[d] /\ log'[d] = log[d]
                                 /\ summaries'[d] = summaries[d] /\ facts'[d] = facts[d]
    BY <1>1, <1>2
  <1>6. TablesKeep
    BY <1>5 DEF TablesKeep, Exists, InLog, Blocks
  <1>7. \A u \in Turn : NothingAdded(u)
    BY <1>5 DEF NothingAdded, InLog
  <1>8. SummariesAreBlocks'
    <2>1. \A d \in Conv \ {c} : Blocks(d)' = Blocks(d)
      BY <1>5 DEF Blocks
    <2> QED
      BY <1>5, <2>1 DEF ConversationInv, SummariesAreBlocks
  <1>9. DeletedStaysEmpty'
    BY <1>5 DEF ConversationInv, DeletedStaysEmpty, Exists
  <1> QED
    BY <1>1, <1>4, <1>5, <1>6, <1>7, <1>8, <1>9, RouteKeeps

LEMMA ClearGlobalKeeps ==
    ASSUME ConversationInv, ClearGlobal
    PROVE  ConversationInv'
  <1>1. UNCHANGED <<title, log, summaries, turn>> /\ facts' = [c \in Conv |-> 0]
    BY DEF ClearGlobal
  <1>2. TypeOK'
    BY <1>1 DEF ConversationInv, TypeOK
  <1>3. TablesKeep /\ \A u \in Turn : NothingAdded(u)
    BY <1>1, QuietTables
  <1>4. SummariesAreBlocks'
    BY <1>1 DEF ConversationInv, SummariesAreBlocks, Blocks
  <1>5. DeletedStaysEmpty'
    BY <1>1 DEF ConversationInv, DeletedStaysEmpty, Exists
  <1> QED
    BY <1>1, <1>2, <1>3, <1>4, <1>5, RouteKeeps

LEMMA ClearSessionKeeps ==
    ASSUME ConversationInv, NEW c \in Conv, ClearSession(c)
    PROVE  ConversationInv'
  <1>1. /\ UNCHANGED <<title, log, facts, turn>>
        /\ summaries' = [summaries EXCEPT ![c] = <<>>]
    BY DEF ClearSession, DeleteSession
  <1>2. summaries \in [Conv -> Seq(Seq(Message))]
    BY DEF ConversationInv, TypeOK
  <1>3. TypeOK'
    BY <1>1, <1>2, EmptySeq DEF ConversationInv, TypeOK
  <1>4. TablesKeep /\ \A u \in Turn : NothingAdded(u)
    BY <1>1, QuietTables
  <1>5. summaries'[c] = <<>> /\ \A d \in Conv \ {c} : summaries'[d] = summaries[d]
    BY <1>1, <1>2
  <1>6. SummariesAreBlocks'
    BY <1>1, <1>5 DEF ConversationInv, SummariesAreBlocks, Blocks
  <1>7. DeletedStaysEmpty'
    BY <1>1, <1>5 DEF ConversationInv, DeletedStaysEmpty, Exists
  <1> QED
    BY <1>1, <1>3, <1>4, <1>6, <1>7, RouteKeeps

-----------------------------------------------------------------------------
(***************************************************************************)
(* The steps of a turn that write.                                         *)
(***************************************************************************)
\* A message is appended once, after the one it answers.
LEMMA AppendKeepsLog ==
    ASSUME ConversationInv, NEW t \in Turn, NEW role \in {"user", "assistant"},
           NEW c \in Conv, c = ConvOf(t), ConvsKept,
           ~InLog(c, <<t, role>>), role = "assistant" => InLog(c, <<t, "user">>),
           log' = [log EXCEPT ![c] = Append(@, <<t, role>>)], ConvOf(t)' = ConvOf(t)
    PROVE  \A d \in Conv : LogSound(d)'
  <1>1. log \in [Conv -> Seq(Message)] /\ <<t, role>> \in Message
    BY DEF ConversationInv, TypeOK, Message
  <1> DEFINE n == Len(log[c])
  <1>2. /\ n \in Nat /\ log[c] \in Seq(Message) /\ Len(log'[c]) = n + 1
        /\ \A i \in 1..n : log'[c][i] = log[c][i]
        /\ log'[c][n + 1] = <<t, role>>
    BY <1>1, AppendProperties
  <1>3. ASSUME NEW i \in 1..n
        PROVE  /\ ConvOf(log[c][i][1])' = c
               /\ log[c][i] # <<t, role>>
               /\ log[c][i][2] = "assistant" =>
                     \E j \in 1..(i - 1) : log[c][j] = <<log[c][i][1], "user">>
    <2>1. log[c][i] \in Message
      BY <1>2, ElementOfSeq
    <2>2. InLog(c, log[c][i]) /\ LogSound(c)
      BY DEF InLog, ConversationInv
    <2>3. log[c][i][1] \in Turn /\ log[c][i] = <<log[c][i][1], log[c][i][2]>>
          /\ log[c][i][2] \in {"user", "assistant"}
      BY <2>1 DEF Message
    <2> DEFINE u == log[c][i][1]
    <2>4. TurnSound(u)
      BY <2>3 DEF ConversationInv
    <2>5. turn[u].pc # "idle"
      BY <2>2, <2>3, <2>4 DEF TurnSound, Stored, Unasked, Unreplied
    <2>6. turn'[u].conv = turn[u].conv
      BY <2>3, <2>5 DEF ConvsKept, ConvOf
    <2>7. turn'[u].conv = c
      BY <2>2, <2>6 DEF LogSound, ConvOf
    <2>8. log'[c][i] = log[c][i]
      BY <1>2
    <2> QED
      BY <2>2, <2>7, <2>8 DEF LogSound, ConvOf
  <1>4. ASSUME NEW i \in 1..(n + 1)
        PROVE  ConvOf(log[c][i][1])' = c
    <2>1. CASE i = n + 1
      BY <1>2, <2>1 DEF ConvOf
    <2>2. CASE i \in 1..n
      BY <1>3, <2>2
    <2> QED
      BY <1>2, <2>1, <2>2
  <1>5. \A i, j \in 1..(n + 1) : log'[c][i] = log'[c][j] => i = j
    <2>1. \A i, j \in 1..n : log[c][i] = log[c][j] => i = j
      BY DEF ConversationInv, LogSound
    <2>2. \A i \in 1..n : log'[c][i] # log'[c][n + 1]
      BY <1>2, <1>3
    <2> QED
      BY <1>2, <2>1, <2>2
  <1>6. ASSUME NEW i \in 1..(n + 1), log'[c][i][2] = "assistant"
        PROVE  \E j \in 1..(i - 1) : log'[c][j] = <<log'[c][i][1], "user">>
    <2>1. CASE i = n + 1
      <3>1. role = "assistant"
        BY <1>2, <1>6, <2>1
      <3>2. PICK j \in 1..n : log[c][j] = <<t, "user">>
        BY <3>1 DEF InLog
      <3>3. log'[c][i][1] = t /\ log'[c][j] = <<t, "user">> /\ j \in 1..(i - 1)
        BY <1>2, <2>1, <3>2
      <3> QED
        BY <3>3
    <2>2. CASE i \in 1..n
      <3>1. PICK j \in 1..(i - 1) : log[c][j] = <<log[c][i][1], "user">>
        BY <1>2, <1>3, <1>6, <2>2
      <3>2. j \in 1..n
        BY <1>2, <2>2
      <3> QED
        BY <1>2, <2>2, <3>1, <3>2
    <2>3. i = n + 1 \/ i \in 1..n
      BY <1>2
    <2> QED
      BY <2>1, <2>2, <2>3
  <1>7. LogSound(c)'
    <2>1. /\ \A i \in 1..Len(log'[c]) : ConvOf(log[c][i][1])' = c
          /\ \A i, j \in 1..Len(log'[c]) : log'[c][i] = log'[c][j] => i = j
          /\ \A i \in 1..Len(log'[c]) : log'[c][i][2] = "assistant" =>
                \E j \in 1..(i - 1) : log'[c][j] = <<log'[c][i][1], "user">>
      BY <1>2, <1>4, <1>5, <1>6
    <2> QED
      BY <2>1 DEF LogSound, ConvOf
  <1>8. ASSUME NEW d \in Conv \ {c} PROVE LogSound(d)'
    <2>1. log'[d] = log[d]
      BY <1>1
    <2> QED
      BY <2>1, KeptLog
  <1> QED
    BY <1>7, <1>8

\* Ask and Reply.
LEMMA AddMessageKeeps ==
    ASSUME SizeAssumption, ConversationInv, NEW t \in Turn,
           NEW role \in {"user", "assistant"}, NEW next,
           \/ role = "user" /\ turn[t].pc = "ask" /\ next = AfterAsk
           \/ role = "assistant" /\ turn[t].pc = "reply" /\ next \in {"title", "done"},
           AddMessage(t, role, next)
    PROVE  ConversationInv'
  <1> DEFINE r == [turn[t] EXCEPT !.pc = next]
             m == <<t, role>>
  <1>1. /\ TurnSound(t) /\ turn \in [Turn -> TurnSet] /\ turn[t] \in TurnSet
        /\ log \in [Conv -> Seq(Message)]
    BY DEF ConversationInv, TypeOK
  <1>2. PICK c \in Conv : c = ConvOf(t) /\ m \in Message
    BY <1>1 DEF TurnSound, Placed, Message
  <1>3. UNCHANGED <<title, summaries, facts>>
    BY DEF AddMessage
  <1>4. CASE ~Exists(c)
    <2> DEFINE e == [turn[t] EXCEPT !.pc = "end", !.outcome = "error"]
    <2>1. UNCHANGED tables /\ turn' = [turn EXCEPT ![t] = e]
      BY <1>2, <1>3, <1>4 DEF AddMessage, End, tables
    <2>2. e \in TurnSet
      BY <1>1 DEF TurnSet
    <2>3. ClaimsLess(e, turn[t])
      BY <1>1 DEF ClaimsLess, Unasked, Unreplied, Asked, Replied, TurnSet
    <2> QED
      BY <1>1, <2>1, <2>2, <2>3, PlainMove DEF TurnSet
  <1>5. CASE Exists(c)
    <2>1. log' = [log EXCEPT ![c] = Append(@, m)] /\ turn' = [turn EXCEPT ![t] = r]
      BY <1>2, <1>5 DEF AddMessage, Goto
    <2>2. /\ role = "user" => next = AfterAsk
          /\ role = "assistant" => next \in {"title", "done"}
          /\ AfterAsk = IF Pipeline THEN "reply" ELSE "answer"
      BY DEF AfterAsk
    <2>3. r \in TurnSet
      BY <1>1, <2>2 DEF TurnSet
    <2>4. turn'[t] = r /\ \A u \in Turn \ {t} : turn'[u] = turn[u]
      BY <1>1, <2>1
    <2>5. /\ r.pc = next /\ r.conv = turn[t].conv /\ r.prompt = turn[t].prompt
          /\ r.outcome = turn[t].outcome /\ r.block = turn[t].block
      BY <1>1 DEF TurnSet
    <2> HIDE DEF r
    <2>6. ConvsKept /\ ConvOf(t)' = ConvOf(t)
      BY <2>4, <2>5 DEF ConvsKept, ConvOf
    <2> HIDE DEF m
    <2>7. /\ \A d \in Conv : ~InLog(d, m)
          /\ role = "assistant" => InLog(c, <<t, "user">>)
      BY <1>1, <1>2, <1>5, <2>2 DEF TurnSound, Stored, Unasked, Unreplied, Asked, m
    <2>8. \A d \in Conv : LogSound(d)'
      BY <1>2, <2>1, <2>6, <2>7, AppendKeepsLog DEF m
    <2>9. log' \in [Conv -> Seq(Message)]
      BY <1>1, <1>2, <2>1
    <2>10. /\ Len(log[c]) \in Nat /\ Len(log'[c]) = Len(log[c]) + 1
           /\ \A i \in 1..Len(log[c]) : log'[c][i] = log[c][i]
           /\ log'[c][Len(log[c]) + 1] = m
           /\ \A d \in Conv \ {c} : log'[d] = log[d]
      BY <1>1, <1>2, <2>1, AppendProperties
    <2>11. ASSUME NEW d \in Conv, NEW x
           PROVE  /\ InLog(d, x)' => InLog(d, x) \/ (d = c /\ x = m)
                  /\ InLog(d, x) => InLog(d, x)'
      <3>1. CASE d # c
        BY <2>10, <3>1 DEF InLog
      <3>2. CASE d = c
        <4>1. ASSUME NEW i \in 1..(Len(log[c]) + 1)
              PROVE  i = Len(log[c]) + 1 \/ i \in 1..Len(log[c])
          BY <2>10
        <4> QED
          BY <2>10, <3>2, <4>1 DEF InLog
      <3> QED
        BY <3>1, <3>2
    <2>12. InLog(c, m)'
      BY <2>10 DEF InLog
    <2>13. \A d \in Conv \ {c} : \A x : InLog(d, x)' = InLog(d, x)
      BY <2>10 DEF InLog
    <2>14. TablesKeep
      <3>1. \A d \in Conv : Blocks(d) \subseteq Blocks(d)'
        BY <1>1, <1>2, <2>1, AppendKeepsBlocks
      <3> QED
        BY <1>3, <2>11, <3>1 DEF TablesKeep, Exists
    <2>15. \A u \in Turn \ {t} : NothingAdded(u)
      BY <2>11 DEF NothingAdded, m
    <2>16. TypeOK'
      <3>1. turn' \in [Turn -> TurnSet]
        BY <1>1, <2>1, <2>3
      <3> QED
        BY <1>3, <2>9, <3>1 DEF ConversationInv, TypeOK
    <2>17. SummariesAreBlocks'
      BY <1>3, <1>1, <1>2, <2>1, AppendKeepsBlocks, KeptSummaries
    <2>18. DeletedStaysEmpty'
      BY <1>3, <1>5, <2>10 DEF ConversationInv, DeletedStaysEmpty, Exists
    <2>19. TurnSound(t)'
      <3>1. Placed(t)'
        BY <1>1, <1>2, <1>3, <2>2, <2>4, <2>5, <2>6 DEF TurnSound, Placed
      <3>2. Stored(t)'
        <4>1. /\ Unasked(turn[t])' = Unasked(r) /\ Unreplied(turn[t])' = Unreplied(r)
              /\ Asked(turn[t])' = Asked(r) /\ Replied(turn[t])' = Replied(r)
          BY <2>4 DEF Unasked, Unreplied, Asked, Replied
        <4>2. ~Unasked(r) /\ (Unreplied(r) => role = "user")
          BY <2>2, <2>5 DEF Unasked, Unreplied
        <4>3. \A d \in Conv : Unreplied(r) => ~InLog(d, <<t, "assistant">>)'
          <5> SUFFICES ASSUME NEW d \in Conv, Unreplied(r), InLog(d, <<t, "assistant">>)'
                       PROVE  FALSE
            OBVIOUS
          <5>1. m # <<t, "assistant">>
            BY <4>2 DEF m
          <5>2. Unreplied(turn[t])
            BY <2>2 DEF Unreplied
          <5> QED
            BY <1>1, <2>11, <5>1, <5>2 DEF TurnSound, Stored
        <4>4. InLog(c, <<t, "user">>)'
          BY <2>7, <2>11, <2>12 DEF m
        <4>5. Replied(r) => role = "assistant" \/ Replied(turn[t])
          BY <2>2, <2>5 DEF Replied, AfterAsk
        <4>6. role = "assistant" => InLog(c, <<t, "assistant">>)'
          BY <2>12 DEF m
        <4>7. Replied(turn[t]) => InLog(c, <<t, "assistant">>)'
          BY <1>1, <1>2, <1>5, <2>11 DEF TurnSound, Stored
        <4> QED
          BY <1>2, <2>6, <4>1, <4>2, <4>3, <4>4, <4>5, <4>6, <4>7 DEF Stored
      <3>3. Carried(t)'
        BY <1>1, <2>2, <2>4, <2>5 DEF TurnSound, Carried
      <3> QED
        BY <3>1, <3>2, <3>3 DEF TurnSound
    <2> QED
      BY <2>4, <2>8, <2>14, <2>15, <2>16, <2>17, <2>18, <2>19, KeptTurn DEF ConversationInv
  <1> QED
    BY <1>4, <1>5

\* A turn that writes another table than the log and goes on with what it carried.
LEMMA WriteMove ==
    ASSUME ConversationInv, NEW t \in Turn, NEW r \in TurnSet,
           UNCHANGED log, \A c \in Conv : Exists(c)' <=> Exists(c),
           \A c \in Conv : title[c] # "absent" => title'[c] # "absent",
           turn' = [turn EXCEPT ![t] = r],
           r.conv = turn[t].conv, r.prompt = turn[t].prompt, r.block = turn[t].block,
           turn[t].pc \notin {"idle", "end"}, r.pc # "idle",
           r.pc = "fact" => r.left # 0,
           r.pc \in {"summarise", "replace", "store"} =>
              turn[t].pc \in {"summarise", "replace", "store"},
           ClaimsLess(r, turn[t]),
           title' \in [Conv -> {"absent", "New Conversation", "given", "first message",
                                "deleted"}],
           summaries' \in [Conv -> Seq(Seq(Message))], facts' \in [Conv -> Nat],
           SummariesAreBlocks', DeletedStaysEmpty'
    PROVE  ConversationInv'
  <1>1. TurnSound(t) /\ ConvOf(t) \in Conv
    BY DEF ConversationInv, TurnSound, Placed
  <1>2. turn'[t] = r /\ \A u \in Turn \ {t} : turn'[u] = turn[u]
    BY DEF ConversationInv, TypeOK
  <1>3. ConvOf(t)' = ConvOf(t) /\ ConvsKept
    BY <1>2 DEF ConvOf, ConvsKept
  <1>4. \A c \in Conv : Blocks(c)' = Blocks(c) /\ \A m \in Message : InLog(c, m)' = InLog(c, m)
    BY DEF Blocks, InLog
  <1>5. TablesKeep /\ \A u \in Turn : NothingAdded(u)
    BY <1>4 DEF TablesKeep, NothingAdded, Message
  <1>6. TypeOK'
    BY DEF ConversationInv, TypeOK
  <1>7. \A c \in Conv : LogSound(c)'
    BY <1>3, KeptLog
  <1>8. Placed(t)'
    BY <1>1, <1>2, <1>3 DEF TurnSound, Placed
  <1>9. Stored(t)'
    <2>1. /\ Unasked(turn[t])' = Unasked(r) /\ Unreplied(turn[t])' = Unreplied(r)
          /\ Asked(turn[t])' = Asked(r) /\ Replied(turn[t])' = Replied(r)
      BY <1>2 DEF Unasked, Unreplied, Asked, Replied
    <2>2. <<t, "user">> \in Message /\ <<t, "assistant">> \in Message
      BY DEF Message
    <2>3. (Exists(ConvOf(t))' <=> Exists(ConvOf(t)))
      BY <1>1, <1>3 DEF Exists
    <2>4. /\ InLog(ConvOf(t), <<t, "user">>)' = InLog(ConvOf(t), <<t, "user">>)
          /\ InLog(ConvOf(t), <<t, "assistant">>)' = InLog(ConvOf(t), <<t, "assistant">>)
      BY <1>3 DEF InLog
    <2> QED
      BY <1>1, <1>4, <2>1, <2>2, <2>3, <2>4 DEF TurnSound, Stored, ClaimsLess
  <1>10. Carried(t)'
    <2>1. (Exists(ConvOf(t))' <=> Exists(ConvOf(t))) /\ Blocks(ConvOf(t))' = Blocks(ConvOf(t))
      BY <1>1, <1>3, <1>4 DEF Exists, Blocks
    <2> QED
      BY <1>1, <1>2, <2>1 DEF TurnSound, Carried
  <1>11. \A u \in Turn : TurnSound(u)'
    BY <1>2, <1>5, <1>8, <1>9, <1>10, KeptTurn DEF TurnSound
  <1> QED
    BY <1>6, <1>7, <1>11 DEF ConversationInv

LEMMA AutoTitleKeeps ==
    ASSUME ConversationInv, NEW t \in Turn, AutoTitle(t)
    PROVE  ConversationInv'
  <1> DEFINE r == [turn[t] EXCEPT !.pc = "done"]
  <1>1. /\ TurnSound(t) /\ turn[t] \in TurnSet /\ turn[t].pc = "title"
        /\ title \in [Conv -> {"absent", "New Conversation", "given", "first message",
                               "deleted"}]
        /\ summaries \in [Conv -> Seq(Seq(Message))] /\ facts \in [Conv -> Nat]
    BY DEF ConversationInv, TypeOK, AutoTitle, At
  <1>2. PICK c \in Conv : c = ConvOf(t)
    BY <1>1 DEF TurnSound, Placed
  <1>3. /\ title' = [title EXCEPT ![c] = IF Exists(c) THEN "first message" ELSE @]
        /\ turn' = [turn EXCEPT ![t] = r] /\ UNCHANGED <<log, summaries, facts>>
    BY <1>2 DEF AutoTitle, Goto
  <1>4. /\ title' \in [Conv -> {"absent", "New Conversation", "given", "first message",
                                "deleted"}]
        /\ \A d \in Conv : IF d = c /\ Exists(c) THEN title'[d] = "first message"
                           ELSE title'[d] = title[d]
    BY <1>1, <1>3
  <1>5. \A d \in Conv : /\ (Exists(d)' <=> Exists(d))
                        /\ title[d] # "absent" => title'[d] # "absent"
    BY <1>4 DEF Exists
  <1>6. SummariesAreBlocks' /\ DeletedStaysEmpty'
    <2>1. SummariesAreBlocks'
      BY <1>3 DEF ConversationInv, SummariesAreBlocks, Blocks
    <2>2. DeletedStaysEmpty'
      BY <1>3, <1>5 DEF ConversationInv, DeletedStaysEmpty
    <2> QED
      BY <2>1, <2>2
  <1>7. r \in TurnSet
    BY <1>1 DEF TurnSet
  <1>8. ClaimsLess(r, turn[t])
    BY <1>1 DEF ClaimsLess, Unasked, Unreplied, Asked, Replied, TurnSet
  <1>9. /\ r.pc = "done" /\ r.conv = turn[t].conv /\ r.prompt = turn[t].prompt
        /\ r.block = turn[t].block
    BY <1>1 DEF TurnSet
  <1> HIDE DEF r
  <1> QED
    BY <1>1, <1>3, <1>4, <1>5, <1>6, <1>7, <1>8, <1>9, WriteMove

LEMMA DropOldSummaryKeeps ==
    ASSUME ConversationInv, NEW t \in Turn, DropOldSummary(t)
    PROVE  ConversationInv'
  <1> DEFINE r == [turn[t] EXCEPT !.pc = "store"]
  <1>1. /\ TurnSound(t) /\ turn[t] \in TurnSet /\ turn[t].pc = "replace"
        /\ title \in [Conv -> {"absent", "New Conversation", "given", "first message",
                               "deleted"}]
        /\ summaries \in [Conv -> Seq(Seq(Message))] /\ facts \in [Conv -> Nat]
    BY DEF ConversationInv, TypeOK, DropOldSummary, At
  <1>2. PICK c \in Conv : c = ConvOf(t)
    BY <1>1 DEF TurnSound, Placed
  <1>3. /\ summaries' = [summaries EXCEPT ![c] = <<>>]
        /\ turn' = [turn EXCEPT ![t] = r] /\ UNCHANGED <<title, log, facts>>
    BY <1>2 DEF DropOldSummary, DeleteSession, Goto
  <1>4. /\ summaries' \in [Conv -> Seq(Seq(Message))]
        /\ \A d \in Conv : summaries'[d] = IF d = c THEN <<>> ELSE summaries[d]
    BY <1>1, <1>3, EmptySeq
  <1>5. SummariesAreBlocks' /\ DeletedStaysEmpty'
    <2>1. SummariesAreBlocks'
      BY <1>3, <1>4 DEF ConversationInv, SummariesAreBlocks, Blocks
    <2>2. DeletedStaysEmpty'
      BY <1>3, <1>4 DEF ConversationInv, DeletedStaysEmpty, Exists
    <2> QED
      BY <2>1, <2>2
  <1>6. \A d \in Conv : (Exists(d)' <=> Exists(d))
    BY <1>3 DEF Exists
  <1>7. r \in TurnSet
    BY <1>1 DEF TurnSet
  <1>8. ClaimsLess(r, turn[t])
    BY <1>1 DEF ClaimsLess, Unasked, Unreplied, Asked, Replied, TurnSet
  <1>9. /\ r.pc = "store" /\ r.conv = turn[t].conv /\ r.prompt = turn[t].prompt
        /\ r.block = turn[t].block
    BY <1>1 DEF TurnSet
  <1> HIDE DEF r
  <1> QED
    BY <1>1, <1>3, <1>4, <1>5, <1>6, <1>7, <1>8, <1>9, WriteMove

LEMMA StoreSummaryKeeps ==
    ASSUME ConversationInv, NEW t \in Turn, StoreSummary(t)
    PROVE  ConversationInv'
  <1>1. /\ TurnSound(t) /\ turn[t] \in TurnSet /\ turn[t].pc = "store"
        /\ title \in [Conv -> {"absent", "New Conversation", "given", "first message",
                               "deleted"}]
        /\ summaries \in [Conv -> Seq(Seq(Message))] /\ facts \in [Conv -> Nat]
    BY DEF ConversationInv, TypeOK, StoreSummary, At
  <1>2. PICK c \in Conv : c = ConvOf(t)
    BY <1>1 DEF TurnSound, Placed
  <1>3. PICK next \in {"extract", "end"} :
           /\ turn' = [turn EXCEPT ![t] = [turn[t] EXCEPT !.pc = next]]
           /\ \/ /\ Exists(c)
                 /\ summaries' = [summaries EXCEPT ![c] = Append(@, turn[t].block)]
              \/ UNCHANGED summaries
    BY <1>2 DEF StoreSummary, Goto, AfterSummary
  <1> DEFINE r == [turn[t] EXCEPT !.pc = next]
  <1>4. UNCHANGED <<title, log, facts>>
    BY DEF StoreSummary
  <1>5. turn[t].block \in Seq(Message) /\ (Exists(c) => turn[t].block \in Blocks(c))
    BY <1>1, <1>2 DEF TurnSound, Carried, TurnSet
  <1>6. \A d \in Conv : Exists(d)' <=> Exists(d)
    BY <1>4 DEF Exists
  <1>7. summaries' \in [Conv -> Seq(Seq(Message))]
    <2>1. summaries[c] \in Seq(Seq(Message))
      BY <1>1
    <2>2. Append(summaries[c], turn[t].block) \in Seq(Seq(Message))
      BY <1>5, <2>1, AppendProperties
    <2> QED
      BY <1>1, <1>3, <2>2
  <1>8. ASSUME NEW d \in Conv
        PROVE  /\ \A i \in 1..Len(summaries'[d]) : summaries'[d][i] \in Blocks(d)
               /\ ~Exists(d) => summaries'[d] = summaries[d]
    <2>1. /\ summaries[d] \in Seq(Seq(Message))
          /\ \A i \in 1..Len(summaries[d]) : summaries[d][i] \in Blocks(d)
      BY <1>1 DEF ConversationInv, SummariesAreBlocks
    <2>2. CASE summaries'[d] = summaries[d]
      BY <2>1, <2>2
    <2>3. CASE d = c /\ Exists(c) /\ summaries'[c] = Append(summaries[c], turn[t].block)
      <3> DEFINE n == Len(summaries[c])
      <3>1. /\ n \in Nat /\ Len(summaries'[c]) = n + 1
            /\ \A i \in 1..n : summaries'[c][i] = summaries[c][i]
            /\ summaries'[c][n + 1] = turn[t].block
        BY <1>5, <2>1, <2>3, AppendProperties
      <3>2. \A i \in 1..(n + 1) : i = n + 1 \/ i \in 1..n
        BY <3>1
      <3> QED
        BY <1>5, <2>1, <2>3, <3>1, <3>2
    <2> QED
      BY <1>1, <1>3, <2>2, <2>3
  <1>9. SummariesAreBlocks' /\ DeletedStaysEmpty'
    <2>1. SummariesAreBlocks'
      BY <1>4, <1>8 DEF SummariesAreBlocks, Blocks
    <2>2. DeletedStaysEmpty'
      BY <1>4, <1>6, <1>8 DEF ConversationInv, DeletedStaysEmpty
    <2> QED
      BY <2>1, <2>2
  <1>10. r \in TurnSet
    BY <1>1 DEF TurnSet
  <1>11. ClaimsLess(r, turn[t])
    BY <1>1 DEF ClaimsLess, Unasked, Unreplied, Asked, Replied, TurnSet
  <1>12. /\ r.pc = next /\ r.conv = turn[t].conv /\ r.prompt = turn[t].prompt
         /\ r.block = turn[t].block
    BY <1>1 DEF TurnSet
  <1> HIDE DEF r
  <1>13. turn' = [turn EXCEPT ![t] = r]
    BY <1>3 DEF r
  <1> QED
    BY <1>1, <1>4, <1>6, <1>7, <1>9, <1>10, <1>11, <1>12, <1>13, WriteMove

LEMMA AddFactKeeps ==
    ASSUME ConversationInv, NEW t \in Turn, AddFact(t)
    PROVE  ConversationInv'
  <1>1. /\ TurnSound(t) /\ turn[t] \in TurnSet /\ turn[t].pc = "fact"
        /\ title \in [Conv -> {"absent", "New Conversation", "given", "first message",
                               "deleted"}]
        /\ summaries \in [Conv -> Seq(Seq(Message))] /\ facts \in [Conv -> Nat]
    BY DEF ConversationInv, TypeOK, AddFact, At
  <1>2. PICK c \in Conv : c = ConvOf(t)
    BY <1>1 DEF TurnSound, Placed
  <1>3. turn[t].left \in Nat \ {0}
    BY <1>1 DEF TurnSound, Placed, TurnSet
  <1>4. PICK left \in Nat, next \in {"fact", "end"} :
           /\ turn' = [turn EXCEPT ![t] = [turn[t] EXCEPT !.left = left, !.pc = next]]
           /\ next = "fact" => left # 0
           /\ \/ Exists(c) /\ facts' = [facts EXCEPT ![c] = @ + 1]
              \/ UNCHANGED facts
    <2>1. CASE Exists(c)
      <3>1. /\ facts' = [facts EXCEPT ![c] = @ + 1]
            /\ turn' = [turn EXCEPT ![t].left = @ - 1,
                                    ![t].pc = IF turn[t].left = 1 THEN "end" ELSE @]
        BY <1>2, <2>1 DEF AddFact
      <3> DEFINE next == IF turn[t].left = 1 THEN "end" ELSE "fact"
      <3>2. turn' = [turn EXCEPT ![t] =
                        [turn[t] EXCEPT !.left = turn[t].left - 1, !.pc = next]]
        BY <1>1, <3>1
      <3>3. turn[t].left - 1 \in Nat /\ (next = "fact" => turn[t].left - 1 # 0)
        BY <1>3
      <3> QED
        BY <2>1, <3>1, <3>2, <3>3
    <2>2. CASE ~Exists(c)
      <3>1. turn' = [turn EXCEPT ![t].pc = "end"] /\ UNCHANGED facts
        BY <1>2, <2>2 DEF AddFact, Goto
      <3>2. [turn[t] EXCEPT !.pc = "end"]
               = [turn[t] EXCEPT !.left = turn[t].left, !.pc = "end"]
        BY <1>1 DEF TurnSet
      <3> QED
        BY <1>3, <3>1, <3>2
    <2> QED
      BY <2>1, <2>2
  <1> DEFINE r == [turn[t] EXCEPT !.left = left, !.pc = next]
  <1>5. UNCHANGED <<title, log, summaries>>
    BY DEF AddFact
  <1>6. \A d \in Conv : Exists(d)' <=> Exists(d)
    BY <1>5 DEF Exists
  <1>7. facts' \in [Conv -> Nat] /\ \A d \in Conv : ~Exists(d) => facts'[d] = facts[d]
    <2>1. CASE Exists(c) /\ facts' = [facts EXCEPT ![c] = @ + 1]
      <3> DEFINE more == facts[c] + 1
      <3>0. facts[c] \in Nat
        BY <1>1
      <3>1. more \in Nat /\ facts' = [facts EXCEPT ![c] = more]
        BY <2>1, <3>0
      <3> HIDE DEF more
      <3>2. facts' \in [Conv -> Nat] /\ \A d \in Conv : d = c \/ facts'[d] = facts[d]
        BY <1>1, <3>1
      <3> QED
        BY <2>1, <3>2
    <2>2. CASE UNCHANGED facts
      BY <1>1, <2>2
    <2> QED
      BY <1>4, <2>1, <2>2
  <1>8. SummariesAreBlocks' /\ DeletedStaysEmpty'
    <2>1. SummariesAreBlocks'
      BY <1>5 DEF ConversationInv, SummariesAreBlocks, Blocks
    <2>2. DeletedStaysEmpty'
      <3>1. ASSUME NEW d \in Conv, ~Exists(d)'
            PROVE  log'[d] = <<>> /\ summaries'[d] = <<>> /\ facts'[d] = 0
        BY <1>5, <1>6, <1>7, <3>1 DEF ConversationInv, DeletedStaysEmpty
      <3> QED
        BY <3>1 DEF DeletedStaysEmpty
    <2> QED
      BY <2>1, <2>2
  <1>9. r \in TurnSet
    BY <1>1 DEF TurnSet
  <1>10. ClaimsLess(r, turn[t])
    BY <1>1 DEF ClaimsLess, Unasked, Unreplied, Asked, Replied, TurnSet
  <1>11. /\ r.pc = next /\ r.left = left /\ r.conv = turn[t].conv
         /\ r.prompt = turn[t].prompt /\ r.block = turn[t].block
    BY <1>1 DEF TurnSet
  <1> HIDE DEF r
  <1>12. turn' = [turn EXCEPT ![t] = r]
    BY <1>4 DEF r
  <1> QED
    BY <1>1, <1>4, <1>5, <1>6, <1>7, <1>8, <1>9, <1>10, <1>11, <1>12, WriteMove
-----------------------------------------------------------------------------
(***************************************************************************)
(* The invariant and what follows from it.                                 *)
(***************************************************************************)
LEMMA InitSound == Init => ConversationInv
  <1> SUFFICES ASSUME Init PROVE ConversationInv
    OBVIOUS
  <1>1. TypeOK
    BY FreshIsTurn, EmptySeq DEF Init, TypeOK
  <1>2. \A c \in Conv : log[c] = <<>> /\ summaries[c] = <<>> /\ facts[c] = 0
    BY DEF Init
  <1>3. ASSUME NEW c \in Conv PROVE LogSound(c)
    <2>1. log[c] = <<>>
      BY <1>2
    <2> QED
      BY <2>1 DEF LogSound
  <1>4. SummariesAreBlocks /\ DeletedStaysEmpty
    BY <1>2 DEF SummariesAreBlocks, DeletedStaysEmpty
  <1>5. ASSUME NEW t \in Turn PROVE TurnSound(t)
    <2>1. turn[t].pc = "idle" /\ turn[t].outcome = "none" /\ turn[t].prompt = <<>>
      BY DEF Init, Fresh
    <2> QED
      BY <1>2, <2>1 DEF TurnSound, Placed, Stored, Carried, Asked, Replied, InLog
  <1> QED
    BY <1>1, <1>3, <1>4, <1>5 DEF ConversationInv

LEMMA StutterKeeps ==
    ASSUME ConversationInv, UNCHANGED vars
    PROVE  ConversationInv'
  <1>1. /\ UNCHANGED <<title, log, summaries, facts, turn>>
        /\ TypeOK' /\ SummariesAreBlocks' /\ DeletedStaysEmpty'
    BY DEF vars, tables, ConversationInv, TypeOK, SummariesAreBlocks, Blocks,
           DeletedStaysEmpty, Exists
  <1>2. TablesKeep /\ \A u \in Turn : NothingAdded(u)
    BY <1>1, QuietTables
  <1> QED
    BY <1>1, <1>2, RouteKeeps

LEMMA StepKeeps ==
    ASSUME SizeAssumption, ConversationInv, [Next]_vars
    PROVE  ConversationInv'
  <1>1. CASE UNCHANGED vars
    BY <1>1, StutterKeeps
  <1>2. ASSUME NEW c \in Conv, Create(c) \/ Rename(c) \/ Delete(c) \/ ClearSession(c)
        PROVE  ConversationInv'
    BY <1>2, TitleRouteKeeps, DeleteKeeps, ClearSessionKeeps
  <1>3. CASE ClearGlobal \/ Crash
    BY <1>3, ClearGlobalKeeps, CrashKeeps
  <1>4. ASSUME NEW t \in Turn, NEW c \in Conv, Send(t, c)
        PROVE  ConversationInv'
    BY <1>4, SendKeeps
  <1>5. ASSUME NEW t \in Turn, LLMFails(t) \/ Disconnect(t)
        PROVE  ConversationInv'
    BY <1>5, FaultKeeps
  <1>6. ASSUME NEW t \in Turn, Step(t)
        PROVE  ConversationInv'
    <2>1. CASE Ask(t)
      BY <2>1, AddMessageKeeps DEF Ask, At
    <2>2. CASE Reply(t)
      <3>1. PICK next \in {"title", "done"} : AddMessage(t, "assistant", next)
        BY <2>2 DEF Reply
      <3> QED
        BY <2>2, <3>1, AddMessageKeeps DEF Reply, At
    <2> QED
      BY <1>6, <2>1, <2>2, BuildMessagesKeeps, AnswerKeeps, AutoTitleKeeps, DoneKeeps,
         ProcessTurnKeeps, SummariseKeeps, DropOldSummaryKeeps, StoreSummaryKeeps,
         ExtractKeeps, AddFactKeeps DEF Step
  <1> QED
    BY <1>1, <1>2, <1>3, <1>4, <1>5, <1>6 DEF Next

\* The invariant of the log, of the summaries and of every turn.
THEOREM ConversationInvariant == Spec => []ConversationInv
  BY InitSound, StepKeeps, SizeAssumption, PTL DEF Spec

LEMMA LogsConsistent ==
    ASSUME ConversationInv
    PROVE  LogIsConsistent
  <1>1. ASSUME NEW c \in Conv, NEW i \in 1..Len(log[c])
        PROVE  LET t == log[c][i][1] IN
               /\ Position(c, log[c][i]) = {i}
               /\ ConvOf(t) = c
               /\ log[c][i][2] = "assistant" =>
                     \E j \in 1..(i - 1) : log[c][j] = <<t, "user">>
    BY DEF ConversationInv, LogSound, Position
  <1> QED
    BY <1>1 DEF LogIsConsistent, ReplyFollowsQuestion, ConversationInv

\* However turns of a conversation overlap, fail or are cancelled, a reply
\* stands after the one message it answers, and no message is stored twice.
THEOREM LogsStayConsistent == Spec => []LogIsConsistent
  BY ConversationInvariant, LogsConsistent, PTL

\* The history in a prompt never holds the message the prompt asks about
\* (build_messages before add_message).
THEOREM QuestionsAreSentOnce == Spec => []QuestionSentOnce
  <1>1. ConversationInv => QuestionSentOnce
    BY DEF ConversationInv, TurnSound, Carried, QuestionSentOnce
  <1> QED
    BY <1>1, ConversationInvariant, PTL

\* A summary is about one full block of its conversation, whatever was stored
\* while the model wrote it (process_turn).
THEOREM SummariesStayBlocks == Spec => []SummariesAreBlocks
  <1>1. ConversationInv => SummariesAreBlocks
    BY DEF ConversationInv
  <1> QED
    BY <1>1, ConversationInvariant, PTL

\* Turns and background tasks that outlive their conversation leave nothing
\* behind (the foreign keys of messages and memory).
THEOREM DeletionIsFinal == Spec => []DeletedStaysEmpty
  <1>1. ConversationInv => DeletedStaysEmpty
    BY DEF ConversationInv
  <1> QED
    BY <1>1, ConversationInvariant, PTL

\* The exchange that a client was told is done is in the conversation.
THEOREM AnnouncedIsStored == Spec => []DoneIsStored
  <1>1. ASSUME ConversationInv, NEW t \in Turn,
               At(t, "done") \/ turn[t].outcome = "done", Exists(ConvOf(t))
        PROVE  \A role \in {"user", "assistant"} : Position(ConvOf(t), <<t, role>>) # {}
    <2>1. Replied(turn[t]) /\ Stored(t)
      BY <1>1 DEF At, Replied, ConversationInv, TurnSound
    <2>2. InLog(ConvOf(t), <<t, "user">>) /\ InLog(ConvOf(t), <<t, "assistant">>)
      BY <1>1, <2>1 DEF Stored
    <2> QED
      BY <2>2 DEF InLog, Position
  <1>2. ConversationInv => DoneIsStored
    BY <1>1 DEF DoneIsStored
  <1> QED
    BY <1>2, ConversationInvariant, PTL
=============================================================================
