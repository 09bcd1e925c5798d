---------------------------- MODULE Conversation ----------------------------
(***************************************************************************)
(* Chat turns and memory: backend/api/routes/chat.py, conversations.py and *)
(* memory.py over backend/memory/repository.py and service.py.  A turn is  *)
(* the coroutine of one POST .../chat and, once it is done, the background *)
(* task process_turn it spawns; an action is the code from one await to    *)
(* the next.  touch_conversation and the rows of other conversations'      *)
(* prompts (list_global) decide nothing and are left out.                  *)
(*                                                                         *)
(* A message is <<turn, role>>; a session summary is the sequence of       *)
(* messages it summarises; global memories are counted per conversation    *)
(* that they came from.                                                    *)
(***************************************************************************)
EXTENDS Integers, Sequences

CONSTANTS Conv, Turn,
          MaxSession,        \* max_session_messages
          SummaryThreshold,  \* summary_threshold
          ExtractEvery,      \* 10 in the code
          MaxFacts,          \* bound on the facts of one extraction
          Pipeline,          \* the RAG pipeline is configured
          Faults             \* what may go wrong

ASSUME SizeAssumption == /\ MaxSession \in Nat \ {0}
                         /\ SummaryThreshold \in Nat \ {0}
                         /\ ExtractEvery \in Nat \ {0}
                         /\ MaxFacts \in Nat
ASSUME ModeAssumption == /\ Pipeline \in BOOLEAN
                         /\ Faults \subseteq {"llm", "disconnect", "crash"}

VARIABLES title,      \* of each conversations row
          log,        \* messages rows of each conversation, by created_at
          summaries,  \* memory rows of scope 'session', by created_at
          facts,      \* number of memory rows of scope 'global'
          turn        \* the coroutine of each turn

tables == <<title, log, summaries, facts>>
vars   == <<tables, turn>>

Message == Turn \X {"user", "assistant"}
NoConv  == "none"

Fresh == [pc |-> "idle", conv |-> NoConv, untitled |-> FALSE, prompt |-> <<>>,
          block |-> <<>>, total |-> 0, left |-> 0, outcome |-> "none"]

Exists(c) == title[c] \notin {"absent", "deleted"}

FirstOf(s, n) == SubSeq(s, 1, IF n < Len(s) THEN n ELSE Len(s))
LastOf(s, n)  == SubSeq(s, IF n < Len(s) THEN Len(s) - n + 1 ELSE 1, Len(s))

Init == /\ title = [c \in Conv |-> "absent"]
        /\ log = [c \in Conv |-> <<>>]
        /\ summaries = [c \in Conv |-> <<>>]
        /\ facts = [c \in Conv |-> 0]
        /\ turn = [t \in Turn |-> Fresh]

(***************************************************************************)
(* The routes that are one statement (or a check and a statement whose     *)
(* effect the check does not change).                                      *)
(***************************************************************************)
Names == {"New Conversation", "given"}

Create(c) ==
    /\ title[c] = "absent"
    /\ \E name \in Names : title' = [title EXCEPT ![c] = name]
    /\ UNCHANGED <<log, summaries, facts, turn>>

Rename(c) ==
    /\ Exists(c)
    /\ \E name \in Names : title' = [title EXCEPT ![c] = name]
    /\ UNCHANGED <<log, summaries, facts, turn>>

\* Messages and memories cascade, global ones too.
Delete(c) ==
    /\ Exists(c)
    /\ title' = [title EXCEPT ![c] = "deleted"]
    /\ log' = [log EXCEPT ![c] = <<>>]
    /\ summaries' = [summaries EXCEPT ![c] = <<>>]
    /\ facts' = [facts EXCEPT ![c] = 0]
    /\ UNCHANGED turn

ClearGlobal ==
    /\ facts' = [c \in Conv |-> 0]
    /\ UNCHANGED <<title, log, summaries, turn>>

DeleteSession(c) == summaries' = [summaries EXCEPT ![c] = <<>>]

ClearSession(c) ==
    /\ DeleteSession(c)
    /\ UNCHANGED <<title, log, facts, turn>>

(***************************************************************************)
(* A chat turn.                                                            *)
(***************************************************************************)
At(t, where)   == turn[t].pc = where
ConvOf(t)      == turn[t].conv
Goto(t, where) == turn' = [turn EXCEPT ![t].pc = where]
End(t, how)    == turn' = [turn EXCEPT ![t].pc = "end", ![t].outcome = how]

\* get_conversation and the scan of the message: a stream, 404 or 400.  An
\* empty message titles nothing.
Send(t, c) ==
    /\ At(t, "idle")
    /\ \/ /\ Exists(c)
          /\ \E untitled \in {FALSE, title[c] = "New Conversation"} :
                turn' = [turn EXCEPT ![t] = [Fresh EXCEPT
                            !.pc = "history", !.conv = c, !.untitled = untitled]]
       \/ turn' = [turn EXCEPT ![t] = [Fresh EXCEPT
                            !.pc = "end", !.conv = c, !.outcome = "rejected"]]
    /\ UNCHANGED tables

\* Mutant: the plain LLM answers a message that nobody stores.
AnswersFirst == "answer"

\* Where a turn goes after build_messages: a pipeline answers before the
\* user's message is stored, a plain LLM streams after it.
AfterHistory == IF Pipeline THEN "answer" ELSE "ask"
AfterAsk     == IF Pipeline THEN "reply" ELSE "answer"
AfterAnswer  == IF Pipeline THEN "ask" ELSE "reply"

\* Mutant: the message is stored before the history is read.
BuildAfterAsking(t) ==
    LET c == ConvOf(t) IN
    /\ At(t, "history")
    /\ Exists(c)
    /\ log' = [log EXCEPT ![c] = Append(@, <<t, "user">>)]
    /\ turn' = [turn EXCEPT ![t].prompt = FirstOf(log'[c], MaxSession),
                            ![t].pc = AfterAsk]
    /\ UNCHANGED <<title, summaries, facts>>

\* build_messages: get_messages with LIMIT, in ascending order.
BuildMessages(t) ==
    /\ At(t, "history")
    /\ turn' = [turn EXCEPT ![t].prompt = FirstOf(log[ConvOf(t)], MaxSession),
                            ![t].pc = AfterHistory]
    /\ UNCHANGED tables

Answer(t) ==
    /\ At(t, "answer")
    /\ Goto(t, AfterAnswer)
    /\ UNCHANGED tables

\* add_message: the foreign key raises for a conversation deleted meanwhile.
AddMessage(t, role, next) ==
    LET c == ConvOf(t) IN
    /\ \/ /\ Exists(c)
          /\ log' = [log EXCEPT ![c] = Append(@, <<t, role>>)]
          /\ Goto(t, next)
       \/ /\ ~Exists(c)
          /\ End(t, "error")
          /\ UNCHANGED log
    /\ UNCHANGED <<title, summaries, facts>>

Ask(t) == At(t, "ask") /\ AddMessage(t, "user", AfterAsk)

\* Mutant: an empty reply is announced but not stored.
ReplyUnsaved(t) ==
    /\ At(t, "reply")
    /\ Goto(t, "done") \/ Goto(t, "title")
    /\ UNCHANGED tables

Reply(t) ==
    /\ At(t, "reply")
    /\ AddMessage(t, "assistant", IF turn[t].untitled THEN "title" ELSE "done")

\* Mutant: the title waits for its row.
AutoTitleLiveRow(t) ==
    /\ At(t, "title")
    /\ Exists(ConvOf(t))
    /\ title' = [title EXCEPT ![ConvOf(t)] = "first message"]
    /\ Goto(t, "done")
    /\ UNCHANGED <<log, summaries, facts>>

\* The title read when the turn started decides; the UPDATE hits no row if the
\* conversation is gone.
AutoTitle(t) ==
    LET c == ConvOf(t) IN
    /\ At(t, "title")
    /\ title' = [title EXCEPT ![c] = IF Exists(c) THEN "first message" ELSE @]
    /\ Goto(t, "done")
    /\ UNCHANGED <<log, summaries, facts>>

\* The "done" event, then create_task(process_turn).
Done(t) ==
    /\ At(t, "done")
    /\ turn' = [turn EXCEPT ![t].pc = "memory", ![t].outcome = "done"]
    /\ UNCHANGED tables

(***************************************************************************)
(* process_turn.  Whatever it raises is logged and ends it.                *)
(***************************************************************************)
\* Mutant: the threshold is crossed for good.
SummaryOverdue(n) == n >= SummaryThreshold
SummaryDue(n) == n > 0 /\ n % SummaryThreshold = 0
ExtractDue(n) == n > 0 /\ n % ExtractEvery = 0

AfterSummary(n) == IF ExtractDue(n) THEN "extract" ELSE "end"

ProcessTurn(t) ==
    LET recent == log[ConvOf(t)]
        n      == Len(recent)
    IN
    /\ At(t, "memory")
    /\ turn' = [turn EXCEPT
          ![t].total = n,
          ![t].block = IF SummaryDue(n) THEN LastOf(recent, SummaryThreshold) ELSE <<>>,
          ![t].pc = IF SummaryDue(n) THEN "summarise" ELSE AfterSummary(n)]
    /\ UNCHANGED tables

\* The LLM call: an empty summary stores nothing.
Summarise(t) ==
    /\ At(t, "summarise")
    /\ Goto(t, "replace") \/ Goto(t, AfterSummary(turn[t].total))
    /\ UNCHANGED tables

DropOldSummary(t) ==
    /\ At(t, "replace")
    /\ DeleteSession(ConvOf(t))
    /\ Goto(t, "store")
    /\ UNCHANGED <<title, log, facts>>

\* Mutant: no foreign key on the memory table.
StoreSummaryUnchecked(t) ==
    /\ At(t, "store")
    /\ summaries' = [summaries EXCEPT ![ConvOf(t)] = Append(@, turn[t].block)]
    /\ Goto(t, AfterSummary(turn[t].total))
    /\ UNCHANGED <<title, log, facts>>

StoreSummary(t) ==
    LET c == ConvOf(t) IN
    /\ At(t, "store")
    /\ \/ /\ Exists(c)
          /\ summaries' = [summaries EXCEPT ![c] = Append(@, turn[t].block)]
          /\ Goto(t, AfterSummary(turn[t].total))
       \/ /\ ~Exists(c)
          /\ Goto(t, "end")
          /\ UNCHANGED summaries
    /\ UNCHANGED <<title, log, facts>>

\* The LLM call and the parse of its JSON list.
Extract(t) ==
    /\ At(t, "extract")
    /\ \E n \in 0..MaxFacts :
          turn' = [turn EXCEPT ![t].left = n, ![t].pc = IF n = 0 THEN "end" ELSE "fact"]
    /\ UNCHANGED tables

AddFact(t) ==
    LET c == ConvOf(t) IN
    /\ At(t, "fact")
    /\ \/ /\ Exists(c)
          /\ facts' = [facts EXCEPT ![c] = @ + 1]
          /\ turn' = [turn EXCEPT ![t].left = @ - 1,
                                  ![t].pc = IF turn[t].left = 1 THEN "end" ELSE @]
       \/ /\ ~Exists(c)
          /\ Goto(t, "end")
          /\ UNCHANGED facts
    /\ UNCHANGED <<title, log, summaries>>

(***************************************************************************)
(* What may go wrong.                                                      *)
(***************************************************************************)
Streaming(t)  == turn[t].pc \in {"history", "answer", "ask", "reply", "title", "done"}
Processing(t) == turn[t].pc \in {"memory", "summarise", "replace", "store",
                                 "extract", "fact"}

\* The model of a turn, a summary or an extraction is unreachable.
LLMFails(t) ==
    /\ "llm" \in Faults
    /\ \/ At(t, "answer") /\ End(t, "error")
       \/ (At(t, "summarise") \/ At(t, "extract")) /\ Goto(t, "end")
    /\ UNCHANGED tables

\* The client goes away: the stream is cancelled at its await, after "done"
\* too, and then no background task is created.
Disconnect(t) ==
    /\ "disconnect" \in Faults
    /\ Streaming(t)
    /\ End(t, "cancelled")
    /\ UNCHANGED tables

Crash ==
    /\ "crash" \in Faults
    /\ turn' = [t \in Turn |->
          CASE Streaming(t)  -> [turn[t] EXCEPT !.pc = "end", !.outcome = "cancelled"]
            [] Processing(t) -> [turn[t] EXCEPT !.pc = "end"]
            [] OTHER         -> turn[t]]
    /\ UNCHANGED tables

Step(t) == \/ BuildMessages(t) \/ Answer(t) \/ Ask(t) \/ Reply(t) \/ AutoTitle(t)
           \/ Done(t) \/ ProcessTurn(t) \/ Summarise(t) \/ DropOldSummary(t)
           \/ StoreSummary(t) \/ Extract(t) \/ AddFact(t)

Next == \/ \E c \in Conv : Create(c) \/ Rename(c) \/ Delete(c) \/ ClearSession(c)
        \/ ClearGlobal \/ Crash
        \/ \E t \in Turn : \/ \E c \in Conv : Send(t, c)
                           \/ Step(t) \/ LLMFails(t) \/ Disconnect(t)

Spec == Init /\ [][Next]_vars

\* The event loop resumes every coroutine; clients and failures owe nothing.
FairSpec == Spec /\ \A t \in Turn : WF_vars(Step(t))
-----------------------------------------------------------------------------
(***************************************************************************)
(* Properties.                                                             *)
(***************************************************************************)
TurnSet == [pc : {"idle", "history", "answer", "ask", "reply", "title", "done",
                  "memory", "summarise", "replace", "store", "extract", "fact", "end"},
            conv : Conv \cup {NoConv}, untitled : BOOLEAN, prompt : Seq(Message),
            block : Seq(Message), total : Nat, left : Nat,
            outcome : {"none", "done", "error", "cancelled", "rejected"}]

\* The shape of the tables and of every coroutine.
TypeOK == /\ title \in [Conv -> {"absent", "New Conversation", "given",
                                 "first message", "deleted"}]
          /\ log \in [Conv -> Seq(Message)]
          /\ summaries \in [Conv -> Seq(Seq(Message))]
          /\ facts \in [Conv -> Nat]
          /\ turn \in [Turn -> TurnSet]

Position(c, m) == {i \in 1..Len(log[c]) : log[c][i] = m}

\* However turns of one conversation overlap, fail or are cancelled, a reply
\* stands after the one message it answers, and no message is stored twice.
ReplyFollowsQuestion ==
    \A c \in Conv : \A i \in 1..Len(log[c]) :
        LET t == log[c][i][1] IN
        /\ Position(c, log[c][i]) = {i}
        /\ ConvOf(t) = c
        /\ log[c][i][2] = "assistant" => \E j \in 1..(i - 1) : log[c][j] = <<t, "user">>

\* The tables of a conversation hold what one of its turns may have put there.
LogIsConsistent == TypeOK /\ ReplyFollowsQuestion

\* "The message the user just sent (not yet persisted)": the history in a
\* prompt never holds the message the prompt asks about.
QuestionSentOnce ==
    \A t \in Turn : \A i \in 1..Len(turn[t].prompt) : turn[t].prompt[i][1] # t

Blocks(c) == {SubSeq(log[c], k * SummaryThreshold + 1, (k + 1) * SummaryThreshold) :
                 k \in 0..((Len(log[c]) \div SummaryThreshold) - 1)}

\* A stored summary is about one full block of SummaryThreshold consecutive
\* messages of its own conversation, whatever was stored while the model wrote it.
SummariesAreBlocks ==
    \A c \in Conv : \A i \in 1..Len(summaries[c]) : summaries[c][i] \in Blocks(c)

\* Deleting a conversation is final: turns and background tasks that were under
\* way add no message, summary or fact to it.
DeletedStaysEmpty ==
    \A c \in Conv : ~Exists(c) =>
        log[c] = <<>> /\ summaries[c] = <<>> /\ facts[c] = 0

\* The client that was sent "done" finds its exchange in the conversation.
DoneIsStored ==
    \A t \in Turn :
        /\ At(t, "done") \/ turn[t].outcome = "done"
        /\ Exists(ConvOf(t))
        => \A role \in {"user", "assistant"} : Position(ConvOf(t), <<t, role>>) # {}

\* Every turn comes to an end, its background task included.
TurnsEnd == \A t \in Turn : ~At(t, "idle") ~> At(t, "end")

\* "The rolling window of recent messages kept in-context": a prompt carries
\* the last messages of the conversation.
WindowIsRecent ==
    [][\A t \in Turn : At(t, "history") /\ At(t, AfterHistory)'
          => turn[t].prompt' = LastOf(log[ConvOf(t)], MaxSession)]_vars

\* "replace old summary": a conversation has one session summary at most.
OneSummary == \A c \in Conv : Len(summaries[c]) <= 1
=============================================================================
