--------------------------- MODULE DeepOrchestrator ---------------------------
(***************************************************************************)
(* The deep agent (backend/agent/deep_orchestrator.py and its two routes): *)
(* the model's tool calls interrupt the run until a client resumes the     *)
(* thread with one decision per call.  Threads live in a MemorySaver.      *)
(* LangGraph loads a thread's checkpoint when a request begins and saves   *)
(* after each node, the last writer winning; it takes no lock on threads.  *)
(***************************************************************************)
EXTENDS ToolServer

CONSTANTS Thread,
          Restarts  \* bound on restarts

VARIABLES open,      \* per thread: the calls its checkpoint holds for approval
          request,   \* per caller: run or resume in flight
          approved,  \* auxiliary: the calls each caller's client approved
          restarts

vars == <<tvars, open, request, approved, restarts>>

Fresh == [pc |-> "idle", thread |-> "none", seen |-> {}]

TypeOK ==
    /\ ToolTypeOK
    /\ open \in [Thread -> SUBSET Call] /\ approved \in [Caller -> SUBSET Call]
    /\ \A r \in Caller : /\ request[r].pc \in {"idle", "model", "decide", "tools", "done"}
                         /\ request[r].seen \subseteq Call
    /\ restarts \in 0..Restarts

Init == /\ ToolInit /\ restarts = 0
        /\ open = [t \in Thread |-> {}]
        /\ request = [r \in Caller |-> Fresh] /\ approved = [r \in Caller |-> {}]

Goes(r, pc) == request' = [request EXCEPT ![r].pc = pc]

\* POST /agent/deep.  What the thread was waiting for is superseded.
Run(r, t) ==
    /\ request[r].pc = "idle"
    /\ request' = [request EXCEPT ![r] = [Fresh EXCEPT !.pc = "model", !.thread = t]]
    /\ open' = [open EXCEPT ![t] = {}]
    /\ UNCHANGED <<tvars, approved, restarts>>

Proposed == {c \in Call : \/ \E t \in Thread : c \in open[t]
                          \/ \E r \in Caller : c \in request[r].seen \cup approved[r]}

\* The model answers, after any delegations to the RAG sub-agent, which need no
\* approval and turn their failures into text; or it asks for tools and the
\* request returns "interrupted".
Model(r) ==
    /\ request[r].pc = "model"
    /\ \E calls \in SUBSET (Call \ Proposed) :
          open' = [open EXCEPT ![request[r].thread] = calls]
    /\ Goes(r, "done")
    /\ UNCHANGED <<tvars, approved, restarts>>

\* POST /agent/deep/resume: the checkpoint is read; without a pending interrupt
\* there is nothing to run.
Resume(r, t) ==
    /\ request[r].pc = "idle"
    /\ request' = [request EXCEPT ![r] =
          [pc |-> IF open[t] = {} THEN "done" ELSE "decide", thread |-> t, seen |-> open[t]]]
    /\ UNCHANGED <<tvars, open, approved, restarts>>

\* Mutant: what the client rejected is run like the rest.
RunsRejected(r, yes) == request[r].seen

\* Approved and edited calls run, rejected ones are answered for.
Runs(r, yes) == yes

\* One decision per call seen; an edit may be refused by the tool's schema.
Decide(r) ==
    /\ request[r].pc = "decide"
    /\ \E yes \in SUBSET request[r].seen, invalid \in SUBSET request[r].seen :
          /\ invalid \subseteq yes
          /\ approved' = [approved EXCEPT ![r] = yes]
          /\ job' = [j \in DOMAIN job |->
                IF j[1] # r \/ j[2] \notin Runs(r, yes) THEN job[j]
                ELSE IF j[2] \in invalid THEN Refuse(j) ELSE Enter(j)]
    /\ open' = [open EXCEPT ![request[r].thread] = {}]
    /\ Goes(r, "tools")
    /\ UNCHANGED <<services, points, restarts>>

\* The calls of one message run concurrently.
CallTools(r) ==
    /\ request[r].pc = "tools"
    /\ \E c \in Call : CallTool(<<r, c>>)
    /\ UNCHANGED <<open, request, approved, restarts>>

ToolsReturn(r) ==
    /\ request[r].pc = "tools" /\ \A c \in Call : job[<<r, c>>] \in Settled
    /\ Goes(r, "model")
    /\ UNCHANGED <<tvars, open, approved, restarts>>

\* The model or the harness raises, or the number of decisions is wrong: the
\* request is answered with the error, the thread stays as it was saved.
Fails(r) ==
    /\ request[r].pc \in {"model", "decide"}
    /\ Goes(r, "done")
    /\ UNCHANGED <<tvars, open, approved, restarts>>

\* Requests, threads and their approvals are lost; the vectors stay, and a call
\* that was running may have left one.
Restart ==
    /\ restarts < Restarts
    /\ restarts' = restarts + 1
    /\ open' = [t \in Thread |-> {}]
    /\ request' = [r \in Caller |-> IF request[r].pc = "idle" THEN Fresh
                                    ELSE [request[r] EXCEPT !.pc = "done"]]
    /\ job' = [j \in DOMAIN job |-> IF job[j] \in Settled THEN job[j] ELSE "error"]
    /\ \E lost \in SUBSET {j \in DOMAIN job : job[j] \notin Settled /\ Effective(j[2])} :
          points' = [j \in DOMAIN points |-> points[j] + IF j \in lost THEN 1 ELSE 0]
    /\ UNCHANGED <<services, approved>>

Serve(r) == Model(r) \/ Decide(r) \/ CallTools(r) \/ ToolsReturn(r) \/ Fails(r)

Next == \/ Restart
        \/ \E r \in Caller : Serve(r) \/ \E t \in Thread : Run(r, t) \/ Resume(r, t)

Spec == Init /\ [][Next]_vars

\* The model, the tools and their transport answer or raise.
Fairness == \A r \in Caller : WF_vars(Serve(r))
-----------------------------------------------------------------------------
\* "Human approval is required before this executes": whatever is repeated over
\* HTTP, resumed twice or lost in a restart, a request stores a call's content at
\* most once, and only if its own client approved that call.
StoredOnApproval ==
    \A r \in Caller, c \in Call :
        points[<<r, c>>] <= IF c \in approved[r] THEN 1 ELSE 0

\* Every request returns.
RequestsReturn == \A r \in Caller : request[r].pc # "idle" ~> request[r].pc = "done"

\* Two resumes of one thread may both run a call: this does not hold.
StoredOnce == \A c \in Call, r, q \in Caller :
                 r # q => points[<<r, c>>] + points[<<q, c>>] <= 1
=============================================================================
