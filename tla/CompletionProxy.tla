---------------------------- MODULE CompletionProxy ----------------------------
(***************************************************************************)
(* One request to /v1/chat/completions (backend/api/routes/openai_compat.  *)
(* py), handed on to the model server.  A model server that does not know  *)
(* the model is asked once more with the configured one.                   *)
(***************************************************************************)
EXTENDS Integers, FiniteSets, Sequences, SequencesExt

CONSTANTS Line,     \* data lines the model server may stream
          MaxLines  \* bound on the lines of one stream

ProxyAssumption == MaxLines \in Nat

Model == {"configured", "asked"}

VARIABLE call

Start == [node |-> "check", stream |-> FALSE, model |-> "asked", attempts |-> 0,
          upstream |-> <<>>,  \* lines the model server has sent in this attempt
          out |-> <<>>,       \* events the client has got
          status |-> 0, scanned |-> FALSE, tried |-> {}]

Init == call = Start

End(status, c) == [c EXCEPT !.node = "end", !.status = status]

\* No message, or a last user message the scanner blocks: nothing is sent.
Refuse == /\ call.node = "check"
          /\ call' = End(400, call)

\* The model falls back to the configured one when the client names none.
Accept ==
    /\ call.node = "check"
    /\ \E s \in BOOLEAN, m \in Model :
          call' = [call EXCEPT !.node = "post", !.stream = s, !.model = m]

\* A stream has a status before its first byte; its errors are events.
Failure(c) == IF c.stream THEN End(200, [c EXCEPT !.out = Append(@, "error")]) ELSE End(502, c)

\* Mutant: the second answer is looked at like the first.
MayRetryAgain(c) == c.model # "configured" \/ c.attempts > 1

\* Only once, and only with another model than the one just refused.
MayRetry(c) == c.attempts = 1 /\ c.model # "configured"

\* The model server answers with an error status; not_found is its own shape.
Posted == [call EXCEPT !.attempts = @ + 1, !.tried = @ \cup {call.model}]

ErrorStatus ==
    /\ call.node = "post"
    /\ \E notFound \in BOOLEAN :
          call' = IF notFound /\ MayRetry(Posted)
                  THEN [Posted EXCEPT !.model = "configured"]
                  ELSE Failure(Posted)

\* It cannot be reached, breaks off, times out or sends no JSON.
Breaks ==
    /\ call.node \in {"post", "relay"}
    /\ call' = Failure(IF call.node = "post" THEN Posted ELSE call)

\* A whole answer: its texts are scanned, its tool calls pass.
Answered ==
    /\ call.node = "post" /\ ~call.stream
    /\ call' = End(200, [Posted EXCEPT !.scanned = TRUE])

\* The stream opens.
Streaming ==
    /\ call.node = "post" /\ call.stream
    /\ call' = [Posted EXCEPT !.node = "relay"]

\* Mutant: a line is relayed when the next one is there.
RelayLate(line) == [call EXCEPT !.upstream = Append(@, line), !.out = call.upstream]

\* Each data line is handed on unchanged as it arrives.
Relayed(line) == [call EXCEPT !.upstream = Append(@, line), !.out = Append(@, line)]

Relay ==
    /\ call.node = "relay" /\ Len(call.upstream) < MaxLines
    /\ \E line \in Line : call' = Relayed(line)

\* [DONE], or the end of the stream without it: then the client gets none either.
Done ==
    /\ call.node = "relay"
    /\ \E out \in {call.out, Append(call.out, "DONE")} :
          call' = End(200, [call EXCEPT !.out = out])

\* The client hangs up: the generator is closed where it stands.
HangUp ==
    /\ call.node \in {"post", "relay"} /\ call.stream
    /\ call' = End(499, call)

Next == \/ Refuse \/ Accept \/ ErrorStatus \/ Breaks \/ Answered \/ Streaming
        \/ Relay \/ Done \/ HangUp

Spec == Init /\ [][Next]_call

TypeOK == /\ call.node \in {"check", "post", "relay", "end"} /\ call.model \in Model
          /\ call.status \in {0, 200, 400, 499, 502} /\ call.attempts \in 0..2
-----------------------------------------------------------------------------
\* A client gets the lines of the one attempt that was accepted, each once and in
\* their order, and after them at most one closing event.
StreamIsRelayed ==
    /\ IsPrefix(call.upstream, call.out)
    /\ Len(call.out) <= Len(call.upstream) + 1
    /\ Len(call.out) > Len(call.upstream) => call.node = "end" /\ Last(call.out) \in {"DONE", "error"}

\* No model is asked twice, and a second attempt asks the configured one.
NoModelTwice ==
    /\ call.attempts = Cardinality(call.tried)
    /\ call.attempts > 1 => call.tried = Model
=============================================================================
