------------------------------ MODULE TextWindows ------------------------------
(***************************************************************************)
(* chunk_text of backend/retrieval/chunker.py: a window over a text whose  *)
(* end is drawn back to a sentence boundary in its last fifth, and whose   *)
(* next start lies some characters before that end.  One action is one     *)
(* turn of the loop.  Offsets count from 0, as in Python.                  *)
(***************************************************************************)
EXTENDS Integers, Sequences, FiniteSets, FiniteSetsExt

CONSTANTS Size, Overlaps,  \* what callers ask for, Overlap >= Size included
          MaxText,         \* bound on the length of a text
          MaxMarks         \* bound on its full stops and spaces

WindowAssumption ==
    Size \in Nat \ {0} /\ Overlaps \subseteq Nat /\ MaxText \in Nat /\ MaxMarks \in Nat

VARIABLES text, overlap, start, windows, windowed

vars == <<text, overlap, start, windows, windowed>>

Char == {"stop", "space", "word"}

\* Words with some full stops and spaces; with MaxMarks = MaxText these are all texts.
Init == /\ \E n \in 0..MaxText : \E at \in {S \in SUBSET (1..n) : Cardinality(S) <= MaxMarks} :
              \E mark \in [at -> {"stop", "space"}] :
                 text = [p \in 1..n |-> IF p \in at THEN mark[p] ELSE "word"]
        /\ overlap \in Overlaps /\ start = 0 /\ windows = <<>>
        /\ windowed = (\A p \in 1..Len(text) : text[p] = "space")

\* What rfind(". ", from, to) may find.
Boundaries(from, to) == {b \in from..(to - 2) : text[b + 1] = "stop" /\ text[b + 2] = "space"}

End(s) ==
    IF s + Size >= Len(text) THEN Len(text)
    ELSE LET B == Boundaries(s + (Size * 4) \div 5, s + Size) IN
         IF B = {} THEN s + Size ELSE Max(B) + 2

\* Mutant: the next start is counted from the hard limit, not from the sentence's end.
BehindLimit(s, e) == IF s + Size - overlap > s THEN s + Size - overlap ELSE s + 1

\* Forward, whatever the overlap is.
NextStart(s, e) == IF e - overlap > s THEN e - overlap ELSE s + 1

\* A window of nothing but spaces is no chunk.
Slide ==
    LET e == End(start) IN
    /\ ~windowed
    /\ windows' = IF \E p \in (start + 1)..e : text[p] # "space"
                  THEN Append(windows, <<start, e>>) ELSE windows
    /\ start' = IF e >= Len(text) THEN start ELSE NextStart(start, e)
    /\ windowed' = (e >= Len(text))
    /\ UNCHANGED <<text, overlap>>

Spec == Init /\ [][Slide]_vars

Fairness == WF_vars(Slide)
-----------------------------------------------------------------------------
TypeOK == /\ start \in 0..Len(text) /\ windowed \in BOOLEAN
          /\ \A i \in 1..Len(windows) : windows[i] \in (0..Len(text)) \X (1..Len(text))

\* No word is lost between two windows, no window is longer than asked for, each
\* begins after the one before it, and no further before its end than the overlap.
TextCovered ==
    /\ \A p \in 1..(IF windowed THEN Len(text) ELSE start) : text[p] # "space" =>
          \E i \in 1..Len(windows) : windows[i][1] < p /\ p <= windows[i][2]
    /\ \A i \in 1..Len(windows) : windows[i][2] - windows[i][1] <= Size
    /\ \A i \in 2..Len(windows) :
          windows[i - 1][1] < windows[i][1] /\ windows[i - 1][2] - overlap <= windows[i][1]
=============================================================================
