----------------------------- MODULE MarkdownLines -----------------------------
(***************************************************************************)
(* _parse_markdown of backend/ingestion/parsers/marker_parser.py: a walk   *)
(* over the lines that opens a block at one line and closes it at another. *)
(* A line is what its regular expressions tell apart; one action takes     *)
(* one line, the end of the file the last one.                             *)
(***************************************************************************)
EXTENDS Integers, Sequences

CONSTANTS Classes,  \* the kinds of line that occur
          MaxLines  \* bound on the lines of a file

\* "$$", a line that opens with it, one that ends with it, and one that does both.
Dollars == {"dollars", "opens", "ends", "formula"}

MarkdownAssumption ==
    /\ Classes \subseteq Dollars \cup {"heading", "fence", "row", "long", "short", "blank"}
    /\ MaxLines \in Nat

VARIABLES lines,     \* read so far
          block,     \* the block that is open: its type and its lines
          current,   \* current_heading, 0 for none
          elements,  \* type, heading and line numbers of each element
          ended,     \* the last line was read
          dropped    \* auxiliary: lines left out on purpose

vars == <<lines, block, current, elements, ended, dropped>>

Closed == [type |-> "none", of |-> <<>>]

Init == /\ lines = <<>> /\ block = Closed /\ current = 0
        /\ elements = <<>> /\ ended = FALSE /\ dropped = {}

Element(type, of) == [type |-> type, heading |-> current, of |-> of]
Emit(type, of)    == elements' = Append(elements, Element(type, of))
Lines(s) == {s[i] : i \in 1..Len(s)}

\* len(para_text) > 10: sure with a long line, possible with the joined others.
Kept(of) == IF \E i \in Lines(of) : lines[i] = "long" THEN {TRUE}
            ELSE IF Len(of) = 1 /\ lines[of[1]] = "short" THEN {FALSE} ELSE BOOLEAN

\* Mutant: the line that ended the block is taken for part of it.
ClosesLate(of, i) == Append(of, i)
Closes(of, i)     == of

\* What the main loop does with line i of class c when no block is open;
\* es are the elements emitted so far.
Opens(es, c, i) ==
    /\ block' = CASE c = "fence"              -> [type |-> "code", of |-> <<>>]
                  [] c = "row"                -> [type |-> "table", of |-> <<i>>]
                  [] c \in {"dollars", "opens"} -> [type |-> "equation", of |-> <<i>>]
                  [] c \in {"long", "short", "ends"} -> [type |-> "text", of |-> <<i>>]
                  [] OTHER                    -> Closed
    /\ current' = IF c = "heading" THEN i ELSE current
    /\ elements' = CASE c = "heading" -> Append(es, [type |-> c, heading |-> i, of |-> <<i>>])
                     [] c = "formula" -> Append(es, Element("equation", <<i>>))
                     [] OTHER         -> es

Read(c) == ~ended /\ Len(lines) < MaxLines /\ lines' = Append(lines, c) /\ UNCHANGED ended
Grow(i) == block' = [block EXCEPT !.of = Append(@, i)] /\ UNCHANGED <<current, elements, dropped>>

Top(c) ==
    /\ block.type = "none"
    /\ Read(c)
    /\ Opens(elements, c, Len(lines'))
    /\ dropped' = IF c \in {"fence", "blank"} THEN dropped \cup {Len(lines')} ELSE dropped

\* Every line up to the next fence, whatever it looks like.
InCode(c) ==
    /\ block.type = "code" /\ Read(c)
    /\ IF c # "fence" THEN Grow(Len(lines'))
       ELSE /\ block' = Closed
            /\ LET blanks == \A i \in Lines(block.of) : lines[i] = "blank" IN
               /\ IF blanks THEN UNCHANGED elements ELSE Emit("code", block.of)
               /\ dropped' = dropped \cup {Len(lines')} \cup IF blanks THEN Lines(block.of) ELSE {}
            /\ UNCHANGED current

\* Up to the next line that ends in "$$", which belongs to the equation.
InEquation(c) ==
    /\ block.type = "equation" /\ Read(c)
    /\ IF c \notin {"dollars", "ends", "formula"} THEN Grow(Len(lines'))
       ELSE /\ block' = Closed
            /\ Emit("equation", Append(block.of, Len(lines')))
            /\ UNCHANGED <<current, dropped>>

\* A table ends with its rows, a paragraph at a blank line or a heading; that
\* line is looked at anew.  Fences, rows and equations join a paragraph.
InRun(c) ==
    /\ block.type \in {"table", "text"} /\ Read(c)
    /\ LET i == Len(lines')
           goes == IF block.type = "table" THEN c = "row" ELSE c \notin {"blank", "heading"} IN
       IF goes THEN Grow(i)
       ELSE \E keep \in IF block.type = "table" THEN {TRUE} ELSE Kept(block.of) :
               /\ Opens(IF keep THEN Append(elements, Element(block.type, Closes(block.of, i)))
                                ELSE elements, c, i)
               /\ dropped' = dropped \cup (IF keep THEN {} ELSE Lines(block.of))
                                     \cup (IF c \in {"fence", "blank"} THEN {i} ELSE {})

\* The end of the file closes what is open.
EndOfFile ==
    /\ ~ended /\ ended' = TRUE /\ block' = Closed
    /\ LET empty == block.type = "code" /\ \A i \in Lines(block.of) : lines[i] = "blank" IN
       \E keep \in IF empty \/ block.type = "none" THEN {FALSE}
                  ELSE IF block.type = "text" THEN Kept(block.of) ELSE {TRUE} :
          /\ IF keep THEN Emit(block.type, block.of) ELSE UNCHANGED elements
          /\ dropped' = IF keep THEN dropped ELSE dropped \cup Lines(block.of)
    /\ UNCHANGED <<lines, current>>

Next == EndOfFile \/ \E c \in Classes : Top(c) \/ InCode(c) \/ InEquation(c) \/ InRun(c)

Spec == Init /\ [][Next]_vars
-----------------------------------------------------------------------------
TypeOK == /\ lines \in Seq(Classes) /\ Len(lines) <= MaxLines /\ current \in 0..Len(lines)
          /\ block.type \in {"none", "code", "table", "equation", "text"}
          /\ dropped \subseteq 1..Len(lines)

Holders(i) == {e \in 1..Len(elements) : i \in Lines(elements[e].of)}

\* Whatever blocks a file opens, interrupts or leaves open, each of its lines is in
\* one element, in the open block, or was left out on purpose; elements and their
\* lines keep the order of the file, and each is under the heading before it.  Left
\* out are fences, blank lines and paragraphs of a few characters.
LinesKept ==
    /\ \A i \in 1..Len(lines) :
          \/ i \in dropped /\ Holders(i) = {} /\ lines[i] # "long"
          \/ i \in Lines(block.of) /\ Holders(i) = {}
          \/ \E e \in 1..Len(elements) : Holders(i) = {e}
    /\ \A e \in 1..Len(elements) :
          LET of == elements[e].of IN
          /\ \A k \in 2..Len(of) : of[k] = of[k - 1] + 1
          /\ e > 1 => elements[e - 1].of[Len(elements[e - 1].of)] < of[1]
          /\ elements[e].heading = 0 => \A d \in 1..(e - 1) : elements[d].type # "heading"
          /\ elements[e].heading # 0 => \E d \in 1..e :
                /\ elements[d].type = "heading" /\ elements[d].of = <<elements[e].heading>>
                /\ \A b \in (d + 1)..e : elements[b].type # "heading"
=============================================================================
