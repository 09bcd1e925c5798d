----------------------------- MODULE SectionChunks -----------------------------
(***************************************************************************)
(* chunk_document of backend/retrieval/chunker.py and what the ingestion   *)
(* pipeline does to its chunks before they are embedded and stored: the    *)
(* content scan, and the semantic deduplication of _deduplicate.  One      *)
(* action takes one element of the parsed document, or compares one chunk. *)
(***************************************************************************)
EXTENDS Integers, Sequences

CONSTANTS Size, Overlap,
          Lengths,       \* of the elements that are no heading
          Names, NoName, \* headings, and the empty one
          MaxElements    \* bound on the elements of a document

\* An overlap of 0 would carry the whole buffer over (buffer[-0:]).
SectionAssumption ==
    /\ Size \in Nat /\ Overlap \in 1..(Size - 2)
    /\ Lengths \subseteq Nat \ {0} /\ MaxElements \in Nat

VARIABLES document,  \* the elements so far: kind, length, and heading they carry
          buffer,    \* characters waiting to be flushed
          heading,   \* the current heading
          chunks,    \* characters, heading and kind of each chunk
          safe,      \* chunks the scanner let through
          alike,     \* pairs of chunks whose cosine reaches the threshold
          waiting,   \* safe chunks that were not compared yet
          kept,      \* chunks that will be stored
          step

vars == <<document, buffer, heading, chunks, safe, alike, waiting, kept, step>>

\* The k-th character of element i; Blank joins two elements.
Char(i, k) == <<i, k>>
Blank      == <<0, 0>>
Chars(i, n) == [k \in 1..n |-> Char(i, k)]

\* Any element but a heading may carry a heading of its own.
Element == [kind : {"heading"}, len : {1}, head : Names]
           \cup [kind : {"table", "text"}, len : Lengths, head : Names \cup {NoName}]

Init == /\ document = <<>> /\ buffer = <<>> /\ heading = NoName /\ chunks = <<>>
        /\ safe = {} /\ alike = {} /\ waiting = {} /\ kept = <<>> /\ step = "chunk"

\* Python's s[:n], s[-n:] for n > 0, and lstrip() where blanks stand alone.
UpTo(s, n)   == SubSeq(s, 1, IF n < Len(s) THEN n ELSE Len(s))
LastOnes(s, n) == SubSeq(s, IF n < Len(s) THEN Len(s) - n + 1 ELSE 1, Len(s))
LStrip(s)    == IF s # <<>> /\ Head(s) = Blank THEN Tail(s) ELSE s

Chunk(chars, name, kind) == [chars |-> chars, heading |-> name, kind |-> kind]

\* What waits becomes a chunk under the given heading, cut off at Size.
Flushed(name) ==
    IF buffer = <<>> THEN chunks ELSE Append(chunks, Chunk(UpTo(buffer, Size), name, "text"))

\* Mutant: what waits in the buffer is dropped at a heading.
NotFlushed(name) == chunks
AtHeading(name)  == Flushed(name)

TakeHeading(e) == chunks' = AtHeading(heading) /\ buffer' = <<>> /\ heading' = e.head

\* The heading an element carries replaces the current one; nothing is flushed for it,
\* so what waits is stored under it too.
Headed(e) == IF e.head # NoName THEN e.head ELSE heading

\* Tables and code blocks are chunks of their own, whatever their length.
TakeTable(i, e) ==
    /\ chunks' = Append(Flushed(Headed(e)), Chunk(Chars(i, e.len), Headed(e), "table"))
    /\ buffer' = <<>> /\ heading' = Headed(e)

Carried == LStrip(LastOnes(buffer, Overlap))

TakeText(i, e) ==
    /\ IF buffer # <<>> /\ Len(buffer) + e.len + 1 > Size
       THEN chunks' = Flushed(Headed(e)) /\ buffer' = Carried \o <<Blank>> \o Chars(i, e.len)
       ELSE /\ buffer' = IF buffer = <<>> THEN Chars(i, e.len)
                         ELSE buffer \o <<Blank>> \o Chars(i, e.len)
            /\ UNCHANGED chunks
    /\ heading' = Headed(e)

Take(e) ==
    LET i == Len(document) + 1 IN
    /\ step = "chunk" /\ i <= MaxElements
    /\ document' = Append(document, e)
    /\ CASE e.kind = "heading" -> TakeHeading(e)
         [] e.kind = "table"   -> TakeTable(i, e)
         [] OTHER              -> TakeText(i, e)
    /\ UNCHANGED <<safe, alike, waiting, kept, step>>

\* The end of the document; the scanner blocks some of the chunks, and the
\* vectors of some of the others are close to each other.
Scan ==
    /\ step = "chunk"
    /\ chunks' = Flushed(heading) /\ buffer' = <<>>
    /\ safe' \in SUBSET (1..Len(chunks'))
    /\ alike' \in SUBSET {p \in safe' \X safe' : p[1] < p[2]}
    /\ waiting' = safe'
    /\ step' = IF safe' = {} THEN "failed" ELSE "dedup"
    /\ UNCHANGED <<document, heading, kept>>

NoneAlike(c) == \A j \in 1..Len(kept) : <<kept[j], c>> \notin alike

\* The next chunk is compared with the ones that were kept.
Deduplicate ==
    /\ step = "dedup"
    /\ \E c \in waiting :
          /\ \A d \in waiting : c <= d
          /\ kept' = IF NoneAlike(c) THEN Append(kept, c) ELSE kept
          /\ waiting' = waiting \ {c}
    /\ step' = IF waiting' = {} THEN "stored" ELSE step
    /\ UNCHANGED <<document, buffer, heading, chunks, safe, alike>>

Next == (\E e \in Element : Take(e)) \/ Scan \/ Deduplicate

Spec == Init /\ [][Next]_vars
-----------------------------------------------------------------------------
TypeOK == /\ step \in {"chunk", "failed", "dedup", "stored"} /\ heading \in Names \cup {NoName}
          /\ waiting \subseteq safe /\ safe \subseteq 1..Len(chunks) /\ Len(document) <= MaxElements

Holds(s, c) == \E k \in 1..Len(s) : s[k] = c
Earlier(a, b) == a[1] < b[1] \/ (a[1] = b[1] /\ a[2] < b[2])

\* Character k of element i is stored, or will be with what waits.
Held(i, k) == \/ Holds(UpTo(buffer, Size), Char(i, k))
              \/ \E c \in 1..Len(chunks) : Holds(chunks[c].chars, Char(i, k))

\* Element i belongs to the section of the h-th, or of the beginning for h = 0.
InSection(h, i) == h < i /\ \A j \in (h + 1)..i : document[j].kind # "heading"

SectionName(h) == IF h = 0 THEN NoName ELSE document[h].head

\* What an element of the section may be stored under: the section's heading, or one
\* that an element of the section carries.
HeadingsIn(h) ==
    {SectionName(h)} \cup
    {document[j].head : j \in {i \in 1..Len(document) :
                                  InSection(h, i) /\ document[i].head # NoName}}

\* As many characters as fit a chunk behind the overlap carried into it.
Room == Size - Overlap - 1

\* A table is stored whole and of every other element at least what has Room; a chunk
\* keeps the order, a chunk of text has at most Size characters, and no chunk crosses
\* a heading: it is stored under the one before it, unless an element of the section
\* carries another.
ElementsChunked ==
    /\ \A i \in 1..Len(document) : \A k \in 1..document[i].len :
          document[i].kind = "table" \/ (document[i].kind = "text" /\ k <= Room) => Held(i, k)
    /\ \A c \in 1..Len(chunks) :
          LET s == chunks[c].chars IN
          /\ chunks[c].kind = "text" => Len(s) <= Size
          /\ chunks[c].kind = "table" => \E i \in 1..Len(document) :
                document[i].kind = "table" /\ s = Chars(i, document[i].len)
          /\ \A j, k \in 1..Len(s) :
                j < k /\ s[j] # Blank /\ s[k] # Blank => Earlier(s[j], s[k])
          /\ \E h \in 0..Len(document) :
                /\ chunks[c].heading \in HeadingsIn(h)
                /\ \A k \in 1..Len(s) : s[k] # Blank => InSection(h, s[k][1])

\* Violated.  "Chunks that would exceed chunk_size are split": no character is
\* lost at the end of the document.
TextIsSplit ==
    step # "chunk" =>
        \A i \in 1..Len(document) : \A k \in 1..document[i].len :
            document[i].kind = "text" => Held(i, k)

\* Violated.  "Groups consecutive non-heading elements under their section heading":
\* an element that carries no heading is stored under the heading before it.
UnderSectionHeading ==
    \A c \in 1..Len(chunks) : \A k \in 1..Len(chunks[c].chars) :
        \A h \in 0..Len(document) :
            LET i == chunks[c].chars[k][1] IN
            i # 0 /\ InSection(h, i) /\ (h = 0 \/ document[h].kind = "heading")
              /\ document[i].head = NoName
            => chunks[c].heading = SectionName(h)

\* A chunk the scanner let through is stored, or one before it that is close to it
\* is; closeness is no equivalence, so a chunk close to a dropped one is kept.
OnlyDuplicatesDropped ==
    step = "stored" =>
        /\ \A c \in safe : Holds(kept, c) \/ \E j \in 1..Len(kept) : <<kept[j], c>> \in alike
        /\ \A i, j \in 1..Len(kept) :
              i < j => kept[i] < kept[j] /\ <<kept[i], kept[j]>> \notin alike
=============================================================================
