------------------------------ MODULE TextPipeline ------------------------------
(***************************************************************************)
(* From a file to passages: the parsers and the converter they share, the  *)
(* lines of a Markdown file, the two chunkers with the scan and            *)
(* deduplication of their chunks, and the retriever that finds passages    *)
(* again.  They hand values to each other and share no state, so a         *)
(* behaviour is the life of one of them.                                   *)
(***************************************************************************)
EXTENDS Integers, Sequences

CONSTANTS Worker, Free,
          Classes, MaxLines,
          WindowSize, Overlaps, MaxText, MaxMarks,
          ChunkSize, ChunkOverlap, Lengths, Names, NoName, MaxElements,
          Queries, Passages, PrefixOf, Scores, WebScore, TopN, Limit

VARIABLES part,
          converter, lock, built, shared, job,
          lines, block, current, elements, ended, dropped,
          text, overlap, start, windows, windowed,
          document, buffer, heading, chunks, safe, alike, waiting, kept, step,
          scanning, query, place, seen, merged

files    == <<converter, lock, built, shared, job>>
markdown == <<lines, block, current, elements, ended, dropped>>
window   == <<text, overlap, start, windows, windowed>>
sections == <<document, buffer, heading, chunks, safe, alike, waiting, kept, step>>
search   == <<scanning, query, place, seen, merged>>
vars == <<part, files, markdown, window, sections, search>>

Files    == INSTANCE FileParsing
Markdown == INSTANCE MarkdownLines
Windows  == INSTANCE TextWindows WITH Size <- WindowSize
Sections == INSTANCE SectionChunks WITH Size <- ChunkSize, Overlap <- ChunkOverlap
Passage  == INSTANCE PassageRetrieval

ASSUME TextAssumption ==
    /\ Files!FileAssumption /\ Markdown!MarkdownAssumption /\ Windows!WindowAssumption
    /\ Sections!SectionAssumption /\ Passage!RetrievalAssumption

Part == {"files", "markdown", "windows", "sections", "passages"}

\* The parts a behaviour is not about are over, so that nothing is asked of them.
Init == /\ part \in Part
        /\ IF part = "files" THEN Files!Init
           ELSE /\ converter = 0 /\ lock = Free /\ built = 0 /\ shared = {}
                /\ job = [w \in Worker |-> [(CHOOSE j \in Files!Queued : TRUE) EXCEPT !.pc = "failed"]]
        /\ Markdown!Init /\ Sections!Init
        /\ IF part = "windows" THEN Windows!Init
           ELSE text = <<>> /\ overlap = 0 /\ start = 0 /\ windows = <<>> /\ windowed = TRUE
        /\ IF part = "passages" THEN Passage!Init
           ELSE /\ scanning = TRUE /\ place = Passage!First /\ seen = <<>> /\ merged = <<>>
                /\ query = [q \in Passage!Q |-> [Passage!Begun("web") EXCEPT !.pc = "done"]]

RunFiles    == Files!Next /\ UNCHANGED <<markdown, window, sections, search>>
RunMarkdown == Markdown!Next /\ UNCHANGED <<files, window, sections, search>>
RunWindows  == Windows!Slide /\ UNCHANGED <<files, markdown, sections, search>>
RunSections == Sections!Next /\ UNCHANGED <<files, markdown, window, search>>
RunPassages == Passage!Next /\ UNCHANGED <<files, markdown, window, sections>>

Next ==
    /\ UNCHANGED part
    /\ \/ part = "files" /\ RunFiles
       \/ part = "markdown" /\ RunMarkdown
       \/ part = "windows" /\ RunWindows
       \/ part = "sections" /\ RunSections
       \/ part = "passages" /\ RunPassages

Spec == Init /\ [][Next]_vars

FairSpec == Spec /\ Files!Fairness /\ Windows!Fairness /\ Passage!Fairness
-----------------------------------------------------------------------------
(***************************************************************************)
(* What each part promises, stated where it is modelled.                   *)
(***************************************************************************)
\* Every variable of every part has its type.
TypeOK == /\ Files!TypeOK /\ Markdown!TypeOK /\ Windows!TypeOK
          /\ Sections!TypeOK /\ Passage!TypeOK

\* The windows over a text lose no word between two of them, whether or not an end was
\* drawn back to a sentence, and exceed neither the size nor the overlap (chunk_text).
WindowsCoverText == Windows!TextCovered

\* The chunks of a document keep its order, its tables and of every other element what
\* fits behind an overlap, none exceeds its size or crosses a heading, and the
\* deduplication drops none unless one close to it is stored (chunk_document).
ChunksKeepText == Sections!ElementsChunked /\ Sections!OnlyDuplicatesDropped

\* Violated: no character of an element is lost (chunk_document cuts a chunk off).
TextIsSplit == Sections!TextIsSplit

\* Violated: an element without a heading of its own is stored under its section's
\* (chunk_document keeps the heading of an element before it).
UnderSectionHeading == Sections!UnderSectionHeading

\* Every line of a Markdown file is in exactly one element, in order and under its
\* heading, or was left out on purpose (the Markdown parser).
LinesKept == Markdown!LinesKept

\* However threads race for it, one converter is built for all files that need no
\* OCR, and one with OCR serves one file (the Docling parser).
OneConverter == Files!OneConverter

\* The retriever passes on what its sub-queries found, the best first and one of each
\* that begins alike (retriever_node).
PassagesRanked == Passage!PassagesRanked

\* Violated: every text found is passed on (two that begin alike are one).
EveryTextPassedOn == Passage!EveryTextPassedOn

\* Every file ends in chunks or in a failure, whoever held the lock; the windows reach
\* the end of the text; the retriever returns whatever its sub-queries run into.
TextArrives == Files!FilesEnd /\ <>windowed /\ Passage!RetrievalEnds
=============================================================================
