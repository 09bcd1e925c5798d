------------------------------ MODULE FileParsing ------------------------------
(***************************************************************************)
(* From a file to its chunks: parse_file of backend/ingestion/parsers/     *)
(* dispatcher.py in a worker thread, the Docling converter all threads     *)
(* share (docling_parser.py), and the choice of the chunker in the         *)
(* pipeline.  Threads interleave at every access to the shared converter.  *)
(***************************************************************************)
EXTENDS Integers, FiniteSets

CONSTANTS Worker,  \* threads, each with a file
          Free     \* the lock's owner when nobody holds it

FileAssumption == Free \notin Worker

VARIABLES converter,  \* _converter: which build it is, 0 for None
          lock,       \* who holds _converter_lock
          built,      \* converters ever built
          shared,     \* auxiliary: the builds without OCR
          job         \* per worker: its file and how far it is

vars == <<converter, lock, built, shared, job>>

\* Where parse_file sends a file by its suffix and MIME type.
Format == {"structured", "code", "pdf", "office"}
Mode   == {"auto", "docling", "marker"}
Parser == {"none", "structured", "tree-sitter", "markdown", "docling", "plaintext"}

Queued == [pc : {"queued"}, format : Format, mode : Mode, ocr : {FALSE}, using : {0},
           parser : {"none"}, document : {FALSE}]

Init == /\ converter = 0 /\ lock = Free /\ built = 0 /\ shared = {}
        /\ job \in [Worker -> Queued]

Becomes(w, pc)  == job' = [job EXCEPT ![w].pc = pc]
Parsed(w, name) == job' = [job EXCEPT ![w].parser = name, ![w].pc = "chunk"]

\* Spreadsheets, LaTeX, Markdown and text have parsers of their own, which may
\* raise; source code falls back to text where its grammar is missing; the mode
\* "marker" reads the rest as Markdown.
Dispatch(w) ==
    LET j == job[w] IN
    /\ j.pc = "queued"
    /\ \/ j.format = "structured" /\ (Parsed(w, "structured") \/ Becomes(w, "failed"))
       \/ /\ j.format = "code"
          /\ Parsed(w, "tree-sitter") \/ Becomes(w, "fallback") \/ Becomes(w, "failed")
       \/ j.format \in {"pdf", "office"} /\ j.mode = "marker" /\ Parsed(w, "markdown")
       \/ j.format \in {"pdf", "office"} /\ j.mode # "marker" /\ Becomes(w, "converter")
    /\ UNCHANGED <<converter, lock, built, shared>>

Uses(w, c) == job' = [job EXCEPT ![w].pc = "convert", ![w].using = c]

\* The converter is read without the lock.
Reusable(w) == converter # 0 /\ ~job[w].ocr

FastPath(w) ==
    /\ job[w].pc = "converter" /\ Reusable(w)
    /\ Uses(w, converter)
    /\ UNCHANGED <<converter, lock, built, shared>>

\* There was none a moment ago.
SlowPath(w) ==
    /\ job[w].pc = "converter" /\ ~Reusable(w)
    /\ Becomes(w, "wait")
    /\ UNCHANGED <<converter, lock, built, shared>>

Lock(w) ==
    /\ job[w].pc = "wait" /\ lock = Free
    /\ lock' = w
    /\ Becomes(w, "locked")
    /\ UNCHANGED <<converter, built, shared>>

\* Mutant: no second look under the lock.
NeverRechecked(w) == FALSE
Rechecked(w)      == Reusable(w)

Recheck(w) ==
    /\ job[w].pc = "locked"
    /\ IF Rechecked(w) THEN Uses(w, converter) /\ lock' = Free
                       ELSE Becomes(w, "build") /\ UNCHANGED lock
    /\ UNCHANGED <<converter, built, shared>>

\* Docling may be missing or fail to load its models; one for OCR is not kept.
Build(w) ==
    /\ job[w].pc = "build"
    /\ lock' = Free
    /\ \/ Becomes(w, "fallback") /\ UNCHANGED <<converter, built, shared>>
       \/ /\ built' = built + 1
          /\ Uses(w, built')
          /\ IF job[w].ocr THEN UNCHANGED <<converter, shared>>
                           ELSE converter' = built' /\ shared' = shared \cup {built'}

\* A PDF without text is converted once more with OCR; if that yields no document
\* the first one stays.
Convert(w) ==
    LET j == job[w] IN
    /\ j.pc = "convert"
    /\ \/ Becomes(w, "fallback")
       \/ job' = [job EXCEPT ![w].parser = "docling", ![w].pc = "chunk", ![w].document = TRUE]
       \/ /\ j.format = "pdf" /\ ~j.ocr
          /\ job' = [job EXCEPT ![w].ocr = TRUE, ![w].pc = "converter", ![w].document = TRUE]
    /\ UNCHANGED <<converter, lock, built, shared>>

\* _parse_plaintext; nothing is caught any more.
Fallback(w) ==
    /\ job[w].pc = "fallback"
    /\ Parsed(w, "plaintext") \/ Becomes(w, "failed")
    /\ UNCHANGED <<converter, lock, built, shared>>

\* _process: the HybridChunker for what Docling parsed, the layout chunker for the
\* rest and whenever the other fails; a document without chunks has failed.
ChooseChunker(w) ==
    /\ job[w].pc = "chunk"
    /\ \/ job[w].parser = "docling" /\ Becomes(w, "hybrid")
       \/ Becomes(w, "sections")
       \/ Becomes(w, "failed")
    /\ UNCHANGED <<converter, lock, built, shared>>

Step(w) == \/ Dispatch(w) \/ FastPath(w) \/ SlowPath(w) \/ Lock(w) \/ Recheck(w)
           \/ Build(w) \/ Convert(w) \/ Fallback(w) \/ ChooseChunker(w)

Next == \E w \in Worker : Step(w)

Spec == Init /\ [][Next]_vars

\* Threads are scheduled, conversions return or raise.
Fairness == \A w \in Worker : WF_vars(Step(w))
-----------------------------------------------------------------------------
TypeOK == /\ converter \in 0..built /\ lock \in Worker \cup {Free} /\ shared \subseteq 1..built
          /\ \A w \in Worker : job[w].parser \in Parser /\ job[w].using \in 0..built

\* However threads race for it, one converter is built for all files, every file
\* that needs no OCR is converted by it, and a converter with OCR has one file; what
\* the HybridChunker is given has a Docling document.
OneConverter ==
    /\ Cardinality(shared) <= 1
    /\ converter # 0 => shared = {converter}
    /\ \A w, v \in Worker : job[w].pc = "convert" =>
          /\ ~job[w].ocr => job[w].using \in shared
          /\ job[w].ocr => job[w].using \notin shared /\ (job[v].using = job[w].using => v = w)
    /\ \A w \in Worker : job[w].pc = "hybrid" => job[w].document

\* The lock is released on every path: every file gets its chunks or fails.
FilesEnd == <>(\A w \in Worker : job[w].pc \in {"hybrid", "sections", "failed"})
=============================================================================
