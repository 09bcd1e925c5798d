--------------------------- MODULE TextPipelineProofs ---------------------------
(***************************************************************************)
(* The way of a text: the converter the threads share, the lines of a      *)
(* Markdown file, the windows over a text, the chunks of a document and    *)
(* the passages of a search, for any number of threads and sub-queries and *)
(* texts of any length.  Each invariant is one of a part (Files!...,       *)
(* Markdown!...); a behaviour of the pipeline is one of that part or       *)
(* leaves its variables alone.                                             *)
(***************************************************************************)
EXTENDS TextPipeline, FiniteSetTheorems, SequenceTheorems, WellFoundedInduction, TLAPS

Place == {"queued", "converter", "wait", "locked", "build", "convert", "fallback",
          "chunk", "hybrid", "sections", "failed"}

Job == [pc : Place, format : Files!Format, mode : Files!Mode, ocr : BOOLEAN, using : Nat,
        parser : Files!Parser, document : BOOLEAN]

Inside == {"locked", "build"}

\* The converter that is kept is the only one without OCR, and numbers are given
\* out in the order of the builds.
KeptIsShared ==
    /\ converter \in Nat /\ built \in Nat /\ converter <= built
    /\ lock \in Worker \cup {Free}
    /\ shared = IF converter = 0 THEN {} ELSE {converter}
    /\ job \in [Worker -> Job]

\* Whoever is inside holds the lock, and builds without OCR only if there is no
\* converter; whoever converts uses the shared converter, or one of its own.
WorkerSound(w) ==
    /\ job[w].pc \in Inside => lock = w
    /\ job[w].pc = "build" /\ ~job[w].ocr => converter = 0
    /\ job[w].pc = "convert" /\ ~job[w].ocr => job[w].using \in shared
    /\ job[w].using <= built
    /\ job[w].pc = "convert" /\ job[w].ocr =>
          job[w].using \notin shared /\ job[w].using # 0
    /\ job[w].parser = "docling" => job[w].document
    /\ job[w].pc = "hybrid" => job[w].document

OcrIsOwn(w, v) ==
    job[w].pc = "convert" /\ job[w].ocr /\ job[v].using = job[w].using => v = w

ConverterInv ==
    /\ KeptIsShared
    /\ \A w \in Worker : WorkerSound(w)
    /\ \A w, v \in Worker : OcrIsOwn(w, v)

\* A file that waits for its thread is a record of a thread.
LEMMA QueuedIsJob == Files!Queued \subseteq Job
  <1>1. "queued" \in Place /\ "none" \in Files!Parser
    BY DEF Place, Files!Parser
  <1>2. ASSUME NEW q \in Files!Queued PROVE q \in Job
    <2>1. q = [pc |-> "queued", format |-> q.format, mode |-> q.mode, ocr |-> FALSE,
               using |-> 0, parser |-> "none", document |-> FALSE]
      BY DEF Files!Queued
    <2>2. q.format \in Files!Format /\ q.mode \in Files!Mode
      BY DEF Files!Queued
    <2>3. [pc |-> "queued", format |-> q.format, mode |-> q.mode, ocr |-> FALSE,
           using |-> 0, parser |-> "none", document |-> FALSE] \in Job
      BY <1>1, <2>2 DEF Job
    <2> QED
      BY <2>1, <2>3
  <1> QED
    BY <1>2

\* The pipeline starts on its files.
LEMMA ConverterInvInit == Files!Init => ConverterInv
  <1> SUFFICES ASSUME Files!Init PROVE ConverterInv
    OBVIOUS
  <1>1. Files!Queued \subseteq Job
    BY QueuedIsJob
  <1>2. KeptIsShared
    <2>1. job \in [Worker -> Job]
      BY <1>1 DEF Files!Init
    <2> QED
      BY <2>1 DEF Files!Init, KeptIsShared
  <1>3. \A w \in Worker : job[w] \in Files!Queued
    BY DEF Files!Init
  <1>4. \A w \in Worker : job[w].pc = "queued" /\ job[w].using = 0 /\ job[w].parser = "none"
    BY <1>3 DEF Files!Queued
  <1>5. ASSUME NEW w \in Worker PROVE WorkerSound(w)
    <2>1. built \in Nat /\ 0 <= built
      BY <1>2 DEF KeptIsShared
    <2> QED
      BY <1>4, <2>1 DEF WorkerSound, Inside
  <1>6. \A w, v \in Worker : OcrIsOwn(w, v)
    BY <1>4 DEF OcrIsOwn
  <1> QED
    BY <1>2, <1>5, <1>6 DEF ConverterInv

\* One thread moves on, to a place where it does not convert, and at most takes a
\* lock that is free.
LEMMA Moved ==
    ASSUME Files!FileAssumption, ConverterInv, NEW w \in Worker, NEW j \in Job,
           job' = [job EXCEPT ![w] = j], UNCHANGED <<converter, built, shared>>,
           j.using = job[w].using, j.pc # "convert",
           j.parser = "docling" => j.document, j.pc = "hybrid" => j.document,
           lock' = lock \/ (lock = Free /\ lock' = w) \/ (lock = w /\ lock' = Free),
           j.pc \in Inside => lock' = w,
           j.pc = "build" /\ ~j.ocr => converter = 0
    PROVE  ConverterInv'
  <1>1. KeptIsShared'
    BY DEF ConverterInv, KeptIsShared
  <1>2. ASSUME NEW v \in Worker PROVE job'[v] = IF v = w THEN j ELSE job[v]
    BY DEF ConverterInv, KeptIsShared
  <1>3. ASSUME NEW v \in Worker PROVE WorkerSound(v)'
    <2>1. WorkerSound(v) /\ WorkerSound(w)
      BY DEF ConverterInv
    <2>2. CASE v = w
      BY <2>1, <2>2, <1>2 DEF WorkerSound
    <2>3. CASE v # w
      <3>1. job[v].pc \in Inside => lock' = v
        BY <2>1, <2>3 DEF WorkerSound, Files!FileAssumption
      <3> QED
        BY <2>1, <2>3, <3>1, <1>2 DEF WorkerSound
    <2> QED
      BY <2>2, <2>3
  <1>4. ASSUME NEW u \in Worker, NEW v \in Worker PROVE OcrIsOwn(u, v)'
    BY <1>2 DEF ConverterInv, OcrIsOwn
  <1> QED
    BY <1>1, <1>3, <1>4 DEF ConverterInv

\* One thread goes on to convert, with the converter that is kept or with a new one,
\* and leaves the lock if it was inside.
LEMMA Given ==
    ASSUME Files!FileAssumption, ConverterInv, NEW w \in Worker, NEW c \in Nat, Files!Uses(w, c),
           (lock' = Free /\ lock = w) \/ (lock' = lock /\ job[w].pc \notin Inside),
           \/ /\ ~job[w].ocr /\ converter # 0 /\ c = converter
              /\ UNCHANGED <<converter, built, shared>>
           \/ /\ job[w].pc = "build" /\ built' = built + 1 /\ c = built'
              /\ IF job[w].ocr THEN UNCHANGED <<converter, shared>>
                 ELSE converter = 0 /\ converter' = built' /\ shared' = shared \cup {built'}
    PROVE  ConverterInv'
  <1>1. /\ job \in [Worker -> Job] /\ converter \in Nat /\ built \in Nat /\ converter <= built
        /\ shared = IF converter = 0 THEN {} ELSE {converter}
        /\ lock \in Worker \cup {Free}
    BY DEF ConverterInv, KeptIsShared
  <1>2. ASSUME NEW v \in Worker, v # w PROVE job'[v] = job[v]
    BY <1>1, <1>2 DEF Files!Uses
  <1>3. /\ job'[w] \in Job /\ job'[w].using = c /\ job'[w].pc = "convert" /\ job'[w].ocr = job[w].ocr
        /\ job'[w].parser = job[w].parser /\ job'[w].document = job[w].document
    <2>1. job[w] \in Job /\ "convert" \in Place
      BY <1>1 DEF Place
    <2>2. job'[w] = [job[w] EXCEPT !.pc = "convert", !.using = c]
      BY <1>1 DEF Files!Uses
    <2> HIDE DEF Place, Files!Format, Files!Mode, Files!Parser
    <2> QED
      BY <2>1, <2>2 DEF Job
  <1>4. job' \in [Worker -> Job]
    BY <1>1, <1>3 DEF Files!Uses
  <1>5. KeptIsShared'
    BY <1>1, <1>4 DEF KeptIsShared
  <1>6. /\ built <= built' /\ built' \in Nat
        /\ c <= built' /\ c # 0
        /\ job[w].ocr => c = built + 1 /\ shared' = shared /\ converter' = converter
        /\ ~job[w].ocr => c \in shared'
    BY <1>1
  <1>7. \A n \in Nat : n <= built /\ n \notin shared => n \notin shared'
    BY <1>1
  <1>8. shared \subseteq shared'
    BY <1>1
  <1>9. ASSUME NEW v \in Worker PROVE WorkerSound(v)'
    <2>1. WorkerSound(v) /\ job[v] \in Job
      BY <1>1 DEF ConverterInv
    <2>2. CASE v = w
      <3>1. job[w].ocr => c \notin shared'
        BY <1>1, <1>6
      <3> QED
        BY <2>1, <2>2, <3>1, <1>3, <1>6 DEF WorkerSound, Inside
    <2>3. CASE v # w
      <3>1. job[v].using \in Nat
        BY <2>1 DEF Job
      <3>2. job[v].pc \in Inside => lock' = v
        BY <2>1, <2>3 DEF WorkerSound
      <3>3. job[v].pc = "build" /\ ~job[v].ocr => converter' = 0
        <4> SUFFICES ASSUME job[v].pc = "build", ~job[v].ocr PROVE converter' = 0
          OBVIOUS
        <4>1. lock = v /\ converter = 0 /\ lock # w
          BY <2>1, <2>3 DEF WorkerSound, Inside
        <4>2. job[w].pc \notin Inside
          BY <4>1
        <4>3. UNCHANGED converter
          BY <4>2 DEF Inside
        <4> QED
          BY <4>1, <4>3
      <3> QED
        BY <2>1, <2>3, <3>1, <3>2, <3>3, <1>1, <1>2, <1>6, <1>7, <1>8 DEF WorkerSound
    <2> QED
      BY <2>2, <2>3
  <1>10. ASSUME NEW u \in Worker, NEW v \in Worker PROVE OcrIsOwn(u, v)'
    <2>1. OcrIsOwn(u, v) /\ WorkerSound(u) /\ WorkerSound(v)
      BY DEF ConverterInv
    <2>2. CASE u = v
      BY <2>2 DEF OcrIsOwn
    <2>3. CASE u # v /\ u # w /\ v # w
      BY <2>1, <2>3, <1>2 DEF OcrIsOwn
    <2>4. CASE u = w /\ v # w
      <3>1. job'[v].using <= built
        BY <2>1, <2>4, <1>2 DEF WorkerSound
      <3>2. job[w].ocr => c = built + 1
        BY <1>6
      <3>3. job[v] \in Job
        BY <1>1
      <3> QED
        BY <2>4, <3>1, <3>2, <3>3, <1>1, <1>2, <1>3 DEF OcrIsOwn, Job
    <2>5. CASE v = w /\ u # w
      <3>1. job'[u] = job[u] /\ job[u].using \in Nat
        BY <2>5, <1>1, <1>2 DEF Job
      <3>2. job[u].pc = "convert" /\ job[u].ocr =>
               job[u].using \notin shared' /\ job[u].using <= built
        BY <2>1, <3>1, <1>7 DEF WorkerSound
      <3>3. c \in shared' \/ c = built + 1
        BY <1>6
      <3> QED
        BY <2>5, <3>1, <3>2, <3>3, <1>1, <1>3 DEF OcrIsOwn
    <2> QED
      BY <2>2, <2>3, <2>4, <2>5
  <1> QED
    BY <1>5, <1>9, <1>10 DEF ConverterInv

\* A record of a thread with another place.
LEMMA ElsewhereIsJob ==
    ASSUME NEW j \in Job, NEW pc \in Place
    PROVE  /\ [j EXCEPT !.pc = pc] \in Job
           /\ [j EXCEPT !.pc = pc].pc = pc
           /\ [j EXCEPT !.pc = pc].using = j.using /\ [j EXCEPT !.pc = pc].ocr = j.ocr
           /\ [j EXCEPT !.pc = pc].parser = j.parser /\ [j EXCEPT !.pc = pc].document = j.document
  <1> HIDE DEF Place, Files!Format, Files!Mode, Files!Parser
  <1> QED
    BY DEF Job

\* A thread that only changes its place, not to one of conversion.
LEMMA BecomesKeeps ==
    ASSUME Files!FileAssumption, ConverterInv, NEW w \in Worker, NEW pc \in Place \ {"convert"},
           Files!Becomes(w, pc), UNCHANGED <<converter, built, shared>>,
           pc = "hybrid" => job[w].document,
           lock' = lock \/ (lock = Free /\ lock' = w) \/ (lock = w /\ lock' = Free),
           pc \in Inside => lock' = w,
           pc = "build" /\ ~job[w].ocr => converter = 0
    PROVE  ConverterInv'
  <1> DEFINE j == [job[w] EXCEPT !.pc = pc]
  <1>1. job[w] \in Job /\ WorkerSound(w)
    BY DEF ConverterInv, KeptIsShared
  <1>2. /\ j \in Job /\ j.pc = pc /\ j.using = job[w].using /\ j.ocr = job[w].ocr
        /\ j.parser = job[w].parser /\ j.document = job[w].document
    BY <1>1, ElsewhereIsJob
  <1>3. job' = [job EXCEPT ![w] = j]
    BY DEF Files!Becomes
  <1>4. j.parser = "docling" => j.document
    BY <1>1, <1>2 DEF WorkerSound
  <1> HIDE DEF j
  <1> QED
    BY <1>2, <1>3, <1>4, Moved

\* A parser other than Docling's is done.
LEMMA ParsedKeeps ==
    ASSUME Files!FileAssumption, ConverterInv, NEW w \in Worker, NEW name \in Files!Parser \ {"docling"},
           Files!Parsed(w, name), UNCHANGED <<converter, lock, built, shared>>
    PROVE  ConverterInv'
  <1> DEFINE j == [job[w] EXCEPT !.parser = name, !.pc = "chunk"]
  <1>1. job[w] \in Job /\ "chunk" \in Place
    BY DEF ConverterInv, KeptIsShared, Place
  <1>2. /\ j \in Job /\ j.pc = "chunk" /\ j.using = job[w].using /\ j.parser = name
    <2> HIDE DEF Place, Files!Format, Files!Mode, Files!Parser
    <2> QED
      BY <1>1 DEF Job
  <1>3. job' = [job EXCEPT ![w] = j]
    BY DEF Files!Parsed
  <1> HIDE DEF j
  <1> QED
    BY <1>2, <1>3, Moved DEF Inside

LEMMA DispatchKeeps ==
    ASSUME Files!FileAssumption, ConverterInv, NEW w \in Worker, Files!Dispatch(w)
    PROVE  ConverterInv'
  <1>1. UNCHANGED <<converter, lock, built, shared>>
    BY DEF Files!Dispatch
  <1>2. \/ Files!Parsed(w, "structured") \/ Files!Parsed(w, "tree-sitter") \/ Files!Parsed(w, "markdown")
        \/ Files!Becomes(w, "failed") \/ Files!Becomes(w, "fallback") \/ Files!Becomes(w, "converter")
    BY DEF Files!Dispatch
  <1>3. {"structured", "tree-sitter", "markdown"} \subseteq Files!Parser \ {"docling"}
    BY DEF Files!Parser
  <1>4. {"failed", "fallback", "converter"} \subseteq Place \ ({"convert", "hybrid"} \cup Inside)
    BY DEF Place, Inside
  <1>5. CASE Files!Parsed(w, "structured") \/ Files!Parsed(w, "tree-sitter") \/ Files!Parsed(w, "markdown")
    BY <1>1, <1>3, <1>5, ParsedKeeps
  <1>6. CASE Files!Becomes(w, "failed") \/ Files!Becomes(w, "fallback") \/ Files!Becomes(w, "converter")
    BY <1>1, <1>4, <1>6, BecomesKeeps DEF Inside
  <1> QED
    BY <1>2, <1>5, <1>6

LEMMA FastPathKeeps ==
    ASSUME Files!FileAssumption, ConverterInv, NEW w \in Worker, Files!FastPath(w)
    PROVE  ConverterInv'
  <1>1. /\ ~job[w].ocr /\ converter # 0 /\ converter \in Nat
        /\ job[w].pc \notin Inside /\ UNCHANGED <<converter, lock, built, shared>>
    BY DEF Files!FastPath, Files!Reusable, Inside, ConverterInv, KeptIsShared
  <1>2. Files!Uses(w, converter)
    BY DEF Files!FastPath
  <1> QED
    BY <1>1, <1>2, Given

LEMMA RecheckKeeps ==
    ASSUME Files!FileAssumption, ConverterInv, NEW w \in Worker, Files!Recheck(w)
    PROVE  ConverterInv'
  <1>1. lock = w /\ converter \in Nat /\ UNCHANGED <<converter, built, shared>>
    BY DEF Files!Recheck, Inside, ConverterInv, KeptIsShared, WorkerSound
  <1>2. CASE Files!Reusable(w)
    <2>1. Files!Uses(w, converter) /\ lock' = Free /\ ~job[w].ocr /\ converter # 0
      BY <1>2 DEF Files!Recheck, Files!Rechecked, Files!Reusable
    <2>2. ~job[w].ocr /\ converter # 0 /\ UNCHANGED <<converter, built, shared>>
      BY <1>1, <2>1
    <2>3. lock' = Free /\ lock = w
      BY <1>1, <2>1
    <2>4. Files!Uses(w, converter) /\ converter \in Nat
      BY <1>1, <2>1
    <2> QED
      BY <2>2, <2>3, <2>4, Given
  <1>3. CASE ~Files!Reusable(w)
    <2>1. Files!Becomes(w, "build") /\ lock' = lock /\ (~job[w].ocr => converter = 0)
      BY <1>3 DEF Files!Recheck, Files!Rechecked, Files!Reusable
    <2>2. "build" \in Place \ {"convert"}
      BY DEF Place
    <2> QED
      BY <1>1, <2>1, <2>2, BecomesKeeps
  <1> QED
    BY <1>2, <1>3

LEMMA BuildKeeps ==
    ASSUME Files!FileAssumption, ConverterInv, NEW w \in Worker, Files!Build(w)
    PROVE  ConverterInv'
  <1>1. /\ lock = w /\ lock' = Free /\ built \in Nat /\ job[w].pc = "build"
        /\ ~job[w].ocr => converter = 0
    BY DEF Files!Build, Inside, ConverterInv, KeptIsShared, WorkerSound
  <1>2. CASE Files!Becomes(w, "fallback") /\ UNCHANGED <<converter, built, shared>>
    <2>1. "fallback" \in Place \ ({"convert"} \cup Inside)
      BY DEF Place, Inside
    <2> QED
      BY <1>1, <1>2, <2>1, BecomesKeeps
  <1>3. CASE built' = built + 1 /\ Files!Uses(w, built')
    <2>1. IF job[w].ocr THEN UNCHANGED <<converter, shared>>
          ELSE converter = 0 /\ converter' = built' /\ shared' = shared \cup {built'}
      <3>1. UNCHANGED built => FALSE
        BY <1>1, <1>3
      <3> QED
        BY <1>1, <3>1 DEF Files!Build
    <2>2. Files!Uses(w, built') /\ built' \in Nat /\ lock' = Free /\ lock = w
      BY <1>1, <1>3
    <2>3. job[w].pc = "build" /\ built' = built + 1
      BY <1>1, <1>3
    <2> QED
      BY <2>1, <2>2, <2>3, Given
  <1> QED
    BY <1>2, <1>3 DEF Files!Build

\* Docling's document is there before its parser is named.
LEMMA ConvertKeeps ==
    ASSUME Files!FileAssumption, ConverterInv, NEW w \in Worker, Files!Convert(w)
    PROVE  ConverterInv'
  <1>1. UNCHANGED <<converter, lock, built, shared>> /\ job[w] \in Job
    BY DEF Files!Convert, ConverterInv, KeptIsShared
  <1>2. {"fallback", "chunk", "converter"} \subseteq Place \ ({"convert", "hybrid"} \cup Inside)
        /\ "docling" \in Files!Parser
    BY DEF Place, Inside, Files!Parser
  <1>3. CASE Files!Becomes(w, "fallback")
    BY <1>1, <1>2, <1>3, BecomesKeeps
  <1>4. CASE job' = [job EXCEPT ![w].parser = "docling", ![w].pc = "chunk", ![w].document = TRUE]
    <2> DEFINE j == [job[w] EXCEPT !.parser = "docling", !.pc = "chunk", !.document = TRUE]
    <2>1. j \in Job /\ j.pc = "chunk" /\ j.using = job[w].using /\ j.document
      <3> HIDE DEF Place, Files!Format, Files!Mode, Files!Parser
      <3> QED
        BY <1>1, <1>2 DEF Job
    <2>2. job' = [job EXCEPT ![w] = j]
      BY <1>4
    <2> HIDE DEF j
    <2> QED
      BY <1>1, <1>2, <2>1, <2>2, Moved
  <1>5. CASE job' = [job EXCEPT ![w].ocr = TRUE, ![w].pc = "converter", ![w].document = TRUE]
    <2> DEFINE j == [job[w] EXCEPT !.ocr = TRUE, !.pc = "converter", !.document = TRUE]
    <2>1. j \in Job /\ j.pc = "converter" /\ j.using = job[w].using /\ j.document
      <3> HIDE DEF Place, Files!Format, Files!Mode, Files!Parser
      <3> QED
        BY <1>1, <1>2 DEF Job
    <2>2. job' = [job EXCEPT ![w] = j]
      BY <1>5
    <2> HIDE DEF j
    <2> QED
      BY <1>1, <1>2, <2>1, <2>2, Moved
  <1> QED
    BY <1>3, <1>4, <1>5 DEF Files!Convert

LEMMA StepKeeps ==
    ASSUME Files!FileAssumption, ConverterInv, NEW w \in Worker, Files!Step(w)
    PROVE  ConverterInv'
  <1>1. CASE Files!SlowPath(w)
    <2>1. Files!Becomes(w, "wait") /\ UNCHANGED <<converter, lock, built, shared>>
          /\ "wait" \in Place \ ({"convert", "hybrid", "build"} \cup Inside)
      BY <1>1 DEF Files!SlowPath, Place, Inside
    <2> QED
      BY <2>1, BecomesKeeps
  <1>2. CASE Files!Lock(w)
    <2>1. Files!Becomes(w, "locked") /\ UNCHANGED <<converter, built, shared>> /\ lock = Free /\ lock' = w
          /\ "locked" \in Place \ {"convert", "hybrid", "build"}
      BY <1>2 DEF Files!Lock, Place
    <2> QED
      BY <2>1, BecomesKeeps
  <1>3. CASE Files!Fallback(w)
    <2>1. Files!Parsed(w, "plaintext") \/ Files!Becomes(w, "failed")
      BY <1>3 DEF Files!Fallback
    <2>2. UNCHANGED <<converter, lock, built, shared>> /\ "plaintext" \in Files!Parser \ {"docling"}
          /\ "failed" \in Place \ ({"convert", "hybrid", "build"} \cup Inside)
      BY <1>3 DEF Files!Fallback, Files!Parser, Place, Inside
    <2> QED
      BY <2>1, <2>2, ParsedKeeps, BecomesKeeps
  <1>4. CASE Files!ChooseChunker(w)
    <2>1. /\ UNCHANGED <<converter, lock, built, shared>>
          /\ {"hybrid", "sections", "failed"} \subseteq Place \ ({"convert", "build"} \cup Inside)
          /\ job[w].parser = "docling" => job[w].document
      BY <1>4 DEF Files!ChooseChunker, Place, Inside, ConverterInv, WorkerSound
    <2>2. CASE Files!Becomes(w, "hybrid") /\ job[w].parser = "docling"
      BY <2>1, <2>2, BecomesKeeps
    <2>3. CASE Files!Becomes(w, "sections") \/ Files!Becomes(w, "failed")
      BY <2>1, <2>3, BecomesKeeps
    <2> QED
      BY <1>4, <2>2, <2>3 DEF Files!ChooseChunker
  <1> QED
    BY <1>1, <1>2, <1>3, <1>4, DispatchKeeps, FastPathKeeps, RecheckKeeps, BuildKeeps,
       ConvertKeeps DEF Files!Step

\* What the invariant says about the builds and their users.
LEMMA ConverterInvOne == ConverterInv => Files!OneConverter
  <1> SUFFICES ASSUME ConverterInv PROVE Files!OneConverter
    OBVIOUS
  <1>1. shared = (IF converter = 0 THEN {} ELSE {converter}) /\ job \in [Worker -> Job]
    BY DEF ConverterInv, KeptIsShared
  <1>2. Cardinality(shared) <= 1
    BY <1>1, FS_EmptySet, FS_Singleton
  <1>3. ASSUME NEW w \in Worker, NEW v \in Worker, job[w].pc = "convert"
        PROVE  /\ ~job[w].ocr => job[w].using \in shared
               /\ job[w].ocr => job[w].using \notin shared /\ (job[v].using = job[w].using => v = w)
    BY <1>3 DEF ConverterInv, WorkerSound, OcrIsOwn
  <1>4. \A w \in Worker : job[w].pc = "hybrid" => job[w].document
    BY DEF ConverterInv, WorkerSound
  <1> QED
    <2>1. converter # 0 => shared = {converter}
      BY <1>1
    <2>2. \A w, v \in Worker : job[w].pc = "convert" =>
             /\ ~job[w].ocr => job[w].using \in shared
             /\ job[w].ocr => job[w].using \notin shared
                                /\ (job[v].using = job[w].using => v = w)
      BY <1>3
    <2>3. Files!Cardinality(shared) <= 1
      BY <1>2 DEF Files!Cardinality, Cardinality
    <2> QED
      BY <2>1, <2>2, <2>3, <1>4 DEF Files!OneConverter

\* Files that no behaviour is about have failed before it starts.
LEMMA ConverterInvIdle ==
    ASSUME converter = 0, lock = Free, built = 0, shared = {},
           job = [w \in Worker |-> [(CHOOSE j \in Files!Queued : TRUE) EXCEPT !.pc = "failed"]]
    PROVE  ConverterInv
  <1> DEFINE q == CHOOSE j \in Files!Queued : TRUE
  <1>1. q \in Files!Queued
    <2>1. [pc |-> "queued", format |-> "code", mode |-> "auto", ocr |-> FALSE, using |-> 0,
           parser |-> "none", document |-> FALSE] \in Files!Queued
      BY DEF Files!Queued, Files!Format, Files!Mode
    <2> QED
      BY <2>1
  <1>2. q \in Job /\ q.using = 0 /\ q.parser = "none"
    BY <1>1, QueuedIsJob DEF Files!Queued
  <1>3. "failed" \in Place
    BY DEF Place
  <1> DEFINE f == [q EXCEPT !.pc = "failed"]
  <1>4. f \in Job /\ f.pc = "failed" /\ f.using = 0 /\ f.parser = "none"
    BY <1>2, <1>3, ElsewhereIsJob
  <1>5. job = [w \in Worker |-> f]
    OBVIOUS
  <1> HIDE DEF q, f
  <1>6. KeptIsShared
    BY <1>4, <1>5 DEF KeptIsShared
  <1>7. ASSUME NEW w \in Worker PROVE WorkerSound(w)
    <2>1. job[w] = f /\ 0 <= built
      BY <1>5
    <2> QED
      BY <1>4, <2>1 DEF WorkerSound, Inside
  <1>8. \A w, v \in Worker : OcrIsOwn(w, v)
    BY <1>4, <1>5 DEF OcrIsOwn
  <1> QED
    BY <1>6, <1>7, <1>8 DEF ConverterInv

\* A step of another part leaves the files alone.
LEMMA FilesUntouched == ConverterInv /\ UNCHANGED files => ConverterInv'
  BY DEF files, ConverterInv, KeptIsShared, WorkerSound, OcrIsOwn

\* "Thread-safe: uses a lock to prevent concurrent construction races": however many
\* threads parse at once, and whichever of them read the converter without the
\* lock, one converter serves all files that need no OCR, and one with OCR serves
\* one file.
THEOREM ConverterIsShared == Spec => []OneConverter
  <1>1. Init => ConverterInv
    BY ConverterInvInit, ConverterInvIdle DEF Init
  <1>2. ConverterInv /\ [Next]_vars => ConverterInv'
    <2> SUFFICES ASSUME ConverterInv, [Next]_vars PROVE ConverterInv'
      OBVIOUS
    <2>1. CASE UNCHANGED files
      BY <2>1, FilesUntouched
    <2>2. CASE Files!Next
      BY <2>2, StepKeeps, TextAssumption DEF Files!Next
    <2>3. UNCHANGED files \/ Files!Next
      BY DEF Next, vars, RunFiles, RunMarkdown, RunWindows, RunSections, RunPassages
    <2> QED
      BY <2>1, <2>2, <2>3
  <1>3. ConverterInv => OneConverter
    BY ConverterInvOne DEF OneConverter
  <1> QED
    BY <1>1, <1>2, <1>3, PTL DEF Spec

-----------------------------------------------------------------------------
(***************************************************************************)
(* The lines of a Markdown file.  A ledger says where each line read so    *)
(* far is: in an element, in the open block or left out.  The walk does a  *)
(* few things to it (it closes or forgets the open block, and a new line   *)
(* extends the block, is left out or is a heading), and each action of     *)
(* MarkdownLines is one or two of them.                                    *)
(***************************************************************************)
Kind == {"heading", "code", "table", "equation", "text"}

Entry == [type : Kind, heading : Nat, of : Seq(Nat)]

Consecutive(s) == s \in Seq(Nat) /\ \A k \in 1..Len(s) : s[k] = s[1] + k - 1

Held(es, i) == \E e \in 1..Len(es) : i \in Markdown!Lines(es[e].of)

\* Elements hold consecutive lines, in the order of the file.
Ordered(es) ==
    /\ es \in Seq(Entry)
    /\ \A e \in 1..Len(es) : es[e].of # <<>> /\ Consecutive(es[e].of)
    /\ \A d, e \in 1..Len(es) : d < e =>
          \A x \in Markdown!Lines(es[d].of), y \in Markdown!Lines(es[e].of) : x < y

\* h is the heading that the e-th element is under.
Under(es, e, h) ==
    /\ h = 0 => \A d \in 1..e : es[d].type # "heading"
    /\ h # 0 => \E d \in 1..e : /\ es[d].type = "heading" /\ es[d].of = <<h>>
                                /\ \A b \in (d + 1)..e : es[b].type # "heading"

Headed(es, now) ==
    /\ now \in Nat /\ Under(es, Len(es), now)
    /\ \A e \in 1..Len(es) : Under(es, e, es[e].heading)

\* The open block holds the last n lines, and no line is in two places.
Accounted(es, open, out, ls) ==
    /\ ls \in Seq(Classes)
    /\ Consecutive(open) /\ (open # <<>> => open[Len(open)] = Len(ls))
    /\ Markdown!Lines(open) \subseteq 1..Len(ls)
    /\ \A e \in 1..Len(es) : \A x \in Markdown!Lines(es[e].of) :
          x <= Len(ls) /\ \A y \in Markdown!Lines(open) : x < y
    /\ \A i \in 1..Len(ls) : i \in out \/ i \in Markdown!Lines(open) \/ Held(es, i)
    /\ \A i \in out : /\ i \in 1..Len(ls) /\ ls[i] # "long"
                      /\ i \notin Markdown!Lines(open) /\ ~Held(es, i)

Ledger(es, now, open, out, ls) ==
    Ordered(es) /\ Headed(es, now) /\ Accounted(es, open, out, ls)

LEMMA LedgerStarts == Ledger(<<>>, 0, <<>>, {}, <<>>)
  BY DEF Ledger, Ordered, Headed, Accounted, Under, Consecutive, Held, Markdown!Lines

\* The lines of a block that takes in another one.
LEMMA LinesOfAppend ==
    ASSUME NEW s \in Seq(Nat), NEW i \in Nat
    PROVE  Markdown!Lines(Append(s, i)) = Markdown!Lines(s) \cup {i}
  BY DEF Markdown!Lines

LEMMA LinesOfNone == Markdown!Lines(<<>>) = {}
  BY DEF Markdown!Lines

\* The first line of a block and its last.
LEMMA EndsAreLines ==
    ASSUME NEW s \in Seq(Nat), s # <<>>
    PROVE  s[1] \in Markdown!Lines(s) /\ s[Len(s)] \in Markdown!Lines(s)
  <1>1. 1 \in 1..Len(s) /\ Len(s) \in 1..Len(s)
    OBVIOUS
  <1> QED  BY <1>1 DEF Markdown!Lines

\* A consecutive line is the next one.
LEMMA NextLine ==
    ASSUME NEW s, Consecutive(s), NEW k \in 2..Len(s) PROVE s[k] = s[k - 1] + 1
  <1>1. s \in Seq(Nat) /\ Len(s) \in Nat
    BY DEF Consecutive
  <1>2. k \in 1..Len(s) /\ k - 1 \in 1..Len(s) /\ 1 \in 1..Len(s) /\ k \in Nat
    BY <1>1
  <1> DEFINE j == k - 1
  <1>3. s[k] = s[1] + k - 1 /\ s[j] = s[1] + j - 1
    BY <1>2 DEF Consecutive
  <1>4. s[1] \in Nat
    BY <1>1, <1>2
  <1>5. s[1] + k - 1 = (s[1] + j - 1) + 1
    BY <1>2, <1>4
  <1> QED  BY <1>3, <1>5

\* Elements that follow change nothing about the heading of an element.
LEMMA UnderStays ==
    ASSUME NEW es \in Seq(Entry), NEW x \in Entry, NEW e \in 0..Len(es), NEW h, Under(es, e, h)
    PROVE  Under(Append(es, x), e, h)
  <1>1. \A d \in 1..e : Append(es, x)[d] = es[d]
    OBVIOUS
  <1> QED  BY <1>1 DEF Under

\* An element appended to the elements.
LEMMA HeadedGrows ==
    ASSUME NEW es \in Seq(Entry), NEW now, NEW x \in Entry, Headed(es, now),
           x.type # "heading", x.heading = now
    PROVE  Headed(Append(es, x), now)
  <1> DEFINE more == Append(es, x)
  <1>1. /\ Len(more) = Len(es) + 1 /\ more[Len(es) + 1] = x /\ Len(es) \in Nat
        /\ \A e \in 1..Len(es) : more[e] = es[e]
    OBVIOUS
  <1>2. Under(more, Len(es) + 1, now)
    <2>1. CASE now = 0
      BY <1>1, <2>1 DEF Headed, Under
    <2>2. CASE now # 0
      <3>1. PICK d \in 1..Len(es) : /\ es[d].type = "heading" /\ es[d].of = <<now>>
                                    /\ \A b \in (d + 1)..Len(es) : es[b].type # "heading"
        BY <2>2 DEF Headed, Under
      <3>2. \A b \in (d + 1)..(Len(es) + 1) : more[b].type # "heading"
        BY <1>1, <3>1
      <3>3. d \in 1..(Len(es) + 1) /\ more[d] = es[d]
        BY <1>1
      <3> QED  BY <2>2, <3>1, <3>2, <3>3 DEF Under
    <2> QED  BY <2>1, <2>2
  <1>3. \A e \in 1..Len(es) : Under(more, e, more[e].heading)
    BY <1>1, UnderStays DEF Headed
  <1> QED  BY <1>1, <1>2, <1>3 DEF Headed

LEMMA HeadingHeads ==
    ASSUME NEW es \in Seq(Entry), NEW now, NEW h \in Nat, h # 0, Headed(es, now),
           NEW x \in Entry, x.type = "heading", x.heading = h, x.of = <<h>>
    PROVE  Headed(Append(es, x), h)
  <1> DEFINE more == Append(es, x)
  <1>1. /\ Len(more) = Len(es) + 1 /\ more[Len(es) + 1] = x /\ Len(es) \in Nat
        /\ \A e \in 1..Len(es) : more[e] = es[e]
    OBVIOUS
  <1>2. Under(more, Len(es) + 1, h)
    BY <1>1 DEF Under
  <1>3. \A e \in 1..Len(es) : Under(more, e, more[e].heading)
    BY <1>1, UnderStays DEF Headed
  <1> QED  BY <1>1, <1>2, <1>3 DEF Headed

LEMMA OrderedGrows ==
    ASSUME NEW es, Ordered(es), NEW x \in Entry, x.of # <<>>, Consecutive(x.of),
           \A e \in 1..Len(es) : \A i \in Markdown!Lines(es[e].of), j \in Markdown!Lines(x.of) : i < j
    PROVE  /\ Ordered(Append(es, x))
           /\ \A i : Held(Append(es, x), i) <=> Held(es, i) \/ i \in Markdown!Lines(x.of)
  <1> DEFINE more == Append(es, x)
  <1>1. /\ Len(more) = Len(es) + 1 /\ more[Len(es) + 1] = x /\ Len(es) \in Nat
        /\ more \in Seq(Entry)
        /\ \A e \in 1..Len(es) : more[e] = es[e]
    BY DEF Ordered
  <1>2. 1..Len(more) = 1..Len(es) \cup {Len(es) + 1}
    BY <1>1
  <1>3. \A e \in 1..Len(more) : more[e].of # <<>> /\ Consecutive(more[e].of)
    BY <1>1, <1>2 DEF Ordered
  <1>4. ASSUME NEW d \in 1..Len(more), NEW e \in 1..Len(more), d < e
        PROVE  \A i \in Markdown!Lines(more[d].of), j \in Markdown!Lines(more[e].of) : i < j
    <2>1. d \in 1..Len(es)
      BY <1>1, <1>4
    <2>2. CASE e = Len(es) + 1
      BY <1>1, <2>1, <2>2
    <2>3. CASE e \in 1..Len(es)
      BY <1>1, <1>4, <2>1, <2>3 DEF Ordered
    <2> QED  BY <1>2, <2>2, <2>3
  <1>5. Ordered(more)
    BY <1>1, <1>3, <1>4 DEF Ordered
  <1>6. \A i : Held(more, i) <=> Held(es, i) \/ i \in Markdown!Lines(x.of)
    BY <1>1, <1>2 DEF Held
  <1> QED  BY <1>5, <1>6

\* The open block becomes an element under the heading of the moment.
LEMMA BlockCloses ==
    ASSUME NEW es, NEW now, NEW open, NEW out, NEW ls, Ledger(es, now, open, out, ls),
           open # <<>>, NEW type \in Kind \ {"heading"}
    PROVE  Ledger(Append(es, [type |-> type, heading |-> now, of |-> open]), now, <<>>, out, ls)
  <1> DEFINE x    == [type |-> type, heading |-> now, of |-> open]
             more == Append(es, x)
  <1>1. es \in Seq(Entry) /\ now \in Nat /\ open \in Seq(Nat) /\ Consecutive(open)
    BY DEF Ledger, Ordered, Headed, Accounted, Consecutive
  <1>2. x \in Entry /\ x.type # "heading" /\ x.heading = now /\ x.of = open
    BY <1>1 DEF Entry
  <1> HIDE DEF x
  <1>3. Headed(more, now)
    BY <1>1, <1>2, HeadedGrows DEF Ledger
  <1>4. \A e \in 1..Len(es) : \A i \in Markdown!Lines(es[e].of), j \in Markdown!Lines(x.of) : i < j
    BY <1>2 DEF Ledger, Accounted
  <1>5. /\ Ordered(more)
        /\ \A i : Held(more, i) <=> Held(es, i) \/ i \in Markdown!Lines(x.of)
    BY <1>1, <1>2, <1>4, OrderedGrows DEF Ledger
  <1>6. Accounted(more, <<>>, out, ls)
    <2>1. \A i : Held(more, i) <=> Held(es, i) \/ i \in Markdown!Lines(open)
      BY <1>2, <1>5
    <2>2. \A i : Held(es, i) \/ i \in Markdown!Lines(open) => i <= Len(ls)
      BY DEF Ledger, Accounted, Held
    <2>3. \A e \in 1..Len(more) : \A i \in Markdown!Lines(more[e].of) : i <= Len(ls)
      BY <2>1, <2>2 DEF Held
    <2>4. Consecutive(<<>>) /\ Markdown!Lines(<<>>) = {}
      BY LinesOfNone DEF Consecutive
    <2> HIDE DEF more
    <2>5. /\ ls \in Seq(Classes)
          /\ \A i \in 1..Len(ls) : i \in out \/ i \in Markdown!Lines(open) \/ Held(es, i)
          /\ \A i \in out : /\ i \in 1..Len(ls) /\ ls[i] # "long"
                            /\ i \notin Markdown!Lines(open) /\ ~Held(es, i)
      BY DEF Ledger, Accounted
    <2> QED  BY <2>1, <2>3, <2>4, <2>5 DEF Accounted
  <1> QED  BY <1>3, <1>5, <1>6 DEF Ledger, x

\* The open block is left out: none of its lines is long.
LEMMA BlockLeftOut ==
    ASSUME NEW es, NEW now, NEW open, NEW out, NEW ls, Ledger(es, now, open, out, ls),
           \A i \in Markdown!Lines(open) : ls[i] # "long"
    PROVE  Ledger(es, now, <<>>, out \cup Markdown!Lines(open), ls)
  <1>1. Accounted(es, open, out, ls) /\ Consecutive(<<>>) /\ Markdown!Lines(<<>>) = {}
    BY LinesOfNone DEF Ledger, Consecutive
  <1>2. \A i \in Markdown!Lines(open) : i \in 1..Len(ls) /\ i \in Nat /\ ~Held(es, i)
    BY <1>1 DEF Accounted, Held
  <1>3. Accounted(es, <<>>, out \cup Markdown!Lines(open), ls)
    <2>1. \A e \in 1..Len(es) : \A x \in Markdown!Lines(es[e].of) : x <= Len(ls)
      BY <1>1 DEF Accounted
    <2> QED  BY <1>1, <1>2, <2>1 DEF Accounted
  <1> QED  BY <1>3 DEF Ledger

\* What is appended to a sequence comes after what it holds.
LEMMA Appended ==
    ASSUME NEW S, NEW s \in Seq(S), NEW x \in S
    PROVE  /\ Append(s, x) \in Seq(S) /\ Append(s, x) # <<>>
           /\ Len(Append(s, x)) = Len(s) + 1
           /\ Len(s) \in Nat /\ Append(s, x)[Len(s) + 1] = x
           /\ 1..(Len(s) + 1) = 1..Len(s) \cup {Len(s) + 1}
           /\ \A i \in 1..Len(s) : Append(s, x)[i] = s[i]
  OBVIOUS

\* Line numbers are numbers.
LEMMA LinesAreNumbers ==
    ASSUME NEW es, Ordered(es), NEW e \in 1..Len(es)
    PROVE  Markdown!Lines(es[e].of) \subseteq Nat
  <1>1. es[e].of \in Seq(Nat)
    BY DEF Ordered, Consecutive
  <1> QED  BY <1>1 DEF Markdown!Lines

\* The new line joins the open block, or is the first of one.
LEMMA BlockGrows ==
    ASSUME NEW es, NEW now, NEW open, NEW out, NEW ls, Ledger(es, now, open, out, ls),
           NEW c \in Classes
    PROVE  Ledger(es, now, Append(open, Len(ls) + 1), out, Append(ls, c))
  <1> DEFINE n == Len(ls) + 1
  <1>1. /\ Accounted(es, open, out, ls) /\ ls \in Seq(Classes) /\ open \in Seq(Nat)
        /\ Len(ls) \in Nat /\ n \in Nat /\ Len(open) \in Nat /\ n = Len(ls) + 1
    BY DEF Ledger, Accounted, Consecutive
  <1> HIDE DEF n
  <1>2. /\ Append(ls, c) \in Seq(Classes) /\ Len(Append(ls, c)) = n
        /\ 1..n = 1..Len(ls) \cup {n}
        /\ \A i \in 1..Len(ls) : Append(ls, c)[i] = ls[i]
    BY <1>1, Appended
  <1>3. /\ Append(open, n) \in Seq(Nat) /\ Append(open, n) # <<>>
        /\ Len(Append(open, n)) = Len(open) + 1
        /\ Append(open, n)[Len(open) + 1] = n
        /\ 1..(Len(open) + 1) = 1..Len(open) \cup {Len(open) + 1}
        /\ \A k \in 1..Len(open) : Append(open, n)[k] = open[k]
    BY <1>1, Appended
  <1>4. Consecutive(Append(open, n))
    <2>1. CASE open = <<>>
      BY <1>1, <1>3, <2>1 DEF Consecutive
    <2>2. CASE open # <<>>
      <3>1. Len(open) >= 1 /\ open[Len(open)] = Len(ls) /\ open[1] \in Nat
        BY <1>1, <2>2 DEF Accounted
      <3>2. \A k \in 1..Len(open) : open[k] = open[1] + k - 1
        BY <1>1 DEF Accounted, Consecutive
      <3>3. Len(ls) = open[1] + Len(open) - 1
        <4>1. Len(open) \in 1..Len(open)
          BY <1>1, <3>1
        <4> QED  BY <3>1, <3>2, <4>1
      <3>4. Append(open, n)[1] = open[1]
        BY <1>1, <1>3, <3>1
      <3>5. n = open[1] + (Len(open) + 1) - 1
        BY <1>1, <3>1, <3>3
      <3>6. \A k \in 1..(Len(open) + 1) : Append(open, n)[k] = Append(open, n)[1] + k - 1
        BY <1>3, <3>2, <3>4, <3>5
      <3> QED  BY <1>3, <3>6 DEF Consecutive
    <2> QED  BY <2>1, <2>2
  <1>5. Markdown!Lines(Append(open, n)) = Markdown!Lines(open) \cup {n}
    BY <1>1, LinesOfAppend
  <1>6. Accounted(es, Append(open, n), out, Append(ls, c))
    <2>1. \A e \in 1..Len(es) : \A x \in Markdown!Lines(es[e].of) :
             x <= n /\ \A y \in Markdown!Lines(open) \cup {n} : x < y
      <3> SUFFICES ASSUME NEW e \in 1..Len(es), NEW x \in Markdown!Lines(es[e].of)
                   PROVE  x <= n /\ x < n /\ \A y \in Markdown!Lines(open) : x < y
        OBVIOUS
      <3>1. x \in Nat /\ x <= Len(ls) /\ \A y \in Markdown!Lines(open) : x < y
        BY <1>1, LinesAreNumbers DEF Accounted, Ledger
      <3>2. x <= n /\ x < n
        BY <1>1, <3>1
      <3> QED  BY <3>1, <3>2
    <2>2. \A i \in 1..n : i \in out \/ i \in Markdown!Lines(open) \cup {n} \/ Held(es, i)
      BY <1>1, <1>2 DEF Accounted
    <2>3. \A i \in out : /\ i \in 1..n /\ Append(ls, c)[i] # "long"
                         /\ i \notin Markdown!Lines(open) \cup {n} /\ ~Held(es, i)
      <3>1. n \notin 1..Len(ls)
        BY <1>1 DEF n
      <3> QED  BY <1>1, <1>2, <3>1 DEF Accounted
    <2>4. Markdown!Lines(open) \cup {n} \subseteq 1..n
      BY <1>1, <1>2 DEF Accounted
    <2> QED  BY <1>2, <1>3, <1>4, <1>5, <2>1, <2>2, <2>3, <2>4 DEF Accounted
  <1> QED  BY <1>6 DEF Ledger, n

\* With no block open, the new line is left out.
LEMMA LineLeftOut ==
    ASSUME NEW es, NEW now, NEW out, NEW ls, Ledger(es, now, <<>>, out, ls),
           NEW c \in Classes, c # "long"
    PROVE  Ledger(es, now, <<>>, out \cup {Len(ls) + 1}, Append(ls, c))
  <1> DEFINE block1 == Append(<<>>, Len(ls) + 1)
  <1>1. Ledger(es, now, block1, out, Append(ls, c))
    BY BlockGrows
  <1>2. ls \in Seq(Classes) /\ Len(ls) \in Nat
    BY DEF Ledger, Accounted
  <1>3. Markdown!Lines(block1) = {Len(ls) + 1}
    <2>1. <<>> \in Seq(Nat) /\ Len(ls) + 1 \in Nat
      BY <1>2
    <2> QED  BY <2>1, LinesOfAppend, LinesOfNone
  <1>4. Append(ls, c)[Len(ls) + 1] = c
    BY <1>2, Appended
  <1> HIDE DEF block1
  <1>5. Ledger(es, now, <<>>, out \cup Markdown!Lines(block1), Append(ls, c))
    BY <1>1, <1>3, <1>4, BlockLeftOut
  <1> QED  BY <1>3, <1>5

\* With no block open, the new line is a heading, and the one that counts now.
LEMMA LineHeads ==
    ASSUME NEW es, NEW now, NEW out, NEW ls, Ledger(es, now, <<>>, out, ls), NEW c \in Classes
    PROVE  Ledger(Append(es, [type |-> "heading", heading |-> Len(ls) + 1,
                              of |-> <<Len(ls) + 1>>]),
                  Len(ls) + 1, <<>>, out, Append(ls, c))
  <1> DEFINE n == Len(ls) + 1
             x == [type |-> "heading", heading |-> n, of |-> <<n>>]
             more == Append(es, x)
  <1>1. /\ Accounted(es, <<>>, out, ls) /\ ls \in Seq(Classes) /\ Len(ls) \in Nat /\ n \in Nat
        /\ n # 0 /\ es \in Seq(Entry)
    BY DEF Ledger, Accounted, Ordered
  <1>2. x \in Entry /\ x.of = <<n>> /\ x.of # <<>> /\ x.type = "heading" /\ x.heading = n
    BY <1>1 DEF Entry, Kind
  <1>3. Markdown!Lines(<<n>>) = {n} /\ Consecutive(<<n>>)
    BY <1>1 DEF Markdown!Lines, Consecutive
  <1>4. \A e \in 1..Len(es) : \A i \in Markdown!Lines(es[e].of), j \in Markdown!Lines(x.of) : i < j
    <2> SUFFICES ASSUME NEW e \in 1..Len(es), NEW i \in Markdown!Lines(es[e].of) PROVE i < n
      BY <1>2, <1>3
    <2>1. i \in Nat /\ i <= Len(ls)
      BY <1>1, LinesAreNumbers DEF Accounted, Ledger
    <2> QED  BY <1>1, <2>1
  <1> HIDE DEF x
  <1>5. /\ Ordered(more)
        /\ \A i : Held(more, i) <=> Held(es, i) \/ i = n
    <2>1. Ordered(es) /\ Consecutive(x.of) /\ Markdown!Lines(x.of) = {n}
      BY <1>2, <1>3 DEF Ledger
    <2>2. /\ Ordered(more)
          /\ \A i : Held(more, i) <=> Held(es, i) \/ i \in Markdown!Lines(x.of)
      BY <1>2, <1>4, <2>1, OrderedGrows
    <2> QED  BY <2>1, <2>2
  <1>6. Headed(more, n)
    BY <1>1, <1>2, HeadingHeads DEF Ledger
  <1>7. Accounted(more, <<>>, out, Append(ls, c))
    <2>1. /\ Append(ls, c) \in Seq(Classes) /\ Len(Append(ls, c)) = n
          /\ 1..n = 1..Len(ls) \cup {n}
          /\ \A i \in 1..Len(ls) : Append(ls, c)[i] = ls[i]
      BY <1>1, Appended
    <2>2. Markdown!Lines(<<>>) = {} /\ Consecutive(<<>>)
      BY LinesOfNone DEF Consecutive
    <2>3. \A i : Held(es, i) => i <= Len(ls)
      BY <1>1 DEF Accounted, Held
    <2>4. \A i : Held(more, i) => i <= n
      <3>1. \A i : Held(es, i) => i \in Nat
        BY LinesAreNumbers DEF Held, Ledger
      <3> QED  BY <1>1, <1>5, <2>3, <3>1
    <2>5. n \notin 1..Len(ls)
      BY <1>1
    <2> HIDE DEF n, more
    <2>6. \A e \in 1..Len(more) : \A i \in Markdown!Lines(more[e].of) : i <= n
      BY <2>4 DEF Held
    <2> QED  BY <1>1, <1>5, <2>1, <2>2, <2>5, <2>6 DEF Accounted
  <1> QED  BY <1>5, <1>6, <1>7 DEF Ledger, x

\* What the ledger says of the elements is what the property says.
LEMMA LedgerKeeps ==
    ASSUME Ledger(elements, current, block.of, dropped, lines)
    PROVE  Markdown!LinesKept
  <1>1. Ordered(elements) /\ Headed(elements, current)
        /\ Accounted(elements, block.of, dropped, lines)
    BY DEF Ledger
  <1>2. ASSUME NEW i \in 1..Len(lines)
        PROVE  \/ i \in dropped /\ Markdown!Holders(i) = {} /\ lines[i] # "long"
               \/ i \in Markdown!Lines(block.of) /\ Markdown!Holders(i) = {}
               \/ \E e \in 1..Len(elements) : Markdown!Holders(i) = {e}
    <2>1. CASE Held(elements, i)
      <3>1. PICK e \in 1..Len(elements) : i \in Markdown!Lines(elements[e].of)
        BY <2>1 DEF Held
      <3>2. ASSUME NEW d \in 1..Len(elements), i \in Markdown!Lines(elements[d].of), d # e
            PROVE  FALSE
        <4>1. d \in Nat /\ e \in Nat /\ i \in Nat
          BY <1>1 DEF Ordered
        <4>2. d < e \/ e < d
          BY <3>2, <4>1
        <4>3. i < i
          BY <1>1, <3>1, <3>2, <4>2 DEF Ordered
        <4> QED  BY <4>1, <4>3
      <3>3. Markdown!Holders(i) = {e}
        BY <3>1, <3>2 DEF Markdown!Holders
      <3> QED  BY <3>3
    <2>2. CASE ~Held(elements, i)
      <3>1. Markdown!Holders(i) = {}
        BY <2>2 DEF Held, Markdown!Holders
      <3> QED  BY <1>1, <2>2, <3>1 DEF Accounted
    <2> QED  BY <2>1, <2>2
  <1>3. ASSUME NEW e \in 1..Len(elements)
        PROVE  LET of == elements[e].of IN
               /\ \A k \in 2..Len(of) : of[k] = of[k - 1] + 1
               /\ e > 1 => elements[e - 1].of[Len(elements[e - 1].of)] < of[1]
    <2>1. Consecutive(elements[e].of) /\ elements[e].of # <<>> /\ Len(elements) \in Nat
      BY <1>1 DEF Ordered
    <2>2. ASSUME NEW k \in 2..Len(elements[e].of)
          PROVE  elements[e].of[k] = elements[e].of[k - 1] + 1
      BY <2>1, NextLine
    <2>3. ASSUME e > 1 PROVE elements[e - 1].of[Len(elements[e - 1].of)] < elements[e].of[1]
      <3>1. e - 1 \in 1..Len(elements) /\ e - 1 < e
        BY <2>1, <2>3
      <3>2. /\ elements[e].of \in Seq(Nat) /\ elements[e].of # <<>>
            /\ elements[e - 1].of \in Seq(Nat) /\ elements[e - 1].of # <<>>
        BY <1>1, <2>1, <3>1 DEF Ordered, Consecutive
      <3>3. /\ elements[e].of[1] \in Markdown!Lines(elements[e].of)
            /\ elements[e - 1].of[Len(elements[e - 1].of)] \in Markdown!Lines(elements[e - 1].of)
        BY <3>2, EndsAreLines
      <3> QED  BY <1>1, <3>1, <3>3 DEF Ordered
    <2> QED  BY <2>2, <2>3
  <1>4. ASSUME NEW e \in 1..Len(elements)
        PROVE  /\ elements[e].heading = 0 => \A d \in 1..(e - 1) : elements[d].type # "heading"
               /\ elements[e].heading # 0 => \E d \in 1..e :
                     /\ elements[d].type = "heading" /\ elements[d].of = <<elements[e].heading>>
                     /\ \A b \in (d + 1)..e : elements[b].type # "heading"
    <2>1. Under(elements, e, elements[e].heading)
      BY <1>1 DEF Headed
    <2>2. 1..(e - 1) \subseteq 1..e
      OBVIOUS
    <2> QED  BY <2>1, <2>2 DEF Under
  <1> QED  BY <1>2, <1>3, <1>4 DEF Markdown!LinesKept

\* A block is open with its lines; a code block may have none yet.
BlockSound ==
    /\ block = [type |-> block.type, of |-> block.of]
    /\ block.type \in {"none", "code", "table", "equation", "text"}
    /\ block.type = "none" => block.of = <<>>
    /\ block.type \notin {"none", "code"} => block.of # <<>>

MarkdownInv == Ledger(elements, current, block.of, dropped, lines) /\ BlockSound

LEMMA MarkdownInvInit == Markdown!Init => MarkdownInv
  BY LedgerStarts DEF Markdown!Init, Markdown!Closed, MarkdownInv, BlockSound

\* What the main loop makes of a new line.
LEMMA OpensKeeps ==
    ASSUME NEW es, NEW out, Ledger(es, current, <<>>, out, lines), NEW c \in Classes,
           Markdown!Opens(es, c, Len(lines) + 1), lines' = Append(lines, c),
           dropped' = out \cup (IF c \in {"fence", "blank"} THEN {Len(lines) + 1} ELSE {})
    PROVE  MarkdownInv'
  <1> DEFINE i == Len(lines) + 1
  <1>1. i \in Nat
    BY DEF Ledger, Accounted
  <1>2. c \in {"dollars", "opens", "ends", "formula", "heading", "fence", "row", "long",
               "short", "blank"}
    BY TextAssumption DEF Markdown!MarkdownAssumption, Markdown!Dollars
  <1>3. Ledger(es, current, <<i>>, out, lines')
    <2>1. Append(<<>>, i) = <<i>>
      OBVIOUS
    <2> QED  BY <2>1, BlockGrows
  <1>4. CASE c \in {"row", "dollars", "opens", "long", "short", "ends"}
    <2>1. /\ block' = [type |-> IF c = "row" THEN "table"
                                ELSE IF c \in {"dollars", "opens"} THEN "equation" ELSE "text",
                       of |-> <<i>>]
          /\ current' = current /\ elements' = es /\ dropped' = out
      BY <1>4 DEF Markdown!Opens
    <2> QED  BY <1>3, <2>1 DEF MarkdownInv, BlockSound
  <1>5. CASE c \in {"fence", "blank"}
    <2>1. /\ block' \in {[type |-> "code", of |-> <<>>], [type |-> "none", of |-> <<>>]}
          /\ current' = current /\ elements' = es /\ dropped' = out \cup {i}
      BY <1>5 DEF Markdown!Opens, Markdown!Closed
    <2>2. Ledger(es, current, <<>>, out \cup {i}, lines')
      BY <1>5, LineLeftOut
    <2>3. BlockSound' /\ block'.of = <<>>
      BY <2>1 DEF BlockSound
    <2> QED  BY <2>1, <2>2, <2>3 DEF MarkdownInv
  <1>6. CASE c = "heading"
    <2>1. /\ block' = [type |-> "none", of |-> <<>>] /\ current' = i /\ dropped' = out
          /\ elements' = Append(es, [type |-> "heading", heading |-> i, of |-> <<i>>])
      BY <1>6 DEF Markdown!Opens, Markdown!Closed
    <2>2. Ledger(Append(es, [type |-> "heading", heading |-> i, of |-> <<i>>]), i, <<>>, out,
                 lines')
      BY LineHeads
    <2> QED  BY <2>1, <2>2 DEF MarkdownInv, BlockSound
  <1>7. CASE c = "formula"
    <2>1. /\ block' = [type |-> "none", of |-> <<>>] /\ current' = current /\ dropped' = out
          /\ elements' = Append(es, [type |-> "equation", heading |-> current, of |-> <<i>>])
      BY <1>7 DEF Markdown!Opens, Markdown!Closed, Markdown!Element
    <2>2. Ledger(Append(es, [type |-> "equation", heading |-> current, of |-> <<i>>]), current,
                 <<>>, out, lines')
      BY <1>3, BlockCloses DEF Kind
    <2> QED  BY <2>1, <2>2 DEF MarkdownInv, BlockSound
  <1> QED  BY <1>2, <1>4, <1>5, <1>6, <1>7

\* A line that joins the open block.
LEMMA GrowKeeps ==
    ASSUME MarkdownInv, block.type # "none", NEW c \in Classes, lines' = Append(lines, c),
           Markdown!Grow(Len(lines) + 1)
    PROVE  MarkdownInv'
  <1>1. /\ block' = [type |-> block.type, of |-> Append(block.of, Len(lines) + 1)]
        /\ UNCHANGED <<current, elements, dropped>>
    BY DEF Markdown!Grow, MarkdownInv, BlockSound
  <1>2. Ledger(elements, current, Append(block.of, Len(lines) + 1), dropped, lines')
    BY BlockGrows DEF MarkdownInv
  <1>3. Append(block.of, Len(lines) + 1) # <<>>
    <2>1. block.of \in Seq(Nat) /\ Len(lines) \in Nat
      BY DEF MarkdownInv, Ledger, Accounted, Consecutive
    <2>2. PICK n \in Nat : n = Len(lines) + 1
      BY <2>1
    <2> QED  BY <2>1, <2>2, Appended
  <1> QED  BY <1>1, <1>2, <1>3 DEF MarkdownInv, BlockSound

LEMMA ReadGives ==
    ASSUME MarkdownInv, NEW c \in Classes, Markdown!Read(c)
    PROVE  lines' = Append(lines, c) /\ Len(lines') = Len(lines) + 1 /\ Len(lines) \in Nat
  BY DEF Markdown!Read, MarkdownInv, Ledger, Accounted

LEMMA TopKeeps ==
    ASSUME MarkdownInv, NEW c \in Classes, Markdown!Top(c) PROVE MarkdownInv'
  <1>1. /\ lines' = Append(lines, c) /\ Markdown!Opens(elements, c, Len(lines) + 1)
        /\ dropped' = dropped \cup IF c \in {"fence", "blank"} THEN {Len(lines) + 1} ELSE {}
    BY ReadGives DEF Markdown!Top
  <1>2. Ledger(elements, current, <<>>, dropped, lines)
    BY DEF MarkdownInv, BlockSound, Markdown!Top
  <1> QED  BY <1>1, <1>2, OpensKeeps

LEMMA InCodeKeeps ==
    ASSUME MarkdownInv, NEW c \in Classes, Markdown!InCode(c) PROVE MarkdownInv'
  <1> DEFINE i == Len(lines) + 1
             blanks == \A k \in Markdown!Lines(block.of) : lines[k] = "blank"
  <1>1. lines' = Append(lines, c) /\ Len(lines') = i /\ block.type = "code"
    BY ReadGives DEF Markdown!InCode
  <1>2. CASE c # "fence"
    BY <1>1, <1>2, GrowKeeps DEF Markdown!InCode
  <1>3. CASE c = "fence" /\ blanks
    <2>1. /\ block' = [type |-> "none", of |-> <<>>] /\ UNCHANGED <<current, elements>>
          /\ dropped' = (dropped \cup Markdown!Lines(block.of)) \cup {i}
      BY <1>1, <1>3 DEF Markdown!InCode, Markdown!Closed
    <2>2. Ledger(elements, current, <<>>, dropped \cup Markdown!Lines(block.of), lines)
      BY <1>3, BlockLeftOut DEF MarkdownInv
    <2>3. Ledger(elements, current, <<>>, (dropped \cup Markdown!Lines(block.of)) \cup {i}, lines')
      BY <1>1, <1>3, <2>2, LineLeftOut
    <2> QED  BY <2>1, <2>3 DEF MarkdownInv, BlockSound
  <1>4. CASE c = "fence" /\ ~blanks
    <2>1. /\ block' = [type |-> "none", of |-> <<>>] /\ UNCHANGED current
          /\ elements' = Append(elements, [type |-> "code", heading |-> current, of |-> block.of])
          /\ dropped' = dropped \cup {i}
      BY <1>1, <1>4 DEF Markdown!InCode, Markdown!Closed, Markdown!Emit, Markdown!Element
    <2>2. block.of # <<>>
      BY <1>4, LinesOfNone
    <2>3. Ledger(elements', current, <<>>, dropped, lines)
      BY <2>1, <2>2, BlockCloses DEF MarkdownInv, Kind
    <2>4. Ledger(elements', current, <<>>, dropped \cup {i}, lines')
      BY <1>1, <1>4, <2>3, LineLeftOut
    <2> QED  BY <2>1, <2>4 DEF MarkdownInv, BlockSound
  <1> QED  BY <1>2, <1>3, <1>4

LEMMA InEquationKeeps ==
    ASSUME MarkdownInv, NEW c \in Classes, Markdown!InEquation(c) PROVE MarkdownInv'
  <1> DEFINE i == Len(lines) + 1
  <1>1. lines' = Append(lines, c) /\ Len(lines') = i /\ block.type = "equation"
    BY ReadGives DEF Markdown!InEquation
  <1>2. CASE c \notin {"dollars", "ends", "formula"}
    BY <1>1, <1>2, GrowKeeps DEF Markdown!InEquation
  <1>3. CASE c \in {"dollars", "ends", "formula"}
    <2>1. /\ block' = [type |-> "none", of |-> <<>>] /\ UNCHANGED <<current, dropped>>
          /\ elements' = Append(elements, [type |-> "equation", heading |-> current,
                                           of |-> Append(block.of, i)])
      BY <1>1, <1>3 DEF Markdown!InEquation, Markdown!Closed, Markdown!Emit, Markdown!Element
    <2>2. Ledger(elements, current, Append(block.of, i), dropped, lines')
      BY <1>1, BlockGrows DEF MarkdownInv
    <2>3. Append(block.of, i) # <<>>
      <3>1. block.of \in Seq(Nat) /\ i \in Nat
        BY DEF MarkdownInv, Ledger, Accounted, Consecutive
      <3> HIDE DEF i
      <3> QED  BY <3>1, Appended
    <2>4. Ledger(elements', current, <<>>, dropped, lines')
      BY <2>1, <2>2, <2>3, BlockCloses DEF Kind
    <2> QED  BY <2>1, <2>4 DEF MarkdownInv, BlockSound
  <1> QED  BY <1>2, <1>3

\* A paragraph that is given up has no long line.
LEMMA GivenUp ==
    ASSUME FALSE \in Markdown!Kept(block.of)
    PROVE  \A k \in Markdown!Lines(block.of) : lines[k] # "long"
  BY DEF Markdown!Kept

LEMMA InRunKeeps ==
    ASSUME MarkdownInv, NEW c \in Classes, Markdown!InRun(c) PROVE MarkdownInv'
  <1> DEFINE i == Len(lines) + 1
             goes == IF block.type = "table" THEN c = "row" ELSE c \notin {"blank", "heading"}
             fresh == IF c \in {"fence", "blank"} THEN {i} ELSE {}
             x == [type |-> block.type, heading |-> current, of |-> block.of]
  <1>1. lines' = Append(lines, c) /\ Len(lines') = i /\ block.type \in {"table", "text"}
    BY ReadGives DEF Markdown!InRun
  <1>2. CASE goes
    BY <1>1, <1>2, GrowKeeps DEF Markdown!InRun
  <1>3. CASE ~goes
    <2>1. PICK keep \in IF block.type = "table" THEN {TRUE} ELSE Markdown!Kept(block.of) :
             /\ Markdown!Opens(IF keep THEN Append(elements, x) ELSE elements, c, i)
             /\ dropped' = (dropped \cup IF keep THEN {} ELSE Markdown!Lines(block.of)) \cup fresh
      BY <1>1, <1>3 DEF Markdown!InRun, Markdown!Closes, Markdown!Element
    <2>2. keep \in BOOLEAN
      BY DEF Markdown!Kept
    <2>3. CASE keep = TRUE
      <3>1. Ledger(Append(elements, x), current, <<>>, dropped, lines)
        BY <1>1, BlockCloses DEF MarkdownInv, BlockSound, Kind
      <3>2. Markdown!Opens(Append(elements, x), c, i) /\ dropped' = dropped \cup fresh
        BY <2>1, <2>3
      <3> QED  BY <1>1, <3>1, <3>2, OpensKeeps
    <2>4. CASE keep = FALSE
      <3>1. Ledger(elements, current, <<>>, dropped \cup Markdown!Lines(block.of), lines)
        BY <2>1, <2>4, BlockLeftOut, GivenUp DEF MarkdownInv
      <3>2. /\ Markdown!Opens(elements, c, i)
            /\ dropped' = (dropped \cup Markdown!Lines(block.of)) \cup fresh
        BY <2>1, <2>4
      <3> QED  BY <1>1, <3>1, <3>2, OpensKeeps
    <2> QED  BY <2>2, <2>3, <2>4
  <1> QED  BY <1>2, <1>3

LEMMA EndOfFileKeeps ==
    ASSUME MarkdownInv, Markdown!EndOfFile PROVE MarkdownInv'
  <1> DEFINE empty == block.type = "code" /\ \A k \in Markdown!Lines(block.of) : lines[k] = "blank"
             x == [type |-> block.type, heading |-> current, of |-> block.of]
  <1>1. PICK keep \in IF empty \/ block.type = "none" THEN {FALSE}
                      ELSE IF block.type = "text" THEN Markdown!Kept(block.of) ELSE {TRUE} :
           /\ IF keep THEN elements' = Append(elements, x) ELSE UNCHANGED elements
           /\ dropped' = IF keep THEN dropped ELSE dropped \cup Markdown!Lines(block.of)
    BY DEF Markdown!EndOfFile, Markdown!Emit, Markdown!Element
  <1>2. block' = [type |-> "none", of |-> <<>>] /\ UNCHANGED <<lines, current>>
    BY DEF Markdown!EndOfFile, Markdown!Closed
  <1>3. keep \in BOOLEAN
    BY DEF Markdown!Kept
  <1>4. Markdown!Lines(<<>>) = {}
    BY LinesOfNone
  <1>5. CASE keep = TRUE
    <2>1. ~empty /\ block.type # "none"
      BY <1>1, <1>5
    <2>2. block.of # <<>> /\ block.type \in Kind \ {"heading"}
      BY <1>4, <2>1 DEF MarkdownInv, BlockSound, Kind
    <2>3. Ledger(Append(elements, x), current, <<>>, dropped, lines)
      BY <2>2, BlockCloses DEF MarkdownInv
    <2> QED  BY <1>1, <1>2, <1>5, <2>3 DEF MarkdownInv, BlockSound
  <1>6. CASE keep = FALSE
    <2>1. \A k \in Markdown!Lines(block.of) : lines[k] # "long"
      <3>1. CASE empty
        BY <3>1
      <3>2. CASE block.type = "none"
        BY <1>4, <3>2 DEF MarkdownInv, BlockSound
      <3>3. CASE ~empty /\ block.type # "none"
        BY <1>1, <1>6, <3>3, GivenUp
      <3> QED  BY <3>1, <3>2, <3>3
    <2>2. Ledger(elements, current, <<>>, dropped \cup Markdown!Lines(block.of), lines)
      BY <2>1, BlockLeftOut DEF MarkdownInv
    <2> QED  BY <1>1, <1>2, <1>6, <2>2 DEF MarkdownInv, BlockSound
  <1> QED  BY <1>3, <1>5, <1>6

LEMMA MarkdownUntouched == MarkdownInv /\ UNCHANGED markdown => MarkdownInv'
  BY DEF markdown, MarkdownInv, BlockSound

\* However the blocks of a Markdown file are opened, interrupted or left open, and
\* however long it is: each of its lines is in one element, in the order of the file and
\* under the heading before it, or was left out on purpose.
THEOREM LinesAreKept == Spec => []LinesKept
  <1>1. Init => MarkdownInv
    BY MarkdownInvInit DEF Init
  <1>2. MarkdownInv /\ [Next]_vars => MarkdownInv'
    <2> SUFFICES ASSUME MarkdownInv, [Next]_vars PROVE MarkdownInv'
      OBVIOUS
    <2>1. CASE UNCHANGED markdown
      BY <2>1, MarkdownUntouched
    <2>2. CASE Markdown!Next
      BY <2>2, TopKeeps, InCodeKeeps, InEquationKeeps, InRunKeeps, EndOfFileKeeps
         DEF Markdown!Next
    <2>3. UNCHANGED markdown \/ Markdown!Next
      BY DEF Next, vars, RunFiles, RunMarkdown, RunWindows, RunSections, RunPassages
    <2> QED  BY <2>1, <2>2, <2>3
  <1>3. MarkdownInv => LinesKept
    BY LedgerKeeps DEF MarkdownInv, LinesKept
  <1> QED  BY <1>1, <1>2, <1>3, PTL DEF Spec
-----------------------------------------------------------------------------
\* A set of naturals with an upper bound has a greatest element.
LEMMA Greatest ==
    ASSUME NEW S, NEW n \in Nat, S \subseteq 0..n, S # {}
    PROVE  Windows!Max(S) \in S
  <1> DEFINE R == {p \in Nat \X Nat : p[1] < p[2]}
             T == {n - x : x \in S}
  <1>1. IsWellFoundedOn(R, Nat)
    BY NatLessThanWellFounded DEF OpToRel
  <1>2. \A x \in S : x \in Nat /\ x <= n /\ n - x \in Nat
    OBVIOUS
  <1>3. T \subseteq Nat /\ T # {}
    BY <1>2
  <1>4. PICK t \in T : \A u \in T : <<u, t>> \notin R
    BY <1>1, <1>3, WFMin
  <1>5. PICK x \in S : t = n - x
    BY <1>4
  <1>6. ASSUME NEW y \in S PROVE x >= y
    <2>1. <<n - y, t>> \notin R /\ n - y \in Nat /\ t \in Nat
      BY <1>3, <1>4
    <2> QED
      BY <1>2, <1>5, <2>1
  <1> QED
    BY <1>5, <1>6 DEF Windows!Max

(***************************************************************************)
(* The windows over a text.  The next start is beyond the last window's    *)
(* start and no further before its end than the overlap.                   *)
(***************************************************************************)
WindowInv ==
    /\ text \in Seq(Windows!Char) /\ overlap \in Nat /\ start \in 0..Len(text)
    /\ ~windowed => start < Len(text)
    /\ windows \in Seq(Nat \X Nat)
    /\ \A p \in 1..(IF windowed THEN Len(text) ELSE start) : text[p] # "space" =>
          \E i \in 1..Len(windows) : windows[i][1] < p /\ p <= windows[i][2]
    /\ \A i \in 1..Len(windows) : windows[i][2] - windows[i][1] <= WindowSize
    /\ \A i \in 1..Len(windows) :
          ~windowed => windows[i][1] < start /\ windows[i][2] - overlap <= start
    /\ \A i \in 2..Len(windows) :
          windows[i - 1][1] < windows[i][1] /\ windows[i - 1][2] - overlap <= windows[i][1]

LEMMA WindowInvInit ==
    ASSUME \/ Windows!Init
           \/ text = <<>> /\ overlap = 0 /\ start = 0 /\ windows = <<>> /\ windowed = TRUE
    PROVE  WindowInv
  <1>1. text \in Seq(Windows!Char) /\ overlap \in Nat
    <2>1. Overlaps \subseteq Nat
      BY TextAssumption DEF Windows!WindowAssumption
    <2>2. CASE Windows!Init
      <3>1. PICK n \in 0..MaxText :
               \E at \in SUBSET (1..n) : \E mark \in [at -> {"stop", "space"}] :
                  text = [p \in 1..n |-> IF p \in at THEN mark[p] ELSE "word"]
        BY <2>2 DEF Windows!Init
      <3>2. PICK at \in SUBSET (1..n) : \E mark \in [at -> {"stop", "space"}] :
               text = [p \in 1..n |-> IF p \in at THEN mark[p] ELSE "word"]
        BY <3>1
      <3>3. PICK mark \in [at -> {"stop", "space"}] :
               text = [p \in 1..n |-> IF p \in at THEN mark[p] ELSE "word"]
        BY <3>2
      <3>4. n \in Nat /\ \A p \in 1..n : (IF p \in at THEN mark[p] ELSE "word") \in Windows!Char
        BY <3>1, <3>3, TextAssumption DEF Windows!WindowAssumption, Windows!Char
      <3>5. text \in [1..n -> Windows!Char]
        BY <3>3, <3>4
      <3> QED  BY <2>1, <2>2, <3>4, <3>5 DEF Windows!Init
    <2>3. CASE text = <<>> /\ overlap = 0
      BY <2>3
    <2> QED  BY <2>2, <2>3
  <1>2. Len(text) \in Nat
    BY <1>1
  <1>3. start = 0 /\ windows = <<>> /\ windowed = (\A p \in 1..Len(text) : text[p] = "space")
    <2>1. CASE Windows!Init
      BY <2>1 DEF Windows!Init
    <2>2. CASE text = <<>> /\ start = 0 /\ windows = <<>> /\ windowed = TRUE
      BY <2>2
    <2> QED  BY <2>1, <2>2
  <1>4. \A p \in 1..(IF windowed THEN Len(text) ELSE start) : text[p] = "space"
    BY <1>2, <1>3
  <1>5. ~windowed => start < Len(text)
    BY <1>2, <1>3
  <1>6. windows \in Seq(Nat \X Nat) /\ Len(windows) = 0
    BY <1>3
  <1> QED  BY <1>1, <1>2, <1>3, <1>4, <1>5, <1>6 DEF WindowInv

LEMMA BoundariesLie ==
    ASSUME NEW from \in Nat, NEW to \in Nat, NEW b \in Windows!Boundaries(from, to)
    PROVE  b \in Int /\ from <= b /\ b <= to - 2
  BY DEF Windows!Boundaries

\* A window ends after it starts, in the text and no further than its size.
LEMMA EndBeyondStart ==
    ASSUME WindowInv, NEW s \in Nat, s < Len(text), NEW e, e = Windows!End(s)
    PROVE  e \in Nat /\ s < e /\ e <= s + WindowSize /\ e <= Len(text)
  <1>1. WindowSize \in Nat /\ WindowSize # 0 /\ Len(text) \in Nat
    BY TextAssumption DEF WindowInv, Windows!WindowAssumption
  <1>2. CASE s + WindowSize >= Len(text)
    BY <1>1, <1>2 DEF Windows!End
  <1>3. CASE ~(s + WindowSize >= Len(text))
    <2> DEFINE from == s + (WindowSize * 4) \div 5
               B == Windows!Boundaries(from, s + WindowSize)
    <2>1. e = IF B = {} THEN s + WindowSize ELSE Windows!Max(B) + 2
      BY <1>3 DEF Windows!End
    <2>2. (WindowSize * 4) \div 5 \in Nat
      <3>1. WindowSize * 4 \in Nat
        BY <1>1
      <3> QED  BY <3>1
    <2>3. from \in Nat /\ from >= s
      <3> HIDE DEF B
      <3> QED  BY <2>2
    <2> HIDE DEF from
    <2> DEFINE to == s + WindowSize
    <2>t. to \in Nat
      BY <1>1
    <2> HIDE DEF to
    <2>4. \A b \in Windows!Boundaries(from, to) : b \in Int /\ from <= b /\ b <= to - 2
      BY <2>3, <2>t, BoundariesLie
    <2>b. \A b \in B : b \in Int /\ from <= b /\ b <= to - 2
      BY <2>4 DEF to
    <2> HIDE DEF B
    <2>5. B \subseteq 0..(s + WindowSize)
      BY <1>1, <2>3, <2>b DEF to
    <2>6. CASE B = {}
      BY <1>1, <1>3, <2>1, <2>6
    <2>7. CASE B # {}
      <3>1. s + WindowSize \in Nat
        BY <1>1
      <3>2. Windows!Max(B) \in B
        BY <2>5, <2>7, <3>1, Greatest
      <3>3. PICK b \in B : b = Windows!Max(B)
        BY <3>2
      <3>4. b \in Int /\ from <= b /\ b <= s + WindowSize - 2
        BY <2>3, <2>b, <1>1 DEF to
      <3>5. e = b + 2
        BY <2>1, <2>7, <3>3
      <3> QED  BY <1>1, <1>3, <2>3, <3>4, <3>5
    <2> QED  BY <2>6, <2>7
  <1> QED  BY <1>2, <1>3

LEMMA SlideKeeps == WindowInv /\ Windows!Slide => WindowInv'
  <1> SUFFICES ASSUME WindowInv, Windows!Slide PROVE WindowInv'
    OBVIOUS
  <1>1. PICK e : e = Windows!End(start)
    OBVIOUS
  <1>2. /\ ~windowed /\ UNCHANGED <<text, overlap>>
        /\ windows' = IF \E p \in (start + 1)..e : text[p] # "space"
                      THEN Append(windows, <<start, e>>) ELSE windows
        /\ start' = IF e >= Len(text) THEN start ELSE Windows!NextStart(start, e)
        /\ windowed' = (e >= Len(text))
    BY <1>1 DEF Windows!Slide
  <1>3. /\ text \in Seq(Windows!Char) /\ Len(text) \in Nat /\ overlap \in Nat /\ start \in Nat
        /\ start <= Len(text) /\ windows \in Seq(Nat \X Nat) /\ WindowSize \in Nat
    BY TextAssumption DEF WindowInv, Windows!WindowAssumption
  <1> DEFINE w == <<start, e>>
  <1>w. w = <<start, e>> /\ w[1] = start /\ w[2] = e
    OBVIOUS
  <1> HIDE DEF w
  <1>e. (windowed' => e >= Len(text)) /\ (~windowed' => ~(e >= Len(text)))
    BY <1>2
  <1>4. start < Len(text) /\ e \in Nat /\ start < e /\ e <= start + WindowSize /\ e <= Len(text)
    BY <1>1, <1>2, <1>3, EndBeyondStart DEF WindowInv
  <1>5. /\ windows' \in Seq(Nat \X Nat) /\ Len(windows) \in Nat
        /\ \A i \in 1..Len(windows) : i \in 1..Len(windows') /\ windows'[i] = windows[i]
        /\ \A i \in 1..Len(windows') : \/ i \in 1..Len(windows)
                                       \/ i = Len(windows) + 1 /\ windows'[i] = w
        /\ \A p \in (start + 1)..e : text[p] # "space" =>
              Len(windows) + 1 \in 1..Len(windows') /\ windows'[Len(windows) + 1] = w
    <2>1. CASE \E p \in (start + 1)..e : text[p] # "space"
      <3>1. windows' = Append(windows, w) /\ w \in Nat \X Nat
        BY <1>2, <1>3, <1>4, <1>w, <2>1
      <3>2. /\ windows' \in Seq(Nat \X Nat) /\ Len(windows) \in Nat
            /\ Len(windows') = Len(windows) + 1 /\ windows'[Len(windows) + 1] = w
            /\ 1..(Len(windows) + 1) = 1..Len(windows) \cup {Len(windows) + 1}
            /\ \A i \in 1..Len(windows) : windows'[i] = windows[i]
        BY <1>3, <3>1, Appended
      <3> QED  BY <3>2
    <2>2. CASE \A p \in (start + 1)..e : text[p] = "space"
      <3>1. windows' = windows
        BY <1>2, <2>2
      <3> QED  BY <1>3, <2>2, <3>1
    <2> QED  BY <2>1, <2>2
  <1>6. /\ start' \in Nat /\ start' <= Len(text)
        /\ ~windowed' => /\ start' < Len(text) /\ start < start' /\ start' <= e
                         /\ e - overlap <= start'
    <2>1. CASE e >= Len(text)
      BY <1>2, <1>3, <2>1
    <2>2. CASE ~(e >= Len(text)) /\ e - overlap > start
      <3>1. start' = e - overlap
        BY <1>2, <2>2 DEF Windows!NextStart
      <3> QED  BY <1>3, <1>4, <2>2, <3>1
    <2>3. CASE ~(e >= Len(text)) /\ ~(e - overlap > start)
      <3>1. start' = start + 1
        BY <1>2, <2>3 DEF Windows!NextStart
      <3> QED  BY <1>3, <1>4, <2>3, <3>1
    <2> QED  BY <2>1, <2>2, <2>3
  <1>7. ASSUME NEW p \in 1..(IF windowed' THEN Len(text) ELSE start'), text[p] # "space"
        PROVE  \E i \in 1..Len(windows') : windows'[i][1] < p /\ p <= windows'[i][2]
    <2>1. p \in Nat /\ p >= 1 /\ p <= e
      BY <1>e, <1>3, <1>4, <1>6, <1>7
    <2>2. CASE p <= start
      <3>1. p \in 1..(IF windowed THEN Len(text) ELSE start)
        BY <1>2, <1>3, <2>1, <2>2
      <3>2. PICK i \in 1..Len(windows) : windows[i][1] < p /\ p <= windows[i][2]
        BY <1>7, <3>1 DEF WindowInv
      <3> QED  BY <1>5, <3>2
    <2>3. CASE p > start
      <3>1. p \in (start + 1)..e
        BY <1>3, <1>4, <2>1, <2>3
      <3> QED  BY <1>5, <1>7, <1>w, <2>1, <2>3, <3>1
    <2> QED  BY <1>3, <2>1, <2>2, <2>3
  <1>8. \A i \in 1..Len(windows) :
           /\ windows[i] \in Nat \X Nat /\ windows[i][2] - windows[i][1] <= WindowSize
           /\ windows[i][1] < start /\ windows[i][2] - overlap <= start
    BY <1>2, <1>3 DEF WindowInv
  <1>9. \A i \in 1..Len(windows') : windows'[i][2] - windows'[i][1] <= WindowSize
    <2>1. ASSUME NEW i \in 1..Len(windows')
          PROVE  windows'[i][2] - windows'[i][1] <= WindowSize
      <3>1. CASE i \in 1..Len(windows)
        BY <1>5, <1>8, <3>1
      <3>2. CASE windows'[i] = w
        BY <1>3, <1>4, <1>w, <3>2
      <3>3. i \in 1..Len(windows) \/ windows'[i] = w
        BY <1>5
      <3> QED  BY <3>1, <3>2, <3>3
    <2> QED  BY <2>1
  <1>10. ASSUME NEW i \in 1..Len(windows'), ~windowed'
         PROVE  windows'[i][1] < start' /\ windows'[i][2] - overlap <= start'
    <2>1. CASE i \in 1..Len(windows)
      <3>1. windows[i] \in Nat \X Nat /\ windows[i][1] < start /\ windows[i][2] - overlap <= start
        BY <1>8, <2>1
      <3>2. windows[i][1] \in Nat /\ windows[i][2] \in Nat /\ windows'[i] = windows[i]
        BY <1>5, <2>1, <3>1
      <3>3. start \in Nat /\ start' \in Nat /\ overlap \in Nat /\ start < start'
        BY <1>3, <1>6, <1>10
      <3>4. PICK a, b \in Nat : a = windows[i][1] /\ b = windows[i][2]
        BY <3>2
      <3>5. a < start' /\ b - overlap <= start'
        BY <3>1, <3>3, <3>4
      <3> QED  BY <3>2, <3>4, <3>5
    <2>2. CASE windows'[i] = w
      BY <1>6, <1>10, <1>w, <2>2
    <2> QED  BY <1>5, <2>1, <2>2
  <1>11. ASSUME NEW i \in 2..Len(windows')
         PROVE  /\ windows'[i - 1][1] < windows'[i][1]
                /\ windows'[i - 1][2] - overlap <= windows'[i][1]
    <2>1. Len(windows') \in Nat /\ i \in 1..Len(windows') /\ i - 1 \in 1..Len(windows')
      BY <1>5
    <2>2. CASE i \in 1..Len(windows)
      <3>1. i \in 2..Len(windows) /\ i - 1 \in 1..Len(windows)
        BY <1>5, <2>2
      <3> QED  BY <1>5, <3>1, <2>2 DEF WindowInv
    <2>3. CASE i = Len(windows) + 1 /\ windows'[i] = w
      <3>1. i - 1 \in 1..Len(windows)
        BY <1>5, <2>1, <2>3
      <3> QED  BY <1>5, <1>8, <1>w, <2>3, <3>1
    <2> QED  BY <1>5, <2>1, <2>2, <2>3
  <1>12. text' \in Seq(Windows!Char) /\ overlap' \in Nat /\ start' \in 0..Len(text')
         /\ (~windowed' => start' < Len(text'))
    BY <1>2, <1>3, <1>6
  <1>13. \A p \in 1..(IF windowed' THEN Len(text') ELSE start') : text'[p] # "space" =>
           \E i \in 1..Len(windows') : windows'[i][1] < p /\ p <= windows'[i][2]
    BY <1>2, <1>7
  <1>14. \A i \in 1..Len(windows') :
            ~windowed' => windows'[i][1] < start' /\ windows'[i][2] - overlap' <= start'
    BY <1>2, <1>10
  <1>15. \A i \in 2..Len(windows') : /\ windows'[i - 1][1] < windows'[i][1]
                                     /\ windows'[i - 1][2] - overlap' <= windows'[i][1]
    BY <1>2, <1>11
  <1> QED  BY <1>5, <1>9, <1>12, <1>13, <1>14, <1>15 DEF WindowInv

LEMMA WindowInvStep == WindowInv /\ [Windows!Slide]_(Windows!vars) => WindowInv'
  <1> SUFFICES ASSUME WindowInv, UNCHANGED Windows!vars PROVE WindowInv'
    BY SlideKeeps
  <1> QED  BY DEF WindowInv, Windows!vars

LEMMA WindowsCover == WindowInv => Windows!TextCovered
  BY DEF WindowInv, Windows!TextCovered

(***************************************************************************)
(* The sections of a document and its chunks.  What waits in the buffer    *)
(* and every chunk is in order and of one section; the current heading is  *)
(* one of that section.  Of the buffer only the front counts: the rest is  *)
(* cut off when it is flushed.                                             *)
(***************************************************************************)
Character == Nat \X Nat

InOrder(s) ==
    \A j, k \in 1..Len(s) :
        j < k /\ s[j] # Sections!Blank /\ s[k] # Sections!Blank => Sections!Earlier(s[j], s[k])

\* The characters are of elements after the h-th, up to the n-th.
Between(s, h, n) ==
    \A k \in 1..Len(s) : s[k] # Sections!Blank => h < s[k][1] /\ s[k][1] <= n

\* No element after the h-th and up to the n-th is a heading.
OneSection(doc, h, n) == \A i \in (h + 1)..n : doc[i].kind # "heading"

\* Element i is in the section that the h-th opens.
Belongs(doc, h, i) == h < i /\ \A j \in (h + 1)..i : doc[j].kind # "heading"

\* The headings that section has, its own and what its elements carry.
NamesIn(doc, h) ==
    {IF h = 0 THEN NoName ELSE doc[h].head} \cup
    {doc[j].head : j \in {i \in 1..Len(doc) : Belongs(doc, h, i) /\ doc[i].head # NoName}}

Name == Names \cup {NoName}
ChunkSet == [chars : Seq(Character), heading : Name, kind : {"text", "table"}]

\* What a chunk promises about the document doc.
ChunkSound(doc, c) ==
    /\ c \in ChunkSet
    /\ c.kind = "text" => Len(c.chars) <= ChunkSize
    /\ c.kind = "table" => \E i \in 1..Len(doc) :
          doc[i].kind = "table" /\ c.chars = Sections!Chars(i, doc[i].len)
    /\ InOrder(c.chars)
    /\ \E h, n \in 0..Len(doc) :
          Between(c.chars, h, n) /\ OneSection(doc, h, n) /\ c.heading \in NamesIn(doc, h)

\* What a flush keeps of a text.
Front(s) == SubSeq(s, 1, IF ChunkSize < Len(s) THEN ChunkSize ELSE Len(s))

\* Where the characters of the document are.
HeldIn(buf, cs, x) ==
    Sections!Holds(buf, x) \/ \E c \in 1..Len(cs) : Sections!Holds(cs[c].chars, x)

Room == ChunkSize - ChunkOverlap - 1

\* Character k of the element e is not to be lost.
Due(e, k) == e.kind = "table" \/ (e.kind = "text" /\ k <= Room)

AllHeld(doc, buf, cs) ==
    \A i \in 1..Len(doc) : \A k \in 1..doc[i].len :
        Due(doc[i], k) => HeldIn(buf, cs, Sections!Char(i, k))

\* The text is of the section that the h-th element opens, the name one it has.
InSectionOf(doc, name, buf, h) ==
    /\ h \in 0..Len(doc) /\ OneSection(doc, h, Len(doc)) /\ Between(buf, h, Len(doc))
    /\ name \in NamesIn(doc, h)

SectionInv ==
    /\ document \in Seq(Sections!Element) /\ heading \in Name
    /\ buffer \in Seq(Character) /\ InOrder(buffer)
    /\ \E h \in 0..Len(document) : InSectionOf(document, heading, buffer, h)
    /\ chunks \in Seq(ChunkSet)
    /\ \A c \in 1..Len(chunks) : ChunkSound(document, chunks[c])
    /\ AllHeld(document, Front(buffer), chunks)

LEMMA SectionInvInit == Sections!Init => SectionInv
  <1> SUFFICES ASSUME Sections!Init PROVE SectionInv
    OBVIOUS
  <1>1. document = <<>> /\ buffer = <<>> /\ heading = NoName /\ chunks = <<>>
    BY DEF Sections!Init
  <1>2. 0 \in 0..Len(document) /\ InSectionOf(document, heading, buffer, 0)
    BY <1>1 DEF InSectionOf, OneSection, Between, NamesIn
  <1> QED  BY <1>1, <1>2 DEF SectionInv, InOrder, AllHeld, Name

\* The sizes of chunks, and of the text that fits one.
LEMMA Sizes == /\ ChunkSize \in Nat /\ ChunkOverlap \in Nat /\ 1 <= ChunkOverlap
               /\ ChunkOverlap + 2 <= ChunkSize /\ ChunkOverlap + 1 + Room = ChunkSize
  BY TextAssumption DEF Sections!SectionAssumption, Room

LEMMA ElementSizes ==
    ASSUME NEW e \in Sections!Element
    PROVE  /\ e.len \in Nat /\ e.kind \in {"heading", "table", "text"} /\ e.head \in Name
  <1>1. CASE e \in [kind : {"heading"}, len : {1}, head : Names]
    BY <1>1 DEF Name
  <1>2. CASE e \in [kind : {"table", "text"}, len : Lengths, head : Names \cup {NoName}]
    BY <1>2, TextAssumption DEF Sections!SectionAssumption, Name
  <1> QED  BY <1>1, <1>2 DEF Sections!Element

\* What a flush keeps is the beginning of the text.
LEMMA FrontOf ==
    ASSUME NEW s \in Seq(Character)
    PROVE  /\ Front(s) = Sections!UpTo(s, ChunkSize)
           /\ Front(s) \in Seq(Character) /\ Len(Front(s)) <= ChunkSize
           /\ Len(s) <= ChunkSize => Front(s) = s
           /\ InOrder(s) => InOrder(Front(s))
           /\ \A h, n : Between(s, h, n) => Between(Front(s), h, n)
           /\ \A k \in 1..Len(s) : k <= ChunkSize => Sections!Holds(Front(s), s[k])
  <1> DEFINE m == IF ChunkSize < Len(s) THEN ChunkSize ELSE Len(s)
             t == Front(s)
  <1>1. m \in Nat /\ m <= Len(s) /\ m <= ChunkSize /\ Len(s) \in Nat /\ ChunkSize \in Nat
    BY Sizes
  <1>2. t = SubSeq(s, 1, m) /\ t = Sections!UpTo(s, ChunkSize)
    BY DEF Front, Sections!UpTo
  <1>3. Len(s) <= ChunkSize => t = s
    <2> HAVE Len(s) <= ChunkSize
    <2>1. m = Len(s)
      BY <1>1
    <2>2. SubSeq(s, 1, Len(s)) = s
      OBVIOUS
    <2> QED  BY <1>2, <2>1, <2>2
  <1> HIDE DEF m, t
  <1>4. t \in Seq(Character) /\ Len(t) = m /\ \A k \in 1..m : t[k] = s[k]
    BY <1>1, <1>2
  <1>5. \A k \in 1..Len(t) : k \in 1..Len(s) /\ t[k] = s[k]
    BY <1>1, <1>4
  <1>6. InOrder(s) => InOrder(t)
    BY <1>5 DEF InOrder
  <1>7. \A h, n : Between(s, h, n) => Between(t, h, n)
    BY <1>5 DEF Between
  <1>8. ASSUME NEW k \in 1..Len(s), k <= ChunkSize PROVE Sections!Holds(t, s[k])
    <2>1. k \in 1..m
      BY <1>1, <1>8 DEF m
    <2> QED  BY <1>4, <2>1 DEF Sections!Holds
  <1> QED  BY <1>1, <1>2, <1>3, <1>4, <1>6, <1>7, <1>8 DEF t

LEMMA FrontOfNone == Front(<<>>) = <<>>
  <1>1. <<>> \in Seq(Character) /\ Len(<<>>) <= ChunkSize
    BY Sizes
  <1> QED  BY <1>1, FrontOf

\* The characters of one element.
LEMMA CharsSound ==
    ASSUME NEW i \in Nat, i # 0, NEW n \in Nat
    PROVE  /\ Sections!Chars(i, n) \in Seq(Character) /\ Len(Sections!Chars(i, n)) = n
           /\ \A k \in 1..n : /\ Sections!Chars(i, n)[k] = <<i, k>>
                              /\ Sections!Chars(i, n)[k] # Sections!Blank
           /\ InOrder(Sections!Chars(i, n))
           /\ \A k \in 1..n : Sections!Holds(Sections!Chars(i, n), Sections!Char(i, k))
  <1> DEFINE s == Sections!Chars(i, n)
  <1>1. s = [k \in 1..n |-> <<i, k>>]
    BY DEF Sections!Chars, Sections!Char
  <1>2. \A k \in 1..n : <<i, k>> \in Character
    BY DEF Character
  <1>3. s \in Seq(Character) /\ Len(s) = n /\ \A k \in 1..n : s[k] = <<i, k>>
    BY <1>1, <1>2
  <1> HIDE DEF s
  <1>4. \A k \in 1..n : s[k] # Sections!Blank
    BY <1>3 DEF Sections!Blank
  <1>5. InOrder(s)
    BY <1>3 DEF InOrder, Sections!Earlier
  <1>6. \A k \in 1..n : Sections!Holds(s, Sections!Char(i, k))
    BY <1>3 DEF Sections!Holds, Sections!Char
  <1> QED  BY <1>3, <1>4, <1>5, <1>6 DEF s

\* A text and the next element, with a blank between them.
Join(s, j, n) == s \o <<Sections!Blank>> \o Sections!Chars(j, n)

LEMMA JoinedText ==
    ASSUME NEW s \in Seq(Character), NEW j \in Nat, j # 0, NEW n \in Nat
    PROVE  /\ Join(s, j, n) \in Seq(Character) /\ Len(Join(s, j, n)) = Len(s) + 1 + n
           /\ \A c : Sections!Holds(s, c) => Sections!Holds(Join(s, j, n), c)
           /\ \A k \in 1..n : Join(s, j, n)[Len(s) + 1 + k] = Sections!Char(j, k)
           /\ \A k \in 1..Len(s) : Join(s, j, n)[k] = s[k]
           /\ \A k \in 1..Len(Join(s, j, n)) : Join(s, j, n)[k] # Sections!Blank =>
                 \/ k \in 1..Len(s) /\ Join(s, j, n)[k] = s[k]
                 \/ /\ k - (Len(s) + 1) \in 1..n
                    /\ Join(s, j, n)[k] = <<j, k - (Len(s) + 1)>>
  <1> DEFINE u == Sections!Chars(j, n)
             t == Join(s, j, n)
  <1>1. Sections!Blank \in Character /\ Len(s) \in Nat
    BY DEF Sections!Blank, Character
  <1>2. u \in Seq(Character) /\ Len(u) = n
        /\ \A k \in 1..n : u[k] = <<j, k>> /\ u[k] # Sections!Blank
    BY CharsSound
  <1> HIDE DEF u
  <1>3. t \in Seq(Character) /\ Len(t) = Len(s) + 1 + n
    <2> DEFINE w == s \o <<Sections!Blank>>
    <2>1. w \in Seq(Character) /\ Len(w) = Len(s) + 1
      BY <1>1
    <2> HIDE DEF w
    <2>2. w \o u \in Seq(Character) /\ Len(w \o u) = Len(w) + Len(u)
      BY <1>2, <2>1, ConcatProperties
    <2>3. t = w \o u
      BY DEF w, u, Join
    <2> QED  BY <1>2, <2>1, <2>2, <2>3
  <1>4. /\ \A k \in 1..Len(s) : t[k] = s[k]
        /\ t[Len(s) + 1] = Sections!Blank
        /\ \A k \in 1..n : t[Len(s) + 1 + k] = u[k]
    BY <1>1, <1>2 DEF u, Join
  <1> HIDE DEF t
  <1>5. \A k \in 1..Len(t) : k \in 1..Len(s) \/ k = Len(s) + 1
                             \/ (k - (Len(s) + 1) \in 1..n /\ t[k] = u[k - (Len(s) + 1)])
    <2> SUFFICES ASSUME NEW k \in 1..Len(t), k \notin 1..Len(s), k # Len(s) + 1
                 PROVE  k - (Len(s) + 1) \in 1..n /\ t[k] = u[k - (Len(s) + 1)]
      OBVIOUS
    <2> DEFINE l == k - (Len(s) + 1)
    <2>1. l \in 1..n /\ Len(s) + 1 + l = k
      BY <1>1, <1>3
    <2> QED  BY <1>4, <2>1
  <1>6. \A k \in 1..Len(t) : t[k] # Sections!Blank =>
           \/ k \in 1..Len(s) /\ t[k] = s[k]
           \/ k - (Len(s) + 1) \in 1..n /\ t[k] = <<j, k - (Len(s) + 1)>>
    BY <1>2, <1>4, <1>5
  <1>7. ASSUME NEW c, Sections!Holds(s, c) PROVE Sections!Holds(t, c)
    <2>1. PICK k \in 1..Len(s) : s[k] = c
      BY <1>7 DEF Sections!Holds
    <2>2. k \in 1..Len(t) /\ t[k] = c
      BY <1>1, <1>3, <1>4, <2>1
    <2> QED  BY <2>2 DEF Sections!Holds
  <1>8. ASSUME NEW k \in 1..n PROVE t[Len(s) + 1 + k] = Sections!Char(j, k)
    BY <1>2, <1>4 DEF Sections!Char
  <1> QED  BY <1>3, <1>4, <1>6, <1>7, <1>8 DEF t

\* The same of texts that are no longer looked into.
LEMMA JoinedHolds ==
    ASSUME NEW s \in Seq(Character), NEW j \in Nat, j # 0, NEW n \in Nat
    PROVE  /\ Join(s, j, n) \in Seq(Character) /\ Len(Join(s, j, n)) = Len(s) + 1 + n
           /\ \A c : Sections!Holds(s, c) => Sections!Holds(Join(s, j, n), c)
           /\ \A k \in 1..n : Join(s, j, n)[Len(s) + 1 + k] = Sections!Char(j, k)
  BY JoinedText

LEMMA JoinedInOrder ==
    ASSUME NEW s \in Seq(Character), NEW h \in Nat, NEW i \in Nat, h <= i, NEW n \in Nat,
           NEW j \in Nat, j = i + 1, InOrder(s), Between(s, h, i)
    PROVE  InOrder(Join(s, j, n)) /\ Between(Join(s, j, n), h, j)
  <1> DEFINE t == Join(s, j, n)
  <1>1. j # 0 /\ Len(s) \in Nat
    OBVIOUS
  <1>2. /\ t \in Seq(Character) /\ Len(t) = Len(s) + 1 + n
        /\ \A k \in 1..Len(s) : t[k] = s[k]
        /\ \A k \in 1..Len(t) : t[k] # Sections!Blank =>
              \/ k \in 1..Len(s) /\ t[k] = s[k]
              \/ k - (Len(s) + 1) \in 1..n /\ t[k] = <<j, k - (Len(s) + 1)>>
    BY <1>1, JoinedText
  <1> HIDE DEF t
  <1>3. InOrder(t)
    <2> SUFFICES ASSUME NEW l \in 1..Len(t), NEW k \in 1..Len(t), l < k,
                        t[l] # Sections!Blank, t[k] # Sections!Blank
                 PROVE  Sections!Earlier(t[l], t[k])
      BY DEF InOrder
    <2>1. CASE k \in 1..Len(s)
      <3>1. l \in 1..Len(s)
        BY <1>1, <1>2, <2>1
      <3> QED  BY <1>2, <2>1, <3>1 DEF InOrder
    <2>2. CASE k \notin 1..Len(s)
      <3>1. k - (Len(s) + 1) \in 1..n /\ t[k] = <<j, k - (Len(s) + 1)>>
        BY <1>2, <2>2
      <3>2. CASE l \in 1..Len(s)
        <4>1. t[l] = s[l] /\ s[l] \in Character
          BY <1>2, <3>2
        <4>2. t[l][1] <= i /\ t[l][1] \in Nat
          BY <3>2, <4>1 DEF Between, Character
        <4> QED  BY <3>1, <4>2 DEF Sections!Earlier
      <3>3. CASE l \notin 1..Len(s)
        <4>1. l - (Len(s) + 1) \in 1..n /\ t[l] = <<j, l - (Len(s) + 1)>>
          BY <1>2, <3>3
        <4>2. l - (Len(s) + 1) < k - (Len(s) + 1)
          BY <1>1, <1>2
        <4> QED  BY <3>1, <4>1, <4>2 DEF Sections!Earlier
      <3> QED  BY <3>2, <3>3
    <2> QED  BY <2>1, <2>2
  <1>4. Between(t, h, j)
    <2> SUFFICES ASSUME NEW k \in 1..Len(t), t[k] # Sections!Blank
                 PROVE  h < t[k][1] /\ t[k][1] <= j
      BY DEF Between
    <2>1. CASE k \in 1..Len(s) /\ t[k] = s[k]
      <3>1. s[k] \in Character /\ h < s[k][1] /\ s[k][1] <= i
        BY <2>1 DEF Between
      <3> QED  BY <2>1, <3>1 DEF Character
    <2>2. CASE t[k] = <<j, k - (Len(s) + 1)>>
      BY <2>2
    <2> QED  BY <1>2, <2>1, <2>2
  <1> QED  BY <1>3, <1>4 DEF t

\* An end of the buffer keeps the order and the section of the buffer.
LEMMA EndOfText ==
    ASSUME NEW s \in Seq(Character), NEW t \in Seq(Character), NEW off \in Nat,
           Len(t) + off <= Len(s), \A k \in 1..Len(t) : t[k] = s[k + off],
           NEW h, NEW n, InOrder(s), Between(s, h, n)
    PROVE  InOrder(t) /\ Between(t, h, n)
  <1>1. \A k \in 1..Len(t) : k + off \in 1..Len(s) /\ t[k] = s[k + off]
    OBVIOUS
  <1>2. \A j, k \in 1..Len(t) : j < k => j + off < k + off
    OBVIOUS
  <1> QED  BY <1>1, <1>2 DEF InOrder, Between

LEMMA Carries ==
    ASSUME SectionInv, NEW h, Between(buffer, h, Len(document))
    PROVE  /\ Sections!Carried \in Seq(Character) /\ Len(Sections!Carried) <= ChunkOverlap
           /\ InOrder(Sections!Carried) /\ Between(Sections!Carried, h, Len(document))
  <1> DEFINE n == ChunkOverlap
             s == Sections!LastOnes(buffer, n)
  <1>1. buffer \in Seq(Character) /\ Len(buffer) \in Nat /\ InOrder(buffer) /\ n \in Nat /\ n >= 1
        /\ Between(buffer, h, Len(document))
    BY Sizes DEF SectionInv
  <1>2. PICK off \in Nat : /\ s \in Seq(Character) /\ Len(s) + off = Len(buffer) /\ Len(s) <= n
                           /\ \A k \in 1..Len(s) : s[k] = buffer[k + off]
    <2>1. CASE n < Len(buffer)
      <3> DEFINE m == Len(buffer) - n + 1
      <3>1. s = SubSeq(buffer, m, Len(buffer)) /\ m \in 1..Len(buffer)
        BY <1>1, <2>1 DEF Sections!LastOnes
      <3> HIDE DEF s
      <3>2. s \in Seq(Character) /\ Len(s) = n /\ \A k \in 1..n : s[k] = buffer[m + k - 1]
        BY <1>1, <3>1
      <3>3. Len(buffer) - n \in Nat /\ \A k \in 1..n : m + k - 1 = k + (Len(buffer) - n)
        BY <1>1, <2>1
      <3>4. Len(s) + (Len(buffer) - n) = Len(buffer)
        BY <1>1, <3>2
      <3>5. \A k \in 1..Len(s) : s[k] = buffer[k + (Len(buffer) - n)]
        BY <3>2, <3>3
      <3>6. Len(s) <= n
        BY <1>1, <3>2
      <3> QED  BY <3>2, <3>3, <3>4, <3>5, <3>6
    <2>2. CASE ~(n < Len(buffer))
      <3>1. s = SubSeq(buffer, 1, Len(buffer))
        BY <2>2 DEF Sections!LastOnes
      <3>2. s = buffer
        BY <1>1, <3>1
      <3> QED  BY <1>1, <2>2, <3>2
    <2> QED  BY <2>1, <2>2
  <1> DEFINE t == Sections!LStrip(s)
  <1> HIDE DEF s, n
  <1>3. PICK more \in Nat : /\ t \in Seq(Character) /\ Len(t) + more <= Len(s)
                            /\ \A k \in 1..Len(t) : t[k] = s[k + more]
    <2>1. CASE t = s
      <3>1. 0 \in Nat /\ Len(t) + 0 <= Len(s) /\ \A k \in 1..Len(t) : t[k] = s[k + 0]
        BY <1>2, <2>1
      <3> QED  BY <1>2, <2>1, <3>1
    <2>2. CASE s # <<>> /\ t = Tail(s)
      <3>1. t \in Seq(Character) /\ Len(t) = Len(s) - 1 /\ \A k \in 1..Len(t) : t[k] = s[k + 1]
        BY <1>2, <2>2
      <3>2. Len(t) + 1 <= Len(s)
        BY <1>2, <3>1
      <3>3. 1 \in Nat
        OBVIOUS
      <3> QED  BY <3>1, <3>2, <3>3
    <2> QED  BY <2>1, <2>2 DEF Sections!LStrip
  <1>4. Sections!Carried = t
    BY DEF Sections!Carried, s, n
  <1> HIDE DEF t
  <1>5. InOrder(s) /\ Between(s, h, Len(document))
    BY <1>1, <1>2, EndOfText
  <1>6. InOrder(t) /\ Between(t, h, Len(document))
    BY <1>2, <1>3, <1>5, EndOfText
  <1>7. Len(t) <= n
    BY <1>1, <1>2, <1>3
  <1> QED  BY <1>3, <1>4, <1>6, <1>7 DEF n

\* A document grows at its end: a section keeps its headings.
LEMMA NamesStay ==
    ASSUME NEW doc \in Seq(Sections!Element), NEW e \in Sections!Element, NEW h \in 0..Len(doc),
           NEW n \in 0..Len(doc), OneSection(doc, h, n)
    PROVE  /\ OneSection(Append(doc, e), h, n)
           /\ NamesIn(doc, h) \subseteq NamesIn(Append(doc, e), h)
  <1>1. /\ Len(Append(doc, e)) = Len(doc) + 1 /\ Len(doc) \in Nat
        /\ 1..(Len(doc) + 1) = 1..Len(doc) \cup {Len(doc) + 1}
        /\ \A i \in 1..Len(doc) : Append(doc, e)[i] = doc[i]
    BY Appended
  <1>2. \A i \in 1..Len(doc) : \A j \in (h + 1)..i : j \in 1..Len(doc)
    BY <1>1
  <1>3. \A i \in 1..Len(doc) : Belongs(doc, h, i) => Belongs(Append(doc, e), h, i)
    BY <1>1, <1>2 DEF Belongs
  <1>4. h # 0 => h \in 1..Len(doc)
    BY <1>1
  <1>5. NamesIn(doc, h) \subseteq NamesIn(Append(doc, e), h)
    BY <1>1, <1>3, <1>4 DEF NamesIn
  <1>6. \A j \in (h + 1)..n : j \in 1..Len(doc)
    BY <1>1
  <1> QED  BY <1>1, <1>5, <1>6 DEF OneSection

LEMMA ChunkStays ==
    ASSUME NEW doc \in Seq(Sections!Element), NEW e \in Sections!Element, NEW c, ChunkSound(doc, c)
    PROVE  ChunkSound(Append(doc, e), c)
  <1>1. /\ Len(Append(doc, e)) = Len(doc) + 1 /\ Len(doc) \in Nat
        /\ 1..(Len(doc) + 1) = 1..Len(doc) \cup {Len(doc) + 1}
        /\ \A i \in 1..Len(doc) : Append(doc, e)[i] = doc[i]
    BY Appended
  <1>2. PICK h \in 0..Len(doc), n \in 0..Len(doc) :
           Between(c.chars, h, n) /\ OneSection(doc, h, n) /\ c.heading \in NamesIn(doc, h)
    BY DEF ChunkSound
  <1>3. OneSection(Append(doc, e), h, n) /\ c.heading \in NamesIn(Append(doc, e), h)
    BY <1>2, NamesStay
  <1>4. n \in 0..(Len(doc) + 1) /\ h \in 0..(Len(doc) + 1)
    BY <1>1
  <1>5. c.kind = "table" => \E i \in 1..(Len(doc) + 1) :
          Append(doc, e)[i].kind = "table" /\ c.chars = Sections!Chars(i, Append(doc, e)[i].len)
    BY <1>1 DEF ChunkSound
  <1> QED  BY <1>1, <1>2, <1>3, <1>4, <1>5 DEF ChunkSound

\* What waits in the buffer becomes a chunk, cut off at its size, under a heading of
\* its section.
LEMMA FlushKeeps ==
    ASSUME SectionInv, NEW doc, NEW name \in Name, NEW h \in 0..Len(doc), NEW n \in 0..Len(doc),
           \A c : ChunkSound(document, c) => ChunkSound(doc, c),
           Between(buffer, h, n), OneSection(doc, h, n), name \in NamesIn(doc, h)
    PROVE  LET cs == Sections!Flushed(name) IN
           /\ cs \in Seq(ChunkSet)
           /\ \A c \in 1..Len(cs) : ChunkSound(doc, cs[c])
           /\ \A b, x : HeldIn(Front(buffer), chunks, x) => HeldIn(b, cs, x)
  <1> DEFINE cs == Sections!Flushed(name)
             t  == Front(buffer)
  <1>1. buffer \in Seq(Character) /\ chunks \in Seq(ChunkSet) /\ InOrder(buffer)
    BY DEF SectionInv
  <1>2. /\ t = Sections!UpTo(buffer, ChunkSize) /\ t \in Seq(Character) /\ Len(t) <= ChunkSize
        /\ InOrder(t) /\ Between(t, h, n)
    BY <1>1, FrontOf
  <1>3. CASE buffer = <<>>
    <2>1. cs = chunks
      BY <1>3 DEF Sections!Flushed
    <2>2. t = <<>>
      BY <1>3, FrontOfNone
    <2>3. \A x : ~Sections!Holds(t, x)
      BY <2>2 DEF Sections!Holds
    <2> QED  BY <2>1, <2>3 DEF SectionInv, HeldIn
  <1> HIDE DEF t
  <1>4. CASE buffer # <<>>
    <2> DEFINE d == [chars |-> t, heading |-> name, kind |-> "text"]
    <2>1. cs = Append(chunks, d)
      BY <1>2, <1>4 DEF Sections!Flushed, Sections!Chunk
    <2>2. d \in ChunkSet
      BY <1>2 DEF ChunkSet
    <2>3. d.chars = t /\ d.heading = name /\ d.kind = "text"
      OBVIOUS
    <2> HIDE DEF d, cs
    <2>4. ChunkSound(doc, d)
      BY <1>2, <2>2, <2>3 DEF ChunkSound
    <2>5. /\ cs \in Seq(ChunkSet) /\ Len(cs) = Len(chunks) + 1 /\ cs[Len(chunks) + 1] = d
          /\ 1..Len(cs) = 1..Len(chunks) \cup {Len(chunks) + 1}
          /\ \A c \in 1..Len(chunks) : cs[c] = chunks[c]
      BY <1>1, <2>1, <2>2, Appended
    <2>6. \A c \in 1..Len(cs) : ChunkSound(doc, cs[c])
      BY <2>4, <2>5 DEF SectionInv
    <2>7. \A b, x : HeldIn(t, chunks, x) => HeldIn(b, cs, x)
      BY <2>3, <2>5 DEF HeldIn
    <2> QED  BY <2>5, <2>6, <2>7 DEF cs, t
  <1> QED  BY <1>3, <1>4

LEMMA AllStillHeld ==
    ASSUME NEW doc \in Seq(Sections!Element), NEW e \in Sections!Element,
           NEW buf, NEW cs, NEW buf2, NEW cs2, AllHeld(doc, buf, cs),
           \A x : HeldIn(buf, cs, x) => HeldIn(buf2, cs2, x),
           \A k \in 1..e.len : Due(e, k) => HeldIn(buf2, cs2, Sections!Char(Len(doc) + 1, k))
    PROVE  AllHeld(Append(doc, e), buf2, cs2)
  <1>1. /\ Len(Append(doc, e)) = Len(doc) + 1 /\ Append(doc, e)[Len(doc) + 1] = e
        /\ 1..(Len(doc) + 1) = 1..Len(doc) \cup {Len(doc) + 1}
        /\ \A i \in 1..Len(doc) : Append(doc, e)[i] = doc[i]
    BY Appended
  <1> QED  BY <1>1 DEF AllHeld

\* A heading, a table and a text, each after what the elements before it left.
LEMMA HeadingKeeps ==
    ASSUME SectionInv, NEW e \in Sections!Element, e.kind = "heading",
           document' = Append(document, e), Sections!TakeHeading(e)
    PROVE  SectionInv'
  <1> DEFINE n == Len(document) + 1
  <1>1. /\ document \in Seq(Sections!Element) /\ document' \in Seq(Sections!Element)
        /\ Len(document') = n /\ Len(document) \in Nat /\ document'[n] = e
        /\ \A i \in 1..Len(document) : document'[i] = document[i]
    BY Appended DEF SectionInv
  <1>2. chunks' = Sections!Flushed(heading) /\ buffer' = <<>> /\ heading' = e.head
    BY DEF Sections!TakeHeading, Sections!AtHeading
  <1>3. \A c : ChunkSound(document, c) => ChunkSound(document', c)
    BY <1>1, ChunkStays
  <1>4. PICK h \in 0..Len(document) : InSectionOf(document, heading, buffer, h)
    BY DEF SectionInv
  <1>5. /\ chunks' \in Seq(ChunkSet)
        /\ \A c \in 1..Len(chunks') : ChunkSound(document', chunks'[c])
        /\ \A b, x : HeldIn(Front(buffer), chunks, x) => HeldIn(b, chunks', x)
    <2>1. /\ h \in 0..Len(document') /\ Len(document) \in 0..Len(document')
          /\ Len(document) \in 0..Len(document)
      BY <1>1
    <2>2. /\ Between(buffer, h, Len(document)) /\ OneSection(document, h, Len(document))
          /\ heading \in NamesIn(document, h) /\ heading \in Name
      BY <1>4 DEF InSectionOf, SectionInv
    <2>3. OneSection(document', h, Len(document)) /\ heading \in NamesIn(document', h)
      BY <1>1, <2>1, <2>2, NamesStay
    <2> QED  BY <1>2, <1>3, <2>1, <2>2, <2>3, FlushKeeps
  <1>6. AllHeld(document', Front(buffer'), chunks')
    <2>1. \A k \in 1..e.len : ~Due(e, k)
      BY DEF Due
    <2> QED  BY <1>1, <1>5, <2>1, AllStillHeld DEF SectionInv
  <1>7. n \in 0..Len(document') /\ InSectionOf(document', heading', buffer', n)
    BY <1>1, <1>2 DEF InSectionOf, OneSection, Between, NamesIn
  <1>8. heading' \in Name /\ buffer' \in Seq(Character) /\ InOrder(buffer')
    BY <1>2, ElementSizes DEF InOrder
  <1> QED  BY <1>1, <1>5, <1>6, <1>7, <1>8 DEF SectionInv

\* An element that is no heading leaves the section open, under the heading it carries.
LEMMA SectionStays ==
    ASSUME SectionInv, NEW e \in Sections!Element, e.kind # "heading",
           document' = Append(document, e),
           NEW h \in 0..Len(document), InSectionOf(document, heading, buffer, h)
    PROVE  /\ document' \in Seq(Sections!Element) /\ h \in 0..Len(document')
           /\ OneSection(document', h, Len(document')) /\ OneSection(document', h, Len(document))
           /\ Sections!Headed(e) \in NamesIn(document', h) /\ Sections!Headed(e) \in Name
           /\ \A c : ChunkSound(document, c) => ChunkSound(document', c)
  <1>1. /\ document \in Seq(Sections!Element) /\ document' \in Seq(Sections!Element)
        /\ Len(document') = Len(document) + 1 /\ Len(document) \in Nat
        /\ document'[Len(document) + 1] = e
        /\ 1..(Len(document) + 1) = 1..Len(document) \cup {Len(document) + 1}
        /\ \A i \in 1..Len(document) : document'[i] = document[i]
    BY Appended DEF SectionInv
  <1>2. h \in 0..Len(document') /\ OneSection(document, h, Len(document))
        /\ heading \in NamesIn(document, h) /\ Len(document) \in 0..Len(document)
    BY <1>1 DEF InSectionOf
  <1>3. OneSection(document', h, Len(document)) /\ heading \in NamesIn(document', h)
    BY <1>1, <1>2, NamesStay
  <1>4. OneSection(document', h, Len(document) + 1)
    <2> SUFFICES ASSUME NEW i \in (h + 1)..(Len(document) + 1)
                 PROVE  document'[i].kind # "heading"
      BY DEF OneSection
    <2>1. i = Len(document) + 1 \/ i \in (h + 1)..Len(document)
      BY <1>1, <1>2
    <2> QED  BY <1>1, <1>3, <2>1 DEF OneSection
  <1>5. e.head # NoName => e.head \in NamesIn(document', h)
    <2>1. Belongs(document', h, Len(document) + 1)
      BY <1>1, <1>4 DEF Belongs, OneSection
    <2>2. Len(document) + 1 \in 1..Len(document')
      BY <1>1
    <2> QED  BY <1>1, <2>1, <2>2 DEF NamesIn
  <1>6. Sections!Headed(e) \in NamesIn(document', h) /\ Sections!Headed(e) \in Name
    BY <1>3, <1>5, ElementSizes DEF Sections!Headed, SectionInv
  <1>7. \A c : ChunkSound(document, c) => ChunkSound(document', c)
    BY <1>1, ChunkStays
  <1> QED  BY <1>1, <1>2, <1>3, <1>4, <1>6, <1>7

LEMMA TableKeeps ==
    ASSUME SectionInv, NEW e \in Sections!Element, e.kind = "table",
           document' = Append(document, e), Sections!TakeTable(Len(document) + 1, e)
    PROVE  SectionInv'
  <1> DEFINE n  == Len(document) + 1
             name == Sections!Headed(e)
             cs == Sections!Flushed(name)
             d  == [chars |-> Sections!Chars(n, e.len), heading |-> name, kind |-> "table"]
  <1>1. /\ document \in Seq(Sections!Element) /\ Len(document') = n
        /\ Len(document) \in Nat /\ document'[n] = e
    BY Appended DEF SectionInv
  <1>2. chunks' = Append(cs, d) /\ buffer' = <<>> /\ heading' = name
    BY DEF Sections!TakeTable, Sections!Chunk
  <1>3. PICK h \in 0..Len(document) : InSectionOf(document, heading, buffer, h)
    BY DEF SectionInv
  <1>4. /\ document' \in Seq(Sections!Element) /\ h \in 0..Len(document')
        /\ OneSection(document', h, n) /\ OneSection(document', h, Len(document))
        /\ name \in NamesIn(document', h) /\ name \in Name
        /\ \A c : ChunkSound(document, c) => ChunkSound(document', c)
    BY <1>1, <1>3, SectionStays
  <1>5. /\ cs \in Seq(ChunkSet)
        /\ \A c \in 1..Len(cs) : ChunkSound(document', cs[c])
        /\ \A b, x : HeldIn(Front(buffer), chunks, x) => HeldIn(b, cs, x)
    <2>1. Between(buffer, h, Len(document)) /\ Len(document) \in 0..Len(document')
      BY <1>1, <1>3 DEF InSectionOf
    <2> QED  BY <1>4, <2>1, FlushKeeps
  <1>6. e.len \in Nat /\ n \in Nat /\ n # 0 /\ h < n
    BY <1>1, ElementSizes
  <1> HIDE DEF cs, n, name
  <1>7. /\ d.chars \in Seq(Character) /\ Len(d.chars) = e.len
        /\ \A k \in 1..e.len : d.chars[k] = <<n, k>> /\ Sections!Holds(d.chars, Sections!Char(n, k))
        /\ InOrder(d.chars)
    BY <1>6, CharsSound
  <1>8. d \in ChunkSet
    BY <1>4, <1>7 DEF ChunkSet
  <1>9. ChunkSound(document', d)
    <2>1. Between(d.chars, h, n)
      BY <1>6, <1>7 DEF Between
    <2>2. n \in 0..Len(document') /\ d.heading = name
      BY <1>1, <1>6
    <2>3. d.kind = "table" /\ n \in 1..Len(document') /\ document'[n].kind = "table"
          /\ d.chars = Sections!Chars(n, document'[n].len)
      BY <1>1, <1>6
    <2> HIDE DEF d
    <2> QED  BY <1>4, <1>7, <1>8, <2>1, <2>2, <2>3 DEF ChunkSound
  <1> HIDE DEF d
  <1>10. /\ chunks' \in Seq(ChunkSet) /\ Len(chunks') = Len(cs) + 1 /\ chunks'[Len(cs) + 1] = d
         /\ 1..Len(chunks') = 1..Len(cs) \cup {Len(cs) + 1} /\ Len(cs) \in Nat
         /\ \A c \in 1..Len(cs) : chunks'[c] = cs[c]
    BY <1>2, <1>5, <1>8, Appended
  <1>11. \A c \in 1..Len(chunks') : ChunkSound(document', chunks'[c])
    BY <1>5, <1>9, <1>10
  <1>12. AllHeld(document', Front(buffer'), chunks')
    <2>1. ASSUME NEW x, HeldIn(Front(buffer), chunks, x) PROVE HeldIn(Front(buffer'), chunks', x)
      <3>1. HeldIn(<<>>, cs, x)
        BY <1>5, <2>1
      <3>2. PICK c \in 1..Len(cs) : Sections!Holds(cs[c].chars, x)
        BY <3>1 DEF HeldIn, Sections!Holds
      <3> QED  BY <1>10, <3>2 DEF HeldIn
    <2>2. \A k \in 1..e.len : HeldIn(Front(buffer'), chunks', Sections!Char(n, k))
      BY <1>7, <1>10 DEF HeldIn
    <2> QED  BY <1>1, <2>1, <2>2, AllStillHeld DEF SectionInv, n
  <1>13. h \in 0..Len(document') /\ InSectionOf(document', heading', buffer', h)
    BY <1>1, <1>2, <1>4 DEF InSectionOf, Between
  <1>14. heading' \in Name /\ buffer' \in Seq(Character) /\ InOrder(buffer')
    BY <1>2, <1>4 DEF InOrder
  <1> QED  BY <1>4, <1>10, <1>11, <1>12, <1>13, <1>14 DEF SectionInv

\* A text behind another one is kept as far as it has room.
LEMMA RoomBehind ==
    ASSUME NEW s \in Seq(Character), NEW j \in Nat, j # 0, NEW len \in Nat,
           NEW k \in 1..len, Len(s) + 1 + k <= ChunkSize
    PROVE  Sections!Holds(Front(Join(s, j, len)), Sections!Char(j, k))
  <1> DEFINE t == Join(s, j, len)
  <1>1. /\ t \in Seq(Character) /\ Len(t) = Len(s) + 1 + len
        /\ t[Len(s) + 1 + k] = Sections!Char(j, k)
    BY JoinedHolds
  <1> HIDE DEF t
  <1>2. Len(s) + 1 + k \in 1..Len(t)
    BY <1>1
  <1>3. Sections!Holds(Front(t), t[Len(s) + 1 + k])
    BY <1>1, <1>2, FrontOf
  <1> QED  BY <1>1, <1>3 DEF t

LEMMA TextKeeps ==
    ASSUME SectionInv, NEW e \in Sections!Element, e.kind = "text",
           document' = Append(document, e), Sections!TakeText(Len(document) + 1, e)
    PROVE  SectionInv'
  <1> DEFINE m == Len(document)
             n == m + 1
             u == Sections!Chars(n, e.len)
             name == Sections!Headed(e)
  <1>1. /\ document \in Seq(Sections!Element) /\ Len(document') = n
        /\ m \in Nat /\ document'[n] = e
        /\ buffer \in Seq(Character) /\ Len(buffer) \in Nat /\ InOrder(buffer)
    BY Appended DEF SectionInv
  <1>2. heading' = name
    BY DEF Sections!TakeText
  <1>3. PICK h \in 0..Len(document) : InSectionOf(document, heading, buffer, h)
    BY DEF SectionInv
  <1>4. /\ document' \in Seq(Sections!Element) /\ h \in 0..Len(document')
        /\ OneSection(document', h, n) /\ OneSection(document', h, m)
        /\ name \in NamesIn(document', h) /\ name \in Name
        /\ \A c : ChunkSound(document, c) => ChunkSound(document', c)
        /\ Between(buffer, h, m)
    BY <1>1, <1>3, SectionStays DEF InSectionOf
  <1>5. /\ e.len \in Nat /\ n \in Nat /\ n # 0 /\ h \in Nat /\ h <= m /\ h < n
        /\ ChunkSize \in Nat /\ Room \in Int
        /\ Room <= ChunkSize /\ ChunkOverlap + 1 + Room = ChunkSize /\ ChunkOverlap \in Nat
    BY <1>1, ElementSizes, Sizes DEF Room
  <1>6. \A k \in 1..e.len : Due(e, k) <=> k <= Room
    BY DEF Due
  <1> HIDE DEF m, u, name
  <1>7. SUFFICES /\ buffer' \in Seq(Character) /\ InOrder(buffer') /\ Between(buffer', h, n)
                 /\ chunks' \in Seq(ChunkSet)
                 /\ \A c \in 1..Len(chunks') : ChunkSound(document', chunks'[c])
                 /\ \A x : HeldIn(Front(buffer), chunks, x) => HeldIn(Front(buffer'), chunks', x)
                 /\ \A k \in 1..e.len : k <= Room =>
                       Sections!Holds(Front(buffer'), Sections!Char(n, k))
    <2>1. \A k \in 1..e.len : Due(e, k) =>
             HeldIn(Front(buffer'), chunks', Sections!Char(Len(document) + 1, k))
      BY <1>6, <1>7 DEF HeldIn, m
    <2>2. AllHeld(document', Front(buffer'), chunks')
      BY <1>1, <1>7, <2>1, AllStillHeld DEF SectionInv
    <2>3. InSectionOf(document', heading', buffer', h)
      BY <1>1, <1>2, <1>4, <1>7 DEF InSectionOf
    <2> QED  BY <1>2, <1>4, <1>7, <2>2, <2>3 DEF SectionInv
  <1>8. CASE buffer # <<>> /\ Len(buffer) + e.len + 1 > ChunkSize
    <2> DEFINE t == Sections!Carried \o <<Sections!Blank>> \o u
    <2>1. chunks' = Sections!Flushed(name) /\ buffer' = t
      BY <1>8 DEF Sections!TakeText, m, u, name
    <2>2. /\ chunks' \in Seq(ChunkSet)
          /\ \A c \in 1..Len(chunks') : ChunkSound(document', chunks'[c])
          /\ \A b, x : HeldIn(Front(buffer), chunks, x) => HeldIn(b, chunks', x)
      <3>1. m \in 0..Len(document')
        BY <1>1
      <3> QED  BY <1>4, <2>1, <3>1, FlushKeeps
    <2>3. PICK s : s = Sections!Carried
      OBVIOUS
    <2>4. /\ s \in Seq(Character) /\ Len(s) <= ChunkOverlap /\ InOrder(s) /\ Between(s, h, m)
      BY <1>4, <2>3, Carries DEF m
    <2>5. t = Join(s, n, e.len) /\ n = m + 1
      BY <2>3 DEF u, Join
    <2> HIDE DEF t, n
    <2>6. InOrder(t) /\ Between(t, h, n)
      BY <1>1, <1>5, <2>4, <2>5, JoinedInOrder
    <2>7. t \in Seq(Character)
      BY <1>5, <2>4, <2>5, JoinedHolds
    <2>8. ASSUME NEW k \in 1..e.len, k <= Room
          PROVE  Sections!Holds(Front(t), Sections!Char(n, k))
      <3>1. Len(s) \in Nat /\ Len(s) + 1 + k <= ChunkSize
        BY <1>5, <2>4, <2>8
      <3> QED  BY <1>5, <2>4, <2>5, <3>1, RoomBehind
    <2> QED  BY <2>1, <2>2, <2>6, <2>7, <2>8
  <1>9. CASE buffer # <<>> /\ ~(Len(buffer) + e.len + 1 > ChunkSize)
    <2> DEFINE t == buffer \o <<Sections!Blank>> \o u
    <2>1. chunks' = chunks /\ buffer' = t
      BY <1>9 DEF Sections!TakeText, m, u
    <2>2. t = Join(buffer, n, e.len) /\ n = m + 1
      BY DEF u, Join
    <2> HIDE DEF t, n
    <2>3. InOrder(t) /\ Between(t, h, n)
      <3>1. PICK s : s = buffer
        OBVIOUS
      <3> QED  BY <1>1, <1>4, <1>5, <2>2, <3>1, JoinedInOrder
    <2>4. /\ t \in Seq(Character) /\ Len(t) = Len(buffer) + 1 + e.len
          /\ \A x : Sections!Holds(buffer, x) => Sections!Holds(t, x)
      BY <1>1, <1>5, <2>2, JoinedHolds
    <2>5. Front(t) = t /\ Front(buffer) = buffer
      <3>1. Len(t) <= ChunkSize /\ Len(buffer) <= ChunkSize
        BY <1>1, <1>5, <1>9, <2>4
      <3> QED  BY <1>1, <2>4, <3>1, FrontOf
    <2>6. ASSUME NEW k \in 1..e.len PROVE Sections!Holds(Front(t), Sections!Char(n, k))
      <3>1. Len(buffer) + 1 + k <= ChunkSize
        BY <1>1, <1>5, <1>9
      <3> QED  BY <1>1, <1>5, <2>2, <3>1, RoomBehind
    <2>7. \A x : HeldIn(Front(buffer), chunks, x) => HeldIn(Front(t), chunks, x)
      BY <2>4, <2>5 DEF HeldIn
    <2>8. /\ chunks \in Seq(ChunkSet)
          /\ \A c \in 1..Len(chunks) : ChunkSound(document', chunks[c])
      BY <1>4 DEF SectionInv
    <2> QED  BY <2>1, <2>3, <2>4, <2>6, <2>7, <2>8
  <1>10. CASE buffer = <<>>
    <2>1. chunks' = chunks /\ buffer' = u
      BY <1>10 DEF Sections!TakeText, m, u
    <2>2. /\ u \in Seq(Character) /\ Len(u) = e.len /\ InOrder(u)
          /\ \A k \in 1..e.len : u[k] = <<n, k>>
      BY <1>5, CharsSound DEF u
    <2> HIDE DEF n
    <2>3. Between(u, h, n)
      BY <1>5, <2>2 DEF Between
    <2>4. ASSUME NEW k \in 1..e.len, k <= Room
          PROVE  Sections!Holds(Front(u), Sections!Char(n, k))
      <3>1. k \in 1..Len(u) /\ k <= ChunkSize /\ u[k] = Sections!Char(n, k)
        BY <1>5, <2>2, <2>4 DEF Sections!Char
      <3>2. Sections!Holds(Front(u), u[k])
        BY <2>2, <3>1, FrontOf
      <3> QED  BY <3>1, <3>2
    <2>5. \A x : HeldIn(Front(buffer), chunks, x) => HeldIn(Front(u), chunks, x)
      <3>1. Front(buffer) = <<>>
        BY <1>10, FrontOfNone
      <3> QED  BY <3>1 DEF HeldIn, Sections!Holds
    <2>6. /\ chunks \in Seq(ChunkSet)
          /\ \A c \in 1..Len(chunks) : ChunkSound(document', chunks[c])
      BY <1>4 DEF SectionInv
    <2> QED  BY <2>1, <2>2, <2>3, <2>4, <2>5, <2>6
  <1> QED  BY <1>8, <1>9, <1>10

LEMMA TakeKeeps ==
    ASSUME SectionInv, NEW e \in Sections!Element, Sections!Take(e)
    PROVE  SectionInv'
  <1>1. document' = Append(document, e)
    BY DEF Sections!Take
  <1>2. CASE e.kind = "heading"
    <2>1. Sections!TakeHeading(e)
      BY <1>2 DEF Sections!Take
    <2> QED  BY <1>1, <1>2, <2>1, HeadingKeeps
  <1>3. CASE e.kind = "table"
    <2>1. Sections!TakeTable(Len(document) + 1, e)
      BY <1>3 DEF Sections!Take
    <2> QED  BY <1>1, <1>3, <2>1, TableKeeps
  <1>4. CASE e.kind = "text"
    <2>1. Sections!TakeText(Len(document) + 1, e)
      BY <1>4 DEF Sections!Take
    <2> QED  BY <1>1, <1>4, <2>1, TextKeeps
  <1> QED  BY <1>2, <1>3, <1>4, ElementSizes

LEMMA ScanKeeps == SectionInv /\ Sections!Scan => SectionInv'
  <1> SUFFICES ASSUME SectionInv, Sections!Scan PROVE SectionInv'
    OBVIOUS
  <1>1. /\ chunks' = Sections!Flushed(heading) /\ buffer' = <<>>
        /\ UNCHANGED <<document, heading>>
    BY DEF Sections!Scan
  <1>2. PICK h \in 0..Len(document) : InSectionOf(document, heading, buffer, h)
    BY DEF SectionInv
  <1>3. /\ Between(buffer, h, Len(document)) /\ OneSection(document, h, Len(document))
        /\ heading \in NamesIn(document, h) /\ heading \in Name
        /\ Len(document) \in 0..Len(document)
    BY <1>2 DEF InSectionOf, SectionInv
  <1>4. /\ chunks' \in Seq(ChunkSet)
        /\ \A c \in 1..Len(chunks') : ChunkSound(document, chunks'[c])
        /\ \A b, x : HeldIn(Front(buffer), chunks, x) => HeldIn(b, chunks', x)
    BY <1>1, <1>3, FlushKeeps
  <1>5. AllHeld(document, Front(buffer'), chunks')
    BY <1>4 DEF SectionInv, AllHeld
  <1>6. InSectionOf(document, heading, buffer', h) /\ InOrder(buffer') /\ buffer' \in Seq(Character)
    BY <1>1, <1>2 DEF InSectionOf, InOrder, Between
  <1> QED  BY <1>1, <1>4, <1>5, <1>6 DEF SectionInv

LEMMA SectionInvStep == SectionInv /\ [Sections!Next]_(Sections!vars) => SectionInv'
  <1> SUFFICES ASSUME SectionInv, [Sections!Next]_(Sections!vars) PROVE SectionInv'
    OBVIOUS
  <1>1. CASE UNCHANGED <<document, buffer, heading, chunks>>
    BY <1>1 DEF SectionInv
  <1>2. CASE \E e \in Sections!Element : Sections!Take(e)
    BY <1>2, TakeKeeps
  <1>3. CASE Sections!Scan
    BY <1>3, ScanKeeps
  <1> QED  BY <1>1, <1>2, <1>3 DEF Sections!Next, Sections!Deduplicate, Sections!vars

LEMMA SectionsKeepText == SectionInv => Sections!ElementsChunked
  <1> SUFFICES ASSUME SectionInv PROVE Sections!ElementsChunked
    OBVIOUS
  <1>1. ASSUME NEW i \in 1..Len(document), NEW k \in 1..document[i].len, Due(document[i], k)
        PROVE  Sections!Held(i, k)
    <2>1. HeldIn(Front(buffer), chunks, Sections!Char(i, k))
      BY <1>1 DEF SectionInv, AllHeld
    <2>2. Front(buffer) = Sections!UpTo(buffer, ChunkSize)
      BY FrontOf DEF SectionInv
    <2> QED  BY <2>1, <2>2 DEF HeldIn, Sections!Held
  <1>2. ASSUME NEW c \in 1..Len(chunks)
        PROVE  /\ chunks[c].kind = "text" => Len(chunks[c].chars) <= ChunkSize
               /\ chunks[c].kind = "table" => \E i \in 1..Len(document) :
                     /\ document[i].kind = "table"
                     /\ chunks[c].chars = Sections!Chars(i, document[i].len)
               /\ \A j, k \in 1..Len(chunks[c].chars) :
                     /\ j < k
                     /\ chunks[c].chars[j] # Sections!Blank
                     /\ chunks[c].chars[k] # Sections!Blank
                     => Sections!Earlier(chunks[c].chars[j], chunks[c].chars[k])
               /\ \E h \in 0..Len(document) :
                     /\ chunks[c].heading \in Sections!HeadingsIn(h)
                     /\ \A k \in 1..Len(chunks[c].chars) : chunks[c].chars[k] # Sections!Blank =>
                           Sections!InSection(h, chunks[c].chars[k][1])
    <2>1. PICK d : d = chunks[c]
      OBVIOUS
    <2>2. ChunkSound(document, d)
      BY <2>1 DEF SectionInv
    <2>3. d.chars \in Seq(Character) /\ Len(d.chars) \in Nat
      BY <2>2 DEF ChunkSound, ChunkSet
    <2>4. PICK h \in 0..Len(document), n \in 0..Len(document) :
             /\ Between(d.chars, h, n) /\ OneSection(document, h, n)
             /\ d.heading \in NamesIn(document, h)
      BY <2>2 DEF ChunkSound
    <2>5. n \in Nat /\ h \in Nat
      BY DEF SectionInv
    <2>6. ASSUME NEW k \in 1..Len(d.chars), d.chars[k] # Sections!Blank
          PROVE  Sections!InSection(h, d.chars[k][1])
      <3>1. h < d.chars[k][1] /\ d.chars[k][1] <= n
        BY <2>4, <2>6 DEF Between
      <3>2. d.chars[k][1] \in Nat
        <4>1. d.chars[k] \in Nat \X Nat
          BY <2>3 DEF Character
        <4> QED  BY <4>1
      <3>3. \A j \in (h + 1)..d.chars[k][1] : j \in (h + 1)..n
        BY <2>5, <3>1, <3>2
      <3> QED  BY <2>4, <3>1, <3>3 DEF OneSection, Sections!InSection
    <2>7. d.heading \in Sections!HeadingsIn(h)
      BY <2>4 DEF NamesIn, Belongs, Sections!HeadingsIn, Sections!SectionName, Sections!InSection
    <2>8. /\ d.kind = "text" => Len(d.chars) <= ChunkSize
          /\ d.kind = "table" => \E i \in 1..Len(document) :
                document[i].kind = "table" /\ d.chars = Sections!Chars(i, document[i].len)
          /\ InOrder(d.chars)
      BY <2>2 DEF ChunkSound
    <2> QED  BY <2>1, <2>6, <2>7, <2>8 DEF InOrder
  <1>3. \A i \in 1..Len(document) : \A k \in 1..document[i].len :
           document[i].kind = "table" \/ (document[i].kind = "text" /\ k <= Sections!Room)
           => Sections!Held(i, k)
    BY <1>1 DEF Due, Room, Sections!Room
  <1> QED  BY <1>2, <1>3 DEF Sections!ElementsChunked

\* The chunks the scanner let through are compared in their order: the ones that
\* wait come after the kept ones, and the others are kept or close to a kept one.
DedupInv ==
    /\ safe \subseteq Nat /\ waiting \subseteq safe /\ kept \in Seq(safe)
    /\ step = "chunk" => safe = {} /\ kept = <<>>
    /\ \A j \in 1..Len(kept) : \A d \in waiting : kept[j] < d
    /\ \A i, j \in 1..Len(kept) : i < j => kept[i] < kept[j] /\ <<kept[i], kept[j]>> \notin alike
    /\ \A c \in safe : \/ c \in waiting \/ Sections!Holds(kept, c)
                       \/ \E j \in 1..Len(kept) : <<kept[j], c>> \in alike
    /\ step = "stored" => waiting = {}

LEMMA DedupInvInit == Sections!Init => DedupInv
  BY DEF Sections!Init, DedupInv

LEMMA ScanDedups == SectionInv' /\ DedupInv /\ Sections!Scan => DedupInv'
  <1> SUFFICES ASSUME SectionInv', DedupInv, Sections!Scan PROVE DedupInv'
    OBVIOUS
  <1>1. /\ safe' \in SUBSET (1..Len(chunks')) /\ waiting' = safe' /\ kept' = <<>>
        /\ step' \in {"failed", "dedup"}
    BY DEF Sections!Scan, DedupInv
  <1>2. safe' \subseteq Nat
    BY <1>1 DEF SectionInv
  <1> QED  BY <1>1, <1>2 DEF DedupInv

LEMMA ComparisonDedups == DedupInv /\ Sections!Deduplicate => DedupInv'
  <1> SUFFICES ASSUME DedupInv, Sections!Deduplicate PROVE DedupInv'
    OBVIOUS
  <1>1. PICK c \in waiting :
           /\ \A d \in waiting : c <= d
           /\ kept' = IF Sections!NoneAlike(c) THEN Append(kept, c) ELSE kept
           /\ waiting' = waiting \ {c}
    BY DEF Sections!Deduplicate
  <1>2. /\ UNCHANGED <<safe, alike>> /\ step = "dedup" /\ step' \in {"dedup", "stored"}
        /\ step' = "stored" => waiting' = {}
    BY DEF Sections!Deduplicate
  <1>3. /\ safe \subseteq Nat /\ waiting \subseteq safe /\ kept \in Seq(safe) /\ c \in safe
        /\ \A j \in 1..Len(kept) : kept[j] < c
    BY <1>2 DEF DedupInv
  <1>4. \A d \in waiting' : d \in waiting /\ c < d
    BY <1>1, <1>3
  <1>5. CASE ~Sections!NoneAlike(c)
    <2>1. kept' = kept /\ \E j \in 1..Len(kept) : <<kept[j], c>> \in alike
      BY <1>1, <1>5 DEF Sections!NoneAlike
    <2> QED  BY <1>1, <1>2, <1>3, <1>4, <2>1 DEF DedupInv, Sections!Holds
  <1>6. CASE Sections!NoneAlike(c)
    <2>1. /\ kept' \in Seq(safe) /\ Len(kept') = Len(kept) + 1 /\ kept'[Len(kept) + 1] = c
          /\ 1..Len(kept') = 1..Len(kept) \cup {Len(kept) + 1} /\ Len(kept) \in Nat
          /\ \A j \in 1..Len(kept) : kept'[j] = kept[j]
      BY <1>1, <1>3, <1>6, Appended
    <2>2. \A j \in 1..Len(kept') : \A d \in waiting' : kept'[j] < d
      BY <1>3, <1>4, <2>1 DEF DedupInv
    <2>3. ASSUME NEW i \in 1..Len(kept'), NEW j \in 1..Len(kept'), i < j
          PROVE  kept'[i] < kept'[j] /\ <<kept'[i], kept'[j]>> \notin alike
      <3>1. i \in 1..Len(kept) /\ (j \in 1..Len(kept) \/ j = Len(kept) + 1)
        BY <2>1, <2>3
      <3>2. CASE j \in 1..Len(kept)
        BY <2>1, <2>3, <3>1, <3>2 DEF DedupInv
      <3>3. CASE j = Len(kept) + 1
        BY <1>3, <1>6, <2>1, <3>1, <3>3 DEF Sections!NoneAlike
      <3> QED  BY <3>1, <3>2, <3>3
    <2>4. ASSUME NEW d \in safe
          PROVE  \/ d \in waiting' \/ Sections!Holds(kept', d)
                 \/ \E j \in 1..Len(kept') : <<kept'[j], d>> \in alike
      <3>1. CASE d = c
        BY <2>1, <3>1 DEF Sections!Holds
      <3>2. CASE d # c
        <4>1. \/ d \in waiting \/ Sections!Holds(kept, d)
              \/ \E j \in 1..Len(kept) : <<kept[j], d>> \in alike
          BY DEF DedupInv
        <4>2. d \in waiting => d \in waiting'
          BY <1>1, <3>2
        <4>3. Sections!Holds(kept, d) => Sections!Holds(kept', d)
          BY <2>1 DEF Sections!Holds
        <4>4. \A j \in 1..Len(kept) : j \in 1..Len(kept') /\ kept'[j] = kept[j]
          BY <2>1
        <4>5. CASE \E j \in 1..Len(kept) : <<kept[j], d>> \in alike
          <5>1. PICK j \in 1..Len(kept) : <<kept[j], d>> \in alike
            BY <4>5
          <5>2. j \in 1..Len(kept') /\ kept'[j] = kept[j]
            BY <4>4
          <5> QED  BY <5>1, <5>2
        <4> QED  BY <4>1, <4>2, <4>3, <4>5
      <3> QED  BY <3>1, <3>2
    <2>5. /\ safe' \subseteq Nat /\ waiting' \subseteq safe' /\ kept' \in Seq(safe')
          /\ step' # "chunk" /\ (step' = "stored" => waiting' = {})
      BY <1>1, <1>2, <1>3, <2>1
    <2>6. \A i, j \in 1..Len(kept') :
             i < j => kept'[i] < kept'[j] /\ <<kept'[i], kept'[j]>> \notin alike'
      BY <1>2, <2>3
    <2>7. \A d \in safe' : \/ d \in waiting' \/ Sections!Holds(kept', d)
                           \/ \E j \in 1..Len(kept') : <<kept'[j], d>> \in alike'
      BY <1>2, <2>4
    <2>8. \A d : Sections!Holds(kept, d)' = Sections!Holds(kept', d)
      BY DEF Sections!Holds
    <2> QED  BY <2>2, <2>5, <2>6, <2>7, <2>8 DEF DedupInv
  <1> QED  BY <1>5, <1>6

LEMMA DedupInvStep == SectionInv /\ DedupInv /\ [Sections!Next]_(Sections!vars) => DedupInv'
  <1> SUFFICES ASSUME SectionInv, DedupInv, [Sections!Next]_(Sections!vars) PROVE DedupInv'
    OBVIOUS
  <1>1. CASE UNCHANGED <<safe, alike, waiting, kept, step>>
    BY <1>1 DEF DedupInv, Sections!Holds
  <1>2. CASE Sections!Scan
    BY <1>2, SectionInvStep, ScanDedups
  <1>3. CASE Sections!Deduplicate
    BY <1>3, ComparisonDedups
  <1> QED  BY <1>1, <1>2, <1>3 DEF Sections!Next, Sections!Take, Sections!vars

LEMMA DuplicatesOnly == DedupInv => Sections!OnlyDuplicatesDropped
  BY DEF DedupInv, Sections!OnlyDuplicatesDropped

\* The windows over a text of any length, whatever the sizes and however an end was drawn
\* back to a sentence, lose no word, exceed neither size nor overlap, and end (chunk_text).
THEOREM TextIsCovered == Spec => []WindowsCoverText
  <1>1. Init => WindowInv
    BY WindowInvInit DEF Init
  <1>2. WindowInv /\ [Next]_vars => WindowInv'
    <2>1. [Next]_vars => [Windows!Slide]_(Windows!vars)
      BY DEF Next, vars, window, Windows!vars, RunFiles, RunMarkdown, RunWindows, RunSections,
         RunPassages
    <2> QED  BY <2>1, WindowInvStep
  <1>3. WindowInv => WindowsCoverText
    BY WindowsCover DEF WindowsCoverText
  <1> QED  BY <1>1, <1>2, <1>3, PTL DEF Spec

\* The chunks of a document of any length, with elements and sizes of any length, keep the
\* tables whole and of every other element what fits behind an overlap, in their order; no
\* chunk exceeds its size or crosses a heading; and the deduplication drops no chunk unless
\* one close to it is stored (chunk_document, and _deduplicate of the ingestion pipeline).
THEOREM TextIsKept == Spec => []ChunksKeepText
  <1> DEFINE Inv == SectionInv /\ DedupInv
  <1>1. Init => Inv
    BY SectionInvInit, DedupInvInit DEF Init
  <1>2. Inv /\ [Next]_vars => Inv'
    <2>1. [Next]_vars => [Sections!Next]_(Sections!vars)
      BY DEF Next, vars, sections, Sections!vars, RunFiles, RunMarkdown, RunWindows, RunSections,
         RunPassages
    <2> QED  BY <2>1, SectionInvStep, DedupInvStep
  <1>3. Inv => ChunksKeepText
    BY SectionsKeepText, DuplicatesOnly DEF ChunksKeepText
  <1> QED  BY <1>1, <1>2, <1>3, PTL DEF Spec

(***************************************************************************)
(* The passages.  What each sub-query brings, on its own; and the merge,   *)
(* which has passed the results before place.                              *)
(***************************************************************************)
Result == [text : Nat, score : Nat] \cup [text : Nat, score : Nat, severity : Passage!Severity]

SubQuery == [tool : Passage!Tool,
             pc : {"start", "search", "rerank", "item", "fetch", "done"},
             hits : SUBSET (1..Passages), found : UNION {[S -> Nat] : S \in SUBSET Nat},
             result : Seq(Result), items : Nat, item : Passage!Severity]

\* What a sub-query with these fields brings.
Brings(scans, r) ==
    /\ r \in SubQuery
    /\ r.tool = "graph" => r.result = <<>>
    /\ r.tool = "web" =>
          /\ Len(r.result) <= Limit
          /\ scans => \A i \in 1..Len(r.result) : r.result[i].severity = "pass"
          /\ r.pc = "fetch" => Len(r.result) < Limit /\ (scans => r.item = "pass")
    /\ r.tool = "vector" =>
          /\ Len(r.result) <= TopN
          /\ \A p \in DOMAIN r.found : \A i \in 1..Len(r.result) :
                r.found[p] <= r.result[i].score \/ p \in Passage!Texts(r.result)

QueryInv ==
    /\ scanning \in BOOLEAN /\ query \in [Passage!Q -> SubQuery]
    /\ \A q \in Passage!Q : Brings(scanning, query[q])

RetrievalConstants == /\ Queries \in Nat /\ Passages \in Nat /\ TopN \in Nat /\ Limit \in Nat
             /\ Scores \subseteq Nat /\ WebScore \in Nat

LEMMA RetrievalTyped == RetrievalConstants
  BY TextAssumption DEF Passage!RetrievalAssumption, RetrievalConstants

LEMMA BegunBrings ==
    ASSUME NEW tool \in Passage!Tool, NEW scans \in BOOLEAN
    PROVE  Brings(scans, Passage!Begun(tool))
           /\ Brings(scans, [Passage!Begun(tool) EXCEPT !.pc = "done"])
  <1> DEFINE none == [p \in {} |-> 0]
  <1>1. none \in [{} -> Nat] /\ DOMAIN none = {}
    OBVIOUS
  <1>2. none \in UNION {[S -> Nat] : S \in SUBSET Nat}
    BY <1>1
  <1> HIDE DEF none
  <1>3. PICK r : r = [tool |-> tool, pc |-> "start", hits |-> {}, found |-> none,
                      result |-> <<>>, items |-> 0, item |-> "pass"]
    OBVIOUS
  <1>4. Passage!Begun(tool) = r
    BY <1>3 DEF Passage!Begun, none
  <1>4a. <<>> \in Seq(Result) /\ {} \in SUBSET (1..Passages) /\ "pass" \in Passage!Severity
    BY DEF Passage!Severity
  <1>5. r \in SubQuery /\ [r EXCEPT !.pc = "done"] \in SubQuery
    BY <1>2, <1>3, <1>4a DEF SubQuery
  <1>6. r.result = <<>> /\ r.pc = "start" /\ DOMAIN r.found = {}
    BY <1>1, <1>3
  <1>7. PICK d : d = [r EXCEPT !.pc = "done"]
    OBVIOUS
  <1>8. d.result = <<>> /\ d.pc = "done" /\ DOMAIN d.found = {} /\ d \in SubQuery
    BY <1>1, <1>3, <1>5, <1>7
  <1>9. Brings(scans, r) /\ Brings(scans, d)
    BY <1>5, <1>6, <1>8, RetrievalTyped DEF Brings, RetrievalConstants
  <1> QED  BY <1>4, <1>7, <1>9

\* A sub-query moves on its own.
LEMMA OneMoves ==
    ASSUME QueryInv, NEW q \in Passage!Q, NEW r, Brings(scanning, r), UNCHANGED scanning,
           query' = [query EXCEPT ![q] = r]
    PROVE  QueryInv'
  <1>1. r \in SubQuery
    BY DEF Brings
  <1>2. query' \in [Passage!Q -> SubQuery] /\ scanning' \in BOOLEAN
    BY <1>1 DEF QueryInv
  <1>3. \A p \in Passage!Q : query'[p] = IF p = q THEN r ELSE query[p]
    BY DEF QueryInv
  <1> QED  BY <1>2, <1>3 DEF QueryInv

\* A sub-query ends with some results.
LEMMA EndsWith ==
    ASSUME QueryInv, NEW q \in Passage!Q, NEW s \in Seq(Result), Passage!Ends(q, s),
           UNCHANGED scanning, s = <<>> \/ (query[q].tool = "web" /\ s = query[q].result)
    PROVE  QueryInv'
  <1>1. PICK c : c = query[q]
    OBVIOUS
  <1>2. PICK r : r = [c EXCEPT !.pc = "done", !.result = s]
    OBVIOUS
  <1>3. query' = [query EXCEPT ![q] = r]
    BY <1>1, <1>2 DEF Passage!Ends, QueryInv
  <1>4. c \in SubQuery /\ Brings(scanning, c)
    BY <1>1 DEF QueryInv
  <1>5. /\ r \in SubQuery /\ r.result = s /\ r.pc = "done" /\ r.tool = c.tool
        /\ r.found = c.found
    BY <1>2, <1>4 DEF SubQuery
  <1>6. Brings(scanning, r)
    <2>1. CASE s = <<>>
      BY <1>5, <2>1, RetrievalTyped DEF Brings, RetrievalConstants
    <2>2. CASE c.tool = "web" /\ s = c.result
      BY <1>4, <1>5, <2>2 DEF Brings
    <2> QED  BY <1>1, <2>1, <2>2
  <1> QED  BY <1>3, <1>6, OneMoves

\* A sub-query goes on, its results unchanged.
LEMMA GoesOn ==
    ASSUME QueryInv, NEW q \in Passage!Q, NEW r \in SubQuery, UNCHANGED scanning,
           query' = [query EXCEPT ![q] = r],
           r.tool = query[q].tool, r.result = query[q].result, r.found = query[q].found,
           r.pc = "fetch" => /\ Len(r.result) < Limit
                             /\ scanning => r.item = "pass"
    PROVE  QueryInv'
  <1>1. Brings(scanning, query[q])
    BY DEF QueryInv
  <1>2. Brings(scanning, r)
    BY <1>1 DEF Brings
  <1> QED  BY <1>2, OneMoves

\* The retriever counts as the library does.
LEMMA SameCount == ASSUME NEW S PROVE Passage!Cardinality(S) = Cardinality(S)
  BY DEF Passage!Cardinality, Cardinality, Passage!IsFiniteSet, IsFiniteSet

\* The best of some hits: what is left out is no better than what is taken.
LEMMA BestTaken ==
    ASSUME NEW H \in SUBSET (1..Passages), NEW f \in [H -> Nat], NEW best \in Passage!Ranked(f)
    PROVE  /\ best \in Seq(H) /\ Len(best) <= TopN
           /\ \A p \in H : \A i \in 1..Len(best) :
                 f[p] <= f[best[i]] \/ \E j \in 1..Len(best) : best[j] = p
  <1>1. PICK s \in Passage!Sorted(f) : best = Passage!FirstOnes(s, TopN)
    BY DEF Passage!Ranked
  <1>2. DOMAIN f = H /\ IsFiniteSet(H) /\ Cardinality(H) \in Nat
    <2>1. IsFiniteSet(1..Passages)
      BY RetrievalTyped, FS_Interval DEF RetrievalConstants
    <2> QED  BY <2>1, FS_Subset, FS_CardinalityType
  <1>3. PICK n \in Nat : n = Cardinality(H)
    BY <1>2
  <1>4. /\ s \in [1..n -> H]
        /\ \A p \in H : \E i \in 1..n : s[i] = p
        /\ \A i, j \in 1..n : i < j => Passage!Before(f, s[i], s[j])
    BY <1>1, <1>2, <1>3, SameCount DEF Passage!Sorted
  <1>5. s \in Seq(H) /\ Len(s) = n
    BY <1>4
  <1>6. PICK m \in Nat : m = IF TopN < n THEN TopN ELSE n
    BY RetrievalTyped DEF RetrievalConstants
  <1>7. best = SubSeq(s, 1, m) /\ m <= n /\ m <= TopN
    BY <1>1, <1>5, <1>6, RetrievalTyped DEF Passage!FirstOnes, RetrievalConstants
  <1>8. best \in Seq(H) /\ Len(best) = m /\ \A i \in 1..m : best[i] = s[i]
    BY <1>5, <1>7
  <1>9. ASSUME NEW p \in H, NEW i \in 1..Len(best),
               \A j \in 1..Len(best) : best[j] # p
        PROVE  f[p] <= f[best[i]]
    <2>1. PICK j \in 1..n : s[j] = p
      BY <1>4
    <2>2. i \in 1..n /\ i < j
      BY <1>7, <1>8, <1>9, <2>1
    <2>3. Passage!Before(f, s[i], s[j])
      BY <1>4, <2>2
    <2>4. f[s[i]] \in Nat /\ f[p] \in Nat
      BY <1>4, <2>2
    <2> QED  BY <1>8, <2>1, <2>3, <2>4 DEF Passage!Before
  <1> QED  BY <1>7, <1>8, <1>9

LEMMA RerankKeeps ==
    ASSUME QueryInv, NEW q \in Passage!Q, UNCHANGED scanning, Passage!Rerank(q)
    PROVE  QueryInv'
  <1>1. query[q] \in SubQuery /\ Brings(scanning, query[q]) /\ query[q].tool = "vector"
    BY DEF QueryInv, Passage!Rerank, Passage!At
  <1>2. CASE Passage!Ends(q, <<>>)
    <2>1. <<>> \in Seq(Result)
      OBVIOUS
    <2> QED  BY <1>2, <2>1, EndsWith
  <1>3. CASE ~Passage!Ends(q, <<>>)
    <2>1. PICK c : c = query[q]
      OBVIOUS
    <2>2. c \in SubQuery /\ c.tool = "vector" /\ c.hits \in SUBSET (1..Passages)
      BY <1>1, <2>1 DEF SubQuery
    <2>h. PICK H : H = c.hits
      OBVIOUS
    <2>3a. PICK f \in [H -> Scores] : \E best \in Passage!Ranked(f) :
             query' = [query EXCEPT ![q].pc = "done", ![q].found = f,
                 ![q].result = [i \in 1..Len(best) |-> [text |-> best[i], score |-> f[best[i]]]]]
      BY <1>3, <2>1, <2>h DEF Passage!Rerank
    <2>3. PICK best \in Passage!Ranked(f) :
             query' = [query EXCEPT ![q].pc = "done", ![q].found = f,
                 ![q].result = [i \in 1..Len(best) |-> [text |-> best[i], score |-> f[best[i]]]]]
      BY <2>3a
    <2>4. f \in [H -> Nat]
      BY RetrievalTyped DEF RetrievalConstants
    <2>5. /\ best \in Seq(H) /\ Len(best) <= TopN /\ Len(best) \in Nat
          /\ \A p \in H : \A i \in 1..Len(best) :
                f[p] <= f[best[i]] \/ \E j \in 1..Len(best) : best[j] = p
      <3>1. H \in SUBSET (1..Passages)
        BY <2>2, <2>h
      <3>2. /\ best \in Seq(H) /\ Len(best) <= TopN
            /\ \A p \in H : \A i \in 1..Len(best) :
                  f[p] <= f[best[i]] \/ \E j \in 1..Len(best) : best[j] = p
        BY <2>4, <3>1, BestTaken
      <3> QED  BY <3>2
    <2>6. PICK s : s = [i \in 1..Len(best) |-> [text |-> best[i], score |-> f[best[i]]]]
      OBVIOUS
    <2>7. \A i \in 1..Len(best) : best[i] \in H /\ best[i] \in Nat /\ f[best[i]] \in Nat
      BY <2>2, <2>4, <2>5, <2>h
    <2>8. /\ s \in Seq(Result) /\ Len(s) = Len(best)
          /\ \A i \in 1..Len(best) : s[i].text = best[i] /\ s[i].score = f[best[i]]
      <3>1. \A i \in 1..Len(best) : [text |-> best[i], score |-> f[best[i]]] \in Result
        BY <2>7 DEF Result
      <3>2. s \in Seq(Result)
        BY <2>5, <2>6, <3>1
      <3>3. Len(s) = Len(best)
        BY <2>5, <2>6, <3>1
      <3> QED  BY <2>6, <3>2, <3>3
    <2>9. PICK r : r = [c EXCEPT !.pc = "done", !.found = f, !.result = s]
      OBVIOUS
    <2>10. query' = [query EXCEPT ![q] = r]
      BY <2>1, <2>3, <2>6, <2>9 DEF QueryInv
    <2>11. f \in UNION {[S -> Nat] : S \in SUBSET Nat} /\ DOMAIN f = H
      <3>1. c.hits \in SUBSET Nat
        BY <2>2, RetrievalTyped DEF RetrievalConstants
      <3> QED  BY <2>4, <2>h, <3>1
    <2>12. /\ r \in SubQuery /\ r.result = s /\ r.pc = "done" /\ r.tool = "vector"
           /\ r.found = f
      BY <2>2, <2>8, <2>9, <2>11 DEF SubQuery
    <2>13. \A p \in DOMAIN r.found : \A i \in 1..Len(r.result) :
              r.found[p] <= r.result[i].score \/ p \in Passage!Texts(r.result)
      BY <2>5, <2>8, <2>11, <2>12 DEF Passage!Texts
    <2>14. Brings(scanning, r)
      BY <2>5, <2>8, <2>12, <2>13 DEF Brings
    <2> QED  BY <2>10, <2>14, OneMoves
  <1> QED  BY <1>2, <1>3

LEMMA SkipKeeps ==
    ASSUME QueryInv, NEW q \in Passage!Q, UNCHANGED scanning, Passage!Skip(q)
    PROVE  QueryInv'
  <1>1. PICK c : c = query[q]
    OBVIOUS
  <1>3. c \in SubQuery
    BY <1>1 DEF QueryInv
  <1>n. PICK n \in Nat : n = c.items + 1
    BY <1>3 DEF SubQuery
  <1>2. PICK r : r = [c EXCEPT !.pc = "item", !.items = n]
    OBVIOUS
  <1>4. query' = [query EXCEPT ![q] = r]
    BY <1>1, <1>2, <1>n DEF Passage!Skip, QueryInv
  <1>5. /\ r \in SubQuery /\ r.tool = c.tool /\ r.result = c.result /\ r.found = c.found
        /\ r.pc = "item"
    BY <1>2, <1>3 DEF SubQuery
  <1> QED  BY <1>1, <1>4, <1>5, GoesOn

LEMMA ItemKeeps ==
    ASSUME QueryInv, NEW q \in Passage!Q, UNCHANGED scanning, Passage!TakeItem(q)
    PROVE  QueryInv'
  <1>1. CASE Passage!Skip(q)
    BY <1>1, SkipKeeps
  <1>2. CASE ~Passage!Skip(q)
    <2>1. PICK snippet \in Passage!Severity :
             /\ ~Passage!Blocked(snippet)
             /\ query' = [query EXCEPT ![q].pc = "fetch", ![q].item = snippet]
      BY <1>2 DEF Passage!TakeItem
    <2>2. PICK c : c = query[q]
      OBVIOUS
    <2>3. PICK r : r = [c EXCEPT !.pc = "fetch", !.item = snippet]
      OBVIOUS
    <2>4. c \in SubQuery
      BY <2>2 DEF QueryInv
    <2>5. query' = [query EXCEPT ![q] = r]
      BY <2>1, <2>2, <2>3 DEF QueryInv
    <2>6. /\ r \in SubQuery /\ r.tool = c.tool /\ r.result = c.result /\ r.found = c.found
          /\ r.item = snippet
      BY <2>3, <2>4 DEF SubQuery
    <2>7. Len(c.result) < Limit /\ (scanning => snippet = "pass")
      BY <2>1, <2>2 DEF Passage!TakeItem, Passage!MoreItems, Passage!Blocked
    <2> QED  BY <2>2, <2>5, <2>6, <2>7, GoesOn
  <1> QED  BY <1>1, <1>2

LEMMA FetchKeeps ==
    ASSUME QueryInv, NEW q \in Passage!Q, UNCHANGED scanning, Passage!Fetch(q)
    PROVE  QueryInv'
  <1>1. CASE Passage!Skip(q)
    BY <1>1, SkipKeeps
  <1>2. CASE ~Passage!Skip(q)
    <2>1. PICK c : c = query[q]
      OBVIOUS
    <2>2. /\ c \in SubQuery /\ Brings(scanning, c) /\ c.tool = "web" /\ c.pc = "fetch"
          /\ scanning \in BOOLEAN
      BY <2>1 DEF QueryInv, Passage!Fetch, Passage!At
    <2>3. PICK page \in Passage!Severity \cup {"nothing"}, txt \in 1..Passages :
             /\ ~(page # "nothing" /\ Passage!Blocked(page))
             /\ query' = [query EXCEPT ![q].pc = "item", ![q].items = @ + 1,
                   ![q].result = Append(@, [text |-> txt, score |-> WebScore,
                       severity |-> IF page = "nothing" THEN query[q].item ELSE page])]
      BY <1>2 DEF Passage!Fetch
    <2>4. PICK severity : severity = IF page = "nothing" THEN c.item ELSE page
      OBVIOUS
    <2>5. severity \in Passage!Severity /\ (scanning => severity = "pass")
      BY <2>2, <2>3, <2>4 DEF Brings, SubQuery, Passage!Blocked
    <2>6. PICK x : x = [text |-> txt, score |-> WebScore, severity |-> severity]
      OBVIOUS
    <2>7. x \in Result /\ x.severity = severity
      BY <2>5, <2>6, RetrievalTyped DEF Result, RetrievalConstants
    <2>8. c.result \in Seq(Result) /\ c.items \in Nat
      BY <2>2 DEF SubQuery
    <2>9. PICK s : s = Append(c.result, x)
      OBVIOUS
    <2>10. /\ s \in Seq(Result) /\ Len(s) = Len(c.result) + 1 /\ Len(c.result) \in Nat
           /\ 1..Len(s) = 1..Len(c.result) \cup {Len(c.result) + 1}
           /\ s[Len(c.result) + 1] = x
           /\ \A i \in 1..Len(c.result) : s[i] = c.result[i]
      BY <2>7, <2>8, <2>9, Appended
    <2>n. PICK n \in Nat : n = c.items + 1
      BY <2>8
    <2>11. PICK r : r = [c EXCEPT !.pc = "item", !.items = n, !.result = s]
      OBVIOUS
    <2>12. query' = [query EXCEPT ![q] = r]
      BY <2>1, <2>3, <2>4, <2>6, <2>9, <2>11, <2>n DEF QueryInv
    <2>13. r \in SubQuery /\ r.tool = "web" /\ r.result = s /\ r.pc = "item"
      BY <2>2, <2>8, <2>10, <2>11 DEF SubQuery
    <2>14. Len(s) <= Limit
      BY <2>2, <2>10, RetrievalTyped DEF Brings, RetrievalConstants
    <2>15. scanning => \A i \in 1..Len(s) : s[i].severity = "pass"
      BY <2>2, <2>5, <2>7, <2>10 DEF Brings
    <2>16. Brings(scanning, r)
      BY <2>13, <2>14, <2>15 DEF Brings
    <2> QED  BY <2>12, <2>16, OneMoves
  <1> QED  BY <1>1, <1>2

\* The other steps of a sub-query.
LEMMA SubQueryKeeps ==
    ASSUME QueryInv, NEW q \in Passage!Q, Passage!Dispatch(q)
    PROVE  QueryInv'
  <1>1. UNCHANGED scanning
    BY DEF Passage!Dispatch
  <1>2. <<>> \in Seq(Result)
    OBVIOUS
  <1>3. CASE Passage!Ends(q, <<>>)
    BY <1>1, <1>2, <1>3, EndsWith
  <1>4. PICK c : c = query[q] /\ c \in SubQuery /\ c.result \in Seq(Result)
    BY DEF QueryInv, SubQuery
  <1>5. CASE \E hits \in SUBSET (1..Passages), pc \in {"search", "item"} :
                \/ query' = [query EXCEPT ![q].pc = pc]
                \/ query' = [query EXCEPT ![q].pc = "rerank", ![q].hits = hits]
    <2>1. PICK hits \in SUBSET (1..Passages), pc \in {"search", "item"} :
                \/ query' = [query EXCEPT ![q].pc = pc]
                \/ query' = [query EXCEPT ![q].pc = "rerank", ![q].hits = hits]
      BY <1>5
    <2>2. PICK r \in {[c EXCEPT !.pc = pc], [c EXCEPT !.pc = "rerank", !.hits = hits]} :
             query' = [query EXCEPT ![q] = r]
      BY <1>4, <2>1 DEF QueryInv
    <2>3. /\ r \in SubQuery /\ r.tool = c.tool /\ r.result = c.result /\ r.found = c.found
          /\ r.pc # "fetch"
      BY <1>4, <2>2 DEF SubQuery
    <2> QED  BY <1>1, <1>4, <2>2, <2>3, GoesOn
  <1>6. CASE Passage!WebEnds(q)
    BY <1>1, <1>4, <1>6, EndsWith DEF Passage!WebEnds, Passage!At
  <1>7. CASE Passage!Embed(q) \/ Passage!Search(q) \/ Passage!AskWeb(q) \/ Passage!Graph(q)
    <2>1. {} \in SUBSET (1..Passages)
      OBVIOUS
    <2> QED
      BY <1>3, <1>5, <1>7, <2>1 DEF Passage!Embed, Passage!Search, Passage!AskWeb, Passage!Graph
  <1> QED
    BY <1>1, <1>6, <1>7, RerankKeeps, ItemKeeps, FetchKeeps DEF Passage!Dispatch

(***************************************************************************)
(* The merge takes the results in the order of the sub-queries: every one  *)
(* it has passed is there, or one that begins alike, and each that is      *)
(* there is the first that begins so.                                      *)
(***************************************************************************)
AllDone == \A q \in Passage!Q : query[q].pc = "done"

Passed(at, p, l) == p < at.query \/ (p = at.query /\ l < at.item)

\* r is a result passed before at, of the first sub-query that has one beginning alike.
FirstOfItsKey(at, r) ==
    \E p \in Passage!Q : \E l \in 1..Len(query[p].result) :
        /\ Passed(at, p, l) /\ query[p].result[l] = r
        /\ \A q \in Passage!Q : \A i \in 1..Len(query[q].result) :
              /\ Passed(at, q, i)
              /\ Passage!DedupKey(query[q].result[i]) = Passage!DedupKey(r)
              => p <= q

\* The three promises about what was merged and sorted.
SoundMerge(m) ==
    /\ Passage!Keys(m) = UNION {Passage!Keys(query[q].result) : q \in Passage!Q}
    /\ \A i, j \in 1..Len(m) : i < j =>
          Passage!DedupKey(m[i]) # Passage!DedupKey(m[j]) /\ m[i].score >= m[j].score
    /\ \A i \in 1..Len(m), q \in Passage!Q :
          Passage!DedupKey(m[i]) \in Passage!Keys(query[q].result) =>
             \E p \in 1..q, k \in 1..Limit + TopN :
                 k <= Len(query[p].result) /\ query[p].result[k] = m[i]

MergeInv ==
    /\ place \in [query : 1..(Queries + 1), item : Nat \ {0}]
    /\ seen \in Seq(Result)
    /\ ~AllDone => place = Passage!First /\ seen = <<>> /\ merged = Passage!NotYet
    /\ \A p \in Passage!Q : \A l \in 1..Len(query[p].result) :
          Passed(place, p, l) => \E k \in 1..Len(seen) :
                  Passage!DedupKey(seen[k]) = Passage!DedupKey(query[p].result[l])
    /\ \A k \in 1..Len(seen) : FirstOfItsKey(place, seen[k])
    /\ \A j, k \in 1..Len(seen) : j # k => Passage!DedupKey(seen[j]) # Passage!DedupKey(seen[k])
    /\ merged # Passage!NotYet => SoundMerge(merged)

LEMMA NothingPassed ==
    ASSUME place = Passage!First
    PROVE  /\ place \in [query : 1..(Queries + 1), item : Nat \ {0}]
           /\ \A p \in Passage!Q : \A l \in 1..Len(query[p].result) : ~Passed(place, p, l)
  <1>1. place.query = 1 /\ place.item = 1
    BY DEF Passage!First
  <1>2. place \in [query : 1..(Queries + 1), item : Nat \ {0}]
    BY RetrievalTyped DEF Passage!First, RetrievalConstants
  <1>3. ASSUME NEW p \in Passage!Q, NEW l \in 1..Len(query[p].result) PROVE ~Passed(place, p, l)
    <2>1. p \in Int /\ p >= 1 /\ l \in Int /\ l >= 1
      BY <1>3, RetrievalTyped DEF Passage!Q, RetrievalConstants
    <2> QED  BY <1>1, <2>1 DEF Passed
  <1> QED  BY <1>2, <1>3

\* Nothing is merged before the last sub-query is done.
LEMMA NotBegun == place = Passage!First /\ seen = <<>> /\ merged = Passage!NotYet => MergeInv
  <1> SUFFICES ASSUME place = Passage!First, seen = <<>>, merged = Passage!NotYet
               PROVE  MergeInv
    OBVIOUS
  <1>1. seen \in Seq(Result) /\ 1..Len(seen) = {}
    OBVIOUS
  <1> QED  BY <1>1, NothingPassed DEF MergeInv

LEMMA PassageInvInit ==
    ASSUME \/ Passage!Init
           \/ /\ scanning = TRUE /\ place = Passage!First /\ seen = <<>> /\ merged = <<>>
              /\ query = [q \in Passage!Q |-> [Passage!Begun("web") EXCEPT !.pc = "done"]]
    PROVE  QueryInv /\ MergeInv
  <1>1. CASE Passage!Init
    <2>1. PICK tools \in [Passage!Q -> Passage!Tool] :
             query = [q \in Passage!Q |-> Passage!Begun(tools[q])]
      BY <1>1 DEF Passage!Init
    <2>2. \A q \in Passage!Q : Brings(scanning, Passage!Begun(tools[q]))
      BY <1>1, BegunBrings DEF Passage!Init
    <2>3. QueryInv
      BY <1>1, <2>1, <2>2 DEF QueryInv, Brings, Passage!Init
    <2> QED  BY <1>1, <2>3, NotBegun DEF Passage!Init
  <1>2. CASE /\ scanning = TRUE /\ place = Passage!First /\ seen = <<>> /\ merged = <<>>
             /\ query = [q \in Passage!Q |-> [Passage!Begun("web") EXCEPT !.pc = "done"]]
    <2>1. PICK d : d = [Passage!Begun("web") EXCEPT !.pc = "done"]
      OBVIOUS
    <2>2. "web" \in Passage!Tool
      BY DEF Passage!Tool
    <2>3. Brings(TRUE, d) /\ d.pc = "done" /\ d.result = <<>>
      BY <2>1, <2>2, BegunBrings DEF Passage!Begun
    <2>4. query = [q \in Passage!Q |-> d]
      BY <1>2, <2>1
    <2>5. QueryInv /\ AllDone
      BY <1>2, <2>3, <2>4 DEF QueryInv, AllDone, Brings
    <2>6. Passage!Keys(<<>>) = {}
      BY DEF Passage!Keys
    <2>7. SoundMerge(merged)
      <3>1. \A q \in Passage!Q : Passage!Keys(query[q].result) = {}
        BY <2>3, <2>4, <2>6
      <3>2. Passage!Keys(merged) = {} /\ 1..Len(merged) = {}
        BY <1>2, <2>6
      <3>3. UNION {Passage!Keys(query[q].result) : q \in Passage!Q} = {}
        BY <3>1
      <3> QED  BY <3>2, <3>3 DEF SoundMerge
    <2>8. seen \in Seq(Result) /\ 1..Len(seen) = {}
      BY <1>2
    <2> QED  BY <1>2, <2>5, <2>7, <2>8, NothingPassed DEF MergeInv
  <1> QED  BY <1>1, <1>2

\* As long as a sub-query moves, nothing was merged.
LEMMA DispatchMerges ==
    ASSUME MergeInv, NEW q \in Passage!Q, Passage!Dispatch(q)
    PROVE  MergeInv'
  <1>1. query[q].pc # "done" /\ UNCHANGED <<place, seen, merged>>
    BY DEF Passage!Dispatch, Passage!Graph, Passage!Embed, Passage!Search, Passage!Rerank,
       Passage!AskWeb, Passage!TakeItem, Passage!Fetch, Passage!WebEnds, Passage!At
  <1>2. place = Passage!First /\ seen = <<>> /\ merged = Passage!NotYet
    BY <1>1 DEF MergeInv, AllDone
  <1>3. place' = Passage!First /\ seen' = <<>> /\ merged' = Passage!NotYet
    BY <1>1, <1>2
  <1>4. (place = Passage!First /\ seen = <<>> /\ merged = Passage!NotYet)' => MergeInv'
    BY NotBegun, PTL
  <1> QED  BY <1>3, <1>4 DEF Passage!First, Passage!NotYet

LEMMA CollectMerges == QueryInv /\ MergeInv /\ Passage!Collect => MergeInv'
  <1> SUFFICES ASSUME QueryInv, MergeInv, Passage!Collect PROVE MergeInv'
    OBVIOUS
  <1>1. PICK p0, l0 : p0 = place.query /\ l0 = place.item
    OBVIOUS
  <1>2. /\ UNCHANGED <<query, merged>> /\ AllDone /\ merged = Passage!NotYet
        /\ p0 \in Passage!Q /\ p0 \in Nat /\ l0 \in Nat /\ l0 # 0
        /\ place \in [query : 1..(Queries + 1), item : Nat \ {0}]
        /\ Queries \in Nat /\ Passage!Q = 1..Queries
    BY <1>1, RetrievalTyped DEF Passage!Collect, Passage!Gathered, AllDone, MergeInv, Passage!Q,
       RetrievalConstants
  <1>3. PICK s : s = query[p0].result /\ s \in Seq(Result) /\ Len(s) \in Nat
    BY <1>2 DEF QueryInv, SubQuery
  <1>4. CASE l0 \in 1..Len(s)
    <2>1. PICK x, l1 : x = s[l0] /\ l1 = l0 + 1
      OBVIOUS
    <2>2. /\ place' = [place EXCEPT !.item = l1]
          /\ seen' = IF Passage!IsNew(x) THEN Append(seen, x) ELSE seen
      BY <1>1, <1>3, <1>4, <2>1 DEF Passage!Collect
    <2>3. x \in Result /\ l1 \in Nat \ {0}
      BY <1>2, <1>3, <1>4, <2>1
    <2>4. /\ place' \in [query : 1..(Queries + 1), item : Nat \ {0}]
          /\ place'.query = p0 /\ place'.item = l1
      BY <1>1, <1>2, <2>2, <2>3
    <2>5. \A p \in Passage!Q : \A l \in 1..Len(query[p].result) :
             Passed(place', p, l) <=> Passed(place, p, l) \/ (p = p0 /\ l = l0)
      BY <1>1, <1>2, <2>1, <2>4 DEF Passed
    <2>6. Passed(place', p0, l0)
      BY <1>2, <2>1, <2>4 DEF Passed
    <2>7. \A p \in Passage!Q : \A l : Passed(place, p, l) => p <= p0
      BY <1>1, <1>2 DEF Passed
    <2>8. CASE Passage!IsNew(x)
      <3>1. /\ seen' \in Seq(Result) /\ Len(seen') = Len(seen) + 1 /\ Len(seen) \in Nat
            /\ 1..Len(seen') = 1..Len(seen) \cup {Len(seen) + 1} /\ seen'[Len(seen) + 1] = x
            /\ \A k \in 1..Len(seen) : seen'[k] = seen[k]
        BY <2>2, <2>3, <2>8, Appended DEF MergeInv
      <3>2. \A k \in 1..Len(seen) : Passage!DedupKey(seen[k]) # Passage!DedupKey(x)
        BY <2>8 DEF Passage!IsNew
      <3>3. ASSUME NEW p \in Passage!Q, NEW l \in 1..Len(query[p].result), Passed(place', p, l)
            PROVE  \E k \in 1..Len(seen') :
                    Passage!DedupKey(seen'[k]) = Passage!DedupKey(query[p].result[l])
        <4>1. CASE Passed(place, p, l)
          BY <3>1, <4>1 DEF MergeInv
        <4>2. CASE p = p0 /\ l = l0
          BY <1>3, <2>1, <3>1, <4>2
        <4> QED  BY <2>5, <3>3, <4>1, <4>2
      <3>4. ASSUME NEW k \in 1..Len(seen') PROVE FirstOfItsKey(place', seen'[k])
        <4>1. CASE k \in 1..Len(seen)
          <5>1. PICK p \in Passage!Q : \E l \in 1..Len(query[p].result) :
                   /\ Passed(place, p, l) /\ query[p].result[l] = seen[k]
                   /\ \A q \in Passage!Q : \A i \in 1..Len(query[q].result) :
                         /\ Passed(place, q, i)
                         /\ Passage!DedupKey(query[q].result[i]) = Passage!DedupKey(seen[k])
                         => p <= q
            BY <4>1 DEF MergeInv, FirstOfItsKey
          <5>2. PICK l \in 1..Len(query[p].result) :
                   /\ Passed(place, p, l) /\ query[p].result[l] = seen[k]
                   /\ \A q \in Passage!Q : \A i \in 1..Len(query[q].result) :
                         /\ Passed(place, q, i)
                         /\ Passage!DedupKey(query[q].result[i]) = Passage!DedupKey(seen[k])
                         => p <= q
            BY <5>1
          <5>3. ASSUME NEW q \in Passage!Q, NEW i \in 1..Len(query[q].result),
                       Passed(place', q, i),
                       Passage!DedupKey(query[q].result[i]) = Passage!DedupKey(seen[k])
                PROVE  p <= q
            <6>1. CASE Passed(place, q, i)
              BY <5>2, <5>3, <6>1
            <6>2. CASE q = p0 /\ i = l0
              BY <1>3, <2>1, <3>2, <4>1, <5>3, <6>2
            <6> QED  BY <2>5, <5>3, <6>1, <6>2
          <5>4. Passed(place', p, l) /\ seen'[k] = seen[k]
            BY <2>5, <3>1, <4>1, <5>2
          <5> QED  BY <5>2, <5>3, <5>4 DEF FirstOfItsKey
        <4>2. CASE k = Len(seen) + 1
          <5>1. ASSUME NEW q \in Passage!Q, NEW i \in 1..Len(query[q].result),
                       Passed(place', q, i),
                       Passage!DedupKey(query[q].result[i]) = Passage!DedupKey(x)
                PROVE  p0 <= q
            <6>1. ~Passed(place, q, i)
              BY <3>2, <5>1 DEF MergeInv
            <6> QED  BY <1>2, <2>5, <5>1, <6>1
          <5>2. seen'[k] = x /\ query[p0].result[l0] = x /\ l0 \in 1..Len(query[p0].result)
            BY <1>3, <1>4, <2>1, <3>1, <4>2
          <5> QED  BY <1>2, <2>6, <5>1, <5>2 DEF FirstOfItsKey
        <4> QED  BY <3>1, <4>1, <4>2
      <3>5. \A j, k \in 1..Len(seen') : j # k =>
              Passage!DedupKey(seen'[j]) # Passage!DedupKey(seen'[k])
        BY <3>1, <3>2 DEF MergeInv
      <3>6. \A k \in 1..Len(seen') : FirstOfItsKey(place, seen[k])' =
                                     FirstOfItsKey(place', seen'[k])
        BY <1>2 DEF FirstOfItsKey
      <3> QED  BY <1>2, <2>4, <3>1, <3>3, <3>4, <3>5, <3>6 DEF MergeInv, AllDone
    <2>9. CASE ~Passage!IsNew(x)
      <3>1. seen' = seen /\ \E k \in 1..Len(seen) :
              Passage!DedupKey(seen[k]) = Passage!DedupKey(x)
        BY <2>2, <2>9 DEF Passage!IsNew
      <3>2. ASSUME NEW p \in Passage!Q, NEW l \in 1..Len(query[p].result), Passed(place', p, l)
            PROVE  \E k \in 1..Len(seen) :
                    Passage!DedupKey(seen[k]) = Passage!DedupKey(query[p].result[l])
        BY <1>3, <2>1, <2>5, <3>1, <3>2 DEF MergeInv
      <3>3. ASSUME NEW k \in 1..Len(seen) PROVE FirstOfItsKey(place', seen[k])
        <4>1. PICK p \in Passage!Q : \E l \in 1..Len(query[p].result) :
                 /\ Passed(place, p, l) /\ query[p].result[l] = seen[k]
                 /\ \A q \in Passage!Q : \A i \in 1..Len(query[q].result) :
                       /\ Passed(place, q, i)
                       /\ Passage!DedupKey(query[q].result[i]) = Passage!DedupKey(seen[k])
                       => p <= q
          BY DEF MergeInv, FirstOfItsKey
        <4>2. PICK l \in 1..Len(query[p].result) :
                 /\ Passed(place, p, l) /\ query[p].result[l] = seen[k]
                 /\ \A q \in Passage!Q : \A i \in 1..Len(query[q].result) :
                       /\ Passed(place, q, i)
                       /\ Passage!DedupKey(query[q].result[i]) = Passage!DedupKey(seen[k])
                       => p <= q
          BY <4>1
        <4>3. ASSUME NEW q \in Passage!Q, NEW i \in 1..Len(query[q].result),
                     Passed(place', q, i),
                     Passage!DedupKey(query[q].result[i]) = Passage!DedupKey(seen[k])
              PROVE  p <= q
          BY <2>5, <2>7, <4>2, <4>3
        <4>4. Passed(place', p, l)
          BY <2>5, <4>2
        <4> QED  BY <4>2, <4>3, <4>4 DEF FirstOfItsKey
      <3>4. \A k \in 1..Len(seen') : FirstOfItsKey(place, seen[k])'
        <4>1. \A k \in 1..Len(seen') : FirstOfItsKey(place', seen'[k])
          BY <3>1, <3>3
        <4>2. \A k \in 1..Len(seen') : FirstOfItsKey(place, seen[k])' =
                                       FirstOfItsKey(place', seen'[k])
          BY <1>2 DEF FirstOfItsKey
        <4> QED  BY <4>1, <4>2
      <3>5. (\A j, k \in 1..Len(seen) :
                j # k => Passage!DedupKey(seen[j]) # Passage!DedupKey(seen[k]))'
        BY <3>1 DEF MergeInv, Passage!DedupKey
      <3>6. \A p \in Passage!Q : \A l \in 1..Len(query'[p].result) : Passed(place', p, l) =>
               \E k \in 1..Len(seen') :
                   Passage!DedupKey(seen'[k]) = Passage!DedupKey(query'[p].result[l])
        <4>1. \A p \in Passage!Q : \A l \in 1..Len(query[p].result) : Passed(place', p, l) =>
                 \E k \in 1..Len(seen) :
                     Passage!DedupKey(seen[k]) = Passage!DedupKey(query[p].result[l])
          BY <3>2
        <4>2. query' = query /\ seen' = seen
          BY <1>2, <3>1
        <4> QED  BY <4>1, <4>2
      <3> QED  BY <1>2, <2>4, <3>1, <3>4, <3>5, <3>6 DEF MergeInv, AllDone
    <2> QED  BY <2>8, <2>9
  <1>5. CASE l0 \notin 1..Len(s)
    <2>1. place' = [query |-> p0 + 1, item |-> 1] /\ UNCHANGED seen
      BY <1>1, <1>3, <1>5 DEF Passage!Collect
    <2>2. /\ place' \in [query : 1..(Queries + 1), item : Nat \ {0}]
          /\ place'.query = p0 + 1 /\ place'.item = 1
      BY <1>2, <2>1
    <2>3. ASSUME NEW p \in Passage!Q, NEW l \in 1..Len(query[p].result)
          PROVE  Passed(place', p, l) <=> Passed(place, p, l)
      <3>1. p \in Nat /\ l \in Int /\ l >= 1 /\ (p = p0 => l < l0)
        <4>1. p \in Nat /\ l \in Int /\ l >= 1
          BY <1>2, <2>3 DEF QueryInv, SubQuery
        <4>2. CASE p = p0
          BY <1>2, <1>3, <1>5, <4>1, <4>2
        <4> QED  BY <4>1, <4>2
      <3> QED  BY <1>1, <1>2, <2>2, <3>1 DEF Passed
    <2>4. \A k \in 1..Len(seen) : FirstOfItsKey(place, seen[k])' = FirstOfItsKey(place, seen[k])
      BY <1>2, <2>1, <2>3 DEF FirstOfItsKey
    <2> QED  BY <1>2, <2>1, <2>2, <2>3, <2>4 DEF MergeInv, AllDone
  <1> QED  BY <1>4, <1>5

\* What a sub-query brings is limited.
LEMMA FewResults ==
    ASSUME QueryInv, NEW p \in Passage!Q
    PROVE  /\ query[p].result \in Seq(Result) /\ Len(query[p].result) \in Nat
           /\ Len(query[p].result) <= Limit + TopN
  <1>1. PICK r : r = query[p]
    OBVIOUS
  <1>2. r \in SubQuery /\ Brings(scanning, r)
    BY <1>1 DEF QueryInv
  <1>3. r.tool \in {"vector", "graph", "web"} /\ r.result \in Seq(Result)
    BY <1>2 DEF SubQuery, Passage!Tool
  <1>4. PICK n \in Nat : n = Len(r.result)
    BY <1>3
  <1>5. n = 0 \/ n <= Limit \/ n <= TopN
    BY <1>2, <1>3, <1>4 DEF Brings
  <1> QED  BY <1>1, <1>3, <1>4, <1>5, RetrievalTyped DEF RetrievalConstants

\* The results that were merged, in the order of their scores.
LEMMA SortedIsSound ==
    ASSUME QueryInv, MergeInv, AllDone, place.query \notin Passage!Q,
           NEW n \in Nat, n = Len(seen),
           NEW order \in Passage!Sorted([i \in 1..Len(seen) |-> seen[i].score]),
           NEW m, m = [i \in 1..n |-> seen[order[i]]]
    PROVE  SoundMerge(m)
  <1>1. seen \in Seq(Result) /\ \A i \in 1..n : seen[i] \in Result
    BY DEF MergeInv
  <1>2. PICK f : f = [i \in 1..n |-> seen[i].score]
    OBVIOUS
  <1>3. DOMAIN f = 1..n /\ \A i \in 1..n : f[i] = seen[i].score /\ f[i] \in Nat
    BY <1>1, <1>2 DEF Result
  <1>4. Passage!Cardinality(1..n) = n
    <2>1. 1 \in Int /\ n \in Int
      OBVIOUS
    <2>2. Cardinality(1..n) = IF 1 > n THEN 0 ELSE n - 1 + 1
      BY <2>1, FS_Interval
    <2>3. Cardinality(1..n) = n
      BY <2>2
    <2> QED  BY <2>3, SameCount
  <1>5. /\ order \in [1..n -> 1..n]
        /\ \A k \in 1..n : \E i \in 1..n : order[i] = k
        /\ \A i, j \in 1..n : i < j => Passage!Before(f, order[i], order[j])
    <2>1. order \in Passage!Sorted(f)
      BY <1>2
    <2> QED  BY <1>3, <1>4, <2>1 DEF Passage!Sorted
  <1>6. /\ m \in Seq(Result) /\ Len(m) = n
        /\ \A i \in 1..n : order[i] \in 1..n /\ m[i] = seen[order[i]]
    <2>1. \A i \in 1..n : order[i] \in 1..n /\ seen[order[i]] \in Result
      BY <1>1, <1>5
    <2> QED  BY <2>1
  <1>7. \A p \in Passage!Q : \A l : Passed(place, p, l)
    <2>1. place.query \in 1..(Queries + 1) /\ Queries \in Nat
      BY RetrievalTyped DEF MergeInv, RetrievalConstants
    <2>2. place.query = Queries + 1
      BY <2>1 DEF Passage!Q
    <2> QED  BY <2>1, <2>2 DEF Passed, Passage!Q
  <1>8. \A p \in Passage!Q : Passage!Keys(query[p].result) \subseteq Passage!Keys(m)
    <2> SUFFICES ASSUME NEW p \in Passage!Q, NEW l \in 1..Len(query[p].result)
                 PROVE  Passage!DedupKey(query[p].result[l]) \in Passage!Keys(m)
      BY DEF Passage!Keys
    <2>1. PICK k \in 1..n : Passage!DedupKey(seen[k]) = Passage!DedupKey(query[p].result[l])
      BY <1>7 DEF MergeInv
    <2>2. PICK i \in 1..n : order[i] = k
      BY <1>5
    <2>3. Passage!DedupKey(m[i]) = Passage!DedupKey(query[p].result[l])
      BY <1>6, <2>1, <2>2
    <2> QED  BY <1>6, <2>3 DEF Passage!Keys
  <1>9. ASSUME NEW i \in 1..n
        PROVE  \E p \in Passage!Q : \E l \in 1..Len(query[p].result) :
                  /\ query[p].result[l] = m[i]
                  /\ \A q \in Passage!Q : \A h \in 1..Len(query[q].result) :
                        Passage!DedupKey(query[q].result[h]) = Passage!DedupKey(m[i]) => p <= q
    <2>1. FirstOfItsKey(place, m[i])
      BY <1>6 DEF MergeInv
    <2> QED  BY <1>7, <2>1 DEF FirstOfItsKey
  <1>10. Passage!Keys(m) \subseteq UNION {Passage!Keys(query[q].result) : q \in Passage!Q}
    <2>1. ASSUME NEW i \in 1..n
          PROVE  \E p \in Passage!Q : Passage!DedupKey(m[i]) \in Passage!Keys(query[p].result)
      <3>1. PICK p \in Passage!Q : \E l \in 1..Len(query[p].result) : query[p].result[l] = m[i]
        BY <1>9
      <3> QED  BY <3>1 DEF Passage!Keys
    <2>2. Passage!Keys(m) = {Passage!DedupKey(m[i]) : i \in 1..n}
      BY <1>6 DEF Passage!Keys
    <2>3. \A t \in Passage!Keys(m) : \E p \in Passage!Q : t \in Passage!Keys(query[p].result)
      BY <2>1, <2>2
    <2> QED  BY <2>3
  <1>11. Passage!Keys(m) = UNION {Passage!Keys(query[q].result) : q \in Passage!Q}
    BY <1>8, <1>10
  <1>12. ASSUME NEW i \in 1..n, NEW j \in 1..n, i < j
         PROVE  Passage!DedupKey(m[i]) # Passage!DedupKey(m[j]) /\ m[i].score >= m[j].score
    <2>1. Passage!Before(f, order[i], order[j])
      BY <1>5, <1>12
    <2>2. PICK a, b \in 1..n : a = order[i] /\ b = order[j]
      BY <1>6
    <2>3. f[a] \in Nat /\ f[b] \in Nat /\ f[a] >= f[b] /\ a # b
      BY <1>3, <2>1, <2>2 DEF Passage!Before
    <2>4. m[i] = seen[a] /\ m[j] = seen[b] /\ f[a] = seen[a].score /\ f[b] = seen[b].score
      BY <1>3, <1>6, <2>2
    <2>5. Passage!DedupKey(seen[a]) # Passage!DedupKey(seen[b])
      BY <2>3 DEF MergeInv
    <2> QED  BY <2>3, <2>4, <2>5
  <1>13. ASSUME NEW i \in 1..n, NEW q \in Passage!Q,
                Passage!DedupKey(m[i]) \in Passage!Keys(query[q].result)
         PROVE  \E p \in 1..q, k \in 1..Limit + TopN :
                   k <= Len(query[p].result) /\ query[p].result[k] = m[i]
    <2>1. PICK p \in Passage!Q : \E l \in 1..Len(query[p].result) :
             /\ query[p].result[l] = m[i]
             /\ \A o \in Passage!Q : \A h \in 1..Len(query[o].result) :
                   Passage!DedupKey(query[o].result[h]) = Passage!DedupKey(m[i]) => p <= o
      BY <1>9
    <2>2. PICK l \in 1..Len(query[p].result) :
             /\ query[p].result[l] = m[i]
             /\ \A o \in Passage!Q : \A h \in 1..Len(query[o].result) :
                   Passage!DedupKey(query[o].result[h]) = Passage!DedupKey(m[i]) => p <= o
      BY <2>1
    <2>3. p <= q
      BY <1>13, <2>2 DEF Passage!Keys
    <2>4. p \in 1..q
      BY <2>3, RetrievalTyped DEF Passage!Q, RetrievalConstants
    <2>5. l \in 1..(Limit + TopN) /\ l <= Len(query[p].result)
      BY FewResults, RetrievalTyped DEF RetrievalConstants
    <2> QED  BY <2>2, <2>4, <2>5
  <1> QED  BY <1>6, <1>11, <1>12, <1>13 DEF SoundMerge

LEMMA ByScoreMerges == QueryInv /\ MergeInv /\ Passage!ByScore => MergeInv'
  <1> SUFFICES ASSUME QueryInv, MergeInv, Passage!ByScore PROVE MergeInv'
    OBVIOUS
  <1>1. /\ UNCHANGED <<query, place, seen>> /\ AllDone /\ place.query \notin Passage!Q
    BY DEF Passage!ByScore, Passage!Gathered, AllDone
  <1>2. PICK n \in Nat : n = Len(seen)
    BY DEF MergeInv
  <1>3. PICK order \in Passage!Sorted([i \in 1..Len(seen) |-> seen[i].score]) :
           merged' = [i \in 1..Len(seen) |-> seen[order[i]]]
    BY DEF Passage!ByScore
  <1>4. PICK m : m = [i \in 1..n |-> seen[order[i]]]
    OBVIOUS
  <1>5. SoundMerge(m)
    BY <1>1, <1>2, <1>4, SortedIsSound
  <1>6. merged' = m
    BY <1>2, <1>3, <1>4
  <1>7. SoundMerge(merged)'
    <2>1. SoundMerge(merged')
      BY <1>5, <1>6
    <2>2. SoundMerge(merged)' = SoundMerge(merged')
      BY <1>1 DEF SoundMerge, Passage!Keys, Passage!DedupKey
    <2> QED  BY <2>1, <2>2
  <1>8. \A k \in 1..Len(seen) : FirstOfItsKey(place, seen[k])' = FirstOfItsKey(place, seen[k])
    BY <1>1 DEF FirstOfItsKey
  <1>9. AllDone' = AllDone
    BY <1>1 DEF AllDone
  <1> QED  BY <1>1, <1>7, <1>8, <1>9 DEF MergeInv

LEMMA PassageInvStep ==
    QueryInv /\ MergeInv /\ [Passage!Next]_(Passage!vars) => QueryInv' /\ MergeInv'
  <1> SUFFICES ASSUME QueryInv, MergeInv, [Passage!Next]_(Passage!vars)
               PROVE  QueryInv' /\ MergeInv'
    OBVIOUS
  <1>1. CASE UNCHANGED Passage!vars
    <2>1. UNCHANGED <<scanning, query, place, seen, merged>>
      BY <1>1 DEF Passage!vars
    <2>2. QueryInv' /\ AllDone' = AllDone
      BY <2>1 DEF QueryInv, AllDone
    <2>3. SoundMerge(merged)' = SoundMerge(merged)
      BY <2>1 DEF SoundMerge, Passage!Keys, Passage!DedupKey
    <2>4. \A k \in 1..Len(seen) : FirstOfItsKey(place, seen[k])' = FirstOfItsKey(place, seen[k])
      BY <2>1 DEF FirstOfItsKey
    <2> QED  BY <2>1, <2>2, <2>3, <2>4 DEF MergeInv
  <1>2. CASE Passage!Merge
    <2>1. QueryInv'
      BY <1>2 DEF QueryInv, Passage!Merge, Passage!Collect, Passage!ByScore
    <2> QED  BY <1>2, <2>1, CollectMerges, ByScoreMerges DEF Passage!Merge
  <1>3. CASE \E q \in Passage!Q : Passage!Dispatch(q)
    BY <1>3, SubQueryKeeps, DispatchMerges
  <1> QED  BY <1>1, <1>2, <1>3 DEF Passage!Next

LEMMA PassagesSound == QueryInv /\ MergeInv => PassagesRanked
  BY DEF QueryInv, Brings, MergeInv, SoundMerge, PassagesRanked, Passage!PassagesRanked

\* Of the texts the sub-queries found that begin alike the retriever passes on one, of the
\* first sub-query by priority, and all by descending score, for any number of sub-queries
\* and passages and any scores and beginnings (retriever_node of retriever.py).
THEOREM PassagesAreRanked == Spec => []PassagesRanked
  <1> DEFINE Inv == QueryInv /\ MergeInv
  <1>1. Init => Inv
    BY PassageInvInit DEF Init
  <1>2. Inv /\ [Next]_vars => Inv'
    <2>1. [Next]_vars => [Passage!Next]_(Passage!vars)
      BY DEF Next, vars, search, Passage!vars, RunFiles, RunMarkdown, RunWindows, RunSections,
         RunPassages
    <2> QED  BY <2>1, PassageInvStep
  <1>3. Inv => PassagesRanked
    BY PassagesSound
  <1> QED  BY <1>1, <1>2, <1>3, PTL DEF Spec
=============================================================================
