-------------------------- MODULE ModelDownloadProofs --------------------------
(***************************************************************************)
(* What carries a model's final name is whole, for any number of tasks,    *)
(* keys, paths, chunks and restarts.  Files outlive the tasks that wrote   *)
(* them, so the argument follows the files: each stays on the path of the  *)
(* task that created it, and while a path is not tainted only one running  *)
(* task has its files open.                                                *)
(***************************************************************************)
EXTENDS ModelDownload, TLAPS

Pc == {"idle", "queued", "gone"} \cup Running

Record == [pc : Pc, key : Key \cup {Missing}, hashed : BOOLEAN, fd : Task \cup {Missing},
           at : 0..Size, good : BOOLEAN]

Open == {"streaming", "ended"}
Past == {"streaming", "ended", "gone"}

ShapeInv ==
    /\ task \in [Task -> Record]
    /\ part \in [Path -> Task \cup {Missing}] /\ dest \in [Path -> Task \cup {Missing}]
    /\ data \in [Task -> [1..Size -> Key \cup {Hole}]]
    /\ \A t \in Task : /\ task[t].pc # "idle" => task[t].key \in Key
                       /\ task[t].pc \in {"queued", "connecting"} => task[t].at = 0

\* The file a task created is on the path of that task.
AtHome(f, p) == task[f].pc \in Past /\ PathFor(f) = p

FilesSound(p) ==
    /\ part[p] # Missing => AtHome(part[p], p) /\ part[p] # dest[p]
    /\ dest[p] # Missing => AtHome(dest[p], p)

\* A path nobody else uses: the task writes the file that carries the .part name,
\* and what it got right so far is in that file.
CleanStream(t) ==
    /\ part[PathFor(t)] = task[t].fd
    /\ task[t].good => \A i \in 1..task[t].at : data[task[t].fd][i] = task[t].key

StreamSound(t) ==
    task[t].pc \in Open =>
       /\ task[t].fd \in Task /\ AtHome(task[t].fd, PathFor(t))
       /\ PathFor(t) \notin tainted => CleanStream(t)
       /\ task[t].pc = "ended" => task[t].at = Size

HashedIfClean(t) == task[t].pc \in Running /\ PathFor(t) \notin tainted => task[t].hashed

Alone(t, u) ==
    task[t].pc \in Running /\ task[u].pc \in Running /\ PathFor(t) = PathFor(u)
        /\ PathFor(t) \notin tainted => t = u

PublishedSound(p) ==
    p \notin tainted /\ dest[p] # Missing => \E k \in Key : PathOf[k] = p /\ data[dest[p]] = Whole(k)

DownloadInv ==
    /\ ShapeInv
    /\ \A p \in Path : FilesSound(p) /\ PublishedSound(p)
    /\ \A t \in Task : StreamSound(t) /\ HashedIfClean(t)
    /\ \A t, u \in Task : Alone(t, u)

LEMMA DownloadInvInit == ASSUME DownloadAssumption, Init PROVE DownloadInv
  <1>1. Fresh \in Record
    BY DEF Fresh, Record, Pc, DownloadAssumption
  <1>2. task = [t \in Task |-> Fresh] /\ (\A t \in Task : task[t].pc = "idle")
    BY DEF Init, Fresh
  <1>3. ShapeInv
    <2>1. task \in [Task -> Record]
      BY <1>1, <1>2
    <2>2. /\ part \in [Path -> Task \cup {Missing}] /\ dest \in [Path -> Task \cup {Missing}]
          /\ data \in [Task -> [1..Size -> Key \cup {Hole}]]
      BY DEF Init
    <2> QED
      BY <1>2, <2>1, <2>2 DEF ShapeInv
  <1>4. \A p \in Path : FilesSound(p) /\ PublishedSound(p)
    BY DEF Init, FilesSound, PublishedSound
  <1>5. \A t \in Task : StreamSound(t) /\ HashedIfClean(t)
    BY <1>2 DEF StreamSound, HashedIfClean, Open, Running
  <1>6. \A t, u \in Task : Alone(t, u)
    BY <1>2 DEF Alone, Running
  <1> QED
    BY <1>3, <1>4, <1>5, <1>6 DEF DownloadInv

\* One task changes its record; the other records stay.
LEMMA OneMoves ==
    ASSUME ShapeInv, NEW t \in Task, NEW r \in Record, task' = [task EXCEPT ![t] = r]
    PROVE  /\ task' \in [Task -> Record] /\ task'[t] = r
           /\ \A u \in Task : u # t => task'[u] = task[u]
  BY DEF ShapeInv

\* A task that moves on without touching a file: it keeps its key once it has one,
\* does not begin to stream, and starts to run only with a hash and alone on its
\* path, or taints that path.
LEMMA Moved ==
    ASSUME DownloadAssumption, DownloadInv, NEW t \in Task, NEW r \in Record,
           task' = [task EXCEPT ![t] = r], UNCHANGED <<part, dest, data>>,
           tainted \subseteq tainted', r.pc # "idle", r.key \in Key,
           task[t].pc = "idle" \/ r.key = task[t].key,
           r.pc \in {"queued", "connecting"} => r.at = 0,
           task[t].pc \in Past => r.pc \in Past,
           r.pc \in Open => /\ task[t].pc = "streaming" /\ r.fd = task[t].fd /\ r.at = task[t].at
                            /\ r.good = task[t].good /\ (r.pc = "ended" => r.at = Size),
           r.pc \in Running =>
               \/ task[t].pc \in Running /\ r.hashed = task[t].hashed
               \/ PathOf[r.key] \in tainted'
               \/ r.hashed /\ ~Busy(PathOf[r.key])
    PROVE  DownloadInv'
  <1>1. /\ task' \in [Task -> Record] /\ task'[t] = r
        /\ \A u \in Task : u # t => task'[u] = task[u]
    BY OneMoves DEF DownloadInv
  <1>2. ShapeInv'
    BY <1>1 DEF DownloadInv, ShapeInv
  <1>3. \A u \in Task : task[u].pc # "idle" => task'[u].key = task[u].key
    BY <1>1
  <1>4. \A u \in Task : task[u].pc \in Past => task'[u].pc \in Past
    BY <1>1
  <1>5. \A f \in Task, p \in Path : AtHome(f, p) => AtHome(f, p)'
    BY <1>3, <1>4 DEF AtHome, PathFor, Past
  <1>6. ASSUME NEW p \in Path PROVE FilesSound(p)' /\ PublishedSound(p)'
    <2>1. part[p] \in Task \cup {Missing} /\ dest[p] \in Task \cup {Missing}
      BY DEF DownloadInv, ShapeInv
    <2>2. FilesSound(p) /\ PublishedSound(p)
      BY DEF DownloadInv
    <2>3. FilesSound(p)'
      BY <1>5, <2>1, <2>2 DEF FilesSound
    <2>4. PublishedSound(p)'
      BY <2>2 DEF PublishedSound, Whole
    <2> QED
      BY <2>3, <2>4
  <1>7. ASSUME NEW u \in Task PROVE StreamSound(u)'
    <2>1. StreamSound(u)
      BY DEF DownloadInv
    <2> SUFFICES ASSUME task'[u].pc \in Open PROVE StreamSound(u)'
      BY DEF StreamSound
    <2>2. /\ task[u].pc \in Open /\ task'[u].fd = task[u].fd /\ task'[u].at = task[u].at
          /\ task'[u].good = task[u].good /\ task'[u].key = task[u].key
          /\ (task'[u].pc = "ended" => task'[u].at = Size)
      <3>1. CASE u = t
        BY <1>1, <1>3, <3>1 DEF Open
      <3>2. CASE u # t
        BY <1>1, <2>1, <3>2 DEF StreamSound
      <3> QED
        BY <3>1, <3>2
    <2>3. PathFor(u)' = PathFor(u) /\ PathFor(u) \in Path
      <3>1. task[u].key \in Key
        BY <2>2 DEF DownloadInv, ShapeInv, Open
      <3> QED
        BY <2>2, <3>1 DEF PathFor, DownloadAssumption
    <2>4. task[u].fd \in Task /\ AtHome(task[u].fd, PathFor(u))'
      BY <1>5, <2>1, <2>2, <2>3 DEF StreamSound, AtHome, PathFor
    <2>5. PathFor(u) \notin tainted' => CleanStream(u)'
      BY <2>1, <2>2, <2>3 DEF StreamSound, CleanStream
    <2> QED
      BY <2>2, <2>3, <2>4, <2>5 DEF StreamSound, AtHome, PathFor
  <1>8. ASSUME NEW u \in Task PROVE HashedIfClean(u)'
    <2>1. HashedIfClean(u) /\ HashedIfClean(t)
      BY DEF DownloadInv
    <2>2. CASE u = t
      BY <1>1, <2>1, <2>2 DEF HashedIfClean, PathFor, Running
    <2>3. CASE u # t
      BY <1>1, <2>1, <2>3 DEF HashedIfClean, PathFor
    <2> QED
      BY <2>2, <2>3
  <1>9. ASSUME NEW u \in Task, NEW v \in Task PROVE Alone(u, v)'
    <2>1. Alone(u, v)
      BY DEF DownloadInv
    <2>2. CASE u = v
      BY <2>2 DEF Alone
    <2>3. CASE u # v /\ u # t /\ v # t
      BY <1>1, <2>1, <2>3 DEF Alone, PathFor
    <2>4. CASE u # v /\ u = t
      BY <1>1, <2>1, <2>4 DEF Alone, PathFor, Busy, Running
    <2>5. CASE u # v /\ v = t
      BY <1>1, <2>1, <2>5 DEF Alone, PathFor, Busy, Running
    <2> QED
      BY <2>2, <2>3, <2>4, <2>5
  <1> QED
    BY <1>2, <1>6, <1>7, <1>8, <1>9 DEF DownloadInv

\* A record with another place.
LEMMA ElsewhereIsRecord ==
    ASSUME NEW r \in Record, NEW pc \in Pc
    PROVE  /\ [r EXCEPT !.pc = pc] \in Record /\ [r EXCEPT !.pc = pc].pc = pc
           /\ [r EXCEPT !.pc = pc].key = r.key /\ [r EXCEPT !.pc = pc].hashed = r.hashed
           /\ [r EXCEPT !.pc = pc].fd = r.fd /\ [r EXCEPT !.pc = pc].at = r.at
           /\ [r EXCEPT !.pc = pc].good = r.good
  <1> HIDE DEF Pc
  <1> QED
    BY DEF Record

LEMMA RequestKeeps ==
    ASSUME DownloadAssumption, DownloadInv, NEW t \in Task, NEW k \in Key, NEW h \in BOOLEAN,
           Request(t, k, h)
    PROVE  DownloadInv'
  <1> DEFINE r == [Fresh EXCEPT !.pc = "queued", !.key = k, !.hashed = h]
  <1>1. r \in Record /\ r.pc = "queued" /\ r.key = k /\ r.at = 0
    <2>1. "queued" \in Pc
      BY DEF Pc
    <2>2. Fresh \in Record /\ Fresh.at = 0
      BY DEF Fresh, Record, Pc, DownloadAssumption
    <2> HIDE DEF Fresh, Pc
    <2> QED
      BY <2>1, <2>2 DEF Record
  <1>2. task[t].pc = "idle" /\ UNCHANGED <<part, dest, data, tainted>>
    BY DEF Request
  <1>3. task' = [task EXCEPT ![t] = r]
    BY DEF Request
  <1> HIDE DEF r
  <1> QED
    BY <1>1, <1>2, <1>3, Moved DEF Open, Past, Running

LEMMA StartKeeps ==
    ASSUME DownloadAssumption, DownloadInv, NEW t \in Task, Start(t)
    PROVE  DownloadInv'
  <1>1. task[t] \in Record /\ task[t].pc = "queued" /\ task[t].key \in Key /\ task[t].at = 0
    BY DEF Start, DownloadInv, ShapeInv
  <1>2. UNCHANGED <<part, dest, data>> /\ tainted \subseteq tainted'
        /\ (PathFor(t) \in tainted' \/ (task[t].hashed /\ ~Busy(PathFor(t))))
    <2>1. UNCHANGED <<part, dest, data>>
      BY DEF Start
    <2>2. CASE ~task[t].hashed \/ Busy(PathFor(t))
      BY <2>1, <2>2 DEF Start
    <2>3. CASE ~(~task[t].hashed \/ Busy(PathFor(t)))
      BY <2>1, <2>3 DEF Start
    <2> QED
      BY <2>2, <2>3
  <1>3. PICK pc \in {"gone", "connecting"} : task' = [task EXCEPT ![t].pc = pc]
    BY DEF Start, Settle
  <1> DEFINE r == [task[t] EXCEPT !.pc = pc]
  <1>4. pc \in Pc
    BY DEF Pc, Running
  <1>5. /\ r \in Record /\ r.pc = pc /\ r.key = task[t].key /\ r.hashed = task[t].hashed
        /\ r.at = task[t].at
    BY <1>1, <1>4, ElsewhereIsRecord
  <1>6. task' = [task EXCEPT ![t] = r]
    BY <1>3
  <1>7. PathFor(t) = PathOf[r.key]
    BY <1>5 DEF PathFor
  <1> HIDE DEF r
  <1> QED
    BY <1>1, <1>2, <1>5, <1>6, <1>7, Moved DEF Open, Past, Running

LEMMA EndOfStreamKeeps ==
    ASSUME DownloadAssumption, DownloadInv, NEW t \in Task, EndOfStream(t)
    PROVE  DownloadInv'
  <1> DEFINE r == [task[t] EXCEPT !.pc = "ended"]
  <1>1. task[t] \in Record /\ task[t].pc = "streaming" /\ task[t].key \in Key /\ task[t].at = Size
    BY DEF EndOfStream, DownloadInv, ShapeInv
  <1>2. UNCHANGED <<part, dest, data, tainted>> /\ task' = [task EXCEPT ![t] = r]
    BY DEF EndOfStream
  <1>3. "ended" \in Pc
    BY DEF Pc, Running
  <1>4. /\ r \in Record /\ r.pc = "ended" /\ r.key = task[t].key /\ r.hashed = task[t].hashed
        /\ r.fd = task[t].fd /\ r.at = task[t].at /\ r.good = task[t].good
    BY <1>1, <1>3, ElsewhereIsRecord
  <1> HIDE DEF r
  <1> QED
    BY <1>1, <1>2, <1>4, Moved DEF Open, Past, Running

\* Whoever else has a file open on an untainted path writes another file, on another
\* path, than a task that runs.
LEMMA OthersApart ==
    ASSUME DownloadInv, NEW t \in Task, NEW u \in Task, u # t,
           task[t].pc \in Running, task[u].pc \in Open, PathFor(u) \notin tainted
    PROVE  /\ PathFor(u) # PathFor(t)
           /\ \A f \in Task : PathFor(f) = PathFor(t) => task[u].fd # f
  <1>1. Alone(t, u) /\ Alone(u, t) /\ StreamSound(u)
    BY DEF DownloadInv
  <1>2. PathFor(u) # PathFor(t)
    BY <1>1 DEF Alone, Open, Running
  <1> QED
    BY <1>1, <1>2 DEF StreamSound, AtHome

\* Files keep their home when tasks keep their keys and do not go back.
LEMMA HomesStay ==
    ASSUME \A u \in Task : task[u].pc \in Past => task'[u].pc \in Past /\ task'[u].key = task[u].key
    PROVE  \A f \in Task, p \in Path : AtHome(f, p) => AtHome(f, p)'
  BY DEF AtHome, PathFor

\* One running task goes on: its flags and those of the others are as they were.
LEMMA RunnersStay ==
    ASSUME DownloadInv, NEW t \in Task, task[t].pc \in Running, UNCHANGED tainted,
           task'[t].key = task[t].key, task'[t].hashed = task[t].hashed,
           \A u \in Task : u # t => task'[u] = task[u]
    PROVE  /\ \A u \in Task : HashedIfClean(u)'
           /\ \A u, v \in Task : Alone(u, v)'
  <1>1. ASSUME NEW u \in Task PROVE HashedIfClean(u)'
    <2>1. HashedIfClean(u)
      BY DEF DownloadInv
    <2>2. CASE u = t
      BY <2>1, <2>2 DEF HashedIfClean, PathFor
    <2>3. CASE u # t
      BY <2>1, <2>3 DEF HashedIfClean, PathFor
    <2> QED
      BY <2>2, <2>3
  <1>2. ASSUME NEW u \in Task PROVE PathFor(u)' = PathFor(u) /\ (task'[u].pc \in Running => task[u].pc \in Running)
    BY DEF PathFor
  <1>3. ASSUME NEW u \in Task, NEW v \in Task PROVE Alone(u, v)'
    <2>1. Alone(u, v)
      BY DEF DownloadInv
    <2> QED
      BY <1>2, <2>1 DEF Alone
  <1> QED
    BY <1>1, <1>3

\* The end of a task that ran: the .part name goes, and what it named may have
\* become the model file.
LEMMA Left ==
    ASSUME DownloadAssumption, DownloadInv, NEW t \in Task, task[t].pc \in Running,
           task' = [task EXCEPT ![t].pc = "gone"],
           part' = [part EXCEPT ![PathFor(t)] = Missing], UNCHANGED <<data, tainted>>,
           \/ UNCHANGED dest
           \/ /\ dest' = [dest EXCEPT ![PathFor(t)] = part[PathFor(t)]]
              /\ task[t].pc = "ended" /\ Verified(t) /\ part[PathFor(t)] # Missing
    PROVE  DownloadInv'
  <1> DEFINE p == PathFor(t)
             r == [task[t] EXCEPT !.pc = "gone"]
  <1>1. /\ task[t] \in Record /\ task[t].key \in Key /\ p \in Path
        /\ part \in [Path -> Task \cup {Missing}] /\ dest \in [Path -> Task \cup {Missing}]
    BY DEF DownloadInv, ShapeInv, Running, PathFor, DownloadAssumption
  <1>2. r \in Record /\ r.pc = "gone" /\ r.key = task[t].key /\ r.hashed = task[t].hashed
    <2>1. "gone" \in Pc
      BY DEF Pc
    <2> QED
      BY <1>1, <2>1, ElsewhereIsRecord
  <1>3. task' = [task EXCEPT ![t] = r]
    OBVIOUS
  <1> HIDE DEF r
  <1>4. /\ task' \in [Task -> Record] /\ task'[t] = r
        /\ \A u \in Task : u # t => task'[u] = task[u]
    BY <1>2, <1>3, OneMoves DEF DownloadInv
  <1>5. /\ part' \in [Path -> Task \cup {Missing}] /\ dest' \in [Path -> Task \cup {Missing}]
        /\ part'[p] = Missing /\ \A q \in Path : q # p => part'[q] = part[q] /\ dest'[q] = dest[q]
    BY <1>1
  <1>6. ShapeInv'
    BY <1>1, <1>2, <1>4, <1>5 DEF DownloadInv, ShapeInv
  <1>7. \A f \in Task, q \in Path : AtHome(f, q) => AtHome(f, q)'
    BY <1>2, <1>4, HomesStay DEF Past
  <1>8. ASSUME NEW q \in Path PROVE FilesSound(q)'
    <2>1. FilesSound(q) /\ part[q] \in Task \cup {Missing} /\ dest[q] \in Task \cup {Missing}
      BY <1>1 DEF DownloadInv
    <2>2. CASE q # p
      BY <1>5, <1>7, <2>1, <2>2 DEF FilesSound
    <2>3. CASE q = p
      <3>1. dest'[p] = dest[p] \/ dest'[p] = part[p]
        BY <1>1
      <3> QED
        BY <1>5, <1>7, <2>1, <2>3, <3>1 DEF FilesSound
    <2> QED
      BY <2>2, <2>3
  <1>9. ASSUME NEW q \in Path PROVE PublishedSound(q)'
    <2>1. PublishedSound(q)
      BY DEF DownloadInv
    <2>2. CASE dest'[q] = dest[q]
      BY <2>1, <2>2 DEF PublishedSound, Whole
    <2>3. CASE dest'[q] # dest[q]
      <3>1. q = p /\ dest'[p] = part[p] /\ task[t].pc = "ended" /\ Verified(t)
        BY <1>1, <1>5, <2>3
      <3> SUFFICES ASSUME q \notin tainted PROVE PublishedSound(q)'
        BY DEF PublishedSound
      <3>2. StreamSound(t) /\ HashedIfClean(t)
        BY DEF DownloadInv
      <3>3. task[t].good /\ CleanStream(t) /\ task[t].at = Size /\ task[t].fd \in Task
        BY <3>1, <3>2 DEF Verified, HashedIfClean, StreamSound, Open, Running
      <3>4. part[p] = task[t].fd /\ \A i \in 1..Size : data[part[p]][i] = task[t].key
        BY <3>3 DEF CleanStream
      <3>5. data[part[p]] \in [1..Size -> Key \cup {Hole}]
        BY <3>3, <3>4 DEF DownloadInv, ShapeInv
      <3>6. data[part[p]] = Whole(task[t].key)
        BY <3>4, <3>5 DEF Whole
      <3>7. PathOf[task[t].key] = q /\ data'[dest'[q]] = Whole(task[t].key)
        BY <3>1, <3>6 DEF PathFor
      <3> QED
        BY <1>1, <3>7 DEF PublishedSound, Whole
    <2> QED
      BY <2>2, <2>3
  <1>10. ASSUME NEW u \in Task PROVE StreamSound(u)'
    <2> SUFFICES ASSUME task'[u].pc \in Open PROVE StreamSound(u)'
      BY DEF StreamSound
    <2>1. u # t /\ task'[u] = task[u] /\ StreamSound(u)
      BY <1>2, <1>4 DEF Open, DownloadInv
    <2>2. task[u].key \in Key /\ PathFor(u) \in Path /\ PathFor(u)' = PathFor(u)
      BY <2>1 DEF DownloadInv, ShapeInv, Open, PathFor, DownloadAssumption
    <2>3. task[u].fd \in Task /\ AtHome(task[u].fd, PathFor(u))'
      BY <1>7, <2>1, <2>2 DEF StreamSound, AtHome, PathFor
    <2>4. PathFor(u) \notin tainted => CleanStream(u)'
      <3> SUFFICES ASSUME PathFor(u) \notin tainted PROVE CleanStream(u)'
        OBVIOUS
      <3>1. PathFor(u) # p /\ CleanStream(u)
        BY <2>1, OthersApart DEF StreamSound
      <3> QED
        BY <1>5, <2>1, <2>2, <3>1 DEF CleanStream
    <2> QED
      BY <2>1, <2>2, <2>3, <2>4 DEF StreamSound, AtHome, PathFor
  <1>11. (\A u \in Task : HashedIfClean(u)') /\ (\A u, v \in Task : Alone(u, v)')
    BY <1>2, <1>4, RunnersStay
  <1> QED
    BY <1>6, <1>8, <1>9, <1>10, <1>11 DEF DownloadInv

LEMMA FinishKeeps ==
    ASSUME DownloadAssumption, DownloadInv, NEW t \in Task, Finish(t)
    PROVE  DownloadInv'
  BY Left DEF Finish, Settle, Running

LEMMA FailKeeps ==
    ASSUME DownloadAssumption, DownloadInv, NEW t \in Task, Fail(t)
    PROVE  DownloadInv'
  BY Left DEF Fail, Settle, Running

LEMMA ConnectKeeps ==
    ASSUME DownloadAssumption, DownloadInv, NEW t \in Task, Connect(t)
    PROVE  DownloadInv'
  <1>1. /\ task[t] \in Record /\ task[t].key \in Key /\ PathFor(t) \in Path /\ task[t].at = 0
        /\ task[t].pc = "connecting"
        /\ part \in [Path -> Task \cup {Missing}] /\ dest \in [Path -> Task \cup {Missing}]
        /\ data \in [Task -> [1..Size -> Key \cup {Hole}]]
    BY DEF Connect, DownloadInv, ShapeInv, PathFor, DownloadAssumption
  <1>p. PICK p \in Path : p = PathFor(t)
    BY <1>1
  <1>f. PICK f \in Task : f = IF part[p] = Missing THEN t ELSE part[p]
    BY <1>1, <1>p
  <1> DEFINE r == [task[t] EXCEPT !.pc = "streaming", !.fd = f]
  <1>2. /\ part' = [part EXCEPT ![p] = f] /\ UNCHANGED <<dest, tainted>>
        /\ data' = [data EXCEPT ![f] = [i \in 1..Size |-> Hole]]
        /\ task' = [task EXCEPT ![t] = r]
    <2>1. part' = [part EXCEPT ![p] = f] /\ part'[p] = f
      BY <1>1, <1>p, <1>f DEF Connect, OpenPart
    <2> QED
      BY <1>p, <2>1 DEF Connect, OpenPart
  <1>3. /\ r \in Record /\ r.pc = "streaming" /\ r.key = task[t].key /\ r.fd = f
        /\ r.hashed = task[t].hashed /\ r.at = 0
    <2>1. "streaming" \in Pc
      BY DEF Pc, Running
    <2> HIDE DEF Pc
    <2> QED
      BY <1>1, <2>1 DEF Record
  <1> HIDE DEF r
  <1>4. /\ task' \in [Task -> Record] /\ task'[t] = r
        /\ \A u \in Task : u # t => task'[u] = task[u]
    BY <1>2, <1>3, OneMoves DEF DownloadInv
  <1>5. /\ part' \in [Path -> Task \cup {Missing}] /\ data' \in [Task -> [1..Size -> Key \cup {Hole}]]
        /\ part'[p] = f /\ (\A q \in Path : q # p => part'[q] = part[q])
        /\ \A g \in Task : g # f => data'[g] = data[g]
    <2>1. [i \in 1..Size |-> Hole] \in [1..Size -> Key \cup {Hole}]
      OBVIOUS
    <2> QED
      BY <1>1, <1>2, <2>1
  <1>6. ShapeInv'
    BY <1>1, <1>2, <1>3, <1>4, <1>5 DEF DownloadInv, ShapeInv
  <1>7. \A g \in Task, q \in Path : AtHome(g, q) => AtHome(g, q)'
    BY <1>1, <1>3, <1>4, HomesStay DEF Past
  <1>8. ASSUME NEW q \in Path PROVE FilesSound(q) /\ PublishedSound(q)
    BY DEF DownloadInv
  <1>9. AtHome(f, p)' /\ dest[p] # f
    <2>1. CASE part[p] = Missing
      <3>1. dest[p] # t
        BY <1>1, <1>8 DEF FilesSound, AtHome, Past, DownloadAssumption
      <3>2. task'[t].pc \in Past /\ PathOf[task'[t].key] = p
        BY <1>p, <1>3, <1>4 DEF Past, PathFor
      <3> QED
        BY <1>f, <2>1, <3>1, <3>2 DEF AtHome, PathFor
    <2>2. CASE part[p] # Missing
      <3>1. AtHome(f, p) /\ dest[p] # f
        BY <1>f, <1>8, <2>2 DEF FilesSound
      <3> QED
        BY <1>7, <3>1
    <2> QED
      BY <2>1, <2>2
  <1>10. ASSUME NEW q \in Path PROVE FilesSound(q)'
    <2>1. FilesSound(q) /\ part[q] \in Task \cup {Missing} /\ dest[q] \in Task \cup {Missing}
      BY <1>1, <1>8
    <2>2. dest'[q] # Missing => AtHome(dest[q], q)'
      BY <1>2, <1>7, <2>1 DEF FilesSound, AtHome, PathFor
    <2>3. CASE q = p
      BY <1>2, <1>5, <1>9, <2>2, <2>3 DEF FilesSound, AtHome, PathFor
    <2>4. CASE q # p
      BY <1>2, <1>5, <1>7, <2>1, <2>2, <2>4 DEF FilesSound, AtHome, PathFor
    <2> QED
      BY <2>3, <2>4
  <1>11. ASSUME NEW q \in Path PROVE PublishedSound(q)'
    <2> SUFFICES ASSUME q \notin tainted, dest[q] # Missing PROVE PublishedSound(q)'
      BY <1>2 DEF PublishedSound
    <2>1. PICK g \in Task : g = dest[q] /\ AtHome(g, q)
      BY <1>1, <1>8 DEF FilesSound
    <2>2. AtHome(g, q)'
      BY <1>7, <2>1
    <2>3. g # f
      BY <1>9, <2>1, <2>2 DEF AtHome, PathFor
    <2>4. data'[dest'[q]] = data[dest[q]]
      BY <1>2, <1>5, <2>1, <2>3
    <2> QED
      BY <1>2, <1>8, <2>4 DEF PublishedSound, Whole
  <1>12. ASSUME NEW u \in Task PROVE StreamSound(u)'
    <2>1. CASE u = t
      <3>1. PathFor(t)' = p
        BY <1>p, <1>3, <1>4 DEF PathFor
      <3>2. CleanStream(t)'
        BY <1>3, <1>4, <1>5, <3>1 DEF CleanStream
      <3> QED
        BY <1>1, <1>3, <1>4, <1>9, <2>1, <3>1, <3>2 DEF StreamSound, AtHome, PathFor
    <2>2. CASE u # t
      <3> SUFFICES ASSUME task'[u].pc \in Open PROVE StreamSound(u)'
        BY DEF StreamSound
      <3>1. task'[u] = task[u] /\ StreamSound(u) /\ task[u].pc \in Open
        BY <1>4, <2>2 DEF DownloadInv
      <3>2. task[u].key \in Key /\ PathFor(u) \in Path /\ PathFor(u)' = PathFor(u)
        BY <3>1 DEF DownloadInv, ShapeInv, Open, PathFor, DownloadAssumption
      <3>3. task[u].fd \in Task /\ AtHome(task[u].fd, PathFor(u))'
        BY <1>7, <3>1, <3>2 DEF StreamSound, AtHome, PathFor
      <3>4. PathFor(u) \notin tainted => CleanStream(u)'
        <4> SUFFICES ASSUME PathFor(u) \notin tainted PROVE CleanStream(u)'
          OBVIOUS
        <4>1. PathFor(u) # p /\ CleanStream(u)
          BY <1>1, <1>p, <2>2, <3>1, OthersApart DEF StreamSound, Running
        <4>2. task[u].fd # f
          BY <1>9, <3>1, <3>2, <3>3, <4>1 DEF AtHome, PathFor
        <4> QED
          BY <1>5, <3>1, <3>2, <3>3, <4>1, <4>2 DEF CleanStream
      <3> QED
        BY <1>2, <3>1, <3>2, <3>3, <3>4 DEF StreamSound, AtHome, PathFor
    <2> QED
      BY <2>1, <2>2
  <1>13. (\A u \in Task : HashedIfClean(u)') /\ (\A u, v \in Task : Alone(u, v)')
    BY <1>1, <1>2, <1>3, <1>4, RunnersStay DEF Running
  <1> QED
    BY <1>6, <1>10, <1>11, <1>12, <1>13 DEF DownloadInv

LEMMA WriteKeeps ==
    ASSUME DownloadAssumption, DownloadInv, NEW t \in Task, Write(t)
    PROVE  DownloadInv'
  <1>1. /\ task[t] \in Record /\ task[t].key \in Key /\ PathFor(t) \in Path
        /\ task[t].pc = "streaming" /\ task[t].at < Size /\ task[t].at \in 0..Size
        /\ task[t].good \in BOOLEAN
        /\ data \in [Task -> [1..Size -> Key \cup {Hole}]]
        /\ UNCHANGED <<part, dest, tainted>>
    BY DEF Write, DownloadInv, ShapeInv, PathFor, DownloadAssumption, Record
  <1>2. StreamSound(t) /\ task[t].fd \in Task /\ AtHome(task[t].fd, PathFor(t))
    BY <1>1 DEF DownloadInv, StreamSound, Open
  <1>f. PICK f \in Task : f = task[t].fd
    BY <1>2
  <1>n. PICK n \in Nat : n = task[t].at + 1
    BY <1>1 DEF DownloadAssumption
  <1>3. PICK chunk \in {task[t].key, Hole} :
           /\ data' = [data EXCEPT ![f][n] = chunk]
           /\ task' = [task EXCEPT ![t].at = @ + 1, ![t].good = @ /\ chunk # Hole]
    BY <1>f, <1>n DEF Write
  <1> DEFINE r == [task[t] EXCEPT !.at = n, !.good = @ /\ chunk # Hole]
  <1>4. task' = [task EXCEPT ![t] = r]
    BY <1>3, <1>n
  <1>5. n \in 1..Size
    BY <1>1, <1>n DEF DownloadAssumption
  <1>6. /\ r \in Record /\ r.pc = "streaming" /\ r.key = task[t].key /\ r.fd = f
        /\ r.hashed = task[t].hashed /\ r.at = n /\ (r.good => task[t].good /\ chunk # Hole)
    <2> DEFINE good == task[t].good /\ chunk # Hole
    <2>1. good \in BOOLEAN /\ n \in 0..Size
      BY <1>5
    <2>2. r = [task[t] EXCEPT !.at = n, !.good = good]
      OBVIOUS
    <2> HIDE DEF Pc
    <2>3. r \in Record /\ r.pc = task[t].pc /\ r.key = task[t].key /\ r.fd = task[t].fd
          /\ r.hashed = task[t].hashed /\ r.at = n /\ r.good = good
      <3> HIDE DEF good, r
      <3> QED
        BY <1>1, <2>1, <2>2 DEF Record
    <2> QED
      BY <1>1, <1>f, <2>3
  <1> HIDE DEF r
  <1>7. /\ task' \in [Task -> Record] /\ task'[t] = r
        /\ \A u \in Task : u # t => task'[u] = task[u]
    BY <1>4, <1>6, OneMoves DEF DownloadInv
  <1>8. /\ data' \in [Task -> [1..Size -> Key \cup {Hole}]]
        /\ data'[f][n] = chunk
        /\ \A i \in 1..Size : i # n => data'[f][i] = data[f][i]
        /\ \A g \in Task : g # f => data'[g] = data[g]
    <2>1. chunk \in Key \cup {Hole}
      BY <1>1
    <2> QED
      BY <1>1, <1>3, <1>5, <2>1
  <1>9. ShapeInv'
    BY <1>1, <1>6, <1>7, <1>8, SMTT(20) DEF DownloadInv, ShapeInv
  <1>10. \A g \in Task, q \in Path : AtHome(g, q) => AtHome(g, q)'
    BY <1>1, <1>6, <1>7, HomesStay DEF Past
  <1>11. ASSUME NEW q \in Path
         PROVE  /\ FilesSound(q) /\ PublishedSound(q)
                /\ part[q] \in Task \cup {Missing} /\ dest[q] \in Task \cup {Missing}
    BY DEF DownloadInv, ShapeInv
  <1>12. ASSUME NEW q \in Path PROVE FilesSound(q)'
    BY <1>1, <1>10, <1>11 DEF FilesSound
  <1>13. ASSUME NEW q \in Path PROVE PublishedSound(q)'
    <2> SUFFICES ASSUME q \notin tainted, dest[q] # Missing PROVE PublishedSound(q)'
      BY <1>1 DEF PublishedSound
    <2>1. dest[q] \in Task /\ AtHome(dest[q], q)
      BY <1>11 DEF FilesSound
    <2>2. dest[q] # f
      <3>1. CASE q = PathFor(t)
        <4>1. part[q] = f
          BY <1>1, <1>2, <1>f, <3>1 DEF StreamSound, CleanStream, Open
        <4> QED
          BY <1>f, <1>11, <4>1 DEF FilesSound, DownloadAssumption
      <3>2. CASE q # PathFor(t)
        BY <1>2, <1>f, <2>1, <3>2 DEF AtHome
      <3> QED
        BY <3>1, <3>2
    <2>3. data'[dest'[q]] = data[dest[q]]
      BY <1>1, <1>8, <2>1, <2>2
    <2> QED
      BY <1>1, <1>11, <2>3 DEF PublishedSound, Whole
  <1>14. ASSUME NEW u \in Task PROVE StreamSound(u)'
    <2>1. CASE u = t
      <3>1. PathFor(t)' = PathFor(t)
        BY <1>6, <1>7 DEF PathFor
      <3>2. PathFor(t) \notin tainted => CleanStream(t)'
        <4> SUFFICES ASSUME PathFor(t) \notin tainted PROVE CleanStream(t)'
          OBVIOUS
        <4>1. part'[PathFor(t)'] = task'[t].fd
          BY <1>1, <1>2, <1>f, <1>6, <1>7, <3>1 DEF StreamSound, CleanStream, Open
        <4>2. ASSUME task'[t].good, NEW i \in 1..task'[t].at
              PROVE  data'[task'[t].fd][i] = task'[t].key
          <5>1. i \in 1..n /\ task[t].good /\ chunk # Hole
            BY <1>6, <1>7, <4>2
          <5>2. CASE i = n
            <6>1. chunk = task[t].key
              BY <5>1
            <6>2. task'[t].fd = f /\ task'[t].key = task[t].key
              BY <1>6, <1>7
            <6> QED
              BY <1>8, <5>2, <6>1, <6>2
          <5>3. CASE i # n
            <6>1. i \in 1..task[t].at /\ i \in 1..Size
              BY <1>1, <1>5, <1>n, <5>1, <5>3 DEF DownloadAssumption
            <6>2. data[f][i] = task[t].key
              BY <1>1, <1>2, <1>f, <5>1, <6>1 DEF StreamSound, CleanStream, Open
            <6> QED
              BY <1>6, <1>7, <1>8, <5>3, <6>1, <6>2
          <5> QED
            BY <5>2, <5>3
        <4> QED
          BY <4>1, <4>2 DEF CleanStream
      <3>3. AtHome(f, PathFor(t))'
        BY <1>1, <1>2, <1>f, <1>10, <3>1 DEF AtHome, PathFor
      <3> QED
        BY <1>1, <1>2, <1>6, <1>7, <2>1, <3>1, <3>2, <3>3 DEF StreamSound, AtHome, PathFor
    <2>2. CASE u # t
      <3> SUFFICES ASSUME task'[u].pc \in Open PROVE StreamSound(u)'
        BY DEF StreamSound
      <3>1. task'[u] = task[u] /\ StreamSound(u) /\ task[u].pc \in Open
        BY <1>7, <2>2 DEF DownloadInv
      <3>2. task[u].key \in Key /\ PathFor(u) \in Path /\ PathFor(u)' = PathFor(u)
        BY <3>1 DEF DownloadInv, ShapeInv, Open, PathFor, DownloadAssumption
      <3>3. task[u].fd \in Task /\ AtHome(task[u].fd, PathFor(u))'
        BY <1>10, <3>1, <3>2 DEF StreamSound, AtHome, PathFor
      <3>4. PathFor(u) \notin tainted => CleanStream(u)'
        <4> SUFFICES ASSUME PathFor(u) \notin tainted PROVE CleanStream(u)'
          OBVIOUS
        <4>1. CleanStream(u) /\ task[u].fd # f
          BY <1>1, <1>2, <1>f, <2>2, <3>1, OthersApart DEF StreamSound, AtHome, Running
        <4> QED
          BY <1>1, <1>8, <3>1, <3>2, <3>3, <4>1 DEF CleanStream
      <3> QED
        BY <1>1, <3>1, <3>2, <3>3, <3>4 DEF StreamSound, AtHome, PathFor
    <2> QED
      BY <2>1, <2>2
  <1>15. (\A u \in Task : HashedIfClean(u)') /\ (\A u, v \in Task : Alone(u, v)')
    BY <1>1, <1>6, <1>7, RunnersStay DEF Running
  <1> QED
    BY <1>9, <1>12, <1>13, <1>14, <1>15 DEF DownloadInv

\* Files and their homes survive the server.
LEMMA RestartKeeps ==
    ASSUME DownloadAssumption, DownloadInv, Restart
    PROVE  DownloadInv'
  <1>1. task \in [Task -> Record] /\ UNCHANGED <<part, dest, data, tainted>>
    BY DEF Restart, DownloadInv, ShapeInv
  <1>2. ASSUME NEW u \in Task
        PROVE  /\ task'[u] \in Record /\ task'[u].key = task[u].key
               /\ task'[u].pc = IF task[u].pc = "idle" THEN "idle" ELSE "gone"
    <2>1. task'[u] = IF task[u].pc = "idle" THEN task[u] ELSE [task[u] EXCEPT !.pc = "gone"]
      BY DEF Restart
    <2>2. "gone" \in Pc
      BY DEF Pc
    <2> QED
      BY <1>1, <2>1, <2>2, ElsewhereIsRecord
  <1>3. ShapeInv'
    <2>1. task' \in [Task -> Record]
      BY <1>2 DEF Restart
    <2> QED
      BY <1>1, <1>2, <2>1 DEF DownloadInv, ShapeInv
  <1>4. \A g \in Task, q \in Path : AtHome(g, q) => AtHome(g, q)'
    BY <1>2, HomesStay DEF Past
  <1>5. ASSUME NEW q \in Path PROVE FilesSound(q)' /\ PublishedSound(q)'
    <2>1. /\ FilesSound(q) /\ PublishedSound(q)
          /\ part[q] \in Task \cup {Missing} /\ dest[q] \in Task \cup {Missing}
      BY DEF DownloadInv, ShapeInv
    <2>2. FilesSound(q)'
      BY <1>1, <1>4, <2>1 DEF FilesSound
    <2>3. PublishedSound(q)'
      BY <1>1, <2>1 DEF PublishedSound, Whole
    <2> QED
      BY <2>2, <2>3
  <1>6. \A u \in Task : StreamSound(u)' /\ HashedIfClean(u)'
    BY <1>2 DEF StreamSound, HashedIfClean, Open, Running
  <1>7. \A u, v \in Task : Alone(u, v)'
    BY <1>2 DEF Alone, Running
  <1> QED
    BY <1>3, <1>5, <1>6, <1>7 DEF DownloadInv

LEMMA NextKeeps ==
    ASSUME DownloadAssumption, DownloadInv, [Next]_vars
    PROVE  DownloadInv'
  <1>1. CASE Scan \/ UNCHANGED vars
    <2>1. UNCHANGED <<task, part, dest, data, tainted>>
      BY <1>1 DEF Scan, vars
    <2>2. ShapeInv'
      BY <2>1 DEF DownloadInv, ShapeInv
    <2>3. \A p \in Path : FilesSound(p)' /\ PublishedSound(p)'
      BY <2>1 DEF DownloadInv, FilesSound, AtHome, PathFor, PublishedSound, Whole
    <2>4. \A t \in Task : StreamSound(t)' /\ HashedIfClean(t)'
      BY <2>1 DEF DownloadInv, StreamSound, CleanStream, AtHome, PathFor, HashedIfClean
    <2>5. \A t, u \in Task : Alone(t, u)'
      BY <2>1 DEF DownloadInv, Alone, PathFor
    <2> QED
      BY <2>2, <2>3, <2>4, <2>5 DEF DownloadInv
  <1>2. CASE Restart
    BY <1>2, RestartKeeps
  <1>3. CASE \E t \in Task : Run(t) \/ \E k \in Key, h \in BOOLEAN : Request(t, k, h)
    BY <1>3, RequestKeeps, StartKeeps, ConnectKeeps, WriteKeeps, EndOfStreamKeeps, FinishKeeps,
       FailKeeps DEF Run
  <1> QED
    BY <1>1, <1>2, <1>3 DEF Next

\* What the invariant says about the files that carry their final name.
LEMMA DownloadInvWhole == DownloadInv => PublishedIsWhole
  BY DEF DownloadInv, PublishedSound, PublishedIsWhole

\* A model file under its final name is whole and of one repository, through failed
\* and broken downloads, their leftovers and restarts, on every path that two
\* downloads did not use at once and whose downloads came with a hash.
THEOREM PublishedFilesAreWhole ==
    ASSUME DownloadAssumption
    PROVE  Spec => []PublishedIsWhole
  <1>1. Init => DownloadInv
    BY DownloadInvInit
  <1>2. DownloadInv /\ [Next]_vars => DownloadInv'
    BY NextKeeps
  <1>3. DownloadInv => PublishedIsWhole
    BY DownloadInvWhole
  <1> QED
    BY <1>1, <1>2, <1>3, PTL DEF Spec
=============================================================================
