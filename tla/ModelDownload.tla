----------------------------- MODULE ModelDownload -----------------------------
(***************************************************************************)
(* Model downloads (backend/api/routes/models.py, backend/models/).  A     *)
(* request answers at once and downloads in a background task.  Tasks that *)
(* save to the same path share its .part file: the operating system lets   *)
(* both write one inode, renames whatever carries the name, and keeps an   *)
(* unlinked file for whoever has it open.  A file is named after the task  *)
(* whose open() created it.                                                *)
(***************************************************************************)
EXTENDS Integers, FiniteSets

CONSTANTS Task,     \* downloads ever requested
          Key,      \* repository and filename: what the status is kept under
          Path, PathOf,   \* dest_dir / filename of a key: two keys may share it
          Size,     \* chunks in a file
          Restarts  \* bound on restarts of the server

VARIABLES status,     \* _download_status, in memory
          task,       \* the background tasks
          part, dest, \* which file carries the .part and the final name
          data,       \* what the files hold: the key each chunk came from
          catalogue,  \* ModelRegistry._models
          restarts,
          tainted     \* auxiliary: paths two tasks used at once, or without a hash

vars == <<status, task, part, dest, data, catalogue, restarts, tainted>>

Missing == "missing"

DownloadAssumption ==
    /\ PathOf \in [Key -> Path] /\ Size \in Nat \ {0} /\ Restarts \in Nat
    /\ Missing \notin Task

Hole    == "hole"    \* never written in this file, or wrong on the wire
Running == {"connecting", "streaming", "ended"}
Fresh   == [pc |-> "idle", key |-> Missing, hashed |-> FALSE, fd |-> Missing,
            at |-> 0, good |-> TRUE]

TypeOK ==
    /\ status \in [Key -> {"none", "pending", "downloading", "done", "error"}]
    /\ \A t \in Task : /\ task[t].pc \in {"idle", "queued", "gone"} \cup Running
                       /\ task[t].pc # "idle" => task[t].key \in Key
                       /\ task[t].pc = "streaming" => task[t].fd \in Task
    /\ part \in [Path -> Task \cup {Missing}] /\ dest \in [Path -> Task \cup {Missing}]
    /\ data \in [Task -> [1..Size -> Key \cup {Hole}]]
    /\ catalogue \subseteq Path /\ tainted \subseteq Path /\ restarts \in 0..Restarts

Init ==
    /\ status = [k \in Key |-> "none"] /\ task = [t \in Task |-> Fresh]
    /\ part = [p \in Path |-> Missing] /\ dest = [p \in Path |-> Missing]
    /\ data = [t \in Task |-> [i \in 1..Size |-> Hole]]
    /\ catalogue = {} /\ restarts = 0 /\ tainted = {}

PathFor(t) == PathOf[task[t].key]
Whole(k)   == [i \in 1..Size |-> k]
Busy(p)    == \E t \in Task : task[t].pc \in Running /\ PathFor(t) = p

\* POST /models/download: only "downloading" is refused, not "pending".
Request(t, k, hashed) ==
    /\ task[t].pc = "idle" /\ status[k] # "downloading"
    /\ task' = [task EXCEPT ![t] = [Fresh EXCEPT !.pc = "queued", !.key = k, !.hashed = hashed]]
    /\ status' = [status EXCEPT ![k] = "pending"]
    /\ UNCHANGED <<part, dest, data, catalogue, restarts, tainted>>

\* Mutant: an error is only logged.
SettleQuietly(t, outcome) ==
    /\ task' = [task EXCEPT ![t].pc = "gone"]
    /\ status' = IF outcome = "error" THEN status ELSE [status EXCEPT ![task[t].key] = outcome]

\* _run_download: the task is over and says how.
Settle(t, outcome) ==
    /\ task' = [task EXCEPT ![t].pc = "gone"]
    /\ status' = [status EXCEPT ![task[t].key] = outcome]

\* The file is there and, if a hash was given, it is the right one.
Present(t) ==
    LET p == PathFor(t) IN
    /\ dest[p] # Missing
    /\ task[t].hashed => data[dest[p]] = Whole(task[t].key)

\* The task starts, checks for the file and sends its request.
Start(t) ==
    /\ task[t].pc = "queued"
    /\ IF Present(t)
       THEN Settle(t, "done")
       ELSE /\ task' = [task EXCEPT ![t].pc = "connecting"]
            /\ status' = [status EXCEPT ![task[t].key] = "downloading"]
    /\ tainted' = IF ~task[t].hashed \/ Busy(PathFor(t))
                  THEN tainted \cup {PathFor(t)} ELSE tainted
    /\ UNCHANGED <<part, dest, data, catalogue, restarts>>

\* open("wb"): a file that carries the name is emptied, another is created.
OpenPart(t) ==
    LET p == PathFor(t) IN
    /\ part' = [part EXCEPT ![p] = IF @ = Missing THEN t ELSE @]
    /\ data' = [data EXCEPT ![part'[p]] = [i \in 1..Size |-> Hole]]

Connect(t) ==
    /\ task[t].pc = "connecting"
    /\ OpenPart(t)
    /\ task' = [task EXCEPT ![t].pc = "streaming", ![t].fd = part'[PathFor(t)]]
    /\ UNCHANGED <<status, dest, catalogue, restarts, tainted>>

\* The next chunk goes to the task's own offset; it may be wrong on the wire.
Write(t) ==
    /\ task[t].pc = "streaming" /\ task[t].at < Size
    /\ \E chunk \in {task[t].key, Hole} :
          /\ data' = [data EXCEPT ![task[t].fd][task[t].at + 1] = chunk]
          /\ task' = [task EXCEPT ![t].at = @ + 1, ![t].good = @ /\ chunk # Hole]
    /\ UNCHANGED <<status, part, dest, catalogue, restarts, tainted>>

\* The stream is over, its file closed.
EndOfStream(t) ==
    /\ task[t].pc = "streaming" /\ task[t].at = Size
    /\ task' = [task EXCEPT ![t].pc = "ended"]
    /\ UNCHANGED <<status, part, dest, data, catalogue, restarts, tainted>>

\* Mutant: the digest is computed and not compared.
VerifiedNever(t) == TRUE

\* The hash is over the chunks as they arrived, not over the file.
Verified(t) == task[t].hashed => task[t].good

\* Verify, then rename: a name another task has taken away is an error.
Finish(t) ==
    LET p == PathFor(t) IN
    /\ task[t].pc = "ended"
    /\ IF Verified(t) /\ part[p] # Missing
       THEN dest' = [dest EXCEPT ![p] = part[p]] /\ Settle(t, "done")
       ELSE UNCHANGED dest /\ Settle(t, "error")
    /\ part' = [part EXCEPT ![p] = Missing]
    /\ UNCHANGED <<data, catalogue, restarts, tainted>>

\* No connection, an HTTP error or a broken stream: the .part name goes.
Fail(t) ==
    /\ task[t].pc \in {"connecting", "streaming"}
    /\ part' = [part EXCEPT ![PathFor(t)] = Missing]
    /\ Settle(t, "error")
    /\ UNCHANGED <<dest, data, catalogue, restarts, tainted>>

\* rglob("*.gguf"): final names only.
Found == {p \in Path : dest[p] # Missing}

Scan == /\ catalogue' = Found
        /\ UNCHANGED <<status, task, part, dest, data, restarts, tainted>>

\* Tasks and states are lost, files stay; the new process scans.
Restart ==
    /\ restarts < Restarts
    /\ restarts' = restarts + 1
    /\ task' = [t \in Task |-> IF task[t].pc = "idle" THEN task[t] ELSE [task[t] EXCEPT !.pc = "gone"]]
    /\ status' = [k \in Key |-> "none"]
    /\ catalogue' = Found
    /\ UNCHANGED <<part, dest, data, tainted>>

Run(t) == Start(t) \/ Connect(t) \/ Write(t) \/ EndOfStream(t) \/ Finish(t) \/ Fail(t)

Next ==
    \/ Scan \/ Restart
    \/ \E t \in Task : Run(t) \/ \E k \in Key, hashed \in BOOLEAN : Request(t, k, hashed)

Spec == Init /\ [][Next]_vars

\* The background task goes on whenever its stream delivers, ends or breaks.
Fairness == \A t \in Task : WF_vars(Run(t))

-----------------------------------------------------------------------------
\* A model file that carries its final name is whole and of one repository,
\* whatever failed, restarted or was left behind, unless two downloads used its
\* path at once or one came without a hash.
PublishedIsWhole ==
    \A p \in Path \ tainted : dest[p] # Missing =>
        \E k \in Key : PathOf[k] = p /\ data[dest[p]] = Whole(k)

\* What the poller sees of a download always settles.
DownloadsSettle ==
    \A k \in Key : status[k] \in {"pending", "downloading"} ~> status[k] \notin {"pending", "downloading"}

\* "Download already in progress": a path is written by one task at a time.
OneWriter ==
    \A t, u \in Task : task[t].pc = "streaming" /\ task[u].pc = "streaming" =>
        t = u \/ task[t].fd # task[u].fd
=============================================================================
