----------------------------- MODULE ChatSessions -----------------------------
(***************************************************************************)
(* The chat control panel (backend/api/routes/chat_control.py): sessions   *)
(* in memory, one of them active.  Reset and delete look a session up,     *)
(* await the erasure of its llama.cpp slot, and only then act on it, so    *)
(* anything may happen to the session in between.                          *)
(***************************************************************************)
EXTENDS Integers, FiniteSetsExt

CONSTANTS Handler,      \* requests that may be waiting for llama.cpp
          MaxSessions   \* bound on the sessions ever created

SessionAssumption == MaxSessions \in Nat

VARIABLES sessions,  \* ids; a later session has a greater id
          active,    \* the active id, 0 for None
          created,   \* ids handed out: stands for uuid4
          waiting    \* per handler: what it does to which id after the await

vars == <<sessions, active, created, waiting>>

Id   == 1..MaxSessions
Idle == [op |-> "none", id |-> 0]
Ops  == {"reset", "delete"}

TypeOK ==
    /\ sessions \subseteq Id /\ created \in 0..MaxSessions /\ active \in 0..MaxSessions
    /\ waiting \in [Handler -> {Idle} \cup [op : Ops, id : Id]]

Init == /\ sessions = {} /\ active = 0 /\ created = 0
        /\ waiting = [h \in Handler |-> Idle]

\* SessionStore.create: the new session is the active one at once.
NewSession ==
    /\ created < MaxSessions
    /\ created' = created + 1
    /\ sessions' = sessions \cup {created'}
    /\ active' = created'

Create == NewSession /\ UNCHANGED waiting

Activate(i) ==
    /\ i \in sessions
    /\ active' = i
    /\ UNCHANGED <<sessions, created, waiting>>

\* The route answers 404 for an unknown id; from here on it only holds the
\* session object.
Begin(h, op, i) ==
    /\ waiting[h] = Idle /\ i \in sessions
    /\ waiting' = [waiting EXCEPT ![h] = [op |-> op, id |-> i]]
    /\ UNCHANGED <<sessions, active, created>>

\* Without an id: the active session, or a new one when there is none.
ResetActive(h) ==
    /\ waiting[h] = Idle
    /\ \/ active # 0 /\ UNCHANGED <<sessions, active, created>>
       \/ active = 0 /\ NewSession
    /\ waiting' = [waiting EXCEPT ![h] = [op |-> "reset", id |-> active']]

\* Mutant: None is stored whenever the active session goes.
NoFallback(rest) == 0

\* The most recently created session that is left.
Fallback(rest) == IF rest = {} THEN 0 ELSE Max(rest)

\* Mutant: the session looked up before the await was the active one.
ForgetStale(i) ==
    /\ sessions' = sessions \ {i}
    /\ active' = Fallback(sessions')

\* SessionStore.delete; a session that is already gone changes nothing.
Forget(i) ==
    /\ sessions' = sessions \ {i}
    /\ active' = IF i \in sessions /\ active = i THEN Fallback(sessions') ELSE active

\* llama.cpp has answered, refused or could not be reached: all the same.  The
\* history a reset clears is a session's own and nothing in the code fills it.
Erased(h) ==
    /\ waiting[h] # Idle
    /\ \/ waiting[h].op = "reset" /\ UNCHANGED <<sessions, active>>
       \/ waiting[h].op = "delete" /\ Forget(waiting[h].id)
    /\ waiting' = [waiting EXCEPT ![h] = Idle]
    /\ UNCHANGED created

Next ==
    \/ Create
    \/ \E i \in Id : Activate(i)
    \/ \E h \in Handler :
          \/ ResetActive(h) \/ Erased(h)
          \/ \E i \in Id, op \in Ops : Begin(h, op, i)

Spec == Init /\ [][Next]_vars
-----------------------------------------------------------------------------
\* However resets, deletions and activations overlap, there is an active session
\* exactly when there is a session, and it is one of them.
ActiveExists ==
    IF sessions = {} THEN active = 0 ELSE active \in sessions

\* A deletion that was waiting takes the activity from nobody else: the active
\* session changes by its own deletion, to the newest one left, or because a
\* client created or activated another.
ActiveChangesForAReason ==
    [][active' # active =>
          \/ active' = created' /\ created' > created
          \/ sessions' = sessions
          \/ active \notin sessions' /\ active' = Fallback(sessions')]_vars
=============================================================================
