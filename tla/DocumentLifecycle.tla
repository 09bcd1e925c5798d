-------------------------- MODULE DocumentLifecycle --------------------------
(***************************************************************************)
(* What the rows of the document library promise to their readers,         *)
(* whatever requests, failures and crashes produce them: a document is     *)
(* created once, settles once, gains chunk rows only while it is           *)
(* processing, loses them only all at once, becomes ready only with the    *)
(* rows of a whole content (or after it was retired under its ingestion),  *)
(* and never comes back after its deletion.                                *)
(***************************************************************************)
EXTENDS Integers

CONSTANTS Doc, Whole  \* documents; the row sets that are a whole content

VARIABLES phase, rows, retired

vars == <<phase, rows, retired>>

Init == /\ phase = [d \in Doc |-> "unborn"]
        /\ rows = [d \in Doc |-> {}]
        /\ retired = [d \in Doc |-> FALSE]

Born(d) == phase[d] \notin {"unborn", "deleted"}

Move(d, from, to) ==
    /\ phase[d] \in from
    /\ phase' = [phase EXCEPT ![d] = to]
    /\ UNCHANGED <<rows, retired>>

Insert(d) == Move(d, {"unborn"}, "pending")
Begin(d)  == Move(d, {"pending"}, "processing")
Fail(d)   == Move(d, {"pending", "processing"}, "failed")

Publish(d) ==
    /\ retired[d] \/ rows[d] \in Whole
    /\ Move(d, {"processing"}, "ready")

AddRow(d, r) ==
    /\ phase[d] = "processing"
    /\ rows' = [rows EXCEPT ![d] = @ \cup {r}]
    /\ UNCHANGED <<phase, retired>>

\* The version row is written before the chunk rows go.
Retire(d) ==
    /\ phase[d] # "unborn"
    /\ retired' = [retired EXCEPT ![d] = TRUE]
    /\ UNCHANGED <<phase, rows>>

Empty(d) ==
    /\ retired[d]
    /\ rows' = [rows EXCEPT ![d] = {}]
    /\ UNCHANGED <<phase, retired>>

Delete(d) ==
    /\ Born(d)
    /\ phase' = [phase EXCEPT ![d] = "deleted"]
    /\ rows' = [rows EXCEPT ![d] = {}]
    /\ UNCHANGED retired

Next == \E d \in Doc :
    \/ Insert(d) \/ Begin(d) \/ Fail(d) \/ Publish(d)
    \/ \E r \in UNION Whole : AddRow(d, r)
    \/ Retire(d) \/ Empty(d) \/ Delete(d)

Spec == Init /\ [][Next]_vars
=============================================================================
