------------------------------ MODULE BoundedRun ------------------------------
(***************************************************************************)
(* What every agent endpoint promises: a request is worked on in rounds,   *)
(* never more than the limit of its kind, and is answered once, after      *)
(* which nothing is done for it.                                           *)
(***************************************************************************)
EXTENDS Integers

CONSTANTS Kind, Limit  \* request kinds; [Kind -> Nat]

VARIABLES kind, phase, rounds

vars == <<kind, phase, rounds>>

Init == kind = "none" /\ phase = "idle" /\ rounds = 0

Accept == /\ phase = "idle"
          /\ phase' = "working"
          /\ kind' \in Kind
          /\ UNCHANGED rounds

Round == /\ phase = "working"
         /\ rounds < Limit[kind]
         /\ rounds' = rounds + 1
         /\ UNCHANGED <<kind, phase>>

Answer == /\ phase = "working"
          /\ phase' = "answered"
          /\ UNCHANGED <<kind, rounds>>

Next == Accept \/ Round \/ Answer

Spec == Init /\ [][Next]_vars
=============================================================================
