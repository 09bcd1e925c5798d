----------------------------- MODULE MCIngestion -----------------------------
(* Small instances of Ingestion for TLC. *)
EXTENDS Ingestion, TLC

CONSTANTS t1, t2, f1, v1, cA, cB, cC, none

\* Two contents of one and two chunks, and one whose chunks are all blocked.
MCNChunks == [c \in Content |-> CASE c = cA -> 1 [] c = cB -> 2 [] OTHER -> 0]

OneTask  == {t1}
TwoTasks == {t1, t2}
TaskSym  == Permutations(Task)
=============================================================================
