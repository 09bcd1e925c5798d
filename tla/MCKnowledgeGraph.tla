--------------------------- MODULE MCKnowledgeGraph ---------------------------
(* Small instances of KnowledgeGraph for TLC. *)
EXTENDS KnowledgeGraph, TLC

CONSTANTS w1, w2

\* Every label resembles every other.
AllSimilar == Label \X Label

WorkerSym == Permutations(Worker)
=============================================================================
