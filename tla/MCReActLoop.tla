----------------------------- MODULE MCReActLoop -----------------------------
(* Small instances of ReActLoop for TLC. *)
EXTENDS ReActLoop, TLC

CONSTANTS a1, a2, a3, b1, ta, tb

\* One tool called with three arguments; two tools.
OneTool  == a1 :> ta @@ a2 :> ta @@ a3 :> ta
TwoTools == a1 :> ta @@ a2 :> ta @@ b1 :> tb

\* The arguments of a tool are interchangeable.
ArgSym == Permutations({a1, a2, a3})
=============================================================================
