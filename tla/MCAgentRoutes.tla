---------------------------- MODULE MCAgentRoutes ----------------------------
(* Small instances of AgentRoutes for TLC. *)
EXTENDS AgentRoutes, TLC

CONSTANTS a1, a2, b1, ta, tb

TwoTools == a1 :> ta @@ a2 :> ta @@ b1 :> tb
=============================================================================
