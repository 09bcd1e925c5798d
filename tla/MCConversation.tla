---------------------------- MODULE MCConversation ----------------------------
(* Small instances of Conversation for TLC. *)
EXTENDS Conversation

CONSTANTS c1, t1, t2, t3
=============================================================================
