--------------------------- MODULE MCConversation ---------------------------
(* Instances of Conversation for TLC.                                      *)
EXTENDS Conversation, TLC

Symmetric == Permutations(Agents)
=============================================================================
