--------------------------- MODULE MCAgentRouter ---------------------------
(* Instances of AgentRouter for TLC. *)
EXTENDS AgentRouter, TLC

\* Agent n has room for n chats.
Places == [a \in Agents |-> a]

\* Conversations are interchangeable.
ConversationSymmetry == Permutations(Conversations)
=============================================================================
