-------------------------- MODULE MCChatLifecycle --------------------------
(* Instances of ChatLifecycle for TLC. *)
EXTENDS ChatLifecycle

Places == [a \in Agents |-> 1]
=============================================================================
