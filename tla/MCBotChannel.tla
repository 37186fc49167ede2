---------------------------- MODULE MCBotChannel ----------------------------
(* Instances of BotChannel for TLC. *)
EXTENDS BotChannel
=============================================================================
