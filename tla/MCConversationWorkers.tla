----------------------- MODULE MCConversationWorkers -----------------------
(* Instances of ConversationWorkers for TLC: the .cfg files of this module give  *)
(* the constants their values.                                                   *)
EXTENDS ConversationWorkers
=============================================================================
