--------------------------- MODULE MCPersistence ---------------------------
(* Instances of Persistence for TLC. *)
EXTENDS Persistence
=============================================================================
