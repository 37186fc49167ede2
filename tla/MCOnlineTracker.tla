-------------------------- MODULE MCOnlineTracker --------------------------
(* An instance of OnlineTracker for TLC. *)
EXTENDS OnlineTracker, TLC

\* Users, agents and overlapping disconnects are interchangeable.
Symmetry == Permutations(Users) \cup Permutations(Agents) \cup Permutations(Disconnects)
=============================================================================
