-------------------------- MODULE MCRefreshSessions --------------------------
(***************************************************************************)
(* RefreshSessions on small instances: the values its constants take.      *)
(***************************************************************************)
EXTENDS RefreshSessions, TLC

CONSTANT g1

\* Every session id may be minted for the one grant.
AllOfOne == [s \in Sessions |-> g1]

Symmetric == Permutations(Requests) \cup Permutations(Sessions)
=============================================================================
