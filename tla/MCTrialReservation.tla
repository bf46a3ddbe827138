-------------------------- MODULE MCTrialReservation --------------------------
(***************************************************************************)
(* TrialReservation on small instances: what may be exchanged in them.     *)
(***************************************************************************)
EXTENDS TrialReservation, TLC

\* Requests, addresses, challenges and browsers are only compared for equality.
Symmetric ==
  Permutations(Requests) \cup Permutations(Addresses)
    \cup Permutations(Challenges) \cup Permutations(Browsers)
=============================================================================
