----------------------------- MODULE MCTranscript -----------------------------
EXTENDS Transcript, TLC
CONSTANTS q1, q2, q3, g1, g2
TwoGrants == [q \in Questions |-> IF q = q3 THEN g2 ELSE g1]
Symmetric == Permutations(Conversations) \cup Permutations(Requests) \cup Permutations({q1, q2})
===============================================================================
