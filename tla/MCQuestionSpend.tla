--------------------------- MODULE MCQuestionSpend ---------------------------
(***************************************************************************)
(* QuestionSpend on small instances: the values its constants take for TLC *)
(***************************************************************************)
EXTENDS QuestionSpend, TLC

CONSTANTS v1, v2

BothVersions == {v1, v2}

\* Every grant is a v2 grant, as every grant issued now is.
AllV2 == [g \in Grants |-> v2]

OneQuestion  == [g \in Grants |-> 1]
TwoQuestions == [g \in Grants |-> 2]

\* Requests, keys and messages are only ever compared for equality.
Symmetric ==
  Permutations(Requests) \cup Permutations(Keys) \cup Permutations(Messages)
=============================================================================
