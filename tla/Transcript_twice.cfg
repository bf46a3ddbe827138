SPECIFICATION Spec
CONSTANTS
  Requests = {r1, r2}
  q1 = q1
  q2 = q2
  q3 = q3
  g1 = g1
  g2 = g2
  Questions = {q1, q2, q3}
  Grants = {g1, g2}
  GrantOf <- TwoGrants
  Conversations = {c1, c2}
  NoConversation = NoConversation
  NoOne = NoOne
CHECK_DEADLOCK FALSE
INVARIANTS
  QuestionStoredOnce
