SPECIFICATION Spec
CONSTANTS
  Requests = {r1, r2}
  Grants = {g1}
  Keys = {k1}
  Messages = {m1}
  v1 = v1
  v2 = v2
  Versions <- BothVersions
  Version <- AllV2
  MaxQueries <- OneQuestion
  MaxAttempts = 2
  NoMessage = NoMessage
  NoOne = NoOne
CHECK_DEADLOCK FALSE
INVARIANTS
  PaidQuestionNotRefusedForQuota
