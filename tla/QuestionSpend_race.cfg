SPECIFICATION Spec
CONSTANTS
  Requests = {r1, r2, r3}
  Grants = {g1}
  Keys = {k1, k2}
  Messages = {m1, m2}
  v1 = v1
  v2 = v2
  Versions <- BothVersions
  Version <- AllV2
  MaxQueries <- TwoQuestions
  MaxAttempts = 2
  NoMessage = NoMessage
  NoOne = NoOne
CHECK_DEADLOCK FALSE
SYMMETRY Symmetric
INVARIANTS
  TypeOK
  LedgerBalances
  KeyBuysOneQuestion
  AnswersAreTrue
  HeldRowIsLetGo
PROPERTIES
  ChargeIsOneNewQuestion
