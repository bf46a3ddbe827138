SPECIFICATION Spec
CONSTANTS
  Requests = {r1, r2, r3}
  Addresses = {a1, a2}
  Challenges = {c1, c2}
  Browsers = {b1}
  DailyLimit = 2
  CookieDays = 1
  MaxDay = 1
  NoOne = NoOne
CHECK_DEADLOCK FALSE
SYMMETRY Symmetric
INVARIANTS
  TypeOK
  BudgetBalances
  OnePerDay
  RefusalIsTrue
  NobodyStuck
PROPERTIES
  KeptForItsDay
