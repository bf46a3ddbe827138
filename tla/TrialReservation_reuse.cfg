SPECIFICATION Spec
CONSTANTS
  Requests = {r1, r2, r3}
  Addresses = {a1, a2}
  Challenges = {c1, c2}
  Browsers = {b1, b2}
  DailyLimit = 2
  CookieDays = 2
  MaxDay = 1
  NoOne = NoOne
CHECK_DEADLOCK FALSE
SYMMETRY Symmetric
INVARIANTS
  OneTrialPerChallenge
