SPECIFICATION Spec
CONSTANTS
  q1 = q1
  q2 = q2
  Questions = {q1, q2}
  MaxQueries = 2
  MaxAttempts = 3
  MaxAsks = 2
  MaxReloads = 1
CHECK_DEADLOCK FALSE
INVARIANTS
  TypeOK
  PaidOnce
  BubblesAreOwn
  NeverShutEarly
  NothingForgotten
PROPERTIES
  ComposerReopens
