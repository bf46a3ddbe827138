SPECIFICATION Spec
CONSTANTS
  t1 = t1
  t2 = t2
  f1 = f1
  f2 = f2
  f3 = f3
  s1 = s1
  s2 = s2
  s3 = s3
  s4 = s4
  g1 = g1
  g2 = g2
  Tabs = {t1, t2}
  Fetches = {f1, f2}
  TabOf <- InTab
  LinkOf <- Address
  Grants = {g1, g2}
  Trials = {g2}
  Sessions = {s1, s2, s3, s4}
  GrantOf <- UnderGrant
  MaxReloads = 1
  NoSession = NoSession
  NoGrant = NoGrant
SYMMETRY Symmetric
CHECK_DEADLOCK FALSE
INVARIANTS
  TypeOK
  JarGoodAtRest
  OnlyLostAnswersCut
  LoneTabStaysIn
  NobodyLeftWaiting
