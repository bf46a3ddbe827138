SPECIFICATION Spec
CONSTANTS
  Requests = {r1, r2, r3}
  g1 = g1
  Grants = {g1}
  Sessions = {s1, s2, s3}
  GrantOf <- AllOfOne
  NoSession = NoSession
  NoOne = NoOne
CHECK_DEADLOCK FALSE
SYMMETRY Symmetric
INVARIANTS
  TypeOK
  OneLiveSession
  ChainIsLinear
  DeadTokenBuysNothing
  OneMessagePerWindow
PROPERTIES
  ImplementsStore
