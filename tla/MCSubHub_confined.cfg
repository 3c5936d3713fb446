\* One request of a child token, no administrator.
SPECIFICATION Spec
CONSTANTS
  m1 = m1
  m2 = m2
  m3 = m3
  m4 = m4
  c1 = c1
  c2 = c2
  k1 = k1
  k2 = k2
  n1 = n1
  n2 = n2
  s1 = s1
  s2 = s2
  s3 = s3
  a1 = a1
  a2 = a2
  a3 = a3
  None = None
  Unset = Unset
  MasterIds = {m1}
  ChildIds = {c1}
  CollectionIds = {k1}
  NodeIds = {n1, n2}
  Born = {m1, c1, k1, n1, n2}
  SeedIds = {}
  Off = {k1}
  Admins = {a1}
  AdminCalls <- NoCalls
  Switches = {}
  Limits = {0}
  Horizon = 0
  Expiries = {1}
  MaxRotations = 0
  MaxFields = 1
  Subs = {s1}
  Asks <- ChildAsks
  LegacyNodes = {}
  LogMax = 1
INVARIANTS ChildConfined
