\* Two administrators create, edit and delete tokens, collections and nodes that refer to each other.
SPECIFICATION Spec
CONSTANTS
  m1 = m1
  m2 = m2
  m3 = m3
  m4 = m4
  c1 = c1
  c2 = c2
  k1 = k1
  k2 = k2
  n1 = n1
  n2 = n2
  s1 = s1
  s2 = s2
  s3 = s3
  a1 = a1
  a2 = a2
  a3 = a3
  None = None
  Unset = Unset
  MasterIds = {m1, m2, m4}
  ChildIds = {c1, c2}
  CollectionIds = {k1, k2}
  NodeIds = {n1, n2}
  Born = {m1, m2, c1, k1, n1}
  SeedIds = {m4}
  Off = {}
  Admins = {a1, a2}
  AdminCalls <- StoreCalls
  Switches = {FALSE}
  Limits = {0, 1}
  Horizon = 0
  Expiries = {1}
  MaxRotations = 1
  MaxFields = 1
  Subs = {}
  Asks <- NoAsks
  LegacyNodes = {}
  LogMax = 1
SYMMETRY AdminSymmetry
INVARIANTS ForeignKeys
PROPERTIES LastMasterNeedsARace RestartRevives LimitKeptUnlessCrossed ConfinementKept
