\* Two requests race for one child token, or one of a master's comes alone, while an administrator
\* edits, disables or deletes the child and time passes.
SPECIFICATION Spec
CONSTANTS
  m1 = m1
  m2 = m2
  m3 = m3
  m4 = m4
  c1 = c1
  c2 = c2
  k1 = k1
  k2 = k2
  n1 = n1
  n2 = n2
  s1 = s1
  s2 = s2
  s3 = s3
  a1 = a1
  a2 = a2
  a3 = a3
  None = None
  Unset = Unset
  MasterIds = {m1}
  ChildIds = {c1}
  CollectionIds = {k1}
  NodeIds = {n1}
  Born = {m1, c1, k1, n1}
  SeedIds = {}
  Off = {}
  Admins = {a1}
  AdminCalls <- ChildCalls
  Switches = {FALSE}
  Limits = {0, 1}
  Horizon = 1
  Expiries = {1, 2}
  MaxRotations = 0
  MaxFields = 1
  Subs = {s1, s2}
  Asks <- ChildAndMaster
  LegacyNodes = {n2}
  LogMax = 1
SYMMETRY SubSymmetry
CONSTRAINT MastersAlone
INVARIANTS TypeOK QuotaKept LogBounded
PROPERTIES QuotaSpec
