SPECIFICATION Spec
CONSTANTS
  b1 = b1  b2 = b2  b3 = b3  r1 = r1  r2 = r2  r3 = r3
  p1 = p1  p2 = p2  k1 = k1  good = good  bad = bad  None = None  Absent = Absent
  Clients = {b1, b2}
  Browsers = {b1}
  Requests = {r1, r2, r3}
  Buckets = {"login", "api"}
  MaxOf <- SmallMax
  Window = 2
  CleanAge = 4
  MaxEntries = 1
  Passwords = {p1, p2}
  Keys = {k1}
  Confs = {good, bad}
  BadConfs = {bad}
  Payloads <- PasswordOnly
  Environments <- Bare
  DbMayFail = FALSE
  Loads <- OneApply
CHECK_DEADLOCK FALSE
INVARIANTS ApplyStaysSignedIn
