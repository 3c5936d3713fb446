SPECIFICATION Spec
CONSTANTS
  p1 = p1
  p2 = p2
  p3 = p3
  r1 = r1
  r2 = r2
  noconf = noconf
  envconf = envconf
  conf1 = conf1
  None = None
  Pollers = {p1, p2, p3}
  Requests = {r1, r2}
  Configs <- MCConfigs
  ReadyConfigs <- MCReady
  Calls = {"save", "apply", "reset", "import", "session"}
  NoConfig = noconf
  EnvConfig = envconf
  Disconnecting = {r1, r2}
  DbMayFail = TRUE
SYMMETRY Symmetry
INVARIANTS
  TypeOK
  SettingsExclusive
  NoOrphanPoller
  RunningIsTruthful
  StartNeverRefused
PROPERTY SupervisorSpec
CHECK_DEADLOCK FALSE
