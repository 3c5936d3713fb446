SPECIFICATION Spec
CONSTANTS
  p1 = p1
  p2 = p2
  p3 = p3
  r1 = r1
  r2 = r2
  noconf = noconf
  envconf = envconf
  conf1 = conf1
  None = None
  Pollers = {p1, p2}
  Requests = {r1}
  Configs <- MCSmallConfigs
  ReadyConfigs <- MCSmallReady
  Calls = {"apply"}
  NoConfig = noconf
  EnvConfig = conf1
  Disconnecting = {}
  DbMayFail = FALSE
INVARIANT RestartedWhenReady
CHECK_DEADLOCK FALSE
