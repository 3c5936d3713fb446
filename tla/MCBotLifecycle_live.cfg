SPECIFICATION FairSpec
CONSTANTS
  p1 = p1
  p2 = p2
  p3 = p3
  r1 = r1
  r2 = r2
  noconf = noconf
  envconf = envconf
  conf1 = conf1
  None = None
  Pollers = {p1, p2, p3}
  Requests = {r1, r2}
  Configs <- MCSmallConfigs
  ReadyConfigs <- MCSmallReady
  Calls = {"apply", "session"}
  NoConfig = noconf
  EnvConfig = conf1
  Disconnecting = {r1}
  DbMayFail = FALSE
INVARIANTS
  SnapshotFresh
  OnlyHardApplyStops
PROPERTIES
  RequestsEnd
  StoppedPollersEnd
CHECK_DEADLOCK FALSE
