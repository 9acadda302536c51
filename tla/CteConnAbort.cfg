SPECIFICATION Spec
CONSTANTS
  t1 = t1
  t2 = t2
  NoTag = NoTag
  Tag = {t1, t2}
  CteTag = {t1, t2}
  Handle = {h1, h2}
  MaxConnections = 2
  Allowlists <- MCNoAllowlist
  MaxScanReports = 1
  MaxFaults = 1
  MaxConfigs = 0
INVARIANTS
  HandlerReturnsOk
\* A handler that meets a lost connection aborts, and the system stops.
CHECK_DEADLOCK FALSE
