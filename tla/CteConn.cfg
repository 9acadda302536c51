SPECIFICATION FairSpec
CONSTANTS
  t1 = t1
  t2 = t2
  NoTag = NoTag
  Tag = {t1, t2, t3}
  CteTag = {t1, t2}
  Handle = {h1, h2}
  MaxConnections = 2
  Allowlists <- MCAllowlists
  MaxScanReports = 1
  MaxFaults = 1
  MaxConfigs = 1
INVARIANTS
  TypeOK
  DbHasNoDuplicates
  DbFollowsConnections
  EventsReachTheirTag
  ScannerNeverStranded
  OneGattStepPending
  RunningTagSendsCte
PROPERTIES
  TagsEndUpRunning
CHECK_DEADLOCK FALSE
