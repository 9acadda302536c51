SPECIFICATION Spec
CONSTANTS
  t1 = t1
  t2 = t2
  NoTag = NoTag
  Tag = {t1, t2}
  CteTag = {t1, t2}
  Sync = {s1, s2}
  MaxScanReports = 1
  MaxFaults = 1
  Config <- MCConfig
  MaxConfigs = 0
  MaxOutages = 0
INVARIANTS
  StopsOnlyWhenDone
\* The program ends when an assertion fails.
CHECK_DEADLOCK FALSE
