SPECIFICATION FairSpec
CONSTANTS
  t1 = t1
  t2 = t2
  NoTag = NoTag
  Tag = {t1, t2}
  CteTag = {t1, t2}
  Sync = {s1, s2}
  MaxScanReports = 1
  MaxFaults = 1
  Config <- MCConfig
  MaxConfigs = 1
  MaxOutages = 1
INVARIANTS
  TypeOK
  DbFollowsSyncs
  ScannerNeverStranded
  OnlyAllowedTags
  SubscriptionsSettle
PROPERTIES
  TagsEndUpSynced
\* The program ends when an assertion fails.
CHECK_DEADLOCK FALSE
