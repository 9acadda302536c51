SPECIFICATION Spec
CONSTANTS
  t1 = t1
  t2 = t2
  Tag = {t1, t2}
  Absent = Absent
  None = None
  ArrayType = {"URA", "DP"}
  DualPolarized = {"DP"}
  Antenna = {0, 1, 2, 3}
  array_size <- MCArraySize
  array_variants <- MCArrayVariants
  array_list <- MCArrayList
  DefaultType = "DP"
  DefaultTimeout = 1
  DefaultDelay = 1
  DefaultLength = 20
  DefaultSlot = 1
  SequenceLimit = 4
  Timeouts = {2, 257}
  Configs <- MCConfigs
INVARIANTS
  TypeOK
  PatternIsVariant
  EstimatorMatchesReceiver
  EstimatorMatchesConfig
  ShuffleIsOneCycle
  OnlyAllowedTags
  CorrectionExpires
PROPERTIES
  CorrectionIsRecent
