SPECIFICATION FairSpec
CONSTANTS
  NumLocators = 2
  MAX_NUM_TAGS = 2
  NoAddress = NoAddress
  Address = {tag1, tag2}
  MaxReports = 3
  SigIntReports = 0
  Portions <- MCFull
  FailingReports = {1}
  tag1 = tag1
  tag2 = tag2
PROPERTIES
  NewestIsEstimated
  ReadyMeansPosition
