SPECIFICATION FairSpec
CONSTANTS
  NumLocators = 2
  MAX_NUM_TAGS = 1
  NoAddress = NoAddress
  Address = {tag1, tag2}
  MaxReports = 4
  SigIntReports = 0
  Portions <- MCFull
  FailingReports = {}
  tag1 = tag1
  tag2 = tag2
PROPERTIES
  PositionsUseNewMeasurements
