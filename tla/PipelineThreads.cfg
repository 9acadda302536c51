SPECIFICATION FairSpec
CONSTANTS
  NumLocators = 2
  MAX_NUM_TAGS = 1
  NoAddress = NoAddress
  Address = {tag1, tag2}
  MaxReports = 3
  SigIntReports = 3
  Portions <- MCShort
  FailingReports = {2, 3}
  tag1 = tag1
  tag2 = tag2
INVARIANTS
  TypeOK
  AnglesAreOfOneReport
  MeasurementsAreOfTheirTag
  PositionsNeedEveryLocator
PROPERTIES
  ThreadsEnd
\* After a SIGINT all threads end.
CHECK_DEADLOCK FALSE
