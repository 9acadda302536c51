SPECIFICATION FairSpec
CONSTANTS
  QueueLen = 3
  MaxEvents = 5
  MaxCommands = 2
  MaxInterrupts = 1
INVARIANTS
  TypeOK
  NothingLost
PROPERTIES
  ImplementsFifo
  WaitEnds
  EventsArrive
\* A response swallowed by a misread header leaves the host waiting for ever.
CHECK_DEADLOCK FALSE
