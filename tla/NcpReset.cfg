SPECIFICATION FairSpec
CONSTANTS
  MAX_NCP_BOOT_N = 2
  QueueCapacity = 2
  MaxConfigs = 2
  MaxLosses = 3
  MaxCrashes = 1
  MaxEvents = 2
INVARIANTS
  TypeOK
  TimerGuardsReset
  RetryBudget
  EventsOfThisBoot
  ResponsesAreConsumed
PROPERTIES
  EndsUpScanning
\* The program ends when a reset fails for good or a boot handler is refused.
CHECK_DEADLOCK FALSE
