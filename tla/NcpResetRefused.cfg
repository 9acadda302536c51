SPECIFICATION Spec
CONSTANTS
  MAX_NCP_BOOT_N = 2
  QueueCapacity = 2
  MaxConfigs = 0
  MaxLosses = 0
  MaxCrashes = 0
  MaxEvents = 1
INVARIANTS
  HandlerReturnsOk
\* The program ends when a reset fails for good or a boot handler is refused.
CHECK_DEADLOCK FALSE
