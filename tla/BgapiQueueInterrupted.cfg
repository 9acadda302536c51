SPECIFICATION Spec
CONSTANTS
  QueueLen = 3
  MaxEvents = 3
  MaxCommands = 1
  MaxInterrupts = 1
INVARIANTS
  DeliveredWhole
