SPECIFICATION Spec
CONSTANTS
  Sizes <- MCSizes
  MaxBytes = 6
  RecordLimit = 2
  KernelCapacity = 3
  MaxSignals = 1
INVARIANTS
  DeliveredAsGiven
  FailuresExplained
PROPERTIES
  SendEnds
  BreakReachesReceiver
CHECK_DEADLOCK FALSE
