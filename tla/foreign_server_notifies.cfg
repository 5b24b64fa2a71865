SPECIFICATION Spec
CONSTANTS
  ChannelCapacity = 2
  Parameters <- TwoKeys
  MaxSetups = 1
  MaxMedia = 1
  Refuses = FALSE
  Notifies = TRUE
INVARIANTS
  SetupFailsOnlyOnBreak
CHECK_DEADLOCK FALSE
