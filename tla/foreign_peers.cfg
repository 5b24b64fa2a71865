SPECIFICATION PeersSpec
CONSTANTS
  ChannelCapacity = 2
  Parameters <- TwoKeys
  MaxSetups = 3
  MaxMedia = 1
  Refuses = TRUE
  Notifies = TRUE
  ClientMessages <- AnyMessages
  MaxSent = 4
INVARIANTS
  PublishGranted
  ParametersFromOneMetadata
CHECK_DEADLOCK FALSE
