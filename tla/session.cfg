SPECIFICATION Spec
CONSTANTS
  ChannelCapacity = 2
  Parameters <- AllShapes
  MaxSetups = 2
  MaxMedia = 3
INVARIANTS
  MediaDescribed
  MediaInOrder
  SetupFailsOnlyOnBreak
  AnswersConsumed
PROPERTIES
  SetupEnds
  MediaReturned
CHECK_DEADLOCK FALSE
