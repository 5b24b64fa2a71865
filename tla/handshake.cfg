SPECIFICATION HandshakeSpec
CONSTANTS
  BlockLen = 4
  Capacity <- OneDirectionHolds
INVARIANTS
  ReturnedAfterEcho
  NothingLeftOver
  NeverStuck
PROPERTIES
  HandshakeEnds
CHECK_DEADLOCK FALSE
