SPECIFICATION Spec
CONSTANTS
  U24 = 8
  U32 = 16
  U64 = 64
  CsIds = 64
  InitChunkSize = 2
  InitMaxMessageSize = 4
  PeerMessages <- All
  PeerMaxMessages = 4
  WireCapacity = 2
INVARIANTS
  StaysFramed
  BufferHolds
  Demultiplexed
  PartialsMatch
  ThrowsOnlyOnMalformed
PROPERTIES
  CompletedArrive
CHECK_DEADLOCK FALSE
