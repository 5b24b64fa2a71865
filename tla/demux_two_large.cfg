SPECIFICATION Spec
CONSTANTS
  U24 = 8
  U32 = 16
  U64 = 64
  CsIds = 64
  InitChunkSize = 2
  InitMaxMessageSize = 4
  PeerMessages <- BothLarge
  PeerMaxMessages = 3
  WireCapacity = 2
INVARIANTS
  BufferHolds
CHECK_DEADLOCK FALSE
