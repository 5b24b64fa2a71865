SPECIFICATION Spec
CONSTANTS
  U24 = 8
  U32 = 16
  U64 = 64
  CsIds = 64
  InitChunkSize = 2
  InitMaxMessageSize = 4
  PeerMessages <- Regular
  PeerMaxMessages = 2
  WireCapacity = 2
INVARIANTS
  TimestampsAsSent
CHECK_DEADLOCK FALSE
