SPECIFICATION Spec
CONSTANTS
  U24 = 8
  U32 = 16
  U64 = 64
  CsIds = 64
  InitChunkSize = 3
  InitMaxMessageSize = 8
  MediaMessages <- WideMedia
  Commands <- NoCalls
  UserControls <- NoCalls
  WindowSizes <- NoCalls
  ChunkSizes <- NoCalls
  CtorChunkSize = 2
  MaxMessages = 3
  WireCapacity = 2
INVARIANTS
  TimestampsExact
CHECK_DEADLOCK FALSE
