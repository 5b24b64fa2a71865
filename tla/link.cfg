SPECIFICATION Spec
CONSTANTS
  U24 = 16
  U32 = 32
  U64 = 128
  CsIds = 64
  InitChunkSize = 3
  InitMaxMessageSize = 8
  MediaMessages <- MixedMedia
  Commands <- SomeCommands
  UserControls <- SomeUserControls
  WindowSizes <- SomeWindowSizes
  ChunkSizes <- ChunkSizeChanges
  CtorChunkSize = 2
  MaxMessages = 4
  WireCapacity = 2
INVARIANTS
  TypeOK
  InSync
  BufferHolds
  DeliveredInOrder
  ContextsAgree
PROPERTIES
  CallsEnd
  BreakIsNoticed
  ImplementsChannel
CHECK_DEADLOCK FALSE
