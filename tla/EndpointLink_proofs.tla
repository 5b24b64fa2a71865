------------------------- MODULE EndpointLink_proofs -------------------------
(***************************************************************************)
(* Theorems about EndpointLink, for all values of its constants.  First     *)
(* what needs no history: the types, and what a chunk size and a status may *)
(* become.  Then the buffers, as long as one chunk stream alone carries     *)
(* messages longer than the first m_MaxMessageSize.  The client session     *)
(* keeps to that: it sends all media on chunk stream 4.  Without it         *)
(* BufferHolds fails, because m_MaxMessageSize is shared by the chunk       *)
(* streams and the buffers are not.  Last what one direction of a           *)
(* connection promises: InSync, DeliveredInOrder, ContextsAgree and the     *)
(* safety part of ImplementsChannel, for any messages that a header can     *)
(* describe, any chunk sizes, bounds and widths.  That invariant gives the  *)
(* sender, every chunk on the wire and the receiver a position, which is a  *)
(* message and the number of its bytes that lie behind; whatever is         *)
(* remembered at a position is a function of the messages before it.  What  *)
(* holds for any sender is in EndpointInput_proofs.                         *)
(***************************************************************************)
EXTENDS EndpointLink, EndpointInput_proofs

-----------------------------------------------------------------------------
(* Messages that the sender can be given are messages.                      *)

\* The four bytes of an unsigned integer are bytes.
LEMMA U32BytesType ==
  ASSUME NEW n \in Nat
  PROVE  U32Bytes(n) \in Seq(Byte) /\ Len(U32Bytes(n)) = 4
<1>1. \A k \in Int : k % 256 \in Byte
  BY DEF Byte
<1>2. \A k \in Nat \ {0} : n \div k \in Int
  OBVIOUS
<1> QED
  BY <1>1, <1>2 DEF U32Bytes

\* A SET_CHUNK_SIZE has the four bytes that its Parse reads.
WellFormed(m) == m.type = "SET_CHUNK_SIZE" => Len(m.data) = 4

LEMMA ControlMessageType ==
  ASSUME NEW type \in MessageType, NEW data \in Seq(Byte)
  PROVE  /\ ControlMessage(type, data) \in Message
         /\ ControlMessage(type, data).type = type
         /\ ControlMessage(type, data).data = data
  BY WidthAssumption DEF ControlMessage, Message

\* Every application call sends a well-formed message.
LEMMA ApplicationCallSends ==
  ASSUME ApplicationCall
  PROVE  \E m \in Message : WellFormed(m) /\ SendRTMPMessage(m)
<1>1. ASSUME NEW m \in MediaMessages, SendRTMPMessage(m)
      PROVE  m \in Message /\ WellFormed(m)
  BY MessagesAssumption DEF WellFormed
<1>2. ASSUME NEW d \in Commands
      PROVE  CommandMessage(d) \in Message /\ WellFormed(CommandMessage(d))
  BY MessagesAssumption, WidthAssumption DEF CommandMessage, Message, MessageType, WellFormed
<1>3. ASSUME NEW d \in UserControls
      PROVE  LET m == ControlMessage("USER_CONTROL_MESSAGE", d)
             IN  m \in Message /\ WellFormed(m)
  BY MessagesAssumption, ControlMessageType DEF MessageType, WellFormed
<1>4. ASSUME NEW n \in WindowSizes
      PROVE  LET m == ControlMessage("WINDOW_ACKNOWLEDGEMENT_SIZE", U32Bytes(n))
             IN  m \in Message /\ WellFormed(m)
  BY ArgumentsAssumption, U32BytesType, ControlMessageType DEF MessageType, WellFormed
<1>5. ASSUME NEW n \in WindowSizes
      PROVE  LET m == ControlMessage("SET_PEER_BANDWITH", U32Bytes(n) \o <<2, 0, 0, 0>>)
             IN  m \in Message /\ WellFormed(m)
  <2>1. U32Bytes(n) \in Seq(Byte)
    BY ArgumentsAssumption, U32BytesType
  <2>2. <<2, 0, 0, 0>> \in Seq(Byte)
    BY DEF Byte
  <2>3. U32Bytes(n) \o <<2, 0, 0, 0>> \in Seq(Byte)
    BY <2>1, <2>2, ConcatProperties
  <2>4. "SET_PEER_BANDWITH" \in MessageType /\ "SET_PEER_BANDWITH" # "SET_CHUNK_SIZE"
    BY DEF MessageType
  <2> DEFINE d == U32Bytes(n) \o <<2, 0, 0, 0>>
  <2>5. d \in Seq(Byte)
    BY <2>3
  <2> HIDE DEF d
  <2>6. /\ ControlMessage("SET_PEER_BANDWITH", d) \in Message
        /\ ControlMessage("SET_PEER_BANDWITH", d).type = "SET_PEER_BANDWITH"
    BY <2>4, <2>5, ControlMessageType
  <2>7. WellFormed(ControlMessage("SET_PEER_BANDWITH", d))
    BY <2>4, <2>6 DEF WellFormed
  <2> QED
    BY <2>6, <2>7 DEF d
<1>6. ASSUME NEW n \in ChunkSizes
      PROVE  SetChunkSizeMessage(n) \in Message /\ WellFormed(SetChunkSizeMessage(n))
  BY ArgumentsAssumption, U32BytesType, ControlMessageType
  DEF MessageType, WellFormed, SetChunkSizeMessage
<1> QED
  BY <1>1, <1>2, <1>3, <1>4, <1>5, <1>6
  DEF ApplicationCall, SendCommand, SendUserControlMessage, SendControlMessage,
      Send_WindowsAcknowledgementSize, Send_SetPeerBandwith, ChangeChunkSizeOutput

-----------------------------------------------------------------------------
(* Types of headers, chunk streams and maps.                                *)

LEMMA ModBelow == \A a \in Nat : a % CsIds \in 0 .. a
<1>1. ASSUME NEW a \in Nat, a < CsIds
      PROVE  a % CsIds = a
  BY <1>1, Widths
<1>2. ASSUME NEW a \in Nat
      PROVE  a % CsIds \in 0 .. CsIds - 1
  BY Widths
<1> QED
  BY <1>1, <1>2, Widths

LEMMA FirstHeaderType ==
  ASSUME NEW ctx \in Context, NEW m \in Message
  PROVE  FirstHeader(ctx, m) \in Header
  BY HeaderTypes DEF FirstHeader

-----------------------------------------------------------------------------
(* Type correctness.  HandleMessage and ChangeChunkSizeOutput turn payload  *)
(* into a chunk size, so the invariant also says that it is there.          *)

SentWellFormed == \A i \in 1 .. Len(sent) : WellFormed(sent[i])

TypeInv == TypeOK /\ SentWellFormed

LEMMA CurrentType ==
  ASSUME TypeInv
  PROVE  Current \in Message /\ WellFormed(Current) /\ Current.cs \in ChunkStreamId
         /\ Current.data \in Seq(Byte) /\ Len(sent) \in Nat \ {0}
<1>1. Len(sent) \in 1 .. Len(sent)
  BY EmptySeq DEF TypeInv, TypeOK
<1>2. Current \in Message /\ WellFormed(Current)
  BY <1>1 DEF TypeInv, TypeOK, SentWellFormed, Current
<1>3. Current.cs \in ChunkStreamId /\ Current.data \in Seq(Byte)
  BY <1>2 DEF Message, ChunkStreamId
<1>4. Len(sent) \in Nat \ {0}
  BY <1>1 DEF TypeInv, TypeOK
<1> QED
  BY <1>2, <1>3, <1>4

LEMMA OutContextType ==
  ASSUME TypeInv, NEW id \in ChunkStreamId
  PROVE  OutContext(id) \in Context
  BY NewContextType DEF TypeInv, TypeOK, MapTo, OutContext

LEMMA BytesToSendType ==
  ASSUME TypeInv
  PROVE  /\ bytes_to_send \in Nat
         /\ bytes_sent + bytes_to_send \in 0 .. Len(Current.data)
<1>1. bytes_sent \in 0 .. Len(Current.data) /\ m_ChunkSizeSend \in Nat
      /\ Len(Current.data) \in Nat
  BY CurrentType DEF TypeInv, TypeOK
<1> QED
  BY <1>1 DEF bytes_to_send, Smaller

LEMMA NextChunkType ==
  ASSUME TypeInv
  PROVE  NextChunk \in Chunk
<1>1. Current.cs % CsIds \in ChunkStreamId
  <2>0. \A c \in ChunkStreamId : c \in Nat /\ c <= 255
    BY DEF ChunkStreamId
  <2>1. Current.cs \in Nat /\ Current.cs <= 255
    <3>1. Current.cs \in ChunkStreamId
      BY CurrentType
    <3> QED
      BY <2>0, <3>1
  <2>2. Current.cs % CsIds \in 0 .. Current.cs
    BY <2>1, ModBelow
  <2> QED
    BY <2>1, <2>2 DEF ChunkStreamId
<1>2. ChunkHeader \in Header
  <2>1. Header3 \in Header
    BY DEF Header3, Header
  <2> QED
    BY <2>1, CurrentType, OutContextType, FirstHeaderType DEF ChunkHeader
<1>3. SubSeq(Current.data, bytes_sent + 1, bytes_sent + bytes_to_send) \in Seq(Byte)
  <2>1. bytes_sent \in Nat /\ bytes_sent + bytes_to_send \in 0 .. Len(Current.data)
    BY BytesToSendType, CurrentType DEF TypeInv, TypeOK
  <2> QED
    BY <2>1, CurrentType, SubSeqProperties
<1> QED
  BY <1>1, <1>2, <1>3, CurrentType DEF NextChunk, Chunk, TypeInv, TypeOK

\* What is received is typed.
LEMMA Received ==
  ASSUME TypeInv
  PROVE  InputType
  BY DEF TypeInv, TypeOK, InputType

LEMMA HeadOfWire ==
  ASSUME TypeInv, wire # << >>
  PROVE  Incoming \in Chunk /\ Readable(Incoming) /\ Tail(wire) \in Seq(Chunk)
<1>1. Incoming \in Chunk /\ Tail(wire) \in Seq(Chunk)
  BY HeadTailProperties DEF TypeInv, TypeOK, Incoming
<1> QED
  BY <1>1 DEF Chunk, Readable

LEMMA StreamType ==
  ASSUME TypeInv, wire # << >>
  PROVE  /\ Incoming \in Chunk /\ Stream \in ChunkStream
         /\ Stream.bytes = GetChunkStreamInput(Incoming.cs).bytes
         /\ Tail(wire) \in Seq(Chunk)
  BY Received, HeadOfWire, StreamTyped

LEMMA FilledType ==
  ASSUME TypeInv, wire # << >>
  PROVE  /\ Filled \in ChunkStream
         /\ [Filled EXCEPT !.bytes = << >>] \in ChunkStream
         /\ MessageOf(Incoming.cs, Filled) \in Message
  BY Received, HeadOfWire, FilledTyped

\* A chunk is read only when there is one.
LEMMA ChunkToRead ==
  ASSUME TypeInv, ReceiveChunk
  PROVE  /\ wire # << >> /\ wire' = Tail(wire) /\ link' = link
         /\ Incoming \in Chunk /\ Readable(Incoming)
<1>1. ReadHeaders
  BY DEF ReceiveChunk, ReceivePart, ReceiveLast, ReceiveNothing, LoseFraming
<1> QED
  BY <1>1, HeadOfWire DEF ReadHeaders

LEMMA InitTypeInv ==
  ASSUME Init
  PROVE  TypeInv
<1>1. SetChunkSizeMessage(CtorChunkSize) \in Message
      /\ WellFormed(SetChunkSizeMessage(CtorChunkSize))
      /\ Len(SetChunkSizeMessage(CtorChunkSize).data) = 4
  BY ArgumentsAssumption, U32BytesType, ControlMessageType
  DEF MessageType, WellFormed, SetChunkSizeMessage
<1>2. MapTo(<< >>, Context) /\ MapTo(<< >>, ChunkStream)
  BY DEF MapTo
<1>3. sent \in Seq(Message) /\ sent # << >> /\ Len(sent) = 1 /\ sent[1] = SetChunkSizeMessage(CtorChunkSize)
  BY <1>1 DEF Init, OutputInit
<1>4. bytes_sent \in 0 .. Len(Current.data)
  BY <1>1, <1>3 DEF Init, OutputInit, Current
<1>5. SentWellFormed
  BY <1>1, <1>3 DEF SentWellFormed
<1>6. m_ChunkSizeSend \in Nat /\ m_ChunkSizeReceive \in Nat /\ m_MaxMessageSize \in Nat
  BY SizeAssumption DEF Init, OutputInit, InputInit
<1> QED
  BY <1>2, <1>3, <1>4, <1>5, <1>6 DEF Init, OutputInit, InputInit, TypeInv, TypeOK

\* The sender's steps.
LEMMA SendTypeInv ==
  ASSUME TypeInv, NEW m \in Message, WellFormed(m), SendRTMPMessage(m), UNCHANGED inputVars
  PROVE  TypeInv'
<1> USE DEF SendRTMPMessage, inputVars, transportVars
<1>1. sent' \in Seq(Message) /\ sent' # << >> /\ sent'[Len(sent')] = m
      /\ \A i \in 1 .. Len(sent') : WellFormed(sent'[i])
  BY AppendProperties, CurrentType DEF TypeInv, TypeOK, SentWellFormed
<1>2. bytes_sent' \in 0 .. Len(Current'.data)
  BY <1>1 DEF Current, Message
<1> QED
  BY <1>1, <1>2 DEF TypeInv, TypeOK, SentWellFormed

LEMMA SendChunkTypeInv ==
  ASSUME TypeInv, SendChunk, UNCHANGED inputVars
  PROVE  TypeInv'
<1> USE DEF SendChunk, inputVars
<1>1. wire' \in Seq(Chunk)
  BY NextChunkType, AppendProperties DEF TypeInv, TypeOK
<1>2. Current' = Current /\ bytes_sent' \in 0 .. Len(Current'.data)
  BY BytesToSendType DEF Current
<1> QED
  BY <1>1, <1>2 DEF TypeInv, TypeOK, SentWellFormed

LEMMA CurrentChunkSize ==
  ASSUME TypeInv
  PROVE  ChunkSizeAfter(Current, m_ChunkSizeSend) \in Nat
<1>1. Current \in Message /\ WellFormed(Current) /\ m_ChunkSizeSend \in Nat
  BY CurrentType DEF TypeInv, TypeOK
<1>2. \A m \in Message : WellFormed(m) /\ m.type = "SET_CHUNK_SIZE" => Len(m.data) >= 4
  <2>1. 4 >= 4
    OBVIOUS
  <2> QED
    BY <2>1 DEF WellFormed
<1> QED
  BY <1>1, <1>2, ChunkSizeAfterType

LEMMA SendReturnsTypeInv ==
  ASSUME TypeInv, SendReturns, UNCHANGED inputVars
  PROVE  TypeInv'
<1> USE DEF SendReturns, inputVars, transportVars
<1>1. MapTo(m_ChunkStreamsOutput', Context)
  <2>1. MapTo(m_ChunkStreamsOutput, Context)
    BY DEF TypeInv, TypeOK
  <2>2. Current.cs \in ChunkStreamId /\ ContextOf(Current) \in Context
    BY CurrentType, ContextOfType
  <2>3. MapTo(Put(m_ChunkStreamsOutput, Current.cs, ContextOf(Current)), Context)
    BY <2>1, <2>2, PutType
  <2> QED
    BY <2>3
<1>2. m_ChunkSizeSend' \in Nat
  BY CurrentChunkSize
<1>3. bytes_sent' \in 0 .. Len(Current'.data)
  BY DEF TypeInv, TypeOK, Current
<1> QED
  BY <1>1, <1>2, <1>3 DEF TypeInv, TypeOK, SentWellFormed

LEMMA SendThrowsTypeInv ==
  ASSUME TypeInv, SendThrows, UNCHANGED inputVars
  PROVE  TypeInv'
<1> USE DEF SendThrows, inputVars, transportVars
<1>1. bytes_sent' \in 0 .. Len(Current'.data)
  BY DEF TypeInv, TypeOK, Current
<1> QED
  BY <1>1 DEF TypeInv, TypeOK, SentWellFormed

LEMMA OutputTypeInv ==
  ASSUME TypeInv, Output
  PROVE  TypeInv'
<1>1. CASE ApplicationCall
  BY <1>1, ApplicationCallSends, SendTypeInv DEF Output
<1> QED
  BY <1>1, SendChunkTypeInv, SendReturnsTypeInv, SendThrowsTypeInv
  DEF Output, OutputNext

LEMMA CurrentUnchanged ==
  ASSUME TypeInv, UNCHANGED outputVars
  PROVE  /\ Current' = Current
         /\ bytes_sent' \in 0 .. Len(Current'.data)
  BY DEF TypeInv, TypeOK, Current, outputVars

\* The receiver's steps.
LEMMA InputTypeInv ==
  ASSUME TypeInv, Input
  PROVE  TypeInv'
<1>1. InputType'
  BY Received, ChunkToRead, InputTypeStep DEF Input
<1>2. wire' \in Seq(Chunk) /\ link' = link
  <2>1. CASE ReceiveChunk
    BY <2>1, ChunkToRead, HeadTailProperties DEF TypeInv, TypeOK
  <2>2. CASE ReceiveThrows \/ HandleMessage \/ HandleThrows
    BY <2>2 DEF ReceiveThrows, HandleMessage, HandleThrows, transportVars, TypeInv, TypeOK
  <2> QED
    BY <2>1, <2>2 DEF Input, InputNext
<1> QED
  BY <1>1, <1>2, CurrentUnchanged
  DEF Input, InputType, outputVars, TypeInv, TypeOK, SentWellFormed

LEMMA DisconnectTypeInv ==
  ASSUME TypeInv, Disconnect
  PROVE  TypeInv'
<1>1. wire' \in Seq(Chunk)
  BY SubSeqProperties DEF Disconnect, TypeInv, TypeOK
<1> QED
  BY <1>1, CurrentUnchanged DEF Disconnect, inputVars, outputVars, TypeInv, TypeOK, SentWellFormed

LEMMA StutterTypeInv ==
  ASSUME TypeInv, UNCHANGED vars
  PROVE  TypeInv'
  BY CurrentUnchanged
  DEF vars, inputVars, outputVars, transportVars, TypeInv, TypeOK, SentWellFormed

\* The type invariant and the presence of the chunk size in a SET_CHUNK_SIZE
\* hold in every reachable state.
THEOREM TypeCorrect == Spec => []TypeInv
<1>1. TypeInv /\ [Next]_vars => TypeInv'
  BY OutputTypeInv, InputTypeInv, DisconnectTypeInv, StutterTypeInv DEF Next
<1> QED
  BY <1>1, InitTypeInv, PTL DEF Spec

\* Every variable of a direction keeps its type: TypeOK.
THEOREM TypeOKHolds == Spec => []TypeOK
<1>1. TypeInv => TypeOK
  BY DEF TypeInv
<1> QED
  BY <1>1, TypeCorrect, PTL

-----------------------------------------------------------------------------
(* The buffers.                                                             *)

\* One chunk stream alone carries messages longer than the first m_MaxMessageSize.
OneLargeStream ==
  \A m \in AppMessages \cup {SetChunkSizeMessage(CtorChunkSize)} :
    m.cs % CsIds # Large => Len(m.data) <= InitMaxMessageSize

-----------------------------------------------------------------------------
(* The invariant: lengths on other chunk streams stay within the first      *)
(* size, from the calls through the headers in flight to the receiver.      *)

SentFit ==
  \A i \in 1 .. Len(sent) : Fits(sent[i].cs % CsIds, Len(sent[i].data))

WireFit == \A i \in 1 .. Len(wire) : Announced(wire[i])

BufferInv == SentFit /\ WireFit /\ BuffersFit

-----------------------------------------------------------------------------
\* What the application may send fits.
LEMMA CallsFit ==
  ASSUME OneLargeStream, ApplicationCall
  PROVE  \E m \in AppMessages : SendRTMPMessage(m)
  BY DEF ApplicationCall, AppMessages, SendCommand, SendUserControlMessage, SendControlMessage,
     Send_WindowsAcknowledgementSize, Send_SetPeerBandwith, ChangeChunkSizeOutput,
     SetChunkSizeMessage

\* The header of a chunk announces no more than the message holds.
LEMMA HeaderAnnounces ==
  ASSUME TypeInv, SentFit
  PROVE  Announced(NextChunk)
<1>1. Current \in Message /\ Fits(Current.cs % CsIds, Len(Current.data))
      /\ Len(Current.data) \in Nat
  <2>1. Len(sent) \in 1 .. Len(sent)
    BY CurrentType
  <2> QED
    BY <2>1, CurrentType DEF SentFit, Current
<1>2. Len(Current.data) % U24 \in 0 .. Len(Current.data)
  BY <1>1, CutLength
<1>3. Fits(Current.cs % CsIds, Len(Current.data) % U24)
  BY <1>1, <1>2, SizeAssumption DEF Fits
<1>4. ChunkHeader.fmt \in {0, 1} => ChunkHeader.len = Len(Current.data) % U24
  BY DEF ChunkHeader, FirstHeader, Header0, Header1, Header2, Header3
<1> QED
  BY <1>3, <1>4 DEF Announced, NextChunk

LEMMA InitBuffer ==
  ASSUME OneLargeStream, Init
  PROVE  BufferInv
<1>1. SentFit
  BY DEF Init, OutputInit, SentFit, OneLargeStream, Fits
<1>2. WireFit
  BY DEF Init, WireFit
<1>3. BuffersFit
  BY InitBuffersFit DEF Init
<1> QED
  BY <1>1, <1>2, <1>3 DEF BufferInv

-----------------------------------------------------------------------------
\* The sender's steps and the break of the connection.
LEMMA SendBuffer ==
  ASSUME OneLargeStream, TypeInv, BufferInv, NEW m \in AppMessages, SendRTMPMessage(m),
         UNCHANGED inputVars
  PROVE  BufferInv'
<1>1. sent \in Seq(Message) /\ sent' = Append(sent, m)
  BY DEF TypeInv, TypeOK, SendRTMPMessage
<1>2. Fits(m.cs % CsIds, Len(m.data))
  BY DEF OneLargeStream, Fits
<1>3. SentFit'
  BY <1>1, <1>2 DEF BufferInv, SentFit
<1>4. WireFit' /\ BuffersFit'
  BY DEF SendRTMPMessage, transportVars, inputVars, BufferInv, WireFit, BuffersFit, StreamsFit, LargestKnown
<1> QED
  BY <1>3, <1>4 DEF BufferInv

LEMMA SendChunkBuffer ==
  ASSUME TypeInv, BufferInv, SendChunk, UNCHANGED inputVars
  PROVE  BufferInv'
<1>1. wire \in Seq(Chunk) /\ wire' = Append(wire, NextChunk) /\ Announced(NextChunk)
  BY HeaderAnnounces DEF TypeInv, TypeOK, SendChunk, BufferInv
<1>2. WireFit'
  BY <1>1 DEF BufferInv, WireFit
<1>3. SentFit' /\ BuffersFit'
  BY DEF SendChunk, inputVars, BufferInv, SentFit, BuffersFit, StreamsFit, LargestKnown
<1> QED
  BY <1>2, <1>3 DEF BufferInv

LEMMA OutputBuffer ==
  ASSUME OneLargeStream, TypeInv, BufferInv, Output
  PROVE  BufferInv'
<1>1. CASE ApplicationCall
  BY <1>1, CallsFit, SendBuffer DEF Output
<1>2. CASE SendReturns \/ SendThrows
  BY <1>2 DEF Output, SendReturns, SendThrows, transportVars, inputVars, BufferInv, SentFit,
     WireFit, BuffersFit, StreamsFit, LargestKnown
<1> QED
  BY <1>1, <1>2, SendChunkBuffer DEF Output, OutputNext

LEMMA DisconnectBuffer ==
  ASSUME TypeInv, BufferInv, Disconnect
  PROVE  BufferInv'
<1>1. PICK k \in 0 .. Len(wire) : wire' = SubSeq(wire, 1, k)
  BY DEF Disconnect
<1>2. wire \in Seq(Chunk)
  BY DEF TypeInv, TypeOK
<1>3. Len(wire') = k /\ \A i \in 1 .. k : wire'[i] = wire[i]
  BY <1>1, <1>2, SubSeqProperties
<1>4. WireFit'
  BY <1>2, <1>3 DEF BufferInv, WireFit
<1>5. SentFit' /\ BuffersFit'
  BY DEF Disconnect, outputVars, inputVars, BufferInv, SentFit, BuffersFit, StreamsFit, LargestKnown
<1> QED
  BY <1>4, <1>5 DEF BufferInv

\* The receiver's steps.
LEMMA InputBuffer ==
  ASSUME TypeInv, BufferInv, Input
  PROVE  BufferInv'
<1>1. ASSUME ReceiveChunk
      PROVE  Announced(Incoming) /\ WireFit'
  <2>1. wire \in Seq(Chunk) /\ wire # << >> /\ wire' = Tail(wire)
    BY <1>1, ChunkToRead DEF TypeInv, TypeOK
  <2>2. Len(wire') = Len(wire) - 1 /\ \A i \in 1 .. Len(wire') : wire'[i] = wire[i + 1]
    BY <2>1, HeadTailProperties
  <2>3. Incoming = wire[1] /\ 1 \in 1 .. Len(wire)
    BY <2>1, EmptySeq DEF Incoming
  <2> QED
    BY <2>1, <2>2, <2>3 DEF BufferInv, WireFit
<1>2. BuffersFit'
  BY <1>1, Received, ChunkToRead, BufferStep DEF Input, BufferInv
<1>3. WireFit'
  <2>1. CASE ReceiveThrows \/ HandleMessage \/ HandleThrows
    BY <2>1 DEF ReceiveThrows, HandleMessage, HandleThrows, transportVars, BufferInv, WireFit
  <2> QED
    BY <1>1, <2>1 DEF Input, InputNext
<1>4. SentFit'
  BY DEF Input, outputVars, BufferInv, SentFit
<1> QED
  BY <1>2, <1>3, <1>4 DEF BufferInv

LEMMA StutterBuffer ==
  ASSUME BufferInv, UNCHANGED vars
  PROVE  BufferInv'
  BY DEF vars, transportVars, outputVars, inputVars, BufferInv, SentFit, WireFit, BuffersFit,
     StreamsFit, LargestKnown

\* Every message fits the buffer of its chunk stream: BufferHolds, provided that
\* one chunk stream alone carries messages longer than the first size.
THEOREM BufferHoldsForOneLargeStream ==
  ASSUME OneLargeStream
  PROVE  Spec => []BufferHolds
<1>1. BufferInv => BufferHolds
  BY DEF BufferInv, BuffersFit, StreamsFit, StreamFits, BufferHolds
<1>2. Init => BufferInv
  BY InitBuffer
<1>3. TypeInv /\ BufferInv /\ [Next]_vars => BufferInv'
  BY OutputBuffer, InputBuffer, DisconnectBuffer, StutterBuffer DEF Next
<1> QED
  BY <1>1, <1>2, <1>3, TypeCorrect, PTL DEF Spec

-----------------------------------------------------------------------------
(* What a message is known by once its first header is read.                *)

LEMMA CarriedExpressible ==
  ASSUME NEW m \in Message, Carried(m)
  PROVE  Expressible(m)
  BY Widths DEF Carried, Expressible, Message

\* The first header of a message turns the context before it into its own.
LEMMA FirstHeaderRead ==
  ASSUME NEW in \in ChunkStream, NEW ctx \in Context, NEW m \in Message,
         Expressible(m), NEW exact \in BOOLEAN, exact \/ WholeBytes, exact => m.ts < U24,
         Between(in), SameFields(in, ctx, exact)
  PROVE  SameFields(ApplyHeader(in, FirstHeader(ctx, m)), ContextOf(m), exact)
<1>1. CASE ~ContinuesStream(ctx, m)
  BY <1>1, Header0Read DEF FirstHeader
<1>2. CASE ContinuesStream(ctx, m) /\ RepeatsShape(ctx, m)
  BY <1>2, Header2Read DEF FirstHeader
<1>3. CASE ContinuesStream(ctx, m) /\ ~RepeatsShape(ctx, m)
  BY <1>3, Header1Read DEF FirstHeader
<1> QED
  BY <1>1, <1>2, <1>3

-----------------------------------------------------------------------------
(* The state that the messages before the k-th of msgs leave to it: the     *)
(* chunk size, and the context of every chunk stream.                       *)

SizeAt(msgs, k, size) ==
  \/ /\ size = InitChunkSize
     /\ \A i \in 1 .. k - 1 : msgs[i].type # "SET_CHUNK_SIZE"
  \/ \E j \in 1 .. k - 1 :
       /\ msgs[j].type = "SET_CHUNK_SIZE" /\ size = U32Value(msgs[j].data)
       /\ \A i \in j + 1 .. k - 1 : msgs[i].type # "SET_CHUNK_SIZE"

ContextAt(msgs, k, id, ctx) ==
  \/ ctx = NewContext /\ \A i \in 1 .. k - 1 : msgs[i].cs # id
  \/ \E j \in 1 .. k - 1 :
       /\ msgs[j].cs = id /\ ctx = ContextOf(msgs[j])
       /\ \A i \in j + 1 .. k - 1 : msgs[i].cs # id

\* There is one chunk size and one context at every message.
LEMMA SizeUnique ==
  ASSUME NEW msgs, NEW k \in Nat, NEW s, NEW t, SizeAt(msgs, k, s), SizeAt(msgs, k, t)
  PROVE  s = t
<1>1. ASSUME NEW i \in 1 .. k - 1, NEW j \in 1 .. k - 1, msgs[i].type = "SET_CHUNK_SIZE",
             msgs[j].type = "SET_CHUNK_SIZE",
             \A l \in i + 1 .. k - 1 : msgs[l].type # "SET_CHUNK_SIZE",
             \A l \in j + 1 .. k - 1 : msgs[l].type # "SET_CHUNK_SIZE"
      PROVE  i = j
  <2>1. ~(i < j) /\ ~(j < i)
    BY <1>1
  <2> QED
    BY <2>1
<1> QED
  BY <1>1 DEF SizeAt

LEMMA ContextUnique ==
  ASSUME NEW msgs, NEW k \in Nat, NEW id, NEW c, NEW d,
         ContextAt(msgs, k, id, c), ContextAt(msgs, k, id, d)
  PROVE  c = d
<1>1. ASSUME NEW i \in 1 .. k - 1, NEW j \in 1 .. k - 1, msgs[i].cs = id, msgs[j].cs = id,
             \A l \in i + 1 .. k - 1 : msgs[l].cs # id,
             \A l \in j + 1 .. k - 1 : msgs[l].cs # id
      PROVE  i = j
  <2>1. ~(i < j) /\ ~(j < i)
    BY <1>1
  <2> QED
    BY <2>1
<1> QED
  BY <1>1 DEF ContextAt

\* From one message to the next.
LEMMA SizeStep ==
  ASSUME NEW msgs, NEW k \in Nat \ {0}, NEW s, SizeAt(msgs, k, s)
  PROVE  SizeAt(msgs, k + 1, ChunkSizeAfter(msgs[k], s))
<1>1. (k + 1) - 1 = k /\ k \in 1 .. k
  OBVIOUS
<1>2. CASE msgs[k].type = "SET_CHUNK_SIZE"
  BY <1>1, <1>2 DEF SizeAt, ChunkSizeAfter
<1>3. CASE msgs[k].type # "SET_CHUNK_SIZE"
  <2>1. \A l \in Nat : \A i \in l .. k : i \in l .. k - 1 \/ i = k
    OBVIOUS
  <2>2. ChunkSizeAfter(msgs[k], s) = s
    BY <1>3 DEF ChunkSizeAfter
  <2>3. CASE s = InitChunkSize /\ \A i \in 1 .. k - 1 : msgs[i].type # "SET_CHUNK_SIZE"
    BY <1>1, <1>3, <2>1, <2>2, <2>3 DEF SizeAt
  <2>4. CASE \E j \in 1 .. k - 1 :
               /\ msgs[j].type = "SET_CHUNK_SIZE" /\ s = U32Value(msgs[j].data)
               /\ \A i \in j + 1 .. k - 1 : msgs[i].type # "SET_CHUNK_SIZE"
    <3>1. PICK j \in 1 .. k - 1 :
            /\ msgs[j].type = "SET_CHUNK_SIZE" /\ s = U32Value(msgs[j].data)
            /\ \A i \in j + 1 .. k - 1 : msgs[i].type # "SET_CHUNK_SIZE"
      BY <2>4
    <3>2. \A i \in j + 1 .. k : msgs[i].type # "SET_CHUNK_SIZE"
      BY <1>3, <3>1
    <3> QED
      BY <1>1, <2>2, <3>1, <3>2 DEF SizeAt
  <2> QED
    BY <2>3, <2>4 DEF SizeAt
<1> QED
  BY <1>2, <1>3

LEMMA ContextStepSame ==
  ASSUME NEW msgs, NEW k \in Nat \ {0}
  PROVE  ContextAt(msgs, k + 1, msgs[k].cs, ContextOf(msgs[k]))
<1>1. (k + 1) - 1 = k /\ k \in 1 .. k /\ k + 1 .. k = {}
  OBVIOUS
<1> QED
  BY <1>1 DEF ContextAt

LEMMA ContextStepOther ==
  ASSUME NEW msgs, NEW k \in Nat \ {0}, NEW id, msgs[k].cs # id, NEW c,
         ContextAt(msgs, k, id, c)
  PROVE  ContextAt(msgs, k + 1, id, c)
<1>1. (k + 1) - 1 = k
  OBVIOUS
<1>2. CASE c = NewContext /\ \A i \in 1 .. k - 1 : msgs[i].cs # id
  <2>1. \A i \in 1 .. k : msgs[i].cs # id
    BY <1>2
  <2> QED
    BY <1>1, <1>2, <2>1 DEF ContextAt
<1>3. CASE \E j \in 1 .. k - 1 :
             /\ msgs[j].cs = id /\ c = ContextOf(msgs[j])
             /\ \A i \in j + 1 .. k - 1 : msgs[i].cs # id
  <2>1. PICK j \in 1 .. k - 1 :
          /\ msgs[j].cs = id /\ c = ContextOf(msgs[j])
          /\ \A i \in j + 1 .. k - 1 : msgs[i].cs # id
    BY <1>3
  <2>2. \A i \in j + 1 .. k : msgs[i].cs # id
    BY <2>1
  <2> QED
    BY <1>1, <2>1, <2>2 DEF ContextAt
<1> QED
  BY <1>2, <1>3 DEF ContextAt

\* A later message changes nothing for the ones before it.
LEMMA SizeStable ==
  ASSUME NEW msgs \in Seq(Message), NEW m \in Message, NEW k \in 1 .. Len(msgs) + 1,
         NEW s, SizeAt(msgs, k, s)
  PROVE  SizeAt(Append(msgs, m), k, s)
<1>1. \A i \in 1 .. k - 1 : Append(msgs, m)[i] = msgs[i]
  BY AppendProperties
<1>2. \A j \in 1 .. k - 1 : \A i \in j + 1 .. k - 1 : i \in 1 .. k - 1
  OBVIOUS
<1> QED
  BY <1>1, <1>2 DEF SizeAt

LEMMA ContextStable ==
  ASSUME NEW msgs \in Seq(Message), NEW m \in Message, NEW k \in 1 .. Len(msgs) + 1,
         NEW id, NEW c, ContextAt(msgs, k, id, c)
  PROVE  ContextAt(Append(msgs, m), k, id, c)
<1>1. \A i \in 1 .. k - 1 : Append(msgs, m)[i] = msgs[i]
  BY AppendProperties
<1>2. \A j \in 1 .. k - 1 : \A i \in j + 1 .. k - 1 : i \in 1 .. k - 1
  OBVIOUS
<1> QED
  BY <1>1, <1>2 DEF ContextAt

\* The messages that ChangeChunkSizeOutput sends announce a size; nothing aborts.
Announces(m) ==
  /\ m.type = "SET_CHUNK_SIZE" => U32Value(m.data) \in Nat \ {0}
  /\ m.type # "ABORT"

LEMMA SizeType ==
  ASSUME NEW msgs, NEW k \in Nat, NEW s, SizeAt(msgs, k, s),
         \A i \in 1 .. k - 1 : Announces(msgs[i])
  PROVE  s \in Nat \ {0}
  BY SizeAssumption DEF SizeAt, Announces

LEMMA ContextType ==
  ASSUME NEW msgs \in Seq(Message), NEW k \in 1 .. Len(msgs) + 1, NEW id, NEW c,
         ContextAt(msgs, k, id, c)
  PROVE  c \in Context
<1>1. \A j \in 1 .. k - 1 : ContextOf(msgs[j]) \in Context
  BY ContextOfType
<1> QED
  BY <1>1, NewContextType DEF ContextAt

-----------------------------------------------------------------------------
(* The invariant.  A position of the stream of chunks is a message and how  *)
(* much of it lies behind; the sender, every chunk on the wire and the      *)
(* receiver have one each, in this order and without a gap, and each of     *)
(* them works with the chunk size and the contexts of its position.         *)

SentInv == \A i \in 1 .. Len(sent) : Carried(sent[i]) /\ Announces(sent[i])

\* The first message whose effects the sender's state does not include yet.
SenderAt == IF sender = "idle" THEN Len(sent) + 1 ELSE Len(sent)

Seen(msgs, k, id) == \E i \in 1 .. k - 1 : msgs[i].cs = id

SenderInv ==
  /\ SizeAt(sent, SenderAt, m_ChunkSizeSend)
  /\ \A id \in ChunkStreamId : ContextAt(sent, SenderAt, id, OutContext(id))
  /\ \A id \in ChunkStreamId : id \in DOMAIN m_ChunkStreamsOutput <=> Seen(sent, SenderAt, id)
  /\ sender = "idle" => bytes_sent = Len(Current.data)

\* c is the chunk of message c.n that starts at c.ofs.
PayloadOf(c, msgs) ==
  \E size : /\ SizeAt(msgs, c.n, size)
            /\ c.data = SubSeq(msgs[c.n].data, c.ofs + 1,
                               c.ofs + Smaller(size, Len(msgs[c.n].data) - c.ofs))

HeaderOf(c, msgs) ==
  IF c.ofs = 0
  THEN \E ctx : ContextAt(msgs, c.n, c.cs, ctx) /\ c.hdr = FirstHeader(ctx, msgs[c.n])
  ELSE c.hdr = Header3

ChunkOf(c, msgs) ==
  /\ c.n \in 1 .. Len(msgs)
  /\ c.ofs \in 0 .. Len(msgs[c.n].data) - 1
  /\ c.cs = msgs[c.n].cs
  /\ PayloadOf(c, msgs)
  /\ HeaderOf(c, msgs)

EndOf(c) == c.ofs + Len(c.data)

\* After o bytes of message n comes position <<k, p>>.
Reaches(msgs, n, o, k, p) ==
  \/ k = n /\ p = o
  \/ k = n + 1 /\ p = 0 /\ o = Len(msgs[n].data)

WireInv ==
  /\ \A i \in 1 .. Len(wire) : ChunkOf(wire[i], sent)
  /\ \A i \in 1 .. Len(wire) - 1 :
       Reaches(sent, wire[i].n, EndOf(wire[i]), wire[i + 1].n, wire[i + 1].ofs)
  /\ link = "up" /\ wire # << >> =>
       Reaches(sent, wire[Len(wire)].n, EndOf(wire[Len(wire)]), Len(sent), bytes_sent)

ReceivedInv ==
  /\ receiver # "desync"
  /\ Len(received) <= Len(sent)
  /\ \A i \in 1 .. Len(received) :
       /\ LowBits(received[i]) = LowBits(sent[i])
       /\ (\A j \in 1 .. i : sent[j].ts < U24) => received[i] = sent[i]
  /\ receiver = "reading" => SizeAt(sent, Len(received) + 1, m_ChunkSizeReceive)
  /\ receiver = "returned" => SizeAt(sent, Len(received), m_ChunkSizeReceive)

Expected == Len(received) + 1

ExactBefore(msgs, k) == \A j \in 1 .. k - 1 : msgs[j].ts < U24

InputsAt(k) ==
  \A id \in ChunkStreamId :
    /\ \E ctx : /\ ContextAt(sent, k, id, ctx)
                /\ SameFields(GetChunkStreamInput(id), ctx, ExactBefore(sent, k))
    /\ id \in DOMAIN m_ChunkStreamsInput <=> Seen(sent, k, id)

BytesAt(p) ==
  \A id \in DOMAIN m_ChunkStreamsInput :
    m_ChunkStreamsInput[id].bytes =
      IF p > 0 /\ id = sent[Expected].cs THEN SubSeq(sent[Expected].data, 1, p) ELSE << >>

FrontAt(p) ==
  /\ wire # << >> => wire[1].n = Expected /\ wire[1].ofs = p
  /\ wire = << >> /\ link = "up" => Reaches(sent, Len(sent), bytes_sent, Expected, p)

\* p bytes of the expected message have arrived, with the headers before them.
Position(p) ==
  /\ p > 0 => Expected <= Len(sent) /\ p < Len(sent[Expected].data)
  /\ InputsAt(IF p > 0 THEN Expected + 1 ELSE Expected)
  /\ BytesAt(p)
  /\ FrontAt(p)

PositionInv == \E p \in Nat : Position(p)

OrderInv == SentInv /\ SenderInv /\ WireInv /\ ReceivedInv /\ PositionInv

-----------------------------------------------------------------------------
\* What the application may send is carried and announces what it should.
LEMMA SetChunkSizeAnnounces ==
  ASSUME NEW n \in ChunkSizes \cup {CtorChunkSize}
  PROVE  Announces(SetChunkSizeMessage(n))
<1>1. n \in Nat \ {0} /\ U32Value(U32Bytes(n)) = n
  BY ArgumentsAssumption
<1> QED
  BY <1>1 DEF SetChunkSizeMessage, ControlMessage, Announces

LEMMA CallsCarried ==
  ASSUME CarriedMessages, ApplicationCall
  PROVE  \E m \in Message : Carried(m) /\ Announces(m) /\ SendRTMPMessage(m)
<1>1. PICK m \in Message : SendRTMPMessage(m)
  BY ApplicationCallSends
<1>2. \E a \in AppMessages : Announces(a) /\ SendRTMPMessage(a)
  <2>1. ASSUME NEW a \in MediaMessages
        PROVE  Announces(a)
    BY MessagesAssumption DEF Announces
  <2>2. ASSUME NEW type, NEW data, type \notin {"SET_CHUNK_SIZE", "ABORT"}
        PROVE  Announces(ControlMessage(type, data))
    BY <2>2 DEF Announces, ControlMessage
  <2>3. ASSUME NEW data
        PROVE  Announces(CommandMessage(data))
    BY DEF Announces, CommandMessage
  <2> QED
    BY <2>1, <2>2, <2>3, SetChunkSizeAnnounces
    DEF ApplicationCall, AppMessages, SendCommand, SendUserControlMessage,
        SendControlMessage, Send_WindowsAcknowledgementSize, Send_SetPeerBandwith,
        ChangeChunkSizeOutput
<1>3. PICK a \in AppMessages : Announces(a) /\ SendRTMPMessage(a)
  BY <1>2
<1>4. m = a
  <2>1. Append(sent, m) = Append(sent, a)
    BY <1>1, <1>3 DEF SendRTMPMessage
  <2>2. Append(sent, m)[Len(sent) + 1] = Append(sent, a)[Len(sent) + 1]
    BY <2>1
  <2> QED
    BY <2>2
<1> QED
  BY <1>1, <1>3, <1>4 DEF CarriedMessages

\* The chunk streams of a new endpoint.
LEMMA NewStreamFields ==
  ASSUME NEW b_len, NEW exact
  PROVE  SameFields(NewChunkStream(b_len), NewContext, exact)
  BY DEF SameFields, NewChunkStream

LEMMA InitOrder ==
  ASSUME CarriedMessages, Init
  PROVE  OrderInv
<1>1. /\ Len(sent) = 1 /\ sent[1] = SetChunkSizeMessage(CtorChunkSize) /\ wire = << >>
      /\ bytes_sent = 0 /\ SenderAt = 1 /\ Expected = 1 /\ Len(received) = 0
      /\ receiver = "reading" /\ sender = "sending"
  BY DEF Init, OutputInit, InputInit, SenderAt, Expected
<1>2. SentInv
  BY <1>1, SetChunkSizeAnnounces DEF SentInv, CarriedMessages
<1>3. SizeAt(sent, 1, InitChunkSize) /\ \A id : ContextAt(sent, 1, id, NewContext) /\ ~Seen(sent, 1, id)
  BY DEF SizeAt, ContextAt, Seen
<1>4. SenderInv
  BY <1>1, <1>3 DEF SenderInv, OutContext, Init, OutputInit
<1>5. WireInv
  BY <1>1 DEF WireInv
<1>6. ReceivedInv
  BY <1>1, <1>3 DEF ReceivedInv, Init, InputInit
<1>7. Position(0)
  <2>1. InputsAt(1)
    BY <1>3, NewStreamFields DEF InputsAt, GetChunkStreamInput, Init, InputInit
  <2>2. BytesAt(0)
    BY DEF BytesAt, Init, InputInit
  <2>3. FrontAt(0)
    BY <1>1 DEF FrontAt, Reaches
  <2> QED
    BY <1>1, <2>1, <2>2, <2>3 DEF Position
<1> QED
  BY <1>2, <1>4, <1>5, <1>6, <1>7 DEF OrderInv, PositionInv

-----------------------------------------------------------------------------
(* A call begins: one more message, before which nothing changes.           *)

LEMMA ChunkStable ==
  ASSUME NEW msgs \in Seq(Message), NEW m \in Message, NEW c, ChunkOf(c, msgs)
  PROVE  ChunkOf(c, Append(msgs, m))
<1>1. /\ Len(Append(msgs, m)) = Len(msgs) + 1 /\ c.n \in 1 .. Len(msgs)
      /\ Append(msgs, m)[c.n] = msgs[c.n]
  BY AppendProperties DEF ChunkOf
<1>2. \A s : SizeAt(msgs, c.n, s) => SizeAt(Append(msgs, m), c.n, s)
  BY <1>1, SizeStable
<1>3. \A ctx : ContextAt(msgs, c.n, c.cs, ctx) => ContextAt(Append(msgs, m), c.n, c.cs, ctx)
  BY <1>1, ContextStable
<1>4. PayloadOf(c, Append(msgs, m))
  BY <1>1, <1>2 DEF ChunkOf, PayloadOf
<1>5. HeaderOf(c, Append(msgs, m))
  BY <1>1, <1>3 DEF ChunkOf, HeaderOf
<1> QED
  BY <1>1, <1>4, <1>5 DEF ChunkOf

LEMMA ReachesStable ==
  ASSUME NEW msgs \in Seq(Message), NEW m \in Message, NEW n \in 1 .. Len(msgs),
         NEW o, NEW k, NEW p, Reaches(msgs, n, o, k, p)
  PROVE  Reaches(Append(msgs, m), n, o, k, p)
  BY AppendProperties DEF Reaches

LEMMA HistoryStable ==
  ASSUME sent \in Seq(Message), NEW m \in Message, sent' = Append(sent, m),
         NEW k \in 1 .. Len(sent) + 1
  PROVE  /\ \A s : SizeAt(sent, k, s) => SizeAt(sent', k, s)
         /\ \A id, c : ContextAt(sent, k, id, c) => ContextAt(sent', k, id, c)
         /\ \A id : Seen(sent', k, id) <=> Seen(sent, k, id)
         /\ ExactBefore(sent', k) <=> ExactBefore(sent, k)
<1>1. \A i \in 1 .. k - 1 : sent'[i] = sent[i]
  BY AppendProperties
<1>2. \A id : Seen(sent', k, id) <=> Seen(sent, k, id)
  BY <1>1 DEF Seen
<1>3. ExactBefore(sent', k) <=> ExactBefore(sent, k)
  BY <1>1 DEF ExactBefore
<1>4. \A s : SizeAt(sent, k, s) => SizeAt(sent', k, s)
  BY SizeStable
<1>5. \A id, c : ContextAt(sent, k, id, c) => ContextAt(sent', k, id, c)
  BY ContextStable
<1> QED
  BY <1>2, <1>3, <1>4, <1>5

LEMMA CurrentCarried ==
  ASSUME TypeInv, SentInv
  PROVE  /\ Carried(Current) /\ Announces(Current)
         /\ Len(Current.data) \in Nat \ {0} /\ Current = sent[Len(sent)]
<1>1. Len(sent) \in 1 .. Len(sent)
  BY CurrentType
<1>2. Carried(Current) /\ Announces(Current)
  BY <1>1 DEF SentInv, Current
<1>3. \A n \in 1 .. U24 - 1 : n \in Nat \ {0}
  BY Widths
<1> QED
  BY <1>2, <1>3 DEF Carried, Current

\* Whoever looks for a position after the last message finds it there.
LEMMA ReachesNext ==
  ASSUME NEW msgs \in Seq(Message), NEW m \in Message, Len(msgs) > 0,
         Len(msgs[Len(msgs)].data) \in Nat \ {0},
         NEW n \in 1 .. Len(msgs), NEW o,
         Reaches(msgs, n, o, Len(msgs), Len(msgs[Len(msgs)].data))
  PROVE  Reaches(Append(msgs, m), n, o, Len(msgs) + 1, 0)
<1>1. n = Len(msgs) /\ o = Len(msgs[n].data)
  BY DEF Reaches
<1> QED
  BY <1>1, AppendProperties DEF Reaches

\* What the steps of the sender leave to the receiver.
LEMMA InputsStable ==
  ASSUME sent \in Seq(Message), NEW m \in Message, sent' = Append(sent, m),
         UNCHANGED <<m_ChunkStreamsInput, m_MaxMessageSize>>,
         NEW k \in 1 .. Len(sent) + 1, InputsAt(k)
  PROVE  InputsAt(k)'
<1>1. \A id : GetChunkStreamInput(id)' = GetChunkStreamInput(id)
  BY DEF GetChunkStreamInput
<1>2. ASSUME NEW id \in ChunkStreamId
      PROVE  /\ \E ctx : /\ ContextAt(sent', k, id, ctx)
                         /\ SameFields(GetChunkStreamInput(id)', ctx, ExactBefore(sent', k))
             /\ id \in DOMAIN m_ChunkStreamsInput' <=> Seen(sent', k, id)
  <2>1. PICK ctx : /\ ContextAt(sent, k, id, ctx)
                   /\ SameFields(GetChunkStreamInput(id), ctx, ExactBefore(sent, k))
    BY DEF InputsAt
  <2>2. ContextAt(sent', k, id, ctx) /\ (ExactBefore(sent', k) <=> ExactBefore(sent, k))
        /\ (Seen(sent', k, id) <=> Seen(sent, k, id))
    BY <2>1, HistoryStable
  <2>3. SameFields(GetChunkStreamInput(id)', ctx, ExactBefore(sent', k))
    BY <1>1, <2>1, <2>2 DEF SameFields
  <2> QED
    BY <2>2, <2>3 DEF InputsAt
<1> QED
  BY <1>2 DEF InputsAt

LEMMA SendOrder ==
  ASSUME TypeInv, OrderInv, NEW m \in Message, Carried(m), Announces(m),
         SendRTMPMessage(m), UNCHANGED inputVars
  PROVE  OrderInv'
<1>1. /\ sent \in Seq(Message) /\ sent' = Append(sent, m) /\ Len(sent') = Len(sent) + 1
      /\ sent'[Len(sent) + 1] = m /\ \A i \in 1 .. Len(sent) : sent'[i] = sent[i]
      /\ Len(sent) \in Nat \ {0}
  BY CurrentType, AppendProperties DEF SendRTMPMessage, TypeInv, TypeOK
<1>2. /\ sender = "idle" /\ sender' = "sending" /\ bytes_sent' = 0
      /\ UNCHANGED <<m_ChunkStreamsOutput, m_ChunkSizeSend, wire, link,
                     m_ChunkStreamsInput, m_ChunkSizeReceive, m_MaxMessageSize,
                     receiver, received>>
  BY DEF SendRTMPMessage, inputVars, transportVars
<1>3. SenderAt = Len(sent) + 1 /\ SenderAt' = Len(sent) + 1 /\ Len(sent) + 1 \in 1 .. Len(sent) + 1
  BY <1>1, <1>2 DEF SenderAt
<1>4. SentInv'
  <2>1. ASSUME NEW i \in 1 .. Len(sent')
        PROVE  Carried(sent'[i]) /\ Announces(sent'[i])
    <3>1. i \in 1 .. Len(sent) \/ i = Len(sent) + 1
      BY <1>1
    <3> QED
      BY <1>1, <3>1 DEF OrderInv, SentInv
  <2> QED
    BY <2>1 DEF SentInv
<1>5. SenderInv'
  <2>1. SizeAt(sent', SenderAt', m_ChunkSizeSend')
    BY <1>1, <1>2, <1>3, HistoryStable DEF OrderInv, SenderInv
  <2>2. \A id : OutContext(id)' = OutContext(id)
    BY <1>2 DEF OutContext
  <2>3. \A id \in ChunkStreamId : ContextAt(sent', SenderAt', id, OutContext(id)')
    BY <1>1, <1>3, <2>2, HistoryStable DEF OrderInv, SenderInv
  <2>4. \A id \in ChunkStreamId :
          id \in DOMAIN m_ChunkStreamsOutput' <=> Seen(sent', Len(sent) + 1, id)
    BY <1>1, <1>2, <1>3, HistoryStable DEF OrderInv, SenderInv
  <2>5. \A id \in ChunkStreamId : Seen(sent', SenderAt', id) <=> Seen(sent', Len(sent) + 1, id)
    BY <1>1, <1>3 DEF Seen
  <2> QED
    BY <1>2, <2>1, <2>3, <2>4, <2>5 DEF SenderInv
<1>6. Current = sent[Len(sent)] /\ bytes_sent = Len(sent[Len(sent)].data)
      /\ Len(sent[Len(sent)].data) \in Nat \ {0}
  BY <1>2, CurrentCarried DEF OrderInv, SenderInv
<1>7. WireInv'
  <2>1. \A i \in 1 .. Len(wire) : ChunkOf(wire[i], sent) /\ wire[i].n \in 1 .. Len(sent)
    BY DEF OrderInv, WireInv, ChunkOf
  <2>2. \A i \in 1 .. Len(wire) : ChunkOf(wire[i], sent')
    BY <1>1, <2>1, ChunkStable
  <2>3. \A i \in 1 .. Len(wire) - 1 :
          Reaches(sent', wire[i].n, EndOf(wire[i]), wire[i + 1].n, wire[i + 1].ofs)
    <3>1. \A i \in 1 .. Len(wire) - 1 : i \in 1 .. Len(wire)
      BY DEF TypeInv, TypeOK
    <3> QED
      BY <1>1, <2>1, <3>1, ReachesStable DEF OrderInv, WireInv
  <2>4. ASSUME link = "up", wire # << >>
        PROVE  Reaches(sent', wire[Len(wire)].n, EndOf(wire[Len(wire)]), Len(sent'), bytes_sent')
    <3>1. Len(wire) \in 1 .. Len(wire)
      BY <2>4, EmptySeq DEF TypeInv, TypeOK
    <3>2. Reaches(sent, wire[Len(wire)].n, EndOf(wire[Len(wire)]), Len(sent), bytes_sent)
      BY <2>4 DEF OrderInv, WireInv
    <3> QED
      BY <1>1, <1>2, <1>6, <2>1, <3>1, <3>2, ReachesNext
  <2> QED
    BY <1>2, <2>2, <2>3, <2>4 DEF WireInv
<1>8. Len(received) \in 0 .. Len(sent) /\ (receiver = "returned" => Len(received) > 0)
  BY EmptySeq, <1>1 DEF OrderInv, ReceivedInv, TypeInv, TypeOK
<1>9. ReceivedInv'
  <2>1. receiver = "reading" => SizeAt(sent', Len(received) + 1, m_ChunkSizeReceive)
    BY <1>1, <1>8, HistoryStable DEF OrderInv, ReceivedInv
  <2>2. receiver = "returned" => SizeAt(sent', Len(received), m_ChunkSizeReceive)
    BY <1>1, <1>8, HistoryStable DEF OrderInv, ReceivedInv
  <2>3. \A i \in 1 .. Len(received) : i \in 1 .. Len(sent) /\ \A j \in 1 .. i : j \in 1 .. Len(sent)
    BY <1>8
  <2>4. \A i \in 1 .. Len(received) :
          /\ LowBits(received[i]) = LowBits(sent'[i])
          /\ (\A j \in 1 .. i : sent'[j].ts < U24) => received[i] = sent'[i]
    BY <1>1, <2>3 DEF OrderInv, ReceivedInv
  <2>5. Len(received) <= Len(sent')
    BY <1>1, <1>8
  <2> QED
    BY <1>2, <2>1, <2>2, <2>4, <2>5 DEF OrderInv, ReceivedInv
<1>10. PositionInv'
  <2>1. PICK p \in Nat : Position(p)
    BY DEF OrderInv, PositionInv
  <2>2. Expected' = Expected /\ Expected \in 1 .. Len(sent) + 1
    BY <1>2, <1>8 DEF Expected
  <2>3. p > 0 => /\ Expected \in 1 .. Len(sent) /\ sent'[Expected] = sent[Expected]
                 /\ Expected <= Len(sent') /\ p < Len(sent'[Expected].data)
    BY <1>1, <2>1, <2>2 DEF Position
  <2>4. InputsAt(IF p > 0 THEN Expected + 1 ELSE Expected)'
    <3> DEFINE k == IF p > 0 THEN Expected + 1 ELSE Expected
    <3>1. k \in 1 .. Len(sent) + 1 /\ InputsAt(k) /\ k' = k
      BY <2>1, <2>2, <2>3 DEF Position
    <3>2. k' = k
      BY <3>1
    <3> HIDE DEF k
    <3>3. \A l \in 1 .. Len(sent) + 1 : InputsAt(l) => InputsAt(l)'
      BY <1>1, <1>2, InputsStable
    <3>4. InputsAt(k)'
      BY <3>1, <3>2, <3>3 DEF InputsAt
    <3> QED
      BY <3>4 DEF k
  <2>5. BytesAt(p)'
    BY <1>2, <2>1, <2>2, <2>3 DEF Position, BytesAt
  <2>6. FrontAt(p)'
    <3>1. ASSUME wire = << >>, link = "up"
          PROVE  Reaches(sent', Len(sent'), bytes_sent', Expected', p)
      <4>1. Reaches(sent, Len(sent), bytes_sent, Expected, p)
        BY <2>1, <3>1 DEF Position, FrontAt
      <4>2. ~(Expected = Len(sent) /\ p = bytes_sent)
        BY <1>6, <2>1 DEF Position
      <4>3. Expected = Len(sent) + 1 /\ p = 0
        BY <4>1, <4>2 DEF Reaches
      <4> QED
        BY <1>1, <1>2, <2>2, <4>3 DEF Reaches
    <3> QED
      BY <1>2, <2>1, <2>2, <3>1 DEF Position, FrontAt
  <2>7. Position(p)'
    BY <2>2, <2>3, <2>4, <2>5, <2>6 DEF Position
  <2> QED
    BY <2>7 DEF PositionInv
<1> QED
  BY <1>4, <1>5, <1>7, <1>9, <1>10 DEF OrderInv

-----------------------------------------------------------------------------
(* The sender's loop.                                                       *)

\* The chunk that the sender writes next is the chunk at its position.
LEMMA NextChunkOf ==
  ASSUME TypeInv, OrderInv, sender = "sending", bytes_sent # Len(Current.data)
  PROVE  /\ ChunkOf(NextChunk, sent)
         /\ NextChunk.n = Len(sent) /\ NextChunk.ofs = bytes_sent
         /\ EndOf(NextChunk) = bytes_sent + bytes_to_send
<1>1. /\ Current = sent[Len(sent)] /\ Current \in Message /\ Current.cs \in ChunkStreamId
      /\ Current.data \in Seq(Byte) /\ Carried(Current)
      /\ Len(sent) \in Nat \ {0} /\ Len(Current.data) \in Nat
      /\ bytes_sent \in 0 .. Len(Current.data) - 1
  BY CurrentType, CurrentCarried DEF OrderInv, TypeInv, TypeOK
<1>2. SenderAt = Len(sent)
  BY DEF SenderAt
<1>3. SizeAt(sent, Len(sent), m_ChunkSizeSend)
  BY <1>2 DEF OrderInv, SenderInv
<1>4. NextChunk.n = Len(sent) /\ NextChunk.ofs = bytes_sent
  BY DEF NextChunk
<1>5. NextChunk.cs = Current.cs
  <2>1. Current.cs \in 0 .. CsIds - 1 /\ CsIds \in Nat \ {0}
    <3> DEFINE c == Current.cs
    <3>1. c \in 0 .. 255 /\ c < CsIds
      BY <1>1 DEF Carried, ChunkStreamId
    <3> HIDE DEF c
    <3>2. c \in 0 .. CsIds - 1 /\ CsIds \in Nat \ {0}
      BY <3>1, Widths
    <3> QED
      BY <3>2 DEF c
  <2>2. Current.cs % CsIds = Current.cs
    BY <2>1, SmallRemainder
  <2> QED
    BY <2>2 DEF NextChunk
<1>6. PayloadOf(NextChunk, sent)
  BY <1>1, <1>3, <1>4 DEF PayloadOf, NextChunk, bytes_to_send
<1>7. HeaderOf(NextChunk, sent)
  <2>1. ContextAt(sent, Len(sent), Current.cs, OutContext(Current.cs))
    BY <1>1, <1>2 DEF OrderInv, SenderInv
  <2>2. NextChunk.hdr = ChunkHeader
    BY DEF NextChunk
  <2> QED
    BY <1>1, <1>4, <1>5, <2>1, <2>2 DEF HeaderOf, ChunkHeader
<1>8. EndOf(NextChunk) = bytes_sent + bytes_to_send
  <2>1. bytes_to_send \in Nat /\ bytes_sent + bytes_to_send \in 0 .. Len(Current.data)
    BY BytesToSendType
  <2>2. NextChunk.data = SubSeq(Current.data, bytes_sent + 1, bytes_sent + bytes_to_send)
    BY DEF NextChunk
  <2>3. Len(NextChunk.data) = bytes_to_send
    <3> DEFINE a == bytes_sent + 1
               b == bytes_sent + bytes_to_send
    <3>1. a \in Int /\ b \in Int /\ \A i \in a .. b : Current.data[i] \in Byte
      BY <1>1, <2>1
    <3>2. (IF a <= b THEN (b - a) + 1 ELSE 0) = bytes_to_send
      BY <1>1, <2>1
    <3> HIDE DEF a, b
    <3>3. Len(SubSeq(Current.data, a, b)) = IF a <= b THEN (b - a) + 1 ELSE 0
      BY <3>1, SubSeqProperties
    <3> QED
      BY <2>2, <3>2, <3>3 DEF a, b
  <2> QED
    BY <1>4, <2>3 DEF EndOf
<1> QED
  BY <1>1, <1>4, <1>5, <1>6, <1>7, <1>8 DEF ChunkOf

LEMMA SendChunkOrder ==
  ASSUME TypeInv, OrderInv, SendChunk, UNCHANGED inputVars
  PROVE  OrderInv'
<1>1. /\ sender = "sending" /\ bytes_sent # Len(Current.data) /\ link = "up"
      /\ wire' = Append(wire, NextChunk) /\ bytes_sent' = bytes_sent + bytes_to_send
      /\ UNCHANGED <<m_ChunkStreamsOutput, m_ChunkSizeSend, sender, sent, link,
                     m_ChunkStreamsInput, m_ChunkSizeReceive, m_MaxMessageSize,
                     receiver, received>>
  BY DEF SendChunk, inputVars
<1>2. /\ ChunkOf(NextChunk, sent)
      /\ NextChunk.n = Len(sent) /\ NextChunk.ofs = bytes_sent
      /\ EndOf(NextChunk) = bytes_sent'
  BY <1>1, NextChunkOf
<1>3. SentInv'
  BY <1>1 DEF OrderInv, SentInv
<1>4. SenderInv'
  BY <1>1 DEF OrderInv, SenderInv, SenderAt, OutContext
<1>5. /\ wire \in Seq(Chunk) /\ wire' \in Seq(Chunk) /\ Len(wire') = Len(wire) + 1
      /\ wire'[Len(wire) + 1] = NextChunk /\ wire' # << >>
      /\ \A i \in 1 .. Len(wire) : wire'[i] = wire[i]
  BY <1>1, NextChunkType, AppendProperties DEF TypeInv, TypeOK
<1>6. WireInv'
  <2>1. ASSUME NEW i \in 1 .. Len(wire')
        PROVE  ChunkOf(wire'[i], sent)
    <3>1. i \in 1 .. Len(wire) \/ i = Len(wire) + 1
      BY <1>5
    <3> QED
      BY <1>2, <1>5, <3>1 DEF OrderInv, WireInv
  <2>2. ASSUME NEW i \in 1 .. Len(wire') - 1
        PROVE  Reaches(sent, wire'[i].n, EndOf(wire'[i]), wire'[i + 1].n, wire'[i + 1].ofs)
    <3>1. CASE i \in 1 .. Len(wire) - 1
      <4>1. wire'[i] = wire[i] /\ wire'[i + 1] = wire[i + 1]
        BY <1>5, <3>1
      <4> QED
        BY <3>1, <4>1 DEF OrderInv, WireInv
    <3>2. CASE i = Len(wire)
      <4>1. wire # << >> /\ wire'[i] = wire[Len(wire)] /\ wire'[i + 1] = NextChunk
        BY <1>5, <3>2
      <4> QED
        BY <1>1, <1>2, <3>2, <4>1 DEF OrderInv, WireInv
    <3> QED
      BY <1>5, <3>1, <3>2
  <2>3. Reaches(sent, wire'[Len(wire')].n, EndOf(wire'[Len(wire')]), Len(sent), bytes_sent')
    BY <1>2, <1>5 DEF Reaches
  <2> QED
    BY <1>1, <2>1, <2>2, <2>3 DEF WireInv
<1>7. ReceivedInv'
  BY <1>1 DEF OrderInv, ReceivedInv
<1>8. PositionInv'
  <2>1. PICK p \in Nat : Position(p)
    BY DEF OrderInv, PositionInv
  <2>2. InputsAt(IF p > 0 THEN Expected + 1 ELSE Expected)'
    BY <1>1, <2>1 DEF Position, InputsAt, Expected, GetChunkStreamInput
  <2>3. BytesAt(p)'
    BY <1>1, <2>1 DEF Position, BytesAt, Expected
  <2>4. FrontAt(p)'
    <3>1. CASE wire = << >>
      <4>1. Reaches(sent, Len(sent), bytes_sent, Expected, p)
        BY <1>1, <2>1, <3>1 DEF Position, FrontAt
      <4>2. ~(Expected = Len(sent) + 1 /\ p = 0 /\ bytes_sent = Len(sent[Len(sent)].data))
        BY <1>1 DEF Current
      <4>3. wire'[1] = NextChunk
        BY <1>5, <3>1
      <4> QED
        BY <1>1, <1>2, <1>5, <4>1, <4>2, <4>3 DEF Reaches, FrontAt, Expected
    <3>2. CASE wire # << >>
      <4>1. wire'[1] = wire[1]
        <5>1. 1 \in 1 .. Len(wire)
          BY <1>5, <3>2, EmptySeq
        <5> QED
          BY <1>5, <5>1
      <4> QED
        BY <1>1, <1>5, <2>1, <3>2, <4>1 DEF Position, FrontAt, Expected
    <3> QED
      BY <3>1, <3>2
  <2>5. p > 0 => Expected' <= Len(sent') /\ p < Len(sent'[Expected'].data)
    BY <1>1, <2>1 DEF Position, Expected
  <2> QED
    BY <2>2, <2>3, <2>4, <2>5 DEF Position, PositionInv
<1> QED
  BY <1>3, <1>4, <1>6, <1>7, <1>8 DEF OrderInv

\* The message counts as sent: its context and, maybe, its chunk size apply.
LEMMA SendReturnsOrder ==
  ASSUME TypeInv, OrderInv, SendReturns, UNCHANGED inputVars
  PROVE  OrderInv'
<1>1. /\ sender = "sending" /\ bytes_sent = Len(Current.data)
      /\ m_ChunkStreamsOutput' = Put(m_ChunkStreamsOutput, Current.cs, ContextOf(Current))
      /\ m_ChunkSizeSend' = ChunkSizeAfter(Current, m_ChunkSizeSend)
      /\ sender' = "idle"
      /\ UNCHANGED <<bytes_sent, sent, wire, link,
                     m_ChunkStreamsInput, m_ChunkSizeReceive, m_MaxMessageSize,
                     receiver, received>>
  BY DEF SendReturns, inputVars, transportVars
<1>2. SentInv'
  BY <1>1 DEF OrderInv, SentInv
<1>3. WireInv'
  BY <1>1 DEF OrderInv, WireInv
<1>4. ReceivedInv'
  BY <1>1 DEF OrderInv, ReceivedInv
<1>5. PositionInv'
  <2>1. PICK p \in Nat : Position(p)
    BY DEF OrderInv, PositionInv
  <2>2. Position(p)'
    BY <1>1, <2>1 DEF Position, InputsAt, BytesAt, FrontAt, Expected, GetChunkStreamInput
  <2> QED
    BY <2>2 DEF PositionInv
<1>6. SenderInv'
  <2>1. SenderAt = Len(sent) /\ SenderAt' = Len(sent) + 1 /\ Len(sent) \in Nat \ {0}
        /\ Current = sent[Len(sent)] /\ Current' = Current
    BY <1>1, CurrentType DEF SenderAt, Current
  <2>2. SizeAt(sent, Len(sent) + 1, m_ChunkSizeSend')
    <3>1. SizeAt(sent, Len(sent), m_ChunkSizeSend)
      BY <2>1 DEF OrderInv, SenderInv
    <3>2. SizeAt(sent, Len(sent) + 1, ChunkSizeAfter(sent[Len(sent)], m_ChunkSizeSend))
      BY <2>1, <3>1, SizeStep
    <3> QED
      BY <1>1, <2>1, <3>2
  <2>3. ASSUME NEW id \in ChunkStreamId
        PROVE  /\ ContextAt(sent, Len(sent) + 1, id, OutContext(id)')
               /\ id \in DOMAIN m_ChunkStreamsOutput' <=> Seen(sent, Len(sent) + 1, id)
    <3>1. ContextAt(sent, Len(sent), id, OutContext(id))
          /\ (id \in DOMAIN m_ChunkStreamsOutput <=> Seen(sent, Len(sent), id))
      BY <2>1 DEF OrderInv, SenderInv
    <3>2. CASE id = Current.cs
      <4>1. OutContext(id)' = ContextOf(Current) /\ id \in DOMAIN m_ChunkStreamsOutput'
        BY <1>1, <3>2 DEF OutContext, Put
      <4>2. ContextAt(sent, Len(sent) + 1, id, ContextOf(Current))
        BY <2>1, <3>2, ContextStepSame
      <4>3. Seen(sent, Len(sent) + 1, id)
        BY <2>1, <3>2 DEF Seen
      <4> QED
        BY <4>1, <4>2, <4>3
    <3>3. CASE id # Current.cs
      <4>1. /\ OutContext(id)' = OutContext(id)
            /\ id \in DOMAIN m_ChunkStreamsOutput' <=> id \in DOMAIN m_ChunkStreamsOutput
        BY <1>1, <3>3 DEF OutContext, Put
      <4>2. ContextAt(sent, Len(sent) + 1, id, OutContext(id))
        BY <2>1, <3>1, <3>3, ContextStepOther
      <4>3. Seen(sent, Len(sent) + 1, id) <=> Seen(sent, Len(sent), id)
        <5>1. \A i \in 1 .. (Len(sent) + 1) - 1 : i \in 1 .. Len(sent) - 1 \/ i = Len(sent)
          BY <2>1
        <5>2. \A i \in 1 .. Len(sent) - 1 : i \in 1 .. (Len(sent) + 1) - 1
          BY <2>1
        <5> QED
          BY <2>1, <3>3, <5>1, <5>2 DEF Seen
      <4> QED
        BY <3>1, <4>1, <4>2, <4>3
    <3> QED
      BY <3>2, <3>3
  <2> QED
    BY <1>1, <2>1, <2>2, <2>3 DEF SenderInv
<1> QED
  BY <1>2, <1>3, <1>4, <1>5, <1>6 DEF OrderInv

LEMMA SendThrowsOrder ==
  ASSUME TypeInv, OrderInv, SendThrows, UNCHANGED inputVars
  PROVE  OrderInv'
<1>1. /\ sender = "sending" /\ sender' = "failed"
      /\ UNCHANGED <<m_ChunkStreamsOutput, m_ChunkSizeSend, bytes_sent, sent, wire, link,
                     m_ChunkStreamsInput, m_ChunkSizeReceive, m_MaxMessageSize,
                     receiver, received>>
  BY DEF SendThrows, inputVars, transportVars
<1>2. SentInv' /\ WireInv' /\ ReceivedInv'
  BY <1>1 DEF OrderInv, SentInv, WireInv, ReceivedInv
<1>3. SenderInv'
  BY <1>1 DEF OrderInv, SenderInv, SenderAt, OutContext, Current
<1>4. PositionInv'
  <2>1. PICK p \in Nat : Position(p)
    BY DEF OrderInv, PositionInv
  <2>2. Position(p)'
    BY <1>1, <2>1 DEF Position, InputsAt, BytesAt, FrontAt, Expected, GetChunkStreamInput
  <2> QED
    BY <2>2 DEF PositionInv
<1> QED
  BY <1>2, <1>3, <1>4 DEF OrderInv

\* A break leaves a first part of the wire.
LEMMA DisconnectOrder ==
  ASSUME TypeInv, OrderInv, Disconnect
  PROVE  OrderInv'
<1>1. /\ link' = "down" /\ wire \in Seq(Chunk)
      /\ UNCHANGED <<m_ChunkStreamsOutput, m_ChunkSizeSend, sender, bytes_sent, sent,
                     m_ChunkStreamsInput, m_ChunkSizeReceive, m_MaxMessageSize,
                     receiver, received>>
  BY DEF Disconnect, inputVars, outputVars, TypeInv, TypeOK
<1>2. PICK k \in 0 .. Len(wire) : wire' = SubSeq(wire, 1, k)
  BY DEF Disconnect
<1>3. Len(wire') = k /\ \A i \in 1 .. k : i \in 1 .. Len(wire) /\ wire'[i] = wire[i]
  <2>1. \A i \in 1 .. k : i \in 1 .. Len(wire) /\ wire[i] \in Chunk
    BY <1>1, <1>2, ElementOfSeq
  <2>2. (IF 1 <= k THEN (k - 1) + 1 ELSE 0) = k
    BY <1>1, <1>2
  <2> QED
    BY <1>1, <1>2, <2>1, <2>2, SubSeqProperties
<1>4. SentInv' /\ ReceivedInv'
  BY <1>1 DEF OrderInv, SentInv, ReceivedInv
<1>5. SenderInv'
  BY <1>1 DEF OrderInv, SenderInv, SenderAt, OutContext, Current
<1>6. WireInv'
  <2>1. \A i \in 1 .. Len(wire') : ChunkOf(wire'[i], sent)
    BY <1>3 DEF OrderInv, WireInv
  <2>2. ASSUME NEW i \in 1 .. Len(wire') - 1
        PROVE  Reaches(sent, wire'[i].n, EndOf(wire'[i]), wire'[i + 1].n, wire'[i + 1].ofs)
    <3>1. i \in 1 .. Len(wire) - 1 /\ wire'[i] = wire[i] /\ wire'[i + 1] = wire[i + 1]
      BY <1>1, <1>2, <1>3
    <3> QED
      BY <3>1 DEF OrderInv, WireInv
  <2> QED
    BY <1>1, <2>1, <2>2 DEF WireInv
<1>7. PositionInv'
  <2>1. PICK p \in Nat : Position(p)
    BY DEF OrderInv, PositionInv
  <2>2. FrontAt(p)'
    <3>1. ASSUME wire' # << >>
          PROVE  wire'[1] = wire[1] /\ wire # << >>
      <4>1. k # 0
        BY <1>1, <1>2, <3>1, SubSeqEmpty
      <4> QED
        BY <1>2, <1>3, <4>1, EmptySeq
    <3> QED
      BY <1>1, <2>1, <3>1 DEF Position, FrontAt, Expected
  <2>3. Position(p)'
    BY <1>1, <2>1, <2>2 DEF Position, InputsAt, BytesAt, Expected, GetChunkStreamInput
  <2> QED
    BY <2>3 DEF PositionInv
<1> QED
  BY <1>4, <1>5, <1>6, <1>7 DEF OrderInv

-----------------------------------------------------------------------------
(* The receiver reads the chunk at its position.                            *)

LEMMA IncomingAt ==
  ASSUME TypeInv, OrderInv, wire # << >>, NEW p \in Nat, Position(p)
  PROVE  /\ Incoming = wire[1] /\ Incoming \in Chunk /\ ChunkOf(Incoming, sent)
         /\ Incoming.n = Expected /\ Incoming.ofs = p
         /\ Expected \in 1 .. Len(sent) /\ sent[Expected] \in Message
         /\ Carried(sent[Expected]) /\ Announces(sent[Expected])
         /\ Len(sent[Expected].data) \in Nat /\ sent[Expected].data \in Seq(Byte)
         /\ p \in 0 .. Len(sent[Expected].data) - 1
         /\ Incoming.cs = sent[Expected].cs /\ Incoming.cs \in ChunkStreamId
<1>1. Incoming \in Chunk /\ Incoming = wire[1] /\ 1 \in 1 .. Len(wire)
  <2>1. wire \in Seq(Chunk)
    BY DEF TypeInv, TypeOK
  <2>2. 1 \in 1 .. Len(wire)
    BY <2>1, EmptySeq
  <2>3. Head(wire) = wire[1]
    BY <2>1
  <2> QED
    BY <2>1, <2>2, <2>3 DEF Incoming
<1>2. ChunkOf(Incoming, sent)
  BY <1>1 DEF OrderInv, WireInv
<1>3. Incoming.n = Expected /\ Incoming.ofs = p
  BY <1>1 DEF Position, FrontAt
<1>4. Expected \in 1 .. Len(sent) /\ sent[Expected] \in Message
  BY <1>2, <1>3 DEF ChunkOf, TypeInv, TypeOK
<1>5. Carried(sent[Expected]) /\ Announces(sent[Expected])
  BY <1>4 DEF OrderInv, SentInv
<1>6. Len(sent[Expected].data) \in Nat /\ sent[Expected].data \in Seq(Byte)
  BY <1>4 DEF Message
<1>7. p \in 0 .. Len(sent[Expected].data) - 1 /\ Incoming.cs = sent[Expected].cs
  BY <1>2, <1>3 DEF ChunkOf
<1>8. Incoming.cs \in ChunkStreamId
  BY <1>1 DEF Chunk
<1> QED
  BY <1>1, <1>2, <1>3, <1>4, <1>5, <1>6, <1>7, <1>8

\* Once its headers are read, the chunk stream is about the expected message, and
\* holds what has arrived of it.
LEMMA StreamAt ==
  ASSUME WholeBytes, TypeInv, OrderInv, wire # << >>, NEW p \in Nat, Position(p)
  PROVE  /\ SameFields(Stream, ContextOf(sent[Expected]), ExactBefore(sent, Expected + 1))
         /\ Stream.bytes = SubSeq(sent[Expected].data, 1, p)
         /\ Len(Stream.bytes) = p /\ Stream \in ChunkStream
<1> DEFINE r == Expected
           in == GetChunkStreamInput(Incoming.cs)
           m == sent[Expected]
           exact == ExactBefore(sent, Expected + 1)
<1>1. /\ ChunkOf(Incoming, sent) /\ Incoming \in Chunk
      /\ Incoming.n = r /\ Incoming.ofs = p /\ Incoming.cs = m.cs
      /\ r \in 1 .. Len(sent) /\ r \in Nat \ {0} /\ m \in Message /\ Carried(m)
      /\ m.data \in Seq(Byte) /\ p \in 0 .. Len(m.data) /\ Incoming.cs \in ChunkStreamId
  BY IncomingAt
<1>2. Stream \in ChunkStream /\ Stream.bytes = in.bytes
  BY StreamType
<1>3. in \in ChunkStream /\ Incoming.hdr \in Header
  BY <1>1, NewChunkStreamType DEF TypeInv, TypeOK, MapTo, GetChunkStreamInput, Chunk
<1>4. exact \in BOOLEAN /\ (exact => m.ts < U24 /\ ExactBefore(sent, r))
  BY <1>1 DEF ExactBefore
<1>5. PICK ctx : /\ ContextAt(sent, IF p > 0 THEN r + 1 ELSE r, Incoming.cs, ctx)
                 /\ SameFields(in, ctx, ExactBefore(sent, IF p > 0 THEN r + 1 ELSE r))
  BY <1>1 DEF Position, InputsAt
<1>6. SameFields(in, ctx, exact)
  BY <1>4, <1>5 DEF SameFields
<1>7. in.bytes = SubSeq(m.data, 1, p)
  <2>1. CASE Incoming.cs \in DOMAIN m_ChunkStreamsInput
    <3>1. in = m_ChunkStreamsInput[Incoming.cs]
      BY <2>1 DEF GetChunkStreamInput
    <3>2. in.bytes = IF p > 0 THEN SubSeq(m.data, 1, p) ELSE << >>
      BY <1>1, <2>1, <3>1 DEF Position, BytesAt
    <3>3. p = 0 => SubSeq(m.data, 1, p) = << >>
      BY <1>1, PartLength
    <3> QED
      BY <3>2, <3>3
  <2>2. CASE Incoming.cs \notin DOMAIN m_ChunkStreamsInput
    <3>1. in.bytes = << >>
      BY <2>2 DEF GetChunkStreamInput, NewChunkStream
    <3>2. ~(p > 0)
      <4>1. p > 0 => Seen(sent, r + 1, Incoming.cs)
        BY <1>1 DEF Seen
      <4> QED
        BY <1>1, <2>2, <4>1 DEF Position, InputsAt
    <3>3. p = 0 /\ SubSeq(m.data, 1, p) = << >>
      BY <1>1, <3>2, PartLength
    <3> QED
      BY <3>1, <3>3
  <2> QED
    BY <2>1, <2>2
<1>8. SameFields(ApplyHeader(in, Incoming.hdr), ContextOf(m), exact)
  <2>1. CASE p = 0
    <3>1. Between(in)
      BY <1>1, <1>7, <2>1, PartLength DEF Between
    <3>2. PICK c : ContextAt(sent, r, Incoming.cs, c) /\ Incoming.hdr = FirstHeader(c, m)
      BY <1>1, <2>1 DEF ChunkOf, HeaderOf
    <3>3. c = ctx
      BY <1>1, <1>5, <2>1, <3>2, ContextUnique
    <3>4. ctx \in Context
      <4>1. sent \in Seq(Message) /\ r \in 1 .. Len(sent) + 1
        BY <1>1 DEF TypeInv, TypeOK
      <4> QED
        BY <3>2, <3>3, <4>1, ContextType
    <3> HIDE DEF r, in, m, exact
    <3> QED
      BY <1>1, <1>3, <1>4, <1>6, <3>1, <3>2, <3>3, <3>4, CarriedExpressible, FirstHeaderRead
  <2>2. CASE p > 0
    <3>1. ~Between(in)
      BY <1>1, <1>7, <2>2, PartLength DEF Between
    <3>2. Incoming.hdr = Header3
      BY <1>1, <2>2 DEF ChunkOf, HeaderOf
    <3>3. ctx = ContextOf(m)
      <4>1. ContextAt(sent, r + 1, m.cs, ContextOf(m))
        BY <1>1, ContextStepSame
      <4>2. ContextAt(sent, r + 1, m.cs, ctx) /\ r + 1 \in Nat
        BY <1>1, <1>5, <2>2
      <4> QED
        BY <4>1, <4>2, ContextUnique
    <3> HIDE DEF r, in, m, exact
    <3> QED
      BY <1>3, <1>6, <3>1, <3>2, <3>3, LaterHeaderRead
  <2> QED
    BY <2>1, <2>2
<1>9. SameFields(Stream, ContextOf(m), exact)
  <2>1. ApplyHeader(in, Incoming.hdr) \in ChunkStream
    BY <1>3, ApplyHeaderType
  <2> QED
    BY <1>8, <2>1, GrownSameFields DEF Stream
<1>10. Len(Stream.bytes) = p
  BY <1>1, <1>2, <1>7, PartLength
<1> QED
  BY <1>2, <1>7, <1>9, <1>10

\* It reads the payload of the chunk, neither less nor more, which is not empty.
LEMMA PayloadAt ==
  ASSUME WholeBytes, TypeInv, OrderInv, receiver = "reading", wire # << >>,
         NEW p \in Nat, Position(p)
  PROVE  /\ ToReceive(Stream) \in Nat \ {0} /\ Framed
         /\ p + ToReceive(Stream) \in 1 .. Len(sent[Expected].data)
         /\ EndOf(Incoming) = p + ToReceive(Stream)
         /\ Filled.bytes = SubSeq(sent[Expected].data, 1, p + ToReceive(Stream))
         /\ SameFields(Filled, ContextOf(sent[Expected]), ExactBefore(sent, Expected + 1))
         /\ Completes(Stream) <=> p + ToReceive(Stream) = Len(sent[Expected].data)
<1> DEFINE m == sent[Expected]
           l == Smaller(m_ChunkSizeReceive, Len(m.data) - p)
<1>1. /\ ChunkOf(Incoming, sent) /\ Incoming \in Chunk
      /\ Incoming.n = Expected /\ Incoming.ofs = p
      /\ Expected \in 1 .. Len(sent) /\ m \in Message /\ Carried(m)
      /\ m.data \in Seq(Byte) /\ Len(m.data) \in Nat /\ p \in 0 .. Len(m.data) - 1
  BY IncomingAt
<1>2. /\ SameFields(Stream, ContextOf(m), ExactBefore(sent, Expected + 1))
      /\ Stream.bytes = SubSeq(m.data, 1, p) /\ Len(Stream.bytes) = p
      /\ Stream \in ChunkStream
  BY StreamAt
<1>3. SizeAt(sent, Expected, m_ChunkSizeReceive)
  BY DEF OrderInv, ReceivedInv, Expected
<1>4. m_ChunkSizeReceive \in Nat \ {0}
  <2>1. \A i \in 1 .. Expected - 1 : Announces(sent[i])
    BY <1>1 DEF OrderInv, SentInv
  <2> QED
    BY <1>1, <1>3, <2>1, SizeType
<1>5. l \in Nat \ {0} /\ p + l \in 1 .. Len(m.data)
  BY <1>1, <1>4 DEF Smaller
<1>6. ToReceive(Stream) = l
  <2>1. Stream.message_length = Len(m.data)
    BY <1>1, <1>2, ContextFields DEF SameFields
  <2>2. Len(m.data) - p \in 0 .. U64 - 1 /\ U64 \in Nat \ {0}
    <3>1. Len(m.data) < U24
      <4>1. \A n \in 1 .. U24 - 1 : n < U24
        BY Widths
      <4> QED
        BY <1>1, <4>1 DEF Carried
    <3> QED
      BY <1>1, <3>1, Widths
  <2>3. (Len(m.data) - p) % U64 = Len(m.data) - p
    BY <2>2, SmallRemainder
  <2>4. ToReceive(Stream) = Smaller(Len(m.data) - p, m_ChunkSizeReceive)
    BY <1>2, <2>1, <2>3 DEF ToReceive
  <2> QED
    BY <1>1, <1>4, <2>4 DEF Smaller
<1>7. Incoming.data = SubSeq(m.data, p + 1, p + l)
  <2>1. PICK size : /\ SizeAt(sent, Expected, size)
                    /\ Incoming.data = SubSeq(m.data, p + 1, p + Smaller(size, Len(m.data) - p))
    BY <1>1 DEF ChunkOf, PayloadOf
  <2>2. size = m_ChunkSizeReceive
    BY <1>1, <1>3, <2>1, SizeUnique
  <2> QED
    BY <2>1, <2>2
<1> HIDE DEF l
<1>8. Len(Incoming.data) = l
  <2> DEFINE a == p + 1
             b == p + l
  <2>1. a \in Int /\ b \in Int /\ \A i \in a .. b : m.data[i] \in Byte
    BY <1>1, <1>5
  <2>2. (IF a <= b THEN (b - a) + 1 ELSE 0) = l
    BY <1>1, <1>5
  <2> HIDE DEF a, b
  <2>3. Len(SubSeq(m.data, a, b)) = IF a <= b THEN (b - a) + 1 ELSE 0
    BY <2>1, SubSeqProperties
  <2> QED
    BY <1>7, <2>2, <2>3 DEF a, b
<1>9. Framed
  BY <1>6, <1>8 DEF Framed
<1>10. EndOf(Incoming) = p + l
  BY <1>1, <1>8 DEF EndOf
<1>11. Filled.bytes = SubSeq(m.data, 1, p + l)
  <2>1. Filled.bytes = SubSeq(m.data, 1, p) \o SubSeq(m.data, p + 1, p + l)
    BY <1>2, <1>7 DEF Filled, ChunkStream
  <2>2. 1 \in 1 .. Len(m.data) + 1 /\ p \in 1 - 1 .. Len(m.data) /\ p + l \in p .. Len(m.data)
    BY <1>1, <1>5
  <2> HIDE DEF m
  <2>3. SubSeq(m.data, 1, p) \o SubSeq(m.data, p + 1, p + l) = SubSeq(m.data, 1, p + l)
    BY <1>1, <2>2, ConcatAdjacentSubSeq
  <2> QED
    BY <2>1, <2>3
<1>12. SameFields(Filled, ContextOf(m), ExactBefore(sent, Expected + 1))
  <2>1. /\ Filled.message_length = Stream.message_length
        /\ Filled.message_type = Stream.message_type
        /\ Filled.message_stream_id = Stream.message_stream_id
        /\ Filled.timestamp = Stream.timestamp
    BY <1>2 DEF Filled, ChunkStream
  <2> QED
    BY <1>2, <2>1 DEF SameFields
<1>13. Completes(Stream) <=> p + l = Len(m.data)
  BY <1>1, <1>2, <1>6, ContextFields DEF Completes, SameFields
<1> QED
  BY <1>5, <1>6, <1>9, <1>10, <1>11, <1>12, <1>13

\* The rest of the wire, and what follows the chunk that was read.
LEMMA TailAt ==
  ASSUME TypeInv, OrderInv, wire # << >>
  PROVE  LET w == Tail(wire) IN
         /\ w \in Seq(Chunk)
         /\ \A i \in 1 .. Len(w) : ChunkOf(w[i], sent)
         /\ \A i \in 1 .. Len(w) - 1 :
              Reaches(sent, w[i].n, EndOf(w[i]), w[i + 1].n, w[i + 1].ofs)
         /\ link = "up" /\ w # << >> =>
              Reaches(sent, w[Len(w)].n, EndOf(w[Len(w)]), Len(sent), bytes_sent)
         /\ w # << >> => /\ Reaches(sent, wire[1].n, EndOf(wire[1]), w[1].n, w[1].ofs)
                         /\ w[1].ofs \in 0 .. Len(sent[w[1].n].data) - 1
         /\ w = << >> /\ link = "up" =>
              Reaches(sent, wire[1].n, EndOf(wire[1]), Len(sent), bytes_sent)
<1> DEFINE w == Tail(wire)
<1>1. /\ wire \in Seq(Chunk) /\ w \in Seq(Chunk) /\ Len(wire) \in Nat \ {0}
      /\ Len(w) = Len(wire) - 1 /\ \A i \in 1 .. Len(w) : w[i] = wire[i + 1]
  BY HeadTailProperties, EmptySeq DEF TypeInv, TypeOK
<1>2. /\ \A i \in 1 .. Len(wire) : ChunkOf(wire[i], sent)
      /\ \A i \in 1 .. Len(wire) - 1 :
           Reaches(sent, wire[i].n, EndOf(wire[i]), wire[i + 1].n, wire[i + 1].ofs)
      /\ link = "up" =>
           Reaches(sent, wire[Len(wire)].n, EndOf(wire[Len(wire)]), Len(sent), bytes_sent)
  BY DEF OrderInv, WireInv
<1> HIDE DEF w
<1>3. \A i \in 1 .. Len(w) : ChunkOf(w[i], sent)
  BY <1>1, <1>2
<1>4. ASSUME NEW i \in 1 .. Len(w) - 1
      PROVE  Reaches(sent, w[i].n, EndOf(w[i]), w[i + 1].n, w[i + 1].ofs)
  <2>1. i + 1 \in 1 .. Len(wire) - 1 /\ w[i] = wire[i + 1] /\ w[i + 1] = wire[(i + 1) + 1]
    BY <1>1
  <2> QED
    BY <1>2, <2>1
<1>5. w # << >> => Len(w) \in 1 .. Len(w) /\ 1 \in 1 .. Len(w)
  BY <1>1, EmptySeq
<1>6. w # << >> => w[Len(w)] = wire[Len(wire)] /\ w[1] = wire[1 + 1] /\ 1 \in 1 .. Len(wire) - 1
  BY <1>1, <1>5
<1>7. w = << >> => wire[1] = wire[Len(wire)]
  <2>1. w = << >> => Len(w) = 0
    BY EmptySeq
  <2>2. Len(w) = 0 => Len(wire) = 1
    BY <1>1
  <2> QED
    BY <2>1, <2>2
<1>8. w # << >> => w[1].ofs \in 0 .. Len(sent[w[1].n].data) - 1
  BY <1>3, <1>5 DEF ChunkOf
<1> QED
  BY <1>1, <1>2, <1>3, <1>4, <1>6, <1>7, <1>8 DEF w

\* The chunk stream of a message is written back with the context of the message.
LEMMA InputsPut ==
  ASSUME sent \in Seq(Message), NEW r \in 1 .. Len(sent), NEW k \in {r, r + 1}, InputsAt(k),
         NEW cs, SameFields(cs, ContextOf(sent[r]), ExactBefore(sent, r + 1)),
         m_ChunkStreamsInput' = Put(m_ChunkStreamsInput, sent[r].cs, cs), sent' = sent
  PROVE  InputsAt(r + 1)'
<1>1. ASSUME NEW id \in ChunkStreamId
      PROVE  /\ \E ctx : /\ ContextAt(sent, r + 1, id, ctx)
                         /\ SameFields(GetChunkStreamInput(id)', ctx, ExactBefore(sent, r + 1))
             /\ id \in DOMAIN m_ChunkStreamsInput' <=> Seen(sent, r + 1, id)
  <2>1. PICK ctx : /\ ContextAt(sent, k, id, ctx)
                   /\ SameFields(GetChunkStreamInput(id), ctx, ExactBefore(sent, k))
    BY DEF InputsAt
  <2>2. id \in DOMAIN m_ChunkStreamsInput <=> Seen(sent, k, id)
    BY DEF InputsAt
  <2>3. CASE id = sent[r].cs
    <3>1. GetChunkStreamInput(id)' = cs /\ id \in DOMAIN m_ChunkStreamsInput'
      BY <2>3 DEF GetChunkStreamInput, Put
    <3>2. ContextAt(sent, r + 1, id, ContextOf(sent[r]))
      BY <2>3, ContextStepSame
    <3>3. Seen(sent, r + 1, id)
      BY <2>3 DEF Seen
    <3> QED
      BY <3>1, <3>2, <3>3
  <2>4. CASE id # sent[r].cs
    <3>1. ContextAt(sent, r + 1, id, ctx)
      BY <2>1, <2>4, ContextStepOther
    <3>2. ExactBefore(sent, r + 1) => ExactBefore(sent, k)
      BY DEF ExactBefore
    <3>3. SameFields(GetChunkStreamInput(id)', ctx, ExactBefore(sent, k))
      <4>1. CASE id \in DOMAIN m_ChunkStreamsInput
        <5>1. GetChunkStreamInput(id)' = GetChunkStreamInput(id)
          BY <2>4, <4>1 DEF GetChunkStreamInput, Put
        <5> QED
          BY <2>1, <5>1
      <4>2. CASE id \notin DOMAIN m_ChunkStreamsInput
        <5>1. /\ GetChunkStreamInput(id) = NewChunkStream(m_MaxMessageSize)
              /\ GetChunkStreamInput(id)' = NewChunkStream(m_MaxMessageSize')
          BY <2>4, <4>2 DEF GetChunkStreamInput, Put
        <5>2. \A a, b : SameFields(NewChunkStream(a), ctx, ExactBefore(sent, k))
                          => SameFields(NewChunkStream(b), ctx, ExactBefore(sent, k))
          BY DEF SameFields, NewChunkStream
        <5> QED
          BY <2>1, <5>1, <5>2
      <4> QED
        BY <4>1, <4>2
    <3>4. SameFields(GetChunkStreamInput(id)', ctx, ExactBefore(sent, r + 1))
      BY <3>2, <3>3 DEF SameFields
    <3>5. id \in DOMAIN m_ChunkStreamsInput' <=> id \in DOMAIN m_ChunkStreamsInput
      BY <2>4 DEF Put
    <3>6. Seen(sent, r + 1, id) <=> Seen(sent, k, id)
      <4>1. \A i \in 1 .. (r + 1) - 1 : i \in 1 .. r - 1 \/ i = r
        OBVIOUS
      <4>2. \A i \in 1 .. r - 1 : i \in 1 .. (r + 1) - 1
        OBVIOUS
      <4> QED
        BY <2>4, <4>1, <4>2 DEF Seen
    <3> QED
      BY <2>2, <3>1, <3>4, <3>5, <3>6
  <2> QED
    BY <2>3, <2>4
<1> QED
  BY <1>1 DEF InputsAt

\* The position after the chunk that was read: n bytes of message r, or the start
\* of the next message.
LEMMA FrontAfter ==
  ASSUME TypeInv, OrderInv, wire # << >>, wire' = Tail(wire),
         UNCHANGED <<link, sent, bytes_sent>>,
         NEW r \in Nat, NEW n \in Nat, wire[1].n = r, EndOf(wire[1]) = n,
         \/ n < Len(sent[r].data) /\ Expected' = r
         \/ n = Len(sent[r].data) /\ Expected' = r + 1
  PROVE  FrontAt(IF n < Len(sent[r].data) THEN n ELSE 0)'
<1> DEFINE q == IF n < Len(sent[r].data) THEN n ELSE 0
<1>0. Len(sent[r].data) \in Nat
  <2>1. 1 \in 1 .. Len(wire)
    BY EmptySeq DEF TypeInv, TypeOK
  <2>2. r \in 1 .. Len(sent)
    BY <2>1 DEF OrderInv, WireInv, ChunkOf
  <2>3. sent[r] \in Message
    BY <2>2 DEF TypeInv, TypeOK
  <2> QED
    BY <2>3 DEF Message
<1>1. /\ wire' # << >> => /\ Reaches(sent, r, n, wire'[1].n, wire'[1].ofs)
                          /\ wire'[1].ofs \in 0 .. Len(sent[wire'[1].n].data) - 1
      /\ wire' = << >> /\ link = "up" => Reaches(sent, r, n, Len(sent), bytes_sent)
  BY TailAt
<1>2. wire' # << >> => wire'[1].n = Expected' /\ wire'[1].ofs = q
  <2>1. ASSUME wire' # << >>, n < Len(sent[r].data), Expected' = r
        PROVE  wire'[1].n = Expected' /\ wire'[1].ofs = q
    <3>1. n # Len(sent[r].data)
      BY <1>0, <2>1
    <3> QED
      BY <1>1, <2>1, <3>1 DEF Reaches
  <2>2. ASSUME wire' # << >>, n = Len(sent[r].data), Expected' = r + 1
        PROVE  wire'[1].n = Expected' /\ wire'[1].ofs = q
    <3>1. ~(wire'[1].n = r /\ wire'[1].ofs = n)
      BY <1>0, <1>1, <2>2
    <3> QED
      BY <1>0, <1>1, <2>2, <3>1 DEF Reaches
  <2> QED
    BY <2>1, <2>2
<1>3. wire' = << >> /\ link = "up" => Reaches(sent, Len(sent), bytes_sent, Expected', q)
  <2>1. ASSUME wire' = << >>, link = "up", n < Len(sent[r].data), Expected' = r
        PROVE  Reaches(sent, Len(sent), bytes_sent, Expected', q)
    <3>1. n # Len(sent[r].data)
      BY <1>0, <2>1
    <3> QED
      BY <1>1, <2>1, <3>1 DEF Reaches
  <2>2. ASSUME wire' = << >>, link = "up", n = Len(sent[r].data), Expected' = r + 1
        PROVE  Reaches(sent, Len(sent), bytes_sent, Expected', q)
    <3>1. q = 0
      BY <1>0, <2>2
    <3> QED
      BY <1>1, <2>2, <3>1 DEF Reaches
  <2> QED
    BY <2>1, <2>2
<1> QED
  BY <1>2, <1>3 DEF FrontAt

\* The step up to the position, for a chunk that completes its message and one
\* that does not.
LEMMA ReadKeeps ==
  ASSUME TypeInv, OrderInv, ReadHeaders, UNCHANGED outputVars
  PROVE  SentInv' /\ SenderInv' /\ WireInv'
<1>1. wire # << >> /\ wire' = Tail(wire) /\ UNCHANGED link
  BY DEF ReadHeaders
<1>2. SentInv' /\ SenderInv'
  BY DEF OrderInv, SentInv, SenderInv, SenderAt, OutContext, Current, outputVars
<1>3. WireInv'
  BY <1>1, TailAt DEF WireInv, outputVars
<1> QED
  BY <1>2, <1>3

LEMMA ReceivePartOrder ==
  ASSUME WholeBytes, TypeInv, OrderInv, ReceivePart, UNCHANGED outputVars
  PROVE  OrderInv'
<1>1. /\ receiver = "reading" /\ wire # << >> /\ wire' = Tail(wire)
      /\ ~Completes(Stream)
      /\ m_ChunkStreamsInput' = Put(m_ChunkStreamsInput, Incoming.cs, Filled)
      /\ UNCHANGED <<link, m_ChunkSizeReceive, receiver, received,
                     m_ChunkStreamsOutput, m_ChunkSizeSend, sender, bytes_sent, sent>>
  BY DEF ReceivePart, ReadHeaders, outputVars
<1>2. PICK p \in Nat : Position(p)
  BY DEF OrderInv, PositionInv
<1>3. PICK r \in 1 .. Len(sent) : r = Expected
  BY <1>1, <1>2, IncomingAt
<1>4. /\ Incoming = wire[1] /\ Incoming.n = r /\ Incoming.cs = sent[r].cs
      /\ r \in Nat /\ sent \in Seq(Message) /\ Len(sent[r].data) \in Nat
  BY <1>1, <1>2, <1>3, IncomingAt DEF TypeInv, TypeOK
<1>5. PICK n \in Nat : n = p + ToReceive(Stream)
  BY <1>1, <1>2, PayloadAt
<1>6. /\ n > 0 /\ n < Len(sent[r].data)
      /\ EndOf(Incoming) = n /\ Filled.bytes = SubSeq(sent[r].data, 1, n)
      /\ SameFields(Filled, ContextOf(sent[r]), ExactBefore(sent, r + 1))
  <2>1. /\ n \in 1 .. Len(sent[r].data) /\ EndOf(Incoming) = n
        /\ Filled.bytes = SubSeq(sent[r].data, 1, n)
        /\ SameFields(Filled, ContextOf(sent[r]), ExactBefore(sent, r + 1))
        /\ n # Len(sent[r].data)
    BY <1>1, <1>2, <1>3, <1>5, PayloadAt
  <2> QED
    BY <1>4, <2>1
<1>7. Expected' = r
  BY <1>1, <1>3 DEF Expected
<1>8. ReceivedInv'
  BY <1>1 DEF OrderInv, ReceivedInv
<1>9. InputsAt(r + 1)'
  <2>1. \E k \in {r, r + 1} : InputsAt(k)
    BY <1>2, <1>3 DEF Position
  <2> QED
    BY <1>1, <1>4, <1>6, <2>1, InputsPut
<1>10. BytesAt(n)'
  <2>1. ASSUME NEW id \in DOMAIN m_ChunkStreamsInput'
        PROVE  m_ChunkStreamsInput'[id].bytes =
                 IF id = sent[r].cs THEN SubSeq(sent[r].data, 1, n) ELSE << >>
    BY <1>1, <1>2, <1>3, <1>4, <1>6 DEF Position, BytesAt, Put
  <2> QED
    BY <1>1, <1>6, <1>7, <2>1 DEF BytesAt
<1>11. FrontAt(n)'
  <2>1. FrontAt(IF n < Len(sent[r].data) THEN n ELSE 0)'
    BY <1>1, <1>4, <1>6, <1>7, FrontAfter
  <2> QED
    BY <1>1, <1>6, <2>1 DEF FrontAt
<1>12. PositionInv'
  <2>1. Position(n)'
    BY <1>1, <1>6, <1>7, <1>9, <1>10, <1>11 DEF Position
  <2> QED
    BY <2>1 DEF PositionInv
<1>13. SentInv' /\ SenderInv' /\ WireInv'
  BY ReadKeeps DEF ReceivePart
<1> QED
  BY <1>8, <1>12, <1>13 DEF OrderInv

\* Two messages with the same fields.
LEMMA SameMessage ==
  ASSUME NEW a \in Message, NEW b \in Message, a.cs = b.cs, a.sid = b.sid,
         a.type = b.type, a.data = b.data, a.ts % U24 = b.ts % U24
  PROVE  LowBits(a) = LowBits(b) /\ (a.ts = b.ts => a = b)
<1>1. a = [cs |-> a.cs, sid |-> a.sid, type |-> a.type, ts |-> a.ts, data |-> a.data]
  BY DEF Message
<1>2. b = [cs |-> b.cs, sid |-> b.sid, type |-> b.type, ts |-> b.ts, data |-> b.data]
  BY DEF Message
<1>3. LowBits(a) = [cs |-> a.cs, sid |-> a.sid, type |-> a.type, ts |-> a.ts % U24,
                    data |-> a.data]
  BY <1>1 DEF LowBits
<1>4. LowBits(b) = [cs |-> b.cs, sid |-> b.sid, type |-> b.type, ts |-> b.ts % U24,
                    data |-> b.data]
  BY <1>2 DEF LowBits
<1>5. LowBits(a) = LowBits(b)
  BY <1>3, <1>4
<1>6. a.ts = b.ts => a = b
  BY <1>1, <1>2
<1> QED
  BY <1>5, <1>6

LEMMA ReceiveLastOrder ==
  ASSUME WholeBytes, TypeInv, OrderInv, ReceiveLast, UNCHANGED outputVars
  PROVE  OrderInv'
<1> DEFINE got == MessageOf(Incoming.cs, Filled)
           kept == [Filled EXCEPT !.bytes = << >>]
<1>1. /\ receiver = "reading" /\ wire # << >> /\ wire' = Tail(wire)
      /\ Completes(Stream)
      /\ m_ChunkStreamsInput' = Put(m_ChunkStreamsInput, Incoming.cs, kept)
      /\ receiver' = "returned" /\ received' = Append(received, got)
      /\ UNCHANGED <<link, m_ChunkSizeReceive,
                     m_ChunkStreamsOutput, m_ChunkSizeSend, sender, bytes_sent, sent>>
  BY DEF ReceiveLast, ReadHeaders, outputVars
<1>2. PICK p \in Nat : Position(p)
  BY DEF OrderInv, PositionInv
<1>3. PICK r \in 1 .. Len(sent) : r = Expected
  BY <1>1, <1>2, IncomingAt
<1>4. /\ Incoming = wire[1] /\ Incoming.n = r /\ Incoming.cs = sent[r].cs
      /\ r \in Nat \ {0} /\ sent \in Seq(Message) /\ Len(sent[r].data) \in Nat
      /\ sent[r] \in Message /\ sent[r].data \in Seq(Byte)
  BY <1>1, <1>2, <1>3, IncomingAt DEF TypeInv, TypeOK
<1>5. /\ EndOf(Incoming) = Len(sent[r].data)
      /\ Filled.bytes = sent[r].data
      /\ SameFields(Filled, ContextOf(sent[r]), ExactBefore(sent, r + 1))
  <2>1. /\ EndOf(Incoming) = Len(sent[r].data)
        /\ Filled.bytes = SubSeq(sent[r].data, 1, Len(sent[r].data))
        /\ SameFields(Filled, ContextOf(sent[r]), ExactBefore(sent, r + 1))
    BY <1>1, <1>2, <1>3, PayloadAt
  <2> QED
    BY <1>4, <2>1, SubSeqFull
<1>6. got \in Message /\ Filled \in ChunkStream /\ received \in Seq(Message)
  BY <1>1, FilledType DEF TypeInv, TypeOK
<1>7. /\ Len(received) = r - 1 /\ Len(received') = r /\ received'[r] = got
      /\ \A i \in 1 .. r - 1 : received'[i] = received[i]
  <2>1. Len(received) = r - 1 /\ Len(received) \in Nat
    BY <1>3, <1>4, <1>6 DEF Expected
  <2>2. Len(Append(received, got)) = Len(received) + 1
        /\ Append(received, got)[Len(received) + 1] = got
        /\ \A i \in 1 .. Len(received) : Append(received, got)[i] = received[i]
    BY <1>6, AppendProperties
  <2>3. Len(received) + 1 = r
    BY <1>4, <2>1
  <2> HIDE DEF got
  <2> QED
    BY <1>1, <2>1, <2>2, <2>3
<1>8. Expected' = r + 1
  BY <1>7 DEF Expected
<1>9. LowBits(got) = LowBits(sent[r]) /\ (ExactBefore(sent, r + 1) => got = sent[r])
  <2>1. /\ got.cs = sent[r].cs /\ got.sid = sent[r].sid /\ got.type = sent[r].type
        /\ got.ts % U24 = sent[r].ts % U24 /\ got.data = sent[r].data
        /\ ExactBefore(sent, r + 1) => got.ts = sent[r].ts
    BY <1>4, <1>5, ContextFields DEF SameFields, MessageOf
  <2> HIDE DEF got
  <2> QED
    BY <1>4, <1>6, <2>1, SameMessage
<1>10. ReceivedInv'
  <2>1. ASSUME NEW i \in 1 .. Len(received')
        PROVE  /\ LowBits(received'[i]) = LowBits(sent[i])
               /\ (\A j \in 1 .. i : sent[j].ts < U24) => received'[i] = sent[i]
    <3>1. i \in 1 .. r - 1 \/ i = r
      BY <1>4, <1>7
    <3>2. CASE i \in 1 .. r - 1
      BY <1>7, <3>2 DEF OrderInv, ReceivedInv
    <3>3. CASE i = r
      <4>1. (\A j \in 1 .. i : sent[j].ts < U24) => ExactBefore(sent, r + 1)
        BY <1>4, <3>3 DEF ExactBefore
      <4> QED
        BY <1>7, <1>9, <3>3, <4>1
    <3> QED
      BY <3>1, <3>2, <3>3
  <2>2. SizeAt(sent, Len(received'), m_ChunkSizeReceive')
    BY <1>1, <1>3, <1>7 DEF OrderInv, ReceivedInv, Expected
  <2>3. Len(received') <= Len(sent)
    BY <1>4, <1>7
  <2> QED
    BY <1>1, <2>1, <2>2, <2>3 DEF ReceivedInv
<1>11. InputsAt(r + 1)'
  <2>1. \E k \in {r, r + 1} : InputsAt(k)
    BY <1>2, <1>3 DEF Position
  <2>2. SameFields(kept, ContextOf(sent[r]), ExactBefore(sent, r + 1))
    BY <1>5, <1>6 DEF SameFields, ChunkStream
  <2> HIDE DEF kept, got
  <2> QED
    BY <1>1, <1>4, <2>1, <2>2, InputsPut
<1>12. BytesAt(0)'
  <2>0. kept.bytes = << >>
    BY <1>6 DEF ChunkStream
  <2>1. ASSUME NEW id \in DOMAIN m_ChunkStreamsInput'
        PROVE  m_ChunkStreamsInput'[id].bytes = << >>
    <3> HIDE DEF kept, got
    <3> QED
      BY <1>1, <1>2, <1>3, <1>4, <2>0, <2>1 DEF Position, BytesAt, Put
  <2> QED
    BY <2>1 DEF BytesAt
<1>13. FrontAt(0)'
  <2>1. FrontAt(IF Len(sent[r].data) < Len(sent[r].data) THEN Len(sent[r].data) ELSE 0)'
    <3> HIDE DEF kept, got
    <3>1. PICK n \in Nat : n = Len(sent[r].data)
      BY <1>4
    <3>2. FrontAt(IF n < Len(sent[r].data) THEN n ELSE 0)'
      BY <1>1, <1>4, <1>5, <1>8, <3>1, FrontAfter
    <3> QED
      BY <1>1, <3>1, <3>2 DEF FrontAt
  <2>2. ~(Len(sent[r].data) < Len(sent[r].data))
    BY <1>4
  <2> QED
    BY <1>1, <2>1, <2>2 DEF FrontAt
<1>14. PositionInv'
  <2>1. Position(0)'
    BY <1>8, <1>11, <1>12, <1>13 DEF Position
  <2> QED
    BY <2>1 DEF PositionInv
<1>15. SentInv' /\ SenderInv' /\ WireInv'
  BY ReadKeeps DEF ReceiveLast
<1> QED
  BY <1>10, <1>14, <1>15 DEF OrderInv

-----------------------------------------------------------------------------
(* The receiver's other steps.                                              *)

\* It never reads an empty payload, nor payload for headers or the reverse.
LEMMA NeverAstray ==
  ASSUME WholeBytes, TypeInv, OrderInv
  PROVE  ~ReceiveNothing /\ ~LoseFraming
<1>1. PICK p \in Nat : Position(p)
  BY DEF OrderInv, PositionInv
<1>2. receiver = "reading" /\ wire # << >> => ToReceive(Stream) # 0 /\ Framed
  BY <1>1, PayloadAt
<1> QED
  BY <1>2 DEF ReceiveNothing, LoseFraming, ReadHeaders

LEMMA ThrowsOrder ==
  ASSUME TypeInv, OrderInv, ReceiveThrows \/ HandleThrows, UNCHANGED outputVars
  PROVE  OrderInv'
<1>1. /\ receiver' = "failed"
      /\ UNCHANGED <<m_ChunkStreamsOutput, m_ChunkSizeSend, sender, bytes_sent, sent,
                     wire, link, m_ChunkStreamsInput, m_ChunkSizeReceive,
                     m_MaxMessageSize, received>>
  BY DEF ReceiveThrows, HandleThrows, outputVars, transportVars
<1>2. SentInv' /\ WireInv' /\ ReceivedInv'
  BY <1>1 DEF OrderInv, SentInv, WireInv, ReceivedInv
<1>3. SenderInv'
  BY <1>1 DEF OrderInv, SenderInv, SenderAt, OutContext, Current
<1>4. PositionInv'
  <2>1. PICK p \in Nat : Position(p)
    BY DEF OrderInv, PositionInv
  <2>2. Position(p)'
    BY <1>1, <2>1 DEF Position, InputsAt, BytesAt, FrontAt, Expected, GetChunkStreamInput
  <2> QED
    BY <2>2 DEF PositionInv
<1> QED
  BY <1>2, <1>3, <1>4 DEF OrderInv

\* A message received has the type and the payload of the message sent.
LEMMA SameContent ==
  ASSUME NEW a \in Message, NEW b \in Message, LowBits(a) = LowBits(b)
  PROVE  a.type = b.type /\ a.data = b.data /\ a.cs = b.cs
<1>1. \A c \in Message : /\ LowBits(c).type = c.type /\ LowBits(c).data = c.data
                         /\ LowBits(c).cs = c.cs
  BY DEF LowBits, Message
<1> QED
  BY <1>1

LEMMA HandleMessageOrder ==
  ASSUME TypeInv, OrderInv, HandleMessage, UNCHANGED outputVars
  PROVE  OrderInv'
<1>1. /\ receiver = "returned" /\ receiver' = "reading"
      /\ m_ChunkSizeReceive' = ChunkSizeAfter(received[Len(received)], m_ChunkSizeReceive)
      /\ m_ChunkStreamsInput' = AbortedBy(received[Len(received)])
      /\ UNCHANGED <<m_ChunkStreamsOutput, m_ChunkSizeSend, sender, bytes_sent, sent,
                     wire, link, m_MaxMessageSize, received>>
  BY DEF HandleMessage, outputVars, transportVars
<1>2. Len(received) \in 1 .. Len(received) /\ Len(received) \in 1 .. Len(sent)
      /\ Len(received) \in Nat \ {0}
  <2>1. Len(received) \in Nat \ {0} /\ Len(sent) \in Nat
    BY <1>1, EmptySeq DEF TypeInv, TypeOK
  <2> QED
    BY <2>1 DEF OrderInv, ReceivedInv
<1>3. /\ received[Len(received)].type = sent[Len(received)].type
      /\ received[Len(received)].data = sent[Len(received)].data
  <2>1. LowBits(received[Len(received)]) = LowBits(sent[Len(received)])
    BY <1>2 DEF OrderInv, ReceivedInv
  <2>2. received[Len(received)] \in Message /\ sent[Len(received)] \in Message
    BY <1>2 DEF TypeInv, TypeOK
  <2> QED
    BY <2>1, <2>2, SameContent
<1>4. m_ChunkStreamsInput' = m_ChunkStreamsInput
  <2>1. sent[Len(received)].type # "ABORT"
    BY <1>2 DEF OrderInv, SentInv, Announces
  <2> QED
    BY <1>1, <1>3, <2>1 DEF AbortedBy
<1>5. SizeAt(sent, Len(received) + 1, m_ChunkSizeReceive')
  <2>1. SizeAt(sent, Len(received), m_ChunkSizeReceive)
    BY <1>1 DEF OrderInv, ReceivedInv
  <2>2. SizeAt(sent, Len(received) + 1, ChunkSizeAfter(sent[Len(received)], m_ChunkSizeReceive))
    BY <1>2, <2>1, SizeStep
  <2>3. m_ChunkSizeReceive' = ChunkSizeAfter(sent[Len(received)], m_ChunkSizeReceive)
    BY <1>1, <1>3 DEF ChunkSizeAfter
  <2> QED
    BY <2>2, <2>3
<1>6. SentInv' /\ WireInv'
  BY <1>1 DEF OrderInv, SentInv, WireInv
<1>7. ReceivedInv'
  BY <1>1, <1>5 DEF OrderInv, ReceivedInv
<1>8. SenderInv'
  BY <1>1 DEF OrderInv, SenderInv, SenderAt, OutContext, Current
<1>9. PositionInv'
  <2>1. PICK p \in Nat : Position(p)
    BY DEF OrderInv, PositionInv
  <2>2. Position(p)'
    BY <1>1, <1>4, <2>1
    DEF Position, InputsAt, BytesAt, FrontAt, Expected, GetChunkStreamInput
  <2> QED
    BY <2>2 DEF PositionInv
<1> QED
  BY <1>6, <1>7, <1>8, <1>9 DEF OrderInv

LEMMA StutterOrder ==
  ASSUME OrderInv, UNCHANGED vars
  PROVE  OrderInv'
<1>1. UNCHANGED <<m_ChunkStreamsOutput, m_ChunkSizeSend, sender, bytes_sent, sent,
                  wire, link, m_ChunkStreamsInput, m_ChunkSizeReceive,
                  m_MaxMessageSize, receiver, received>>
  BY DEF vars, outputVars, inputVars, transportVars
<1>2. SentInv' /\ WireInv' /\ ReceivedInv'
  BY <1>1 DEF OrderInv, SentInv, WireInv, ReceivedInv
<1>3. SenderInv'
  BY <1>1 DEF OrderInv, SenderInv, SenderAt, OutContext, Current
<1>4. PositionInv'
  <2>1. PICK p \in Nat : Position(p)
    BY DEF OrderInv, PositionInv
  <2>2. Position(p)'
    BY <1>1, <2>1 DEF Position, InputsAt, BytesAt, FrontAt, Expected, GetChunkStreamInput
  <2> QED
    BY <2>2 DEF PositionInv
<1> QED
  BY <1>2, <1>3, <1>4 DEF OrderInv

LEMMA NextOrder ==
  ASSUME WholeBytes, CarriedMessages, TypeInv, OrderInv, [Next]_vars
  PROVE  OrderInv'
<1>1. CASE ApplicationCall /\ UNCHANGED inputVars
  BY <1>1, CallsCarried, SendOrder
<1>2. CASE Output
  BY <1>1, <1>2, SendChunkOrder, SendReturnsOrder, SendThrowsOrder DEF Output, OutputNext
<1>3. CASE Input
  BY <1>3, ReceivePartOrder, ReceiveLastOrder, NeverAstray, ThrowsOrder, HandleMessageOrder
  DEF Input, InputNext, ReceiveChunk
<1>4. CASE Disconnect
  BY <1>4, DisconnectOrder
<1>5. CASE UNCHANGED vars
  BY <1>5, StutterOrder
<1> QED
  BY <1>2, <1>3, <1>4, <1>5 DEF Next

-----------------------------------------------------------------------------
(* What the invariant says of every reachable state.                        *)

LEMMA OrderInSync ==
  ASSUME TypeInv, OrderInv
  PROVE  InSync
<1>1. PICK p \in Nat : Position(p)
  BY DEF OrderInv, PositionInv
<1>2. ASSUME NEW id \in DOMAIN m_ChunkStreamsInput
      PROVE  Len(m_ChunkStreamsInput[id].bytes) <= m_ChunkStreamsInput[id].message_length
  <2>1. id \in ChunkStreamId /\ m_ChunkStreamsInput[id].message_length \in Nat
    BY DEF TypeInv, TypeOK, MapTo, ChunkStream
  <2>2. CASE p > 0 /\ id = sent[Expected].cs
    <3>1. Expected \in 1 .. Len(sent) /\ p < Len(sent[Expected].data)
          /\ Expected \in Nat \ {0} /\ sent[Expected] \in Message
      <4>1. Expected \in Nat \ {0} /\ Expected <= Len(sent) /\ p < Len(sent[Expected].data)
        BY <1>1, <2>2 DEF Position, Expected, TypeInv, TypeOK
      <4> QED
        BY <4>1 DEF TypeInv, TypeOK
    <3>2. PICK ctx : /\ ContextAt(sent, Expected + 1, id, ctx)
                     /\ SameFields(GetChunkStreamInput(id), ctx, ExactBefore(sent, Expected + 1))
      BY <1>1, <2>1, <2>2 DEF Position, InputsAt
    <3>3. ctx = ContextOf(sent[Expected])
      <4>1. ContextAt(sent, Expected + 1, id, ContextOf(sent[Expected]))
        BY <2>2, <3>1, ContextStepSame
      <4>2. Expected + 1 \in Nat
        BY <3>1
      <4> QED
        BY <3>2, <4>1, <4>2, ContextUnique
    <3>4. m_ChunkStreamsInput[id].message_length = Len(sent[Expected].data)
      BY <3>1, <3>2, <3>3, ContextFields DEF SameFields, GetChunkStreamInput
    <3>5. m_ChunkStreamsInput[id].bytes = SubSeq(sent[Expected].data, 1, p)
      BY <1>1, <2>2 DEF Position, BytesAt
    <3>6. Len(m_ChunkStreamsInput[id].bytes) = p
      <4>1. sent[Expected].data \in Seq(Byte) /\ Len(sent[Expected].data) \in Nat
        BY <3>1 DEF Message
      <4>2. p \in 0 .. Len(sent[Expected].data)
        BY <3>1, <4>1
      <4> QED
        BY <3>5, <4>1, <4>2, PartLength
    <3> QED
      BY <3>1, <3>4, <3>6
  <2>3. CASE ~(p > 0 /\ id = sent[Expected].cs)
    <3>1. m_ChunkStreamsInput[id].bytes = << >>
      BY <1>1, <2>3 DEF Position, BytesAt
    <3> QED
      BY <2>1, <3>1, EmptySeq
  <2> QED
    BY <2>2, <2>3
<1> QED
  BY <1>2 DEF InSync, OrderInv, ReceivedInv

LEMMA OrderContextsAgree ==
  ASSUME TypeInv, OrderInv
  PROVE  ContextsAgree
<1> SUFFICES ASSUME Quiescent
             PROVE  /\ DOMAIN m_ChunkStreamsInput = DOMAIN m_ChunkStreamsOutput
                    /\ \A id \in DOMAIN m_ChunkStreamsOutput :
                         LET in  == m_ChunkStreamsInput[id]
                             out == m_ChunkStreamsOutput[id]
                         IN  /\ Between(in)
                             /\ in.message_length = out.message_length
                             /\ in.message_type = out.message_type
                             /\ in.message_stream_id = out.message_stream_id
                             /\ in.timestamp % U24 = out.timestamp % U24
                    /\ m_ChunkSizeSend = m_ChunkSizeReceive
  BY DEF ContextsAgree
<1>1. PICK p \in Nat : Position(p)
  BY DEF OrderInv, PositionInv
<1>2. /\ link = "up" /\ wire = << >> /\ sender = "idle" /\ receiver = "reading"
      /\ SenderAt = Len(sent) + 1 /\ Len(sent) \in Nat \ {0}
  BY CurrentType DEF Quiescent, SenderAt
<1>3. bytes_sent = Len(sent[Len(sent)].data) /\ Len(sent[Len(sent)].data) \in Nat \ {0}
  BY <1>2, CurrentCarried DEF OrderInv, SenderInv
<1>4. Expected = Len(sent) + 1 /\ p = 0
  <2>1. Reaches(sent, Len(sent), bytes_sent, Expected, p)
    BY <1>1, <1>2 DEF Position, FrontAt
  <2>2. ~(Expected = Len(sent) /\ p = bytes_sent)
    BY <1>1, <1>3 DEF Position
  <2> QED
    BY <2>1, <2>2 DEF Reaches
<1>5. InputsAt(Len(sent) + 1) /\ BytesAt(0)
  BY <1>1, <1>4 DEF Position
<1>6. \A id \in ChunkStreamId :
        id \in DOMAIN m_ChunkStreamsInput <=> id \in DOMAIN m_ChunkStreamsOutput
  BY <1>2, <1>5 DEF InputsAt, OrderInv, SenderInv
<1>7. DOMAIN m_ChunkStreamsInput = DOMAIN m_ChunkStreamsOutput
  BY <1>6 DEF TypeInv, TypeOK, MapTo
<1>8. ASSUME NEW id \in DOMAIN m_ChunkStreamsOutput
      PROVE  LET in  == m_ChunkStreamsInput[id]
                 out == m_ChunkStreamsOutput[id]
             IN  /\ Between(in)
                 /\ in.message_length = out.message_length
                 /\ in.message_type = out.message_type
                 /\ in.message_stream_id = out.message_stream_id
                 /\ in.timestamp % U24 = out.timestamp % U24
  <2>1. id \in ChunkStreamId
    BY DEF TypeInv, TypeOK, MapTo
  <2>2. PICK ctx : /\ ContextAt(sent, Len(sent) + 1, id, ctx)
                   /\ SameFields(GetChunkStreamInput(id), ctx, ExactBefore(sent, Len(sent) + 1))
    BY <1>5, <2>1 DEF InputsAt
  <2>3. ContextAt(sent, Len(sent) + 1, id, OutContext(id))
    BY <1>2, <2>1 DEF OrderInv, SenderInv
  <2>4. ctx = OutContext(id)
    <3>1. Len(sent) + 1 \in Nat
      BY <1>2
    <3> QED
      BY <2>2, <2>3, <3>1, ContextUnique
  <2>5. OutContext(id) = m_ChunkStreamsOutput[id]
        /\ GetChunkStreamInput(id) = m_ChunkStreamsInput[id]
    BY <1>7 DEF OutContext, GetChunkStreamInput
  <2>6. Between(m_ChunkStreamsInput[id])
    BY <1>5, <1>7 DEF BytesAt, Between
  <2> QED
    BY <2>2, <2>4, <2>5, <2>6 DEF SameFields
<1>9. m_ChunkSizeSend = m_ChunkSizeReceive
  <2>1. SizeAt(sent, Len(sent) + 1, m_ChunkSizeSend)
    BY <1>2 DEF OrderInv, SenderInv
  <2>2. SizeAt(sent, Len(sent) + 1, m_ChunkSizeReceive)
    BY <1>2, <1>4 DEF OrderInv, ReceivedInv, Expected
  <2>3. Len(sent) + 1 \in Nat
    BY <1>2
  <2> QED
    BY <2>1, <2>2, <2>3, SizeUnique
<1> QED
  BY <1>7, <1>8, <1>9

\* The position of the receiver follows the position of the sender, in every
\* reachable state.
THEOREM InOrder ==
  ASSUME WholeBytes, CarriedMessages
  PROVE  Spec => [](TypeInv /\ OrderInv)
<1>1. TypeInv /\ OrderInv /\ [Next]_vars => OrderInv'
  BY NextOrder
<1>2. Init => OrderInv
  BY InitOrder
<1> QED
  BY <1>1, <1>2, TypeCorrect, PTL DEF Spec

\* The two ends never disagree on where a chunk ends, whatever chunk sizes are
\* announced and however the calls interleave: InSync.
THEOREM InSyncHolds ==
  ASSUME WholeBytes, CarriedMessages
  PROVE  Spec => []InSync
<1>1. TypeInv /\ OrderInv => InSync
  BY OrderInSync
<1> QED
  BY <1>1, InOrder, PTL

\* Nothing is lost, repeated, reordered or changed on the way, also when the
\* connection breaks: DeliveredInOrder.
THEOREM DeliveredInOrderHolds ==
  ASSUME WholeBytes, CarriedMessages
  PROVE  Spec => []DeliveredInOrder
<1>1. OrderInv => DeliveredInOrder
  BY DEF OrderInv, ReceivedInv, DeliveredInOrder
<1> QED
  BY <1>1, InOrder, PTL

\* At rest both ends remember the same contexts and chunk size: ContextsAgree.
THEOREM ContextsAgreeHolds ==
  ASSUME WholeBytes, CarriedMessages
  PROVE  Spec => []ContextsAgree
<1>1. TypeInv /\ OrderInv => ContextsAgree
  BY OrderContextsAgree
<1> QED
  BY <1>1, InOrder, PTL

-----------------------------------------------------------------------------
(* The direction implements the safety of MessageChannel: its initial state *)
(* is the channel's, and every step is a step of the channel or none.       *)

LEMMA LowBitsType ==
  ASSUME NEW m \in Message
  PROVE  LowBits(m) \in Message
<1>1. m.ts \in Int /\ m.ts \in 0 .. U64 - 1
  BY Widths DEF Message
<1>2. m.ts % U24 \in 0 .. U24 - 1
  BY <1>1, Mod24
<1>3. m.ts % U24 \in 0 .. U64 - 1
  BY <1>2, Widths
<1> QED
  BY <1>3 DEF LowBits, Message

LEMMA LowBitsAppend ==
  ASSUME NEW s \in Seq(Message), NEW m \in Message
  PROVE  [i \in DOMAIN Append(s, m) |-> LowBits(Append(s, m)[i])]
           = Append([i \in DOMAIN s |-> LowBits(s[i])], LowBits(m))
<1> DEFINE low == [i \in DOMAIN s |-> LowBits(s[i])]
           new == [i \in DOMAIN Append(s, m) |-> LowBits(Append(s, m)[i])]
<1>1. /\ Append(s, m) \in Seq(Message) /\ Len(Append(s, m)) = Len(s) + 1
      /\ Append(s, m)[Len(s) + 1] = m
      /\ \A i \in 1 .. Len(s) : Append(s, m)[i] = s[i]
  BY AppendProperties
<1>2. low \in Seq(Message) /\ Len(low) = Len(s) /\ \A i \in 1 .. Len(s) : low[i] = LowBits(s[i])
  BY LowBitsType
<1>3. new \in Seq(Message) /\ Len(new) = Len(s) + 1
      /\ \A i \in 1 .. Len(s) + 1 : new[i] = LowBits(Append(s, m)[i])
  BY <1>1, LowBitsType
<1> HIDE DEF low, new
<1>4. /\ Append(low, LowBits(m)) \in Seq(Message)
      /\ Len(Append(low, LowBits(m))) = Len(s) + 1
      /\ Append(low, LowBits(m))[Len(s) + 1] = LowBits(m)
      /\ \A i \in 1 .. Len(s) : Append(low, LowBits(m))[i] = low[i]
  BY <1>2, LowBitsType, AppendProperties
<1>5. \A i \in 1 .. Len(s) + 1 : new[i] = Append(low, LowBits(m))[i]
  <2>1. \A i \in 1 .. Len(s) + 1 : i \in 1 .. Len(s) \/ i = Len(s) + 1
    OBVIOUS
  <2> QED
    BY <1>1, <1>2, <1>3, <1>4, <2>1
<1>6. new = Append(low, LowBits(m))
  BY <1>3, <1>4, <1>5, SeqEqual
<1> QED
  BY <1>6 DEF low, new

\* The mapped variables.
sentLow == [i \in DOMAIN sent |-> LowBits(sent[i])]
receivedLow == [i \in DOMAIN received |-> LowBits(received[i])]

LEMMA InitChannel ==
  ASSUME Init
  PROVE  Channel!Init
<1> DEFINE greeting == SetChunkSizeMessage(CtorChunkSize)
<1>1. greeting \in Message /\ LowBits(greeting) = greeting
  <2>1. U32Bytes(CtorChunkSize) \in Seq(Byte)
    BY ArgumentsAssumption, U32BytesType
  <2>2. greeting \in Message /\ greeting.ts = 0
    BY <2>1, Widths DEF SetChunkSizeMessage, ControlMessage, Message, MessageType
  <2>3. 0 % U24 = 0
    BY Widths, SmallRemainder
  <2> HIDE DEF greeting
  <2>4. greeting = [cs |-> greeting.cs, sid |-> greeting.sid, type |-> greeting.type,
                    ts |-> greeting.ts, data |-> greeting.data]
    BY <2>2 DEF Message
  <2> QED
    BY <2>2, <2>3, <2>4 DEF LowBits
<1>2. sent = << greeting >> /\ received = << >> /\ link = "up"
  BY DEF Init, OutputInit, InputInit
<1> HIDE DEF greeting
<1>3. sentLow = << greeting >>
  BY <1>1, <1>2 DEF sentLow
<1>4. receivedLow = << >>
  BY <1>2 DEF receivedLow
<1> QED
  BY <1>2, <1>3, <1>4 DEF Channel!Init, sentLow, receivedLow, greeting

\* Steps the channel does not see.
LEMMA HiddenStep ==
  ASSUME UNCHANGED <<sent, received, link>>
  PROVE  UNCHANGED Channel!channelVars
  BY DEF Channel!channelVars

LEMMA CallMapped ==
  ASSUME TypeInv, ApplicationCall, UNCHANGED inputVars
  PROVE  Channel!Next
<1>1. PICK m \in AppMessages : SendRTMPMessage(m)
  BY DEF ApplicationCall, AppMessages, SendCommand, SendUserControlMessage,
     SendControlMessage, Send_WindowsAcknowledgementSize, Send_SetPeerBandwith,
     ChangeChunkSizeOutput
<1>2. m \in Message
  <2>1. PICK a \in Message : SendRTMPMessage(a)
    BY ApplicationCallSends
  <2>2. Append(sent, m) = Append(sent, a)
    BY <1>1, <2>1 DEF SendRTMPMessage
  <2>3. Append(sent, m)[Len(sent) + 1] = Append(sent, a)[Len(sent) + 1]
    BY <2>2
  <2> QED
    BY <2>1, <2>3
<1>3. sent \in Seq(Message) /\ sent' = Append(sent, m) /\ UNCHANGED <<received, link>>
  BY <1>1 DEF TypeInv, TypeOK, SendRTMPMessage, transportVars, inputVars
<1>4. sentLow' = Append(sentLow, LowBits(m))
  BY <1>2, <1>3, LowBitsAppend DEF sentLow
<1>5. Channel!Send(LowBits(m))
  BY <1>3, <1>4 DEF Channel!Send, sentLow
<1> QED
  BY <1>1, <1>5 DEF Channel!Next

LEMMA ReceiveMapped ==
  ASSUME TypeInv, OrderInv', ReceiveLast, UNCHANGED outputVars
  PROVE  Channel!Next
<1> DEFINE got == MessageOf(Incoming.cs, Filled)
<1>1. /\ received \in Seq(Message) /\ got \in Message /\ received' = Append(received, got)
      /\ UNCHANGED <<sent, link>> /\ sent \in Seq(Message)
  BY FilledType DEF TypeInv, TypeOK, ReceiveLast, ReadHeaders, outputVars
<1> HIDE DEF got
<1>2. Len(received') = Len(received) + 1 /\ received'[Len(received) + 1] = got
      /\ Len(received) \in Nat /\ Len(sent) \in Nat
  BY <1>1, AppendProperties
<1>3. Len(received) + 1 \in 1 .. Len(sent) /\ LowBits(got) = LowBits(sent[Len(received) + 1])
  <2>1. Len(received') <= Len(sent) /\ \A i \in 1 .. Len(received') :
          LowBits(received'[i]) = LowBits(sent[i])
    BY <1>1 DEF OrderInv, ReceivedInv
  <2> QED
    BY <1>2, <2>1
<1>4. receivedLow' = Append(receivedLow, LowBits(got))
  BY <1>1, LowBitsAppend DEF receivedLow
<1>5. /\ Len(receivedLow) = Len(received) /\ Len(sentLow) = Len(sent)
      /\ sentLow[Len(received) + 1] = LowBits(got)
  BY <1>1, <1>3 DEF receivedLow, sentLow
<1>6. Channel!Deliver
  BY <1>1, <1>2, <1>3, <1>4, <1>5 DEF Channel!Deliver, receivedLow, sentLow
<1> QED
  BY <1>6 DEF Channel!Next

LEMMA BreakMapped ==
  ASSUME Disconnect
  PROVE  Channel!Next
<1>1. link = "up" /\ link' = "down" /\ UNCHANGED <<sent, received>>
  BY DEF Disconnect, outputVars, inputVars
<1> QED
  BY <1>1 DEF Channel!Next, Channel!Break

LEMMA StepMapped ==
  ASSUME TypeInv, OrderInv, OrderInv', WholeBytes, [Next]_vars
  PROVE  [Channel!Next]_(Channel!channelVars)
<1>1. CASE ApplicationCall /\ UNCHANGED inputVars
  BY <1>1, CallMapped
<1>2. CASE (SendChunk \/ SendReturns \/ SendThrows) /\ UNCHANGED inputVars
  BY <1>2, HiddenStep DEF SendChunk, SendReturns, SendThrows, inputVars, transportVars
<1>3. CASE ReceiveLast /\ UNCHANGED outputVars
  BY <1>3, ReceiveMapped
<1>4. CASE (ReceivePart \/ ReceiveThrows \/ HandleMessage \/ HandleThrows) /\ UNCHANGED outputVars
  BY <1>4, HiddenStep DEF ReceivePart, ReadHeaders, ReceiveThrows, HandleMessage,
     HandleThrows, outputVars, transportVars
<1>5. CASE Disconnect
  BY <1>5, BreakMapped
<1>6. CASE UNCHANGED vars
  BY <1>6, HiddenStep DEF vars, outputVars, inputVars, transportVars
<1> QED
  BY <1>1, <1>2, <1>3, <1>4, <1>5, <1>6, NeverAstray
  DEF Next, Output, OutputNext, Input, InputNext, ReceiveChunk

\* Chunking, header compression and changes of the chunk size are invisible above
\* the endpoints: whatever they do is a step of MessageChannel or none.  That
\* each message arrives in the end is the part of ImplementsChannel that is left.
THEOREM ImplementsChannelSafety ==
  ASSUME WholeBytes, CarriedMessages
  PROVE  Spec => Channel!Init /\ [][Channel!Next]_(Channel!channelVars)
<1>1. Init => Channel!Init
  BY InitChannel
<1>2. (TypeInv /\ OrderInv) /\ (TypeInv /\ OrderInv)' /\ [Next]_vars
        => [Channel!Next]_(Channel!channelVars)
  BY StepMapped
<1> QED
  BY <1>1, <1>2, InOrder, PTL DEF Spec

=============================================================================
