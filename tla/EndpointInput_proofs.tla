------------------------ MODULE EndpointInput_proofs ------------------------
(***************************************************************************)
(* What can be proved of the receiving half alone, whoever sends: types,    *)
(* buffers, and what a header makes of a chunk stream.  EndpointLink_proofs *)
(* and EndpointDemux_proofs build on it, the first for EasyRTMP's own       *)
(* sender, the second for any other.                                        *)
(***************************************************************************)
EXTENDS EndpointInput, SequenceTheorems, TLAPS

CONSTANT Large   \* the chunk stream that may carry long messages

-----------------------------------------------------------------------------
(* Widths and numbers.                                                      *)

\* Four bytes read as an integer.
LEMMA U32ValueType ==
  ASSUME NEW b \in Seq(Byte), Len(b) >= 4
  PROVE  U32Value(b) \in Nat
<1>1. b[1] \in Byte /\ b[2] \in Byte /\ b[3] \in Byte /\ b[4] \in Byte
  OBVIOUS
<1>2. \A x \in Nat, y \in Byte : x * 256 + y \in Nat
  BY DEF Byte
<1>3. Byte \subseteq Nat
  BY DEF Byte
<1>4. b[1] * 256 + b[2] \in Nat
  BY <1>1, <1>2, <1>3
<1>5. (b[1] * 256 + b[2]) * 256 + b[3] \in Nat
  BY <1>1, <1>2, <1>4
<1>6. ((b[1] * 256 + b[2]) * 256 + b[3]) * 256 + b[4] \in Nat
  BY <1>1, <1>2, <1>5
<1> QED
  BY <1>6 DEF U32Value

\* The widths are positive integers in order.
LEMMA Widths ==
  /\ U24 \in Int /\ U24 > 0 /\ U32 \in Int /\ U32 >= U24
  /\ U64 \in Int /\ U64 >= U32 /\ CsIds \in Int /\ CsIds > 0
  BY WidthAssumption

\* A remainder lies below the modulus.
LEMMA Mod24 == \A a \in Int : a % U24 \in 0 .. U24 - 1
  BY Widths

LEMMA Mod32 == \A a \in Int : a % U32 \in 0 .. U32 - 1
  BY Widths

LEMMA Mod64 == \A a \in Int : a % U64 \in 0 .. U64 - 1
  BY Widths

\* A length cut to three bytes is no longer than before.
LEMMA CutLength ==
  ASSUME NEW n \in Nat
  PROVE  n % U24 \in 0 .. n
<1>1. ASSUME n < U24
      PROVE  n % U24 = n
  BY <1>1, Widths
<1>2. n % U24 \in 0 .. U24 - 1
  BY Mod24
<1> QED
  BY <1>1, <1>2, Widths

-----------------------------------------------------------------------------
(* Types of headers and chunk streams.                                      *)

\* The four sets of headers.
HeaderOfFmt0 ==
  [ fmt : {0}, ts : 0 .. U24 - 1, len : 0 .. U24 - 1, type : MessageType,
    sid : 0 .. U32 - 1 ]
HeaderOfFmt1 ==
  [ fmt : {1}, delta : 0 .. U24 - 1, len : 0 .. U24 - 1, type : MessageType ]
HeaderOfFmt2 == [ fmt : {2}, delta : 0 .. U24 - 1 ]
HeaderOfFmt3 == [ fmt : {3} ]

LEMMA HeaderCases ==
  ASSUME NEW h \in Header
  PROVE  \/ h.fmt = 0 /\ h \in HeaderOfFmt0
         \/ h.fmt = 1 /\ h \in HeaderOfFmt1
         \/ h.fmt = 2 /\ h \in HeaderOfFmt2
         \/ h.fmt = 3 /\ h \in HeaderOfFmt3
  BY DEF Header, HeaderOfFmt0, HeaderOfFmt1, HeaderOfFmt2, HeaderOfFmt3

LEMMA HeaderTypes ==
  ASSUME NEW ctx \in Context, NEW m \in Message
  PROVE  /\ Header0(m) \in Header /\ Header1(ctx, m) \in Header
         /\ Header2(ctx, m) \in Header /\ Header3 \in Header
<1>0. m.ts \in Int /\ Len(m.data) \in Int /\ ctx.timestamp \in Int
  BY DEF Message, Context
<1>1. m.ts % U24 \in 0 .. U24 - 1 /\ Len(m.data) % U24 \in 0 .. U24 - 1
  BY <1>0, Mod24
<1>2. m.ts - ctx.timestamp \in Int
  BY <1>0
<1>3. (m.ts - ctx.timestamp) % U24 \in 0 .. U24 - 1
  BY <1>2, Mod24
<1>4. Header0(m) \in HeaderOfFmt0
  BY <1>1 DEF Header0, HeaderOfFmt0, Message
<1>5. Header1(ctx, m) \in HeaderOfFmt1
  BY <1>1, <1>3 DEF Header1, HeaderOfFmt1, Message
<1>6. Header2(ctx, m) \in HeaderOfFmt2
  BY <1>3 DEF Header2, HeaderOfFmt2
<1>7. Header3 \in HeaderOfFmt3
  BY DEF Header3, HeaderOfFmt3
<1> QED
  BY <1>4, <1>5, <1>6, <1>7
  DEF Header, HeaderOfFmt0, HeaderOfFmt1, HeaderOfFmt2, HeaderOfFmt3

\* A header keeps a chunk stream a chunk stream, its bytes and its buffer.
LEMMA ApplyHeaderType ==
  ASSUME NEW cs \in ChunkStream, NEW h \in Header
  PROVE  /\ ApplyHeader(cs, h) \in ChunkStream
         /\ ApplyHeader(cs, h).bytes = cs.bytes
         /\ ApplyHeader(cs, h).size = cs.size
<1>0. cs.timestamp \in Int /\ cs.timestamp_delta \in Int
  BY DEF ChunkStream
<1>1. \A d \in Int : Advance(cs, d) \in 0 .. U64 - 1
  <2>1. \A d \in Int : cs.timestamp + d \in Int
    BY <1>0
  <2> QED
    BY <2>1, Mod64 DEF Advance
<1>2. CASE h.fmt = 0 /\ h \in HeaderOfFmt0
  <2>0. h.ts \in 0 .. U24 - 1 /\ h.len \in 0 .. U24 - 1 /\ h.sid \in 0 .. U32 - 1
        /\ h.type \in MessageType
    BY <1>2 DEF HeaderOfFmt0
  <2>1. h.ts - cs.timestamp \in Int /\ h.sid \in Int
    BY <1>0, <2>0
  <2>2. (h.ts - cs.timestamp) % U32 \in 0 .. U32 - 1 /\ h.sid % U24 \in 0 .. U24 - 1
    BY <2>1, Mod24, Mod32
  <2>3. h.sid % U24 \in 0 .. U32 - 1 /\ h.ts \in 0 .. U64 - 1 /\ h.len \in Nat
    BY <2>0, <2>2, Widths
  <2>4. ApplyHeader(cs, h) = ApplyHeader0(cs, h)
    BY <1>2 DEF ApplyHeader
  <2> QED
    BY <2>0, <2>2, <2>3, <2>4 DEF ApplyHeader0, ChunkStream
<1>3. \A d \in 0 .. U24 - 1 : d \in 0 .. U32 - 1 /\ Advance(cs, d) \in 0 .. U64 - 1
  BY <1>1, Widths
<1>4. ASSUME h.delta \in 0 .. U24 - 1
      PROVE  /\ ApplyDelta(cs, h) \in ChunkStream
             /\ ApplyDelta(cs, h).bytes = cs.bytes
             /\ ApplyDelta(cs, h).size = cs.size
  BY <1>3, <1>4 DEF ApplyDelta, ChunkStream
<1>5. CASE h.fmt = 1 /\ h \in HeaderOfFmt1
  <2>1. h.delta \in 0 .. U24 - 1 /\ h.len \in Nat /\ h.type \in MessageType
    BY <1>5 DEF HeaderOfFmt1
  <2>2. ApplyHeader(cs, h) = ApplyHeader1(cs, h)
    BY <1>5 DEF ApplyHeader
  <2> QED
    BY <1>4, <2>1, <2>2 DEF ApplyHeader1, ChunkStream
<1>6. CASE h.fmt = 2 /\ h \in HeaderOfFmt2
  <2>1. h.delta \in 0 .. U24 - 1
    BY <1>6 DEF HeaderOfFmt2
  <2>2. ApplyHeader(cs, h) = ApplyDelta(cs, h)
    BY <1>6 DEF ApplyHeader
  <2> QED
    BY <1>4, <2>1, <2>2
<1>7. CASE h.fmt = 3 /\ h \in HeaderOfFmt3
  <2>1. Advance(cs, cs.timestamp_delta) \in 0 .. U64 - 1
    BY <1>0, <1>1
  <2>2. ApplyHeader(cs, h) = ApplyHeader3(cs)
    BY <1>7 DEF ApplyHeader
  <2> QED
    BY <2>1, <2>2 DEF ApplyHeader3, ChunkStream
<1> QED
  BY <1>2, <1>5, <1>6, <1>7, HeaderCases

LEMMA PutType ==
  ASSUME NEW map, NEW V, MapTo(map, V), NEW id \in ChunkStreamId, NEW v \in V
  PROVE  MapTo(Put(map, id, v), V)
  BY DEF MapTo, Put

\* The context of a message and the state of a new chunk stream.
LEMMA ContextOfType ==
  ASSUME NEW m \in Message
  PROVE  ContextOf(m) \in Context
  BY DEF ContextOf, Context, Message

LEMMA NewContextType == NewContext \in Context
  BY WidthAssumption DEF NewContext, Context, MessageType

LEMMA NewChunkStreamType ==
  ASSUME NEW b_len \in Nat
  PROVE  NewChunkStream(b_len) \in ChunkStream
  BY NewContextType, WidthAssumption DEF NewChunkStream, ChunkStream, Context

LEMMA ChunkSizeAfterType ==
  ASSUME NEW m \in Message, NEW size \in Nat,
         m.type = "SET_CHUNK_SIZE" => Len(m.data) >= 4
  PROVE  ChunkSizeAfter(m, size) \in Nat
  BY U32ValueType DEF ChunkSizeAfter, Message
-----------------------------------------------------------------------------
(* Types of the receiver's state, as long as what arrives is a chunk.       *)

InputType ==
  /\ MapTo(m_ChunkStreamsInput, ChunkStream)
  /\ m_ChunkSizeReceive \in Nat /\ m_MaxMessageSize \in Nat
  /\ receiver \in {"reading", "returned", "failed", "desync"}
  /\ received \in Seq(Message)
  /\ receiver = "returned" => received # << >>

\* What a receiver relies on in a chunk.
Readable(c) == c.cs \in ChunkStreamId /\ c.hdr \in Header /\ c.data \in Seq(Byte)

LEMMA GrownFields ==
  ASSUME NEW cs \in ChunkStream
  PROVE  /\ Grown(cs) \in ChunkStream
         /\ Grown(cs).message_length = cs.message_length
         /\ Grown(cs).message_type = cs.message_type
         /\ Grown(cs).message_stream_id = cs.message_stream_id
         /\ Grown(cs).timestamp = cs.timestamp
         /\ Grown(cs).timestamp_delta = cs.timestamp_delta
         /\ Grown(cs).bytes = cs.bytes
  BY DEF Grown, ChunkStream

LEMMA StoredType ==
  ASSUME InputType, NEW id \in ChunkStreamId
  PROVE  GetChunkStreamInput(id) \in ChunkStream
  BY NewChunkStreamType DEF InputType, MapTo, GetChunkStreamInput

LEMMA StreamTyped ==
  ASSUME InputType, Readable(Incoming)
  PROVE  /\ Stream \in ChunkStream
         /\ Stream.bytes = GetChunkStreamInput(Incoming.cs).bytes
<1>1. Incoming.cs \in ChunkStreamId /\ Incoming.hdr \in Header
  BY DEF Readable
<1>2. GetChunkStreamInput(Incoming.cs) \in ChunkStream
  BY <1>1, StoredType
<1> DEFINE cs == ApplyHeader(GetChunkStreamInput(Incoming.cs), Incoming.hdr)
<1>3. cs \in ChunkStream /\ cs.bytes = GetChunkStreamInput(Incoming.cs).bytes
  BY <1>1, <1>2, ApplyHeaderType
<1>4. Grown(cs) \in ChunkStream /\ Grown(cs).bytes = cs.bytes
  <2> HIDE DEF cs
  <2> QED
    BY <1>3, GrownFields
<1> QED
  BY <1>3, <1>4 DEF Stream

LEMMA FilledTyped ==
  ASSUME InputType, Readable(Incoming)
  PROVE  /\ Filled \in ChunkStream
         /\ [Filled EXCEPT !.bytes = << >>] \in ChunkStream
         /\ MessageOf(Incoming.cs, Filled) \in Message
<1>1. Stream \in ChunkStream /\ Incoming.data \in Seq(Byte) /\ Incoming.cs \in ChunkStreamId
  BY StreamTyped DEF Readable
<1>2. Stream.bytes \o Incoming.data \in Seq(Byte)
  BY <1>1, ConcatProperties DEF ChunkStream
<1>3. Filled \in ChunkStream
  BY <1>1, <1>2 DEF Filled, ChunkStream
<1>4. [Filled EXCEPT !.bytes = << >>] \in ChunkStream
  <2>1. << >> \in Seq(Byte)
    OBVIOUS
  <2> QED
    BY <1>3, <2>1 DEF ChunkStream
<1>5. MessageOf(Incoming.cs, Filled) \in Message
  BY <1>1, <1>3 DEF MessageOf, Message, ChunkStream, ChunkStreamId
<1> QED
  BY <1>3, <1>4, <1>5

\* One step for each way a chunk is read.
LEMMA ReceiveChunkType ==
  ASSUME InputType, Readable(Incoming), ReceiveChunk
  PROVE  InputType'
<1>1. Stream \in ChunkStream /\ Incoming.cs \in ChunkStreamId
  BY StreamTyped DEF Readable
<1>2. m_MaxMessageSize' \in Nat /\ m_ChunkSizeReceive' = m_ChunkSizeReceive
  <2>1. ReadHeaders
    BY DEF ReceiveChunk, ReceivePart, ReceiveLast, ReceiveNothing, LoseFraming
  <2> QED
    BY <1>1, <2>1 DEF ReadHeaders, InputType, ChunkStream
<1>3. CASE ReceivePart
  <2>1. MapTo(m_ChunkStreamsInput', ChunkStream)
    BY <1>1, <1>3, FilledTyped, PutType DEF ReceivePart, InputType
  <2> QED
    BY <1>2, <1>3, <2>1 DEF ReceivePart, InputType
<1>4. CASE ReceiveLast
  <2>1. MapTo(m_ChunkStreamsInput', ChunkStream)
    BY <1>1, <1>4, FilledTyped, PutType DEF ReceiveLast, InputType
  <2>2. received' \in Seq(Message) /\ received' # << >>
    BY <1>4, FilledTyped, AppendProperties DEF ReceiveLast, InputType
  <2> QED
    BY <1>2, <1>4, <2>1, <2>2 DEF ReceiveLast, InputType
<1>5. CASE ReceiveNothing
  <2>1. MapTo(m_ChunkStreamsInput', ChunkStream)
    BY <1>1, <1>5, PutType DEF ReceiveNothing, InputType
  <2> QED
    BY <1>2, <1>5, <2>1 DEF ReceiveNothing, InputType
<1>6. CASE LoseFraming
  BY <1>2, <1>6 DEF LoseFraming, InputType
<1> QED
  BY <1>3, <1>4, <1>5, <1>6 DEF ReceiveChunk

LEMMA HandleMessageType ==
  ASSUME InputType, HandleMessage
  PROVE  InputType'
<1> DEFINE m == received[Len(received)]
<1>1. m \in Message
  BY EmptySeq DEF HandleMessage, InputType
<1>2. m.type = "SET_CHUNK_SIZE" => Len(m.data) >= 4
  BY <1>1 DEF HandleMessage, Malformed, Message
<1>3. m_ChunkSizeReceive' \in Nat
  BY <1>1, <1>2, ChunkSizeAfterType DEF HandleMessage, InputType
<1>4. MapTo(m_ChunkStreamsInput', ChunkStream)
  <2> HIDE DEF m
  <2>1. \A cs \in ChunkStream : [cs EXCEPT !.bytes = << >>] \in ChunkStream
    <3>1. << >> \in Seq(Byte)
      OBVIOUS
    <3> QED
      BY <3>1 DEF ChunkStream
  <2>2. MapTo(m_ChunkStreamsInput, ChunkStream)
    BY DEF InputType
  <2>3. MapTo([m_ChunkStreamsInput EXCEPT ![m.cs].bytes = << >>], ChunkStream)
    BY <2>1, <2>2 DEF MapTo
  <2>4. m_ChunkStreamsInput' = AbortedBy(m)
    BY DEF HandleMessage, m
  <2> QED
    BY <2>2, <2>3, <2>4 DEF AbortedBy
<1> QED
  BY <1>3, <1>4 DEF HandleMessage, InputType

LEMMA InputTypeStep ==
  ASSUME InputType, InputNext, ReceiveChunk => Readable(Incoming)
  PROVE  InputType'
<1>1. CASE ReceiveThrows \/ HandleThrows
  BY <1>1 DEF ReceiveThrows, HandleThrows, InputType
<1> QED
  BY <1>1, ReceiveChunkType, HandleMessageType DEF InputNext

LEMMA InitInputType ==
  ASSUME InputInit
  PROVE  InputType
<1>1. MapTo(<< >>, ChunkStream)
  BY DEF MapTo
<1> QED
  BY <1>1, SizeAssumption DEF InputInit, InputType

-----------------------------------------------------------------------------
(* The buffers.  Messages on other chunk streams than Large are no longer   *)
(* than the first m_MaxMessageSize; so that grows together with the buffer  *)
(* of Large.                                                                *)

Fits(id, len) == id # Large => len <= InitMaxMessageSize

Announced(c) == c.hdr.fmt \in {0, 1} => Fits(c.cs, c.hdr.len)

StreamFits(id, cs) ==
  /\ Fits(id, cs.message_length)
  /\ cs.message_length <= cs.size
  /\ InitMaxMessageSize <= cs.size

StreamsFit ==
  \A id \in DOMAIN m_ChunkStreamsInput : StreamFits(id, m_ChunkStreamsInput[id])

LargestKnown ==
  /\ InitMaxMessageSize <= m_MaxMessageSize
  /\ receiver # "desync" =>
       IF Large \in DOMAIN m_ChunkStreamsInput
       THEN m_MaxMessageSize <= m_ChunkStreamsInput[Large].size
       ELSE m_MaxMessageSize = InitMaxMessageSize

BuffersFit == StreamsFit /\ LargestKnown

\* What a header does to the length a chunk stream remembers.
LEMMA LengthAfterHeader ==
  ASSUME NEW cs \in ChunkStream, NEW h \in Header
  PROVE  /\ h.fmt \in {0, 1} => ApplyHeader(cs, h).message_length = h.len
         /\ h.fmt \notin {0, 1} => ApplyHeader(cs, h).message_length = cs.message_length
<1>1. h.fmt \in {0, 1, 2, 3}
  BY HeaderCases
<1> QED
  BY <1>1 DEF ApplyHeader, ApplyHeader0, ApplyHeader1, ApplyHeader3, ApplyDelta, ChunkStream
\* The receiver's steps: after the headers the chunk stream fits its buffer.
LEMMA HeadersFit ==
  ASSUME InputType, BuffersFit, Readable(Incoming), Announced(Incoming),
         receiver = "reading", ReadHeaders
  PROVE  /\ StreamFits(Incoming.cs, Stream)
         /\ InitMaxMessageSize <= m_MaxMessageSize'
         /\ Incoming.cs = Large => m_MaxMessageSize' <= Stream.size
         /\ Incoming.cs # Large => m_MaxMessageSize' = m_MaxMessageSize
<1> DEFINE id == Incoming.cs
           old == GetChunkStreamInput(id)
           cs == ApplyHeader(old, Incoming.hdr)
<1>1. m_MaxMessageSize \in Nat
  BY DEF InputType
<1>2. Announced(Incoming)
  OBVIOUS
<1>3. id \in ChunkStreamId /\ Incoming.hdr \in Header
  BY DEF Readable
<1>4. old \in ChunkStream
  BY <1>3, StoredType
<1>5. /\ Fits(id, old.message_length) /\ InitMaxMessageSize <= old.size
      /\ id = Large => m_MaxMessageSize <= old.size
  <2>1. CASE id \in DOMAIN m_ChunkStreamsInput
    BY <2>1 DEF BuffersFit, StreamsFit, StreamFits, LargestKnown, GetChunkStreamInput
  <2>2. CASE id \notin DOMAIN m_ChunkStreamsInput
    BY <1>1, <2>2, SizeAssumption
    DEF BuffersFit, LargestKnown, GetChunkStreamInput, NewChunkStream, NewContext, Fits
  <2> QED
    BY <2>1, <2>2
<1>6. cs \in ChunkStream /\ cs.size = old.size
  BY <1>3, <1>4, ApplyHeaderType
<1>7. Fits(id, cs.message_length)
  <2>1. CASE Incoming.hdr.fmt \in {0, 1}
    BY <1>2, <1>3, <1>4, <2>1, LengthAfterHeader DEF Announced
  <2>2. CASE Incoming.hdr.fmt \notin {0, 1}
    BY <1>3, <1>4, <1>5, <2>2, LengthAfterHeader
  <2> QED
    BY <2>1, <2>2
<1>8. Stream = Grown(cs)
  BY DEF Stream
<1>9. /\ cs.message_length \in Int /\ cs.size \in Int /\ m_MaxMessageSize \in Int
      /\ InitMaxMessageSize \in Int /\ InitMaxMessageSize <= m_MaxMessageSize
      /\ InitMaxMessageSize <= cs.size
      /\ id = Large => m_MaxMessageSize <= cs.size
      /\ id # Large => cs.message_length <= InitMaxMessageSize
  BY <1>1, <1>5, <1>6, <1>7, SizeAssumption DEF ChunkStream, BuffersFit, LargestKnown, Fits
<1> HIDE DEF cs, old
<1>10. CASE m_MaxMessageSize < cs.message_length
  <2>1. Stream.message_length = cs.message_length /\ Stream.size = cs.message_length
    BY <1>6, <1>8, <1>10 DEF Grown, ChunkStream
  <2>2. m_MaxMessageSize' = cs.message_length
    BY <1>10, <2>1 DEF ReadHeaders
  <2> QED
    BY <1>7, <1>9, <1>10, <2>1, <2>2 DEF StreamFits
<1>11. CASE ~(m_MaxMessageSize < cs.message_length)
  <2>1. Stream = cs
    BY <1>8, <1>11 DEF Grown
  <2>2. m_MaxMessageSize' = m_MaxMessageSize
    BY <1>11, <2>1 DEF ReadHeaders
  <2> QED
    BY <1>7, <1>9, <1>11, <2>1, <2>2 DEF StreamFits
<1> QED
  BY <1>10, <1>11

\* The chunk stream may be stored with other bytes.
LEMMA StoreFits ==
  ASSUME InputType, BuffersFit, Readable(Incoming), Announced(Incoming),
         receiver = "reading", ReadHeaders, NEW cs,
         cs.message_length = Stream.message_length, cs.size = Stream.size,
         m_ChunkStreamsInput' = Put(m_ChunkStreamsInput, Incoming.cs, cs)
  PROVE  BuffersFit'
<1>1. /\ StreamFits(Incoming.cs, cs)
      /\ InitMaxMessageSize <= m_MaxMessageSize'
      /\ Incoming.cs = Large => m_MaxMessageSize' <= cs.size
      /\ Incoming.cs # Large => m_MaxMessageSize' = m_MaxMessageSize
  BY HeadersFit DEF StreamFits
<1>2. /\ DOMAIN m_ChunkStreamsInput' = DOMAIN m_ChunkStreamsInput \cup {Incoming.cs}
      /\ m_ChunkStreamsInput'[Incoming.cs] = cs
      /\ \A id \in DOMAIN m_ChunkStreamsInput : id # Incoming.cs =>
           m_ChunkStreamsInput'[id] = m_ChunkStreamsInput[id]
  BY DEF Put
<1>3. StreamsFit'
  BY <1>1, <1>2 DEF BuffersFit, StreamsFit
<1>4. LargestKnown'
  BY <1>1, <1>2 DEF BuffersFit, LargestKnown
<1> QED
  BY <1>3, <1>4 DEF BuffersFit

LEMMA ReceiveBuffer ==
  ASSUME InputType, BuffersFit, Readable(Incoming), Announced(Incoming),
         ReceivePart \/ ReceiveLast \/ ReceiveNothing
  PROVE  BuffersFit'
<1>1. receiver = "reading" /\ ReadHeaders /\ wire # << >>
  BY DEF ReceivePart, ReceiveLast, ReceiveNothing, ReadHeaders
<1>2. Stream \in ChunkStream
  BY StreamTyped
<1>3. /\ Filled.message_length = Stream.message_length /\ Filled.size = Stream.size
      /\ [Filled EXCEPT !.bytes = << >>].message_length = Stream.message_length
      /\ [Filled EXCEPT !.bytes = << >>].size = Stream.size
  BY <1>2 DEF Filled, ChunkStream
<1>4. PICK cs \in {Filled, [Filled EXCEPT !.bytes = << >>], Stream} :
        m_ChunkStreamsInput' = Put(m_ChunkStreamsInput, Incoming.cs, cs)
  BY DEF ReceivePart, ReceiveLast, ReceiveNothing
<1> QED
  BY <1>1, <1>3, <1>4, StoreFits

LEMMA LoseFramingBuffer ==
  ASSUME InputType, BuffersFit, Readable(Incoming), Announced(Incoming), LoseFraming
  PROVE  BuffersFit'
<1>1. receiver = "reading" /\ ReadHeaders /\ InitMaxMessageSize <= m_MaxMessageSize'
      /\ receiver' = "desync" /\ m_ChunkStreamsInput' = m_ChunkStreamsInput
  BY HeadersFit DEF LoseFraming, ReadHeaders
<1> QED
  BY <1>1 DEF BuffersFit, StreamsFit, LargestKnown

\* HandleMessage touches at most the bytes of a chunk stream.
LEMMA HandleBuffer ==
  ASSUME InputType, BuffersFit, HandleMessage
  PROVE  BuffersFit'
<1> DEFINE m == received[Len(received)]
<1>1. MapTo(m_ChunkStreamsInput, ChunkStream)
  BY DEF InputType
<1>2. /\ DOMAIN m_ChunkStreamsInput' = DOMAIN m_ChunkStreamsInput
      /\ \A id \in DOMAIN m_ChunkStreamsInput :
           /\ m_ChunkStreamsInput'[id].message_length = m_ChunkStreamsInput[id].message_length
           /\ m_ChunkStreamsInput'[id].size = m_ChunkStreamsInput[id].size
  <2> HIDE DEF m
  <2>1. m_ChunkStreamsInput' = AbortedBy(m)
    BY DEF HandleMessage, m
  <2>2. CASE m.type = "ABORT"
    <3>1. m_ChunkStreamsInput' = [m_ChunkStreamsInput EXCEPT ![m.cs].bytes = << >>]
      BY <2>1, <2>2 DEF AbortedBy
    <3>2. \A cs \in ChunkStream :
            /\ [cs EXCEPT !.bytes = << >>].message_length = cs.message_length
            /\ [cs EXCEPT !.bytes = << >>].size = cs.size
      BY DEF ChunkStream
    <3> QED
      BY <1>1, <3>1, <3>2 DEF MapTo
  <2>3. CASE m.type # "ABORT"
    BY <2>1, <2>3 DEF AbortedBy
  <2> QED
    BY <2>2, <2>3
<1>3. StreamsFit'
  BY <1>2 DEF BuffersFit, StreamsFit, StreamFits
<1>4. LargestKnown'
  BY <1>2 DEF HandleMessage, BuffersFit, LargestKnown
<1> QED
  BY <1>3, <1>4 DEF BuffersFit

LEMMA BufferStep ==
  ASSUME InputType, BuffersFit, InputNext,
         ReceiveChunk => Readable(Incoming) /\ Announced(Incoming)
  PROVE  BuffersFit'
<1>1. CASE ReceiveThrows \/ HandleThrows
  BY <1>1 DEF ReceiveThrows, HandleThrows, BuffersFit, StreamsFit, LargestKnown
<1> QED
  BY <1>1, ReceiveBuffer, LoseFramingBuffer, HandleBuffer DEF InputNext, ReceiveChunk

LEMMA InitBuffersFit ==
  ASSUME InputInit
  PROVE  BuffersFit
  BY SizeAssumption DEF InputInit, BuffersFit, StreamsFit, LargestKnown

-----------------------------------------------------------------------------
(* Remainders.                                                              *)

LEMMA Quotient ==
  ASSUME NEW d \in Nat \ {0}, NEW x \in Int
  PROVE  \E k \in Int : x = k * d + (x % d) /\ (x % d) \in 0 .. d - 1
<1>1. x \div d \in Int /\ x = (x \div d) * d + (x % d) /\ (x % d) \in 0 .. d - 1
  BY Z3
<1> QED
  BY <1>1

\* The same without the range.
LEMMA IntQuotient ==
  ASSUME NEW d \in Nat \ {0}, NEW x \in Int
  PROVE  \E k \in Int : x = k * d + (x % d) /\ (x % d) \in Int
<1>1. PICK k \in Int : x = k * d + (x % d) /\ (x % d) \in 0 .. d - 1
  BY Quotient
<1> DEFINE r == x % d
<1>2. r \in Int
  <2>1. r \in 0 .. d - 1
    BY <1>1
  <2> HIDE DEF r
  <2> QED
    BY <2>1
<1> QED
  BY <1>1, <1>2

LEMMA Multiple ==
  ASSUME NEW d \in Nat \ {0}, NEW e \in Nat, e % d = 0
  PROVE  \E q \in Int : e = q * d
<1>0. d \in Nat \ {0} /\ e \in Int
  OBVIOUS
<1>1. PICK q \in Int : e = q * d + (e % d) /\ (e % d) \in Int
  BY ONLY <1>0, IntQuotient
<1>2. q * d \in Int
  BY Z3
<1>3. e = q * d
  BY <1>1, <1>2
<1> QED
  BY <1>3

LEMMA RemainderUnique ==
  ASSUME NEW d \in Nat \ {0}, NEW k \in Int, NEW r \in 0 .. d - 1
  PROVE  (k * d + r) % d = r
  BY Z3

\* Adding a multiple of the modulus changes nothing.
LEMMA AddMultiple ==
  ASSUME NEW d \in Nat \ {0}, NEW k \in Int, NEW x \in Int
  PROVE  (k * d + x) % d = x % d
<1>1. PICK j \in Int : x = j * d + (x % d) /\ (x % d) \in 0 .. d - 1
  BY Quotient
<1>2. (k + j) \in Int /\ k * d + x = (k + j) * d + (x % d)
  <2>1. k * d + j * d = (k + j) * d
    BY Z3
  <2>2. k * d \in Int /\ j * d \in Int /\ (k + j) * d \in Int /\ (k + j) \in Int
    BY Z3
  <2> HIDE <1>1
  <2>3. \A a, b, e, c \in Int : a + b = e => a + (b + c) = e + c
    BY Z3
  <2>4. k * d + (j * d + (x % d)) = (k + j) * d + (x % d)
    BY <1>1, <2>1, <2>2, <2>3
  <2> QED
    BY <1>1, <2>2, <2>4
<1> QED
  BY <1>1, <1>2, RemainderUnique

LEMMA SmallRemainder ==
  ASSUME NEW d \in Nat \ {0}, NEW x \in 0 .. d - 1
  PROVE  x % d = x
<1>1. 0 * d + x = x
  BY Z3
<1> QED
  BY <1>1, RemainderUnique

\* A receiver whose clock b agrees with the sender's clock a in the low bits
\* still agrees with t after it has added the low bits of t - a.
LEMMA DeltaKeepsLowBits ==
  ASSUME NEW d \in Nat \ {0}, NEW e \in Nat \ {0}, NEW q \in Int, e = q * d,
         NEW a \in Int, NEW b \in Int, NEW t \in Int, a % d = b % d
  PROVE  ((b + ((t - a) % d)) % e) % d = t % d
<1>1. PICK i \in Int : a = i * d + (a % d)
  BY Quotient
<1>2. PICK j \in Int : b = j * d + (b % d)
  BY Quotient
<1>3. t - a \in Int
  OBVIOUS
<1>4. PICK k \in Int : t - a = k * d + ((t - a) % d) /\ ((t - a) % d) \in Int
  BY <1>3, IntQuotient
<1> DEFINE x == b + ((t - a) % d)
<1>5. x \in Int /\ (a % d) \in Int /\ (b % d) \in Int
  BY <1>4, Z3
<1>6. PICK l \in Int : x = l * e + (x % e) /\ (x % e) \in Int
  <2> HIDE DEF x
  <2> QED
    BY <1>5, IntQuotient
<1>7. l * e = (l * q) * d /\ l * q \in Int
  BY Z3
<1>8. ((j - i) - k) - (l * q) \in Int
  BY <1>7
<1>9. x % e = (((j - i) - k) - (l * q)) * d + t
  <2>1. x % e = x - (l * q) * d
    <3>1. (l * q) * d \in Int
      BY <1>7, Z3
    <3> HIDE DEF x
    <3> QED
      BY <1>5, <1>6, <1>7, <3>1
  <2>2. x = b + ((t - a) - k * d)
    <3>1. k * d \in Int
      BY Z3
    <3>2. (t - a) % d = (t - a) - k * d
      BY <1>3, <1>4, <3>1
    <3> QED
      BY <3>2
  <2>3. b - a = j * d - i * d
    <3>1. j * d \in Int /\ i * d \in Int
      BY Z3
    <3> QED
      BY <1>1, <1>2, <1>5, <3>1
  <2>4. x = t + ((j * d - i * d) - k * d)
    <3>1. j * d \in Int /\ i * d \in Int /\ k * d \in Int
      BY Z3
    <3> QED
      BY <2>2, <2>3, <3>1
  <2> DEFINE y == l * q
  <2>5. y \in Int /\ x % e = (t + ((j * d - i * d) - k * d)) - y * d
    BY <1>7, <2>1, <2>4
  <2>6. \A z \in Int : (t + ((j * d - i * d) - k * d)) - z * d = (((j - i) - k) - z) * d + t
    BY Z3
  <2> HIDE DEF y
  <2>7. x % e = (((j - i) - k) - y) * d + t
    BY <2>5, <2>6
  <2> QED
    BY <2>7 DEF y
<1>10. (x % e) % d = t % d
  <2> DEFINE n == ((j - i) - k) - (l * q)
  <2>1. n \in Int /\ x % e = n * d + t
    BY <1>8, <1>9
  <2>2. (n * d + t) % d = t % d
    <3> HIDE DEF n
    <3> QED
      BY <2>1, AddMultiple
  <2> HIDE DEF n, x
  <2> QED
    BY <2>1, <2>2, Zenon
<1> QED
  BY <1>10
-----------------------------------------------------------------------------
(* What the headers of a message leave behind on the receiver.              *)

\* As 2^24 divides 2^64: adding modulo the second keeps the low bits.
WholeBytes == U64 % U24 = 0

\* The fields of a message that a header must be able to hold.
Expressible(m) == m.sid < U24 /\ Len(m.data) < U24

\* A chunk stream has the header fields of context ctx, up to the high bits of its
\* timestamp; these too when exact.
SameFields(in, ctx, exact) ==
  /\ in.message_length = ctx.message_length
  /\ in.message_type = ctx.message_type
  /\ in.message_stream_id = ctx.message_stream_id
  /\ in.timestamp % U24 = ctx.timestamp % U24
  /\ exact => in.timestamp = ctx.timestamp

LEMMA ContextFields ==
  ASSUME NEW m \in Message
  PROVE  /\ ContextOf(m).message_length = Len(m.data)
         /\ ContextOf(m).message_type = m.type
         /\ ContextOf(m).message_stream_id = m.sid
         /\ ContextOf(m).timestamp = m.ts
         /\ Len(m.data) \in Nat /\ m.ts \in 0 .. U64 - 1 /\ m.sid \in Nat
         /\ m.type \in MessageType
  BY Widths DEF ContextOf, Message

LEMMA LengthKept ==
  ASSUME NEW m \in Message, Expressible(m)
  PROVE  Len(m.data) % U24 = Len(m.data)
<1>1. Len(m.data) \in 0 .. U24 - 1 /\ U24 \in Nat \ {0}
  BY ContextFields, Widths DEF Expressible
<1> QED
  BY <1>1, SmallRemainder

LEMMA Header0Read ==
  ASSUME NEW in \in ChunkStream, NEW m \in Message, Expressible(m), NEW exact \in BOOLEAN,
         exact => m.ts < U24
  PROVE  SameFields(ApplyHeader(in, Header0(m)), ContextOf(m), exact)
<1>1. Len(m.data) % U24 = Len(m.data) /\ m.sid % U24 = m.sid
  <2>1. m.sid \in 0 .. U24 - 1 /\ U24 \in Nat \ {0}
    BY ContextFields, Widths DEF Expressible
  <2>2. m.sid % U24 = m.sid
    BY <2>1, SmallRemainder
  <2> QED
    BY <2>2, LengthKept
<1>2. (m.ts % U24) % U24 = m.ts % U24
  <2>1. m.ts \in Int
    BY ContextFields
  <2>2. m.ts % U24 \in 0 .. U24 - 1
    BY <2>1, Mod24
  <2> QED
    BY <2>2, Widths, SmallRemainder
<1>3. exact => m.ts % U24 = m.ts
  BY ContextFields, Widths, SmallRemainder
<1>4. ApplyHeader(in, Header0(m)) = ApplyHeader0(in, Header0(m))
  BY DEF ApplyHeader, Header0
<1> DEFINE out == ApplyHeader0(in, Header0(m))
<1>5. /\ out.message_length = Len(m.data) % U24 /\ out.message_type = m.type
      /\ out.message_stream_id = m.sid % U24 /\ out.timestamp = m.ts % U24
  BY DEF ApplyHeader0, Header0, ChunkStream
<1> HIDE DEF out
<1>6. SameFields(out, ContextOf(m), exact)
  BY <1>1, <1>2, <1>3, <1>5, ContextFields DEF SameFields
<1> QED
  BY <1>4, <1>6 DEF out

\* The clock of a chunk stream after a delta.
LEMMA DeltaRead ==
  ASSUME NEW in \in ChunkStream, NEW ctx \in Context, NEW m \in Message,
         NEW exact \in BOOLEAN, exact \/ WholeBytes, exact => m.ts < U24, m.ts >= ctx.timestamp,
         in.timestamp % U24 = ctx.timestamp % U24, exact => in.timestamp = ctx.timestamp
  PROVE  LET t == Advance(in, (m.ts - ctx.timestamp) % U24)
         IN  t % U24 = m.ts % U24 /\ (exact => t = m.ts)
<1>1. /\ in.timestamp \in Int /\ ctx.timestamp \in Nat /\ m.ts \in 0 .. U64 - 1
      /\ U24 \in Nat \ {0} /\ U64 \in Nat \ {0}
  BY Widths DEF ChunkStream, Context, Message
<1>2. ASSUME exact
      PROVE  (in.timestamp + ((m.ts - ctx.timestamp) % U24)) % U64 = m.ts
  <2>1. m.ts - ctx.timestamp \in 0 .. U24 - 1
    BY <1>1, <1>2
  <2>2. (m.ts - ctx.timestamp) % U24 = m.ts - ctx.timestamp
    BY <1>1, <2>1, SmallRemainder
  <2>3. in.timestamp + ((m.ts - ctx.timestamp) % U24) = m.ts
    BY <1>1, <1>2, <2>2
  <2> QED
    BY <1>1, <2>3, SmallRemainder
<1>3. ASSUME WholeBytes
      PROVE  ((in.timestamp + ((m.ts - ctx.timestamp) % U24)) % U64) % U24 = m.ts % U24
  <2> DEFINE a == ctx.timestamp
             b == in.timestamp
             t == m.ts
  <2>1. a \in Int /\ b \in Int /\ t \in Int /\ a % U24 = b % U24
    BY <1>1
  <2> HIDE DEF a, b, t
  <2>2. ((b + ((t - a) % U24)) % U64) % U24 = t % U24
    <3>1. PICK q \in Int : U64 = q * U24
      BY <1>1, <1>3, Multiple DEF WholeBytes
    <3>2. U24 \in Nat \ {0} /\ U64 \in Nat \ {0} /\ q \in Int /\ U64 = q * U24
      BY <1>1, <3>1
    <3>3. \A x, y, z \in Int : x % U24 = y % U24 =>
            ((y + ((z - x) % U24)) % U64) % U24 = z % U24
      BY ONLY <3>2, DeltaKeepsLowBits
    <3> QED
      BY <2>1, <3>3
  <2> QED
    BY <2>2 DEF a, b, t
<1> QED
  BY <1>2, <1>3 DEF Advance

LEMMA Header2Read ==
  ASSUME NEW in \in ChunkStream, NEW ctx \in Context, NEW m \in Message,
         NEW exact \in BOOLEAN, exact \/ WholeBytes, exact => m.ts < U24, Between(in),
         SameFields(in, ctx, exact), ContinuesStream(ctx, m), RepeatsShape(ctx, m)
  PROVE  SameFields(ApplyHeader(in, Header2(ctx, m)), ContextOf(m), exact)
<1> DEFINE t == Advance(in, (m.ts - ctx.timestamp) % U24)
<1>1. t % U24 = m.ts % U24 /\ (exact => t = m.ts)
  BY DeltaRead DEF SameFields, ContinuesStream
<1>2. ApplyHeader(in, Header2(ctx, m)) = ApplyDelta(in, Header2(ctx, m))
  BY DEF ApplyHeader, Header2
<1> DEFINE out == ApplyDelta(in, Header2(ctx, m))
<1>3. /\ out.message_length = in.message_length /\ out.message_type = in.message_type
      /\ out.message_stream_id = in.message_stream_id /\ out.timestamp = t
  BY DEF ApplyDelta, Header2, ChunkStream
<1> HIDE DEF out, t
<1>4. SameFields(out, ContextOf(m), exact)
  BY <1>1, <1>3, ContextFields DEF SameFields, ContinuesStream, RepeatsShape
<1> QED
  BY <1>2, <1>4 DEF out

LEMMA Header1Read ==
  ASSUME NEW in \in ChunkStream, NEW ctx \in Context, NEW m \in Message,
         Expressible(m), NEW exact \in BOOLEAN, exact \/ WholeBytes, exact => m.ts < U24, Between(in),
         SameFields(in, ctx, exact), ContinuesStream(ctx, m)
  PROVE  SameFields(ApplyHeader(in, Header1(ctx, m)), ContextOf(m), exact)
<1> DEFINE t == Advance(in, (m.ts - ctx.timestamp) % U24)
<1>1. t % U24 = m.ts % U24 /\ (exact => t = m.ts)
  BY DeltaRead DEF SameFields, ContinuesStream
<1>2. ApplyHeader(in, Header1(ctx, m)) = ApplyHeader1(in, Header1(ctx, m))
  BY DEF ApplyHeader, Header1
<1> DEFINE out == ApplyHeader1(in, Header1(ctx, m))
<1>3. /\ out.message_length = Len(m.data) % U24 /\ out.message_type = m.type
      /\ out.message_stream_id = in.message_stream_id /\ out.timestamp = t
  BY DEF ApplyHeader1, ApplyDelta, Header1, ChunkStream
<1> HIDE DEF out, t
<1>4. Len(m.data) % U24 = Len(m.data)
  BY LengthKept
<1>5. SameFields(out, ContextOf(m), exact)
  BY <1>1, <1>3, <1>4, ContextFields DEF SameFields, ContinuesStream
<1> QED
  BY <1>2, <1>5 DEF out

\* The headers of the chunks that follow change nothing.
LEMMA LaterHeaderRead ==
  ASSUME NEW in \in ChunkStream, NEW ctx, NEW exact, ~Between(in), SameFields(in, ctx, exact)
  PROVE  SameFields(ApplyHeader(in, Header3), ctx, exact)
<1>1. ApplyHeader(in, Header3) = ApplyHeader3(in)
  BY DEF ApplyHeader, Header3
<1>2. /\ ApplyHeader3(in).message_length = in.message_length
      /\ ApplyHeader3(in).message_type = in.message_type
      /\ ApplyHeader3(in).message_stream_id = in.message_stream_id
      /\ ApplyHeader3(in).timestamp = in.timestamp
  BY DEF ApplyHeader3, ChunkStream
<1> QED
  BY <1>1, <1>2 DEF SameFields

LEMMA GrownSameFields ==
  ASSUME NEW cs \in ChunkStream, NEW ctx, NEW exact, SameFields(cs, ctx, exact)
  PROVE  SameFields(Grown(cs), ctx, exact)
  BY GrownFields DEF SameFields

\* A first part of a message.
LEMMA PartLength ==
  ASSUME NEW d \in Seq(Byte), NEW p \in 0 .. Len(d)
  PROVE  Len(SubSeq(d, 1, p)) = p /\ (p = 0 <=> SubSeq(d, 1, p) = << >>)
<1>1. \A i \in 1 .. p : d[i] \in Byte
  OBVIOUS
<1>2. (IF 1 <= p THEN (p - 1) + 1 ELSE 0) = p
  OBVIOUS
<1>3. Len(SubSeq(d, 1, p)) = p
  BY <1>1, <1>2, SubSeqProperties
<1>4. p = 0 => SubSeq(d, 1, p) = << >>
  BY SubSeqEmpty
<1> QED
  BY <1>3, <1>4, EmptySeq

=============================================================================
