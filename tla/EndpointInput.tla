---------------------------- MODULE EndpointInput ----------------------------
(***************************************************************************)
(* The receiving half of RTMPEndpoint: GetRTMPMessage and HandleMessage,    *)
(* and the state only they touch (m_ChunkStreamsInput, m_ChunkSizeReceive,  *)
(* m_MaxMessageSize).  One thread alternates the two calls, as both         *)
(* sessions do.  A step is one iteration of GetRTMPMessage's loop.          *)
(*                                                                          *)
(* A chunk stream's `bytes` are the message_bytes_read first bytes of its   *)
(* chunks_buffer, and `size` is the size of that buffer.                    *)
(***************************************************************************)
EXTENDS RTMPChunk

VARIABLES
  m_ChunkStreamsInput,   \* chunk stream id -> ChunkStream, for the ids seen
  m_ChunkSizeReceive,
  m_MaxMessageSize,
  receiver,  \* "reading", "returned" with a message, "failed" after a throw, or
             \* "desync" once it takes payload for headers or the reverse
  received   \* every message GetRTMPMessage has returned

inputVars ==
  <<m_ChunkStreamsInput, m_ChunkSizeReceive, m_MaxMessageSize, receiver, received>>

-----------------------------------------------------------------------------
\* Wrong on purpose, for the mutation runs: the buffer starts empty.
UnsizedChunkStream(b_len) ==
  [ message_length    |-> NewContext.message_length,
    message_type      |-> NewContext.message_type,
    message_stream_id |-> NewContext.message_stream_id,
    timestamp         |-> NewContext.timestamp,
    timestamp_delta   |-> 0,
    bytes             |-> << >>,
    size              |-> 0 ]

NewChunkStream(b_len) ==
  [ message_length    |-> NewContext.message_length,
    message_type      |-> NewContext.message_type,
    message_stream_id |-> NewContext.message_stream_id,
    timestamp         |-> NewContext.timestamp,
    timestamp_delta   |-> 0,
    bytes             |-> << >>,
    size              |-> b_len ]

GetChunkStreamInput(id) ==
  IF id \in DOMAIN m_ChunkStreamsInput THEN m_ChunkStreamsInput[id]
  ELSE NewChunkStream(m_MaxMessageSize)

\* Wrong on purpose, for the mutation runs: the buffer is never resized.
NeverGrown(cs) == cs

\* Only a message longer than every message so far makes a buffer grow.
Grown(cs) ==
  IF m_MaxMessageSize < cs.message_length
  THEN [cs EXCEPT !.size = cs.message_length] ELSE cs

\* The next chunk, and the chunk stream it belongs to once its headers are read.
Incoming == Head(wire)
Stream == Grown(ApplyHeader(GetChunkStreamInput(Incoming.cs), Incoming.hdr))

\* Wrong on purpose, for the mutation runs: what was read is not subtracted.
ToReceiveAfresh(cs) == Smaller(cs.message_length, m_ChunkSizeReceive)

\* min(message_length - message_bytes_read, m_ChunkSizeReceive), unsigned.
ToReceive(cs) ==
  Smaller((cs.message_length - Len(cs.bytes)) % U64, m_ChunkSizeReceive)

Completes(cs) == Len(cs.bytes) + ToReceive(cs) = cs.message_length

MessageOf(id, cs) ==
  [ cs   |-> id,
    sid  |-> cs.message_stream_id,
    type |-> cs.message_type,
    ts   |-> cs.timestamp,
    data |-> cs.bytes ]

\* Wrong on purpose, for the mutation runs: ABORT resets every chunk stream.
AbortsEverything(m) ==
  IF m.type = "ABORT"
  THEN [id \in DOMAIN m_ChunkStreamsInput |->
         [m_ChunkStreamsInput[id] EXCEPT !.bytes = << >>]]
  ELSE m_ChunkStreamsInput

\* Messages whose Parse throws: the payload is shorter than what it reads.
Malformed(m) ==
  \/ m.type \in {"SET_CHUNK_SIZE", "WINDOW_ACKNOWLEDGEMENT_SIZE"} /\ Len(m.data) < 4
  \/ m.type = "SET_PEER_BANDWITH" /\ Len(m.data) < 5

\* ABORT resets the chunk stream that carried it.
AbortedBy(m) ==
  IF m.type = "ABORT"
  THEN [m_ChunkStreamsInput EXCEPT ![m.cs].bytes = << >>]
  ELSE m_ChunkStreamsInput

-----------------------------------------------------------------------------
InputInit ==
  /\ m_ChunkStreamsInput = << >>
  /\ m_ChunkSizeReceive = InitChunkSize
  /\ m_MaxMessageSize = InitMaxMessageSize
  /\ receiver = "reading"
  /\ received = << >>

\* The headers of the next chunk are read, and the buffer grows if it must.
ReadHeaders ==
  /\ receiver = "reading"
  /\ wire # << >>
  /\ wire' = Tail(wire)
  /\ m_MaxMessageSize' =
       IF m_MaxMessageSize < Stream.message_length THEN Stream.message_length
       ELSE m_MaxMessageSize
  /\ UNCHANGED <<link, m_ChunkSizeReceive>>

\* The payload read is the payload of this chunk, neither less nor more.
Framed == ToReceive(Stream) = Len(Incoming.data)

Filled == [Stream EXCEPT !.bytes = @ \o Incoming.data]

\* The message needs more chunks: the loop of GetRTMPMessage goes on.
ReceivePart ==
  /\ ReadHeaders
  /\ ToReceive(Stream) # 0 /\ Framed /\ ~Completes(Stream)
  /\ m_ChunkStreamsInput' = Put(m_ChunkStreamsInput, Incoming.cs, Filled)
  /\ UNCHANGED <<receiver, received>>

\* Wrong on purpose, for the mutation runs: message_bytes_read is not reset.
ReceiveLastWithoutReset ==
  /\ ReadHeaders
  /\ ToReceive(Stream) # 0 /\ Framed /\ Completes(Stream)
  /\ m_ChunkStreamsInput' = Put(m_ChunkStreamsInput, Incoming.cs, Filled)
  /\ receiver' = "returned"
  /\ received' = Append(received, MessageOf(Incoming.cs, Filled))

\* The chunk completes its message: GetRTMPMessage returns it.
ReceiveLast ==
  /\ ReadHeaders
  /\ ToReceive(Stream) # 0 /\ Framed /\ Completes(Stream)
  /\ m_ChunkStreamsInput' =
       Put(m_ChunkStreamsInput, Incoming.cs, [Filled EXCEPT !.bytes = << >>])
  /\ receiver' = "returned"
  /\ received' = Append(received, MessageOf(Incoming.cs, Filled))

\* receive_data(0) on a TCPNetwork: a read of nothing looks like the end of the
\* connection.
ReceiveNothing ==
  /\ ReadHeaders
  /\ ToReceive(Stream) = 0
  /\ m_ChunkStreamsInput' = Put(m_ChunkStreamsInput, Incoming.cs, Stream)
  /\ receiver' = "failed"
  /\ UNCHANGED received

\* Part of the payload is left to be read as a header, or a header is read as
\* payload: nothing that follows means anything.
LoseFraming ==
  /\ ReadHeaders
  /\ ToReceive(Stream) # 0 /\ ~Framed
  /\ receiver' = "desync"
  /\ UNCHANGED <<m_ChunkStreamsInput, received>>

\* Wrong on purpose, for the mutation runs: the break is seen only in a message.
ThrowsInsideMessage ==
  /\ receiver = "reading" /\ link = "down" /\ wire = << >>
  /\ \E id \in DOMAIN m_ChunkStreamsInput : ~Between(m_ChunkStreamsInput[id])
  /\ receiver' = "failed"
  /\ UNCHANGED <<m_ChunkStreamsInput, m_ChunkSizeReceive, m_MaxMessageSize,
                 received, transportVars>>

\* receive_data throws once the transport is down and drained.
ReceiveThrows ==
  /\ receiver = "reading"
  /\ link = "down" /\ wire = << >>
  /\ receiver' = "failed"
  /\ UNCHANGED <<m_ChunkStreamsInput, m_ChunkSizeReceive, m_MaxMessageSize,
                 received, transportVars>>

\* Wrong on purpose, for the mutation runs: a SET_CHUNK_SIZE is ignored.
HandleWithoutChunkSize ==
  /\ receiver = "returned" /\ ~Malformed(received[Len(received)])
  /\ receiver' = "reading"
  /\ m_ChunkStreamsInput' = AbortedBy(received[Len(received)])
  /\ UNCHANGED <<m_ChunkSizeReceive, m_MaxMessageSize, received, transportVars>>

\* The caller passes the message on; only two types have an effect.
HandleMessage ==
  /\ receiver = "returned" /\ ~Malformed(received[Len(received)])
  /\ m_ChunkSizeReceive' =
       ChunkSizeAfter(received[Len(received)], m_ChunkSizeReceive)
  /\ m_ChunkStreamsInput' = AbortedBy(received[Len(received)])
  /\ receiver' = "reading"
  /\ UNCHANGED <<m_MaxMessageSize, received, transportVars>>

HandleThrows ==
  /\ receiver = "returned" /\ Malformed(received[Len(received)])
  /\ receiver' = "failed"
  /\ UNCHANGED <<m_ChunkStreamsInput, m_ChunkSizeReceive, m_MaxMessageSize,
                 received, transportVars>>

ReceiveChunk == ReceivePart \/ ReceiveLast \/ ReceiveNothing \/ LoseFraming

InputNext == ReceiveChunk \/ ReceiveThrows \/ HandleMessage \/ HandleThrows

=============================================================================
