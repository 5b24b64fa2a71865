--------------------------- MODULE EndpointOutput ---------------------------
(***************************************************************************)
(* The sending half of RTMPEndpoint: SendRTMPMessage, the calls that wrap   *)
(* it, and the state only they touch (m_ChunkStreamsOutput,                 *)
(* m_ChunkSizeSend).  One thread sends: the class has no lock, so a second  *)
(* sender is outside its use.  A call is a step that begins it, one step    *)
(* per chunk of its loop, and a step that returns or throws.                *)
(***************************************************************************)
EXTENDS RTMPChunk

CONSTANTS
  MediaMessages,   \* what the application hands to SendRTMPMessage
  Commands,        \* payloads of SendCommand
  UserControls,    \* payloads of SendUserControlMessage
  WindowSizes,     \* arguments of the window and bandwith calls
  ChunkSizes,      \* arguments of ChangeChunkSizeOutput
  CtorChunkSize,   \* 4096: the constructor's call of ChangeChunkSizeOutput
  MaxMessages,     \* bound on the messages sent
  WireCapacity     \* bound on the chunks the transport buffers

\* Only ChangeChunkSizeOutput announces a chunk size (the code that calls
\* SendRTMPMessage never does), and nothing sends an ABORT.
ASSUME MessagesAssumption ==
  /\ MediaMessages \subseteq Message
  /\ \A m \in MediaMessages : m.type \notin {"SET_CHUNK_SIZE", "ABORT"}
  /\ Commands \subseteq Seq(Byte) /\ UserControls \subseteq Seq(Byte)

\* The arguments are unsigned 32-bit integers, which four bytes hold; a chunk
\* size of 0 would make SendRTMPMessage loop forever.
ASSUME ArgumentsAssumption ==
  /\ \A n \in WindowSizes \cup ChunkSizes \cup {CtorChunkSize} :
       n \in Nat /\ U32Value(U32Bytes(n)) = n
  /\ 0 \notin ChunkSizes \cup {CtorChunkSize}
  /\ MaxMessages \in Nat /\ WireCapacity \in Nat \ {0}

VARIABLES
  m_ChunkStreamsOutput,  \* chunk stream id -> header fields last sent there
  m_ChunkSizeSend,
  sender,                \* "idle", "sending" inside a call, "failed" after a throw
  bytes_sent,            \* payload bytes of the current message already written
  sent                   \* every message given to a call, the current one last

outputVars ==
  <<m_ChunkStreamsOutput, m_ChunkSizeSend, sender, bytes_sent, sent>>

-----------------------------------------------------------------------------
Current == sent[Len(sent)]

\* m_ChunkStreamsOutput[id]
OutContext(id) ==
  IF id \in DOMAIN m_ChunkStreamsOutput THEN m_ChunkStreamsOutput[id]
  ELSE NewContext

ControlMessage(type, data) ==
  [cs |-> 2, sid |-> 0, type |-> type, ts |-> 0, data |-> data]

SetChunkSizeMessage(n) == ControlMessage("SET_CHUNK_SIZE", U32Bytes(n))

CommandMessage(data) ==
  [cs |-> 3, sid |-> 0, type |-> "AMF0", ts |-> 0, data |-> data]

\* What the loop writes next.
ChunkHeader ==
  IF bytes_sent = 0 THEN FirstHeader(OutContext(Current.cs), Current) ELSE Header3

\* Wrong on purpose, for the mutation runs: the new size is used at once.
bytes_at_new_size ==
  Smaller(ChunkSizeAfter(Current, m_ChunkSizeSend), Len(Current.data) - bytes_sent)

bytes_to_send == Smaller(m_ChunkSizeSend, Len(Current.data) - bytes_sent)

\* n and ofs say which bytes of which message these are; no receiver reads them.
NextChunk ==
  [ cs   |-> Current.cs % CsIds,
    hdr  |-> ChunkHeader,
    data |-> SubSeq(Current.data, bytes_sent + 1, bytes_sent + bytes_to_send),
    n    |-> Len(sent),
    ofs  |-> bytes_sent ]

-----------------------------------------------------------------------------
\* The endpoint leaves its constructor's DoHandshake and calls
\* ChangeChunkSizeOutput before any user of it can send.
OutputInit ==
  /\ m_ChunkStreamsOutput = << >>
  /\ m_ChunkSizeSend = InitChunkSize
  /\ sender = "sending"
  /\ bytes_sent = 0
  /\ sent = << SetChunkSizeMessage(CtorChunkSize) >>

SendRTMPMessage(m) ==
  /\ sender = "idle"
  /\ Len(sent) < MaxMessages
  /\ sender' = "sending"
  /\ bytes_sent' = 0
  /\ sent' = Append(sent, m)
  /\ UNCHANGED <<m_ChunkStreamsOutput, m_ChunkSizeSend, transportVars>>

SendControlMessage(type, data) == SendRTMPMessage(ControlMessage(type, data))

SendUserControlMessage(data) == SendControlMessage("USER_CONTROL_MESSAGE", data)

SendCommand(data) == SendRTMPMessage(CommandMessage(data))

Send_WindowsAcknowledgementSize(ack_size) ==
  SendControlMessage("WINDOW_ACKNOWLEDGEMENT_SIZE", U32Bytes(ack_size))

\* GetLength is the padded size of the struct, 8; Serialize fills 5 bytes.
Send_SetPeerBandwith(bandwith) ==
  SendControlMessage("SET_PEER_BANDWITH", U32Bytes(bandwith) \o <<2, 0, 0, 0>>)

ChangeChunkSizeOutput(chunk_size) ==
  SendRTMPMessage(SetChunkSizeMessage(chunk_size))

\* One iteration of the loop: the headers and the payload of one chunk.
SendChunk ==
  /\ sender = "sending"
  /\ bytes_sent # Len(Current.data)
  /\ link = "up"
  /\ Len(wire) < WireCapacity
  /\ wire' = Append(wire, NextChunk)
  /\ bytes_sent' = bytes_sent + bytes_to_send
  /\ UNCHANGED <<m_ChunkStreamsOutput, m_ChunkSizeSend, sender, sent, link>>

\* The loop ends; the chunk stream remembers the message, and
\* ChangeChunkSizeOutput goes on to use the size it has announced.
SendReturns ==
  /\ sender = "sending"
  /\ bytes_sent = Len(Current.data)
  /\ m_ChunkStreamsOutput' =
       Put(m_ChunkStreamsOutput, Current.cs, ContextOf(Current))
  /\ m_ChunkSizeSend' = ChunkSizeAfter(Current, m_ChunkSizeSend)
  /\ sender' = "idle"
  /\ UNCHANGED <<bytes_sent, sent, transportVars>>

\* Wrong on purpose, for the mutation runs: only a later chunk's error is seen.
ThrowsAfterFirstChunk ==
  /\ sender = "sending" /\ bytes_sent \notin {0, Len(Current.data)}
  /\ link = "down"
  /\ sender' = "failed"
  /\ UNCHANGED <<m_ChunkStreamsOutput, m_ChunkSizeSend, bytes_sent, sent,
                 transportVars>>

\* send_data throws once the transport is down.
SendThrows ==
  /\ sender = "sending"
  /\ bytes_sent # Len(Current.data)
  /\ link = "down"
  /\ sender' = "failed"
  /\ UNCHANGED <<m_ChunkStreamsOutput, m_ChunkSizeSend, bytes_sent, sent,
                 transportVars>>

ApplicationCall ==
  \/ \E m \in MediaMessages : SendRTMPMessage(m)
  \/ \E d \in Commands : SendCommand(d)
  \/ \E d \in UserControls : SendUserControlMessage(d)
  \/ \E n \in WindowSizes : Send_WindowsAcknowledgementSize(n)
  \/ \E n \in WindowSizes : Send_SetPeerBandwith(n)
  \/ \E n \in ChunkSizes : ChangeChunkSizeOutput(n)

OutputNext == ApplicationCall \/ SendChunk \/ SendReturns \/ SendThrows

=============================================================================
