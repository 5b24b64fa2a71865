---------------------------- MODULE EndpointLink ----------------------------
(***************************************************************************)
(* One direction of a connection between two RTMPEndpoints: the sending     *)
(* half of one, the DataLayer, and the receiving half of the other.  The    *)
(* halves of an endpoint share no state, so the other direction is a copy   *)
(* of this one.                                                             *)
(***************************************************************************)
EXTENDS EndpointOutput, EndpointInput

vars == <<transportVars, outputVars, inputVars>>

Init ==
  /\ wire = << >> /\ link = "up"
  /\ OutputInit
  /\ InputInit

Output == OutputNext /\ UNCHANGED inputVars
Input == InputNext /\ UNCHANGED outputVars

\* The connection breaks: some suffix of what is in flight never arrives.
Disconnect ==
  /\ link = "up"
  /\ link' = "down"
  /\ \E k \in 0 .. Len(wire) : wire' = SubSeq(wire, 1, k)
  /\ UNCHANGED <<outputVars, inputVars>>

Next == Output \/ Input \/ Disconnect

\* Both threads keep running: a call proceeds whenever the transport lets it,
\* and the receiver always calls GetRTMPMessage again.  Nothing obliges the
\* application to send, or the connection to break.
Fairness ==
  /\ WF_vars((SendChunk \/ SendReturns \/ SendThrows) /\ UNCHANGED inputVars)
  /\ WF_vars(Input)

Spec == Init /\ [][Next]_vars /\ Fairness

-----------------------------------------------------------------------------
(* Types.                                                                   *)

Chunk ==
  [ cs : ChunkStreamId, hdr : Header, data : Seq(Byte), n : Nat, ofs : Nat ]

\* Every variable of the two halves and of the transport has its type.
TypeOK ==
  /\ wire \in Seq(Chunk) /\ link \in {"up", "down"}
  /\ MapTo(m_ChunkStreamsOutput, Context)
  /\ m_ChunkSizeSend \in Nat
  /\ sender \in {"idle", "sending", "failed"}
  /\ sent \in Seq(Message) /\ sent # << >>
  /\ bytes_sent \in 0 .. Len(Current.data)
  /\ MapTo(m_ChunkStreamsInput, ChunkStream)
  /\ m_ChunkSizeReceive \in Nat /\ m_MaxMessageSize \in Nat
  /\ receiver \in {"reading", "returned", "failed", "desync"}
  /\ received \in Seq(Message)
  /\ receiver = "returned" => received # << >>

-----------------------------------------------------------------------------
(* Safety.                                                                  *)

\* Nothing is under way: every call has returned, nothing is in flight, and
\* every message received has been handled.
Quiescent ==
  link = "up" /\ wire = << >> /\ sender = "idle" /\ receiver = "reading"

\* A message with what the header of a chunk keeps of its timestamp.
LowBits(m) == [m EXCEPT !.ts = @ % U24]

\* The receiver always reads exactly the payload of the chunk whose header it
\* has read, and never more than the message holds: the two ends agree on the
\* chunk size and on how much of the message is left, even while a
\* SET_CHUNK_SIZE is on its way.
InSync ==
  /\ receiver # "desync"
  /\ \A id \in DOMAIN m_ChunkStreamsInput :
       Len(m_ChunkStreamsInput[id].bytes) <= m_ChunkStreamsInput[id].message_length

\* The message of a chunk stream fits the buffer GetChunkStreamInput gave it, in
\* whatever order the streams were created and the largest length grew, as long as
\* one chunk stream alone carries the messages longer than the first
\* m_MaxMessageSize: a client session sends all its media on chunk stream 4.
BufferHolds ==
  \A id \in DOMAIN m_ChunkStreamsInput :
    m_ChunkStreamsInput[id].message_length <= m_ChunkStreamsInput[id].size

\* What has been delivered is an initial part of what was sent: nothing is
\* lost, repeated, reordered or changed in any field, also after a break.  Of a
\* timestamp only the low 24 bits are certain, once one has needed more.
DeliveredInOrder ==
  /\ Len(received) <= Len(sent)
  /\ \A i \in 1 .. Len(received) :
       /\ LowBits(received[i]) = LowBits(sent[i])
       /\ (\A j \in 1 .. i : sent[j].ts < U24) => received[i] = sent[i]

\* Header compression relies on both ends remembering the same message per
\* chunk stream: at rest the two maps agree, no message is half received, and the
\* chunk size in use on each side is the one last announced.
ContextsAgree ==
  Quiescent =>
    /\ DOMAIN m_ChunkStreamsInput = DOMAIN m_ChunkStreamsOutput
    /\ \A id \in DOMAIN m_ChunkStreamsOutput :
         LET in  == m_ChunkStreamsInput[id]
             out == m_ChunkStreamsOutput[id]
         IN  /\ Between(in)
             /\ in.message_length = out.message_length
             /\ in.message_type = out.message_type
             /\ in.message_stream_id = out.message_stream_id
             /\ in.timestamp % U24 = out.timestamp % U24
    /\ m_ChunkSizeSend = m_ChunkSizeReceive

\* The timestamp handed to the caller is the timestamp of the packet.
TimestampsExact ==
  \A i \in 1 .. Len(received) : received[i].ts = sent[i].ts

-----------------------------------------------------------------------------
(* Liveness and refinement.                                                 *)

\* No call hangs: it returns or throws, also when the transport was full.
CallsEnd == sender = "sending" ~> sender # "sending"

\* A receiver blocked in GetRTMPMessage learns that the connection broke.
BreakIsNoticed == link = "down" ~> receiver = "failed"

AppMessages ==
  MediaMessages
  \cup { CommandMessage(d) : d \in Commands }
  \cup { ControlMessage("USER_CONTROL_MESSAGE", d) : d \in UserControls }
  \cup { ControlMessage("WINDOW_ACKNOWLEDGEMENT_SIZE", U32Bytes(n)) : n \in WindowSizes }
  \cup { ControlMessage("SET_PEER_BANDWITH", U32Bytes(n) \o <<2, 0, 0, 0>>) :
           n \in WindowSizes }
  \cup { SetChunkSizeMessage(n) : n \in ChunkSizes }

\* What the application must keep to for its messages to arrive: the ids survive the
\* header, and so does the length, which is not 0 because an empty message sends no
\* chunk.  Timestamps are arbitrary.
Carried(m) == m.cs < CsIds /\ m.sid < U24 /\ Len(m.data) \in 1 .. U24 - 1

CarriedMessages ==
  \A m \in AppMessages \cup {SetChunkSizeMessage(CtorChunkSize)} : Carried(m)

Channel == INSTANCE MessageChannel
  WITH Payload <- {LowBits(m) : m \in AppMessages},
       Greeting <- SetChunkSizeMessage(CtorChunkSize),
       sent <- [i \in DOMAIN sent |-> LowBits(sent[i])],
       received <- [i \in DOMAIN received |-> LowBits(received[i])],
       up <- (link = "up")

\* The direction implements the channel, up to timestamps of more than 24 bits:
\* chunking, header compression and chunk size changes are invisible, and while
\* the connection stands every message is delivered in the end.
ImplementsChannel == Channel!Spec

=============================================================================
