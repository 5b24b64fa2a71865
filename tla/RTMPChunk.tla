------------------------------ MODULE RTMPChunk ------------------------------
(***************************************************************************)
(* The RTMP chunk format of EasyRTMP: what a message and a chunk are, which *)
(* of the four header formats a sender picks and what a header does to the  *)
(* state that a receiver keeps per chunk stream.  The two variables are the *)
(* DataLayer below both ends: the chunks in flight and whether the          *)
(* connection still stands.                                                 *)
(*                                                                          *)
(* A chunk is one element of `wire`: its basic header, message header and   *)
(* payload are written by one thread and read by one thread, in order, so   *)
(* only their order matters.                                                *)
(***************************************************************************)
EXTENDS Integers, Sequences

CONSTANTS
  U24, U32, U64,        \* 2^24, 2^32 and 2^64: what the integer fields can hold
  CsIds,                \* 2^6: chunk stream ids a basic header can hold
  InitChunkSize,        \* 128: the chunk size before any SET_CHUNK_SIZE
  InitMaxMessageSize    \* 512000: m_MaxMessageSize of a new endpoint

ASSUME WidthAssumption ==
  /\ {U24, U32, U64, CsIds} \subseteq Nat \ {0}
  /\ U24 < U32 /\ U32 < U64

ASSUME SizeAssumption == {InitChunkSize, InitMaxMessageSize} \subseteq Nat \ {0}

VARIABLES
  wire,    \* chunks written to the DataLayer and not yet read
  link     \* "up", or "down" once the transport fails on every call

transportVars == <<wire, link>>

-----------------------------------------------------------------------------
(* Messages.                                                                *)

MessageType ==
  { "SET_CHUNK_SIZE", "ABORT", "ACKNOWLEDGEMENT", "USER_CONTROL_MESSAGE",
    "WINDOW_ACKNOWLEDGEMENT_SIZE", "SET_PEER_BANDWITH", "AUDIO", "VIDEO",
    "AMF0", "METADATA_AMF0", "UNKNOWN" }

Byte == 0 .. 255

\* What SendRTMPMessage is given and what GetRTMPMessage returns.
Message ==
  [ cs   : 0 .. 255,
    sid  : 0 .. U32 - 1,
    type : MessageType,
    ts   : 0 .. U64 - 1,
    data : Seq(Byte) ]

\* The messages whose every field survives the widths of the chunk headers.
Portable(m) ==
  /\ m.cs < CsIds
  /\ m.sid < U24
  /\ m.ts < U24
  /\ Len(m.data) \in 1 .. U24 - 1

\* A four byte big-endian integer and its reading.
U32Bytes(n) ==
  << (n \div (256 * 256 * 256)) % 256, (n \div (256 * 256)) % 256,
     (n \div 256) % 256, n % 256 >>

U32Value(b) == ((b[1] * 256 + b[2]) * 256 + b[3]) * 256 + b[4]

\* The chunk size in force after a message: a SET_CHUNK_SIZE replaces it.
ChunkSizeAfter(m, size) ==
  IF m.type = "SET_CHUNK_SIZE" THEN U32Value(m.data) ELSE size

-----------------------------------------------------------------------------
(* Types.  A context is what a sender remembers of a chunk stream; a        *)
(* receiver also has the bytes of the message under way and their buffer.   *)

ChunkStreamId == 0 .. 255

Context ==
  [ message_length    : Nat,
    message_type      : MessageType,
    message_stream_id : 0 .. U32 - 1,
    timestamp         : 0 .. U64 - 1 ]

ChunkStream ==
  [ message_length    : Nat,
    message_type      : MessageType,
    message_stream_id : 0 .. U32 - 1,
    timestamp         : 0 .. U64 - 1,
    timestamp_delta   : 0 .. U32 - 1,
    bytes             : Seq(Byte),
    size              : Nat ]

Header ==
  [ fmt : {0}, ts : 0 .. U24 - 1, len : 0 .. U24 - 1, type : MessageType,
    sid : 0 .. U32 - 1 ]
  \cup [ fmt : {1}, delta : 0 .. U24 - 1, len : 0 .. U24 - 1, type : MessageType ]
  \cup [ fmt : {2}, delta : 0 .. U24 - 1 ]
  \cup [ fmt : {3} ]

\* A std::map from chunk stream ids to V.
MapTo(map, V) ==
  /\ DOMAIN map \subseteq ChunkStreamId
  /\ map = [id \in DOMAIN map |-> map[id]]
  /\ \A id \in DOMAIN map : map[id] \in V

-----------------------------------------------------------------------------
(* Chunk streams.                                                           *)

\* The header fields a ChunkStream remembers, before any message.
NewContext ==
  [ message_length    |-> 0,
    message_type      |-> "UNKNOWN",
    message_stream_id |-> U32 - 1,
    timestamp         |-> U64 - 1 ]

\* Wrong on purpose, for the mutation runs: the type is not remembered.
ContextWithoutType(m) ==
  [ message_length    |-> Len(m.data),
    message_type      |-> "UNKNOWN",
    message_stream_id |-> m.sid,
    timestamp         |-> m.ts ]

\* The same fields once a message has been sent on the chunk stream.
ContextOf(m) ==
  [ message_length    |-> Len(m.data),
    message_type      |-> m.type,
    message_stream_id |-> m.sid,
    timestamp         |-> m.ts ]

\* A std::map of chunk streams with one entry replaced or inserted.
Put(map, id, value) ==
  [c \in DOMAIN map \cup {id} |-> IF c = id THEN value ELSE map[c]]

Smaller(a, b) == IF a < b THEN a ELSE b

-----------------------------------------------------------------------------
(* Sending: the header of the first chunk of message m, given the context   *)
(* left by the message before it on the chunk stream.  Timestamps, deltas   *)
(* and lengths are written in three bytes.                                  *)

\* Wrong on purpose, for the mutation runs: a timestamp may go back.
ContinuesAtAnyTime(ctx, m) == ctx.message_stream_id = m.sid

ContinuesStream(ctx, m) ==
  ctx.message_stream_id = m.sid /\ m.ts >= ctx.timestamp

RepeatsShape(ctx, m) ==
  ctx.message_length = Len(m.data) /\ ctx.message_type = m.type

Header0(m) ==
  [ fmt |-> 0, ts |-> m.ts % U24, len |-> Len(m.data) % U24, type |-> m.type,
    sid |-> m.sid ]

Header1(ctx, m) ==
  [ fmt |-> 1, delta |-> (m.ts - ctx.timestamp) % U24, len |-> Len(m.data) % U24,
    type |-> m.type ]

Header2(ctx, m) == [ fmt |-> 2, delta |-> (m.ts - ctx.timestamp) % U24 ]

Header3 == [ fmt |-> 3 ]

FirstHeader(ctx, m) ==
  IF ~ContinuesStream(ctx, m) THEN Header0(m)
  ELSE IF RepeatsShape(ctx, m) THEN Header2(ctx, m)
  ELSE Header1(ctx, m)

-----------------------------------------------------------------------------
(* Receiving: what a header does to the chunk stream it arrives on.  The    *)
(* timestamp fields move only when no message is under way there; the four  *)
(* bytes of the message stream id are read as three.                        *)

Between(cs) == cs.bytes = << >>

Advance(cs, delta) == (cs.timestamp + delta) % U64

\* Wrong on purpose, for the mutation runs: a delta that may be negative.
SignedHeader0(cs, h) ==
  [cs EXCEPT !.timestamp_delta   = IF Between(cs) THEN h.ts - cs.timestamp ELSE @,
             !.timestamp         = h.ts,
             !.message_length    = h.len,
             !.message_type      = h.type,
             !.message_stream_id = h.sid % U24]

ApplyHeader0(cs, h) ==
  [cs EXCEPT !.timestamp_delta   = IF Between(cs) THEN (h.ts - cs.timestamp) % U32 ELSE @,
             !.timestamp         = h.ts,
             !.message_length    = h.len,
             !.message_type      = h.type,
             !.message_stream_id = h.sid % U24]

\* Wrong on purpose, for the mutation runs: the delta is not kept.
ForgetDelta(cs, h) ==
  [cs EXCEPT !.timestamp = IF Between(cs) THEN Advance(cs, h.delta) ELSE @]

ApplyDelta(cs, h) ==
  [cs EXCEPT !.timestamp_delta = IF Between(cs) THEN h.delta ELSE @,
             !.timestamp       = IF Between(cs) THEN Advance(cs, h.delta) ELSE @]

ApplyHeader1(cs, h) ==
  [ApplyDelta(cs, h) EXCEPT !.message_length = h.len, !.message_type = h.type]

\* Wrong on purpose, for the mutation runs: every chunk moves the time.
AlwaysAdvance(cs) == [cs EXCEPT !.timestamp = Advance(cs, cs.timestamp_delta)]

ApplyHeader3(cs) ==
  [cs EXCEPT !.timestamp = IF Between(cs) THEN Advance(cs, cs.timestamp_delta) ELSE @]

ApplyHeader(cs, h) ==
  CASE h.fmt = 0 -> ApplyHeader0(cs, h)
    [] h.fmt = 1 -> ApplyHeader1(cs, h)
    [] h.fmt = 2 -> ApplyDelta(cs, h)
    [] h.fmt = 3 -> ApplyHeader3(cs)

=============================================================================
