# A verification of EasyRTMP in TLA+

EasyRTMP is a C++ library for RTMP clients and servers. These modules model all of
its run-time layers: the TCP and TLS transports, the endpoint that splits messages into
chunks and puts them together again, its handshake, the client and server sessions on
top of it, and the formats they write and read. TLC checks them on small instances, and
TLAPS proves theorems about them for every value of the constants. Paths below are relative to the repository.

## 1. The system

| part | state | operations | interacts with |
|---|---|---|---|
| endpoint, sending half (`rtmp_endpoint.cpp:174-264`) | `m_ChunkStreamsOutput` (header fields last sent per chunk stream), `m_ChunkSizeSend` | `SendRTMPMessage` and its wrappers, `ChangeChunkSizeOutput` | writes to a `DataLayer`; called by a session or the application |
| endpoint, receiving half (`:10-16, :67-172`) | `m_ChunkStreamsInput` (header fields, buffer and bytes read per chunk stream), `m_ChunkSizeReceive`, `m_MaxMessageSize` | `GetRTMPMessage`, `HandleMessage` | blocks in the `DataLayer`; returns messages to a session |
| handshake (`:38-65`) | local to the call | `DoHandshake`, from the constructor | both directions of the `DataLayer` |
| chunk and control formats (`rtmp_proto.*`) | none | `Serialize`, `ParseRef`, `GetLength` | endpoint |
| framework (`framework.*`) | none | integer widths and byte order, `DataLayer` | everything |
| client session (`rtmp_client_session.cpp`) | `sent_params` | `SendClientParameters` (six commands, three awaited answers), `SendRTMPMessage` | one endpoint, both directions |
| server session (`rtmp_server_session.cpp`) | `m_ClientParameters` | `GetRTMPMessage` with `HandleAMF`, `GetClientParameters` | one endpoint, both directions |
| AMF values (`amf.*`) | a tree of values | `GetLength`, `Serialize`, `ParseRef`, access | sessions |
| TCP and TLS transports (`data_layers/*`) | a descriptor; SSL objects | `send_data`, `receive_data`, `destroy`, move, accept, connect, handshake | below the endpoint, TLS over TCP; the descriptor table, OpenSSL |
| URL parsing (`utils.cpp`) | none | `ParseURL` | application |

There are no threads in the library: concurrency is between the two ends of a
connection, and, within an application, between one thread that sends and one that
receives on the same endpoint. The two halves of an endpoint share no variable, so
these two threads do not meet in memory; two *senders* would (no lock), and the
class is used with one.

### What is hard about it, and what makes it correct

* **Chunking and header compression.** A header says only what differs from the
  message before it on its chunk stream. Correct means: every message arrives once,
  whole, unchanged and in order, whichever of the four formats was used
  (`DeliveredInOrder`, `ImplementsChannel`), because the two ends remember the same
  (`ContextsAgree`).
* **Chunk size changes.** The size changes on the sender after a message and on the
  receiver when that message is handled, with chunks in flight. One chunk read with
  the wrong size loses the framing for good (`InSync`, `StaysFramed`).
* **Interleaved chunk streams from other encoders**, with any legal choice of
  formats, aborts and malformed messages (`Demultiplexed`, `PartialsMatch`,
  `ThrowsOnlyOnMalformed`).
* **Buffers.** `m_MaxMessageSize` is one number for all chunk streams, and every
  stream has its own buffer (`BufferHolds`).
* **Integer widths.** Timestamps are 64 bits in memory and 24 in a header
  (`DeliveredInOrder`, `TimestampsExact`).
* **Failure.** The transport may fail between two chunks or two messages; what was
  received is still a prefix of what was sent, and everyone learns of the failure
  (`DeliveredInOrder`, `BreakIsNoticed`, `CallsEnd`).
* **The handshake** writes 1537 bytes on both ends before either reads
  (`NeverStuck`), and must leave no byte behind (`NothingLeftOver`).
* **Answers** are matched by transaction id only, a failed setup may be repeated
  while its answers are late, and nothing has a timeout (`PublishGranted`,
  `SetupEnds`, `AnswersConsumed`).
* **Parameters and media** travel separately: what `GetClientParameters` says must
  belong to the media returned (`MediaDescribed`, `ParametersFromOneMetadata`).
* **System calls and TLS records** move part of what they are asked to, are interrupted
  and fail; the endpoint relies on whole transfers (`DeliveredAsGiven`,
  `FailuresExplained`, `SendEnds`, `BreakReachesReceiver`).
* **Descriptors and OpenSSL objects** are remembered as bare numbers and pointers, by
  objects that can be moved, destroyed by hand and set up again after a failure. A
  descriptor closed once too often is somebody else's (`ConnectionsKept`,
  `ConnectionsReachable`, `FreedOnce`, `NothingElseLeaks`).
* **Formats** say the length and the content of a structure in two places, and are
  parsed from messages that may have lost their end (`FillsBuffer`, `ReadBack`,
  `CutNeverInvents`, and for AMF `TreeFillsBuffer`, `TreeReadBack`, `CutTreeNeverInvents`).

## 2. The modules

```
RTMPChunk ── EndpointOutput ─┐
     └────── EndpointInput ──┼─ EndpointLink ── EndpointLink_proofs
                    │        └─ (refines) MessageChannel
                    └─ EndpointDemux ── EndpointDemux_proofs
SessionMessages ── ClientSession ─┬─ Session ── Session_proofs
              │          └────────│─ ForeignServer ─┐
              └─ ServerSession ───┘                 ├─ ForeignPeers, ForeignPeers_proofs
                         └───────────ForeignClient ─┘
Handshake ─────────────────┐
DataLayers ────────────────┼─ Transport_proofs
TCPSockets ── TLSObjects ──┘
StreamUrl ───────┐
PacketFormats ─┬─┴─ Formats ──┬─ Formats_proofs
               └─ AMFCodec ─┐ │
                            └─┴─ AMFMessages
EndpointInput_proofs (lemmas on headers, contexts, buffers and the receiver, for
                      EndpointLink_proofs and EndpointDemux_proofs)
SequenceFacts        (lemmas for ForeignPeers_proofs and Session_proofs)
```

**RTMPChunk**: messages, chunks, the four header formats: which one a sender picks
(`FirstHeader`) and what one does to a `ChunkStream` (`ApplyHeader`). Widths are the
constants `U24`, `U32`, `U64`. A chunk is one element of `wire`: its headers and
payload are written by one thread and read by one thread, in order, so nothing
can come between them; a transport that fails inside a chunk is, to the receiver,
one that fails before it, because the receiver returns nothing and throws.

**EndpointOutput**: a call of `SendRTMPMessage` is a step that begins it, one step
(`SendChunk`) per iteration of its loop, and `SendReturns`, which stores the context
and, for `ChangeChunkSizeOutput`, the new size; or `SendThrows`. `sent` is a history
variable. A full transport (`WireCapacity`) blocks the call.

**EndpointInput**: one step per iteration of the loop of `GetRTMPMessage`: read the
headers, grow the buffer, read `ToReceive` bytes, and go on (`ReceivePart`) or return
(`ReceiveLast`). `HandleMessage` follows, as both sessions do. If the number of bytes
the code asks for is not the payload of the chunk at the head of the wire, the
receiver is `"desync"` from there on: the bytes that follow are no longer read as
what they are, and the model says nothing of them. The properties say it does not
happen. `ReceiveNothing` is `receive_data(0)` over `TCPNetwork`. A message that an
AMF consumer keeps from `HandleMessage` changes nothing there either.

**EndpointLink**: one direction between two EasyRTMP endpoints, with a `Disconnect`
that loses any suffix of what is in flight. The other direction is a copy, since the
halves share nothing. **MessageChannel** is what the direction promises: a FIFO that
delivers everything while it is up; `ImplementsChannel` is the refinement, with the
chunks, contexts and sizes hidden.

**EndpointDemux**: the receiving half against a peer that is not EasyRTMP: it
interleaves, changes the chunk size at any time, picks any legal format and aborts.
The peer is external: it is modelled from the formats that `GetRTMPMessage` accepts and
the delta that a format 3 header repeats in RTMP, which after a full header is that
header's timestamp. `completed` notes of each message whether the headers so far tell the
receiver its time (`Timed`): they do not from a format 3 header that follows a full header
to the next full one, because the receiver then adds another delta.

**Handshake**: the six transfers of `DoHandshake` on both ends, a few bytes at a
time. Only byte counts and the version matter, since the code checks nothing else.

**SessionMessages, ClientSession, ServerSession, Session**: `SendClientParameters`
is a sequence of stages, of which three wait in `GetCommandResponse`; the server's
handlers queue what they send in `outbox` and send it message by message, so that a
blocked send is a state of its own. Metadata are kept property by property, because
the handler assigns them one at a time and may throw between two. One field stands
for each group that the code treats alike (`framerate` for `video_datarate`,
`samplerate` for `audio_datarate` and `samplesize`). A codec is a `Number` or a `Text`, which
the server decodes (`VideoCodec`, `AudioCodec`), or a value of another type, which leaves
the codec as it was. A `connect` or `publish` whose argument is no string has no `arg`: a
release build reads an empty string (`Argument`), a debug build stops
(`AssertionFails`). Media can be sent after a setup that threw, if one succeeded before:
that is all that `SendRTMPMessage` asserts. Below is a FIFO in each direction,
which is what `MessageChannel` promises.

**ForeignServer, ForeignClient, ForeignPeers**: the sessions against other programs: a server
that refuses, notifies or answers late; a client that sends any sequence of commands,
partial metadata, frames that are no metadata, media and short packets. `ForeignPeers`
lets one end or the other be the foreign one, for one run; the theorems are about each.

**DataLayers**: `send_data` and `receive_data` of `TCPNetwork`, and of `OpenSSL_TLS` with
the BIO callbacks on top of it, in one direction. A step is one element more that the
socket takes, a system call that stops short or fails, or one `read`. Bytes are numbered,
so that a gap, a repetition or a stale buffer shows. A record of TLS is a header and its
bytes; OpenSSL accepts only the next record, whole, as it was written.

**TCPSockets, TLSObjects**: `TCPNetwork`, `TCPServer` and `ConnectToHost` over the
descriptor table, in which the lowest free number is handed out first; the handshakes of
`OpenSSL_TLS_Server` and `_Client` by what they allocate, keep and free, with a failure
possible after each allocation. The application creates, moves, destroys and destructs
objects in any order that C++ allows, and keeps a connection while a session works on it.

**PacketFormats, StreamUrl, Formats**: each structure of `rtmp_proto.cpp` as the list of
fields that `Serialize` writes and the list that `ParseRef` reads, which are separate in
the code too; `ParseURL` over tokens. `Formats` puts them together: a packet is
serialized, perhaps loses its end, and is parsed; so is the URL an application wrote. What
the code copies from next to a temporary is any byte (`Garbage`).

**AMFCodec, AMFMessages**: AMF trees in the three functions of `AMFValue`; what is read beyond
the buffer is any byte too. A type byte that `ParseRef` does not know throws in a release build
and ends a debug build (`Asserted`, stage `"aborted"`). `AMFMessages` lets a tree be a sample of `Formats` and go
the same way there and back: of a packet or a URL, `FormatsSpec` says what `Formats!Spec`
says. These two modules are recursive, as a tree is, and no theorem is about them; packets and
URLs are kept apart from them for that reason.

The `MC*` modules give message sets and parameters to TLC. Operators commented
"Wrong on purpose" are plausible bugs: each replaces one definition in a mutation
run, which must then violate one property.

## 3. The runs

| run | question | result |
|---|---|---|
| `link` | every call of the sending half, all header formats, three chunk streams, a timestamp beyond 24 bits, chunk size changes, breaks: types, framing, buffers, order, equal contexts and sizes, calls end, breaks noticed, refinement of the channel | holds |
| `link_wide_exact` | the timestamp returned is the one sent | violated |
| `demux` | a peer that interleaves, changes the chunk size inside messages, chooses any legal format (format 3 after a full header too), aborts, and sends empty and short messages: framing, buffers, demultiplexing, partial messages, when receiving throws, completion | holds |
| `demux_timestamps` | every message is returned with the timestamp it was sent with | violated |
| `demux_two_large` | buffers with two chunk streams of long messages | violated |
| `session` | EasyRTMP client and server, repeated setups, breaks: parameters match media, order, setup ends and fails only on a break, no answer left over, media arrive | holds |
| `foreign_peers` | a foreign server with refusals, notifications, late answers: only granted keys are used; a foreign client with partial metadata and codecs of every type: parameters are never a mixture of two metadata messages | holds |
| `foreign_server_notifies` | setup fails only because of the network | violated |
| `handshake` | ends, echoes, leaves nothing over, never both waiting | holds |
| `transport` | TCP, and TLS over TCP: bytes arrive as given over partial, interrupted and failing system calls; a call fails for a reason, ends, and hears of a break | holds |
| `lifetimes` | TCP and TLS objects in any order of construction, move, destruction and failing handshakes: nobody closes or frees what is another's, nothing leaks but what two assignments lose | holds |
| `formats` | every packet, URLs, and AMF trees of every type, nested and with strings at the limits: the buffer is filled, what is parsed is what was serialized, a cut message gives nothing that was not sent, and lacks at most the mark after its last object | holds |

The violated runs check what a comment of the code says, and show where the code
does something else; `PROJECT.json` quotes the lines:

1. timestamps of 2^24 ms or more are cut (`rtmp_endpoint.cpp:234`, no extended timestamp);
2. a format 3 header right after a full header adds what the full header added to the time
   before it, initially UINT64_MAX, instead of the full header's timestamp (`:83-85`);
3. whether a buffer grows is decided by the longest message of *any* chunk stream (`:116`);
4. a notification with id 0 is taken for the answer to publish (`rtmp_client_session.cpp:190`).

### What the properties of the passing runs leave out

More behaviours of the code limit what is true of it. The models show them, and
the properties are stated around them.

Endpoint and sessions:

* ABORT resets the chunk stream that carried it, not the one it names
  (`rtmp_endpoint.cpp:151-153`). Once a peer has aborted a message of which it had
  sent a part, `EndpointDemux` claims nothing more (`Undisturbed`); an
  ABORT of a message not begun, or of a stream at rest, is covered.
* An empty message from a peer ends `GetRTMPMessage` with an exception over TCP (`:122`,
  `tcp_network.cpp:47-50`). `ThrowsOnlyOnMalformed` counts it as malformed.
* *Sending* an empty message changes the sender's context although nothing is sent (`:244`).
  The messages of `link` have a payload, as those of the sessions always do.
* Media may be returned before any parameters (`rtmp_server_session.cpp:35`).
  `MediaDescribed` is about EasyRTMP's own client, which describes first.
* After a format 3 header that follows a full header, `Demultiplexed` claims everything of
  the messages of that chunk stream but their timestamps, until its next full header:
  `demux_timestamps` shows that they are wrong.
* A codec that is neither a number nor a string leaves the codec of an older metadata
  message in place, and `has_video` or `has_audio` becomes true
  (`rtmp_server_session.cpp:163-175`, `:186-198`). `ParametersFromOneMetadata` excepts the
  codec then (`SaysCodec`), and covers width, height and codecs that are numbers or text.
  Optional properties that are absent keep their older value too (`:178`).

Transports:

* An object without a connection holds descriptor 0 and closes it when it is destroyed
  (`tcp_network.cpp:56`), and a `TCPServer` destroyed by hand closes its number
  again in its destructor (`:108`), when it may be a connection's. `ConnectionsKept`
  excepts descriptor 0 and ends with such a second close.
* `ConnectToHost` and the constructor of `TCPServer` leave their socket open when they
  throw (`:80`, `:123`); `ConnectionsReachable` is about established connections.
* The client's TLS handshake does not clean up first (`openssl_tls.cpp:313`), and moving
  into an `OpenSSL_TLS` frees nothing of the target (`:58`): both lose what was
  there. `NothingElseLeaks` says that nothing else does.
* A `write` that takes part of the data loses the rest unnoticed (`tcp_network.cpp:34`).
  Over TCP `DeliveredAsGiven` claims nothing after that; over TLS the record that lost
  bytes is never accepted. The models of the endpoint assume that it does not happen.
* `SSL_read` returns at most one record, and `receive_data` throws if that is too
  little (`openssl_tls.cpp:37`). `FailuresExplained` names it: one call of `send_data`
  with at most a record's bytes, received by one call, never meets it.

Formats:

* Of `composition_time` one byte is the field's own and two come from beside it
  (`rtmp_proto.cpp:202`): `ReadBack` claims the one. `SetPeerBandwith` has a length of 8
  and fills 5 (`:165`).
* AMF strings of 2^16 bytes or more lose their tail (`amf.cpp:108`), strings with a zero
  byte end there, an empty key ends its object, and values of the types UNKNOWN, UNDEFINED and
  STRICT_ARRAY cannot be serialized (`GetLengthThrows`). `PortableTree` leaves them out.
* An AMF message that lost just the END_OF_OBJECT byte of its last object is accepted: the byte is
  passed over without a check (`amf.cpp:216`), although `framework.h:150-153` demands an
  exception when less is there than required. `CutTreeNeverInvents` excepts this byte
  (`Unseen`); nothing else may be missing.
* A colon anywhere after the scheme is taken for the one before the port
  (`utils.cpp:30`); `PortableUrl` has no other.

### Bounds, and why they are enough

Widths are scaled (`U24` is 8, or 16 in `link`, whose longest control message has 8
bytes; `U32` and `U64` are multiples of it): only their order and the wrap at each matter,
and messages have timestamps below and above `U24`. Chunk sizes are 1, 2 (the constructor's),
3 or 4 and messages 1 to 9 bytes, so messages take one chunk or several, end at a chunk
border or inside it, and change the chunk size up and down; control
messages take several chunks too. `MixedMedia` has a pair for every header format and for
each condition that chooses it. Four messages, the greeting of the constructor
included in `link`, are enough for two on one stream, one on another and a
chunk size change between them; a header depends only on the message before it on its
stream. `WireCapacity` of 2 chunks makes the sender block and lets a SET_CHUNK_SIZE
and chunks of both sizes be in flight at once. The initial `m_MaxMessageSize` is 8 in `link`
and 4 in the `demux` runs, and one message exceeds it. Sessions have two setups (three for
late answers), because an answer can only be confused with one of the setup before; a
channel of two messages makes both ends block. In `Handshake` a block is 4 bytes:
any number above 1 gives every position inside a transfer, and the theorems cover 1536.

`transport` sends 1 to 3 bytes at a time, 6 in all, with records of 2 and sockets that
hold 3 elements: a message below, at and above a record, a write that waits for room, and
two records that do not fit together. One signal is enough to stop a write or a read once.
`lifetimes` has two objects and two sessions (a move needs two of each, and all are
alike: symmetry), descriptors 0 to 2 so that a number is handed out again, and two
handshakes, the second of which meets what the first left; the theorems cover any number.
In `formats` a byte has 16 values (`Radix`) and a block 3 bytes, so that every width
of a field and the length of a string overflow within TLC's integers; field values lie below,
at and above each width, and trees nest an object in an array in an object. The theorems
about packets cover 256 values and 1528 bytes.

### Fairness

`EndpointLink`: weak fairness of the steps of a call once begun, and of the receiver,
whose caller always asks for the next message (`GetRTMPMessage` loops, and so do the
sessions and the documented applications). Nothing obliges the application to send.
`EndpointDemux`: the receiver only; the peer may fall silent. `Session`: the thread
inside `SendClientParameters`, and the server's caller. `Handshake`: each end, blocked
only in the `DataLayer`. `DataLayers`: the writes of a call once begun, and the receiver,
whose application receives again; nothing obliges the application to send. A break is
never obliged to happen.

### Where the system may stop

All runs but `lifetimes` use `CHECK_DEADLOCK FALSE`: message and setup counts are bounded, and after a break
both ends end with an exception; a sample of `formats` is done when it is parsed. That nobody waits for ever is stated
instead: `CallsEnd`, `BreakIsNoticed`, `CompletedArrive`, `SetupEnds`, `MediaReturned`,
`HandshakeEnds`, `NeverStuck`, `SendEnds`, `BreakReachesReceiver`.

## 4. What is proved

TLAPS checks the following for every value of the constants that satisfies the
assumptions of the modules (widths positive and strictly ordered, messages well typed,
arguments that fit four bytes, chunk sizes not 0). TLC evaluates those assumptions
in the runs.

* **`EndpointLink_proofs!TypeOKHolds`** (`Spec => []TypeOK`). Every field stays in the
  range of its C++ type through cutting, delta arithmetic and the receiver's sums.
  `TypeOK` is not inductive alone: what `ChunkSizeAfter` reads from a SET_CHUNK_SIZE is
  a number only if its payload has four bytes. `TypeInv` adds that of every message
  in `sent`; that a SET_CHUNK_SIZE arrives complete is not needed for types,
  since the bytes of a chunk have a type whatever message they came from.
* **`EndpointLink_proofs!BufferHoldsForOneLargeStream`** (`OneLargeStream` implies
  `Spec => []BufferHolds`). The hypothesis is that one chunk stream alone carries
  messages longer than the first `m_MaxMessageSize`, as a client session does, which sends all
  media on chunk stream 4 (`rtmp_client_session.cpp:259, 262`); `demux_two_large`
  shows it is needed. The invariant follows the lengths from the calls through the headers in
  flight to the chunk streams, and ties `m_MaxMessageSize` to the buffer of that stream.
* **`Transport_proofs`**, on the handshake: `HandshakeEchoed`, `HandshakeConsumed` and `HandshakeNeverStuck`. The
  invariant is a balance of bytes: what one end has written is what the other has
  read plus what is in flight (at most, after a break), and no transfer under way has
  zero bytes left. Deadlock freedom follows by arithmetic from the assumption
  that one direction can hold C0 and C1. `Handshake!TypeOK` is a conjunct of the invariant, and not a property of a run.
* **`EndpointLink_proofs`**: `InSyncHolds`, `DeliveredInOrderHolds`, `ContextsAgreeHolds` and
  `ImplementsChannelSafety`. Two hypotheses: `CarriedMessages`, which says of every message
  that its ids fit the header and its length too and is not 0; and `WholeBytes`, that 2^24
  divides 2^64. TLC evaluates both in `link` and `link_wide_exact`. Timestamps are
  arbitrary: what wraps is part of the theorem. The argument:
  - A *position* is a message and the number of its bytes that lie behind. The sender,
    every chunk on the wire and the receiver have one each, in this order, and each
    is reached from the one before without a gap (`Reaches`).
  - What must be remembered at a position depends only on the messages before it:
    `SizeAt` gives the chunk size, `ContextAt` the context of a chunk stream. `OrderInv` says that the
    sender (`SenderInv`), every header and payload in flight (`WireInv`) and the receiver
    (`ReceivedInv`, `PositionInv`) have just that. Neither end knows the other's
    state: that the two agree follows from each agreeing with its position.
  - The step that matters is the header: `FirstHeader`, applied to a context that has the same
    fields as the sender's, gives the context of the message, whichever of the four
    formats was chosen; for the timestamp this is arithmetic modulo 2^24
    (`DeltaKeepsLowBits`), so that it holds when timestamps have wrapped too.
  - A break cuts the wire anywhere: the first part of it is still such a run, and that
    the sender is its end is claimed while the link is up only.
  - `ImplementsChannelSafety` is the refinement but for its fairness: initial states are
    initial states of `MessageChannel`, and each step is one of its steps or hidden. That
    every message does arrive is left to TLC (`ImplementsChannel` in `link`).
* **`EndpointDemux_proofs`**: `StaysFramedHolds`, `DemultiplexedHolds`, `PartialsMatchHolds` and
  `ThrowsOnlyOnMalformedHolds`, for any set of messages that a peer may send (`PeerAssumption`),
  any number of chunk streams and any capacity, without further hypothesis. Here the receiver
  has many positions at once, one for each chunk stream, so the positions of
  `EndpointLink_proofs` do not serve. The argument follows the chunks in flight instead:
  - A *view* is what one end has of all chunk streams: their contexts and deltas, the message
    under way on each and how much of it, the chunk size, and what was completed.
  - `Connected` says that there is a sequence of views (`Leads`), one more than the chunks
    in flight, such that each chunk takes its view to the next, the last one is the
    peer's, and the first one is where the receiver is (`ReceiverAt`). A write adds a view at the end, a read
    drops the first: neither needs to know what lies between.
  - The step that matters is again the header: every legal header, not only the one that
    the library's own sender would pick, takes a context to the context of its message; its
    time is known unless a format 3 header followed a full one (`Timed`), which a view says
    of each stream.
  - `Sound` adds what outlives a chunk: what was returned is a prefix of what was completed
    (`InOrder`), no partial message exceeds its length (`PartsFit`), and a failure is
    explained (`ThrownExplained`). All of it is claimed while `Undisturbed`: an ABORT
    that cuts a message short discards what follows on its stream. `DemuxInv` is
    the types and `Undisturbed => Sound`.
* **`EndpointDemux_proofs!PeerBufferHolds`** (`OneLargePeer` implies `Spec => []BufferHolds`), aborts that
  cut messages short included. The hypothesis is the one of `BufferHoldsForOneLargeStream`, with the
  same lemmas about the receiver; TLC evaluates it for the messages of `demux` (the video
  alone is longer than the first buffers), and `demux_two_large` breaks it.
* **`Transport_proofs`**: `ConnectionsKeptHolds`, `ConnectionsReachableHolds`, `FreedOnceHolds` and
  `NothingElseLeaksHolds`, for any number of objects, sessions, descriptors and handshakes. For
  sockets the invariant adds that an object without a connection holds 0 and that
  the listening server still has its own descriptor. For TLS it adds that
  allocations are numbered by their handshake, so that a new one is nobody's; that each
  allocated object is in at most one holder; and that an SSL of a failed handshake has
  no layer that its destruction would write to.
* **`ForeignPeers_proofs!PublishGrantedHolds`**, for any parameters, number of setups and
  capacity of the channel. The one answer that can outlive its setup is the status of a publish
  that gave up on a notification, with the id that the next publish waits for. The
  invariant follows the circle from the client through the server and back: at most one connect
  or answer to a connect is in it, no publish or status comes after that one
  (`Ordered`), and none at all while no connect is under way (`OpeningIsCurrent`). So
  whoever has the answer to connect has passed every late status (`NoLateStatus`), and what
  `SendPublish` then finds is about its own key (`StatusIsCurrent`).
* **`ForeignPeers_proofs!ParametersFromOneMetadataHolds`**, for any set of messages a
  client may send in which properties come in metadata only (`ClientAssumption`), codecs of any
  type included. The invariant ties what is in flight to the log of what was sent.

* **`Session_proofs`**: `AnswersConsumedHolds`, `SetupFailsOnlyOnBreakHolds`, `MediaDescribedHolds`
  and `MediaInOrderHolds`, for any parameters, any number of setups and media, and any capacity. None of
  the four is inductive: each is about one end, and depends on what is in flight. `SessionInv` adds
  - `Circle`: at most one command that is answered, or its answer, is between the two ends;
    it is the one that the stage of the client waits for (`Asks`, `Answers`), and nothing
    follows it. So a stage that ends leaves the circle empty, which is `AnswersConsumed`.
    After a break the commands that are left are lost and nothing is claimed of them.
  - `StreamKnown`: what the server knows of the stream, changed by the metadata that may be
    at the head of the queue (`Announced`), describes every media message behind it. It
    needs `NamesKnown`: at which stage the server has the application and the key.
  - `Bodies`: the media in flight are those from the last one returned on, without a gap
    while the connection is up and in order always.
* **`Transport_proofs`**: `DeliveredAsGivenHolds` and `FailuresExplainedHolds`, for messages, records,
  calls and sockets of every size and any number of signals. The invariant looks at the *line* of elements
  between sender and reader: what the sockets hold and the rest of the write in progress.
  - Over TCP (`Unbroken`) the line is the bytes that follow those taken, unless a write was cut.
  - Over TLS (`Opened`) what was decrypted and delivered is a run of bytes: a record is accepted
    only if it is the next one, so that this holds whatever the layer below lost.
  - That a TLS read fails only at the end of a record needs more (`Stream`): as long as the link
    is up and no signal came, every header in the line stands in front of its whole record,
    and the next header, or the bytes still to be given, comes right behind it (`Orderly`).

* **`Formats_proofs`**: `FillsBufferHolds`, `ReadBackHolds` and `CutNeverInventsHolds`, for any
  number of byte values from two on, any length of the random blocks, any set of packets whose
  integers have the width of their type (`SamplesAssumption`), any garbage and any
  place to cut. The step from one stage to the next is short: `Inv` says that the buffer
  is the serialized packet or its first n bytes (`Carried`), and that the result is what Parse makes
  of the buffer. All the work is in `PacketReturns`, about a packet, its buffer and n:
  - *Digits.* The memory of an integer is its digits to the base `Radix`; writing keeps the
    low ones (three of 24 bits, all of the others), in either byte order, and reading them
    into a zero gives the number modulo their weight (`composition_time`, where the code writes
    one digit and two bytes of garbage, keeps that one).
  - *Places.* The two lists of fields of each of the fifteen structures put a field at the same
    place (`Start`), also where they differ in what they do there, so every field
    that fits into the first n bytes is read from the bytes it was written to.
  - *Ends.* ParsePacket succeeds just if every field fits. Then the payload is what is left,
    a prefix of the one that was sent, and all of it if nothing was cut.

  For a URL, the first token of each kind that `Find` sees is the one that `UrlText` put there,
  because the host, application and key of a `PortableUrl` have none before it, and a port
  that is a number is not one of these tokens (`PortNumbersAssumption`).

Only model-checked: all liveness properties and the liveness part of the refinement, which
are out of the prover's reach; and the three properties of AMF trees in `AMFMessages`: what the recursive
operators over AMF trees compute is an induction over the tree, which the provers do not do.

## 5. Plan

Done, in this order: chunk formats and the direction between two endpoints; the
demultiplexer; the sessions; the handshake; the transports and the lifetimes of their
objects; the formats, AMF and URLs; the theorems of section 4. Every safety invariant of the
passing runs but those about AMF trees is a theorem. What could come next needs other tools: a prover
with induction for `AMFMessages`, and one with fairness for the liveness properties.

## 6. Not modelled, and why

* The contents of C1 and C2, which the code does not check.
* Assertions of a debug build but for three: parameters must have been sent before media,
  arguments must be strings, and AMF types known. A metadata number of another type stops a debug build in
  `get_number` and is 0 in a release build; the numbers in `props` are those that are read.
* Commands with fewer values than `HandleAMF` reads, which moves its iterator past the end of
  a list: undefined.
* How a program builds an AMF tree (setters, `push_back`, `operator[]`, iterators):
  `AMFCodec` serializes any tree. For this AMF is listed as partly modelled.
* Two threads sending on one endpoint, or a thread that sends and one that receives on one
  SSL object: the library has no lock and says nothing of threads.
* A chunk size of 0 and empty SET_CHUNK_SIZE payloads from `ChangeChunkSizeOutput`
  callers: excluded by `ArgumentsAssumption` and `PeerAssumption`.
* A process that does not ignore SIGPIPE: a write to a closed connection ends it.
* OpenSSL's own state, certificates and their verification: external. `TLSObjects` and `DataLayers` have of
  it what the library's calls rely on.
* The Windows branches and big-endian hosts (`HOST_BIG_ENDIAN`): the model is of the
  POSIX build on a little-endian machine.
* Codes and texts of exceptions (that a call throws is modelled), build files and the example.
