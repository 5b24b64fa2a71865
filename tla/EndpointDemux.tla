---------------------------- MODULE EndpointDemux ----------------------------
(***************************************************************************)
(* The receiving half of RTMPEndpoint against any sender that keeps to the  *)
(* chunk protocol.  EasyRTMP's own sender finishes one message before it    *)
(* starts the next; other encoders interleave the chunks of messages on     *)
(* different chunk streams, change the chunk size in the middle of one,     *)
(* choose among the legal header formats, and abort messages.  The peer is  *)
(* not part of the repository: it is the environment that GetRTMPMessage    *)
(* is written for.                                                          *)
(***************************************************************************)
EXTENDS EndpointInput

CONSTANTS
  PeerMessages,     \* what the peer may send, SET_CHUNK_SIZE and ABORT included
  PeerMaxMessages,  \* bound on the messages the peer begins
  WireCapacity      \* bound on the chunks the transport buffers

ASSUME PeerAssumption ==
  /\ PeerMessages \subseteq Message
  /\ \A m \in PeerMessages :
       /\ m.cs < CsIds /\ m.sid < U24 /\ m.ts < U24 /\ Len(m.data) < U24
       /\ m.type \in {"SET_CHUNK_SIZE", "ABORT"} => Len(m.data) = 4
       /\ m.type = "SET_CHUNK_SIZE" => U32Value(m.data) > 0
  /\ PeerMaxMessages \in Nat /\ WireCapacity \in Nat \ {0}

VARIABLES
  peerStreams,    \* chunk stream id -> what the peer last sent and is sending there
  peerChunkSize,
  peerBegun,      \* messages begun, against PeerMaxMessages
  completed,      \* messages whose last chunk was written, in that order, and
                  \* whether the headers so far tell GetRTMPMessage their time
  discarded       \* has an ABORT cut short a message that was under way?

peerVars == <<peerStreams, peerChunkSize, peerBegun, completed, discarded>>
vars == <<transportVars, inputVars, peerVars>>

-----------------------------------------------------------------------------
PeerIds == {m.cs : m \in PeerMessages}

\* Of a clock, delta is the timestamp delta that a format 3 header repeats, -1 for
\* none, and from is the kind of header that gave it.  After a full header the
\* delta is its timestamp (RTMP 5.3.1.2.4); GetRTMPMessage takes what the header
\* added to the time before, so a clock is "repeated", and the receiver no longer
\* knows the time, from the format 3 header after it to the next full header.
\* open is << >> or the message under way, ofs how much of it is written.
FreshStream ==
  [ last |-> NewContext, clock |-> [delta |-> -1, from |-> "full"],
    open |-> << >>, ofs |-> 0 ]

\* The headers the protocol allows for the first chunk of m after s.last.
LegalHeaders(s, m) ==
  {Header0(m)}
  \cup {h \in {Header1(s.last, m)} : ContinuesStream(s.last, m)}
  \cup {h \in {Header2(s.last, m)} : ContinuesStream(s.last, m) /\ RepeatsShape(s.last, m)}
  \cup {h \in {Header3} : /\ ContinuesStream(s.last, m) /\ RepeatsShape(s.last, m)
                          /\ s.clock.delta = m.ts - s.last.timestamp}

ClockAfter(clock, h) ==
  CASE h.fmt = 0 -> [delta |-> h.ts, from |-> "full"]
    [] h.fmt \in {1, 2} ->
         [delta |-> h.delta, from |-> IF clock.from = "repeated" THEN "repeated" ELSE "delta"]
    [] h.fmt = 3 ->
         [clock EXCEPT !.from = IF @ = "full" THEN "repeated" ELSE @]

\* Do the headers so far tell the receiver the time of the message?
Timed(clock) == clock.from # "repeated"

PeerInit ==
  /\ peerStreams = [id \in PeerIds |-> FreshStream]
  /\ peerChunkSize = InitChunkSize
  /\ peerBegun = 0
  /\ completed = << >>
  /\ discarded = FALSE

PeerBegins(m) ==
  /\ peerBegun < PeerMaxMessages
  /\ peerStreams[m.cs].open = << >>
  /\ peerBegun' = peerBegun + 1
  /\ peerStreams' = [peerStreams EXCEPT ![m.cs].open = <<m>>, ![m.cs].ofs = 0]
  /\ UNCHANGED <<transportVars, peerChunkSize, completed, discarded>>

\* The message that the chunk stream named by an ABORT is sending.
Target(m) == IF U32Value(m.data) \in PeerIds THEN {U32Value(m.data)} ELSE {}

\* Put the next chunk of the message under way on id in flight.
PeerWrites(id, h, size) ==
  LET s == peerStreams[id] IN
  /\ Len(wire) < WireCapacity
  /\ wire' = Append(wire,
       [cs |-> id, hdr |-> h, data |-> SubSeq(s.open[1].data, s.ofs + 1, s.ofs + size)])
  /\ UNCHANGED <<link, peerBegun>>

PeerHeaders(s) == IF s.ofs = 0 THEN LegalHeaders(s, s.open[1]) ELSE {Header3}

\* The clock once a chunk with header h is sent: only a first chunk moves it.
ClockNow(s, h) == IF s.ofs = 0 THEN ClockAfter(s.clock, h) ELSE s.clock

PeerSendsPart(id) ==
  LET s == peerStreams[id] IN
  /\ s.open # << >>
  /\ peerChunkSize < Len(s.open[1].data) - s.ofs
  /\ \E h \in PeerHeaders(s) :
       /\ PeerWrites(id, h, peerChunkSize)
       /\ peerStreams' = [peerStreams EXCEPT
            ![id].ofs = @ + peerChunkSize,
            ![id].clock = ClockNow(s, h)]
  /\ UNCHANGED <<peerChunkSize, completed, discarded>>

\* After its last chunk a message is complete: a chunk size takes effect, and
\* an ABORT ends the message under way on the stream it names.  The peer then
\* starts afresh there, with a full header.
PeerSendsLast(id) ==
  LET s == peerStreams[id]
      m == s.open[1]
      rest == Len(m.data) - s.ofs
      gone == IF m.type = "ABORT"
              THEN {t \in Target(m) : t # id /\ peerStreams[t].open # << >>} ELSE {}
  IN
  /\ s.open # << >>
  /\ rest <= peerChunkSize
  /\ \E h \in PeerHeaders(s) :
       /\ PeerWrites(id, h, rest)
       /\ peerStreams' = [t \in PeerIds |->
            IF t = id
            THEN [last |-> ContextOf(m), clock |-> ClockNow(s, h), open |-> << >>, ofs |-> 0]
            ELSE IF t \in gone THEN FreshStream
            ELSE peerStreams[t]]
       /\ completed' = Append(completed, [message |-> m, timed |-> Timed(ClockNow(s, h))])
  /\ peerChunkSize' = ChunkSizeAfter(m, peerChunkSize)
  /\ discarded' = (discarded \/ \E t \in gone : peerStreams[t].ofs > 0)

PeerNext ==
  \/ \E m \in PeerMessages : PeerBegins(m)
  \/ \E id \in PeerIds : PeerSendsPart(id) \/ PeerSendsLast(id)

Init == wire = << >> /\ link = "up" /\ InputInit /\ PeerInit

Input == InputNext /\ UNCHANGED peerVars

Next == Input \/ (PeerNext /\ UNCHANGED inputVars)

\* The receiving thread keeps calling; the peer may fall silent at any time.
Spec == Init /\ [][Next]_vars /\ WF_vars(Input)

-----------------------------------------------------------------------------
\* What the properties below leave aside: HandleMessage does not discard the
\* message that an ABORT cuts short, and what follows on its chunk stream is lost.
Undisturbed == ~discarded

\* The message m is what was completed, with its time where the headers tell it.
IsCompleted(m, c) ==
  m = IF c.timed THEN c.message ELSE [c.message EXCEPT !.ts = m.ts]

\* GetRTMPMessage returns the messages in the order in which their last chunks
\* arrived, each put together from its own chunks only.  The time is claimed but
\* for what TimestampsAsSent shows to be wrong.
Demultiplexed ==
  Undisturbed =>
    /\ Len(received) <= Len(completed)
    /\ \A i \in 1 .. Len(received) : IsCompleted(received[i], completed[i])

\* Every message is returned with the time it was sent with, also the one whose
\* format 3 header follows a full header.  It is not so.
TimestampsAsSent ==
  Undisturbed =>
    \A i \in 1 .. Len(received) :
      i <= Len(completed) => received[i].ts = completed[i].message.ts

\* The payload read is always the payload of the chunk just announced, and never
\* more than its message still lacks, however the chunk streams interleave.
StaysFramed ==
  Undisturbed =>
    /\ receiver # "desync"
    /\ \A id \in DOMAIN m_ChunkStreamsInput :
         Len(m_ChunkStreamsInput[id].bytes) <= m_ChunkStreamsInput[id].message_length

\* The message of a chunk stream fits the buffer the stream was given, although
\* GetRTMPMessage keeps one largest length for all of them: so it is as long as
\* one stream alone carries the longest messages (with two it is not so).
BufferHolds ==
  \A id \in DOMAIN m_ChunkStreamsInput :
    m_ChunkStreamsInput[id].message_length <= m_ChunkStreamsInput[id].size

\* With nothing in flight, what the receiver keeps of each unfinished message is
\* what the peer has sent of it; an ABORT of a message of which nothing was sent
\* yet, or of a stream at rest, does no harm.
PartialsMatch ==
  Undisturbed /\ wire = << >> /\ receiver = "reading" =>
    \A id \in DOMAIN m_ChunkStreamsInput :
      LET s == peerStreams[id] IN
      m_ChunkStreamsInput[id].bytes =
        IF s.open = << >> THEN << >> ELSE SubSeq(s.open[1].data, 1, s.ofs)

\* While the transport stands, receiving throws only on a message that is empty
\* or too short for its type.
ThrowsOnlyOnMalformed ==
  Undisturbed /\ receiver = "failed" =>
    \E i \in 1 .. Len(completed) :
      completed[i].message.data = << >> \/ Malformed(completed[i].message)

\* A receiver that is behind the peer catches up (the peer sends finitely many
\* messages), unless receiving throws.
CompletedArrive ==
  Len(received) < Len(completed) ~>
    (Len(received) = Len(completed) \/ receiver = "failed" \/ ~Undisturbed)

=============================================================================
