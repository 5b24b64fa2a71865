------------------------ MODULE EndpointDemux_proofs ------------------------
(***************************************************************************)
(* The safety properties of EndpointDemux, for any messages that a peer may *)
(* send, interleaved in any way.  The argument follows the chunks in        *)
(* flight: the receiver is where the peer was before it wrote the first of  *)
(* them, and each of them takes the receiver to where the peer was after    *)
(* writing it.                                                              *)
(***************************************************************************)
EXTENDS EndpointDemux, EndpointInput_proofs

-----------------------------------------------------------------------------
(* Types.                                                                   *)

Clock == [delta : {-1} \cup Nat, from : {"full", "delta", "repeated"}]

StreamRecord == [last : Context, clock : Clock, open : Seq(PeerMessages), ofs : Nat]

Entry == [message : PeerMessages, timed : BOOLEAN]

PeerChunk == [cs : PeerIds, hdr : Header, data : Seq(Byte)]

\* What is under way on a chunk stream is one message of it, not yet complete.
UnderWay(id, s) ==
  /\ s.open = << >> => s.ofs = 0
  /\ s.open # << >> =>
       /\ s.open = <<s.open[1]>> /\ s.open[1] \in PeerMessages /\ s.open[1].cs = id
       /\ s.ofs = 0 \/ s.ofs < Len(s.open[1].data)

PeerType ==
  /\ peerStreams \in [PeerIds -> StreamRecord]
  /\ \A id \in PeerIds : UnderWay(id, peerStreams[id])
  /\ peerChunkSize \in Nat \ {0}
  /\ completed \in Seq(Entry)
  /\ discarded \in BOOLEAN

DemuxType ==
  /\ InputType /\ DOMAIN m_ChunkStreamsInput \subseteq PeerIds
  /\ wire \in Seq(PeerChunk) /\ link = "up"
  /\ PeerType

LEMMA PeerMessage ==
  ASSUME NEW m \in PeerMessages
  PROVE  /\ m \in Message /\ m.cs \in PeerIds /\ m.cs \in ChunkStreamId
         /\ m.data \in Seq(Byte) /\ Len(m.data) \in Nat
         /\ m.ts \in Nat /\ m.ts < U24 /\ m.sid \in Nat /\ m.sid < U24
         /\ Expressible(m)
<1>1. m \in Message /\ m.sid < U24 /\ m.ts < U24 /\ Len(m.data) < U24
  BY PeerAssumption
<1>2. m.ts \in 0 .. U64 - 1 /\ m.sid \in 0 .. U32 - 1 /\ m.data \in Seq(Byte) /\ m.cs \in 0 .. 255
  BY <1>1 DEF Message
<1>3. m.ts \in Nat /\ m.sid \in Nat
  BY <1>2, Widths
<1> QED
  BY <1>1, <1>2, <1>3 DEF Expressible, PeerIds, ChunkStreamId

LEMMA PeerIdsType == PeerIds \subseteq ChunkStreamId
  BY PeerMessage DEF PeerIds

\* A chunk size is never 0.
LEMMA NextChunkSize ==
  ASSUME NEW m \in PeerMessages, NEW size \in Nat \ {0}
  PROVE  ChunkSizeAfter(m, size) \in Nat \ {0}
<1>1. CASE m.type = "SET_CHUNK_SIZE"
  <2>1. Len(m.data) = 4 /\ U32Value(m.data) > 0
    BY <1>1, PeerAssumption
  <2>2. U32Value(m.data) \in Nat
    <3>1. m.data \in Seq(Byte) /\ Len(m.data) >= 4
      BY <2>1, PeerMessage
    <3> QED
      BY <3>1, U32ValueType
  <2> QED
    BY <1>1, <2>1, <2>2 DEF ChunkSizeAfter
<1>2. CASE m.type # "SET_CHUNK_SIZE"
  BY <1>2 DEF ChunkSizeAfter
<1> QED
  BY <1>1, <1>2

LEMMA FreshType ==
  /\ FreshStream \in StreamRecord /\ FreshStream.last = NewContext
  /\ FreshStream.clock.from = "full" /\ FreshStream.open = << >> /\ FreshStream.ofs = 0
<1>1. << >> \in Seq(PeerMessages) /\ 0 \in Nat
  OBVIOUS
<1>2. [delta |-> -1, from |-> "full"] \in Clock
  BY DEF Clock
<1> QED
  BY <1>1, <1>2, NewContextType DEF FreshStream, StreamRecord

\* What one legal header may be.
LEMMA LegalCases ==
  ASSUME NEW s, NEW m, NEW h \in LegalHeaders(s, m)
  PROVE  \/ h = Header0(m)
         \/ h = Header1(s.last, m) /\ ContinuesStream(s.last, m)
         \/ h = Header2(s.last, m) /\ ContinuesStream(s.last, m) /\ RepeatsShape(s.last, m)
         \/ /\ h = Header3 /\ ContinuesStream(s.last, m) /\ RepeatsShape(s.last, m)
            /\ s.clock.delta = m.ts - s.last.timestamp
  BY DEF LegalHeaders

LEMMA HeaderNumbers ==
  ASSUME NEW ctx, NEW m
  PROVE  /\ Header0(m).fmt = 0 /\ Header1(ctx, m).fmt = 1
         /\ Header2(ctx, m).fmt = 2 /\ Header3.fmt = 3
         /\ Header0(m).ts = m.ts % U24
         /\ Header1(ctx, m).delta = (m.ts - ctx.timestamp) % U24
         /\ Header2(ctx, m).delta = (m.ts - ctx.timestamp) % U24
  BY DEF Header0, Header1, Header2, Header3

\* The clock after each of the headers.
LEMMA ClockCases ==
  ASSUME NEW clock \in Clock, NEW h
  PROVE  /\ h.fmt = 0 => /\ ClockAfter(clock, h).delta = h.ts
                        /\ ClockAfter(clock, h).from = "full"
         /\ h.fmt \in {1, 2} =>
              /\ ClockAfter(clock, h).delta = h.delta
              /\ ClockAfter(clock, h).from =
                   IF clock.from = "repeated" THEN "repeated" ELSE "delta"
         /\ h.fmt = 3 =>
              /\ ClockAfter(clock, h).delta = clock.delta
              /\ ClockAfter(clock, h).from =
                   IF clock.from = "full" THEN "repeated" ELSE clock.from
  BY DEF ClockAfter, Clock

LEMMA ClockType ==
  ASSUME NEW clock \in Clock, NEW h, h.fmt = 0 => h.ts \in Nat,
         h.fmt \in {1, 2} => h.delta \in Nat, h.fmt \in {0, 1, 2, 3}
  PROVE  ClockAfter(clock, h) \in Clock
<1>1. CASE h.fmt = 0
  BY <1>1 DEF ClockAfter, Clock
<1>2. CASE h.fmt \in {1, 2}
  BY <1>2 DEF ClockAfter, Clock
<1>3. CASE h.fmt = 3
  BY <1>3 DEF ClockAfter, Clock
<1> QED
  BY <1>1, <1>2, <1>3

LEMMA LegalTypes ==
  ASSUME NEW s \in StreamRecord, NEW m \in PeerMessages, NEW h \in LegalHeaders(s, m)
  PROVE  h \in Header /\ ClockAfter(s.clock, h) \in Clock
<1>1. s.last \in Context /\ s.clock \in Clock /\ m \in Message
  BY PeerMessage DEF StreamRecord
<1>2. h \in Header
  BY <1>1, LegalCases, HeaderTypes
<1>3. (m.ts - s.last.timestamp) % U24 \in Nat /\ m.ts % U24 \in Nat
  <2>1. m.ts - s.last.timestamp \in Int /\ m.ts \in Int
    BY <1>1 DEF Message, Context
  <2> QED
    BY <2>1, Mod24
<1>4. /\ h.fmt \in {0, 1, 2, 3}
      /\ h.fmt = 0 => h.ts \in Nat
      /\ h.fmt \in {1, 2} => h.delta \in Nat
  <2>1. h \in {Header0(m), Header1(s.last, m), Header2(s.last, m), Header3}
    BY LegalCases
  <2>2. /\ Header0(m).fmt = 0 /\ Header1(s.last, m).fmt = 1
        /\ Header2(s.last, m).fmt = 2 /\ Header3.fmt = 3
        /\ Header0(m).ts \in Nat
        /\ Header1(s.last, m).delta \in Nat /\ Header2(s.last, m).delta \in Nat
    BY <1>3, HeaderNumbers
  <2> QED
    BY ONLY <2>1, <2>2
<1> QED
  BY <1>1, <1>2, <1>4, ClockType

-----------------------------------------------------------------------------
(* What the peer has shown so far: of a message under way it is what is      *)
(* written, and a message of which nothing is written shows nothing.        *)

Shown(s) == IF s.ofs = 0 THEN [s EXCEPT !.open = << >>] ELSE s

PeerView ==
  [ streams |-> [id \in PeerIds |-> Shown(peerStreams[id])],
    size    |-> peerChunkSize,
    done    |-> Len(completed) ]

ViewStream(id, s) ==
  /\ s \in StreamRecord /\ UnderWay(id, s)
  /\ s.open # << >> => s.ofs > 0

View ==
  { v \in [streams : [PeerIds -> StreamRecord], size : Nat \ {0}, done : Nat] :
      \A id \in PeerIds : ViewStream(id, v.streams[id]) }

\* Writing chunk c of message m takes what is shown from v to w, log being the
\* messages completed.
WritesOf(v, c, w, m, log) ==
  LET s == v.streams[c.cs]
      rest == Len(m.data) - s.ofs
      clock == ClockNow(s, c.hdr)
  IN
  /\ m.cs = c.cs /\ s.open \in {<< >>, <<m>>}
  /\ IF s.ofs = 0 THEN c.hdr \in LegalHeaders(s, m) ELSE c.hdr = Header3
  /\ c.data = SubSeq(m.data, s.ofs + 1, s.ofs + Smaller(rest, v.size))
  /\ \/ /\ v.size < rest
        /\ w.streams[c.cs] =
             [last |-> s.last, clock |-> clock, open |-> <<m>>, ofs |-> s.ofs + v.size]
        /\ \A id \in PeerIds \ {c.cs} : w.streams[id] = v.streams[id]
        /\ w.size = v.size /\ w.done = v.done
     \/ /\ rest <= v.size
        /\ w.streams[c.cs] =
             [last |-> ContextOf(m), clock |-> clock, open |-> << >>, ofs |-> 0]
        /\ \A id \in PeerIds \ {c.cs} :
             \/ w.streams[id] = v.streams[id]
             \/ v.streams[id].open = << >> /\ w.streams[id] = FreshStream
        /\ w.size = ChunkSizeAfter(m, v.size) /\ w.done = v.done + 1
        /\ w.done <= Len(log) /\ log[w.done] = [message |-> m, timed |-> Timed(clock)]

Writes(v, c, w, log) == \E m \in PeerMessages : WritesOf(v, c, w, m, log)

\* What was completed stays so.
LEMMA WritesStable ==
  ASSUME NEW v, NEW c, NEW w, NEW m, NEW log \in Seq(Entry), NEW e \in Entry,
         WritesOf(v, c, w, m, log), w.done \in Nat, v.done \in Nat
  PROVE  WritesOf(v, c, w, m, Append(log, e))
<1> DEFINE longer == Append(log, e)
<1>1. Len(longer) = Len(log) + 1 /\ \A i \in 1 .. Len(log) : longer[i] = log[i]
  OBVIOUS
<1>2. w.done = v.done + 1 /\ w.done <= Len(log) =>
        w.done <= Len(longer) /\ longer[w.done] = log[w.done]
  <2> HIDE DEF longer
  <2> QED
    BY <1>1
<1> HIDE DEF longer
<1>3. WritesOf(v, c, w, m, longer)
  BY <1>2 DEF WritesOf
<1> QED
  BY <1>3 DEF longer

LEMMA ShownType ==
  ASSUME NEW id \in PeerIds, NEW s \in StreamRecord, UnderWay(id, s)
  PROVE  ViewStream(id, Shown(s))
<1>1. << >> \in Seq(PeerMessages)
  OBVIOUS
<1>2. CASE s.ofs = 0
  <2>1. Shown(s) = [s EXCEPT !.open = << >>]
    BY <1>2 DEF Shown
  <2>2. Shown(s) \in StreamRecord /\ Shown(s).open = << >> /\ Shown(s).ofs = 0
    BY <1>1, <1>2, <2>1 DEF StreamRecord
  <2> QED
    BY <2>2 DEF ViewStream, UnderWay
<1>3. CASE s.ofs # 0
  BY <1>3 DEF Shown, ViewStream, StreamRecord
<1> QED
  BY <1>2, <1>3

LEMMA PeerViewType ==
  ASSUME PeerType
  PROVE  /\ PeerView \in View
         /\ \A id \in PeerIds : PeerView.streams[id] = Shown(peerStreams[id])
         /\ PeerView.size = peerChunkSize /\ PeerView.done = Len(completed)
<1>1. \A id \in PeerIds : ViewStream(id, Shown(peerStreams[id]))
  BY ShownType DEF PeerType
<1>2. \A id \in PeerIds : Shown(peerStreams[id]) \in StreamRecord
  BY <1>1 DEF ViewStream
<1>3. PeerView \in [streams : [PeerIds -> StreamRecord], size : Nat \ {0}, done : Nat]
  BY <1>2 DEF PeerView, PeerType
<1>4. \A id \in PeerIds : PeerView.streams[id] = Shown(peerStreams[id])
  BY DEF PeerView
<1>5. PeerView.size = peerChunkSize /\ PeerView.done = Len(completed)
  BY DEF PeerView
<1> QED
  BY <1>1, <1>3, <1>4, <1>5 DEF View

-----------------------------------------------------------------------------
(* The receiver is where the peer was.                                      *)

\* The receiver's header fields are those of ctx, but for the time when timed is
\* FALSE.
Agree(cs, ctx, timed) ==
  /\ cs.message_length = ctx.message_length
  /\ cs.message_type = ctx.message_type
  /\ cs.message_stream_id = ctx.message_stream_id
  /\ timed => cs.timestamp = ctx.timestamp

\* A format 3 header will add what the peer means, when a delta came last.
DeltaKnown(cs, clock) == clock.from = "delta" => cs.timestamp_delta = clock.delta

\* Chunk stream cs of the receiver holds what the peer has shown on s.
Matches(cs, s) ==
  /\ DeltaKnown(cs, s.clock)
  /\ s.open = << >> => /\ cs.bytes = << >>
                       /\ s.last = NewContext \/ Agree(cs, s.last, Timed(s.clock))
  /\ s.open # << >> => /\ cs.bytes = SubSeq(s.open[1].data, 1, s.ofs)
                       /\ Agree(cs, ContextOf(s.open[1]), Timed(s.clock))

LastReceived == received[Len(received)]

ReceiverAt(v) ==
  /\ v.done = Len(received)
  /\ receiver = "reading" => v.size = m_ChunkSizeReceive
  /\ receiver = "returned" =>
       /\ v.size = ChunkSizeAfter(LastReceived, m_ChunkSizeReceive)
       /\ LastReceived.cs \in PeerIds /\ v.streams[LastReceived.cs].open = << >>
  /\ \A id \in PeerIds : Matches(GetChunkStreamInput(id), v.streams[id])

\* The chunks in flight lead from one view to another.
Leads(st) ==
  /\ st \in Seq(View) /\ Len(st) = Len(wire) + 1
  /\ \A i \in 1 .. Len(wire) : Writes(st[i], wire[i], st[i + 1], completed)
  /\ st[Len(wire) + 1] = PeerView

Connected == \E st : Leads(st) /\ ReceiverAt(st[1])

InOrder ==
  /\ Len(received) <= Len(completed)
  /\ \A i \in 1 .. Len(received) : IsCompleted(received[i], completed[i])

PartsFit ==
  \A id \in DOMAIN m_ChunkStreamsInput :
    Len(m_ChunkStreamsInput[id].bytes) <= m_ChunkStreamsInput[id].message_length

ThrownExplained ==
  receiver = "failed" =>
    \E i \in 1 .. Len(completed) :
      completed[i].message.data = << >> \/ Malformed(completed[i].message)

Sound ==
  /\ receiver # "desync" /\ InOrder /\ PartsFit /\ ThrownExplained
  /\ receiver # "failed" => Connected

DemuxInv == DemuxType /\ (Undisturbed => Sound)

-----------------------------------------------------------------------------
(* What the receiver makes of one chunk.                                    *)

\* No message continues a chunk stream that carried none.
LEMMA NothingToContinue ==
  ASSUME NEW m \in PeerMessages
  PROVE  ~ContinuesStream(NewContext, m)
<1>1. m.sid \in Nat /\ m.sid < U24
  BY PeerMessage
<1> QED
  BY <1>1, WidthAssumption DEF ContinuesStream, NewContext

\* Between messages that agree up to the time, any header keeps the agreement.
LEMMA ShapeRead ==
  ASSUME NEW in \in ChunkStream, NEW s \in StreamRecord, NEW m \in PeerMessages,
         NEW h \in LegalHeaders(s, m), h.fmt # 0,
         ContinuesStream(s.last, m), Agree(in, s.last, FALSE)
  PROVE  Agree(ApplyHeader(in, h), ContextOf(m), FALSE)
<1>1. m \in Message /\ Expressible(m)
  BY PeerMessage
<1>2. Len(m.data) % U24 = Len(m.data)
  BY <1>1, LengthKept
<1>3. in.message_stream_id = m.sid
  BY DEF Agree, ContinuesStream
<1>4. CASE h = Header1(s.last, m)
  <2> DEFINE out == ApplyHeader1(in, h)
  <2>1. ApplyHeader(in, h) = out /\ h.len = Len(m.data) /\ h.type = m.type
    BY <1>2, <1>4 DEF ApplyHeader, Header1
  <2>2. /\ out.message_length = h.len /\ out.message_type = h.type
        /\ out.message_stream_id = in.message_stream_id
    BY DEF ApplyHeader1, ApplyDelta, ChunkStream
  <2> HIDE DEF out
  <2> QED
    BY <1>1, <1>3, <2>1, <2>2, ContextFields DEF Agree
<1>5. CASE h \in {Header2(s.last, m), Header3} /\ RepeatsShape(s.last, m)
  <2>1. ApplyHeader(in, h) \in {ApplyDelta(in, h), ApplyHeader3(in)}
    BY <1>5 DEF ApplyHeader, Header2, Header3
  <2>2. \A out \in {ApplyDelta(in, h), ApplyHeader3(in)} :
          /\ out.message_length = in.message_length /\ out.message_type = in.message_type
          /\ out.message_stream_id = in.message_stream_id
    BY DEF ApplyDelta, ApplyHeader3, ChunkStream
  <2>3. in.message_length = Len(m.data) /\ in.message_type = m.type
    BY <1>5 DEF Agree, RepeatsShape
  <2> DEFINE out == ApplyHeader(in, h)
  <2>4. /\ out.message_length = Len(m.data) /\ out.message_type = m.type
        /\ out.message_stream_id = m.sid
    BY <1>3, <2>1, <2>2, <2>3
  <2> HIDE DEF out
  <2>5. Agree(out, ContextOf(m), FALSE)
    BY <1>1, <2>4, ContextFields DEF Agree
  <2> QED
    BY <2>5 DEF out
<1>6. \/ h = Header1(s.last, m)
      \/ h \in {Header2(s.last, m), Header3} /\ RepeatsShape(s.last, m)
  <2>1. h # Header0(m)
    BY HeaderNumbers
  <2> QED
    BY <2>1, LegalCases
<1> QED
  BY <1>4, <1>5, <1>6

LEMMA Header3Read ==
  ASSUME NEW in \in ChunkStream, NEW s \in StreamRecord, NEW m \in PeerMessages,
         Between(in), Agree(in, s.last, TRUE), in.timestamp_delta = s.clock.delta,
         ContinuesStream(s.last, m), RepeatsShape(s.last, m),
         s.clock.delta = m.ts - s.last.timestamp
  PROVE  /\ Agree(ApplyHeader(in, Header3), ContextOf(m), TRUE)
         /\ ApplyHeader(in, Header3).timestamp_delta = s.clock.delta
<1> DEFINE out == ApplyHeader3(in)
<1>1. ApplyHeader(in, Header3) = out
  BY DEF ApplyHeader, Header3
<1>2. /\ out.message_length = in.message_length /\ out.message_type = in.message_type
      /\ out.message_stream_id = in.message_stream_id
      /\ out.timestamp_delta = in.timestamp_delta
      /\ out.timestamp = (in.timestamp + in.timestamp_delta) % U64
  BY DEF ApplyHeader3, Advance, ChunkStream
<1>3. m \in Message /\ m.ts \in 0 .. U64 - 1 /\ U64 \in Nat \ {0}
  BY PeerMessage, ContextFields, Widths
<1>4. in.timestamp = s.last.timestamp /\ in.timestamp \in Int
  BY DEF Agree, ChunkStream
<1>5. in.timestamp + in.timestamp_delta = m.ts
  BY <1>3, <1>4
<1>6. out.timestamp = m.ts
  BY <1>2, <1>3, <1>5, SmallRemainder
<1> HIDE DEF out
<1>7. Agree(out, ContextOf(m), TRUE)
  BY <1>2, <1>3, <1>6, ContextFields DEF Agree, ContinuesStream, RepeatsShape
<1> QED
  BY <1>1, <1>2, <1>7

\* The delta that a first chunk leaves on the receiver.
LEMMA DeltaKept ==
  ASSUME NEW in \in ChunkStream, NEW h \in Header, h.fmt \in {1, 2}, Between(in)
  PROVE  ApplyHeader(in, h).timestamp_delta = h.delta
<1>1. ApplyHeader(in, h) = IF h.fmt = 1 THEN ApplyHeader1(in, h) ELSE ApplyDelta(in, h)
  BY DEF ApplyHeader
<1>2. ApplyDelta(in, h).timestamp_delta = h.delta
  BY DEF ApplyDelta, ChunkStream
<1>3. ApplyHeader1(in, h).timestamp_delta = h.delta
  BY DEF ApplyHeader1, ApplyDelta, ChunkStream
<1> QED
  BY <1>1, <1>2, <1>3

LEMMA AgreeExactly ==
  ASSUME NEW in, NEW ctx
  PROVE  Agree(in, ctx, TRUE) <=> SameFields(in, ctx, TRUE)
  BY DEF Agree, SameFields

\* The first chunk of a message brings its fields, in whichever legal format.
LEMMA FirstRead ==
  ASSUME NEW in \in ChunkStream, NEW s \in StreamRecord, NEW m \in PeerMessages,
         NEW h \in LegalHeaders(s, m), s.open = << >>, Matches(in, s)
  PROVE  LET clock == ClockAfter(s.clock, h)
             out == ApplyHeader(in, h)
         IN  Agree(out, ContextOf(m), Timed(clock)) /\ DeltaKnown(out, clock)
<1> DEFINE clock == ClockAfter(s.clock, h)
           out == ApplyHeader(in, h)
<1>1. /\ m \in Message /\ Expressible(m) /\ m.ts < U24
      /\ s.last \in Context /\ h \in Header /\ Between(in) /\ s.clock \in Clock
  BY PeerMessage, LegalTypes DEF StreamRecord, Matches, Between
<1>2. ContinuesStream(s.last, m) => Agree(in, s.last, Timed(s.clock))
  BY NothingToContinue DEF Matches
<1>3. Timed(s.clock) /\ ContinuesStream(s.last, m) => SameFields(in, s.last, TRUE)
  BY <1>2, AgreeExactly
<1>4. CASE h = Header0(m)
  <2>1. SameFields(out, ContextOf(m), TRUE)
    BY <1>1, <1>4, Header0Read
  <2>2. clock.from = "full"
    <3>1. h.fmt = 0
      BY <1>4, HeaderNumbers
    <3> QED
      BY <1>1, <3>1, ClockCases
  <2> HIDE DEF clock, out
  <2>3. Agree(out, ContextOf(m), Timed(clock))
    BY <2>1 DEF Agree, SameFields
  <2>4. DeltaKnown(out, clock)
    BY <2>2 DEF DeltaKnown
  <2> QED
    BY <2>3, <2>4 DEF clock, out
<1>5. CASE h # Header0(m) /\ ~Timed(clock)
  <2>1. h.fmt # 0 /\ ContinuesStream(s.last, m)
    BY <1>5, LegalCases, HeaderNumbers
  <2>2. Agree(in, s.last, FALSE)
    BY <1>2, <2>1 DEF Agree
  <2>3. Agree(out, ContextOf(m), FALSE)
    BY <2>1, <2>2, ShapeRead
  <2> HIDE DEF clock, out
  <2>4. DeltaKnown(out, clock)
    BY <1>5 DEF DeltaKnown, Timed
  <2>5. Agree(out, ContextOf(m), Timed(clock))
    BY <1>5, <2>3 DEF Agree
  <2> QED
    BY <2>4, <2>5 DEF clock, out
<1>6. CASE h # Header0(m) /\ Timed(clock)
  <2>1. CASE \/ h = Header1(s.last, m) /\ ContinuesStream(s.last, m)
             \/ /\ h = Header2(s.last, m) /\ ContinuesStream(s.last, m)
                /\ RepeatsShape(s.last, m)
    <3>1. h.fmt \in {1, 2}
      BY <2>1, HeaderNumbers
    <3>2. clock.delta = h.delta /\ Timed(s.clock)
      BY <1>1, <1>6, <3>1, ClockCases DEF Timed
    <3>3. SameFields(out, ContextOf(m), TRUE)
      BY <1>1, <1>3, <2>1, <3>2, Header1Read, Header2Read
    <3>4. out.timestamp_delta = h.delta
      BY <1>1, <3>1, DeltaKept
    <3> HIDE DEF clock, out
    <3>5. Agree(out, ContextOf(m), Timed(clock)) /\ DeltaKnown(out, clock)
      BY <3>2, <3>3, <3>4 DEF Agree, SameFields, DeltaKnown
    <3> QED
      BY <3>5 DEF clock, out
  <2>2. CASE /\ h = Header3 /\ ContinuesStream(s.last, m) /\ RepeatsShape(s.last, m)
             /\ s.clock.delta = m.ts - s.last.timestamp
    <3>1. s.clock.from = "delta" /\ clock.from = "delta" /\ clock.delta = s.clock.delta
      BY <1>1, <1>6, <2>2, HeaderNumbers, ClockCases DEF Timed, Clock
    <3>2. in.timestamp_delta = s.clock.delta /\ Agree(in, s.last, TRUE)
      BY <1>2, <2>2, <3>1 DEF Matches, DeltaKnown, Timed, Agree
    <3>3. /\ Agree(out, ContextOf(m), TRUE)
          /\ out.timestamp_delta = s.clock.delta
      BY <1>1, <2>2, <3>2, Header3Read
    <3> HIDE DEF clock, out
    <3>4. Agree(out, ContextOf(m), Timed(clock)) /\ DeltaKnown(out, clock)
      BY <3>1, <3>3 DEF Agree, DeltaKnown
    <3> QED
      BY <3>4 DEF clock, out
  <2> QED
    <3>1. \/ h = Header1(s.last, m) /\ ContinuesStream(s.last, m)
          \/ /\ h = Header2(s.last, m) /\ ContinuesStream(s.last, m)
             /\ RepeatsShape(s.last, m)
          \/ /\ h = Header3 /\ ContinuesStream(s.last, m) /\ RepeatsShape(s.last, m)
             /\ s.clock.delta = m.ts - s.last.timestamp
      BY <1>6, LegalCases
    <3> QED
      BY ONLY <2>1, <2>2, <3>1
<1> QED
  BY <1>4, <1>5, <1>6

\* The next part of a payload, and what it is put behind.
LEMMA NextPart ==
  ASSUME NEW d \in Seq(Byte), NEW p \in Nat, NEW n \in Nat, p + n <= Len(d)
  PROVE  /\ SubSeq(d, p + 1, p + n) \in Seq(Byte) /\ Len(SubSeq(d, p + 1, p + n)) = n
         /\ SubSeq(d, 1, p) \o SubSeq(d, p + 1, p + n) = SubSeq(d, 1, p + n)
<1> DEFINE a == p + 1
           b == p + n
<1>1. a \in Int /\ b \in Int /\ \A i \in a .. b : d[i] \in Byte
  OBVIOUS
<1>2. (IF a <= b THEN (b - a) + 1 ELSE 0) = n
  OBVIOUS
<1>3. 1 \in 1 .. Len(d) + 1 /\ p \in 1 - 1 .. Len(d) /\ b \in p .. Len(d)
  OBVIOUS
<1>4. SubSeq(d, 1, p) \o SubSeq(d, p + 1, b) = SubSeq(d, 1, b)
  <2> HIDE DEF b
  <2> QED
    BY <1>3, ConcatAdjacentSubSeq
<1> HIDE DEF a, b
<1>5. SubSeq(d, a, b) \in Seq(Byte) /\ Len(SubSeq(d, a, b)) = IF a <= b THEN (b - a) + 1 ELSE 0
  BY <1>1, SubSeqProperties
<1> QED
  BY <1>2, <1>4, <1>5 DEF a, b

\* What is left of a message and what a chunk of it carries.
LEMMA Remaining ==
  ASSUME NEW id \in PeerIds, NEW s, ViewStream(id, s), NEW m \in PeerMessages,
         s.open \in {<< >>, <<m>>}, NEW size \in Nat \ {0}
  PROVE  /\ s.ofs \in Nat /\ s.ofs <= Len(m.data)
         /\ s.ofs = 0 <=> s.open = << >>
         /\ s.ofs # 0 => s.open = <<m>> /\ s.ofs < Len(m.data)
         /\ Smaller(Len(m.data) - s.ofs, size) \in Nat
         /\ s.ofs + Smaller(Len(m.data) - s.ofs, size) <= Len(m.data)
         /\ Smaller(Len(m.data) - s.ofs, size) = 0 => Len(m.data) = 0
<1>1. Len(m.data) \in Nat /\ s.ofs \in Nat
  BY PeerMessage DEF ViewStream, StreamRecord
<1>2. s.open = << >> => s.ofs = 0
  BY DEF ViewStream, UnderWay
<1>3. s.open # << >> => s.open = <<m>> /\ s.ofs > 0 /\ s.ofs < Len(m.data)
  <2>1. s.open # << >> => s.open = <<m>> /\ s.open[1] = m
    OBVIOUS
  <2> QED
    BY <1>1, <2>1 DEF ViewStream, UnderWay
<1>4. s.ofs <= Len(m.data) /\ (s.ofs = 0 <=> s.open = << >>)
  BY <1>1, <1>2, <1>3
<1>5. \A x \in Nat : /\ Smaller(x, size) \in Nat /\ Smaller(x, size) <= x
                     /\ Smaller(x, size) = 0 => x = 0
  BY DEF Smaller
<1>6. Len(m.data) - s.ofs \in Nat
  BY <1>1, <1>4
<1> DEFINE n == Smaller(Len(m.data) - s.ofs, size)
<1>7. n \in Nat /\ n <= Len(m.data) - s.ofs /\ (n = 0 => Len(m.data) - s.ofs = 0)
  BY <1>5, <1>6
<1> HIDE DEF n
<1>8. n \in Nat /\ s.ofs + n <= Len(m.data) /\ (n = 0 => Len(m.data) = 0)
  BY <1>1, <1>3, <1>4, <1>7
<1> QED
  BY <1>1, <1>3, <1>4, <1>8 DEF n

\* The receiver's chunk stream once the headers of the chunk are read.
LEMMA HeadersRead ==
  ASSUME InputType, Readable(Incoming), NEW v \in View, NEW w, NEW m \in PeerMessages, NEW log,
         WritesOf(v, Incoming, w, m, log), Incoming.cs \in PeerIds,
         Matches(GetChunkStreamInput(Incoming.cs), v.streams[Incoming.cs])
  PROVE  LET s == v.streams[Incoming.cs] IN
         /\ Stream \in ChunkStream
         /\ Agree(Stream, ContextOf(m), Timed(ClockNow(s, Incoming.hdr)))
         /\ Stream.bytes = SubSeq(m.data, 1, s.ofs)
         /\ DeltaKnown(Stream, ClockNow(s, Incoming.hdr))
<1> DEFINE s == v.streams[Incoming.cs]
           in == GetChunkStreamInput(Incoming.cs)
           out == ApplyHeader(in, Incoming.hdr)
<1>1. in \in ChunkStream /\ Incoming.hdr \in Header
  BY StoredType DEF Readable
<1>2. out \in ChunkStream /\ out.bytes = in.bytes
  BY <1>1, ApplyHeaderType
<1>3. ViewStream(Incoming.cs, s) /\ s \in StreamRecord
  BY DEF View, ViewStream
<1>4. /\ s.open \in {<< >>, <<m>>} /\ Matches(in, s)
      /\ IF s.ofs = 0 THEN Incoming.hdr \in LegalHeaders(s, m) ELSE Incoming.hdr = Header3
  BY DEF WritesOf
<1>5. v.size \in Nat \ {0}
  BY DEF View
<1> HIDE DEF s, in, out
<1>6. (s.ofs = 0 <=> s.open = << >>) /\ (s.ofs # 0 => s.open = <<m>> /\ s.ofs < Len(m.data))
      /\ s.ofs \in Nat /\ s.ofs <= Len(m.data)
  BY <1>3, <1>4, <1>5, Remaining
<1> DEFINE clock == ClockNow(s, Incoming.hdr)
<1>7. /\ Agree(out, ContextOf(m), Timed(clock)) /\ in.bytes = SubSeq(m.data, 1, s.ofs)
      /\ DeltaKnown(out, clock)
  <2>0. /\ Len(m.data) \in Nat /\ m.data \in Seq(Byte)
        /\ Len(SubSeq(m.data, 1, s.ofs)) = s.ofs
        /\ (s.ofs = 0 <=> SubSeq(m.data, 1, s.ofs) = << >>)
    <3>1. m.data \in Seq(Byte) /\ Len(m.data) \in Nat
      BY PeerMessage
    <3>2. s.ofs \in 0 .. Len(m.data)
      BY <1>6, <3>1
    <3> DEFINE d == m.data
               p == s.ofs
    <3>3. d \in Seq(Byte) /\ p \in 0 .. Len(d)
      BY <3>1, <3>2
    <3> HIDE DEF d, p
    <3>4. Len(SubSeq(d, 1, p)) = p /\ (p = 0 <=> SubSeq(d, 1, p) = << >>)
      BY <3>3, PartLength
    <3> QED
      BY <3>1, <3>4 DEF d, p
  <2>1. CASE s.ofs = 0
    <3>0. clock = ClockAfter(s.clock, Incoming.hdr)
      BY <2>1 DEF ClockNow
    <3>1. /\ Agree(out, ContextOf(m), Timed(clock))
          /\ DeltaKnown(out, clock)
      BY <1>1, <1>3, <1>4, <1>6, <2>1, <3>0, FirstRead DEF out
    <3>2. in.bytes = << >>
      BY <1>4, <1>6, <2>1 DEF Matches
    <3> QED
      BY <2>0, <2>1, <3>1, <3>2
  <2>2. CASE s.ofs # 0
    <3>0. clock = s.clock
      BY <2>2 DEF ClockNow
    <3>1. s.open # << >> /\ s.open[1] = m /\ Incoming.hdr = Header3
      BY <1>4, <1>6, <2>2
    <3>2. /\ in.bytes = SubSeq(m.data, 1, s.ofs) /\ DeltaKnown(in, s.clock)
          /\ Agree(in, ContextOf(m), Timed(s.clock))
      BY <1>4, <3>1 DEF Matches
    <3>3. ~Between(in)
      BY <2>0, <2>2, <3>2 DEF Between
    <3>4. /\ out.message_length = in.message_length /\ out.message_type = in.message_type
          /\ out.message_stream_id = in.message_stream_id
          /\ out.timestamp = in.timestamp /\ out.timestamp_delta = in.timestamp_delta
      BY <1>1, <3>1, <3>3 DEF out, ApplyHeader, ApplyHeader3, Header3, ChunkStream
    <3> HIDE DEF clock
    <3> QED
      BY <3>0, <3>2, <3>4 DEF Agree, DeltaKnown
  <2> QED
    BY <2>1, <2>2
<1>8. Stream = Grown(out)
  BY DEF Stream, out, in
<1>9. /\ Stream \in ChunkStream /\ Stream.bytes = in.bytes
      /\ Stream.timestamp_delta = out.timestamp_delta
      /\ Agree(Stream, ContextOf(m), Timed(clock))
  BY <1>2, <1>7, <1>8, GrownFields DEF Agree
<1>10. DeltaKnown(Stream, clock)
  BY <1>7, <1>9 DEF DeltaKnown
<1> QED
  BY <1>7, <1>9, <1>10 DEF s

\* The payload read is the payload of the chunk, and lands where it belongs.
LEMMA ChunkRead ==
  ASSUME InputType, Readable(Incoming), NEW v \in View, NEW w, NEW m \in PeerMessages, NEW log,
         WritesOf(v, Incoming, w, m, log), Incoming.cs \in PeerIds,
         Matches(GetChunkStreamInput(Incoming.cs), v.streams[Incoming.cs]),
         v.size = m_ChunkSizeReceive
  PROVE  LET s == v.streams[Incoming.cs]
             n == Smaller(Len(m.data) - s.ofs, v.size)
         IN
         /\ Framed /\ ToReceive(Stream) = n
         /\ Completes(Stream) <=> s.ofs + n = Len(m.data)
         /\ Filled \in ChunkStream /\ Filled.bytes = SubSeq(m.data, 1, s.ofs + n)
         /\ Agree(Filled, ContextOf(m), Timed(ClockNow(s, Incoming.hdr)))
         /\ DeltaKnown(Filled, ClockNow(s, Incoming.hdr))
<1> DEFINE s == v.streams[Incoming.cs]
           p == s.ofs
           d == m.data
           n == Smaller(Len(d) - p, v.size)
           clock == ClockNow(s, Incoming.hdr)
<1>1. /\ Stream \in ChunkStream /\ Agree(Stream, ContextOf(m), Timed(clock))
      /\ Stream.bytes = SubSeq(d, 1, p)
      /\ DeltaKnown(Stream, clock)
  BY HeadersRead
<1>2. /\ p \in Nat /\ p <= Len(d) /\ n \in Nat /\ p + n <= Len(d)
      /\ d \in Seq(Byte) /\ Len(d) \in Nat /\ Len(d) < U24 /\ m \in Message
  <2>1. ViewStream(Incoming.cs, s) /\ v.size \in Nat \ {0}
    BY DEF View
  <2>2. s.open \in {<< >>, <<m>>}
    BY DEF WritesOf
  <2>3. /\ p \in Nat /\ p <= Len(m.data) /\ n \in Nat /\ p + n <= Len(m.data)
    <3> HIDE DEF s
    <3> QED
      BY <2>1, <2>2, Remaining
  <2> QED
    BY <2>3, PeerMessage DEF Expressible
<1>3. Incoming.data = SubSeq(d, p + 1, p + n)
  BY DEF WritesOf
<1>4. Filled \in ChunkStream
  BY FilledTyped
<1>5. /\ Filled.bytes = Stream.bytes \o Incoming.data
      /\ Filled.message_length = Stream.message_length
      /\ Filled.message_type = Stream.message_type
      /\ Filled.message_stream_id = Stream.message_stream_id
      /\ Filled.timestamp = Stream.timestamp
      /\ Filled.timestamp_delta = Stream.timestamp_delta
  BY <1>1 DEF Filled, ChunkStream
<1>6. DeltaKnown(Filled, clock)
  BY <1>1, <1>5 DEF DeltaKnown
<1>7. Agree(Filled, ContextOf(m), Timed(clock))
  BY <1>1, <1>5 DEF Agree
<1>8. Stream.message_length = Len(d)
  BY <1>1, <1>2, ContextFields DEF Agree
<1> HIDE DEF clock
<1>9. n = Smaller(Len(d) - p, m_ChunkSizeReceive)
  OBVIOUS
<1> HIDE DEF n, d, p, s
<1>10. Len(Incoming.data) = n /\ Filled.bytes = SubSeq(d, 1, p + n)
  <2>1. /\ Len(SubSeq(d, p + 1, p + n)) = n
        /\ SubSeq(d, 1, p) \o SubSeq(d, p + 1, p + n) = SubSeq(d, 1, p + n)
    BY <1>2, NextPart
  <2> QED
    BY <1>1, <1>3, <1>5, <2>1
<1>11. Len(Stream.bytes) = p
  BY <1>1, <1>2, PartLength
<1>12. ToReceive(Stream) = n
  <2>1. Len(d) - p \in 0 .. U64 - 1 /\ U64 \in Nat \ {0}
    BY <1>2, Widths
  <2>2. (Len(d) - p) % U64 = Len(d) - p
    BY <2>1, SmallRemainder
  <2> QED
    BY <1>8, <1>9, <1>11, <2>2 DEF ToReceive
<1>13. Framed
  BY <1>10, <1>12 DEF Framed
<1>14. Completes(Stream) <=> p + n = Len(d)
  BY <1>8, <1>11, <1>12 DEF Completes
<1> QED
  BY <1>4, <1>6, <1>7, <1>10, <1>12, <1>13, <1>14 DEF n, d, p, s, clock

\* A new chunk stream matches whatever its buffer is, and one at rest a peer that
\* starts afresh.
LEMMA NewMatches ==
  ASSUME NEW a, NEW b, NEW s, Matches(NewChunkStream(a), s)
  PROVE  Matches(NewChunkStream(b), s)
  BY DEF Matches, NewChunkStream, Agree, DeltaKnown

LEMMA FreshMatches ==
  ASSUME NEW in, NEW s, Matches(in, s), s.open = << >>
  PROVE  Matches(in, FreshStream)
  BY FreshType DEF Matches, DeltaKnown

\* Storing one chunk stream leaves the others what they were.
LEMMA StoredMatches ==
  ASSUME NEW v, NEW w, NEW cs, NEW id \in PeerIds,
         m_ChunkStreamsInput' = Put(m_ChunkStreamsInput, id, cs),
         \A t \in PeerIds : Matches(GetChunkStreamInput(t), v.streams[t]),
         \A t \in PeerIds \ {id} :
           \/ w.streams[t] = v.streams[t]
           \/ v.streams[t].open = << >> /\ w.streams[t] = FreshStream,
         Matches(cs, w.streams[id])
  PROVE  \A t \in PeerIds : Matches(GetChunkStreamInput(t)', w.streams[t])
<1>1. /\ DOMAIN m_ChunkStreamsInput' = DOMAIN m_ChunkStreamsInput \cup {id}
      /\ m_ChunkStreamsInput'[id] = cs
      /\ \A t \in DOMAIN m_ChunkStreamsInput : t # id =>
           m_ChunkStreamsInput'[t] = m_ChunkStreamsInput[t]
  BY DEF Put
<1>2. GetChunkStreamInput(id)' = cs
  BY <1>1 DEF GetChunkStreamInput
<1>3. ASSUME NEW t \in PeerIds, t # id
      PROVE  Matches(GetChunkStreamInput(t)', v.streams[t])
  <2>1. CASE t \in DOMAIN m_ChunkStreamsInput
    BY <1>1, <1>3, <2>1 DEF GetChunkStreamInput
  <2>2. CASE t \notin DOMAIN m_ChunkStreamsInput
    <3>1. /\ GetChunkStreamInput(t) = NewChunkStream(m_MaxMessageSize)
          /\ GetChunkStreamInput(t)' = NewChunkStream(m_MaxMessageSize')
      BY <1>1, <1>3, <2>2 DEF GetChunkStreamInput, NewChunkStream
    <3>2. Matches(NewChunkStream(m_MaxMessageSize), v.streams[t])
      BY <3>1
    <3> QED
      BY <3>1, <3>2, NewMatches
  <2> QED
    BY <2>1, <2>2
<1>4. ASSUME NEW t \in PeerIds, t # id
      PROVE  Matches(GetChunkStreamInput(t)', w.streams[t])
  <2>1. CASE w.streams[t] = v.streams[t]
    BY <1>3, <1>4, <2>1
  <2>2. CASE v.streams[t].open = << >> /\ w.streams[t] = FreshStream
    BY <1>3, <1>4, <2>2, FreshMatches
  <2> QED
    BY <1>4, <2>1, <2>2
<1> QED
  BY <1>2, <1>4

\* A chunk that leaves its message incomplete.
LEMMA PartRead ==
  ASSUME InputType, Readable(Incoming), Incoming.cs \in PeerIds,
         NEW v \in View, NEW w \in View, NEW m \in PeerMessages, NEW log,
         WritesOf(v, Incoming, w, m, log), ReceiverAt(v), ReceivePart
  PROVE  ReceiverAt(w)'
<1> DEFINE s == v.streams[Incoming.cs]
           n == Smaller(Len(m.data) - s.ofs, v.size)
           clock == ClockNow(s, Incoming.hdr)
<1>1. /\ receiver = "reading" /\ v.size = m_ChunkSizeReceive /\ v.done = Len(received)
      /\ \A t \in PeerIds : Matches(GetChunkStreamInput(t), v.streams[t])
  BY DEF ReceivePart, ReadHeaders, ReceiverAt
<1>2. /\ Completes(Stream) <=> s.ofs + n = Len(m.data)
      /\ Filled \in ChunkStream /\ Filled.bytes = SubSeq(m.data, 1, s.ofs + n)
      /\ Agree(Filled, ContextOf(m), Timed(clock))
      /\ DeltaKnown(Filled, clock)
  BY <1>1, ChunkRead
<1>3. ~Completes(Stream)
  BY DEF ReceivePart
<1>4. s.ofs \in Nat /\ Len(m.data) \in Nat /\ v.size \in Nat
  BY PeerMessage DEF View, ViewStream, StreamRecord
<1>5. ~(Len(m.data) - s.ofs <= v.size) /\ n = v.size
  <2> HIDE DEF s
  <2> QED
    BY <1>2, <1>3, <1>4 DEF Smaller
<1>6. /\ w.streams[Incoming.cs] =
           [last |-> s.last, clock |-> clock, open |-> <<m>>, ofs |-> s.ofs + v.size]
      /\ \A t \in PeerIds \ {Incoming.cs} : w.streams[t] = v.streams[t]
      /\ w.size = v.size /\ w.done = v.done
  BY <1>5 DEF WritesOf
<1>7. Matches(Filled, w.streams[Incoming.cs])
  <2> HIDE DEF s, n, clock
  <2>1. /\ w.streams[Incoming.cs].clock = clock /\ w.streams[Incoming.cs].open = <<m>>
        /\ w.streams[Incoming.cs].ofs = s.ofs + n
    BY <1>5, <1>6
  <2>2. <<m>> # << >> /\ <<m>>[1] = m
    OBVIOUS
  <2> QED
    BY <1>2, <2>1, <2>2 DEF Matches
<1>8. m_ChunkStreamsInput' = Put(m_ChunkStreamsInput, Incoming.cs, Filled)
  BY DEF ReceivePart
<1>9. \A t \in PeerIds : Matches(GetChunkStreamInput(t)', w.streams[t])
  <2> DEFINE cs == Filled
             id == Incoming.cs
  <2> HIDE DEF cs, id
  <2>1. /\ m_ChunkStreamsInput' = Put(m_ChunkStreamsInput, id, cs) /\ id \in PeerIds
        /\ Matches(cs, w.streams[id])
        /\ \A t \in PeerIds \ {id} : w.streams[t] = v.streams[t]
    BY <1>6, <1>7, <1>8 DEF cs, id
  <2> QED
    BY <1>1, <2>1, StoredMatches
<1>10. receiver' = "reading" /\ received' = received /\ m_ChunkSizeReceive' = m_ChunkSizeReceive
  BY <1>1 DEF ReceivePart, ReadHeaders
<1> QED
  BY <1>1, <1>6, <1>9, <1>10 DEF ReceiverAt

\* A chunk that completes its message, also one without payload.
LEMMA LastChunk ==
  ASSUME InputType, Readable(Incoming), Incoming.cs \in PeerIds,
         NEW v \in View, NEW w \in View, NEW m \in PeerMessages, NEW log,
         WritesOf(v, Incoming, w, m, log), ReceiverAt(v), receiver = "reading",
         Completes(Stream)
  PROVE  LET clock == ClockNow(v.streams[Incoming.cs], Incoming.hdr) IN
         /\ w.streams[Incoming.cs] =
              [last |-> ContextOf(m), clock |-> clock, open |-> << >>, ofs |-> 0]
         /\ \A id \in PeerIds \ {Incoming.cs} :
              \/ w.streams[id] = v.streams[id]
              \/ v.streams[id].open = << >> /\ w.streams[id] = FreshStream
         /\ w.size = ChunkSizeAfter(m, v.size) /\ w.done = v.done + 1
         /\ w.done <= Len(log) /\ log[w.done] = [message |-> m, timed |-> Timed(clock)]
         /\ Filled \in ChunkStream /\ Filled.bytes = m.data
         /\ Agree(Filled, ContextOf(m), Timed(clock))
         /\ DeltaKnown(Filled, clock)
<1> DEFINE s == v.streams[Incoming.cs]
           n == Smaller(Len(m.data) - s.ofs, v.size)
           clock == ClockNow(s, Incoming.hdr)
<1>1. /\ v.size = m_ChunkSizeReceive
      /\ Matches(GetChunkStreamInput(Incoming.cs), v.streams[Incoming.cs])
  BY DEF ReceiverAt
<1>2. /\ s.ofs + n = Len(m.data)
      /\ Filled \in ChunkStream /\ Filled.bytes = SubSeq(m.data, 1, s.ofs + n)
      /\ Agree(Filled, ContextOf(m), Timed(clock))
      /\ DeltaKnown(Filled, clock)
  BY <1>1, ChunkRead
<1>3. s.ofs \in Nat /\ Len(m.data) \in Nat /\ v.size \in Nat
  BY PeerMessage DEF View, ViewStream, StreamRecord
<1>4. ~(v.size < Len(m.data) - s.ofs)
  <2> HIDE DEF s
  <2> QED
    BY <1>2, <1>3 DEF Smaller
<1>5. Filled.bytes = m.data
  <2>1. SubSeq(m.data, 1, Len(m.data)) = m.data
    BY PeerMessage, SubSeqFull
  <2> QED
    BY <1>2, <2>1
<1> QED
  BY <1>2, <1>4, <1>5 DEF WritesOf

LEMMA LastRead ==
  ASSUME InputType, Readable(Incoming), Incoming.cs \in PeerIds,
         NEW v \in View, NEW w \in View, NEW m \in PeerMessages, NEW log,
         WritesOf(v, Incoming, w, m, log), ReceiverAt(v), ReceiveLast
  PROVE  /\ ReceiverAt(w)'
         /\ Len(received) + 1 <= Len(log)
         /\ \E r \in Message : /\ received' = Append(received, r)
                              /\ IsCompleted(r, log[Len(received) + 1])
<1> DEFINE s == v.streams[Incoming.cs]
           clock == ClockNow(s, Incoming.hdr)
           cs == [Filled EXCEPT !.bytes = << >>]
           id == Incoming.cs
           r == MessageOf(id, Filled)
           entry == [message |-> m, timed |-> Timed(clock)]
<1>1. /\ receiver = "reading" /\ Completes(Stream) /\ v.done = Len(received)
      /\ \A t \in PeerIds : Matches(GetChunkStreamInput(t), v.streams[t])
  BY DEF ReceiveLast, ReadHeaders, ReceiverAt
<1>2. /\ w.streams[id] = [last |-> ContextOf(m), clock |-> clock, open |-> << >>, ofs |-> 0]
      /\ \A t \in PeerIds \ {id} :
           \/ w.streams[t] = v.streams[t]
           \/ v.streams[t].open = << >> /\ w.streams[t] = FreshStream
      /\ w.size = ChunkSizeAfter(m, v.size) /\ w.done = v.done + 1
      /\ w.done <= Len(log) /\ log[w.done] = [message |-> m, timed |-> Timed(clock)]
      /\ Filled \in ChunkStream /\ Filled.bytes = m.data
      /\ Agree(Filled, ContextOf(m), Timed(clock))
      /\ DeltaKnown(Filled, clock)
  BY <1>1, LastChunk
<1>3. /\ r \in Message /\ r.cs = m.cs /\ r.type = m.type /\ r.data = m.data
      /\ IsCompleted(r, entry)
  <2>1. m \in Message /\ m.cs = Incoming.cs
    BY PeerMessage DEF WritesOf
  <2>2. /\ Filled.message_stream_id = m.sid /\ Filled.message_type = m.type
        /\ Timed(clock) => Filled.timestamp = m.ts
    BY <1>2, <2>1, ContextFields DEF Agree
  <2>3. r = [cs |-> m.cs, sid |-> m.sid, type |-> m.type, ts |-> Filled.timestamp, data |-> m.data]
    BY <1>2, <2>1, <2>2 DEF MessageOf
  <2>4. /\ m = [cs |-> m.cs, sid |-> m.sid, type |-> m.type, ts |-> m.ts, data |-> m.data]
        /\ [m EXCEPT !.ts = Filled.timestamp] =
             [cs |-> m.cs, sid |-> m.sid, type |-> m.type, ts |-> Filled.timestamp, data |-> m.data]
    BY <2>1 DEF Message
  <2>5. Filled.timestamp \in 0 .. U64 - 1
    BY <1>2 DEF ChunkStream
  <2>6. entry.message = m /\ entry.timed = Timed(clock)
    OBVIOUS
  <2>7. r \in Message
    BY <2>1, <2>3, <2>5 DEF Message
  <2>8. r.ts = Filled.timestamp
    BY <2>3
  <2> HIDE DEF r, entry, clock
  <2>9. IsCompleted(r, entry)
    BY <2>2, <2>3, <2>4, <2>6, <2>8 DEF IsCompleted
  <2> QED
    BY <2>3, <2>7, <2>9
<1>4. received' = Append(received, r) /\ receiver' = "returned"
      /\ m_ChunkSizeReceive' = m_ChunkSizeReceive
      /\ m_ChunkStreamsInput' = Put(m_ChunkStreamsInput, id, cs)
  BY DEF ReceiveLast, ReadHeaders
<1> HIDE DEF r
<1>5. Len(received') = Len(received) + 1 /\ received'[Len(received')] = r
  <2>1. received \in Seq(Message)
    BY DEF InputType
  <2> QED
    BY <1>3, <1>4, <2>1
<1>6. Matches(cs, w.streams[id])
  <2>1. /\ cs.bytes = << >> /\ DeltaKnown(cs, clock)
        /\ Agree(cs, ContextOf(m), Timed(clock))
    <3>1. /\ cs.bytes = << >> /\ cs.timestamp_delta = Filled.timestamp_delta
          /\ cs.message_length = Filled.message_length /\ cs.message_type = Filled.message_type
          /\ cs.message_stream_id = Filled.message_stream_id /\ cs.timestamp = Filled.timestamp
      BY <1>2 DEF ChunkStream
    <3> HIDE DEF cs, clock
    <3> QED
      BY <1>2, <3>1 DEF Agree, DeltaKnown
  <2> HIDE DEF cs, clock, id
  <2>2. /\ w.streams[id].clock = clock /\ w.streams[id].open = << >>
        /\ w.streams[id].last = ContextOf(m)
    BY <1>2
  <2> QED
    BY <1>2, <2>1, <2>2 DEF Matches
<1>7. id \in PeerIds /\ w.streams[id].open = << >> /\ m.cs = id
  BY <1>2 DEF WritesOf
<1> HIDE DEF cs, id
<1>8. \A t \in PeerIds : Matches(GetChunkStreamInput(t)', w.streams[t])
  BY <1>1, <1>2, <1>4, <1>6, <1>7, StoredMatches
<1>9. w.size = ChunkSizeAfter(r, m_ChunkSizeReceive)
  BY <1>1, <1>2, <1>3 DEF ReceiverAt, ChunkSizeAfter
<1> HIDE DEF s, clock
<1> QED
  <2>1. ReceiverAt(w)'
    BY <1>1, <1>2, <1>3, <1>4, <1>5, <1>7, <1>8, <1>9 DEF ReceiverAt, LastReceived
  <2> QED
    BY <1>1, <1>2, <1>3, <1>4, <2>1

\* A chunk of which nothing is read is that of an empty message.
LEMMA NothingRead ==
  ASSUME InputType, Readable(Incoming), Incoming.cs \in PeerIds,
         NEW v \in View, NEW w \in View, NEW m \in PeerMessages, NEW log,
         WritesOf(v, Incoming, w, m, log), ReceiverAt(v), ReceiveNothing
  PROVE  \E i \in 1 .. Len(log) : log[i].message.data = << >>
<1> DEFINE s == v.streams[Incoming.cs]
           n == Smaller(Len(m.data) - s.ofs, v.size)
<1>1. receiver = "reading" /\ ToReceive(Stream) = 0 /\ v.size = m_ChunkSizeReceive
      /\ Matches(GetChunkStreamInput(Incoming.cs), v.streams[Incoming.cs])
  BY DEF ReceiveNothing, ReadHeaders, ReceiverAt
<1>2. n = 0
  BY <1>1, ChunkRead
<1>3. s.ofs \in Nat /\ s.ofs <= Len(m.data) /\ Len(m.data) = 0
  <2>1. ViewStream(Incoming.cs, s) /\ s.open \in {<< >>, <<m>>} /\ v.size \in Nat \ {0}
    BY DEF View, WritesOf
  <2>2. /\ s.ofs \in Nat /\ s.ofs <= Len(m.data) /\ (n = 0 => Len(m.data) = 0)
    <3> HIDE DEF s
    <3> QED
      BY <2>1, Remaining
  <2> QED
    BY <1>2, <2>2
<1>4. w.done = v.done + 1 /\ w.done <= Len(log) /\ log[w.done].message = m
  <2>1. ~(v.size < Len(m.data) - s.ofs)
    <3>1. v.size \in Nat \ {0}
      BY DEF View
    <3> HIDE DEF s, n
    <3> QED
      BY <1>3, <3>1
  <2> QED
    BY <2>1 DEF WritesOf
<1>5. v.done \in Nat /\ m.data \in Seq(Byte)
  BY PeerMessage DEF View
<1>6. m.data = << >>
  BY <1>3, <1>5, EmptySeq
<1>7. w.done \in 1 .. Len(log)
  BY <1>4, <1>5
<1> QED
  BY <1>4, <1>6, <1>7

-----------------------------------------------------------------------------
(* The receiver's steps.                                                    *)

LEMMA FirstLink ==
  ASSUME DemuxType, NEW st, Leads(st), wire # << >>
  PROVE  /\ Readable(Incoming) /\ Incoming.cs \in PeerIds
         /\ st[1] \in View /\ st[2] \in View
         /\ \E m \in PeerMessages : WritesOf(st[1], Incoming, st[2], m, completed)
<1>1. wire \in Seq(PeerChunk)
  BY DEF DemuxType
<1>2. Len(wire) \in Nat /\ Len(wire) > 0 /\ Incoming = wire[1] /\ wire[1] \in PeerChunk
  BY <1>1, EmptySeq DEF Incoming
<1>3. Readable(Incoming) /\ Incoming.cs \in PeerIds
  BY <1>2, PeerIdsType DEF Readable, PeerChunk
<1>4. st \in Seq(View) /\ Len(st) = Len(wire) + 1
  BY DEF Leads
<1>5. st[1] \in View /\ st[2] \in View
  BY <1>2, <1>4
<1>6. Writes(st[1], wire[1], st[2], completed)
  BY <1>2 DEF Leads
<1> QED
  BY <1>2, <1>3, <1>5, <1>6 DEF Writes

\* Once a chunk is read, the rest of the chunks lead on from where it led.
LEMMA TailLeads ==
  ASSUME DemuxType, NEW st, Leads(st), wire # << >>, wire' = Tail(wire), UNCHANGED peerVars
  PROVE  Leads(Tail(st))' /\ Tail(st)[1] = st[2]
<1>1. wire \in Seq(PeerChunk) /\ Len(wire) \in Nat /\ Len(wire) > 0
  BY EmptySeq DEF DemuxType
<1>2. st \in Seq(View) /\ Len(st) = Len(wire) + 1 /\ st # << >>
  BY <1>1 DEF Leads
<1>3. Len(wire') = Len(wire) - 1 /\ \A i \in 1 .. Len(wire) - 1 : wire'[i] = wire[i + 1]
  BY <1>1, HeadTailProperties
<1>4. /\ Tail(st) \in Seq(View) /\ Len(Tail(st)) = Len(wire)
      /\ \A i \in 1 .. Len(wire) : Tail(st)[i] = st[i + 1]
  BY <1>1, <1>2, HeadTailProperties
<1>5. completed' = completed /\ PeerView' = PeerView
  BY DEF peerVars, PeerView
<1> DEFINE rest == Tail(st)
<1>6. rest \in Seq(View) /\ Len(rest) = Len(wire') + 1
  BY <1>1, <1>3, <1>4
<1>7. ASSUME NEW i \in 1 .. Len(wire')
      PROVE  Writes(rest[i], wire'[i], rest[i + 1], completed')
  <2>1. i + 1 \in 1 .. Len(wire) /\ i \in 1 .. Len(wire) /\ i \in 1 .. Len(wire) - 1
    BY <1>1, <1>3
  <2>2. Writes(st[i + 1], wire[i + 1], st[(i + 1) + 1], completed)
    BY <2>1 DEF Leads
  <2>3. rest[i] = st[i + 1] /\ rest[i + 1] = st[(i + 1) + 1] /\ wire'[i] = wire[i + 1]
    BY <1>3, <1>4, <2>1
  <2> QED
    BY <1>5, <2>2, <2>3
<1>8. rest[Len(wire') + 1] = PeerView'
  <2>1. Len(wire') + 1 = Len(wire) /\ Len(wire) \in 1 .. Len(wire)
    BY <1>1, <1>3
  <2>2. rest[Len(wire)] = st[Len(wire) + 1]
    BY <1>4, <2>1
  <2> QED
    BY <1>5, <2>1, <2>2 DEF Leads
<1>9. rest[1] = st[2]
  BY <1>1, <1>4
<1> HIDE DEF rest
<1>10. Leads(rest)'
  BY <1>6, <1>7, <1>8 DEF Leads
<1> QED
  BY <1>9, <1>10 DEF rest

LEMMA StoredFits ==
  ASSUME PartsFit, NEW id, NEW cs, Len(cs.bytes) <= cs.message_length,
         m_ChunkStreamsInput' = Put(m_ChunkStreamsInput, id, cs)
  PROVE  PartsFit'
<1>1. /\ DOMAIN m_ChunkStreamsInput' = DOMAIN m_ChunkStreamsInput \cup {id}
      /\ \A t \in DOMAIN m_ChunkStreamsInput' :
           m_ChunkStreamsInput'[t] = IF t = id THEN cs ELSE m_ChunkStreamsInput[t]
  BY DEF Put
<1> QED
  BY <1>1 DEF PartsFit

\* What is read of a message is never longer than the message.
LEMMA PartsOfMessage ==
  ASSUME InputType, Readable(Incoming), Incoming.cs \in PeerIds,
         NEW v \in View, NEW w, NEW m \in PeerMessages, NEW log,
         WritesOf(v, Incoming, w, m, log), ReceiverAt(v), receiver = "reading"
  PROVE  /\ Len(Stream.bytes) <= Stream.message_length
         /\ Len(Filled.bytes) <= Filled.message_length
         /\ Framed
<1> DEFINE s == v.streams[Incoming.cs]
           n == Smaller(Len(m.data) - s.ofs, v.size)
           clock == ClockNow(s, Incoming.hdr)
<1>1. v.size = m_ChunkSizeReceive /\ Matches(GetChunkStreamInput(Incoming.cs), s)
  BY DEF ReceiverAt
<1>2. /\ s.ofs \in Nat /\ s.ofs <= Len(m.data) /\ n \in Nat /\ s.ofs + n <= Len(m.data)
  <2>1. ViewStream(Incoming.cs, s) /\ s.open \in {<< >>, <<m>>} /\ v.size \in Nat \ {0}
    BY DEF View, WritesOf
  <2> HIDE DEF s
  <2> QED
    BY <2>1, Remaining
<1>3. Agree(Stream, ContextOf(m), Timed(clock)) /\ Stream.bytes = SubSeq(m.data, 1, s.ofs)
  BY <1>1, HeadersRead
<1>4. /\ Framed /\ Filled.bytes = SubSeq(m.data, 1, s.ofs + n)
      /\ Agree(Filled, ContextOf(m), Timed(clock))
  BY <1>1, ChunkRead
<1>5. Stream.message_length = Len(m.data) /\ Filled.message_length = Len(m.data)
  BY <1>3, <1>4, PeerMessage, ContextFields DEF Agree
<1>6. \A p \in 0 .. Len(m.data) : Len(SubSeq(m.data, 1, p)) = p
  BY PeerMessage, PartLength
<1> HIDE DEF s, n
<1>7. Len(m.data) \in Nat
  BY PeerMessage
<1> QED
  BY <1>2, <1>3, <1>4, <1>5, <1>6, <1>7

LEMMA ConnectedNow ==
  ASSUME NEW st, NEW v, Leads(st)', ReceiverAt(v)', st[1] = v
  PROVE  Connected'
  BY DEF Connected

LEMMA ReceiveSound ==
  ASSUME DemuxType, Sound, ReceiveChunk, UNCHANGED peerVars
  PROVE  Sound'
<1>1. /\ receiver = "reading" /\ wire # << >> /\ wire' = Tail(wire)
      /\ InputType /\ InOrder /\ PartsFit /\ Connected
      /\ m_ChunkSizeReceive' = m_ChunkSizeReceive /\ completed' = completed
  BY DEF ReceiveChunk, ReceivePart, ReceiveLast, ReceiveNothing, LoseFraming, ReadHeaders,
         Sound, DemuxType, peerVars
<1>2. PICK st : Leads(st) /\ ReceiverAt(st[1])
  BY <1>1 DEF Connected
<1>3. /\ Readable(Incoming) /\ Incoming.cs \in PeerIds /\ st[1] \in View /\ st[2] \in View
  BY <1>1, <1>2, FirstLink
<1>4. PICK m \in PeerMessages : WritesOf(st[1], Incoming, st[2], m, completed)
  BY <1>1, <1>2, FirstLink
<1>5. /\ Len(Stream.bytes) <= Stream.message_length
      /\ Len(Filled.bytes) <= Filled.message_length /\ Framed
  BY <1>1, <1>2, <1>3, <1>4, PartsOfMessage
<1>6. PICK rest : Leads(rest)' /\ rest[1] = st[2]
  BY <1>1, <1>2, TailLeads
<1>7. ASSUME ReceiverAt(st[2])'
      PROVE  Connected'
  BY <1>6, <1>7, ConnectedNow
<1>8. CASE ReceivePart
  <2>1. ReceiverAt(st[2])'
    BY <1>1, <1>2, <1>3, <1>4, <1>8, PartRead
  <2>2. receiver' = "reading" /\ received' = received
        /\ m_ChunkStreamsInput' = Put(m_ChunkStreamsInput, Incoming.cs, Filled)
    BY <1>1, <1>8 DEF ReceivePart
  <2>3. PartsFit'
    BY <1>1, <1>5, <2>2, StoredFits
  <2>4. InOrder'
    BY <1>1, <2>2 DEF InOrder
  <2> QED
    BY <1>7, <2>1, <2>2, <2>3, <2>4 DEF Sound, ThrownExplained
<1>9. CASE ReceiveLast
  <2>0. ReceiverAt(st[2])' /\ Len(received) + 1 <= Len(completed)
    BY <1>1, <1>2, <1>3, <1>4, <1>9, LastRead
  <2>1. PICK r \in Message : /\ received' = Append(received, r)
                            /\ IsCompleted(r, completed[Len(received) + 1])
    BY <1>1, <1>2, <1>3, <1>4, <1>9, LastRead
  <2> DEFINE cs == [Filled EXCEPT !.bytes = << >>]
  <2>2. receiver' = "returned"
        /\ m_ChunkStreamsInput' = Put(m_ChunkStreamsInput, Incoming.cs, cs)
    BY <1>9 DEF ReceiveLast
  <2>3. cs.bytes = << >> /\ cs.message_length \in Nat
    BY <1>1, <1>3, FilledTyped DEF ChunkStream
  <2>4. Len(cs.bytes) <= cs.message_length
    <3>1. Len(<< >>) = 0
      OBVIOUS
    <3> HIDE DEF cs
    <3> QED
      BY <2>3, <3>1
  <2> HIDE DEF cs
  <2>5. PartsFit'
    BY <1>1, <2>2, <2>4, StoredFits
  <2>6. received \in Seq(Message)
    BY <1>1 DEF InputType
  <2>7. /\ Len(received') = Len(received) + 1 /\ received'[Len(received) + 1] = r
        /\ \A i \in 1 .. Len(received) : received'[i] = received[i]
        /\ Len(received) \in Nat
    BY <2>1, <2>6
  <2>8. InOrder'
    BY <1>1, <2>0, <2>1, <2>7 DEF InOrder
  <2> QED
    BY <1>7, <2>0, <2>2, <2>5, <2>8 DEF Sound, ThrownExplained
<1>10. CASE ReceiveNothing
  <2>1. receiver' = "failed" /\ received' = received
        /\ m_ChunkStreamsInput' = Put(m_ChunkStreamsInput, Incoming.cs, Stream)
    BY <1>10 DEF ReceiveNothing
  <2>2. \E i \in 1 .. Len(completed) : completed[i].message.data = << >>
    BY <1>1, <1>2, <1>3, <1>4, <1>10, NothingRead
  <2>3. ThrownExplained'
    BY <1>1, <2>2 DEF ThrownExplained
  <2>4. PartsFit'
    BY <1>1, <1>5, <2>1, StoredFits
  <2>5. InOrder'
    BY <1>1, <2>1 DEF InOrder
  <2> QED
    BY <2>1, <2>3, <2>4, <2>5 DEF Sound
<1>11. ~LoseFraming
  BY <1>5 DEF LoseFraming
<1> QED
  BY <1>8, <1>9, <1>10, <1>11 DEF ReceiveChunk

\* The message that HandleMessage is given is the last one completed and read.
LEMMA HandledIsCompleted ==
  ASSUME DemuxType, Sound, receiver = "returned"
  PROVE  \E i \in 1 .. Len(completed) :
           /\ completed[i].message.type = LastReceived.type
           /\ completed[i].message.data = LastReceived.data
<1>1. /\ received \in Seq(Message) /\ received # << >> /\ completed \in Seq(Entry)
      /\ InOrder
  BY DEF DemuxType, InputType, PeerType, Sound
<1>2. Len(received) \in 1 .. Len(received) /\ Len(received) <= Len(completed)
      /\ Len(completed) \in Nat
  BY <1>1, EmptySeq DEF InOrder
<1> DEFINE n == Len(received)
           c == completed[n]
<1>3. IsCompleted(LastReceived, c) /\ n \in 1 .. Len(completed)
  BY <1>1, <1>2 DEF InOrder, LastReceived
<1>4. c.message \in Message
  <2>1. c \in Entry
    BY <1>1, <1>3
  <2> HIDE DEF c
  <2> QED
    BY <2>1, PeerMessage DEF Entry
<1> HIDE DEF c
<1>5. \A ts : /\ [c.message EXCEPT !.ts = ts].type = c.message.type
             /\ [c.message EXCEPT !.ts = ts].data = c.message.data
  BY <1>4 DEF Message
<1>6. c.message.type = LastReceived.type /\ c.message.data = LastReceived.data
  BY <1>3, <1>5 DEF IsCompleted
<1> QED
  BY <1>3, <1>6 DEF c

\* An ABORT finds nothing to reset on its own chunk stream.
LEMMA AbortResetsNothing ==
  ASSUME InputType, NEW v, ReceiverAt(v), HandleMessage
  PROVE  m_ChunkStreamsInput' = m_ChunkStreamsInput
<1> DEFINE m == LastReceived
<1>1. m_ChunkStreamsInput' = AbortedBy(m)
  BY DEF HandleMessage, LastReceived
<1>2. m.cs \in PeerIds /\ v.streams[m.cs].open = << >>
      /\ Matches(GetChunkStreamInput(m.cs), v.streams[m.cs])
  BY DEF ReceiverAt, HandleMessage
<1>3. MapTo(m_ChunkStreamsInput, ChunkStream)
  BY DEF InputType
<1> HIDE DEF m
<1>4. m.cs \in DOMAIN m_ChunkStreamsInput => m_ChunkStreamsInput[m.cs].bytes = << >>
  BY <1>2 DEF GetChunkStreamInput, Matches
<1>5. \A cs \in ChunkStream : cs.bytes = << >> => [cs EXCEPT !.bytes = << >>] = cs
  BY DEF ChunkStream
<1>6. [m_ChunkStreamsInput EXCEPT ![m.cs].bytes = << >>] = m_ChunkStreamsInput
  BY <1>3, <1>4, <1>5 DEF MapTo
<1> QED
  BY <1>1, <1>6 DEF AbortedBy

LEMMA HandleSound ==
  ASSUME DemuxType, Sound, HandleMessage, UNCHANGED peerVars
  PROVE  Sound'
<1>1. /\ receiver = "returned" /\ receiver' = "reading" /\ received' = received /\ wire' = wire
      /\ m_MaxMessageSize' = m_MaxMessageSize
      /\ m_ChunkSizeReceive' = ChunkSizeAfter(LastReceived, m_ChunkSizeReceive)
      /\ completed' = completed /\ PeerView' = PeerView
  BY DEF HandleMessage, LastReceived, transportVars, peerVars, PeerView
<1>2. PICK st : Leads(st) /\ ReceiverAt(st[1])
  BY <1>1 DEF Sound, Connected
<1>3. m_ChunkStreamsInput' = m_ChunkStreamsInput
  BY <1>2, AbortResetsNothing DEF DemuxType
<1>4. \A id \in PeerIds : GetChunkStreamInput(id)' = GetChunkStreamInput(id)
  BY <1>1, <1>3 DEF GetChunkStreamInput
<1>5. ReceiverAt(st[1])'
  <2> DEFINE v == st[1]
  <2>1. ReceiverAt(v)
    BY <1>2
  <2> HIDE DEF v
  <2>2. ReceiverAt(v)'
    BY <1>1, <1>4, <2>1 DEF ReceiverAt
  <2> QED
    BY <2>2 DEF v
<1>6. Leads(st)'
  BY <1>1, <1>2 DEF Leads
<1>7. Connected'
  BY <1>5, <1>6 DEF Connected
<1> QED
  BY <1>1, <1>3, <1>7 DEF Sound, InOrder, PartsFit, ThrownExplained

LEMMA ThrowSound ==
  ASSUME DemuxType, Sound, HandleThrows, UNCHANGED peerVars
  PROVE  Sound'
<1>1. /\ receiver = "returned" /\ receiver' = "failed" /\ received' = received
      /\ m_ChunkStreamsInput' = m_ChunkStreamsInput /\ completed' = completed
      /\ Malformed(LastReceived)
  BY DEF HandleThrows, LastReceived, peerVars
<1>2. \E i \in 1 .. Len(completed) : Malformed(completed[i].message)
  BY <1>1, HandledIsCompleted DEF Malformed
<1> QED
  BY <1>1, <1>2 DEF Sound, InOrder, PartsFit, ThrownExplained

-----------------------------------------------------------------------------
(* The peer's steps.                                                        *)

LEMMA ShownFields ==
  ASSUME NEW s \in StreamRecord
  PROVE  /\ Shown(s).last = s.last /\ Shown(s).clock = s.clock /\ Shown(s).ofs = s.ofs
         /\ Shown(s).open = IF s.ofs = 0 THEN << >> ELSE s.open
         /\ Shown(s) = [ last |-> s.last, clock |-> s.clock, ofs |-> s.ofs,
                         open |-> IF s.ofs = 0 THEN << >> ELSE s.open ]
  BY DEF Shown, StreamRecord

\* A record of a chunk stream is its four fields.
LEMMA FieldsReplaced ==
  ASSUME NEW s \in StreamRecord, NEW open, NEW ofs, NEW clock
  PROVE  /\ [s EXCEPT !.open = open, !.ofs = ofs] =
              [last |-> s.last, clock |-> s.clock, open |-> open, ofs |-> ofs]
         /\ [s EXCEPT !.ofs = ofs, !.clock = clock] =
              [last |-> s.last, clock |-> clock, open |-> s.open, ofs |-> ofs]
<1> DEFINE a == [s EXCEPT !.open = open, !.ofs = ofs]
           b == [s EXCEPT !.ofs = ofs, !.clock = clock]
<1>1. a \in [last : {s.last}, clock : {s.clock}, open : {open}, ofs : {ofs}]
  BY DEF StreamRecord
<1>2. b \in [last : {s.last}, clock : {clock}, open : {s.open}, ofs : {ofs}]
  BY DEF StreamRecord
<1> HIDE DEF a, b
<1>3. a = [last |-> s.last, clock |-> s.clock, open |-> open, ofs |-> ofs]
  BY <1>1
<1>4. b = [last |-> s.last, clock |-> clock, open |-> s.open, ofs |-> ofs]
  BY <1>2
<1> QED
  BY <1>3, <1>4 DEF a, b

LEMMA LegalShown ==
  ASSUME NEW s \in StreamRecord, NEW m
  PROVE  LegalHeaders(Shown(s), m) = LegalHeaders(s, m)
  BY ShownFields DEF LegalHeaders

LEMMA ClockShown ==
  ASSUME NEW s \in StreamRecord, NEW h
  PROVE  ClockNow(Shown(s), h) = ClockNow(s, h)
  BY ShownFields DEF ClockNow

LEMMA FreshShown ==
  Shown(FreshStream) = FreshStream /\ \A id : UnderWay(id, FreshStream)
  BY FreshType, ShownFields DEF FreshStream, UnderWay

\* A message of which nothing is written shows nothing.
LEMMA BeginsShows ==
  ASSUME PeerType, NEW m \in PeerMessages, PeerBegins(m)
  PROVE  PeerType' /\ PeerView' = PeerView
<1>1. m.cs \in PeerIds
  BY PeerMessage
<1> DEFINE s == peerStreams[m.cs]
           new == [last |-> s.last, clock |-> s.clock, open |-> <<m>>, ofs |-> 0]
<1>2. s \in StreamRecord /\ s.open = << >> /\ s.ofs = 0 /\ peerStreams \in [PeerIds -> StreamRecord]
  BY <1>1 DEF PeerType, UnderWay, PeerBegins
<1>3. <<m>> \in Seq(PeerMessages) /\ <<m>> # << >> /\ <<m>>[1] = m
  OBVIOUS
<1>4. new \in StreamRecord
  BY <1>2, <1>3 DEF StreamRecord
<1>5. [s EXCEPT !.open = <<m>>, !.ofs = 0] = new
  <2>1. s \in StreamRecord
    BY <1>2
  <2> HIDE DEF s
  <2> QED
    BY <2>1, FieldsReplaced
<1>6. peerStreams' = [peerStreams EXCEPT ![m.cs] = new]
  BY <1>1, <1>2, <1>5 DEF PeerBegins
<1>7. Shown(new) = Shown(s)
  <2>1. new.ofs = 0 /\ new.last = s.last /\ new.clock = s.clock
    OBVIOUS
  <2> HIDE DEF new, s
  <2> QED
    BY <1>2, <1>4, <2>1, ShownFields
<1>8. UnderWay(m.cs, new)
  BY <1>3 DEF UnderWay
<1> HIDE DEF new, s
<1>9. \A t \in PeerIds : Shown(peerStreams'[t]) = Shown(peerStreams[t])
  BY <1>1, <1>2, <1>6, <1>7 DEF s
<1>10. peerChunkSize' = peerChunkSize /\ completed' = completed /\ discarded' = discarded
  BY DEF PeerBegins
<1>11. PeerView' = PeerView
  BY <1>9, <1>10 DEF PeerView
<1>12. \A t \in PeerIds : UnderWay(t, peerStreams'[t])
  BY <1>1, <1>2, <1>6, <1>8 DEF PeerType
<1>13. peerStreams' \in [PeerIds -> StreamRecord]
  BY <1>2, <1>4, <1>6
<1> QED
  BY <1>10, <1>11, <1>12, <1>13 DEF PeerType

\* What is under way on a chunk stream that sends.
LEMMA Sending ==
  ASSUME PeerType, NEW id \in PeerIds, peerStreams[id].open # << >>
  PROVE  LET s == peerStreams[id]
             m == s.open[1]
         IN
         /\ s \in StreamRecord /\ s.open = <<m>> /\ m \in PeerMessages /\ m.cs = id
         /\ s.ofs \in Nat /\ s.ofs <= Len(m.data) /\ Len(m.data) \in Nat
         /\ m.data \in Seq(Byte)
         /\ Shown(s).open \in {<< >>, <<m>>}
         /\ \A h \in PeerHeaders(s) :
              /\ h \in Header
              /\ IF s.ofs = 0 THEN h \in LegalHeaders(Shown(s), m) ELSE h = Header3
              /\ ClockNow(s, h) \in Clock
<1> DEFINE s == peerStreams[id]
           m == s.open[1]
<1>1. s \in StreamRecord /\ UnderWay(id, s) /\ s.open # << >>
  BY DEF PeerType
<1> HIDE DEF s
<1>2. s.open = <<m>> /\ m \in PeerMessages /\ m.cs = id /\ (s.ofs = 0 \/ s.ofs < Len(m.data))
  BY <1>1 DEF UnderWay
<1>3. s.ofs \in Nat /\ s.clock \in Clock
  BY <1>1 DEF StreamRecord
<1>4. m.data \in Seq(Byte) /\ Len(m.data) \in Nat /\ m \in Message
  BY <1>2, PeerMessage
<1>5. s.ofs <= Len(m.data)
  BY <1>2, <1>3, <1>4
<1>6. Shown(s).open \in {<< >>, <<m>>}
  BY <1>1, <1>2, ShownFields
<1>7. ASSUME NEW h \in PeerHeaders(s)
      PROVE  /\ h \in Header
             /\ IF s.ofs = 0 THEN h \in LegalHeaders(Shown(s), m) ELSE h = Header3
             /\ ClockNow(s, h) \in Clock
  <2>1. CASE s.ofs = 0
    <3>1. h \in LegalHeaders(s, m)
      BY <2>1 DEF PeerHeaders
    <3>2. h \in Header /\ ClockAfter(s.clock, h) \in Clock
      BY <1>1, <1>2, <3>1, LegalTypes
    <3> QED
      BY <1>1, <2>1, <3>1, <3>2, LegalShown DEF ClockNow
  <2>2. CASE s.ofs # 0
    <3>1. h = Header3 /\ Header3 \in Header
      BY <2>2, <1>4, NewContextType, HeaderTypes DEF PeerHeaders
    <3> QED
      BY <1>3, <2>2, <3>1 DEF ClockNow
  <2> QED
    BY <2>1, <2>2
<1> QED
  BY <1>1, <1>2, <1>3, <1>4, <1>5, <1>6, <1>7 DEF s

\* A chunk that leaves its message incomplete.
LEMMA PartWritten ==
  ASSUME PeerType, NEW id \in PeerIds, PeerSendsPart(id)
  PROVE  /\ PeerType'
         /\ \E c \in PeerChunk :
              wire' = Append(wire, c) /\ Writes(PeerView, c, PeerView', completed')
<1> DEFINE s == peerStreams[id]
           m == s.open[1]
<1>1. s.open # << >> /\ peerChunkSize < Len(m.data) - s.ofs
  BY DEF PeerSendsPart
<1>2. /\ s \in StreamRecord /\ s.open = <<m>> /\ m \in PeerMessages /\ m.cs = id
      /\ s.ofs \in Nat /\ s.ofs <= Len(m.data) /\ Len(m.data) \in Nat
      /\ m.data \in Seq(Byte) /\ Shown(s).open \in {<< >>, <<m>>}
  BY <1>1, Sending
<1>3. PICK h \in PeerHeaders(s) :
        /\ PeerWrites(id, h, peerChunkSize)
        /\ peerStreams' = [peerStreams EXCEPT
             ![id].ofs = @ + peerChunkSize,
             ![id].clock = ClockNow(s, h)]
  BY DEF PeerSendsPart
<1> DEFINE clock == ClockNow(s, h)
           new == [last |-> s.last, clock |-> clock, open |-> <<m>>,
                   ofs |-> s.ofs + peerChunkSize]
           data == SubSeq(m.data, s.ofs + 1, s.ofs + peerChunkSize)
           c == [cs |-> id, hdr |-> h, data |-> data]
<1>4. /\ h \in Header /\ clock \in Clock
      /\ IF s.ofs = 0 THEN h \in LegalHeaders(Shown(s), m) ELSE h = Header3
  BY <1>1, Sending
<1>5. /\ peerStreams \in [PeerIds -> StreamRecord] /\ peerChunkSize \in Nat \ {0}
      /\ \A t \in PeerIds : UnderWay(t, peerStreams[t])
  BY DEF PeerType
<1>6. wire' = Append(wire, c)
  BY <1>3 DEF PeerWrites
<1>7. peerStreams' = [peerStreams EXCEPT ![id] = new]
  <2>1. peerStreams' = [peerStreams EXCEPT ![id] =
          [s EXCEPT !.ofs = @ + peerChunkSize,
                    !.clock = ClockNow(s, h)]]
    BY <1>3, <1>5
  <2>2. [s EXCEPT !.ofs = @ + peerChunkSize,
                  !.clock = ClockNow(s, h)] = new
    <3>1. s \in StreamRecord /\ s.open = <<m>>
      BY <1>2
    <3>2. clock = ClockNow(s, h)
      OBVIOUS
    <3> DEFINE ofs == s.ofs + peerChunkSize
    <3>3. new = [last |-> s.last, clock |-> clock, open |-> <<m>>, ofs |-> ofs]
      OBVIOUS
    <3> HIDE DEF s, m, clock, new, ofs
    <3>4. [s EXCEPT !.ofs = ofs, !.clock = clock] =
            [last |-> s.last, clock |-> clock, open |-> s.open, ofs |-> ofs]
      BY <3>1, FieldsReplaced, Zenon
    <3>5. [s EXCEPT !.ofs = ofs, !.clock = clock] = new
      BY <3>1, <3>3, <3>4, Zenon
    <3> QED
      BY <3>2, <3>5 DEF ofs
  <2> QED
    BY <2>1, <2>2
<1>8. peerChunkSize' = peerChunkSize /\ completed' = completed /\ discarded' = discarded
  BY DEF PeerSendsPart
<1> HIDE DEF s
<1>9. data \in Seq(Byte)
  <2> DEFINE d == m.data
             p == s.ofs
             n == peerChunkSize
  <2>1. d \in Seq(Byte) /\ p \in Nat /\ n \in Nat /\ p + n <= Len(d)
    BY <1>1, <1>2, <1>5
  <2> HIDE DEF d, p, n
  <2>2. SubSeq(d, p + 1, p + n) \in Seq(Byte)
    BY <2>1, NextPart
  <2> QED
    BY <2>2 DEF d, p, n
<1> HIDE DEF m, clock
<1>10. c \in PeerChunk
  BY <1>4, <1>9 DEF PeerChunk
<1>11. new \in StreamRecord /\ UnderWay(id, new) /\ new.ofs \in Nat /\ new.ofs # 0
  <2>1. s.ofs + peerChunkSize \in Nat /\ s.ofs + peerChunkSize > 0
        /\ s.ofs + peerChunkSize < Len(m.data)
    BY <1>1, <1>2, <1>5
  <2>2. <<m>> \in Seq(PeerMessages) /\ <<m>> # << >> /\ <<m>>[1] = m
    BY <1>2
  <2>3. s.last \in Context
    BY <1>2 DEF StreamRecord
  <2> QED
    BY <1>2, <1>4, <2>1, <2>2, <2>3 DEF StreamRecord, UnderWay
<1>12. Shown(new) = new
  BY <1>11 DEF Shown
<1>13. PeerType'
  <2>1. peerStreams' \in [PeerIds -> StreamRecord]
    BY <1>5, <1>7, <1>11
  <2>2. \A t \in PeerIds : UnderWay(t, peerStreams'[t])
    BY <1>5, <1>7, <1>11
  <2> QED
    BY <1>8, <2>1, <2>2 DEF PeerType
<1>14. WritesOf(PeerView, c, PeerView', m, completed')
  <2>1. /\ PeerView.streams[id] = Shown(s) /\ PeerView.size = peerChunkSize
        /\ \A t \in PeerIds : PeerView.streams[t] = Shown(peerStreams[t])
    BY PeerViewType DEF s
  <2>2. /\ PeerView'.streams[id] = new /\ PeerView'.size = PeerView.size
        /\ PeerView'.done = PeerView.done
        /\ \A t \in PeerIds \ {id} : PeerView'.streams[t] = PeerView.streams[t]
    <3>1. /\ \A t \in PeerIds : PeerView'.streams[t] = Shown(peerStreams'[t])
          /\ PeerView'.size = peerChunkSize' /\ PeerView'.done = Len(completed')
      BY DEF PeerView
    <3>2. PeerView.done = Len(completed)
      BY DEF PeerView
    <3>3. peerStreams'[id] = new /\ \A t \in PeerIds \ {id} : peerStreams'[t] = peerStreams[t]
      BY <1>5, <1>7
    <3> HIDE DEF new
    <3> QED
      BY <1>8, <1>12, <2>1, <3>1, <3>2, <3>3
  <2>3. /\ Shown(s).ofs = s.ofs /\ Shown(s).last = s.last /\ Shown(s).clock = s.clock
        /\ ClockNow(Shown(s), h) = ClockNow(s, h)
    BY <1>2, ShownFields, ClockShown
  <2>4. Smaller(Len(m.data) - s.ofs, peerChunkSize) = peerChunkSize
        /\ peerChunkSize < Len(m.data) - s.ofs
    BY <1>1, <1>2, <1>5 DEF Smaller, m
  <2>5. c.cs = id /\ c.hdr = h /\ c.data = data
    OBVIOUS
  <2>6. new = [last |-> s.last, clock |-> clock, open |-> <<m>>, ofs |-> s.ofs + peerChunkSize]
    OBVIOUS
  <2> HIDE DEF c, new
  <2> QED
    BY <1>2, <1>4, <2>1, <2>2, <2>3, <2>4, <2>5, <2>6 DEF WritesOf, clock
<1> QED
  BY <1>2, <1>6, <1>10, <1>13, <1>14 DEF Writes

\* The last chunk of a message.
LEMMA LastWritten ==
  ASSUME PeerType, NEW id \in PeerIds, PeerSendsLast(id)
  PROVE  /\ PeerType'
         /\ \E c \in PeerChunk :
              /\ wire' = Append(wire, c)
              /\ ~discarded' => Writes(PeerView, c, PeerView', completed')
<1> DEFINE s == peerStreams[id]
           m == s.open[1]
           rest == Len(m.data) - s.ofs
           gone == IF m.type = "ABORT"
                   THEN {t \in Target(m) : t # id /\ peerStreams[t].open # << >>} ELSE {}
<1>1. s.open # << >> /\ rest <= peerChunkSize
  BY DEF PeerSendsLast
<1>2. /\ s \in StreamRecord /\ s.open = <<m>> /\ m \in PeerMessages /\ m.cs = id
      /\ s.ofs \in Nat /\ s.ofs <= Len(m.data) /\ Len(m.data) \in Nat
      /\ m.data \in Seq(Byte) /\ Shown(s).open \in {<< >>, <<m>>}
  BY <1>1, Sending
<1>3. PICK h \in PeerHeaders(s) :
        /\ PeerWrites(id, h, rest)
        /\ completed' = Append(completed, [message |-> m, timed |-> Timed(ClockNow(s, h))])
        /\ peerStreams' = [t \in PeerIds |->
             IF t = id
             THEN [last |-> ContextOf(m), clock |-> ClockNow(s, h), open |-> << >>, ofs |-> 0]
             ELSE IF t \in gone THEN FreshStream ELSE peerStreams[t]]
  BY DEF PeerSendsLast
<1> DEFINE clock == ClockNow(s, h)
           new == [last |-> ContextOf(m), clock |-> clock, open |-> << >>, ofs |-> 0]
           data == SubSeq(m.data, s.ofs + 1, s.ofs + rest)
           c == [cs |-> id, hdr |-> h, data |-> data]
           entry == [message |-> m, timed |-> Timed(clock)]
<1>4. /\ h \in Header /\ clock \in Clock
      /\ IF s.ofs = 0 THEN h \in LegalHeaders(Shown(s), m) ELSE h = Header3
  BY <1>1, Sending
<1>5. /\ peerStreams \in [PeerIds -> StreamRecord] /\ peerChunkSize \in Nat \ {0}
      /\ \A t \in PeerIds : UnderWay(t, peerStreams[t])
      /\ completed \in Seq(Entry) /\ discarded \in BOOLEAN
  BY DEF PeerType
<1>6. wire' = Append(wire, c)
  BY <1>3 DEF PeerWrites
<1>7. peerStreams' = [t \in PeerIds |->
        IF t = id THEN new ELSE IF t \in gone THEN FreshStream ELSE peerStreams[t]]
  BY <1>3
<1>8. /\ peerChunkSize' = ChunkSizeAfter(m, peerChunkSize)
      /\ completed' = Append(completed, entry)
      /\ discarded' = (discarded \/ \E t \in gone : peerStreams[t].ofs > 0)
  BY <1>3 DEF PeerSendsLast
<1> HIDE DEF gone, s
<1>9. data \in Seq(Byte)
  <2> DEFINE d == m.data
             p == s.ofs
             n == rest
  <2>1. d \in Seq(Byte) /\ p \in Nat /\ n \in Nat /\ p + n <= Len(d)
    BY <1>2
  <2> HIDE DEF d, p, n
  <2>2. SubSeq(d, p + 1, p + n) \in Seq(Byte)
    BY <2>1, NextPart
  <2> QED
    BY <2>2 DEF d, p, n
<1> HIDE DEF m, clock
<1>10. c \in PeerChunk
  BY <1>4, <1>9 DEF PeerChunk
<1>11. new \in StreamRecord /\ UnderWay(id, new) /\ new.ofs = 0
  <2>1. << >> \in Seq(PeerMessages) /\ ContextOf(m) \in Context
    BY <1>2, PeerMessage, ContextOfType
  <2> QED
    BY <1>4, <2>1 DEF StreamRecord, UnderWay
<1>12. Shown(new) = new
  <2>1. new.last = ContextOf(m) /\ new.clock = clock /\ new.open = << >>
    OBVIOUS
  <2>2. new = [last |-> ContextOf(m), clock |-> clock, ofs |-> 0, open |-> << >>]
    OBVIOUS
  <2> HIDE DEF new
  <2> QED
    BY <1>11, <2>1, <2>2, ShownFields
<1> HIDE DEF new
<1>13. completed' \in Seq(Entry) /\ Len(completed') = Len(completed) + 1
       /\ completed'[Len(completed) + 1] = entry /\ Len(completed) \in Nat
  <2>1. entry \in Entry
    BY <1>2 DEF Entry, Timed
  <2> HIDE DEF entry
  <2> QED
    BY <1>5, <1>8, <2>1
<1>14. PeerType'
  <2>1. peerStreams' \in [PeerIds -> StreamRecord]
    BY <1>5, <1>7, <1>11, FreshType
  <2>2. \A t \in PeerIds : UnderWay(t, peerStreams'[t])
    BY <1>5, <1>7, <1>11, FreshShown
  <2>3. peerChunkSize' \in Nat \ {0}
    BY <1>2, <1>5, <1>8, NextChunkSize
  <2> QED
    BY <1>5, <1>8, <1>13, <2>1, <2>2, <2>3 DEF PeerType
<1>15. ASSUME ~discarded'
       PROVE  WritesOf(PeerView, c, PeerView', m, completed')
  <2>1. /\ PeerView.streams[id] = Shown(s) /\ PeerView.size = peerChunkSize
        /\ PeerView.done = Len(completed)
        /\ \A t \in PeerIds : PeerView.streams[t] = Shown(peerStreams[t])
    BY PeerViewType DEF s
  <2>2. /\ \A t \in PeerIds : PeerView'.streams[t] = Shown(peerStreams'[t])
        /\ PeerView'.size = peerChunkSize' /\ PeerView'.done = Len(completed')
    BY DEF PeerView
  <2>3. PeerView'.streams[id] = new
    BY <1>7, <1>12, <2>2
  <2>4. ASSUME NEW t \in PeerIds \ {id}
        PROVE  \/ PeerView'.streams[t] = PeerView.streams[t]
               \/ PeerView.streams[t].open = << >> /\ PeerView'.streams[t] = FreshStream
    <3>1. CASE t \in gone
      <4>1. peerStreams'[t] = FreshStream /\ ~(peerStreams[t].ofs > 0)
        BY <1>7, <1>8, <1>15, <3>1
      <4>2. peerStreams[t] \in StreamRecord /\ peerStreams[t].ofs = 0
        BY <1>5, <4>1 DEF StreamRecord
      <4>3. PeerView.streams[t].open = << >>
        BY <2>1, <4>2, ShownFields
      <4> QED
        BY <2>2, <4>1, <4>3, FreshShown
    <3>2. CASE t \notin gone
      BY <1>7, <2>1, <2>2, <3>2
    <3> QED
      BY <3>1, <3>2
  <2>5. /\ PeerView'.size = ChunkSizeAfter(m, PeerView.size)
        /\ PeerView'.done = PeerView.done + 1 /\ PeerView'.done <= Len(completed')
        /\ completed'[PeerView'.done] = entry
    BY <1>8, <1>13, <2>1, <2>2
  <2>6. /\ Shown(s).ofs = s.ofs /\ Shown(s).clock = s.clock
        /\ ClockNow(Shown(s), h) = ClockNow(s, h)
    BY <1>2, ShownFields, ClockShown
  <2>7. Smaller(Len(m.data) - s.ofs, peerChunkSize) = rest /\ Len(m.data) - s.ofs <= peerChunkSize
    <3>1. rest \in Int /\ peerChunkSize \in Int /\ rest <= peerChunkSize
      BY <1>1, <1>2, <1>5 DEF m
    <3>2. Smaller(rest, peerChunkSize) = rest
      <4> HIDE DEF rest
      <4> QED
        BY <3>1 DEF Smaller
    <3> QED
      BY <3>1, <3>2
  <2>8. c.cs = id /\ c.hdr = h /\ c.data = data
    OBVIOUS
  <2>9. new = [last |-> ContextOf(m), clock |-> clock, open |-> << >>, ofs |-> 0]
    BY DEF new
  <2> HIDE DEF c, rest
  <2> QED
    BY <1>2, <1>4, <2>1, <2>3, <2>4, <2>5, <2>6, <2>7, <2>8, <2>9 DEF WritesOf, clock
<1> QED
  BY <1>2, <1>6, <1>10, <1>14, <1>15 DEF Writes

LEMMA StillWrites ==
  ASSUME NEW v \in View, NEW c, NEW w \in View, NEW log \in Seq(Entry), NEW longer,
         longer = log \/ \E e \in Entry : longer = Append(log, e), Writes(v, c, w, log)
  PROVE  Writes(v, c, w, longer)
<1>1. PICK m \in PeerMessages : WritesOf(v, c, w, m, log)
  BY DEF Writes
<1>2. v.done \in Nat /\ w.done \in Nat
  BY DEF View
<1>3. CASE longer = log
  BY <1>1, <1>3 DEF Writes
<1>4. ASSUME NEW e \in Entry, longer = Append(log, e)
      PROVE  Writes(v, c, w, longer)
  BY <1>1, <1>2, <1>4, WritesStable DEF Writes
<1> QED
  BY <1>3, <1>4

\* A chunk put in flight takes the last view to what the peer has shown now.
LEMMA LeadsFurther ==
  ASSUME DemuxType, NEW st, Leads(st), NEW w \in View, w = PeerView',
         NEW c \in PeerChunk, wire' = Append(wire, c), Writes(PeerView, c, w, completed'),
         completed' = completed \/ \E e \in Entry : completed' = Append(completed, e)
  PROVE  Leads(Append(st, w))' /\ Append(st, w)[1] = st[1]
<1> DEFINE further == Append(st, w)
           n == Len(wire)
<1>1. wire \in Seq(PeerChunk) /\ n \in Nat /\ completed \in Seq(Entry)
  BY DEF DemuxType, PeerType
<1>2. st \in Seq(View) /\ Len(st) = n + 1 /\ st[n + 1] = PeerView
  BY DEF Leads
<1>3. Len(wire') = n + 1 /\ wire'[n + 1] = c /\ \A i \in 1 .. n : wire'[i] = wire[i]
  BY <1>1
<1>4. /\ further \in Seq(View) /\ Len(further) = (n + 1) + 1 /\ further[(n + 1) + 1] = w
      /\ \A i \in 1 .. n + 1 : further[i] = st[i]
  BY <1>1, <1>2
<1>5. \A i \in 1 .. n : Writes(st[i], wire[i], st[i + 1], completed)
  BY DEF Leads
<1> HIDE DEF further, n
<1>6. ASSUME NEW i \in 1 .. Len(wire')
      PROVE  Writes(further[i], wire'[i], further[i + 1], completed')
  <2>1. CASE i \in 1 .. n
    <3>1. i \in 1 .. n + 1 /\ i + 1 \in 1 .. n + 1
      BY <1>1, <2>1
    <3>2. st[i] \in View /\ st[i + 1] \in View
      BY <1>1, <1>2, <3>1
    <3>3. Writes(st[i], wire[i], st[i + 1], completed)
      BY <1>5, <2>1
    <3> DEFINE v == st[i]
               x == st[i + 1]
               d == wire[i]
    <3>4. v \in View /\ x \in View /\ Writes(v, d, x, completed)
      BY <3>2, <3>3
    <3> HIDE DEF v, x, d
    <3>5. Writes(v, d, x, completed')
      BY <1>1, <3>4, StillWrites
    <3>6. further[i] = v /\ further[i + 1] = x /\ wire'[i] = d
      BY <1>3, <1>4, <2>1, <3>1 DEF v, x, d
    <3> QED
      BY <3>5, <3>6
  <2>2. CASE i = n + 1
    <3>1. further[n + 1] = PeerView /\ further[(n + 1) + 1] = w /\ wire'[n + 1] = c
      BY <1>1, <1>2, <1>3, <1>4
    <3> QED
      BY <2>2, <3>1
  <2> QED
    BY <1>1, <1>3, <2>1, <2>2
<1>7. further[1] = st[1]
  BY <1>1, <1>4
<1>8. Len(further) = Len(wire') + 1 /\ further[Len(wire') + 1] = PeerView'
  BY <1>3, <1>4
<1>9. Leads(further)'
  BY <1>4, <1>6, <1>8 DEF Leads
<1> QED
  BY <1>7, <1>9 DEF further

\* What the peer completes leaves what is received a beginning of it.
LEMMA CompletedGrows ==
  ASSUME DemuxType, InOrder, ThrownExplained, received' = received, receiver' = receiver,
         completed' = completed \/ \E e \in Entry : completed' = Append(completed, e)
  PROVE  InOrder' /\ ThrownExplained'
<1>1. /\ completed \in Seq(Entry) /\ Len(completed) \in Nat
      /\ received \in Seq(Message) /\ Len(received) \in Nat
  BY DEF DemuxType, InputType, PeerType
<1>2. Len(completed) <= Len(completed') /\ Len(completed') \in Nat
      /\ \A i \in 1 .. Len(completed) : completed'[i] = completed[i]
  BY <1>1
<1>3. InOrder'
  <2>1. Len(received) <= Len(completed)
        /\ \A i \in 1 .. Len(received) : IsCompleted(received[i], completed[i])
    BY DEF InOrder
  <2> QED
    BY <1>1, <1>2, <2>1 DEF InOrder
<1>4. ThrownExplained'
  <2>1. \A i \in 1 .. Len(completed) : i \in 1 .. Len(completed')
    BY <1>1, <1>2
  <2> QED
    BY <1>2, <2>1 DEF ThrownExplained
<1> QED
  BY <1>3, <1>4

\* With the receiver unmoved, it is where it was.
LEMMA Unmoved ==
  ASSUME UNCHANGED inputVars, NEW v
  PROVE  /\ ReceiverAt(v) => ReceiverAt(v)'
         /\ PartsFit => PartsFit'
         /\ InputType => InputType'
<1>1. /\ m_ChunkStreamsInput' = m_ChunkStreamsInput /\ m_MaxMessageSize' = m_MaxMessageSize
      /\ m_ChunkSizeReceive' = m_ChunkSizeReceive
      /\ receiver' = receiver /\ received' = received
  BY DEF inputVars
<1>2. \A id \in PeerIds : GetChunkStreamInput(id)' = GetChunkStreamInput(id)
  BY <1>1 DEF GetChunkStreamInput
<1>3. ReceiverAt(v) => ReceiverAt(v)'
  BY <1>1, <1>2 DEF ReceiverAt, LastReceived
<1>4. PartsFit => PartsFit'
  BY <1>1 DEF PartsFit
<1>5. InputType => InputType'
  BY <1>1 DEF InputType
<1> QED
  BY <1>3, <1>4, <1>5

\* A message begun and not yet written disturbs nothing.
LEMMA BeginsSound ==
  ASSUME DemuxType, Sound, NEW m \in PeerMessages, PeerBegins(m), UNCHANGED inputVars
  PROVE  Sound'
<1>1. /\ PeerView' = PeerView /\ wire' = wire /\ completed' = completed
      /\ receiver' = receiver /\ received' = received
  BY BeginsShows DEF DemuxType, PeerBegins, transportVars, inputVars
<1>2. receiver # "failed" => Connected'
  <2>1. SUFFICES ASSUME receiver # "failed"
                 PROVE  Connected'
    OBVIOUS
  <2>2. PICK st : Leads(st) /\ ReceiverAt(st[1])
    BY <2>1 DEF Sound, Connected
  <2>3. Leads(st)'
    BY <1>1, <2>2 DEF Leads
  <2> DEFINE v == st[1]
  <2>4. ReceiverAt(v) /\ st[1] = v
    BY <2>2
  <2> HIDE DEF v
  <2>5. ReceiverAt(v)'
    BY <2>4, Unmoved
  <2> QED
    BY <2>3, <2>4, <2>5, ConnectedNow
<1>3. PartsFit'
  BY Unmoved DEF Sound
<1> QED
  BY <1>1, <1>2, <1>3 DEF Sound, InOrder, ThrownExplained

LEMMA NextView ==
  ASSUME PeerType'
  PROVE  PeerView' \in View
<1>1. \A id \in PeerIds : ViewStream(id, Shown(peerStreams'[id]))
  BY ShownType DEF PeerType
<1>2. \A id \in PeerIds : Shown(peerStreams'[id]) \in StreamRecord
  BY <1>1 DEF ViewStream
<1>3. PeerView' \in [streams : [PeerIds -> StreamRecord], size : Nat \ {0}, done : Nat]
  BY <1>2 DEF PeerView, PeerType
<1>4. \A id \in PeerIds : PeerView'.streams[id] = Shown(peerStreams'[id])
  BY DEF PeerView
<1> QED
  BY <1>1, <1>3, <1>4 DEF View

LEMMA WritesSound ==
  ASSUME DemuxType, Sound, PeerType', UNCHANGED inputVars,
         NEW c \in PeerChunk, wire' = Append(wire, c), Writes(PeerView, c, PeerView', completed'),
         completed' = completed \/ \E e \in Entry : completed' = Append(completed, e)
  PROVE  Sound'
<1>1. receiver' = receiver /\ received' = received
  BY DEF inputVars
<1>2. PeerView' \in View
  BY NextView
<1>3. PICK w \in View : w = PeerView'
  BY <1>2
<1>4. Writes(PeerView, c, w, completed')
  BY <1>3
<1>5. receiver # "failed" => Connected'
  <2>1. SUFFICES ASSUME receiver # "failed"
                 PROVE  Connected'
    OBVIOUS
  <2>2. PICK st : Leads(st) /\ ReceiverAt(st[1])
    BY <2>1 DEF Sound, Connected
  <2>3. Leads(Append(st, w))' /\ Append(st, w)[1] = st[1]
    BY <1>3, <1>4, <2>2, LeadsFurther
  <2> DEFINE v == st[1]
             further == Append(st, w)
  <2>4. ReceiverAt(v) /\ further[1] = v /\ Leads(further)'
    BY <2>2, <2>3
  <2> HIDE DEF v, further
  <2>5. ReceiverAt(v)'
    BY <2>4, Unmoved
  <2> QED
    BY <2>4, <2>5, ConnectedNow
<1>6. InOrder' /\ ThrownExplained'
  BY <1>1, CompletedGrows DEF Sound
<1>7. PartsFit'
  BY Unmoved DEF Sound
<1> QED
  BY <1>1, <1>5, <1>6, <1>7 DEF Sound

-----------------------------------------------------------------------------
(* The invariant.                                                           *)

LEMMA InitDemux ==
  ASSUME Init
  PROVE  DemuxInv
<1>1. /\ wire = << >> /\ link = "up" /\ InputInit /\ PeerInit
      /\ m_ChunkStreamsInput = << >> /\ receiver = "reading" /\ received = << >>
      /\ m_ChunkSizeReceive = InitChunkSize /\ completed = << >>
      /\ peerChunkSize = InitChunkSize /\ peerStreams = [id \in PeerIds |-> FreshStream]
      /\ discarded = FALSE
  BY DEF Init, InputInit, PeerInit
<1>2. DOMAIN m_ChunkStreamsInput = {} /\ Len(<< >>) = 0
  BY <1>1
<1>3. PeerType
  <2>1. << >> \in Seq(Entry) /\ InitChunkSize \in Nat \ {0}
    BY SizeAssumption
  <2>2. peerStreams \in [PeerIds -> StreamRecord]
    BY <1>1, FreshType
  <2>3. \A id \in PeerIds : UnderWay(id, peerStreams[id])
    BY <1>1, FreshShown
  <2> QED
    BY <1>1, <2>1, <2>2, <2>3 DEF PeerType
<1>4. DemuxType
  <2>1. << >> \in Seq(PeerChunk)
    OBVIOUS
  <2> QED
    BY <1>1, <1>2, <1>3, <2>1, InitInputType DEF DemuxType
<1>5. Connected
  <2>1. PeerView \in View
    BY <1>3, PeerViewType
  <2>2. PICK v \in View : v = PeerView
    BY <2>1
  <2>3. v.size = InitChunkSize /\ v.done = 0 /\ \A id \in PeerIds : v.streams[id] = FreshStream
    <3>1. \A id \in PeerIds : peerStreams[id] = FreshStream
      BY <1>1
    <3> QED
      BY <1>1, <1>2, <1>3, <2>2, <3>1, PeerViewType, FreshShown
  <2>4. \A id \in PeerIds : Matches(GetChunkStreamInput(id), FreshStream)
    <3>1. \A id : GetChunkStreamInput(id) = NewChunkStream(m_MaxMessageSize)
      BY <1>2 DEF GetChunkStreamInput
    <3>2. NewChunkStream(m_MaxMessageSize).bytes = << >>
      BY DEF NewChunkStream
    <3> QED
      BY <3>1, <3>2, FreshType DEF Matches, DeltaKnown
  <2>5. ReceiverAt(v)
    BY <1>1, <1>2, <2>3, <2>4 DEF ReceiverAt
  <2>6. Leads(<<v>>)
    <3>1. <<v>> \in Seq(View) /\ Len(<<v>>) = 0 + 1 /\ <<v>>[0 + 1] = v
      OBVIOUS
    <3>2. Len(wire) = 0
      BY <1>1, <1>2
    <3>3. \A i \in 1 .. Len(wire) : FALSE
      BY <3>2
    <3> QED
      BY <2>2, <3>1, <3>2, <3>3 DEF Leads
  <2>7. <<v>>[1] = v
    OBVIOUS
  <2> QED
    BY <2>5, <2>6, <2>7 DEF Connected
<1>6. InOrder /\ PartsFit /\ ThrownExplained
  BY <1>1, <1>2 DEF InOrder, PartsFit, ThrownExplained
<1> QED
  BY <1>1, <1>4, <1>5, <1>6 DEF DemuxInv, Sound

LEMMA PeerStep ==
  ASSUME DemuxInv, PeerNext, UNCHANGED inputVars
  PROVE  DemuxInv'
<1>1. /\ DemuxType /\ PeerType /\ wire \in Seq(PeerChunk) /\ link = "up"
      /\ InputType' /\ DOMAIN m_ChunkStreamsInput' \subseteq PeerIds
  BY Unmoved DEF DemuxInv, DemuxType, inputVars
<1>2. CASE \E m \in PeerMessages : PeerBegins(m)
  <2>1. PICK m \in PeerMessages : PeerBegins(m)
    BY <1>2
  <2>2. PeerType' /\ wire' = wire /\ link' = link /\ discarded' = discarded
    BY <1>1, <2>1, BeginsShows DEF PeerBegins, transportVars
  <2>3. DemuxType'
    BY <1>1, <2>2 DEF DemuxType
  <2>4. Sound => Sound'
    BY <1>1, <2>1, BeginsSound
  <2> QED
    BY <2>2, <2>3, <2>4 DEF DemuxInv, Undisturbed
<1>3. ASSUME NEW id \in PeerIds, PeerSendsPart(id) \/ PeerSendsLast(id)
      PROVE  DemuxInv'
  <2>1. PeerType' /\ \E c \in PeerChunk :
          /\ wire' = Append(wire, c)
          /\ ~discarded' => Writes(PeerView, c, PeerView', completed')
    <3>1. CASE PeerSendsPart(id)
      BY <1>1, <3>1, PartWritten
    <3>2. CASE PeerSendsLast(id)
      BY <1>1, <3>2, LastWritten
    <3> QED
      BY <1>3, <3>1, <3>2
  <2>2. PICK c \in PeerChunk :
          /\ wire' = Append(wire, c)
          /\ ~discarded' => Writes(PeerView, c, PeerView', completed')
    BY <2>1
  <2>3. /\ link' = link /\ (~discarded' => ~discarded)
        /\ completed' = completed \/ \E e \in Entry : completed' = Append(completed, e)
    <3>1. peerStreams[id].open # << >>
      BY <1>3 DEF PeerSendsPart, PeerSendsLast
    <3>2. peerStreams[id].open[1] \in PeerMessages
      BY <1>1, <3>1, Sending
    <3>3. link' = link
      BY <1>3 DEF PeerSendsPart, PeerSendsLast, PeerWrites
    <3>4. CASE PeerSendsPart(id)
      BY <3>3, <3>4 DEF PeerSendsPart
    <3>5. CASE PeerSendsLast(id)
      <4>1. \E e \in Entry : completed' = Append(completed, e)
        <5>1. PICK h :
                completed' = Append(completed, [message |-> peerStreams[id].open[1],
                                                timed |-> Timed(ClockNow(peerStreams[id], h))])
          BY <3>5 DEF PeerSendsLast
        <5> DEFINE e == [message |-> peerStreams[id].open[1],
                         timed |-> Timed(ClockNow(peerStreams[id], h))]
        <5>2. e \in Entry
          BY <3>2 DEF Entry, Timed
        <5>3. completed' = Append(completed, e)
          BY <5>1
        <5> HIDE DEF e
        <5> QED
          BY <5>2, <5>3
      <4>2. PICK X : discarded' = (discarded \/ X)
        BY <3>5, Zenon DEF PeerSendsLast
      <4>3. ~discarded' => ~discarded
        BY <4>2
      <4> QED
        BY <3>2, <3>3, <4>1, <4>3
    <3> QED
      BY <1>3, <3>4, <3>5
  <2>4. DemuxType'
    <3>1. wire' \in Seq(PeerChunk)
      BY <1>1, <2>2
    <3> QED
      BY <1>1, <2>1, <2>3, <3>1 DEF DemuxType
  <2>5. ASSUME ~discarded'
        PROVE  Sound'
    <3>1. Sound
      BY <2>3, <2>5 DEF DemuxInv, Undisturbed
    <3> QED
      BY <1>1, <2>1, <2>2, <2>3, <2>5, <3>1, WritesSound
  <2> QED
    BY <2>4, <2>5 DEF DemuxInv, Undisturbed
<1> QED
  BY <1>2, <1>3 DEF PeerNext

\* The chunk that is read is one that the peer has written.
LEMMA IncomingReadable ==
  ASSUME DemuxType, wire # << >>
  PROVE  Incoming \in PeerChunk /\ Readable(Incoming)
<1>1. Incoming \in PeerChunk
  BY EmptySeq DEF DemuxType, Incoming
<1> QED
  BY <1>1, PeerIdsType DEF Readable, PeerChunk

LEMMA InputDemuxType ==
  ASSUME DemuxType, Input
  PROVE  DemuxType'
<1>1. /\ InputType /\ DOMAIN m_ChunkStreamsInput \subseteq PeerIds
      /\ wire \in Seq(PeerChunk) /\ link = "up" /\ PeerType
      /\ InputNext /\ UNCHANGED peerVars
  BY DEF DemuxType, Input
<1>2. ReceiveChunk => wire # << >> /\ wire' = Tail(wire) /\ link' = link
  BY DEF ReceiveChunk, ReceivePart, ReceiveLast, ReceiveNothing, LoseFraming, ReadHeaders
<1>3. ~ReceiveChunk => wire' = wire /\ link' = link
  BY <1>1 DEF InputNext, ReceiveThrows, HandleMessage, HandleThrows, transportVars
<1>4. InputType'
  BY <1>1, <1>2, IncomingReadable, InputTypeStep
<1>5. wire' \in Seq(PeerChunk) /\ link' = "up"
  <2>1. wire # << >> => Tail(wire) \in Seq(PeerChunk)
    BY <1>1, HeadTailProperties
  <2> QED
    BY <1>1, <1>2, <1>3, <2>1
<1>6. PeerType'
  BY <1>1 DEF PeerType, peerVars
<1>7. DOMAIN m_ChunkStreamsInput' \subseteq PeerIds
  <2>1. CASE ReceiveChunk
    <3>1. Incoming.cs \in PeerIds
      BY <1>2, <2>1, IncomingReadable DEF PeerChunk
    <3>2. \/ m_ChunkStreamsInput' = m_ChunkStreamsInput
          \/ \E cs : m_ChunkStreamsInput' = Put(m_ChunkStreamsInput, Incoming.cs, cs)
      BY <2>1 DEF ReceiveChunk, ReceivePart, ReceiveLast, ReceiveNothing, LoseFraming
    <3>3. \A cs : DOMAIN Put(m_ChunkStreamsInput, Incoming.cs, cs)
                    = DOMAIN m_ChunkStreamsInput \cup {Incoming.cs}
      BY DEF Put
    <3> QED
      BY <1>1, <3>1, <3>2, <3>3
  <2>2. CASE HandleMessage
    BY <1>1, <2>2 DEF HandleMessage, AbortedBy
  <2>3. CASE ReceiveThrows \/ HandleThrows
    BY <1>1, <2>3 DEF ReceiveThrows, HandleThrows
  <2> QED
    BY <1>1, <2>1, <2>2, <2>3 DEF InputNext
<1> QED
  BY <1>1, <1>4, <1>5, <1>6, <1>7 DEF DemuxType

LEMMA InputStep ==
  ASSUME DemuxInv, Input
  PROVE  DemuxInv'
<1>1. DemuxType /\ link = "up" /\ InputNext /\ UNCHANGED peerVars
  BY DEF DemuxInv, DemuxType, Input
<1>2. DemuxType'
  BY <1>1, InputDemuxType
<1>3. discarded' = discarded
  BY <1>1 DEF peerVars
<1>4. Sound => Sound'
  <2>1. ~ReceiveThrows
    BY <1>1 DEF ReceiveThrows
  <2> QED
    BY <1>1, <2>1, ReceiveSound, HandleSound, ThrowSound DEF InputNext
<1> QED
  BY <1>2, <1>3, <1>4 DEF DemuxInv, Undisturbed

\* The invariant holds in every reachable state, whatever the peer may send.
THEOREM DemuxInvariant == Spec => []DemuxInv
<1>1. DemuxInv /\ [Next]_vars => DemuxInv'
  <2>1. CASE UNCHANGED vars
    <3>1. /\ wire' = wire /\ link' = link /\ UNCHANGED inputVars
          /\ peerStreams' = peerStreams /\ peerChunkSize' = peerChunkSize
          /\ completed' = completed /\ discarded' = discarded
      BY <2>1 DEF vars, transportVars, peerVars
    <3>2. PeerView' = PeerView /\ (PeerType => PeerType')
      BY <3>1 DEF PeerView, PeerType
    <3>3. DemuxType => DemuxType'
      BY <3>1, <3>2, Unmoved DEF DemuxType, inputVars
    <3>4. Connected => Connected'
      <4>1. SUFFICES ASSUME NEW st, Leads(st) /\ ReceiverAt(st[1])
                     PROVE  Connected'
        BY DEF Connected
      <4>2. Leads(st)'
        BY <3>1, <3>2, <4>1 DEF Leads
      <4> DEFINE v == st[1]
      <4>3. ReceiverAt(v) /\ st[1] = v
        BY <4>1
      <4> HIDE DEF v
      <4>4. ReceiverAt(v)'
        BY <3>1, <4>3, Unmoved
      <4> QED
        BY <4>2, <4>3, <4>4, ConnectedNow
    <3>5. Sound => Sound'
      BY <3>1, <3>4, Unmoved DEF Sound, InOrder, ThrownExplained, inputVars
    <3> QED
      BY <3>1, <3>3, <3>5 DEF DemuxInv, Undisturbed
  <2> QED
    BY <2>1, InputStep, PeerStep DEF Next
<1> QED
  BY <1>1, InitDemux, PTL DEF Spec

\* The payload read is always the payload of the chunk just announced, and never
\* more than its message lacks, however the peer interleaves its chunk streams,
\* changes the chunk size or chooses its headers: StaysFramed.
THEOREM StaysFramedHolds == Spec => []StaysFramed
<1>1. DemuxInv => StaysFramed
  BY DEF DemuxInv, Sound, PartsFit, StaysFramed
<1> QED
  BY <1>1, DemuxInvariant, PTL

\* GetRTMPMessage returns the messages in the order in which they were completed,
\* each as it was sent; its time is claimed unless a format 3 header has followed
\* a full header on its chunk stream since: Demultiplexed.
THEOREM DemultiplexedHolds == Spec => []Demultiplexed
<1>1. DemuxInv => Demultiplexed
  BY DEF DemuxInv, Sound, InOrder, Demultiplexed
<1> QED
  BY <1>1, DemuxInvariant, PTL

\* Receiving throws only on a message that is empty or too short for its type:
\* ThrowsOnlyOnMalformed.
THEOREM ThrowsOnlyOnMalformedHolds == Spec => []ThrowsOnlyOnMalformed
<1>1. DemuxInv => ThrowsOnlyOnMalformed
  BY DEF DemuxInv, Sound, ThrownExplained, ThrowsOnlyOnMalformed
<1> QED
  BY <1>1, DemuxInvariant, PTL

\* With nothing in flight the receiver keeps of each unfinished message what the
\* peer has sent of it.
LEMMA PartialsAtRest ==
  ASSUME DemuxInv
  PROVE  PartialsMatch
<1>1. SUFFICES ASSUME Undisturbed, wire = << >>, receiver = "reading",
                      NEW id \in DOMAIN m_ChunkStreamsInput
               PROVE  m_ChunkStreamsInput[id].bytes =
                        IF peerStreams[id].open = << >> THEN << >>
                        ELSE SubSeq(peerStreams[id].open[1].data, 1, peerStreams[id].ofs)
  BY DEF PartialsMatch
<1>2. PICK st : Leads(st) /\ ReceiverAt(st[1])
  BY <1>1 DEF DemuxInv, Sound, Connected
<1>3. st[1] = PeerView
  <2>1. Len(<< >>) = 0
    OBVIOUS
  <2>2. Len(wire) + 1 = 1
    BY <1>1, <2>1
  <2> QED
    BY <1>2, <2>2 DEF Leads
<1>4. PeerType /\ id \in PeerIds
  BY DEF DemuxInv, DemuxType
<1> DEFINE s == peerStreams[id]
<1>5. Matches(m_ChunkStreamsInput[id], Shown(s))
  <2>1. Matches(GetChunkStreamInput(id), PeerView.streams[id])
    BY <1>2, <1>3, <1>4 DEF ReceiverAt
  <2> QED
    BY <1>1, <1>4, <2>1, PeerViewType DEF GetChunkStreamInput
<1>6. s \in StreamRecord
  BY <1>4 DEF PeerType
<1> HIDE DEF s
<1>7. CASE s.ofs = 0
  <2>1. m_ChunkStreamsInput[id].bytes = << >>
    BY <1>5, <1>6, <1>7, ShownFields DEF Matches
  <2>2. SubSeq(s.open[1].data, 1, 0) = << >>
    BY SubSeqEmpty
  <2> QED
    BY <1>7, <2>1, <2>2 DEF s
<1>8. CASE s.ofs # 0
  <2>1. Shown(s) = s
    BY <1>8 DEF Shown
  <2> QED
    BY <1>5, <2>1 DEF Matches, s
<1> QED
  BY <1>7, <1>8

\* What the receiver keeps of each unfinished message is what the peer has sent
\* of it: PartialsMatch.
THEOREM PartialsMatchHolds == Spec => []PartialsMatch
<1>1. DemuxInv => PartialsMatch
  BY PartialsAtRest
<1> QED
  BY <1>1, DemuxInvariant, PTL

-----------------------------------------------------------------------------
(* The buffers, also of a peer that aborts what is under way.               *)

\* One chunk stream alone carries messages longer than the first m_MaxMessageSize.
OneLargePeer ==
  \A m \in PeerMessages : m.cs # Large => Len(m.data) <= InitMaxMessageSize

WireAnnounces == \A i \in 1 .. Len(wire) : Announced(wire[i])

PeerBufferInv == BuffersFit /\ WireAnnounces

\* A header announces the length of its message.
LEMMA HeaderAnnounces ==
  ASSUME OneLargePeer, PeerType, NEW id \in PeerIds, peerStreams[id].open # << >>,
         NEW h \in PeerHeaders(peerStreams[id]), NEW data
  PROVE  Announced([cs |-> id, hdr |-> h, data |-> data])
<1> DEFINE s == peerStreams[id]
           m == s.open[1]
           c == [cs |-> id, hdr |-> h, data |-> data]
<1>1. m \in PeerMessages /\ m.cs = id
  BY Sending
<1>2. Len(m.data) \in Nat /\ (m.data \in Seq(Byte))
  BY <1>1, PeerMessage
<1>3. Len(m.data) % U24 \in 0 .. Len(m.data)
  BY <1>2, CutLength
<1>4. h.fmt \in {0, 1} => h.len = Len(m.data) % U24
  <2>1. h = Header3 \/ h \in LegalHeaders(s, m)
    BY DEF PeerHeaders
  <2> HIDE DEF s, m
  <2>2. h \in {Header0(m), Header1(s.last, m), Header2(s.last, m), Header3}
    BY <2>1, LegalCases
  <2>3. Header0(m).len = Len(m.data) % U24 /\ Header1(s.last, m).len = Len(m.data) % U24
    BY DEF Header0, Header1
  <2> QED
    BY <2>2, <2>3, HeaderNumbers
<1> HIDE DEF m, s
<1>5. id # Large => Len(m.data) <= InitMaxMessageSize
  BY <1>1 DEF OneLargePeer
<1>6. h.fmt \in {0, 1} => Fits(id, h.len)
  BY <1>2, <1>3, <1>4, <1>5, SizeAssumption DEF Fits
<1>7. c.cs = id /\ c.hdr = h
  OBVIOUS
<1> HIDE DEF c
<1>8. Announced(c)
  BY <1>6, <1>7 DEF Announced
<1> QED
  BY <1>8 DEF c

LEMMA PeerBuffer ==
  ASSUME OneLargePeer, DemuxInv, PeerBufferInv, PeerNext, UNCHANGED inputVars
  PROVE  PeerBufferInv'
<1>1. PeerType /\ wire \in Seq(PeerChunk) /\ BuffersFit /\ WireAnnounces
  BY DEF DemuxInv, DemuxType, PeerBufferInv
<1>2. BuffersFit'
  BY <1>1 DEF inputVars, BuffersFit, StreamsFit, LargestKnown
<1>3. CASE \E m \in PeerMessages : PeerBegins(m)
  <2>1. wire' = wire
    BY <1>3 DEF PeerBegins, transportVars
  <2> QED
    BY <1>1, <1>2, <2>1 DEF PeerBufferInv, WireAnnounces
<1>4. ASSUME NEW id \in PeerIds, PeerSendsPart(id) \/ PeerSendsLast(id)
      PROVE  PeerBufferInv'
  <2>1. peerStreams[id].open # << >>
    BY <1>4 DEF PeerSendsPart, PeerSendsLast
  <2>2. \E h \in PeerHeaders(peerStreams[id]) : \E size : PeerWrites(id, h, size)
    BY <1>4 DEF PeerSendsPart, PeerSendsLast
  <2>3. PICK h \in PeerHeaders(peerStreams[id]) :
          \E data : wire' = Append(wire, [cs |-> id, hdr |-> h, data |-> data])
    BY <2>2 DEF PeerWrites
  <2>4. PICK data : wire' = Append(wire, [cs |-> id, hdr |-> h, data |-> data])
    BY <2>3
  <2> DEFINE c == [cs |-> id, hdr |-> h, data |-> data]
  <2>5. Announced(c)
    BY <1>1, <2>1, HeaderAnnounces
  <2> HIDE DEF c
  <2>6. wire' = Append(wire, c)
    BY <2>4 DEF c
  <2>7. /\ Len(wire') = Len(wire) + 1 /\ wire'[Len(wire) + 1] = c /\ Len(wire) \in Nat
        /\ \A i \in 1 .. Len(wire) : wire'[i] = wire[i]
    BY <1>1, <2>6
  <2>8. WireAnnounces'
    BY <1>1, <2>5, <2>7 DEF WireAnnounces, Announced
  <2> QED
    BY <1>2, <2>8 DEF PeerBufferInv
<1> QED
  BY <1>3, <1>4 DEF PeerNext

LEMMA InputDemuxBuffer ==
  ASSUME DemuxInv, PeerBufferInv, Input
  PROVE  PeerBufferInv'
<1>1. DemuxType /\ InputType /\ wire \in Seq(PeerChunk) /\ BuffersFit /\ WireAnnounces /\ InputNext
  BY DEF DemuxInv, DemuxType, PeerBufferInv, Input
<1>2. ReceiveChunk => wire # << >> /\ wire' = Tail(wire)
  BY DEF ReceiveChunk, ReceivePart, ReceiveLast, ReceiveNothing, LoseFraming, ReadHeaders
<1>3. ~ReceiveChunk => wire' = wire
  BY <1>1 DEF InputNext, ReceiveThrows, HandleMessage, HandleThrows, transportVars
<1>4. wire # << >> => /\ Readable(Incoming) /\ Announced(Incoming)
                      /\ Len(Tail(wire)) = Len(wire) - 1 /\ Len(wire) \in Nat
                      /\ \A i \in 1 .. Len(wire) - 1 : Tail(wire)[i] = wire[i + 1]
  <2>1. ASSUME wire # << >>
        PROVE  Incoming = wire[1] /\ 1 \in 1 .. Len(wire)
    BY <1>1, <2>1, EmptySeq DEF Incoming
  <2> QED
    BY <1>1, <2>1, IncomingReadable, HeadTailProperties DEF WireAnnounces
<1>5. BuffersFit'
  BY <1>1, <1>2, <1>4, BufferStep
<1>6. WireAnnounces'
  <2>1. CASE ReceiveChunk
    <3>1. \A i \in 1 .. Len(wire) - 1 : i + 1 \in 1 .. Len(wire)
      BY <1>2, <1>4, <2>1
    <3> QED
      BY <1>1, <1>2, <1>4, <2>1, <3>1 DEF WireAnnounces, Announced
  <2>2. CASE ~ReceiveChunk
    BY <1>1, <1>3, <2>2 DEF WireAnnounces
  <2> QED
    BY <2>1, <2>2
<1> QED
  BY <1>5, <1>6 DEF PeerBufferInv

\* Every message fits the buffer of its chunk stream, also when messages are
\* aborted, provided that one chunk stream alone carries messages longer than the
\* first size: BufferHolds.
THEOREM PeerBufferHolds ==
  ASSUME OneLargePeer
  PROVE  Spec => []BufferHolds
<1>1. PeerBufferInv => BufferHolds
  BY DEF PeerBufferInv, BuffersFit, StreamsFit, StreamFits, BufferHolds
<1>2. Init => PeerBufferInv
  <2>1. Init => BuffersFit
    BY InitBuffersFit DEF Init
  <2>2. Init => WireAnnounces
    <3>1. Len(<< >>) = 0
      OBVIOUS
    <3>2. Init => Len(wire) = 0
      BY <3>1 DEF Init
    <3> QED
      BY <3>2 DEF WireAnnounces
  <2> QED
    BY <2>1, <2>2 DEF PeerBufferInv
<1>3. DemuxInv /\ PeerBufferInv /\ [Next]_vars => PeerBufferInv'
  <2>1. DemuxInv /\ PeerBufferInv /\ UNCHANGED vars => PeerBufferInv'
    BY DEF vars, transportVars, inputVars, PeerBufferInv, BuffersFit, StreamsFit, LargestKnown,
           WireAnnounces
  <2> QED
    BY <2>1, PeerBuffer, InputDemuxBuffer DEF Next
<1> QED
  BY <1>1, <1>2, <1>3, DemuxInvariant, PTL DEF Spec

=============================================================================
