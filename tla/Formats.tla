------------------------------- MODULE Formats -------------------------------
(***************************************************************************)
(* What is serialized at one end and parsed at the other: a packet of       *)
(* rtmp_proto.h, and the URL that an application puts together and ParseURL *)
(* takes apart.  On the way a packet may lose its end, as one does whose    *)
(* message says a length shorter than what it holds.                        *)
(***************************************************************************)
EXTENDS PacketFormats, StreamUrl

CONSTANT Samples  \* [format |-> "URL" or a packet of rtmp_proto.h, value |-> ...]

\* The integers of a packet have the width of their type, random blocks their length;
\* a payload is any run of bytes.
IsPacketValue(format, packet) ==
  LET fields == Structures[format].reads IN
  /\ DOMAIN packet = Names(fields)
  /\ \A i \in DOMAIN fields :
       LET v == packet[fields[i].name] IN
       IF fields[i].name = "payload" THEN v \in Seq(Byte)
       ELSE IF fields[i].size = 0 THEN v \in [1 .. fields[i].n -> Byte]
       ELSE v \in Nat /\ v < Power(fields[i].size)

\* A port is one token.
IsUrl(u) ==
  /\ u \in [type : {<<"rtmp">>, <<"rtmps">>}, url : Seq(STRING), port : Seq(STRING),
            app : Seq(STRING), key : Seq(STRING)]
  /\ Len(u.port) <= 1

ASSUME SamplesAssumption ==
  \A s \in Samples :
    /\ s.format \in DOMAIN Structures \cup {"URL"}
    /\ IF s.format = "URL" THEN IsUrl(s.value) ELSE IsPacketValue(s.format, s.value)

VARIABLES
  sample,   \* what is serialized
  stage,    \* "object", "whole", "cut" or "parsed"; also those of AMFMessages
  written,  \* bytes that Serialize wrote
  buffer,   \* what Parse is given
  result    \* [ok, at, value]: what Parse made of it, not ok if it threw

vars == <<sample, stage, written, buffer, result>>

\* proto://host[:port]/app/key
UrlText(u) ==
  u.type \o <<"://">> \o u.url \o (IF u.port = << >> THEN << >> ELSE <<":">> \o u.port)
    \o <<"/">> \o u.app \o <<"/">> \o u.key

Init ==
  /\ sample \in Samples
  /\ stage = IF sample.format = "URL" THEN "whole" ELSE "object"
  /\ buffer = IF sample.format = "URL" THEN UrlText(sample.value) ELSE << >>
  /\ written = 0 /\ result = Thrown

SerializeToBuffer ==
  /\ stage = "object"
  /\ \E garbage \in Garbage :
       LET bytes == PacketBytes(sample.format, sample.value, garbage)
       IN /\ buffer' = Filled(bytes, PacketLength(sample.format, sample.value))
          /\ written' = Len(bytes)
  /\ stage' = "whole"
  /\ UNCHANGED <<sample, result>>

Cut ==
  /\ stage = "whole" /\ sample.format # "URL"
  /\ \E n \in 0 .. Len(buffer) - 1 : buffer' = SubSeq(buffer, 1, n)
  /\ stage' = "cut"
  /\ UNCHANGED <<sample, written, result>>

Parse ==
  /\ stage \in {"whole", "cut"}
  /\ result' = IF sample.format = "URL" THEN ParseURL(buffer)
               ELSE ParsePacket(sample.format, buffer)
  /\ stage' = "parsed"
  /\ UNCHANGED <<sample, written, buffer>>

Next == SerializeToBuffer \/ Cut \/ Parse

Spec == Init /\ [][Next]_vars

-----------------------------------------------------------------------------
(* What survives the way there and back.                                    *)

\* A colon is taken for the one before the port, wherever it is.
PortableUrl(u) ==
  /\ Range(u.url \o u.app) \cap {":", "/", "://"} = {}
  /\ Range(u.key) \cap {":", "://"} = {}
  /\ u.port = << >> \/ Atoi(u.port) # 0

IsPacket(s) == s.format \in DOMAIN Structures

Portable(s) == IsPacket(s) \/ (s.format = "URL" /\ PortableUrl(s.value))

\* The fields of a packet as far as their width goes; of composition_time only the
\* last byte is what it was.
SamePacket(format, v, w) ==
  \A i \in DOMAIN Structures[format].reads :
    LET f == Structures[format].reads[i]
        n == IF f.name = "composition_time" THEN 1 ELSE f.n
    IN IF f.size = 0 THEN w[f.name] = v[f.name]
       ELSE w[f.name] % Power(n) = v[f.name] % Power(n) /\ w[f.name] < Power(f.n)

SameUrl(u, w) ==
  w = [u EXCEPT !.port = IF u.port = << >> THEN DefaultPort(u.type) ELSE Atoi(u.port)]

AsSent(s, w) ==
  IF s.format = "URL" THEN SameUrl(s.value, w) ELSE SamePacket(s.format, s.value, w)

\* What was there of a packet that lost its end: all of it, or less of the payload.
StartOf(s, w) ==
  IF "payload" \in DOMAIN w
  THEN /\ IsPrefix(w.payload, s.value.payload)
       /\ SamePacket(s.format, [s.value EXCEPT !.payload = w.payload], w)
  ELSE SamePacket(s.format, s.value, w)

\* Three of the four bytes of the message stream id are read, and none of the padding.
ReadsAll(format) == format \notin {"ChunkMessageHeader0", "SetPeerBandwith"}

-----------------------------------------------------------------------------
\* Serialize writes just the bytes that GetLength promised, never beyond the
\* buffer.  It writes fewer for SetPeerBandwith, where the length is that of a
\* padded struct.
FillsBuffer ==
  stage = "whole" /\ IsPacket(sample) =>
    /\ written <= PacketLength(sample.format, sample.value)
    /\ sample.format # "SetPeerBandwith" =>
         written = PacketLength(sample.format, sample.value)

\* What was serialized is what is parsed: every field that fits its width, every
\* part of a URL; and no byte is left that the next packet would begin with.
ReadBack ==
  stage = "parsed" /\ Portable(sample)
    /\ (IsPacket(sample) => Len(buffer) = PacketLength(sample.format, sample.value)) =>
      /\ result.ok /\ AsSent(sample, result.value)
      /\ ReadsAll(sample.format) => result.at = Len(buffer)

\* Parsing a packet that lost its end throws, or returns what was there of it: no
\* field is made up of missing bytes.
CutNeverInvents ==
  stage = "parsed" /\ IsPacket(sample) /\ result.ok => StartOf(sample, result.value)

=============================================================================
