---------------------------- MODULE PacketFormats ----------------------------
(***************************************************************************)
(* The structures of rtmp_proto.h as bytes: what WriteDataType and          *)
(* ReadDataType do with the memory of an integer on a little-endian host,   *)
(* and for every structure the fields that Serialize and ParseRef go        *)
(* through and the length that GetLength promises.  A byte has Radix        *)
(* values, a block of random bytes Block of them.                           *)
(***************************************************************************)
EXTENDS Integers, Sequences, SequencesExt

CONSTANTS
  Radix,  \* values of a byte: 256
  Block   \* random bytes of C1 and C2: 1528

ASSUME FormatsAssumption == Radix \in Nat \ {0, 1} /\ Block \in Nat

Byte == 0 .. Radix - 1

\* Memory that was not written, or that is not the program's: any byte.
Garbage == [1 .. 2 -> Byte]

-----------------------------------------------------------------------------
(* framework.h                                                              *)

\* An integer of a packet has at most four bytes.
Power(n) ==
  CASE n = 0 -> 1
    [] n = 1 -> Radix
    [] n = 2 -> Radix * Radix
    [] n = 3 -> Radix * Radix * Radix
    [] n = 4 -> Radix * Radix * Radix * Radix

Memory(v, size) == [i \in 1 .. size |-> (v \div Power(i - 1)) % Radix]

Value(memory) ==
  LET Digit(i) == IF i \in DOMAIN memory THEN memory[i] * Power(i - 1) ELSE 0
  IN Digit(1) + Digit(2) + Digit(3) + Digit(4)

\* _ntohs, _ntohl, _ntohll; other sizes are left alone.
Converted(memory) == IF Len(memory) \in {2, 4, 8} THEN Reverse(memory) ELSE memory

\* The n bytes that end the memory of v, which begin before it if v has fewer.
WriteDataType(v, size, n, little_endian, garbage) ==
  LET memory == IF little_endian THEN Memory(v, size) ELSE Converted(Memory(v, size))
  IN [i \in 1 .. n |->
        IF size - n + i < 1 THEN garbage[i] ELSE memory[size - n + i]]

\* Wrong on purpose, for the mutation runs: short integers go to the wrong end.
ReadsLowEnd(old, data, size, little_endian) ==
  LET memory == [i \in 1 .. size |->
                   IF i \in DOMAIN data THEN data[i] ELSE Memory(old, size)[i]]
  IN Value(IF little_endian THEN memory ELSE Converted(memory))

\* An integer that held old, after ReadDataType put data into its memory.
ReadDataType(old, data, size, little_endian) ==
  LET at == IF little_endian THEN 0 ELSE size - Len(data)
      memory == [i \in 1 .. size |->
                   IF i - at \in DOMAIN data THEN data[i - at] ELSE Memory(old, size)[i]]
  IN Value(IF little_endian THEN memory ELSE Converted(memory))

\* Wrong on purpose, for the mutation runs: what is there is taken.
HasEnough(buffer, at, n) == TRUE

\* The check of ReadDataType and ReadDataBytes, and what they copy.
Has(buffer, at, n) == Len(buffer) - at >= n
Part(buffer, at, n) ==
  [i \in 1 .. n |-> IF at + i <= Len(buffer) THEN buffer[at + i] ELSE 0]

\* SerializeToBuffer: the buffer has the length that GetLength returns, and zeros
\* where Serialize does not write.
Filled(bytes, length) ==
  bytes \o [i \in 1 .. (IF length > Len(bytes) THEN length - Len(bytes) ELSE 0) |-> 0]

\* What Parse ends with: an exception, or a value and the number of bytes used.
Thrown == [ok |-> FALSE, at |-> 0, value |-> << >>]
Parsed(at, value) == [ok |-> TRUE, at |-> at, value |-> value]

-----------------------------------------------------------------------------
(* rtmp_proto.cpp.  A field of size 0 is a run of bytes, all that is left   *)
(* if it is the payload.                                                    *)

Field(name, size, n, little_endian) ==
  [name |-> name, size |-> size, n |-> n, little_endian |-> little_endian]
U8(name) == Field(name, 1, 1, FALSE)
U16(name) == Field(name, 2, 2, FALSE)
U24(name) == Field(name, 4, 3, FALSE)
U32(name) == Field(name, 4, 4, FALSE)
U32LE(name) == Field(name, 4, 4, TRUE)
Payload == Field("payload", 0, 0, FALSE)

Same(fields, length) == [writes |-> fields, reads |-> fields, length |-> length]
OneInteger(name) == Same(<< U32(name) >>, 4)

C0 == Same(<< U8("version") >>, 1)
C1 == Same(<< U32("time"), U32("zero"), Field("random_bytes", 0, Block, FALSE) >>, 8 + Block)
C2 == Same(<< U32("time"), U32("time2"), Field("random_bytes_echo", 0, Block, FALSE) >>,
           8 + Block)
ChunkBasicHeader == Same(<< U8("d") >>, 1)

\* Of the message stream id three of the four bytes are read.
ChunkMessageHeader0 ==
  [writes |-> << U24("timestamp"), U24("message_length"), U8("message_type_id"),
                 U32LE("message_stream_id") >>,
   reads |-> << U24("timestamp"), U24("message_length"), U8("message_type_id"),
                Field("message_stream_id", 4, 3, TRUE) >>,
   length |-> 3 + 3 + 1 + 4]
ChunkMessageHeader1 ==
  Same(<< U24("timestamp_delta"), U24("message_length"), U8("message_type_id") >>, 3 + 3 + 1)
ChunkMessageHeader2 == Same(<< U24("timestamp_delta") >>, 3)

\* The struct inside has two fields, and three bytes of padding after them.
SetPeerBandwith ==
  Same(<< U32("acknowledgement_window_size"), U8("limit_type") >>, 8)
UCM_StreamBegin == Same(<< U16("type"), U32LE("stream_id") >>, 2 + 4)

AudioPacketAAC == Same(<< U8("d"), U8("aac_packet_type"), Payload >>, 2)

\* composition_time is written as one byte with the two before it in memory.
VideoPacket ==
  [writes |-> << U8("d"), U8("avc_packet_type"),
                 Field("composition_time", 1, 3, FALSE), Payload >>,
   reads |-> << U8("d"), U8("avc_packet_type"), U24("composition_time"), Payload >>,
   length |-> 2 + 3]

Structures ==
  [C0 |-> C0, C1 |-> C1, C2 |-> C2, ChunkBasicHeader |-> ChunkBasicHeader,
   ChunkMessageHeader0 |-> ChunkMessageHeader0, ChunkMessageHeader1 |-> ChunkMessageHeader1,
   ChunkMessageHeader2 |-> ChunkMessageHeader2, SetChunkSize |-> OneInteger("chunk_size"),
   AbortMessage |-> OneInteger("chunk_stream_id"),
   Acknowledgement |-> OneInteger("sequence_number"),
   WindowsAcknowledgementSize |-> OneInteger("acknowledgement_window_size"),
   SetPeerBandwith |-> SetPeerBandwith, UCM_StreamBegin |-> UCM_StreamBegin,
   AudioPacketAAC |-> AudioPacketAAC, VideoPacket |-> VideoPacket]

\* Wrong on purpose, for the mutation runs: the payload is not counted.
LengthWithoutPayload(format, packet) == Structures[format].length

PacketLength(format, packet) ==
  Structures[format].length + (IF "payload" \in DOMAIN packet THEN Len(packet.payload) ELSE 0)

\* A structure has at most four fields.
PacketBytes(format, packet, garbage) ==
  LET fields == Structures[format].writes
      Written(i) ==
        IF i \notin DOMAIN fields THEN << >>
        ELSE IF fields[i].size = 0 THEN packet[fields[i].name]
        ELSE WriteDataType(packet[fields[i].name], fields[i].size, fields[i].n,
                           fields[i].little_endian, garbage)
  IN Written(1) \o Written(2) \o Written(3) \o Written(4)

\* Where field i begins: behind those before it.
Start(fields, i) ==
  LET Width(j) == IF j < i /\ j \in DOMAIN fields THEN fields[j].n ELSE 0
  IN Width(1) + Width(2) + Width(3) + Width(4)

Names(fields) == { fields[i].name : i \in DOMAIN fields }

\* Parsing into a packet whose integers are 0, as every caller does.
ParsePacket(format, buffer) ==
  LET fields == Structures[format].reads
      Used(i) == IF fields[i].name = "payload" THEN Len(buffer) - Start(fields, i)
                 ELSE fields[i].n
      Read(i) ==
        LET data == Part(buffer, Start(fields, i), Used(i))
        IN IF fields[i].size = 0 THEN data
           ELSE ReadDataType(0, data, fields[i].size, fields[i].little_endian)
  IN IF \E i \in DOMAIN fields : ~Has(buffer, Start(fields, i), fields[i].n) THEN Thrown
     ELSE Parsed(Start(fields, Len(fields)) + Used(Len(fields)),
                 [name \in Names(fields) |->
                    Read(CHOOSE i \in DOMAIN fields : fields[i].name = name)])

=============================================================================
