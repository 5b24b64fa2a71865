--------------------------- MODULE SessionMessages ---------------------------
(***************************************************************************)
(* What a client session and a server session say to each other: the AMF    *)
(* commands, the stream's metadata, media, and the control messages that    *)
(* sessions only pass on to their endpoint.  Below them is a connection     *)
(* that keeps the promise of MessageChannel in both directions.             *)
(***************************************************************************)
EXTENDS Naturals, Sequences

CONSTANT ChannelCapacity   \* bound on the messages the transport buffers per direction

ASSUME CapacityAssumption == ChannelCapacity \in Nat \ {0}

VARIABLES
  toServer, toClient,  \* messages in flight in either direction
  up                   \* FALSE once the connection is broken

channelVars == <<toServer, toClient, up>>

-----------------------------------------------------------------------------
\* An AMF0 command: name, transaction id, and the one argument that matters
\* (the app of connect, the stream key of publish, the code of a status); there is no
\* arg if that one is not a string.
Command(name, id, arg) == [type |-> "AMF0", name |-> name, id |-> id, arg |-> arg]

\* A codec among the properties of a stream: a number or, from some encoders, a name.
Number(n) == [type |-> "NUMBER", number |-> n]
Text(name) == [type |-> "STRING", text |-> name]

\* @setDataFrame of what the frame is called: props maps the properties present to
\* their values.
Metadata(props) ==
  [type |-> "METADATA_AMF0", name |-> "@setDataFrame", frame |-> "onMetaData", props |-> props]

Control(type) == [type |-> type]

\* A packet of RTMPClientSession, the body-th; whole unless it is shorter than
\* the packet's own header.  `about` is what the application last announced, and
\* no receiver reads it.
Media(type, body, about) ==
  [type |-> type, whole |-> TRUE, body |-> body, about |-> about]

\* The fields of ClientParameters that sessions treat differently.  framerate
\* stands for video_datarate too, samplerate for audio_datarate and samplesize.
DefaultParameters ==
  [ app |-> "", key |-> "",
    has_video |-> FALSE, width |-> 0, height |-> 0, video_codec |-> 7, framerate |-> 0,
    has_audio |-> FALSE, audio_codec |-> 10, samplerate |-> 0, channels |-> 0 ]

\* What parameters say about the stream: the fields of a kind of media mean
\* nothing without that kind.
Described(p) ==
  [ names |-> <<p.app, p.key>>,
    video |-> IF p.has_video
              THEN <<p.width, p.height, p.video_codec, p.framerate>> ELSE << >>,
    audio |-> IF p.has_audio
              THEN <<p.audio_codec, p.samplerate, p.channels>> ELSE << >> ]

-----------------------------------------------------------------------------
ChannelInit == toServer = << >> /\ toClient = << >> /\ up = TRUE

\* The connection breaks: a suffix of what is in flight either way is lost.
Break ==
  /\ up
  /\ up' = FALSE
  /\ \E k \in 0 .. Len(toServer) : toServer' = SubSeq(toServer, 1, k)
  /\ \E k \in 0 .. Len(toClient) : toClient' = SubSeq(toClient, 1, k)

=============================================================================
