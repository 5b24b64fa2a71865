---------------------------- MODULE ForeignClient ----------------------------
(***************************************************************************)
(* RTMPServerSession against a client that is not EasyRTMP's and sends any  *)
(* sequence of the given messages: other commands, metadata with some of    *)
(* the properties, media before metadata.  The client is the environment of *)
(* the server session, not part of the repository.                          *)
(***************************************************************************)
EXTENDS ServerSession

CONSTANTS
  ClientMessages,   \* what the client may send
  MaxSent           \* bound on how many it sends

\* Properties come in the two messages that HandleAMF reads them from, and in no other.
ASSUME ClientAssumption ==
  \A m \in ClientMessages : "props" \in DOMAIN m <=> m.type \in AmfTypes /\ IsOnMetaData(m)

VARIABLE log        \* what it has sent

foreignClientVars == <<channelVars, serverVars, log>>

-----------------------------------------------------------------------------
ForeignSends(m) ==
  /\ up /\ Len(toServer) < ChannelCapacity
  /\ Len(log) < MaxSent
  /\ toServer' = Append(toServer, m)
  /\ log' = Append(log, m)
  /\ UNCHANGED <<toClient, up, serverVars>>

ForeignClientReads ==
  /\ toClient # << >>
  /\ toClient' = Tail(toClient)
  /\ UNCHANGED <<toServer, up, serverVars, log>>

ForeignClientInit == ChannelInit /\ ServerInit /\ log = << >>

ForeignClientNext ==
  \/ \E m \in ClientMessages : ForeignSends(m)
  \/ ForeignClientReads
  \/ ServerNext /\ UNCHANGED log

ForeignClientSpec == ForeignClientInit /\ [][ForeignClientNext]_foreignClientVars

-----------------------------------------------------------------------------
\* How many messages the server has taken: no connection breaks here.
Taken == Len(log) - Len(toServer)

IsMetadata(m) == "props" \in DOMAIN m

\* The latest metadata among them.
LatestMetadata ==
  { i \in 1 .. Taken : IsMetadata(log[i]) /\ \A j \in i + 1 .. Taken : ~IsMetadata(log[j]) }

SaysCodec(v) == v.type \in {"NUMBER", "STRING"}

VideoIs(p, props) ==
  /\ VideoNeeds \subseteq DOMAIN props
  /\ p.width = props["width"] /\ p.height = props["height"]
  /\ SaysCodec(props["videocodecid"]) =>
       p.video_codec = VideoCodec(props["videocodecid"], p.video_codec)

AudioIs(p, props) ==
  /\ AudioNeeds \subseteq DOMAIN props
  /\ SaysCodec(props["audiocodecid"]) =>
       p.audio_codec = AudioCodec(props["audiocodecid"], p.audio_codec)

\* When the parameters claim a kind of media, the properties that decoding it
\* needs are those of the latest metadata and never a mixture with older ones,
\* although each metadata message may lack some.  One mixture is left out: if the
\* codec is there but neither a number nor a name, the code keeps an older one.
ParametersFromOneMetadata ==
  /\ m_ClientParameters.has_video =>
       \E i \in LatestMetadata : VideoIs(m_ClientParameters, log[i].props)
  /\ m_ClientParameters.has_audio =>
       \E i \in LatestMetadata : AudioIs(m_ClientParameters, log[i].props)

=============================================================================
