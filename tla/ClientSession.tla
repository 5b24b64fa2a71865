---------------------------- MODULE ClientSession ----------------------------
(***************************************************************************)
(* RTMPClientSession.  SendClientParameters runs the commands that open a   *)
(* stream, one after the other in the caller's thread, waiting for three of *)
(* the answers; SendRTMPMessage then sends media.  `stage` is the command   *)
(* that the call sends next or the one whose answer it waits for.           *)
(***************************************************************************)
EXTENDS SessionMessages

CONSTANTS
  Parameters,   \* the ClientParameters an application may pass
  MaxSetups,    \* bound on the calls of SendClientParameters
  MaxMedia      \* bound on the media messages sent

VARIABLES
  stage,        \* progress of SendClientParameters
  sent_params,
  params,       \* argument of the last call of SendClientParameters
  setups,       \* calls of SendClientParameters so far
  mediaSent     \* media messages sent so far

clientVars == <<stage, sent_params, params, setups, mediaSent>>

-----------------------------------------------------------------------------
Stage ==
  { "idle", "connect", "connecting", "releaseStream", "FCPublish",
    "createStream", "creating", "publish", "publishing", "dataFrame",
    "threw" }

\* The stages that wait in GetCommandResponse, and the id they wait for.
Awaited == [connecting |-> 1, creating |-> 4, publishing |-> 0]

ClientInit ==
  /\ stage = "idle" /\ sent_params = FALSE /\ params = DefaultParameters
  /\ setups = 0 /\ mediaSent = 0

SendClientParameters(p) ==
  /\ stage \in {"idle", "threw"}
  /\ setups < MaxSetups
  /\ stage' = "connect"
  /\ params' = p
  /\ setups' = setups + 1
  /\ UNCHANGED <<sent_params, mediaSent, channelVars>>

\* Stage `from` sends m and goes on to stage `to`.
SendAt(from, m, to) ==
  /\ stage = from
  /\ up /\ Len(toServer) < ChannelCapacity
  /\ toServer' = Append(toServer, m)
  /\ stage' = to
  /\ UNCHANGED <<params, setups, mediaSent, toClient, up>>

SendAmfConnect ==
  /\ SendAt("connect", Command("connect", 1, params.app), "connecting")
  /\ UNCHANGED sent_params

SendReleaseStream ==
  /\ SendAt("releaseStream", Command("releaseStream", 2, params.key), "FCPublish")
  /\ UNCHANGED sent_params

SendFCPublish ==
  /\ SendAt("FCPublish", Command("FCPublish", 3, params.key), "createStream")
  /\ UNCHANGED sent_params

SendCreateStream ==
  /\ SendAt("createStream", Command("createStream", 4, ""), "creating")
  /\ UNCHANGED sent_params

\* Wrong on purpose, for the mutation runs: the answer is not waited for.
SendPublishWithoutWait ==
  /\ SendAt("publish", Command("publish", 0, params.key), "dataFrame")
  /\ UNCHANGED sent_params

SendPublish ==
  /\ SendAt("publish", Command("publish", 0, params.key), "publishing")
  /\ UNCHANGED sent_params

\* Only the properties of the kinds of media the stream has.
VideoProps(p) ==
  IF p.has_video
  THEN [width |-> p.width, height |-> p.height, videocodecid |-> Number(p.video_codec),
        framerate |-> p.framerate]
  ELSE << >>

AudioProps(p) ==
  IF p.has_audio
  THEN [audiocodecid |-> Number(p.audio_codec), audiosamplerate |-> p.samplerate,
        audiochannels |-> p.channels, stereo |-> p.channels = 2]
  ELSE << >>

BothProps(v, a) ==
  [f \in DOMAIN v \cup DOMAIN a |-> IF f \in DOMAIN v THEN v[f] ELSE a[f]]

PropsOf(p) == BothProps(VideoProps(p), AudioProps(p))

SendDataFrameParameters ==
  /\ SendAt("dataFrame", Metadata(PropsOf(params)), "idle")
  /\ sent_params' = TRUE

-----------------------------------------------------------------------------
\* GetCommandResponse reads a message: the answer, if it is an AMF0 message
\* with the awaited id; any other AMF0 message is dropped, and the rest goes
\* to the endpoint's HandleMessage.
Waiting == stage \in DOMAIN Awaited

IsAnswer(m) == m.type = "AMF0" /\ m.id = Awaited[stage]

\* Wrong on purpose, for the mutation runs: any answer to publish will do.
AcceptsAnyStatus(m) ==
  stage \in {"connecting", "creating"} => m.name = "_result"

\* What each command's callback accepts.
Accepts(m) ==
  CASE stage = "connecting" -> m.name = "_result" /\ m.arg = "NetConnection.Connect.Success"
    [] stage = "creating"   -> m.name = "_result"
    [] stage = "publishing" -> m.name = "onStatus" /\ m.arg = "NetStream.Publish.Start"

NextStage == [connecting |-> "releaseStream", creating |-> "publish", publishing |-> "dataFrame"]

ReadResponse ==
  /\ Waiting
  /\ toClient # << >>
  /\ toClient' = Tail(toClient)
  /\ UNCHANGED <<sent_params, params, setups, mediaSent, toServer, up>>

PassOver == ReadResponse /\ ~IsAnswer(Head(toClient)) /\ UNCHANGED stage

TakeAnswer ==
  /\ ReadResponse
  /\ IsAnswer(Head(toClient)) /\ Accepts(Head(toClient))
  /\ stage' = NextStage[stage]

\* rtmp_exception(NETSTREAM_CONNECTION)
RefuseAnswer ==
  /\ ReadResponse
  /\ IsAnswer(Head(toClient)) /\ ~Accepts(Head(toClient))
  /\ stage' = "threw"

\* The transport throws in the middle of the call.
SetupThrows ==
  /\ ~up
  /\ stage \notin {"idle", "threw"}
  /\ Waiting => toClient = << >>
  /\ stage' = "threw"
  /\ UNCHANGED <<sent_params, params, setups, mediaSent, channelVars>>

\* Wrong on purpose, for the mutation runs: the assertion is gone.
SendMediaAnyTime(type) ==
  /\ stage \in {"idle", "threw"}
  /\ mediaSent < MaxMedia
  /\ up /\ Len(toServer) < ChannelCapacity
  /\ toServer' = Append(toServer, Media(type, mediaSent, params))
  /\ mediaSent' = mediaSent + 1
  /\ UNCHANGED <<stage, sent_params, params, setups, toClient, up>>

\* The assertion of SendRTMPMessage: parameters were sent before, even if the last
\* call of SendClientParameters threw.
SendRTMPMessage(type) ==
  /\ stage \in {"idle", "threw"} /\ sent_params
  /\ mediaSent < MaxMedia
  /\ up /\ Len(toServer) < ChannelCapacity
  /\ toServer' = Append(toServer, Media(type, mediaSent, params))
  /\ mediaSent' = mediaSent + 1
  /\ UNCHANGED <<stage, sent_params, params, setups, toClient, up>>

Setup ==
  \/ SendAmfConnect \/ SendReleaseStream \/ SendFCPublish
  \/ SendCreateStream \/ SendPublish \/ SendDataFrameParameters
  \/ PassOver \/ TakeAnswer \/ RefuseAnswer \/ SetupThrows

ClientNext ==
  \/ \E p \in Parameters : SendClientParameters(p)
  \/ Setup
  \/ \E type \in {"AUDIO", "VIDEO"} : SendRTMPMessage(type)

=============================================================================
