---------------------------- MODULE ServerSession ----------------------------
(***************************************************************************)
(* RTMPServerSession.  GetRTMPMessage reads messages, handles the AMF ones  *)
(* (HandleAMF), and returns the first audio or video message to the caller, *)
(* who calls again.  A handler may send several messages; `outbox` holds    *)
(* those the handler under way has yet to send.                             *)
(***************************************************************************)
EXTENDS SessionMessages

VARIABLES
  m_ClientParameters,
  outbox,     \* what the handler under way still sends
  server,     \* "serving", "threw" once GetRTMPMessage has thrown, or "aborted"
  returned    \* the media returned, each with the parameters at that moment

serverVars == <<m_ClientParameters, outbox, server, returned>>

-----------------------------------------------------------------------------
ServerInit ==
  /\ m_ClientParameters = DefaultParameters
  /\ outbox = << >> /\ server = "serving" /\ returned = << >>

\* GetRTMPMessage takes the next message, of one of the given types.
Reads(types) ==
  /\ server = "serving" /\ outbox = << >>
  /\ toServer # << >>
  /\ Head(toServer).type \in types
  /\ toServer' = Tail(toServer)
  /\ UNCHANGED <<toClient, up>>

\* HandleAMF goes by the name, whichever of the two types carries it.
AmfTypes == {"AMF0", "METADATA_AMF0"}
ReadsCommand(names) == Reads(AmfTypes) /\ Head(toServer).name \in names

HasArgument == "arg" \in DOMAIN Head(toServer)

\* get_string of a value that is no string: a release build reads an empty one.
Argument == IF HasArgument THEN Head(toServer).arg ELSE ""

\* Wrong on purpose, for the mutation runs: no code in the answer.
RepliesWithoutCode(id) ==
  << Control("WINDOW_ACKNOWLEDGEMENT_SIZE"), Control("SET_PEER_BANDWITH"),
     Control("USER_CONTROL_MESSAGE"), Command("_result", id, "") >>

ConnectReplies(id) ==
  << Control("WINDOW_ACKNOWLEDGEMENT_SIZE"), Control("SET_PEER_BANDWITH"),
     Control("USER_CONTROL_MESSAGE"),
     Command("_result", id, "NetConnection.Connect.Success") >>

\* connect: the application name is kept and four messages are sent.
HandleConnect ==
  /\ ReadsCommand({"connect"}) /\ Argument # "none"
  /\ m_ClientParameters' = [m_ClientParameters EXCEPT !.app = Argument]
  /\ outbox' = ConnectReplies(Head(toServer).id)
  /\ UNCHANGED <<server, returned>>

\* A connect object without "app": at() throws, GetRTMPMessage with it.
HandleConnectThrows ==
  /\ ReadsCommand({"connect"}) /\ Argument = "none"
  /\ server' = "threw"
  /\ UNCHANGED <<m_ClientParameters, outbox, returned>>

HandleCreateStream ==
  /\ ReadsCommand({"createStream"})
  /\ outbox' = << Command("_result", Head(toServer).id, "") >>
  /\ UNCHANGED <<m_ClientParameters, server, returned>>

\* Wrong on purpose, for the mutation runs: the id is not echoed.
HandlePublishWithoutId ==
  /\ ReadsCommand({"publish"})
  /\ m_ClientParameters' = [m_ClientParameters EXCEPT !.key = Argument]
  /\ outbox' = << Command("onStatus", 5, "NetStream.Publish.Start") >>
  /\ UNCHANGED <<server, returned>>

HandlePublish ==
  /\ ReadsCommand({"publish"})
  /\ m_ClientParameters' = [m_ClientParameters EXCEPT !.key = Argument]
  /\ outbox' = << Command("onStatus", Head(toServer).id, "NetStream.Publish.Start") >>
  /\ UNCHANGED <<server, returned>>

\* ...and a debug build stops at the assertion of get_string.
AssertionFails ==
  /\ ReadsCommand({"connect", "publish"}) /\ ~HasArgument
  /\ server' = "aborted"
  /\ UNCHANGED <<m_ClientParameters, outbox, returned>>

\* onMetaData, by itself or as the frame that @setDataFrame sets.
IsOnMetaData(m) ==
  \/ m.name = "onMetaData"
  \/ m.name = "@setDataFrame" /\ m.frame = "onMetaData"

\* Any other command changes nothing and is not answered.
IgnoreCommand ==
  /\ Reads(AmfTypes)
  /\ Head(toServer).name \notin {"connect", "createStream", "publish"}
  /\ ~IsOnMetaData(Head(toServer))
  /\ UNCHANGED serverVars

-----------------------------------------------------------------------------
\* onMetaData assigns properties in order; the first missing one that is not
\* optional throws, which ends the group with its flag cleared and leaves the
\* assignments made before it.  `needed` are those up to and with f.
Assign(props, f, needed, old) ==
  IF needed \cup {f} \subseteq DOMAIN props THEN props[f] ELSE old

VideoNeeds == {"width", "height", "videocodecid"}
AudioNeeds == {"audiocodecid"}

\* A codec that is neither a number nor a name leaves the one before it; a name that
\* is not known stands for AVC and AAC.
VideoCodec(v, old) ==
  CASE v.type = "NUMBER" -> v.number
    [] v.type = "STRING" -> IF v.text = "hevc" THEN 12 ELSE 7
    [] OTHER -> old

AudioCodec(v, old) ==
  CASE v.type = "NUMBER" -> v.number
    [] v.type = "STRING" -> IF v.text = "opus" THEN 15 ELSE 10
    [] OTHER -> old

Channels(props, old) ==
  IF "audiochannels" \in DOMAIN props THEN props["audiochannels"]
  ELSE IF "stereo" \in DOMAIN props /\ props["stereo"] THEN 2 ELSE old

\* Wrong on purpose, for the mutation runs: has_video is never cleared.
StickyVideo(p, props) ==
  [p EXCEPT !.width       = Assign(props, "width", {}, @),
            !.height      = Assign(props, "height", {"width"}, @),
            !.video_codec = IF VideoNeeds \subseteq DOMAIN props
                            THEN VideoCodec(props["videocodecid"], @) ELSE @,
            !.framerate   = Assign(props, "framerate", VideoNeeds, @),
            !.has_video   = @ \/ VideoNeeds \subseteq DOMAIN props]

WithVideo(p, props) ==
  [p EXCEPT !.width       = Assign(props, "width", {}, @),
            !.height      = Assign(props, "height", {"width"}, @),
            !.video_codec = IF VideoNeeds \subseteq DOMAIN props
                            THEN VideoCodec(props["videocodecid"], @) ELSE @,
            !.framerate   = Assign(props, "framerate", VideoNeeds, @),
            !.has_video   = VideoNeeds \subseteq DOMAIN props]

WithAudio(p, props) ==
  [p EXCEPT !.audio_codec = IF AudioNeeds \subseteq DOMAIN props
                            THEN AudioCodec(props["audiocodecid"], @) ELSE @,
            !.samplerate  = Assign(props, "audiosamplerate", AudioNeeds, @),
            !.channels    = IF AudioNeeds \subseteq DOMAIN props THEN Channels(props, @) ELSE @,
            !.has_audio   = AudioNeeds \subseteq DOMAIN props]

HandleMetadata ==
  /\ Reads(AmfTypes) /\ IsOnMetaData(Head(toServer))
  /\ m_ClientParameters' =
       WithAudio(WithVideo(m_ClientParameters, Head(toServer).props), Head(toServer).props)
  /\ UNCHANGED <<outbox, server, returned>>

-----------------------------------------------------------------------------
\* Wrong on purpose, for the mutation runs: media without video are held back.
ReturnVideoOnly(type) ==
  /\ Reads({type}) /\ Head(toServer).whole /\ m_ClientParameters.has_video
  /\ returned' = Append(returned, [media |-> Head(toServer), params |-> m_ClientParameters])
  /\ UNCHANGED <<m_ClientParameters, outbox, server>>

ReturnMedia(type) ==
  /\ Reads({type}) /\ Head(toServer).whole
  /\ returned' = Append(returned, [media |-> Head(toServer), params |-> m_ClientParameters])
  /\ UNCHANGED <<m_ClientParameters, outbox, server>>

\* A payload shorter than the packet's own header: Parse throws.
ParseMediaThrows ==
  /\ Reads({"AUDIO", "VIDEO"}) /\ ~Head(toServer).whole
  /\ server' = "threw"
  /\ UNCHANGED <<m_ClientParameters, outbox, returned>>

\* Everything else goes to the endpoint's HandleMessage.
PassOn ==
  /\ Reads({"USER_CONTROL_MESSAGE", "WINDOW_ACKNOWLEDGEMENT_SIZE", "SET_PEER_BANDWITH"})
  /\ UNCHANGED serverVars

SendReply ==
  /\ server = "serving" /\ outbox # << >>
  /\ up /\ Len(toClient) < ChannelCapacity
  /\ toClient' = Append(toClient, Head(outbox))
  /\ outbox' = Tail(outbox)
  /\ UNCHANGED <<m_ClientParameters, server, returned, toServer, up>>

\* The transport throws, in a handler's send or in the next read.
ServerThrows ==
  /\ server = "serving" /\ ~up
  /\ outbox = << >> => toServer = << >>
  /\ server' = "threw"
  /\ UNCHANGED <<m_ClientParameters, outbox, returned, channelVars>>

ServerNext ==
  \/ HandleConnect \/ HandleConnectThrows \/ HandleCreateStream \/ HandlePublish
  \/ AssertionFails \/ IgnoreCommand \/ HandleMetadata \/ ParseMediaThrows \/ PassOn
  \/ \E type \in {"AUDIO", "VIDEO"} : ReturnMedia(type)
  \/ SendReply \/ ServerThrows

=============================================================================
