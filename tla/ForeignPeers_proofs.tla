------------------------ MODULE ForeignPeers_proofs -------------------------
(***************************************************************************)
(* Theorems about the two sessions and peers that are not EasyRTMP's.  First*)
(* ParametersFromOneMetadata of ForeignClient, for any client: any messages,*)
(* metadata with any properties, in any number and order.                   *)
(*                                                                          *)
(* Then PublishGranted of ForeignServer, for any parameters, any number of  *)
(* setups and any capacity of the channel.  Answers are told apart by their *)
(* ids only, and one that was not waited for is still on its way when the next*)
(* setup begins.  What saves the client is the order of the channel: such an*)
(* answer comes before the answer to the connect of the new setup.          *)
(***************************************************************************)
EXTENDS ForeignClient, ForeignServer, SequenceFacts, TLAPS

-----------------------------------------------------------------------------
(* What onMetaData makes of the parameters.                                 *)

Fields == DOMAIN DefaultParameters

\* A codec that is a number or a name does not depend on the one before it.
LEMMA SameCodec ==
  ASSUME NEW v, SaysCodec(v), NEW old, NEW older
  PROVE  /\ VideoCodec(v, old) = VideoCodec(v, older)
         /\ AudioCodec(v, old) = AudioCodec(v, older)
  BY DEF SaysCodec, VideoCodec, AudioCodec

\* The video properties are all there, or has_video is cleared.
LEMMA VideoAssigned ==
  ASSUME NEW p, DOMAIN p = Fields, NEW props
  PROVE  LET q == WithVideo(p, props)
         IN  /\ DOMAIN q = Fields
             /\ q.has_video => VideoIs(q, props)
<1>1. /\ DOMAIN WithVideo(p, props) = Fields
      /\ WithVideo(p, props).has_video =>
           /\ VideoNeeds \subseteq DOMAIN props
           /\ WithVideo(p, props).width = props["width"]
           /\ WithVideo(p, props).height = props["height"]
           /\ WithVideo(p, props).video_codec = VideoCodec(props["videocodecid"], p.video_codec)
  BY DEF WithVideo, Assign, VideoNeeds, Fields, DefaultParameters
<1> QED
  BY <1>1, SameCodec DEF VideoIs

\* ...and the same for audio, which leaves the video fields as they are.
LEMMA AudioAssigned ==
  ASSUME NEW p, DOMAIN p = Fields, NEW props
  PROVE  LET q == WithAudio(p, props)
         IN  /\ DOMAIN q = Fields
             /\ q.has_audio => AudioIs(q, props)
             /\ q.has_video = p.has_video
             /\ q.width = p.width /\ q.height = p.height /\ q.video_codec = p.video_codec
<1>1. /\ DOMAIN WithAudio(p, props) = Fields
      /\ WithAudio(p, props).has_audio =>
           /\ AudioNeeds \subseteq DOMAIN props
           /\ WithAudio(p, props).audio_codec = AudioCodec(props["audiocodecid"], p.audio_codec)
      /\ WithAudio(p, props).has_video = p.has_video
      /\ WithAudio(p, props).width = p.width /\ WithAudio(p, props).height = p.height
      /\ WithAudio(p, props).video_codec = p.video_codec
  BY DEF WithAudio, AudioNeeds, Fields, DefaultParameters
<1> QED
  BY <1>1, SameCodec DEF AudioIs

LEMMA MetadataAssigned ==
  ASSUME NEW p, DOMAIN p = Fields, NEW props
  PROVE  LET q == WithAudio(WithVideo(p, props), props)
         IN  /\ DOMAIN q = Fields
             /\ q.has_video => VideoIs(q, props)
             /\ q.has_audio => AudioIs(q, props)
<1> DEFINE v == WithVideo(p, props)
<1>1. DOMAIN v = Fields /\ (v.has_video => VideoIs(v, props))
  BY VideoAssigned
<1> HIDE DEF v
<1> QED
  BY <1>1, AudioAssigned DEF VideoIs, v

-----------------------------------------------------------------------------
(* The invariant: what is in flight is the end of what was sent.            *)

LogInv ==
  /\ log \in Seq(ClientMessages) /\ toServer \in Seq(ClientMessages)
  /\ Len(toServer) <= Len(log)
  /\ \A i \in 1 .. Len(toServer) : toServer[i] = log[Taken + i]

MetadataInv ==
  /\ LogInv
  /\ DOMAIN m_ClientParameters = Fields
  /\ ParametersFromOneMetadata

LEMMA InitMetadata ==
  ASSUME ForeignClientInit
  PROVE  MetadataInv
<1>1. toServer = << >> /\ log = << >> /\ m_ClientParameters = DefaultParameters
  BY DEF ForeignClientInit, ChannelInit, ServerInit
<1>2. LogInv
  BY <1>1 DEF LogInv
<1>3. ~m_ClientParameters.has_video /\ ~m_ClientParameters.has_audio
  BY <1>1 DEF DefaultParameters
<1> QED
  BY <1>1, <1>2, <1>3 DEF MetadataInv, Fields, ParametersFromOneMetadata

\* What ParametersFromOneMetadata says something about.
Claims(p) ==
  <<p.has_video, p.has_audio, p.width, p.height, p.video_codec, p.audio_codec>>

LEMMA SameClaims ==
  ASSUME ParametersFromOneMetadata, LatestMetadata' = LatestMetadata,
         \A i \in LatestMetadata : log'[i] = log[i],
         Claims(m_ClientParameters)' = Claims(m_ClientParameters)
  PROVE  ParametersFromOneMetadata'
  BY DEF Claims, ParametersFromOneMetadata, VideoIs, AudioIs

LEMMA SendStep ==
  ASSUME MetadataInv, NEW m \in ClientMessages, ForeignSends(m)
  PROVE  MetadataInv'
<1>1. /\ toServer' = Append(toServer, m) /\ log' = Append(log, m)
      /\ UNCHANGED m_ClientParameters
  BY DEF ForeignSends, serverVars
<1>2. /\ log' \in Seq(ClientMessages) /\ toServer' \in Seq(ClientMessages)
      /\ Len(log') = Len(log) + 1 /\ Len(toServer') = Len(toServer) + 1
      /\ Len(log) \in Nat /\ Len(toServer) \in Nat /\ Len(toServer) <= Len(log)
  BY <1>1 DEF MetadataInv, LogInv
<1>3. Taken' = Taken /\ Taken \in 0 .. Len(log)
  BY <1>2 DEF Taken
<1>4. \A i \in 1 .. Len(log) : log'[i] = log[i]
  BY <1>1 DEF MetadataInv, LogInv
<1>5. LogInv'
  <2>1. \A i \in 1 .. Len(toServer') : toServer'[i] = log'[Taken + i]
    <3>1. \A i \in 1 .. Len(toServer) : toServer'[i] = toServer[i] /\ Taken + i \in 1 .. Len(log)
      BY <1>1, <1>2 DEF MetadataInv, LogInv, Taken
    <3>2. toServer'[Len(toServer) + 1] = m /\ log'[Len(log) + 1] = m
      BY <1>1 DEF MetadataInv, LogInv
    <3>3. Taken + Len(toServer) + 1 = Len(log) + 1
      BY <1>2 DEF Taken
    <3>4. \A i \in 1 .. Len(toServer) : toServer'[i] = log'[Taken + i]
      BY <1>4, <3>1 DEF MetadataInv, LogInv
    <3>5. toServer'[Len(toServer) + 1] = log'[Taken + (Len(toServer) + 1)]
      BY <1>2, <1>3, <3>2, <3>3
    <3>6. \A i \in 1 .. Len(toServer') : i \in 1 .. Len(toServer) \/ i = Len(toServer) + 1
      BY <1>2
    <3> QED
      BY <3>4, <3>5, <3>6
  <2> QED
    BY <1>2, <1>3, <2>1 DEF LogInv
<1>6. LatestMetadata' = LatestMetadata /\ LatestMetadata \subseteq 1 .. Taken
  BY <1>2, <1>3, <1>4 DEF LatestMetadata
<1>7. ParametersFromOneMetadata'
  BY <1>1, <1>3, <1>4, <1>6, SameClaims DEF MetadataInv
<1> QED
  BY <1>1, <1>5, <1>7 DEF MetadataInv

\* The next message is taken.
LEMMA TakenNext ==
  ASSUME LogInv, toServer # << >>, toServer' = Tail(toServer), UNCHANGED log
  PROVE  /\ LogInv'
         /\ Taken \in Nat /\ Taken' = Taken + 1
         /\ Head(toServer) \in ClientMessages /\ log[Taken'] = Head(toServer)
<1>1. /\ Len(toServer) \in Nat \ {0} /\ Len(log) \in Nat /\ Len(toServer) <= Len(log)
      /\ toServer' \in Seq(ClientMessages) /\ Len(toServer') = Len(toServer) - 1
      /\ Head(toServer) = toServer[1] /\ Head(toServer) \in ClientMessages
      /\ \A i \in 1 .. Len(toServer) - 1 : toServer'[i] = toServer[i + 1]
  BY DEF LogInv
<1>2. Taken \in Nat /\ Taken' = Taken + 1
  BY <1>1 DEF Taken
<1>3. log[Taken'] = Head(toServer)
  BY <1>1, <1>2 DEF LogInv
<1>4. \A i \in 1 .. Len(toServer') : toServer'[i] = log'[Taken' + i]
  <2>1. \A i \in 1 .. Len(toServer') : Taken' + i = Taken + (i + 1) /\ i + 1 \in 1 .. Len(toServer)
    BY <1>1, <1>2
  <2> QED
    BY <1>1, <2>1 DEF LogInv
<1> QED
  BY <1>1, <1>2, <1>3, <1>4 DEF LogInv

\* A message that is no metadata: whatever it changes, it is not what is claimed.
LEMMA OtherTaken ==
  ASSUME MetadataInv, toServer # << >>, toServer' = Tail(toServer), UNCHANGED log,
         ~(Head(toServer).type \in AmfTypes /\ IsOnMetaData(Head(toServer))),
         DOMAIN m_ClientParameters' = Fields,
         Claims(m_ClientParameters)' = Claims(m_ClientParameters)
  PROVE  MetadataInv'
<1>1. /\ LogInv' /\ Taken \in Nat /\ Taken' = Taken + 1
      /\ Head(toServer) \in ClientMessages /\ log[Taken'] = Head(toServer)
  BY TakenNext DEF MetadataInv
<1>2. ~IsMetadata(log[Taken'])
  BY <1>1, ClientAssumption DEF IsMetadata
<1>3. LatestMetadata' = LatestMetadata
  BY <1>1, <1>2 DEF LatestMetadata
<1>4. ParametersFromOneMetadata'
  BY <1>3, SameClaims DEF MetadataInv
<1> QED
  BY <1>1, <1>4 DEF MetadataInv

LEMMA MetadataStep ==
  ASSUME MetadataInv, HandleMetadata, UNCHANGED log
  PROVE  MetadataInv'
<1> DEFINE h == Head(toServer)
<1>1. /\ toServer # << >> /\ toServer' = Tail(toServer)
      /\ h.type \in AmfTypes /\ IsOnMetaData(h)
      /\ m_ClientParameters' = WithAudio(WithVideo(m_ClientParameters, h.props), h.props)
  BY DEF HandleMetadata, Reads
<1>2. /\ LogInv' /\ Taken \in Nat /\ Taken' = Taken + 1
      /\ h \in ClientMessages /\ log[Taken'] = h
  BY <1>1, TakenNext DEF MetadataInv
<1>3. IsMetadata(h)
  BY <1>1, <1>2, ClientAssumption DEF IsMetadata
<1> HIDE DEF h
<1>4. Taken' \in LatestMetadata' /\ log'[Taken'] = h
  BY <1>2, <1>3 DEF LatestMetadata
<1>5. /\ DOMAIN m_ClientParameters' = Fields
      /\ m_ClientParameters'.has_video => VideoIs(m_ClientParameters', h.props)
      /\ m_ClientParameters'.has_audio => AudioIs(m_ClientParameters', h.props)
  BY <1>1, MetadataAssigned DEF MetadataInv
<1>6. ParametersFromOneMetadata'
  BY <1>4, <1>5 DEF ParametersFromOneMetadata, VideoIs, AudioIs
<1> QED
  BY <1>2, <1>5, <1>6 DEF MetadataInv

LEMMA OtherCommandStep ==
  ASSUME MetadataInv, UNCHANGED log,
         \/ HandleConnect \/ HandleConnectThrows \/ HandleCreateStream \/ HandlePublish
         \/ AssertionFails \/ IgnoreCommand \/ ParseMediaThrows \/ PassOn
         \/ \E type \in {"AUDIO", "VIDEO"} : ReturnMedia(type)
  PROVE  MetadataInv'
<1>1. toServer # << >> /\ toServer' = Tail(toServer)
  BY DEF HandleConnect, HandleConnectThrows, HandleCreateStream, HandlePublish,
     AssertionFails, IgnoreCommand,
     ParseMediaThrows, PassOn, ReturnMedia, ReadsCommand, Reads
<1>2. ~(Head(toServer).type \in AmfTypes /\ IsOnMetaData(Head(toServer)))
  BY DEF HandleConnect, HandleConnectThrows, HandleCreateStream, HandlePublish,
     AssertionFails, IgnoreCommand,
     ParseMediaThrows, PassOn, ReturnMedia, ReadsCommand, Reads, AmfTypes,
     IsOnMetaData
<1>3. DOMAIN m_ClientParameters = Fields
  BY DEF MetadataInv
<1>4. \/ UNCHANGED m_ClientParameters
      \/ \E arg : m_ClientParameters' = [m_ClientParameters EXCEPT !.app = arg]
      \/ \E arg : m_ClientParameters' = [m_ClientParameters EXCEPT !.key = arg]
  BY DEF HandleConnect, HandleConnectThrows, HandleCreateStream, HandlePublish,
     AssertionFails, IgnoreCommand,
     ParseMediaThrows, PassOn, ReturnMedia, serverVars
<1>5. DOMAIN m_ClientParameters' = Fields
  BY <1>3, <1>4
<1>6. Claims(m_ClientParameters)' = Claims(m_ClientParameters)
  BY <1>3, <1>4 DEF Claims, Fields, DefaultParameters
<1> QED
  BY <1>1, <1>2, <1>5, <1>6, OtherTaken

\* Nothing is taken.
LEMMA RestStep ==
  ASSUME MetadataInv, UNCHANGED <<toServer, log, m_ClientParameters>>
  PROVE  MetadataInv'
  BY DEF MetadataInv, LogInv, Taken, ParametersFromOneMetadata, LatestMetadata

LEMMA NextMetadata ==
  ASSUME MetadataInv, [ForeignClientNext]_foreignClientVars
  PROVE  MetadataInv'
<1>1. CASE \E m \in ClientMessages : ForeignSends(m)
  BY <1>1, SendStep
<1>2. CASE ServerNext /\ UNCHANGED log
  <2>1. CASE HandleMetadata
    BY <1>2, <2>1, MetadataStep
  <2>2. CASE SendReply \/ ServerThrows
    BY <1>2, <2>2, RestStep DEF SendReply, ServerThrows, channelVars
  <2> QED
    BY <1>2, <2>1, <2>2, OtherCommandStep DEF ServerNext
<1>3. CASE ForeignClientReads \/ UNCHANGED foreignClientVars
  BY <1>3, RestStep DEF ForeignClientReads, foreignClientVars, channelVars, serverVars
<1> QED
  BY <1>1, <1>2, <1>3 DEF ForeignClientNext

-----------------------------------------------------------------------------
\* Whatever metadata come, complete or not, the parameters never claim a kind of
\* media by a mixture of two of them: ParametersFromOneMetadata.
THEOREM ParametersFromOneMetadataHolds == ForeignClientSpec => []ParametersFromOneMetadata
<1>1. MetadataInv => ParametersFromOneMetadata
  BY DEF MetadataInv
<1> QED
  BY <1>1, InitMetadata, NextMetadata, PTL DEF ForeignClientSpec

-----------------------------------------------------------------------------
(* The invariant.  A message that opens a connection is a connect or the    *)
(* answer to one; it is the only one in the whole circle from the client to *)
(* the server and back, and no publish or status follows it there.          *)

Opens(m) == m.type = "AMF0" /\ m.id = 1
Publishes(m) == m.type = "AMF0" /\ m.name \in {"publish", "onStatus"}
Later(m) == Opens(m) \/ Publishes(m)

HasOpening(s) == \E i \in DOMAIN s : Opens(s[i])
NothingLater(s) == \A i \in DOMAIN s : ~Later(s[i])
OpeningLast(s) == \A i, j \in DOMAIN s : i < j /\ Opens(s[i]) => ~Later(s[j])
NothingPublishes(s) == \A i \in DOMAIN s : ~Publishes(s[i])

Started(s) == \E i \in DOMAIN s : Publishes(s[i]) /\ s[i].arg = "NetStream.Publish.Start"
Asks(s, key) == \A i \in DOMAIN s : Publishes(s[i]) => s[i].arg = key

Ordered ==
  /\ OpeningLast(toClient) /\ OpeningLast(replies) /\ OpeningLast(toServer)
  /\ HasOpening(toClient) => NothingLater(replies) /\ NothingLater(toServer)
  /\ HasOpening(replies) => NothingLater(toServer)

\* Only while a connect is under way it, or its answer, is in the circle.
OpeningIsCurrent ==
  up /\ stage # "connecting" =>
    ~HasOpening(toClient) /\ ~HasOpening(replies) /\ ~HasOpening(toServer)

\* From the answer to connect until publish there is no status of an earlier setup.
NoLateStatus ==
  stage \in {"releaseStream", "FCPublish", "createStream", "creating", "publish"} =>
    NothingPublishes(toClient) /\ NothingPublishes(replies) /\ NothingPublishes(toServer)

\* After it, the only status is the one for the key of this setup.
StatusIsCurrent ==
  stage = "publishing" =>
    /\ Started(toClient) \/ Started(replies) => params.key \in granted
    /\ Asks(toServer, params.key)

SetupInv ==
  /\ IsSequence(toClient) /\ IsSequence(replies) /\ IsSequence(toServer)
  /\ \A m \in notices : ~Later(m)
  /\ Ordered
  /\ OpeningIsCurrent
  /\ NoLateStatus
  /\ StatusIsCurrent
  /\ PublishGranted

-----------------------------------------------------------------------------
(* What a step does to a queue.                                             *)

LEMMA NothingLaterMeans ==
  ASSUME NEW s, NothingLater(s)
  PROVE  ~HasOpening(s) /\ NothingPublishes(s)
  BY DEF NothingLater, Later, HasOpening, NothingPublishes

LEMMA NothingPublishesMeans ==
  ASSUME NEW s, NothingPublishes(s)
  PROVE  ~Started(s) /\ \A key : Asks(s, key)
  BY DEF NothingPublishes, Started, Asks

LEMMA AppendedMessage ==
  ASSUME NEW s, IsSequence(s), NEW m
  PROVE  /\ IsSequence(Append(s, m))
         /\ HasOpening(Append(s, m)) <=> HasOpening(s) \/ Opens(m)
         /\ NothingLater(Append(s, m)) <=> NothingLater(s) /\ ~Later(m)
         /\ NothingPublishes(Append(s, m)) <=> NothingPublishes(s) /\ ~Publishes(m)
         /\ Started(Append(s, m)) =>
              Started(s) \/ (Publishes(m) /\ m.arg = "NetStream.Publish.Start")
         /\ \A key : Asks(s, key) /\ (Publishes(m) => m.arg = key) => Asks(Append(s, m), key)
         /\ OpeningLast(s) /\ (HasOpening(s) => ~Later(m)) => OpeningLast(Append(s, m))
<1> DEFINE t == Append(s, m)
<1>1. /\ IsSequence(t) /\ Len(s) \in Nat /\ DOMAIN s = 1 .. Len(s)
      /\ DOMAIN t = 1 .. Len(s) + 1
      /\ \A i \in 1 .. Len(s) : t[i] = s[i]
      /\ t[Len(s) + 1] = m
  BY Appended, SequenceShape
<1> HIDE DEF t
<1>2. HasOpening(t) <=> HasOpening(s) \/ Opens(m)
  BY <1>1 DEF HasOpening
<1>3. NothingLater(t) <=> NothingLater(s) /\ ~Later(m)
  BY <1>1 DEF NothingLater
<1>4. NothingPublishes(t) <=> NothingPublishes(s) /\ ~Publishes(m)
  BY <1>1 DEF NothingPublishes
<1>5. Started(t) => Started(s) \/ (Publishes(m) /\ m.arg = "NetStream.Publish.Start")
  BY <1>1 DEF Started
<1>6. \A key : Asks(s, key) /\ (Publishes(m) => m.arg = key) => Asks(t, key)
  BY <1>1 DEF Asks
<1>7. OpeningLast(s) /\ (HasOpening(s) => ~Later(m)) => OpeningLast(t)
  BY <1>1 DEF OpeningLast, HasOpening
<1> QED
  BY <1>1, <1>2, <1>3, <1>4, <1>5, <1>6, <1>7 DEF t

\* A queue of which the first message is gone (d = 1), or the last ones.
LEMMA PartOfQueue ==
  ASSUME NEW s, NEW t, NEW d \in {0, 1}, IsSequence(s), IsSequence(t),
         \A i \in DOMAIN t : i + d \in DOMAIN s /\ t[i] = s[i + d]
  PROVE  /\ HasOpening(t) => HasOpening(s)
         /\ NothingLater(s) => NothingLater(t)
         /\ NothingPublishes(s) => NothingPublishes(t)
         /\ Started(t) => Started(s)
         /\ \A key : Asks(s, key) => Asks(t, key)
         /\ OpeningLast(s) => OpeningLast(t)
<1>1. /\ Len(s) \in Nat /\ DOMAIN s = 1 .. Len(s)
      /\ Len(t) \in Nat /\ DOMAIN t = 1 .. Len(t)
  BY SequenceShape
<1>2. HasOpening(t) => HasOpening(s)
  BY DEF HasOpening
<1>3. NothingLater(s) => NothingLater(t)
  BY DEF NothingLater
<1>4. NothingPublishes(s) => NothingPublishes(t)
  BY DEF NothingPublishes
<1>5. Started(t) => Started(s)
  BY DEF Started
<1>6. \A key : Asks(s, key) => Asks(t, key)
  BY DEF Asks
<1>7. OpeningLast(s) => OpeningLast(t)
  BY <1>1 DEF OpeningLast
<1> QED
  BY <1>2, <1>3, <1>4, <1>5, <1>6, <1>7

LEMMA TakenMessage ==
  ASSUME NEW s, IsSequence(s), s # << >>
  PROVE  /\ IsSequence(Tail(s))
         /\ HasOpening(Tail(s)) => HasOpening(s)
         /\ NothingLater(s) => NothingLater(Tail(s)) /\ ~Later(Head(s))
         /\ NothingPublishes(s) => NothingPublishes(Tail(s)) /\ ~Publishes(Head(s))
         /\ Started(Tail(s)) => Started(s)
         /\ Publishes(Head(s)) /\ Head(s).arg = "NetStream.Publish.Start" => Started(s)
         /\ \A key : Asks(s, key) => Asks(Tail(s), key) /\ (Publishes(Head(s)) => Head(s).arg = key)
         /\ OpeningLast(s) => OpeningLast(Tail(s)) /\ (Opens(Head(s)) => NothingLater(Tail(s)))
         /\ Opens(Head(s)) => HasOpening(s)
<1> DEFINE t == Tail(s)
           h == Head(s)
<1>1. /\ IsSequence(t) /\ h = s[1] /\ 1 \in DOMAIN s
      /\ DOMAIN t = 1 .. Len(s) - 1
      /\ \A i \in DOMAIN t : i + 1 \in DOMAIN s /\ t[i] = s[i + 1]
      /\ Len(s) \in Nat /\ DOMAIN s = 1 .. Len(s)
  BY Shortened, SequenceShape
<1> HIDE DEF t, h
<1>2. /\ HasOpening(t) => HasOpening(s)
      /\ NothingLater(s) => NothingLater(t)
      /\ NothingPublishes(s) => NothingPublishes(t)
      /\ Started(t) => Started(s)
      /\ \A key : Asks(s, key) => Asks(t, key)
      /\ OpeningLast(s) => OpeningLast(t)
  BY <1>1, PartOfQueue
<1>3. NothingLater(s) => ~Later(h)
  BY <1>1 DEF NothingLater
<1>4. NothingPublishes(s) => ~Publishes(h)
  BY <1>1 DEF NothingPublishes
<1>5. Publishes(h) /\ h.arg = "NetStream.Publish.Start" => Started(s)
  BY <1>1 DEF Started
<1>6. \A key : Asks(s, key) => (Publishes(h) => h.arg = key)
  BY <1>1 DEF Asks
<1>7. OpeningLast(s) /\ Opens(h) => NothingLater(t)
  <2>1. \A i \in DOMAIN t : 1 < i + 1
    BY <1>1
  <2> QED
    BY <1>1, <2>1 DEF OpeningLast, NothingLater
<1>8. Opens(h) => HasOpening(s)
  BY <1>1 DEF HasOpening
<1> QED
  BY <1>1, <1>2, <1>3, <1>4, <1>5, <1>6, <1>7, <1>8 DEF t, h

LEMMA LostMessages ==
  ASSUME NEW s, IsSequence(s), NEW k \in 0 .. Len(s)
  PROVE  /\ IsSequence(SubSeq(s, 1, k))
         /\ HasOpening(SubSeq(s, 1, k)) => HasOpening(s)
         /\ NothingLater(s) => NothingLater(SubSeq(s, 1, k))
         /\ NothingPublishes(s) => NothingPublishes(SubSeq(s, 1, k))
         /\ Started(SubSeq(s, 1, k)) => Started(s)
         /\ \A key : Asks(s, key) => Asks(SubSeq(s, 1, k), key)
         /\ OpeningLast(s) => OpeningLast(SubSeq(s, 1, k))
<1> DEFINE t == SubSeq(s, 1, k)
<1>1. IsSequence(t) /\ \A i \in DOMAIN t : i + 0 \in DOMAIN s /\ t[i] = s[i + 0]
  BY CutOff
<1> HIDE DEF t
<1> QED
  BY <1>1, PartOfQueue DEF t

-----------------------------------------------------------------------------
LEMMA InitSetup ==
  ASSUME Init
  PROVE  SetupInv
<1>1. IsSequence(<< >>) /\ NothingLater(<< >>) /\ OpeningLast(<< >>)
  BY DEF IsSequence, NothingLater, OpeningLast
<1> QED
  BY <1>1, NothingLaterMeans
  DEF Init, ChannelInit, ClientInit, SetupInv, Ordered, OpeningIsCurrent, NoLateStatus,
      StatusIsCurrent, PublishGranted

-----------------------------------------------------------------------------
(* The client's steps.                                                      *)

LEMMA CommandKind ==
  ASSUME NEW name, NEW id, NEW arg
  PROVE  LET m == Command(name, id, arg)
         IN  /\ Opens(m) <=> id = 1
             /\ Publishes(m) <=> name \in {"publish", "onStatus"}
             /\ m.arg = arg
  BY DEF Command, Opens, Publishes

LEMMA OtherKinds ==
  ASSUME NEW m, m.type # "AMF0"
  PROVE  ~Later(m)
  BY DEF Later, Opens, Publishes

\* A message sent that is no connect and no publish.
LEMMA PlainSend ==
  ASSUME SetupInv, NEW m, ~Later(m),
         toServer' = Append(toServer, m), UNCHANGED <<toClient, up, foreignVars, params>>,
         stage' = "dataFrame" => stage = "dataFrame",
         stage' = "connecting" => stage = "connecting",
         stage' \in {"releaseStream", "FCPublish", "createStream", "creating", "publish"} =>
           stage \in {"releaseStream", "FCPublish", "createStream", "creating", "publish"},
         stage' = "publishing" => stage = "publishing",
         stage = "connecting" => stage' = "connecting"
  PROVE  SetupInv'
<1>1. ~Opens(m) /\ ~Publishes(m)
  BY DEF Later
<1>2. Ordered'
  BY AppendedMessage DEF SetupInv, Ordered, foreignVars
<1>3. OpeningIsCurrent'
  BY <1>1, AppendedMessage DEF SetupInv, OpeningIsCurrent, foreignVars
<1>4. NoLateStatus'
  BY <1>1, AppendedMessage DEF SetupInv, NoLateStatus, foreignVars
<1>5. StatusIsCurrent'
  BY <1>1, AppendedMessage DEF SetupInv, StatusIsCurrent, foreignVars
<1> QED
  BY <1>2, <1>3, <1>4, <1>5, AppendedMessage DEF SetupInv, PublishGranted, foreignVars

LEMMA SendConnectStep ==
  ASSUME SetupInv, SendAmfConnect, UNCHANGED foreignVars
  PROVE  SetupInv'
<1> DEFINE m == Command("connect", 1, params.app)
<1>1. /\ stage = "connect" /\ stage' = "connecting" /\ up
      /\ toServer' = Append(toServer, m)
      /\ UNCHANGED <<toClient, up, params, replies, notices, granted>>
  BY DEF SendAmfConnect, SendAt, foreignVars
<1>2. ~HasOpening(toClient) /\ ~HasOpening(replies) /\ ~HasOpening(toServer)
  BY <1>1 DEF SetupInv, OpeningIsCurrent
<1> HIDE DEF m
<1>3. Ordered'
  BY <1>1, <1>2, AppendedMessage DEF SetupInv, Ordered
<1> QED
  BY <1>1, <1>3, AppendedMessage
  DEF SetupInv, OpeningIsCurrent, NoLateStatus, StatusIsCurrent, PublishGranted

LEMMA SendPublishStep ==
  ASSUME SetupInv, SendPublish, UNCHANGED foreignVars
  PROVE  SetupInv'
<1> DEFINE m == Command("publish", 0, params.key)
<1>1. /\ stage = "publish" /\ stage' = "publishing" /\ up
      /\ toServer' = Append(toServer, m)
      /\ UNCHANGED <<toClient, up, params, replies, notices, granted>>
  BY DEF SendPublish, SendAt, foreignVars
<1>2. ~HasOpening(toClient) /\ ~HasOpening(replies) /\ ~HasOpening(toServer)
  BY <1>1 DEF SetupInv, OpeningIsCurrent
<1>3. NothingPublishes(toClient) /\ NothingPublishes(replies) /\ NothingPublishes(toServer)
  BY <1>1 DEF SetupInv, NoLateStatus
<1>4. m.arg = params.key /\ ~Opens(m)
  BY CommandKind
<1> HIDE DEF m
<1>5. Ordered'
  BY <1>1, <1>2, AppendedMessage DEF SetupInv, Ordered
<1>6. OpeningIsCurrent'
  BY <1>1, <1>2, <1>4, AppendedMessage DEF SetupInv, OpeningIsCurrent
<1>7. ~Started(toClient) /\ ~Started(replies) /\ Asks(toServer, params.key)
  BY <1>3, NothingPublishesMeans
<1>8. StatusIsCurrent'
  BY <1>1, <1>4, <1>7, AppendedMessage DEF SetupInv, StatusIsCurrent
<1> QED
  BY <1>1, <1>5, <1>6, <1>8, AppendedMessage DEF SetupInv, NoLateStatus, PublishGranted

LEMMA OtherSends ==
  ASSUME SetupInv, UNCHANGED foreignVars,
         \/ SendReleaseStream \/ SendFCPublish \/ SendCreateStream
         \/ SendDataFrameParameters
         \/ \E type \in {"AUDIO", "VIDEO"} : SendRTMPMessage(type)
  PROVE  SetupInv'
<1>1. CASE SendReleaseStream
  <2>1. ~Later(Command("releaseStream", 2, params.key))
    BY CommandKind DEF Later
  <2> QED
    BY <1>1, <2>1, PlainSend DEF SendReleaseStream, SendAt
<1>2. CASE SendFCPublish
  <2>1. ~Later(Command("FCPublish", 3, params.key))
    BY CommandKind DEF Later
  <2> QED
    BY <1>2, <2>1, PlainSend DEF SendFCPublish, SendAt
<1>3. CASE SendCreateStream
  <2>1. ~Later(Command("createStream", 4, ""))
    BY DEF Later, Opens, Publishes, Command
  <2> QED
    BY <1>3, <2>1, PlainSend DEF SendCreateStream, SendAt
<1>4. CASE SendDataFrameParameters
  <2>1. ~Later(Metadata(PropsOf(params)))
    BY OtherKinds DEF Metadata
  <2> QED
    BY <1>4, <2>1, PlainSend DEF SendDataFrameParameters, SendAt
<1>5. CASE \E type \in {"AUDIO", "VIDEO"} : SendRTMPMessage(type)
  <2>1. PICK type \in {"AUDIO", "VIDEO"} : SendRTMPMessage(type)
    BY <1>5
  <2>2. ~Later(Media(type, mediaSent, params))
    BY OtherKinds DEF Media
  <2> QED
    BY <2>1, <2>2, PlainSend DEF SendRTMPMessage
<1> QED
  BY <1>1, <1>2, <1>3, <1>4, <1>5

\* Where the answer to connect is taken the circle is empty behind it; where the
\* answer to publish is taken it is the one for this key.
LEMMA ReadResponseStep ==
  ASSUME SetupInv, UNCHANGED foreignVars, PassOver \/ TakeAnswer \/ RefuseAnswer
  PROVE  SetupInv'
<1> DEFINE h == Head(toClient)
<1>1. /\ stage \in {"connecting", "creating", "publishing"} /\ toClient # << >>
      /\ toClient' = Tail(toClient)
      /\ UNCHANGED <<params, toServer, up, replies, notices, granted>>
  BY DEF PassOver, TakeAnswer, RefuseAnswer, ReadResponse, Waiting, Awaited, foreignVars
<1>2. \/ ~IsAnswer(h) /\ stage' = stage
      \/ IsAnswer(h) /\ Accepts(h) /\ stage' = NextStage[stage]
      \/ IsAnswer(h) /\ stage' = "threw"
  BY DEF PassOver, TakeAnswer, RefuseAnswer
<1>3. stage = "connecting" => (IsAnswer(h) <=> Opens(h))
  BY DEF IsAnswer, Awaited, Opens
<1>4. stage = "publishing" /\ IsAnswer(h) /\ Accepts(h) =>
        Publishes(h) /\ h.arg = "NetStream.Publish.Start"
  BY DEF IsAnswer, Accepts, Publishes
<1>5. /\ stage = "connecting" => NextStage[stage] = "releaseStream"
      /\ stage = "creating" => NextStage[stage] = "publish"
      /\ stage = "publishing" => NextStage[stage] = "dataFrame"
  BY DEF NextStage
<1>6. IsSequence(toClient)
  BY DEF SetupInv
<1> HIDE DEF h
<1>7. /\ IsSequence(Tail(toClient))
      /\ HasOpening(Tail(toClient)) => HasOpening(toClient)
      /\ NothingPublishes(toClient) => NothingPublishes(Tail(toClient))
      /\ Started(Tail(toClient)) => Started(toClient)
      /\ Publishes(h) /\ h.arg = "NetStream.Publish.Start" => Started(toClient)
      /\ OpeningLast(toClient) =>
           OpeningLast(Tail(toClient)) /\ (Opens(h) => NothingLater(Tail(toClient)))
      /\ Opens(h) => HasOpening(toClient)
  BY <1>1, <1>6, TakenMessage DEF h
<1>8. Ordered'
  BY <1>1, <1>7 DEF SetupInv, Ordered
<1>9. stage = "connecting" /\ IsAnswer(h) =>
        NothingLater(toClient') /\ NothingLater(replies') /\ NothingLater(toServer')
  BY <1>1, <1>3, <1>7 DEF SetupInv, Ordered
<1>10. OpeningIsCurrent'
  BY <1>1, <1>2, <1>5, <1>7, <1>9, NothingLaterMeans DEF SetupInv, OpeningIsCurrent
<1>11. NoLateStatus'
  BY <1>1, <1>2, <1>5, <1>7, <1>9, NothingLaterMeans DEF SetupInv, NoLateStatus
<1>12. StatusIsCurrent'
  BY <1>1, <1>2, <1>5, <1>7 DEF SetupInv, StatusIsCurrent
<1>13. PublishGranted'
  BY <1>1, <1>2, <1>4, <1>5, <1>7 DEF SetupInv, StatusIsCurrent, PublishGranted
<1> QED
  BY <1>1, <1>7, <1>8, <1>10, <1>11, <1>12, <1>13 DEF SetupInv

\* A call begins, or ends because the connection is gone.
LEMMA SetupBounds ==
  ASSUME SetupInv, UNCHANGED foreignVars,
         SetupThrows \/ \E p \in Parameters : SendClientParameters(p)
  PROVE  SetupInv'
<1>1. UNCHANGED <<toServer, toClient, up, replies, notices, granted>>
  BY DEF SetupThrows, SendClientParameters, channelVars, foreignVars
<1>2. \/ stage' = "threw" /\ ~up
      \/ stage \in {"idle", "threw"} /\ stage' = "connect"
  BY DEF SetupThrows, SendClientParameters
<1> QED
  BY <1>1, <1>2
  DEF SetupInv, Ordered, OpeningIsCurrent, NoLateStatus, StatusIsCurrent, PublishGranted

LEMMA ClientStep ==
  ASSUME SetupInv, ClientNext, UNCHANGED foreignVars
  PROVE  SetupInv'
  BY SendConnectStep, SendPublishStep, OtherSends, ReadResponseStep, SetupBounds
  DEF ClientNext, Setup

-----------------------------------------------------------------------------
(* The server's steps.                                                      *)

\* An answer opens or publishes only if its command does, and grants only what it
\* was asked for.
LEMMA AnswerKind ==
  ASSUME NEW m, m.type = "AMF0", NEW answers \in {Grants(m), Refusals(m)}
  PROVE  \/ answers = << >>
         \/ \E r : /\ answers = << r >>
                   /\ Opens(r) => Opens(m)
                   /\ Publishes(r) => Publishes(m)
                   /\ Publishes(r) /\ r.arg = "NetStream.Publish.Start" =>
                        m.name = "publish" /\ answers = Grants(m)
<1>1. CASE m.name = "publish"
  <2>1. Publishes(m)
    BY <1>1 DEF Publishes
  <2>2. /\ Grants(m) = << Command("onStatus", m.id, "NetStream.Publish.Start") >>
        /\ Refusals(m) = << Command("onStatus", m.id, "NetStream.Publish.BadName") >>
    BY <1>1 DEF Grants, Refusals
  <2>3. \A arg : Opens(Command("onStatus", m.id, arg)) => Opens(m)
    BY DEF Command, Opens
  <2>4. Command("onStatus", m.id, "NetStream.Publish.BadName").arg # "NetStream.Publish.Start"
    BY DEF Command
  <2> QED
    BY <1>1, <2>1, <2>2, <2>3, <2>4
<1>2. CASE m.name \in {"connect", "createStream"}
  <2>1. \/ answers = << Command("_result", m.id, "NetConnection.Connect.Success") >>
        \/ answers = << Command("_result", m.id, "") >>
        \/ answers = << Command("_error", m.id, "rejected") >>
    BY <1>2 DEF Grants, Refusals
  <2>2. \A name \in {"_result", "_error"} : \A arg :
          (Opens(Command(name, m.id, arg)) => Opens(m)) /\ ~Publishes(Command(name, m.id, arg))
    BY DEF Command, Opens, Publishes
  <2>3. PICK r : answers = << r >> /\ (Opens(r) => Opens(m)) /\ ~Publishes(r)
    BY <2>1, <2>2
  <2> QED
    BY <2>3
<1>3. CASE m.name \notin {"connect", "createStream", "publish"}
  BY <1>3 DEF Grants, Refusals
<1> QED
  BY <1>1, <1>2, <1>3

\* The head of toServer is taken, and answered with r or not at all.
LEMMA Answered ==
  ASSUME SetupInv, toServer # << >>, toServer' = Tail(toServer),
         UNCHANGED <<toClient, up, stage, params>>,
         granted \subseteq granted', \A m \in notices' : ~Later(m),
         NEW r, replies' = replies \/ replies' = Append(replies, r),
         replies' # replies =>
           /\ Opens(r) => Opens(Head(toServer))
           /\ Publishes(r) => Publishes(Head(toServer))
           /\ Publishes(r) /\ r.arg = "NetStream.Publish.Start" =>
                Head(toServer).arg \in granted'
  PROVE  SetupInv'
<1> DEFINE h == Head(toServer)
<1>1. IsSequence(toServer) /\ IsSequence(replies)
  BY DEF SetupInv
<1>2. /\ IsSequence(Tail(toServer))
      /\ HasOpening(Tail(toServer)) => HasOpening(toServer)
      /\ NothingLater(toServer) => NothingLater(Tail(toServer)) /\ ~Later(h)
      /\ NothingPublishes(toServer) => NothingPublishes(Tail(toServer)) /\ ~Publishes(h)
      /\ Asks(toServer, params.key) =>
           Asks(Tail(toServer), params.key) /\ (Publishes(h) => h.arg = params.key)
      /\ OpeningLast(toServer) =>
           OpeningLast(Tail(toServer)) /\ (Opens(h) => NothingLater(Tail(toServer)))
      /\ Opens(h) => HasOpening(toServer)
  BY <1>1, TakenMessage
<1>3. CASE replies' = replies
  <2>1. Ordered'
    BY <1>2, <1>3 DEF SetupInv, Ordered
  <2>2. OpeningIsCurrent' /\ NoLateStatus'
    BY <1>2, <1>3 DEF SetupInv, OpeningIsCurrent, NoLateStatus
  <2>3. StatusIsCurrent' /\ PublishGranted'
    BY <1>2, <1>3 DEF SetupInv, StatusIsCurrent, PublishGranted
  <2> QED
    BY <1>2, <1>3, <2>1, <2>2, <2>3 DEF SetupInv
<1>4. CASE replies' = Append(replies, r) /\ replies' # replies
  <2>1. Later(r) => Later(h)
    BY <1>4 DEF Later
  <2>2. Ordered'
    <3>1. OpeningLast(replies')
      BY <1>1, <1>2, <1>4, <2>1, AppendedMessage DEF SetupInv, Ordered
    <3>2. HasOpening(toClient) => NothingLater(replies')
      BY <1>1, <1>2, <1>4, <2>1, AppendedMessage DEF SetupInv, Ordered
    <3>3. HasOpening(replies') => NothingLater(Tail(toServer))
      BY <1>1, <1>2, <1>4, AppendedMessage DEF SetupInv, Ordered
    <3> QED
      BY <1>2, <3>1, <3>2, <3>3 DEF SetupInv, Ordered
  <2>3. OpeningIsCurrent'
    BY <1>1, <1>2, <1>4, AppendedMessage DEF SetupInv, OpeningIsCurrent
  <2>4. NoLateStatus'
    BY <1>1, <1>2, <1>4, AppendedMessage DEF SetupInv, NoLateStatus
  <2>5. stage = "publishing" /\ Started(replies') => Started(replies) \/ params.key \in granted'
    BY <1>1, <1>2, <1>4, AppendedMessage DEF SetupInv, StatusIsCurrent
  <2>6. StatusIsCurrent'
    BY <1>2, <2>5 DEF SetupInv, StatusIsCurrent
  <2>7. IsSequence(replies') /\ PublishGranted'
    BY <1>1, <1>4, AppendedMessage DEF SetupInv, PublishGranted
  <2> QED
    BY <1>2, <2>2, <2>3, <2>4, <2>6, <2>7 DEF SetupInv
<1> QED
  BY <1>3, <1>4

LEMMA NoticeKind ==
  ASSUME NEW m, NEW notice \in Notices(m)
  PROVE  ~Later(notice)
<1>1. CASE m.name \in {"connect", "FCPublish"}
  <2>1. notice = Command("onBWDone", 0, "") \/ notice = Command("onFCPublish", 0, "")
    BY <1>1 DEF Notices
  <2>2. \A name \in {"onBWDone", "onFCPublish"} : \A arg :
          ~Opens(Command(name, 0, arg)) /\ ~Publishes(Command(name, 0, arg))
    BY DEF Command, Opens, Publishes
  <2>3. ~Opens(notice) /\ ~Publishes(notice)
    BY <2>1, <2>2
  <2> QED
    BY <2>3 DEF Later
<1>2. CASE m.name = "publish"
  <2>1. notice.type # "AMF0"
    BY <1>2 DEF Notices, Control
  <2> QED
    BY <2>1, OtherKinds
<1> QED
  BY <1>1, <1>2 DEF Notices

LEMMA ForeignAnswersStep ==
  ASSUME SetupInv, ForeignGrants \/ ForeignRefuses
  PROVE  SetupInv'
<1> DEFINE m == Head(toServer)
<1>1. /\ toServer # << >> /\ toServer' = Tail(toServer) /\ m.type = "AMF0"
      /\ UNCHANGED <<toClient, up, stage, params>>
  BY DEF ForeignGrants, ForeignRefuses, ForeignReads, clientVars
<1>2. PICK answers \in {Grants(m), Refusals(m)} :
        /\ replies' = replies \o answers
        /\ answers = Grants(m) /\ m.name = "publish" => m.arg \in granted'
  <2>1. CASE ForeignGrants
    BY <2>1 DEF ForeignGrants
  <2>2. CASE ForeignRefuses
    <3>1. m.name = "publish" => Grants(m) # Refusals(m)
      BY DEF Grants, Refusals, Command
    <3> QED
      BY <2>2, <3>1 DEF ForeignRefuses
  <2> QED
    BY <2>1, <2>2
<1>3. granted \subseteq granted'
  BY DEF ForeignGrants, ForeignRefuses
<1>4. \A notice \in notices' : ~Later(notice)
  BY NoticeKind DEF ForeignGrants, ForeignRefuses, SetupInv
<1>5. IsSequence(replies)
  BY DEF SetupInv
<1> HIDE DEF m
<1>6. CASE answers = << >>
  <2>1. replies' = replies
    BY <1>2, <1>5, <1>6, Joined
  <2> QED
    BY <1>1, <1>3, <1>4, <2>1, Answered
<1>7. CASE answers # << >>
  <2>1. PICK r : /\ answers = << r >>
                 /\ Opens(r) => Opens(m)
                 /\ Publishes(r) => Publishes(m)
                 /\ Publishes(r) /\ r.arg = "NetStream.Publish.Start" =>
                      m.name = "publish" /\ answers = Grants(m)
    BY <1>1, <1>7, AnswerKind
  <2>2. replies' = Append(replies, r)
    BY <1>2, <1>5, <2>1, Joined
  <2> QED
    BY <1>1, <1>2, <1>3, <1>4, <2>1, <2>2, Answered DEF m
<1> QED
  BY <1>6, <1>7

LEMMA ForeignConsumesStep ==
  ASSUME SetupInv, ForeignConsumes
  PROVE  SetupInv'
<1>1. /\ toServer # << >> /\ toServer' = Tail(toServer)
      /\ UNCHANGED <<toClient, up, stage, params, replies, notices, granted>>
  BY DEF ForeignConsumes, ForeignReads, clientVars, foreignVars
<1> QED
  BY <1>1, Answered DEF SetupInv

LEMMA ForeignRepliesStep ==
  ASSUME SetupInv, ForeignReplies
  PROVE  SetupInv'
<1> DEFINE m == Head(replies)
<1>1. /\ replies # << >> /\ replies' = Tail(replies)
      /\ toClient' = Append(toClient, m)
      /\ UNCHANGED <<toServer, up, stage, params, notices, granted>>
  BY DEF ForeignReplies, Transmits, clientVars
<1>2. IsSequence(replies) /\ IsSequence(toClient)
  BY DEF SetupInv
<1>3. /\ IsSequence(Tail(replies))
      /\ HasOpening(Tail(replies)) => HasOpening(replies)
      /\ NothingLater(replies) => NothingLater(Tail(replies)) /\ ~Later(m)
      /\ NothingPublishes(replies) => NothingPublishes(Tail(replies)) /\ ~Publishes(m)
      /\ Started(Tail(replies)) => Started(replies)
      /\ Publishes(m) /\ m.arg = "NetStream.Publish.Start" => Started(replies)
      /\ OpeningLast(replies) =>
           OpeningLast(Tail(replies)) /\ (Opens(m) => NothingLater(Tail(replies)))
      /\ Opens(m) => HasOpening(replies)
  BY <1>1, <1>2, TakenMessage
<1> HIDE DEF m
<1>4. Ordered'
  <2>1. OpeningLast(toClient')
    BY <1>1, <1>2, <1>3, AppendedMessage DEF SetupInv, Ordered
  <2>2. HasOpening(toClient') => NothingLater(replies') /\ NothingLater(toServer')
    BY <1>1, <1>2, <1>3, AppendedMessage DEF SetupInv, Ordered
  <2> QED
    BY <1>1, <1>3, <2>1, <2>2 DEF SetupInv, Ordered
<1>5. OpeningIsCurrent' /\ NoLateStatus'
  BY <1>1, <1>2, <1>3, AppendedMessage DEF SetupInv, OpeningIsCurrent, NoLateStatus
<1>6. StatusIsCurrent' /\ PublishGranted'
  BY <1>1, <1>2, <1>3, AppendedMessage DEF SetupInv, StatusIsCurrent, PublishGranted
<1> QED
  BY <1>1, <1>2, <1>3, <1>4, <1>5, <1>6, AppendedMessage DEF SetupInv

LEMMA ForeignNotifiesStep ==
  ASSUME SetupInv, ForeignNotifies
  PROVE  SetupInv'
<1>1. PICK m \in notices : Transmits(m) /\ notices' = notices \ {m}
  BY DEF ForeignNotifies
<1>2. /\ toClient' = Append(toClient, m)
      /\ UNCHANGED <<toServer, up, stage, params, replies, granted>>
  BY <1>1 DEF ForeignNotifies, Transmits, clientVars
<1>3. ~Later(m) /\ ~Opens(m) /\ ~Publishes(m) /\ IsSequence(toClient)
  BY DEF SetupInv, Later
<1>4. Ordered'
  BY <1>2, <1>3, AppendedMessage DEF SetupInv, Ordered
<1>5. OpeningIsCurrent' /\ NoLateStatus'
  BY <1>2, <1>3, AppendedMessage DEF SetupInv, OpeningIsCurrent, NoLateStatus
<1>6. StatusIsCurrent' /\ PublishGranted'
  BY <1>2, <1>3, AppendedMessage DEF SetupInv, StatusIsCurrent, PublishGranted
<1> QED
  BY <1>1, <1>2, <1>3, <1>4, <1>5, <1>6, AppendedMessage DEF SetupInv

\* A break takes the last messages of either direction, and nothing is sent again.
LEMMA BreakStep ==
  ASSUME SetupInv, Break, UNCHANGED <<clientVars, foreignVars>>
  PROVE  SetupInv'
<1>1. PICK k \in 0 .. Len(toServer), l \in 0 .. Len(toClient) :
        toServer' = SubSeq(toServer, 1, k) /\ toClient' = SubSeq(toClient, 1, l)
  BY DEF Break
<1>2. up' = FALSE /\ UNCHANGED <<stage, params, replies, notices, granted>>
  BY DEF Break, clientVars, foreignVars
<1>3. IsSequence(toServer) /\ IsSequence(toClient)
  BY DEF SetupInv
<1>4. Ordered'
  BY <1>1, <1>2, <1>3, LostMessages DEF SetupInv, Ordered
<1>5. OpeningIsCurrent' /\ NoLateStatus'
  BY <1>1, <1>2, <1>3, LostMessages DEF SetupInv, OpeningIsCurrent, NoLateStatus
<1>6. StatusIsCurrent' /\ PublishGranted'
  BY <1>1, <1>2, <1>3, LostMessages DEF SetupInv, StatusIsCurrent, PublishGranted
<1> QED
  BY <1>1, <1>2, <1>3, <1>4, <1>5, <1>6, LostMessages DEF SetupInv

LEMMA NextSetup ==
  ASSUME SetupInv, [Next]_vars
  PROVE  SetupInv'
<1>1. CASE ClientNext /\ UNCHANGED foreignVars
  BY <1>1, ClientStep
<1>2. CASE Foreign
  BY <1>2, ForeignAnswersStep, ForeignConsumesStep, ForeignRepliesStep, ForeignNotifiesStep
  DEF Foreign
<1>3. CASE Break /\ UNCHANGED <<clientVars, foreignVars>>
  BY <1>3, BreakStep
<1>4. CASE UNCHANGED vars
  BY <1>4 DEF vars, channelVars, clientVars, foreignVars, SetupInv, Ordered,
     OpeningIsCurrent, NoLateStatus, StatusIsCurrent, PublishGranted
<1> QED
  BY <1>1, <1>2, <1>3, <1>4 DEF Next

-----------------------------------------------------------------------------
\* However often SendClientParameters is called again after it threw, and however
\* late the answers are, it announces a stream only under a key that the server
\* granted: PublishGranted.
THEOREM PublishGrantedHolds == Spec => []PublishGranted
<1>1. SetupInv => PublishGranted
  BY DEF SetupInv
<1> QED
  BY <1>1, InitSetup, NextSetup, PTL DEF Spec

=============================================================================
