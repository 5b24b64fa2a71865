---------------------------- MODULE Session_proofs ----------------------------
(***************************************************************************)
(* The safety properties of Session for any parameters, any number of       *)
(* setups and media, and any capacity of the transport.  The argument       *)
(* follows the circle from the client through the server and back: at most  *)
(* one command that is answered, or its answer, is in it; nothing else is   *)
(* in it while the answer is; and what the server knows of the stream,      *)
(* changed by what is in front of a media message, describes that message.  *)
(***************************************************************************)
EXTENDS Session, SequenceFacts

-----------------------------------------------------------------------------
(* The messages of the client, and the server's one answer to each command  *)
(* that it answers.                                                         *)

Answered(m) ==
  /\ m.type = "AMF0" /\ m.name \in {"connect", "createStream", "publish"}
  /\ "arg" \in DOMAIN m
Unanswered(m) == m.type = "AMF0" /\ m.name \in {"releaseStream", "FCPublish"}
IsMetadata(m) ==
  m.type = "METADATA_AMF0" /\ m.name = "@setDataFrame" /\ m.frame = "onMetaData"
IsMedia(m) == m.type \in {"AUDIO", "VIDEO"} /\ m.whole

\* m is the command that stage st of a call with parameters p waits for an answer to.
Asks(m, st, p) ==
  /\ m.type = "AMF0"
  /\ \/ st = "connecting" /\ m.name = "connect" /\ m.id = 1 /\ m.arg = p.app
     \/ st = "creating" /\ m.name = "createStream" /\ m.id = 4
     \/ st = "publishing" /\ m.name = "publish" /\ m.id = 0 /\ m.arg = p.key

\* m is an answer that this stage accepts.
Answers(m, st) ==
  /\ m.type = "AMF0"
  /\ \/ /\ st = "connecting" /\ m.name = "_result" /\ m.id = 1
        /\ m.arg = "NetConnection.Connect.Success"
     \/ st = "creating" /\ m.name = "_result" /\ m.id = 4
     \/ /\ st = "publishing" /\ m.name = "onStatus" /\ m.id = 0
        /\ m.arg = "NetStream.Publish.Start"

-----------------------------------------------------------------------------
(* Queues of messages.                                                      *)

\* Nothing follows a command that is answered, and metadata come first.
FromClient(s) ==
  /\ IsSequence(s)
  /\ \A i \in DOMAIN s :
       Answered(s[i]) \/ Unanswered(s[i]) \/ IsMetadata(s[i]) \/ IsMedia(s[i])
  /\ \A i, j \in DOMAIN s : Answered(s[i]) => j <= i
  /\ \A i \in DOMAIN s : IsMetadata(s[i]) => i = 1

\* The only answer is one that is waited for, and comes last.
OneAnswer(s, st) ==
  \A i \in DOMAIN s : s[i].type = "AMF0" => i = Len(s) /\ Answers(s[i], st)

NoAnswer(s) == \A i \in DOMAIN s : s[i].type # "AMF0"

CommandsOnly(s) == \A i \in DOMAIN s : s[i].type = "AMF0"

\* Commands are those of the setup under way.
Current(s, st, p) ==
  \A i \in DOMAIN s : s[i].type = "AMF0" =>
    \/ Asks(s[i], st, p)
    \/ Unanswered(s[i]) /\ st \in {"FCPublish", "createStream", "creating"}

\* The b-th media message is among the first l of s.
Has(s, l, b) == \E j \in 1 .. l : IsMedia(s[j]) /\ s[j].body = b

\* The media are in order, and none is missing from the n-th to the last there...
MediaFrom(s, n) ==
  \A i \in DOMAIN s : IsMedia(s[i]) =>
    /\ s[i].body \in Nat /\ n <= s[i].body
    /\ \A b \in n .. s[i].body - 1 : Has(s, i - 1, b)
    /\ \A j \in 1 .. i - 1 : IsMedia(s[j]) => s[j].body < s[i].body

\* ...which is one before the k-th...
MediaBelow(s, k) == \A i \in DOMAIN s : IsMedia(s[i]) => s[i].body < k

\* ...and the very one before it, if none was lost.
MediaUpTo(s, n, k) == \A b \in n .. k - 1 : Has(s, Len(s), b)

\* Once the server, which knows parameters c, has handled the metadata at the
\* head, if there are any, it knows what p says about the stream.
Announced(s, c, p) ==
  IF s # << >> /\ IsMetadata(s[1])
  THEN s[1].props = PropsOf(p) /\ c.app = p.app /\ c.key = p.key
  ELSE Described(c) = Described(p)

MediaAnnounced(s, c) == \A i \in DOMAIN s : IsMedia(s[i]) => Announced(s, c, s[i].about)

-----------------------------------------------------------------------------
(* The invariant.                                                           *)

Answering == outbox # << >> \/ toClient # << >>

\* Commands and answers, while the connection is up.
Circle ==
  up =>
    /\ Answering => toServer = << >> /\ stage \in {"connecting", "creating", "publishing"}
    /\ OneAnswer(outbox, stage) /\ OneAnswer(toClient, stage)
    /\ outbox # << >> => NoAnswer(toClient)
    /\ stage \in {"releaseStream", "publish", "dataFrame"} => toServer = << >>
    /\ stage \notin {"idle", "connect", "connecting"} => CommandsOnly(toServer)
    /\ Current(toServer, stage, params)

Bodies ==
  /\ mediaSent \in Nat
  /\ MediaFrom(toServer, Len(returned))
  /\ MediaBelow(toServer, mediaSent)
  /\ up => MediaUpTo(toServer, Len(returned), mediaSent)
  /\ Len(returned) <= mediaSent
  /\ mediaSent > 0 => sent_params

\* The server knows the names as soon as it answers.
NamesKnown ==
  up =>
    /\ \/ stage \in {"releaseStream", "FCPublish", "createStream", "creating", "publish",
                     "publishing", "dataFrame"}
       \/ stage = "connecting" /\ Answering
       => m_ClientParameters.app = params.app
    /\ stage = "dataFrame" \/ (stage = "publishing" /\ Answering)
       => m_ClientParameters.key = params.key

StreamKnown ==
  /\ DOMAIN m_ClientParameters = DOMAIN DefaultParameters
  /\ NamesKnown
  /\ MediaAnnounced(toServer, m_ClientParameters)
  /\ up /\ stage = "idle" /\ sent_params => Announced(toServer, m_ClientParameters, params)

SessionInv ==
  /\ FromClient(toServer) /\ IsSequence(toClient) /\ IsSequence(outbox) /\ IsSequence(returned)
  /\ Circle
  /\ Bodies
  /\ StreamKnown
  /\ MediaDescribed /\ MediaInOrder /\ SetupFailsOnlyOnBreak

-----------------------------------------------------------------------------
(* The messages are what they are called.                                   *)

LEMMA Commands ==
  ASSUME NEW name \in {"connect", "releaseStream", "FCPublish", "createStream", "publish"},
         NEW id, NEW arg
  PROVE  LET m == Command(name, id, arg)
         IN  /\ m.type = "AMF0" /\ m.id = id /\ m.arg = arg
             /\ Answered(m) <=> name \in {"connect", "createStream", "publish"}
             /\ Unanswered(m) <=> name \in {"releaseStream", "FCPublish"}
             /\ ~IsMetadata(m) /\ ~IsMedia(m)
  BY DEF Command, Answered, Unanswered, IsMetadata, IsMedia

LEMMA MetadataKind ==
  ASSUME NEW props
  PROVE  LET m == Metadata(props)
         IN  /\ IsMetadata(m) /\ m.props = props /\ m.type # "AMF0"
             /\ ~Answered(m) /\ ~Unanswered(m) /\ ~IsMedia(m)
  BY DEF Metadata, Answered, Unanswered, IsMetadata, IsMedia

LEMMA MediaKind ==
  ASSUME NEW type \in {"AUDIO", "VIDEO"}, NEW body, NEW about
  PROVE  LET m == Media(type, body, about)
         IN  /\ IsMedia(m) /\ m.body = body /\ m.about = about /\ m.type # "AMF0"
             /\ ~Answered(m) /\ ~Unanswered(m) /\ ~IsMetadata(m)
  BY DEF Media, Answered, Unanswered, IsMetadata, IsMedia

LEMMA KindsDiffer ==
  ASSUME NEW m
  PROVE  /\ IsMedia(m) => m.type # "AMF0" /\ ~IsMetadata(m)
         /\ IsMetadata(m) => m.type # "AMF0"
         /\ Answered(m) => m.type = "AMF0" /\ ~Unanswered(m)
         /\ Unanswered(m) => m.type = "AMF0"
  BY DEF Answered, Unanswered, IsMetadata, IsMedia

\* A connect gets four messages of which the last is the answer, the other
\* commands just the answer.
LEMMA Replies ==
  ASSUME NEW id
  PROVE  /\ id = 1 => OneAnswer(ConnectReplies(id), "connecting")
         /\ id = 4 => OneAnswer(<< Command("_result", id, "") >>, "creating")
         /\ id = 0 => OneAnswer(<< Command("onStatus", id, "NetStream.Publish.Start") >>,
                                "publishing")
         /\ IsSequence(ConnectReplies(id)) /\ ConnectReplies(id) # << >>
         /\ \A m : IsSequence(<< m >>) /\ << m >> # << >>
<1>2. \A m : IsSequence(<< m >>) /\ << m >> # << >>
  <2> TAKE m
  <2>1. << m >> \in Seq({m})
    OBVIOUS
  <2> QED
    BY <2>1, AnySequence
<1>3. IsSequence(ConnectReplies(id)) /\ ConnectReplies(id) # << >>
  <2> DEFINE S == { ConnectReplies(id)[i] : i \in 1 .. 4 }
  <2>1. ConnectReplies(id) \in Seq(S)
    BY DEF ConnectReplies
  <2> QED
    BY <2>1, AnySequence DEF ConnectReplies
<1>4. id = 1 => OneAnswer(ConnectReplies(id), "connecting")
  BY DEF OneAnswer, ConnectReplies, Answers, Command, Control
<1>5. \A m, st : Answers(m, st) => OneAnswer(<< m >>, st)
  BY DEF OneAnswer
<1>6. /\ id = 4 => Answers(Command("_result", id, ""), "creating")
      /\ id = 0 => Answers(Command("onStatus", id, "NetStream.Publish.Start"), "publishing")
  BY DEF Answers, Command
<1> QED
  BY <1>2, <1>3, <1>4, <1>5, <1>6

LEMMA Accepted ==
  ASSUME NEW m
  PROVE  Answers(m, stage) => IsAnswer(m) /\ Accepts(m)
<1>1. CASE stage = "connecting"
  BY <1>1 DEF Answers, IsAnswer, Accepts, Awaited
<1>2. CASE stage = "creating"
  BY <1>2 DEF Answers, IsAnswer, Accepts, Awaited
<1>3. CASE stage = "publishing"
  BY <1>3 DEF Answers, IsAnswer, Accepts, Awaited
<1> QED
  BY <1>1, <1>2, <1>3 DEF Answers

-----------------------------------------------------------------------------
(* What the operations do to a queue.                                       *)

LEMMA SentMessage ==
  ASSUME NEW s, FromClient(s), NEW m,
         Answered(m) \/ Unanswered(m) \/ IsMetadata(m) \/ IsMedia(m),
         \A i \in DOMAIN s : ~Answered(s[i]),
         IsMetadata(m) => s = << >>
  PROVE  /\ FromClient(Append(s, m))
         /\ Append(s, m) # << >>
         /\ CommandsOnly(s) /\ m.type = "AMF0" => CommandsOnly(Append(s, m))
         /\ \A st, p : Current(Append(s, m), st, p) <=>
              /\ Current(s, st, p)
              /\ m.type = "AMF0" =>
                   Asks(m, st, p) \/ (Unanswered(m) /\ st \in {"FCPublish", "createStream", "creating"})
         /\ \A c, p : ~IsMetadata(m) => (Announced(Append(s, m), c, p) <=> Announced(s, c, p))
<1> DEFINE t == Append(s, m)
<1>1. /\ IsSequence(t) /\ Len(s) \in Nat /\ DOMAIN s = 1 .. Len(s)
      /\ DOMAIN t = 1 .. Len(s) + 1 /\ Len(t) = Len(s) + 1
      /\ \A i \in 1 .. Len(s) : t[i] = s[i]
      /\ t[Len(s) + 1] = m
  BY Appended, SequenceShape DEF FromClient
<1>2. s = << >> <=> Len(s) = 0
  BY Emptiness DEF FromClient
<1>3. t # << >>
  BY <1>1, Emptiness
<1> HIDE DEF t
<1>4. FromClient(t)
  BY <1>1, <1>2 DEF FromClient
<1>5. CommandsOnly(s) /\ m.type = "AMF0" => CommandsOnly(t)
  BY <1>1 DEF CommandsOnly
<1>6. \A st, p : Current(t, st, p) <=>
        /\ Current(s, st, p)
        /\ m.type = "AMF0" =>
             Asks(m, st, p) \/ (Unanswered(m) /\ st \in {"FCPublish", "createStream", "creating"})
  BY <1>1 DEF Current
<1>7. \A c, p : ~IsMetadata(m) => (Announced(t, c, p) <=> Announced(s, c, p))
  BY <1>1, <1>2, <1>3 DEF Announced
<1> QED
  BY <1>3, <1>4, <1>5, <1>6, <1>7 DEF t

LEMMA SentBodies ==
  ASSUME NEW s, IsSequence(s), NEW m, NEW n \in Nat, NEW k \in Nat, n <= k,
         MediaFrom(s, n), MediaBelow(s, k)
  PROVE  /\ ~IsMedia(m) => MediaFrom(Append(s, m), n) /\ MediaBelow(Append(s, m), k)
         /\ MediaUpTo(s, n, k) => MediaUpTo(Append(s, m), n, k)
         /\ IsMedia(m) /\ m.body = k /\ MediaUpTo(s, n, k) =>
              /\ MediaFrom(Append(s, m), n)
              /\ MediaBelow(Append(s, m), k + 1)
              /\ MediaUpTo(Append(s, m), n, k + 1)
<1> DEFINE t == Append(s, m)
<1>1. /\ Len(s) \in Nat /\ DOMAIN s = 1 .. Len(s)
      /\ DOMAIN t = 1 .. Len(s) + 1 /\ Len(t) = Len(s) + 1
      /\ \A i \in 1 .. Len(s) : t[i] = s[i]
      /\ t[Len(s) + 1] = m
  BY Appended, SequenceShape
<1> HIDE DEF t
<1>2. \A l \in 0 .. Len(s) : \A b : Has(s, l, b) => Has(t, l, b) /\ Has(t, Len(t), b)
  BY <1>1 DEF Has
<1>3. IsMedia(m) => Has(t, Len(t), m.body)
  BY <1>1 DEF Has
<1>4. ASSUME NEW i \in 1 .. Len(s), IsMedia(t[i])
      PROVE  /\ t[i].body \in Nat /\ n <= t[i].body
             /\ \A b \in n .. t[i].body - 1 : Has(t, i - 1, b)
             /\ \A j \in 1 .. i - 1 : IsMedia(t[j]) => t[j].body < t[i].body
  <2>1. i - 1 \in 0 .. Len(s)
    BY <1>1
  <2>2. \A j \in 1 .. i - 1 : j \in 1 .. Len(s)
    BY <1>1
  <2> QED
    BY <1>1, <1>2, <1>4, <2>1, <2>2 DEF MediaFrom
<1>5. ASSUME ~IsMedia(m)
      PROVE  MediaFrom(t, n) /\ MediaBelow(t, k)
  <2>1. \A i \in DOMAIN t : IsMedia(t[i]) => i \in 1 .. Len(s)
    BY <1>1, <1>5
  <2> QED
    BY <1>1, <1>4, <2>1 DEF MediaFrom, MediaBelow
<1>6. ASSUME MediaUpTo(s, n, k)
      PROVE  MediaUpTo(t, n, k)
  BY <1>1, <1>2, <1>6 DEF MediaUpTo
<1>7. ASSUME IsMedia(m), m.body = k, MediaUpTo(s, n, k)
      PROVE  MediaFrom(t, n) /\ MediaBelow(t, k + 1) /\ MediaUpTo(t, n, k + 1)
  <2>1. MediaBelow(t, k + 1)
    BY <1>1, <1>7 DEF MediaFrom, MediaBelow
  <2>2. \A b \in n .. k - 1 : Has(t, Len(s), b) /\ Has(t, Len(t), b)
    BY <1>1, <1>2, <1>7 DEF MediaUpTo
  <2>3. \A b \in n .. k + 1 - 1 : b \in n .. k - 1 \/ b = k
    OBVIOUS
  <2>4. MediaUpTo(t, n, k + 1)
    BY <1>3, <1>7, <2>2, <2>3 DEF MediaUpTo
  <2>5. ASSUME NEW i \in DOMAIN t, IsMedia(t[i])
        PROVE  /\ t[i].body \in Nat /\ n <= t[i].body
               /\ \A b \in n .. t[i].body - 1 : Has(t, i - 1, b)
               /\ \A j \in 1 .. i - 1 : IsMedia(t[j]) => t[j].body < t[i].body
    <3>1. CASE i \in 1 .. Len(s)
      BY <1>4, <2>5, <3>1
    <3>2. CASE i = Len(s) + 1
      <4>1. t[i].body = k /\ i - 1 = Len(s)
        BY <1>1, <1>7, <3>2
      <4>2. \A j \in 1 .. i - 1 : IsMedia(t[j]) => t[j].body < k
        BY <1>1, <4>1 DEF MediaBelow
      <4> QED
        BY <2>2, <4>1, <4>2
    <3> QED
      BY <1>1, <3>1, <3>2
  <2> QED
    BY <2>1, <2>4, <2>5 DEF MediaFrom
<1> QED
  BY <1>5, <1>6, <1>7 DEF t

LEMMA SentAnnounced ==
  ASSUME NEW s, FromClient(s), NEW m, NEW c,
         Answered(m) \/ Unanswered(m) \/ IsMetadata(m) \/ IsMedia(m),
         \A i \in DOMAIN s : ~Answered(s[i]),
         IsMetadata(m) => s = << >>,
         MediaAnnounced(s, c), IsMedia(m) => Announced(s, c, m.about)
  PROVE  MediaAnnounced(Append(s, m), c)
<1>1. /\ Len(s) \in Nat /\ DOMAIN s = 1 .. Len(s)
      /\ DOMAIN Append(s, m) = 1 .. Len(s) + 1
      /\ \A i \in 1 .. Len(s) : Append(s, m)[i] = s[i]
      /\ Append(s, m)[Len(s) + 1] = m
  BY Appended, SequenceShape DEF FromClient
<1>2. CASE IsMetadata(m)
  <2>1. Len(s) = 0
    BY <1>2, Emptiness DEF FromClient
  <2> QED
    BY <1>1, <1>2, <2>1, KindsDiffer DEF MediaAnnounced
<1>3. CASE ~IsMetadata(m)
  <2>1. \A p : Announced(Append(s, m), c, p) <=> Announced(s, c, p)
    BY <1>3, SentMessage
  <2> QED
    BY <1>1, <2>1 DEF MediaAnnounced
<1> QED
  BY <1>2, <1>3

LEMMA TakenFromClient ==
  ASSUME NEW s, FromClient(s), s # << >>
  PROVE  /\ FromClient(Tail(s))
         /\ Head(s) = s[1] /\ 1 \in DOMAIN s
         /\ Answered(Head(s)) => Tail(s) = << >>
         /\ \A i \in DOMAIN Tail(s) : ~IsMetadata(Tail(s)[i])
         /\ CommandsOnly(s) => CommandsOnly(Tail(s)) /\ Head(s).type = "AMF0"
         /\ \A st, p : Current(s, st, p) =>
              /\ Current(Tail(s), st, p)
              /\ Answered(Head(s)) => Asks(Head(s), st, p)
         /\ Answered(Head(s)) \/ Unanswered(Head(s)) \/ IsMetadata(Head(s)) \/ IsMedia(Head(s))
<1> DEFINE t == Tail(s)
           h == Head(s)
<1>1. /\ IsSequence(t) /\ h = s[1] /\ 1 \in DOMAIN s
      /\ DOMAIN t = 1 .. Len(s) - 1
      /\ \A i \in DOMAIN t : i + 1 \in DOMAIN s /\ t[i] = s[i + 1]
      /\ Len(s) \in Nat /\ DOMAIN s = 1 .. Len(s)
  BY Shortened, SequenceShape DEF FromClient
<1>2. Len(t) \in Nat /\ DOMAIN t = 1 .. Len(t) /\ (t = << >> <=> Len(t) = 0)
  BY <1>1, SequenceShape, Emptiness
<1> HIDE DEF t, h
<1>3. FromClient(t)
  BY <1>1 DEF FromClient
<1>4. Answered(h) => t = << >>
  BY <1>1, <1>2 DEF FromClient
<1>5. \A i \in DOMAIN t : ~IsMetadata(t[i])
  BY <1>1 DEF FromClient
<1>6. CommandsOnly(s) => CommandsOnly(t) /\ h.type = "AMF0"
  BY <1>1 DEF CommandsOnly
<1>7. \A st, p : Current(s, st, p) => Current(t, st, p) /\ (Answered(h) => Asks(h, st, p))
  BY <1>1, KindsDiffer DEF Current
<1>8. Answered(h) \/ Unanswered(h) \/ IsMetadata(h) \/ IsMedia(h)
  BY <1>1 DEF FromClient
<1> QED
  BY <1>1, <1>3, <1>4, <1>5, <1>6, <1>7, <1>8 DEF t, h

LEMMA TakenBodies ==
  ASSUME NEW s, IsSequence(s), s # << >>, NEW n \in Nat, NEW k \in Nat, n <= k,
         MediaFrom(s, n), MediaBelow(s, k)
  PROVE  /\ MediaBelow(Tail(s), k)
         /\ ~IsMedia(Head(s)) =>
              /\ MediaFrom(Tail(s), n)
              /\ MediaUpTo(s, n, k) => MediaUpTo(Tail(s), n, k)
         /\ IsMedia(Head(s)) =>
              /\ Head(s).body = n /\ n < k
              /\ MediaFrom(Tail(s), n + 1)
              /\ MediaUpTo(s, n, k) => MediaUpTo(Tail(s), n + 1, k)
<1> DEFINE t == Tail(s)
           h == Head(s)
<1>1. /\ h = s[1] /\ 1 \in DOMAIN s
      /\ DOMAIN t = 1 .. Len(s) - 1 /\ Len(t) = Len(s) - 1
      /\ \A i \in DOMAIN t : i + 1 \in DOMAIN s /\ t[i] = s[i + 1]
      /\ Len(s) \in Nat /\ DOMAIN s = 1 .. Len(s)
  BY Shortened, SequenceShape
<1> HIDE DEF t, h
<1>2. MediaBelow(t, k)
  BY <1>1 DEF MediaBelow
<1>3. ASSUME NEW l \in 1 .. Len(s), NEW b, Has(s, l, b)
      PROVE  Has(t, l - 1, b) \/ (IsMedia(h) /\ h.body = b)
  <2>1. PICK j \in 1 .. l : IsMedia(s[j]) /\ s[j].body = b
    BY <1>3 DEF Has
  <2>2. CASE j = 1
    BY <1>1, <2>1, <2>2
  <2>3. CASE j # 1
    <3>1. j - 1 \in 1 .. l - 1 /\ j - 1 \in DOMAIN t /\ t[j - 1] = s[j]
      BY <1>1, <2>3
    <3> QED
      BY <2>1, <3>1 DEF Has
  <2> QED
    BY <2>2, <2>3
\* In the tail, the media before a message are those before it in s but the head.
<1>4. ASSUME NEW i \in DOMAIN t, IsMedia(t[i])
      PROVE  /\ t[i].body \in Nat /\ n <= t[i].body
             /\ \A b \in n .. t[i].body - 1 : Has(t, i - 1, b) \/ (IsMedia(h) /\ h.body = b)
             /\ IsMedia(h) => h.body < t[i].body
             /\ \A j \in 1 .. i - 1 : IsMedia(t[j]) => t[j].body < t[i].body
  <2>1. i + 1 \in 1 .. Len(s) /\ i \in 1 .. Len(s) /\ i + 1 - 1 = i /\ t[i] = s[i + 1]
    BY <1>1
  <2>2. /\ t[i].body \in Nat /\ n <= t[i].body
        /\ \A b \in n .. t[i].body - 1 : Has(s, i, b)
        /\ \A j \in 1 .. i : IsMedia(s[j]) => s[j].body < t[i].body
    BY <1>1, <1>4, <2>1 DEF MediaFrom
  <2>3. \A j \in 1 .. i - 1 : j + 1 \in 1 .. i /\ t[j] = s[j + 1]
    BY <1>1
  <2>4. \A b \in n .. t[i].body - 1 : Has(t, i - 1, b) \/ (IsMedia(h) /\ h.body = b)
    BY <1>3, <2>1, <2>2
  <2>5. IsMedia(h) => h.body < t[i].body
    BY <1>1, <2>1, <2>2
  <2>6. \A j \in 1 .. i - 1 : IsMedia(t[j]) => t[j].body < t[i].body
    BY <2>2, <2>3
  <2> QED
    BY <2>2, <2>4, <2>5, <2>6
<1>5. ASSUME ~IsMedia(h)
      PROVE  MediaFrom(t, n)
  BY <1>4, <1>5 DEF MediaFrom
<1>6. Len(s) \in 1 .. Len(s) /\ Len(s) - 1 = Len(t)
  BY <1>1
<1>7. ASSUME ~IsMedia(h), MediaUpTo(s, n, k)
      PROVE  MediaUpTo(t, n, k)
  BY <1>3, <1>6, <1>7 DEF MediaUpTo
<1>8. ASSUME IsMedia(h)
      PROVE  h.body = n /\ n < k
  <2>1. /\ h.body \in Nat /\ n <= h.body /\ h.body < k
        /\ \A b \in n .. h.body - 1 : Has(s, 0, b)
    BY <1>1, <1>8 DEF MediaFrom, MediaBelow
  <2>2. \A b : ~Has(s, 0, b)
    BY DEF Has
  <2> QED
    BY <2>1, <2>2
<1>9. ASSUME IsMedia(h)
      PROVE  MediaFrom(t, n + 1)
  <2>1. ASSUME NEW i \in DOMAIN t, IsMedia(t[i])
        PROVE  /\ t[i].body \in Nat /\ n + 1 <= t[i].body
               /\ \A b \in n + 1 .. t[i].body - 1 : Has(t, i - 1, b)
               /\ \A j \in 1 .. i - 1 : IsMedia(t[j]) => t[j].body < t[i].body
    <3>1. \A b \in n + 1 .. t[i].body - 1 : b \in n .. t[i].body - 1 /\ b # n
      BY <1>4, <2>1
    <3>2. t[i].body \in Nat /\ n + 1 <= t[i].body
      BY <1>4, <1>8, <1>9, <2>1
    <3> QED
      BY <1>4, <1>8, <1>9, <2>1, <3>1, <3>2
  <2> QED
    BY <2>1 DEF MediaFrom
<1>10. ASSUME IsMedia(h), MediaUpTo(s, n, k)
      PROVE  MediaUpTo(t, n + 1, k)
  <2>1. \A b \in n + 1 .. k - 1 : b \in n .. k - 1 /\ b # n
    OBVIOUS
  <2> QED
    BY <1>3, <1>6, <1>8, <1>10, <2>1 DEF MediaUpTo
<1> QED
  BY <1>2, <1>5, <1>7, <1>8, <1>9, <1>10 DEF t, h

\* Taking a message that is not metadata changes nothing for those behind it.
LEMMA TakenAnnounced ==
  ASSUME NEW s, FromClient(s), s # << >>, NEW c, ~IsMetadata(Head(s))
  PROVE  /\ \A p : Announced(s, c, p) <=> Described(c) = Described(p)
         /\ \A p : Announced(Tail(s), c, p) <=> Described(c) = Described(p)
         /\ MediaAnnounced(s, c) => MediaAnnounced(Tail(s), c)
<1> DEFINE t == Tail(s)
<1>1. /\ Head(s) = s[1] /\ IsSequence(t)
      /\ \A i \in DOMAIN t : ~IsMetadata(t[i])
  BY TakenFromClient DEF FromClient
<1>2. \A i \in DOMAIN t : i + 1 \in DOMAIN s /\ t[i] = s[i + 1]
  BY Shortened DEF FromClient
<1>3. t # << >> => 1 \in DOMAIN t
  BY <1>1, SequenceShape, Emptiness
<1> HIDE DEF t
<1>4. \A p : Announced(s, c, p) <=> Described(c) = Described(p)
  BY <1>1 DEF Announced
<1>5. \A p : Announced(t, c, p) <=> Described(c) = Described(p)
  BY <1>1, <1>3 DEF Announced
<1>6. MediaAnnounced(s, c) => MediaAnnounced(t, c)
  BY <1>2, <1>4, <1>5 DEF MediaAnnounced
<1> QED
  BY <1>4, <1>5, <1>6 DEF t

LEMMA LostFromClient ==
  ASSUME NEW s, FromClient(s), NEW l \in 0 .. Len(s), NEW n, NEW k, NEW c,
         MediaFrom(s, n), MediaBelow(s, k), MediaAnnounced(s, c)
  PROVE  LET t == SubSeq(s, 1, l)
         IN  FromClient(t) /\ MediaFrom(t, n) /\ MediaBelow(t, k) /\ MediaAnnounced(t, c)
<1> DEFINE t == SubSeq(s, 1, l)
<1>1. /\ IsSequence(t) /\ Len(s) \in Nat /\ DOMAIN s = 1 .. Len(s)
      /\ DOMAIN t = 1 .. l
      /\ \A i \in 1 .. l : i \in DOMAIN s /\ t[i] = s[i]
  BY CutOff, SequenceShape DEF FromClient
<1>2. /\ s = << >> <=> Len(s) = 0
      /\ Len(t) \in Nat /\ DOMAIN t = 1 .. Len(t)
      /\ t = << >> <=> Len(t) = 0
  BY <1>1, Emptiness, SequenceShape DEF FromClient
<1> HIDE DEF t
<1>3. FromClient(t)
  BY <1>1 DEF FromClient
<1>4. MediaFrom(t, n)
  <2>1. \A i \in 1 .. l : \A b : Has(s, i - 1, b) => Has(t, i - 1, b)
    BY <1>1 DEF Has
  <2>2. \A i \in 1 .. l : \A j \in 1 .. i - 1 : j \in 1 .. l
    BY <1>1
  <2> QED
    BY <1>1, <2>1, <2>2 DEF MediaFrom
<1>5. MediaBelow(t, k)
  BY <1>1 DEF MediaBelow
<1>6. ASSUME NEW i \in DOMAIN t, IsMedia(t[i])
      PROVE  Announced(t, c, t[i].about)
  <2>1. Announced(s, c, t[i].about)
    BY <1>1, <1>6 DEF MediaAnnounced
  <2>2. s # << >> /\ t # << >> /\ t[1] = s[1]
    BY <1>1, <1>2
  <2> QED
    BY <2>1, <2>2 DEF Announced
<1> QED
  BY <1>3, <1>4, <1>5, <1>6 DEF MediaAnnounced, t

-----------------------------------------------------------------------------
(* The client's steps.                                                      *)

LEMMA InitSession ==
  ASSUME Init
  PROVE  SessionInv
<1>1. IsSequence(<< >>) /\ DOMAIN << >> = {} /\ Len(<< >>) = 0
  BY NothingQueued
<1>2. toServer = << >> /\ toClient = << >> /\ outbox = << >> /\ returned = << >>
      /\ stage = "idle" /\ sent_params = FALSE /\ mediaSent = 0
      /\ m_ClientParameters = DefaultParameters
  BY DEF Init, ChannelInit, ClientInit, ServerInit
<1>3. FromClient(toServer) /\ IsSequence(toClient) /\ IsSequence(outbox) /\ IsSequence(returned)
  BY <1>1, <1>2 DEF FromClient
<1>4. Circle
  BY <1>1, <1>2 DEF Circle, Answering, OneAnswer, Current
<1>5. Bodies
  BY <1>1, <1>2 DEF Bodies, MediaFrom, MediaBelow, MediaUpTo
<1>6. StreamKnown
  BY <1>1, <1>2 DEF StreamKnown, NamesKnown, Answering, MediaAnnounced
<1>7. MediaDescribed /\ MediaInOrder /\ SetupFailsOnlyOnBreak
  BY <1>1, <1>2 DEF MediaDescribed, MediaInOrder, SetupFailsOnlyOnBreak
<1> QED
  BY <1>3, <1>4, <1>5, <1>6, <1>7 DEF SessionInv

\* Only an ended call, or on a broken connection, begins or throws.
LEMMA SetupBounds ==
  ASSUME SessionInv, UNCHANGED serverVars,
         SetupThrows \/ \E p \in Parameters : SendClientParameters(p)
  PROVE  SessionInv'
<1>1. /\ UNCHANGED <<toServer, toClient, up, outbox, returned, m_ClientParameters>>
      /\ UNCHANGED <<sent_params, mediaSent>>
  BY DEF SetupThrows, SendClientParameters, channelVars, serverVars
<1>2. \/ stage' = "threw" /\ ~up
      \/ stage \in {"idle", "threw"} /\ stage' = "connect"
  BY DEF SetupThrows, SendClientParameters
<1>3. up => stage = "idle" /\ stage' = "connect"
  BY <1>2 DEF SessionInv, SetupFailsOnlyOnBreak
<1>4. Circle'
  <2> SUFFICES ASSUME up
               PROVE  Circle'
    BY <1>1 DEF Circle
  <2>1. ~Answering /\ outbox = << >> /\ toClient = << >>
    BY <1>3 DEF SessionInv, Circle, Answering
  <2>2. OneAnswer(<< >>, "connect") /\ NoAnswer(<< >>)
    BY DEF OneAnswer, NoAnswer
  <2>3. Current(toServer, "connect", params')
    BY <1>3 DEF SessionInv, Circle, Current, Asks
  <2> QED
    BY <1>1, <1>3, <2>1, <2>2, <2>3 DEF Circle, Answering
<1>5. Bodies'
  BY <1>1 DEF SessionInv, Bodies
<1>6. StreamKnown'
  BY <1>1, <1>3 DEF SessionInv, StreamKnown, NamesKnown, Answering
<1>7. (MediaDescribed /\ MediaInOrder /\ SetupFailsOnlyOnBreak)'
  BY <1>1, <1>3 DEF SessionInv, MediaDescribed, MediaInOrder, SetupFailsOnlyOnBreak
<1> QED
  BY <1>1, <1>4, <1>5, <1>6, <1>7 DEF SessionInv

\* While the connection is up, a stage that sends has nothing answered before it in
\* the queue.
LEMMA NothingAnswered ==
  ASSUME SessionInv, up, stage \notin {"connecting", "creating", "publishing"}
  PROVE  /\ toClient = << >> /\ outbox = << >> /\ ~Answering
         /\ \A i \in DOMAIN toServer : ~Answered(toServer[i])
         /\ stage \notin {"FCPublish", "createStream"} =>
              \A i \in DOMAIN toServer : toServer[i].type # "AMF0"
<1>1. toClient = << >> /\ outbox = << >> /\ ~Answering
  BY DEF SessionInv, Circle, Answering
<1>2. Current(toServer, stage, params)
  BY DEF SessionInv, Circle
<1> QED
  BY <1>1, <1>2, KindsDiffer DEF Current, Asks

\* The commands of a setup.
LEMMA SendCommandStep ==
  ASSUME SessionInv, UNCHANGED serverVars,
         \/ SendAmfConnect \/ SendReleaseStream \/ SendFCPublish
         \/ SendCreateStream \/ SendPublish
  PROVE  SessionInv'
<1>1. PICK m :
        /\ SendAt(stage, m, stage') /\ UNCHANGED sent_params
        /\ Answered(m) \/ Unanswered(m)
        /\ m.type = "AMF0" /\ ~IsMetadata(m) /\ ~IsMedia(m)
        /\ \/ /\ stage = "connect" /\ stage' = "connecting"
              /\ Asks(m, stage', params)
           \/ /\ stage = "releaseStream" /\ stage' = "FCPublish"
              /\ Unanswered(m)
           \/ /\ stage = "FCPublish" /\ stage' = "createStream"
              /\ Unanswered(m)
           \/ /\ stage = "createStream" /\ stage' = "creating"
              /\ Asks(m, stage', params)
           \/ /\ stage = "publish" /\ stage' = "publishing"
              /\ Asks(m, stage', params)
  <2>1. CASE SendAmfConnect
    <3> DEFINE m == Command("connect", 1, params.app)
    <3>1. Answered(m) /\ m.type = "AMF0" /\ ~IsMetadata(m) /\ ~IsMedia(m)
      BY Commands
    <3>2. Asks(m, "connecting", params)
      BY DEF Asks, Command
    <3>3. SendAt("connect", m, "connecting") /\ UNCHANGED sent_params
      BY <2>1 DEF SendAmfConnect
    <3>4. stage = "connect" /\ stage' = "connecting"
      BY <3>3 DEF SendAt
    <3> QED
      BY <3>1, <3>2, <3>3, <3>4
  <2>2. CASE SendReleaseStream
    <3> DEFINE m == Command("releaseStream", 2, params.key)
    <3>1. Unanswered(m) /\ m.type = "AMF0" /\ ~IsMetadata(m) /\ ~IsMedia(m)
      BY Commands
    <3>3. SendAt("releaseStream", m, "FCPublish") /\ UNCHANGED sent_params
      BY <2>2 DEF SendReleaseStream
    <3>4. stage = "releaseStream" /\ stage' = "FCPublish"
      BY <3>3 DEF SendAt
    <3> QED
      BY <3>1, <3>3, <3>4
  <2>3. CASE SendFCPublish
    <3> DEFINE m == Command("FCPublish", 3, params.key)
    <3>1. Unanswered(m) /\ m.type = "AMF0" /\ ~IsMetadata(m) /\ ~IsMedia(m)
      BY Commands
    <3>3. SendAt("FCPublish", m, "createStream") /\ UNCHANGED sent_params
      BY <2>3 DEF SendFCPublish
    <3>4. stage = "FCPublish" /\ stage' = "createStream"
      BY <3>3 DEF SendAt
    <3> QED
      BY <3>1, <3>3, <3>4
  <2>4. CASE SendCreateStream
    <3> DEFINE m == Command("createStream", 4, "")
    <3>1. Answered(m) /\ m.type = "AMF0" /\ ~IsMetadata(m) /\ ~IsMedia(m)
      BY DEF Command, Answered, IsMetadata, IsMedia
    <3>2. Asks(m, "creating", params)
      BY DEF Asks, Command
    <3>3. SendAt("createStream", m, "creating") /\ UNCHANGED sent_params
      BY <2>4 DEF SendCreateStream
    <3>4. stage = "createStream" /\ stage' = "creating"
      BY <3>3 DEF SendAt
    <3> QED
      BY <3>1, <3>2, <3>3, <3>4
  <2>5. CASE SendPublish
    <3> DEFINE m == Command("publish", 0, params.key)
    <3>1. Answered(m) /\ m.type = "AMF0" /\ ~IsMetadata(m) /\ ~IsMedia(m)
      BY Commands
    <3>2. Asks(m, "publishing", params)
      BY DEF Asks, Command
    <3>3. SendAt("publish", m, "publishing") /\ UNCHANGED sent_params
      BY <2>5 DEF SendPublish
    <3>4. stage = "publish" /\ stage' = "publishing"
      BY <3>3 DEF SendAt
    <3> QED
      BY <3>1, <3>2, <3>3, <3>4
  <2> QED
    BY <2>1, <2>2, <2>3, <2>4, <2>5
<1>2. /\ up /\ up' = up /\ toServer' = Append(toServer, m)
      /\ UNCHANGED <<params, mediaSent, toClient, sent_params>>
      /\ UNCHANGED <<outbox, returned, m_ClientParameters>>
  BY <1>1 DEF SendAt, serverVars
<1>3. /\ toClient = << >> /\ outbox = << >> /\ ~Answering
      /\ \A i \in DOMAIN toServer : ~Answered(toServer[i])
      /\ stage \notin {"FCPublish", "createStream"} =>
              \A i \in DOMAIN toServer : toServer[i].type # "AMF0"
  BY <1>1, <1>2, NothingAnswered
<1>4. /\ FromClient(toServer')
      /\ toServer' # << >>
      /\ CommandsOnly(toServer) => CommandsOnly(toServer')
      /\ \A st, p : Current(toServer', st, p) <=>
              /\ Current(toServer, st, p)
              /\ Asks(m, st, p) \/ (Unanswered(m) /\ st \in {"FCPublish", "createStream", "creating"})
      /\ \A c, p : Announced(toServer', c, p) <=> Announced(toServer, c, p)
  BY <1>1, <1>2, <1>3, SentMessage DEF SessionInv
<1>5. Circle'
  <2>1. ~Answering'
    BY <1>2, <1>3 DEF Answering
  <2>2. OneAnswer(outbox', stage') /\ OneAnswer(toClient', stage') /\ NoAnswer(toClient')
    BY <1>2, <1>3 DEF OneAnswer, NoAnswer
  <2>3. CommandsOnly(<< >>)
    BY DEF CommandsOnly
  <2>4. stage' # "connecting" => CommandsOnly(toServer')
    BY <1>1, <1>2, <1>4, <2>3 DEF SessionInv, Circle
  <2>5. Current(toServer, stage', params)
    <3>1. CASE \A i \in DOMAIN toServer : toServer[i].type # "AMF0"
      BY <3>1 DEF Current
    <3>2. CASE stage \in {"FCPublish", "createStream"}
      BY <1>1, <1>2, <3>2 DEF SessionInv, Circle, Current, Asks
    <3> QED
      BY <1>3, <3>1, <3>2
  <2>6. Current(toServer', stage', params')
    BY <1>1, <1>2, <1>4, <2>5
  <2> QED
    BY <1>1, <1>2, <2>1, <2>2, <2>4, <2>6 DEF Circle
<1>6. Bodies'
  <2>1. IsSequence(toServer) /\ Len(returned) \in Nat
    BY SequenceShape DEF SessionInv, FromClient
  <2> QED
    BY <1>1, <1>2, <2>1, SentBodies DEF SessionInv, Bodies
<1>7. StreamKnown'
  <2>1. MediaAnnounced(toServer', m_ClientParameters)
    BY <1>1, <1>2, <1>3, SentAnnounced DEF SessionInv, StreamKnown
  <2>2. NamesKnown'
    BY <1>1, <1>2, <1>3 DEF SessionInv, StreamKnown, NamesKnown, Answering
  <2> QED
    BY <1>1, <1>2, <2>1, <2>2 DEF SessionInv, StreamKnown
<1>8. (MediaDescribed /\ MediaInOrder /\ SetupFailsOnlyOnBreak)'
  BY <1>1, <1>2 DEF SessionInv, MediaDescribed, MediaInOrder, SetupFailsOnlyOnBreak
<1> QED
  BY <1>2, <1>4, <1>5, <1>6, <1>7, <1>8 DEF SessionInv

LEMMA SendDataFrameStep ==
  ASSUME SessionInv, UNCHANGED serverVars, SendDataFrameParameters
  PROVE  SessionInv'
<1> DEFINE m == Metadata(PropsOf(params))
<1>1. /\ stage = "dataFrame" /\ stage' = "idle" /\ sent_params' = TRUE
      /\ up /\ up' = up /\ toServer' = Append(toServer, m)
      /\ UNCHANGED <<params, mediaSent, toClient>>
      /\ UNCHANGED <<outbox, returned, m_ClientParameters>>
  BY DEF SendDataFrameParameters, SendAt, serverVars
<1>2. /\ IsMetadata(m) /\ m.props = PropsOf(params) /\ m.type # "AMF0" /\ ~IsMedia(m)
  BY MetadataKind
<1> HIDE DEF m
<1>3. toServer = << >> /\ toClient = << >> /\ outbox = << >>
  BY <1>1 DEF SessionInv, Circle, Answering
<1>4. /\ IsSequence(toServer) /\ Len(toServer) = 0 /\ DOMAIN toServer = {}
      /\ toServer' # << >> /\ toServer'[1] = m
  <2>1. IsSequence(toServer) /\ Len(toServer) = 0 /\ DOMAIN toServer = {}
    BY <1>3 DEF SessionInv, FromClient
  <2> DEFINE t == Append(toServer, m)
  <2>5. /\ IsSequence(t) /\ DOMAIN t = 1 .. Len(toServer) + 1
        /\ t[Len(toServer) + 1] = m
    BY <2>1, Appended
  <2>2. toServer'[1] = m /\ DOMAIN toServer' = 1 .. 1 /\ IsSequence(toServer')
    BY <1>1, <2>1, <2>5
  <2>3. Len(toServer') = 1
    BY <2>2, SequenceShape
  <2> QED
    BY <2>1, <2>2, <2>3, Emptiness
<1>5. /\ FromClient(toServer')
      /\ \A st, p : Current(toServer', st, p) <=> Current(toServer, st, p)
  BY <1>1, <1>2, <1>3, <1>4, SentMessage DEF SessionInv
<1>6. Circle'
  <2>1. OneAnswer(<< >>, "idle")
    BY DEF OneAnswer
  <2>2. Current(toServer, "idle", params)
    BY <1>4 DEF Current
  <2> QED
    BY <1>1, <1>3, <1>5, <2>1, <2>2 DEF Circle, Answering
<1>7. Bodies'
  <2>1. Len(returned) \in Nat
    BY SequenceShape DEF SessionInv
  <2> QED
    BY <1>1, <1>2, <1>4, <2>1, SentBodies DEF SessionInv, Bodies
<1>8. StreamKnown'
  <2>1. MediaAnnounced(toServer', m_ClientParameters)
    BY <1>1, <1>2, <1>3, <1>4, SentAnnounced DEF SessionInv, StreamKnown
  <2>2. m_ClientParameters.app = params.app /\ m_ClientParameters.key = params.key
    BY <1>1 DEF SessionInv, StreamKnown, NamesKnown
  <2>3. Announced(toServer', m_ClientParameters, params)
    BY <1>2, <1>4, <2>2 DEF Announced
  <2>4. NamesKnown'
    BY <1>1, <2>2 DEF NamesKnown
  <2> QED
    BY <1>1, <2>1, <2>3, <2>4 DEF SessionInv, StreamKnown
<1>9. (MediaDescribed /\ MediaInOrder /\ SetupFailsOnlyOnBreak)'
  BY <1>1 DEF SessionInv, MediaDescribed, MediaInOrder, SetupFailsOnlyOnBreak
<1> QED
  BY <1>1, <1>5, <1>6, <1>7, <1>8, <1>9 DEF SessionInv

LEMMA SendMediaStep ==
  ASSUME SessionInv, UNCHANGED serverVars, NEW type \in {"AUDIO", "VIDEO"},
         SendRTMPMessage(type)
  PROVE  SessionInv'
<1> DEFINE m == Media(type, mediaSent, params)
<1>1. /\ stage = "idle" /\ stage' = "idle" /\ sent_params /\ sent_params' = sent_params
      /\ up /\ up' = up /\ toServer' = Append(toServer, m)
      /\ mediaSent' = mediaSent + 1
      /\ UNCHANGED <<params, toClient>>
      /\ UNCHANGED <<outbox, returned, m_ClientParameters>>
  BY DEF SendRTMPMessage, serverVars, SessionInv, SetupFailsOnlyOnBreak
<1>2. /\ IsMedia(m) /\ m.body = mediaSent /\ m.about = params
      /\ m.type # "AMF0" /\ ~IsMetadata(m)
  BY MediaKind
<1> HIDE DEF m
<1>3. /\ toClient = << >> /\ outbox = << >> /\ ~Answering
      /\ \A i \in DOMAIN toServer : ~Answered(toServer[i])
  BY <1>1, NothingAnswered
<1>4. /\ FromClient(toServer')
      /\ \A st, p : Current(toServer', st, p) <=> Current(toServer, st, p)
      /\ \A c, p : Announced(toServer', c, p) <=> Announced(toServer, c, p)
  BY <1>1, <1>2, <1>3, SentMessage DEF SessionInv
<1>5. Circle'
  BY <1>1, <1>3, <1>4 DEF SessionInv, Circle, Answering
<1>6. Bodies'
  <2>1. IsSequence(toServer) /\ Len(returned) \in Nat
    BY SequenceShape DEF SessionInv, FromClient
  <2>2. /\ mediaSent \in Nat /\ Len(returned) <= mediaSent
        /\ MediaFrom(toServer, Len(returned)) /\ MediaBelow(toServer, mediaSent)
        /\ MediaUpTo(toServer, Len(returned), mediaSent)
    BY <1>1 DEF SessionInv, Bodies
  <2>3. /\ MediaFrom(toServer', Len(returned)) /\ MediaBelow(toServer', mediaSent')
        /\ MediaUpTo(toServer', Len(returned), mediaSent')
    BY <1>1, <1>2, <2>1, <2>2, SentBodies
  <2> QED
    BY <1>1, <2>1, <2>2, <2>3 DEF Bodies
<1>7. StreamKnown'
  <2>1. Announced(toServer, m_ClientParameters, params)
    BY <1>1 DEF SessionInv, StreamKnown
  <2>2. MediaAnnounced(toServer', m_ClientParameters)
    BY <1>1, <1>2, <1>3, <2>1, SentAnnounced DEF SessionInv, StreamKnown
  <2>3. NamesKnown'
    BY <1>1 DEF NamesKnown
  <2> QED
    BY <1>1, <1>4, <2>1, <2>2, <2>3 DEF SessionInv, StreamKnown
<1>8. (MediaDescribed /\ MediaInOrder /\ SetupFailsOnlyOnBreak)'
  BY <1>1 DEF SessionInv, MediaDescribed, MediaInOrder, SetupFailsOnlyOnBreak
<1> QED
  BY <1>1, <1>4, <1>5, <1>6, <1>7, <1>8 DEF SessionInv

\* The head of toClient is an answer only if it is the last of all, and one that the
\* client accepts.
LEMMA TakenByClient ==
  ASSUME SessionInv, toClient # << >>, up
  PROVE  /\ toServer = << >>
         /\ OneAnswer(Tail(toClient), stage)
         /\ NoAnswer(toClient) => NoAnswer(Tail(toClient))
         /\ Head(toClient).type = "AMF0" =>
              Tail(toClient) = << >> /\ outbox = << >> /\ Answers(Head(toClient), stage)
<1> DEFINE t == Tail(toClient)
           h == Head(toClient)
<1>1. toServer = << >> /\ OneAnswer(toClient, stage) /\ (outbox # << >> => NoAnswer(toClient))
  BY DEF SessionInv, Circle, Answering
<1>2. /\ IsSequence(t) /\ h = toClient[1] /\ 1 \in DOMAIN toClient
      /\ DOMAIN t = 1 .. Len(toClient) - 1 /\ Len(t) = Len(toClient) - 1
      /\ \A i \in DOMAIN t : i + 1 \in DOMAIN toClient /\ t[i] = toClient[i + 1]
      /\ Len(toClient) \in Nat
  BY Shortened, SequenceShape DEF SessionInv
<1>3. t = << >> <=> Len(t) = 0
  BY <1>2, Emptiness
<1> HIDE DEF t, h
<1>4. OneAnswer(t, stage)
  BY <1>1, <1>2 DEF OneAnswer
<1>5. NoAnswer(toClient) => NoAnswer(t)
  BY <1>2 DEF NoAnswer
<1>6. h.type = "AMF0" => t = << >> /\ outbox = << >> /\ Answers(h, stage)
  BY <1>1, <1>2, <1>3 DEF OneAnswer, NoAnswer
<1> QED
  BY <1>1, <1>4, <1>5, <1>6 DEF t, h

LEMMA ReadResponseStep ==
  ASSUME SessionInv, UNCHANGED serverVars, PassOver \/ TakeAnswer \/ RefuseAnswer
  PROVE  SessionInv'
<1> DEFINE h == Head(toClient)
<1>1. /\ stage \in {"connecting", "creating", "publishing"} /\ toClient # << >>
      /\ toClient' = Tail(toClient)
      /\ UNCHANGED <<params, toServer, up, sent_params, mediaSent>>
      /\ UNCHANGED <<outbox, returned, m_ClientParameters>>
  BY DEF PassOver, TakeAnswer, RefuseAnswer, ReadResponse, Waiting, Awaited, serverVars
<1>2. \/ ~IsAnswer(h) /\ stage' = stage
      \/ IsAnswer(h) /\ Accepts(h) /\ stage' = NextStage[stage]
      \/ IsAnswer(h) /\ ~Accepts(h) /\ stage' = "threw"
  BY DEF PassOver, TakeAnswer, RefuseAnswer
<1>3. /\ IsAnswer(h) => h.type = "AMF0"
      /\ Answers(h, stage) => IsAnswer(h) /\ Accepts(h)
  BY Accepted DEF IsAnswer
<1>4. /\ stage = "connecting" => NextStage[stage] = "releaseStream"
      /\ stage = "creating" => NextStage[stage] = "publish"
      /\ stage = "publishing" => NextStage[stage] = "dataFrame"
  BY DEF NextStage
<1>5. up => /\ toServer = << >>
            /\ OneAnswer(Tail(toClient), stage)
            /\ NoAnswer(toClient) => NoAnswer(Tail(toClient))
            /\ h.type = "AMF0" =>
                 Tail(toClient) = << >> /\ outbox = << >> /\ Answers(h, stage)
  BY <1>1, TakenByClient
<1> HIDE DEF h
<1>6. IsSequence(toClient')
  BY <1>1, Shortened DEF SessionInv
<1>7. up => \/ stage' = stage
            \/ stage' = NextStage[stage] /\ toClient' = << >> /\ outbox = << >>
  BY <1>1, <1>2, <1>3, <1>5
<1>8. Circle'
  <2> SUFFICES ASSUME up
               PROVE  Circle'
    BY <1>1 DEF Circle
  <2>1. \A st, p : CommandsOnly(<< >>) /\ Current(<< >>, st, p) /\ OneAnswer(<< >>, st) /\ NoAnswer(<< >>)
    BY DEF CommandsOnly, Current, OneAnswer, NoAnswer
  <2>2. CASE stage' = stage
    BY <1>1, <1>5, <2>1, <2>2 DEF SessionInv, Circle, Answering
  <2>3. CASE stage' = NextStage[stage] /\ toClient' = << >> /\ outbox = << >>
    BY <1>1, <1>4, <1>5, <2>1, <2>3 DEF SessionInv, Circle, Answering
  <2> QED
    BY <1>7, <2>2, <2>3
<1>9. Bodies'
  BY <1>1 DEF SessionInv, Bodies
<1>10. StreamKnown'
  <2>1. NamesKnown'
    <3> SUFFICES ASSUME up
                 PROVE  NamesKnown'
      BY <1>1 DEF NamesKnown
    <3>1. NamesKnown /\ Answering
      BY <1>1 DEF SessionInv, StreamKnown, Answering
    <3>2. CASE stage' = stage
      BY <1>1, <3>1, <3>2 DEF NamesKnown
    <3>3. CASE stage' = NextStage[stage]
      BY <1>1, <1>4, <3>1, <3>3 DEF NamesKnown
    <3> QED
      BY <1>7, <3>2, <3>3
  <2>2. up => stage' # "idle"
    BY <1>1, <1>4, <1>7
  <2> QED
    BY <1>1, <2>1, <2>2 DEF SessionInv, StreamKnown
<1>11. (MediaDescribed /\ MediaInOrder /\ SetupFailsOnlyOnBreak)'
  <2>1. up => stage' # "threw"
    BY <1>1, <1>4, <1>7
  <2> QED
    BY <1>1, <2>1 DEF SessionInv, MediaDescribed, MediaInOrder, SetupFailsOnlyOnBreak
<1> QED
  BY <1>1, <1>6, <1>8, <1>9, <1>10, <1>11 DEF SessionInv

-----------------------------------------------------------------------------
(* The server's steps.                                                      *)

\* The client session sends codecs as numbers.
LEMMA SentCodec ==
  ASSUME NEW n, NEW old
  PROVE  VideoCodec(Number(n), old) = n /\ AudioCodec(Number(n), old) = n
  BY DEF Number, VideoCodec, AudioCodec

\* What onMetaData makes of the properties that the client sends for p.
LEMMA PropertiesAssigned ==
  ASSUME NEW c, DOMAIN c = DOMAIN DefaultParameters, NEW p, c.app = p.app, c.key = p.key
  PROVE  LET q == WithAudio(WithVideo(c, PropsOf(p)), PropsOf(p))
         IN  Described(q) = Described(p)
<1> DEFINE props == PropsOf(p)
           v == WithVideo(c, props)
           q == WithAudio(v, props)
<1>1. /\ {"width", "height", "videocodecid", "framerate"} \subseteq DOMAIN VideoProps(p) <=> p.has_video
      /\ ~p.has_video => VideoProps(p) = << >>
      /\ p.has_video => /\ DOMAIN VideoProps(p) = {"width", "height", "videocodecid", "framerate"}
                        /\ VideoProps(p)["width"] = p.width
                        /\ VideoProps(p)["height"] = p.height
                        /\ VideoProps(p)["videocodecid"] = Number(p.video_codec)
                        /\ VideoProps(p)["framerate"] = p.framerate
  BY DEF VideoProps
<1>2. /\ ~p.has_audio => AudioProps(p) = << >>
      /\ p.has_audio => /\ DOMAIN AudioProps(p) =
                             {"audiocodecid", "audiosamplerate", "audiochannels", "stereo"}
                        /\ AudioProps(p)["audiocodecid"] = Number(p.audio_codec)
                        /\ AudioProps(p)["audiosamplerate"] = p.samplerate
                        /\ AudioProps(p)["audiochannels"] = p.channels
  BY DEF AudioProps
<1>3. DOMAIN << >> = {}
  OBVIOUS
<1>4. /\ p.has_video => /\ {"width", "height", "videocodecid", "framerate"} \subseteq DOMAIN props
                        /\ props["width"] = p.width /\ props["height"] = p.height
                        /\ props["videocodecid"] = Number(p.video_codec)
                        /\ props["framerate"] = p.framerate
      /\ ~p.has_video => "width" \notin DOMAIN props
      /\ p.has_audio => /\ {"audiocodecid", "audiosamplerate", "audiochannels"} \subseteq DOMAIN props
                        /\ props["audiocodecid"] = Number(p.audio_codec)
                        /\ props["audiosamplerate"] = p.samplerate
                        /\ props["audiochannels"] = p.channels
      /\ ~p.has_audio => "audiocodecid" \notin DOMAIN props
  BY <1>1, <1>2, <1>3 DEF PropsOf, BothProps
<1> HIDE DEF props
<1>5. /\ p.has_video => VideoCodec(props["videocodecid"], c.video_codec) = p.video_codec
      /\ p.has_audio => AudioCodec(props["audiocodecid"], v.audio_codec) = p.audio_codec
  BY <1>4, SentCodec
<1>6. /\ DOMAIN v = DOMAIN c
      /\ v.app = c.app /\ v.key = c.key
      /\ v.has_video <=> p.has_video
      /\ p.has_video => /\ v.width = p.width /\ v.height = p.height
                        /\ v.video_codec = p.video_codec /\ v.framerate = p.framerate
  BY <1>4, <1>5 DEF WithVideo, Assign, VideoNeeds, DefaultParameters
<1> HIDE DEF v
<1>7. /\ q.app = v.app /\ q.key = v.key
      /\ q.has_video = v.has_video /\ q.width = v.width /\ q.height = v.height
      /\ q.video_codec = v.video_codec /\ q.framerate = v.framerate
      /\ q.has_audio <=> p.has_audio
      /\ p.has_audio => /\ q.audio_codec = p.audio_codec /\ q.samplerate = p.samplerate
                        /\ q.channels = p.channels
  BY <1>4, <1>6, <1>5 DEF WithAudio, Assign, AudioNeeds, Channels, DefaultParameters
<1> HIDE DEF q
<1>8. Described(q) = Described(p)
  BY <1>6, <1>7 DEF Described
<1> QED
  BY <1>8 DEF q, v, props

\* The head of toServer is taken; a command that is answered leaves the queue empty.
LEMMA ConsumedCircle ==
  ASSUME SessionInv, toServer # << >>, outbox = << >>, toServer' = Tail(toServer),
         UNCHANGED <<toClient, up, stage, params>>,
         \/ outbox' = << >>
         \/ /\ Answered(Head(toServer))
            /\ IsSequence(outbox') /\ (up => OneAnswer(outbox', stage))
  PROVE  /\ FromClient(toServer') /\ IsSequence(outbox')
         /\ Circle'
         /\ Answered(Head(toServer)) => toServer' = << >>
         /\ up /\ Answered(Head(toServer)) => Asks(Head(toServer), stage, params)
<1> DEFINE h == Head(toServer)
<1>1. /\ FromClient(Tail(toServer))
      /\ Answered(h) => Tail(toServer) = << >>
      /\ CommandsOnly(toServer) => CommandsOnly(Tail(toServer))
      /\ \A st, p : Current(toServer, st, p) =>
           Current(Tail(toServer), st, p) /\ (Answered(h) => Asks(h, st, p))
  BY TakenFromClient DEF SessionInv
<1> HIDE DEF h
<1>2. up /\ Answered(h) => Asks(h, stage, params)
  BY <1>1 DEF SessionInv, Circle
<1>3. IsSequence(outbox')
  BY DEF SessionInv
<1>4. Circle'
  <2> SUFFICES ASSUME up
               PROVE  Circle'
    BY DEF Circle
  <2>1. /\ toClient = << >> /\ ~Answering
        /\ stage \notin {"releaseStream", "publish", "dataFrame"}
        /\ Current(toServer', stage', params')
        /\ stage \notin {"idle", "connect", "connecting"} => CommandsOnly(toServer')
    BY <1>1 DEF SessionInv, Circle, Answering
  <2>2. OneAnswer(<< >>, stage') /\ NoAnswer(<< >>)
    BY DEF OneAnswer, NoAnswer
  <2>3. CASE outbox' = << >>
    BY <2>1, <2>2, <2>3 DEF Circle, Answering
  <2>4. CASE outbox' # << >>
    <3>1. Answered(h) /\ OneAnswer(outbox', stage') /\ toServer' = << >>
      BY <1>1, <2>4 DEF h
    <3>2. stage \in {"connecting", "creating", "publishing"}
      BY <1>2, <3>1 DEF Asks
    <3> QED
      BY <2>1, <2>2, <3>1, <3>2 DEF Circle, Answering
  <2> QED
    BY <2>3, <2>4
<1> QED
  BY <1>1, <1>2, <1>3, <1>4 DEF h

\* ...and the media behind it are as they were, unless it was the first of them.
LEMMA ConsumedBodies ==
  ASSUME SessionInv, toServer # << >>, toServer' = Tail(toServer),
         UNCHANGED <<up, mediaSent, sent_params>>,
         \/ ~IsMedia(Head(toServer)) /\ returned' = returned
         \/ /\ IsMedia(Head(toServer)) /\ IsSequence(returned')
            /\ Len(returned') = Len(returned) + 1
  PROVE  Bodies' /\ IsSequence(returned')
<1>1. IsSequence(toServer) /\ IsSequence(returned) /\ Len(returned) \in Nat
  BY SequenceShape DEF SessionInv, FromClient
<1>2. /\ mediaSent \in Nat /\ Len(returned) <= mediaSent
      /\ MediaFrom(toServer, Len(returned)) /\ MediaBelow(toServer, mediaSent)
      /\ up => MediaUpTo(toServer, Len(returned), mediaSent)
      /\ mediaSent > 0 => sent_params
  BY DEF SessionInv, Bodies
<1>3. /\ MediaBelow(toServer', mediaSent)
      /\ ~IsMedia(Head(toServer)) =>
              /\ MediaFrom(toServer', Len(returned))
              /\ up => MediaUpTo(toServer', Len(returned), mediaSent)
      /\ IsMedia(Head(toServer)) =>
              /\ Len(returned) < mediaSent
              /\ MediaFrom(toServer', Len(returned) + 1)
              /\ up => MediaUpTo(toServer', Len(returned) + 1, mediaSent)
  BY <1>1, <1>2, TakenBodies
<1> QED
  BY <1>1, <1>2, <1>3 DEF Bodies

\* HandleAMF's names tell the messages of the client apart.
LEMMA HeadKind ==
  ASSUME SessionInv, toServer # << >>, Head(toServer).type \in AmfTypes
  PROVE  LET h == Head(toServer)
         IN  /\ h.name \in {"connect", "createStream", "publish"} => Answered(h)
             /\ IsOnMetaData(h) => IsMetadata(h)
             /\ h.name \notin {"connect", "createStream", "publish"} /\ ~IsOnMetaData(h)
                  => Unanswered(h)
<1> DEFINE h == Head(toServer)
<1>1. Answered(h) \/ Unanswered(h) \/ IsMetadata(h) \/ IsMedia(h)
  BY TakenFromClient DEF SessionInv
<1> QED
  BY <1>1 DEF AmfTypes, Answered, Unanswered, IsMetadata, IsMedia, IsOnMetaData

\* connect, createStream and publish.
LEMMA HandleCommandStep ==
  ASSUME SessionInv, UNCHANGED clientVars,
         \/ HandleConnect \/ HandleConnectThrows \/ HandleCreateStream \/ HandlePublish
         \/ AssertionFails
  PROVE  SessionInv'
<1> DEFINE h == Head(toServer)
<1>1. /\ toServer # << >> /\ outbox = << >> /\ toServer' = Tail(toServer)
      /\ UNCHANGED <<toClient, up, stage, params, mediaSent, sent_params, returned>>
      /\ h.type \in AmfTypes
      /\ h.name \in {"connect", "createStream", "publish"}
  BY DEF HandleConnect, HandleConnectThrows, HandleCreateStream, HandlePublish,
     AssertionFails, ReadsCommand, Reads, clientVars
<1>2. Answered(h)
  BY <1>1, HeadKind
<1>3. \/ h.name = "connect" /\ outbox' = ConnectReplies(h.id)
      \/ h.name = "createStream" /\ outbox' = << Command("_result", h.id, "") >>
      \/ h.name = "publish" /\ outbox' = << Command("onStatus", h.id, "NetStream.Publish.Start") >>
      \/ outbox' = << >>
  BY <1>1 DEF HandleConnect, HandleConnectThrows, HandleCreateStream, HandlePublish,
     AssertionFails, ReadsCommand
<1>4. \/ outbox' = << >>
      \/ h.name = "connect" /\ m_ClientParameters' = [m_ClientParameters EXCEPT !.app = h.arg]
      \/ h.name = "createStream" /\ m_ClientParameters' = m_ClientParameters
      \/ h.name = "publish" /\ m_ClientParameters' = [m_ClientParameters EXCEPT !.key = h.arg]
  BY <1>1, <1>2 DEF HandleConnect, HandleConnectThrows, HandleCreateStream, HandlePublish,
     AssertionFails, ReadsCommand, Argument, HasArgument, Answered
<1>5. outbox' = << >> => m_ClientParameters' = m_ClientParameters
  <2>1. outbox' = << >> => HandleConnectThrows \/ AssertionFails
    BY Replies DEF HandleConnect, HandleCreateStream, HandlePublish
  <2> QED
    BY <2>1 DEF HandleConnectThrows, AssertionFails
<1>6. up => Asks(h, stage, params)
  <2>1. Current(toServer, stage, params) => Asks(h, stage, params)
    BY <1>1, <1>2, TakenFromClient DEF SessionInv
  <2> QED
    BY <2>1 DEF SessionInv, Circle
<1> HIDE DEF h
<1>7. up => \/ h.name = "connect" /\ stage = "connecting" /\ h.id = 1 /\ h.arg = params.app
            \/ h.name = "createStream" /\ stage = "creating" /\ h.id = 4
            \/ h.name = "publish" /\ stage = "publishing" /\ h.id = 0 /\ h.arg = params.key
  BY <1>6 DEF Asks
<1>8. outbox' = << >> \/ (IsSequence(outbox') /\ outbox' # << >> /\ (up => OneAnswer(outbox', stage)))
  <2>1. CASE h.name = "connect" /\ outbox' = ConnectReplies(h.id)
    BY <1>7, <2>1, Replies
  <2>2. CASE h.name = "createStream" /\ outbox' = << Command("_result", h.id, "") >>
    <3>1. up => stage = "creating" /\ h.id = 4
      BY <1>7, <2>2
    <3>2. h.id = 4 => OneAnswer(<< Command("_result", h.id, "") >>, "creating")
      BY Replies
    <3> QED
      BY <2>2, <3>1, <3>2, Replies
  <2>3. CASE h.name = "publish"
             /\ outbox' = << Command("onStatus", h.id, "NetStream.Publish.Start") >>
    <3>1. up => stage = "publishing" /\ h.id = 0
      BY <1>7, <2>3
    <3>2. h.id = 0 => OneAnswer(<< Command("onStatus", h.id, "NetStream.Publish.Start") >>, "publishing")
      BY Replies
    <3> QED
      BY <2>3, <3>1, <3>2, Replies
  <2> QED
    BY <1>3, <2>1, <2>2, <2>3
<1>9. FromClient(toServer') /\ IsSequence(outbox') /\ Circle' /\ toServer' = << >>
  BY <1>1, <1>2, <1>8, ConsumedCircle DEF h
<1>10. Bodies' /\ IsSequence(returned')
  BY <1>1, <1>2, KindsDiffer, ConsumedBodies DEF h
<1>11. StreamKnown'
  <2>1. DOMAIN m_ClientParameters' = DOMAIN DefaultParameters
    BY <1>4, <1>5 DEF SessionInv, StreamKnown
  <2>2. DOMAIN toServer' = {}
    BY <1>9
  <2>3. MediaAnnounced(toServer', m_ClientParameters')
    BY <2>2 DEF MediaAnnounced
  <2>4. up => stage # "idle"
    BY <1>7
  <2>5. NamesKnown'
    <3> SUFFICES ASSUME up
                 PROVE  NamesKnown'
      BY <1>1 DEF NamesKnown
    <3>1. NamesKnown /\ toClient = << >>
      BY <1>1 DEF SessionInv, StreamKnown, Circle, Answering
    <3>2. CASE outbox' = << >>
      BY <1>1, <1>5, <3>1, <3>2 DEF NamesKnown, Answering
    <3>3. CASE h.name = "connect" /\ m_ClientParameters' = [m_ClientParameters EXCEPT !.app = h.arg]
      <4>1. m_ClientParameters'.app = params.app
        BY <1>7, <3>3 DEF SessionInv, StreamKnown, DefaultParameters
      <4> QED
        BY <1>1, <1>7, <3>3, <4>1 DEF NamesKnown
    <3>4. CASE h.name = "createStream" /\ m_ClientParameters' = m_ClientParameters
      BY <1>1, <1>7, <3>1, <3>4 DEF NamesKnown
    <3>5. CASE h.name = "publish" /\ m_ClientParameters' = [m_ClientParameters EXCEPT !.key = h.arg]
      <4>1. m_ClientParameters'.app = m_ClientParameters.app /\ m_ClientParameters'.key = params.key
        BY <1>7, <3>5 DEF SessionInv, StreamKnown, DefaultParameters
      <4> QED
        BY <1>1, <1>7, <3>1, <3>5, <4>1 DEF NamesKnown
    <3> QED
      BY <1>4, <3>2, <3>3, <3>4, <3>5
  <2> QED
    BY <1>1, <2>1, <2>3, <2>4, <2>5 DEF StreamKnown
<1>12. (MediaDescribed /\ MediaInOrder /\ SetupFailsOnlyOnBreak)'
  BY <1>1 DEF SessionInv, MediaDescribed, MediaInOrder, SetupFailsOnlyOnBreak
<1> QED
  BY <1>1, <1>9, <1>10, <1>11, <1>12 DEF SessionInv

\* A command that is not answered changes nothing; the other ways of dropping a
\* message do not happen with this client.
LEMMA IgnoreCommandStep ==
  ASSUME SessionInv, UNCHANGED clientVars, IgnoreCommand \/ PassOn \/ ParseMediaThrows
  PROVE  SessionInv'
<1> DEFINE h == Head(toServer)
<1>1. /\ toServer # << >> /\ outbox = << >> /\ toServer' = Tail(toServer) /\ outbox' = << >>
      /\ UNCHANGED <<toClient, up, stage, params, mediaSent, sent_params, returned>>
      /\ m_ClientParameters' = m_ClientParameters
  BY DEF IgnoreCommand, PassOn, ParseMediaThrows, Reads, clientVars, serverVars
<1>2. Unanswered(h)
  <2>1. CASE IgnoreCommand
    BY <2>1, HeadKind DEF IgnoreCommand, Reads
  <2>2. CASE PassOn \/ ParseMediaThrows
    <3>1. Answered(h) \/ Unanswered(h) \/ IsMetadata(h) \/ IsMedia(h)
      BY <1>1, TakenFromClient DEF SessionInv
    <3> QED
      BY <2>2, <3>1 DEF PassOn, ParseMediaThrows, Reads, Answered, IsMetadata, IsMedia
  <2> QED
    BY <2>1, <2>2
<1>3. ~Answered(h) /\ ~IsMetadata(h) /\ ~IsMedia(h)
  BY <1>2, KindsDiffer
<1>4. FromClient(toServer') /\ IsSequence(outbox') /\ Circle'
  BY <1>1, ConsumedCircle
<1>5. Bodies' /\ IsSequence(returned')
  BY <1>1, <1>3, ConsumedBodies
<1>6. StreamKnown'
  <2>1. NamesKnown'
    BY <1>1 DEF SessionInv, StreamKnown, NamesKnown, Answering
  <2>2. /\ \A p : Announced(toServer', m_ClientParameters, p) <=>
                  Announced(toServer, m_ClientParameters, p)
        /\ MediaAnnounced(toServer, m_ClientParameters) =>
             MediaAnnounced(toServer', m_ClientParameters)
    BY <1>1, <1>3, TakenAnnounced DEF SessionInv
  <2> QED
    BY <1>1, <2>1, <2>2 DEF SessionInv, StreamKnown
<1>7. (MediaDescribed /\ MediaInOrder /\ SetupFailsOnlyOnBreak)'
  BY <1>1 DEF SessionInv, MediaDescribed, MediaInOrder, SetupFailsOnlyOnBreak
<1> QED
  BY <1>1, <1>4, <1>5, <1>6, <1>7 DEF SessionInv

LEMMA HandleMetadataStep ==
  ASSUME SessionInv, UNCHANGED clientVars, HandleMetadata
  PROVE  SessionInv'
<1> DEFINE h == Head(toServer)
           c == m_ClientParameters
<1>1. /\ toServer # << >> /\ outbox = << >> /\ toServer' = Tail(toServer) /\ outbox' = << >>
      /\ UNCHANGED <<toClient, up, stage, params, mediaSent, sent_params, returned>>
      /\ c' = WithAudio(WithVideo(c, h.props), h.props)
      /\ h.type \in AmfTypes /\ IsOnMetaData(h)
  BY DEF HandleMetadata, Reads, clientVars
<1>2. IsMetadata(h)
  BY <1>1, HeadKind
<1>3. ~Answered(h) /\ ~IsMedia(h)
  BY <1>2, KindsDiffer DEF IsMetadata, Answered
<1>4. FromClient(toServer') /\ IsSequence(outbox') /\ Circle'
  BY <1>1, ConsumedCircle
<1>5. Bodies' /\ IsSequence(returned')
  BY <1>1, <1>3, ConsumedBodies
<1>6. /\ DOMAIN c = DOMAIN DefaultParameters /\ DOMAIN c' = DOMAIN c
      /\ c'.app = c.app /\ c'.key = c.key
  <2>1. DOMAIN c = DOMAIN DefaultParameters
    BY DEF SessionInv, StreamKnown
  <2> QED
    BY <1>1, <2>1 DEF WithVideo, WithAudio, DefaultParameters
<1>7. ASSUME NEW p, Announced(toServer, c, p)
      PROVE  Described(c') = Described(p)
  <2>1. h = toServer[1]
    BY <1>1, TakenFromClient DEF SessionInv
  <2>2. h.props = PropsOf(p) /\ c.app = p.app /\ c.key = p.key
    BY <1>1, <1>2, <1>7, <2>1 DEF Announced
  <2> QED
    BY <1>1, <1>6, <2>2, PropertiesAssigned
<1> HIDE DEF c, h
<1>8. ASSUME NEW p, Announced(toServer, c, p)
      PROVE  Announced(toServer', c', p)
  <2>1. FromClient(toServer) /\ \A i \in DOMAIN toServer' : ~IsMetadata(toServer'[i])
    BY <1>1, TakenFromClient DEF SessionInv
  <2>2. toServer' # << >> => 1 \in DOMAIN toServer'
    BY <1>4, SequenceShape, Emptiness DEF FromClient
  <2> QED
    BY <1>7, <1>8, <2>1, <2>2 DEF Announced
<1>9. StreamKnown'
  <2>1. NamesKnown'
    BY <1>1, <1>6 DEF SessionInv, StreamKnown, NamesKnown, Answering, c
  <2>2. \A i \in DOMAIN toServer' : i + 1 \in DOMAIN toServer /\ toServer'[i] = toServer[i + 1]
    BY <1>1, Shortened DEF SessionInv, FromClient
  <2>3. MediaAnnounced(toServer', c')
    BY <1>8, <2>2 DEF SessionInv, StreamKnown, MediaAnnounced, c
  <2>4. up /\ stage = "idle" /\ sent_params => Announced(toServer', c', params)
    BY <1>8 DEF SessionInv, StreamKnown, c
  <2> QED
    BY <1>1, <1>6, <2>1, <2>3, <2>4 DEF StreamKnown, c
<1>10. (MediaDescribed /\ MediaInOrder /\ SetupFailsOnlyOnBreak)'
  BY <1>1 DEF SessionInv, MediaDescribed, MediaInOrder, SetupFailsOnlyOnBreak
<1> QED
  BY <1>1, <1>4, <1>5, <1>9, <1>10 DEF SessionInv

LEMMA ReturnMediaStep ==
  ASSUME SessionInv, UNCHANGED clientVars, NEW type \in {"AUDIO", "VIDEO"}, ReturnMedia(type)
  PROVE  SessionInv'
<1> DEFINE h == Head(toServer)
           r == [media |-> h, params |-> m_ClientParameters]
<1>1. /\ toServer # << >> /\ outbox = << >> /\ toServer' = Tail(toServer) /\ outbox' = << >>
      /\ UNCHANGED <<toClient, up, stage, params, mediaSent, sent_params>>
      /\ m_ClientParameters' = m_ClientParameters
      /\ returned' = Append(returned, r)
      /\ IsMedia(h)
  BY DEF ReturnMedia, Reads, clientVars, IsMedia
<1>2. ~Answered(h) /\ ~IsMetadata(h)
  BY <1>1, KindsDiffer
<1>3. /\ IsSequence(returned') /\ Len(returned) \in Nat /\ DOMAIN returned = 1 .. Len(returned)
      /\ DOMAIN returned' = 1 .. Len(returned) + 1 /\ Len(returned') = Len(returned) + 1
      /\ \A i \in 1 .. Len(returned) : returned'[i] = returned[i]
      /\ returned'[Len(returned) + 1] = r
  BY <1>1, Appended, SequenceShape DEF SessionInv
<1>4. FromClient(toServer') /\ IsSequence(outbox') /\ Circle'
  BY <1>1, ConsumedCircle
<1>5. Bodies'
  BY <1>1, <1>3, ConsumedBodies
<1>6. /\ \A p : Announced(toServer, m_ClientParameters, p) <=>
                Described(m_ClientParameters) = Described(p)
      /\ \A p : Announced(toServer', m_ClientParameters, p) <=>
                Announced(toServer, m_ClientParameters, p)
      /\ MediaAnnounced(toServer, m_ClientParameters) => MediaAnnounced(toServer', m_ClientParameters)
  BY <1>1, <1>2, TakenAnnounced DEF SessionInv
<1>7. StreamKnown'
  <2>1. NamesKnown'
    BY <1>1 DEF SessionInv, StreamKnown, NamesKnown, Answering
  <2> QED
    BY <1>1, <1>6, <2>1 DEF SessionInv, StreamKnown
<1>8. MediaDescribed'
  <2>1. h = toServer[1] /\ 1 \in DOMAIN toServer
    BY <1>1, TakenFromClient DEF SessionInv
  <2>2. Described(m_ClientParameters) = Described(h.about)
    BY <1>1, <1>6, <2>1 DEF SessionInv, StreamKnown, MediaAnnounced
  <2>3. r.params = m_ClientParameters /\ r.media = h
    OBVIOUS
  <2> HIDE DEF r, h
  <2>4. \A i \in 1 .. Len(returned') :
          Described(returned'[i].params) = Described(returned'[i].media.about)
    BY <1>3, <2>2, <2>3 DEF SessionInv, MediaDescribed
  <2> QED
    BY <2>4 DEF MediaDescribed
<1>9. MediaInOrder'
  <2>1. h.body = Len(returned) /\ Len(returned) < mediaSent
    <3>1. /\ mediaSent \in Nat /\ Len(returned) <= mediaSent
          /\ MediaFrom(toServer, Len(returned)) /\ MediaBelow(toServer, mediaSent)
      BY DEF SessionInv, Bodies
    <3> QED
      BY <1>1, <1>3, <3>1, TakenBodies DEF SessionInv, FromClient
  <2>2. sent_params
    BY <1>3, <2>1 DEF SessionInv, Bodies
  <2>3. r.media = h
    OBVIOUS
  <2> HIDE DEF r, h
  <2>4. \A i \in 1 .. Len(returned') : returned'[i].media.body = i - 1
    BY <1>3, <2>1, <2>3 DEF SessionInv, MediaInOrder
  <2> QED
    BY <1>1, <2>2, <2>4 DEF MediaInOrder
<1>10. SetupFailsOnlyOnBreak'
  BY <1>1 DEF SessionInv, SetupFailsOnlyOnBreak
<1> QED
  BY <1>1, <1>3, <1>4, <1>5, <1>7, <1>8, <1>9, <1>10 DEF SessionInv

\* The answer to connect stays behind the control messages that come before it.
LEMMA SendReplyStep ==
  ASSUME SessionInv, UNCHANGED clientVars, SendReply
  PROVE  SessionInv'
<1> DEFINE m == Head(outbox)
<1>1. /\ outbox # << >> /\ outbox' = Tail(outbox) /\ up
      /\ toClient' = Append(toClient, m)
      /\ UNCHANGED <<toServer, up, stage, params, mediaSent, sent_params, returned>>
      /\ m_ClientParameters' = m_ClientParameters
  BY DEF SendReply, clientVars
<1>2. /\ toServer = << >> /\ stage \in {"connecting", "creating", "publishing"}
      /\ OneAnswer(outbox, stage) /\ NoAnswer(toClient)
      /\ Answering
  BY <1>1 DEF SessionInv, Circle, Answering
<1>3. /\ IsSequence(outbox') /\ m = outbox[1] /\ 1 \in DOMAIN outbox
      /\ DOMAIN outbox' = 1 .. Len(outbox) - 1 /\ Len(outbox') = Len(outbox) - 1
      /\ \A i \in DOMAIN outbox' : i + 1 \in DOMAIN outbox /\ outbox'[i] = outbox[i + 1]
      /\ Len(outbox) \in Nat /\ DOMAIN outbox = 1 .. Len(outbox)
  BY <1>1, Shortened, SequenceShape DEF SessionInv
<1>4. outbox' = << >> <=> Len(outbox') = 0
  BY <1>3, Emptiness
<1> HIDE DEF m
<1>5. /\ IsSequence(toClient') /\ Len(toClient) \in Nat /\ DOMAIN toClient = 1 .. Len(toClient)
      /\ DOMAIN toClient' = 1 .. Len(toClient) + 1 /\ Len(toClient') = Len(toClient) + 1
      /\ \A i \in 1 .. Len(toClient) : toClient'[i] = toClient[i]
      /\ toClient'[Len(toClient) + 1] = m
      /\ toClient' # << >>
  <2>1. /\ IsSequence(toClient') /\ Len(toClient) \in Nat /\ DOMAIN toClient = 1 .. Len(toClient)
        /\ DOMAIN toClient' = 1 .. Len(toClient) + 1 /\ Len(toClient') = Len(toClient) + 1
        /\ \A i \in 1 .. Len(toClient) : toClient'[i] = toClient[i]
        /\ toClient'[Len(toClient) + 1] = m
    BY <1>1, Appended, SequenceShape DEF SessionInv
  <2> QED
    BY <2>1, Emptiness
<1>6. m.type = "AMF0" => Answers(m, stage) /\ outbox' = << >>
  BY <1>2, <1>3, <1>4 DEF OneAnswer
<1>7. OneAnswer(outbox', stage)
  BY <1>2, <1>3, <1>4 DEF OneAnswer
<1>8. OneAnswer(toClient', stage)
  BY <1>2, <1>5, <1>6 DEF OneAnswer, NoAnswer
<1>9. outbox' # << >> => NoAnswer(toClient')
  BY <1>2, <1>5, <1>6 DEF NoAnswer
<1>10. Circle'
  BY <1>1, <1>2, <1>7, <1>8, <1>9 DEF SessionInv, Circle
<1>11. Bodies'
  BY <1>1 DEF SessionInv, Bodies
<1>12. StreamKnown'
  BY <1>1, <1>2 DEF SessionInv, StreamKnown, NamesKnown
<1>13. (MediaDescribed /\ MediaInOrder /\ SetupFailsOnlyOnBreak)'
  BY <1>1 DEF SessionInv, MediaDescribed, MediaInOrder, SetupFailsOnlyOnBreak
<1> QED
  BY <1>1, <1>3, <1>5, <1>10, <1>11, <1>12, <1>13 DEF SessionInv

LEMMA ServerThrowsStep ==
  ASSUME SessionInv, UNCHANGED clientVars, ServerThrows
  PROVE  SessionInv'
  BY DEF ServerThrows, clientVars, channelVars, SessionInv, Circle, Bodies, StreamKnown,
     NamesKnown, Answering, MediaDescribed, MediaInOrder, SetupFailsOnlyOnBreak

LEMMA BreakStep ==
  ASSUME SessionInv, Break, UNCHANGED <<clientVars, serverVars>>
  PROVE  SessionInv'
<1>1. PICK k \in 0 .. Len(toServer), l \in 0 .. Len(toClient) :
        toServer' = SubSeq(toServer, 1, k) /\ toClient' = SubSeq(toClient, 1, l)
  BY DEF Break
<1>2. /\ up' = FALSE
      /\ UNCHANGED <<stage, params, mediaSent, sent_params, outbox, returned, m_ClientParameters>>
  BY DEF Break, clientVars, serverVars
<1>3. /\ FromClient(toServer) /\ MediaFrom(toServer, Len(returned))
      /\ MediaBelow(toServer, mediaSent) /\ MediaAnnounced(toServer, m_ClientParameters)
  BY DEF SessionInv, Bodies, StreamKnown
<1>4. /\ FromClient(toServer') /\ MediaFrom(toServer', Len(returned))
      /\ MediaBelow(toServer', mediaSent) /\ MediaAnnounced(toServer', m_ClientParameters)
  BY <1>1, <1>3, LostFromClient
<1>5. IsSequence(toClient')
  BY <1>1, CutOff DEF SessionInv
<1>6. Circle' /\ Bodies' /\ StreamKnown'
  BY <1>2, <1>4 DEF SessionInv, Circle, Bodies, StreamKnown, NamesKnown
<1>7. (MediaDescribed /\ MediaInOrder /\ SetupFailsOnlyOnBreak)'
  BY <1>2 DEF SessionInv, MediaDescribed, MediaInOrder, SetupFailsOnlyOnBreak
<1> QED
  BY <1>2, <1>4, <1>5, <1>6, <1>7 DEF SessionInv

LEMMA NextSession ==
  ASSUME SessionInv, [Next]_vars
  PROVE  SessionInv'
<1>1. CASE Client
  BY <1>1, SetupBounds, SendCommandStep, SendDataFrameStep, SendMediaStep, ReadResponseStep
  DEF Client, ClientNext, Setup
<1>2. CASE Server
  BY <1>2, HandleCommandStep, IgnoreCommandStep, HandleMetadataStep, ReturnMediaStep,
     SendReplyStep, ServerThrowsStep
  DEF Server, ServerNext
<1>3. CASE Break /\ UNCHANGED <<clientVars, serverVars>>
  BY <1>3, BreakStep
<1>4. CASE UNCHANGED vars
  BY <1>4 DEF vars, channelVars, clientVars, serverVars, SessionInv, Circle, Bodies,
     StreamKnown, NamesKnown, Answering, MediaDescribed, MediaInOrder, SetupFailsOnlyOnBreak
<1> QED
  BY <1>1, <1>2, <1>3, <1>4 DEF Next

\* A connection that is up has, between two calls of SendClientParameters, no answer on
\* its way and no command that could still cause one.
LEMMA NothingLeftOver ==
  ASSUME SessionInv
  PROVE  AnswersConsumed
<1> SUFFICES ASSUME up, stage = "idle"
             PROVE  /\ toClient = << >> /\ outbox = << >>
                    /\ \A i \in DOMAIN toServer : toServer[i].type # "AMF0"
  BY SequenceShape DEF AnswersConsumed, SessionInv, FromClient
<1> QED
  BY NothingAnswered

-----------------------------------------------------------------------------
LEMMA SessionInvariant == Spec => []SessionInv
  BY InitSession, NextSession, PTL DEF Spec

\* Whatever the client announced, in any number of setups with parameters of any
\* shape, GetClientParameters describes each media message as its sender did:
\* MediaDescribed.
THEOREM MediaDescribedHolds == Spec => []MediaDescribed
<1>1. SessionInv => MediaDescribed
  BY DEF SessionInv
<1> QED
  BY <1>1, SessionInvariant, PTL

\* GetRTMPMessage returns the media in the order of SendRTMPMessage, none twice and
\* none left out, over any number of setups: MediaInOrder.
THEOREM MediaInOrderHolds == Spec => []MediaInOrder
<1>1. SessionInv => MediaInOrder
  BY DEF SessionInv
<1> QED
  BY <1>1, SessionInvariant, PTL

\* No answer of the server is one that the client refuses: SetupFailsOnlyOnBreak.
THEOREM SetupFailsOnlyOnBreakHolds == Spec => []SetupFailsOnlyOnBreak
<1>1. SessionInv => SetupFailsOnlyOnBreak
  BY DEF SessionInv
<1> QED
  BY <1>1, SessionInvariant, PTL

\* A setup leaves nothing behind that the next one could mistake for an answer:
\* AnswersConsumed.
THEOREM AnswersConsumedHolds == Spec => []AnswersConsumed
  BY SessionInvariant, NothingLeftOver, PTL

=============================================================================
