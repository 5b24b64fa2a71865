---------------------------- MODULE ForeignServer ----------------------------
(***************************************************************************)
(* RTMPClientSession against a server that is not EasyRTMP's.  The server   *)
(* answers the commands in order and when it likes, may refuse, and may     *)
(* send the notifications that RTMP servers send, at any time after what    *)
(* they are about: onBWDone after connect and onFCPublish after FCPublish,  *)
(* both with transaction id 0, which is the id that the code removed from   *)
(* SendFCPublish waited for.  The server is the environment of the client   *)
(* session, not part of the repository.                                     *)
(***************************************************************************)
EXTENDS ClientSession

CONSTANTS
  Refuses,    \* may the server refuse a command?
  Notifies    \* may the server send notifications?

ASSUME BehaviourAssumption == {Refuses, Notifies} \subseteq BOOLEAN

VARIABLES
  replies,     \* the answers the server still has to send, in order
  notices,     \* the notifications it may still send
  granted      \* the stream keys it has granted

foreignVars == <<replies, notices, granted>>
vars == <<channelVars, clientVars, foreignVars>>

-----------------------------------------------------------------------------
Notices(m) ==
  CASE m.name = "connect"   -> {Command("onBWDone", 0, "")}
    [] m.name = "FCPublish" -> {Command("onFCPublish", 0, "")}
    [] m.name = "publish"   -> {Control("USER_CONTROL_MESSAGE")}
    [] OTHER                -> {}

Grants(m) ==
  CASE m.name = "connect"      -> << Command("_result", m.id, "NetConnection.Connect.Success") >>
    [] m.name = "createStream" -> << Command("_result", m.id, "") >>
    [] m.name = "publish"      -> << Command("onStatus", m.id, "NetStream.Publish.Start") >>
    [] OTHER                   -> << >>

Refusals(m) ==
  CASE m.name \in {"connect", "createStream"} -> << Command("_error", m.id, "rejected") >>
    [] m.name = "publish" -> << Command("onStatus", m.id, "NetStream.Publish.BadName") >>
    [] OTHER -> << >>

ForeignReads ==
  /\ toServer # << >>
  /\ toServer' = Tail(toServer)
  /\ UNCHANGED <<clientVars, toClient, up>>

ForeignGrants ==
  LET m == Head(toServer) IN
  /\ ForeignReads /\ m.type = "AMF0"
  /\ replies' = replies \o Grants(m)
  /\ notices' = IF Notifies THEN notices \cup Notices(m) ELSE notices
  /\ granted' = IF m.name = "publish" THEN granted \cup {m.arg} ELSE granted

ForeignRefuses ==
  /\ Refuses
  /\ ForeignReads /\ Head(toServer).type = "AMF0"
  /\ replies' = replies \o Refusals(Head(toServer))
  /\ UNCHANGED <<notices, granted>>

ForeignConsumes ==
  ForeignReads /\ Head(toServer).type # "AMF0" /\ UNCHANGED foreignVars

Transmits(m) ==
  /\ up /\ Len(toClient) < ChannelCapacity
  /\ toClient' = Append(toClient, m)
  /\ UNCHANGED <<clientVars, toServer, up, granted>>

ForeignReplies ==
  /\ replies # << >>
  /\ Transmits(Head(replies))
  /\ replies' = Tail(replies)
  /\ UNCHANGED notices

ForeignNotifies ==
  /\ \E m \in notices : Transmits(m) /\ notices' = notices \ {m}
  /\ UNCHANGED replies

Init ==
  /\ ChannelInit /\ ClientInit
  /\ replies = << >> /\ notices = {} /\ granted = {}

Foreign ==
  \/ ForeignGrants \/ ForeignRefuses \/ ForeignConsumes
  \/ ForeignReplies \/ ForeignNotifies

Next ==
  \/ ClientNext /\ UNCHANGED foreignVars
  \/ Foreign
  \/ Break /\ UNCHANGED <<clientVars, foreignVars>>

Spec == Init /\ [][Next]_vars

-----------------------------------------------------------------------------
\* The client announces a stream only under a key the server has granted, also
\* after failed setups whose answers arrive late.
PublishGranted ==
  stage = "dataFrame" => params.key \in granted

\* SendClientParameters throws only because of the network, with a server that
\* grants everything.
SetupFailsOnlyOnBreak == stage = "threw" => ~up

=============================================================================
