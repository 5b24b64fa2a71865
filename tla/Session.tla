------------------------------- MODULE Session -------------------------------
(***************************************************************************)
(* A client session and a server session of EasyRTMP on the two ends of a   *)
(* connection: opening the stream, then media, until the connection breaks. *)
(***************************************************************************)
EXTENDS ClientSession, ServerSession

vars == <<channelVars, clientVars, serverVars>>

Init == ChannelInit /\ ClientInit /\ ServerInit

Client == ClientNext /\ UNCHANGED serverVars
Server == ServerNext /\ UNCHANGED clientVars

Next == Client \/ Server \/ (Break /\ UNCHANGED <<clientVars, serverVars>>)

\* The thread inside SendClientParameters keeps running, and the server's
\* caller always calls GetRTMPMessage again.
Spec ==
  /\ Init /\ [][Next]_vars
  /\ WF_vars(Setup /\ UNCHANGED serverVars)
  /\ WF_vars(Server)

-----------------------------------------------------------------------------
\* Every media message returned is described by GetClientParameters as the
\* client described it when sending it, after any number of setups with
\* parameters of other shapes.
MediaDescribed ==
  \A i \in 1 .. Len(returned) :
    Described(returned[i].params) = Described(returned[i].media.about)

\* Media arrive once each, in the order sent, and only after a setup succeeded.
MediaInOrder ==
  /\ \A i \in 1 .. Len(returned) : returned[i].media.body = i - 1
  /\ returned # << >> => sent_params

\* Between two EasyRTMP ends SendClientParameters fails only with the network.
SetupFailsOnlyOnBreak == stage = "threw" => ~up

\* An answer is never left over: when SendClientParameters has returned, every
\* command of it that the server answers has been answered and read.
AnswersConsumed ==
  up /\ stage = "idle" =>
    /\ toClient = << >> /\ outbox = << >>
    /\ \A i \in 1 .. Len(toServer) : toServer[i].type # "AMF0"

\* SendClientParameters ends; it cannot wait for ever, whatever the capacity of
\* the transport.
SetupEnds == stage = "connect" ~> stage \in {"idle", "threw"}

\* What the client sends reaches the server's caller while the connection lasts.
MediaReturned ==
  \A k \in 1 .. MaxMedia : mediaSent = k ~> (Len(returned) >= k \/ ~up)

=============================================================================
