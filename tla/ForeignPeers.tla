---------------------------- MODULE ForeignPeers ----------------------------
(***************************************************************************)
(* The sessions of EasyRTMP against other programs: a client session and a  *)
(* foreign server, or a foreign client and a server session.                *)
(***************************************************************************)
EXTENDS ForeignServer, ForeignClient

VARIABLE foreign    \* which of the two ends is not EasyRTMP's

peersVars == <<channelVars, clientVars, foreignVars, serverVars, log, foreign>>

PeersInit ==
  /\ Init /\ ForeignClientInit
  /\ foreign \in {"client", "server"}

PeersNext ==
  \/ foreign = "server" /\ Next /\ UNCHANGED <<serverVars, log, foreign>>
  \/ foreign = "client" /\ ForeignClientNext /\ UNCHANGED <<clientVars, foreignVars, foreign>>

PeersSpec == PeersInit /\ [][PeersNext]_peersVars

=============================================================================
