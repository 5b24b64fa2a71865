--------------------------- MODULE MessageChannel ---------------------------
(***************************************************************************)
(* What one direction of an RTMP connection promises to the code above the  *)
(* endpoints: every message is delivered once, whole, unchanged and in      *)
(* order, and as long as the connection stands each one is delivered.  When *)
(* the connection breaks the rest may be lost.                              *)
(***************************************************************************)
EXTENDS Naturals, Sequences

CONSTANTS
  Payload,   \* the messages that may be sent
  Greeting   \* the message every connection opens with

VARIABLES sent, received, up

channelVars == <<sent, received, up>>

Init == sent = << Greeting >> /\ received = << >> /\ up = TRUE

Send(m) == sent' = Append(sent, m) /\ UNCHANGED <<received, up>>

Deliver ==
  /\ Len(received) < Len(sent)
  /\ received' = Append(received, sent[Len(received) + 1])
  /\ UNCHANGED <<sent, up>>

Break == up /\ up' = FALSE /\ UNCHANGED <<sent, received>>

Next == (\E m \in Payload : Send(m)) \/ Deliver \/ Break

\* Delivery may stop when the connection breaks and not before.
Spec == Init /\ [][Next]_channelVars /\ WF_channelVars(up /\ Deliver)

=============================================================================
