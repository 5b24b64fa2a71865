------------------------------ MODULE Handshake ------------------------------
(***************************************************************************)
(* RTMPEndpoint::DoHandshake on both ends of a connection.  Both ends run   *)
(* the same six transfers, whichever of them is the client: they write      *)
(* C0 and C1 before they read anything.  What matters of the bytes is how   *)
(* many are on their way, and the version in C0; nothing else is checked.   *)
(***************************************************************************)
EXTENDS Integers

CONSTANTS
  BlockLen,   \* 1536: the length of C1 and of C2
  Capacity    \* end -> bytes its DataLayer buffers on the way to the other end

Side == {"client", "server"}
Other(s) == IF s = "client" THEN "server" ELSE "client"

\* A write can hang for ever when neither direction holds C0 and C1 (Stuck).
ASSUME HandshakeAssumption ==
  /\ BlockLen \in Nat \ {0}
  /\ Capacity \in [Side -> Nat \ {0}]
  /\ \E s \in Side : Capacity[s] >= 1 + BlockLen

VARIABLES
  version,    \* the version byte each end writes in its C0
  step,       \* end -> the transfer it is at, LastStep + 1 when it has returned
  left,       \* end -> bytes its transfer still has to move
  failed,     \* the ends whose DoHandshake has thrown
  pipe,       \* end -> bytes it has written that the other has not read
  up

handshakeVars == <<version, step, left, failed, pipe, up>>

-----------------------------------------------------------------------------
\* C0, C1, S0, S1, C2, S2.
Length == <<1, BlockLen, 1, BlockLen, BlockLen, BlockLen>>

\* Wrong on purpose, for the mutation runs: what the peer says is read first.
SendsLate == {3, 4, 5}

Sends == {1, 2, 5}

\* Wrong on purpose, for the mutation runs: S2 is not waited for.
StopsEarly == 5

LastStep == 6

HasReturned(s) == step[s] > LastStep
Running(s) == s \notin failed /\ ~HasReturned(s)

\* Wrong on purpose, for the mutation runs: every version will do.
RefusesNothing(s) == FALSE

\* The peer's C0 has just been read and names another version.
Refuses(s) == step[s] = 3 /\ version[Other(s)] # 3

\* End s has moved n bytes of its transfer.
Moves(s, n) ==
  IF n < left[s]
  THEN left' = [left EXCEPT ![s] = @ - n] /\ UNCHANGED <<step, failed>>
  ELSE IF Refuses(s)
  THEN failed' = failed \cup {s} /\ left' = [left EXCEPT ![s] = 0] /\ UNCHANGED step
  ELSE /\ step' = [step EXCEPT ![s] = @ + 1]
       /\ left' = [left EXCEPT ![s] = IF step[s] < LastStep THEN Length[step[s] + 1] ELSE 0]
       /\ UNCHANGED failed

\* A write blocks until the buffers have taken all of it, a part at a time.
SendSome(s, n) ==
  /\ Running(s) /\ step[s] \in Sends /\ up
  /\ n <= left[s] /\ pipe[s] + n <= Capacity[s]
  /\ Moves(s, n)
  /\ pipe' = [pipe EXCEPT ![s] = @ + n]
  /\ UNCHANGED <<version, up>>

\* A read blocks until all of it is there, and takes it as it comes.
ReceiveSome(s, n) ==
  /\ Running(s) /\ step[s] \notin Sends
  /\ n <= left[s] /\ n <= pipe[Other(s)]
  /\ Moves(s, n)
  /\ pipe' = [pipe EXCEPT ![Other(s)] = @ - n]
  /\ UNCHANGED <<version, up>>

\* Wrong on purpose, for the mutation runs: the end of the stream is no error.
ThrowsWhenSending(s) ==
  /\ Running(s) /\ ~up
  /\ step[s] \in Sends
  /\ failed' = failed \cup {s}
  /\ UNCHANGED <<version, step, left, pipe, up>>

\* The DataLayer throws once the connection is down and, for a read, drained.
TransportThrows(s) ==
  /\ Running(s) /\ ~up
  /\ step[s] \notin Sends => pipe[Other(s)] = 0
  /\ failed' = failed \cup {s}
  /\ UNCHANGED <<version, step, left, pipe, up>>

DoHandshake(s) ==
  \/ \E n \in 1 .. BlockLen : SendSome(s, n) \/ ReceiveSome(s, n)
  \/ TransportThrows(s)

\* The connection breaks and what was under way may be lost.
Break ==
  /\ up /\ up' = FALSE
  /\ \E a \in 0 .. pipe["client"], b \in 0 .. pipe["server"] :
       pipe' = [s \in Side |-> IF s = "client" THEN a ELSE b]
  /\ UNCHANGED <<version, step, left, failed>>

\* One end may be another program and write another version.
HandshakeInit ==
  /\ version \in [Side -> {3, 6}]
  /\ step = [s \in Side |-> 1]
  /\ left = [s \in Side |-> 1]
  /\ failed = {}
  /\ pipe = [s \in Side |-> 0]
  /\ up = TRUE

HandshakeNext == (\E s \in Side : DoHandshake(s)) \/ Break

\* Each end runs in its own thread, blocked only inside the DataLayer.
HandshakeSpec ==
  /\ HandshakeInit /\ [][HandshakeNext]_handshakeVars
  /\ \A s \in Side : WF_handshakeVars(DoHandshake(s))

-----------------------------------------------------------------------------
TypeOK ==
  /\ version \in [Side -> {3, 6}]
  /\ step \in [Side -> 1 .. LastStep + 1]
  /\ left \in [Side -> 0 .. BlockLen]
  /\ failed \subseteq Side
  /\ pipe \in [Side -> Nat]
  /\ up \in BOOLEAN

\* When DoHandshake has returned on one end, the other has read this end's C1
\* and has written its echo: what follows in either direction is chunks.  The
\* other end may still be waiting for the echo itself.
ReturnedAfterEcho == \A s \in Side : HasReturned(s) => step[Other(s)] > 5

\* An end that has returned leaves none of the peer's handshake to be taken for
\* a chunk header, and the peer spoke version 3.
NothingLeftOver ==
  \A s \in Side : HasReturned(s) => pipe[Other(s)] = 0 /\ version[Other(s)] = 3

\* Both ends wait inside the DataLayer for each other.
Blocked(s) ==
  /\ Running(s) /\ up
  /\ IF step[s] \in Sends THEN pipe[s] >= Capacity[s] ELSE pipe[Other(s)] = 0

\* Although both ends write before they read, they never wait for each other:
\* one direction that can hold C0 and C1 is enough.
NeverStuck == ~(Blocked("client") /\ Blocked("server"))

\* Between two ends of version 3 the handshake ends on both, one way or another.
HandshakeEnds ==
  (\A s \in Side : version[s] = 3) ~> (\A s \in Side : ~Running(s))

=============================================================================
