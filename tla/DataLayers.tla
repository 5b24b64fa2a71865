----------------------------- MODULE DataLayers -----------------------------
(***************************************************************************)
(* One direction of a connection through TCPNetwork, or through OpenSSL_TLS *)
(* on top of it: what send_data and receive_data make of the system calls,  *)
(* which move part of what they are asked to, are interrupted by signals,   *)
(* and fail when the connection does.  Bytes are numbered in the order in   *)
(* which the application gives them to send_data; what TLS adds to a record *)
(* (its header, the code that authenticates it) is one element in front.    *)
(* A process ignores SIGPIPE, or a write to a closed connection ends it.    *)
(***************************************************************************)
EXTENDS Naturals, Integers, Sequences, SequencesExt

CONSTANTS
  Sizes,           \* lengths that the applications pass
  MaxBytes,        \* bound on the bytes sent
  RecordLimit,     \* of a TLS record: 16384 bytes of data
  KernelCapacity,  \* elements that the two sockets hold between them
  MaxSignals       \* bound on the signals that interrupt a system call

ASSUME LayersAssumption ==
  /\ Sizes \subseteq Nat \ {0} /\ MaxBytes \in Nat /\ MaxSignals \in Nat
  /\ RecordLimit \in Nat \ {0} /\ KernelCapacity \in Nat \ {0}

VARIABLES
  layer,       \* "TCP" or "TLS"
  link,        \* "up", "closed" or "reset"
  signals,     \* how many system calls were interrupted
  given,       \* bytes passed to send_data
  recordEnds,  \* the bytes that are the last of their record
  sender,      \* in send_data: what is not written, a sequence for each write
  cut,         \* a write took part of its bytes and the rest was lost
  kernel,      \* what is between the sockets
  receiver,    \* in receive_data, and in the TCPNetwork::receive_data below TLS
  opened,      \* bytes that OpenSSL has decrypted
  plain,       \* those of them that SSL_read has not returned
  delivered    \* what receive_data has returned, in order

vars == <<layer, link, signals, given, recordEnds, sender, cut, kernel, receiver,
          opened, plain, delivered>>

-----------------------------------------------------------------------------
Smaller(a, b) == IF a < b THEN a ELSE b

Bytes(first, n) == [i \in 1 .. n |-> <<"byte", first + i - 1>>]

\* A call that returns fewer bytes than asked for leaves the rest of the buffer as it was.
Padded(bytes, n) == [i \in 1 .. n |-> IF i <= Len(bytes) THEN bytes[i] ELSE <<"stale">>]

\* SSL_write: as many records as n bytes take, and where they end.
RecordCount(n) == (n + RecordLimit - 1) \div RecordLimit
RecordFirst(first, i) == first + (i - 1) * RecordLimit
RecordLength(n, i) == Smaller(RecordLimit, n - (i - 1) * RecordLimit)
Record(first, n) == << <<"header", first, n>> >> \o Bytes(first, n)
Records(first, n) ==
  [i \in 1 .. RecordCount(n) |-> Record(RecordFirst(first, i), RecordLength(n, i))]
Ends(first, n) ==
  { RecordFirst(first, i) + RecordLength(n, i) - 1 : i \in 1 .. RecordCount(n) }

Init ==
  /\ layer \in {"TCP", "TLS"} /\ link = "up" /\ signals = 0
  /\ given = 0 /\ recordEnds = {} /\ cut = FALSE /\ kernel = << >>
  /\ sender = [state |-> "idle", writes |-> << >>, begun |-> FALSE]
  /\ receiver = [state |-> "idle", asked |-> 0, need |-> 0, got |-> << >>]
  /\ opened = 0 /\ plain = << >> /\ delivered = << >>

Interrupted(r) == signals' = IF r = -1 /\ link = "up" THEN signals + 1 ELSE signals

Disconnect ==
  /\ link = "up" /\ link' \in {"closed", "reset"}
  /\ \E n \in 0 .. Len(kernel) : kernel' = SubSeq(kernel, 1, n)
  /\ UNCHANGED <<layer, signals, given, recordEnds, sender, cut, receiver, opened, plain,
                 delivered>>

-----------------------------------------------------------------------------
(* Sending.                                                                 *)

\* OpenSSL_TLS::send_data writes each record through bwrite, and so through
\* TCPNetwork::send_data.
SendData(n) ==
  /\ sender.state = "idle" /\ given + n <= MaxBytes
  /\ given' = given + n
  /\ sender' = [state |-> "sending", begun |-> FALSE,
                writes |-> IF layer = "TCP" THEN << Bytes(given + 1, n) >>
                           ELSE Records(given + 1, n)]
  /\ recordEnds' = IF layer = "TLS" THEN recordEnds \cup Ends(given + 1, n) ELSE recordEnds
  /\ UNCHANGED <<layer, link, signals, cut, kernel, receiver, opened, plain, delivered>>

\* What is left to do once the write at the head has returned.
NextWrite ==
  [state |-> IF Len(sender.writes) = 1 THEN "idle" ELSE "sending",
   writes |-> Tail(sender.writes), begun |-> FALSE]

\* The write at the head goes on: the socket takes one more element.
WriteMore ==
  /\ sender.state = "sending" /\ link = "up" /\ Len(kernel) < KernelCapacity
  /\ kernel' = Append(kernel, Head(sender.writes)[1])
  /\ sender' = IF Len(Head(sender.writes)) = 1 THEN NextWrite
               ELSE [sender EXCEPT !.begun = TRUE, !.writes[1] = Tail(@)]
  /\ UNCHANGED <<layer, link, signals, given, recordEnds, cut, receiver, opened, plain,
                 delivered>>

\* Wrong on purpose, for the mutation runs: send_data tries again when write fails.
RetriesWrite == sender

\* send_data throws, and so does the send_data of TLS, which finds SSL_write failed.
Throws == [sender EXCEPT !.state = "failed"]

\* The connection is down, or a signal interrupts a write that waits for room: write
\* fails if it has taken nothing, or else returns how much, which is not looked at.
WriteStops ==
  /\ sender.state = "sending"
  /\ link # "up" \/ (Len(kernel) = KernelCapacity /\ signals < MaxSignals)
  /\ sender' = IF sender.begun THEN NextWrite ELSE Throws
  /\ cut' = (cut \/ sender.begun)
  /\ Interrupted(-1)
  /\ UNCHANGED <<layer, link, given, recordEnds, kernel, receiver, opened, plain, delivered>>

-----------------------------------------------------------------------------
(* Receiving.                                                               *)

\* SSL_read returns what is left of one record, at most n bytes of it, and
\* OpenSSL_TLS::receive_data throws if that is less.
Return(n, bytes) ==
  /\ plain' = SubSeq(bytes, n + 1, Len(bytes))
  /\ IF Len(bytes) < n
     THEN receiver' = [receiver EXCEPT !.state = "failed", !.asked = n] /\ UNCHANGED delivered
     ELSE /\ receiver' = [receiver EXCEPT !.state = "idle", !.asked = n]
          /\ delivered' = delivered \o SubSeq(bytes, 1, n)

TCPReceive(stage, n, asked) ==
  receiver' = [state |-> stage, asked |-> asked, need |-> n, got |-> << >>]

ReceiveData(n) ==
  /\ receiver.state = "idle"
  /\ IF layer = "TLS" /\ plain # << >> THEN Return(n, plain)
     ELSE /\ TCPReceive(IF layer = "TCP" THEN "data" ELSE "header",
                        IF layer = "TCP" THEN n ELSE 1, n)
          /\ UNCHANGED <<plain, delivered>>
  /\ UNCHANGED <<layer, link, signals, given, recordEnds, sender, cut, kernel, opened>>

InTCP == receiver.state \in {"data", "header", "body"}
Missing == receiver.need - Len(receiver.got)

\* What read may return: some of what has arrived; if nothing has, 0 at the end of
\* the stream and -1 after an error or a signal.
ReadResults ==
  IF kernel # << >> THEN 1 .. Smaller(Missing, Len(kernel))
  ELSE IF link = "closed" THEN {0}
  ELSE IF link = "reset" THEN {-1}
  ELSE IF signals < MaxSignals THEN {-1} ELSE {}

\* Wrong on purpose, for the mutation runs: a short read is an error; the end of
\* the stream is not; one read is enough.
FailsIfShort(r) == r < Missing
FailsBelowZero(r) == r < 0
OneReadFills(r) == TRUE

\* How the loop of TCPNetwork::receive_data looks at the result of read.
Fails(r) == r <= 0
Fills(r) == r >= Missing

\* ...and what follows when it ends: the call of the application returns, or
\* OpenSSL goes on with the header or the body of a record.
Continue(got) ==
  CASE receiver.state = "data" ->
         /\ receiver' = [receiver EXCEPT !.state = "idle"]
         /\ delivered' = delivered \o got
         /\ UNCHANGED <<plain, opened>>
    [] receiver.state = "header" /\ got[1][1] = "header" ->
         /\ TCPReceive("body", got[1][3], receiver.asked)
         /\ UNCHANGED <<plain, opened, delivered>>
    [] receiver.state = "body" /\ got = Bytes(opened + 1, Len(got)) ->
         /\ opened' = opened + Len(got)
         /\ Return(receiver.asked, got)
    [] OTHER ->   \* not a record, or not the next one as it was written
         /\ receiver' = [receiver EXCEPT !.state = "failed"]
         /\ UNCHANGED <<plain, opened, delivered>>

Read ==
  /\ InTCP
  /\ \E r \in ReadResults :
       /\ Interrupted(r)
       /\ LET n == IF r > 0 THEN r ELSE 0
              got == receiver.got \o SubSeq(kernel, 1, n)
          IN /\ kernel' = SubSeq(kernel, n + 1, Len(kernel))
             /\ \/ /\ Fails(r)
                   /\ receiver' = [receiver EXCEPT !.state = "failed"]
                   /\ UNCHANGED <<plain, opened, delivered>>
                \/ /\ ~Fails(r) /\ Fills(r)
                   /\ Continue(Padded(got, receiver.need))
                \/ /\ ~Fails(r) /\ ~Fills(r)
                   /\ receiver' = [receiver EXCEPT !.got = got]
                   /\ UNCHANGED <<plain, opened, delivered>>
  /\ UNCHANGED <<layer, link, given, recordEnds, sender, cut>>

-----------------------------------------------------------------------------
Writing == WriteMore \/ WriteStops
Sending == (\E n \in Sizes : SendData(n)) \/ Writing
Receiving == (\E n \in Sizes : ReceiveData(n)) \/ Read

Next == Disconnect \/ Sending \/ Receiving

\* A call that can go on does; and the receiving application receives again.
Spec == Init /\ [][Next]_vars /\ WF_vars(Writing) /\ WF_vars(Receiving)

-----------------------------------------------------------------------------
\* receive_data returns exactly the bytes that were sent, in order and none twice,
\* however the system calls split them; over TLS also when the layer below lost
\* bytes.  Over TCP a write that was interrupted half way leaves a gap.
DeliveredAsGiven ==
  (layer = "TCP" /\ cut) \/ delivered = Bytes(1, Len(delivered))

\* receive_data throws for a reason: the connection is down, a signal came, or,
\* over TLS, what was asked for goes beyond a record, which no call of send_data
\* with at most RecordLimit bytes that is received by one call runs into.
FailuresExplained ==
  receiver.state = "failed" =>
    \/ link # "up" \/ signals > 0
    \/ /\ layer = "TLS"
       /\ \E e \in recordEnds : Len(delivered) < e /\ e < Len(delivered) + receiver.asked

\* send_data ends, unless the peer has stopped receiving on a connection that stands.
SendEnds ==
  sender.state = "sending" ~>
    sender.state # "sending" \/ (receiver.state = "failed" /\ link = "up")

\* When the connection is down the receiver will be told.
BreakReachesReceiver == link # "up" ~> receiver.state = "failed"

=============================================================================
