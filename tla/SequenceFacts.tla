---------------------------- MODULE SequenceFacts ----------------------------
(***************************************************************************)
(* What appending, taking the head and cutting off the end do to a sequence *)
(* of anything: the queues of the models hold messages of many shapes, and  *)
(* these facts ask nothing of their elements.                               *)
(***************************************************************************)
EXTENDS Naturals, Sequences, SequenceTheorems, TLAPS

IsSequence(s) == s \in Seq({ s[i] : i \in DOMAIN s })

LEMMA AnySequence ==
  ASSUME NEW S, NEW s \in Seq(S)
  PROVE  IsSequence(s)
<1>1. Len(s) \in Nat /\ DOMAIN s = 1 .. Len(s) /\ s \in [1 .. Len(s) -> S]
  OBVIOUS
<1>2. s \in [1 .. Len(s) -> { s[i] : i \in DOMAIN s }]
  BY <1>1
<1> QED
  BY <1>1, <1>2, SeqDef DEF IsSequence

LEMMA SequenceShape ==
  ASSUME NEW s, IsSequence(s)
  PROVE  Len(s) \in Nat /\ DOMAIN s = 1 .. Len(s)
  BY DEF IsSequence

LEMMA Emptiness ==
  ASSUME NEW s, IsSequence(s)
  PROVE  s = << >> <=> Len(s) = 0
<1> DEFINE S == { s[i] : i \in DOMAIN s }
<1>1. s \in Seq(S)
  BY DEF IsSequence
<1> HIDE DEF S
<1> QED
  BY <1>1

LEMMA NothingQueued ==
  IsSequence(<< >>) /\ Len(<< >>) = 0 /\ DOMAIN << >> = {}
<1>1. << >> \in Seq({}) /\ Len(<< >>) = 0
  OBVIOUS
<1>2. IsSequence(<< >>)
  BY <1>1, AnySequence
<1> QED
  BY <1>1, <1>2, SequenceShape

LEMMA Appended ==
  ASSUME NEW s, IsSequence(s), NEW m
  PROVE  /\ IsSequence(Append(s, m))
         /\ DOMAIN Append(s, m) = 1 .. Len(s) + 1 /\ Len(Append(s, m)) = Len(s) + 1
         /\ \A i \in 1 .. Len(s) : Append(s, m)[i] = s[i]
         /\ Append(s, m)[Len(s) + 1] = m
<1> DEFINE S == { s[i] : i \in DOMAIN s } \cup {m}
<1>1. s \in Seq({ s[i] : i \in DOMAIN s })
  BY DEF IsSequence
<1>2. s \in Seq(S) /\ m \in S
  BY <1>1
<1> HIDE DEF S
<1>3. Append(s, m) \in Seq(S)
  BY <1>2
<1>4. /\ Len(Append(s, m)) = Len(s) + 1
      /\ \A i \in 1 .. Len(s) : Append(s, m)[i] = s[i]
      /\ Append(s, m)[Len(s) + 1] = m
  BY <1>2
<1> QED
  BY <1>3, <1>4, AnySequence, SequenceShape

LEMMA Shortened ==
  ASSUME NEW s, IsSequence(s), s # << >>
  PROVE  /\ IsSequence(Tail(s))
         /\ Head(s) = s[1] /\ 1 \in DOMAIN s
         /\ DOMAIN Tail(s) = 1 .. Len(s) - 1 /\ Len(Tail(s)) = Len(s) - 1
         /\ \A i \in DOMAIN Tail(s) : i + 1 \in DOMAIN s /\ Tail(s)[i] = s[i + 1]
<1> DEFINE S == { s[i] : i \in DOMAIN s }
<1>1. s \in Seq(S)
  BY DEF IsSequence
<1> HIDE DEF S
<1>2. Tail(s) \in Seq(S) /\ Len(Tail(s)) = Len(s) - 1 /\ Len(s) \in Nat \ {0}
  BY <1>1
<1>3. DOMAIN Tail(s) = 1 .. Len(s) - 1 /\ DOMAIN s = 1 .. Len(s)
  BY <1>1, <1>2
<1>4. \A i \in 1 .. Len(s) - 1 : i + 1 \in 1 .. Len(s) /\ Tail(s)[i] = s[i + 1]
  BY <1>1, <1>2
<1>5. Head(s) = s[1] /\ 1 \in 1 .. Len(s)
  BY <1>1, <1>2
<1>6. IsSequence(Tail(s))
  BY <1>2, AnySequence
<1> QED
  BY <1>2, <1>3, <1>4, <1>5, <1>6

LEMMA CutOff ==
  ASSUME NEW s, IsSequence(s), NEW k \in 0 .. Len(s)
  PROVE  /\ IsSequence(SubSeq(s, 1, k))
         /\ DOMAIN SubSeq(s, 1, k) = 1 .. k /\ Len(SubSeq(s, 1, k)) = k
         /\ \A i \in 1 .. k : i \in DOMAIN s /\ SubSeq(s, 1, k)[i] = s[i]
<1> DEFINE S == { s[i] : i \in DOMAIN s }
<1>1. s \in Seq(S)
  BY DEF IsSequence
<1> HIDE DEF S
<1>2. SubSeq(s, 1, k) \in Seq(S) /\ Len(SubSeq(s, 1, k)) = k
  BY <1>1
<1>3. \A i \in 1 .. k : i \in DOMAIN s /\ SubSeq(s, 1, k)[i] = s[i]
  BY <1>1
<1> QED
  BY <1>2, <1>3, AnySequence, SequenceShape

\* What has just been answered joins the answers: none or one.
LEMMA Joined ==
  ASSUME NEW s, IsSequence(s), NEW t
  PROVE  s \o << >> = s /\ s \o << t >> = Append(s, t)
<1> DEFINE S == { s[i] : i \in DOMAIN s } \cup {t}
<1>1. s \in Seq({ s[i] : i \in DOMAIN s })
  BY DEF IsSequence
<1>2. s \in Seq(S) /\ t \in S
  BY <1>1
<1> HIDE DEF S
<1> QED
  BY <1>2

=============================================================================
