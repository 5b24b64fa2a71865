---------------------------- MODULE Formats_proofs ----------------------------
(***************************************************************************)
(* Theorems about Formats, for every radix, block length and set of         *)
(* samples: packets and URLs come back from their bytes as they were.       *)
(*                                                                          *)
(* An integer is its digits to the base Radix: what WriteDataType keeps of  *)
(* them are the low ones, and ReadDataType puts them back in their places.  *)
(* Serialize and ParseRef see a field at the same place, Start, although the*)
(* code goes through two lists of fields; so every prefix of the buffer     *)
(* gives the fields that it holds whole.  A URL is taken apart at the first *)
(* tokens of each kind, which are those that UrlText put there.             *)
(***************************************************************************)
EXTENDS Formats, SequenceTheorems, TLAPS

-----------------------------------------------------------------------------
(* Digits.                                                                  *)

LEMMA Widths ==
  /\ Radix \in Nat \ {0, 1} /\ Block \in Nat
  /\ \A n \in 0 .. 4 : Power(n) \in Nat \ {0}
  /\ \A n \in 0 .. 3 : Power(n + 1) = Power(n) * Radix
  /\ Power(0) = 1 /\ Power(1) = Radix
<1>1. Radix \in Nat \ {0, 1} /\ Block \in Nat
  BY FormatsAssumption
<1>2. \A a, b \in Nat \ {0} : a * b \in Nat \ {0}
  BY Z3
<1>3. Radix * Radix \in Nat \ {0} /\ Radix * Radix * Radix \in Nat \ {0}
      /\ Radix * Radix * Radix * Radix \in Nat \ {0}
  BY <1>1, <1>2
<1>4. Power(0) = 1 /\ Power(1) = Radix /\ Power(2) = Radix * Radix
      /\ Power(3) = Radix * Radix * Radix /\ Power(4) = Radix * Radix * Radix * Radix
  BY DEF Power
<1>5. \A n \in 0 .. 4 : n = 0 \/ n = 1 \/ n = 2 \/ n = 3 \/ n = 4
  OBVIOUS
<1>6. \A n \in 0 .. 4 : Power(n) \in Nat \ {0}
  BY <1>1, <1>3, <1>4, <1>5
<1>7. \A n \in 0 .. 3 : Power(n + 1) = Power(n) * Radix
  <2>1. 1 * Radix = Radix
    BY <1>1
  <2>2. \A n \in 0 .. 3 : n = 0 \/ n = 1 \/ n = 2 \/ n = 3
    OBVIOUS
  <2> QED
    BY <1>4, <2>1, <2>2
<1> QED
  BY <1>1, <1>4, <1>6, <1>7

LEMMA PlaceValues ==
  \A i \in 1 .. 4 : Power(i - 1) \in Nat \ {0}
<1>1. \A i \in 1 .. 4 : i - 1 \in 0 .. 4
  OBVIOUS
<1> QED
  BY <1>1, Widths

LEMMA RemainderUnique ==
  ASSUME NEW d \in Nat \ {0}, NEW k \in Int, NEW r \in 0 .. d - 1
  PROVE  (k * d + r) % d = r
  BY Z3

LEMMA Quotient ==
  ASSUME NEW d \in Nat \ {0}, NEW x \in Nat
  PROVE  /\ x = (x \div d) * d + (x % d)
         /\ x \div d \in Nat /\ x % d \in 0 .. d - 1
  BY Z3

\* The bytes of an integer are its digits: each adds its part to the remainder.
LEMMA NextDigit ==
  ASSUME NEW v \in Nat, NEW P \in Nat \ {0}, NEW R \in Nat \ {0}
  PROVE  v % (P * R) = (v % P) + ((v \div P) % R) * P
<1> DEFINE q == v \div P
           r == v % P
           k == q \div R
           s == q % R
<1>1. v = q * P + r /\ q \in Nat /\ r \in 0 .. P - 1
  BY Quotient
<1>2. q = k * R + s /\ k \in Nat /\ s \in 0 .. R - 1
  BY <1>1, Quotient
<1> HIDE DEF q, r, k, s
<1>3. v = k * (P * R) + (s * P + r)
  <2>1. q * P = k * (P * R) + s * P
    BY <1>2, Z3
  <2> QED
    BY <1>1, <1>2, <2>1, Z3
<1>4. s * P + r \in 0 .. (P * R) - 1
  <2>1. s * P <= (R - 1) * P /\ (R - 1) * P = P * R - P /\ s * P \in Nat /\ P * R \in Nat
    BY <1>2, Z3
  <2> QED
    BY <1>1, <2>1
<1>5. P * R \in Nat \ {0}
  BY Z3
<1>6. v % (P * R) = s * P + r
  <2> DEFINE d == P * R
             m == s * P + r
  <2>1. v = k * d + m /\ d \in Nat \ {0} /\ k \in Int /\ m \in 0 .. d - 1
    BY <1>2, <1>3, <1>4, <1>5
  <2> HIDE DEF d, m
  <2>2. v % d = m
    BY <2>1, RemainderUnique
  <2> QED
    BY <2>2 DEF d, m
<1> QED
  BY <1>6, <1>1, <1>2, Z3 DEF q, r, s

LEMMA Reduced ==
  ASSUME NEW v \in Nat, NEW d \in Nat \ {0}
  PROVE  v % d \in Nat /\ v % d < d /\ (v % d) % d = v % d
<1>1. v % d \in 0 .. d - 1
  BY Quotient
<1> DEFINE r == v % d
<1>2. r \in 0 .. d - 1
  BY <1>1
<1> HIDE DEF r
<1>3. 0 * d + r = r /\ 0 \in Int
  BY <1>2, Z3
<1>4. (0 * d + r) % d = r
  BY <1>2, <1>3, RemainderUnique
<1>5. r \in Nat /\ r < d /\ r % d = r
  BY <1>2, <1>3, <1>4
<1> QED
  BY <1>5 DEF r

Digit(v, i) == (v \div Power(i - 1)) % Radix

LEMMA Digits ==
  ASSUME NEW v \in Nat
  PROVE  /\ \A i \in 1 .. 4 : Digit(v, i) \in Byte
         /\ v % Power(1) = Digit(v, 1) * Power(0)
         /\ v % Power(2) = Digit(v, 1) * Power(0) + Digit(v, 2) * Power(1)
         /\ v % Power(3) = Digit(v, 1) * Power(0) + Digit(v, 2) * Power(1)
                             + Digit(v, 3) * Power(2)
         /\ v % Power(4) = Digit(v, 1) * Power(0) + Digit(v, 2) * Power(1)
                             + Digit(v, 3) * Power(2) + Digit(v, 4) * Power(3)
<1>1. \A i \in 1 .. 4 : Digit(v, i) \in Byte
  <2>1. TAKE i \in 1 .. 4
  <2>2. Power(i - 1) \in Nat \ {0} /\ Radix \in Nat \ {0}
    BY Widths
  <2>3. v \div Power(i - 1) \in Nat
    BY <2>2, Quotient
  <2>4. (v \div Power(i - 1)) % Radix \in 0 .. Radix - 1
    BY <2>2, <2>3, Quotient
  <2> QED
    BY <2>4 DEF Digit, Byte
<1>2. \A n \in 0 .. 3 : v % Power(n + 1) = (v % Power(n)) + Digit(v, n + 1) * Power(n)
  <2>1. TAKE n \in 0 .. 3
  <2>2. Power(n) \in Nat \ {0} /\ Radix \in Nat \ {0} /\ Power(n + 1) = Power(n) * Radix
    BY Widths
  <2>3. v % (Power(n) * Radix) = (v % Power(n)) + ((v \div Power(n)) % Radix) * Power(n)
    BY <2>2, NextDigit
  <2>4. (n + 1) - 1 = n
    OBVIOUS
  <2> QED
    BY <2>2, <2>3, <2>4 DEF Digit
<1>3. v % Power(0) = 0
  BY Widths
<1>4. \A i \in 1 .. 4, n \in 0 .. 3 : Digit(v, i) * Power(n) \in Nat
  <2>1. TAKE i \in 1 .. 4, n \in 0 .. 3
  <2>2. Digit(v, i) \in Nat /\ Power(n) \in Nat
    BY <1>1, Widths DEF Byte
  <2>3. \A a, b \in Nat : a * b \in Nat
    BY Z3
  <2> QED
    BY <2>2, <2>3
<1>5. v % Power(1) = (v % Power(0)) + Digit(v, 1) * Power(0)
  BY <1>2
<1>6. v % Power(2) = (v % Power(1)) + Digit(v, 2) * Power(1)
  BY <1>2
<1>7. v % Power(3) = (v % Power(2)) + Digit(v, 3) * Power(2)
  BY <1>2
<1>8. v % Power(4) = (v % Power(3)) + Digit(v, 4) * Power(3)
  BY <1>2
<1> QED
  BY <1>1, <1>3, <1>4, <1>5, <1>6, <1>7, <1>8

LEMMA DigitBytes ==
  ASSUME NEW v \in Nat
  PROVE  0 \in Byte /\ \A i \in 1 .. 4 : Digit(v, i) \in Byte /\ Digit(v, i) \in Nat
<1>1. 0 \in Byte /\ Byte \subseteq Nat
  BY FormatsAssumption DEF Byte
<1> QED
  BY <1>1, Digits

-----------------------------------------------------------------------------
(* The memory of an integer.                                                *)

LEMMA Tuple ==
  ASSUME NEW S, NEW n \in Nat, NEW s \in [1 .. n -> S]
  PROVE  s \in Seq(S) /\ Len(s) = n /\ DOMAIN s = 1 .. n
  BY SeqDef

LEMMA MemoryDigits ==
  ASSUME NEW v \in Nat, NEW size \in 1 .. 4
  PROVE  /\ Memory(v, size) \in [1 .. size -> Byte]
         /\ \A i \in 1 .. size : Memory(v, size)[i] = Digit(v, i)
  BY Digits DEF Memory, Digit

LEMMA Reversed ==
  ASSUME NEW n \in Nat, NEW s \in [1 .. n -> Byte]
  PROVE  /\ Reverse(s) \in [1 .. n -> Byte]
         /\ \A i \in 1 .. n : Reverse(s)[i] = s[n + 1 - i]
<1>1. Len(s) = n
  BY Tuple
<1>2. Reverse(s) = [i \in 1 .. n |-> s[(n - i) + 1]]
  BY <1>1 DEF Reverse
<1>3. \A i \in 1 .. n : (n - i) + 1 \in 1 .. n /\ (n - i) + 1 = n + 1 - i
  OBVIOUS
<1> QED
  BY <1>2, <1>3

\* Turned round if it is of two or four bytes; one byte is the same both ways.
LEMMA ConvertedBytes ==
  ASSUME NEW n \in {1, 2, 4}, NEW s \in [1 .. n -> Byte]
  PROVE  /\ Converted(s) \in [1 .. n -> Byte]
         /\ \A i \in 1 .. n : Converted(s)[i] = s[n + 1 - i]
<1>1. Len(s) = n
  BY Tuple
<1>2. CASE n = 1
  BY <1>1, <1>2 DEF Converted
<1>3. CASE n \in {2, 4}
  <2>1. Converted(s) = Reverse(s)
    BY <1>1, <1>3 DEF Converted
  <2>2. n \in Nat
    OBVIOUS
  <2>3. /\ Reverse(s) \in [1 .. n -> Byte]
        /\ \A i \in 1 .. n : Reverse(s)[i] = s[n + 1 - i]
    BY <2>2, Reversed
  <2> QED
    BY <2>1, <2>3
<1> QED
  BY <1>2, <1>3

\* What is written of an integer in network order: its last n digits, highest first.
LEMMA WrittenBig ==
  ASSUME NEW v \in Nat, NEW size \in {1, 2, 4}, NEW n \in 1 .. size, NEW garbage
  PROVE  /\ WriteDataType(v, size, n, FALSE, garbage) \in [1 .. n -> Byte]
         /\ \A i \in 1 .. n :
              WriteDataType(v, size, n, FALSE, garbage)[n + 1 - i] = Digit(v, i)
<1> DEFINE m == Converted(Memory(v, size))
<1>1. m \in [1 .. size -> Byte] /\ \A i \in 1 .. size : m[i] = Digit(v, size + 1 - i)
  <2>1. size \in 1 .. 4 /\ size \in {1, 2, 4}
    OBVIOUS
  <2> DEFINE b == Memory(v, size)
  <2>2. b \in [1 .. size -> Byte] /\ \A i \in 1 .. size : b[i] = Digit(v, i)
    BY <2>1, MemoryDigits
  <2> HIDE DEF b
  <2>3. Converted(b) \in [1 .. size -> Byte]
        /\ \A i \in 1 .. size : Converted(b)[i] = b[size + 1 - i]
    BY ONLY <2>1, <2>2, ConvertedBytes
  <2>4. \A i \in 1 .. size : size + 1 - i \in 1 .. size
    BY <2>1
  <2>5. \A i \in 1 .. size : Converted(b)[i] = Digit(v, size + 1 - i)
    BY <2>2, <2>3, <2>4
  <2> QED
    BY <2>3, <2>5 DEF b
<1> HIDE DEF m
<1>2. WriteDataType(v, size, n, FALSE, garbage) =
        [i \in 1 .. n |-> IF size - n + i < 1 THEN garbage[i] ELSE m[size - n + i]]
  BY DEF WriteDataType, m
<1>3. \A i \in 1 .. n : ~(size - n + i < 1) /\ size - n + i \in 1 .. size
                        /\ size + 1 - (size - n + i) = n + 1 - i
  OBVIOUS
<1>4. \A i \in 1 .. n : WriteDataType(v, size, n, FALSE, garbage)[i] = Digit(v, n + 1 - i)
  BY <1>1, <1>2, <1>3
<1>5. \A i \in 1 .. n : n + 1 - i \in 1 .. n /\ n + 1 - (n + 1 - i) = i
  OBVIOUS
<1> QED
  BY <1>1, <1>2, <1>3, <1>4, <1>5

\* In the host's order all four bytes are written, lowest first.
LEMMA WrittenLittle ==
  ASSUME NEW v \in Nat, NEW garbage
  PROVE  /\ WriteDataType(v, 4, 4, TRUE, garbage) \in [1 .. 4 -> Byte]
         /\ \A i \in 1 .. 4 : WriteDataType(v, 4, 4, TRUE, garbage)[i] = Digit(v, i)
<1> DEFINE m == Memory(v, 4)
<1>1. m \in [1 .. 4 -> Byte] /\ \A i \in 1 .. 4 : m[i] = Digit(v, i)
  BY MemoryDigits
<1> HIDE DEF m
<1>2. WriteDataType(v, 4, 4, TRUE, garbage) =
        [i \in 1 .. 4 |-> IF 4 - 4 + i < 1 THEN garbage[i] ELSE m[4 - 4 + i]]
  BY DEF WriteDataType, m
<1>3. \A i \in 1 .. 4 : ~(4 - 4 + i < 1) /\ 4 - 4 + i = i
  OBVIOUS
<1>4. [i \in 1 .. 4 |-> IF 4 - 4 + i < 1 THEN garbage[i] ELSE m[4 - 4 + i]]
        = [i \in 1 .. 4 |-> m[i]]
  BY <1>3, Zenon
<1> QED
  BY <1>1, <1>2, <1>4

\* composition_time: two bytes of something else, and its own.
LEMMA WrittenBeyond ==
  ASSUME NEW v \in Nat, NEW garbage \in Garbage
  PROVE  /\ WriteDataType(v, 1, 3, FALSE, garbage) \in [1 .. 3 -> Byte]
         /\ WriteDataType(v, 1, 3, FALSE, garbage)[3] = Digit(v, 1)
<1> DEFINE m == Converted(Memory(v, 1))
<1>1. m \in [1 .. 1 -> Byte] /\ m[1] = Digit(v, 1)
  BY MemoryDigits, ConvertedBytes
<1> HIDE DEF m
<1>2. WriteDataType(v, 1, 3, FALSE, garbage) =
        [i \in 1 .. 3 |-> IF 1 - 3 + i < 1 THEN garbage[i] ELSE m[1 - 3 + i]]
  BY DEF WriteDataType, m
<1>3. \A i \in 1 .. 3 : 1 - 3 + i < 1 => garbage[i] \in Byte
  BY DEF Garbage
<1>4. \A i \in 1 .. 3 : ~(1 - 3 + i < 1) => 1 - 3 + i = 1 /\ i = 3
  OBVIOUS
<1> DEFINE b(i) == IF 1 - 3 + i < 1 THEN garbage[i] ELSE m[1 - 3 + i]
<1>5. \A i \in 1 .. 3 : b(i) \in Byte
  <2>1. m[1] \in Byte
    BY <1>1
  <2> QED
    BY <2>1, <1>3, <1>4
<1>6. b(3) = m[1]
  OBVIOUS
<1> HIDE DEF b
<1>7. [i \in 1 .. 3 |-> b(i)] \in [1 .. 3 -> Byte] /\ [i \in 1 .. 3 |-> b(i)][3] = b(3)
  BY <1>5
<1> QED
  BY <1>1, <1>2, <1>6, <1>7 DEF b

LEMMA ValueOfDigits ==
  ASSUME NEW v \in Nat, NEW size \in 1 .. 4, NEW n \in 1 .. size,
         NEW m \in [1 .. size -> Byte],
         \A i \in 1 .. n : m[i] = Digit(v, i),
         \A i \in n + 1 .. size : m[i] = 0
  PROVE  Value(m) = v % Power(n)
<1> DEFINE D(i) == IF i \in DOMAIN m THEN m[i] * Power(i - 1) ELSE 0
<1>1. Value(m) = D(1) + D(2) + D(3) + D(4)
  BY DEF Value
<1>2. \A i \in 1 .. n : D(i) = Digit(v, i) * Power(i - 1)
  OBVIOUS
<1>3. \A i \in 1 .. 4 : i > n => D(i) = 0
  <2>1. \A i \in 1 .. 4 : Power(i - 1) \in Nat
    BY ONLY PlaceValues
  <2>2. \A a \in Nat : 0 * a = 0
    BY Z3
  <2>3. TAKE i \in 1 .. 4
  <2>4. HAVE i > n
  <2>5. CASE i \in 1 .. size
    <3>1. m[i] = 0 /\ D(i) = m[i] * Power(i - 1)
      BY <2>4, <2>5
    <3> QED
      BY <3>1, <2>1, <2>2
  <2>6. CASE i \notin 1 .. size
    BY <2>6
  <2> QED
    BY <2>5, <2>6
<1>4. \A i \in 1 .. 4 : Digit(v, i) * Power(i - 1) \in Nat
  <2>1. \A i \in 1 .. 4 : Digit(v, i) \in Nat /\ Power(i - 1) \in Nat
    BY ONLY PlaceValues, DigitBytes, v \in Nat
  <2>2. \A a, b \in Nat : a * b \in Nat
    BY Z3
  <2> QED
    BY <2>1, <2>2
<1> DEFINE E(i) == Digit(v, i) * Power(i - 1)
<1>5. /\ v % Power(1) = E(1)
      /\ v % Power(2) = E(1) + E(2)
      /\ v % Power(3) = E(1) + E(2) + E(3)
      /\ v % Power(4) = E(1) + E(2) + E(3) + E(4)
  BY Digits
<1>6. \A i \in 1 .. 4 : E(i) \in Nat /\ (i \in 1 .. n => D(i) = E(i)) /\ (i > n => D(i) = 0)
  BY <1>2, <1>3, <1>4
<1> HIDE DEF D, E
<1>7. n = 1 \/ n = 2 \/ n = 3 \/ n = 4
  OBVIOUS
<1> QED
  BY <1>1, <1>5, <1>6, <1>7

\* Bytes in network order end the memory of a zero, and are turned round with it.
LEMMA ReadMemory ==
  ASSUME NEW size \in {1, 2, 4}, NEW n \in 1 .. size, NEW data \in [1 .. n -> Byte]
  PROVE  \E c \in [1 .. size -> Byte] :
           /\ ReadDataType(0, data, size, FALSE) = Value(c)
           /\ \A i \in 1 .. n : c[i] = data[n + 1 - i]
           /\ \A i \in n + 1 .. size : c[i] = 0
<1> DEFINE b(i) == IF i - (size - n) \in 1 .. n THEN data[i - (size - n)]
                   ELSE Memory(0, size)[i]
           m == [i \in 1 .. size |-> b(i)]
<1>1. DOMAIN data = 1 .. n /\ Len(data) = n
  <2>1. n \in Nat
    OBVIOUS
  <2> QED
    BY <2>1, Tuple
<1>2. ReadDataType(0, data, size, FALSE) = Value(Converted(m))
  BY <1>1 DEF ReadDataType
<1>3. size \in 1 .. 4 /\ 0 \in Byte
  BY Widths DEF Byte
<1>4. \A i \in 1 .. size : Memory(0, size)[i] = 0
  <2>1. TAKE i \in 1 .. size
  <2>2. Power(i - 1) \in Nat \ {0} /\ Radix \in Nat \ {0}
    <3>1. i \in 1 .. 4
      BY <1>3
    <3> QED
      BY ONLY PlaceValues, FormatsAssumption, <3>1
  <2>3. \A d \in Nat \ {0} : 0 \div d = 0 /\ 0 % d = 0
    BY Z3
  <2> QED
    BY <2>2, <2>3 DEF Memory
<1>5. \A i \in 1 .. size : b(i) \in Byte
  <2>1. TAKE i \in 1 .. size
  <2>2. CASE i - (size - n) \in 1 .. n
    BY <2>2
  <2>3. CASE i - (size - n) \notin 1 .. n
    BY <2>3, <1>3, <1>4
  <2> QED
    BY <2>2, <2>3
<1>6. m \in [1 .. size -> Byte]
  BY <1>5
<1>7. \A i \in 1 .. size : m[i] = b(i)
  OBVIOUS
<1>8. \A i \in 1 .. n : size + 1 - i \in 1 .. size /\ b(size + 1 - i) = data[n + 1 - i]
  <2>1. TAKE i \in 1 .. n
  <2>2. size + 1 - i \in 1 .. size /\ (size + 1 - i) - (size - n) = n + 1 - i
        /\ n + 1 - i \in 1 .. n
    OBVIOUS
  <2> QED
    BY <2>2
<1>9. \A i \in n + 1 .. size : size + 1 - i \in 1 .. size /\ b(size + 1 - i) = 0
  <2>1. TAKE i \in n + 1 .. size
  <2>2. size + 1 - i \in 1 .. size /\ (size + 1 - i) - (size - n) \notin 1 .. n
    OBVIOUS
  <2> QED
    BY <2>2, <1>4
<1> HIDE DEF m, b
<1> DEFINE c == Converted(m)
<1>10. c \in [1 .. size -> Byte] /\ \A i \in 1 .. size : c[i] = m[size + 1 - i]
  <2>1. size \in {1, 2, 4}
    OBVIOUS
  <2> QED
    BY ONLY <2>1, <1>6, ConvertedBytes
<1> HIDE DEF c
<1>11. /\ \A i \in 1 .. n : c[i] = data[n + 1 - i]
       /\ \A i \in n + 1 .. size : c[i] = 0
  <2>1. \A i \in 1 .. n : i \in 1 .. size
    OBVIOUS
  <2>2. \A i \in n + 1 .. size : i \in 1 .. size
    OBVIOUS
  <2> QED
    BY <2>1, <2>2, <1>7, <1>8, <1>9, <1>10
<1>12. ReadDataType(0, data, size, FALSE) = Value(c)
  BY <1>2 DEF c
<1> QED
  BY <1>10, <1>11, <1>12

\* Reading n bytes in network order gives the low n digits of what was written.
LEMMA ReadBig ==
  ASSUME NEW v \in Nat, NEW size \in {1, 2, 4}, NEW n \in 1 .. size,
         NEW data \in [1 .. n -> Byte],
         \A i \in 1 .. n : data[n + 1 - i] = Digit(v, i)
  PROVE  ReadDataType(0, data, size, FALSE) = v % Power(n)
<1>1. PICK c \in [1 .. size -> Byte] :
           /\ ReadDataType(0, data, size, FALSE) = Value(c)
           /\ \A i \in 1 .. n : c[i] = data[n + 1 - i]
           /\ \A i \in n + 1 .. size : c[i] = 0
  BY ReadMemory
<1>2. \A i \in 1 .. n : c[i] = Digit(v, i)
  BY <1>1
<1>3. size \in 1 .. 4
  OBVIOUS
<1>4. Value(c) = v % Power(n)
  BY <1>1, <1>2, <1>3, ValueOfDigits
<1> QED
  BY <1>1, <1>4

\* Of three bytes in network order the last is the lowest digit.
LEMMA ReadThree ==
  ASSUME NEW v \in Nat, NEW data \in [1 .. 3 -> Byte], data[3] = Digit(v, 1)
  PROVE  /\ ReadDataType(0, data, 4, FALSE) \in Nat
         /\ ReadDataType(0, data, 4, FALSE) < Power(3)
         /\ ReadDataType(0, data, 4, FALSE) % Power(1) = v % Power(1)
<1>1. 4 \in {1, 2, 4} /\ 3 \in 1 .. 4 /\ data \in [1 .. 3 -> Byte]
  OBVIOUS
<1>2. PICK c \in [1 .. 4 -> Byte] :
           /\ ReadDataType(0, data, 4, FALSE) = Value(c)
           /\ \A i \in 1 .. 3 : c[i] = data[3 + 1 - i]
           /\ \A i \in 3 + 1 .. 4 : c[i] = 0
  BY ONLY <1>1, ReadMemory
<1> DEFINE c1 == c[1]
           c2 == c[2]
           c3 == c[3]
<1>3. c1 = Digit(v, 1) /\ c[4] = 0
  BY <1>2
<1>4. c1 \in 0 .. Radix - 1 /\ c2 \in 0 .. Radix - 1 /\ c3 \in 0 .. Radix - 1
  BY <1>2 DEF Byte
<1>5. Value(c) = c1 * Power(0) + c2 * Power(1) + c3 * Power(2) + 0 * Power(3)
  BY <1>2, <1>3 DEF Value
<1> HIDE DEF c1, c2, c3
<1>6. /\ Power(0) = 1 /\ Power(1) = Radix /\ Power(2) = Radix * Radix
      /\ Power(3) = Radix * Radix * Radix
  BY DEF Power
<1>7. Radix \in Nat \ {0}
  BY FormatsAssumption
<1> DEFINE k == c3 * Radix + c2
           w == k * Radix + c1
<1>8. c3 * (Radix * Radix) = (c3 * Radix) * Radix /\ 0 * Power(3) = 0 /\ c1 * 1 = c1
  <2>1. Power(3) \in Int
    BY Widths
  <2> QED
    BY <1>4, <1>7, <2>1, Z3
<1>9. k \in Nat /\ k <= Radix * Radix - 1
  <2>1. c3 * Radix <= (Radix - 1) * Radix /\ (Radix - 1) * Radix = Radix * Radix - Radix
        /\ c3 * Radix \in Nat /\ Radix * Radix \in Nat
    BY <1>4, <1>7, Z3
  <2> QED
    BY <2>1, <1>4, <1>7
<1>10. Value(c) = w
  <2>1. k * Radix = (c3 * Radix) * Radix + c2 * Radix
    BY <1>4, <1>7, Z3
  <2>2. (c3 * Radix) * Radix \in Nat /\ c2 * Radix \in Nat
    BY <1>4, <1>7, Z3
  <2>3. Value(c) = c1 + c2 * Radix + (c3 * Radix) * Radix + 0
    BY <1>5, <1>6, <1>8
  <2> HIDE DEF k
  <2> QED
    BY <2>1, <2>2, <2>3, <1>4
<1> HIDE DEF k
<1>11. w \in Nat /\ w < Radix * Radix * Radix
  <2>1. k * Radix <= (Radix * Radix - 1) * Radix
        /\ (Radix * Radix - 1) * Radix = Radix * Radix * Radix - Radix
        /\ k * Radix \in Nat /\ Radix * Radix * Radix \in Nat
    BY <1>7, <1>9, Z3
  <2> QED
    BY <2>1, <1>4, <1>7
<1>12. w % Radix = c1
  BY <1>4, <1>7, <1>9, RemainderUnique
<1>13. v % Power(1) = Digit(v, 1)
  <2>1. v % Power(1) = Digit(v, 1) * Power(0)
    BY Digits
  <2>2. Digit(v, 1) \in Nat
    BY DigitBytes
  <2>3. \A a \in Nat : a * 1 = a
    BY Z3
  <2> QED
    BY <2>1, <2>2, <2>3, <1>6
<1> HIDE DEF w
<1> QED
  BY <1>2, <1>3, <1>6, <1>10, <1>11, <1>12, <1>13

\* Of four bytes in the host's order the first three may do.
LEMMA ReadLittle ==
  ASSUME NEW v \in Nat, NEW n \in {3, 4}, NEW data \in [1 .. n -> Byte],
         \A i \in 1 .. n : data[i] = Digit(v, i)
  PROVE  ReadDataType(0, data, 4, TRUE) = v % Power(n)
<1> DEFINE b(i) == IF i - 0 \in 1 .. n THEN data[i - 0] ELSE Memory(0, 4)[i]
           m == [i \in 1 .. 4 |-> b(i)]
<1>1. DOMAIN data = 1 .. n
  OBVIOUS
<1>2. ReadDataType(0, data, 4, TRUE) = Value(m)
  BY <1>1 DEF ReadDataType
<1>3. \A i \in 1 .. 4 : Memory(0, 4)[i] = 0
  <2>1. TAKE i \in 1 .. 4
  <2>2. Power(i - 1) \in Nat \ {0} /\ Radix \in Nat \ {0}
    BY ONLY PlaceValues, FormatsAssumption, i \in 1 .. 4
  <2>3. \A d \in Nat \ {0} : 0 \div d = 0 /\ 0 % d = 0
    BY Z3
  <2> QED
    BY <2>2, <2>3 DEF Memory
<1>4. \A i \in 1 .. 4 : b(i) = IF i <= n THEN Digit(v, i) ELSE 0
  <2>1. TAKE i \in 1 .. 4
  <2>2. i - 0 = i /\ (i \in 1 .. n <=> i <= n)
    OBVIOUS
  <2> QED
    BY <2>2, <1>3
<1>5. \A i \in 1 .. 4 : b(i) \in Byte
  <2>1. 0 \in Byte /\ \A i \in 1 .. 4 : Digit(v, i) \in Byte
    BY DigitBytes
  <2> QED
    BY <1>4, <2>1
<1> HIDE DEF b
<1>6. /\ m \in [1 .. 4 -> Byte]
      /\ \A i \in 1 .. n : m[i] = Digit(v, i)
      /\ \A i \in n + 1 .. 4 : m[i] = 0
  BY <1>4, <1>5
<1> HIDE DEF m
<1>7. Value(m) = v % Power(n)
  <2>1. 4 \in 1 .. 4 /\ n \in 1 .. 4
    OBVIOUS
  <2> QED
    BY ONLY <2>1, <1>6, ValueOfDigits, v \in Nat
<1> QED
  BY <1>2, <1>7

-----------------------------------------------------------------------------
(* Fields: what one end writes and the other reads of them.                 *)

\* Bytes of a field of a packet that both ends agree on.
Agreed(r) == IF r.name = "composition_time" THEN 1 ELSE r.n

PlainInteger(r) ==
  \/ r.size = 1 /\ r.n = 1 /\ r.little_endian = FALSE
  \/ r.size = 2 /\ r.n = 2 /\ r.little_endian = FALSE
  \/ r.size = 4 /\ r.n = 3 /\ r.little_endian = FALSE
  \/ r.size = 4 /\ r.n = 4 /\ r.little_endian = FALSE
  \/ r.size = 4 /\ r.n = 4 /\ r.little_endian = TRUE

\* The field w that is written and the field r that is read in its place.
Matches(w, r) ==
  /\ w.name = r.name
  /\ \/ w = r /\ r.size = 0 /\ r.name # "composition_time"
     \/ w = r /\ PlainInteger(r) /\ r.name # "composition_time"
     \/ /\ w.size = 4 /\ w.n = 4 /\ w.little_endian = TRUE
        /\ r.size = 4 /\ r.n = 3 /\ r.little_endian = TRUE /\ r.name # "composition_time"
     \/ /\ w.size = 1 /\ w.n = 3 /\ w.little_endian = FALSE
        /\ r.size = 4 /\ r.n = 3 /\ r.little_endian = FALSE /\ r.name = "composition_time"

BytesOf(w, v, garbage) == WriteDataType(v, w.size, w.n, w.little_endian, garbage)
ValueFrom(r, data) == ReadDataType(0, data, r.size, r.little_endian)

\* A plain integer comes back as far as the bytes that were read of it.
LEMMA PlainReturns ==
  ASSUME NEW r, NEW v \in Nat, NEW garbage, PlainInteger(r),
         NEW data \in [1 .. r.n -> Byte],
         \A i \in 1 .. r.n : data[i] = BytesOf(r, v, garbage)[i]
  PROVE  ValueFrom(r, data) = v % Power(r.n)
<1> DEFINE b == BytesOf(r, v, garbage)
<1>1. CASE r.little_endian = FALSE
  <2>1. r.size \in {1, 2, 4} /\ r.n \in 1 .. r.size
    BY <1>1 DEF PlainInteger
  <2>2. PICK size \in {1, 2, 4} : size = r.size
    BY <2>1
  <2>3. PICK n \in 1 .. size : n = r.n
    BY <2>1, <2>2
  <2>4. b = WriteDataType(v, size, n, FALSE, garbage)
    BY <1>1, <2>2, <2>3 DEF BytesOf
  <2> HIDE DEF b
  <2>5. \A i \in 1 .. n : b[n + 1 - i] = Digit(v, i)
    <3>1. \A i \in 1 .. n :
            WriteDataType(v, size, n, FALSE, garbage)[n + 1 - i] = Digit(v, i)
      BY WrittenBig
    <3> QED
      BY <2>4, <3>1
  <2>6. \A i \in 1 .. n : n + 1 - i \in 1 .. n
    OBVIOUS
  <2>7. \A i \in 1 .. n : data[n + 1 - i] = Digit(v, i)
    BY <2>3, <2>5, <2>6 DEF b
  <2>8. data \in [1 .. n -> Byte]
    BY <2>3
  <2>9. ReadDataType(0, data, size, FALSE) = v % Power(n)
    BY <2>7, <2>8, ReadBig
  <2> QED
    BY <1>1, <2>2, <2>3, <2>9 DEF ValueFrom
<1>2. CASE r.little_endian = TRUE
  <2>1. r.size = 4 /\ r.n = 4
    BY <1>2 DEF PlainInteger
  <2>2. b = WriteDataType(v, 4, 4, TRUE, garbage)
    BY <1>2, <2>1 DEF BytesOf
  <2>3. \A i \in 1 .. 4 : b[i] = Digit(v, i)
    BY <2>2, WrittenLittle
  <2>4. data \in [1 .. 4 -> Byte] /\ \A i \in 1 .. 4 : data[i] = Digit(v, i)
    BY <2>1, <2>3
  <2>5. ReadDataType(0, data, 4, TRUE) = v % Power(4)
    <3>1. 4 \in {3, 4}
      OBVIOUS
    <3> QED
      BY ONLY <2>4, <3>1, ReadLittle, v \in Nat
  <2> QED
    BY <1>2, <2>1, <2>5 DEF ValueFrom
<1> QED
  BY <1>1, <1>2 DEF PlainInteger

LEMMA IntegerReturns ==
  ASSUME NEW w, NEW r, Matches(w, r), r.size # 0, NEW v \in Nat, NEW garbage \in Garbage
  PROVE  /\ w.n \in 1 .. 4 /\ r.n \in 1 .. w.n
         /\ BytesOf(w, v, garbage) \in [1 .. w.n -> Byte]
         /\ \A data \in [1 .. r.n -> Byte] :
              (\A i \in 1 .. r.n : data[i] = BytesOf(w, v, garbage)[i]) =>
                /\ ValueFrom(r, data) \in Nat /\ ValueFrom(r, data) < Power(r.n)
                /\ ValueFrom(r, data) % Power(Agreed(r)) = v % Power(Agreed(r))
<1> DEFINE b == BytesOf(w, v, garbage)
           Returns(data) ==
             /\ ValueFrom(r, data) \in Nat /\ ValueFrom(r, data) < Power(r.n)
             /\ ValueFrom(r, data) % Power(Agreed(r)) = v % Power(Agreed(r))
<1>1. CASE w = r /\ PlainInteger(r) /\ r.name # "composition_time"
  <2>1. r.n \in 1 .. 4 /\ w.n = r.n
    BY <1>1 DEF PlainInteger
  <2>2. b \in [1 .. w.n -> Byte]
    <3>1. CASE r.little_endian = FALSE
      <4>1. r.size \in {1, 2, 4} /\ r.n \in 1 .. r.size
        BY <1>1, <3>1 DEF PlainInteger
      <4>2. WriteDataType(v, r.size, r.n, FALSE, garbage) \in [1 .. r.n -> Byte]
        BY <4>1, WrittenBig
      <4> QED
        BY <1>1, <3>1, <4>2 DEF BytesOf
    <3>2. CASE r.little_endian = TRUE
      <4>1. r.size = 4 /\ r.n = 4
        BY <1>1, <3>2 DEF PlainInteger
      <4>2. WriteDataType(v, 4, 4, TRUE, garbage) \in [1 .. 4 -> Byte]
        BY WrittenLittle
      <4> QED
        BY <1>1, <3>2, <4>1, <4>2 DEF BytesOf
    <3> QED
      BY <1>1, <3>1, <3>2 DEF PlainInteger
  <2>3. \A data \in [1 .. r.n -> Byte] :
          (\A i \in 1 .. r.n : data[i] = b[i]) => ValueFrom(r, data) = v % Power(r.n)
    <3>1. TAKE data \in [1 .. r.n -> Byte]
    <3>2. HAVE \A i \in 1 .. r.n : data[i] = b[i]
    <3>3. PlainInteger(r) /\ \A i \in 1 .. r.n : data[i] = BytesOf(r, v, garbage)[i]
      BY <1>1, <3>2
    <3> QED
      BY <3>3, PlainReturns
  <2>4. PICK d \in Nat \ {0} : d = Power(r.n)
    BY <2>1, Widths
  <2>5. v % d \in Nat /\ v % d < d /\ (v % d) % d = v % d
    BY <2>4, Reduced
  <2>6. Agreed(r) = r.n
    BY <1>1 DEF Agreed
  <2>7. \A data \in [1 .. r.n -> Byte] : (\A i \in 1 .. r.n : data[i] = b[i]) => Returns(data)
    BY <2>3, <2>4, <2>5, <2>6
  <2> QED
    BY <2>1, <2>2, <2>7
<1>2. CASE /\ w.size = 4 /\ w.n = 4 /\ w.little_endian = TRUE
           /\ r.size = 4 /\ r.n = 3 /\ r.little_endian = TRUE /\ r.name # "composition_time"
  <2>1. b = WriteDataType(v, 4, 4, TRUE, garbage)
    BY <1>2 DEF BytesOf
  <2>2. b \in [1 .. 4 -> Byte] /\ \A i \in 1 .. 4 : b[i] = Digit(v, i)
    BY <2>1, WrittenLittle
  <2> HIDE DEF b
  <2>3. \A data \in [1 .. 3 -> Byte] :
          (\A i \in 1 .. 3 : data[i] = b[i]) => ReadDataType(0, data, 4, TRUE) = v % Power(3)
    <3>1. TAKE data \in [1 .. 3 -> Byte]
    <3>2. HAVE \A i \in 1 .. 3 : data[i] = b[i]
    <3>3. \A i \in 1 .. 3 : data[i] = Digit(v, i)
      BY <3>2, <2>2
    <3>4. 3 \in {3, 4} /\ data \in [1 .. 3 -> Byte]
      OBVIOUS
    <3> QED
      BY ONLY <3>3, <3>4, ReadLittle, v \in Nat
  <2>4. PICK d \in Nat \ {0} : d = Power(3)
    BY Widths
  <2>5. v % d \in Nat /\ v % d < d /\ (v % d) % d = v % d
    BY <2>4, Reduced
  <2>6. Agreed(r) = 3
    BY <1>2 DEF Agreed
  <2>7. \A data \in [1 .. r.n -> Byte] : (\A i \in 1 .. r.n : data[i] = b[i]) => Returns(data)
    BY <1>2, <2>3, <2>4, <2>5, <2>6 DEF ValueFrom
  <2> QED
    BY <1>2, <2>2, <2>7 DEF b
<1>3. CASE /\ w.size = 1 /\ w.n = 3 /\ w.little_endian = FALSE
           /\ r.size = 4 /\ r.n = 3 /\ r.little_endian = FALSE /\ r.name = "composition_time"
  <2>1. b = WriteDataType(v, 1, 3, FALSE, garbage)
    BY <1>3 DEF BytesOf
  <2>2. b \in [1 .. 3 -> Byte] /\ b[3] = Digit(v, 1)
    BY <2>1, WrittenBeyond
  <2> HIDE DEF b
  <2>3. \A data \in [1 .. 3 -> Byte] :
          data[3] = b[3] =>
            LET x == ReadDataType(0, data, 4, FALSE)
            IN x \in Nat /\ x < Power(3) /\ x % Power(1) = v % Power(1)
    BY <2>2, ReadThree
  <2>4. Agreed(r) = 1 /\ 3 \in 1 .. 3
    BY <1>3 DEF Agreed
  <2>5. \A data \in [1 .. r.n -> Byte] : (\A i \in 1 .. r.n : data[i] = b[i]) => Returns(data)
    BY <1>3, <2>3, <2>4 DEF ValueFrom
  <2> QED
    BY <1>3, <2>2, <2>5 DEF b
<1> QED
  BY <1>1, <1>2, <1>3 DEF Matches

-----------------------------------------------------------------------------
(* Structures: fields in the same places on both sides.                     *)

FieldPair(w, r) ==
  /\ Matches(w, r) /\ w.n \in Nat /\ r.n \in Nat
  /\ r.name = "payload" => r.size = 0 /\ r.n = 0

\* A structure of k fields: pairs of the same width, but for the last; names of
\* their own; the payload comes last.
Fits(S, k) ==
  /\ DOMAIN S.writes = 1 .. k /\ DOMAIN S.reads = 1 .. k /\ Len(S.reads) = k
  /\ \A i \in 1 .. k : FieldPair(S.writes[i], S.reads[i])
  /\ \A i \in 1 .. k - 1 : S.writes[i].n = S.reads[i].n /\ S.reads[i].name # "payload"
  /\ \A i, j \in 1 .. k : S.reads[i].name = S.reads[j].name => i = j

LEMMA FieldPairs ==
  ASSUME NEW name, name # "payload", name # "composition_time"
  PROVE  /\ FieldPair(U8(name), U8(name))
         /\ FieldPair(U16(name), U16(name))
         /\ FieldPair(U24(name), U24(name))
         /\ FieldPair(U32(name), U32(name))
         /\ FieldPair(U32LE(name), U32LE(name))
         /\ FieldPair(U32LE(name), Field(name, 4, 3, TRUE))
         /\ FieldPair(Field(name, 0, Block, FALSE), Field(name, 0, Block, FALSE))
  BY FormatsAssumption
  DEF FieldPair, U8, U16, U24, U32, U32LE, Field, Matches, PlainInteger

LEMMA PayloadPair ==
  FieldPair(Payload, Payload)
  BY DEF FieldPair, Payload, Field, Matches, PlainInteger

LEMMA CompositionTimePair ==
  FieldPair(Field("composition_time", 1, 3, FALSE), U24("composition_time"))
  BY DEF FieldPair, U24, Field, Matches, PlainInteger

LEMMA Fits1 ==
  ASSUME NEW S, NEW w1, NEW r1,
         S.writes = << w1 >>, S.reads = << r1 >>,
         FieldPair(w1, r1)
  PROVE  Fits(S, 1)
<1>1. /\ DOMAIN S.writes = 1 .. 1 /\ DOMAIN S.reads = 1 .. 1 /\ Len(S.reads) = 1
      /\ S.writes[1] = w1 /\ S.reads[1] = r1
  OBVIOUS
<1>2. \A i \in 1 .. 1 : i = 1
  OBVIOUS
<1> QED
  BY <1>1, <1>2 DEF Fits

LEMMA Fits2 ==
  ASSUME NEW S, NEW w1, NEW r1, NEW w2, NEW r2,
         S.writes = << w1, w2 >>, S.reads = << r1, r2 >>,
         FieldPair(w1, r1), FieldPair(w2, r2),
         w1.n = r1.n,
         r1.name # "payload",
         r1.name # r2.name
  PROVE  Fits(S, 2)
<1>1. /\ DOMAIN S.writes = 1 .. 2 /\ DOMAIN S.reads = 1 .. 2 /\ Len(S.reads) = 2
      /\ S.writes[1] = w1 /\ S.reads[1] = r1
      /\ S.writes[2] = w2 /\ S.reads[2] = r2
  OBVIOUS
<1>2. \A i \in 1 .. 2 : i = 1 \/ i = 2
  OBVIOUS
<1>3. \A i \in 1 .. 2 - 1 : i = 1
  OBVIOUS
<1>4. \A i \in 1 .. 2 : FieldPair(S.writes[i], S.reads[i])
  BY <1>1, <1>2
<1>5. \A i \in 1 .. 2 - 1 : S.writes[i].n = S.reads[i].n /\ S.reads[i].name # "payload"
  BY <1>1, <1>3
<1>6. \A i, j \in 1 .. 2 : S.reads[i].name = S.reads[j].name => i = j
  BY <1>1, <1>2
<1> QED
  BY <1>1, <1>4, <1>5, <1>6 DEF Fits

LEMMA Fits3 ==
  ASSUME NEW S, NEW w1, NEW r1, NEW w2, NEW r2, NEW w3, NEW r3,
         S.writes = << w1, w2, w3 >>, S.reads = << r1, r2, r3 >>,
         FieldPair(w1, r1), FieldPair(w2, r2), FieldPair(w3, r3),
         w1.n = r1.n, w2.n = r2.n,
         r1.name # "payload", r2.name # "payload",
         r1.name # r2.name, r1.name # r3.name, r2.name # r3.name
  PROVE  Fits(S, 3)
<1>1. /\ DOMAIN S.writes = 1 .. 3 /\ DOMAIN S.reads = 1 .. 3 /\ Len(S.reads) = 3
      /\ S.writes[1] = w1 /\ S.reads[1] = r1
      /\ S.writes[2] = w2 /\ S.reads[2] = r2
      /\ S.writes[3] = w3 /\ S.reads[3] = r3
  OBVIOUS
<1>2. \A i \in 1 .. 3 : i = 1 \/ i = 2 \/ i = 3
  OBVIOUS
<1>3. \A i \in 1 .. 3 - 1 : i = 1 \/ i = 2
  OBVIOUS
<1>4. \A i \in 1 .. 3 : FieldPair(S.writes[i], S.reads[i])
  BY <1>1, <1>2
<1>5. \A i \in 1 .. 3 - 1 : S.writes[i].n = S.reads[i].n /\ S.reads[i].name # "payload"
  BY <1>1, <1>3
<1>6. \A i, j \in 1 .. 3 : S.reads[i].name = S.reads[j].name => i = j
  BY <1>1, <1>2
<1> QED
  BY <1>1, <1>4, <1>5, <1>6 DEF Fits

LEMMA Fits4 ==
  ASSUME NEW S, NEW w1, NEW r1, NEW w2, NEW r2, NEW w3, NEW r3, NEW w4, NEW r4,
         S.writes = << w1, w2, w3, w4 >>, S.reads = << r1, r2, r3, r4 >>,
         FieldPair(w1, r1), FieldPair(w2, r2), FieldPair(w3, r3), FieldPair(w4, r4),
         w1.n = r1.n, w2.n = r2.n, w3.n = r3.n,
         r1.name # "payload", r2.name # "payload", r3.name # "payload",
         r1.name # r2.name, r1.name # r3.name, r1.name # r4.name,
         r2.name # r3.name, r2.name # r4.name, r3.name # r4.name
  PROVE  Fits(S, 4)
<1>1. /\ DOMAIN S.writes = 1 .. 4 /\ DOMAIN S.reads = 1 .. 4 /\ Len(S.reads) = 4
      /\ S.writes[1] = w1 /\ S.reads[1] = r1
      /\ S.writes[2] = w2 /\ S.reads[2] = r2
      /\ S.writes[3] = w3 /\ S.reads[3] = r3
      /\ S.writes[4] = w4 /\ S.reads[4] = r4
  OBVIOUS
<1>2. \A i \in 1 .. 4 : i = 1 \/ i = 2 \/ i = 3 \/ i = 4
  OBVIOUS
<1>3. \A i \in 1 .. 4 - 1 : i = 1 \/ i = 2 \/ i = 3
  OBVIOUS
<1>4. \A i \in 1 .. 4 : FieldPair(S.writes[i], S.reads[i])
  BY <1>1, <1>2
<1>5. \A i \in 1 .. 4 - 1 : S.writes[i].n = S.reads[i].n /\ S.reads[i].name # "payload"
  BY <1>1, <1>3
<1>6. \A i, j \in 1 .. 4 : S.reads[i].name = S.reads[j].name => i = j
  BY <1>1, <1>2
<1> QED
  BY <1>1, <1>4, <1>5, <1>6 DEF Fits

LEMMA C0Fits ==
  /\ Fits(C0, 1)
  /\ Start(C0.writes, 5) = C0.length
  /\ C0.writes[1].n = C0.reads[1].n
<1>1. /\ C0.writes = << U8("version") >>
      /\ C0.reads = << U8("version") >>
  BY DEF C0, Same
<1>2. /\ FieldPair(U8("version"), U8("version"))
  BY FieldPairs
<1>4. Fits(C0, 1)
  BY <1>1, <1>2, Fits1
<1>5. Start(C0.writes, 5) = C0.length
  BY FormatsAssumption DEF C0, Same, Start, Field, U8
<1>6. C0.writes[1].n = C0.reads[1].n
  BY <1>1
<1> QED
  BY <1>4, <1>5, <1>6

LEMMA C1Fits ==
  /\ Fits(C1, 3)
  /\ Start(C1.writes, 5) = C1.length
  /\ C1.writes[3].n = C1.reads[3].n
<1>1. /\ C1.writes = << U32("time"), U32("zero"), Field("random_bytes", 0, Block, FALSE) >>
      /\ C1.reads = << U32("time"), U32("zero"), Field("random_bytes", 0, Block, FALSE) >>
  BY DEF C1, Same
<1>2. /\ FieldPair(U32("time"), U32("time"))
      /\ FieldPair(U32("zero"), U32("zero"))
      /\ FieldPair(Field("random_bytes", 0, Block, FALSE), Field("random_bytes", 0, Block, FALSE))
  BY FieldPairs
<1>3. /\ U32("time").name = "time"
      /\ U32("zero").name = "zero"
      /\ Field("random_bytes", 0, Block, FALSE).name = "random_bytes"
  BY DEF Field, U32
<1>4. Fits(C1, 3)
  BY <1>1, <1>2, <1>3, Fits3
<1>5. Start(C1.writes, 5) = C1.length
  BY FormatsAssumption DEF C1, Same, Start, Field, U32
<1>6. C1.writes[3].n = C1.reads[3].n
  BY <1>1
<1> QED
  BY <1>4, <1>5, <1>6

LEMMA C2Fits ==
  /\ Fits(C2, 3)
  /\ Start(C2.writes, 5) = C2.length
  /\ C2.writes[3].n = C2.reads[3].n
<1>1. /\ C2.writes = << U32("time"), U32("time2"), Field("random_bytes_echo", 0, Block, FALSE) >>
      /\ C2.reads = << U32("time"), U32("time2"), Field("random_bytes_echo", 0, Block, FALSE) >>
  BY DEF C2, Same
<1>2. /\ FieldPair(U32("time"), U32("time"))
      /\ FieldPair(U32("time2"), U32("time2"))
      /\ FieldPair(Field("random_bytes_echo", 0, Block, FALSE),
                   Field("random_bytes_echo", 0, Block, FALSE))
  BY FieldPairs
<1>3. /\ U32("time").name = "time"
      /\ U32("time2").name = "time2"
      /\ Field("random_bytes_echo", 0, Block, FALSE).name = "random_bytes_echo"
  BY DEF Field, U32
<1>4. Fits(C2, 3)
  BY <1>1, <1>2, <1>3, Fits3
<1>5. Start(C2.writes, 5) = C2.length
  BY FormatsAssumption DEF C2, Same, Start, Field, U32
<1>6. C2.writes[3].n = C2.reads[3].n
  BY <1>1
<1> QED
  BY <1>4, <1>5, <1>6

LEMMA ChunkBasicHeaderFits ==
  /\ Fits(ChunkBasicHeader, 1)
  /\ Start(ChunkBasicHeader.writes, 5) = ChunkBasicHeader.length
  /\ ChunkBasicHeader.writes[1].n = ChunkBasicHeader.reads[1].n
<1>1. /\ ChunkBasicHeader.writes = << U8("d") >>
      /\ ChunkBasicHeader.reads = << U8("d") >>
  BY DEF ChunkBasicHeader, Same
<1>2. /\ FieldPair(U8("d"), U8("d"))
  BY FieldPairs
<1>4. Fits(ChunkBasicHeader, 1)
  BY <1>1, <1>2, Fits1
<1>5. Start(ChunkBasicHeader.writes, 5) = ChunkBasicHeader.length
  BY FormatsAssumption DEF ChunkBasicHeader, Same, Start, Field, U8
<1>6. ChunkBasicHeader.writes[1].n = ChunkBasicHeader.reads[1].n
  BY <1>1
<1> QED
  BY <1>4, <1>5, <1>6

LEMMA ChunkMessageHeader0Fits ==
  /\ Fits(ChunkMessageHeader0, 4)
  /\ Start(ChunkMessageHeader0.writes, 5) = ChunkMessageHeader0.length
<1>1. /\ ChunkMessageHeader0.writes =
           << U24("timestamp"), U24("message_length"), U8("message_type_id"),
              U32LE("message_stream_id") >>
      /\ ChunkMessageHeader0.reads =
           << U24("timestamp"), U24("message_length"), U8("message_type_id"),
              Field("message_stream_id", 4, 3, TRUE) >>
  BY DEF ChunkMessageHeader0
<1>2. /\ FieldPair(U24("timestamp"), U24("timestamp"))
      /\ FieldPair(U24("message_length"), U24("message_length"))
      /\ FieldPair(U8("message_type_id"), U8("message_type_id"))
      /\ FieldPair(U32LE("message_stream_id"), Field("message_stream_id", 4, 3, TRUE))
  BY FieldPairs
<1>3. /\ U24("timestamp").name = "timestamp"
      /\ U24("message_length").name = "message_length"
      /\ U8("message_type_id").name = "message_type_id"
      /\ Field("message_stream_id", 4, 3, TRUE).name = "message_stream_id"
  BY DEF Field, U24, U32LE, U8
<1>4. Fits(ChunkMessageHeader0, 4)
  BY <1>1, <1>2, <1>3, Fits4
<1>5. Start(ChunkMessageHeader0.writes, 5) = ChunkMessageHeader0.length
  BY FormatsAssumption DEF ChunkMessageHeader0, Start, Field, U24, U32LE, U8
<1> QED
  BY <1>4, <1>5

LEMMA ChunkMessageHeader1Fits ==
  /\ Fits(ChunkMessageHeader1, 3)
  /\ Start(ChunkMessageHeader1.writes, 5) = ChunkMessageHeader1.length
  /\ ChunkMessageHeader1.writes[3].n = ChunkMessageHeader1.reads[3].n
<1>1. /\ ChunkMessageHeader1.writes =
           << U24("timestamp_delta"), U24("message_length"), U8("message_type_id") >>
      /\ ChunkMessageHeader1.reads =
           << U24("timestamp_delta"), U24("message_length"), U8("message_type_id") >>
  BY DEF ChunkMessageHeader1, Same
<1>2. /\ FieldPair(U24("timestamp_delta"), U24("timestamp_delta"))
      /\ FieldPair(U24("message_length"), U24("message_length"))
      /\ FieldPair(U8("message_type_id"), U8("message_type_id"))
  BY FieldPairs
<1>3. /\ U24("timestamp_delta").name = "timestamp_delta"
      /\ U24("message_length").name = "message_length"
      /\ U8("message_type_id").name = "message_type_id"
  BY DEF Field, U24, U8
<1>4. Fits(ChunkMessageHeader1, 3)
  BY <1>1, <1>2, <1>3, Fits3
<1>5. Start(ChunkMessageHeader1.writes, 5) = ChunkMessageHeader1.length
  BY FormatsAssumption DEF ChunkMessageHeader1, Same, Start, Field, U24, U8
<1>6. ChunkMessageHeader1.writes[3].n = ChunkMessageHeader1.reads[3].n
  BY <1>1
<1> QED
  BY <1>4, <1>5, <1>6

LEMMA ChunkMessageHeader2Fits ==
  /\ Fits(ChunkMessageHeader2, 1)
  /\ Start(ChunkMessageHeader2.writes, 5) = ChunkMessageHeader2.length
  /\ ChunkMessageHeader2.writes[1].n = ChunkMessageHeader2.reads[1].n
<1>1. /\ ChunkMessageHeader2.writes = << U24("timestamp_delta") >>
      /\ ChunkMessageHeader2.reads = << U24("timestamp_delta") >>
  BY DEF ChunkMessageHeader2, Same
<1>2. /\ FieldPair(U24("timestamp_delta"), U24("timestamp_delta"))
  BY FieldPairs
<1>4. Fits(ChunkMessageHeader2, 1)
  BY <1>1, <1>2, Fits1
<1>5. Start(ChunkMessageHeader2.writes, 5) = ChunkMessageHeader2.length
  BY FormatsAssumption DEF ChunkMessageHeader2, Same, Start, Field, U24
<1>6. ChunkMessageHeader2.writes[1].n = ChunkMessageHeader2.reads[1].n
  BY <1>1
<1> QED
  BY <1>4, <1>5, <1>6

LEMMA OneIntegerFits ==
  ASSUME NEW name, name # "payload", name # "composition_time"
  PROVE
  /\ Fits(OneInteger(name), 1)
  /\ Start(OneInteger(name).writes, 5) = OneInteger(name).length
  /\ OneInteger(name).writes[1].n = OneInteger(name).reads[1].n
<1>1. /\ OneInteger(name).writes = << U32(name) >>
      /\ OneInteger(name).reads = << U32(name) >>
  BY DEF OneInteger, Same
<1>2. /\ FieldPair(U32(name), U32(name))
  BY FieldPairs
<1>4. Fits(OneInteger(name), 1)
  BY <1>1, <1>2, Fits1
<1>5. Start(OneInteger(name).writes, 5) = OneInteger(name).length
  BY FormatsAssumption DEF OneInteger, Same, Start, Field, U32
<1>6. OneInteger(name).writes[1].n = OneInteger(name).reads[1].n
  BY <1>1
<1> QED
  BY <1>4, <1>5, <1>6

LEMMA SetPeerBandwithFits ==
  /\ Fits(SetPeerBandwith, 2)
  /\ Start(SetPeerBandwith.writes, 5) = 5 /\ SetPeerBandwith.length = 8
  /\ SetPeerBandwith.writes[2].n = SetPeerBandwith.reads[2].n
<1>1. /\ SetPeerBandwith.writes = << U32("acknowledgement_window_size"), U8("limit_type") >>
      /\ SetPeerBandwith.reads = << U32("acknowledgement_window_size"), U8("limit_type") >>
  BY DEF SetPeerBandwith, Same
<1>2. /\ FieldPair(U32("acknowledgement_window_size"), U32("acknowledgement_window_size"))
      /\ FieldPair(U8("limit_type"), U8("limit_type"))
  BY FieldPairs
<1>3. /\ U32("acknowledgement_window_size").name = "acknowledgement_window_size"
      /\ U8("limit_type").name = "limit_type"
  BY DEF Field, U32, U8
<1>4. Fits(SetPeerBandwith, 2)
  BY <1>1, <1>2, <1>3, Fits2
<1>5. Start(SetPeerBandwith.writes, 5) = 5 /\ SetPeerBandwith.length = 8
  BY FormatsAssumption DEF SetPeerBandwith, Same, Start, Field, U32, U8
<1>6. SetPeerBandwith.writes[2].n = SetPeerBandwith.reads[2].n
  BY <1>1
<1> QED
  BY <1>4, <1>5, <1>6

LEMMA UCM_StreamBeginFits ==
  /\ Fits(UCM_StreamBegin, 2)
  /\ Start(UCM_StreamBegin.writes, 5) = UCM_StreamBegin.length
  /\ UCM_StreamBegin.writes[2].n = UCM_StreamBegin.reads[2].n
<1>1. /\ UCM_StreamBegin.writes = << U16("type"), U32LE("stream_id") >>
      /\ UCM_StreamBegin.reads = << U16("type"), U32LE("stream_id") >>
  BY DEF UCM_StreamBegin, Same
<1>2. /\ FieldPair(U16("type"), U16("type"))
      /\ FieldPair(U32LE("stream_id"), U32LE("stream_id"))
  BY FieldPairs
<1>3. /\ U16("type").name = "type"
      /\ U32LE("stream_id").name = "stream_id"
  BY DEF Field, U16, U32LE
<1>4. Fits(UCM_StreamBegin, 2)
  BY <1>1, <1>2, <1>3, Fits2
<1>5. Start(UCM_StreamBegin.writes, 5) = UCM_StreamBegin.length
  BY FormatsAssumption DEF UCM_StreamBegin, Same, Start, Field, U16, U32LE
<1>6. UCM_StreamBegin.writes[2].n = UCM_StreamBegin.reads[2].n
  BY <1>1
<1> QED
  BY <1>4, <1>5, <1>6

LEMMA AudioPacketAACFits ==
  /\ Fits(AudioPacketAAC, 3)
  /\ Start(AudioPacketAAC.writes, 5) = AudioPacketAAC.length
  /\ AudioPacketAAC.writes[3].n = AudioPacketAAC.reads[3].n
<1>1. /\ AudioPacketAAC.writes = << U8("d"), U8("aac_packet_type"), Payload >>
      /\ AudioPacketAAC.reads = << U8("d"), U8("aac_packet_type"), Payload >>
  BY DEF AudioPacketAAC, Same
<1>2. /\ FieldPair(U8("d"), U8("d"))
      /\ FieldPair(U8("aac_packet_type"), U8("aac_packet_type"))
      /\ FieldPair(Payload, Payload)
  BY FieldPairs, PayloadPair
<1>3. /\ U8("d").name = "d"
      /\ U8("aac_packet_type").name = "aac_packet_type"
      /\ Payload.name = "payload"
  BY DEF Field, Payload, U8
<1>4. Fits(AudioPacketAAC, 3)
  BY <1>1, <1>2, <1>3, Fits3
<1>5. Start(AudioPacketAAC.writes, 5) = AudioPacketAAC.length
  BY FormatsAssumption DEF AudioPacketAAC, Same, Start, Field, Payload, U8
<1>6. AudioPacketAAC.writes[3].n = AudioPacketAAC.reads[3].n
  BY <1>1
<1> QED
  BY <1>4, <1>5, <1>6

LEMMA VideoPacketFits ==
  /\ Fits(VideoPacket, 4)
  /\ Start(VideoPacket.writes, 5) = VideoPacket.length
  /\ VideoPacket.writes[4].n = VideoPacket.reads[4].n
<1>1. /\ VideoPacket.writes =
           << U8("d"), U8("avc_packet_type"), Field("composition_time", 1, 3, FALSE),
              Payload >>
      /\ VideoPacket.reads = << U8("d"), U8("avc_packet_type"), U24("composition_time"), Payload >>
  BY DEF VideoPacket
<1>2. /\ FieldPair(U8("d"), U8("d"))
      /\ FieldPair(U8("avc_packet_type"), U8("avc_packet_type"))
      /\ FieldPair(Field("composition_time", 1, 3, FALSE), U24("composition_time"))
      /\ FieldPair(Payload, Payload)
  BY FieldPairs, PayloadPair, CompositionTimePair
<1>3. /\ U8("d").name = "d"
      /\ U8("avc_packet_type").name = "avc_packet_type"
      /\ U24("composition_time").name = "composition_time"
      /\ Payload.name = "payload"
      /\ Field("composition_time", 1, 3, FALSE).n = U24("composition_time").n
  BY DEF Field, Payload, U24, U8
<1>4. Fits(VideoPacket, 4)
  BY <1>1, <1>2, <1>3, Fits4
<1>5. Start(VideoPacket.writes, 5) = VideoPacket.length
  BY FormatsAssumption DEF VideoPacket, Start, Field, Payload, U24, U8
<1>6. VideoPacket.writes[4].n = VideoPacket.reads[4].n
  BY <1>1
<1> QED
  BY <1>4, <1>5, <1>6

\* What Start says of a structure of k fields.
LEMMA Starts ==
  ASSUME NEW S, NEW k \in 1 .. 4, Fits(S, k)
  PROVE  \A i \in 1 .. 5 : Start(S.writes, i) \in Nat
<1> DEFINE Width(i, j) == IF j < i /\ j \in DOMAIN S.writes THEN S.writes[j].n ELSE 0
<1>1. \A i \in 1 .. 5, j \in 1 .. 4 : Width(i, j) \in Nat
  BY DEF Fits, FieldPair
<1>2. \A i \in 1 .. 5 : Start(S.writes, i) = Width(i, 1) + Width(i, 2) + Width(i, 3) + Width(i, 4)
  BY DEF Start
<1> HIDE DEF Width
<1> QED
  BY <1>1, <1>2

\* The length that GetLength promises is what is written, payload apart; there is
\* padding behind SetPeerBandwith, and less is read of ChunkMessageHeader0.
Shaped(format, S, k) ==
  /\ Fits(S, k)
  /\ \/ Start(S.writes, 5) = S.length
     \/ /\ format = "SetPeerBandwith" /\ S.reads[k].name # "payload"
        /\ Start(S.writes, 5) = 5 /\ S.length = 8
  /\ ReadsAll(format) => S.writes[k].n = S.reads[k].n

LEMMA Structured ==
  ASSUME NEW format \in DOMAIN Structures
  PROVE  \E k \in 1 .. 4 : Shaped(format, Structures[format], k)
<1>0. \/ format = "C0"
      \/ format = "C1"
      \/ format = "C2"
      \/ format = "ChunkBasicHeader"
      \/ format = "ChunkMessageHeader0"
      \/ format = "ChunkMessageHeader1"
      \/ format = "ChunkMessageHeader2"
      \/ format = "SetChunkSize"
      \/ format = "AbortMessage"
      \/ format = "Acknowledgement"
      \/ format = "WindowsAcknowledgementSize"
      \/ format = "SetPeerBandwith"
      \/ format = "UCM_StreamBegin"
      \/ format = "AudioPacketAAC"
      \/ format = "VideoPacket"
  BY DEF Structures
<1>1. CASE format = "C0"
  <2>1. Structures[format] = C0
    BY <1>1 DEF Structures
  <2>2. Shaped(format, C0, 1)
    BY C0Fits DEF Shaped
  <2> QED
    BY <2>1, <2>2
<1>2. CASE format = "C1"
  <2>1. Structures[format] = C1
    BY <1>2 DEF Structures
  <2>2. Shaped(format, C1, 3)
    BY C1Fits DEF Shaped
  <2> QED
    BY <2>1, <2>2
<1>3. CASE format = "C2"
  <2>1. Structures[format] = C2
    BY <1>3 DEF Structures
  <2>2. Shaped(format, C2, 3)
    BY C2Fits DEF Shaped
  <2> QED
    BY <2>1, <2>2
<1>4. CASE format = "ChunkBasicHeader"
  <2>1. Structures[format] = ChunkBasicHeader
    BY <1>4 DEF Structures
  <2>2. Shaped(format, ChunkBasicHeader, 1)
    BY ChunkBasicHeaderFits DEF Shaped
  <2> QED
    BY <2>1, <2>2
<1>5. CASE format = "ChunkMessageHeader0"
  <2>1. Structures[format] = ChunkMessageHeader0
    BY <1>5 DEF Structures
  <2> QED
    BY <1>5, <2>1, ChunkMessageHeader0Fits DEF Shaped, ReadsAll
<1>6. CASE format = "ChunkMessageHeader1"
  <2>1. Structures[format] = ChunkMessageHeader1
    BY <1>6 DEF Structures
  <2>2. Shaped(format, ChunkMessageHeader1, 3)
    BY ChunkMessageHeader1Fits DEF Shaped
  <2> QED
    BY <2>1, <2>2
<1>7. CASE format = "ChunkMessageHeader2"
  <2>1. Structures[format] = ChunkMessageHeader2
    BY <1>7 DEF Structures
  <2>2. Shaped(format, ChunkMessageHeader2, 1)
    BY ChunkMessageHeader2Fits DEF Shaped
  <2> QED
    BY <2>1, <2>2
<1>8. CASE format = "SetChunkSize"
  <2>1. Structures[format] = OneInteger("chunk_size")
    BY <1>8 DEF Structures
  <2>2. Shaped(format, OneInteger("chunk_size"), 1)
    BY OneIntegerFits DEF Shaped
  <2> QED
    BY <2>1, <2>2
<1>9. CASE format = "AbortMessage"
  <2>1. Structures[format] = OneInteger("chunk_stream_id")
    BY <1>9 DEF Structures
  <2>2. Shaped(format, OneInteger("chunk_stream_id"), 1)
    BY OneIntegerFits DEF Shaped
  <2> QED
    BY <2>1, <2>2
<1>10. CASE format = "Acknowledgement"
  <2>1. Structures[format] = OneInteger("sequence_number")
    BY <1>10 DEF Structures
  <2>2. Shaped(format, OneInteger("sequence_number"), 1)
    BY OneIntegerFits DEF Shaped
  <2> QED
    BY <2>1, <2>2
<1>11. CASE format = "WindowsAcknowledgementSize"
  <2>1. Structures[format] = OneInteger("acknowledgement_window_size")
    BY <1>11 DEF Structures
  <2>2. Shaped(format, OneInteger("acknowledgement_window_size"), 1)
    BY OneIntegerFits DEF Shaped
  <2> QED
    BY <2>1, <2>2
<1>12. CASE format = "SetPeerBandwith"
  <2>1. Structures[format] = SetPeerBandwith
    BY <1>12 DEF Structures
  <2>2. SetPeerBandwith.reads[2].name # "payload"
    BY DEF SetPeerBandwith, Same, U8, Field
  <2> QED
    BY <1>12, <2>1, <2>2, SetPeerBandwithFits DEF Shaped
<1>13. CASE format = "UCM_StreamBegin"
  <2>1. Structures[format] = UCM_StreamBegin
    BY <1>13 DEF Structures
  <2>2. Shaped(format, UCM_StreamBegin, 2)
    BY UCM_StreamBeginFits DEF Shaped
  <2> QED
    BY <2>1, <2>2
<1>14. CASE format = "AudioPacketAAC"
  <2>1. Structures[format] = AudioPacketAAC
    BY <1>14 DEF Structures
  <2>2. Shaped(format, AudioPacketAAC, 3)
    BY AudioPacketAACFits DEF Shaped
  <2> QED
    BY <2>1, <2>2
<1>15. CASE format = "VideoPacket"
  <2>1. Structures[format] = VideoPacket
    BY <1>15 DEF Structures
  <2>2. Shaped(format, VideoPacket, 4)
    BY VideoPacketFits DEF Shaped
  <2> QED
    BY <2>1, <2>2
<1> QED
  BY <1>0, <1>1, <1>2, <1>3, <1>4, <1>5, <1>6, <1>7, <1>8, <1>9, <1>10, <1>11,
     <1>12, <1>13, <1>14, <1>15

-----------------------------------------------------------------------------
(* The bytes of a packet: where those of each field are.                    *)

IsJoined(s, a, b, c, d) ==
  /\ s \in Seq(Byte)
  /\ Len(s) = Len(a) + Len(b) + Len(c) + Len(d)
  /\ \A x \in 1 .. Len(a) : s[x] = a[x]
  /\ \A x \in 1 .. Len(b) : s[Len(a) + x] = b[x]
  /\ \A x \in 1 .. Len(c) : s[Len(a) + Len(b) + x] = c[x]
  /\ \A x \in 1 .. Len(d) : s[Len(a) + Len(b) + Len(c) + x] = d[x]

LEMMA Joined ==
  ASSUME NEW a \in Seq(Byte), NEW b \in Seq(Byte), NEW c \in Seq(Byte), NEW d \in Seq(Byte)
  PROVE  IsJoined(a \o b \o c \o d, a, b, c, d)
<1>1. /\ Len(a) \in Nat /\ Len(b) \in Nat /\ Len(c) \in Nat /\ Len(d) \in Nat
  OBVIOUS
<1>2. \A s, t \in Seq(Byte) :
        /\ s \o t \in Seq(Byte) /\ Len(s \o t) = Len(s) + Len(t)
        /\ \A x \in 1 .. Len(s) : (s \o t)[x] = s[x]
        /\ \A x \in 1 .. Len(t) : (s \o t)[Len(s) + x] = t[x]
  OBVIOUS
<1> DEFINE ab == a \o b
           abc == ab \o c
           abcd == abc \o d
<1>3. /\ ab \in Seq(Byte) /\ Len(ab) = Len(a) + Len(b)
      /\ \A x \in 1 .. Len(a) : ab[x] = a[x]
      /\ \A x \in 1 .. Len(b) : ab[Len(a) + x] = b[x]
  BY <1>2
<1> HIDE DEF ab
<1>4. /\ abc \in Seq(Byte) /\ Len(abc) = Len(ab) + Len(c)
      /\ \A x \in 1 .. Len(ab) : abc[x] = ab[x]
      /\ \A x \in 1 .. Len(c) : abc[Len(ab) + x] = c[x]
  BY <1>2, <1>3
<1> HIDE DEF abc
<1>5. /\ abcd \in Seq(Byte) /\ Len(abcd) = Len(abc) + Len(d)
      /\ \A x \in 1 .. Len(abc) : abcd[x] = abc[x]
      /\ \A x \in 1 .. Len(d) : abcd[Len(abc) + x] = d[x]
  BY <1>2, <1>4
<1> HIDE DEF abcd
<1>6. \A x \in 1 .. Len(a) : x \in 1 .. Len(ab) /\ x \in 1 .. Len(abc)
  BY <1>1, <1>3, <1>4
<1>7. \A x \in 1 .. Len(b) : Len(a) + x \in 1 .. Len(ab) /\ Len(a) + x \in 1 .. Len(abc)
  BY <1>1, <1>3, <1>4
<1>8. \A x \in 1 .. Len(c) : Len(ab) + x \in 1 .. Len(abc)
  BY <1>1, <1>3, <1>4
<1>9. /\ \A x \in 1 .. Len(a) : abcd[x] = a[x]
      /\ \A x \in 1 .. Len(b) : abcd[Len(a) + x] = b[x]
      /\ \A x \in 1 .. Len(c) : abcd[Len(a) + Len(b) + x] = c[x]
      /\ \A x \in 1 .. Len(d) : abcd[Len(a) + Len(b) + Len(c) + x] = d[x]
  BY <1>3, <1>4, <1>5, <1>6, <1>7, <1>8
<1>10. abcd \in Seq(Byte) /\ Len(abcd) = Len(a) + Len(b) + Len(c) + Len(d)
  BY <1>3, <1>4, <1>5
<1>11. abcd = a \o b \o c \o d
  BY DEF ab, abc, abcd
<1> QED
  BY <1>9, <1>10, <1>11 DEF IsJoined

\* What Serialize writes of field i.
Piece(S, packet, garbage, i) ==
  IF i \notin DOMAIN S.writes THEN << >>
  ELSE IF S.writes[i].size = 0 THEN packet[S.writes[i].name]
  ELSE BytesOf(S.writes[i], packet[S.writes[i].name], garbage)

InPieces(format, packet, garbage, k) ==
  LET S == Structures[format]
      P(i) == Piece(S, packet, garbage, i)
  IN /\ \A i \in 1 .. 4 : P(i) \in Seq(Byte)
     /\ \A i \in 1 .. 4 : i > k => P(i) = << >>
     /\ \A i \in 1 .. k :
          /\ S.reads[i].name = "payload" => P(i) = packet.payload /\ S.reads[i].n = 0
          /\ S.reads[i].name # "payload" =>
               /\ Len(P(i)) = S.writes[i].n
               /\ S.reads[i].n \in 0 .. S.writes[i].n
               /\ S.reads[i].size = 0 => P(i) = packet[S.reads[i].name]
     /\ PacketBytes(format, packet, garbage) = P(1) \o P(2) \o P(3) \o P(4)

LEMMA Pieces ==
  ASSUME NEW format \in DOMAIN Structures, NEW packet, IsPacketValue(format, packet),
         NEW garbage \in Garbage, NEW k \in 1 .. 4,
         Shaped(format, Structures[format], k)
  PROVE  InPieces(format, packet, garbage, k)
<1> DEFINE S == Structures[format]
           P(i) == Piece(S, packet, garbage, i)
<1>1. Fits(S, k)
  BY DEF Shaped
<1>2. \A i \in 1 .. 4 : i > k => P(i) = << >>
  BY <1>1 DEF Fits, Piece
<1>3. \A i \in 1 .. k :
        /\ i \in 1 .. 4 /\ i \in DOMAIN S.writes /\ i \in DOMAIN S.reads
        /\ FieldPair(S.writes[i], S.reads[i])
  BY <1>1 DEF Fits
<1>4. ASSUME NEW i \in 1 .. k
      PROVE  /\ P(i) \in Seq(Byte)
             /\ S.reads[i].name = "payload" => P(i) = packet.payload /\ S.reads[i].n = 0
             /\ S.reads[i].name # "payload" =>
                  /\ Len(P(i)) = S.writes[i].n
                  /\ S.reads[i].n \in 0 .. S.writes[i].n
                  /\ S.reads[i].size = 0 => P(i) = packet[S.reads[i].name]
  <2> DEFINE w == S.writes[i]
             r == S.reads[i]
             v == packet[r.name]
  <2>1. /\ Matches(w, r) /\ w.n \in Nat /\ r.n \in Nat
        /\ r.name = "payload" => r.size = 0 /\ r.n = 0
    BY <1>3 DEF FieldPair
  <2>2. IF r.name = "payload" THEN v \in Seq(Byte)
        ELSE IF r.size = 0 THEN v \in [1 .. r.n -> Byte]
        ELSE v \in Nat /\ v < Power(r.size)
    BY <1>3 DEF IsPacketValue
  <2>3. w.name = r.name /\ (r.size = 0 => w = r) /\ (r.size # 0 => w.size # 0)
    BY <2>1 DEF Matches, PlainInteger
  <2>4. P(i) = IF w.size = 0 THEN v ELSE BytesOf(w, v, garbage)
    BY <1>3, <2>3 DEF Piece
  <2>5. CASE r.name = "payload"
    BY <2>1, <2>2, <2>3, <2>4, <2>5
  <2>6. CASE r.name # "payload" /\ r.size = 0
    <3>1. v \in [1 .. r.n -> Byte] /\ P(i) = v /\ w = r
      BY <2>2, <2>3, <2>4, <2>6
    <3> HIDE DEF w, r, v, P
    <3>2. v \in Seq(Byte) /\ Len(v) = r.n
      BY <3>1, <2>1, Tuple
    <3> QED
      BY <3>1, <3>2, <2>1, <2>6 DEF w, r, v
  <2>7. CASE r.name # "payload" /\ r.size # 0
    <3>1. v \in Nat /\ P(i) = BytesOf(w, v, garbage)
      BY <2>2, <2>3, <2>4, <2>7
    <3> HIDE DEF w, r, v, P
    <3>2. w.n \in 1 .. 4 /\ r.n \in 1 .. w.n /\ BytesOf(w, v, garbage) \in [1 .. w.n -> Byte]
      BY <3>1, <2>1, <2>7, IntegerReturns
    <3>3. P(i) \in Seq(Byte) /\ Len(P(i)) = w.n
      BY <3>1, <3>2, <2>1, Tuple
    <3> QED
      BY <3>2, <3>3, <2>7 DEF w, r, v
  <2> QED
    BY <2>5, <2>6, <2>7
<1>5. \A i \in 1 .. 4 : P(i) \in Seq(Byte)
  <2> HIDE DEF P
  <2>1. TAKE i \in 1 .. 4
  <2>2. CASE i > k
    <3>1. P(i) = << >> /\ << >> \in Seq(Byte)
      BY <1>2, <2>2
    <3> QED
      BY <3>1, Zenon
  <2>3. CASE ~(i > k)
    <3>1. i \in 1 .. k
      BY <2>3
    <3> QED
      BY <1>4, <3>1
  <2> QED
    BY <2>2, <2>3
<1>6. PacketBytes(format, packet, garbage) = P(1) \o P(2) \o P(3) \o P(4)
  BY DEF PacketBytes, Piece, BytesOf
<1> QED
  BY <1>2, <1>4, <1>5, <1>6 DEF InPieces

LaidOut(format, packet, garbage, k) ==
  LET S == Structures[format]
      P(i) == Piece(S, packet, garbage, i)
      bytes == PacketBytes(format, packet, garbage)
  IN /\ bytes \in Seq(Byte)
     /\ \A i \in 1 .. k :
          /\ Start(S.reads, i) \in Nat
          /\ Start(S.reads, i) + Len(P(i)) <= Len(bytes)
          /\ \A x \in 1 .. Len(P(i)) : bytes[Start(S.reads, i) + x] = P(i)[x]
     /\ Start(S.reads, k) + Len(P(k)) = Len(bytes)
     /\ "payload" \in DOMAIN packet <=> S.reads[k].name = "payload"
     /\ Len(bytes) = Start(S.writes, 5)
          + (IF "payload" \in DOMAIN packet THEN Len(packet.payload) ELSE 0)

LEMMA Layout ==
  ASSUME NEW format \in DOMAIN Structures, NEW packet, IsPacketValue(format, packet),
         NEW garbage \in Garbage, NEW k \in 1 .. 4,
         Shaped(format, Structures[format], k)
  PROVE  LaidOut(format, packet, garbage, k)
<1> DEFINE S == Structures[format]
           P(i) == Piece(S, packet, garbage, i)
           bytes == PacketBytes(format, packet, garbage)
           L(i) == Len(P(i))
           At(i) == Start(S.reads, i)
           Extra == IF "payload" \in DOMAIN packet THEN Len(packet.payload) ELSE 0
<1>1. Fits(S, k)
  BY DEF Shaped
<1>2. /\ \A i \in 1 .. 4 : P(i) \in Seq(Byte)
      /\ \A i \in 1 .. 4 : i > k => P(i) = << >>
      /\ \A i \in 1 .. k :
           /\ S.reads[i].name = "payload" => P(i) = packet.payload /\ S.reads[i].n = 0
           /\ S.reads[i].name # "payload" => Len(P(i)) = S.writes[i].n
      /\ bytes = P(1) \o P(2) \o P(3) \o P(4)
  <2>1. InPieces(format, packet, garbage, k)
    BY Pieces
  <2> QED
    BY <2>1, Zenon DEF InPieces
<1>3. "payload" \in DOMAIN packet <=> S.reads[k].name = "payload"
  <2>1. DOMAIN packet = Names(S.reads)
    BY DEF IsPacketValue
  <2>2. \A i \in 1 .. k : S.reads[i].name = "payload" => i = k
    BY <1>1 DEF Fits
  <2>3. DOMAIN S.reads = 1 .. k /\ k \in 1 .. k
    BY <1>1 DEF Fits
  <2> QED
    BY <2>1, <2>2, <2>3 DEF Names
<1> HIDE DEF P
<1>4. /\ \A i \in 1 .. 4 : L(i) \in Nat
      /\ \A i \in 1 .. 4 : i > k => L(i) = 0
  BY <1>2
<1>5. /\ \A i \in 1 .. 4 : i < k => S.reads[i].n = L(i) /\ S.writes[i].n = L(i)
      /\ L(k) = S.writes[k].n + Extra
  <2>1. \A i \in 1 .. 4 : i < k => S.reads[i].n = L(i) /\ S.writes[i].n = L(i)
    <3>1. \A i \in 1 .. 4 : i < k => i \in 1 .. k - 1 /\ i \in 1 .. k
      OBVIOUS
    <3>2. \A i \in 1 .. k - 1 : S.writes[i].n = S.reads[i].n /\ S.reads[i].name # "payload"
      BY <1>1 DEF Fits
    <3> QED
      BY <3>1, <3>2, <1>2
  <2>2. FieldPair(S.writes[k], S.reads[k])
    BY <1>1 DEF Fits
  <2>3. CASE S.reads[k].name = "payload"
    <3>1. S.writes[k].n = 0
      BY <2>2, <2>3 DEF FieldPair, Matches, PlainInteger
    <3>2. P(k) = packet.payload /\ Extra = Len(packet.payload) /\ L(k) \in Nat
      BY <1>2, <1>3, <1>4, <2>3
    <3> QED
      BY <2>1, <3>1, <3>2
  <2>4. CASE S.reads[k].name # "payload"
    <3>1. L(k) = S.writes[k].n /\ Extra = 0 /\ L(k) \in Nat
      BY <1>2, <1>3, <1>4, <2>4
    <3> QED
      BY <2>1, <3>1
  <2> QED
    BY <2>1, <2>3, <2>4
<1> DEFINE Width(fields, i, j) == IF j < i /\ j \in 1 .. k THEN fields[j].n ELSE 0
<1>6. \A i \in 1 .. 5 :
        /\ At(i) = Width(S.reads, i, 1) + Width(S.reads, i, 2) + Width(S.reads, i, 3)
                     + Width(S.reads, i, 4)
        /\ Start(S.writes, i) =
             Width(S.writes, i, 1) + Width(S.writes, i, 2) + Width(S.writes, i, 3)
               + Width(S.writes, i, 4)
  BY <1>1 DEF Start, Fits
<1>7. \A i \in 1 .. 4, j \in 1 .. 4 :
        i <= k => Width(S.reads, i, j) = IF j < i THEN L(j) ELSE 0
  BY <1>5
<1>8. /\ At(1) = 0
      /\ k >= 2 => At(2) = L(1)
      /\ k >= 3 => At(3) = L(1) + L(2)
      /\ k >= 4 => At(4) = L(1) + L(2) + L(3)
  <2>1. \A i \in 1 .. 4 : i <= k =>
          At(i) = (IF 1 < i THEN L(1) ELSE 0) + (IF 2 < i THEN L(2) ELSE 0)
                    + (IF 3 < i THEN L(3) ELSE 0) + (IF 4 < i THEN L(4) ELSE 0)
    <3> HIDE DEF At, L, Width
    <3>1. 1 \in 1 .. 4 /\ 2 \in 1 .. 4 /\ 3 \in 1 .. 4 /\ 4 \in 1 .. 4
          /\ \A i \in 1 .. 4 : i \in 1 .. 5
      OBVIOUS
    <3> QED
      BY <3>1, <1>6, <1>7
  <2> HIDE DEF L, At
  <2> QED
    BY <2>1, <1>4
<1>9. Start(S.writes, 5) + Extra = L(1) + L(2) + L(3) + L(4)
  <2>1. /\ S.writes[k].n \in Nat
        /\ \A j \in 1 .. 4 : j < k => Width(S.writes, 5, j) = L(j)
        /\ \A j \in 1 .. 4 : j > k => Width(S.writes, 5, j) = L(j)
        /\ Width(S.writes, 5, k) = S.writes[k].n
    BY <1>1, <1>4, <1>5 DEF Fits, FieldPair
  <2>2. Extra \in Int
    <3>1. L(k) \in Nat
      BY <1>4
    <3> QED
      BY <1>2, <1>3, <3>1
  <2>3. Start(S.writes, 5) = Width(S.writes, 5, 1) + Width(S.writes, 5, 2)
          + Width(S.writes, 5, 3) + Width(S.writes, 5, 4)
    BY <1>6
  <2> HIDE DEF Width, L, Extra
  <2>4. k = 1 \/ k = 2 \/ k = 3 \/ k = 4
    OBVIOUS
  <2>5. /\ L(1) \in Nat /\ L(2) \in Nat /\ L(3) \in Nat /\ L(4) \in Nat
        /\ \A j \in 1 .. 4 : j = k \/ Width(S.writes, 5, j) = L(j)
        /\ L(k) = Width(S.writes, 5, k) + Extra
    BY <2>1, <1>4, <1>5
  <2> QED
    BY ONLY <2>1, <2>2, <2>3, <2>4, <2>5
<1>10. /\ bytes \in Seq(Byte)
       /\ Len(bytes) = L(1) + L(2) + L(3) + L(4)
       /\ \A x \in 1 .. L(1) : bytes[x] = P(1)[x]
       /\ \A x \in 1 .. L(2) : bytes[L(1) + x] = P(2)[x]
       /\ \A x \in 1 .. L(3) : bytes[L(1) + L(2) + x] = P(3)[x]
       /\ \A x \in 1 .. L(4) : bytes[L(1) + L(2) + L(3) + x] = P(4)[x]
  <2>1. P(1) \in Seq(Byte) /\ P(2) \in Seq(Byte) /\ P(3) \in Seq(Byte) /\ P(4) \in Seq(Byte)
    BY <1>2
  <2>2. PICK a \in Seq(Byte), b \in Seq(Byte), c \in Seq(Byte), d \in Seq(Byte) :
          a = P(1) /\ b = P(2) /\ c = P(3) /\ d = P(4)
    BY <2>1
  <2>3. bytes = a \o b \o c \o d
    BY <1>2, <2>2
  <2> HIDE DEF bytes
  <2>4. IsJoined(a \o b \o c \o d, a, b, c, d)
    BY Joined
  <2> QED
    BY ONLY <2>2, <2>3, <2>4 DEF IsJoined
<1> HIDE DEF bytes, At, L, Extra, S
<1>11. \A i \in 1 .. k : At(i) \in Nat /\ At(i) + L(i) <= Len(bytes)
  <2>1. TAKE i \in 1 .. k
  <2>2. i = 1 \/ i = 2 \/ i = 3 \/ i = 4
    OBVIOUS
  <2> QED
    BY <2>2, <1>4, <1>8, <1>10
<1>12. At(k) + L(k) = Len(bytes)
  <2>1. k = 1 \/ k = 2 \/ k = 3 \/ k = 4
    OBVIOUS
  <2> QED
    BY <2>1, <1>4, <1>8, <1>10
<1>13. \A i \in 1 .. k : \A x \in 1 .. L(i) : bytes[At(i) + x] = P(i)[x]
  <2>1. TAKE i \in 1 .. k
  <2>2. i = 1 \/ i = 2 \/ i = 3 \/ i = 4
    OBVIOUS
  <2>3. \A x \in 1 .. L(i) : 0 + x = x
    OBVIOUS
  <2> QED
    BY <2>2, <2>3, <1>4, <1>8, <1>10
<1>14. Len(bytes) = Start(S.writes, 5) + Extra
  BY <1>9, <1>10
<1> QED
  BY <1>3, <1>10, <1>11, <1>12, <1>13, <1>14 DEF LaidOut, bytes, At, L, Extra, S, P

LEMMA FilledBytes ==
  ASSUME NEW bytes \in Seq(Byte), NEW length \in Nat, Len(bytes) <= length
  PROVE  /\ Filled(bytes, length) \in Seq(Byte)
         /\ Len(Filled(bytes, length)) = length
         /\ \A x \in 1 .. Len(bytes) : Filled(bytes, length)[x] = bytes[x]
<1>1. Len(bytes) \in Nat /\ 0 \in Byte
  BY FormatsAssumption DEF Byte
<1>2. PICK n \in Nat : n = IF length > Len(bytes) THEN length - Len(bytes) ELSE 0
  <2>1. length - Len(bytes) \in Nat
    BY <1>1
  <2> QED
    BY <2>1
<1>3. PICK zeros \in [1 .. n -> Byte] : zeros = [x \in 1 .. n |-> 0]
  BY <1>1
<1>4. zeros \in Seq(Byte) /\ Len(zeros) = n
  BY Tuple
<1>5. Filled(bytes, length) = bytes \o zeros
  BY <1>2, <1>3 DEF Filled
<1> QED
  BY <1>1, <1>2, <1>4, <1>5

-----------------------------------------------------------------------------
(* Parsing: each field as it was written.                                   *)

\* The bytes that ParseRef takes for field i, and what it makes of them.
UsedBy(S, input, i) ==
  IF S.reads[i].name = "payload" THEN Len(input) - Start(S.reads, i) ELSE S.reads[i].n

FieldValue(S, input, i) ==
  LET data == Part(input, Start(S.reads, i), UsedBy(S, input, i))
  IN IF S.reads[i].size = 0 THEN data ELSE ValueFrom(S.reads[i], data)

\* The buffer holds a start of the bytes, or all of them and more.
Holds(input, bytes) ==
  /\ input \in Seq(Byte)
  /\ \A x \in 1 .. Len(input) : x \in 1 .. Len(bytes) => input[x] = bytes[x]

\* A field that was v and is x now.
Arrives(r, v, x) ==
  IF r.size = 0 THEN x = v
  ELSE x % Power(Agreed(r)) = v % Power(Agreed(r)) /\ x < Power(r.n)

LEMMA FieldArrives ==
  ASSUME NEW format \in DOMAIN Structures, NEW packet, IsPacketValue(format, packet),
         NEW garbage \in Garbage, NEW k \in 1 .. 4,
         Shaped(format, Structures[format], k),
         NEW input, Holds(input, PacketBytes(format, packet, garbage)),
         NEW i \in 1 .. k,
         Has(input, Start(Structures[format].reads, i), Structures[format].reads[i].n),
         Structures[format].reads[i].name # "payload"
  PROVE  Arrives(Structures[format].reads[i], packet[Structures[format].reads[i].name],
                 FieldValue(Structures[format], input, i))
<1> DEFINE S == Structures[format]
           P(j) == Piece(S, packet, garbage, j)
           bytes == PacketBytes(format, packet, garbage)
           w == S.writes[i]
           r == S.reads[i]
           v == packet[r.name]
           at == Start(S.reads, i)
           data == Part(input, at, r.n)
<1>1. Fits(S, k)
  BY DEF Shaped
<1>2. FieldPair(w, r) /\ w = S.writes[i] /\ i \in DOMAIN S.reads /\ i \in DOMAIN S.writes
  BY <1>1 DEF Fits
<1>3. Matches(w, r) /\ r.n \in Nat /\ w.n \in Nat
  BY <1>2 DEF FieldPair
<1>4. /\ bytes \in Seq(Byte) /\ at \in Nat /\ at + Len(P(i)) <= Len(bytes)
      /\ \A x \in 1 .. Len(P(i)) : bytes[at + x] = P(i)[x]
  <2>1. LaidOut(format, packet, garbage, k)
    BY Layout
  <2> QED
    BY <2>1 DEF LaidOut
<1>5. /\ P(i) \in Seq(Byte) /\ Len(P(i)) = w.n /\ r.n \in 0 .. w.n
      /\ r.size = 0 => P(i) = v
  <2>1. InPieces(format, packet, garbage, k)
    BY Pieces
  <2> QED
    BY <2>1 DEF InPieces
<1>6. FieldValue(S, input, i) = IF r.size = 0 THEN data ELSE ValueFrom(r, data)
  BY DEF FieldValue, UsedBy
<1>7. input \in Seq(Byte) /\ Len(input) - at >= r.n
  BY DEF Holds, Has
<1>8. IF r.size = 0 THEN v \in [1 .. r.n -> Byte] ELSE v \in Nat
  BY <1>2 DEF IsPacketValue
<1>9. r.size # 0 => P(i) = BytesOf(w, v, garbage)
  BY <1>2, <1>3 DEF Piece, Matches, PlainInteger
<1>10. \A x \in 1 .. Len(input) : x \in 1 .. Len(bytes) => input[x] = bytes[x]
  BY DEF Holds
<1> HIDE DEF w, r, v, at, bytes, P
<1>11. data \in [1 .. r.n -> Byte] /\ \A x \in 1 .. r.n : data[x] = P(i)[x]
  <2>1. \A x \in 1 .. r.n :
          /\ at + x \in 1 .. Len(input) /\ at + x \in 1 .. Len(bytes) /\ x \in 1 .. Len(P(i))
          /\ at + x <= Len(input)
    BY <1>3, <1>4, <1>5, <1>7
  <2>2. \A x \in 1 .. r.n : input[at + x] = P(i)[x] /\ input[at + x] \in Byte
    BY <2>1, <1>4, <1>7, <1>10
  <2>3. data = [x \in 1 .. r.n |-> input[at + x]]
    BY <2>1 DEF Part
  <2> QED
    BY <2>2, <2>3
<1> HIDE DEF data
<1>12. CASE r.size = 0
  <2>1. P(i) = v /\ v \in [1 .. r.n -> Byte]
    BY <1>5, <1>8, <1>12
  <2>2. \A x \in 1 .. r.n : data[x] = v[x]
    BY <2>1, <1>11
  <2>3. data = v
    <3>1. data = [x \in 1 .. r.n |-> data[x]] /\ v = [x \in 1 .. r.n |-> v[x]]
      BY <2>1, <1>11
    <3>2. [x \in 1 .. r.n |-> data[x]] = [x \in 1 .. r.n |-> v[x]]
      BY <2>2, Zenon
    <3> QED
      BY <3>1, <3>2, Zenon
  <2>4. Arrives(r, v, FieldValue(S, input, i))
    BY <1>6, <1>12, <2>3 DEF Arrives
  <2> QED
    BY <2>4 DEF r, v
<1>13. CASE r.size # 0
  <2>1. v \in Nat /\ P(i) = BytesOf(w, v, garbage)
    BY <1>8, <1>9, <1>13
  <2>2. \A x \in 1 .. r.n : data[x] = BytesOf(w, v, garbage)[x]
    BY <1>11, <2>1
  <2>3. /\ ValueFrom(r, data) < Power(r.n)
        /\ ValueFrom(r, data) % Power(Agreed(r)) = v % Power(Agreed(r))
    BY <1>3, <1>11, <1>13, <2>1, <2>2, IntegerReturns
  <2>4. Arrives(r, v, FieldValue(S, input, i))
    BY <1>6, <1>13, <2>3 DEF Arrives
  <2> QED
    BY <2>4 DEF r, v
<1> QED
  BY <1>12, <1>13

PayloadArrived(input, bytes, payload, x) ==
  /\ IsPrefix(x, payload)
  /\ Len(input) = Len(bytes) => x = payload

LEMMA PayloadArrives ==
  ASSUME NEW format \in DOMAIN Structures, NEW packet, IsPacketValue(format, packet),
         NEW garbage \in Garbage, NEW k \in 1 .. 4,
         Shaped(format, Structures[format], k),
         Structures[format].reads[k].name = "payload",
         NEW input, Holds(input, PacketBytes(format, packet, garbage)),
         Len(input) <= Len(PacketBytes(format, packet, garbage)),
         Has(input, Start(Structures[format].reads, k), Structures[format].reads[k].n)
  PROVE  PayloadArrived(input, PacketBytes(format, packet, garbage), packet.payload,
                        FieldValue(Structures[format], input, k))
<1> DEFINE S == Structures[format]
           bytes == PacketBytes(format, packet, garbage)
           at == Start(S.reads, k)
           payload == packet.payload
           data == Part(input, at, Len(input) - at)
<1>1. FieldPair(S.writes[k], S.reads[k])
  BY DEF Shaped, Fits
<1>2. S.reads[k].size = 0 /\ S.reads[k].n = 0
  BY <1>1 DEF FieldPair
<1>3. InPieces(format, packet, garbage, k) /\ LaidOut(format, packet, garbage, k)
  BY Pieces, Layout
<1>4. Piece(S, packet, garbage, k) = payload /\ payload \in Seq(Byte)
  <2>1. k \in 1 .. k
    OBVIOUS
  <2> HIDE DEF bytes, at, data
  <2>2. Piece(S, packet, garbage, k) \in Seq(Byte)
    BY <1>3 DEF InPieces
  <2>3. S.reads[k].name = "payload" => Piece(S, packet, garbage, k) = packet.payload
    BY <2>1, <1>3 DEF InPieces
  <2> QED
    BY <2>2, <2>3
<1>5. /\ bytes \in Seq(Byte) /\ at \in Nat /\ at + Len(payload) = Len(bytes)
      /\ \A x \in 1 .. Len(payload) : bytes[at + x] = payload[x]
  BY <1>3, <1>4 DEF LaidOut
<1>6. FieldValue(S, input, k) = data
  BY <1>2 DEF FieldValue, UsedBy
<1>7. input \in Seq(Byte) /\ Len(input) - at >= 0 /\ Len(input) <= Len(bytes)
      /\ \A x \in 1 .. Len(input) : x \in 1 .. Len(bytes) => input[x] = bytes[x]
  BY <1>2 DEF Has, Holds
<1> HIDE DEF bytes, at, payload
<1>8. PICK n \in Nat : n = Len(input) - at
  <2>1. Len(input) \in Nat
    BY <1>7
  <2> QED
    BY <2>1, <1>5, <1>7
<1>9. n <= Len(payload) /\ (Len(input) = Len(bytes) <=> n = Len(payload))
  <2>1. Len(payload) \in Nat /\ Len(input) \in Nat /\ Len(bytes) \in Nat
    BY <1>4, <1>5, <1>7
  <2> QED
    BY <2>1, <1>5, <1>7, <1>8
<1>10. data = [x \in 1 .. n |-> payload[x]]
  <2>1. \A x \in 1 .. n :
          /\ at + x <= Len(input) /\ at + x \in 1 .. Len(input) /\ at + x \in 1 .. Len(bytes)
          /\ x \in 1 .. Len(payload)
    <3>1. Len(payload) \in Nat /\ Len(input) \in Nat /\ Len(bytes) \in Nat
      BY <1>4, <1>5, <1>7
    <3> QED
      BY <3>1, <1>5, <1>7, <1>8, <1>9
  <2>2. \A x \in 1 .. n : input[at + x] = payload[x]
    BY <2>1, <1>5, <1>7
  <2>3. data = [x \in 1 .. n |-> IF at + x <= Len(input) THEN input[at + x] ELSE 0]
    BY <1>8 DEF Part
  <2>4. \A x \in 1 .. n : (IF at + x <= Len(input) THEN input[at + x] ELSE 0) = payload[x]
    BY <2>1, <2>2
  <2> QED
    BY <2>3, <2>4, Zenon
<1> HIDE DEF data
<1>11. \A x \in 1 .. n : payload[x] \in Byte
  <2>1. \A x \in 1 .. n : x \in 1 .. Len(payload)
    BY <1>4, <1>9
  <2>2. \A x \in 1 .. Len(payload) : payload[x] \in Byte
    BY <1>4
  <2> QED
    BY <2>1, <2>2, Zenon
<1>12. data \in Seq(Byte) /\ Len(data) = n /\ \A x \in 1 .. n : data[x] = payload[x]
  <2>1. data \in [1 .. n -> Byte] /\ \A x \in 1 .. n : data[x] = payload[x]
    BY <1>10, <1>11
  <2> QED
    BY <2>1, Tuple
<1>13. SubSeq(data, 1, n) = SubSeq(payload, 1, n)
  <2>1. \A x \in 1 .. n : x \in 1 .. Len(payload)
    BY <1>4, <1>9
  <2> QED
    BY <2>1, <1>4, <1>9, <1>12
<1>14. IsPrefix(data, payload)
  BY <1>9, <1>12, <1>13 DEF IsPrefix
<1>15. Len(input) = Len(bytes) => data = payload
  <2>1. HAVE Len(input) = Len(bytes)
  <2>2. n = Len(payload)
    BY <1>9, <2>1
  <2> QED
    BY <2>2, <1>4, <1>12
<1> QED
  BY <1>6, <1>14, <1>15 DEF PayloadArrived, bytes, payload

\* What Parse returns if it does not throw.
ParsedAs(format, input, k) ==
  LET S == Structures[format]
      back == ParsePacket(format, input)
  IN /\ back.at = Start(S.reads, k) + UsedBy(S, input, k)
     /\ DOMAIN back.value = Names(S.reads)
     /\ \A i \in 1 .. k : back.value[S.reads[i].name] = FieldValue(S, input, i)

LEMMA Parsing ==
  ASSUME NEW format \in DOMAIN Structures, NEW k \in 1 .. 4,
         Shaped(format, Structures[format], k), NEW input
  PROVE  /\ ParsePacket(format, input).ok <=>
              \A i \in 1 .. k :
                Has(input, Start(Structures[format].reads, i), Structures[format].reads[i].n)
         /\ ParsePacket(format, input).ok => ParsedAs(format, input, k)
<1> DEFINE S == Structures[format]
           Chosen(name) == CHOOSE i \in DOMAIN S.reads : S.reads[i].name = name
           value == [name \in Names(S.reads) |-> FieldValue(S, input, Chosen(name))]
           AllThere == \A i \in 1 .. k : Has(input, Start(S.reads, i), S.reads[i].n)
<1>1. /\ DOMAIN S.reads = 1 .. k /\ Len(S.reads) = k
      /\ \A i, j \in 1 .. k : S.reads[i].name = S.reads[j].name => i = j
  BY DEF Shaped, Fits
<1>2. ParsePacket(format, input) =
        IF ~AllThere THEN Thrown ELSE Parsed(Start(S.reads, k) + UsedBy(S, input, k), value)
  BY <1>1 DEF ParsePacket, FieldValue, UsedBy, ValueFrom
<1>3. \A i \in 1 .. k : S.reads[i].name \in Names(S.reads) /\ Chosen(S.reads[i].name) = i
  BY <1>1 DEF Names
<1>4. \A i \in 1 .. k : value[S.reads[i].name] = FieldValue(S, input, i)
  BY <1>3
<1>5. DOMAIN value = Names(S.reads)
  OBVIOUS
<1> HIDE DEF value, AllThere
<1>6. ParsePacket(format, input).ok <=> AllThere
  BY <1>2 DEF Thrown, Parsed
<1>7. AllThere => ParsedAs(format, input, k)
  BY <1>2, <1>4, <1>5 DEF Parsed, ParsedAs
<1> QED
  BY <1>6, <1>7 DEF AllThere

-----------------------------------------------------------------------------
(* A packet, from its fields to bytes and back.                             *)

LEMMA WrittenLength ==
  ASSUME NEW format \in DOMAIN Structures, NEW packet, IsPacketValue(format, packet),
         NEW garbage \in Garbage
  PROVE  /\ PacketBytes(format, packet, garbage) \in Seq(Byte)
         /\ PacketLength(format, packet) \in Nat
         /\ Len(PacketBytes(format, packet, garbage)) <= PacketLength(format, packet)
         /\ format # "SetPeerBandwith" \/ "payload" \in DOMAIN packet =>
              Len(PacketBytes(format, packet, garbage)) = PacketLength(format, packet)
<1> DEFINE S == Structures[format]
           bytes == PacketBytes(format, packet, garbage)
           Extra == IF "payload" \in DOMAIN packet THEN Len(packet.payload) ELSE 0
<1>1. PICK k \in 1 .. 4 : Shaped(format, S, k)
  BY Structured
<1>2. LaidOut(format, packet, garbage, k) /\ InPieces(format, packet, garbage, k)
  BY <1>1, Pieces, Layout
<1>3. /\ bytes \in Seq(Byte)
      /\ "payload" \in DOMAIN packet <=> S.reads[k].name = "payload"
      /\ Len(bytes) = Start(S.writes, 5) + Extra
  BY <1>2 DEF LaidOut
<1>4. PacketLength(format, packet) = S.length + Extra
  BY DEF PacketLength
<1>5. Start(S.writes, 5) \in Nat
  <2>1. Fits(S, k)
    BY <1>1 DEF Shaped
  <2> HIDE DEF S
  <2> QED
    BY <2>1, Starts
<1>6. Extra \in Nat
  <2>1. CASE "payload" \in DOMAIN packet
    <3>1. PICK i \in DOMAIN S.reads : S.reads[i].name = "payload"
      BY <2>1 DEF IsPacketValue, Names
    <3>2. packet.payload \in Seq(Byte)
      BY <3>1 DEF IsPacketValue
    <3> QED
      BY <2>1, <3>2
  <2>2. CASE "payload" \notin DOMAIN packet
    BY <2>2
  <2> QED
    BY <2>1, <2>2
<1> HIDE DEF bytes, Extra, S
<1>7. CASE Start(S.writes, 5) = S.length
  <2>1. bytes \in Seq(Byte) /\ PacketLength(format, packet) \in Nat
        /\ Len(bytes) = PacketLength(format, packet)
    BY <1>3, <1>4, <1>5, <1>6, <1>7
  <2> QED
    BY <2>1 DEF bytes
<1>8. CASE /\ format = "SetPeerBandwith" /\ S.reads[k].name # "payload"
           /\ Start(S.writes, 5) = 5 /\ S.length = 8
  <2>1. /\ bytes \in Seq(Byte) /\ PacketLength(format, packet) \in Nat
        /\ Len(bytes) <= PacketLength(format, packet)
        /\ format = "SetPeerBandwith" /\ "payload" \notin DOMAIN packet
    BY <1>3, <1>4, <1>5, <1>6, <1>8
  <2> QED
    BY <2>1 DEF bytes
<1> QED
  BY <1>1, <1>7, <1>8 DEF Shaped

\* The first n bytes of a packet's buffer.
Sent(s, garbage, n) ==
  SubSeq(Filled(PacketBytes(s.format, s.value, garbage), PacketLength(s.format, s.value)), 1, n)

LEMMA SentBytes ==
  ASSUME NEW s, s.format \in DOMAIN Structures, IsPacketValue(s.format, s.value),
         NEW garbage \in Garbage, NEW n \in 0 .. PacketLength(s.format, s.value)
  PROVE  /\ Holds(Sent(s, garbage, n), PacketBytes(s.format, s.value, garbage))
         /\ Len(Sent(s, garbage, n)) = n
         /\ Sent(s, garbage, PacketLength(s.format, s.value)) =
              Filled(PacketBytes(s.format, s.value, garbage), PacketLength(s.format, s.value))
<1> DEFINE bytes == PacketBytes(s.format, s.value, garbage)
           length == PacketLength(s.format, s.value)
           filled == Filled(bytes, length)
<1>1. bytes \in Seq(Byte) /\ length \in Nat /\ Len(bytes) <= length
  BY WrittenLength
<1> HIDE DEF bytes, length
<1>2. filled \in Seq(Byte) /\ Len(filled) = length
      /\ \A x \in 1 .. Len(bytes) : filled[x] = bytes[x]
  BY <1>1, FilledBytes
<1> HIDE DEF filled
<1>3. n \in 0 .. length
  BY DEF length
<1>4. SubSeq(filled, 1, n) \in Seq(Byte) /\ Len(SubSeq(filled, 1, n)) = n
      /\ \A x \in 1 .. n : SubSeq(filled, 1, n)[x] = filled[x]
  BY <1>1, <1>2, <1>3
<1>5. SubSeq(filled, 1, length) = filled
  BY <1>1, <1>2
<1>6. Holds(SubSeq(filled, 1, n), bytes)
  BY <1>2, <1>4 DEF Holds
<1>7. /\ Sent(s, garbage, n) = SubSeq(filled, 1, n)
      /\ Sent(s, garbage, length) = SubSeq(filled, 1, length)
  BY DEF Sent, filled, bytes, length
<1> QED
  BY <1>4, <1>5, <1>6, <1>7 DEF bytes, length, filled

\* Every field but the payload arrives.
FieldsArrive(format, v, w) ==
  \A i \in DOMAIN Structures[format].reads :
    LET r == Structures[format].reads[i]
    IN r.name # "payload" => Arrives(r, v[r.name], w[r.name])

LEMMA SameFields ==
  ASSUME NEW format, NEW v, NEW w, FieldsArrive(format, v, w),
         \A i \in DOMAIN Structures[format].reads :
           Structures[format].reads[i].name = "payload" =>
             Structures[format].reads[i].size = 0 /\ w.payload = v.payload
  PROVE  SamePacket(format, v, w)
<1> SUFFICES ASSUME NEW i \in DOMAIN Structures[format].reads
             PROVE  LET f == Structures[format].reads[i]
                    IN IF f.size = 0 THEN w[f.name] = v[f.name]
                       ELSE /\ w[f.name] % Power(Agreed(f)) = v[f.name] % Power(Agreed(f))
                            /\ w[f.name] < Power(f.n)
  BY Zenon DEF SamePacket, Agreed
<1> DEFINE f == Structures[format].reads[i]
<1>1. CASE f.name = "payload"
  <2>1. f.size = 0 /\ w["payload"] = v["payload"]
    BY <1>1
  <2> QED
    BY <1>1, <2>1
<1>2. CASE f.name # "payload"
  <2>1. Arrives(f, v[f.name], w[f.name])
    BY <1>2 DEF FieldsArrive
  <2> QED
    BY <2>1 DEF Arrives
<1> QED
  BY <1>1, <1>2

\* A packet that lost its end, and one that did not.
Returns(s, n) ==
  \A garbage \in Garbage :
    LET back == ParsePacket(s.format, Sent(s, garbage, n))
    IN /\ back.ok => StartOf(s, back.value)
       /\ n = PacketLength(s.format, s.value) =>
            /\ back.ok /\ SamePacket(s.format, s.value, back.value)
            /\ ReadsAll(s.format) => back.at = n

LEMMA PacketReturns ==
  ASSUME NEW s, s.format \in DOMAIN Structures, IsPacketValue(s.format, s.value),
         NEW n \in 0 .. PacketLength(s.format, s.value)
  PROVE  Returns(s, n)
<1> SUFFICES ASSUME NEW garbage \in Garbage
             PROVE  LET back == ParsePacket(s.format, Sent(s, garbage, n))
                    IN /\ back.ok => StartOf(s, back.value)
                       /\ n = PacketLength(s.format, s.value) =>
                            /\ back.ok /\ SamePacket(s.format, s.value, back.value)
                            /\ ReadsAll(s.format) => back.at = n
  BY DEF Returns
<1> DEFINE format == s.format
           packet == s.value
           S == Structures[format]
           bytes == PacketBytes(format, packet, garbage)
           length == PacketLength(format, packet)
           input == Sent(s, garbage, n)
           back == ParsePacket(format, input)
           w == back.value
<1>1. PICK k \in 1 .. 4 : Shaped(format, S, k)
  BY Structured
<1>2. Fits(S, k) /\ k \in DOMAIN S.reads /\ \A i \in DOMAIN S.reads : i \in 1 .. k
  BY <1>1 DEF Shaped, Fits
<1>3. LaidOut(format, packet, garbage, k) /\ InPieces(format, packet, garbage, k)
  BY <1>1, Pieces, Layout
<1>4. /\ bytes \in Seq(Byte) /\ length \in Nat /\ Len(bytes) <= length
      /\ format # "SetPeerBandwith" \/ "payload" \in DOMAIN packet => Len(bytes) = length
  BY WrittenLength
<1>5. Holds(input, bytes) /\ Len(input) = n
  BY SentBytes
<1>6. "payload" \in DOMAIN packet <=> S.reads[k].name = "payload"
  BY <1>3 DEF LaidOut
<1>7. \A i \in 1 .. k : S.reads[i].name = "payload" => i = k
  BY <1>1 DEF Shaped, Fits
<1>8. /\ back.ok <=> \A i \in 1 .. k : Has(input, Start(S.reads, i), S.reads[i].n)
      /\ back.ok => ParsedAs(format, input, k)
  BY <1>1, Parsing
<1>9. back.ok =>
        /\ back.at = Start(S.reads, k) + UsedBy(S, input, k)
        /\ DOMAIN w = DOMAIN packet
        /\ \A i \in 1 .. k : w[S.reads[i].name] = FieldValue(S, input, i)
  BY <1>8 DEF ParsedAs, IsPacketValue
<1>10. back.ok => FieldsArrive(format, packet, w)
  <2>1. HAVE back.ok
  <2>2. ASSUME NEW i \in 1 .. k, S.reads[i].name # "payload"
        PROVE  Arrives(S.reads[i], packet[S.reads[i].name], w[S.reads[i].name])
    <3>1. Has(input, Start(S.reads, i), S.reads[i].n)
      BY <1>8, <2>1
    <3>2. Arrives(S.reads[i], packet[S.reads[i].name], FieldValue(S, input, i))
      BY <1>1, <1>5, <2>2, <3>1, FieldArrives
    <3> QED
      BY <1>9, <2>1, <3>2
  <2> HIDE DEF w, packet
  <2> QED
    BY <1>2, <2>2 DEF FieldsArrive
<1>11. back.ok /\ S.reads[k].name = "payload" =>
         PayloadArrived(input, bytes, packet.payload, w.payload)
  <2>1. HAVE back.ok /\ S.reads[k].name = "payload"
  <2>2. Has(input, Start(S.reads, k), S.reads[k].n) /\ w["payload"] = FieldValue(S, input, k)
    <3>1. k \in 1 .. k
      OBVIOUS
    <3> QED
      BY <1>8, <1>9, <2>1, <3>1
  <2>3. Len(input) <= Len(bytes)
    <3>1. n <= length /\ Len(bytes) = length
      BY <1>4, <1>6, <2>1
    <3> QED
      BY <1>5, <3>1
  <2>4. PayloadArrived(input, bytes, packet.payload, FieldValue(S, input, k))
    BY <1>1, <1>5, <2>1, <2>2, <2>3, PayloadArrives
  <2> QED
    BY <2>2, <2>4
<1>12. \A i \in DOMAIN S.reads : S.reads[i].name = "payload" =>
         S.reads[i].size = 0 /\ S.reads[k].name = "payload"
  BY <1>2, <1>7 DEF Fits, FieldPair
<1> HIDE DEF back, w, input, bytes, length, S
<1>13. back.ok => StartOf(s, w)
  <2>1. HAVE back.ok
  <2>2. CASE "payload" \in DOMAIN packet
    <3> DEFINE v == [packet EXCEPT !.payload = w.payload]
    <3>1. IsPrefix(w.payload, packet.payload) /\ "payload" \in DOMAIN w
      BY <1>6, <1>9, <1>11, <2>1, <2>2 DEF PayloadArrived
    <3>2. /\ v.payload = w.payload
          /\ \A name \in DOMAIN packet : name # "payload" => v[name] = packet[name]
      BY <2>2
    <3>3. \A i \in DOMAIN S.reads : S.reads[i].name \in DOMAIN packet
      BY DEF IsPacketValue, Names, S
    <3> HIDE DEF v
    <3>4. FieldsArrive(format, v, w)
      BY <1>10, <2>1, <3>2, <3>3 DEF FieldsArrive, S
    <3>5. SamePacket(format, v, w)
      BY <1>12, <3>2, <3>4, SameFields DEF S
    <3> QED
      BY <3>1, <3>5 DEF StartOf, v
  <2>3. CASE "payload" \notin DOMAIN packet
    <3>1. \A i \in DOMAIN S.reads : S.reads[i].name # "payload"
      BY <1>6, <1>12, <2>3
    <3>2. SamePacket(format, packet, w)
      BY <1>10, <2>1, <3>1, SameFields DEF S
    <3> QED
      BY <1>9, <2>1, <2>3, <3>2 DEF StartOf
  <2> QED
    BY <2>2, <2>3
<1>14. n = length => back.ok /\ SamePacket(format, packet, w)
  <2>1. HAVE n = length
  <2>2. back.ok
    <3>1. ASSUME NEW i \in 1 .. k
          PROVE  Has(input, Start(S.reads, i), S.reads[i].n)
      <4> DEFINE P == Piece(S, packet, garbage, i)
      <4>1. Start(S.reads, i) \in Nat /\ Start(S.reads, i) + Len(P) <= Len(bytes)
        BY <1>3 DEF LaidOut, S, bytes
      <4>2. /\ P \in Seq(Byte)
            /\ S.reads[i].name = "payload" => S.reads[i].n = 0
            /\ S.reads[i].name # "payload" =>
                 Len(P) = S.writes[i].n /\ S.reads[i].n \in 0 .. S.writes[i].n
        <5>1. i \in 1 .. 4
          OBVIOUS
        <5> QED
          BY <1>3, <5>1 DEF InPieces, S
      <4>3. S.writes[i].n \in Nat
        BY <1>2 DEF Fits, FieldPair
      <4> HIDE DEF P
      <4>4. Len(P) \in Nat /\ S.reads[i].n <= Len(P) /\ S.reads[i].n \in Nat
        BY <4>2, <4>3
      <4>5. Len(input) = length /\ Len(bytes) <= length /\ Len(bytes) \in Nat /\ length \in Nat
        BY <1>4, <1>5, <2>1
      <4> QED
        BY <4>1, <4>4, <4>5 DEF Has
    <3> QED
      BY <1>8, <3>1
  <2>3. S.reads[k].name = "payload" => w.payload = packet.payload
    <3>1. HAVE S.reads[k].name = "payload"
    <3>2. Len(input) = Len(bytes)
      BY <1>4, <1>5, <1>6, <2>1, <3>1
    <3> QED
      BY <1>11, <2>2, <3>1, <3>2 DEF PayloadArrived
  <2>4. SamePacket(format, packet, w)
    BY <1>10, <1>12, <2>2, <2>3, SameFields DEF S
  <2> QED
    BY <2>2, <2>4
<1>15. n = length /\ ReadsAll(format) => back.at = n
  <2>1. HAVE n = length /\ ReadsAll(format)
  <2>2. back.at = Start(S.reads, k) + UsedBy(S, input, k)
    BY <1>9, <1>14, <2>1
  <2> DEFINE P == Piece(S, packet, garbage, k)
             at == Start(S.reads, k)
  <2>3. at \in Nat /\ at + Len(P) = Len(bytes) /\ Len(bytes) = n
    <3>1. format # "SetPeerBandwith"
      BY <2>1 DEF ReadsAll
    <3>2. k \in 1 .. k
      OBVIOUS
    <3> QED
      BY <1>3, <1>4, <2>1, <3>1, <3>2 DEF LaidOut, S, bytes
  <2>4. CASE S.reads[k].name = "payload"
    <3>1. UsedBy(S, input, k) = n - at
      BY <1>5, <2>4 DEF UsedBy
    <3> HIDE DEF at
    <3> QED
      BY <2>2, <2>3, <3>1 DEF at
  <2>5. CASE S.reads[k].name # "payload"
    <3>1. S.writes[k].n = S.reads[k].n
      BY <1>1, <2>1 DEF Shaped
    <3>2. Len(P) = S.writes[k].n
      <4>1. k \in 1 .. k
        OBVIOUS
      <4> QED
        BY <1>3, <2>5, <4>1 DEF InPieces, S
    <3>3. UsedBy(S, input, k) = S.reads[k].n
      BY <2>5 DEF UsedBy
    <3> QED
      BY <2>2, <2>3, <3>1, <3>2, <3>3
  <2> QED
    BY <2>4, <2>5
<1> QED
  BY <1>13, <1>14, <1>15 DEF back, w, input, length

-----------------------------------------------------------------------------
(* A URL, put together and taken apart.                                     *)

Token == STRING \cup {"rtmp", "rtmps", "://", ":", "/"}

\* s is a with b behind it.
IsCat(s, a, b) ==
  /\ s \in Seq(Token) /\ Len(s) = Len(a) + Len(b)
  /\ \A x \in 1 .. Len(a) : s[x] = a[x]
  /\ \A x \in 1 .. Len(b) : s[Len(a) + x] = b[x]

LEMMA Cat ==
  ASSUME NEW a \in Seq(Token), NEW b \in Seq(Token)
  PROVE  IsCat(a \o b, a, b)
  BY DEF IsCat

LEMMA FindFirst ==
  ASSUME NEW token, NEW url \in Seq(Token), NEW from \in Nat, NEW p \in from .. Len(url),
         url[p] = token, \A i \in from .. p - 1 : url[i] # token
  PROVE  Find(token, url, from) = p
<1> DEFINE I == { i \in from .. Len(url) : url[i] = token }
<1>1. Len(url) \in Nat /\ p \in Int
  OBVIOUS
<1>2. Find(token, url, from) = IF I # {} THEN Min(I) ELSE 0
  BY DEF Find, SelectInSubSeq
<1>3. p \in I
  OBVIOUS
<1>4. \A i \in I : p <= i
  <2>1. TAKE i \in I
  <2>2. i \in from .. Len(url) /\ url[i] = token
    OBVIOUS
  <2>3. i \notin from .. p - 1
    BY <2>2
  <2> QED
    BY <1>1, <2>2, <2>3
<1>5. \A i \in I : i \in Int
  OBVIOUS
<1> HIDE DEF I
<1>6. Min(I) = p
  <2>1. Min(I) \in I /\ \A i \in I : Min(I) <= i
    BY <1>3, <1>4 DEF Min
  <2>2. p <= Min(I) /\ Min(I) <= p /\ Min(I) \in Int
    BY <1>3, <1>4, <1>5, <2>1, Zenon
  <2> QED
    BY <1>1, <2>2
<1> QED
  BY <1>2, <1>3, <1>6

LEMMA FindNone ==
  ASSUME NEW token, NEW url \in Seq(Token), NEW from \in Nat,
         \A i \in from .. Len(url) : url[i] # token
  PROVE  Find(token, url, from) = 0
  BY DEF Find, SelectInSubSeq

\* What is between two positions is what was put there.
LEMMA Between ==
  ASSUME NEW url \in Seq(Token), NEW s \in Seq(Token), NEW o \in Nat,
         o + Len(s) <= Len(url), \A x \in 1 .. Len(s) : url[o + x] = s[x]
  PROVE  SubSeq(url, o + 1, o + Len(s)) = s
<1> DEFINE t == SubSeq(url, o + 1, o + Len(s))
<1>1. Len(url) \in Nat /\ Len(s) \in Nat
  OBVIOUS
<1>2. t \in Seq(Token) /\ Len(t) = Len(s) /\ \A x \in 1 .. Len(s) : t[x] = url[o + x]
  <2>1. \A i \in o + 1 .. o + Len(s) : i \in 1 .. Len(url)
    BY <1>1
  <2>2. \A i \in o + 1 .. o + Len(s) : url[i] \in Token
    BY <2>1
  <2>3. o + 1 \in Int /\ o + Len(s) \in Int
    BY <1>1
  <2> HIDE DEF t
  <2>4. SubSeq(url, o + 1, o + Len(s)) =
          [x \in 1 .. (o + Len(s)) - (o + 1) + 1 |-> url[((o + 1) + x) - 1]]
    BY <1>1
  <2>5. (o + Len(s)) - (o + 1) + 1 = Len(s) /\ \A x \in 1 .. Len(s) : ((o + 1) + x) - 1 = o + x
    BY <1>1
  <2>6. \A x \in 1 .. Len(s) : o + x \in o + 1 .. o + Len(s)
    BY <1>1
  <2>7. t \in [1 .. Len(s) -> Token] /\ \A x \in 1 .. Len(s) : t[x] = url[o + x]
    BY <2>2, <2>4, <2>5, <2>6 DEF t
  <2> QED
    BY <1>1, <2>7, Tuple
<1> HIDE DEF t
<1>3. t = s
  BY <1>1, <1>2
<1> QED
  BY <1>3 DEF t

\* A colon, if there is a port, and the port.
PortText(u) == IF u.port = << >> THEN << >> ELSE <<":">> \o u.port

LEMMA UrlTokens ==
  ASSUME NEW u, IsUrl(u)
  PROVE  /\ u.type \in Seq(Token) /\ u.url \in Seq(Token) /\ u.port \in Seq(Token)
         /\ u.app \in Seq(Token) /\ u.key \in Seq(Token)
         /\ <<"://">> \in Seq(Token) /\ <<":">> \in Seq(Token) /\ <<"/">> \in Seq(Token)
         /\ u.type \in {<<"rtmp">>, <<"rtmps">>} /\ Len(u.type) = 1
         /\ u.type[1] \in {"rtmp", "rtmps"}
         /\ \/ u.port = << >> /\ Len(u.port) = 0
            \/ u.port # << >> /\ Len(u.port) = 1 /\ u.port[1] \in Token
<1>1. /\ u.type \in {<<"rtmp">>, <<"rtmps">>} /\ u.url \in Seq(STRING)
      /\ u.port \in Seq(STRING) /\ u.app \in Seq(STRING) /\ u.key \in Seq(STRING)
      /\ Len(u.port) <= 1
  BY DEF IsUrl
<1>2. \A s \in Seq(STRING) : s \in Seq(Token)
  <2>1. STRING \subseteq Token
    BY DEF Token
  <2>2. TAKE s \in Seq(STRING)
  <2>3. PICK n \in Nat : n = Len(s)
    OBVIOUS
  <2>4. s \in [1 .. n -> STRING]
    BY <2>3
  <2>5. s \in [1 .. n -> Token]
    BY <2>1, <2>4
  <2> QED
    BY <2>5, Tuple
<1>3. "rtmp" \in Token /\ "rtmps" \in Token /\ "://" \in Token /\ ":" \in Token /\ "/" \in Token
  BY DEF Token
<1>4. /\ <<"://">> \in Seq(Token) /\ <<":">> \in Seq(Token) /\ <<"/">> \in Seq(Token)
      /\ <<"rtmp">> \in Seq(Token) /\ <<"rtmps">> \in Seq(Token)
  BY <1>3
<1>5. Len(u.type) = 1 /\ u.type[1] \in {"rtmp", "rtmps"} /\ u.type \in Seq(Token)
  <2>1. Len(<<"rtmp">>) = 1 /\ <<"rtmp">>[1] = "rtmp"
    OBVIOUS
  <2>2. Len(<<"rtmps">>) = 1 /\ <<"rtmps">>[1] = "rtmps"
    OBVIOUS
  <2>3. u.type = <<"rtmp">> \/ u.type = <<"rtmps">>
    BY <1>1
  <2> QED
    BY <1>4, <2>1, <2>2, <2>3, Zenon
<1>6. u.port \in Seq(Token)
  BY <1>1, <1>2
<1>7. \/ u.port = << >> /\ Len(u.port) = 0
      \/ u.port # << >> /\ Len(u.port) = 1 /\ u.port[1] \in Token
  BY <1>1, <1>6
<1> QED
  BY <1>1, <1>2, <1>4, <1>5, <1>6, <1>7

\* Where the parts of a URL are in its text.
InParts(u, text, ports) ==
  LET a == Len(u.url)
      p == Len(ports)
      b == Len(u.app)
      c == Len(u.key)
  IN /\ text \in Seq(Token) /\ Len(text) = 4 + a + p + b + c
     /\ text[1] = u.type[1] /\ text[2] = "://"
     /\ \A x \in 1 .. a : text[2 + x] = u.url[x]
     /\ \A x \in 1 .. p : text[2 + a + x] = ports[x]
     /\ text[3 + a + p] = "/"
     /\ \A x \in 1 .. b : text[3 + a + p + x] = u.app[x]
     /\ text[4 + a + p + b] = "/"
     /\ \A x \in 1 .. c : text[4 + a + p + b + x] = u.key[x]

LEMMA PortTokens ==
  ASSUME NEW u, IsUrl(u)
  PROVE  /\ PortText(u) \in Seq(Token)
         /\ u.port = << >> => Len(PortText(u)) = 0
         /\ u.port # << >> =>
              Len(PortText(u)) = 2 /\ PortText(u)[1] = ":" /\ PortText(u)[2] = u.port[1]
<1>1. /\ u.port \in Seq(Token) /\ <<":">> \in Seq(Token)
      /\ u.port # << >> => Len(u.port) = 1
  BY UrlTokens
<1>2. CASE u.port = << >>
  <2>1. PortText(u) = << >> /\ << >> \in Seq(Token) /\ Len(<< >>) = 0
    BY <1>2 DEF PortText
  <2> QED
    BY <1>2, <2>1, Zenon
<1>3. CASE u.port # << >>
  <2>1. IsCat(<<":">> \o u.port, <<":">>, u.port)
    BY <1>1, Cat
  <2>2. PortText(u) = <<":">> \o u.port
    BY <1>3 DEF PortText
  <2>3. Len(<<":">>) = 1 /\ <<":">>[1] = ":"
    OBVIOUS
  <2> QED
    BY <1>1, <1>3, <2>1, <2>2, <2>3 DEF IsCat
<1> QED
  BY <1>2, <1>3

LEMMA TextParts ==
  ASSUME NEW u, IsUrl(u)
  PROVE  InParts(u, UrlText(u), PortText(u))
<1> DEFINE ports == PortText(u)
           t1 == u.type \o <<"://">>
           t2 == t1 \o u.url
           t3 == t2 \o ports
           t4 == t3 \o <<"/">>
           t5 == t4 \o u.app
           t6 == t5 \o <<"/">>
           t7 == t6 \o u.key
           a == Len(u.url)
           p == Len(ports)
           b == Len(u.app)
           c == Len(u.key)
<1>1. /\ u.type \in Seq(Token) /\ u.url \in Seq(Token) /\ u.app \in Seq(Token)
      /\ u.key \in Seq(Token) /\ Len(u.type) = 1
      /\ <<"://">> \in Seq(Token) /\ <<"/">> \in Seq(Token)
  BY UrlTokens
<1>2. ports \in Seq(Token)
  BY PortTokens
<1>3. a \in Nat /\ p \in Nat /\ b \in Nat /\ c \in Nat
  BY <1>1, <1>2
<1>4. UrlText(u) = t7
  BY DEF UrlText, PortText
<1> HIDE DEF ports
<1>5. IsCat(t1, u.type, <<"://">>)
  BY <1>1, Cat
<1>6. t1 \in Seq(Token) /\ Len(t1) = 2 /\ t1[1] = u.type[1] /\ t1[2] = "://"
  <2>1. Len(<<"://">>) = 1 /\ <<"://">>[1] = "://"
    OBVIOUS
  <2> HIDE DEF t1
  <2> QED
    BY <1>1, <1>5, <2>1 DEF IsCat
<1> HIDE DEF t1
<1>7. IsCat(t2, t1, u.url)
  BY <1>1, <1>6, Cat
<1> HIDE DEF t2
<1>8. /\ t2 \in Seq(Token) /\ Len(t2) = 2 + a
      /\ t2[1] = u.type[1] /\ t2[2] = "://"
      /\ \A x \in 1 .. a : t2[2 + x] = u.url[x]
  BY <1>6, <1>7 DEF IsCat
<1>9. IsCat(t3, t2, ports)
  BY <1>2, <1>8, Cat
<1> HIDE DEF t3
<1>10. /\ t3 \in Seq(Token) /\ Len(t3) = 2 + a + p
       /\ \A x \in 1 .. 2 + a : t3[x] = t2[x]
       /\ \A x \in 1 .. p : t3[2 + a + x] = ports[x]
  BY <1>8, <1>9 DEF IsCat
<1>11. IsCat(t4, t3, <<"/">>)
  BY <1>1, <1>10, Cat
<1> HIDE DEF t4
<1>12. /\ t4 \in Seq(Token) /\ Len(t4) = 3 + a + p
       /\ \A x \in 1 .. 2 + a + p : t4[x] = t3[x]
       /\ t4[3 + a + p] = "/"
  <2>1. Len(<<"/">>) = 1 /\ <<"/">>[1] = "/" /\ 1 \in 1 .. 1
    OBVIOUS
  <2>2. /\ t4 \in Seq(Token) /\ Len(t4) = (2 + a + p) + 1
        /\ \A x \in 1 .. 2 + a + p : t4[x] = t3[x]
        /\ t4[(2 + a + p) + 1] = "/"
    BY <1>10, <1>11, <2>1 DEF IsCat
  <2>3. (2 + a + p) + 1 = 3 + a + p
    BY <1>3
  <2> QED
    BY <2>2, <2>3
<1>13. IsCat(t5, t4, u.app)
  BY <1>1, <1>12, Cat
<1> HIDE DEF t5
<1>14. /\ t5 \in Seq(Token) /\ Len(t5) = 3 + a + p + b
       /\ \A x \in 1 .. 3 + a + p : t5[x] = t4[x]
       /\ \A x \in 1 .. b : t5[3 + a + p + x] = u.app[x]
  BY <1>12, <1>13 DEF IsCat
<1>15. IsCat(t6, t5, <<"/">>)
  BY <1>1, <1>14, Cat
<1> HIDE DEF t6
<1>16. /\ t6 \in Seq(Token) /\ Len(t6) = 4 + a + p + b
       /\ \A x \in 1 .. 3 + a + p + b : t6[x] = t5[x]
       /\ t6[4 + a + p + b] = "/"
  <2>1. Len(<<"/">>) = 1 /\ <<"/">>[1] = "/" /\ 1 \in 1 .. 1
    OBVIOUS
  <2>2. /\ t6 \in Seq(Token) /\ Len(t6) = (3 + a + p + b) + 1
        /\ \A x \in 1 .. 3 + a + p + b : t6[x] = t5[x]
        /\ t6[(3 + a + p + b) + 1] = "/"
    BY <1>14, <1>15, <2>1 DEF IsCat
  <2>3. (3 + a + p + b) + 1 = 4 + a + p + b
    <3> HIDE DEF a, p, b, c
    <3> QED
      BY <1>3
  <2> QED
    BY <2>2, <2>3
<1>17. IsCat(t7, t6, u.key)
  BY <1>1, <1>16, Cat
<1> HIDE DEF t7
<1>18. /\ t7 \in Seq(Token) /\ Len(t7) = 4 + a + p + b + c
       /\ \A x \in 1 .. 4 + a + p + b : t7[x] = t6[x]
       /\ \A x \in 1 .. c : t7[4 + a + p + b + x] = u.key[x]
  BY <1>16, <1>17 DEF IsCat
<1> HIDE DEF a, p, b, c
<1>19. \A x \in 1 .. 2 + a + p : t7[x] = t3[x]
  <2>1. TAKE x \in 1 .. 2 + a + p
  <2>2. x \in 1 .. 3 + a + p /\ x \in 1 .. 3 + a + p + b /\ x \in 1 .. 4 + a + p + b
    BY <1>3
  <2> QED
    BY <2>2, <1>12, <1>14, <1>16, <1>18
<1>20. \A x \in 1 .. 2 + a : t7[x] = t2[x]
  <2>1. TAKE x \in 1 .. 2 + a
  <2>2. x \in 1 .. 2 + a + p
    BY <1>3
  <2> QED
    BY <2>2, <1>10, <1>19
<1>21. /\ t7[1] = u.type[1] /\ t7[2] = "://"
       /\ \A x \in 1 .. a : t7[2 + x] = u.url[x]
  <2>1. 1 \in 1 .. 2 + a /\ 2 \in 1 .. 2 + a /\ \A x \in 1 .. a : 2 + x \in 1 .. 2 + a
    BY <1>3
  <2> QED
    BY <2>1, <1>8, <1>20
<1>22. \A x \in 1 .. p : t7[2 + a + x] = ports[x]
  <2>1. \A x \in 1 .. p : 2 + a + x \in 1 .. 2 + a + p
    BY <1>3
  <2> QED
    BY <2>1, <1>10, <1>19
<1>23. t7[3 + a + p] = "/"
  <2>1. 3 + a + p \in 1 .. 3 + a + p /\ 3 + a + p \in 1 .. 3 + a + p + b
        /\ 3 + a + p \in 1 .. 4 + a + p + b
    BY <1>3
  <2> QED
    BY <2>1, <1>12, <1>14, <1>16, <1>18
<1>24. \A x \in 1 .. b : t7[3 + a + p + x] = u.app[x]
  <2>1. \A x \in 1 .. b : 3 + a + p + x \in 1 .. 3 + a + p + b
                          /\ 3 + a + p + x \in 1 .. 4 + a + p + b
    BY <1>3
  <2> QED
    BY <2>1, <1>14, <1>16, <1>18
<1>25. t7[4 + a + p + b] = "/"
  <2>1. 4 + a + p + b \in 1 .. 4 + a + p + b
    BY <1>3
  <2> QED
    BY <2>1, <1>16, <1>18
<1> QED
  BY <1>4, <1>18, <1>21, <1>22, <1>23, <1>24, <1>25 DEF InParts, a, p, b, c, ports

\* No token in a part of a portable URL is one that ParseURL would stop at.
Free(u) ==
  /\ \A x \in 1 .. Len(u.url) : u.url[x] \notin {":", "/", "://"}
  /\ \A x \in 1 .. Len(u.app) : u.app[x] \notin {":", "/", "://"}
  /\ \A x \in 1 .. Len(u.key) : u.key[x] # ":"
  /\ u.port # << >> => u.port[1] \notin {":", "/", "://"} /\ Atoi(u.port) # 0

LEMMA PortableFree ==
  ASSUME NEW u, IsUrl(u), PortableUrl(u)
  PROVE  Free(u)
<1>1. u.url \in Seq(Token) /\ u.app \in Seq(Token) /\ u.key \in Seq(Token)
  BY UrlTokens
<1>2. IsCat(u.url \o u.app, u.url, u.app)
  BY <1>1, Cat
<1>3. /\ Range(u.url \o u.app) \cap {":", "/", "://"} = {}
      /\ Range(u.key) \cap {":", "://"} = {}
      /\ u.port = << >> \/ Atoi(u.port) # 0
  BY DEF PortableUrl
<1> DEFINE t == u.url \o u.app
<1>4. /\ t \in Seq(Token) /\ Len(t) = Len(u.url) + Len(u.app)
      /\ \A x \in 1 .. Len(u.url) : t[x] = u.url[x]
      /\ \A x \in 1 .. Len(u.app) : t[Len(u.url) + x] = u.app[x]
  BY <1>2 DEF IsCat
<1> HIDE DEF t
<1>5. /\ \A x \in 1 .. Len(u.url) : x \in DOMAIN t
      /\ \A x \in 1 .. Len(u.app) : Len(u.url) + x \in DOMAIN t
  <2>1. DOMAIN t = 1 .. Len(u.url) + Len(u.app)
    BY <1>4
  <2>2. PICK m \in Nat, n \in Nat : m = Len(u.url) /\ n = Len(u.app)
    BY <1>1
  <2>3. \A x \in 1 .. m : x \in 1 .. m + n
    OBVIOUS
  <2>4. \A x \in 1 .. n : m + x \in 1 .. m + n
    OBVIOUS
  <2> QED
    BY <2>1, <2>2, <2>3, <2>4, Zenon
<1>6. \A y \in DOMAIN t : t[y] \notin {":", "/", "://"}
  BY <1>3 DEF t, Range
<1>7. /\ \A x \in 1 .. Len(u.url) : u.url[x] \notin {":", "/", "://"}
      /\ \A x \in 1 .. Len(u.app) : u.app[x] \notin {":", "/", "://"}
  BY <1>4, <1>5, <1>6
<1>8. \A x \in 1 .. Len(u.key) : u.key[x] # ":"
  <2>1. \A x \in DOMAIN u.key : u.key[x] # ":"
    BY <1>3 DEF Range
  <2>2. DOMAIN u.key = 1 .. Len(u.key)
    BY <1>1
  <2> QED
    BY <2>1, <2>2, Zenon
<1>9. u.port # << >> => u.port[1] \in DOMAIN PortNumbers /\ Atoi(u.port) # 0
  BY <1>3 DEF Atoi
<1> QED
  BY <1>7, <1>8, <1>9, PortNumbersAssumption DEF Free

LEMMA UrlReturns ==
  ASSUME NEW u, IsUrl(u), PortableUrl(u)
  PROVE  LET back == ParseURL(UrlText(u))
         IN back.ok /\ SameUrl(u, back.value) /\ back.at = Len(UrlText(u))
<1> DEFINE text == UrlText(u)
           ports == PortText(u)
           a == Len(u.url)
           p == Len(ports)
           b == Len(u.app)
           c == Len(u.key)
<1>1. Free(u)
  BY PortableFree
<1>2. /\ u.type \in Seq(Token) /\ u.url \in Seq(Token) /\ u.app \in Seq(Token)
      /\ u.key \in Seq(Token) /\ u.port \in Seq(Token) /\ Len(u.type) = 1
      /\ u.type \in {<<"rtmp">>, <<"rtmps">>} /\ u.type[1] \in {"rtmp", "rtmps"}
      /\ u.port # << >> => Len(u.port) = 1
  BY UrlTokens
<1>3. /\ ports \in Seq(Token)
      /\ u.port = << >> => p = 0
      /\ u.port # << >> => p = 2 /\ ports[1] = ":" /\ ports[2] = u.port[1]
  BY PortTokens
<1>4. /\ text \in Seq(Token) /\ Len(text) = 4 + a + p + b + c
      /\ text[1] = u.type[1] /\ text[2] = "://"
      /\ \A x \in 1 .. a : text[2 + x] = u.url[x]
      /\ \A x \in 1 .. p : text[2 + a + x] = ports[x]
      /\ text[3 + a + p] = "/"
      /\ \A x \in 1 .. b : text[3 + a + p + x] = u.app[x]
      /\ text[4 + a + p + b] = "/"
      /\ \A x \in 1 .. c : text[4 + a + p + b + x] = u.key[x]
  BY TextParts DEF InParts
<1>5. /\ a \in Nat /\ b \in Nat /\ c \in Nat /\ p \in Nat /\ (p = 0 \/ p = 2)
      /\ Len(text) = 4 + a + p + b + c
  BY <1>2, <1>3, <1>4
<1> HIDE DEF text, ports, a, p, b, c
\* Which token is where.
<1>6. \A i \in 3 .. 2 + a : text[i] \notin {":", "/", "://"}
  <2>1. TAKE i \in 3 .. 2 + a
  <2>2. i - 2 \in 1 .. a /\ 2 + (i - 2) = i
    BY <1>5
  <2> QED
    BY <2>2, <1>1, <1>4 DEF Free, a
<1>7. p = 2 => text[3 + a] = ":" /\ text[4 + a] \notin {":", "/", "://"} /\ text[4 + a] = u.port[1]
  <2>1. HAVE p = 2
  <2>2. 1 \in 1 .. p /\ 2 \in 1 .. p /\ 2 + a + 1 = 3 + a /\ 2 + a + 2 = 4 + a
    BY <1>5, <2>1
  <2>3. text[3 + a] = ports[1] /\ text[4 + a] = ports[2]
    BY <1>4, <2>2
  <2>4. u.port # << >>
    BY <1>3, <2>1
  <2> QED
    BY <1>1, <1>3, <2>3, <2>4 DEF Free
<1>8. \A i \in 4 + a + p .. 3 + a + p + b : text[i] \notin {":", "/", "://"}
  <2>1. TAKE i \in 4 + a + p .. 3 + a + p + b
  <2>2. i - (3 + a + p) \in 1 .. b /\ 3 + a + p + (i - (3 + a + p)) = i
    BY <1>5
  <2> QED
    BY <2>2, <1>1, <1>4 DEF Free, b
<1>9. \A i \in 5 + a + p + b .. 4 + a + p + b + c : text[i] # ":"
  <2>1. TAKE i \in 5 + a + p + b .. 4 + a + p + b + c
  <2>2. i - (4 + a + p + b) \in 1 .. c /\ 4 + a + p + b + (i - (4 + a + p + b)) = i
    BY <1>5
  <2> QED
    BY <2>2, <1>1, <1>4 DEF Free, c
\* What find returns.
<1>10. Find("://", text, 1) = 2
  <2>1. 2 \in 1 .. Len(text) /\ \A i \in 1 .. 2 - 1 : text[i] # "://"
    BY <1>2, <1>4, <1>5
  <2> QED
    BY <2>1, <1>4, FindFirst
<1>11. p = 0 => Find(":", text, 3) = 0
  <2>1. HAVE p = 0
  <2>2. \A i \in 3 .. Len(text) : text[i] # ":"
    <3>1. TAKE i \in 3 .. Len(text)
    <3>2. \/ i \in 3 .. 2 + a
          \/ i = 3 + a + p
          \/ i \in 4 + a + p .. 3 + a + p + b
          \/ i = 4 + a + p + b
          \/ i \in 5 + a + p + b .. 4 + a + p + b + c
      BY <1>5, <2>1
    <3> QED
      BY <3>2, <1>4, <1>6, <1>8, <1>9
  <2> QED
    BY <2>2, <1>4, FindNone
<1>12. p = 2 => Find(":", text, 3) = 3 + a
  <2>1. HAVE p = 2
  <2>2. 3 + a \in 3 .. Len(text) /\ (3 + a) - 1 = 2 + a
    BY <1>4, <1>5, <2>1
  <2>3. \A i \in 3 .. (3 + a) - 1 : text[i] # ":"
    BY <1>6, <2>2
  <2> QED
    BY <2>1, <2>2, <2>3, <1>4, <1>7, FindFirst
<1>13. Find("/", text, 3) = 3 + a + p
  <2>1. 3 + a + p \in 3 .. Len(text)
    BY <1>4, <1>5
  <2>2. \A i \in 3 .. (3 + a + p) - 1 : text[i] # "/"
    <3>1. TAKE i \in 3 .. (3 + a + p) - 1
    <3>2. i \in 3 .. 2 + a \/ (p = 2 /\ (i = 3 + a \/ i = 4 + a))
      BY <1>5
    <3> QED
      BY <3>2, <1>6, <1>7
  <2> QED
    BY <2>1, <2>2, <1>4, FindFirst
<1>14. Find("/", text, 4 + a + p) = 4 + a + p + b
  <2>1. 4 + a + p \in Nat /\ (4 + a + p + b) - 1 = 3 + a + p + b
    BY <1>5
  <2>2. 4 + a + p + b \in 4 + a + p .. Len(text)
    BY <1>5
  <2>3. \A i \in 4 + a + p .. (4 + a + p + b) - 1 : text[i] # "/"
    BY <1>8, <2>1
  <2>4. PICK from \in Nat : from = 4 + a + p
    BY <2>1
  <2>5. PICK q \in from .. Len(text) : q = 4 + a + p + b
    BY <2>2, <2>4
  <2>6. Find("/", text, from) = q
    BY <1>4, <2>3, <2>4, <2>5, FindFirst
  <2> QED
    BY <2>4, <2>5, <2>6
\* What substr returns.
<1>15. SubSeq(text, 1, 1) = u.type
  <2>1. 0 + 1 = 1 /\ \A x \in 1 .. 1 : text[0 + x] = u.type[x]
    BY <1>4
  <2>2. 0 + Len(u.type) <= Len(text) /\ 0 \in Nat
    BY <1>2, <1>4, <1>5
  <2>3. SubSeq(text, 0 + 1, 0 + Len(u.type)) = u.type
    BY <1>2, <1>4, <2>1, <2>2, Between
  <2> QED
    BY <1>2, <2>1, <2>3
<1>16. SubSeq(text, 3, 2 + a) = u.url
  <2>1. 2 + a <= Len(text) /\ 2 + 1 = 3
    BY <1>4, <1>5
  <2>2. SubSeq(text, 2 + 1, 2 + a) = u.url
    BY <1>2, <1>4, <2>1, Between DEF a
  <2> QED
    BY <2>1, <2>2
<1>17. SubSeq(text, 4 + a + p, 3 + a + p + b) = u.app
  <2>1. PICK o \in Nat : o = 3 + a + p
    BY <1>5
  <2>2. o + b <= Len(text) /\ o + 1 = 4 + a + p
    BY <1>4, <1>5, <2>1
  <2>3. SubSeq(text, o + 1, o + b) = u.app
    BY <1>2, <1>4, <2>1, <2>2, Between DEF b
  <2> QED
    BY <2>1, <2>2, <2>3
<1>18. SubSeq(text, 5 + a + p + b, Len(text)) = u.key
  <2>1. PICK o \in Nat : o = 4 + a + p + b
    BY <1>5
  <2>2. o + c = Len(text) /\ o + c <= Len(text)
    BY <1>5, <2>1
  <2>4. o + 1 = 5 + a + p + b
    BY <1>5, <2>1
  <2>3. SubSeq(text, o + 1, o + c) = u.key
    BY <1>2, <1>4, <2>1, <2>2, Between DEF c
  <2> QED
    BY <2>2, <2>3, <2>4
<1>19. p = 2 => SubSeq(text, 4 + a, 4 + a) = u.port
  <2>1. HAVE p = 2
  <2>2. PICK o \in Nat : o = 3 + a
    BY <1>5
  <2>3. Len(u.port) = 1 /\ o + 1 = 4 + a /\ o + Len(u.port) <= Len(text)
    <3>1. Len(u.port) = 1
      BY <1>2, <1>3, <2>1
    <3> QED
      BY <3>1, <1>5, <2>1, <2>2
  <2>4. \A x \in 1 .. Len(u.port) : text[o + x] = u.port[x]
    BY <1>7, <2>1, <2>3
  <2>5. SubSeq(text, o + 1, o + Len(u.port)) = u.port
    BY <1>2, <1>4, <2>3, <2>4, Between
  <2> QED
    BY <2>3, <2>5
\* ParseURL.
<1> DEFINE number == IF u.port = << >> THEN DefaultPort(u.type) ELSE Atoi(u.port)
           whole == [type |-> u.type, port |-> number, url |-> u.url, app |-> u.app, key |-> u.key]
<1>20. number # 0
  BY <1>1 DEF Free, DefaultPort
<1>21. ParseURL(text) = [ok |-> TRUE, at |-> Len(text), value |-> whole]
  <2> DEFINE pos_port == Find(":", text, 3)
             port == IF pos_port = 0 THEN DefaultPort(u.type)
                     ELSE Atoi(Substr(text, pos_port + 1, 3 + a + p))
             host_end == IF pos_port = 0 THEN 3 + a + p ELSE pos_port
  <2>1. port = number /\ host_end - 1 = 2 + a
    <3>1. CASE u.port = << >>
      <4>1. p = 0 /\ pos_port = 0
        BY <1>3, <1>11, <3>1
      <4> QED
        BY <3>1, <4>1, <1>5
    <3>2. CASE u.port # << >>
      <4>1. p = 2 /\ pos_port = 3 + a
        BY <1>3, <1>12, <3>2
      <4>2. pos_port # 0 /\ pos_port + 1 = 4 + a /\ 3 + a + p >= 4 + a /\ (3 + a + p) - 1 = 4 + a
        BY <4>1, <1>5
      <4>3. Substr(text, 4 + a, 3 + a + p) = u.port
        BY <1>19, <4>1, <4>2 DEF Substr
      <4> QED
        BY <3>2, <4>1, <4>2, <4>3, <1>5
    <3> QED
      BY <3>1, <3>2
  <2> DEFINE value == [type |-> u.type, port |-> port, url |-> SubSeq(text, 3, host_end - 1),
                       app |-> SubSeq(text, 4 + a + p, 3 + a + p + b),
                       key |-> SubSeq(text, 5 + a + p + b, Len(text))]
  <2>2. 2 + 1 = 3 /\ 2 - 1 = 1 /\ (3 + a + p) + 1 = 4 + a + p /\ (4 + a + p + b) - 1 = 3 + a + p + b
        /\ (4 + a + p + b) + 1 = 5 + a + p + b /\ 3 + a + p # 0 /\ 4 + a + p + b # 0 /\ 2 # 0
    BY <1>5
  <2>3. ParseURL(text) =
          IF \/ 2 = 0 \/ u.type \notin {<<"rtmp">>, <<"rtmps">>}
             \/ 3 + a + p = 0 \/ 4 + a + p + b = 0 \/ port = 0
          THEN [ok |-> FALSE, at |-> 0, value |-> << >>]
          ELSE [ok |-> TRUE, at |-> Len(text), value |-> value]
    BY <1>10, <1>13, <1>14, <1>15, <2>2, Zenon DEF ParseURL, Proto, KeyOf
  <2>4. value = whole
    BY <1>16, <1>17, <1>18, <2>1
  <2> HIDE DEF value, port, whole
  <2> QED
    BY <1>2, <1>20, <2>1, <2>2, <2>3, <2>4
<1>22. whole = [u EXCEPT !.port = number]
  <2>1. u = [type |-> u.type, url |-> u.url, port |-> u.port, app |-> u.app, key |-> u.key]
    BY DEF IsUrl
  <2> HIDE DEF number
  <2> QED
    BY <2>1
<1> HIDE DEF whole
<1> QED
  BY <1>21, <1>22 DEF SameUrl, text

-----------------------------------------------------------------------------
(* The specification.                                                       *)

\* The bytes of the packet, all of them or a start.
Carried ==
  \E garbage \in Garbage, n \in 0 .. PacketLength(sample.format, sample.value) :
    /\ buffer = Sent(sample, garbage, n)
    /\ written = Len(PacketBytes(sample.format, sample.value, garbage))
    /\ stage = "whole" => n = PacketLength(sample.format, sample.value)

\* What is on the way was made from the sample, and the result is what Parse makes
\* of it.
Inv ==
  /\ sample \in Samples
  /\ sample.format = "URL" => buffer = UrlText(sample.value) /\ stage # "object"
  /\ sample.format # "URL" /\ stage # "object" => Carried
  /\ stage = "parsed" =>
       result = IF sample.format = "URL" THEN ParseURL(buffer)
                ELSE ParsePacket(sample.format, buffer)

LEMMA OfSamples ==
  ASSUME NEW s \in Samples
  PROVE  /\ s.format = "URL" => IsUrl(s.value)
         /\ s.format # "URL" =>
              s.format \in DOMAIN Structures /\ IsPacketValue(s.format, s.value)
  BY SamplesAssumption

LEMMA PacketOrUrl ==
  ASSUME NEW s \in Samples
  PROVE  IsPacket(s) <=> s.format # "URL"
<1>1. "URL" \notin DOMAIN Structures
  BY DEF Structures
<1> QED
  BY <1>1, OfSamples DEF IsPacket

LEMMA InitInv ==
  Init => Inv
<1> SUFFICES ASSUME Init
             PROVE  Inv
  OBVIOUS
<1>1. /\ sample \in Samples
      /\ stage = IF sample.format = "URL" THEN "whole" ELSE "object"
      /\ buffer = IF sample.format = "URL" THEN UrlText(sample.value) ELSE << >>
  BY DEF Init
<1>2. stage # "parsed" /\ (sample.format # "URL" <=> stage = "object")
  BY <1>1
<1> QED
  BY <1>1, <1>2 DEF Inv

LEMMA NextInv ==
  Inv /\ [Next]_vars => Inv'
<1> SUFFICES ASSUME Inv, [Next]_vars
             PROVE  Inv'
  OBVIOUS
<1>1. ASSUME SerializeToBuffer
      PROVE  Inv'
  <2>1. stage = "object" /\ stage' = "whole" /\ sample' = sample
    BY <1>1 DEF SerializeToBuffer
  <2>2. PICK s \in Samples : s = sample
    BY DEF Inv
  <2>3. s.format # "URL"
    BY <2>1, <2>2 DEF Inv
  <2>4. s.format \in DOMAIN Structures /\ IsPacketValue(s.format, s.value)
    BY <2>3, OfSamples
  <2>5. PICK garbage \in Garbage :
          /\ buffer' = Filled(PacketBytes(s.format, s.value, garbage),
                              PacketLength(s.format, s.value))
          /\ written' = Len(PacketBytes(s.format, s.value, garbage))
    BY <1>1, <2>2 DEF SerializeToBuffer
  <2>6. PICK n \in 0 .. PacketLength(s.format, s.value) : n = PacketLength(s.format, s.value)
    <3>1. PacketLength(s.format, s.value) \in Nat
      BY <2>4, <2>5, WrittenLength
    <3> QED
      BY <3>1
  <2>7. buffer' = Sent(s, garbage, n)
    BY <2>4, <2>5, <2>6, SentBytes
  <2>8. Carried'
    BY <2>1, <2>2, <2>5, <2>6, <2>7 DEF Carried
  <2> QED
    BY <2>1, <2>2, <2>3, <2>8 DEF Inv
<1>2. ASSUME Cut
      PROVE  Inv'
  <2>1. stage = "whole" /\ stage' = "cut" /\ sample' = sample /\ written' = written
        /\ sample.format # "URL"
    BY <1>2 DEF Cut
  <2>2. PICK s \in Samples : s = sample
    BY DEF Inv
  <2>3. s.format \in DOMAIN Structures /\ IsPacketValue(s.format, s.value)
    BY <2>1, <2>2, OfSamples
  <2>4. PICK garbage \in Garbage :
          /\ buffer = Sent(s, garbage, PacketLength(s.format, s.value))
          /\ written = Len(PacketBytes(s.format, s.value, garbage))
    BY <2>1, <2>2 DEF Inv, Carried
  <2> DEFINE length == PacketLength(s.format, s.value)
             filled == Filled(PacketBytes(s.format, s.value, garbage), length)
  <2>5. length \in Nat
    BY <2>3, WrittenLength
  <2>6. PICK m \in 0 .. length : m = length
    BY <2>5
  <2>7. Len(Sent(s, garbage, m)) = m /\ Sent(s, garbage, length) = filled
    BY <2>3, SentBytes
  <2>8. buffer = filled /\ Len(buffer) = length
    BY <2>4, <2>6, <2>7
  <2>9. PICK n \in 0 .. Len(buffer) - 1 : buffer' = SubSeq(buffer, 1, n)
    BY <1>2 DEF Cut
  <2>10. n \in 0 .. length /\ buffer' = Sent(s, garbage, n)
    <3>1. n \in 0 .. length
      BY <2>5, <2>8, <2>9
    <3> QED
      BY <3>1, <2>8, <2>9 DEF Sent
  <2>11. Carried'
    BY <2>1, <2>2, <2>4, <2>10 DEF Carried
  <2> QED
    BY <2>1, <2>2, <2>11 DEF Inv
<1>3. ASSUME Parse
      PROVE  Inv'
  <2>1. /\ stage # "object" /\ stage' = "parsed"
        /\ sample' = sample /\ written' = written /\ buffer' = buffer
        /\ result' = IF sample.format = "URL" THEN ParseURL(buffer)
                     ELSE ParsePacket(sample.format, buffer)
    BY <1>3 DEF Parse
  <2>2. Carried => Carried'
    BY <2>1 DEF Carried
  <2> QED
    BY <2>1, <2>2 DEF Inv
<1>4. ASSUME UNCHANGED vars
      PROVE  Inv'
  <2>1. Carried <=> Carried'
    BY <1>4 DEF vars, Carried
  <2> QED
    BY <1>4, <2>1 DEF vars, Inv
<1> QED
  BY <1>1, <1>2, <1>3, <1>4 DEF Next

\* What is on the way was made from the sample, in every reachable state.
THEOREM Invariant ==
  Spec => []Inv
<1> QED
  BY InitInv, NextInv, PTL DEF Spec

\* For every structure, every packet and whatever the memory behind a field holds:
\* Serialize writes what GetLength promised, or less where a struct is padded.
THEOREM FillsBufferHolds ==
  Spec => []FillsBuffer
<1>1. Inv => FillsBuffer
  <2> SUFFICES ASSUME Inv, stage = "whole", sample.format # "URL"
               PROVE  /\ written <= PacketLength(sample.format, sample.value)
                      /\ sample.format # "SetPeerBandwith" =>
                           written = PacketLength(sample.format, sample.value)
    BY PacketOrUrl DEF FillsBuffer, Inv
  <2>1. PICK s \in Samples : s = sample
    BY DEF Inv
  <2>2. s.format \in DOMAIN Structures /\ IsPacketValue(s.format, s.value)
    BY <2>1, OfSamples
  <2>3. PICK garbage \in Garbage : written = Len(PacketBytes(s.format, s.value, garbage))
    BY <2>1 DEF Inv, Carried
  <2> QED
    BY <2>1, <2>2, <2>3, WrittenLength
<1> QED
  BY <1>1, Invariant, PTL

\* For every packet and every portable URL: what was serialized is what is parsed.
THEOREM ReadBackHolds ==
  Spec => []ReadBack
<1>1. Inv => ReadBack
  <2> SUFFICES ASSUME Inv, stage = "parsed", Portable(sample),
                      sample.format # "URL" =>
                        Len(buffer) = PacketLength(sample.format, sample.value)
               PROVE  /\ result.ok /\ AsSent(sample, result.value)
                      /\ ReadsAll(sample.format) => result.at = Len(buffer)
    BY PacketOrUrl DEF ReadBack, Inv
  <2>1. PICK s \in Samples : s = sample
    BY DEF Inv
  <2>2. CASE s.format = "URL"
    <3>1. IsUrl(s.value) /\ PortableUrl(s.value)
      BY <2>1, <2>2, OfSamples, PacketOrUrl DEF Portable
    <3>2. buffer = UrlText(s.value) /\ result = ParseURL(UrlText(s.value))
      BY <2>1, <2>2 DEF Inv
    <3>3. LET back == ParseURL(UrlText(s.value))
          IN back.ok /\ SameUrl(s.value, back.value) /\ back.at = Len(UrlText(s.value))
      BY <3>1, UrlReturns
    <3> QED
      BY <2>1, <2>2, <3>2, <3>3 DEF AsSent
  <2>3. CASE s.format # "URL"
    <3>1. s.format \in DOMAIN Structures /\ IsPacketValue(s.format, s.value)
      BY <2>1, <2>3, OfSamples
    <3>2. PICK garbage \in Garbage, n \in 0 .. PacketLength(s.format, s.value) :
            buffer = Sent(s, garbage, n)
      BY <2>1, <2>3 DEF Inv, Carried
    <3>3. Len(buffer) = n /\ n = PacketLength(s.format, s.value)
      BY <2>1, <2>3, <3>1, <3>2, SentBytes
    <3>4. Returns(s, n)
      BY <3>1, PacketReturns
    <3>5. result = ParsePacket(s.format, Sent(s, garbage, n))
      BY <2>1, <2>3, <3>2 DEF Inv
    <3>6. /\ result.ok /\ SamePacket(s.format, s.value, result.value)
          /\ ReadsAll(s.format) => result.at = n
      BY <3>3, <3>4, <3>5 DEF Returns
    <3> QED
      BY <2>1, <2>3, <3>3, <3>6 DEF AsSent
  <2> QED
    BY <2>2, <2>3
<1> QED
  BY <1>1, Invariant, PTL

\* Wherever a packet is cut: Parse throws, or returns what was there.
THEOREM CutNeverInventsHolds ==
  Spec => []CutNeverInvents
<1>1. Inv => CutNeverInvents
  <2> SUFFICES ASSUME Inv, stage = "parsed", sample.format # "URL", result.ok
               PROVE  StartOf(sample, result.value)
    BY PacketOrUrl DEF CutNeverInvents, Inv
  <2>1. PICK s \in Samples : s = sample
    BY DEF Inv
  <2>2. s.format \in DOMAIN Structures /\ IsPacketValue(s.format, s.value)
    BY <2>1, OfSamples
  <2>3. PICK garbage \in Garbage, n \in 0 .. PacketLength(s.format, s.value) :
          buffer = Sent(s, garbage, n)
    BY <2>1 DEF Inv, Carried
  <2>4. Returns(s, n)
    BY <2>2, PacketReturns
  <2>5. result = ParsePacket(s.format, Sent(s, garbage, n))
    BY <2>1, <2>3 DEF Inv
  <2> QED
    BY <2>1, <2>4, <2>5 DEF Returns
<1> QED
  BY <1>1, Invariant, PTL

=============================================================================
