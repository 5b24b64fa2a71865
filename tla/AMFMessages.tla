----------------------------- MODULE AMFMessages -----------------------------
(***************************************************************************)
(* Formats with AMF messages among its samples: a tree of values is         *)
(* serialized and parsed, and may lose its end on the way as a packet does. *)
(***************************************************************************)
EXTENDS Formats, AMFCodec

CONSTANT Trees  \* the values of type ROOT that are serialized

-----------------------------------------------------------------------------
TreeInit ==
  /\ \E tree \in Trees : sample = [format |-> "AMF", value |-> tree]
  /\ stage = "object"
  /\ buffer = << >> /\ written = 0 /\ result = Thrown

SerializeTree ==
  /\ stage = "object" /\ HasLength(sample.value)
  /\ buffer' = Filled(AMFBytes(sample.value), AMFLength(sample.value))
  /\ written' = Len(AMFBytes(sample.value))
  /\ stage' = "whole"
  /\ UNCHANGED <<sample, result>>

\* A value of a type that cannot be serialized: SerializeToBuffer throws.
GetLengthThrows ==
  /\ stage = "object" /\ ~HasLength(sample.value)
  /\ stage' = "refused"
  /\ UNCHANGED <<sample, written, buffer, result>>

ParseTree ==
  /\ stage \in {"whole", "cut"}
  /\ \E beyond \in Byte : result' = ParseAMF(buffer, beyond)
  /\ stage' \in (IF "asserts" \in DOMAIN result' THEN {"parsed", "aborted"} ELSE {"parsed"})
  /\ UNCHANGED <<sample, written, buffer>>

TreeNext == SerializeTree \/ GetLengthThrows \/ Cut \/ ParseTree

FormatsInit == Init \/ TreeInit

FormatsNext ==
  \/ sample.format # "AMF" /\ Next
  \/ sample.format = "AMF" /\ TreeNext

FormatsSpec == FormatsInit /\ [][FormatsNext]_vars

-----------------------------------------------------------------------------
\* Strings that fit their length and a C string; keys that do not end the object.
PortableString(s) == Len(s) < Power(2) /\ 0 \notin Range(s)

RECURSIVE PortableTree(_)
PortableTree(v) ==
  CASE v.type = "STRING" -> PortableString(v.str)
    [] v.type \in Maps ->
         \A key \in DOMAIN v.props :
           key # << >> /\ PortableString(key) /\ PortableTree(v.props[key])
    [] v.type = "ROOT" -> \A i \in DOMAIN v.items : PortableTree(v.items[i])
    [] OTHER -> HasLength(v)

\* Serialize writes just the bytes that GetLength promised, never beyond the
\* buffer.  It writes fewer for strings whose length does not fit in 16 bits.
TreeFillsBuffer ==
  sample.format = "AMF" /\ stage = "whole" =>
    /\ written <= AMFLength(sample.value)
    /\ PortableTree(sample.value) => written = AMFLength(sample.value)

\* Every tree of values that is serialized is the tree that is parsed, whatever
\* follows the buffer in memory, and all of the buffer is used.
TreeReadBack ==
  sample.format = "AMF" /\ stage = "parsed" /\ PortableTree(sample.value)
    /\ Len(buffer) = AMFLength(sample.value) =>
      /\ result.ok /\ result.value = sample.value
      /\ result.at = Len(buffer)

\* How many bytes a tree may lack and be parsed: the mark that ends an object is passed
\* over unseen, so that it need not be there if nothing is to follow it.
Unseen(tree) == IF tree.items # << >> /\ Last(tree.items).type \in Maps THEN 1 ELSE 0

\* Parsing a message that lost its end throws, or returns the first of its values, of
\* which no byte was missing but the END_OF_OBJECT of an object that comes last.
CutTreeNeverInvents ==
  sample.format = "AMF" /\ stage = "parsed" /\ PortableTree(sample.value) /\ result.ok =>
    /\ IsPrefix(result.value.items, sample.value.items)
    /\ AMFLength(result.value) <= Len(buffer) + Unseen(result.value)

=============================================================================
