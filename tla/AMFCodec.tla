------------------------------- MODULE AMFCodec -------------------------------
(***************************************************************************)
(* AMFValue: trees of values as bytes, with GetLength, Serialize and        *)
(* ParseRef.  A value is a record with its type and str, num, bool, props   *)
(* (the map data_object) or items (the list data_array).  A string is a     *)
(* sequence of bytes, a number the eight bytes of a double.                 *)
(***************************************************************************)
EXTENDS PacketFormats, FiniteSets, Functions

Mark == [NUMBER |-> 0, BOOLEAN |-> 1, STRING |-> 2, OBJECT |-> 3, NUL |-> 5,
         UNDEFINED |-> 6, ECMA_ARRAY |-> 8, END_OF_OBJECT |-> 9, STRICT_ARRAY |-> 10]

ParsedTypes == DOMAIN Mark \ {"END_OF_OBJECT"}
Maps == {"OBJECT", "ECMA_ARRAY"}

\* GetLength and Serialize throw for the other types, which operator[] makes
\* (UNKNOWN) and ParseRef returns (UNDEFINED, STRICT_ARRAY).
RECURSIVE HasLength(_)
HasLength(v) ==
  CASE v.type \in Maps -> \A key \in DOMAIN v.props : HasLength(v.props[key])
    [] v.type = "ROOT" -> \A i \in DOMAIN v.items : HasLength(v.items[i])
    [] OTHER -> v.type \in {"STRING", "NUMBER", "BOOLEAN", "NUL"}

RECURSIVE ValueLength(_)
ValueLength(v) ==
  CASE v.type = "STRING" -> Len(v.str) + 2 + 1
    [] v.type = "NUMBER" -> 8 + 1
    [] v.type = "BOOLEAN" -> 2
    [] v.type = "NUL" -> 1
    [] v.type \in Maps ->
         1 + 2 * Cardinality(DOMAIN v.props) + 3 + (IF v.type = "ECMA_ARRAY" THEN 4 ELSE 0)
           + MapThenSumSet(LAMBDA key : Len(key) + ValueLength(v.props[key]), DOMAIN v.props)
    [] v.type = "ROOT" -> FoldLeft(LAMBDA n, item : n + ValueLength(item), 0, v.items)

\* Wrong on purpose, for the mutation runs: the count of an array is forgotten.
RECURSIVE LengthWithoutCount(_)
LengthWithoutCount(v) ==
  CASE v.type \in Maps ->
         1 + 2 * Cardinality(DOMAIN v.props) + 3
           + MapThenSumSet(LAMBDA key : Len(key) + LengthWithoutCount(v.props[key]),
                           DOMAIN v.props)
    [] v.type = "ROOT" -> FoldLeft(LAMBDA n, item : n + LengthWithoutCount(item), 0, v.items)
    [] OTHER -> ValueLength(v)

AMFLength(v) == ValueLength(v)

-----------------------------------------------------------------------------
Short(n) == WriteDataType(n, 2, 2, FALSE, << >>)

\* Length and bytes, of which a string of Power(2) bytes or more loses some.
StringBytes(s) == Short(Len(s)) \o SubSeq(s, 1, Len(s) % Power(2))

\* The order of the keys in a std::map.
Before(a, b) ==
  \/ IsStrictPrefix(a, b)
  \/ \E i \in DOMAIN a \cap DOMAIN b : a[i] < b[i] /\ \A j \in 1 .. i - 1 : a[j] = b[j]

RECURSIVE AMFBytes(_)
AMFBytes(v) ==
  LET Pairs(props) ==
        FoldLeft(LAMBDA bytes, key : bytes \o StringBytes(key) \o AMFBytes(props[key]),
                 << >>, SetToSortSeq(DOMAIN props, Before))
      Type == << Mark[v.type] >>
  IN CASE v.type = "STRING" -> Type \o StringBytes(v.str)
       [] v.type = "NUMBER" -> Type \o Converted(v.num)
       [] v.type = "BOOLEAN" -> Type \o << IF v.bool THEN 1 ELSE 0 >>
       [] v.type = "NUL" -> Type
       [] v.type \in Maps ->
            Type
              \o (IF v.type = "ECMA_ARRAY"
                  THEN WriteDataType(Cardinality(DOMAIN v.props), 4, 4, FALSE, << >>)
                  ELSE << >>)
              \o Pairs(v.props) \o Short(0) \o << Mark.END_OF_OBJECT >>
       [] v.type = "ROOT" ->
            FoldLeft(LAMBDA bytes, item : bytes \o AMFBytes(item), << >>, v.items)

-----------------------------------------------------------------------------
(* ParseRef: at is the number of bytes consumed, which OffsetParser moves   *)
(* without a check; beyond is the byte that follows the buffer in memory.   *)

\* Wrong on purpose, for the mutation runs: a length is read in the host's order.
ShortInHostOrder(buffer, at) == ReadDataType(0, Part(buffer, at, 2), 2, TRUE)

ShortAt(buffer, at) == ReadDataType(0, Part(buffer, at, 2), 2, FALSE)

\* A type byte that ParseRef does not know: assert(false), which ends a debug build,
\* and in a release build the throw that follows it.
Asserted == [ok |-> FALSE, asserts |-> TRUE]

\* std::string from a char pointer.
CString(s) == SubSeq(s, 1, SelectInSeq(Append(s, 0), LAMBDA byte : byte = 0) - 1)

ParseString(buffer, at) ==
  LET n == ShortAt(buffer, at) IN
  IF ~Has(buffer, at, 2) \/ ~Has(buffer, at + 2, n) THEN Thrown
  ELSE Parsed(at + 2 + n, [type |-> "STRING", str |-> CString(Part(buffer, at + 2, n))])

\* insert keeps what a key already has; an empty key ends the object, and the mark
\* after it is passed over unseen.
RECURSIVE ParseValue(_, _, _), ParsePairs(_, _, _, _)
ParsePairs(buffer, at, beyond, props) ==
  LET n == ShortAt(buffer, at)
      v == ParseValue(buffer, at + 2 + n, beyond)
  IN CASE ~Has(buffer, at, 2) -> Thrown
       [] Has(buffer, at, 2) /\ n = 0 -> Parsed(at + 2 + 1, props)
       [] Has(buffer, at, 2) /\ n # 0 /\ ~Has(buffer, at + 2, n) -> Thrown
       [] OTHER ->
            IF v.ok
            THEN ParsePairs(buffer, v.at, beyond,
                            props @@ (CString(Part(buffer, at + 2, n)) :> v.value))
            ELSE v

ParseMap(type, buffer, at, beyond) ==
  LET pairs == ParsePairs(buffer, at, beyond, << >>)
  IN IF pairs.ok THEN Parsed(pairs.at, [type |-> type, props |-> pairs.value]) ELSE pairs

ParseValue(buffer, at, beyond) ==
  LET mark == IF at < Len(buffer) THEN buffer[at + 1] ELSE beyond
      types == { t \in ParsedTypes : Mark[t] = mark }
      type == CHOOSE t \in types : TRUE
      after == at + 1
  IN CASE types = {} -> Asserted
       [] type = "STRING" -> ParseString(buffer, after)
       [] type = "NUMBER" ->
            IF ~Has(buffer, after, 8) THEN Thrown
            ELSE Parsed(after + 8, [type |-> type, num |-> Converted(Part(buffer, after, 8))])
       [] type = "BOOLEAN" ->
            IF ~Has(buffer, after, 1) THEN Thrown
            ELSE Parsed(after + 1, [type |-> type, bool |-> Part(buffer, after, 1) # <<0>>])
       [] type = "OBJECT" -> ParseMap(type, buffer, after, beyond)
       [] type = "ECMA_ARRAY" ->
            IF ~Has(buffer, after, 4) THEN Thrown
            ELSE ParseMap(type, buffer, after + 4, beyond)
       [] OTHER -> Parsed(after, [type |-> type])

\* A ROOT takes values until nothing is left.
RECURSIVE ParseItems(_, _, _, _)
ParseItems(buffer, at, beyond, items) ==
  IF at >= Len(buffer) THEN Parsed(at, [type |-> "ROOT", items |-> items])
  ELSE LET v == ParseValue(buffer, at, beyond)
       IN IF v.ok THEN ParseItems(buffer, v.at, beyond, Append(items, v.value)) ELSE v

ParseAMF(buffer, beyond) == ParseItems(buffer, 0, beyond, << >>)

=============================================================================
