------------------------------ MODULE MCFormats ------------------------------
(***************************************************************************)
(* Packets, URLs and AMF trees for model checking the formats.  A byte has  *)
(* sixteen values, so that 16^3 and 16^4 are the widths of 24 and 32 bits.  *)
(***************************************************************************)
EXTENDS AMFMessages

Integers32 == {0, 1, 291, 4096 + 291, 65535}

Packets(format) ==
  LET names == { Structures[format].reads[i].name : i \in DOMAIN Structures[format].reads }
      Fits(name, v) ==
        \A i \in DOMAIN Structures[format].reads :
          LET f == Structures[format].reads[i] IN
          f.name = name => v < Power(f.size)
      blocks == {"payload", "random_bytes", "random_bytes_echo"}
      numbers == { [x \in names \ blocks |-> IF Fits(x, v) THEN v ELSE v % Radix] :
                     v \in Integers32 }
  IN { [x \in names |->
          IF x \in blocks THEN (IF x = "payload" THEN data ELSE << 7, 0, 15 >>) ELSE p[x]] :
         p \in numbers, data \in {<< >>, << 8 >>, << 9, 4 >>} }

PacketSamples ==
  UNION { { [format |-> f, value |-> p] : p \in Packets(f) } : f \in DOMAIN Structures }

-----------------------------------------------------------------------------
MCPortNumbers == [port \in {"1936", "65536", "65537"} |->
                    CASE port = "1936" -> 1936 [] port = "65536" -> 65536 [] OTHER -> 65537]

Urls ==
  [type : {<<"rtmp">>, <<"rtmps">>}, url : {<<"host">>},
   port : {<< >>, <<"1936">>, <<"65536">>, <<"65537">>, <<"word">>},
   app : {<<"live">>, << >>, <<"live", ":", "1936">>},
   key : {<<"key">>, << >>, <<"key", "/", "1">>, <<"key", ":", "1936">>, <<"key", ":">>}]

URLSamples == { [format |-> "URL", value |-> u] : u \in Urls }

MCSamples == PacketSamples \cup URLSamples

-----------------------------------------------------------------------------
\* Trees with every type, an object in an array in an object, strings longer than
\* 16^2 bytes, and what is not portable or has no length.
Str(s) == [type |-> "STRING", str |-> s]
Num(n) == [type |-> "NUMBER", num |-> << n, 0, 3, 0, 5, 0, 9, 2 >>]
Bool(b) == [type |-> "BOOLEAN", bool |-> b]
Nul == [type |-> "NUL"]
Obj(props) == [type |-> "OBJECT", props |-> props]
Ecma(props) == [type |-> "ECMA_ARRAY", props |-> props]
Root(items) == [type |-> "ROOT", items |-> items]

Long == [i \in 1 .. 258 |-> 1 + (i % 15)]

MCTrees ==
  { Root(<< >>),
    Root(<< Str(<< 4, 2 >>), Num(1), Nul >>),
    Root(<< Str(<< >>), Bool(TRUE), Bool(FALSE), Num(0) >>),
    Root(<< Obj(<< >>), Ecma(<< >>), Nul >>),
    \* An object in an array in an object, and what follows it.
    Root(<< Obj((<< 3 >> :> Str(<< 9, 9 >>)) @@ (<< 3, 1 >> :> Nul)
                  @@ (<< 2 >> :> Ecma(<< 5 >> :> Obj(<< 8 >> :> Bool(TRUE))))),
            Bool(FALSE) >>),
    Root(<< Num(2), Ecma((<< 1 >> :> Num(3)) @@ (<< 6, 6 >> :> Str(<< 1 >>))) >>),
    \* Not portable.
    Root(<< Str(Long) >>), Root(<< Str(<< 1, 0, 2 >>), Nul >>),
    Root(<< Obj((<< 1, 0 >> :> Nul) @@ (<< 1 >> :> Bool(TRUE))) >>),
    Root(<< Obj(<< >> :> Nul), Nul >>),
    Root(<< Obj(<< 1 >> :> [type |-> "UNDEFINED"]) >>),
    Root(<< Obj(<< 1 >> :> [type |-> "UNKNOWN"]) >>),
    Root(<< [type |-> "STRICT_ARRAY"] >>) }
=============================================================================
