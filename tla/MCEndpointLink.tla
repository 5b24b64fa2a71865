--------------------------- MODULE MCEndpointLink ---------------------------
(***************************************************************************)
(* Message sets and arguments for model checking EndpointLink.              *)
(***************************************************************************)
EXTENDS EndpointLink

\* The hypotheses of the theorems in EndpointLink_proofs.
ASSUME CarriedAssumption == U64 % U24 = 0 /\ CarriedMessages

M(cs, sid, type, ts, data) ==
  [cs |-> cs, sid |-> sid, type |-> type, ts |-> ts, data |-> data]

\* Pairs of these meet every header format: the same shape again (2), another
\* length or type (1), another stream id or an earlier timestamp (0), one
\* chunk or several, one chunk stream or two; and two timestamps need more than
\* three bytes.
MixedMedia ==
  { M(4, 1, "AUDIO", 1, <<11>>),
    M(4, 1, "AUDIO", 3, <<12>>),
    M(4, 1, "AUDIO", 2, <<13, 14, 15>>),
    M(4, 1, "VIDEO", 17, <<16, 17, 18>>),
    M(4, 2, "VIDEO", 10, <<19, 20, 21, 22, 23, 24, 25, 26, 27>>),
    M(5, 1, "AUDIO", 2, <<28, 29>>) }

SomeCommands == { <<31, 32, 33>> }
SomeUserControls == { <<0, 0, 0, 0, 0, 0>> }
SomeWindowSizes == {260}
ChunkSizeChanges == {1, 4}

\* Two messages on one chunk stream, one beyond three bytes.
WideMedia == { M(4, 1, "AUDIO", ts, <<11, 12, 13>>) : ts \in {7, 8} }

NoCalls == {}
=============================================================================
