--------------------------- MODULE MCEndpointDemux ---------------------------
(***************************************************************************)
(* Message sets for model checking EndpointDemux.                           *)
(***************************************************************************)
EXTENDS EndpointDemux

M(cs, type, ts, data) == [cs |-> cs, sid |-> 1, type |-> type, ts |-> ts, data |-> data]

Control(type, n) ==
  [cs |-> 2, sid |-> 0, type |-> type, ts |-> 0, data |-> U32Bytes(n)]

\* Audio and video on chunk streams of their own, as most encoders send them,
\* and a chunk size change that may fall between two chunks of either.  The audio
\* messages have one length and one spacing, where every header format is legal,
\* format 3 also after a full header.
Interleaved ==
  { M(4, "AUDIO", ts, <<10 + ts, 12, 13>>) : ts \in 1 .. 3 }
  \cup { M(6, "VIDEO", 1, <<21, 22, 23, 24, 25>>), Control("SET_CHUNK_SIZE", 1) }

\* Aborts of the video, a message without payload and a control
\* message shorter than its fields.
Faults ==
  { M(4, "AUDIO", 2, << >>), Control("ABORT", 6),
    [Control("WINDOW_ACKNOWLEDGEMENT_SIZE", 9) EXCEPT !.data = <<0, 9>>] }

All == Interleaved \cup Faults

\* The video alone is longer than the first buffers.
ASSUME OneLargeAssumption == \A m \in All : m.cs # 6 => Len(m.data) <= InitMaxMessageSize

\* Two messages, of which a format 3 header may announce the second.
Regular == { M(4, "AUDIO", ts, <<10 + ts, 12, 13>>) : ts \in {2, 4} }

\* Messages longer than the initial buffers on both chunk streams.
BothLarge ==
  { M(4, "AUDIO", 1, <<11>>), M(4, "AUDIO", 2, <<12, 13, 14, 15, 16>>),
    M(6, "VIDEO", 1, <<21, 22, 23, 24, 25>>) }
=============================================================================
