--------------------------- MODULE MCForeignClient ---------------------------
(***************************************************************************)
(* What other encoders send, for model checking ForeignClient.              *)
(***************************************************************************)
EXTENDS ForeignClient

Commands ==
  { Command("connect", 1, "live"), Command("connect", 1, "none"),
    Command("createStream", 2, ""), Command("publish", 5, "k1"),
    [type |-> "AMF0", name |-> "publish", id |-> 5], Command("deleteStream", 6, "") }

Descriptions ==
  { Metadata([width |-> 1, height |-> 1, videocodecid |-> Number(7), framerate |-> 1]),
    Metadata([width |-> 2, height |-> 2, videocodecid |-> Text("hevc")]),
    [Metadata([width |-> 3, framerate |-> 3]) EXCEPT !.type = "AMF0", !.name = "onMetaData"],
    Metadata([audiocodecid |-> Text("opus"), audiosamplerate |-> 4, stereo |-> TRUE]),
    Metadata([width |-> 4, height |-> 4, videocodecid |-> Number(2), audiocodecid |-> Number(2),
              audiochannels |-> 1]),
    Metadata([width |-> 5, height |-> 5, videocodecid |-> [type |-> "NUL"],
              audiocodecid |-> [type |-> "NUL"]]) }

\* @setDataFrame of something else, which brings no properties.
OtherFrames == { [type |-> "METADATA_AMF0", name |-> "@setDataFrame", frame |-> "onCuePoint"] }

AnyMessages ==
  Commands \cup Descriptions \cup OtherFrames
  \cup { [type |-> "VIDEO", whole |-> TRUE], [type |-> "AUDIO", whole |-> FALSE],
         Control("WINDOW_ACKNOWLEDGEMENT_SIZE") }
=============================================================================
