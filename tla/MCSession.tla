----------------------------- MODULE MCSession -----------------------------
(***************************************************************************)
(* Client parameters of every shape for model checking Session.             *)
(***************************************************************************)
EXTENDS Session

Base == [DefaultParameters EXCEPT !.app = "live", !.key = "k1"]

VideoOnly ==
  [Base EXCEPT !.has_video = TRUE, !.width = 1, !.height = 2, !.framerate = 3]

AudioOnly ==
  [Base EXCEPT !.key = "k2", !.has_audio = TRUE, !.samplerate = 4, !.channels = 2]

Both ==
  [VideoOnly EXCEPT !.app = "vod", !.width = 5, !.video_codec = 12, !.has_audio = TRUE,
                    !.audio_codec = 2, !.samplerate = 6, !.channels = 1]

AllShapes == {VideoOnly, AudioOnly, Both}
=============================================================================
