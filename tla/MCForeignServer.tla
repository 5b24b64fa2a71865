--------------------------- MODULE MCForeignServer ---------------------------
(***************************************************************************)
(* Two sets of parameters with keys of their own, for telling setups apart. *)
(***************************************************************************)
EXTENDS ForeignServer

TwoKeys ==
  { [DefaultParameters EXCEPT !.app = "live", !.key = k, !.has_video = TRUE] : k \in {"k1", "k2"} }
=============================================================================
