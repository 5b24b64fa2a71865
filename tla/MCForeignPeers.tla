--------------------------- MODULE MCForeignPeers ---------------------------
(***************************************************************************)
(* Both kinds of foreign peers for model checking ForeignPeers.             *)
(***************************************************************************)
EXTENDS ForeignPeers, MCForeignServer, MCForeignClient
=============================================================================
