---------------------------- MODULE MCDataLayers ----------------------------
(***************************************************************************)
(* DataLayers for TLC: a message that fits a record, one that fills it, one *)
(* that takes two, through sockets that hold less than the longest.         *)
(***************************************************************************)
EXTENDS DataLayers

MCSizes == 1 .. 3
=============================================================================
