----------------------------- MODULE MCLifetimes -----------------------------
(***************************************************************************)
(* TLSObjects over TCPSockets for TLC: two TCPNetwork objects, two          *)
(* OpenSSL_TLS objects.                                                     *)
(***************************************************************************)
EXTENDS TLSObjects, TLC

CONSTANTS o1, o2, s1, s2

MCObjects == {o1, o2}
MCSessions == {s1, s2}
Symmetry == Permutations(MCObjects) \cup Permutations(MCSessions)
=============================================================================
