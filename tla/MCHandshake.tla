----------------------------- MODULE MCHandshake -----------------------------
(***************************************************************************)
(* Transport buffers for model checking Handshake: towards the server just  *)
(* enough for C0 and C1, towards the client a single byte.                  *)
(***************************************************************************)
EXTENDS Handshake

OneDirectionHolds == [s \in Side |-> IF s = "client" THEN 1 + BlockLen ELSE 1]
=============================================================================
