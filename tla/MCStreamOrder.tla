--------------------------- MODULE MCStreamOrder ---------------------------
(* Instances of StreamOrder for TLC. *)
EXTENDS StreamOrder
=============================================================================
