----------------------------- MODULE MCDegrain -----------------------------
(* Instances of Degrain for TLC. *)
EXTENDS Degrain
=============================================================================
