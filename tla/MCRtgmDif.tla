----------------------------- MODULE MCRtgmDif -----------------------------
(* Instances of RtgmDif for TLC. *)
EXTENDS RtgmDif
=============================================================================
