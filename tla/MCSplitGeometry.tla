--------------------------- MODULE MCSplitGeometry ---------------------------
(* Instances of SplitGeometry for TLC. *)
EXTENDS SplitGeometry

(* Frames a little higher than two margins, cut anywhere: a height that is *)
(* a multiple of four, and one that is not.                                *)
MCConfigs ==
  [height : {38, 40}, splitY : -2 .. 42, side : {"top", "bottom"}, half : BOOLEAN, deint : {TRUE}]
=============================================================================
