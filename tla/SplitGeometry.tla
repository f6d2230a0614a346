---------------------------- MODULE SplitGeometry ----------------------------
(***************************************************************************)
(* Where the rows of a split frame go.  init() cuts the frame at splitY,   *)
(* gives the cheap deinterlacer one side of it and the chain the other,    *)
(* and each of the two a margin of the rows beyond the cut.  For every     *)
(* frame handdif() copies the rows of either side into a band of its own   *)
(* size, and sink() copies the rows each side owns into the output frame.  *)
(*                                                                         *)
(* A row is its number in its plane, and plane 0 is the luma.  What the    *)
(* deinterlacers make of a row depends on the rows around it and on the    *)
(* field they take it for, which is the parity of its place in the band.   *)
(***************************************************************************)
EXTENDS Integers

CONSTANTS
  Configs,              (* what init() may be called with                   *)
  Margin,               (* RTGMDIF_SPLIT_MARGIN                             *)
  Reach                 (* how far above and below a row they look          *)

(* A configuration: half says whether the chroma has half the rows, deint  *)
(* whether the flow deinterlaces.                                          *)
Config == [height : Nat, splitY : Int, side : {"top", "bottom"}, half : BOOLEAN, deint : BOOLEAN]

VARIABLES
  cfg,
  phase,                (* what is done next for the frame                  *)
  owned,                (* cheapY0, cheapY1, chainY0, chainY1               *)
  proc,                 (* cheapProcY0, cheapProcY1, ...                    *)
  band,                 (* the rows in each side's buffers                  *)
  out,                  (* what each row of the output frame was made from  *)
  writes                (* history: how often each row of it was written    *)

bandsVars == << cfg, phase, owned, proc, band, out, writes >>

Sides  == {"cheap", "chain"}
Planes == 0 .. 1

(* The rows first .. end - 1. *)
Rows(first, end) == [from |-> first, to |-> end]

NoRow == -1

BandsInit ==
  /\ cfg \in Configs
  /\ phase = "init"
  /\ owned = [s \in Sides |-> Rows(0, 0)]
  /\ proc = [s \in Sides |-> Rows(0, 0)]
  /\ band = [s \in Sides |-> [p \in Planes |-> << >>]]
  /\ out = [p \in Planes |-> << >>]
  /\ writes = [p \in Planes |-> << >>]

-----------------------------------------------------------------------------
(* init()                                                                  *)

Least(a, b) == IF a < b THEN a ELSE b
Most(a, b)  == IF a < b THEN b ELSE a

(* splitY, held to the frame. *)
SplitY == Most(0, Least(cfg.splitY, cfg.height))

WantSplit == 0 < SplitY /\ SplitY < cfg.height

(* init() refuses the frame's size. *)
SizeRefused == cfg.height <= 0 \/ cfg.height % 2 # 0

(* It refuses the boundary. *)
BoundaryRefused == WantSplit /\ (SplitY % 2 # 0 \/ ~ cfg.deint)

Owned ==
  LET upper == Rows(0, SplitY)
      lower == Rows(SplitY, cfg.height)
  IN  IF cfg.side = "top" THEN [cheap |-> upper, chain |-> lower]
      ELSE [cheap |-> lower, chain |-> upper]

(* Mutant of WithMargin: the margin is on the wrong side of the lower band. *)
WithMarginBelow(r) == Rows(r.from, Least(cfg.height, r.to + Margin))

(* The margin is on the side that faces the other band. *)
WithMargin(r) ==
  Rows(Most(0, r.from - (IF r.from > 0 THEN Margin ELSE 0)),
       Least(cfg.height, r.to + (IF r.to < cfg.height THEN Margin ELSE 0)))

(* check_param() of YADIF and of BWDIF: the chroma of the band they are    *)
(* given has two fields of as many rows.                                   *)
CheapRefused ==
  LET r == WithMargin(Owned["cheap"])
  IN  (r.to - r.from) % (IF cfg.half THEN 4 ELSE 2) # 0

(* Mutant of Split: init() goes on with a band that the cheap deinterlacer *)
(* refuses.                                                                *)
SplitAnyBand ==
  /\ phase = "init"
  /\ ~ SizeRefused /\ ~ BoundaryRefused
  /\ WantSplit
  /\ owned' = Owned
  /\ proc' = [s \in Sides |-> WithMargin(Owned[s])]
  /\ phase' = "crop"
  /\ UNCHANGED << cfg, band, out, writes >>

(* The bands are set before the cheap deinterlacer is, which may fail. *)
Split ==
  /\ phase = "init"
  /\ ~ SizeRefused /\ ~ BoundaryRefused
  /\ WantSplit
  /\ owned' = Owned
  /\ proc' = [s \in Sides |-> WithMargin(Owned[s])]
  /\ phase' = IF CheapRefused THEN "refused" ELSE "crop"
  /\ UNCHANGED << cfg, band, out, writes >>

Unsplit ==
  /\ phase = "init"
  /\ ~ SizeRefused
  /\ ~ WantSplit
  /\ phase' = "whole"
  /\ UNCHANGED << cfg, owned, proc, band, out, writes >>

Refuse ==
  /\ phase = "init"
  /\ SizeRefused \/ BoundaryRefused
  /\ phase' = "refused"
  /\ UNCHANGED << cfg, owned, proc, band, out, writes >>

-----------------------------------------------------------------------------
(* A frame                                                                 *)

(* The number a row of the frame has in a plane. *)
PlaneRow(p, y) == IF p = 0 \/ ~ cfg.half THEN y ELSE y \div 2

(* copyBandIn(): the rows of the frame in the band's plane. *)
Cropped(p, r) ==
  [y \in 0 .. PlaneRow(p, r.to) - PlaneRow(p, r.from) - 1 |-> PlaneRow(p, r.from) + y]

(* handdif() copies the rows of either side into its input buffer. *)
CropBands ==
  /\ phase = "crop"
  /\ band' = [s \in Sides |-> [p \in Planes |-> Cropped(p, proc[s])]]
  /\ phase' = "chain"
  /\ UNCHANGED << cfg, owned, proc, out, writes >>

(* What a deinterlacer makes row y of rows: the row, the field it takes it *)
(* for, and the rows within its reach, of which there are none beyond the  *)
(* edge.                                                                   *)
Deinterlaced(rows, y) ==
  [row   |-> rows[y],
   field |-> y % 2,
   near  |-> [k \in -Reach .. Reach |-> IF y + k \in DOMAIN rows THEN rows[y + k] ELSE NoRow]]

(* The row in the band of side s that goes to row y of the output plane. *)
BandRow(p, s, y) == y - PlaneRow(p, proc[s].from)

(* The rows of the output plane that side s owns. *)
OwnedRows(p, s) == PlaneRow(p, owned[s].from) .. PlaneRow(p, owned[s].to) - 1

FrameRows(p) == 0 .. PlaneRow(p, cfg.height) - 1

(* copyOwnedRows(): the rows side s owns are copied to the output frame. *)
Composite(s) ==
  /\ out' =
       [p \in Planes |->
         [y \in OwnedRows(p, s) \cup DOMAIN out[p] |->
           IF y \in OwnedRows(p, s) THEN Deinterlaced(band[s][p], BandRow(p, s, y))
           ELSE out[p][y]]]
  /\ writes' =
       [p \in Planes |->
         [y \in OwnedRows(p, s) \cup DOMAIN writes[p] |->
           (IF y \in OwnedRows(p, s) THEN 1 ELSE 0)
             + (IF y \in DOMAIN writes[p] THEN writes[p][y] ELSE 0)]]

(* sink() copies the chain's rows first, and the cheap one's after. *)
CompositeChain ==
  /\ phase = "chain"
  /\ Composite("chain")
  /\ phase' = "cheap"
  /\ UNCHANGED << cfg, owned, proc, band >>

CompositeCheap ==
  /\ phase = "cheap"
  /\ Composite("cheap")
  /\ phase' = "done"
  /\ UNCHANGED << cfg, owned, proc, band >>

(* Without a split the frame goes through the chain as it is. *)
PassWhole ==
  /\ phase = "whole"
  /\ out' = [p \in Planes |-> [y \in FrameRows(p) |-> Deinterlaced([r \in FrameRows(p) |-> r], y)]]
  /\ writes' = [p \in Planes |-> [y \in FrameRows(p) |-> 1]]
  /\ phase' = "done"
  /\ UNCHANGED << cfg, owned, proc, band >>

BandsNext ==
  \/ Split \/ Unsplit \/ Refuse
  \/ CropBands \/ CompositeChain \/ CompositeCheap \/ PassWhole

BandsSpec == BandsInit /\ [][BandsNext]_bandsVars

-----------------------------------------------------------------------------

(* Every row of every plane of a composed frame has been written, and by   *)
(* one of the two sides only, wherever splitY is.                          *)
RowsOnce ==
  phase = "done" =>
    \A p \in Planes :
      /\ DOMAIN writes[p] = FrameRows(p)
      /\ \A y \in FrameRows(p) : writes[p][y] = 1

(* Every row is made from itself and from the rows around it that the      *)
(* frame has, as it would be without a split: the boundary row "is an      *)
(* interior row of both filters rather than an edge row" (RtgmDif.h), for  *)
(* every plane and a boundary within a margin of the edge of the frame.    *)
BoundaryIsInterior ==
  phase = "done" =>
    \A p \in Planes : \A y \in DOMAIN out[p] :
      /\ out[p][y].row = y
      /\ out[p][y].near =
           [k \in -Reach .. Reach |-> IF y + k \in FrameRows(p) THEN y + k ELSE NoRow]

(* Every row is taken for the field it is of, in every plane: splitY "has  *)
(* to be even so that the chroma planes of the two bands stay aligned".    *)
FieldsKept ==
  phase = "done" => \A p \in Planes : \A y \in DOMAIN out[p] : out[p][y].field = y % 2

(* Both bands begin where the chroma's fields do.  init() takes other      *)
(* boundaries too: where the cheap side is the lower one of a frame whose  *)
(* height is not a multiple of four, and where it is the upper one and its *)
(* margin ends with the frame.                                             *)
FieldsFit ==
  \/ ~ cfg.half
  \/ cfg.splitY % 4 = 0
  \/ cfg.height % 4 = 0 /\ (cfg.side = "bottom" \/ cfg.splitY + Margin <= cfg.height)

(* Every row is taken for its own field where they do: what check_param()  *)
(* of the cheap deinterlacer refuses is what would not fit.                *)
FieldsKeptWhereTheyFit == FieldsFit => FieldsKept

(* A frame is composed of its two bands as if there had been no split,     *)
(* wherever init() lets the boundary be.                                   *)
BandsCompose == RowsOnce /\ BoundaryIsInterior /\ FieldsKeptWhereTheyFit
=============================================================================
